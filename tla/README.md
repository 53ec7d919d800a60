# Podbay in TLA+

Podbay is a command-line program that takes a *contract* (`podbay.yaml`: services,
their dependencies, health probes, networks, volumes) and makes Podman run it.
There is no daemon and no lock: every command is a process of its own that reads
the contract, calls `podman` one command after the other, and exits. What makes it
hard is therefore not inside one process but around it. Containers crash and become
healthy between two calls. A command is killed, or fails, halfway, and the next one
starts from what is left. Two commands run at the same time. The contract is edited
while a command works. And every command has to work on exactly the services it was
asked for, in an order the dependencies allow.

This directory models that: the selection and ordering of services, the health gate,
`podbay deploy` with its gates and receipts, `podbay down`, the two of them on one project,
the files a deploy reads and the receipts it leaves, the commands that only look (`ps`, `diff`,
`explain`, `onboard`, `logs`), and those that make a contract (`import`, `init`).

## 1. The system

| component | source | state | operations | talks to |
|---|---|---|---|---|
| contract graph | `internal/spec/graph.go`, `profiles.go` | none (pure) | select services by profile, name and `--dependents`; order them (Kahn) | every command |
| contract loading | `internal/spec/contract.go`, `yaml.go`, `load_cache.go` | memo of parsed contracts | load, normalise | every command |
| preflight | `internal/validate`, `deploy/preflight.go` | none | check the contract and the host | deploy, `validate` |
| deploy | `internal/deploy` | its `deployContext`, in memory only | networks, volumes, services in order, gates, receipt | Podman, receipts |
| health gates | `deploy/health_wait.go`, `runner/runner.go` | a deadline | poll an HTTP or exec probe | deploy, explain |
| receipts | `deploy/receipt.go`, `internal/receipt` | files in a directory | write atomically, decode, list, last-ok, compare, hand off | deploy, diff |
| Podman adapter | `internal/runner` | none | one `podman` call each | Podman |
| teardown | `internal/teardown`, `cmd/podbay/lifecycle.go` | its `TeardownResult` | list, remove containers, networks, volumes | Podman |
| expansion | `internal/expand` | memo of env files | substitute variables, merge env files | validate, deploy, explain |
| observation | `internal/ps`, `explain`, `diff`, `logs`, `runtimestate`, `orientation` | none | list, inspect, probe, compare | Podman, receipts |
| Compose import | `internal/composefile`, `composeimport` | none | include, extends, translate | `import` |
| output | `internal/clijson`, `explain/json.go`, `ps/json.go` | none | JSON documents | every command |

Shared state is in three places only: the Podman engine (containers, networks and
volumes, all named after the project), the contract file, and the receipt files. The
engine also changes on its own. In-process concurrency exists in one place, the
parallel probes of `explain`.

What makes each component correct:

* graph: the selection is what was asked for and nothing else; the order respects
  the dependencies, is complete and is the same every time; cycles are found.
* deploy: no service is taken down or started ahead of what it depends on, neighbours
  of a partial deploy are left alone, every run ends unless an exec probe never answers.
* receipts: a receipt tells the truth about the run that wrote it.
* teardown: a partial one removes only what it names; data and networks go only when
  they may; a clean exit means a clean slate.
* health gates: a gate gets the time it asks for within the limit, fails only after a probe
  that did not succeed, and ends.
* receipt store: a crash leaves the old receipt or the new one; a listing misses nothing that
  was there all along; last-ok is the newest success.
* receipt comparison: drift is reported exactly when the two receipts cannot tell of the same
  deployment.
* expansion: the texts of the contract are expanded as the list of forms says, later files win, and no
  memo ever answers for a file as it was before the load that asks.
* observation: with nothing else going on a report is true; whatever goes on, every single
  claim was true while the command ran; every command comes back.
* import and init: a project is refused for a reason it gives and for no other; the nearest
  definition of a service wins; the contract made has the edges the files say, among services and networks
  it declares; a contract that was there is left alone.

Everything that is hard to test in this code is listed, at its line, under "hazards"
in `PROJECT.json`, with the properties that cover it, or the reason why none does.

## 2. The modules

| module | models | kind |
|---|---|---|
| `Contract` | contracts, and the selection functions as operators | pure |
| `ServiceGraph` | the same selection and both topological sorts, loop by loop | state machine |
| `MCServiceGraph` | all graphs on three services | TLC |
| `ServiceGraphProofs` | theorems about `ServiceGraph` | TLAPS |
| `Podman` | the engine: containers, networks, volumes, and what they do on their own | state |
| `Deploy` | `podbay deploy`, any number of processes | state machine, extends `Contract`, `Podman` |
| `Rollout` | what a deploy promises | abstract specification |
| `MCDeploy` | a database, an API and a web front end, two versions of the contract | TLC |
| `DeployProofs` | theorems about `Deploy`: what it starts, its receipts, and that it implements `Rollout` | TLAPS |
| `HealthGate` | one health gate and its time budget | state machine |
| `Gate` | what a health gate promises to deploy | abstract specification |
| `MCHealthGate` | gates of seven shapes, in ticks of half a second | TLC |
| `HealthGateProofs` | theorems about `HealthGate` | TLAPS |
| `Teardown` | `podbay down` / `teardown` | actions, extends `Contract`, `Podman` |
| `Lifecycle` | `Deploy` and `Teardown` over one engine and one contract file | composition |
| `MCLifecycle` | two services, one deploy, two downs | TLC |
| `LifecycleProofs` | theorems about deploys and downs on one project | TLAPS |
| `ReceiptCompare` | receipts as values: which are valid, how two compare | pure |
| `ReceiptStore` | a directory of receipts, deploys writing, `receipt ...` and `diff` reading, crashes | state machine, extends `ReceiptCompare` |
| `AtomicStore` | what `WriteAtomic` promises | abstract specification |
| `ReceiptStoreProofs` | theorems about `ReceiptStore` | TLAPS |
| `Observe` | `ps`, `diff`, `explain`, `onboard`, `logs` | state machine, extends `Contract`, `Podman` |
| `ObserveProofs` | theorems about `Observe` | TLAPS |
| `Maps` | one map put over another | pure |
| `Expansion` | variable substitution | pure |
| `Inputs` | contract, env files and their memos, phase by phase through one deploy | state machine, extends `Expansion` |
| `ComposeImport` | `import compose` and `init` | state machine |
| `ImportWalks` | which imports should be refused, by walks through the include graph | reference definitions, extends `ComposeImport` |
| `ImportReference` | what each service should come to, by the definitions it descends from | reference definitions, extends `ImportWalks` |
| `MCImport` | Compose projects of four files | TLC |
| `ImportProofs` | theorems about `ComposeImport` | TLAPS |
| `MCInputs` | two contracts, two env files | TLC |
| `InputsProofs` | theorems about `Inputs` | TLAPS |
| `MCCommands` | the last five together, one task per behaviour | TLC |

### Contract and ServiceGraph

A contract is a record of the service set, the `depends_on` entries (service and
condition), the profiles, and the services that have a probe. Images, ports and
environment are left out: no selection, order or phase decision reads them.

`ServiceGraph` runs `ServicesForDeployTargets`, the passes of
`ExpandDependentsTransitive`, and `TopologicalOrder` or `TopologicalOrderSubset`, one
loop turn per action. Services are numbers, the ranks of their names, because the code
breaks ties with `sort.Strings`; the queue is re-sorted after each pop, so it is a set
whose least member is taken. Go's map iteration order does not appear: the code sorts
what it collects from maps, and `OrderIsDeterministic` shows that nothing of it is
left. `Contract` states the result of the selection as a least closed set; the property
`SelectionAgrees` says that the loops compute the same, which is
what lets `Deploy` and `Teardown` use the operators.

### Podman

`ctr` maps a container name to a container (who created it, its state, whether its
probe would succeed now, the networks and volumes it uses) or to `Absent`; `nets` and
`vols` are those that exist. Containers crash, are restarted by their restart policy,
and change health at any moment (`EngineStep`). This is not podbay's code: it is
modelled from what `internal/runner` relies on, and marked external in `PROJECT.json`.

### Deploy

One action per Podman call. `pc[r]` is the phase of process `r`:

    networks <-> newnet   prepareNetworks / EnsureNamedNetwork: exists, then create
    volumes  <-> newvol   prepareVolumes / EnsureVolume: exists, then create
    prepare               expansion, vault, build, environment: touches no container
    external <-> extgate  waitExternalDependsOn: running? then the gate
    (RemoveOld)           podman rm -f
    start                 podman run; broken: it created the container but failed
    gate                  waitServiceHealth
    receipt / attempt     writeDeployReceipt / maybeWriteAttemptReceipt
    ok failed rejected killed

`Begin` is the command line, the load, preflight and `newDeployContext` in one step (none of
it touches shared state); the order is any dependency order, of which `ServiceGraph`
shows the code picks one. `StepFails` is every other error return: no undo, no receipt.
`Kill` can come at any point; a process that ends loses its memory (`Exit`). `Edit`
changes the contract file, between runs or also during one (`Editable`).

Decisions worth knowing:

* Networks and volumes are checked in any order; the code uses name order, which no
  property depends on.
* External dependencies are checked in any order; the code uses the contract's.
* A gate passes when a probe succeeds and fails when a probe fails and the time is up.
  Time is not modelled here, so a failing probe may be the last one at any time;
  `HealthGate` has the time, and implements just this (`Gate`).
* The services in `ExecProbed` are probed by `podman exec`, which has no deadline. While the container of such a
  gate runs, its probe may hang (`ProbeMayHang`), and no fairness makes the gate end.
* The receipt write is atomic, as `WriteAtomic` makes it; every run has its own file, as
  with a directory for `--receipt`.
* Preflight also checks files, ports and commands on the host. Such a rejection looks
  like `Reject`, which touches nothing.

### Rollout

The abstract specification: a run announces a plan (services and what each needs),
replaces containers one by one, each only when all it needs has been through, and
leaves evidence: "ok" only when the whole plan is through, "failed" otherwise. Ownership of a
service's container changes in no other way. `Deploy!Promise` is the refinement
mapping: the plan is the selection with the dependencies inside it, a service is
through when its turn in the loop is over, the owner of a service is the run that
created its container. Its parts have names (`Status`, `Plans`, `Rolled`, `Owner`, `Evidence`),
so that the proof can say of each step which of them it changes.

### HealthGate and Gate

One `waitServiceHealth`: `Total` is the budget that `healthTiming` and its caller compute,
and the actions are the loop of `WaitHTTPHealth` or `WaitExecHealth`. `phase` is where
the loop is (`poll`: at its condition; `probing`; `inspect`: the `podman inspect` after a failed
exec; `asleep`), `since` when the probe or sleep began, `clock` the time since the gate
began. A duration is any integer or `Unset`, as `time.ParseDuration` accepts zero and negative ones.
The application (`app`) answers, answers badly, does not answer or is gone, and changes
between any two steps. An HTTP probe is cut off after its limit, an exec probe is not, and
`Horizon` bounds for how long such a probe is followed. Not modelled: the 64-bit overflow of
a budget beyond 292 years, and sleeping longer than asked.

`Gate` is what `Deploy` takes a gate for: open, then passed at a moment when the probe
succeeds or failed at one when it does not. In the code the loop is left only after the
sleep that follows the last probe, and the service may have become healthy by then; the
refinement mapping (`Verdict`) therefore says that the gate has failed as soon as its fate is
sealed, which is at the last probe.

### Teardown and Lifecycle

`stage[d]` follows `teardown.Execute`: list, remove (`podman rm -f`, result ignored), list
again, networks, volumes. `EngineUnavailable` is the engine being down ("already down", exit
0), `ListFails` any other list error, `NetworkRefused` a warning, `VolumeRefused` the
fatal error. `stale` allows a list to come back empty while another run is at work:
`ProjectPs` reads a race with a vanishing container that way. `Lifecycle` puts deploys
and downs on one engine and contract file; `overlapped` is a history variable that says
which runs ever had company.

### ReceiptCompare, ReceiptStore and AtomicStore

`ReceiptStore` has one action per system call of `WriteAtomic` (`CreateTemp`, `WriteBody`, `SyncBody`,
`Rename`, `SyncDir`), with a failure or a kill after each, and one per directory read, file read
and answer of the reading commands. A file is identified by who made it, so that two
names, or a name and what the disk has for it, can lead to the same file: `files` is the directory as
processes see it, `onDisk` as it survives a power loss, `synced` the files whose content survives
one. `Writeback` is the file system catching up by itself. `SyncDir` may fail silently, since the code
ignores its result. The creation of the directory is not modelled: `MkdirAll` does not sync the
parent, so a power loss can take a whole new directory, which this model does not show.

Writers in directory mode have a path of their own (time and deploy id), in file mode they
share one. The readers are `receipt list`, `last-ok`, `handoff`, `read`, `diff` of two files
(`Detect`: both are decoded once to find out that they are receipts, then read again) and `diff --vs-last-ok`.
`ReceiptCompare` has a receipt's lists as sequences, because the code sorts copies before it
compares, and takes the last record where a service has two.

`AtomicStore` has whole receipts that are put, taken away, settled, or lost with everything
since the last settling. The refinement mapping: `visible` is what a reader gets at each path, `stable` what
it would get after a power loss, `Blank` where a file's content is not safe. `Blank` is no receipt of
`AtomicStore`, so a path that could come back empty breaks the refinement.

### Observe

One action per `podman` call and per probe. `opc` is the stage: `list` (`podman ps`), `inspect` (all
names in one call), `one` (each by itself, when that failed), `probe`, `logs`. `Moves` bounds how often a
container or the engine changes meanwhile. `InspectOne` reads every error as "missing", as
`InspectContainer` does; `ListContainers` may find nothing when a container has vanished since the command began.
The probes of `explain` run concurrently in the code: `look` is the set of those still running, and
they end in any order. `moments` remembers every state of the containers during the command, so that
a claim can be held against the moment it was made about. The next actions are one of four groups
(`idle`, `arrive`, `repair` with a service, `observe`).

### Expansion and Inputs

A text is a sequence of tokens: a dollar sign, a name, a brace group, other text. `Pass` is one
regular-expression replacement, `Substitute` the three of them in their order. `Inputs` follows one
deploy through every place that reads or expands: the lookup of an argument that may be a
path or a service, the load memo, preflight (two expansions of each service), volumes, the start of the
container, the receipt. `LoadHostSubst` is not atomic, and is not one action: it looks for the well-known files
one after another (`LookForEnvFile`), then reads them one after another (`ReadEnvFile`, `HostUnreadable`), with edits
in between; `held` remembers what each file has held since the load first looked, so that `LoadsAreFresh` can say of
each text that it was there. The `Stat` and the `ReadFile` of one file are one action, because a file missing for
either sets nothing. A memoised contract is an object, `loaded` with what it was parsed from and
`url` with what its health URL points to now, since `ExpandService` writes through that pointer.

### ComposeImport, ImportWalks and ImportReference

Files are read depth first. `stack` holds the files whose include lists are worked through, `chain` the
services whose `extends` is being followed, `memo` those resolved. Each check of the code (kind, escape,
cycle, depth, readability) is a guard with its code as outcome. A service record has one field for
every way two of them merge. The outcome of a refusal is the code of the JSON document: an error of the include
checks or of the parser keeps its code through the wrapping, when it comes from `extends` too (`ParentRefused`), and every
other one has that of the command (`Uncoded`). What the YAML syntax allows for each field, and fields that merge
like another, are left out. Two modules say without a stack what the result should be. By
`ImportWalks` a refusal must have a walk through the include graph to show for it, or, with the two codes `extends`
shares with includes, a line of `extends` from a file on such a walk; and an import that is translated must have
neither. By `ImportReference` a service is what the line of definitions it
descends from adds up to: recursive functions (of the levels of includes, and of the steps along
`extends`), so that it can be proved about as well. `ImportedEdgesAreRight` compares the edges of the contract
written with those of these lines. It does not say that `validate` accepts the contract, which need not be so: the
import makes no check for dependency cycles (`validate.go:123`), for dependencies behind a profile that is not active
(`validate.go:184`) or for a `healthy` dependency without a probe (`validate.go:191`), and the instance has projects of the
last two kinds, which are translated. Both are checked on four files and proved for all.

## 3. The runs

| run | bounds | states | what it shows |
|---|---|---|---|
| `service_graph` | 3 services, all 512 relations x all bases x all roots x `--dependents` | 224,699 | `SelectionIsLeast`, `SelectionAgrees`, `OrderRespectsDeps`, `NoServiceTwice`, `CycleVerdict`, `OrderIsDeterministic`, `SelectionTerminates` |
| `deploy_sequential` | 3 services, 2 contracts, 5 command lines, 2 runs one after the other, 2 networks (one external), 1 volume | 34,893 | `TypeOK`, `StartJustified`, `OkReceiptTruthful`, `AttemptReceiptTruthful`, `KeepsPromise` |
| `deploy_overlap` | one contract with an exec gate and an HTTP gate, the 2 runs interleaved | 97,154 | `StartJustified`, `OutsideUntouched`, `RunsTerminate` |
| `health_gate` | 7 settings: minimum, default pause, cut by the limit, limit below the minimum, no limit, two exec gates; any behaviour of the application | 37,483 | `BudgetIsClamp`, `NeverGivesUpEarly`, `OvershootBounded`, `ActsAsGate`, `GateEnds` |
| `lifecycle` | 2 services, 1 deploy, 2 downs, 6 down command lines, any interleaving | 892,122 | `NobodyElseTouched`, `DataKept`, `CleanSlate`, `NetworksKept` |
| `other_commands` | receipts: 2 writers, 1 reader, 4 paths, 7 requests, one power loss; looking: 3 services, 7 starting sets of containers, 8 questions, 2 changes; Compose: 4 files, chains of 3; inputs: 2 contracts, 2 env files, 2 edits | 483,489 | `StoreIsAtomic`, `AckedSurvives`, `InventoryIsHonest`, `ComparisonIsHonest`, `QuietReportIsTrue`, `EveryClaimWasTrue`, `ObservationEnds`, `ImportVerdictIsRight`, `NearestDefinitionWins`, `ImportedEdgesAreRight`, `TargetIsSafe`, `LoadsAreFresh` |
| `attempt_receipt` | as `deploy_sequential` | | violated, see section 5 |
| `contract_edited` | as `deploy_sequential`, edits during a run | | violated |
| `named_down` | 2 services, both with a profile; `down api` | | violated |
| `stuck_container` | 2 services, `podman rm` may fail for one | | violated |
| `health_class` | the default HTTP gate | | violated |
| `escaped_dollar` | the inputs of `other_commands`, no edits | | violated |

Why the bounds are enough. The graph code compares services pairwise and by position;
three services give chains, diamond-free forks and joins, cycles of every length up to
three, self-dependencies and components that are not connected, and the theorems of
section 4 cover any number. For deploy, three services allow a chain with a shortcut
(web needs db healthy and api started, api needs db healthy), a partial deploy whose
dependencies are outside, one inside and one outside with `--dependents`, an optional
service behind a profile, and a gated service that nobody waits for in the other version of the
contract. Two runs are enough for "what an earlier run left" and for "another run at the same
time". In `lifecycle` one service is behind a profile, so that the commands differ in
what they select, and the second down is there because two of them remove the same things.

In `other_commands` two writers are enough for two files under one path, and one reader because readers do
not touch anything. Crashes and readers are two tasks: what a reader finds while nothing crashes is
richer than what it finds after a crash, which is a directory like any other (`Found` has those).
Two changes during a command are what it takes for a container to be
replaced (gone, then new) between two looks. Three services give one asked about, one next to it and one
behind a profile; `left` is a container no service accounts for. The limit of 16 on Compose chains is 3
here: it enters the code only in comparisons with the length of a chain, and four files
reach it, exceed it by one, and form cycles of length one, two and three. Two edits allow a file
to change and change back, and both files to change between two reads of one load. The Compose projects are three
families: every include graph over short lists, every way services are spread over three files and extend each other, and
services whose `extends` leads to files that are missing, malformed or outside, directly and through others.

The gate's settings are chosen so that each minimum and maximum in the budget decides
in one of them; the budget itself is proved for all.

`MCCommands` puts five state machines that share no state into one run; a behaviour is about one of them
(`task`), and the variables of the others keep one value.

Symmetry is used on run and down identifiers, which no definition distinguishes, and
only in runs without liveness properties. `deploy_overlap` and `other_commands` check liveness and use none.
`CHECK_DEADLOCK FALSE` everywhere: commands end, and a project on which nobody does
anything more is a legitimate final state.

Fairness. `ServiceGraph` is one sequential computation: weak fairness of its
next-state relation says the process is not stopped. `Deploy!FairSpec` asks weak fairness of
each run's own steps: a process that can do something eventually does it. It asks
nothing of the user, of containers or of health, and in particular it does not ask a gate to
pass; the steps it does ask for include failing. An HTTP probe has a deadline, so an HTTP gate comes to
an end. An exec probe has none (`runner.go:405`, `:443`): a gate is not asked to end while its probe may hang
(`ProbeMayHang`), and `RunsTerminate` excepts a run that is found there again and again. Once the container of the
gate is gone or has exited, the probe fails and so does the gate. That the other Podman calls return is an
assumption; the code gives them no deadline either. `HealthGate!FairSpec` asks that the loop and the clock go on and nothing of the
application, and `GateEnds` names the exception: a gate ends, or its exec probe is found
hanging again and again. In `other_commands` weak fairness is asked of `Observation` alone, the steps of the
command that looks: `podman` calls return and the probes of `explain` have deadlines
(`explain/timeout.go:16`). Containers, the engine, editors and crashes owe nothing.

## 4. The proofs

`ServiceGraphProofs` proves, for any finite set of services and every graph on it:

* `TypeCorrect`, `SelectionCorrect` (`SelectionIsLeast`), `OrderCorrect`
  (`OrderRespectsDeps`), `OrderHasNoDuplicates` (`NoServiceTwice`) and `CycleDetection`
  (`CycleVerdict`),
* `OrderDeterminism` (`OrderIsDeterministic`) and `SelectionAgreement` (`SelectionAgrees`),

from the assumption `NodeAssumption` (the services are finitely many and ranked).

The properties are not inductive: that a placed service has its dependencies placed
follows only from what the in-degrees mean. The invariant `IInv` says that, while
popping, the in-degree of a selected service is the number of its dependencies not
placed yet, that the queue holds exactly the unplaced services with in-degree zero, that
no service is placed twice, and, while expanding, that the selection lies inside every
closed set. That a cycle verdict is no false alarm is then: the unplaced services all
have an unplaced dependency, so they wait for each other.

`GreedyInv` is what determinism needs on top: whatever could have taken the i-th place (not
placed before, its dependencies are) is not before the i-th service by name. It holds because the
queue holds everything that is ready. At the first place where another dependency order differs,
the service it has there was ready too, so it is a greater one.

`DeployProofs` proves, for any contracts, commands, networks, volumes and number of
runs, overlapping or not:

* `TypeCorrect`: `Spec => []TypeOK`.
* `DependenciesFirst`: `Spec => []StartJustified`, the main safety property of deploy.

from `DeployAssumption` (services finite, names total, contracts and commands well-formed)
and `PodmanAssumption`. `StartJustified` looks at the service at hand and the services
done; what carries it through a run is in `RunInv`: the order is a dependency order of
the selection and preflight held (`Prepared`), every service done passed its external
checks and the gate it had to pass (`LoopInv`), and at each stage the dependencies no longer on
the to-do list have been checked (`StageInv`). No step of another run, of a
container or of the user touches these variables (`RunSame`, `Elsewhere`), which is why
the theorem needs nothing about interleaving. `CheckedIsJustified` is the step from the
invariant to the property: a selected dependency comes earlier in the order, so its turn
is over, and since somebody in the selection waits for it, its gate was not skipped.

The second half of the module builds on that invariant:

* `Confinement` (`OutsideUntouched`) and `Refinement` (`KeepsPromise`): runs may overlap, be killed, fail and
  have the contract edited under them. A step that replaces a container is one of three
  (`Replaces`), at a moment when its service is selected, not through, and all it needs inside the
  selection is (`AtWork`); every other step leaves the owners alone.
* `OkReceiptsAreTrue` (`OkReceiptTruthful`) and `AttemptReceiptsAreTrue` (`AttemptReceiptTruthful`): for runs one after
  the other (`~ Overlap`). `TruthInv` says, besides, that a busy run is alone, that it has the containers
  of what it is through with (`Owned`), and that nothing it still has ahead is its own (`NotYet`).

* `RolledOutIsClosed` (`ClosedUnderNeeds` of `Rollout`): what a run is through with, wherever it stops, is closed under
  what the services need of one another. It is proved of `Rollout`'s steps alone and reaches `Deploy`
  through `Refinement`.

All five have the hypothesis `NamesDistinct`: no two services share a container name. The code does
not ensure it (`runner.go:115`), and without it the refinement is false. `~ Overlap` is what the
receipts of a run that shares the project with another one cannot do without.

`LifecycleProofs` is about any number of deploys and downs on one project:

* `Invariance`: deploy's `IInv` survives downs, which touch none of the variables it speaks of but the
  engine, and the downs have an invariant of their own (`DownInv`): the lists they work through hold only what the
  command line names, own networks, and volumes for a full run with `--volumes`.
* `DownTypeCorrect` (`DownTypeOK`) and `KeepsNetworks` (`NetworksKept`), without further hypotheses.
* `KeepsData` (`DataKept`), if some service is active whenever names are given (`BaseNotEmpty`). Finding 3 of
  section 5 is what happens otherwise.
* `TouchesNobodyElse` (`NobodyElseTouched`), with the same hypothesis and `NamesDistinct`.
* `LeavesCleanSlate` (`CleanSlate`), if `podman rm -f` removes (`Stuck = {}`; finding 4 otherwise) and `--dependents`
  comes with names (`NoBareDependents`; without them the code takes such a run for a partial one). A run that
  was never overlapped is the only one at work (`SoleInv`), so what it saw in a list is still all there is when
  it removes it (`CleanInv`).

The deploy of `Lifecycle` is an instance of `Deploy` and the proofs are about another one; the lemmas named
`Same...` show that the two are the same, operator by operator.

`HealthGateProofs` proves, for any settings and limits that satisfy `HealthAssumption`:

* `ClampCorrect` (`BudgetIsClamp`): pure arithmetic on the definitions.
* `OvershootCorrect` (`OvershootBounded`), from `ClockInv`: a probe begins before the time is
  up, so the sleep after it begins at most one probe limit later, and ends one pause later.
* `TypeCorrect` (`TypeOK`) and `FailureIsLate` (`NeverGivesUpEarly`).
* `Refinement` (`Spec => ActsAsGate`): the loop implements `Gate`. `GateSteps` shows it step
  by step; the invariant is needed at `Wake`, where the clock must stand exactly one
  pause after the sleep began for a sealed gate to be one that gives up.

`ReceiptStoreProofs` proves, for any number of writers and readers, any receipts, any
directory and any number of crashes, from `StoreAssumption`:

* `Refinement` (`StoreSpec => StoreIsAtomic`): the system calls of `WriteAtomic` implement
  `AtomicStore`, whichever of them fail or are cut short, and however those of several writers are
  interleaved. What processes see (`Visible`) and what a power loss would leave (`Stable`) stand
  for the abstract store.
* `AckedReceiptsSurvive` (`AckedSurvives`): a receipt whose deploy was told that it is stored is not lost with the power.
* `HonestInventory` (`InventoryIsHonest`) and `HonestComparison` (`ComparisonIsHonest`): what the reading commands
  answer, while all of that goes on around them.
* `StoreTypeCorrect` (`StoreTypeOK`).

The first two rest on `Invariance`. The heart of `IInv` is `Complete`: every receipt path, in memory and on the disk, leads
to a file whose content was synced. It is inductive only together with `Progress`, which says that a
writer renames no file before it was written and synced, and that a temporary name is nobody
else's. `Acked` says that after the sync of the directory the disk has the name as well, unless it was
replaced. Renames to the one path of file mode by several writers are the reason for
the condition "still in its place".

The readers need `ReadersInvariance`. A reader compares what it sees with what was there when it began, so the
danger is a file that goes and comes back. `Forward` says of every step that a path keeps its file,
loses it or gets that of a writer just renaming it, and no writer renames twice: what is in its place now and was at
the beginning has been there all along. `Inventory` is the property for a listing half done, `Genuine` that a row of a
writer's own path is the receipt it wrote, `Course` what has been read at each stage. Comparison is
separate: `Drift` on two receipts holds exactly if their stories differ, which is shown list by list,
from `DiffCodes` down to one record.

`StoreAssumption` asks that the receipts are well-formed (`IsReceipt`), that no file found in the directory has
the name a deploy is going to use (it consists of the time and a random id), and that the values for "none"
are not among the values proper.

`ImportProofs` proves, for any Compose files, commands and positive limit on chains, from `ImportAssumption`:
the values for "none", "does not parse" and the outcomes are distinct, directories are sequences of names, there
are finitely many files, an order, an include or an `extends` names one of them (it need not exist, and
`IncludesFiles` does not say where it lies), and a file that parses has services named from `NameOrder` with the
fields they merge by (`HasServices`):

* `TargetSafety` (`TargetIsSafe`), from `TargetInv`: an `init` that found a contract ends at once, and before
  the contract is written a command touches nothing (`PreparesNothingElse`).
* `ImportedEdges` (`ImportedEdgesAreRight`): what is written has the edges of the lines of definitions. It needs
  `NearestWins` below for what the services are at the translation, and `TranslationEdges`, on the operators, for what
  the translation makes of them: the conditions are mapped, the services waited for and those that wait are not.
* `ReadingStaysInside`: no file comes up again on its own include chain and no service on its own chain of
  `extends`, both keep to the limit, and all that is read lies under the directory of the primary file
  (`IncludesStayInside`, `ExtendsStayInside`). The code holds an included path only against the file that names
  it; that the rest follows is the transitivity of `IsPrefix` (`PrefixOfPrefix`). Together with the finite number
  of files this is what makes the recursion of the code end.
* `VerdictIsRight` (`ImportVerdictIsRight`), from `VerdictInv` for what is translated and `AnswerInv` for what is
  refused. The stack is a walk (`Linked`) and the chain a line of `extends` (`Chained`, `ChainIsLineage`), so a refusal has
  one to show. The other half is the depth-first argument: every walk that leaves the stack at an include
  already worked through is clean (`Explored`). When a file's includes are all read, every walk that goes through it
  is (`CompletedIsClean`), which its parent then counts as one more include passed. For `extends` it is `Grounded`: what
  is in the memo or on the chain is in readable files under the directory, so that when the memo has all of a file's
  services, no line of theirs leads astray (`NoneAstray`), in whatever order they were resolved.
* `ExtendsIsResolved` (`[][FileIsResolved]`), from `MemoInv`: every memo entry is the service's own definition
  or that merged into its parent's entry, and no service on the chain has one yet. So what a file hands on does not
  depend on the order of resolution.
* `NearestWins` (`NearestDefinitionWins`), from `LineInv`: a project that reaches the translation is what the
  lines of definitions say, across includes and `extends`, however files and services came up. While includes
  are read, what is merged in a frame is what those read so far show (`Gathers`); when the file's own entries are
  on top, a service is its own definition or comes from an include (`Unextended`); and what `extends` has put
  in the memo is what the lines add up to (`InLine`), which a parent in another file, read without its includes, makes
  delicate. `MergeAdds` is the argument about the data: merging one more definition over what a line adds up to
  is what the longer line adds up to, field by field, lists with repeated services included.
* `ImportTypeCorrect` (`ImportTypeOK`), from `LineInv` and what is left to say of the command (`KeysInv`).

The reference, `FlattenSeq` and the merge of waiting lists are recursive functions. The library's induction is out of
reach, but that a recursion has a solution is shown through the least number for which it has none
(`LeastNumber`, from `WFMin`), which is an ordinary contradiction; and so is whatever is proved along one. The number of
definitions on a line is bounded by the number of places a service can be defined at, for the memo grows by one at
each step (`KeepsInLine`): that is why the reference, which unfolds that often, has always gone far enough.

`InputsProofs` proves, for any contracts, env files, texts, number of edits and any order of loads, from
`InputsAssumption` (what parses is of the form it should be) and `TokenAssumption` (so are the tokens of a text):

* `LoadsFresh` (`LoadsAreFresh`): a memo never shows. A phase that loads gets the contract as the file has it then
  (`LoadMemoizedIsFresh`: what is kept is handed out only while the file still has that text). The env files are read one
  by one and may be edited in between, so that "as the files have it" has no one moment: the theorem says that the
  finished map is the environment with one text of each file on top, later files over earlier ones, and that each text
  is one its file held at some moment since this load first looked. `LoadInv` says so of the files read so far, and
  that a file taken for missing was missing at such a moment; `OneRead` is the step to one file more.
* `InputsTypeCorrect` (`InputsTypeOK`), from `InputsInv`: what a deploy holds is a contract that parsed and
  variables that have values, and expanding any text by any values gives a text (`PassType`, `SubstituteType`).
* `PlainTextsAsDocumented`, the other side of finding 6 in section 5: if no environment text holds `$$` and no
  value and no default a dollar sign (`PlainInputs`), a container is given the text of its contract, expanded as
  documented. `OnePass` shows that brace groups first and bare names after them is then one pass that does both,
  `PassSettles` that its result has nothing left to be replaced, so that the second expansion keeps it. The health URL is
  not part of it: what it keeps from an earlier load depends on edits, not on dollar signs.

`ObserveProofs` proves, for any contract, any containers and any number of changes:

* `Truthful` (`EveryClaimWasTrue`), without any assumption. The property speaks of commands that have ended;
  `IInv` says it of every row, verdict and name as soon as it is there, that the present is one of the moments
  (`Watching`), and that nothing is inspected after a batch (`BatchIsFinal`), for a row added later would belong to
  another moment.
* `TypeCorrect` (`ObserveTypeOK`), from `ObserveAssumption` and an invariant that says which command is in
  which stage and what has been looked at there (`Stages`).
* `QuietReports` (`QuietReportIsTrue`), from both: as long as nothing has moved, what has been seen is so
  (`SeenIsSo`), one conjunct per kind of thing a command can have seen. The property then compares the report
  with the engine as a whole: that the explain command names the *first* service that does not serve
  needs that the names have an order (`SortedAs`).

Only model-checked:

* all liveness (`SelectionTerminates`, `RunsTerminate`, `GateEnds`, `ObservationEnds`): out of the prover's reach;
* `TypeOK` of `MCCommands`, which says of the task at hand that its variables are of their types: its four
  parts, `StoreTypeOK`, `ObserveTypeOK`, `ImportTypeOK` and `InputsTypeOK`, are proved, each of the specification
  it belongs to. Only the composition, which exists for TLC, has no theorem.

What the runs that end in a violation check (section 5) is false of the code and has no theorem.

## 5. Where the code and its documentation disagree

1. **Attempt receipts lose the ids of containers that exist** (`attempt_receipt`).
   `InspectContainersForReceipt` fails as a whole when one of the names is missing. On a
   first deploy whose gate fails before the last service, one always is, so the attempt
   receipt records no container id at all, including that of the service that failed.
   The builder's comment promises the opposite.
2. **The contract digest may be of another contract** (`contract_edited`). It is
   computed from the file when the deploy ends; `receipt.go` documents it as the digest of
   the bytes used for the deploy.
3. **`down api` can tear down everything** (`named_down`). When no service is
   profile-active the base set is empty, the check of the target names is skipped, and
   the empty selection reaches teardown, where it means "no selection". With `--volumes` it deletes the
   volumes too: `lifecycle.go:40` says that a partial teardown rejects that flag, but `teardown.go:113`
   only looks at the empty list.
4. **`down` succeeds when removal fails** (`stuck_container`). The result of `podman rm -f` is
   ignored, though exit code 1 is documented for it.
5. **A gate that times out is not reported as a timeout** (`health_class`). The class is
   `timeout` only when the message contains that word, and the message is the last
   probe's: "HTTP 503", or "probe timed out after 5s". So an exceeded deadline becomes
   `deploy_health_probe_failed`, which `docs/cli-json.md` describes as a failure before
   the timeout.

6. **`$$` is not an escape** (`escaped_dollar`). An environment value is expanded by `ExpandService`
   (`services.go:38`) and the result again by `containerEnv` (`services.go:240`), so `$$HOME` becomes `$HOME`
   and then the value of `HOME`. The health URL is expanded in place, once per phase, with the same
   effect, and a URL that used an env file as it was during preflight keeps that value when
   the file changes before the container starts. `env.go:14` calls `$$` a literal dollar sign.

Three more are plain from the code. No run is about them; the models have what the code does:

* **A size and time hit does not skip a read.** The comment above `LoadHostSubst` (`env.go:123`) says that it does;
  `loadHostEnvFile` reads every file every time and compares digests (`env_file_cache.go:98`), and looks at size and time
  nowhere. The code is right and the comment is not: with the comment's memo, `LoadsAreFresh` would fail after an edit
  that keeps both, which is its mutant (`EnvTextByStamp`).
* **An `extends` outside the directory is reported as an include.** The check is shared with includes and its code
  survives the wrapping (`extends.go:298`, `from_import.go:57`), so a project whose includes are all in place is
  refused with `import_include_path_escape`, which `docs/contract.md:125` has for included paths. An extended file that
  does not parse gives `import_compose_parse` in the same way, a missing one the general code. `ExtendsReason` is this part
  of `ImportVerdictIsRight`.
* **An `env_file` on an include is reported as a parse error.** `include.go:38` chooses `import_include_unsupported`, as
  `docs/contract.md:126` has it, but inside the YAML decoder, whose errors `Parse` replaces (`file.go:63`). In the model
  such a file does not parse (`Parses`).

`--health-timeout` ("max wall time per service health gate", `cmd/podbay/deploy.go:106`) is a
limit on when the last probe may begin: an HTTP gate goes past it by up to one probe and one
pause (`OvershootBounded` is tight), an exec gate by as long as its probe takes, and a limit
below five seconds counts as five.

Seen while reading; those marked * the models have as the code does, and no property is against them:

* service names that differ only in punctuation share a container name (`runner.go:115`);
* `down --dependents` without service names is a partial teardown of the whole profile *;
* preflight's port check fails on a redeploy of a service that holds its own port;
* a value in braces that holds `$NAME` is expanded again by the pass over bare names *;
* `String` yields an empty text for a failed `${VAR:?}`, while its comment (`env.go:154`) says the
  token is left unchanged *;
* a merge by `extends` drops the child's `expose` (`extends.go:168`, against the comment two lines above) *;
* the path of a nested include is checked against the directory of the including file
  (`include.go:134`), while `docs/contract.md:77` and `:125` speak of the primary's *;
* the memo of `extends` lets the verdict on a long chain depend on the order of service
  names (`extends.go:257`): a parent resolved before does not count *;
* relative paths in included and extended files are not rebased;
* `docs/contract.md:120` has `import_compose_file_not_found` for the primary file; a missing included file gives it too *;
* `import` writes contracts that `validate` then rejects: with dependency cycles, or a `healthy` dependency whose service
  has no probe *;
* `import`'s help calls top-level networks unsupported though they are supported, and `diff`'s help promises
  `diff_inspect_error` though every inspect failure reads as missing *;
* `explain` takes 200 to 399 for healthy, a deploy's gate 200 to 299;
* `podbay.yaml` is written by `os.WriteFile` *: `init` killed at the wrong moment leaves an empty file, which the
  next `init` refuses to replace; and a contract that appears while it works is overwritten, since the check comes first;
* decrypted vault files are removed when a deploy has started its services (`vault_materialize.go:15`): a
  container that stops later has lost the source of its mount, and a killed deploy leaves the files behind;
* in file mode the last ok receipt may be replaced by a failed one between the listing and the
  reading of it (`handoff.go:64`) *.

## 6. The plan

Done, in this order because deploy is the heart of the program and everything it does
starts with the graph: `Contract`, `ServiceGraph` with proofs, `Podman`, `Deploy`, `Rollout`,
`Teardown`, `Lifecycle`, `HealthGate` with proofs; then
the commands around them: `ReceiptStore`, `Observe`, `Inputs`, `ComposeImport`.

Then the proofs, component by component: the store, the import and the observation commands; then
deploy's promise and receipts, the downs, the readers of receipts, the quiet reports, the determinism of
the deploy order, and how a Compose project is read: its chains, its verdict, its `extends`.

Last, what is recursive: the env files and the expansion of texts, and the reference that says what a Compose
service should come to. With that every safety property of the passing runs has a theorem, `TypeOK` of the
composition for TLC aside.

Left: vault mounts, the Dockerfile scan and the ports preflight tries, of which the reasons follow.

### Not modelled

* YAML decoding and the syntax variants of Compose fields; configs, secrets, volumes and
  `healthcheck` in `import`: field by field, data to data, without control that depends on another field.
* An escaped dollar sign inside a brace argument (`${X:-a$$b}`): `Substitute` unescapes it before it looks for braces, the
  model keeps a brace group as one token. `TokenAssumption` leaves such groups out.
* Read errors of Compose files other than "does not exist" (`import_compose_read`).
* JSON documents and texts, the wording of next actions and of messages: they state the results the
  modules have.
* The Dockerfile scan: one pass over a text whose errors are ignored. `ComposeImport` knows its
  stub as one value.
* Vault mounts: files are decrypted by `ansible-vault` before a container starts, and removed by a
  deferred cleanup when the loop over the services returns, whichever way. To `Deploy` a failure is `StepFails`.
* `logs --follow`: one process is handed over to `podman`, nothing is decided afterwards.
* Preflight's checks of the host (ports, commands, files): they look like `Reject` to a deploy.

## 7. Checking it

    tlc -workers 2 -config MCDeploySequential.cfg MCDeploy      # any .cfg with its MC module
    tlapm ServiceGraphProofs.tla
    tlapm DeployProofs.tla
    tlapm LifecycleProofs.tla
    tlapm HealthGateProofs.tla
    tlapm ReceiptStoreProofs.tla
    tlapm ImportProofs.tla
    tlapm ObserveProofs.tla
    tlapm InputsProofs.tla

`PROJECT.json` lists the runs, the theorems, for every property of a passing run a
mutation of the model that breaks it (the definitions commented "Mutant"), and for every
definition the lines it models.
