------------------------------ MODULE Teardown ------------------------------
(***************************************************************************)
(* "podbay down" / "podbay teardown": cmd/podbay/lifecycle.go and          *)
(* internal/teardown.  Every member of Down is one such process.  It lists *)
(* the project's containers by label, force-removes all of them or, with   *)
(* service names, those of the selected services, lists again, removes the *)
(* project's own networks and, when asked to, its volumes; one action per  *)
(* Podman call.                                                            *)
(***************************************************************************)
EXTENDS Contract, Podman

CONSTANTS
  Service,       \* service names
  Profile,       \* profile names
  CName,         \* Service -> Name, runner.ContainerName
  Contracts,     \* contents the contract file may have
  Down,          \* the down runs (processes) of a behaviour
  DownCommands,  \* their command lines
  Stuck          \* containers that "podman rm -f" may fail to remove

ASSUME TeardownAssumption ==
  /\ IsFiniteSet(Service)
  /\ CName \in [Service -> Name]
  /\ \A c \in Contracts : IsContract(c, Service, Profile)
  /\ DownCommands \subseteq [profiles : SUBSET Profile, roots : SUBSET Service,
                             dependents : BOOLEAN, volumes : BOOLEAN, keepNetwork : BOOLEAN]
  /\ Down \cap Run = {}
  /\ Stuck \subseteq Name
  /\ Absent \notin Contracts \cup DownCommands

VARIABLES
  file,          \* the contract file's content
  stage,         \* where each down run is
  job,           \* its contract, command line and PartialServices
  doomed,        \* containers to remove (ContainerNames of the result)
  rest,          \* networks or volumes its current loop has left
  result         \* the flags of its TeardownResult

down == <<stage, job, doomed, rest, result>>

Tearing == {"list", "remove", "relist", "networks", "volumes"}
Over == {"done", "fatal", "refused", "killed"}

NoJob == [c |-> Absent, cmd |-> Absent, partial |-> {}]
NoResult == [removed |-> FALSE, kept |-> FALSE, warning |-> FALSE, engineWarning |-> FALSE]

Labelled == {n \in Name : ctr[n] # Absent}

PartialMode(d) == job[d].partial # {}

\* The contract is loaded and the scope of the command fixed: nil (everything
\* labelled) without names and --dependents, else the selected services.
PartialServices(cmd) ==
  IF cmd.roots # {} \/ cmd.dependents
  THEN ObservabilityActiveServices(file, cmd.profiles, cmd.roots, cmd.dependents)
  ELSE {}

KnownTargets(cmd) ==
  TargetsAreActive(ServicesForProfiles(file, cmd.profiles), cmd.roots)

BeginDown(d) ==
  /\ stage[d] = "idle"
  /\ \E cmd \in DownCommands :
       /\ KnownTargets(cmd)
       /\ job' = [job EXCEPT ![d] = [c |-> file, cmd |-> cmd, partial |-> PartialServices(cmd)]]
  /\ stage' = [stage EXCEPT ![d] = "list"]
  /\ UNCHANGED <<doomed, rest, result>>

RefuseDown(d) ==
  /\ stage[d] = "idle"
  /\ \E cmd \in DownCommands : ~ KnownTargets(cmd)
  /\ stage' = [stage EXCEPT ![d] = "refused"]
  /\ UNCHANGED <<job, doomed, rest, result>>

\* Mutant: only what the contract still selects is removed.
SelectedContractOnly(d, names) ==
  {n \in names : \E s \in ServicesForProfiles(job[d].c, job[d].cmd.profiles) : CName[s] = n}

\* Mutant: a selection without any container counts as no selection.
AllIfNoneMatches(d, names) ==
  LET matching == {n \in names : \E s \in job[d].partial : CName[s] = n}
  IN  IF matching = {} THEN names ELSE matching

\* containersForPartialRemoval, or all of them.
ToRemove(d, names) ==
  IF PartialMode(d) THEN {n \in names : \E s \in job[d].partial : CName[s] = n} ELSE names

\* The project's containers are listed; names and --volumes exclude each other.
\* A race with a container that is going away reads as an empty list.
List(d, names) ==
  /\ stage[d] = "list"
  /\ IF PartialMode(d) /\ job[d].cmd.volumes
     THEN /\ stage' = [stage EXCEPT ![d] = "fatal"]
          /\ UNCHANGED doomed
     ELSE /\ stage' = [stage EXCEPT ![d] = IF ToRemove(d, names) = {} THEN "relist" ELSE "remove"]
          /\ doomed' = [doomed EXCEPT ![d] = ToRemove(d, names)]
  /\ UNCHANGED <<job, rest, result>>

\* RemoveContainersForce ignores what podman rm answers.
RemoveContainers(d) ==
  /\ stage[d] = "remove"
  /\ \E stay \in SUBSET (doomed[d] \cap Stuck) :
       ctr' = [n \in Name |-> IF n \in doomed[d] \ stay THEN Absent ELSE ctr[n]]
  /\ stage' = [stage EXCEPT ![d] = "relist"]
  /\ UNCHANGED <<job, doomed, rest, result>>

\* Mutant: external networks are treated like the project's own.
AllNets == Net

\* The networks a down may remove: external ones are skipped.
OwnNets == Net \ ExtNet

\* Mutant: --keep-network only counts with service names.
KeepInPartialModeOnly(d, names) ==
  PartialMode(d) /\ (job[d].cmd.keepNetwork \/ names # {})

\* skipNetworkAfterPartialTeardown.
KeepNetworks(d, names) ==
  job[d].cmd.keepNetwork \/ (PartialMode(d) /\ names # {})

\* The second list decides whether the networks stay.
Relist(d, names) ==
  /\ stage[d] = "relist"
  /\ LET keep == KeepNetworks(d, names)
     IN  /\ result' = [result EXCEPT ![d].kept = keep]
         /\ rest' = [rest EXCEPT ![d] = IF keep THEN {} ELSE OwnNets]
  /\ stage' = [stage EXCEPT ![d] = "networks"]
  /\ UNCHANGED <<job, doomed>>

\* A stopped engine is "already down": finishUnavailable, exit code 0.
EngineUnavailable(d) ==
  /\ stage[d] \in {"list", "relist"}
  /\ stage' = [stage EXCEPT ![d] = "done"]
  /\ result' = [result EXCEPT ![d].kept = TRUE, ![d].engineWarning = TRUE]
  /\ UNCHANGED <<job, doomed, rest>>

\* Any other failure of the list, or no podman binary: exit code 1.
ListFails(d) ==
  /\ stage[d] \in {"list", "relist"}
  /\ stage' = [stage EXCEPT ![d] = "fatal"]
  /\ UNCHANGED <<job, doomed, rest, result>>

\* A network that does not exist counts as removed.
RemoveNetwork(d) ==
  /\ stage[d] = "networks"
  /\ \E n \in rest[d] :
       /\ ~ InUse(n)
       /\ nets' = nets \ {n}
       /\ rest' = [rest EXCEPT ![d] = @ \ {n}]
  /\ result' = [result EXCEPT ![d].removed = TRUE]
  /\ UNCHANGED <<stage, job, doomed>>

\* Podman refuses, whether the network is in use or not: a warning, the exit
\* code stays 0.
NetworkRefused(d) ==
  /\ stage[d] = "networks"
  /\ \E n \in rest[d] \cap nets :
       /\ rest' = [rest EXCEPT ![d] = @ \ {n}]
  /\ result' = [result EXCEPT ![d].warning = TRUE]
  /\ UNCHANGED <<stage, job, doomed>>

\* Mutant: full mode removes the volumes, --volumes or not.
NetworksDoneFullMode(d) ==
  /\ stage[d] = "networks"
  /\ rest[d] = {}
  /\ IF ~ PartialMode(d)
     THEN /\ stage' = [stage EXCEPT ![d] = "volumes"]
          /\ rest' = [rest EXCEPT ![d] = Vol]
     ELSE /\ stage' = [stage EXCEPT ![d] = "done"]
          /\ UNCHANGED rest
  /\ UNCHANGED <<job, doomed, result>>

NetworksDone(d) ==
  /\ stage[d] = "networks"
  /\ rest[d] = {}
  /\ IF job[d].cmd.volumes /\ ~ PartialMode(d)
     THEN /\ stage' = [stage EXCEPT ![d] = "volumes"]
          /\ rest' = [rest EXCEPT ![d] = Vol]
     ELSE /\ stage' = [stage EXCEPT ![d] = "done"]
          /\ UNCHANGED rest
  /\ UNCHANGED <<job, doomed, result>>

RemoveVolume(d) ==
  /\ stage[d] = "volumes"
  /\ \E v \in rest[d] :
       /\ ~ InUse(v)
       /\ vols' = vols \ {v}
       /\ rest' = [rest EXCEPT ![d] = @ \ {v}]
  /\ UNCHANGED <<stage, job, doomed, result>>

\* The first volume that cannot be removed ends the run.
VolumeRefused(d) ==
  /\ stage[d] = "volumes"
  /\ rest[d] \cap vols # {}
  /\ stage' = [stage EXCEPT ![d] = "fatal"]
  /\ UNCHANGED <<job, doomed, rest, result>>

VolumesDone(d) ==
  /\ stage[d] = "volumes"
  /\ rest[d] = {}
  /\ stage' = [stage EXCEPT ![d] = "done"]
  /\ UNCHANGED <<job, doomed, rest, result>>

KillDown(d) ==
  /\ stage[d] \in Tearing
  /\ stage' = [stage EXCEPT ![d] = "killed"]
  /\ UNCHANGED <<job, doomed, rest, result>>

-----------------------------------------------------------------------------
DownInit ==
  /\ stage = [d \in Down |-> "idle"]
  /\ job = [d \in Down |-> NoJob]
  /\ doomed = [d \in Down |-> {}]
  /\ rest = [d \in Down |-> {}]
  /\ result = [d \in Down |-> NoResult]

\* What a down run does next by itself.  stale: some other run is at work, so a
\* container may vanish under podman ps.
DownStep(d, stale) ==
  \/ /\ \/ List(d, Labelled) \/ Relist(d, Labelled)
        \/ stale /\ (List(d, {}) \/ Relist(d, {}))
        \/ EngineUnavailable(d) \/ ListFails(d)
        \/ NetworkRefused(d) \/ NetworksDone(d) \/ VolumeRefused(d) \/ VolumesDone(d)
     /\ UNCHANGED engine
  \/ RemoveContainers(d) /\ UNCHANGED <<nets, vols>>
  \/ RemoveNetwork(d) /\ UNCHANGED <<ctr, vols>>
  \/ RemoveVolume(d) /\ UNCHANGED <<ctr, nets>>

\* What the user or the system does to it.
DownEvent(d) ==
  (BeginDown(d) \/ RefuseDown(d) \/ KillDown(d)) /\ UNCHANGED engine

DownTypeOK ==
  /\ stage \in [Down -> {"idle"} \cup Tearing \cup Over]
  /\ job \in [Down -> [c : Contracts \cup {Absent}, cmd : DownCommands \cup {Absent},
                       partial : SUBSET Service]]
  /\ \A d \in Down : stage[d] \in Tearing => job[d].c # Absent /\ job[d].cmd # Absent
  /\ doomed \in [Down -> SUBSET Name]
  /\ \A d \in Down : stage[d] = "remove" => doomed[d] # {}
  /\ rest \in [Down -> SUBSET ((Net \ ExtNet) \cup Vol)]
  /\ result \in [Down -> [removed : BOOLEAN, kept : BOOLEAN, warning : BOOLEAN,
                          engineWarning : BOOLEAN]]
=============================================================================
