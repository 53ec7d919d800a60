------------------------------- MODULE Deploy -------------------------------
(***************************************************************************)
(* "podbay deploy": cmd/podbay/deploy.go and internal/deploy.              *)
(*                                                                         *)
(* Every member of Run is one deploy process.  It loads the contract,      *)
(* validates it, and then works through the phases of deploy.Deploy --     *)
(* networks, volumes, services in dependency order, receipt -- with one    *)
(* action per Podman call, so that the containers' own life, edits of the  *)
(* contract file, a killed process and (when Overlap) other podbay runs    *)
(* can come between any two of them.  Nothing locks the project.           *)
(***************************************************************************)
EXTENDS Contract, Podman, Sequences, SequencesExt

CONSTANTS
  Service,    \* service names
  Profile,    \* profile names
  CName,      \* Service -> Name, runner.ContainerName
  Uses,       \* Service -> the networks and volumes its container uses
  ExecProbed, \* services whose gate runs a command in the container, not an HTTP request
  Contracts,  \* contents the contract file may have
  Commands,   \* deploy command lines: the flags and arguments
  Overlap,    \* may a run begin while another is in progress?
  Editable,   \* may the contract file change while a run is in progress?
  None        \* no dependency, no receipt, no container id

\* What a run leaves in the receipt store: its outcome, the contract file's
\* content then and the one it deployed, and the container ids it found.
Failure ==
  [service : Service, externalDep : BOOLEAN, requestedBy : Service \cup {None}]

Receipt ==
  [status : {"ok", "failed"}, digest : Contracts, deployed : Contracts,
   failure : Failure \cup {None},
   ids : UNION {[S -> Run \cup {None}] : S \in SUBSET Service}]

ASSUME DeployAssumption ==
  /\ IsFiniteSet(Service)
  /\ CName \in [Service -> Name]
  /\ Uses \in [Service -> SUBSET (Net \cup Vol)]
  /\ ExecProbed \subseteq Service
  /\ \A c \in Contracts : IsContract(c, Service, Profile)
  /\ Commands \subseteq [profiles : SUBSET Profile, roots : SUBSET Service,
                         dependents : BOOLEAN, skipHealth : BOOLEAN, receipt : BOOLEAN]
  /\ None \notin Service \cup Net \cup Vol \cup Run \cup Dependency(Service) \cup Receipt
  /\ Overlap \in BOOLEAN /\ Editable \in BOOLEAN

VARIABLES
  file,       \* the contract file's content
  pc,         \* where each run is
  ctx,        \* its deployContext and the service order
  pos,        \* index into the order of the service it works on
  todo,       \* what the current loop (networks, volumes, dependencies) has left
  cur,        \* the network, volume or dependency it is in the middle of
  seen,       \* external dependencies it found running
  gated,      \* services whose health gate passed during this run
  receipts    \* what each run left in the receipt store

locals == <<ctx, pos, todo, cur, seen, gated>>
vars == <<engine, file, pc, locals, receipts>>

-----------------------------------------------------------------------------
\* The stages of a run.
Busy == {"networks", "newnet", "volumes", "newvol", "prepare", "external",
         "extgate", "start", "broken", "gate", "receipt", "attempt"}
InLoop == {"prepare", "external", "extgate", "start", "broken", "gate"}
Final == {"ok", "failed", "rejected", "killed"}

\* Mutant: what the targets depend on is deployed along with them.
OrdersWithDependencies(c, S) ==
  LET T == S \cup UNION {DependsOn(c, s) : s \in S}
  IN  {o \in SetToSeqs(T) :
         \A i \in DOMAIN o : \A j \in i .. Len(o) : o[j] \notin DependsOn(c, o[i])}

\* Mutant: services come in any order.
OrdersUnsorted(c, S) == SetToSeqs(S)

\* Dependency orders of S: what TopoSort computes one of.
DependencyOrders(c, S) ==
  {o \in SetToSeqs(S) :
     \A i \in DOMAIN o : \A j \in i .. Len(o) : o[j] \notin DependsOn(c, o[i])}

\* The checks of validate.Run (deploy's preflight) that the later phases rely on.
Preflight(c, active, partial) ==
  /\ active # {}
  /\ DependencyOrders(c, active) # {}
  /\ \A s \in active : \A d \in c.deps[s] :
       /\ d.service \in c.services
       /\ partial \/ d.service \in active
       /\ d.condition = "healthy" => d.service \in c.probed

\* needsHealthWait: somebody in the selection waits for s to be healthy.
NeedsHealthWait(c, active, s) ==
  \E t \in active : [service |-> s, condition |-> "healthy"] \in c.deps[t]

\* Gates of --skip-health-wait, of probe-less services and of services nobody
\* waits for are not run.
MustGate(x, s) ==
  ~ x.skipHealth /\ s \in x.c.probed /\ NeedsHealthWait(x.c, x.active, s)

NoContext == [c |-> None, active |-> {}, partial |-> FALSE, order |-> << >>,
              skipHealth |-> FALSE, receipt |-> FALSE]

\* The service run r is working on.
This(r) == ctx[r].order[pos[r]]

\* Mutant: only dependencies waited for as healthy are looked at.
ExternalDepsHealthyOnly(x, s) ==
  IF x.partial
  THEN {d \in x.c.deps[s] : d.service \notin x.active /\ d.condition = "healthy"}
  ELSE {}

\* depends_on entries of this service that point outside the selection:
\* waitExternalDependsOn's list.
ExternalDeps(x, s) ==
  IF x.partial THEN {d \in x.c.deps[s] : d.service \notin x.active} ELSE {}

\* The process ends: whatever it had in memory is gone.
Exit(r, outcome) ==
  /\ pc' = [pc EXCEPT ![r] = outcome]
  /\ ctx' = [ctx EXCEPT ![r] = NoContext]
  /\ pos' = [pos EXCEPT ![r] = 0]
  /\ todo' = [todo EXCEPT ![r] = {}]
  /\ cur' = [cur EXCEPT ![r] = None]
  /\ seen' = [seen EXCEPT ![r] = {}]
  /\ gated' = [gated EXCEPT ![r] = {}]

-----------------------------------------------------------------------------
\* The command line is read, the contract loaded, the services selected.

MayBegin(r) ==
  /\ pc[r] = "idle"
  /\ Overlap \/ \A o \in Run : pc[o] \notin Busy

Selection(cmd) ==
  ObservabilityActiveServices(file, cmd.profiles, cmd.roots, cmd.dependents)

Accepted(cmd) ==
  /\ TargetsAreActive(ServicesForProfiles(file, cmd.profiles), cmd.roots)
  /\ Preflight(file, Selection(cmd), cmd.roots # {})

Begin(r) ==
  /\ MayBegin(r)
  /\ \E cmd \in Commands :
       /\ Accepted(cmd)
       /\ \E o \in DependencyOrders(file, Selection(cmd)) :
            ctx' = [ctx EXCEPT ![r] =
                      [c |-> file, active |-> Selection(cmd), partial |-> cmd.roots # {},
                       order |-> o, skipHealth |-> cmd.skipHealth, receipt |-> cmd.receipt]]
  /\ pc' = [pc EXCEPT ![r] = "networks"]
  /\ todo' = [todo EXCEPT ![r] = Net]
  /\ UNCHANGED <<engine, file, pos, cur, seen, gated, receipts>>

\* Preflight (or the selection) fails: nothing is touched, no receipt.
Reject(r) ==
  /\ MayBegin(r)
  /\ \E cmd \in Commands : ~ Accepted(cmd)
  /\ pc' = [pc EXCEPT ![r] = "rejected"]
  /\ UNCHANGED <<engine, file, locals, receipts>>

-----------------------------------------------------------------------------
\* prepareNetworks, prepareVolumes.  "exists" and "create" are separate calls.

NetworkExists(r) ==
  /\ pc[r] = "networks"
  /\ \E n \in todo[r] \cap nets : todo' = [todo EXCEPT ![r] = @ \ {n}]
  /\ UNCHANGED <<engine, file, pc, ctx, pos, cur, seen, gated, receipts>>

NetworkMissing(r) ==
  /\ pc[r] = "networks"
  /\ \E n \in todo[r] \ (nets \cup ExtNet) : cur' = [cur EXCEPT ![r] = n]
  /\ pc' = [pc EXCEPT ![r] = "newnet"]
  /\ UNCHANGED <<engine, file, ctx, pos, todo, seen, gated, receipts>>

\* podman network create refuses a name that has come into use meanwhile.
CreateNetwork(r) ==
  /\ pc[r] = "newnet"
  /\ cur[r] \notin nets
  /\ nets' = nets \cup {cur[r]}
  /\ todo' = [todo EXCEPT ![r] = @ \ {cur[r]}]
  /\ cur' = [cur EXCEPT ![r] = None]
  /\ pc' = [pc EXCEPT ![r] = "networks"]
  /\ UNCHANGED <<ctr, vols, file, ctx, pos, seen, gated, receipts>>

NetworksReady(r) ==
  /\ pc[r] = "networks"
  /\ todo[r] = {}
  /\ pc' = [pc EXCEPT ![r] = "volumes"]
  /\ todo' = [todo EXCEPT ![r] = Vol]
  /\ UNCHANGED <<engine, file, ctx, pos, cur, seen, gated, receipts>>

VolumeExists(r) ==
  /\ pc[r] = "volumes"
  /\ \E v \in todo[r] \cap vols : todo' = [todo EXCEPT ![r] = @ \ {v}]
  /\ UNCHANGED <<engine, file, pc, ctx, pos, cur, seen, gated, receipts>>

VolumeMissing(r) ==
  /\ pc[r] = "volumes"
  /\ \E v \in todo[r] \ vols : cur' = [cur EXCEPT ![r] = v]
  /\ pc' = [pc EXCEPT ![r] = "newvol"]
  /\ UNCHANGED <<engine, file, ctx, pos, todo, seen, gated, receipts>>

CreateVolume(r) ==
  /\ pc[r] = "newvol"
  /\ cur[r] \notin vols
  /\ vols' = vols \cup {cur[r]}
  /\ todo' = [todo EXCEPT ![r] = @ \ {cur[r]}]
  /\ cur' = [cur EXCEPT ![r] = None]
  /\ pc' = [pc EXCEPT ![r] = "volumes"]
  /\ UNCHANGED <<ctr, nets, file, ctx, pos, seen, gated, receipts>>

VolumesReady(r) ==
  /\ pc[r] = "volumes"
  /\ todo[r] = {}
  /\ pc' = [pc EXCEPT ![r] = "prepare"]
  /\ pos' = [pos EXCEPT ![r] = 1]
  /\ UNCHANGED <<engine, file, ctx, todo, cur, seen, gated, receipts>>

-----------------------------------------------------------------------------
\* deployServicesInOrder, one service.

\* Expansion, vault mounts, image build, environment: no container is touched.
Prepare(r) ==
  /\ pc[r] = "prepare"
  /\ pc' = [pc EXCEPT ![r] = "external"]
  /\ todo' = [todo EXCEPT ![r] = ExternalDeps(ctx[r], This(r))]
  /\ UNCHANGED <<engine, file, ctx, pos, cur, seen, gated, receipts>>

\* waitExternalDependsOn: a dependency outside the selection must be running,
\* and pass its health gate when it is waited for as healthy.
CheckExternal(r) ==
  /\ pc[r] = "external"
  /\ \E d \in todo[r] :
       /\ IsRunning(CName[d.service])
       /\ seen' = [seen EXCEPT ![r] = @ \cup {d.service}]
       /\ IF d.condition = "healthy" /\ ~ ctx[r].skipHealth
          THEN /\ pc' = [pc EXCEPT ![r] = "extgate"]
               /\ cur' = [cur EXCEPT ![r] = d]
               /\ UNCHANGED todo
          ELSE /\ todo' = [todo EXCEPT ![r] = @ \ {d}]
               /\ UNCHANGED <<pc, cur>>
  /\ UNCHANGED <<engine, file, ctx, pos, gated, receipts>>

ExternalGatePasses(r) ==
  /\ pc[r] = "extgate"
  /\ IsHealthy(CName[cur[r].service])
  /\ gated' = [gated EXCEPT ![r] = @ \cup {cur[r].service}]
  /\ todo' = [todo EXCEPT ![r] = @ \ {cur[r]}]
  /\ cur' = [cur EXCEPT ![r] = None]
  /\ pc' = [pc EXCEPT ![r] = "external"]
  /\ UNCHANGED <<engine, file, ctx, pos, seen, receipts>>

\* Mutant: all selected containers go before the first one is started.
RemoveAllOld(r) ==
  /\ pc[r] = "external"
  /\ todo[r] = {}
  /\ ctr' = [n \in Name |-> IF \E s \in ctx[r].active \ gated[r] : CName[s] = n
                           THEN Absent ELSE ctr[n]]
  /\ pc' = [pc EXCEPT ![r] = "start"]
  /\ UNCHANGED <<nets, vols, file, locals, receipts>>

\* The old container goes only after the external dependencies were checked.
RemoveOld(r) ==
  /\ pc[r] = "external"
  /\ todo[r] = {}
  /\ ctr' = [ctr EXCEPT ![CName[This(r)]] = Absent]
  /\ pc' = [pc EXCEPT ![r] = "start"]
  /\ UNCHANGED <<nets, vols, file, locals, receipts>>

\* podman run needs a free name and existing networks.
CanStart(s) == ctr[CName[s]] = Absent /\ Uses[s] \cap Net \subseteq nets

\* It makes the volumes that have disappeared meanwhile.
StartContainer(r, state) ==
  /\ ctr' = [ctr EXCEPT ![CName[This(r)]] =
               [by |-> r, state |-> state, healthy |-> FALSE, uses |-> Uses[This(r)]]]
  /\ vols' = vols \cup (Uses[This(r)] \cap Vol)

\* Mutants: the loop ends one service early, or one too late.
AdvanceShort(r) ==
  /\ pos' = [pos EXCEPT ![r] = @ + 1]
  /\ pc' = [pc EXCEPT ![r] = IF pos[r] + 1 < Len(ctx[r].order) THEN "prepare" ELSE "receipt"]

AdvanceLong(r) ==
  /\ pos' = [pos EXCEPT ![r] = @ + 1]
  /\ pc' = [pc EXCEPT ![r] = IF pos[r] <= Len(ctx[r].order) THEN "prepare" ELSE "receipt"]

\* The loop goes on with the next service or, after the last, to the receipt.
Advance(r) ==
  /\ pos' = [pos EXCEPT ![r] = @ + 1]
  /\ pc' = [pc EXCEPT ![r] = IF pos[r] < Len(ctx[r].order) THEN "prepare" ELSE "receipt"]

Start(r) ==
  /\ pc[r] = "start"
  /\ CanStart(This(r))
  /\ StartContainer(r, "running")
  /\ IF MustGate(ctx[r], This(r))
     THEN pc' = [pc EXCEPT ![r] = "gate"] /\ UNCHANGED pos
     ELSE Advance(r)
  /\ UNCHANGED <<nets, file, ctx, todo, cur, seen, gated, receipts>>

\* podman run created the container but could not start it (port taken, ...).
StartFailsHalfway(r) ==
  /\ pc[r] = "start"
  /\ CanStart(This(r))
  /\ StartContainer(r, "created")
  /\ pc' = [pc EXCEPT ![r] = "broken"]
  /\ UNCHANGED <<nets, file, locals, receipts>>

GatePasses(r) ==
  /\ pc[r] = "gate"
  /\ IsHealthy(CName[This(r)])
  /\ gated' = [gated EXCEPT ![r] = @ \cup {This(r)}]
  /\ Advance(r)
  /\ UNCHANGED <<engine, file, ctx, todo, cur, seen, receipts>>

\* Mutant: a dependency outside the selection may be waited for without end.
GateFailsOwnOnly(r) ==
  /\ pc[r] = "gate" /\ ~ IsHealthy(CName[This(r)])
  /\ pc' = [pc EXCEPT ![r] = "attempt"]
  /\ UNCHANGED <<engine, file, locals, receipts>>

\* waitServiceHealth gives up: the last probe failed.  A HealthGateFailure.
GateFails(r) ==
  /\ \/ pc[r] = "extgate" /\ ~ IsHealthy(CName[cur[r].service])
     \/ pc[r] = "gate" /\ ~ IsHealthy(CName[This(r)])
  /\ pc' = [pc EXCEPT ![r] = "attempt"]
  /\ UNCHANGED <<engine, file, locals, receipts>>

-----------------------------------------------------------------------------
\* Receipts.  Container ids come from one batched inspect, the digest from the
\* file as it is now; WriteAtomic leaves the whole file or none.

\* The id inspect reports for service s.
ContainerId(s) == IF ctr[CName[s]] = Absent THEN None ELSE ctr[CName[s]].by

AllPresent(r) == \A s \in ctx[r].active : ctr[CName[s]] # Absent

\* writeDeployReceipt: a container that is gone is an error (StepFails).
WriteReceipt(r) ==
  /\ pc[r] = "receipt"
  /\ ctx[r].receipt
  /\ AllPresent(r)
  /\ receipts' = [receipts EXCEPT ![r] =
       [status |-> "ok", digest |-> file, deployed |-> ctx[r].c, failure |-> None,
        ids |-> [s \in ctx[r].active |-> ContainerId(s)]]]
  /\ Exit(r, "ok")
  /\ UNCHANGED <<engine, file>>

NoReceipt(r) ==
  /\ pc[r] = "receipt"
  /\ ~ ctx[r].receipt
  /\ Exit(r, "ok")
  /\ UNCHANGED <<engine, file, receipts>>

\* What failureSummaryFromHealthGate records.
FailureSummary(r) ==
  LET external == cur[r] # None
  IN  [service |-> IF external THEN cur[r].service ELSE This(r),
       externalDep |-> external,
       requestedBy |-> IF external THEN This(r) ELSE None]

\* maybeWriteAttemptReceipt, best effort: every selected service is recorded,
\* and when one of the containers is missing none of the ids is.
WriteAttemptReceipt(r) ==
  /\ pc[r] = "attempt"
  /\ ctx[r].receipt
  /\ receipts' = [receipts EXCEPT ![r] =
       [status |-> "failed", digest |-> file, deployed |-> ctx[r].c,
        failure |-> FailureSummary(r),
        ids |-> [s \in ctx[r].active |-> IF AllPresent(r) THEN ContainerId(s) ELSE None]]]
  /\ Exit(r, "failed")
  /\ UNCHANGED <<engine, file>>

\* Any other error ends the run without a receipt and without undoing anything:
\* a failed Podman call, build or inspect, a dependency that is not running, a
\* name or network in use, an attempt receipt that is not asked for or cannot
\* be written.  Only a gate cannot fail this way: it has GateFails.
StepFails(r) ==
  /\ pc[r] \in Busy \ {"extgate", "gate"}
  /\ Exit(r, "failed")
  /\ UNCHANGED <<engine, file, receipts>>

-----------------------------------------------------------------------------
\* The surroundings.

\* The process is killed; nothing handles signals.
Kill(r) ==
  /\ pc[r] \in Busy
  /\ Exit(r, "killed")
  /\ UNCHANGED <<engine, file, receipts>>

Edit ==
  /\ Editable \/ \A r \in Run : pc[r] \notin Busy
  /\ file' \in Contracts \ {file}
  /\ UNCHANGED <<engine, pc, locals, receipts>>

ContainersLive == EngineStep /\ UNCHANGED <<file, pc, locals, receipts>>

-----------------------------------------------------------------------------
Init ==
  /\ EngineInit
  /\ file \in Contracts
  /\ pc = [r \in Run |-> "idle"]
  /\ ctx = [r \in Run |-> NoContext]
  /\ pos = [r \in Run |-> 0]
  /\ todo = [r \in Run |-> {}]
  /\ cur = [r \in Run |-> None]
  /\ seen = [r \in Run |-> {}]
  /\ gated = [r \in Run |-> {}]
  /\ receipts = [r \in Run |-> None]

\* What the process itself does next.
Step(r) ==
  \/ NetworkExists(r) \/ NetworkMissing(r) \/ CreateNetwork(r) \/ NetworksReady(r)
  \/ VolumeExists(r) \/ VolumeMissing(r) \/ CreateVolume(r) \/ VolumesReady(r)
  \/ Prepare(r) \/ CheckExternal(r) \/ ExternalGatePasses(r)
  \/ RemoveOld(r) \/ Start(r) \/ StartFailsHalfway(r) \/ GatePasses(r) \/ GateFails(r)
  \/ WriteReceipt(r) \/ NoReceipt(r) \/ WriteAttemptReceipt(r) \/ StepFails(r)

Next ==
  \/ \E r \in Run : Begin(r) \/ Reject(r) \/ Step(r) \/ Kill(r)
  \/ Edit
  \/ ContainersLive

Spec == Init /\ [][Next]_vars

\* WaitExecHealth gives podman exec no deadline: while the container runs, its
\* command may keep the gate for as long as it likes.
ProbeMayHang(r) ==
  \E s \in ExecProbed :
    /\ \/ pc[r] = "gate" /\ s = This(r)
       \/ pc[r] = "extgate" /\ s = cur[r].service
    /\ IsRunning(CName[s])

\* A process that was started keeps running, and the other Podman calls return;
\* nobody owes anybody a command, a kill, an edit, a healthy container or an
\* answer to an exec probe.
FairSpec == Spec /\ \A r \in Run : WF_vars(Step(r) /\ ~ ProbeMayHang(r))
-----------------------------------------------------------------------------
DeployContext ==
  [c : Contracts, active : SUBSET Service, partial : BOOLEAN, order : Seq(Service),
   skipHealth : BOOLEAN, receipt : BOOLEAN]

TypeOK ==
  /\ EngineTypeOK
  /\ file \in Contracts
  /\ pc \in [Run -> {"idle"} \cup Busy \cup Final]
  /\ DOMAIN ctx = Run
  /\ \A r \in Run : ctx[r] \in IF pc[r] \in Busy THEN DeployContext ELSE {NoContext}
  /\ pos \in [Run -> Nat]
  /\ \A r \in Run : pc[r] \in InLoop => pos[r] \in 1 .. Len(ctx[r].order)
  /\ todo \in [Run -> SUBSET (Net \cup Vol \cup Dependency(Service))]
  /\ cur \in [Run -> Net \cup Vol \cup Dependency(Service) \cup {None}]
  /\ seen \in [Run -> SUBSET Service]
  /\ gated \in [Run -> SUBSET Service]
  /\ receipts \in [Run -> Receipt \cup {None}]

\* The services run r is done with: started and, where required, gated.
Done(r) == {ctx[r].order[j] : j \in 1 .. pos[r] - 1}

\* What the contract asks before service s may be (re)started by run r: its
\* selected dependencies are up, the others were found running, and whoever is
\* waited for as healthy has passed its gate in this very run.
Justified(r, s) ==
  \A d \in ctx[r].c.deps[s] :
    /\ d.service \in ctx[r].active => d.service \in Done(r)
    /\ d.service \notin ctx[r].active => d.service \in seen[r]
    /\ d.condition = "healthy" /\ ~ ctx[r].skipHealth => d.service \in gated[r]

\* From the moment the old container of a service is removed, and for every
\* service already replaced, the dependencies' conditions were met: no service
\* is taken down or started ahead of what it depends on, in any order of
\* crashes, health changes, failures and other runs.
StartJustified ==
  \A r \in Run :
    /\ pc[r] \in {"start", "gate"} => Justified(r, This(r))
    /\ \A s \in Done(r) : Justified(r, s)

\* Success evidence is about this deploy: a receipt with status ok names, for
\* every selected service, the container this very run created.
OkReceiptTruthful ==
  \A r \in Run :
    receipts[r] # None /\ receipts[r].status = "ok" =>
      /\ DOMAIN receipts[r].ids # {}
      /\ \A s \in DOMAIN receipts[r].ids : receipts[r].ids[s] = r

\* An attempt receipt tells how far the failed run got: the service whose gate
\* failed is recorded with the container this run gave it (or none), nothing
\* selected that depends on it was replaced, and when the gate was that of a
\* dependency outside the selection, the service that asked for it still has
\* its old container.
AttemptReceiptTruthful ==
  \A r \in Run :
    receipts[r] # None /\ receipts[r].status = "failed" =>
      LET f   == receipts[r].failure
          ids == receipts[r].ids
      IN  IF f.externalDep
          THEN /\ f.service \notin DOMAIN ids
               /\ ids[f.requestedBy] # r
          ELSE /\ ids[f.service] \in {r, None}
               /\ \A s \in DOMAIN ids :
                    f.service \in DependsOn(receipts[r].deployed, s) => ids[s] # r

\* Partial deploy leaves the neighbours alone: the container of a service is
\* created or removed only while some run has that service in its selection.
OutsideUntouched ==
  [][\A s \in Service :
       ContainerId(s)' # ContainerId(s) =>
         \E r \in Run : pc[r] \in Busy /\ s \in ctx[r].active]_vars

\* contract_digest: "hex of the contract file bytes used for deploy"
\* (internal/receipt/receipt.go).
DigestIsOfDeployedContract ==
  \A r \in Run : receipts[r] # None => receipts[r].digest = receipts[r].deployed

\* "Missing inspect results yield name/container_name only" (buildReceipt-
\* ServiceRecordsBestEffort): a container that exists when the attempt receipt is
\* written is recorded with its id, whether or not the other ones exist.
AttemptRecordsWhatExists ==
  [][\A r \in Run :
       receipts'[r] # receipts[r] /\ receipts'[r].status = "failed" =>
         \A s \in DOMAIN receipts'[r].ids :
           ContainerId(s) # None => receipts'[r].ids[s] = ContainerId(s)]_vars

\* The refinement mapping to Rollout: a service is through when its turn is over.
StatusOf(r) ==
  CASE pc[r] = "idle" -> "idle"
    [] pc[r] \in Busy -> "rolling"
    [] pc[r] = "ok" -> "done"
    [] OTHER -> "stopped"

PlanOf(r) ==
  IF pc[r] \in Busy
  THEN [services |-> ctx[r].active,
        needs |-> [s \in Service |-> DependsOn(ctx[r].c, s) \cap ctx[r].active]]
  ELSE None

EvidenceOf(r) == IF receipts[r] = None THEN None ELSE receipts[r].status

Status == [r \in Run |-> StatusOf(r)]
Plans == [r \in Run |-> PlanOf(r)]
Rolled == [r \in Run |-> Done(r)]
Owner == [s \in Service |-> ContainerId(s)]
Evidence == [r \in Run |-> EvidenceOf(r)]

Promise == INSTANCE Rollout WITH
  Nothing <- None, status <- Status, plan <- Plans, rolled <- Rolled,
  owner <- Owner, evidence <- Evidence

\* Deploy implements its abstract specification.
KeepsPromise == Promise!Spec

\* Every deploy that was started comes to an end, whatever the containers and
\* the other runs do, unless the exec probe of a running container gets no answer
\* for good (as in HealthGate!GateEnds): the gates of HTTP probes, its own and
\* those of dependencies outside the selection, do not keep it.
RunsTerminate ==
  \A r \in Run : (pc[r] \in Busy ~> pc[r] \in Final) \/ []<>ProbeMayHang(r)
=============================================================================
