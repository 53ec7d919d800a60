-------------------------- MODULE LifecycleProofs ---------------------------
(***************************************************************************)
(* Proofs about deploy and down on one project (module Lifecycle), for any *)
(* number of runs of both, any contracts and command lines and every       *)
(* interleaving.                                                           *)
(***************************************************************************)
EXTENDS Lifecycle, FiniteSetTheorems, TLAPS

\* The results about deploy.  Its operators appear here once as those of D, which
\* the model is composed of, and once as those of P, which the results are about.
P == INSTANCE DeployProofs

-----------------------------------------------------------------------------
\* D and P are the same deploy.

LEMMA SameAssumptions == P!DeployAssumption /\ P!PodmanAssumption
BY LifecycleAssumption, PodmanAssumption
   DEF D!DeployAssumption, P!DeployAssumption, PodmanAssumption, P!PodmanAssumption,
       Container, P!Container, D!Receipt, P!Receipt, D!Failure, P!Failure,
       D!IsContract, P!IsContract, D!Dependency, P!Dependency, D!Condition, P!Condition,
       D!IsFiniteSet, P!IsFiniteSet

LEMMA SameBegin ==
  ASSUME NEW r \in Run, D!Begin(r) \/ D!Reject(r)
  PROVE  P!Begin(r) \/ P!Reject(r)
<1>1. \A c, S : D!DependencyOrders(c, S) = P!DependencyOrders(c, S)
  BY DEF D!DependencyOrders, P!DependencyOrders, D!SetToSeqs, P!SetToSeqs,
         D!IsInjective, P!IsInjective, D!Cardinality, P!Cardinality,
         D!DependsOn, P!DependsOn
<1>2. \A cmd : D!Selection(cmd) = P!Selection(cmd)
  BY DEF D!Selection, P!Selection,
         D!ObservabilityActiveServices, P!ObservabilityActiveServices,
         D!ServicesForProfiles, P!ServicesForProfiles, D!IsIncluded, P!IsIncluded,
         D!ServicesForDeployTargets, P!ServicesForDeployTargets,
         D!ExpandDependentsTransitive, P!ExpandDependentsTransitive,
         D!DirectDependents, P!DirectDependents, D!DependsOn, P!DependsOn
<1>3. \A c, S, b : D!Preflight(c, S, b) <=> P!Preflight(c, S, b)
  BY <1>1 DEF D!Preflight, P!Preflight
<1>4. \A cmd : D!Accepted(cmd) <=> P!Accepted(cmd)
  BY <1>2, <1>3
     DEF D!Accepted, P!Accepted, D!TargetsAreActive, P!TargetsAreActive,
         D!ServicesForProfiles, P!ServicesForProfiles, D!IsIncluded, P!IsIncluded
<1>5. D!MayBegin(r) <=> P!MayBegin(r)
  BY DEF D!MayBegin, P!MayBegin, D!Busy, P!Busy
<1>6. D!Begin(r) => P!Begin(r)
  BY <1>1, <1>2, <1>4, <1>5 DEF D!Begin, P!Begin, D!engine, P!engine
<1>7. D!Reject(r) => P!Reject(r)
  BY <1>4, <1>5 DEF D!Reject, P!Reject, D!engine, P!engine, D!locals, P!locals
<1> QED BY <1>6, <1>7

LEMMA SamePreparation ==
  ASSUME NEW r \in Run,
         \/ D!NetworkExists(r) \/ D!NetworkMissing(r) \/ D!CreateNetwork(r) \/ D!NetworksReady(r)
         \/ D!VolumeExists(r) \/ D!VolumeMissing(r) \/ D!CreateVolume(r) \/ D!VolumesReady(r)
  PROVE  P!Step(r)
<1> USE DEF D!engine, P!engine, P!Step
<1>1. CASE D!NetworkExists(r) \/ D!NetworkMissing(r)
  BY <1>1 DEF D!NetworkExists, P!NetworkExists, D!NetworkMissing, P!NetworkMissing
<1>2. CASE D!CreateNetwork(r) \/ D!NetworksReady(r)
  BY <1>2 DEF D!CreateNetwork, P!CreateNetwork, D!NetworksReady, P!NetworksReady
<1>3. CASE D!VolumeExists(r) \/ D!VolumeMissing(r)
  BY <1>3 DEF D!VolumeExists, P!VolumeExists, D!VolumeMissing, P!VolumeMissing
<1>4. CASE D!CreateVolume(r) \/ D!VolumesReady(r)
  BY <1>4 DEF D!CreateVolume, P!CreateVolume, D!VolumesReady, P!VolumesReady
<1> QED BY <1>1, <1>2, <1>3, <1>4

LEMMA SameLoop ==
  ASSUME NEW r \in Run,
         \/ D!Prepare(r) \/ D!CheckExternal(r) \/ D!ExternalGatePasses(r)
         \/ D!RemoveOld(r) \/ D!Start(r) \/ D!StartFailsHalfway(r)
         \/ D!GatePasses(r) \/ D!GateFails(r)
  PROVE  P!Step(r)
<1> USE DEF D!engine, P!engine, D!locals, P!locals, D!This, P!This,
            D!IsRunning, P!IsRunning, D!IsHealthy, P!IsHealthy, P!Step
<1>1. CASE D!Prepare(r)
  BY <1>1 DEF D!Prepare, P!Prepare, D!ExternalDeps, P!ExternalDeps
<1>2. CASE D!CheckExternal(r)
  BY <1>2 DEF D!CheckExternal, P!CheckExternal
<1>3. CASE D!ExternalGatePasses(r)
  BY <1>3 DEF D!ExternalGatePasses, P!ExternalGatePasses
<1>4. CASE D!RemoveOld(r)
  BY <1>4 DEF D!RemoveOld, P!RemoveOld
<1>5. CASE D!Start(r)
  <2>1. D!MustGate(ctx[r], D!This(r)) <=> P!MustGate(ctx[r], P!This(r))
    BY DEF D!MustGate, P!MustGate, D!NeedsHealthWait, P!NeedsHealthWait
  <2>2. P!Start(r)
    BY <1>5, <2>1 DEF D!Start, P!Start, D!CanStart, P!CanStart,
                      D!StartContainer, P!StartContainer, D!Advance, P!Advance
  <2> QED BY <2>2
<1>6. CASE D!StartFailsHalfway(r)
  BY <1>6 DEF D!StartFailsHalfway, P!StartFailsHalfway, D!CanStart, P!CanStart,
              D!StartContainer, P!StartContainer
<1>7. CASE D!GatePasses(r)
  BY <1>7 DEF D!GatePasses, P!GatePasses, D!Advance, P!Advance
<1>8. CASE D!GateFails(r)
  BY <1>8 DEF D!GateFails, P!GateFails
<1> QED BY <1>1, <1>2, <1>3, <1>4, <1>5, <1>6, <1>7, <1>8

LEMMA SameEnd ==
  ASSUME NEW r \in Run,
         \/ D!WriteReceipt(r) \/ D!NoReceipt(r) \/ D!WriteAttemptReceipt(r)
         \/ D!StepFails(r) \/ D!Kill(r)
  PROVE  P!Step(r) \/ P!Kill(r)
<1>1. \A o : D!Exit(r, o) <=> P!Exit(r, o)
  BY DEF D!Exit, P!Exit, D!NoContext, P!NoContext
<1>2. D!AllPresent(r) <=> P!AllPresent(r)
  BY DEF D!AllPresent, P!AllPresent
<1>3. \A s : D!ContainerId(s) = P!ContainerId(s)
  BY DEF D!ContainerId, P!ContainerId
<1>4. CASE D!WriteReceipt(r)
  BY <1>1, <1>2, <1>3, <1>4 DEF D!WriteReceipt, P!WriteReceipt, D!engine, P!engine, P!Step
<1>5. CASE D!NoReceipt(r)
  BY <1>1, <1>5 DEF D!NoReceipt, P!NoReceipt, D!engine, P!engine, P!Step
<1>6. CASE D!WriteAttemptReceipt(r)
  <2>1. D!FailureSummary(r) = P!FailureSummary(r)
    BY DEF D!FailureSummary, P!FailureSummary, D!This, P!This
  <2>2. [s \in ctx[r].active |-> IF D!AllPresent(r) THEN D!ContainerId(s) ELSE None] =
          [s \in ctx[r].active |-> IF P!AllPresent(r) THEN P!ContainerId(s) ELSE None]
    BY <1>2, <1>3
  <2>3. P!WriteAttemptReceipt(r)
    BY <1>1, <1>6, <2>1, <2>2
       DEF D!WriteAttemptReceipt, P!WriteAttemptReceipt, D!engine, P!engine
  <2> QED BY <2>3 DEF P!Step
<1>7. CASE D!StepFails(r)
  BY <1>1, <1>7 DEF D!StepFails, P!StepFails, D!engine, P!engine, D!Busy, P!Busy, P!Step
<1>8. CASE D!Kill(r)
  BY <1>1, <1>8 DEF D!Kill, P!Kill, D!engine, P!engine, D!Busy, P!Busy
<1> QED BY <1>4, <1>5, <1>6, <1>7, <1>8

LEMMA SameNext ==
  ASSUME D!Next
  PROVE  P!Next
<1>1. ASSUME NEW r \in Run, D!Begin(r) \/ D!Reject(r) \/ D!Step(r) \/ D!Kill(r)
      PROVE  P!Begin(r) \/ P!Reject(r) \/ P!Step(r) \/ P!Kill(r)
  BY <1>1, SameBegin, SamePreparation, SameLoop, SameEnd DEF D!Step
<1>2. D!Edit => P!Edit
  BY DEF D!Edit, P!Edit, D!engine, P!engine, D!locals, P!locals, D!Busy, P!Busy
<1>3. D!ContainersLive => P!ContainersLive
  BY DEF D!ContainersLive, P!ContainersLive, D!EngineStep, P!EngineStep, D!Crash, P!Crash,
         D!Restart, P!Restart, D!HealthChange, P!HealthChange, D!IsRunning, P!IsRunning,
         D!locals, P!locals
<1> QED BY <1>1, <1>2, <1>3 DEF D!Next, P!Next

LEMMA SameInit ==
  ASSUME D!Init
  PROVE  P!Init
BY DEF D!Init, P!Init, D!EngineInit, P!EngineInit, D!NoContext, P!NoContext

-----------------------------------------------------------------------------
\* What a down run does to the engine.

LEMMA DownShrinks ==
  ASSUME NEW d \in Down, DownNext(d), P!EngineTypeOK
  PROVE  /\ P!EngineTypeOK'
         /\ nets' \subseteq nets /\ vols' \subseteq vols
         /\ \A n \in Name : ctr'[n] \in {Absent, ctr[n]}
<1> USE DEF P!EngineTypeOK
<1>1. CASE UNCHANGED engine
  BY <1>1 DEF engine
<1>2. CASE RemoveContainers(d) /\ UNCHANGED <<nets, vols>>
  BY <1>2 DEF RemoveContainers
<1>3. CASE RemoveNetwork(d) /\ UNCHANGED <<ctr, vols>>
  BY <1>3 DEF RemoveNetwork
<1>4. CASE RemoveVolume(d) /\ UNCHANGED <<ctr, nets>>
  BY <1>4 DEF RemoveVolume
<1> QED BY <1>1, <1>2, <1>3, <1>4 DEF DownNext, DownEvent, DownStep

\* Deploy keeps its inductive invariant, whatever the down runs take away from it.
LEMMA DeployInvStep ==
  ASSUME P!IInv, [Next]_vars
  PROVE  P!IInv'
<1> USE SameAssumptions
<1>1. CASE D!Next
  <2>1. P!Next
    BY <1>1, SameNext
  <2> QED BY <2>1, P!IInvStep
<1>2. CASE UNCHANGED <<file, deploy>> /\ P!EngineTypeOK'
  <2>1. UNCHANGED <<pc, ctx, pos, todo, cur, seen, gated, receipts, file>>
    BY <1>2 DEF deploy
  <2>2. P!TypeOK'
    BY <1>2, <2>1 DEF P!IInv, P!TypeOK
  <2>3. ASSUME NEW r \in Run
        PROVE  P!RunInv(r)'
    <3>1. P!RunInv(r)
      BY DEF P!IInv
    <3> QED BY <2>1, <3>1, P!RunSame
  <2> QED BY <2>2, <2>3 DEF P!IInv
<1>3. ASSUME NEW d \in Down, DownNext(d)
      PROVE  UNCHANGED <<file, deploy>> /\ P!EngineTypeOK'
  BY <1>3, DownShrinks DEF DownNext, P!IInv, P!TypeOK
<1>4. ASSUME UNCHANGED vars
      PROVE  UNCHANGED <<file, deploy>> /\ P!EngineTypeOK'
  BY <1>4 DEF vars, engine, P!IInv, P!TypeOK, P!EngineTypeOK
<1> QED BY <1>1, <1>2, <1>3, <1>4 DEF Next

-----------------------------------------------------------------------------
\* What down selects.

\* What is downstream of the named services, themselves included.
LEMMA DownstreamFacts ==
  ASSUME NEW c, NEW base \in SUBSET Service, NEW seeds \in SUBSET Service
  PROVE  /\ ExpandDependentsTransitive(c, base, seeds) \in SUBSET Service
         /\ seeds \subseteq ExpandDependentsTransitive(c, base, seeds)
         /\ seeds = {} => ExpandDependentsTransitive(c, base, seeds) = {}
BY DEF ExpandDependentsTransitive

LEMMA PartialFacts ==
  ASSUME file \in Contracts, NEW cmd \in DownCommands, KnownTargets(cmd)
  PROVE  LET base == ServicesForProfiles(file, cmd.profiles)
         IN  /\ PartialServices(cmd) \in SUBSET Service
             /\ cmd.roots # {} =>
                  PartialServices(cmd) \subseteq
                    IF cmd.dependents
                    THEN ExpandDependentsTransitive(file, base, cmd.roots)
                    ELSE cmd.roots
             /\ cmd.roots # {} /\ base # {} => PartialServices(cmd) # {}
             /\ cmd.roots = {} /\ ~ cmd.dependents => PartialServices(cmd) = {}
<1> DEFINE base == ServicesForProfiles(file, cmd.profiles)
           sub == ServicesForDeployTargets(base, cmd.roots)
<1>1. file.services \in SUBSET Service /\ cmd.roots \in SUBSET Service
  BY TeardownAssumption DEF TeardownAssumption, IsContract
<1>2. base \in SUBSET Service
  BY <1>1 DEF ServicesForProfiles
<1> HIDE DEF base
<1>3. sub \in SUBSET Service
  BY <1>1, <1>2 DEF ServicesForDeployTargets
<1>4. PartialServices(cmd) =
        IF cmd.roots # {} \/ cmd.dependents
        THEN IF cmd.roots # {} /\ cmd.dependents
             THEN ExpandDependentsTransitive(file, base, sub)
             ELSE sub
        ELSE {}
  BY DEF PartialServices, ObservabilityActiveServices, base
<1>5. PartialServices(cmd) \in SUBSET Service
  BY <1>2, <1>3, <1>4, DownstreamFacts
<1>6. CASE base = {} /\ cmd.roots # {}
  <2>1. sub = {}
    BY <1>6 DEF ServicesForDeployTargets
  <2>2. PartialServices(cmd) = {}
    BY <1>2, <1>4, <2>1, DownstreamFacts
  <2> QED BY <1>5, <1>6, <2>2 DEF base
<1>7. CASE base # {} /\ cmd.roots # {}
  <2>1. sub = cmd.roots
    BY <1>7 DEF ServicesForDeployTargets
  <2>2. cmd.roots \subseteq PartialServices(cmd)
    BY <1>1, <1>2, <1>4, <1>7, <2>1, DownstreamFacts
  <2> QED BY <1>4, <1>5, <1>7, <2>1, <2>2 DEF base
<1>8. CASE cmd.roots = {}
  BY <1>4, <1>5, <1>8 DEF base
<1> QED BY <1>6, <1>7, <1>8

-----------------------------------------------------------------------------
\* The variables of down.

Job == [c : Contracts \cup {Absent}, cmd : DownCommands \cup {Absent},
        partial : SUBSET Service]

Flags == [removed : BOOLEAN, kept : BOOLEAN, warning : BOOLEAN, engineWarning : BOOLEAN]

\* What the job of a down run at work says.
JobInv(d) ==
  stage[d] \in Tearing =>
    /\ job[d].c \in Contracts /\ job[d].cmd \in DownCommands
    /\ job[d].partial \subseteq Asked(d)
    /\ job[d].cmd.roots = {} /\ ~ job[d].cmd.dependents => ~ PartialMode(d)
    /\ stage[d] = "remove" /\ PartialMode(d) =>
         \A n \in doomed[d] : \E s \in job[d].partial : CName[s] = n
    /\ stage[d] = "networks" =>
         /\ rest[d] \subseteq OwnNets
         /\ rest[d] # {} => ~ job[d].cmd.keepNetwork
    /\ stage[d] = "volumes" => job[d].cmd.volumes /\ ~ PartialMode(d)

DownInv == DownTypeOK /\ \A d \in Down : JobInv(d)

\* A new job.
LEMMA BeginDownInv ==
  ASSUME file \in Contracts, DownInv, NEW d \in Down, BeginDown(d)
  PROVE  DownTypeOK' /\ JobInv(d)'
<1>1. PICK cmd \in DownCommands :
        /\ KnownTargets(cmd)
        /\ job' = [job EXCEPT ![d] = [c |-> file, cmd |-> cmd, partial |-> PartialServices(cmd)]]
  BY DEF BeginDown
<1> DEFINE new == [c |-> file, cmd |-> cmd, partial |-> PartialServices(cmd)]
           base == ServicesForProfiles(file, cmd.profiles)
<1>2. PartialServices(cmd) \in SUBSET Service
  BY <1>1, PartialFacts
<1>3. /\ cmd.roots # {} =>
           PartialServices(cmd) \subseteq
             IF cmd.dependents THEN ExpandDependentsTransitive(file, base, cmd.roots)
             ELSE cmd.roots
      /\ cmd.roots = {} /\ ~ cmd.dependents => PartialServices(cmd) = {}
  BY <1>1, PartialFacts
<1>4. new \in Job /\ new.c = file /\ new.cmd = cmd /\ new.partial = PartialServices(cmd)
  BY <1>2 DEF Job
<1> HIDE DEF new
<1>5. job' \in [Down -> Job] /\ job'[d] = new /\ \A e \in Down \ {d} : job'[e] = job[e]
  BY <1>1, <1>4 DEF DownInv, DownTypeOK, Job, new
<1>6. /\ stage' \in [Down -> {"idle"} \cup Tearing \cup Over] /\ stage'[d] = "list"
      /\ \A e \in Down \ {d} : stage'[e] = stage[e]
      /\ UNCHANGED <<doomed, rest, result>>
  BY DEF BeginDown, DownInv, DownTypeOK, Tearing
<1>7. file # Absent /\ cmd # Absent
  BY TeardownAssumption DEF TeardownAssumption
<1>8. DownTypeOK'
  <2>1. ASSUME NEW e \in Down
        PROVE  /\ stage'[e] \in Tearing => job'[e].c # Absent /\ job'[e].cmd # Absent
               /\ stage'[e] = "remove" => doomed'[e] # {}
    BY <1>4, <1>5, <1>6, <1>7 DEF DownInv, DownTypeOK
  <2> QED BY <2>1, <1>5, <1>6 DEF DownInv, DownTypeOK, Job
<1>9. Asked(d)' = IF cmd.roots = {} THEN Service
                  ELSE IF cmd.dependents THEN ExpandDependentsTransitive(file, base, cmd.roots)
                  ELSE cmd.roots
  BY <1>4, <1>5 DEF Asked
<1>10. PartialServices(cmd) \subseteq Asked(d)'
  BY <1>2, <1>3, <1>9
<1>11. JobInv(d)'
  BY <1>3, <1>4, <1>5, <1>6, <1>10 DEF JobInv, PartialMode
<1> QED BY <1>8, <1>11

\* Another run keeps its job.
LEMMA OtherDown ==
  ASSUME DownInv, NEW d \in Down, DownNext(d), NEW e \in Down \ {d}
  PROVE  /\ stage'[e] = stage[e] /\ job'[e] = job[e] /\ doomed'[e] = doomed[e]
         /\ rest'[e] = rest[e] /\ result'[e] = result[e]
<1> USE DEF DownInv, DownTypeOK
<1>1. CASE BeginDown(d) \/ RefuseDown(d) \/ KillDown(d)
  BY <1>1 DEF BeginDown, RefuseDown, KillDown
<1>2. ASSUME NEW names, List(d, names)
      PROVE  /\ stage'[e] = stage[e] /\ job'[e] = job[e] /\ doomed'[e] = doomed[e]
             /\ rest'[e] = rest[e] /\ result'[e] = result[e]
  BY <1>2 DEF List
<1>3. ASSUME NEW names, Relist(d, names)
      PROVE  /\ stage'[e] = stage[e] /\ job'[e] = job[e] /\ doomed'[e] = doomed[e]
             /\ rest'[e] = rest[e] /\ result'[e] = result[e]
  BY <1>3 DEF Relist
<1>4. CASE EngineUnavailable(d) \/ ListFails(d) \/ RemoveContainers(d)
  BY <1>4 DEF EngineUnavailable, ListFails, RemoveContainers
<1>5. CASE RemoveNetwork(d) \/ NetworkRefused(d) \/ NetworksDone(d)
  BY <1>5 DEF RemoveNetwork, NetworkRefused, NetworksDone
<1>6. CASE RemoveVolume(d) \/ VolumeRefused(d) \/ VolumesDone(d)
  BY <1>6 DEF RemoveVolume, VolumeRefused, VolumesDone
<1> QED BY <1>1, <1>2, <1>3, <1>4, <1>5, <1>6 DEF DownNext, DownEvent, DownStep

LEMMA JobSame ==
  ASSUME NEW e \in Down, JobInv(e),
         stage'[e] = stage[e], job'[e] = job[e], doomed'[e] = doomed[e], rest'[e] = rest[e]
  PROVE  JobInv(e)'
BY DEF JobInv, Asked, PartialMode

\* A step that moves down run d on, with its job.
LEMMA MoveDown ==
  ASSUME DownInv, NEW d \in Down, NEW st \in Tearing \cup Over, stage[d] \in Tearing,
         stage' = [stage EXCEPT ![d] = st], job' = job,
         doomed' \in [Down -> SUBSET Name], \A e \in Down \ {d} : doomed'[e] = doomed[e],
         rest' \in [Down -> SUBSET ((Net \ ExtNet) \cup Vol)],
         result' \in [Down -> Flags],
         st = "remove" => doomed'[d] # {}
  PROVE  /\ DownTypeOK' /\ stage'[d] = st /\ Asked(d)' = Asked(d)
         /\ PartialMode(d)' = PartialMode(d)
<1> USE DEF DownInv, DownTypeOK
<1>1. /\ stage' \in [Down -> {"idle"} \cup Tearing \cup Over] /\ stage'[d] = st
      /\ \A e \in Down \ {d} : stage'[e] = stage[e]
  OBVIOUS
<1>2. ASSUME NEW e \in Down
      PROVE  /\ stage'[e] \in Tearing => job'[e].c # Absent /\ job'[e].cmd # Absent
             /\ stage'[e] = "remove" => doomed'[e] # {}
  BY <1>1
<1> QED BY <1>1, <1>2 DEF Flags, Asked, PartialMode

\* What is to be removed.
LEMMA RemovalFacts ==
  ASSUME NEW d \in Down, NEW names \in SUBSET Name
  PROVE  /\ ToRemove(d, names) \subseteq names
         /\ PartialMode(d) =>
              \A n \in ToRemove(d, names) : \E s \in job[d].partial : CName[s] = n
         /\ ~ PartialMode(d) => ToRemove(d, names) = names
BY DEF ToRemove

LEMMA ListInv ==
  ASSUME DownInv, NEW d \in Down, NEW names \in SUBSET Name, List(d, names)
  PROVE  DownTypeOK' /\ JobInv(d)'
<1>1. stage[d] = "list" /\ stage[d] \in Tearing /\ UNCHANGED <<job, rest, result>>
  BY DEF List, Tearing
<1>2. JobInv(d)
  BY DEF DownInv
<1>3. CASE PartialMode(d) /\ job[d].cmd.volumes
  <2>1. stage' = [stage EXCEPT ![d] = "fatal"] /\ UNCHANGED doomed
    BY <1>3 DEF List
  <2>2. DownTypeOK' /\ stage'[d] = "fatal"
    BY <1>1, <2>1, MoveDown DEF DownInv, DownTypeOK, Flags, Over
  <2> QED BY <2>2 DEF JobInv, Tearing
<1>4. CASE ~ (PartialMode(d) /\ job[d].cmd.volumes)
  <2> DEFINE st == IF ToRemove(d, names) = {} THEN "relist" ELSE "remove"
  <2>1. stage' = [stage EXCEPT ![d] = st] /\ doomed' = [doomed EXCEPT ![d] = ToRemove(d, names)]
    BY <1>4 DEF List
  <2>2. /\ doomed' \in [Down -> SUBSET Name] /\ doomed'[d] = ToRemove(d, names)
        /\ \A e \in Down \ {d} : doomed'[e] = doomed[e]
    BY <2>1, RemovalFacts DEF DownInv, DownTypeOK
  <2>3. st \in Tearing /\ st \in {"relist", "remove"} /\ (st = "remove" => doomed'[d] # {})
    BY <2>2 DEF Tearing
  <2> HIDE DEF st
  <2>4. /\ DownTypeOK' /\ stage'[d] = st /\ Asked(d)' = Asked(d)
        /\ PartialMode(d)' = PartialMode(d)
    BY <1>1, <2>1, <2>2, <2>3, MoveDown DEF DownInv, DownTypeOK, Flags
  <2> QED BY <1>1, <1>2, <2>2, <2>3, <2>4, RemovalFacts DEF JobInv
<1> QED BY <1>3, <1>4

LEMMA RelistInv ==
  ASSUME DownInv, NEW d \in Down, NEW names, Relist(d, names)
  PROVE  DownTypeOK' /\ JobInv(d)'
<1>1. stage[d] = "relist" /\ stage[d] \in Tearing /\ UNCHANGED <<job, doomed>>
      /\ stage' = [stage EXCEPT ![d] = "networks"]
  BY DEF Relist, Tearing
<1>2. JobInv(d)
  BY DEF DownInv
<1> DEFINE keep == KeepNetworks(d, names)
<1>3. /\ result' = [result EXCEPT ![d].kept = keep]
      /\ rest' = [rest EXCEPT ![d] = IF keep THEN {} ELSE OwnNets]
  BY DEF Relist
<1>4. keep \in BOOLEAN /\ (~ keep => ~ job[d].cmd.keepNetwork)
  <2>1. job[d].cmd.keepNetwork \in BOOLEAN
    BY <1>1, <1>2, TeardownAssumption DEF JobInv, TeardownAssumption
  <2> QED BY <2>1 DEF KeepNetworks
<1> HIDE DEF keep
<1>5. /\ rest' \in [Down -> SUBSET ((Net \ ExtNet) \cup Vol)]
      /\ rest'[d] \subseteq OwnNets /\ (rest'[d] # {} => ~ keep)
  BY <1>3 DEF DownInv, DownTypeOK, OwnNets
<1>6. result' \in [Down -> Flags]
  BY <1>3, <1>4 DEF DownInv, DownTypeOK, Flags
<1>7. /\ DownTypeOK' /\ stage'[d] = "networks" /\ Asked(d)' = Asked(d)
      /\ PartialMode(d)' = PartialMode(d)
  BY <1>1, <1>5, <1>6, MoveDown DEF DownInv, DownTypeOK, Tearing
<1> QED BY <1>1, <1>2, <1>4, <1>5, <1>7 DEF JobInv

\* A run that ends has no job to speak for.
LEMMA EndInv ==
  ASSUME DownInv, NEW d \in Down,
         \/ EngineUnavailable(d) \/ ListFails(d)
         \/ VolumeRefused(d) \/ VolumesDone(d) \/ KillDown(d)
  PROVE  DownTypeOK' /\ JobInv(d)'
<1>1. PICK st \in Over : stage' = [stage EXCEPT ![d] = st]
  BY DEF EngineUnavailable, ListFails, VolumeRefused, VolumesDone, KillDown, Over
<1>2. stage[d] \in Tearing /\ UNCHANGED <<job, doomed, rest>>
  BY DEF EngineUnavailable, ListFails, VolumeRefused, VolumesDone, KillDown, Tearing
<1>3. result' \in [Down -> Flags]
  <2>1. CASE UNCHANGED result
    BY <2>1 DEF DownInv, DownTypeOK, Flags
  <2>2. CASE result' = [result EXCEPT ![d].kept = TRUE, ![d].engineWarning = TRUE]
    <3>1. [result[d] EXCEPT !.kept = TRUE, !.engineWarning = TRUE] \in Flags
      BY DEF DownInv, DownTypeOK, Flags
    <3> QED BY <2>2, <3>1 DEF DownInv, DownTypeOK, Flags
  <2> QED BY <2>1, <2>2
       DEF EngineUnavailable, ListFails, VolumeRefused, VolumesDone, KillDown
<1>4. DownTypeOK' /\ stage'[d] = st
  BY <1>1, <1>2, <1>3, MoveDown DEF DownInv, DownTypeOK, Over
<1> QED BY <1>4 DEF JobInv, Tearing, Over

LEMMA RefuseDownInv ==
  ASSUME DownInv, NEW d \in Down, RefuseDown(d)
  PROVE  DownTypeOK' /\ JobInv(d)'
<1>1. /\ stage' \in [Down -> {"idle"} \cup Tearing \cup Over] /\ stage'[d] = "refused"
      /\ \A e \in Down \ {d} : stage'[e] = stage[e]
      /\ UNCHANGED <<job, doomed, rest, result>>
  BY DEF RefuseDown, DownInv, DownTypeOK, Over
<1>2. ASSUME NEW e \in Down
      PROVE  /\ stage'[e] \in Tearing => job'[e].c # Absent /\ job'[e].cmd # Absent
             /\ stage'[e] = "remove" => doomed'[e] # {}
  BY <1>1 DEF DownInv, DownTypeOK, Tearing
<1>3. DownTypeOK'
  BY <1>1, <1>2 DEF DownInv, DownTypeOK
<1>4. JobInv(d)'
  BY <1>1 DEF JobInv, Tearing
<1> QED BY <1>3, <1>4

LEMMA RemoveContainersInv ==
  ASSUME DownInv, NEW d \in Down, RemoveContainers(d)
  PROVE  DownTypeOK' /\ JobInv(d)'
<1>1. stage[d] = "remove" /\ stage[d] \in Tearing /\ UNCHANGED <<job, doomed, rest, result>>
      /\ stage' = [stage EXCEPT ![d] = "relist"]
  BY DEF RemoveContainers, Tearing
<1>2. JobInv(d)
  BY DEF DownInv
<1>3. /\ DownTypeOK' /\ stage'[d] = "relist" /\ Asked(d)' = Asked(d)
      /\ PartialMode(d)' = PartialMode(d)
  BY <1>1, MoveDown DEF DownInv, DownTypeOK, Flags, Tearing
<1> QED BY <1>1, <1>2, <1>3 DEF JobInv

\* One network fewer to go, removed or not.
LEMMA NetworkInv ==
  ASSUME DownInv, NEW d \in Down, RemoveNetwork(d) \/ NetworkRefused(d)
  PROVE  DownTypeOK' /\ JobInv(d)'
<1>1. stage[d] = "networks" /\ stage[d] \in Tearing /\ UNCHANGED <<stage, job, doomed>>
  BY DEF RemoveNetwork, NetworkRefused, Tearing
<1>2. JobInv(d)
  BY DEF DownInv
<1>3. PICK n \in rest[d] : rest' = [rest EXCEPT ![d] = @ \ {n}]
  BY DEF RemoveNetwork, NetworkRefused
<1>4. rest' \in [Down -> SUBSET ((Net \ ExtNet) \cup Vol)] /\ rest'[d] \subseteq rest[d]
  BY <1>3 DEF DownInv, DownTypeOK
<1>5. result' \in [Down -> Flags]
  <2>1. CASE result' = [result EXCEPT ![d].removed = TRUE]
    BY <2>1 DEF DownInv, DownTypeOK, Flags
  <2>2. CASE result' = [result EXCEPT ![d].warning = TRUE]
    BY <2>2 DEF DownInv, DownTypeOK, Flags
  <2> QED BY <2>1, <2>2 DEF RemoveNetwork, NetworkRefused
<1>6. stage' = [stage EXCEPT ![d] = "networks"]
  BY <1>1 DEF DownInv, DownTypeOK
<1>7. /\ DownTypeOK' /\ stage'[d] = "networks" /\ Asked(d)' = Asked(d)
      /\ PartialMode(d)' = PartialMode(d)
  BY <1>1, <1>4, <1>5, <1>6, MoveDown DEF DownInv, DownTypeOK, Tearing
<1> QED BY <1>1, <1>2, <1>4, <1>7 DEF JobInv

LEMMA NetworksDoneInv ==
  ASSUME DownInv, NEW d \in Down, NetworksDone(d)
  PROVE  DownTypeOK' /\ JobInv(d)'
<1>1. stage[d] = "networks" /\ stage[d] \in Tearing /\ UNCHANGED <<job, doomed, result>>
  BY DEF NetworksDone, Tearing
<1>2. JobInv(d)
  BY DEF DownInv
<1>3. PICK st \in {"volumes", "done"} :
        /\ stage' = [stage EXCEPT ![d] = st]
        /\ st = "volumes" => job[d].cmd.volumes /\ ~ PartialMode(d)
  BY DEF NetworksDone
<1>4. rest' \in [Down -> SUBSET ((Net \ ExtNet) \cup Vol)]
  BY DEF NetworksDone, DownInv, DownTypeOK
<1>5. /\ DownTypeOK' /\ stage'[d] = st /\ Asked(d)' = Asked(d)
      /\ PartialMode(d)' = PartialMode(d)
  BY <1>1, <1>3, <1>4, MoveDown DEF DownInv, DownTypeOK, Flags, Tearing, Over
<1> QED BY <1>1, <1>2, <1>3, <1>5 DEF JobInv

LEMMA RemoveVolumeInv ==
  ASSUME DownInv, NEW d \in Down, RemoveVolume(d)
  PROVE  DownTypeOK' /\ JobInv(d)'
<1>1. stage[d] = "volumes" /\ stage[d] \in Tearing /\ UNCHANGED <<stage, job, doomed, result>>
  BY DEF RemoveVolume, Tearing
<1>2. JobInv(d)
  BY DEF DownInv
<1>3. rest' \in [Down -> SUBSET ((Net \ ExtNet) \cup Vol)]
  BY DEF RemoveVolume, DownInv, DownTypeOK
<1>4. stage' = [stage EXCEPT ![d] = "volumes"]
  BY <1>1 DEF DownInv, DownTypeOK
<1>5. /\ DownTypeOK' /\ stage'[d] = "volumes" /\ Asked(d)' = Asked(d)
      /\ PartialMode(d)' = PartialMode(d)
  BY <1>1, <1>3, <1>4, MoveDown DEF DownInv, DownTypeOK, Flags, Tearing
<1> QED BY <1>1, <1>2, <1>5 DEF JobInv

LEMMA DownNextInv ==
  ASSUME file \in Contracts, DownInv, NEW d \in Down, DownNext(d)
  PROVE  DownInv'
<1>1. DownTypeOK' /\ JobInv(d)'
  <2>1. CASE BeginDown(d) \/ RefuseDown(d) \/ KillDown(d)
    BY <2>1, BeginDownInv, RefuseDownInv, EndInv
  <2>2. CASE \/ List(d, Labelled) \/ Relist(d, Labelled)
             \/ List(d, {}) \/ Relist(d, {})
    <3>1. Labelled \in SUBSET Name /\ {} \in SUBSET Name
      BY DEF Labelled
    <3> QED BY <2>2, <3>1, ListInv, RelistInv
  <2>3. CASE EngineUnavailable(d) \/ ListFails(d) \/ VolumeRefused(d) \/ VolumesDone(d)
    BY <2>3, EndInv
  <2>4. CASE RemoveContainers(d)
    BY <2>4, RemoveContainersInv
  <2>5. CASE RemoveNetwork(d) \/ NetworkRefused(d)
    BY <2>5, NetworkInv
  <2>6. CASE NetworksDone(d)
    BY <2>6, NetworksDoneInv
  <2>7. CASE RemoveVolume(d)
    BY <2>7, RemoveVolumeInv
  <2> QED BY <2>1, <2>2, <2>3, <2>4, <2>5, <2>6, <2>7 DEF DownNext, DownEvent, DownStep
<1>2. ASSUME NEW e \in Down \ {d}
      PROVE  JobInv(e)'
  BY OtherDown, JobSame DEF DownInv
<1> QED BY <1>1, <1>2 DEF DownInv

LEMMA DownInvStep ==
  ASSUME P!IInv, DownInv, [Next]_vars
  PROVE  DownInv'
<1>1. file \in Contracts
  BY DEF P!IInv, P!TypeOK
<1>2. CASE UNCHANGED down
  <2>1. DownTypeOK' /\ \A e \in Down : JobInv(e)'
    BY <1>2, JobSame DEF down, DownInv, DownTypeOK
  <2> QED BY <2>1 DEF DownInv
<1>3. ASSUME NEW d \in Down, DownNext(d)
      PROVE  DownInv'
  BY <1>1, <1>3, DownNextInv
<1> QED BY <1>2, <1>3 DEF Next, vars

LEMMA StartInv ==
  ASSUME Init
  PROVE  P!IInv /\ DownInv
<1> USE SameAssumptions
<1>1. P!IInv
  BY SameInit, P!InitInv DEF Init
<1>2. DownTypeOK
  BY DEF Init, DownInit, DownTypeOK, NoJob, NoResult, Tearing
<1>3. \A d \in Down : JobInv(d)
  BY DEF Init, DownInit, JobInv, Tearing
<1> QED BY <1>1, <1>2, <1>3 DEF DownInv

\* What deploy alone keeps true stays true with any number of down runs at work
\* on the same project, and every down run does what its command line says.
THEOREM Invariance == Spec => [](P!IInv /\ DownInv)
<1>1. Init => P!IInv /\ DownInv
  BY StartInv
<1>2. P!IInv /\ DownInv /\ [Next]_vars => P!IInv' /\ DownInv'
  BY DeployInvStep, DownInvStep
<1> QED BY <1>1, <1>2, PTL DEF Spec

\* The state of the down runs keeps its shape (internal/teardown/teardown.go): a
\* run at work has a contract and a command line, a run that removes containers
\* has some to remove, and no external network is ever in a list to remove.
THEOREM DownTypeCorrect == Spec => []DownTypeOK
<1>1. DownInv => DownTypeOK
  BY DEF DownInv
<1> QED BY <1>1, Invariance, PTL

-----------------------------------------------------------------------------
\* Who takes what from the engine.

\* deploy removes no network and no volume.
LEMMA DeployGrows ==
  ASSUME D!Next
  PROVE  nets \subseteq nets' /\ vols \subseteq vols'
<1>1. ASSUME NEW r \in Run, D!Begin(r) \/ D!Reject(r) \/ D!Kill(r)
      PROVE  UNCHANGED <<nets, vols>>
  BY <1>1 DEF D!Begin, D!Reject, D!Kill, D!engine
<1>2. ASSUME NEW r \in Run,
             \/ D!NetworkExists(r) \/ D!NetworkMissing(r) \/ D!CreateNetwork(r)
             \/ D!NetworksReady(r) \/ D!VolumeExists(r) \/ D!VolumeMissing(r)
             \/ D!CreateVolume(r) \/ D!VolumesReady(r)
      PROVE  nets \subseteq nets' /\ vols \subseteq vols'
  BY <1>2 DEF D!NetworkExists, D!NetworkMissing, D!CreateNetwork, D!NetworksReady,
              D!VolumeExists, D!VolumeMissing, D!CreateVolume, D!VolumesReady, D!engine
<1>3. ASSUME NEW r \in Run,
             \/ D!Prepare(r) \/ D!CheckExternal(r) \/ D!ExternalGatePasses(r)
             \/ D!RemoveOld(r) \/ D!Start(r) \/ D!StartFailsHalfway(r)
             \/ D!GatePasses(r) \/ D!GateFails(r)
      PROVE  nets \subseteq nets' /\ vols \subseteq vols'
  BY <1>3 DEF D!Prepare, D!CheckExternal, D!ExternalGatePasses, D!RemoveOld, D!Start,
              D!StartFailsHalfway, D!StartContainer, D!GatePasses, D!GateFails, D!engine
<1>4. ASSUME NEW r \in Run,
             \/ D!WriteReceipt(r) \/ D!NoReceipt(r) \/ D!WriteAttemptReceipt(r)
             \/ D!StepFails(r)
      PROVE  UNCHANGED <<nets, vols>>
  BY <1>4 DEF D!WriteReceipt, D!NoReceipt, D!WriteAttemptReceipt, D!StepFails, D!engine
<1>5. D!Edit \/ D!ContainersLive => UNCHANGED <<nets, vols>>
  BY DEF D!Edit, D!engine, D!ContainersLive, D!EngineStep, D!Crash, D!Restart, D!HealthChange
<1> QED BY <1>1, <1>2, <1>3, <1>4, <1>5 DEF D!Next, D!Step

\* A network or a volume that goes is removed by a down run, out of its list, and
\* no container holds on to it; a container goes at the hands of a deploy or of a
\* down run that has it to remove.
LEMMA WhoRemoves ==
  ASSUME P!EngineTypeOK, [Next]_vars
  PROVE  /\ \A n \in nets \ nets' : \E d \in Down :
              stage[d] = "networks" /\ n \in rest[d] /\ ~ InUse(n)
         /\ \A v \in vols \ vols' : \E d \in Down :
              stage[d] = "volumes" /\ v \in rest[d] /\ ~ InUse(v)
         /\ D!Next \/ \A n \in Name : ctr'[n] # ctr[n] => \E d \in Down :
              stage[d] = "remove" /\ n \in doomed[d]
<1> USE DEF P!EngineTypeOK
<1>1. CASE D!Next
  BY <1>1, DeployGrows
<1>2. CASE UNCHANGED engine
  BY <1>2 DEF engine
<1>3. ASSUME NEW d \in Down, RemoveContainers(d), UNCHANGED <<nets, vols>>
      PROVE  \A n \in Name : ctr'[n] # ctr[n] => stage[d] = "remove" /\ n \in doomed[d]
  BY <1>3 DEF RemoveContainers
<1>4. ASSUME NEW d \in Down, RemoveNetwork(d), UNCHANGED <<ctr, vols>>
      PROVE  \A n \in nets \ nets' : stage[d] = "networks" /\ n \in rest[d] /\ ~ InUse(n)
  BY <1>4 DEF RemoveNetwork
<1>5. ASSUME NEW d \in Down, RemoveVolume(d), UNCHANGED <<ctr, nets>>
      PROVE  \A v \in vols \ vols' : stage[d] = "volumes" /\ v \in rest[d] /\ ~ InUse(v)
  BY <1>5 DEF RemoveVolume
<1> QED BY <1>1, <1>2, <1>3, <1>4, <1>5 DEF Next, vars, DownNext, DownEvent, DownStep

\* Whoever is at work, no run removes an external network, one that a container is
\* on, or any at all when told to keep them (skipNetworkAfterPartialTeardown,
\* internal/teardown/teardown.go).
THEOREM KeepsNetworks == Spec => NetworksKept
<1>1. P!IInv /\ DownInv /\ [Next]_vars =>
        [\A n \in nets \ nets' :
           /\ n \notin ExtNet
           /\ ~ InUse(n)
           /\ \E d \in Down : stage[d] = "networks" /\ ~ job[d].cmd.keepNetwork]_vars
  <2> SUFFICES ASSUME P!IInv, DownInv, [Next]_vars, NEW n \in nets \ nets'
               PROVE  /\ n \notin ExtNet
                      /\ ~ InUse(n)
                      /\ \E d \in Down : stage[d] = "networks" /\ ~ job[d].cmd.keepNetwork
    OBVIOUS
  <2>1. PICK d \in Down : stage[d] = "networks" /\ n \in rest[d] /\ ~ InUse(n)
    BY WhoRemoves DEF P!IInv, P!TypeOK
  <2>2. rest[d] \subseteq OwnNets /\ ~ job[d].cmd.keepNetwork
    BY <2>1 DEF DownInv, JobInv, Tearing
  <2> QED BY <2>1, <2>2 DEF OwnNets
<1> QED BY <1>1, Invariance, PTL DEF Spec, NetworksKept

-----------------------------------------------------------------------------
\* Service names on the command line.

\* Some service is active under the profiles of a command line that names services.
\* Without this the names select nothing, and a run that selects nothing tears down
\* everything (run named_down).
BaseNotEmpty ==
  \A c \in Contracts, cmd \in DownCommands :
    cmd.roots # {} => ServicesForProfiles(c, cmd.profiles) # {}

\* A run that was given names is a partial one.
NamedInv ==
  \A d \in Down : stage[d] \in Tearing /\ job[d].cmd.roots # {} => PartialMode(d)

\* The job a down run begins with.
LEMMA BegunFacts ==
  ASSUME DownInv, NEW d \in Down, BeginDown(d)
  PROVE  /\ stage'[d] = "list"
         /\ \E cmd \in DownCommands :
              /\ KnownTargets(cmd)
              /\ job'[d] = [c |-> file, cmd |-> cmd, partial |-> PartialServices(cmd)]
BY DEF BeginDown, DownInv, DownTypeOK

\* Only a run that begins gets a job, and no run goes back to work.
LEMMA JobsKept ==
  ASSUME DownInv, NEW d \in Down, DownNext(d), ~ BeginDown(d)
  PROVE  job' = job /\ (stage'[d] \in Tearing => stage[d] \in Tearing)
<1>1. CASE RefuseDown(d) \/ KillDown(d)
  BY <1>1 DEF RefuseDown, KillDown, DownInv, DownTypeOK, Tearing
<1>2. ASSUME NEW names, List(d, names) \/ Relist(d, names)
      PROVE  job' = job /\ stage[d] \in Tearing
  BY <1>2 DEF List, Relist, Tearing
<1>3. CASE EngineUnavailable(d) \/ ListFails(d) \/ RemoveContainers(d)
  BY <1>3 DEF EngineUnavailable, ListFails, RemoveContainers, Tearing
<1>4. CASE RemoveNetwork(d) \/ NetworkRefused(d) \/ NetworksDone(d)
  BY <1>4 DEF RemoveNetwork, NetworkRefused, NetworksDone, Tearing
<1>5. CASE RemoveVolume(d) \/ VolumeRefused(d) \/ VolumesDone(d)
  BY <1>5 DEF RemoveVolume, VolumeRefused, VolumesDone, Tearing
<1> QED BY <1>1, <1>2, <1>3, <1>4, <1>5 DEF DownNext, DownEvent, DownStep

LEMMA NamedStep ==
  ASSUME BaseNotEmpty, file \in Contracts, DownInv, NamedInv, [Next]_vars
  PROVE  NamedInv'
<1>1. CASE UNCHANGED down
  BY <1>1 DEF NamedInv, down, PartialMode
<1>2. ASSUME NEW d \in Down, DownNext(d)
      PROVE  NamedInv'
  <2>1. CASE BeginDown(d)
    <3>1. PICK cmd \in DownCommands :
            /\ KnownTargets(cmd)
            /\ job'[d] = [c |-> file, cmd |-> cmd, partial |-> PartialServices(cmd)]
      BY <2>1, BegunFacts
    <3>2. cmd.roots # {} => PartialServices(cmd) # {}
      BY <3>1, PartialFacts DEF BaseNotEmpty
    <3> QED BY <1>2, <3>1, <3>2, OtherDown DEF NamedInv, PartialMode
  <2>2. CASE ~ BeginDown(d)
    BY <1>2, <2>2, JobsKept, OtherDown DEF NamedInv, PartialMode
  <2> QED BY <2>1, <2>2
<1> QED BY <1>1, <1>2 DEF Next, vars

LEMMA NamedInvariance == BaseNotEmpty => (Spec => []NamedInv)
<1> SUFFICES ASSUME BaseNotEmpty PROVE Spec => []NamedInv
  OBVIOUS
<1>1. Init => NamedInv
  BY DEF Init, DownInit, NamedInv, Tearing
<1>2. P!IInv /\ DownInv /\ NamedInv /\ [Next]_vars => NamedInv'
  BY NamedStep DEF P!IInv, P!TypeOK
<1> QED BY <1>1, <1>2, Invariance, PTL DEF Spec

\* "--volumes ... not allowed with partial service selection" (cmd/podbay/lifecycle.go):
\* provided the names select something, a volume goes only at the hands of a run
\* that was given --volumes and no names, and only when no container holds on to it.
THEOREM KeepsData == BaseNotEmpty => (Spec => DataKept)
<1> SUFFICES ASSUME BaseNotEmpty PROVE Spec => DataKept
  OBVIOUS
<1>1. P!IInv /\ DownInv /\ NamedInv /\ [Next]_vars =>
        [\A v \in vols \ vols' :
           /\ ~ InUse(v)
           /\ \E d \in Down : stage[d] = "volumes" /\ job[d].cmd.volumes
                              /\ job[d].cmd.roots = {}]_vars
  <2> SUFFICES ASSUME P!IInv, DownInv, NamedInv, [Next]_vars, NEW v \in vols \ vols'
               PROVE  /\ ~ InUse(v)
                      /\ \E d \in Down : stage[d] = "volumes" /\ job[d].cmd.volumes
                                         /\ job[d].cmd.roots = {}
    OBVIOUS
  <2>1. PICK d \in Down : stage[d] = "volumes" /\ ~ InUse(v)
    BY WhoRemoves DEF P!IInv, P!TypeOK
  <2>2. job[d].cmd.volumes /\ ~ PartialMode(d)
    BY <2>1 DEF DownInv, JobInv, Tearing
  <2>3. job[d].cmd.roots = {}
    BY <2>1, <2>2 DEF NamedInv, Tearing
  <2> QED BY <2>1, <2>2, <2>3
<1> QED BY <1>1, Invariance, NamedInvariance, PTL DEF Spec, DataKept

\* A container that a down run removes is one it was asked to remove.
LEMMA DoomedAsked ==
  ASSUME P!NamesDistinct, DownInv, NamedInv, NEW d \in Down, stage[d] = "remove",
         NEW s \in Service, CName[s] \in doomed[d]
  PROVE  s \in Asked(d)
<1>1. stage[d] \in Tearing /\ JobInv(d)
  BY DEF Tearing, DownInv
<1>2. CASE PartialMode(d)
  <2>1. PICK t \in job[d].partial : CName[t] = CName[s]
    BY <1>1, <1>2 DEF JobInv
  <2>2. t \in Service
    BY DEF DownInv, DownTypeOK
  <2>3. t = s
    BY <2>1, <2>2 DEF P!NamesDistinct
  <2> QED BY <1>1, <2>1, <2>3 DEF JobInv
<1>3. CASE ~ PartialMode(d)
  BY <1>1, <1>3 DEF NamedInv, Asked
<1> QED BY <1>2, <1>3

\* "optional trailing arguments are service names for partial teardown": provided
\* the names select something and no two services share a container name, no
\* container is replaced or removed but by a run that was asked for its service,
\* with any number of deploys and downs at work at the same time.
THEOREM TouchesNobodyElse ==
  BaseNotEmpty /\ P!NamesDistinct => (Spec => NobodyElseTouched)
<1> SUFFICES ASSUME BaseNotEmpty, P!NamesDistinct PROVE Spec => NobodyElseTouched
  OBVIOUS
<1> USE SameAssumptions
<1>1. P!IInv /\ DownInv /\ NamedInv /\ [Next]_vars =>
        [\A s \in Service :
           D!ContainerId(s)' # D!ContainerId(s) =>
             \/ \E r \in Run : pc[r] \in D!Busy /\ s \in ctx[r].active
             \/ \E d \in Down : stage[d] = "remove" /\ s \in Asked(d)]_vars
  <2> SUFFICES ASSUME P!IInv, DownInv, NamedInv, [Next]_vars, NEW s \in Service,
                      D!ContainerId(s)' # D!ContainerId(s)
               PROVE  \/ \E r \in Run : pc[r] \in D!Busy /\ s \in ctx[r].active
                      \/ \E d \in Down : stage[d] = "remove" /\ s \in Asked(d)
    OBVIOUS
  <2>1. CASE D!Next
    <3>1. P!Next
      BY <2>1, SameNext
    <3>2. P!ContainerId(s)' # P!ContainerId(s)
      BY DEF D!ContainerId, P!ContainerId
    <3>3. \E r \in Run : pc[r] \in P!Busy /\ s \in ctx[r].active
      BY <3>1, <3>2, P!StepsInside
    <3> QED BY <3>3 DEF D!Busy, P!Busy
  <2>2. CASE ~ D!Next
    <3>1. ctr'[CName[s]] # ctr[CName[s]]
      BY DEF D!ContainerId
    <3>2. CName[s] \in Name
      BY TeardownAssumption DEF TeardownAssumption
    <3>3. PICK d \in Down : stage[d] = "remove" /\ CName[s] \in doomed[d]
      BY <2>2, <3>1, <3>2, WhoRemoves DEF P!IInv, P!TypeOK
    <3> QED BY <3>3, DoomedAsked
  <2> QED BY <2>1, <2>2
<1> QED BY <1>1, Invariance, NamedInvariance, PTL DEF Spec, NobodyElseTouched

-----------------------------------------------------------------------------
\* A full down that is alone on the project.

\* At most one run more is at work after a step.
LEMMA ActiveGrows ==
  ASSUME P!IInv, DownInv, [Next]_vars
  PROVE  \E x : Active' \subseteq Active \cup {x}
<1>1. ASSUME NEW r \in Run, D!Next, UNCHANGED down,
             \A q \in Run \ {r} : pc'[q] = pc[q]
      PROVE  Active' \subseteq Active \cup {r}
  BY <1>1 DEF Active, down
<1>2. CASE D!Next /\ UNCHANGED down
  <2>1. CASE UNCHANGED pc
    BY <1>2, <2>1 DEF Active, down
  <2>2. ASSUME NEW r \in Run, P!Begin(r) \/ P!Reject(r) \/ P!Step(r) \/ P!Kill(r)
        PROVE  \A q \in Run \ {r} : pc'[q] = pc[q]
    BY <2>2, P!Elsewhere, SameAssumptions DEF P!IInv
  <2>3. P!Edit \/ P!ContainersLive => UNCHANGED pc
    BY DEF P!Edit, P!ContainersLive
  <2>4. P!Next
    BY <1>2, SameNext
  <2> QED BY <1>1, <1>2, <2>1, <2>2, <2>3, <2>4 DEF P!Next
<1>3. ASSUME NEW d \in Down, DownNext(d)
      PROVE  Active' \subseteq Active \cup {d}
  <2>1. UNCHANGED pc
    BY <1>3 DEF DownNext, deploy
  <2>2. \A e \in Down \ {d} : stage'[e] = stage[e]
    BY <1>3, OtherDown
  <2> QED BY <2>1, <2>2 DEF Active
<1>4. UNCHANGED vars => Active' \subseteq Active \cup {Absent}
  BY DEF vars, deploy, down, Active
<1> QED BY <1>2, <1>3, <1>4 DEF Next

\* A down run that nobody has met yet is the only one at work.
SoleInv ==
  /\ IsFiniteSet(Active)
  /\ \A d \in Down \ overlapped : stage[d] \in Tearing => Active = {d}

LEMMA SoleStep ==
  ASSUME P!IInv, DownInv, SoleInv, [Next]_vars
  PROVE  SoleInv' /\ overlapped \subseteq overlapped'
<1>1. IsFiniteSet(Active')
  <2>1. PICK x : Active' \subseteq Active \cup {x}
    BY ActiveGrows
  <2>2. IsFiniteSet(Active \cup {x})
    BY FS_AddElement DEF SoleInv
  <2> QED BY <2>1, <2>2, FS_Subset
<1>2. CASE UNCHANGED vars
  <2>1. Active' = Active /\ overlapped' = overlapped /\ stage' = stage
    BY <1>2 DEF vars, deploy, down, Active
  <2> QED BY <1>1, <2>1 DEF SoleInv
<1>3. CASE Witness
  <2>1. ASSUME NEW d \in Down \ overlapped', stage'[d] \in Tearing
        PROVE  Active' = {d}
    <3>1. {d} \in SUBSET Active'
      BY <2>1 DEF Active
    <3>2. ~ (Cardinality(Active') > 1)
      BY <2>1, <3>1, <1>3 DEF Witness
    <3>3. Cardinality({d}) = 1
      BY FS_Singleton
    <3>4. Cardinality(Active') \in Nat
      BY <1>1, FS_CardinalityType
    <3>5. /\ Cardinality({d}) <= Cardinality(Active')
          /\ Cardinality(Active') = Cardinality({d}) => Active' = {d}
      BY <1>1, <3>1, FS_Subset
    <3> QED BY <3>2, <3>3, <3>4, <3>5
  <2>2. overlapped \subseteq overlapped'
    BY <1>3 DEF Witness
  <2> QED BY <1>1, <2>1, <2>2 DEF SoleInv
<1> QED BY <1>2, <1>3 DEF Next

LEMMA StartSole ==
  ASSUME Init
  PROVE  SoleInv
<1>1. Active = {}
  BY DEF Init, D!Init, DownInit, Active, D!Busy, Tearing
<1> QED BY <1>1, FS_EmptySet DEF SoleInv, Init, DownInit, Tearing

\* While no deploy is at work nothing but the containers' own life happens to the
\* engine, and that neither makes a container nor removes one.
LEMMA QuietDeploy ==
  ASSUME P!IInv, D!Next, \A r \in Run : pc[r] \notin D!Busy /\ pc'[r] \notin D!Busy
  PROVE  /\ UNCHANGED <<nets, vols>>
         /\ \A n \in Name : ctr[n] = Absent <=> ctr'[n] = Absent
<1> USE SameAssumptions
<1>1. ASSUME NEW r \in Run, D!Begin(r)
      PROVE  FALSE
  <2>1. pc' = [pc EXCEPT ![r] = "networks"] /\ pc \in [Run -> {"idle"} \cup P!Busy \cup P!Final]
    BY <1>1 DEF D!Begin, P!IInv, P!TypeOK
  <2> QED BY <2>1 DEF D!Busy
<1>2. ASSUME NEW r \in Run, D!Step(r) \/ D!Kill(r)
      PROVE  FALSE
  <2>1. pc[r] \in D!Busy
    BY <1>2 DEF D!Step, D!Kill, D!Busy,
         D!NetworkExists, D!NetworkMissing, D!CreateNetwork, D!NetworksReady,
         D!VolumeExists, D!VolumeMissing, D!CreateVolume, D!VolumesReady,
         D!Prepare, D!CheckExternal, D!ExternalGatePasses, D!RemoveOld, D!Start,
         D!StartFailsHalfway, D!GatePasses, D!GateFails, D!WriteReceipt, D!NoReceipt,
         D!WriteAttemptReceipt, D!StepFails
  <2> QED BY <2>1
<1>3. CASE D!Edit \/ \E r \in Run : D!Reject(r)
  BY <1>3 DEF D!Edit, D!Reject, D!engine
<1>4. CASE D!ContainersLive
  <2>1. P!ContainersLive
    BY <1>4 DEF D!ContainersLive, P!ContainersLive, D!EngineStep, P!EngineStep,
         D!Crash, P!Crash, D!Restart, P!Restart, D!HealthChange, P!HealthChange,
         D!IsRunning, P!IsRunning, D!locals, P!locals
  <2>2. UNCHANGED <<nets, vols>>
    BY <2>1, P!LivesShape DEF P!IInv
  <2>3. PICK m \in Name, b \in BOOLEAN, st \in {"created", "running", "exited"} :
          /\ ctr[m] \in P!Container
          /\ ctr' = [ctr EXCEPT ![m] = [ctr[m] EXCEPT !.state = st, !.healthy = b]]
    BY <2>1, P!LivesShape DEF P!IInv
  <2>4. [ctr[m] EXCEPT !.state = st, !.healthy = b] \in P!Container
    BY <2>3 DEF P!Container
  <2>5. Absent \notin P!Container
    BY DEF P!PodmanAssumption
  <2>6. ctr \in [Name -> P!Container \cup {Absent}]
    BY DEF P!IInv, P!TypeOK, P!EngineTypeOK
  <2> QED BY <2>2, <2>3, <2>4, <2>5, <2>6
<1> QED BY <1>1, <1>2, <1>3, <1>4 DEF D!Next

\* How far a full down that is alone has come.
CleanInv(d) ==
  d \notin overlapped /\ stage[d] \in Tearing /\ job[d].cmd.roots = {} =>
    /\ stage[d] = "remove" => \A n \in Name : ctr[n] # Absent => n \in doomed[d]
    /\ stage[d] \in {"relist", "networks", "volumes"} => \A n \in Name : ctr[n] = Absent
    /\ stage[d] = "networks" =>
         job[d].cmd.keepNetwork \/ result[d].warning \/ OwnNets \cap nets \subseteq rest[d]
    /\ stage[d] = "volumes" =>
         /\ job[d].cmd.keepNetwork \/ result[d].warning \/ OwnNets \cap nets = {}
         /\ vols \subseteq rest[d]

CleanDowns == SoleInv /\ \A d \in Down : CleanInv(d)

\* What such a run leaves behind when it ends well.
SweptClean(d) ==
  stage[d] \in Tearing /\ stage'[d] = "done" /\ job[d].cmd.roots = {}
  /\ ~ result'[d].engineWarning =>
    /\ \A n \in Name : ctr'[n] = Absent
    /\ job[d].cmd.keepNetwork \/ result'[d].warning \/ OwnNets \cap nets' = {}
    /\ job[d].cmd.volumes => vols' = {}

\* --dependents comes with service names.  Alone it makes the run a partial one of
\* all that is profile-active, which leaves the containers of the other services.
NoBareDependents == \A cmd \in DownCommands : cmd.dependents => cmd.roots # {}

\* The run's own steps.
LEMMA CleanOwnStep ==
  ASSUME Stuck = {}, NoBareDependents, P!IInv, DownInv, SoleInv,
         NEW d \in Down, d \notin overlapped, CleanInv(d), DownNext(d)
  PROVE  CleanInv(d)' /\ SweptClean(d)
<1> USE DEF DownInv, DownTypeOK, CleanInv, SweptClean
<1>1. stage[d] \in Tearing /\ job[d].cmd.roots = {} => ~ PartialMode(d)
  BY DEF JobInv, NoBareDependents
<1>2. stage[d] \in Tearing => Active = {d}
  BY DEF SoleInv
<1>3. CASE BeginDown(d) \/ RefuseDown(d) \/ KillDown(d)
  <2>1. (stage'[d] = "list" /\ stage[d] = "idle") \/ stage'[d] \in {"refused", "killed"}
    BY <1>3 DEF BeginDown, RefuseDown, KillDown
  <2> QED BY <2>1 DEF Tearing
<1>4. CASE List(d, Labelled) /\ UNCHANGED engine
  <2>1. /\ stage[d] = "list" /\ stage[d] \in Tearing /\ UNCHANGED <<job, ctr>>
        /\ stage'[d] \in {"fatal", "relist", "remove"}
    BY <1>4 DEF List, engine, Tearing
  <2>2. CASE job[d].cmd.roots = {}
    <3>1. ToRemove(d, Labelled) = Labelled
      BY <1>1, <2>1, <2>2 DEF ToRemove
    <3>2. stage'[d] = IF Labelled = {} THEN "relist" ELSE "remove"
      BY <1>1, <1>4, <2>1, <2>2, <3>1 DEF List
    <3>3. doomed'[d] = Labelled
      BY <1>1, <1>4, <2>1, <2>2, <3>1 DEF List, Labelled
    <3> QED BY <2>1, <3>2, <3>3 DEF Labelled
  <2> QED BY <2>1, <2>2
<1>5. CASE RemoveContainers(d) /\ UNCHANGED <<nets, vols>>
  <2>1. /\ stage[d] = "remove" /\ stage[d] \in Tearing /\ stage'[d] = "relist"
        /\ UNCHANGED job
    BY <1>5 DEF RemoveContainers, Tearing
  <2>2. ctr' = [n \in Name |-> IF n \in doomed[d] THEN Absent ELSE ctr[n]]
    BY <1>5 DEF RemoveContainers
  <2> QED BY <2>1, <2>2
<1>6. CASE Relist(d, Labelled) /\ UNCHANGED engine
  <2>1. /\ stage[d] = "relist" /\ stage[d] \in Tearing /\ stage'[d] = "networks"
        /\ UNCHANGED <<job, ctr, nets>>
    BY <1>6 DEF Relist, engine, Tearing
  <2>2. rest'[d] = IF KeepNetworks(d, Labelled) THEN {} ELSE OwnNets
    <3>1. OwnNets \in SUBSET ((Net \ ExtNet) \cup Vol)
      BY DEF OwnNets
    <3> QED BY <1>6, <3>1 DEF Relist
  <2>3. job[d].cmd.roots = {} /\ KeepNetworks(d, Labelled) => job[d].cmd.keepNetwork
    BY <1>1, <2>1 DEF KeepNetworks
  <2> QED BY <2>1, <2>2, <2>3
<1>7. CASE Active # {d} /\ (List(d, {}) \/ Relist(d, {}))
  BY <1>2, <1>7 DEF List, Relist, Tearing
<1>8. CASE EngineUnavailable(d)
  <2>1. stage'[d] = "done"
    BY <1>8 DEF EngineUnavailable
  <2>2. result'[d].engineWarning
    BY <1>8 DEF EngineUnavailable
  <2> QED BY <2>1, <2>2 DEF Tearing
<1>9. CASE ListFails(d) \/ VolumeRefused(d)
  <2>1. stage'[d] = "fatal"
    BY <1>9 DEF ListFails, VolumeRefused
  <2> QED BY <2>1 DEF Tearing
<1>10. CASE RemoveNetwork(d) /\ UNCHANGED <<ctr, vols>>
  <2>1. stage[d] = "networks" /\ stage[d] \in Tearing /\ UNCHANGED <<stage, job, ctr>>
    BY <1>10 DEF RemoveNetwork, Tearing
  <2>2. PICK n \in rest[d] : nets' = nets \ {n} /\ rest'[d] = rest[d] \ {n}
    BY <1>10 DEF RemoveNetwork
  <2>3. result'[d].warning = result[d].warning
    BY <1>10 DEF RemoveNetwork
  <2> QED BY <2>1, <2>2, <2>3
<1>11. CASE NetworkRefused(d) /\ UNCHANGED engine
  <2>1. /\ stage[d] = "networks" /\ stage[d] \in Tearing /\ UNCHANGED <<stage, job, ctr>>
        /\ result'[d].warning
    BY <1>11 DEF NetworkRefused, engine, Tearing
  <2> QED BY <2>1
<1>12. CASE NetworksDone(d) /\ UNCHANGED engine
  <2>1. /\ stage[d] = "networks" /\ stage[d] \in Tearing /\ rest[d] = {}
        /\ UNCHANGED <<job, result, ctr, nets, vols>>
    BY <1>12 DEF NetworksDone, engine, Tearing
  <2>2. CASE job[d].cmd.volumes /\ ~ PartialMode(d)
    <3>1. stage'[d] = "volumes" /\ rest'[d] = Vol
      BY <1>12, <2>2 DEF NetworksDone
    <3>2. vols' \subseteq Vol
      BY <2>1 DEF P!IInv, P!TypeOK, P!EngineTypeOK
    <3> QED BY <2>1, <3>1, <3>2
  <2>3. CASE ~ (job[d].cmd.volumes /\ ~ PartialMode(d))
    <3>1. stage'[d] = "done"
      BY <1>12, <2>3 DEF NetworksDone
    <3> QED BY <1>1, <2>1, <2>3, <3>1 DEF Tearing
  <2> QED BY <2>2, <2>3
<1>13. CASE RemoveVolume(d) /\ UNCHANGED <<ctr, nets>>
  <2>1. /\ stage[d] = "volumes" /\ stage[d] \in Tearing
        /\ UNCHANGED <<stage, job, result, ctr, nets>>
    BY <1>13 DEF RemoveVolume, Tearing
  <2>2. PICK v \in rest[d] : vols' = vols \ {v} /\ rest'[d] = rest[d] \ {v}
    BY <1>13 DEF RemoveVolume
  <2> QED BY <2>1, <2>2
<1>14. CASE VolumesDone(d) /\ UNCHANGED engine
  <2>1. /\ stage[d] = "volumes" /\ stage[d] \in Tearing /\ rest[d] = {} /\ stage'[d] = "done"
        /\ UNCHANGED <<job, result, ctr, nets, vols>>
    BY <1>14 DEF VolumesDone, engine, Tearing
  <2> QED BY <2>1 DEF Tearing
<1> HIDE DEF CleanInv, SweptClean
<1>15. CASE DownEvent(d)
  BY <1>3, <1>15 DEF DownEvent
<1>16. CASE DownStep(d, Active # {d})
  <2>1. CASE \/ List(d, Labelled) /\ UNCHANGED engine
             \/ Relist(d, Labelled) /\ UNCHANGED engine
             \/ Active # {d} /\ (List(d, {}) \/ Relist(d, {}))
    BY <1>4, <1>6, <1>7, <2>1
  <2>2. CASE EngineUnavailable(d) \/ ListFails(d) \/ VolumeRefused(d)
    BY <1>8, <1>9, <2>2
  <2>3. CASE (NetworkRefused(d) \/ NetworksDone(d) \/ VolumesDone(d)) /\ UNCHANGED engine
    BY <1>11, <1>12, <1>14, <2>3
  <2> QED BY <1>5, <1>10, <1>13, <1>16, <2>1, <2>2, <2>3 DEF DownStep
<1> QED BY <1>15, <1>16 DEF DownNext

\* A run at work that nobody meets: all the others do is not to begin, and the
\* containers live on.
LEMMA CleanOtherStep ==
  ASSUME P!IInv, DownInv, SoleInv, SoleInv', overlapped \subseteq overlapped',
         NEW d \in Down, d \notin overlapped', CleanInv(d),
         (D!Next /\ UNCHANGED down) \/ \E e \in Down \ {d} : DownNext(e)
  PROVE  CleanInv(d)' /\ SweptClean(d)
<1> USE DEF CleanInv, SweptClean
<1>1. stage'[d] = stage[d] /\ job'[d] = job[d] /\ doomed'[d] = doomed[d]
      /\ rest'[d] = rest[d] /\ result'[d] = result[d]
  <2>1. CASE UNCHANGED down
    BY <2>1 DEF down
  <2>2. ASSUME NEW e \in Down \ {d}, DownNext(e)
        PROVE  /\ stage'[d] = stage[d] /\ job'[d] = job[d] /\ doomed'[d] = doomed[d]
               /\ rest'[d] = rest[d] /\ result'[d] = result[d]
    BY <2>2, OtherDown
  <2> QED BY <2>1, <2>2
<1>2. CASE stage[d] \notin Tearing
  BY <1>1, <1>2
<1>3. CASE stage[d] \in Tearing
  <2>1. Active = {d} /\ Active' = {d}
    BY <1>1, <1>3 DEF SoleInv
  <2>2. UNCHANGED <<nets, vols>> /\ \A n \in Name : ctr[n] = Absent <=> ctr'[n] = Absent
    <3>1. CASE D!Next
      <4>1. \A r \in Run : r # d
        BY TeardownAssumption DEF TeardownAssumption
      <4>2. \A r \in Run : pc[r] \notin D!Busy /\ pc'[r] \notin D!Busy
        BY <2>1, <4>1 DEF Active
      <4> QED BY <3>1, <4>2, QuietDeploy
    <3>2. ASSUME NEW e \in Down \ {d}, DownNext(e)
          PROVE  UNCHANGED engine
      <4>1. stage[e] \notin Tearing
        BY <2>1 DEF Active
      <4> QED BY <3>2, <4>1 DEF DownNext, DownEvent, DownStep, RemoveContainers,
                                RemoveNetwork, RemoveVolume, Tearing, List, Relist
    <3> QED BY <3>1, <3>2 DEF engine
  <2> QED BY <1>1, <1>3, <2>2 DEF Tearing
<1> QED BY <1>2, <1>3

LEMMA CleanStep ==
  ASSUME Stuck = {}, NoBareDependents, P!IInv, DownInv, CleanDowns,
         [Next]_vars, NEW d \in Down
  PROVE  SoleInv' /\ CleanInv(d)' /\ (d \notin overlapped' => SweptClean(d))
<1> USE DEF CleanDowns
<1>1. SoleInv' /\ overlapped \subseteq overlapped'
  BY SoleStep
<1>2. CASE d \in overlapped'
  BY <1>1, <1>2 DEF CleanInv
<1>3. CASE d \notin overlapped' /\ Next
  <2>1. CASE DownNext(d)
    BY <1>1, <1>3, <2>1, CleanOwnStep
  <2>2. CASE (D!Next /\ UNCHANGED down) \/ \E e \in Down \ {d} : DownNext(e)
    BY <1>1, <1>3, <2>2, CleanOtherStep
  <2> QED BY <1>3, <2>1, <2>2 DEF Next
<1>4. CASE UNCHANGED vars
  BY <1>1, <1>4 DEF CleanInv, SweptClean, vars, engine, down, Tearing
<1> QED BY <1>1, <1>2, <1>3, <1>4

LEMMA CleanInvariance == Stuck = {} /\ NoBareDependents => (Spec => []CleanDowns)
<1> SUFFICES ASSUME Stuck = {}, NoBareDependents PROVE Spec => []CleanDowns
  OBVIOUS
<1>1. Init => CleanDowns
  BY StartSole DEF CleanDowns, CleanInv, Init, DownInit, Tearing
<1>2. P!IInv /\ DownInv /\ CleanDowns /\ [Next]_vars => CleanDowns'
  <2> SUFFICES ASSUME P!IInv, DownInv, CleanDowns, [Next]_vars PROVE CleanDowns'
    OBVIOUS
  <2>1. SoleInv'
    BY SoleStep DEF CleanDowns
  <2>2. \A d \in Down : CleanInv(d)'
    BY CleanStep
  <2> QED BY <2>1, <2>2 DEF CleanDowns
<1> QED BY <1>1, <1>2, Invariance, PTL DEF Spec

\* "list/remove failure" is exit code 1 (cmd/podbay/lifecycle.go): provided podman
\* rm does what it is told (run stuck_container shows what happens otherwise) and
\* --dependents comes with names, a full down that met no other run and ends with
\* exit code 0 has left no container of the project, none of its networks unless it
\* was told to keep them or warns of it and, with --volumes, no volume.
THEOREM LeavesCleanSlate == Stuck = {} /\ NoBareDependents => (Spec => CleanSlate)
<1> SUFFICES ASSUME Stuck = {}, NoBareDependents PROVE Spec => CleanSlate
  OBVIOUS
<1>1. P!IInv /\ DownInv /\ CleanDowns /\ [Next]_vars =>
        [\A d \in Down \ overlapped' :
           /\ stage[d] \in Tearing /\ stage'[d] = "done"
           /\ job[d].cmd.roots = {} /\ ~ result'[d].engineWarning
           => /\ \A n \in Name : ctr'[n] = Absent
              /\ job[d].cmd.keepNetwork \/ result'[d].warning \/ OwnNets \cap nets' = {}
              /\ job[d].cmd.volumes => vols' = {}]_vars
  BY CleanStep DEF SweptClean
<1> QED BY <1>1, Invariance, CleanInvariance, PTL DEF Spec, CleanSlate
=============================================================================
