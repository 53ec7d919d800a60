---------------------------- MODULE DeployProofs ----------------------------
(***************************************************************************)
(* Proofs about module Deploy, for any contracts, commands, number of runs *)
(* and interleaving: its variables keep their types, and no service is     *)
(* taken down or started before what its contract asks for is met.  Then   *)
(* what a deploy promises: it implements Rollout and leaves the services   *)
(* it did not select alone, also when several runs overlap; and, when they *)
(* do not, its receipts are true.                                          *)
(***************************************************************************)
EXTENDS Deploy, FiniteSetTheorems, TLAPS

\* Dependency d of the service that run r works on has been checked.
Met(r, d) ==
  /\ d.service \in seen[r]
  /\ d.condition = "healthy" /\ ~ ctx[r].skipHealth => d.service \in gated[r]

ExternalMet(r, s) == \A d \in ExternalDeps(ctx[r], s) : Met(r, d)

\* What the preparation of run r guarantees to its loop.
Prepared(r) ==
  /\ ctx[r].order \in DependencyOrders(ctx[r].c, ctx[r].active)
  /\ Preflight(ctx[r].c, ctx[r].active, ctx[r].partial)

\* The services run r is done with passed the checks they had to pass.
LoopInv(r) ==
  /\ pos[r] <= Len(ctx[r].order) + 1
  /\ \A j \in 1 .. pos[r] - 1 :
       /\ ExternalMet(r, ctx[r].order[j])
       /\ MustGate(ctx[r], ctx[r].order[j]) => ctx[r].order[j] \in gated[r]

\* What the stage of run r says about its todo list and its current item.
StageInv(r) ==
  /\ pc[r] = "newnet" => cur[r] \in Net
  /\ pc[r] = "newvol" => cur[r] \in Vol
  /\ pc[r] \in {"external", "extgate"} =>
       /\ todo[r] \subseteq ExternalDeps(ctx[r], This(r))
       /\ \A d \in ExternalDeps(ctx[r], This(r)) \ todo[r] : Met(r, d)
  /\ pc[r] = "extgate" => cur[r] \in todo[r] /\ cur[r].service \in seen[r]
  /\ pc[r] \in {"networks", "volumes"} => cur[r] = None /\ pos[r] = 0
  /\ pc[r] \in {"newnet", "newvol"} => pos[r] = 0
  /\ pc[r] \in {"networks", "newnet"} => todo[r] \subseteq Net
  /\ pc[r] \in {"volumes", "newvol"} => todo[r] \subseteq Vol
  /\ pc[r] \in {"prepare", "external", "start", "broken", "gate"} => cur[r] = None
  /\ pc[r] \in {"start", "broken", "gate"} => ExternalMet(r, This(r))
  /\ pc[r] = "attempt" =>
       /\ cur[r] \in ExternalDeps(ctx[r], This(r)) \cup {None}
       /\ pos[r] \in 1 .. Len(ctx[r].order)
  /\ pc[r] = "receipt" => pos[r] = Len(ctx[r].order) + 1

RunInv(r) ==
  /\ pc[r] \notin Busy => cur[r] = None /\ pos[r] = 0
  /\ pc[r] \in Busy => Prepared(r) /\ LoopInv(r) /\ StageInv(r)

IInv == TypeOK /\ \A r \in Run : RunInv(r)

-----------------------------------------------------------------------------
\* A selection consists of services.
LEMMA SelectionType ==
  ASSUME DeployAssumption, file \in Contracts, NEW cmd \in Commands
  PROVE  Selection(cmd) \in SUBSET Service
<1>1. file.services \in SUBSET Service /\ cmd.roots \in SUBSET Service
  BY DEF DeployAssumption, IsContract
<1>2. ServicesForProfiles(file, cmd.profiles) \in SUBSET Service
  BY <1>1 DEF ServicesForProfiles
<1>3. ASSUME NEW base \in SUBSET Service, NEW roots \in SUBSET Service
      PROVE  /\ ServicesForDeployTargets(base, roots) \in SUBSET Service
             /\ ExpandDependentsTransitive(file, base, roots) \in SUBSET Service
  BY DEF ServicesForDeployTargets, ExpandDependentsTransitive
<1> QED BY <1>1, <1>2, <1>3 DEF Selection, ObservabilityActiveServices

\* A dependency order enumerates its set, each member once.
LEMMA OrderEnumerates ==
  ASSUME DeployAssumption, NEW c, NEW S \in SUBSET Service,
         NEW o \in DependencyOrders(c, S)
  PROVE  /\ o \in Seq(Service) /\ Len(o) \in Nat /\ DOMAIN o = 1 .. Len(o)
         /\ \A s \in S : \E i \in 1 .. Len(o) : o[i] = s
         /\ \A i \in 1 .. Len(o) : o[i] \in S
         /\ \A i, j \in 1 .. Len(o) : o[i] = o[j] => i = j
         /\ \A i \in 1 .. Len(o) : \A j \in i .. Len(o) : o[j] \notin DependsOn(c, o[i])
<1>1. IsFiniteSet(S)
  BY FS_Subset DEF DeployAssumption
<1>2. Cardinality(S) \in Nat
  BY <1>1, FS_CardinalityType
<1>3. o \in [1 .. Cardinality(S) -> S] /\ \A i, j \in DOMAIN o : o[i] = o[j] => i = j
  BY DEF DependencyOrders, SetToSeqs, IsInjective
<1>4. o \in Seq(Service) /\ Len(o) = Cardinality(S) /\ DOMAIN o = 1 .. Len(o)
  BY <1>2, <1>3
<1>5. o \in Injection(1 .. Cardinality(S), S)
  BY <1>3 DEF Injection, IsInjective
<1>6. Cardinality(1 .. Cardinality(S)) = Cardinality(S) /\ IsFiniteSet(1 .. Cardinality(S))
  BY <1>2, FS_Interval
<1>7. o \in Surjection(1 .. Cardinality(S), S)
  BY <1>1, <1>5, <1>6, FS_Injection
<1> QED BY <1>2, <1>3, <1>4, <1>7 DEF Surjection, DependencyOrders

\* What is known of a run at work.
LEMMA BusyFacts ==
  ASSUME DeployAssumption, TypeOK, NEW r \in Run, pc[r] \in Busy
  PROVE  /\ ctx[r] \in DeployContext
         /\ ctx[r].c \in Contracts /\ ctx[r].active \in SUBSET Service
         /\ ctx[r].order \in Seq(Service) /\ ctx[r].partial \in BOOLEAN
         /\ \A s \in Service : ctx[r].c.deps[s] \in SUBSET Dependency(Service)
         /\ \A s \in Service : ExternalDeps(ctx[r], s) \subseteq Dependency(Service)
         /\ pc[r] \in InLoop => This(r) \in Service /\ pos[r] \in 1 .. Len(ctx[r].order)
<1>1. ctx[r] \in DeployContext
  BY DEF TypeOK
<1>2. /\ ctx[r].c \in Contracts /\ ctx[r].active \in SUBSET Service
      /\ ctx[r].order \in Seq(Service) /\ ctx[r].partial \in BOOLEAN
  BY <1>1 DEF DeployContext
<1>3. IsContract(ctx[r].c, Service, Profile)
  BY <1>2 DEF DeployAssumption
<1>4. ctx[r].c.deps \in [Service -> SUBSET Dependency(Service)]
  BY <1>3 DEF IsContract
<1>5. \A s \in Service : ctx[r].c.deps[s] \in SUBSET Dependency(Service)
  BY <1>4
<1>6. \A s \in Service : ExternalDeps(ctx[r], s) \subseteq Dependency(Service)
  BY <1>5 DEF ExternalDeps
<1>7. pc[r] \in InLoop => This(r) \in Service /\ pos[r] \in 1 .. Len(ctx[r].order)
  BY <1>2 DEF TypeOK, This
<1> QED BY <1>1, <1>2, <1>5, <1>6, <1>7

\* The part of TypeOK that is about the runs' own variables.
LocalType ==
  /\ pc \in [Run -> {"idle"} \cup Busy \cup Final]
  /\ DOMAIN ctx = Run
  /\ \A r \in Run : ctx[r] \in IF pc[r] \in Busy THEN DeployContext ELSE {NoContext}
  /\ pos \in [Run -> Nat]
  /\ \A r \in Run : pc[r] \in InLoop => pos[r] \in 1 .. Len(ctx[r].order)
  /\ todo \in [Run -> SUBSET (Net \cup Vol \cup Dependency(Service))]
  /\ cur \in [Run -> Net \cup Vol \cup Dependency(Service) \cup {None}]
  /\ seen \in [Run -> SUBSET Service]
  /\ gated \in [Run -> SUBSET Service]

ReceiptsType ==
  receipts \in [Run -> Receipt \cup {None}]

LEMMA TypeParts ==
  TypeOK <=> EngineTypeOK /\ file \in Contracts /\ LocalType /\ ReceiptsType
BY DEF TypeOK, LocalType, ReceiptsType

\* An action of run r that only moves it from one busy stage to another.
LEMMA MoveType ==
  ASSUME TypeOK, NEW r \in Run, NEW stage \in Busy,
         pc[r] \in Busy, pc' = [pc EXCEPT ![r] = stage], ctx' = ctx,
         pos' \in [Run -> Nat], \A o \in Run \ {r} : pos'[o] = pos[o],
         stage \in InLoop => pos'[r] \in 1 .. Len(ctx[r].order),
         todo' \in [Run -> SUBSET (Net \cup Vol \cup Dependency(Service))],
         cur' \in [Run -> Net \cup Vol \cup Dependency(Service) \cup {None}],
         seen' \in [Run -> SUBSET Service],
         gated' \in [Run -> SUBSET Service],
         EngineTypeOK', UNCHANGED <<file, receipts>>
  PROVE  TypeOK'
<1>1. pc \in [Run -> {"idle"} \cup Busy \cup Final]
  BY DEF TypeOK
<1>2. pc' \in [Run -> {"idle"} \cup Busy \cup Final] /\ pc'[r] = stage
      /\ \A o \in Run \ {r} : pc'[o] = pc[o]
  BY <1>1
<1>3. ASSUME NEW o \in Run
      PROVE  /\ ctx'[o] \in IF pc'[o] \in Busy THEN DeployContext ELSE {NoContext}
             /\ pc'[o] \in InLoop => pos'[o] \in 1 .. Len(ctx'[o].order)
  BY <1>2 DEF TypeOK
<1>4. DOMAIN ctx' = Run
  BY DEF TypeOK
<1>5. LocalType'
  BY <1>2, <1>3, <1>4 DEF LocalType
<1>6. file' \in Contracts /\ ReceiptsType'
  BY DEF TypeOK, ReceiptsType
<1> QED BY <1>5, <1>6 DEF TypeOK, LocalType, ReceiptsType

LEMMA EngineSame ==
  ASSUME TypeOK, UNCHANGED engine
  PROVE  EngineTypeOK'
BY DEF TypeOK, EngineTypeOK, engine

\* The end of a run.
LEMMA ExitType ==
  ASSUME TypeOK, NEW r \in Run, NEW outcome \in Final, Exit(r, outcome)
  PROVE  LocalType'
<1>1. outcome \notin Busy /\ outcome \notin InLoop
  BY DEF Final, Busy, InLoop
<1>2. pc' \in [Run -> {"idle"} \cup Busy \cup Final] /\ pc'[r] = outcome
      /\ \A o \in Run \ {r} : pc'[o] = pc[o]
  BY DEF TypeOK, Exit
<1>3. DOMAIN ctx' = Run /\ ctx'[r] = NoContext /\ \A o \in Run \ {r} : ctx'[o] = ctx[o]
  BY DEF TypeOK, Exit
<1>4. pos' \in [Run -> Nat] /\ \A o \in Run \ {r} : pos'[o] = pos[o]
  BY DEF TypeOK, Exit
<1>5. /\ todo' \in [Run -> SUBSET (Net \cup Vol \cup Dependency(Service))]
      /\ cur' \in [Run -> Net \cup Vol \cup Dependency(Service) \cup {None}]
      /\ seen' \in [Run -> SUBSET Service]
      /\ gated' \in [Run -> SUBSET Service]
  BY DEF TypeOK, Exit
<1>6. ASSUME NEW o \in Run
      PROVE  /\ ctx'[o] \in IF pc'[o] \in Busy THEN DeployContext ELSE {NoContext}
             /\ pc'[o] \in InLoop => pos'[o] \in 1 .. Len(ctx'[o].order)
  BY <1>1, <1>2, <1>3, <1>4 DEF TypeOK
<1> QED BY <1>2, <1>3, <1>4, <1>5, <1>6 DEF LocalType

-----------------------------------------------------------------------------
\* Type correctness, action by action.

LEMMA BeginType ==
  ASSUME DeployAssumption, TypeOK, NEW r \in Run, Begin(r)
  PROVE  TypeOK'
<1>1. PICK cmd \in Commands :
        \E o \in DependencyOrders(file, Selection(cmd)) :
          ctx' = [ctx EXCEPT ![r] =
                    [c |-> file, active |-> Selection(cmd), partial |-> cmd.roots # {},
                     order |-> o, skipHealth |-> cmd.skipHealth, receipt |-> cmd.receipt]]
  BY DEF Begin
<1>2. PICK o \in DependencyOrders(file, Selection(cmd)) :
        ctx' = [ctx EXCEPT ![r] =
                  [c |-> file, active |-> Selection(cmd), partial |-> cmd.roots # {},
                   order |-> o, skipHealth |-> cmd.skipHealth, receipt |-> cmd.receipt]]
  BY <1>1
<1>3. file \in Contracts /\ DOMAIN ctx = Run
  BY DEF TypeOK
<1>4. Selection(cmd) \in SUBSET Service
  BY <1>3, SelectionType
<1>5. o \in Seq(Service)
  BY <1>4, OrderEnumerates
<1>6. cmd.skipHealth \in BOOLEAN /\ cmd.receipt \in BOOLEAN
  BY DEF DeployAssumption
<1>7. ctx'[r] \in DeployContext /\ DOMAIN ctx' = Run /\ \A p \in Run \ {r} : ctx'[p] = ctx[p]
  BY <1>2, <1>3, <1>4, <1>5, <1>6 DEF DeployContext
<1>8. /\ pc' \in [Run -> {"idle"} \cup Busy \cup Final] /\ pc'[r] = "networks"
      /\ \A p \in Run \ {r} : pc'[p] = pc[p]
  BY DEF Begin, TypeOK, Busy
<1>9. "networks" \in Busy /\ "networks" \notin InLoop
  BY DEF Busy, InLoop
<1>10. pos' = pos /\ cur' = cur /\ seen' = seen /\ gated' = gated /\ UNCHANGED <<engine, file, receipts>>
  BY DEF Begin
<1>11. todo' \in [Run -> SUBSET (Net \cup Vol \cup Dependency(Service))]
  BY DEF Begin, TypeOK
<1>12. LocalType'
  <2>1. ASSUME NEW p \in Run
        PROVE  /\ ctx'[p] \in IF pc'[p] \in Busy THEN DeployContext ELSE {NoContext}
               /\ pc'[p] \in InLoop => pos'[p] \in 1 .. Len(ctx'[p].order)
    BY <1>7, <1>8, <1>9, <1>10 DEF TypeOK
  <2> QED BY <2>1, <1>7, <1>8, <1>10, <1>11 DEF TypeOK, LocalType
<1>13. EngineTypeOK' /\ file' \in Contracts /\ ReceiptsType'
  BY <1>10 DEF TypeOK, EngineTypeOK, ReceiptsType, engine
<1> QED BY <1>12, <1>13 DEF TypeOK, LocalType, ReceiptsType

LEMMA RejectType ==
  ASSUME TypeOK, NEW r \in Run, Reject(r)
  PROVE  TypeOK'
<1>1. pc[r] = "idle" /\ pc' = [pc EXCEPT ![r] = "rejected"] /\ UNCHANGED <<engine, file, locals, receipts>>
  BY DEF Reject, MayBegin
<1>2. "rejected" \in Final /\ "rejected" \notin Busy /\ "rejected" \notin InLoop /\ "idle" \notin Busy
  BY DEF Final, Busy, InLoop
<1>3. /\ pc' \in [Run -> {"idle"} \cup Busy \cup Final] /\ pc'[r] = "rejected"
      /\ \A p \in Run \ {r} : pc'[p] = pc[p]
  BY <1>1, <1>2 DEF TypeOK
<1>4. ASSUME NEW p \in Run
      PROVE  /\ ctx'[p] \in IF pc'[p] \in Busy THEN DeployContext ELSE {NoContext}
             /\ pc'[p] \in InLoop => pos'[p] \in 1 .. Len(ctx'[p].order)
  BY <1>1, <1>2, <1>3 DEF TypeOK, locals
<1>5. EngineTypeOK' /\ ReceiptsType'
  BY <1>1 DEF TypeOK, EngineTypeOK, ReceiptsType, engine
<1> QED BY <1>1, <1>3, <1>4, <1>5 DEF TypeOK, ReceiptsType, locals

LEMMA PrepareType ==
  ASSUME DeployAssumption, IInv, NEW r \in Run,
         \/ NetworkExists(r) \/ NetworkMissing(r) \/ CreateNetwork(r) \/ NetworksReady(r)
         \/ VolumeExists(r) \/ VolumeMissing(r) \/ CreateVolume(r)
  PROVE  TypeOK'
<1> USE DEF IInv
<1> DEFINE Todo == [Run -> SUBSET (Net \cup Vol \cup Dependency(Service))]
           Cur  == [Run -> Net \cup Vol \cup Dependency(Service) \cup {None}]
<1>1. CASE NetworkExists(r)
  <2>1. todo' \in Todo
    BY <1>1 DEF NetworkExists, TypeOK
  <2>2. pc' = [pc EXCEPT ![r] = "networks"]
    BY <1>1 DEF NetworkExists, TypeOK
  <2> QED BY <2>1, <2>2, <1>1, MoveType, EngineSame DEF NetworkExists, TypeOK, Busy, InLoop
<1>2. CASE NetworkMissing(r)
  <2>1. cur' \in Cur
    BY <1>2 DEF NetworkMissing, TypeOK
  <2> QED BY <2>1, <1>2, MoveType, EngineSame DEF NetworkMissing, TypeOK, Busy, InLoop
<1>3. CASE CreateNetwork(r)
  <2>1. cur[r] \in Net
    BY <1>3 DEF CreateNetwork, RunInv, StageInv, Busy
  <2>2. EngineTypeOK'
    BY <2>1, <1>3 DEF CreateNetwork, TypeOK, EngineTypeOK
  <2>3. cur' \in Cur
    BY <1>3 DEF CreateNetwork, TypeOK
  <2>4. todo' \in Todo
    BY <1>3 DEF CreateNetwork, TypeOK
  <2> QED BY <2>2, <2>3, <2>4, <1>3, MoveType DEF CreateNetwork, TypeOK, Busy, InLoop
<1>4. CASE NetworksReady(r)
  <2>1. todo' \in Todo
    BY <1>4 DEF NetworksReady, TypeOK
  <2> QED BY <2>1, <1>4, MoveType, EngineSame DEF NetworksReady, TypeOK, Busy, InLoop
<1>5. CASE VolumeExists(r)
  <2>1. todo' \in Todo
    BY <1>5 DEF VolumeExists, TypeOK
  <2>2. pc' = [pc EXCEPT ![r] = "volumes"]
    BY <1>5 DEF VolumeExists, TypeOK
  <2> QED BY <2>1, <2>2, <1>5, MoveType, EngineSame DEF VolumeExists, TypeOK, Busy, InLoop
<1>6. CASE VolumeMissing(r)
  <2>1. cur' \in Cur
    BY <1>6 DEF VolumeMissing, TypeOK
  <2> QED BY <2>1, <1>6, MoveType, EngineSame DEF VolumeMissing, TypeOK, Busy, InLoop
<1>7. CASE CreateVolume(r)
  <2>1. cur[r] \in Vol
    BY <1>7 DEF CreateVolume, RunInv, StageInv, Busy
  <2>2. EngineTypeOK'
    BY <2>1, <1>7 DEF CreateVolume, TypeOK, EngineTypeOK
  <2>3. cur' \in Cur
    BY <1>7 DEF CreateVolume, TypeOK
  <2>4. todo' \in Todo
    BY <1>7 DEF CreateVolume, TypeOK
  <2> QED BY <2>2, <2>3, <2>4, <1>7, MoveType DEF CreateVolume, TypeOK, Busy, InLoop
<1> QED BY <1>1, <1>2, <1>3, <1>4, <1>5, <1>6, <1>7

\* The order that a run works through is not empty.
LEMMA OrderNotEmpty ==
  ASSUME DeployAssumption, IInv, NEW r \in Run, pc[r] \in Busy
  PROVE  Len(ctx[r].order) \in Nat /\ Len(ctx[r].order) > 0
<1>1. ctx[r].active \in SUBSET Service /\ ctx[r].active # {}
      /\ ctx[r].order \in DependencyOrders(ctx[r].c, ctx[r].active)
  BY BusyFacts DEF IInv, RunInv, Prepared, Preflight
<1> QED BY <1>1, OrderEnumerates

LEMMA LoopType ==
  ASSUME DeployAssumption, IInv, NEW r \in Run,
         \/ VolumesReady(r) \/ Prepare(r) \/ CheckExternal(r) \/ ExternalGatePasses(r)
         \/ GateFails(r)
  PROVE  TypeOK'
<1> USE DEF IInv
<1> DEFINE Todo == [Run -> SUBSET (Net \cup Vol \cup Dependency(Service))]
           Cur  == [Run -> Net \cup Vol \cup Dependency(Service) \cup {None}]
<1>1. CASE VolumesReady(r)
  <2>1. pc[r] \in Busy
    BY <1>1 DEF VolumesReady, Busy
  <2>2. pos' \in [Run -> Nat] /\ pos'[r] = 1 /\ \A o \in Run \ {r} : pos'[o] = pos[o]
    BY <1>1 DEF VolumesReady, TypeOK
  <2>3. pos'[r] \in 1 .. Len(ctx[r].order)
    BY <2>1, <2>2, OrderNotEmpty
  <2> QED BY <2>1, <2>2, <2>3, <1>1, MoveType, EngineSame DEF VolumesReady, TypeOK, Busy
<1>2. CASE Prepare(r)
  <2>1. pc[r] \in Busy /\ pc[r] \in InLoop
    BY <1>2 DEF Prepare, Busy, InLoop
  <2>2. todo' \in Todo
    BY <2>1, <1>2, BusyFacts DEF Prepare, TypeOK
  <2> QED BY <2>1, <2>2, <1>2, BusyFacts, MoveType, EngineSame DEF Prepare, TypeOK, Busy
<1>3. CASE CheckExternal(r)
  <2>1. pc[r] = "external" /\ pc[r] \in Busy /\ pc[r] \in InLoop
    BY <1>3 DEF CheckExternal, Busy, InLoop
  <2>2. todo[r] \subseteq Dependency(Service)
    BY <2>1, BusyFacts DEF RunInv, StageInv
  <2>3. PICK d \in todo[r] :
          /\ seen' = [seen EXCEPT ![r] = @ \cup {d.service}]
          /\ \/ /\ pc' = [pc EXCEPT ![r] = "extgate"]
                /\ cur' = [cur EXCEPT ![r] = d]
                /\ UNCHANGED todo
             \/ /\ todo' = [todo EXCEPT ![r] = @ \ {d}]
                /\ UNCHANGED <<pc, cur>>
    BY <1>3 DEF CheckExternal
  <2>4. d \in Dependency(Service) /\ d.service \in Service
    BY <2>2 DEF Dependency
  <2>5. seen' \in [Run -> SUBSET Service]
    BY <2>3, <2>4 DEF TypeOK
  <2>6. cur' \in Cur /\ todo' \in Todo
    <3>1. cur \in Cur /\ todo \in Todo
      BY DEF TypeOK
    <3>2. [cur EXCEPT ![r] = d] \in Cur
      BY <3>1, <2>4
    <3>3. [todo EXCEPT ![r] = @ \ {d}] \in Todo
      BY <3>1
    <3> QED BY <3>1, <3>2, <3>3, <2>3
  <2>7. pc' = [pc EXCEPT ![r] = "extgate"] \/ pc' = [pc EXCEPT ![r] = "external"]
    BY <2>1, <2>3 DEF TypeOK
  <2> QED BY <2>1, <2>5, <2>6, <2>7, <1>3, BusyFacts, MoveType, EngineSame
          DEF CheckExternal, TypeOK, Busy
<1>4. CASE ExternalGatePasses(r)
  <2>1. pc[r] = "extgate" /\ pc[r] \in Busy /\ pc[r] \in InLoop
    BY <1>4 DEF ExternalGatePasses, Busy, InLoop
  <2>2. cur[r] \in Dependency(Service)
    BY <2>1, BusyFacts DEF RunInv, StageInv
  <2>3. cur[r].service \in Service
    BY <2>2 DEF Dependency
  <2>4. gated' \in [Run -> SUBSET Service]
    BY <2>3, <1>4 DEF ExternalGatePasses, TypeOK
  <2>5. cur' \in Cur
    BY <1>4 DEF ExternalGatePasses, TypeOK
  <2>6. todo' \in Todo
    BY <1>4 DEF ExternalGatePasses, TypeOK
  <2> QED BY <2>1, <2>4, <2>5, <2>6, <1>4, BusyFacts, MoveType, EngineSame
          DEF ExternalGatePasses, TypeOK, Busy
<1>5. CASE GateFails(r)
  BY <1>5, MoveType, EngineSame DEF GateFails, TypeOK, Busy, InLoop, locals
<1> QED BY <1>1, <1>2, <1>3, <1>4, <1>5

\* After a service, the loop is at the next one or past the last.
LEMMA AdvanceType ==
  ASSUME TypeOK, NEW r \in Run, pc[r] \in InLoop, Len(ctx[r].order) \in Nat, Advance(r)
  PROVE  /\ pos' \in [Run -> Nat] /\ pos'[r] = pos[r] + 1
         /\ \A o \in Run \ {r} : pos'[o] = pos[o]
         /\ \/ /\ pc' = [pc EXCEPT ![r] = "prepare"]
               /\ pos'[r] \in 1 .. Len(ctx[r].order)
            \/ pc' = [pc EXCEPT ![r] = "receipt"] /\ pos'[r] = Len(ctx[r].order) + 1
<1>1. pos[r] \in 1 .. Len(ctx[r].order)
  BY DEF TypeOK
<1>2. pos' \in [Run -> Nat] /\ pos'[r] = pos[r] + 1 /\ \A o \in Run \ {r} : pos'[o] = pos[o]
  BY DEF Advance, TypeOK
<1>3. CASE pos[r] < Len(ctx[r].order)
  BY <1>1, <1>2, <1>3 DEF Advance
<1>4. CASE ~ (pos[r] < Len(ctx[r].order))
  <2>1. pos[r] = Len(ctx[r].order)
    BY <1>1, <1>4
  <2> QED BY <1>2, <1>4, <2>1 DEF Advance
<1> QED BY <1>3, <1>4

\* What a service leaves when the loop goes on after it.
LEMMA AdvancedType ==
  ASSUME TypeOK, NEW r \in Run, pc[r] \in Busy, pc[r] \in InLoop, Len(ctx[r].order) \in Nat,
         Advance(r), ctx' = ctx,
         todo' \in [Run -> SUBSET (Net \cup Vol \cup Dependency(Service))],
         cur' \in [Run -> Net \cup Vol \cup Dependency(Service) \cup {None}],
         seen' \in [Run -> SUBSET Service],
         gated' \in [Run -> SUBSET Service],
         EngineTypeOK', UNCHANGED <<file, receipts>>
  PROVE  TypeOK'
<1>1. /\ pos' \in [Run -> Nat] /\ \A o \in Run \ {r} : pos'[o] = pos[o]
      /\ \/ /\ pc' = [pc EXCEPT ![r] = "prepare"]
            /\ pos'[r] \in 1 .. Len(ctx[r].order)
         \/ pc' = [pc EXCEPT ![r] = "receipt"]
  BY AdvanceType
<1>2. "receipt" \notin InLoop /\ "receipt" \in Busy /\ "prepare" \in Busy
  BY DEF InLoop, Busy
<1>3. CASE pc' = [pc EXCEPT ![r] = "receipt"]
  BY <1>1, <1>2, <1>3, MoveType
<1>4. CASE pc' = [pc EXCEPT ![r] = "prepare"] /\ pos'[r] \in 1 .. Len(ctx[r].order)
  BY <1>1, <1>2, <1>4, MoveType
<1> QED BY <1>1, <1>3, <1>4

\* The container that a run creates.
LEMMA StartType ==
  ASSUME DeployAssumption, TypeOK, NEW r \in Run, pc[r] \in Busy, pc[r] \in InLoop,
         NEW state \in {"created", "running"}, StartContainer(r, state), UNCHANGED nets
  PROVE  EngineTypeOK'
<1>1. This(r) \in Service /\ CName[This(r)] \in Name
  BY BusyFacts DEF DeployAssumption
<1>2. Uses[This(r)] \in SUBSET (Net \cup Vol)
  BY <1>1 DEF DeployAssumption
<1>3. [by |-> r, state |-> state, healthy |-> FALSE, uses |-> Uses[This(r)]] \in Container
  BY <1>2 DEF Container
<1>4. ctr' \in [Name -> Container \cup {Absent}]
  BY <1>1, <1>3 DEF StartContainer, TypeOK, EngineTypeOK
<1>5. vols' \subseteq Vol
  BY DEF StartContainer, TypeOK, EngineTypeOK
<1> QED BY <1>4, <1>5 DEF TypeOK, EngineTypeOK

LEMMA ReplaceType ==
  ASSUME DeployAssumption, IInv, NEW r \in Run,
         RemoveOld(r) \/ Start(r) \/ StartFailsHalfway(r) \/ GatePasses(r)
  PROVE  TypeOK'
<1> USE DEF IInv
<1>1. pc[r] \in Busy /\ pc[r] \in InLoop
  BY DEF RemoveOld, Start, StartFailsHalfway, GatePasses, Busy, InLoop
<1>2. This(r) \in Service /\ CName[This(r)] \in Name /\ Len(ctx[r].order) \in Nat
  BY <1>1, BusyFacts, OrderNotEmpty DEF DeployAssumption
<1>3. CASE RemoveOld(r)
  <2>1. EngineTypeOK'
    BY <1>2, <1>3 DEF RemoveOld, TypeOK, EngineTypeOK
  <2> QED BY <2>1, <1>1, <1>3, BusyFacts, MoveType DEF RemoveOld, TypeOK, Busy, locals
<1>4. CASE Start(r)
  <2>1. EngineTypeOK'
    BY <1>1, <1>4, StartType DEF Start
  <2>2. CASE MustGate(ctx[r], This(r))
    <3>1. pc' = [pc EXCEPT ![r] = "gate"] /\ pos' = pos /\ "gate" \in Busy
      BY <2>2, <1>4 DEF Start, Busy
    <3>2. UNCHANGED <<ctx, todo, cur, seen, gated, file, receipts>>
      BY <1>4 DEF Start
    <3>3. /\ pos' \in [Run -> Nat] /\ pos'[r] \in 1 .. Len(ctx[r].order)
          /\ todo' \in [Run -> SUBSET (Net \cup Vol \cup Dependency(Service))]
          /\ cur' \in [Run -> Net \cup Vol \cup Dependency(Service) \cup {None}]
          /\ seen' \in [Run -> SUBSET Service] /\ gated' \in [Run -> SUBSET Service]
      BY <1>1, <3>1, <3>2 DEF TypeOK
    <3> QED BY <2>1, <3>1, <3>2, <3>3, <1>1, MoveType
  <2>3. CASE ~ MustGate(ctx[r], This(r))
    <3>1. Advance(r)
      BY <2>3, <1>4 DEF Start
    <3>2. UNCHANGED <<ctx, todo, cur, seen, gated, file, receipts>>
      BY <1>4 DEF Start
    <3>3. /\ todo' \in [Run -> SUBSET (Net \cup Vol \cup Dependency(Service))]
          /\ cur' \in [Run -> Net \cup Vol \cup Dependency(Service) \cup {None}]
          /\ seen' \in [Run -> SUBSET Service] /\ gated' \in [Run -> SUBSET Service]
      BY <3>2 DEF TypeOK
    <3> QED BY <2>1, <3>1, <3>2, <3>3, <1>1, <1>2, AdvancedType
  <2> QED BY <2>2, <2>3
<1>5. CASE StartFailsHalfway(r)
  <2>1. EngineTypeOK'
    BY <1>1, <1>5, StartType DEF StartFailsHalfway
  <2> QED BY <2>1, <1>1, <1>5, BusyFacts, MoveType DEF StartFailsHalfway, TypeOK, Busy, locals
<1>6. CASE GatePasses(r)
  <2>1. gated' \in [Run -> SUBSET Service]
    BY <1>2, <1>6 DEF GatePasses, TypeOK
  <2>2. Advance(r)
    BY <1>6 DEF GatePasses
  <2>3. UNCHANGED <<engine, ctx, todo, cur, seen, file, receipts>>
    BY <1>6 DEF GatePasses
  <2>4. /\ todo' \in [Run -> SUBSET (Net \cup Vol \cup Dependency(Service))]
        /\ cur' \in [Run -> Net \cup Vol \cup Dependency(Service) \cup {None}]
        /\ seen' \in [Run -> SUBSET Service]
    BY <2>3 DEF TypeOK
  <2>5. EngineTypeOK'
    BY <2>3, EngineSame
  <2> QED BY <2>1, <2>2, <2>3, <2>4, <2>5, <1>1, <1>2, AdvancedType
<1> QED BY <1>3, <1>4, <1>5, <1>6

LEMMA ContainerIdType ==
  ASSUME DeployAssumption, TypeOK, NEW s \in Service
  PROVE  ContainerId(s) \in Run \cup {None}
<1>1. CName[s] \in Name
  BY DEF DeployAssumption
<1>2. ctr[CName[s]] \in Container \cup {Absent}
  BY <1>1 DEF TypeOK, EngineTypeOK
<1> QED BY <1>2 DEF ContainerId, Container

\* Leaving without a receipt.
LEMMA LeaveType ==
  ASSUME TypeOK, NEW r \in Run, NEW outcome \in Final, Exit(r, outcome),
         UNCHANGED <<engine, file, receipts>>
  PROVE  TypeOK'
<1>1. LocalType'
  BY ExitType
<1>2. EngineTypeOK' /\ file' \in Contracts /\ ReceiptsType'
  BY EngineSame DEF TypeOK, ReceiptsType
<1> QED BY <1>1, <1>2 DEF TypeOK, LocalType, ReceiptsType

\* Leaving with one.
LEMMA ReportType ==
  ASSUME TypeOK, NEW r \in Run, NEW outcome \in Final, Exit(r, outcome),
         UNCHANGED <<engine, file>>,
         NEW x \in Receipt, receipts' = [receipts EXCEPT ![r] = x]
  PROVE  TypeOK'
<1>1. LocalType'
  BY ExitType
<1>2. EngineTypeOK' /\ file' \in Contracts
  BY EngineSame DEF TypeOK
<1>3. ReceiptsType'
  BY DEF TypeOK, ReceiptsType
<1> QED BY <1>1, <1>2, <1>3 DEF TypeOK, LocalType, ReceiptsType

\* The receipt of a successful run.
LEMMA ReportsOk ==
  ASSUME DeployAssumption, IInv, NEW r \in Run, WriteReceipt(r)
  PROVE  \E x \in Receipt :
           /\ receipts' = [receipts EXCEPT ![r] = x]
           /\ x.status = "ok" /\ x.ids = [s \in ctx[r].active |-> ContainerId(s)]
<1> DEFINE ids == [s \in ctx[r].active |-> ContainerId(s)]
           x == [status |-> "ok", digest |-> file, deployed |-> ctx[r].c,
                 failure |-> None, ids |-> ids]
<1>1. pc[r] \in Busy
  BY DEF WriteReceipt, Busy
<1>2. ctx[r].active \in SUBSET Service /\ ctx[r].c \in Contracts /\ file \in Contracts
  BY <1>1, BusyFacts DEF IInv, TypeOK
<1>3. ids \in [ctx[r].active -> Run \cup {None}]
  BY <1>2, ContainerIdType DEF IInv
<1>4. receipts' = [receipts EXCEPT ![r] = x]
  BY DEF WriteReceipt
<1> HIDE DEF ids
<1>5. x \in Receipt /\ x.status = "ok" /\ x.ids = ids
  BY <1>2, <1>3 DEF Receipt
<1> HIDE DEF x
<1> QED BY <1>4, <1>5 DEF ids

\* That of a run that failed at a health gate.
LEMMA ReportsFailure ==
  ASSUME DeployAssumption, IInv, NEW r \in Run, WriteAttemptReceipt(r)
  PROVE  \E x \in Receipt :
           /\ receipts' = [receipts EXCEPT ![r] = x]
           /\ x.status = "failed" /\ x.failure = FailureSummary(r)
           /\ x.deployed = ctx[r].c
           /\ x.ids = [s \in ctx[r].active |-> IF AllPresent(r) THEN ContainerId(s) ELSE None]
<1> DEFINE ids == [s \in ctx[r].active |-> IF AllPresent(r) THEN ContainerId(s) ELSE None]
           x == [status |-> "failed", digest |-> file, deployed |-> ctx[r].c,
                 failure |-> FailureSummary(r), ids |-> ids]
<1>1. pc[r] \in Busy
  BY DEF WriteAttemptReceipt, Busy
<1>2. ctx[r].active \in SUBSET Service /\ ctx[r].c \in Contracts /\ file \in Contracts
  BY <1>1, BusyFacts DEF IInv, TypeOK
<1>3. ids \in [ctx[r].active -> Run \cup {None}]
  BY <1>2, ContainerIdType DEF IInv
<1>4. FailureSummary(r) \in Failure
  <2>1. /\ cur[r] \in ExternalDeps(ctx[r], This(r)) \cup {None}
        /\ pos[r] \in 1 .. Len(ctx[r].order)
    BY <1>1 DEF WriteAttemptReceipt, IInv, RunInv, StageInv
  <2>2. This(r) \in Service
    BY <1>1, <2>1, BusyFacts DEF IInv, This
  <2>3. cur[r] \in Dependency(Service) \cup {None}
    BY <1>1, <2>1, <2>2, BusyFacts DEF IInv
  <2>4. cur[r] # None => cur[r].service \in Service
    BY <2>3 DEF Dependency
  <2> QED BY <2>2, <2>4 DEF FailureSummary, Failure
<1>5. receipts' = [receipts EXCEPT ![r] = x]
  BY DEF WriteAttemptReceipt
<1> HIDE DEF ids
<1>6. /\ x \in Receipt /\ x.status = "failed" /\ x.failure = FailureSummary(r)
      /\ x.deployed = ctx[r].c /\ x.ids = ids
  BY <1>2, <1>3, <1>4 DEF Receipt
<1> HIDE DEF x
<1> QED BY <1>5, <1>6 DEF ids

LEMMA EndType ==
  ASSUME DeployAssumption, IInv, NEW r \in Run,
         \/ WriteReceipt(r) \/ NoReceipt(r) \/ WriteAttemptReceipt(r)
         \/ StepFails(r) \/ Kill(r)
  PROVE  TypeOK'
<1> USE DEF IInv
<1>1. {"ok", "failed", "killed"} \subseteq Final
  BY DEF Final
<1>2. CASE WriteReceipt(r)
  BY <1>1, <1>2, ReportsOk, ReportType DEF WriteReceipt
<1>3. CASE WriteAttemptReceipt(r)
  BY <1>1, <1>3, ReportsFailure, ReportType DEF WriteAttemptReceipt
<1>4. CASE NoReceipt(r)
  BY <1>1, <1>4, LeaveType DEF NoReceipt
<1>5. CASE StepFails(r)
  BY <1>1, <1>5, LeaveType DEF StepFails
<1>6. CASE Kill(r)
  BY <1>1, <1>6, LeaveType DEF Kill
<1> QED BY <1>2, <1>3, <1>4, <1>5, <1>6

\* What the containers' own life does: the state and the health of one of them.
LEMMA LivesShape ==
  ASSUME TypeOK, ContainersLive
  PROVE  /\ UNCHANGED <<nets, vols>>
         /\ \E n \in Name, b \in BOOLEAN, st \in {"created", "running", "exited"} :
              /\ ctr[n] \in Container
              /\ ctr' = [ctr EXCEPT ![n] = [ctr[n] EXCEPT !.state = st, !.healthy = b]]
<1>1. PICK n \in Name : Crash(n) \/ Restart(n) \/ HealthChange(n)
  BY DEF ContainersLive, EngineStep
<1>2. ctr[n] \in Container /\ UNCHANGED <<nets, vols>>
  BY <1>1 DEF Crash, Restart, HealthChange, IsRunning, TypeOK, EngineTypeOK
<1>3. \E b \in BOOLEAN, st \in {"created", "running", "exited"} :
        ctr' = [ctr EXCEPT ![n] = [ctr[n] EXCEPT !.state = st, !.healthy = b]]
  <2>1. ctr[n].healthy \in BOOLEAN /\ ctr[n].state \in {"created", "running", "exited"}
    BY <1>2 DEF Container
  <2>2. /\ ctr[n] = [ctr[n] EXCEPT !.state = ctr[n].state]
        /\ \A st : [ctr[n] EXCEPT !.state = st] =
                     [ctr[n] EXCEPT !.state = st, !.healthy = ctr[n].healthy]
    BY <1>2 DEF Container
  <2>3. CASE Crash(n)
    BY <2>3 DEF Crash
  <2>4. CASE Restart(n)
    BY <2>1, <2>2, <2>4 DEF Restart
  <2>5. CASE HealthChange(n)
    <3>1. (~ ctr[n].healthy) \in BOOLEAN
      OBVIOUS
    <3>2. [ctr[n] EXCEPT !.healthy = ~ @] =
            [ctr[n] EXCEPT !.state = ctr[n].state, !.healthy = ~ ctr[n].healthy]
      BY <1>2 DEF Container
    <3> QED BY <2>1, <2>5, <3>1, <3>2 DEF HealthChange
  <2> QED BY <1>1, <2>3, <2>4, <2>5
<1> QED BY <1>2, <1>3

\* Neither edits nor the containers' own life concern a run's variables.
LEMMA SurroundingsType ==
  ASSUME TypeOK, Edit \/ ContainersLive \/ UNCHANGED vars
  PROVE  TypeOK'
<1>1. pc' = pc /\ UNCHANGED locals /\ receipts' = receipts
  BY DEF Edit, ContainersLive, vars
<1>2. file' \in Contracts
  BY DEF Edit, ContainersLive, vars, TypeOK
<1>3. EngineTypeOK'
  <2>1. CASE UNCHANGED engine
    BY <2>1, EngineSame
  <2>2. CASE ContainersLive
    <3>1. PICK n \in Name, b \in BOOLEAN, st \in {"created", "running", "exited"} :
            /\ ctr[n] \in Container
            /\ ctr' = [ctr EXCEPT ![n] = [ctr[n] EXCEPT !.state = st, !.healthy = b]]
      BY <2>2, LivesShape
    <3>2. [ctr[n] EXCEPT !.state = st, !.healthy = b] \in Container
      BY <3>1 DEF Container
    <3>3. UNCHANGED <<nets, vols>>
      BY <2>2, LivesShape
    <3> QED BY <3>1, <3>2, <3>3 DEF TypeOK, EngineTypeOK
  <2> QED BY <2>1, <2>2 DEF Edit, vars
<1>4. LocalType' /\ ReceiptsType'
  BY <1>1 DEF TypeOK, LocalType, ReceiptsType, locals
<1> QED BY <1>2, <1>3, <1>4 DEF TypeOK, LocalType, ReceiptsType

-----------------------------------------------------------------------------
\* The invariant of the runs, action by action.

\* A run that is not involved in a step keeps its invariant.
LEMMA RunSame ==
  ASSUME NEW q \in Run, RunInv(q),
         pc'[q] = pc[q], ctx'[q] = ctx[q], pos'[q] = pos[q], todo'[q] = todo[q],
         cur'[q] = cur[q], seen'[q] = seen[q], gated'[q] = gated[q]
  PROVE  RunInv(q)'
<1>1. This(q)' = This(q)
  BY DEF This
<1>2. \A d : Met(q, d)' <=> Met(q, d)
  BY DEF Met
<1>3. \A s : ExternalMet(q, s)' <=> ExternalMet(q, s)
  BY <1>2 DEF ExternalMet
<1> QED BY <1>1, <1>2, <1>3 DEF RunInv, Prepared, LoopInv, StageInv

\* The actions of run r leave the variables of the other runs alone.
LEMMA Elsewhere ==
  ASSUME TypeOK, NEW r \in Run, NEW q \in Run \ {r},
         Begin(r) \/ Reject(r) \/ Step(r) \/ Kill(r)
  PROVE  /\ pc'[q] = pc[q] /\ ctx'[q] = ctx[q] /\ pos'[q] = pos[q] /\ todo'[q] = todo[q]
         /\ cur'[q] = cur[q] /\ seen'[q] = seen[q] /\ gated'[q] = gated[q]
<1> USE DEF TypeOK, locals
<1>1. CASE Begin(r) \/ Reject(r)
  BY <1>1 DEF Begin, Reject
<1>2. CASE NetworkExists(r) \/ NetworkMissing(r) \/ CreateNetwork(r) \/ NetworksReady(r)
  BY <1>2 DEF NetworkExists, NetworkMissing, CreateNetwork, NetworksReady
<1>3. CASE VolumeExists(r) \/ VolumeMissing(r) \/ CreateVolume(r) \/ VolumesReady(r)
  BY <1>3 DEF VolumeExists, VolumeMissing, CreateVolume, VolumesReady
<1>4. CASE Prepare(r) \/ CheckExternal(r) \/ ExternalGatePasses(r)
  BY <1>4 DEF Prepare, CheckExternal, ExternalGatePasses
<1>5. CASE RemoveOld(r) \/ StartFailsHalfway(r) \/ GateFails(r)
  BY <1>5 DEF RemoveOld, StartFailsHalfway, GateFails
<1>6. CASE Start(r) \/ GatePasses(r)
  BY <1>6 DEF Start, GatePasses, Advance
<1>7. CASE WriteReceipt(r) \/ NoReceipt(r) \/ WriteAttemptReceipt(r) \/ StepFails(r) \/ Kill(r)
  BY <1>7 DEF WriteReceipt, NoReceipt, WriteAttemptReceipt, StepFails, Kill, Exit
<1> QED BY <1>1, <1>2, <1>3, <1>4, <1>5, <1>6, <1>7 DEF Step

LEMMA BeginInv ==
  ASSUME DeployAssumption, IInv, NEW r \in Run, Begin(r)
  PROVE  RunInv(r)'
<1>1. PICK cmd \in Commands :
        /\ Accepted(cmd)
        /\ \E o \in DependencyOrders(file, Selection(cmd)) :
             ctx' = [ctx EXCEPT ![r] =
                       [c |-> file, active |-> Selection(cmd), partial |-> cmd.roots # {},
                        order |-> o, skipHealth |-> cmd.skipHealth, receipt |-> cmd.receipt]]
  BY DEF Begin
<1>2. PICK o \in DependencyOrders(file, Selection(cmd)) :
        ctx' = [ctx EXCEPT ![r] =
                  [c |-> file, active |-> Selection(cmd), partial |-> cmd.roots # {},
                   order |-> o, skipHealth |-> cmd.skipHealth, receipt |-> cmd.receipt]]
  BY <1>1
<1>3. /\ ctx'[r].c = file /\ ctx'[r].active = Selection(cmd) /\ ctx'[r].order = o
      /\ ctx'[r].partial = (cmd.roots # {})
  BY <1>2 DEF IInv, TypeOK
<1>4. Prepared(r)'
  BY <1>1, <1>3 DEF Prepared, Accepted
<1>5. pc'[r] = "networks" /\ todo'[r] = Net /\ cur'[r] = None /\ pos'[r] = 0
  BY DEF Begin, MayBegin, IInv, RunInv, TypeOK, Busy
<1>6. Len(o) \in Nat
  <2>1. file \in Contracts
    BY DEF IInv, TypeOK
  <2> QED BY <2>1, SelectionType, OrderEnumerates
<1>7. LoopInv(r)'
  BY <1>3, <1>5, <1>6 DEF LoopInv
<1>8. StageInv(r)'
  BY <1>5 DEF StageInv
<1> QED BY <1>4, <1>5, <1>7, <1>8 DEF RunInv, Busy

LEMMA EndInv ==
  ASSUME TypeOK, NEW r \in Run, RunInv(r),
         \/ Reject(r) \/ WriteReceipt(r) \/ NoReceipt(r) \/ WriteAttemptReceipt(r)
         \/ StepFails(r) \/ Kill(r)
  PROVE  RunInv(r)'
<1>1. CASE Reject(r)
  <2>1. pc'[r] = "rejected" /\ cur' = cur /\ pos' = pos /\ pc[r] = "idle"
    BY <1>1 DEF Reject, MayBegin, locals, TypeOK
  <2> QED BY <2>1 DEF RunInv, Busy
<1>2. CASE ~ Reject(r)
  <2>1. PICK outcome \in Final : Exit(r, outcome)
    BY <1>2 DEF WriteReceipt, NoReceipt, WriteAttemptReceipt, StepFails, Kill, Final
  <2>2. pc'[r] = outcome /\ cur'[r] = None /\ pos'[r] = 0
    BY <2>1 DEF Exit, TypeOK
  <2> QED BY <2>2 DEF RunInv, Final, Busy
<1> QED BY <1>1, <1>2

\* Between the services, LoopInv depends on seen and gated only, which grow.
LEMMA LoopGrows ==
  ASSUME NEW r \in Run, LoopInv(r), ctx'[r] = ctx[r], pos'[r] = pos[r],
         seen[r] \subseteq seen'[r], gated[r] \subseteq gated'[r]
  PROVE  LoopInv(r)'
<1>1. \A s : ExternalMet(r, s) => ExternalMet(r, s)'
  BY DEF ExternalMet, Met
<1> QED BY <1>1 DEF LoopInv

LEMMA PrepareInv ==
  ASSUME DeployAssumption, IInv, NEW r \in Run,
         \/ NetworkExists(r) \/ NetworkMissing(r) \/ CreateNetwork(r) \/ NetworksReady(r)
         \/ VolumeExists(r) \/ VolumeMissing(r) \/ CreateVolume(r) \/ VolumesReady(r)
  PROVE  RunInv(r)'
<1> USE DEF IInv
<1>1. /\ pc[r] \in {"networks", "newnet", "volumes", "newvol"}
      /\ pc[r] \in Busy
  BY DEF NetworkExists, NetworkMissing, CreateNetwork, NetworksReady,
         VolumeExists, VolumeMissing, CreateVolume, VolumesReady, Busy
<1>2. ctx' = ctx /\ seen' = seen /\ gated' = gated
  BY DEF NetworkExists, NetworkMissing, CreateNetwork, NetworksReady,
         VolumeExists, VolumeMissing, CreateVolume, VolumesReady
<1>3. Prepared(r)'
  BY <1>1, <1>2 DEF RunInv, Prepared
<1>4. pos[r] = 0 /\ LoopInv(r)
  BY <1>1 DEF RunInv, StageInv
<1>5. CASE VolumesReady(r)
  <2>1. pc'[r] = "prepare" /\ pos'[r] = 1 /\ cur'[r] = None
    BY <1>5 DEF VolumesReady, TypeOK, RunInv, StageInv, Busy
  <2>2. Len(ctx[r].order) \in Nat /\ Len(ctx[r].order) > 0
    BY <1>1, OrderNotEmpty
  <2>3. LoopInv(r)'
    BY <2>1, <2>2, <1>2 DEF LoopInv
  <2> QED BY <2>1, <2>3, <1>3 DEF RunInv, StageInv, Busy
<1>6. CASE ~ VolumesReady(r)
  <2>1. pos' = pos
    BY <1>6 DEF NetworkExists, NetworkMissing, CreateNetwork, NetworksReady,
                VolumeExists, VolumeMissing, CreateVolume
  <2>2. LoopInv(r)'
    BY <2>1, <1>2, <1>4, LoopGrows
  <2>3. StageInv(r) /\ pos'[r] = 0
    BY <2>1, <1>1, <1>4 DEF RunInv
  <2>4. CASE NetworkExists(r)
    <3>1. pc'[r] = "networks" /\ cur'[r] = None /\ todo'[r] \subseteq Net
      BY <2>3, <2>4 DEF NetworkExists, StageInv, TypeOK
    <3> QED BY <3>1, <2>2, <2>3, <1>3 DEF RunInv, StageInv, Busy
  <2>5. CASE NetworkMissing(r)
    <3>1. pc'[r] = "newnet" /\ cur'[r] \in Net /\ todo'[r] \subseteq Net
      BY <2>3, <2>5 DEF NetworkMissing, StageInv, TypeOK
    <3> QED BY <3>1, <2>2, <2>3, <1>3 DEF RunInv, StageInv, Busy
  <2>6. CASE CreateNetwork(r)
    <3>1. pc'[r] = "networks" /\ cur'[r] = None /\ todo'[r] \subseteq Net
      BY <2>3, <2>6 DEF CreateNetwork, StageInv, TypeOK
    <3> QED BY <3>1, <2>2, <2>3, <1>3 DEF RunInv, StageInv, Busy
  <2>7. CASE NetworksReady(r)
    <3>1. pc'[r] = "volumes" /\ cur'[r] = None /\ todo'[r] \subseteq Vol
      BY <2>3, <2>7 DEF NetworksReady, StageInv, TypeOK
    <3> QED BY <3>1, <2>2, <2>3, <1>3 DEF RunInv, StageInv, Busy
  <2>8. CASE VolumeExists(r)
    <3>1. pc'[r] = "volumes" /\ cur'[r] = None /\ todo'[r] \subseteq Vol
      BY <2>3, <2>8 DEF VolumeExists, StageInv, TypeOK
    <3> QED BY <3>1, <2>2, <2>3, <1>3 DEF RunInv, StageInv, Busy
  <2>9. CASE VolumeMissing(r)
    <3>1. pc'[r] = "newvol" /\ cur'[r] \in Vol /\ todo'[r] \subseteq Vol
      BY <2>3, <2>9 DEF VolumeMissing, StageInv, TypeOK
    <3> QED BY <3>1, <2>2, <2>3, <1>3 DEF RunInv, StageInv, Busy
  <2>10. CASE CreateVolume(r)
    <3>1. pc'[r] = "volumes" /\ cur'[r] = None /\ todo'[r] \subseteq Vol
      BY <2>3, <2>10 DEF CreateVolume, StageInv, TypeOK
    <3> QED BY <3>1, <2>2, <2>3, <1>3 DEF RunInv, StageInv, Busy
  <2> QED BY <1>6, <2>4, <2>5, <2>6, <2>7, <2>8, <2>9, <2>10
<1> QED BY <1>5, <1>6

\* The loop goes on when the service at hand has passed its checks.
LEMMA AdvanceInv ==
  ASSUME TypeOK, NEW r \in Run, pc[r] \in InLoop, Advance(r),
         Prepared(r), LoopInv(r), ExternalMet(r, This(r)),
         MustGate(ctx[r], This(r)) => This(r) \in gated'[r],
         cur[r] = None, cur' = cur, ctx' = ctx, seen' = seen, gated[r] \subseteq gated'[r],
         Len(ctx[r].order) \in Nat
  PROVE  RunInv(r)'
<1>1. pos'[r] = pos[r] + 1 /\ pc'[r] \in {"prepare", "receipt"}
  BY DEF Advance, TypeOK
<1>2. pos[r] \in 1 .. Len(ctx[r].order)
  BY DEF TypeOK
<1>3. \A s : ExternalMet(r, s) => ExternalMet(r, s)'
  BY DEF ExternalMet, Met
<1>4. LoopInv(r)'
  <2> SUFFICES ASSUME NEW j \in 1 .. pos'[r] - 1
               PROVE  /\ ExternalMet(r, ctx[r].order[j])
                      /\ MustGate(ctx[r], ctx[r].order[j]) => ctx[r].order[j] \in gated'[r]
    BY <1>1, <1>2, <1>3 DEF LoopInv
  <2>1. CASE j \in 1 .. pos[r] - 1
    BY <2>1 DEF LoopInv
  <2>2. CASE j = pos[r]
    BY <2>2 DEF This
  <2> QED BY <1>1, <1>2, <2>1, <2>2
<1>5. Prepared(r)'
  BY DEF Prepared
<1>6. StageInv(r)'
  <2>1. pc'[r] = "receipt" => pos'[r] = Len(ctx[r].order) + 1
    BY AdvanceType DEF TypeOK
  <2> QED BY <1>1, <2>1 DEF StageInv
<1> QED BY <1>1, <1>4, <1>5, <1>6 DEF RunInv, Busy

\* The steps inside one turn of the loop.
LEMMA TurnInv ==
  ASSUME DeployAssumption, IInv, NEW r \in Run,
         \/ Prepare(r) \/ CheckExternal(r) \/ ExternalGatePasses(r)
         \/ RemoveOld(r) \/ StartFailsHalfway(r) \/ GateFails(r)
  PROVE  RunInv(r)'
<1> USE DEF IInv
<1>1. pc[r] \in InLoop /\ pc[r] \in Busy
  BY DEF Prepare, CheckExternal, ExternalGatePasses, RemoveOld, StartFailsHalfway, GateFails,
         InLoop, Busy
<1>2. ctx' = ctx /\ pos' = pos
  BY DEF Prepare, CheckExternal, ExternalGatePasses, RemoveOld, StartFailsHalfway, GateFails,
         locals
<1>3. seen[r] \subseteq seen'[r] /\ gated[r] \subseteq gated'[r]
  BY DEF Prepare, CheckExternal, ExternalGatePasses, RemoveOld, StartFailsHalfway, GateFails,
         locals, TypeOK
<1>4. Prepared(r) /\ LoopInv(r) /\ StageInv(r)
  BY <1>1 DEF RunInv
<1>5. Prepared(r)' /\ LoopInv(r)'
  BY <1>2, <1>3, <1>4, LoopGrows DEF Prepared
<1>6. This(r)' = This(r)
  BY <1>2 DEF This
<1>7. pos[r] \in 1 .. Len(ctx[r].order)
  BY <1>1 DEF TypeOK
<1>9. \A d : Met(r, d) => Met(r, d)'
  BY <1>2, <1>3 DEF Met
<1>10. CASE Prepare(r)
  <2>1. pc'[r] = "external" /\ cur'[r] = None /\ todo'[r] = ExternalDeps(ctx[r], This(r))
    BY <1>4, <1>10 DEF Prepare, StageInv, TypeOK
  <2>2. StageInv(r)'
    BY <2>1, <1>2, <1>6 DEF StageInv
  <2> QED BY <2>1, <2>2, <1>5 DEF RunInv, Busy
<1>11. CASE CheckExternal(r)
  <2>1. PICK d \in todo[r] :
          /\ seen' = [seen EXCEPT ![r] = @ \cup {d.service}]
          /\ IF d.condition = "healthy" /\ ~ ctx[r].skipHealth
             THEN /\ pc' = [pc EXCEPT ![r] = "extgate"]
                  /\ cur' = [cur EXCEPT ![r] = d]
                  /\ UNCHANGED todo
             ELSE /\ todo' = [todo EXCEPT ![r] = @ \ {d}]
                  /\ UNCHANGED <<pc, cur>>
    BY <1>11 DEF CheckExternal
  <2>2. pc[r] = "external" /\ gated' = gated /\ d.service \in seen'[r]
    BY <1>11, <2>1 DEF CheckExternal, TypeOK
  <2>3. /\ cur[r] = None /\ todo[r] \subseteq ExternalDeps(ctx[r], This(r))
        /\ \A e \in ExternalDeps(ctx[r], This(r)) \ todo[r] : Met(r, e)
    BY <1>4, <2>2 DEF StageInv
  <2>4. CASE d.condition = "healthy" /\ ~ ctx[r].skipHealth
    <3>1. pc'[r] = "extgate" /\ cur'[r] = d /\ todo'[r] = todo[r]
      BY <2>1, <2>4 DEF TypeOK
    <3>2. StageInv(r)'
      BY <3>1, <2>2, <2>3, <1>2, <1>6, <1>9 DEF StageInv
    <3> QED BY <3>1, <3>2, <1>5 DEF RunInv, Busy
  <2>5. CASE ~ (d.condition = "healthy" /\ ~ ctx[r].skipHealth)
    <3>1. pc'[r] = "external" /\ cur'[r] = None /\ todo'[r] = todo[r] \ {d}
      BY <2>1, <2>2, <2>3, <2>5 DEF TypeOK
    <3>2. Met(r, d)'
      BY <2>2, <2>5, <1>2 DEF Met
    <3>3. \A e \in ExternalDeps(ctx[r], This(r)) \ todo'[r] : Met(r, e)'
      BY <3>1, <3>2, <2>3, <1>9
    <3>4. StageInv(r)'
      BY <3>1, <3>3, <2>3, <1>2, <1>6 DEF StageInv
    <3> QED BY <3>1, <3>4, <1>5 DEF RunInv, Busy
  <2> QED BY <2>4, <2>5
<1>12. CASE ExternalGatePasses(r)
  <2>1. pc[r] = "extgate"
    BY <1>12 DEF ExternalGatePasses
  <2>2. /\ pc'[r] = "external" /\ cur'[r] = None /\ todo'[r] = todo[r] \ {cur[r]}
        /\ cur[r].service \in gated'[r] /\ seen' = seen
    BY <1>12 DEF ExternalGatePasses, TypeOK
  <2>3. /\ todo[r] \subseteq ExternalDeps(ctx[r], This(r))
        /\ \A e \in ExternalDeps(ctx[r], This(r)) \ todo[r] : Met(r, e)
        /\ cur[r].service \in seen[r]
    BY <1>4, <2>1 DEF StageInv
  <2>4. \A e : e = cur[r] => Met(r, e)'
    BY <2>2, <2>3 DEF Met
  <2>5. \A e \in ExternalDeps(ctx[r], This(r)) \ todo'[r] : Met(r, e)'
    BY <2>2, <2>3, <2>4, <1>9
  <2>6. StageInv(r)'
    BY <2>2, <2>3, <2>5, <1>2, <1>6 DEF StageInv
  <2> QED BY <2>2, <2>6, <1>5 DEF RunInv, Busy
<1>13. CASE RemoveOld(r) \/ StartFailsHalfway(r)
  <2>1. /\ pc[r] \in {"external", "start"} /\ pc'[r] \in {"start", "broken"}
        /\ cur' = cur
        /\ pc[r] = "external" => todo[r] = {}
    BY <1>13 DEF RemoveOld, StartFailsHalfway, TypeOK, locals
  <2>2. cur[r] = None /\ ExternalMet(r, This(r))
    BY <1>4, <2>1 DEF StageInv, ExternalMet
  <2>3. ExternalMet(r, This(r))'
    BY <2>2, <1>2, <1>6, <1>9 DEF ExternalMet
  <2>4. StageInv(r)'
    BY <2>1, <2>2, <2>3, <1>2 DEF StageInv
  <2> QED BY <2>1, <2>4, <1>5 DEF RunInv, Busy
<1>14. CASE GateFails(r)
  <2>1. pc[r] \in {"extgate", "gate"} /\ pc'[r] = "attempt" /\ cur' = cur
    BY <1>14 DEF GateFails, TypeOK, locals
  <2>2. cur[r] \in ExternalDeps(ctx[r], This(r)) \cup {None}
    BY <1>4, <2>1 DEF StageInv
  <2>3. StageInv(r)'
    BY <2>1, <2>2, <1>2, <1>6, <1>7 DEF StageInv
  <2> QED BY <2>1, <2>3, <1>5 DEF RunInv, Busy
<1> QED BY <1>10, <1>11, <1>12, <1>13, <1>14

\* The steps that may end a turn.
LEMMA TurnEndsInv ==
  ASSUME DeployAssumption, IInv, NEW r \in Run, Start(r) \/ GatePasses(r)
  PROVE  RunInv(r)'
<1> USE DEF IInv
<1>1. pc[r] \in {"start", "gate"} /\ pc[r] \in InLoop /\ pc[r] \in Busy
  BY DEF Start, GatePasses, InLoop, Busy
<1>2. ctx' = ctx /\ seen' = seen /\ cur' = cur
  BY DEF Start, GatePasses
<1>3. gated[r] \subseteq gated'[r]
  BY DEF Start, GatePasses, TypeOK
<1>4. Prepared(r) /\ LoopInv(r) /\ cur[r] = None /\ ExternalMet(r, This(r))
  BY <1>1 DEF RunInv, StageInv
<1>5. Len(ctx[r].order) \in Nat
  BY <1>1, OrderNotEmpty
<1>6. CASE Start(r) /\ MustGate(ctx[r], This(r))
  <2>1. pc'[r] = "gate" /\ pos' = pos /\ gated' = gated
    BY <1>6 DEF Start, TypeOK
  <2>2. Prepared(r)' /\ LoopInv(r)'
    BY <2>1, <1>2, <1>4, LoopGrows DEF Prepared
  <2>3. ExternalMet(r, This(r))'
    BY <2>1, <1>2, <1>4 DEF ExternalMet, Met, This
  <2>4. StageInv(r)'
    BY <2>1, <2>3, <1>2, <1>4 DEF StageInv
  <2> QED BY <2>1, <2>2, <2>4 DEF RunInv, Busy
<1>7. CASE Start(r) /\ ~ MustGate(ctx[r], This(r))
  BY <1>1, <1>2, <1>3, <1>4, <1>5, <1>7, AdvanceInv DEF Start
<1>8. CASE GatePasses(r)
  <2>1. This(r) \in gated'[r] /\ Advance(r)
    BY <1>8 DEF GatePasses, TypeOK
  <2> QED BY <2>1, <1>1, <1>2, <1>3, <1>4, <1>5, AdvanceInv
<1> QED BY <1>6, <1>7, <1>8

-----------------------------------------------------------------------------
LEMMA InitInv ==
  ASSUME DeployAssumption, PodmanAssumption, Init
  PROVE  IInv
<1> USE DEF Init
<1>1. EngineTypeOK
  BY DEF PodmanAssumption, EngineInit, EngineTypeOK
<1>2. LocalType
  BY DEF LocalType, Busy, InLoop
<1>3. file \in Contracts /\ ReceiptsType
  BY DEF ReceiptsType
<1>4. TypeOK
  BY <1>1, <1>2, <1>3 DEF TypeOK, LocalType, ReceiptsType
<1>5. ASSUME NEW r \in Run PROVE RunInv(r)
  BY DEF RunInv, Busy
<1> QED BY <1>4, <1>5 DEF IInv

\* An action of a run preserves the whole invariant.
LEMMA RunStep ==
  ASSUME DeployAssumption, IInv, NEW r \in Run,
         Begin(r) \/ Reject(r) \/ Step(r) \/ Kill(r)
  PROVE  IInv'
<1>1. TypeOK'
  BY BeginType, RejectType, PrepareType, LoopType, ReplaceType, EndType DEF IInv, Step
<1>2. RunInv(r)'
  BY BeginInv, EndInv, PrepareInv, TurnInv, TurnEndsInv DEF IInv, Step
<1>3. ASSUME NEW q \in Run \ {r} PROVE RunInv(q)'
  BY Elsewhere, RunSame DEF IInv
<1> QED BY <1>1, <1>2, <1>3 DEF IInv

LEMMA IInvStep ==
  ASSUME DeployAssumption, IInv, [Next]_vars
  PROVE  IInv'
<1>1. ASSUME NEW r \in Run, Begin(r) \/ Reject(r) \/ Step(r) \/ Kill(r)
      PROVE  IInv'
  BY <1>1, RunStep
<1>2. CASE Edit \/ ContainersLive \/ UNCHANGED vars
  <2>1. TypeOK'
    BY <1>2, SurroundingsType DEF IInv
  <2>2. pc' = pc /\ UNCHANGED locals
    BY <1>2 DEF Edit, ContainersLive, vars
  <2>3. ASSUME NEW q \in Run PROVE RunInv(q)'
    BY <2>2, RunSame DEF IInv, locals
  <2> QED BY <2>1, <2>3 DEF IInv
<1> QED BY <1>1, <1>2 DEF Next

\* The inductive invariant of deploy.
THEOREM Invariance == Spec => []IInv
<1> USE DeployAssumption, PodmanAssumption
<1>1. Init => IInv
  BY InitInv
<1>2. IInv /\ [Next]_vars => IInv'
  BY IInvStep
<1> QED BY <1>1, <1>2, PTL DEF Spec

\* The variables of deploy keep their types, whatever the contracts, commands,
\* runs and interleavings: every receipt is well-formed, a run has a context
\* exactly while it is busy, and its position stays inside the service order.
THEOREM TypeCorrect == Spec => []TypeOK
<1>1. IInv => TypeOK
  BY DEF IInv
<1> QED BY <1>1, Invariance, PTL

-----------------------------------------------------------------------------
\* What a run has checked is what the contract asks: dependencies inside the
\* selection come earlier in the order, so their turn is over and their gate,
\* when somebody waits for it, has passed; the others are external ones.
LEMMA CheckedIsJustified ==
  ASSUME DeployAssumption, IInv, NEW r \in Run, pc[r] \in Busy,
         NEW k \in 1 .. Len(ctx[r].order), k <= pos[r],
         ExternalMet(r, ctx[r].order[k])
  PROVE  Justified(r, ctx[r].order[k])
<1> DEFINE s == ctx[r].order[k]
<1>1. Prepared(r) /\ LoopInv(r) /\ pos[r] \in Nat
  BY DEF IInv, RunInv, TypeOK
<1>2. ctx[r].active \in SUBSET Service
  BY BusyFacts DEF IInv
<1>3. /\ Len(ctx[r].order) \in Nat
      /\ s \in ctx[r].active
      /\ \A t \in ctx[r].active : \E i \in 1 .. Len(ctx[r].order) : ctx[r].order[i] = t
      /\ \A i \in 1 .. Len(ctx[r].order) : \A j \in i .. Len(ctx[r].order) :
           ctx[r].order[j] \notin DependsOn(ctx[r].c, ctx[r].order[i])
  <2> DEFINE o == ctx[r].order
             S == ctx[r].active
  <2>1. S \in SUBSET Service /\ o \in DependencyOrders(ctx[r].c, S)
    BY <1>1, <1>2 DEF Prepared
  <2> HIDE DEF o, S
  <2>2. /\ Len(o) \in Nat
        /\ \A t \in S : \E i \in 1 .. Len(o) : o[i] = t
        /\ \A i \in 1 .. Len(o) : o[i] \in S
        /\ \A i \in 1 .. Len(o) : \A j \in i .. Len(o) : o[j] \notin DependsOn(ctx[r].c, o[i])
    BY <2>1, OrderEnumerates
  <2> QED BY <2>2 DEF o, S
<1>4. ctx[r].c.deps[s] \subseteq Dependency(Service)
  BY <1>2, <1>3, BusyFacts DEF IInv
<1> HIDE DEF s
<1> SUFFICES ASSUME NEW d \in ctx[r].c.deps[s]
             PROVE  /\ d.service \in ctx[r].active => d.service \in Done(r)
                    /\ d.service \notin ctx[r].active => d.service \in seen[r]
                    /\ d.condition = "healthy" /\ ~ ctx[r].skipHealth => d.service \in gated[r]
  BY DEF Justified, s
<1>5. /\ ctx[r].partial \/ d.service \in ctx[r].active
      /\ d.condition = "healthy" => d.service \in ctx[r].c.probed
  BY <1>1, <1>3 DEF Prepared, Preflight
<1>6. CASE d.service \in ctx[r].active
  <2>1. PICK i \in 1 .. Len(ctx[r].order) : ctx[r].order[i] = d.service
    BY <1>3, <1>6
  <2>2. d.service \in DependsOn(ctx[r].c, s)
    BY DEF DependsOn
  <2>3. i < k
    BY <1>3, <2>1, <2>2 DEF s
  <2>4. i \in 1 .. pos[r] - 1
    BY <1>1, <1>3, <2>3
  <2>5. d.service \in Done(r)
    BY <2>1, <2>4 DEF Done
  <2>6. ASSUME d.condition = "healthy", ~ ctx[r].skipHealth
        PROVE  d.service \in gated[r]
    <3>1. d = [service |-> d.service, condition |-> "healthy"]
      BY <1>4, <2>6 DEF Dependency
    <3>2. MustGate(ctx[r], d.service)
      BY <1>3, <1>5, <2>6, <3>1 DEF MustGate, NeedsHealthWait
    <3> QED BY <1>1, <2>1, <2>4, <3>2 DEF LoopInv
  <2> QED BY <1>6, <2>5, <2>6
<1>7. CASE d.service \notin ctx[r].active
  <2>1. d \in ExternalDeps(ctx[r], s)
    BY <1>5, <1>7 DEF ExternalDeps
  <2> QED BY <1>7, <2>1 DEF ExternalMet, Met, s
<1> QED BY <1>6, <1>7

\* The inductive invariant implies StartJustified.
LEMMA InvJustifies ==
  ASSUME DeployAssumption, IInv
  PROVE  StartJustified
<1> SUFFICES ASSUME NEW r \in Run
             PROVE  /\ pc[r] \in {"start", "gate"} => Justified(r, This(r))
                    /\ \A s \in Done(r) : Justified(r, s)
  BY DEF StartJustified
<1>1. ASSUME pc[r] \in {"start", "gate"}
      PROVE  Justified(r, This(r))
  <2>1. pc[r] \in Busy /\ pc[r] \in InLoop
    BY <1>1 DEF Busy, InLoop
  <2>2. pos[r] \in 1 .. Len(ctx[r].order) /\ pos[r] \in Nat
    BY <2>1 DEF IInv, TypeOK
  <2>3. ExternalMet(r, ctx[r].order[pos[r]])
    BY <1>1, <2>1 DEF IInv, RunInv, StageInv, This
  <2>4. pos[r] <= pos[r]
    BY <2>2
  <2> QED BY <2>1, <2>2, <2>3, <2>4, CheckedIsJustified DEF This
<1>2. ASSUME NEW s \in Done(r)
      PROVE  Justified(r, s)
  <2>1. PICK j \in 1 .. pos[r] - 1 : s = ctx[r].order[j]
    BY DEF Done
  <2>2. pos[r] \in Nat /\ pos[r] > 1
    BY <2>1 DEF IInv, TypeOK
  <2>3. pc[r] \in Busy
    BY <2>2 DEF IInv, RunInv, TypeOK, Final
  <2>4. LoopInv(r) /\ Len(ctx[r].order) \in Nat
    BY <2>3, BusyFacts DEF IInv, RunInv
  <2>5. j \in 1 .. Len(ctx[r].order) /\ j <= pos[r] /\ ExternalMet(r, ctx[r].order[j])
    BY <2>1, <2>2, <2>4 DEF LoopInv
  <2> QED BY <2>1, <2>3, <2>5, CheckedIsJustified
<1> QED BY <1>1, <1>2

\* No service is taken down or started ahead of what it depends on: its selected
\* dependencies are through, the others were found running, and whoever is waited
\* for as healthy passed its gate in this very run, for every contract, command
\* line, number of runs and interleaving.
THEOREM DependenciesFirst == Spec => []StartJustified
<1>1. IInv => StartJustified
  BY InvJustifies, DeployAssumption
<1> QED BY <1>1, Invariance, PTL

-----------------------------------------------------------------------------
\* What a deploy promises needs different services to have different container
\* names.  podbay does not see to that (runner.SanitizeServiceName maps "web-1"
\* and "web_1" to one name), so it is a hypothesis and no assumption of the model.
NamesDistinct == \A s, t \in Service : CName[s] = CName[t] => s = t

-----------------------------------------------------------------------------
\* Whose container a service has, step by step.

\* None is no run, and Absent no container.
LEMMA IdFacts ==
  ASSUME DeployAssumption, PodmanAssumption, TypeOK, NEW s \in Service
  PROVE  /\ CName[s] \in Name /\ None \notin Run
         /\ ContainerId(s) = IF ctr[CName[s]] \in Container THEN ctr[CName[s]].by ELSE None
<1>1. CName[s] \in Name /\ None \notin Run
  BY DEF DeployAssumption
<1>2. ctr[CName[s]] \in Container \cup {Absent} /\ Absent \notin Container
  BY <1>1 DEF TypeOK, EngineTypeOK, PodmanAssumption
<1> QED BY <1>1, <1>2 DEF ContainerId

\* Crashing, restarting and changing its health, a container stays whose it is.
LEMMA LivesKeepOwners ==
  ASSUME DeployAssumption, PodmanAssumption, TypeOK, ContainersLive, NEW s \in Service
  PROVE  ContainerId(s)' = ContainerId(s)
<1>1. PICK n \in Name, b \in BOOLEAN, st \in {"created", "running", "exited"} :
        /\ ctr[n] \in Container
        /\ ctr' = [ctr EXCEPT ![n] = [ctr[n] EXCEPT !.state = st, !.healthy = b]]
  BY LivesShape
<1>2. ctr \in [Name -> Container \cup {Absent}] /\ CName[s] \in Name
  BY IdFacts DEF TypeOK, EngineTypeOK
<1>3. ctr'[n] \in Container /\ ctr'[n].by = ctr[n].by /\ \A m \in Name \ {n} : ctr'[m] = ctr[m]
  BY <1>1, <1>2 DEF Container
<1> QED BY <1>1, <1>2, <1>3 DEF ContainerId, PodmanAssumption

\* The order of a run enumerates what it selected, each service once, behind what
\* it depends on.
LEMMA OrderOf ==
  ASSUME DeployAssumption, IInv, NEW r \in Run, pc[r] \in Busy,
         NEW o, o = ctx[r].order
  PROVE  /\ Len(o) \in Nat
         /\ \A s \in ctx[r].active : \E i \in 1 .. Len(o) : o[i] = s
         /\ \A i \in 1 .. Len(o) : o[i] \in ctx[r].active
         /\ \A i, j \in 1 .. Len(o) : o[i] = o[j] => i = j
         /\ \A i \in 1 .. Len(o) : \A j \in i .. Len(o) : o[j] \notin DependsOn(ctx[r].c, o[i])
<1>1. ctx[r].active \in SUBSET Service
  BY BusyFacts DEF IInv
<1>2. o \in DependencyOrders(ctx[r].c, ctx[r].active)
  BY DEF IInv, RunInv, Prepared
<1> QED BY <1>1, <1>2, OrderEnumerates

\* The service a run works on is one it selected, and is not through yet; what it
\* depends on inside the selection is.
LEMMA AtWork ==
  ASSUME DeployAssumption, IInv, NEW r \in Run, pc[r] \in InLoop
  PROVE  /\ pc[r] \in Busy /\ This(r) \in ctx[r].active /\ This(r) \in Service
         /\ This(r) \notin Done(r) /\ Done(r) \subseteq ctx[r].active
         /\ DependsOn(ctx[r].c, This(r)) \cap ctx[r].active \subseteq Done(r)
<1>1. pc[r] \in Busy
  BY DEF InLoop, Busy
<1> DEFINE o == ctx[r].order
<1> HIDE DEF o
<1>2. ctx[r].active \in SUBSET Service /\ pos[r] \in 1 .. Len(o)
  BY <1>1, BusyFacts DEF IInv, o
<1>3. /\ Len(o) \in Nat
      /\ \A s \in ctx[r].active : \E i \in 1 .. Len(o) : o[i] = s
      /\ \A i \in 1 .. Len(o) : o[i] \in ctx[r].active
      /\ \A i, j \in 1 .. Len(o) : o[i] = o[j] => i = j
      /\ \A i \in 1 .. Len(o) : \A j \in i .. Len(o) : o[j] \notin DependsOn(ctx[r].c, o[i])
  BY <1>1, OrderOf DEF o
<1>4. This(r) = o[pos[r]] /\ Done(r) = {o[j] : j \in 1 .. pos[r] - 1}
  BY DEF This, Done, o
<1>5. This(r) \in ctx[r].active
  BY <1>2, <1>3, <1>4
<1>6. \A j \in 1 .. pos[r] - 1 : j \in 1 .. Len(o) /\ j # pos[r]
  BY <1>2, <1>3
<1>7. This(r) \notin Done(r) /\ Done(r) \subseteq ctx[r].active
  BY <1>2, <1>3, <1>4, <1>6
<1>8. ASSUME NEW s \in DependsOn(ctx[r].c, This(r)) \cap ctx[r].active
      PROVE  s \in Done(r)
  <2>1. PICK i \in 1 .. Len(o) : o[i] = s
    BY <1>3
  <2>2. i \in 1 .. pos[r] - 1
    BY <1>2, <1>3, <1>4, <2>1
  <2> QED BY <1>4, <2>1, <2>2
<1> QED BY <1>1, <1>2, <1>5, <1>7, <1>8

\* The three steps that change containers change that of one service, which the
\* run is working on; it becomes the run's own or goes.
LEMMA ReplacesOwn ==
  ASSUME DeployAssumption, PodmanAssumption, IInv, NamesDistinct, NEW r \in Run,
         RemoveOld(r) \/ Start(r) \/ StartFailsHalfway(r),
         NEW s \in Service
  PROVE  /\ s # This(r) => ContainerId(s)' = ContainerId(s)
         /\ s = This(r) => ContainerId(s)' = IF RemoveOld(r) THEN None ELSE r
<1>1. pc[r] \in InLoop
  BY DEF RemoveOld, Start, StartFailsHalfway, InLoop
<1>2. This(r) \in Service
  BY <1>1, AtWork
<1>3. TypeOK /\ ctr \in [Name -> Container \cup {Absent}]
  BY DEF IInv, TypeOK, EngineTypeOK
<1>4. CName[This(r)] \in Name /\ CName[s] \in Name
  BY <1>2, <1>3, IdFacts
<1>5. CASE s # This(r)
  <2>1. CName[s] # CName[This(r)]
    BY <1>2, <1>5 DEF NamesDistinct
  <2>2. ctr'[CName[s]] = ctr[CName[s]]
    BY <1>3, <1>4, <2>1 DEF RemoveOld, Start, StartFailsHalfway, StartContainer
  <2> QED BY <1>5, <2>2 DEF ContainerId
<1>6. CASE s = This(r) /\ RemoveOld(r)
  <2>1. ctr'[CName[s]] = Absent
    BY <1>3, <1>4, <1>6 DEF RemoveOld
  <2> QED BY <1>6, <2>1 DEF ContainerId
<1>7. CASE s = This(r) /\ ~ RemoveOld(r)
  <2>1. PICK st \in {"created", "running"} :
          ctr'[CName[s]] = [by |-> r, state |-> st, healthy |-> FALSE, uses |-> Uses[s]]
    BY <1>3, <1>4, <1>7 DEF Start, StartFailsHalfway, StartContainer
  <2>2. Uses[s] \in SUBSET (Net \cup Vol)
    BY DEF DeployAssumption
  <2>3. ctr'[CName[s]] \in Container /\ ctr'[CName[s]].by = r
    BY <2>1, <2>2 DEF Container
  <2> QED BY <1>7, <2>3 DEF ContainerId, PodmanAssumption
<1> QED BY <1>5, <1>6, <1>7

Replaces(r) == RemoveOld(r) \/ Start(r) \/ StartFailsHalfway(r)

\* No other step of a run touches containers.
LEMMA OnlyReplacing ==
  ASSUME NEW r \in Run, Begin(r) \/ Reject(r) \/ Step(r) \/ Kill(r), ~ Replaces(r)
  PROVE  UNCHANGED ctr
<1>1. CASE Begin(r) \/ Reject(r) \/ Kill(r)
  BY <1>1 DEF Begin, Reject, Kill, engine
<1>2. CASE \/ NetworkExists(r) \/ NetworkMissing(r) \/ CreateNetwork(r) \/ NetworksReady(r)
           \/ VolumeExists(r) \/ VolumeMissing(r) \/ CreateVolume(r) \/ VolumesReady(r)
  BY <1>2 DEF NetworkExists, NetworkMissing, CreateNetwork, NetworksReady,
              VolumeExists, VolumeMissing, CreateVolume, VolumesReady, engine
<1>3. CASE \/ Prepare(r) \/ CheckExternal(r) \/ ExternalGatePasses(r)
           \/ GatePasses(r) \/ GateFails(r)
  BY <1>3 DEF Prepare, CheckExternal, ExternalGatePasses, GatePasses, GateFails, engine
<1>4. CASE WriteReceipt(r) \/ NoReceipt(r) \/ WriteAttemptReceipt(r) \/ StepFails(r)
  BY <1>4 DEF WriteReceipt, NoReceipt, WriteAttemptReceipt, StepFails, engine
<1> QED BY <1>1, <1>2, <1>3, <1>4 DEF Step, Replaces

\* Nor does anything else change whose container a service has.
LEMMA OwnersKept ==
  ASSUME DeployAssumption, PodmanAssumption, TypeOK, [Next]_vars,
         \A r \in Run : ~ Replaces(r), NEW s \in Service
  PROVE  ContainerId(s)' = ContainerId(s)
<1>1. CASE ContainersLive
  BY <1>1, LivesKeepOwners
<1>2. CASE UNCHANGED ctr
  BY <1>2 DEF ContainerId
<1>3. ASSUME Edit \/ UNCHANGED vars
      PROVE  UNCHANGED ctr
  BY <1>3 DEF Edit, vars, engine
<1> QED BY <1>1, <1>2, <1>3, OnlyReplacing DEF Next

\* A step that changes whose container a service has is that of a busy run that
\* selected it.
LEMMA StepsInside ==
  ASSUME DeployAssumption, PodmanAssumption, NamesDistinct, IInv, [Next]_vars,
         NEW s \in Service, ContainerId(s)' # ContainerId(s)
  PROVE  \E r \in Run : pc[r] \in Busy /\ s \in ctx[r].active
<1>1. PICK r \in Run : Replaces(r)
  BY OwnersKept DEF IInv
<1>2. s = This(r)
  BY <1>1, ReplacesOwn DEF Replaces
<1>3. pc[r] \in InLoop
  BY <1>1 DEF Replaces, RemoveOld, Start, StartFailsHalfway, InLoop
<1> QED BY <1>2, <1>3, AtWork

\* A partial deploy leaves its neighbours alone: no step of any number of runs,
\* overlapping or not, creates or removes the container of a service that no busy
\* run selected.
THEOREM Confinement == NamesDistinct => (Spec => OutsideUntouched)
<1> SUFFICES ASSUME NamesDistinct PROVE Spec => OutsideUntouched
  OBVIOUS
<1>1. IInv /\ [Next]_vars =>
        [\A s \in Service : ContainerId(s)' # ContainerId(s) =>
           \E r \in Run : pc[r] \in Busy /\ s \in ctx[r].active]_vars
  BY StepsInside, DeployAssumption, PodmanAssumption
<1> QED BY <1>1, Invariance, PTL DEF Spec, OutsideUntouched

-----------------------------------------------------------------------------
\* Deploy implements Rollout.

\* What the abstract run r is while run r is at work.
LEMMA RollingFacts ==
  ASSUME DeployAssumption, NEW r \in Run, pc[r] \in Busy
  PROVE  /\ Status[r] = "rolling" /\ Rolled[r] = Done(r)
         /\ Plans[r].services = ctx[r].active
         /\ \A s \in Service : Plans[r].needs[s] = DependsOn(ctx[r].c, s) \cap ctx[r].active
<1>1. StatusOf(r) = "rolling"
  BY DEF StatusOf, Busy
<1> QED BY <1>1 DEF Status, Rolled, Plans, PlanOf

\* A step that moves no run to another abstract status, and changes neither
\* contexts, receipts, owners nor who is through, is no step of Rollout.
LEMMA Stutters ==
  ASSUME \A r \in Run : StatusOf(r)' = StatusOf(r) /\ PlanOf(r)' = PlanOf(r)
                        /\ Done(r)' = Done(r),
         \A s \in Service : ContainerId(s)' = ContainerId(s),
         receipts' = receipts
  PROVE  UNCHANGED Promise!vars
BY DEF Promise!vars, Status, Plans, Rolled, Owner, Evidence, EvidenceOf

\* An action of run r leaves the abstract state of the other runs alone.
LEMMA OthersSame ==
  ASSUME TypeOK, NEW r \in Run, Begin(r) \/ Reject(r) \/ Step(r) \/ Kill(r)
  PROVE  \A q \in Run \ {r} :
           StatusOf(q)' = StatusOf(q) /\ PlanOf(q)' = PlanOf(q) /\ Done(q)' = Done(q)
<1> SUFFICES ASSUME NEW q \in Run \ {r}
             PROVE  StatusOf(q)' = StatusOf(q) /\ PlanOf(q)' = PlanOf(q) /\ Done(q)' = Done(q)
  OBVIOUS
<1>1. pc'[q] = pc[q] /\ ctx'[q] = ctx[q] /\ pos'[q] = pos[q]
  BY Elsewhere
<1> QED BY <1>1 DEF StatusOf, PlanOf, Done

\* A command that is accepted announces its selection.
LEMMA Announces ==
  ASSUME DeployAssumption, PodmanAssumption, IInv, NEW r \in Run, Begin(r)
  PROVE  Promise!Announce(r)
<1>1. pc[r] = "idle" /\ pc'[r] = "networks" /\ pos' = pos /\ UNCHANGED <<ctr, receipts>>
  BY DEF Begin, MayBegin, IInv, TypeOK, engine
<1>2. StatusOf(r) = "idle" /\ StatusOf(r)' = "rolling" /\ Done(r)' = Done(r)
  <2>1. pos[r] = 0
    BY <1>1 DEF IInv, RunInv, Busy
  <2> QED BY <1>1, <2>1 DEF StatusOf, Done, Busy
<1>3. PlanOf(r)' \in Promise!Plan
  <2>1. TypeOK'
    BY RunStep DEF IInv
  <2>2. pc'[r] \in Busy
    BY <1>1 DEF Busy
  <2>3. ctx'[r] \in DeployContext
    BY <2>1, <2>2 DEF TypeOK
  <2>4. ctx'[r].active \in SUBSET Service
    BY <2>3 DEF DeployContext
  <2> QED BY <2>2, <2>4 DEF PlanOf, Promise!Plan
<1>4. \A q \in Run \ {r} :
        StatusOf(q)' = StatusOf(q) /\ PlanOf(q)' = PlanOf(q) /\ Done(q)' = Done(q)
  BY OthersSame DEF IInv
<1>5. Status[r] = "idle" /\ Status' = [Status EXCEPT ![r] = "rolling"]
  BY <1>2, <1>4 DEF Status
<1>6. Plans' = [Plans EXCEPT ![r] = PlanOf(r)']
  BY <1>4 DEF Plans
<1>7. UNCHANGED <<Rolled, Owner, Evidence>>
  BY <1>1, <1>2, <1>4 DEF Rolled, Owner, Evidence, EvidenceOf, ContainerId
<1> QED BY <1>3, <1>5, <1>6, <1>7 DEF Promise!Announce

\* One that is refused declines.
LEMMA Declines ==
  ASSUME DeployAssumption, IInv, NEW r \in Run, Reject(r)
  PROVE  Promise!Decline(r)
<1>1. /\ pc[r] = "idle" /\ pc'[r] = "rejected" /\ UNCHANGED <<ctr, receipts, ctx, pos>>
  BY DEF Reject, MayBegin, IInv, TypeOK, engine, locals
<1>2. /\ StatusOf(r) = "idle" /\ StatusOf(r)' = "stopped"
      /\ Done(r)' = Done(r) /\ PlanOf(r)' = PlanOf(r)
  BY <1>1 DEF StatusOf, Done, PlanOf, Busy
<1>3. \A q \in Run \ {r} :
        StatusOf(q)' = StatusOf(q) /\ PlanOf(q)' = PlanOf(q) /\ Done(q)' = Done(q)
  BY OthersSame DEF IInv
<1>4. Status[r] = "idle" /\ Status' = [Status EXCEPT ![r] = "stopped"]
  BY <1>2, <1>3 DEF Status
<1>5. UNCHANGED <<Plans, Rolled, Owner, Evidence>>
  BY <1>1, <1>2, <1>3 DEF Plans, Rolled, Owner, Evidence, EvidenceOf, ContainerId
<1> QED BY <1>4, <1>5 DEF Promise!Decline

\* The end of a run, with or without evidence.
LEMMA Leaves ==
  ASSUME DeployAssumption, IInv, NEW r \in Run, pc[r] \in Busy,
         NEW outcome \in Final \ {"rejected"}, Exit(r, outcome),
         Step(r) \/ Kill(r), UNCHANGED ctr, NEW how, NEW proof,
         how = (IF outcome = "ok" THEN "done" ELSE "stopped"),
         receipts' = receipts \/ Evidence' = [Evidence EXCEPT ![r] = proof]
  PROVE  Promise!Leave(r, how, proof)
<1>1. pc'[r] = outcome /\ pos'[r] = 0
  BY DEF Exit, IInv, TypeOK
<1>2. StatusOf(r)' = how /\ PlanOf(r)' = None /\ Done(r)' = {}
  BY <1>1 DEF StatusOf, PlanOf, Done, Final, Busy
<1>3. \A q \in Run \ {r} :
        StatusOf(q)' = StatusOf(q) /\ PlanOf(q)' = PlanOf(q) /\ Done(q)' = Done(q)
  BY OthersSame DEF IInv
<1>4. Status[r] = "rolling"
  BY RollingFacts
<1>5. /\ Status' = [Status EXCEPT ![r] = how] /\ Plans' = [Plans EXCEPT ![r] = None]
      /\ Rolled' = [Rolled EXCEPT ![r] = {}]
  BY <1>2, <1>3 DEF Status, Plans, Rolled
<1>6. UNCHANGED Owner
  BY DEF Owner, ContainerId
<1>7. Evidence' = Evidence \/ Evidence' = [Evidence EXCEPT ![r] = proof]
  BY DEF Evidence, EvidenceOf
<1> QED BY <1>4, <1>5, <1>6, <1>7 DEF Promise!Leave

\* What the receipt of run r says becomes its evidence.
LEMMA Evident ==
  ASSUME DeployAssumption, TypeOK, NEW r \in Run, NEW x \in Receipt,
         receipts' = [receipts EXCEPT ![r] = x]
  PROVE  Evidence' = [Evidence EXCEPT ![r] = x.status]
BY DEF Evidence, EvidenceOf, TypeOK, DeployAssumption

\* A run that comes to its receipt is through with all it selected.
LEMMA ThroughAtReceipt ==
  ASSUME DeployAssumption, IInv, NEW r \in Run, pc[r] = "receipt"
  PROVE  pc[r] \in Busy /\ Done(r) = ctx[r].active
<1>1. pc[r] \in Busy
  BY DEF Busy
<1> DEFINE o == ctx[r].order
<1> HIDE DEF o
<1>2. /\ Len(o) \in Nat
      /\ \A s \in ctx[r].active : \E i \in 1 .. Len(o) : o[i] = s
      /\ \A i \in 1 .. Len(o) : o[i] \in ctx[r].active
  BY <1>1, OrderOf DEF o
<1>3. pos[r] - 1 = Len(o)
  BY <1>1, <1>2 DEF IInv, RunInv, StageInv, o
<1>4. Done(r) = {o[j] : j \in 1 .. Len(o)}
  BY <1>3 DEF Done, o
<1> QED BY <1>1, <1>2, <1>4

LEMMA Completes ==
  ASSUME DeployAssumption, IInv, NEW r \in Run, WriteReceipt(r) \/ NoReceipt(r)
  PROVE  Promise!Complete(r)
<1>1. pc[r] = "receipt" /\ Exit(r, "ok") /\ UNCHANGED ctr /\ Step(r)
  BY DEF WriteReceipt, NoReceipt, Step, engine
<1>2. pc[r] \in Busy /\ Done(r) = ctx[r].active
  BY <1>1, ThroughAtReceipt
<1>3. Status[r] = "rolling" /\ Rolled[r] = Plans[r].services
  BY <1>2, RollingFacts
<1>4. receipts' = receipts \/ Evidence' = [Evidence EXCEPT ![r] = "ok"]
  <2>1. CASE NoReceipt(r)
    BY <2>1 DEF NoReceipt
  <2>2. CASE WriteReceipt(r)
    <3>1. PICK x \in Receipt : receipts' = [receipts EXCEPT ![r] = x] /\ x.status = "ok"
      BY <2>2, ReportsOk
    <3> QED BY <3>1, Evident DEF IInv
  <2> QED BY <2>1, <2>2
<1>5. "ok" \in Final \ {"rejected"}
  BY DEF Final
<1>6. Promise!Leave(r, "done", "ok")
  BY <1>1, <1>2, <1>4, <1>5, Leaves
<1> QED BY <1>3, <1>6 DEF Promise!Complete

LEMMA Abandons ==
  ASSUME DeployAssumption, IInv, NEW r \in Run,
         WriteAttemptReceipt(r) \/ StepFails(r) \/ Kill(r)
  PROVE  Promise!Abandon(r)
<1>1. pc[r] \in Busy /\ UNCHANGED ctr /\ (Step(r) \/ Kill(r))
  BY DEF WriteAttemptReceipt, StepFails, Kill, Step, engine, Busy
<1>2. PICK outcome \in {"failed", "killed"} : Exit(r, outcome)
  BY DEF WriteAttemptReceipt, StepFails, Kill
<1>3. receipts' = receipts \/ Evidence' = [Evidence EXCEPT ![r] = "failed"]
  <2>1. CASE StepFails(r) \/ Kill(r)
    BY <2>1 DEF StepFails, Kill
  <2>2. CASE WriteAttemptReceipt(r)
    <3>1. PICK x \in Receipt : receipts' = [receipts EXCEPT ![r] = x] /\ x.status = "failed"
      BY <2>2, ReportsFailure
    <3> QED BY <3>1, Evident DEF IInv
  <2> QED BY <2>1, <2>2
<1>4. outcome \in Final \ {"rejected"} /\ outcome # "ok"
  BY DEF Final
<1>5. Promise!Leave(r, "stopped", "failed")
  BY <1>1, <1>2, <1>3, <1>4, Leaves
<1> QED BY <1>5 DEF Promise!Abandon

\* The loop is through with a service when it advances.
LEMMA AdvanceDone ==
  ASSUME TypeOK, NEW r \in Run, pc[r] \in InLoop, Len(ctx[r].order) \in Nat,
         Advance(r), ctx' = ctx
  PROVE  Done(r)' = Done(r) \cup {This(r)} /\ pc'[r] \in Busy
<1>1. pos[r] \in 1 .. Len(ctx[r].order) /\ pos'[r] = pos[r] + 1 /\ pc'[r] \in Busy
  BY AdvanceType DEF TypeOK, Busy
<1>2. 1 .. pos'[r] - 1 = (1 .. pos[r] - 1) \cup {pos[r]}
  BY <1>1
<1> QED BY <1>1, <1>2 DEF Done, This

\* Removing, starting or passing a gate is work on a service that is ready for it.
LEMMA Works ==
  ASSUME DeployAssumption, PodmanAssumption, IInv, NamesDistinct, NEW r \in Run,
         Replaces(r) \/ GatePasses(r)
  PROVE  \E s \in Service : Promise!Work(r, s)
<1>1. pc[r] \in InLoop /\ ctx' = ctx /\ receipts' = receipts /\ Step(r)
  BY DEF Replaces, RemoveOld, Start, StartFailsHalfway, GatePasses, InLoop, Step, locals
<1> SUFFICES ASSUME NEW s \in Service, s = This(r)
             PROVE  Promise!Work(r, s)
  BY <1>1, AtWork
<1>2. /\ pc[r] \in Busy /\ s \in ctx[r].active /\ s \notin Done(r)
      /\ DependsOn(ctx[r].c, s) \cap ctx[r].active \subseteq Done(r)
  BY <1>1, AtWork
<1>3. TypeOK /\ Len(ctx[r].order) \in Nat
  BY <1>2, OrderNotEmpty DEF IInv
<1>4. pc'[r] \in Busy /\ (Done(r)' = Done(r) \/ Done(r)' = Done(r) \cup {s})
  <2>1. CASE Advance(r)
    BY <2>1, <1>1, <1>3, AdvanceDone
  <2>2. CASE pos' = pos /\ pc'[r] \in Busy
    BY <2>2, <1>1 DEF Done
  <2> QED BY <2>1, <2>2, <1>3
          DEF Replaces, RemoveOld, StartFailsHalfway, Start, GatePasses, Busy, locals, TypeOK
<1>5. /\ \A t \in Service \ {s} : ContainerId(t)' = ContainerId(t)
      /\ ContainerId(s)' \in {ContainerId(s), None, r}
  <2>1. CASE Replaces(r)
    <3>1. ASSUME NEW t \in Service
          PROVE  /\ t # s => ContainerId(t)' = ContainerId(t)
                 /\ t = s => ContainerId(t)' \in {None, r}
      BY <2>1, ReplacesOwn DEF Replaces
    <3> QED BY <3>1
  <2>2. CASE GatePasses(r)
    BY <2>2 DEF GatePasses, engine, ContainerId
  <2> QED BY <2>1, <2>2
<1>6. \A q \in Run \ {r} :
        StatusOf(q)' = StatusOf(q) /\ PlanOf(q)' = PlanOf(q) /\ Done(q)' = Done(q)
  BY <1>1, <1>3, OthersSame
<1>7. StatusOf(r)' = StatusOf(r) /\ PlanOf(r)' = PlanOf(r)
  BY <1>1, <1>2, <1>4 DEF StatusOf, PlanOf, Busy
<1>8. Promise!Ready(r, s)
  BY <1>2, RollingFacts DEF Promise!Ready
<1>9. UNCHANGED <<Status, Plans, Evidence>>
  BY <1>1, <1>6, <1>7 DEF Status, Plans, Evidence, EvidenceOf
<1>10. Rolled' \in {Rolled, [Rolled EXCEPT ![r] = @ \cup {s}]}
  BY <1>4, <1>6 DEF Rolled
<1>11. Owner' \in {Owner, [Owner EXCEPT ![s] = None], [Owner EXCEPT ![s] = r]}
  <2>1. \A t \in Service : Owner[t] = ContainerId(t) /\ Owner'[t] = ContainerId(t)'
    BY DEF Owner
  <2>2. DOMAIN Owner = Service /\ DOMAIN Owner' = Service
    BY DEF Owner
  <2>3. Owner = [t \in Service |-> Owner[t]] /\ Owner' = [t \in Service |-> Owner'[t]]
    BY DEF Owner
  <2> HIDE DEF Owner
  <2> QED BY <2>1, <2>2, <2>3, <1>5
<1> QED BY <1>8, <1>9, <1>10, <1>11 DEF Promise!Work

\* The steps Rollout does not see: preparations, external dependencies, a gate
\* that fails, edits, and the containers' own life.
Unseen(r) ==
  \/ NetworkExists(r) \/ NetworkMissing(r) \/ CreateNetwork(r) \/ NetworksReady(r)
  \/ VolumeExists(r) \/ VolumeMissing(r) \/ CreateVolume(r) \/ VolumesReady(r)
  \/ Prepare(r) \/ CheckExternal(r) \/ ExternalGatePasses(r) \/ GateFails(r)

LEMMA UnseenFacts ==
  ASSUME DeployAssumption, IInv, NEW r \in Run, Unseen(r)
  PROVE  /\ pc[r] \in Busy /\ pc'[r] \in Busy /\ ctx' = ctx /\ receipts' = receipts
         /\ UNCHANGED ctr /\ Done(r)' = Done(r)
<1>1. /\ pc[r] \in Busy /\ pc'[r] \in Busy /\ ctx' = ctx /\ receipts' = receipts
      /\ UNCHANGED ctr
  <2>1. CASE NetworkExists(r) \/ NetworkMissing(r) \/ CreateNetwork(r) \/ NetworksReady(r)
    BY <2>1 DEF NetworkExists, NetworkMissing, CreateNetwork, NetworksReady, engine, Busy,
                IInv, TypeOK
  <2>2. CASE VolumeExists(r) \/ VolumeMissing(r) \/ CreateVolume(r) \/ VolumesReady(r)
    BY <2>2 DEF VolumeExists, VolumeMissing, CreateVolume, VolumesReady, engine, Busy,
                IInv, TypeOK
  <2>3. CASE Prepare(r) \/ CheckExternal(r) \/ ExternalGatePasses(r) \/ GateFails(r)
    BY <2>3 DEF Prepare, CheckExternal, ExternalGatePasses, GateFails, engine, locals, Busy,
                IInv, TypeOK
  <2> QED BY <2>1, <2>2, <2>3 DEF Unseen
<1>2. Done(r)' = Done(r)
  <2>1. CASE VolumesReady(r)
    <3>1. pos[r] = 0 /\ pos'[r] = 1
      BY <2>1 DEF VolumesReady, IInv, RunInv, StageInv, Busy, TypeOK
    <3> QED BY <3>1 DEF Done
  <2>2. CASE UNCHANGED pos
    BY <2>2, <1>1 DEF Done
  <2> QED BY <2>1, <2>2
          DEF Unseen, NetworkExists, NetworkMissing, CreateNetwork, NetworksReady,
              VolumeExists, VolumeMissing, CreateVolume, Prepare, CheckExternal,
              ExternalGatePasses, GateFails, locals
<1> QED BY <1>1, <1>2

LEMMA UnseenStutters ==
  ASSUME DeployAssumption, IInv, NEW r \in Run, Unseen(r)
  PROVE  UNCHANGED Promise!vars
<1>1. /\ pc[r] \in Busy /\ pc'[r] \in Busy /\ ctx' = ctx /\ receipts' = receipts
      /\ UNCHANGED ctr /\ Done(r)' = Done(r)
  BY UnseenFacts
<1>2. Step(r)
  BY DEF Unseen, Step
<1>3. StatusOf(r)' = StatusOf(r) /\ PlanOf(r)' = PlanOf(r)
  BY <1>1 DEF StatusOf, PlanOf, Busy
<1>4. \A q \in Run \ {r} :
        StatusOf(q)' = StatusOf(q) /\ PlanOf(q)' = PlanOf(q) /\ Done(q)' = Done(q)
  BY <1>2, OthersSame DEF IInv
<1>5. \A s \in Service : ContainerId(s)' = ContainerId(s)
  BY <1>1 DEF ContainerId
<1> QED BY <1>1, <1>3, <1>4, <1>5, Stutters

LEMMA SurroundingsStutter ==
  ASSUME DeployAssumption, PodmanAssumption, TypeOK, Edit \/ ContainersLive \/ UNCHANGED vars
  PROVE  UNCHANGED Promise!vars
<1>1. pc' = pc /\ ctx' = ctx /\ pos' = pos /\ receipts' = receipts
  BY DEF Edit, ContainersLive, vars, locals
<1>2. \A s \in Service : ContainerId(s)' = ContainerId(s)
  <2>1. CASE ContainersLive
    BY <2>1, LivesKeepOwners
  <2>2. CASE Edit \/ UNCHANGED vars
    BY <2>2 DEF Edit, vars, engine, ContainerId
  <2> QED BY <2>1, <2>2
<1>3. \A r \in Run :
        StatusOf(r)' = StatusOf(r) /\ PlanOf(r)' = PlanOf(r) /\ Done(r)' = Done(r)
  BY <1>1 DEF StatusOf, PlanOf, Done
<1> QED BY <1>1, <1>2, <1>3, Stutters

LEMMA StepImplements ==
  ASSUME DeployAssumption, PodmanAssumption, IInv, NamesDistinct, [Next]_vars
  PROVE  [Promise!Next]_(Promise!vars)
<1>1. CASE Edit \/ ContainersLive \/ UNCHANGED vars
  BY <1>1, SurroundingsStutter DEF IInv
<1>2. ASSUME NEW r \in Run, Begin(r) \/ Reject(r) \/ Step(r) \/ Kill(r)
      PROVE  [Promise!Next]_(Promise!vars)
  <2>1. CASE Begin(r)
    BY <2>1, Announces DEF Promise!Next
  <2>2. CASE Reject(r)
    BY <2>2, Declines DEF Promise!Next
  <2>3. CASE Unseen(r)
    BY <2>3, UnseenStutters
  <2>4. CASE Replaces(r) \/ GatePasses(r)
    BY <2>4, Works DEF Promise!Next
  <2>5. CASE WriteReceipt(r) \/ NoReceipt(r)
    BY <2>5, Completes DEF Promise!Next
  <2>6. CASE WriteAttemptReceipt(r) \/ StepFails(r) \/ Kill(r)
    BY <2>6, Abandons DEF Promise!Next
  <2> QED BY <1>2, <2>1, <2>2, <2>3, <2>4, <2>5, <2>6 DEF Step, Unseen, Replaces
<1> QED BY <1>1, <1>2 DEF Next

LEMMA InitImplements ==
  ASSUME DeployAssumption, Init
  PROVE  Promise!Init
<1>1. \A r \in Run : StatusOf(r) = "idle" /\ PlanOf(r) = None /\ Done(r) = {} /\ EvidenceOf(r) = None
  BY DEF Init, StatusOf, PlanOf, Done, EvidenceOf, Busy
<1>2. \A s \in Service : ContainerId(s) = None
  BY DEF Init, EngineInit, ContainerId, DeployAssumption
<1> QED BY <1>1, <1>2 DEF Promise!Init, Status, Plans, Rolled, Owner, Evidence

\* Deploy implements Rollout, for any contracts, number of runs and interleaving:
\* who owns a container changes only at the hands of a run that planned its
\* service and is through with all it needs, a run completes only when it is
\* through with its whole plan, and only the end of a run leaves evidence.
THEOREM Refinement == NamesDistinct => (Spec => KeepsPromise)
<1> SUFFICES ASSUME NamesDistinct PROVE Spec => KeepsPromise
  OBVIOUS
<1>1. Init => Promise!Init
  BY InitImplements, DeployAssumption
<1>2. IInv /\ [Next]_vars => [Promise!Next]_(Promise!vars)
  BY StepImplements, DeployAssumption, PodmanAssumption
<1> QED BY <1>1, <1>2, Invariance, PTL DEF Spec, KeepsPromise, Promise!Spec

-----------------------------------------------------------------------------
\* What the abstract specification is for: a consequence of it, carried over to
\* deploy by the refinement.

RolloutInv ==
  /\ Status \in [Run -> {"idle", "rolling", "done", "stopped"}]
  /\ Plans \in [Run -> Promise!Plan \cup {None}]
  /\ Rolled \in [Run -> SUBSET Service]
  /\ \A r \in Run : Status[r] = "rolling" => Plans[r] \in Promise!Plan
  /\ \A r \in Run : Status[r] # "rolling" => Rolled[r] = {}
  /\ Promise!ClosedUnderNeeds

\* The run a step is about keeps the invariant, and nothing changes for the others.
LEMMA RolloutStep ==
  ASSUME RolloutInv, [Promise!Next]_(Promise!vars)
  PROVE  RolloutInv'
<1> USE DEF RolloutInv, Promise!ClosedUnderNeeds
<1>1. CASE UNCHANGED Promise!vars
  BY <1>1 DEF Promise!vars
<1>2. ASSUME NEW r \in Run, Promise!Announce(r) PROVE RolloutInv'
  <2>1. PICK p \in Promise!Plan : Plans' = [Plans EXCEPT ![r] = p]
    BY <1>2 DEF Promise!Announce
  <2>2. /\ Status[r] = "idle" /\ Status' = [Status EXCEPT ![r] = "rolling"]
        /\ Rolled' = Rolled /\ Rolled[r] = {}
    BY <1>2 DEF Promise!Announce
  <2> QED BY <2>1, <2>2
<1>3. ASSUME NEW r \in Run, Promise!Decline(r) PROVE RolloutInv'
  BY <1>3 DEF Promise!Decline
<1>4. ASSUME NEW r \in Run, NEW how \in {"done", "stopped"}, NEW proof,
             Promise!Leave(r, how, proof)
      PROVE  RolloutInv'
  BY <1>4 DEF Promise!Leave
<1>5. ASSUME NEW r \in Run, NEW s \in Service, Promise!Work(r, s) PROVE RolloutInv'
  <2>1. /\ Status' = Status /\ Plans' = Plans /\ Status[r] = "rolling"
        /\ s \in Plans[r].services /\ Plans[r].needs[s] \subseteq Rolled[r]
    BY <1>5 DEF Promise!Work, Promise!Ready
  <2>2. CASE Rolled' = Rolled
    BY <2>1, <2>2
  <2>3. CASE Rolled' = [Rolled EXCEPT ![r] = @ \cup {s}]
    <3>1. /\ Rolled' \in [Run -> SUBSET Service]
          /\ Rolled'[r] = Rolled[r] \cup {s}
          /\ \A q \in Run \ {r} : Rolled'[q] = Rolled[q]
      BY <2>3
    <3>2. ASSUME NEW q \in Run, Status[q] = "rolling"
          PROVE  /\ Rolled'[q] \subseteq Plans[q].services
                 /\ \A z \in Rolled'[q] : Plans[q].needs[z] \subseteq Rolled'[q]
      BY <3>1, <3>2, <2>1
    <3> QED BY <2>1, <3>1, <3>2
  <2> QED BY <2>2, <2>3, <1>5 DEF Promise!Work
<1> QED BY <1>1, <1>2, <1>3, <1>4, <1>5 DEF Promise!Next, Promise!Complete, Promise!Abandon

\* Wherever a deploy stops, is killed or fails, what it has rolled out is closed
\* under what the services need of one another (deployServicesInOrder stops at the
\* first error, and nothing is undone).
THEOREM RolledOutIsClosed == NamesDistinct => (Spec => []Promise!ClosedUnderNeeds)
<1> SUFFICES ASSUME NamesDistinct PROVE Spec => []Promise!ClosedUnderNeeds
  OBVIOUS
<1>1. Promise!Init => RolloutInv
  BY DEF Promise!Init, RolloutInv, Promise!ClosedUnderNeeds
<1>2. RolloutInv /\ [Promise!Next]_(Promise!vars) => RolloutInv'
  BY RolloutStep
<1>3. RolloutInv => Promise!ClosedUnderNeeds
  BY DEF RolloutInv
<1>4. Spec => Promise!Spec
  BY Refinement DEF KeepsPromise
<1> QED BY <1>1, <1>2, <1>3, <1>4, PTL DEF Promise!Spec

-----------------------------------------------------------------------------
\* The truth of receipts.

\* How far along its order run r has started containers: up to its position, the
\* service there included once it was started.
Started(r) ==
  \/ pc[r] \in {"broken", "gate"}
  \/ pc[r] = "attempt" /\ cur[r] = None

\* Run r has no container of a service whose turn has not come.
NotYet(r) ==
  /\ pc[r] = "idle" => \A s \in Service : ContainerId(s) # r
  /\ pc[r] \in Busy => \A s \in ctx[r].active \ Done(r) :
                         ContainerId(s) = r => Started(r) /\ s = This(r)

\* Run r has the containers of all the services it is through with, and of the one
\* it has just started.
Owned(r) ==
  pc[r] \in Busy =>
    /\ \A s \in Done(r) : ContainerId(s) = r
    /\ Started(r) => ContainerId(This(r)) = r

OneAtATime == \A p, q \in Run : pc[p] \in Busy /\ pc[q] \in Busy => p = q

TruthInv ==
  /\ OneAtATime
  /\ \A r \in Run : NotYet(r) /\ Owned(r)
  /\ OkReceiptTruthful
  /\ AttemptReceiptTruthful

\* Only a busy run takes a step.
LEMMA ActsBusy ==
  ASSUME NEW r \in Run, Step(r) \/ Kill(r)
  PROVE  pc[r] \in Busy
<1>1. CASE Unseen(r)
  BY <1>1 DEF Unseen, NetworkExists, NetworkMissing, CreateNetwork, NetworksReady,
              VolumeExists, VolumeMissing, CreateVolume, VolumesReady, Prepare,
              CheckExternal, ExternalGatePasses, GateFails, Busy
<1>2. CASE Replaces(r) \/ GatePasses(r)
  BY <1>2 DEF Replaces, RemoveOld, Start, StartFailsHalfway, GatePasses, Busy
<1>3. CASE WriteReceipt(r) \/ NoReceipt(r) \/ WriteAttemptReceipt(r) \/ StepFails(r) \/ Kill(r)
  BY <1>3 DEF WriteReceipt, NoReceipt, WriteAttemptReceipt, StepFails, Kill, Busy
<1> QED BY <1>1, <1>2, <1>3 DEF Step, Unseen, Replaces

\* A busy run was busy before, unless it has just begun.
LEMMA BusyBefore ==
  ASSUME DeployAssumption, IInv, [Next]_vars, NEW r \in Run, pc'[r] \in Busy
  PROVE  pc[r] \in Busy \/ Begin(r)
<1>1. CASE Edit \/ ContainersLive \/ UNCHANGED vars
  BY <1>1 DEF Edit, ContainersLive, vars
<1>2. ASSUME NEW q \in Run, q # r, Begin(q) \/ Reject(q) \/ Step(q) \/ Kill(q)
      PROVE  pc[r] \in Busy
  BY <1>2, Elsewhere DEF IInv
<1>3. CASE Reject(r)
  BY <1>3 DEF Reject, IInv, TypeOK, Busy
<1> QED BY <1>1, <1>2, <1>3, ActsBusy DEF Next

\* Where runs do not overlap, at most one is busy.
LEMMA OneStays ==
  ASSUME DeployAssumption, IInv, ~ Overlap, OneAtATime, [Next]_vars
  PROVE  OneAtATime'
<1> SUFFICES ASSUME NEW p \in Run, NEW q \in Run, pc'[p] \in Busy, pc'[q] \in Busy, p # q
             PROVE  FALSE
  BY DEF OneAtATime
<1>1. /\ pc[p] \in Busy \/ Begin(p)
      /\ pc[q] \in Busy \/ Begin(q)
  BY BusyBefore
<1>2. \A r \in Run : Begin(r) => \A o \in Run : pc[o] \notin Busy
  BY DEF Begin, MayBegin
<1>3. Begin(p) => pc'[q] = pc[q]
  BY Elsewhere DEF IInv
<1>4. Begin(q) => pc'[p] = pc[p]
  BY Elsewhere DEF IInv
<1> QED BY <1>1, <1>2, <1>3, <1>4 DEF OneAtATime

\* The steps of another run.
LEMMA TruthOfOthers ==
  ASSUME DeployAssumption, PodmanAssumption, IInv, NamesDistinct, ~ Overlap, OneAtATime,
         NEW q \in Run, Begin(q) \/ Reject(q) \/ Step(q) \/ Kill(q),
         NEW r \in Run \ {q}, NotYet(r), Owned(r)
  PROVE  NotYet(r)' /\ Owned(r)'
<1>1. pc'[r] = pc[r] /\ ctx'[r] = ctx[r] /\ pos'[r] = pos[r] /\ cur'[r] = cur[r]
  BY Elsewhere DEF IInv
<1>2. (Started(r)' <=> Started(r)) /\ This(r)' = This(r) /\ Done(r)' = Done(r)
  BY <1>1 DEF Started, This, Done
<1>3. [Next]_vars
  BY DEF Next
<1>4. ASSUME NEW s \in Service, ContainerId(s)' = r
      PROVE  ContainerId(s) = r
  <2>1. CASE Replaces(q)
    BY <2>1, <1>4, ReplacesOwn, IdFacts DEF Replaces, IInv
  <2>2. CASE ~ Replaces(q)
    <3>1. CASE UNCHANGED ctr
      BY <3>1, <1>4 DEF ContainerId
    <3> QED BY <3>1, <2>2, OnlyReplacing
  <2> QED BY <2>1, <2>2
<1>5. NotYet(r)'
  <2>1. pc[r] \in Busy => ctx[r].active \in SUBSET Service
    BY BusyFacts DEF IInv
  <2> QED BY <2>1, <1>1, <1>2, <1>4 DEF NotYet
<1>6. Owned(r)'
  <2>1. SUFFICES ASSUME pc[r] \in Busy
                 PROVE  UNCHANGED ctr
    BY <1>1, <1>2 DEF Owned, ContainerId
  <2>2. pc[q] \notin Busy /\ ~ Begin(q)
    BY <2>1 DEF OneAtATime, Begin, MayBegin
  <2>3. ~ Step(q) /\ ~ Kill(q)
    BY <2>2, ActsBusy
  <2> QED BY <2>2, <2>3 DEF Reject, engine
<1> QED BY <1>5, <1>6

\* A run has begun something only inside its loop, or after its own gate failed.
LEMMA UnseenStarted ==
  ASSUME DeployAssumption, IInv, NEW r \in Run, Unseen(r)
  PROVE  /\ Started(r)' <=> Started(r)
         /\ Started(r) => This(r)' = This(r)
<1>1. CASE Unseen(r) /\ ~ GateFails(r)
  <2>1. pc[r] \in {"networks", "newnet", "volumes", "newvol", "prepare", "external", "extgate"}
    BY <1>1 DEF Unseen, NetworkExists, NetworkMissing, CreateNetwork, NetworksReady,
                VolumeExists, VolumeMissing, CreateVolume, VolumesReady, Prepare,
                CheckExternal, ExternalGatePasses
  <2>2. pc'[r] \in {"networks", "newnet", "volumes", "newvol", "prepare", "external", "extgate"}
    <3>1. CASE NetworkExists(r) \/ NetworkMissing(r) \/ CreateNetwork(r) \/ NetworksReady(r)
      BY <3>1 DEF NetworkExists, NetworkMissing, CreateNetwork, NetworksReady, IInv, TypeOK
    <3>2. CASE VolumeExists(r) \/ VolumeMissing(r) \/ CreateVolume(r) \/ VolumesReady(r)
      BY <3>2 DEF VolumeExists, VolumeMissing, CreateVolume, VolumesReady, IInv, TypeOK
    <3>3. CASE Prepare(r) \/ CheckExternal(r) \/ ExternalGatePasses(r)
      BY <3>3 DEF Prepare, CheckExternal, ExternalGatePasses, IInv, TypeOK
    <3> QED BY <1>1, <3>1, <3>2, <3>3 DEF Unseen
  <2> QED BY <2>1, <2>2 DEF Started
<1>2. CASE GateFails(r)
  <2>1. /\ pc[r] \in {"extgate", "gate"} /\ pc'[r] = "attempt" /\ cur'[r] = cur[r]
        /\ This(r)' = This(r)
    BY <1>2 DEF GateFails, locals, This, IInv, TypeOK
  <2>2. pc[r] \in Busy /\ pc[r] \in InLoop
    BY <2>1 DEF Busy, InLoop
  <2>3. pc[r] = "gate" => cur[r] = None
    BY <2>2 DEF IInv, RunInv, StageInv
  <2>4. pc[r] = "extgate" => cur[r] \in Dependency(Service)
    BY <2>2, BusyFacts DEF IInv, RunInv, StageInv
  <2> QED BY <2>1, <2>3, <2>4 DEF Started, DeployAssumption
<1> QED BY <1>1, <1>2

\* What a run is through with, and what it has just started, it selected.
LEMMA DoneType ==
  ASSUME DeployAssumption, IInv, NEW r \in Run, pc[r] \in Busy
  PROVE  /\ Done(r) \subseteq ctx[r].active /\ ctx[r].active \subseteq Service
         /\ Started(r) => This(r) \in ctx[r].active /\ This(r) \notin Done(r)
<1> DEFINE o == ctx[r].order
<1> HIDE DEF o
<1>1. /\ Len(o) \in Nat
      /\ \A i \in 1 .. Len(o) : o[i] \in ctx[r].active
      /\ \A i, j \in 1 .. Len(o) : o[i] = o[j] => i = j
  BY OrderOf DEF o
<1>2. pos[r] \in Nat /\ pos[r] <= Len(o) + 1
  BY DEF IInv, RunInv, LoopInv, TypeOK, o
<1>3. Started(r) => pos[r] \in 1 .. Len(o)
  BY DEF Started, IInv, RunInv, StageInv, TypeOK, InLoop, o
<1>4. Done(r) = {o[j] : j \in 1 .. pos[r] - 1} /\ This(r) = o[pos[r]]
  BY DEF Done, This, o
<1>5. \A j \in 1 .. pos[r] - 1 : j \in 1 .. Len(o) /\ j # pos[r]
  BY <1>1, <1>2
<1>6. Done(r) \subseteq ctx[r].active
  BY <1>1, <1>4, <1>5
<1>7. Started(r) => This(r) \in ctx[r].active /\ This(r) \notin Done(r)
  BY <1>1, <1>3, <1>4, <1>5
<1>8. ctx[r].active \subseteq Service
  BY BusyFacts DEF IInv
<1> QED BY <1>6, <1>7, <1>8

\* A run's own steps.
LEMMA TruthOfOwn ==
  ASSUME DeployAssumption, PodmanAssumption, IInv, NamesDistinct,
         NEW r \in Run, Begin(r) \/ Reject(r) \/ Step(r) \/ Kill(r), NotYet(r), Owned(r)
  PROVE  NotYet(r)' /\ Owned(r)'
<1>1. TypeOK /\ TypeOK'
  BY RunStep DEF IInv
<1>2. ASSUME NEW outcome \in Final, Exit(r, outcome)
      PROVE  NotYet(r)' /\ Owned(r)'
  <2>1. pc'[r] = outcome
    BY <1>1, <1>2 DEF Exit, TypeOK
  <2> QED BY <2>1 DEF NotYet, Owned, Final, Busy
<1>3. CASE Begin(r)
  <2>1. /\ pc[r] = "idle" /\ pc'[r] = "networks" /\ pos' = pos
        /\ UNCHANGED ctr
    BY <1>1, <1>3 DEF Begin, MayBegin, TypeOK, engine
  <2>2. pos[r] = 0
    BY <2>1 DEF IInv, RunInv, Busy
  <2>3. Done(r)' = {} /\ ~ Started(r)'
    BY <2>1, <2>2 DEF Done, Started
  <2>4. \A s \in Service : ContainerId(s)' # r
    BY <2>1 DEF NotYet, ContainerId
  <2>5. ctx'[r] \in DeployContext
    BY <1>1, <2>1 DEF TypeOK, Busy
  <2>6. ctx'[r].active \in SUBSET Service
    BY <2>5 DEF DeployContext
  <2> QED BY <2>1, <2>3, <2>4, <2>6 DEF NotYet, Owned
<1>4. CASE Reject(r)
  <2>1. pc'[r] = "rejected"
    BY <1>1, <1>4 DEF Reject, TypeOK
  <2> QED BY <2>1 DEF NotYet, Owned, Busy
<1>5. CASE WriteReceipt(r) \/ NoReceipt(r) \/ WriteAttemptReceipt(r) \/ StepFails(r) \/ Kill(r)
  <2>1. PICK outcome \in Final : Exit(r, outcome)
    BY <1>5 DEF WriteReceipt, NoReceipt, WriteAttemptReceipt, StepFails, Kill, Final
  <2> QED BY <2>1, <1>2
<1>6. CASE Unseen(r)
  <2>1. pc[r] \in Busy /\ Done(r)' = Done(r) /\ UNCHANGED ctr /\ ctx'[r] = ctx[r]
    BY <1>6, UnseenFacts
  <2>2. (Started(r)' <=> Started(r)) /\ (Started(r) => This(r)' = This(r))
    BY <1>6, UnseenStarted
  <2>3. \A s \in Service : ContainerId(s)' = ContainerId(s)
    BY <2>1 DEF ContainerId
  <2>4. Started(r) => ContainerId(This(r))' = ContainerId(This(r))
    BY <2>1, <2>2 DEF ContainerId
  <2>5. Done(r) \subseteq Service /\ ctx[r].active \subseteq Service
    BY <2>1, DoneType
  <2>6. pc'[r] \in Busy /\ pc'[r] # "idle"
    BY <1>6, UnseenFacts DEF Busy
  <2>7. NotYet(r)'
    BY <2>1, <2>2, <2>3, <2>5, <2>6 DEF NotYet
  <2>8. Owned(r)'
    BY <2>1, <2>2, <2>3, <2>4, <2>5, <2>6 DEF Owned
  <2> QED BY <2>7, <2>8
<1>7. CASE Replaces(r) \/ GatePasses(r)
  <2>1. /\ pc[r] \in InLoop /\ pc[r] \in Busy /\ ctx' = ctx /\ cur' = cur
        /\ ctx[r].active \in SUBSET Service /\ Len(ctx[r].order) \in Nat
    <3>1. pc[r] \in InLoop /\ ctx' = ctx /\ cur' = cur
      BY <1>7 DEF Replaces, RemoveOld, Start, StartFailsHalfway, GatePasses, InLoop, locals
    <3>2. pc[r] \in Busy
      BY <3>1, AtWork
    <3> QED BY <3>1, <3>2, BusyFacts, OrderNotEmpty DEF IInv
  <2>2. /\ This(r) \in ctx[r].active /\ This(r) \in Service /\ This(r) \notin Done(r)
        /\ Done(r) \subseteq ctx[r].active
    BY <2>1, AtWork
  <2> SUFFICES ASSUME NEW this, this = This(r)
               PROVE  NotYet(r)' /\ Owned(r)'
    OBVIOUS
  <2>3. \/ /\ RemoveOld(r)
           /\ ContainerId(this)' = None
           /\ Done(r)' = Done(r) /\ ~ Started(r) /\ ~ Started(r)'
        \/ /\ ContainerId(this)' = r
           /\ Done(r)' = Done(r) /\ ~ Started(r) /\ Started(r)' /\ This(r)' = this
        \/ /\ ContainerId(this)' = r
           /\ Done(r)' = Done(r) \cup {this} /\ ~ Started(r)'
    <3>1. CASE RemoveOld(r)
      <4>1. ContainerId(this)' = None
        BY <2>2, <3>1, ReplacesOwn
      <4>2. pc[r] = "external" /\ pc'[r] = "start" /\ pos' = pos
        BY <1>1, <3>1 DEF RemoveOld, TypeOK, locals
      <4> QED BY <2>1, <3>1, <4>1, <4>2 DEF Done, Started
    <3>2. CASE Start(r) \/ StartFailsHalfway(r)
      <4>1. ContainerId(this)' = r /\ ~ Started(r)
        BY <2>2, <3>2, ReplacesOwn DEF Start, StartFailsHalfway, RemoveOld, Started
      <4>2. CASE Advance(r)
        <5>1. Done(r)' = Done(r) \cup {this} /\ pc'[r] \in {"prepare", "receipt"}
          BY <1>1, <2>1, <4>2, AdvanceDone, AdvanceType DEF TypeOK
        <5> QED BY <4>1, <5>1 DEF Started
      <4>3. CASE pos' = pos /\ pc'[r] \in {"broken", "gate"}
        BY <2>1, <4>1, <4>3 DEF Done, This, Started
      <4> QED BY <1>1, <3>2, <4>2, <4>3 DEF Start, StartFailsHalfway, locals, TypeOK
    <3>3. CASE GatePasses(r)
      <4>1. Done(r)' = Done(r) \cup {this} /\ pc'[r] \in {"prepare", "receipt"}
        BY <1>1, <2>1, <3>3, AdvanceDone, AdvanceType DEF TypeOK, GatePasses
      <4>2. ContainerId(this)' = r
        BY <2>1, <3>3 DEF GatePasses, Owned, Started, engine, ContainerId
      <4> QED BY <4>1, <4>2 DEF Started
    <3> QED BY <1>7, <3>1, <3>2, <3>3 DEF Replaces
  <2>4. \A s \in Service \ {this} : ContainerId(s)' = ContainerId(s)
    <3>1. CASE Replaces(r)
      BY <3>1, ReplacesOwn DEF Replaces
    <3>2. CASE GatePasses(r)
      BY <3>2 DEF GatePasses, engine, ContainerId
    <3> QED BY <1>7, <3>1, <3>2
  <2>5. pc'[r] \in Busy /\ pc'[r] # "idle"
    <3>1. CASE Advance(r)
      BY <1>1, <2>1, <3>1, AdvanceType DEF TypeOK, Busy
    <3>2. CASE ~ Advance(r)
      BY <1>1, <1>7, <3>2
         DEF Replaces, RemoveOld, Start, StartFailsHalfway, GatePasses, TypeOK, Busy, locals
    <3> QED BY <3>1, <3>2
  <2>6. NotYet(r)'
    BY <2>1, <2>2, <2>3, <2>4, <2>5 DEF NotYet, DeployAssumption
  <2>7. Owned(r)'
    BY <2>1, <2>2, <2>3, <2>4, <2>5 DEF Owned
  <2> QED BY <2>6, <2>7
<1> QED BY <1>3, <1>4, <1>5, <1>6, <1>7 DEF Step, Unseen, Replaces

\* Only the two writing steps leave receipts.
LEMMA ReceiptsKept ==
  ASSUME [Next]_vars, \A r \in Run : ~ WriteReceipt(r) /\ ~ WriteAttemptReceipt(r)
  PROVE  receipts' = receipts
<1>1. ASSUME NEW r \in Run, Begin(r) \/ Reject(r) \/ Kill(r)
      PROVE  receipts' = receipts
  BY <1>1 DEF Begin, Reject, Kill
<1>2. ASSUME NEW r \in Run, Step(r)
      PROVE  receipts' = receipts
  <2>1. CASE \/ NetworkExists(r) \/ NetworkMissing(r) \/ CreateNetwork(r) \/ NetworksReady(r)
             \/ VolumeExists(r) \/ VolumeMissing(r) \/ CreateVolume(r) \/ VolumesReady(r)
    BY <2>1 DEF NetworkExists, NetworkMissing, CreateNetwork, NetworksReady,
                VolumeExists, VolumeMissing, CreateVolume, VolumesReady
  <2>2. CASE \/ Prepare(r) \/ CheckExternal(r) \/ ExternalGatePasses(r)
             \/ RemoveOld(r) \/ Start(r) \/ StartFailsHalfway(r)
    BY <2>2 DEF Prepare, CheckExternal, ExternalGatePasses, RemoveOld, Start, StartFailsHalfway
  <2>3. CASE GatePasses(r) \/ GateFails(r) \/ NoReceipt(r) \/ StepFails(r)
    BY <2>3 DEF GatePasses, GateFails, NoReceipt, StepFails
  <2> QED BY <1>2, <2>1, <2>2, <2>3 DEF Step
<1>3. CASE Edit \/ ContainersLive \/ UNCHANGED vars
  BY <1>3 DEF Edit, ContainersLive, vars
<1> QED BY <1>1, <1>2, <1>3 DEF Next

\* The receipt of a successful run names the run's own containers.
LEMMA OkIsTrue ==
  ASSUME DeployAssumption, IInv, TruthInv, NEW r \in Run, WriteReceipt(r)
  PROVE  OkReceiptTruthful' /\ AttemptReceiptTruthful'
<1>1. PICK x \in Receipt :
        /\ receipts' = [receipts EXCEPT ![r] = x]
        /\ x.status = "ok" /\ x.ids = [s \in ctx[r].active |-> ContainerId(s)]
  BY ReportsOk
<1>2. pc[r] = "receipt" /\ pc[r] \in Busy /\ Done(r) = ctx[r].active
  BY ThroughAtReceipt DEF WriteReceipt
<1>3. ctx[r].active # {}
  BY <1>2 DEF IInv, RunInv, Prepared, Preflight
<1>4. \A s \in ctx[r].active : ContainerId(s) = r
  BY <1>2 DEF TruthInv, Owned
<1>5. DOMAIN x.ids = ctx[r].active /\ \A s \in DOMAIN x.ids : x.ids[s] = r
  BY <1>1, <1>4
<1>6. receipts'[r] = x /\ \A q \in Run \ {r} : receipts'[q] = receipts[q]
  BY <1>1 DEF IInv, TypeOK
<1>7. OkReceiptTruthful'
  BY <1>3, <1>5, <1>6 DEF TruthInv, OkReceiptTruthful
<1>8. AttemptReceiptTruthful'
  BY <1>1, <1>6 DEF TruthInv, AttemptReceiptTruthful
<1> QED BY <1>7, <1>8

\* That of a failed one tells how far it got.
LEMMA AttemptIsTrue ==
  ASSUME DeployAssumption, IInv, TruthInv, NEW r \in Run, WriteAttemptReceipt(r)
  PROVE  OkReceiptTruthful' /\ AttemptReceiptTruthful'
<1>1. PICK x \in Receipt :
        /\ receipts' = [receipts EXCEPT ![r] = x]
        /\ x.status = "failed" /\ x.failure = FailureSummary(r)
        /\ x.deployed = ctx[r].c
        /\ x.ids = [s \in ctx[r].active |-> IF AllPresent(r) THEN ContainerId(s) ELSE None]
  BY ReportsFailure
<1>2. pc[r] = "attempt" /\ pc[r] \in Busy
  BY DEF WriteAttemptReceipt, Busy
<1>3. /\ cur[r] \in ExternalDeps(ctx[r], This(r)) \cup {None}
      /\ pos[r] \in 1 .. Len(ctx[r].order)
  BY <1>2 DEF IInv, RunInv, StageInv
<1>4. DOMAIN x.ids = ctx[r].active /\ \A s \in ctx[r].active : x.ids[s] \in {ContainerId(s), None}
  BY <1>1
<1>5. /\ cur[r] # None => /\ x.failure.externalDep
                          /\ x.failure.service = cur[r].service
                          /\ x.failure.requestedBy = This(r)
      /\ cur[r] = None => ~ x.failure.externalDep /\ x.failure.service = This(r)
  <2>1. CASE cur[r] # None
    <3>1. FailureSummary(r) = [service |-> cur[r].service, externalDep |-> TRUE,
                               requestedBy |-> This(r)]
      BY <2>1 DEF FailureSummary
    <3> QED BY <1>1, <2>1, <3>1
  <2>2. CASE cur[r] = None
    <3>1. FailureSummary(r) = [service |-> This(r), externalDep |-> FALSE,
                               requestedBy |-> None]
      BY <2>2 DEF FailureSummary
    <3> QED BY <1>1, <2>2, <3>1
  <2> QED BY <2>1, <2>2
<1> DEFINE o == ctx[r].order
<1> HIDE DEF o
<1>6. /\ Len(o) \in Nat
      /\ \A s \in ctx[r].active : \E i \in 1 .. Len(o) : o[i] = s
      /\ \A i \in 1 .. Len(o) : o[i] \in ctx[r].active
      /\ \A i, j \in 1 .. Len(o) : o[i] = o[j] => i = j
      /\ \A i \in 1 .. Len(o) : \A j \in i .. Len(o) : o[j] \notin DependsOn(ctx[r].c, o[i])
  BY <1>2, OrderOf DEF o
<1>7. This(r) = o[pos[r]] /\ Done(r) = {o[j] : j \in 1 .. pos[r] - 1} /\ pos[r] \in 1 .. Len(o)
  BY <1>3 DEF This, Done, o
<1>8. This(r) \in ctx[r].active /\ This(r) \notin Done(r)
  BY <1>6, <1>7
<1>9. \A s \in ctx[r].active \ Done(r) : ContainerId(s) = r => cur[r] = None /\ s = This(r)
  BY <1>2 DEF TruthInv, NotYet, Started
<1>10. None # r
  BY DEF DeployAssumption
<1>11. ASSUME cur[r] # None
       PROVE  x.failure.service \notin DOMAIN x.ids /\ x.ids[x.failure.requestedBy] # r
  BY <1>3, <1>4, <1>5, <1>8, <1>9, <1>10, <1>11 DEF ExternalDeps
<1>12. ASSUME cur[r] = None
       PROVE  /\ x.ids[x.failure.service] \in {r, None}
              /\ \A s \in DOMAIN x.ids :
                   x.failure.service \in DependsOn(x.deployed, s) => x.ids[s] # r
  <2>1. ContainerId(This(r)) = r
    BY <1>2, <1>12 DEF TruthInv, Owned, Started
  <2>2. x.ids[x.failure.service] \in {r, None}
    BY <1>4, <1>5, <1>8, <1>12, <2>1
  <2>3. ASSUME NEW s \in ctx[r].active, This(r) \in DependsOn(ctx[r].c, s)
        PROVE  x.ids[s] # r
    <3>1. PICK k \in 1 .. Len(o) : o[k] = s
      BY <1>6
    <3>2. pos[r] < k
      BY <1>6, <1>7, <2>3, <3>1
    <3>3. \A j \in 1 .. pos[r] : j \in 1 .. Len(o) /\ j # k
      BY <1>6, <1>7, <3>2
    <3>4. \A j \in 1 .. pos[r] : o[j] # s
      BY <1>6, <3>1, <3>3
    <3>5. pos[r] \in 1 .. pos[r] /\ \A j \in 1 .. pos[r] - 1 : j \in 1 .. pos[r]
      BY <1>7
    <3>6. s \notin Done(r) /\ s # This(r)
      BY <1>7, <3>4, <3>5
    <3> QED BY <1>4, <1>9, <1>10, <3>6
  <2> QED BY <1>1, <1>4, <1>5, <1>12, <2>2, <2>3
<1>13. receipts'[r] = x /\ \A q \in Run \ {r} : receipts'[q] = receipts[q]
  BY <1>1 DEF IInv, TypeOK
<1>14. OkReceiptTruthful'
  BY <1>1, <1>13 DEF TruthInv, OkReceiptTruthful
<1>15. AttemptReceiptTruthful'
  <2> SUFFICES ASSUME NEW q \in Run, receipts'[q] # None, receipts'[q].status = "failed"
               PROVE  LET f   == receipts'[q].failure
                          ids == receipts'[q].ids
                      IN  IF f.externalDep
                          THEN f.service \notin DOMAIN ids /\ ids[f.requestedBy] # q
                          ELSE /\ ids[f.service] \in {q, None}
                               /\ \A s \in DOMAIN ids :
                                    f.service \in DependsOn(receipts'[q].deployed, s) =>
                                      ids[s] # q
    BY DEF AttemptReceiptTruthful
  <2>1. CASE q # r
    BY <1>13, <2>1 DEF TruthInv, AttemptReceiptTruthful
  <2>2. CASE q = r /\ cur[r] # None
    BY <1>5, <1>11, <1>13, <2>2
  <2>3. CASE q = r /\ cur[r] = None
    BY <1>5, <1>12, <1>13, <2>3
  <2> QED BY <2>1, <2>2, <2>3
<1> QED BY <1>14, <1>15

LEMMA TruthStep ==
  ASSUME DeployAssumption, PodmanAssumption, NamesDistinct, ~ Overlap,
         IInv, TruthInv, [Next]_vars
  PROVE  TruthInv'
<1>1. OneAtATime'
  BY OneStays DEF TruthInv
<1>2. ASSUME NEW r \in Run
      PROVE  NotYet(r)' /\ Owned(r)'
  <2>1. CASE Edit \/ ContainersLive \/ UNCHANGED vars
    <3>1. pc' = pc /\ UNCHANGED locals
      BY <2>1 DEF Edit, ContainersLive, vars
    <3>2. /\ (Started(r)' <=> Started(r)) /\ This(r)' = This(r) /\ Done(r)' = Done(r)
          /\ ctx' = ctx
      BY <3>1 DEF Started, This, Done, locals
    <3>3. \A s \in Service : ContainerId(s)' = ContainerId(s)
      <4>1. CASE ContainersLive
        BY <4>1, LivesKeepOwners DEF IInv
      <4>2. CASE Edit \/ UNCHANGED vars
        BY <4>2 DEF Edit, vars, engine, ContainerId
      <4> QED BY <2>1, <4>1, <4>2
    <3>4. pc[r] \in Busy => /\ Done(r) \subseteq Service /\ ctx[r].active \subseteq Service
                            /\ Started(r) => This(r) \in Service
      BY DoneType
    <3>5. ASSUME NEW s \in Service, s = This(r)
          PROVE  ContainerId(This(r))' = ContainerId(This(r))
      BY <3>2, <3>3, <3>5 DEF ContainerId
    <3> QED BY <3>1, <3>2, <3>3, <3>4, <3>5 DEF TruthInv, NotYet, Owned
  <2>2. ASSUME NEW q \in Run, Begin(q) \/ Reject(q) \/ Step(q) \/ Kill(q)
        PROVE  NotYet(r)' /\ Owned(r)'
    BY <2>2, TruthOfOwn, TruthOfOthers DEF TruthInv
  <2> QED BY <2>1, <2>2 DEF Next
<1>3. OkReceiptTruthful' /\ AttemptReceiptTruthful'
  <2>1. CASE receipts' = receipts
    BY <2>1 DEF TruthInv, OkReceiptTruthful, AttemptReceiptTruthful
  <2> QED BY <2>1, ReceiptsKept, OkIsTrue, AttemptIsTrue
<1> QED BY <1>1, <1>2, <1>3 DEF TruthInv

LEMMA TruthInit ==
  ASSUME DeployAssumption, Init
  PROVE  TruthInv
<1>1. \A r \in Run : pc[r] = "idle" /\ receipts[r] = None
  BY DEF Init
<1>2. \A s \in Service : ContainerId(s) = None
  BY DEF Init, EngineInit, ContainerId, DeployAssumption
<1>3. None \notin Run
  BY DEF DeployAssumption
<1>4. OneAtATime
  BY <1>1 DEF OneAtATime, Busy
<1>5. \A r \in Run : NotYet(r) /\ Owned(r)
  BY <1>1, <1>2, <1>3 DEF NotYet, Owned, Busy
<1>6. OkReceiptTruthful /\ AttemptReceiptTruthful
  BY <1>1 DEF OkReceiptTruthful, AttemptReceiptTruthful
<1> QED BY <1>4, <1>5, <1>6 DEF TruthInv

\* Receipts are true when runs do not overlap.
THEOREM Truth == NamesDistinct /\ ~ Overlap => (Spec => []TruthInv)
<1> SUFFICES ASSUME NamesDistinct, ~ Overlap PROVE Spec => []TruthInv
  OBVIOUS
<1>1. Init => TruthInv
  BY TruthInit, DeployAssumption
<1>2. IInv /\ TruthInv /\ [Next]_vars => TruthInv'
  BY TruthStep, DeployAssumption, PodmanAssumption
<1> QED BY <1>1, <1>2, Invariance, PTL DEF Spec

\* Success evidence is about its own deploy: a receipt with status ok names, for
\* every selected service, the container that very run created, however containers
\* crash and restart, for any contracts and sequence of deploys.
THEOREM OkReceiptsAreTrue == NamesDistinct /\ ~ Overlap => (Spec => []OkReceiptTruthful)
<1> SUFFICES ASSUME NamesDistinct, ~ Overlap PROVE Spec => []OkReceiptTruthful
  OBVIOUS
<1>1. TruthInv => OkReceiptTruthful
  BY DEF TruthInv
<1> QED BY <1>1, Truth, PTL

\* An attempt receipt tells how far its run got: nothing that depends on the
\* service whose gate failed was replaced, and when that is one outside the
\* selection, nor was the service that asked for it.
THEOREM AttemptReceiptsAreTrue ==
  NamesDistinct /\ ~ Overlap => (Spec => []AttemptReceiptTruthful)
<1> SUFFICES ASSUME NamesDistinct, ~ Overlap PROVE Spec => []AttemptReceiptTruthful
  OBVIOUS
<1>1. TruthInv => AttemptReceiptTruthful
  BY DEF TruthInv
<1> QED BY <1>1, Truth, PTL
=============================================================================
