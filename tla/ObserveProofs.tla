--------------------------- MODULE ObserveProofs ----------------------------
(***************************************************************************)
(* Theorems about Observe, for any contract, any containers, any number of *)
(* changes: what a command reports was true of each container at some      *)
(* moment while the command ran, and is true when nothing has changed.     *)
(***************************************************************************)
EXTENDS Observe, FiniteSetTheorems, TLAPS

\* A claim of the report held at some moment of the command.
RowsWereTrue ==
  \A s \in DOMAIN row :
    \/ \E m \in moments : StateOf(m, CName[s]) = row[s]
    \/ row[s] = "missing" /\ ~ calm

OneMoment == batch => \E m \in moments : \A s \in DOMAIN row : StateOf(m, CName[s]) = row[s]

HealthWasTrue ==
  \A s \in DOMAIN health : health[s] = "yes" =>
    \E m \in moments : m[CName[s]] # Absent /\ m[CName[s]].healthy

NamesWereThere == \A n \in names : \E m \in moments : m[n] # Absent

\* What is now is a moment of the command, and it has been calm only if the engine
\* answers now.
Watching ==
  /\ opc # "idle" => ctr \in moments
  /\ opc = "idle" => DOMAIN row = {} /\ DOMAIN health = {} /\ names = {}
  /\ calm => up

\* After an inspect of all containers at once nothing is inspected any more.
BatchIsFinal ==
  /\ batch => opc \notin {"idle", "inspect"}
  /\ batch /\ opc = "one" => look = {}
  /\ opc = "probe" => question.command # "diff"
  /\ batch /\ opc = "list" => question.command # "diff"

IInv ==
  /\ RowsWereTrue /\ OneMoment /\ HealthWasTrue /\ NamesWereThere
  /\ Watching /\ BatchIsFinal

LEMMA TrueAtFirst == ObserveInit => IInv
BY DEF ObserveInit, IInv, RowsWereTrue, OneMoment, HealthWasTrue, NamesWereThere, Watching,
       BatchIsFinal

\* One lemma per kind of step.

LEMMA StartStep == IInv /\ Start => IInv'
BY DEF IInv, RowsWereTrue, OneMoment, HealthWasTrue, NamesWereThere, Watching, BatchIsFinal,
       Start, FirstLook, Ends, engine

LEMMA ListStep == IInv /\ ListContainers => IInv'
BY DEF IInv, RowsWereTrue, OneMoment, HealthWasTrue, NamesWereThere, Watching, BatchIsFinal,
       ListContainers, Ends, Present, world, engine

LEMMA BatchStep == IInv /\ BatchInspect => IInv'
BY DEF IInv, RowsWereTrue, OneMoment, HealthWasTrue, NamesWereThere, Watching, BatchIsFinal,
       BatchInspect, world, engine

LEMMA InspectOneStep == IInv /\ InspectOne => IInv'
<1> SUFFICES ASSUME IInv, InspectOne PROVE IInv'
  OBVIOUS
<1>1. /\ UNCHANGED <<world, opc, question, names, health, batch>>
      /\ opc = "one" /\ look # {}
  BY DEF InspectOne
<1>2. RowsWereTrue'
  <2> DEFINE s == Earliest(look)
             now == IF up THEN StateOf(ctr, CName[s]) ELSE "missing"
  <2>1. row' = [z \in DOMAIN row \cup {s} |-> IF z = s THEN now ELSE row[z]]
    BY DEF InspectOne
  <2>2. ctr \in moments /\ (calm => up)
    BY <1>1 DEF IInv, Watching
  <2> HIDE DEF s
  <2> QED
    BY <1>1, <2>1, <2>2 DEF IInv, RowsWereTrue, world
<1> QED
  BY <1>1, <1>2 DEF IInv, OneMoment, HealthWasTrue, NamesWereThere, Watching, BatchIsFinal,
     world, engine

LEMMA ProbeStep ==
  ASSUME IInv, NEW s \in Service, NEW h, Finds(s, h), opc = "probe",
         h = "yes" => ctr[CName[s]] # Absent /\ ctr[CName[s]].healthy
  PROVE  IInv'
<1>1. UNCHANGED <<world, opc, question, names, row, batch>>
      /\ health' = [z \in DOMAIN health \cup {s} |-> IF z = s THEN h ELSE health[z]]
  BY DEF Finds
<1>2. HealthWasTrue'
  BY <1>1 DEF IInv, HealthWasTrue, Watching, world
<1> QED
  BY <1>1, <1>2 DEF IInv, RowsWereTrue, OneMoment, NamesWereThere, Watching, BatchIsFinal,
     world, engine

LEMMA QuietStep ==
  ASSUME IInv, BatchFails \/ Inspected \/ Probed \/ LogsOne \/ LogsDone PROVE IInv'
<1>1. UNCHANGED <<world, question, names, row, health, batch>>
  BY DEF BatchFails, Inspected, Probed, LogsOne, LogsDone
<1>2. (RowsWereTrue /\ OneMoment /\ HealthWasTrue /\ NamesWereThere)'
  BY <1>1 DEF IInv, RowsWereTrue, OneMoment, HealthWasTrue, NamesWereThere, world
<1>3. opc # "idle" /\ opc' # "idle"
  BY DEF BatchFails, Inspected, Probed, LogsOne, LogsDone, Ends
<1>4. BatchIsFinal'
  BY <1>1 DEF IInv, BatchIsFinal, BatchFails, Inspected, Probed, LogsOne, LogsDone, Ends
<1> QED
  BY <1>1, <1>2, <1>3, <1>4 DEF IInv, Watching, world, engine

\* Whatever goes on around it only adds moments, and an engine that has not
\* answered once is never calm again.
LEMMA WorldStep == IInv /\ (ContainersChange \/ EngineChanges) => IInv'
<1> SUFFICES ASSUME IInv, ContainersChange \/ EngineChanges PROVE IInv'
  OBVIOUS
<1>1. UNCHANGED observer /\ opc # "idle"
  BY DEF ContainersChange, EngineChanges, Moves
<1>2. moments \subseteq moments' /\ ctr' \in moments'
  BY <1>1 DEF ContainersChange, EngineChanges, engine, IInv, Watching
<1>3. calm' => calm /\ up'
  BY Zenon DEF ContainersChange, EngineChanges, IInv, Watching
<1> QED
  BY <1>1, <1>2, <1>3 DEF IInv, RowsWereTrue, OneMoment, HealthWasTrue, NamesWereThere, Watching,
     BatchIsFinal, observer

LEMMA Inductive == IInv /\ [ObserveNext]_observeVars => IInv'
<1> SUFFICES ASSUME IInv, [ObserveNext]_observeVars PROVE IInv'
  OBVIOUS
<1>1. ASSUME NEW s \in Service, ProbeSkipped(s) \/ ProbeSucceeds(s) \/ ProbeFails(s) PROVE IInv'
  <2>1. CASE ProbeSkipped(s)
    BY <2>1, ProbeStep DEF ProbeSkipped
  <2>2. CASE ProbeSucceeds(s)
    BY <2>2, ProbeStep DEF ProbeSucceeds, Probes, IsHealthy, IsRunning
  <2>3. CASE ProbeFails(s)
    BY <2>3, ProbeStep DEF ProbeFails, Probes
  <2> QED
    BY <1>1, <2>1, <2>2, <2>3
<1>2. CASE UNCHANGED observeVars
  BY <1>2 DEF observeVars, observer, world, engine, IInv, RowsWereTrue, OneMoment, HealthWasTrue,
     NamesWereThere, Watching, BatchIsFinal
<1> QED
  BY <1>1, <1>2, StartStep, ListStep, BatchStep, InspectOneStep, QuietStep, WorldStep
     DEF ObserveNext, Observation

\* ps, diff, explain and onboard make nothing up: each row was true at some moment of the
\* command, or the engine did not answer; all at once if one inspect answered
\* (InspectContainersBatch); who is called healthy or extra was.
THEOREM Truthful == ObserveSpec => []EveryClaimWasTrue
<1>1. IInv => EveryClaimWasTrue
  BY DEF IInv, RowsWereTrue, OneMoment, HealthWasTrue, NamesWereThere, EveryClaimWasTrue
<1> QED
  BY <1>1, TrueAtFirst, Inductive, PTL DEF ObserveSpec

-----------------------------------------------------------------------------
\* The stages of a command.

\* Among finitely many services one comes first.
LEMMA FirstOne ==
  ASSUME NEW S \in SUBSET Service, S # {}
  PROVE  Earliest(S) \in S
<1> DEFINE upto(s) == {z \in S : SortedAs[z] <= SortedAs[s]}
           all == {upto(s) : s \in S}
<1>1. IsFiniteSet(S)
  BY ObserveAssumption, FS_Subset
<1>2. all \subseteq FiniteSubsetsOf(S) /\ all # {}
  <2>1. \A s \in S : upto(s) \in SUBSET S /\ IsFiniteSet(upto(s))
    BY <1>1, FS_Subset
  <2> QED BY <2>1 DEF FiniteSubsetsOf
<1>3. IsWellFoundedOn(StrictSubsetOrdering(S), FiniteSubsetsOf(S))
  BY FS_StrictSubsetOrderingWellFounded
<1>4. PICK A \in all : \A B \in all : ~ (<<B, A>> \in StrictSubsetOrdering(S))
  <2> HIDE DEF all
  <2> QED BY <1>2, <1>3, WFMin
<1>5. PICK s \in S : A = upto(s)
  OBVIOUS
<1>6. \A z \in S : SortedAs[s] <= SortedAs[z]
  <2> SUFFICES ASSUME NEW z \in S, ~ (SortedAs[s] <= SortedAs[z]) PROVE FALSE
    OBVIOUS
  <2>1. \A x \in S : SortedAs[x] \in Nat
    BY ObserveAssumption
  <2>2. upto(z) \subseteq A /\ s \in A /\ s \notin upto(z)
    BY <1>5, <2>1
  <2>3. upto(z) \in all /\ upto(z) \in SUBSET S /\ A \in SUBSET S
    BY <1>5
  <2>4. <<upto(z), A>> \in StrictSubsetOrdering(S)
    BY <2>2, <2>3 DEF StrictSubsetOrdering
  <2> QED BY <1>4, <2>3, <2>4
<1> QED BY <1>6 DEF Earliest

LEMMA SelectionType ==
  ASSUME NEW c \in Viewed, NEW q \in Questions
  PROVE  /\ ServicesForProfiles(c, q.profiles) \in SUBSET Service
         /\ ObservabilityActiveServices(c, q.profiles, q.roots, q.dependents) \in SUBSET Service
<1>1. c.services \in SUBSET Service /\ q.roots \in SUBSET Service
  BY ObserveAssumption DEF IsContract
<1> DEFINE base == ServicesForProfiles(c, q.profiles)
<1>2. base \in SUBSET Service
  BY <1>1 DEF ServicesForProfiles
<1>3. ServicesForDeployTargets(base, q.roots) \in SUBSET Service
  BY <1>1, <1>2 DEF ServicesForDeployTargets
<1>4. ASSUME NEW b \in SUBSET Service, NEW seeds \in SUBSET Service
      PROVE  ExpandDependentsTransitive(c, b, seeds) \in SUBSET Service
  BY DEF ExpandDependentsTransitive
<1> QED BY <1>2, <1>3, <1>4 DEF ObservabilityActiveServices

\* Which services have been looked at in which stage, and which command is in it.
Stages ==
  /\ contract \in Viewed /\ (up => installed)
  /\ opc = "idle" => DOMAIN row = {} /\ DOMAIN health = {}
  /\ opc # "idle" => question \in Questions
  /\ opc = "inspect" \/ (opc = "list" /\ question.command = "diff") =>
       DOMAIN row = {} /\ DOMAIN health = {} /\ look = Observed
  /\ opc = "list" => question.command \in {"diff", "explain"}
  /\ opc \in {"inspect", "one"} => question.command # "logs"
  /\ opc = "one" => DOMAIN health = {}
  /\ opc = "probe" => DOMAIN row = Observed /\ question.command \in {"explain", "onboard"}
  /\ opc = "logs" => question.command = "logs" /\ look \subseteq Observed

Typed == ObserveTypeOK /\ Stages

LEMMA StateOfType ==
  ASSUME EngineTypeOK, NEW n \in Name
  PROVE  /\ StateOf(ctr, n) \in {"missing", "created", "running", "exited"}
         /\ StateOf(ctr, n) = "missing" <=> n \notin Present
         /\ StateOf(ctr, n) = "running" <=> IsRunning(n)
BY PodmanAssumption DEF EngineTypeOK, Container, StateOf, Present, IsRunning

LEMMA TypedAtFirst == ObserveInit => Typed
BY ObserveAssumption
   DEF ObserveInit, Typed, ObserveTypeOK, Stages, EngineTypeOK, NoQuestion, NoAdvice

\* The selection is that of the contract and the command line.
LEMMA SameScope ==
  ASSUME UNCHANGED <<contract, question>>
  PROVE  Observed' = Observed /\ Base' = Base
BY DEF Observed, Base

LEMMA StartTyped == ASSUME Typed, Start PROVE Typed'
<1> USE DEF Typed, ObserveTypeOK, Stages
<1>1. PICK q \in Questions :
        /\ question' = q
        /\ LET S == ObservabilityActiveServices(contract, q.profiles, q.roots, q.dependents)
           IN  IF Refused(q) \/ (~ installed /\ q.command # "onboard")
               THEN Ends("error") /\ UNCHANGED <<advice, look>>
               ELSE IF ~ installed
               THEN Ends("offline") /\ advice' = IdleAdvice(S) /\ UNCHANGED look
               ELSE opc' = FirstLook(q) /\ look' = S /\ UNCHANGED <<verdict, advice>>
  BY DEF Start
<1>2. UNCHANGED <<contract, engine, installed, up, names, row, health, moves>> /\ opc = "idle"
  BY DEF Start
<1>3. /\ Observed' = ObservabilityActiveServices(contract, q.profiles, q.roots, q.dependents)
      /\ Observed' \in SUBSET Service
  BY <1>1, <1>2, SelectionType DEF Observed
<1>4. q.command \in {"diff", "ps", "explain", "onboard", "logs"}
  BY ObserveAssumption
<1>5. EngineTypeOK'
  BY <1>2 DEF engine, EngineTypeOK
<1>6. CASE opc' = "done" /\ verdict' \in {"error", "offline"} /\ UNCHANGED look
            /\ advice'.focus \subseteq Service
  BY <1>1, <1>2, <1>5, <1>6
<1>7. CASE opc' = FirstLook(q) /\ look' = Observed' /\ UNCHANGED <<verdict, advice>>
  <2>1. \/ opc' = "list" /\ q.command = "diff"
        \/ opc' = "logs" /\ q.command = "logs"
        \/ opc' = "inspect" /\ q.command \notin {"diff", "logs"}
    BY <1>7 DEF FirstLook
  <2> QED BY <1>1, <1>2, <1>3, <1>4, <1>5, <1>7, <2>1
<1> QED BY <1>1, <1>3, <1>6, <1>7 DEF Ends, IdleAdvice, Advice

LEMMA ListTyped == ASSUME Typed, ListContainers PROVE Typed'
<1> USE DEF Typed, ObserveTypeOK, Stages
<1>1. /\ UNCHANGED <<contract, engine, installed, up, moves, question, look, row, health, advice>>
      /\ opc = "list" /\ names' \subseteq Name
  BY DEF ListContainers, world, Present
<1>2. \/ opc' = "inspect" /\ question.command = "diff" /\ UNCHANGED verdict
      \/ opc' = "done" /\ verdict' \in {"ok", "error"}
  BY DEF ListContainers, Ends
<1> QED BY <1>1, <1>2, SameScope DEF engine, EngineTypeOK

LEMMA InspectTyped == ASSUME Typed, BatchInspect \/ BatchFails \/ InspectOne PROVE Typed'
<1> USE DEF Typed, ObserveTypeOK, Stages
<1>1. UNCHANGED <<contract, engine, installed, up, moves, question, names, health, verdict, advice>>
  BY DEF BatchInspect, BatchFails, InspectOne, world
<1>2. EngineTypeOK' /\ Observed' = Observed
  BY <1>1, SameScope DEF engine, EngineTypeOK
<1>3. CASE BatchInspect
  <2>1. \A s \in look : StateOf(ctr, CName[s]) \in {"missing", "created", "running", "exited"}
    BY ObserveAssumption, StateOfType
  <2>2. /\ row' = [s \in look |-> StateOf(ctr, CName[s])]
        /\ opc = "inspect" /\ opc' = "one" /\ look' = {}
    BY <1>3 DEF BatchInspect
  <2>3. DOMAIN row' = look /\ look = Observed /\ DOMAIN health = {}
        /\ question.command # "logs" /\ question \in Questions
    BY <2>2
  <2>4. \A s \in DOMAIN row' : row'[s] \in {"missing", "created", "running", "exited"}
    BY <2>1, <2>2
  <2> QED BY <1>1, <1>2, <2>2, <2>3, <2>4
<1>4. CASE BatchFails
  <2>1. opc = "inspect" /\ opc' = "one" /\ UNCHANGED <<look, row>>
    BY <1>4 DEF BatchFails
  <2>2. DOMAIN row = {} /\ look = Observed /\ DOMAIN health = {}
        /\ question.command # "logs" /\ question \in Questions
    BY <2>1
  <2> QED BY <1>1, <1>2, <2>1, <2>2
<1>5. CASE InspectOne
  <2> DEFINE s == Earliest(look)
             found == IF up THEN StateOf(ctr, CName[s]) ELSE "missing"
  <2>1. s \in look /\ s \in Service
    BY <1>5, FirstOne DEF InspectOne
  <2>2. found \in {"missing", "created", "running", "exited"}
    BY <2>1, ObserveAssumption, StateOfType
  <2>3. /\ row' = [z \in DOMAIN row \cup {s} |-> IF z = s THEN found ELSE row[z]]
        /\ look' = look \ {s} /\ opc = "one" /\ opc' = opc
    BY <1>5 DEF InspectOne
  <2> HIDE DEF s, found
  <2> QED BY <1>1, <1>2, <2>1, <2>2, <2>3
<1> QED BY <1>3, <1>4, <1>5

LEMMA InspectedTyped == ASSUME Typed, Inspected PROVE Typed'
<1> USE DEF Typed, ObserveTypeOK, Stages
<1>1. /\ UNCHANGED <<contract, engine, installed, up, moves, question, names, row, health, advice>>
      /\ opc = "one" /\ look = {}
  BY DEF Inspected, world
<1>2. EngineTypeOK' /\ Observed' = Observed
  BY <1>1, SameScope DEF engine, EngineTypeOK
<1>3. \/ opc' = "done" /\ verdict' \in {"ok", "drift", "match"} /\ UNCHANGED look
      \/ /\ opc' = "probe" /\ look' = DOMAIN row /\ UNCHANGED verdict
         /\ question.command \notin {"ps", "diff"}
  BY DEF Inspected, Ends
<1>4. DOMAIN row = Observed /\ Observed \in SUBSET Service
  BY <1>1, SelectionType DEF Observed
<1>5. question.command \in {"diff", "ps", "explain", "onboard"}
  BY <1>1, ObserveAssumption
<1> QED BY <1>1, <1>2, <1>3, <1>4, <1>5

LEMMA ProbeTyped ==
  ASSUME Typed, NEW s \in Service, ProbeSkipped(s) \/ ProbeSucceeds(s) \/ ProbeFails(s)
  PROVE  Typed'
<1> USE DEF Typed, ObserveTypeOK, Stages
<1>1. PICK h \in {"yes", "no", "unknown"} : Finds(s, h)
  BY DEF ProbeSkipped, ProbeSucceeds, ProbeFails
<1>2. s \in look /\ opc = "probe"
  BY DEF ProbeSkipped, ProbeSucceeds, ProbeFails, Probes
<1>3. UNCHANGED <<contract, engine, installed, up, moves, opc, question, names, row, verdict, advice>>
  BY <1>1 DEF Finds, world
<1>4. EngineTypeOK' /\ Observed' = Observed
  BY <1>3, SameScope DEF engine, EngineTypeOK
<1> QED BY <1>1, <1>2, <1>3, <1>4 DEF Finds

LEMMA AdviceType ==
  ASSUME DOMAIN row \in SUBSET Service
  PROVE  LiveAdvice.focus \subseteq Service
<1> DEFINE bad == {s \in DOMAIN row : Bad(s)}
<1>1. bad # {} => Earliest(bad) \in Service
  BY FirstOne
<1> HIDE DEF bad
<1>2. LiveAdvice.focus \in {{}, {Earliest(bad)}} /\ (bad = {} => LiveAdvice.focus = {})
  BY DEF LiveAdvice, Advice, bad
<1> QED BY <1>1, <1>2

LEMMA ProbedTyped == ASSUME Typed, Probed PROVE Typed'
<1> USE DEF Typed, ObserveTypeOK, Stages
<1>1. /\ UNCHANGED <<contract, engine, installed, up, moves, question, names, look, row, health>>
      /\ opc = "probe" /\ advice' = LiveAdvice
  BY DEF Probed, world
<1>2. EngineTypeOK' /\ Observed' = Observed
  BY <1>1, SameScope DEF engine, EngineTypeOK
<1>3. \/ opc' = "done" /\ verdict' = "ok"
      \/ opc' = "list" /\ question.command = "explain" /\ UNCHANGED verdict
  BY DEF Probed, Ends
<1>4. LiveAdvice.focus \subseteq Service
  BY <1>1, SelectionType, AdviceType DEF Observed
<1> HIDE DEF Typed
<1> QED BY <1>1, <1>2, <1>3, <1>4 DEF Typed

LEMMA LogsTyped == ASSUME Typed, LogsOne \/ LogsDone PROVE Typed'
<1> USE DEF Typed, ObserveTypeOK, Stages
<1>1. /\ UNCHANGED <<contract, engine, installed, up, moves, question, names, row, health, advice>>
      /\ opc = "logs" /\ look' \subseteq look
  BY DEF LogsOne, LogsDone, world
<1>2. EngineTypeOK' /\ Observed' = Observed
  BY <1>1, SameScope DEF engine, EngineTypeOK
<1>3. \/ opc' = "logs" /\ UNCHANGED verdict
      \/ opc' = "done" /\ verdict' \in {"ok", "error"}
  BY DEF LogsOne, LogsDone, Ends
<1> QED BY <1>1, <1>2, <1>3

LEMMA WorldTyped == ASSUME Typed, ContainersChange \/ EngineChanges PROVE Typed'
<1> USE DEF Typed, ObserveTypeOK, Stages
<1>1. /\ UNCHANGED <<contract, installed, observer>> /\ moves' \in 0 .. MaxMoves
      /\ up' => installed
  BY ObserveAssumption DEF ContainersChange, EngineChanges, Moves
<1>2. EngineTypeOK'
  <2>1. CASE EngineChanges
    BY <2>1 DEF EngineChanges, engine, EngineTypeOK
  <2>2. CASE ContainersChange /\ EngineStep
    <3>1. PICK n \in Name : Crash(n) \/ Restart(n) \/ HealthChange(n)
      BY <2>2 DEF EngineStep
    <3>2. ctr[n] \in Container
      BY <3>1 DEF Crash, Restart, HealthChange, IsRunning, EngineTypeOK
    <3>3. CASE Crash(n)
      <4>1. [ctr[n] EXCEPT !.state = "exited", !.healthy = FALSE] \in Container
        BY <3>2 DEF Container
      <4> QED BY <3>3, <4>1 DEF Crash, EngineTypeOK
    <3>4. CASE Restart(n) \/ HealthChange(n)
      <4>1. [ctr[n] EXCEPT !.state = "running"] \in Container
            /\ [ctr[n] EXCEPT !.healthy = ~ @] \in Container
        BY <3>2 DEF Container
      <4> QED BY <3>4, <4>1 DEF Restart, HealthChange, EngineTypeOK
    <3> QED BY <3>1, <3>3, <3>4
  <2>3. ASSUME NEW n \in Name, OtherCommand(n)
        PROVE  EngineTypeOK'
    <3>1. \A r \in Run :
            [by |-> r, state |-> "running", healthy |-> FALSE, uses |-> {}] \in Container
      BY DEF Container
    <3> QED BY <2>3, <3>1 DEF OtherCommand, EngineTypeOK
  <2> QED BY <2>1, <2>2, <2>3 DEF ContainersChange
<1>3. Observed' = Observed
  BY <1>1, SameScope DEF observer
<1> QED BY <1>1, <1>2, <1>3 DEF observer

LEMMA TypedStep == ASSUME Typed, [ObserveNext]_observeVars PROVE Typed'
<1>1. ASSUME NEW s \in Service, ProbeSkipped(s) \/ ProbeSucceeds(s) \/ ProbeFails(s) PROVE Typed'
  BY <1>1, ProbeTyped
<1>2. CASE UNCHANGED observeVars
  <2>1. Observed' = Observed
    BY <1>2, SameScope DEF observeVars, observer
  <2> QED
    BY <1>2, <2>1 DEF observeVars, observer, world, engine, Typed, ObserveTypeOK, Stages, EngineTypeOK
<1> QED
  BY <1>1, <1>2, StartTyped, ListTyped, InspectTyped, InspectedTyped, ProbedTyped, LogsTyped,
     WorldTyped DEF ObserveNext, Observation

\* The observation commands keep their books (runtimestate/inspect_batch.go,
\* explain/status.go): whichever inspect fails and whatever goes on meanwhile, each
\* selected service is either still to be looked at or has its one row.
THEOREM TypeCorrect == ObserveSpec => []ObserveTypeOK
<1>1. Typed => ObserveTypeOK
  BY DEF Typed
<1> QED BY <1>1, TypedAtFirst, TypedStep, PTL DEF ObserveSpec

-----------------------------------------------------------------------------
\* A command that looks while nothing changes.

\* What a probe that runs now says of a service.
HealthOf(s) ==
  IF ~ Works(s) THEN "no"
  ELSE IF ~ question.probes \/ s \notin HTTPProbe \cup ExecProbe THEN "unknown"
  ELSE IF IsHealthy(CName[s]) THEN "yes"
  ELSE "no"

\* What has been seen so far is still so, and what has been said of it is right.
SeenIsSo ==
  /\ moments = {ctr}
  /\ \A s \in DOMAIN row : row[s] = StateOf(ctr, CName[s])
  /\ \A s \in DOMAIN health : health[s] = HealthOf(s)
  /\ opc \in {"inspect", "one"} /\ question.command = "diff" => names = Present
  /\ opc = "list" /\ question.command = "explain" => TrueAdvice
  /\ opc = "logs" => \A s \in Observed \ look : CName[s] \in Present

Quiet ==
  /\ row = [s \in DOMAIN row |-> row[s]]
  /\ opc # "idle" /\ moves = 0 /\ up => SeenIsSo
  /\ QuietReportIsTrue

\* As long as nothing has moved, every step of the command starts from what was
\* seen so far.
LEMMA QuietIfSeen ==
  ASSUME row' = [s \in DOMAIN row' |-> row'[s]],
         opc' # "idle" /\ moves' = 0 /\ up' => SeenIsSo' /\ QuietReportIsTrue'
  PROVE  Quiet'
<1>1. CASE opc' # "idle" /\ moves' = 0 /\ up'
  BY <1>1 DEF Quiet
<1>2. CASE ~ (opc' # "idle" /\ moves' = 0 /\ up')
  BY <1>2 DEF Quiet, QuietReportIsTrue
<1> QED BY <1>1, <1>2

\* The operators say the same of the same containers, contract and question.
LEMMA SameView ==
  ASSUME UNCHANGED <<contract, engine, question>>
  PROVE  /\ Observed' = Observed /\ Base' = Base /\ Present' = Present /\ Strays' = Strays
         /\ Refused(question)' = Refused(question)
         /\ \A s : Works(s)' = Works(s) /\ Serves(s)' = Serves(s) /\ HealthOf(s)' = HealthOf(s)
         /\ \A n : StateOf(ctr, n)' = StateOf(ctr, n)
BY DEF Observed, Base, Present, Strays, Refused, Works, Serves, HealthOf, StateOf, IsRunning,
       IsHealthy, engine

LEMMA SameAdvice ==
  ASSUME UNCHANGED <<contract, engine, question, advice>>
  PROVE  TrueAdvice' = TrueAdvice
BY SameView DEF TrueAdvice

LEMMA QuietAtFirst == ObserveInit => Quiet
BY DEF ObserveInit, Quiet, QuietReportIsTrue

LEMMA StartQuiet == ASSUME Typed, Quiet, Start PROVE Quiet'
<1>1. /\ UNCHANGED <<contract, engine, installed, up, names, row, health>> /\ moments' = {ctr}
      /\ DOMAIN row = {} /\ DOMAIN health = {} /\ (up => installed)
  BY DEF Start, Typed, Stages
<1> SUFFICES ASSUME opc' # "idle", moves' = 0, up' PROVE SeenIsSo' /\ QuietReportIsTrue'
  BY <1>1, QuietIfSeen DEF Quiet
<1>2. PICK q \in Questions :
        /\ question' = q
        /\ LET S == ObservabilityActiveServices(contract, q.profiles, q.roots, q.dependents)
           IN  \/ Refused(q) /\ Ends("error")
               \/ opc' = FirstLook(q) /\ look' = S
  BY <1>1 DEF Start
<1>3. Refused(question)' = Refused(q)
      /\ Observed' = ObservabilityActiveServices(contract, q.profiles, q.roots, q.dependents)
  BY <1>1, <1>2 DEF Refused, Observed
<1>4. /\ opc' = "list" => q.command = "diff"
      /\ opc' = "logs" => look' = Observed'
      /\ opc' \in {"inspect", "one"} => q.command # "diff"
      /\ opc' = "done" => Refused(q)
  BY <1>2, <1>3 DEF FirstLook, Ends
<1>5. SeenIsSo'
  BY <1>1, <1>2, <1>4 DEF SeenIsSo, engine
<1>6. QuietReportIsTrue'
  BY <1>2, <1>3, <1>4 DEF QuietReportIsTrue
<1> QED BY <1>5, <1>6

\* No container has gone, so the list is complete.
LEMMA ListQuiet == ASSUME Typed, Quiet, ListContainers PROVE Quiet'
<1>1. /\ UNCHANGED <<contract, engine, up, moments, moves, question, look, row, health, advice>>
      /\ opc = "list"
  BY DEF ListContainers, world
<1> SUFFICES ASSUME opc' # "idle", moves' = 0, up' PROVE SeenIsSo' /\ QuietReportIsTrue'
  BY <1>1, QuietIfSeen DEF Quiet
<1>2. SeenIsSo /\ up
  BY <1>1 DEF Quiet
<1>3. ~ Vanished
  BY <1>2 DEF Vanished, SeenIsSo
<1>4. names' = Present
  BY <1>2, <1>3 DEF ListContainers
<1>5. SeenIsSo'
  <2>1. \/ opc' = "inspect" /\ question.command = "diff"
        \/ opc' = "done"
    BY <1>2 DEF ListContainers, Ends
  <2> QED BY <1>1, <1>2, <1>4, <2>1, SameView DEF SeenIsSo, engine
<1>6. CASE question.command = "diff"
  BY <1>1, <1>2, <1>5, <1>6 DEF ListContainers, QuietReportIsTrue
<1>7. CASE question.command = "explain"
  <2>1. Extras' = Strays'
    BY <1>1, <1>4, SameView DEF Extras, Strays, Present
  <2>2. TrueAdvice' /\ verdict' = "ok"
    BY <1>1, <1>2, <1>7, SameAdvice DEF SeenIsSo, ListContainers, Ends
  <2> QED BY <1>1, <1>5, <1>7, <2>1, <2>2 DEF QuietReportIsTrue
<1> QED BY <1>1, <1>6, <1>7 DEF Typed, Stages

LEMMA InspectQuiet == ASSUME Typed, Quiet, BatchInspect \/ BatchFails \/ InspectOne PROVE Quiet'
<1>1. /\ UNCHANGED <<contract, engine, up, moments, moves, question, names, health>>
      /\ opc \in {"inspect", "one"} /\ opc' = "one"
  BY DEF BatchInspect, BatchFails, InspectOne, world
<1>2. row' = [s \in DOMAIN row' |-> row'[s]]
  BY DEF BatchInspect, BatchFails, InspectOne, Quiet
<1>3. ASSUME SeenIsSo, up PROVE SeenIsSo'
  <2>1. CASE BatchInspect
    <3>1. row' = [s \in look |-> StateOf(ctr, CName[s])]
      BY <2>1 DEF BatchInspect
    <3> QED BY <1>1, <1>3, <3>1, SameView DEF SeenIsSo, engine
  <2>2. CASE BatchFails
    BY <1>1, <1>3, <2>2, SameView DEF BatchFails, SeenIsSo, engine
  <2>3. CASE InspectOne
    <3> DEFINE s == Earliest(look)
    <3>1. row' = [z \in DOMAIN row \cup {s} |-> IF z = s THEN StateOf(ctr, CName[s]) ELSE row[z]]
      BY <1>3, <2>3 DEF InspectOne
    <3> HIDE DEF s
    <3> QED BY <1>1, <1>3, <3>1, SameView DEF SeenIsSo, engine
  <2> QED BY <2>1, <2>2, <2>3
<1>4. QuietReportIsTrue'
  BY <1>1 DEF QuietReportIsTrue
<1> QED BY <1>1, <1>2, <1>3, <1>4, QuietIfSeen DEF Quiet

\* diff and ps report what they have seen of every service they were asked about.
LEMMA InspectedQuiet == ASSUME Typed, Quiet, Inspected PROVE Quiet'
<1>1. /\ UNCHANGED <<contract, engine, up, moments, moves, question, names, row, health>>
      /\ opc = "one" /\ look = {}
  BY DEF Inspected, world
<1> SUFFICES ASSUME opc' # "idle", moves' = 0, up' PROVE SeenIsSo' /\ QuietReportIsTrue'
  BY <1>1, QuietIfSeen DEF Quiet
<1>2. SeenIsSo /\ DOMAIN row = Observed /\ Observed \in SUBSET Service
  BY <1>1, SelectionType DEF Quiet, Typed, ObserveTypeOK, Stages, Observed
<1>3. \/ /\ opc' = "done" /\ question.command = "ps"
      \/ /\ opc' = "done" /\ question.command = "diff"
         /\ verdict' = IF DriftSeen THEN "drift" ELSE "match"
      \/ opc' = "probe"
  BY DEF Inspected, Ends
<1>4. SeenIsSo'
  BY <1>1, <1>2, <1>3, SameView DEF SeenIsSo, engine
<1>5. CASE question.command = "ps"
  <2>1. row' = [s \in Observed |-> row[s]]
    BY <1>1, <1>2 DEF Quiet
  <2>2. row' = [s \in Observed' |-> StateOf(ctr, CName[s])']
    BY <1>1, <1>2, <2>1, SameView DEF SeenIsSo
  <2> QED BY <1>1, <1>4, <1>5, <2>2 DEF QuietReportIsTrue
<1>6. CASE question.command = "diff"
  <2>1. Extras = Strays
    BY <1>1, <1>2, <1>6 DEF SeenIsSo, Extras, Strays, Present
  <2>2. \A s \in Observed : row[s] = "running" <=> Works(s)
    BY <1>2, StateOfType, ObserveAssumption DEF SeenIsSo, Typed, ObserveTypeOK, Works
  <2>3. DriftSeen <=> ~ (Strays = {} /\ \A s \in Observed : Works(s))
    BY <1>2, <2>1, <2>2 DEF DriftSeen
  <2>4. opc' = "done" => ((verdict' = "match") <=> (Strays = {} /\ \A s \in Observed : Works(s)))
    BY <1>3, <1>6, <2>3 DEF Inspected, Ends
  <2>5. opc' = "done" => ((verdict' = "match") <=> (Strays' = {} /\ \A s \in Observed' : Works(s)'))
    BY <1>1, <2>4, SameView
  <2> QED BY <1>1, <1>4, <1>6, <2>5 DEF QuietReportIsTrue
<1>7. CASE opc' = "probe"
  BY <1>4, <1>7 DEF QuietReportIsTrue
<1> QED BY <1>3, <1>5, <1>6, <1>7

LEMMA ProbeQuiet ==
  ASSUME Typed, Quiet, NEW s \in Service, ProbeSkipped(s) \/ ProbeSucceeds(s) \/ ProbeFails(s)
  PROVE  Quiet'
<1>1. PICK h : /\ Finds(s, h)
               /\ row[s] = StateOf(ctr, CName[s]) => h = HealthOf(s)
  <2>1. EngineTypeOK /\ CName[s] \in Name
    BY ObserveAssumption DEF Typed, ObserveTypeOK
  <2>2. CASE ProbeSkipped(s)
    BY <2>1, <2>2, StateOfType DEF ProbeSkipped, HealthOf, Works
  <2>3. CASE ProbeSucceeds(s)
    BY <2>1, <2>3, StateOfType DEF ProbeSucceeds, Probes, HealthOf, Works
  <2>4. CASE ProbeFails(s)
    BY <2>1, <2>4, StateOfType DEF ProbeFails, Probes, HealthOf, Works
  <2> QED BY <2>2, <2>3, <2>4
<1>2. /\ UNCHANGED <<contract, engine, up, moments, moves, opc, question, names, row>>
      /\ health' = [z \in DOMAIN health \cup {s} |-> IF z = s THEN h ELSE health[z]]
  BY <1>1 DEF Finds, world
<1>3. opc = "probe" /\ s \in look
  BY DEF ProbeSkipped, ProbeSucceeds, ProbeFails, Probes
<1>4. ASSUME SeenIsSo PROVE SeenIsSo'
  <2>1. s \in DOMAIN row
    BY <1>3, FirstOne DEF Typed, ObserveTypeOK, Stages
  <2> QED BY <1>1, <1>2, <1>3, <1>4, <2>1, SameView DEF SeenIsSo, engine
<1>5. QuietReportIsTrue'
  BY <1>2, <1>3 DEF QuietReportIsTrue
<1> QED BY <1>2, <1>4, <1>5, QuietIfSeen DEF Quiet

\* With every row and every health right, the advice is.
LEMMA AdviceIsTrue ==
  ASSUME Typed, SeenIsSo, opc = "probe", look = {}, advice' = LiveAdvice,
         UNCHANGED <<contract, engine, question>>
  PROVE  TrueAdvice'
<1> DEFINE failing == {s \in Observed : IF question.probes THEN ~ Serves(s) ELSE ~ Works(s)}
           bad == {s \in DOMAIN row : Bad(s)}
           gone == \A s \in Observed : CName[s] \notin Present
<1>1. /\ DOMAIN row = Observed /\ DOMAIN health = Observed /\ Observed \in SUBSET Service
      /\ EngineTypeOK /\ \A s \in Service : CName[s] \in Name
  BY SelectionType, ObserveAssumption DEF Typed, ObserveTypeOK, Stages, Observed
<1>2. ASSUME NEW s \in Observed
      PROVE  /\ Bad(s) <=> IF question.probes THEN ~ Serves(s) ELSE ~ Works(s)
             /\ row[s] = "missing" <=> CName[s] \notin Present
             /\ row[s] = "missing" => Bad(s)
  BY <1>1, StateOfType DEF SeenIsSo, Bad, HealthOf, Serves, Works
<1>3. bad = failing
  BY <1>1, <1>2
<1>4. (\A s \in DOMAIN row : row[s] = "missing") <=> gone
  BY <1>1, <1>2
<1>5. Observed # {} /\ gone => failing # {}
  BY <1>1, <1>2
<1>6. /\ Observed' = Observed
      /\ failing = {s \in Observed : IF question.probes THEN ~ Serves(s) ELSE ~ Works(s)}'
      /\ gone <=> (\A s \in Observed : CName[s] \notin Present)'
  BY SameView
<1> DEFINE advise(gate, focus) == advice'.gate = gate /\ advice'.focus = focus
<1>7. /\ Observed # {} /\ gone => advise("arrive", {})
      /\ ~ (Observed # {} /\ gone) /\ bad # {} => advise("repair", {Earliest(bad)})
      /\ ~ (Observed # {} /\ gone) /\ bad = {} => advise("observe", {})
  BY <1>1, <1>4 DEF LiveAdvice, Advice
<1>8. Earliest(failing)' = Earliest(failing)
  BY <1>6 DEF Earliest
<1> QED
  BY <1>3, <1>5, <1>6, <1>7, <1>8 DEF TrueAdvice

LEMMA ProbedQuiet == ASSUME Typed, Quiet, Probed PROVE Quiet'
<1>1. /\ UNCHANGED <<contract, engine, up, moments, moves, question, names, look, row, health>>
      /\ opc = "probe" /\ look = {} /\ advice' = LiveAdvice
      /\ \/ opc' = "list" /\ question.command = "explain"
         \/ opc' = "done" /\ verdict' = "ok" /\ question.command = "onboard"
  BY DEF Probed, Ends, world, Typed, Stages
<1> SUFFICES ASSUME opc' # "idle", moves' = 0, up' PROVE SeenIsSo' /\ QuietReportIsTrue'
  BY <1>1, QuietIfSeen DEF Quiet
<1>2. SeenIsSo
  BY <1>1 DEF Quiet
<1>3. TrueAdvice'
  BY <1>1, <1>2, AdviceIsTrue
<1>4. SeenIsSo'
  BY <1>1, <1>2, <1>3, SameView DEF SeenIsSo, engine
<1> QED BY <1>1, <1>3, <1>4 DEF QuietReportIsTrue

\* Every service logs has crossed off had its container; the one it stops at has
\* none.
LEMMA LogsQuiet == ASSUME Typed, Quiet, LogsOne \/ LogsDone PROVE Quiet'
<1>1. /\ UNCHANGED <<contract, engine, up, moments, moves, question, names, row, health>>
      /\ opc = "logs" /\ question.command = "logs" /\ look \subseteq Observed
  BY DEF LogsOne, LogsDone, world, Typed, Stages
<1> SUFFICES ASSUME opc' # "idle", moves' = 0, up' PROVE SeenIsSo' /\ QuietReportIsTrue'
  BY <1>1, QuietIfSeen DEF Quiet
<1>2. SeenIsSo /\ up
  BY <1>1 DEF Quiet
<1>3. CASE LogsOne
  <2> DEFINE s == Earliest(look)
  <2>1. s \in look
    BY <1>3, FirstOne DEF LogsOne, Typed, ObserveTypeOK
  <2>2. \/ CName[s] \in Present /\ look' = look \ {s} /\ opc' = "logs"
        \/ CName[s] \notin Present /\ opc' = "done" /\ verdict' = "error"
    BY <1>1, <1>2, <1>3 DEF LogsOne, Ends
  <2> HIDE DEF s
  <2>3. SeenIsSo'
    BY <1>1, <1>2, <2>1, <2>2, SameView DEF SeenIsSo, engine
  <2>4. opc' = "done" => ((verdict' = "ok") <=> (\A z \in Observed' : CName[z] \in Present'))
    BY <1>1, <2>1, <2>2, SameView
  <2> QED BY <1>1, <2>3, <2>4 DEF QuietReportIsTrue
<1>4. CASE LogsDone
  <2>1. opc' = "done" /\ verdict' = "ok" /\ look = {}
    BY <1>4 DEF LogsDone, Ends
  <2>2. SeenIsSo'
    BY <1>1, <1>2, <2>1, SameView DEF SeenIsSo, engine
  <2>3. \A z \in Observed' : CName[z] \in Present'
    BY <1>1, <1>2, <2>1, SameView DEF SeenIsSo
  <2> QED BY <1>1, <2>1, <2>2, <2>3 DEF QuietReportIsTrue
<1> QED BY <1>3, <1>4

LEMMA QuietInductive == ASSUME Typed, Quiet, [ObserveNext]_observeVars PROVE Quiet'
<1>1. ASSUME NEW s \in Service, ProbeSkipped(s) \/ ProbeSucceeds(s) \/ ProbeFails(s) PROVE Quiet'
  BY <1>1, ProbeQuiet
<1>2. CASE ContainersChange \/ EngineChanges
  <2>1. moves' # 0 /\ UNCHANGED row
    BY <1>2 DEF ContainersChange, EngineChanges, Moves, observer, Typed, ObserveTypeOK
  <2> QED BY <2>1, QuietIfSeen DEF Quiet
<1>3. CASE UNCHANGED observeVars
  <2>1. UNCHANGED <<contract, engine, up, moments, moves, opc, question, names, look, row, health,
                    verdict, advice>>
    BY <1>3 DEF observeVars, observer, world
  <2>2. SeenIsSo => SeenIsSo'
    BY <2>1, SameView, SameAdvice DEF SeenIsSo, engine
  <2>3. Extras' = Extras
    BY <2>1, SameView DEF Extras
  <2>4. QuietReportIsTrue'
    <3>1. [s \in Observed |-> StateOf(ctr, CName[s])]' = [s \in Observed |-> StateOf(ctr, CName[s])]
      BY <2>1, SameView
    <3>2. /\ (\A s \in Observed : Works(s))' = (\A s \in Observed : Works(s))
          /\ (\A s \in Observed : CName[s] \in Present)' = (\A s \in Observed : CName[s] \in Present)
          /\ Strays' = Strays /\ Refused(question)' = Refused(question) /\ TrueAdvice' = TrueAdvice
      BY <2>1, SameView, SameAdvice
    <3> QED BY <2>1, <2>3, <3>1, <3>2 DEF Quiet, QuietReportIsTrue
  <2> QED BY <2>1, <2>2, <2>4, QuietIfSeen DEF Quiet
<1> QED
  BY <1>1, <1>2, <1>3, StartQuiet, ListQuiet, InspectQuiet, InspectedQuiet, ProbedQuiet, LogsQuiet
     DEF ObserveNext, Observation

\* While nothing changes, the many looks of a command are as good as one (ComputeDrift,
\* NextActions, ps, logs): diff reports drift exactly if there is some, explain and
\* onboard recommend what is due, ps shows every state, logs fails exactly if a
\* container is missing.
THEOREM QuietReports == ObserveSpec => []QuietReportIsTrue
<1>1. ObserveInit => Typed /\ Quiet
  BY TypedAtFirst, QuietAtFirst
<1>2. Typed /\ Quiet /\ [ObserveNext]_observeVars => (Typed /\ Quiet)'
  BY TypedStep, QuietInductive
<1>3. Typed /\ Quiet => QuietReportIsTrue
  BY DEF Quiet
<1> QED BY <1>1, <1>2, <1>3, PTL DEF ObserveSpec
=============================================================================
