------------------------------ MODULE Observe -------------------------------
(***************************************************************************)
(* The commands that only look: ps, diff, explain, onboard and logs        *)
(* (cmd/podbay/observability.go, onboard_cmd.go; internal/diff, explain,   *)
(* orientation, ps, logs and runtimestate).  Each looks several times, one *)
(* podman call or probe after the other, while other commands and the      *)
(* containers themselves go on: one action per look.                       *)
(***************************************************************************)
EXTENDS Contract, Podman

CONSTANTS
  Service, Profile,
  CName,      \* Service -> Name: podbay-<project>-<service>, sanitised
  SortedAs,   \* Service -> Nat: alphabetical order
  HTTPProbe,  \* services with an HTTP health probe
  ExecProbe,  \* services with an exec health probe
  Published,  \* services that publish a port
  Viewed,     \* contracts
  Questions,  \* command lines
  Initially,  \* the containers a command may find
  MaxMoves    \* how often something changes while a command looks (bound)

ASSUME ObserveAssumption ==
  /\ IsFiniteSet(Service) /\ CName \in [Service -> Name]
  /\ SortedAs \in [Service -> Nat]
  /\ \A s, z \in Service : SortedAs[s] = SortedAs[z] => s = z
  /\ \A c \in Viewed : IsContract(c, Service, Profile)
  /\ Questions \subseteq [command : {"diff", "ps", "explain", "onboard", "logs"},
                         profiles : SUBSET Profile, roots : SUBSET Service,
                         dependents : BOOLEAN, probes : BOOLEAN, json : BOOLEAN]
  /\ Initially \subseteq [Name -> Container \cup {Absent}]
  /\ MaxMoves \in Nat

VARIABLES
  contract,   \* the contract the command has loaded
  installed,  \* is there a podman binary?
  up,         \* does the engine answer?
  opc,        \* stage of the command
  question,   \* its command line
  names,      \* the project's containers in the podman ps answer
  look,       \* services still to look at in this stage, one by one
  row,        \* service -> what inspect found
  health,     \* service -> what its probes found: "yes", "no" or "unknown"
  verdict,    \* how the command ended
  advice,     \* next_actions
  moments,    \* every state of the containers since it started (history)
  batch,      \* did one podman inspect answer for all? (history)
  calm,       \* has the engine answered all along? (history)
  moves       \* changes so far

observer == <<opc, question, names, look, row, health, verdict, advice, batch>>
world == <<engine, installed, up, moments, calm, moves>>
observeVars == <<contract, observer, world>>

NoQuestion == [command |-> "none", profiles |-> {}, roots |-> {}, dependents |-> FALSE,
               probes |-> FALSE, json |-> FALSE]
NoAdvice == [gate |-> "none", focus |-> {}, tighten |-> FALSE]

Earliest(S) == CHOOSE s \in S : \A z \in S : SortedAs[s] <= SortedAs[z]

Base == ServicesForProfiles(contract, question.profiles)
Observed ==
  ObservabilityActiveServices(contract, question.profiles, question.roots, question.dependents)

\* What inspect says of a container.
StateOf(c, n) == IF c[n] = Absent THEN "missing" ELSE c[n].state
Present == {n \in Name : ctr[n] # Absent}

\* A service of the contract that cannot be seen on a first pass.
NeedsHandTighten(S) == \E s \in S : s \notin Published \/ s \notin HTTPProbe \cup ExecProbe

-----------------------------------------------------------------------------
\* The next actions, from what the command has seen.

Bad(s) == row[s] # "running" \/ health[s] = "no"

Advice(gate, focus, tighten) == [gate |-> gate, focus |-> focus, tighten |-> tighten]

\* Without podman: validate, deploy, diff, explain.
IdleAdvice(S) == Advice("idle", {}, NeedsHandTighten(S))

\* Deploy if nothing is there; logs of the first bad service; else look on.
LiveAdvice ==
  LET S == DOMAIN row
      bad == {s \in S : Bad(s)}
  IN  IF S # {} /\ \A s \in S : row[s] = "missing" THEN Advice("arrive", {}, NeedsHandTighten(S))
      ELSE IF bad # {} THEN Advice("repair", {Earliest(bad)}, FALSE)
      ELSE Advice("observe", {}, FALSE)

\* Mutant: containers of services that were not asked about are extra as well.
ExtrasOfObserved == names \ {CName[s] : s \in Observed}

\* Containers of the project that no profile-active service accounts for.
Extras == names \ {CName[s] : s \in Base}

DriftSeen == Extras # {} \/ \E s \in DOMAIN row : row[s] # "running"

-----------------------------------------------------------------------------
ObserveInit ==
  /\ contract \in Viewed
  /\ installed \in BOOLEAN
  /\ up \in BOOLEAN
  /\ up => installed
  /\ ctr \in Initially /\ nets = {} /\ vols = {}
  /\ opc = "idle"
  /\ question = NoQuestion
  /\ names = {}
  /\ look = {}
  /\ row = [s \in {} |-> "missing"]
  /\ health = [s \in {} |-> "unknown"]
  /\ verdict = "none"
  /\ advice = NoAdvice
  /\ moments = {}
  /\ batch = FALSE
  /\ calm = up
  /\ moves = 0

Ends(v) == opc' = "done" /\ verdict' = v

Refused(q) ==
  LET base == ServicesForProfiles(contract, q.profiles)
  IN  base = {} \/ ~ TargetsAreActive(base, q.roots)

\* The first stage: diff lists before it inspects, the others do not.
FirstLook(q) ==
  CASE q.command = "diff" -> "list"
    [] q.command = "logs" -> "logs"
    [] OTHER -> "inspect"

\* The selection is refused, or EnsurePodman finds no binary: only onboard
\* answers without it.
Start ==
  /\ opc = "idle"
  /\ \E q \in Questions :
       /\ question' = q
       /\ LET S == ObservabilityActiveServices(contract, q.profiles, q.roots, q.dependents)
          IN  IF Refused(q) \/ (~ installed /\ q.command # "onboard")
              THEN Ends("error") /\ UNCHANGED <<advice, look>>
              ELSE IF ~ installed
              THEN Ends("offline") /\ advice' = IdleAdvice(S) /\ UNCHANGED look
              ELSE opc' = FirstLook(q) /\ look' = S /\ UNCHANGED <<verdict, advice>>
  /\ moments' = {ctr}
  /\ calm' = up
  /\ UNCHANGED <<contract, engine, installed, up, names, row, health, batch, moves>>

\* Has a container gone since the command started?
Vanished == \E m \in moments, n \in Name : m[n] # Absent /\ ctr[n] = Absent

\* podman ps, retried once: an engine that does not answer is an error, which
\* only the text form of explain ignores (there it is the last look); a race
\* with a container that is going away reads as an empty list.
ListContainers ==
  /\ opc = "list"
  /\ \/ names' = IF up THEN Present ELSE names
     \/ up /\ Vanished /\ names' = {}
  /\ CASE question.command = "diff" /\ up -> opc' = "inspect" /\ UNCHANGED verdict
       [] question.command = "explain" /\ (up \/ ~ question.json) -> Ends("ok")
       [] OTHER -> Ends("error")
  /\ UNCHANGED <<contract, world, question, look, row, health, advice, batch>>

\* podman inspect with all names answers at once, if none of them is missing.
BatchInspect ==
  /\ opc = "inspect"
  /\ up /\ \A s \in look : CName[s] \in Present
  /\ row' = [s \in look |-> StateOf(ctr, CName[s])]
  /\ look' = {}
  /\ opc' = "one"
  /\ batch' = TRUE
  /\ UNCHANGED <<contract, world, question, names, health, verdict, advice>>

\* Mutant: what is not in the answer is missing, the answer of a failed one too.
BatchFailsAllMissing ==
  /\ opc = "inspect"
  /\ ~ up \/ \E s \in look : CName[s] \notin Present
  /\ row' = [s \in look |-> "missing"]
  /\ look' = {}
  /\ opc' = "one"
  /\ UNCHANGED <<contract, world, question, names, health, verdict, advice, batch>>

\* Otherwise they are inspected one by one.
BatchFails ==
  /\ opc = "inspect"
  /\ ~ up \/ \E s \in look : CName[s] \notin Present
  /\ opc' = "one"
  /\ UNCHANGED <<contract, world, question, names, look, row, health, verdict, advice, batch>>

\* Mutant: the service is not crossed off.
InspectOneAgain ==
  /\ opc = "one" /\ look # {}
  /\ LET s == Earliest(look)
     IN  row' = [z \in DOMAIN row \cup {s} |-> IF z \in DOMAIN row THEN row[z] ELSE StateOf(ctr, CName[s])]
  /\ UNCHANGED <<contract, world, opc, question, names, look, health, verdict, advice, batch>>

\* InspectContainer: whatever error podman reports, the container is missing.
InspectOne ==
  /\ opc = "one" /\ look # {}
  /\ LET s == Earliest(look)
         found == IF up THEN StateOf(ctr, CName[s]) ELSE "missing"
     IN  /\ row' = [z \in DOMAIN row \cup {s} |-> IF z = s THEN found ELSE row[z]]
         /\ look' = look \ {s}
  /\ UNCHANGED <<contract, world, opc, question, names, health, verdict, advice, batch>>

\* diff and ps have what they need, the others probe.
Inspected ==
  /\ opc = "one" /\ look = {}
  /\ CASE question.command = "ps" -> Ends("ok") /\ UNCHANGED look
       [] question.command = "diff" ->
            Ends(IF DriftSeen THEN "drift" ELSE "match") /\ UNCHANGED look
       [] OTHER -> opc' = "probe" /\ look' = DOMAIN row /\ UNCHANGED verdict
  /\ UNCHANGED <<contract, world, question, names, row, health, advice, batch>>

Finds(s, h) ==
  /\ health' = [z \in DOMAIN health \cup {s} |-> IF z = s THEN h ELSE health[z]]
  /\ look' = look \ {s}
  /\ UNCHANGED <<contract, world, opc, question, names, row, verdict, advice, batch>>

\* The probes of all services run at the same time.
Probes(s) ==
  /\ opc = "probe" /\ s \in look
  /\ question.probes /\ row[s] # "missing" /\ s \in HTTPProbe \cup ExecProbe

\* --no-probes, nothing to probe, no probe declared.
ProbeSkipped(s) ==
  /\ opc = "probe" /\ s \in look
  /\ ~ question.probes \/ row[s] = "missing" \/ s \notin HTTPProbe \cup ExecProbe
  /\ Finds(s, IF row[s] = "running" THEN "unknown" ELSE "no")

\* A container that was not running when it was inspected is not healthy,
\* whatever answers its URL now.
ProbeSucceeds(s) ==
  /\ Probes(s) /\ IsHealthy(CName[s])
  /\ Finds(s, IF row[s] = "running" THEN "yes" ELSE "no")

\* Mutant: the probe waits for an answer.
ProbeFailsNoDeadline(s) ==
  /\ Probes(s) /\ ~ IsRunning(CName[s])
  /\ Finds(s, "no")

\* A wrong answer, or none within explainProbeTimeout.
ProbeFails(s) ==
  /\ Probes(s) /\ ~ IsHealthy(CName[s])
  /\ Finds(s, "no")

\* All goroutines are done.
Probed ==
  /\ opc = "probe" /\ look = {}
  /\ advice' = LiveAdvice
  /\ IF question.command = "explain" THEN opc' = "list" /\ UNCHANGED verdict ELSE Ends("ok")
  /\ UNCHANGED <<contract, world, question, names, look, row, health, batch>>

\* podman logs, one service after the other; the first failure ends it.
LogsOne ==
  /\ opc = "logs" /\ look # {}
  /\ LET s == Earliest(look)
     IN  IF up /\ CName[s] \in Present
         THEN look' = look \ {s} /\ UNCHANGED <<opc, verdict>>
         ELSE Ends("error") /\ UNCHANGED look
  /\ UNCHANGED <<contract, world, question, names, row, health, advice, batch>>

LogsDone ==
  /\ opc = "logs" /\ look = {}
  /\ Ends("ok")
  /\ UNCHANGED <<contract, world, question, names, look, row, health, advice, batch>>

Observation ==
  \/ Start \/ ListContainers \/ BatchInspect \/ BatchFails \/ InspectOne \/ Inspected
  \/ \E s \in Service : ProbeSkipped(s) \/ ProbeSucceeds(s) \/ ProbeFails(s)
  \/ Probed \/ LogsOne \/ LogsDone

-----------------------------------------------------------------------------
\* What goes on meanwhile.

Moves ==
  /\ opc \notin {"idle", "done"} /\ moves < MaxMoves
  /\ moves' = moves + 1
  /\ UNCHANGED <<contract, installed, observer>>

\* Another command removes a container, or replaces it by a new one.
OtherCommand(n) ==
  /\ \/ ctr[n] # Absent /\ ctr' = [ctr EXCEPT ![n] = Absent]
     \/ \E r \in Run : ctr' = [ctr EXCEPT ![n] =
          [by |-> r, state |-> "running", healthy |-> FALSE, uses |-> {}]]
  /\ UNCHANGED <<nets, vols>>

ContainersChange ==
  /\ Moves
  /\ EngineStep \/ \E n \in Name : OtherCommand(n)
  /\ moments' = moments \cup {ctr'}
  /\ UNCHANGED <<up, calm>>

\* The engine (podman machine) stops answering, or answers again.
EngineChanges ==
  /\ Moves
  /\ installed
  /\ up' = ~ up
  /\ calm' = (calm /\ up')
  /\ UNCHANGED <<engine, moments>>

ObserveNext == Observation \/ ContainersChange \/ EngineChanges

ObserveSpec == ObserveInit /\ [][ObserveNext]_observeVars

-----------------------------------------------------------------------------
\* The variables keep their types; in every stage each observed service is
\* either still to be looked at or has its row.
ObserveTypeOK ==
  /\ EngineTypeOK
  /\ opc \in {"idle", "list", "inspect", "one", "probe", "logs", "done"}
  /\ question \in Questions \cup {NoQuestion}
  /\ names \subseteq Name /\ look \subseteq Service
  /\ \A s \in DOMAIN row : row[s] \in {"missing", "created", "running", "exited"}
  /\ \A s \in DOMAIN health : health[s] \in {"yes", "no", "unknown"}
  /\ verdict \in {"none", "ok", "error", "offline", "drift", "match"}
  /\ advice.focus \subseteq Service
  /\ opc = "one" => DOMAIN row \cap look = {} /\ DOMAIN row \cup look = Observed
  /\ opc = "probe" => DOMAIN health \cap look = {} /\ DOMAIN health \cup look = Observed
  /\ moves \in 0 .. MaxMoves

\* What somebody who sees everything at once would say of the services asked
\* about.
Works(s) == IsRunning(CName[s])
Serves(s) == Works(s) /\ (s \in HTTPProbe \cup ExecProbe => IsHealthy(CName[s]))
Strays == {n \in Name : ctr[n] # Absent /\ \A s \in Base : CName[s] # n}

TrueAdvice ==
  LET failing == {s \in Observed : IF question.probes THEN ~ Serves(s) ELSE ~ Works(s)}
  IN  IF Observed = {} \/ failing = {} THEN advice.gate = "observe"
      ELSE IF \A s \in Observed : CName[s] \notin Present THEN advice.gate = "arrive"
      ELSE advice.gate = "repair" /\ advice.focus = {Earliest(failing)}

\* As long as nothing changes while a command looks, its many looks are as good
\* as one: diff reports drift exactly if a service it was asked about does not
\* run or a container belongs to no profile-active service, asked about or not;
\* explain and onboard recommend deploy, repair of the first service that does
\* not serve, or observation, each exactly when it is due; ps shows every state
\* and logs fails exactly if a container is missing.
QuietReportIsTrue ==
  opc = "done" /\ moves = 0 /\ up /\ ~ Refused(question) =>
    CASE question.command = "diff" ->
           (verdict = "match") = (Strays = {} /\ \A s \in Observed : Works(s))
      [] question.command = "ps" ->
           row = [s \in Observed |-> StateOf(ctr, CName[s])]
      [] question.command \in {"explain", "onboard"} ->
           verdict = "ok" /\ TrueAdvice /\ (question.command = "explain" => Extras = Strays)
      [] question.command = "logs" ->
           (verdict = "ok") = (\A s \in Observed : CName[s] \in Present)

\* Whatever changes in between, nothing is made up: each row was true at some
\* moment of the command (missing may also mean an engine that did not answer),
\* all rows at the same moment if one inspect answered; what is called healthy
\* was, and what is called extra was there.
EveryClaimWasTrue ==
  opc = "done" =>
    /\ \A s \in DOMAIN row :
         \/ \E m \in moments : StateOf(m, CName[s]) = row[s]
         \/ row[s] = "missing" /\ ~ calm
    /\ batch => \E m \in moments : \A s \in DOMAIN row : StateOf(m, CName[s]) = row[s]
    /\ \A s \in DOMAIN health : health[s] = "yes" =>
         \E m \in moments : m[CName[s]] # Absent /\ m[CName[s]].healthy
    /\ \A n \in names : \E m \in moments : m[n] # Absent

\* Every command comes back, however the application it probes behaves: probes
\* have deadlines and podman calls return.
ObservationEnds == opc # "idle" ~> opc = "done"
=============================================================================
