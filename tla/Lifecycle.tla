----------------------------- MODULE Lifecycle ------------------------------
(***************************************************************************)
(* deploy and down on one project: modules Deploy and Teardown over the    *)
(* same engine and contract file.  Both are separate processes; nothing    *)
(* keeps them from running at the same time.                               *)
(***************************************************************************)
EXTENDS Teardown, Sequences

CONSTANTS Uses, ExecProbed, Commands, Overlap, Editable, None    \* those of Deploy

VARIABLES
  pc, ctx, pos, todo, cur, seen, gated, receipts,    \* those of Deploy
  overlapped  \* history: the runs that were ever in progress together with another

D == INSTANCE Deploy

ASSUME LifecycleAssumption == D!DeployAssumption

deploy == <<pc, ctx, pos, todo, cur, seen, gated, receipts>>
vars == <<engine, file, deploy, down, overlapped>>

Active == {r \in Run : pc[r] \in D!Busy} \cup {d \in Down : stage[d] \in Tearing}

Init == D!Init /\ DownInit /\ overlapped = {}

\* History only: nothing depends on it.
Witness ==
  overlapped' = IF Cardinality(Active') > 1 THEN overlapped \cup Active' ELSE overlapped

DownNext(d) ==
  /\ DownEvent(d) \/ DownStep(d, Active # {d})
  /\ UNCHANGED <<file, deploy>>

Next ==
  /\ \/ D!Next /\ UNCHANGED down
     \/ \E d \in Down : DownNext(d)
  /\ Witness

Spec == Init /\ [][Next]_vars
-----------------------------------------------------------------------------
\* What the command line of a down run names: everything without service names,
\* else the named services and, with --dependents, what is downstream of them.
Asked(d) ==
  LET cmd  == job[d].cmd
      base == ServicesForProfiles(job[d].c, cmd.profiles)
  IN  IF cmd.roots = {} THEN Service
      ELSE IF cmd.dependents THEN ExpandDependentsTransitive(job[d].c, base, cmd.roots)
      ELSE cmd.roots

\* "optional trailing arguments are service names for partial teardown"
\* (cmd/podbay/lifecycle.go): whoever is at work at the same time, a service's
\* container is replaced or removed only by a run that was asked for that service.
NobodyElseTouched ==
  [][\A s \in Service :
       D!ContainerId(s)' # D!ContainerId(s) =>
         \/ \E r \in Run : pc[r] \in D!Busy /\ s \in ctx[r].active
         \/ \E d \in Down : stage[d] = "remove" /\ s \in Asked(d)]_vars

\* Data goes only with --volumes and without service names, and never before the
\* containers of the project that hold on to it.
DataKept ==
  [][\A v \in vols \ vols' :
       /\ ~ InUse(v)
       /\ \E d \in Down : stage[d] = "volumes" /\ job[d].cmd.volumes /\ job[d].cmd.roots = {}]_vars

\* A full down that nobody interfered with and that ends with exit code 0 and no
\* warning leaves no container of the project, none of its own networks unless
\* told to keep them, and no volume if told to remove those ("list/remove failure"
\* is exit code 1: cmd/podbay/lifecycle.go).
CleanSlate ==
  [][\A d \in Down \ overlapped' :
       /\ stage[d] \in Tearing /\ stage'[d] = "done"
       /\ job[d].cmd.roots = {} /\ ~ result'[d].engineWarning
       => /\ \A n \in Name : ctr'[n] = Absent
          /\ job[d].cmd.keepNetwork \/ result'[d].warning \/ OwnNets \cap nets' = {}
          /\ job[d].cmd.volumes => vols' = {}]_vars

\* Networks are kept on request or for the neighbours' sake, and only then: a run
\* told to keep them removes none, a partial one leaves those it finds in use.
NetworksKept ==
  [][\A n \in nets \ nets' :
       /\ n \notin ExtNet
       /\ ~ InUse(n)
       /\ \E d \in Down : stage[d] = "networks" /\ ~ job[d].cmd.keepNetwork]_vars
=============================================================================
