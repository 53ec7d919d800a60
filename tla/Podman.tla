------------------------------- MODULE Podman -------------------------------
(***************************************************************************)
(* The Podman engine as internal/runner uses it: named containers, networks*)
(* and volumes, each "podman ..." call one atomic change of them.  The     *)
(* engine is not podbay's code; everything here is what the calls in       *)
(* runner.go rely on.                                                      *)
(*                                                                         *)
(* A container is identified by the command run that created it: a run     *)
(* creates at most one container per name.                                 *)
(***************************************************************************)
EXTENDS Naturals, FiniteSets

CONSTANTS
  Run,        \* the podbay command runs (processes) of a behaviour
  Name,       \* container names of the project
  Net,        \* networks the contract declares, by Podman name
  ExtNet,     \* those of them declared external
  Vol,        \* volumes the contract declares, by Podman name
  Absent      \* the state of a name no container has

VARIABLES
  ctr,        \* Name -> container or Absent
  nets,       \* networks that exist
  vols        \* volumes that exist

engine == <<ctr, nets, vols>>

\* "created" is what a podman run that failed half-way leaves behind.  healthy:
\* the probe would succeed now.  uses: the networks and volumes it holds on to.
Container ==
  [by : Run, state : {"created", "running", "exited"}, healthy : BOOLEAN,
   uses : SUBSET (Net \cup Vol)]

ASSUME PodmanAssumption ==
  ExtNet \subseteq Net /\ Absent \notin Run /\ Absent \notin Container

EngineTypeOK ==
  /\ ctr \in [Name -> Container \cup {Absent}]
  /\ nets \subseteq Net
  /\ vols \subseteq Vol

\* A fresh project; external networks may have been made by the operator.
EngineInit ==
  /\ ctr = [n \in Name |-> Absent]
  /\ nets \in SUBSET ExtNet
  /\ vols = {}

IsRunning(n) == ctr[n] # Absent /\ ctr[n].state = "running"

\* What a health probe against the container (or its published port) finds.
IsHealthy(n) == IsRunning(n) /\ ctr[n].healthy

\* Podman refuses to remove a network or volume that a container holds on to.
InUse(x) == \E n \in Name : ctr[n] # Absent /\ x \in ctr[n].uses

-----------------------------------------------------------------------------
\* The containers' own life: no podbay command is involved in these.

Crash(n) ==
  /\ IsRunning(n)
  /\ ctr' = [ctr EXCEPT ![n].state = "exited", ![n].healthy = FALSE]
  /\ UNCHANGED <<nets, vols>>

\* restart: unless-stopped and the like.
Restart(n) ==
  /\ ctr[n] # Absent
  /\ ctr[n].state = "exited"
  /\ ctr' = [ctr EXCEPT ![n].state = "running"]
  /\ UNCHANGED <<nets, vols>>

\* The application becomes ready, or stops answering its probe.
HealthChange(n) ==
  /\ IsRunning(n)
  /\ ctr' = [ctr EXCEPT ![n].healthy = ~ @]
  /\ UNCHANGED <<nets, vols>>

EngineStep == \E n \in Name : Crash(n) \/ Restart(n) \/ HealthChange(n)
=============================================================================
