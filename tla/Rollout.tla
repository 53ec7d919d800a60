------------------------------- MODULE Rollout ------------------------------
(***************************************************************************)
(* What "podbay deploy" promises, without saying how: a run plans a set of *)
(* services, replaces their containers in an order that respects what each *)
(* of them needs, and leaves evidence.  Who owns a service's container     *)
(* changes only at the hands of a run that planned it, and only once all it*)
(* needs has been rolled out.  A run may stop at any point; nothing is     *)
(* undone then.  Module Deploy implements this (Deploy!Promise).           *)
(***************************************************************************)
EXTENDS FiniteSets

CONSTANTS
  Run,        \* deploy runs
  Service,    \* services
  Nothing     \* no owner, no plan, no evidence

VARIABLES
  status,     \* "idle", "rolling", "done", "stopped"
  plan,       \* what a rolling run is to replace, and what each of it needs
  rolled,     \* the part of the plan that is through
  owner,      \* whose container each service has
  evidence    \* "ok", "failed" or Nothing

vars == <<status, plan, rolled, owner, evidence>>

Plan == [services : SUBSET Service, needs : [Service -> SUBSET Service]]

Init ==
  /\ status = [r \in Run |-> "idle"]
  /\ plan = [r \in Run |-> Nothing]
  /\ rolled = [r \in Run |-> {}]
  /\ owner = [s \in Service |-> Nothing]
  /\ evidence = [r \in Run |-> Nothing]

Announce(r) ==
  /\ status[r] = "idle"
  /\ status' = [status EXCEPT ![r] = "rolling"]
  /\ \E p \in Plan : plan' = [plan EXCEPT ![r] = p]
  /\ UNCHANGED <<rolled, owner, evidence>>

Decline(r) ==
  /\ status[r] = "idle"
  /\ status' = [status EXCEPT ![r] = "stopped"]
  /\ UNCHANGED <<plan, rolled, owner, evidence>>

\* s is planned, not through yet, and everything it needs is.
Ready(r, s) ==
  /\ status[r] = "rolling"
  /\ s \in plan[r].services \ rolled[r]
  /\ plan[r].needs[s] \subseteq rolled[r]

\* Removing the old container, creating the new one, calling it rolled out.
Work(r, s) ==
  /\ Ready(r, s)
  /\ owner' \in {owner, [owner EXCEPT ![s] = Nothing], [owner EXCEPT ![s] = r]}
  /\ rolled' \in {rolled, [rolled EXCEPT ![r] = @ \cup {s}]}
  /\ UNCHANGED <<status, plan, evidence>>

\* The end of a run: the plan is forgotten.
Leave(r, how, proof) ==
  /\ status[r] = "rolling"
  /\ status' = [status EXCEPT ![r] = how]
  /\ plan' = [plan EXCEPT ![r] = Nothing]
  /\ rolled' = [rolled EXCEPT ![r] = {}]
  /\ \/ evidence' = evidence
     \/ evidence' = [evidence EXCEPT ![r] = proof]
  /\ UNCHANGED owner

Complete(r) ==
  /\ status[r] = "rolling"
  /\ rolled[r] = plan[r].services
  /\ Leave(r, "done", "ok")

Abandon(r) == Leave(r, "stopped", "failed")

Next ==
  \E r \in Run :
    \/ Announce(r) \/ Decline(r) \/ Complete(r) \/ Abandon(r)
    \/ \E s \in Service : Work(r, s)

Spec == Init /\ [][Next]_vars

-----------------------------------------------------------------------------
\* At every moment, and so wherever a run stops, what it has rolled out is
\* closed under what the services need.
ClosedUnderNeeds ==
  \A r \in Run : status[r] = "rolling" =>
    /\ rolled[r] \subseteq plan[r].services
    /\ \A s \in rolled[r] : plan[r].needs[s] \subseteq rolled[r]
=============================================================================
