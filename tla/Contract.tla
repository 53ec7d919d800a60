------------------------------ MODULE Contract ------------------------------
(***************************************************************************)
(* A podbay contract as the commands see it: which services exist, who     *)
(* depends on whom and how, and which of them a command line selects       *)
(* (internal/spec: contract.go, profiles.go, graph.go).                    *)
(*                                                                         *)
(* A contract is a record                                                  *)
(*   services : the service names of the "services:" map                   *)
(*   deps     : for each of them the set of its depends_on entries         *)
(*   profiles : for each of them its "profiles:" list                      *)
(*   probed   : the services whose health block has an HTTP or exec probe  *)
(***************************************************************************)
EXTENDS Naturals, FiniteSets

\* The two normalised values of depends_on.condition.
Condition == {"started", "healthy"}

\* One depends_on entry.
Dependency(Service) == [service : Service, condition : Condition]

IsContract(c, Service, Profile) ==
  c \in [services : SUBSET Service,
         deps     : [Service -> SUBSET Dependency(Service)],
         profiles : [Service -> SUBSET Profile],
         probed   : SUBSET Service]

\* The services s depends on, whatever the condition.
DependsOn(c, s) == {d.service : d \in c.deps[s]}

\* A service without profiles always runs, one with profiles only when a
\* requested profile matches.
IsIncluded(c, s, profiles) ==
  c.profiles[s] = {} \/ c.profiles[s] \cap profiles # {}

ServicesForProfiles(c, profiles) ==
  {s \in c.services : IsIncluded(c, s, profiles)}

\* Naming a service outside the profile-active set is an error; an empty base
\* is returned before that check.
TargetsAreActive(base, roots) == base = {} \/ roots \subseteq base

ServicesForDeployTargets(base, roots) ==
  IF base = {} \/ roots = {} THEN base ELSE roots

\* The members of base that depend on a member of S.
DirectDependents(c, base, S) == {z \in base : DependsOn(c, z) \cap S # {}}

\* What the loop that adds direct dependents until a pass adds none computes:
\* the smallest set with the seeds that nobody in base is downstream of.  (Module
\* ServiceGraph has the loop itself.)
ExpandDependentsTransitive(c, base, seeds) ==
  LET closed == {T \in SUBSET (base \cup seeds) :
                   seeds \subseteq T /\ DirectDependents(c, base, T) \subseteq T}
  IN  IF seeds = {} THEN seeds ELSE {s \in base \cup seeds : \A T \in closed : s \in T}

\* What a command works on: everything profile-active, or the named roots and,
\* with --dependents, whatever is downstream of them.
ObservabilityActiveServices(c, profiles, roots, dependents) ==
  LET base == ServicesForProfiles(c, profiles)
      sub  == ServicesForDeployTargets(base, roots)
  IN  IF roots # {} /\ dependents
      THEN ExpandDependentsTransitive(c, base, sub)
      ELSE sub
=============================================================================
