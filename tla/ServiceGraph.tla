---------------------------- MODULE ServiceGraph ----------------------------
(***************************************************************************)
(* What every command does with the contract's graph before it touches     *)
(* anything (internal/spec/graph.go): select the services to work on, loop *)
(* by loop, and order them by Kahn's algorithm.  A full run sorts with     *)
(* TopologicalOrder, which refuses a dependency outside the selection; a   *)
(* partial one with TopologicalOrderSubset, which ignores such edges.      *)
(*                                                                         *)
(* Services are numbers, the rank of their names in sort.Strings order.    *)
(* The queue is re-sorted after every pop, so the code's q[0] is the least *)
(* member of the set q.                                                    *)
(***************************************************************************)
EXTENDS Integers, Sequences, FiniteSets

CONSTANT Node            \* ranks of the service names of the contract

ASSUME NodeAssumption == Node \subseteq Int /\ IsFiniteSet(Node)

VARIABLES
  deps,                  \* depends_on of every service
  base,                  \* the profile-active services
  roots,                 \* services named on the command line
  dependents,            \* --dependents
  pc,                    \* "select", "expand", "build", "pop" or a verdict
  sub,                   \* the selection
  inDegree,              \* unmet dependencies of every service
  q,                     \* services ready to be placed
  order                  \* the services placed so far

input == <<deps, base, roots, dependents>>
vars == <<input, pc, sub, inDegree, q, order>>

Verdict == {"ok", "inactive", "unknown", "cycle"}

Partial == roots # {}

\* Mutant: dependents that no requested profile includes are taken along.
DownstreamAnyProfile(S) == {z \in Node : deps[z] \cap S # {}}

\* The members of base that list a member of S under depends_on.
Downstream(S) == {z \in base : deps[z] \cap S # {}}

\* The edges of adj into v: dependencies that take part in the sort.
Inside(v) == deps[v] \cap sub

Placed == {order[i] : i \in 1 .. Len(order)}

\* Mutant: the queue is served from its end.
Greatest(S) == CHOOSE x \in S : \A y \in S : x >= y

Least(S) == CHOOSE x \in S : \A y \in S : x <= y

-----------------------------------------------------------------------------
Init ==
  /\ deps \in [Node -> SUBSET Node]
  /\ base \in SUBSET Node
  /\ roots \in SUBSET Node
  /\ dependents \in BOOLEAN
  /\ pc = "select"
  /\ sub = {}
  /\ inDegree = [v \in Node |-> 0]
  /\ q = {}
  /\ order = << >>

\* ServicesForDeployTargets: a root outside a non-empty base is refused.
RefuseTarget ==
  /\ pc = "select"
  /\ base # {} /\ ~ (roots \subseteq base)
  /\ pc' = "inactive"
  /\ UNCHANGED <<input, sub, inDegree, q, order>>

SelectTargets ==
  /\ pc = "select"
  /\ base = {} \/ roots \subseteq base
  /\ sub' = IF base = {} \/ ~ Partial THEN base ELSE roots
  /\ pc' = IF Partial /\ dependents THEN "expand" ELSE "build"
  /\ UNCHANGED <<input, inDegree, q, order>>

\* Mutant: direct dependents only.
ExpandOnce ==
  /\ pc = "expand"
  /\ sub' = sub \cup Downstream(sub)
  /\ pc' = "build"
  /\ UNCHANGED <<input, inDegree, q, order>>

\* Mutant: the loop waits until everything is selected.
ExpandUntilAll ==
  /\ pc = "expand"
  /\ sub' = sub \cup Downstream(sub)
  /\ pc' = IF sub' = base THEN "build" ELSE "expand"
  /\ UNCHANGED <<input, inDegree, q, order>>

\* One pass of ExpandDependentsTransitive; the pass that adds nothing is the last.
ExpandPass ==
  /\ pc = "expand"
  /\ LET toAdd == Downstream(sub) \ sub
     IN  /\ sub' = sub \cup toAdd
         /\ pc' = IF toAdd = {} THEN "build" ELSE "expand"
  /\ UNCHANGED <<input, inDegree, q, order>>

\* A dependency outside the selection: TopologicalOrder gives up.
UnknownDependency ==
  /\ pc = "build"
  /\ ~ Partial
  /\ \E v \in sub : ~ (deps[v] \subseteq sub)
  /\ pc' = "unknown"
  /\ UNCHANGED <<input, sub, inDegree, q, order>>

\* Count the edges into every service and queue the services that have none.
Build ==
  /\ pc = "build"
  /\ Partial \/ \A v \in sub : deps[v] \subseteq sub
  /\ pc' = "pop"
  /\ inDegree' = [v \in Node |-> IF v \in sub THEN Cardinality(Inside(v)) ELSE 0]
  /\ q' = {v \in sub : inDegree'[v] = 0}
  /\ UNCHANGED <<input, sub, order>>

\* Mutant: whatever waits for the placed service is released at once.
PopReleasesAll ==
  /\ pc = "pop"
  /\ q # {}
  /\ LET u    == Least(q)
         next == {v \in sub : u \in deps[v]}
     IN  /\ order' = Append(order, u)
         /\ inDegree' = [v \in Node |-> IF v \in next THEN inDegree[v] - 1 ELSE inDegree[v]]
         /\ q' = (q \ {u}) \cup next
  /\ UNCHANGED <<input, sub, pc>>

\* One turn of the loop: place the first queued service u, release the services
\* that waited for it alone.
Pop ==
  /\ pc = "pop"
  /\ q # {}
  /\ LET u    == Least(q)
         next == {v \in sub : u \in deps[v]}
     IN  /\ order' = Append(order, u)
         /\ inDegree' = [v \in Node |-> IF v \in next THEN inDegree[v] - 1 ELSE inDegree[v]]
         /\ q' = (q \ {u}) \cup {v \in next : inDegree'[v] = 0}
  /\ UNCHANGED <<input, sub, pc>>

\* Mutant: the number of placed services is not compared.
FinishUnchecked ==
  /\ pc = "pop"
  /\ q = {}
  /\ pc' = "ok"
  /\ UNCHANGED <<input, sub, inDegree, q, order>>

Finish ==
  /\ pc = "pop"
  /\ q = {}
  /\ pc' = IF Len(order) = Cardinality(sub) THEN "ok" ELSE "cycle"
  /\ UNCHANGED <<input, sub, inDegree, q, order>>

Next ==
  \/ RefuseTarget \/ SelectTargets \/ ExpandPass
  \/ UnknownDependency \/ Build \/ Pop \/ Finish

Spec == Init /\ [][Next]_vars /\ WF_vars(Next)

-----------------------------------------------------------------------------
TypeOK ==
  /\ deps \in [Node -> SUBSET Node]
  /\ base \in SUBSET Node
  /\ roots \in SUBSET Node
  /\ dependents \in BOOLEAN
  /\ pc \in {"select", "expand", "build", "pop"} \cup Verdict
  /\ sub \in SUBSET base
  /\ inDegree \in [Node -> Int]
  /\ q \in SUBSET sub
  /\ order \in Seq(sub)

\* T contains the selection's seeds and everything downstream of a member.
Seeds == IF Partial THEN roots \cap base ELSE base

ClosedSelection(T) ==
  Seeds \subseteq T /\ (Partial /\ dependents => Downstream(T) \subseteq T)

\* A command works on exactly what the user asked for: the smallest set that
\* contains the named services and, with --dependents, everything downstream of
\* its members -- nothing it has no business touching, nothing left behind.
SelectionIsLeast ==
  pc \in {"build", "pop"} \cup (Verdict \ {"inactive"}) =>
    /\ ClosedSelection(sub)
    /\ \A T \in SUBSET base : ClosedSelection(T) => sub \subseteq T

CT == INSTANCE Contract

\* The graph as a contract in which base is all there is.
AsContract ==
  [services |-> base,
   deps     |-> [v \in Node |-> {[service |-> d, condition |-> "started"] : d \in deps[v]}],
   profiles |-> [v \in Node |-> {}],
   probed   |-> {}]

\* Deploy and Teardown select with the operators of module Contract: these
\* compute what the loops of graph.go compute.
SelectionAgrees ==
  /\ pc = "inactive" => ~ CT!TargetsAreActive(base, roots)
  /\ pc \in {"build", "pop"} =>
       /\ CT!TargetsAreActive(base, roots)
       /\ sub = CT!ObservabilityActiveServices(AsContract, {}, roots, dependents)

\* Deploy order is dependency order: a service is placed only after every
\* dependency of it that is part of the selection, whatever the graph.
OrderRespectsDeps ==
  \A i \in 1 .. Len(order) : \A d \in Inside(order[i]) :
    \E j \in 1 .. i - 1 : order[j] = d

\* No service is placed, and hence started, twice.
NoServiceTwice ==
  \A i, j \in 1 .. Len(order) : order[i] = order[j] => i = j

\* "dependency cycle detected" is never a false alarm, and a cycle never goes
\* unnoticed: the sort fails with it exactly when some of the selected services
\* can only wait for each other.
HasCycle == \E C \in (SUBSET sub) \ {{}} : \A v \in C : deps[v] \cap C # {}

CycleVerdict ==
  /\ pc = "cycle" => HasCycle
  /\ pc = "ok" => ~ HasCycle /\ Placed = sub

\* The order does not depend on Go's map iteration: it is the first of all
\* dependency orders of the selection in name order.
IsDependencyOrder(o) ==
  /\ \A i, j \in DOMAIN o : o[i] = o[j] => i = j
  /\ \A i \in DOMAIN o : \A d \in Inside(o[i]) : \E j \in 1 .. i - 1 : o[j] = d

Before(o, p) ==
  \E i \in DOMAIN o : o[i] < p[i] /\ \A j \in 1 .. i - 1 : o[j] = p[j]

OrderIsDeterministic ==
  pc = "ok" =>
    \A p \in [1 .. Len(order) -> sub] :
      IsDependencyOrder(p) => p = order \/ Before(order, p)

\* Both loops end: every command gets its selection and order, or an error.
SelectionTerminates == <>(pc \in Verdict)
=============================================================================
