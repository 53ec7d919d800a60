------------------------- MODULE ServiceGraphProofs -------------------------
(***************************************************************************)
(* Proofs about the selection loop and Kahn's algorithm of module          *)
(* ServiceGraph, for every contract graph.                                 *)
(***************************************************************************)
EXTENDS ServiceGraph, FiniteSetTheorems, SequenceTheorems, TLAPS

\* The dependencies that service v still waits for.
Unmet(v) == Inside(v) \ Placed

\* The sort is under way or over.
Sorting == pc \in {"pop", "ok", "cycle"}

SelectionInv ==
  /\ pc \in {"expand", "build"} => order = << >> /\ q = {}
  /\ pc = "select" => order = << >> /\ q = {} /\ sub = {}
  /\ pc # "select" /\ pc # "inactive" => Seeds \subseteq sub
  /\ pc = "expand" => Partial /\ dependents
  /\ pc \in {"build", "pop", "unknown", "ok", "cycle"} => ClosedSelection(sub)
  /\ pc # "select" /\ pc # "inactive" =>
       \A T \in SUBSET base : ClosedSelection(T) => sub \subseteq T
  /\ pc \in {"inactive", "unknown"} => order = << >>

\* The queue holds exactly what has no unmet dependency and is not placed yet; a
\* cycle never gets a foot in the door.
KahnInv ==
  Sorting =>
    /\ \A v \in sub : inDegree[v] = Cardinality(Unmet(v))
    /\ q = {v \in sub \ Placed : inDegree[v] = 0}
    /\ \A C \in SUBSET sub : (\A v \in C : deps[v] \cap C # {}) => C \cap Placed = {}

VerdictInv ==
  /\ pc \in {"ok", "cycle"} => q = {}
  /\ pc = "ok" => Len(order) = Cardinality(sub)
  /\ pc = "cycle" => Len(order) # Cardinality(sub)

\* What has been placed before the i-th service.
Prefix(i) == {order[j] : j \in 1 .. i - 1}

\* Nothing that could have been placed in the i-th place comes earlier by name.
GreedyInv ==
  \A i \in 1 .. Len(order) : \A v \in sub \ Prefix(i) :
    Inside(v) \subseteq Prefix(i) => order[i] <= v

\* A base that is not empty and lacks a root is refused, and nothing else is.
TargetInv ==
  /\ pc = "inactive" => base # {} /\ ~ (roots \subseteq base)
  /\ pc \notin {"select", "inactive"} => base = {} \/ roots \subseteq base

IInv ==
  /\ TypeOK /\ SelectionInv /\ KahnInv /\ VerdictInv
  /\ OrderRespectsDeps /\ NoServiceTwice

-----------------------------------------------------------------------------
\* A finite non-empty set of numbers has a least element, so the head of the
\* re-sorted queue is a member of it.
LEMMA LeastIsMember ==
  ASSUME NEW S, S \subseteq Int, IsFiniteSet(S), S # {}
  PROVE  Least(S) \in S /\ \A y \in S : Least(S) <= y
<1> DEFINE below(x) == {y \in S : y <= x}
           T == {below(x) : x \in S}
<1>1. T \subseteq FiniteSubsetsOf(S)
  BY FS_Subset DEF FiniteSubsetsOf
<1>2. T # {}
  OBVIOUS
<1>3. IsWellFoundedOn(StrictSubsetOrdering(S), FiniteSubsetsOf(S))
  BY FS_StrictSubsetOrderingWellFounded
<1> HIDE DEF T
<1>4. PICK t \in T : \A u \in T : <<u, t>> \notin StrictSubsetOrdering(S)
  BY <1>1, <1>2, <1>3, WFMin
<1>5. PICK x \in S : t = below(x)
  BY DEF T
<1>6. \A y \in S : x <= y
  <2> SUFFICES ASSUME NEW y \in S, ~ (x <= y)
               PROVE  FALSE
    OBVIOUS
  <2>1. y < x /\ x \in Int /\ y \in Int
    OBVIOUS
  <2>2. below(y) \in T
    BY DEF T
  <2>3. below(y) \subseteq below(x) /\ below(y) # below(x)
    <3>1. x \in below(x) /\ x \notin below(y)
      BY <2>1
    <3>2. ASSUME NEW z \in S, z <= y PROVE z <= x
      <4>1. z \in Int
        OBVIOUS
      <4> QED BY <4>1, <2>1, <3>2
    <3> QED BY <3>1, <3>2
  <2>4. below(y) \in SUBSET S /\ below(x) \in SUBSET S
    OBVIOUS
  <2>5. <<below(y), below(x)>> \in StrictSubsetOrdering(S)
    BY <2>3, <2>4 DEF StrictSubsetOrdering
  <2> QED BY <2>2, <2>5, <1>4, <1>5
<1> QED BY <1>6 DEF Least

\* What placing one more service does to the order.
LEMMA PlaceOne ==
  ASSUME NEW S, NEW o \in Seq(S), NEW u \in S
  PROVE  /\ Append(o, u) \in Seq(S)
         /\ Len(Append(o, u)) = Len(o) + 1
         /\ \A i \in 1 .. Len(o) : Append(o, u)[i] = o[i]
         /\ Append(o, u)[Len(o) + 1] = u
         /\ {Append(o, u)[i] : i \in 1 .. Len(Append(o, u))}
              = {o[i] : i \in 1 .. Len(o)} \cup {u}
<1>1. Len(o) \in Nat
  OBVIOUS
<1>2. /\ Append(o, u) \in Seq(S)
      /\ Len(Append(o, u)) = Len(o) + 1
      /\ \A i \in 1 .. Len(o) : Append(o, u)[i] = o[i]
      /\ Append(o, u)[Len(o) + 1] = u
  OBVIOUS
<1>3. 1 .. Len(o) + 1 = (1 .. Len(o)) \cup {Len(o) + 1}
  BY <1>1
<1>4. ASSUME NEW i \in 1 .. Len(o) + 1
      PROVE  Append(o, u)[i] \in {o[j] : j \in 1 .. Len(o)} \cup {u}
  BY <1>2, <1>3
<1>5. ASSUME NEW i \in 1 .. Len(o)
      PROVE  \E j \in 1 .. Len(o) + 1 : Append(o, u)[j] = o[i]
  BY <1>2, <1>3
<1>6. \E j \in 1 .. Len(o) + 1 : Append(o, u)[j] = u
  BY <1>1, <1>2
<1> QED BY <1>2, <1>4, <1>5, <1>6

\* Without duplicates the order is as long as the set of placed services.
LEMMA PlacedCount ==
  ASSUME TypeOK, NoServiceTwice
  PROVE  Cardinality(Placed) = Len(order)
<1>1. Len(order) \in Nat
  BY DEF TypeOK
<1> DEFINE f == [i \in 1 .. Len(order) |-> order[i]]
<1>2. f \in Bijection(1 .. Len(order), Placed)
  <2>1. f \in [1 .. Len(order) -> Placed]
    BY DEF Placed
  <2>2. \A i, j \in 1 .. Len(order) : f[i] = f[j] => i = j
    BY DEF NoServiceTwice
  <2>3. \A t \in Placed : \E i \in 1 .. Len(order) : f[i] = t
    BY DEF Placed
  <2> QED BY <2>1, <2>2, <2>3 DEF Bijection, Injection, Surjection, IsInjective
<1> QED BY <1>1, <1>2, FS_CountingElements DEF ExistsBijection

LEMMA FiniteSelection ==
  ASSUME TypeOK
  PROVE  /\ IsFiniteSet(sub) /\ sub \subseteq Int
         /\ Placed \subseteq sub
         /\ \A v : IsFiniteSet(Inside(v)) /\ IsFiniteSet(Unmet(v))
<1>1. IsFiniteSet(sub)
  BY NodeAssumption, FS_Subset DEF TypeOK
<1>2. Placed \subseteq sub
  BY DEF TypeOK, Placed
<1>3. \A v : Inside(v) \in SUBSET sub /\ Unmet(v) \in SUBSET sub
  BY DEF Inside, Unmet
<1> QED BY <1>1, <1>2, <1>3, FS_Subset, NodeAssumption DEF TypeOK

-----------------------------------------------------------------------------
LEMMA InitEstablishes == Init => IInv
<1> SUFFICES ASSUME Init PROVE IInv
  OBVIOUS
<1> USE DEF Init
<1>1. TypeOK
  BY DEF TypeOK, Verdict
<1>2. SelectionInv /\ KahnInv /\ VerdictInv
  BY DEF SelectionInv, KahnInv, VerdictInv, Sorting
<1>3. OrderRespectsDeps /\ NoServiceTwice
  BY DEF OrderRespectsDeps, NoServiceTwice
<1> QED BY <1>1, <1>2, <1>3 DEF IInv

\* Selecting targets and expanding them only concerns the selection.
LEMMA SelectPreserves ==
  ASSUME IInv, RefuseTarget \/ SelectTargets \/ ExpandPass
  PROVE  IInv'
<1> USE DEF IInv, input
<1>1. order' = order /\ q' = q /\ order = << >> /\ q = {} /\ UNCHANGED input
  BY DEF RefuseTarget, SelectTargets, ExpandPass, SelectionInv
<1>2. TypeOK'
  <2>1. CASE RefuseTarget
    BY <2>1 DEF RefuseTarget, TypeOK, Verdict
  <2>2. CASE SelectTargets
    BY <2>2, <1>1 DEF SelectTargets, TypeOK, Partial
  <2>3. CASE ExpandPass
    BY <2>3, <1>1 DEF ExpandPass, TypeOK, Downstream
  <2> QED BY <2>1, <2>2, <2>3
<1>3. SelectionInv'
  <2>1. CASE RefuseTarget
    BY <2>1, <1>1 DEF RefuseTarget, SelectionInv
  <2>2. CASE SelectTargets
    <3>1. sub' = Seeds /\ Seeds' = Seeds
      BY <2>2 DEF SelectTargets, Seeds, Partial, TypeOK
    <3>2. pc' \in {"expand", "build"}
      BY <2>2 DEF SelectTargets
    <3>3. (pc' = "expand") <=> (Partial /\ dependents)
      BY <2>2 DEF SelectTargets
    <3>4. \A T : ClosedSelection(T)' => sub' \subseteq T
      BY <3>1 DEF ClosedSelection
    <3>5. pc' = "build" => ClosedSelection(sub)'
      BY <3>1, <3>3, <1>1 DEF ClosedSelection, Partial
    <3> QED BY <3>1, <3>2, <3>3, <3>4, <3>5, <1>1 DEF SelectionInv, Partial
  <2>3. CASE ExpandPass
    <3>1. /\ pc = "expand" /\ Partial /\ dependents
          /\ sub' = sub \cup Downstream(sub)
          /\ pc' = IF Downstream(sub) \subseteq sub THEN "build" ELSE "expand"
      BY <2>3 DEF ExpandPass, SelectionInv
    <3>2. Seeds' = Seeds /\ Partial' = Partial /\ \A T : Downstream(T)' = Downstream(T)
      BY <1>1 DEF Seeds, Partial, Downstream
    <3>3. Seeds' \subseteq sub'
      BY <3>1, <3>2 DEF SelectionInv
    <3>4. pc' = "build" => sub' = sub /\ ClosedSelection(sub)'
      <4> SUFFICES ASSUME pc' = "build" PROVE sub' = sub /\ ClosedSelection(sub)'
        OBVIOUS
      <4>1. sub' = sub /\ Downstream(sub) \subseteq sub
        BY <3>1
      <4> QED BY <4>1, <3>2, <3>3 DEF ClosedSelection, Downstream
    <3>5. ASSUME NEW T \in SUBSET base', ClosedSelection(T)'
          PROVE  sub' \subseteq T
      <4>1. ClosedSelection(T) /\ T \in SUBSET base
        BY <3>2, <3>5, <1>1 DEF ClosedSelection
      <4>2. sub \subseteq T
        BY <4>1, <3>1 DEF SelectionInv
      <4>3. Downstream(sub) \subseteq Downstream(T)
        BY <4>2 DEF Downstream
      <4>4. Downstream(T) \subseteq T
        BY <4>1, <3>1 DEF ClosedSelection
      <4> QED BY <3>1, <4>2, <4>3, <4>4
    <3> QED BY <3>1, <3>2, <3>3, <3>4, <3>5, <1>1 DEF SelectionInv, Partial
  <2> QED BY <2>1, <2>2, <2>3
<1>4. KahnInv' /\ VerdictInv'
  <2>1. pc' \notin {"pop", "ok", "cycle"}
    BY DEF RefuseTarget, SelectTargets, ExpandPass
  <2> QED BY <2>1 DEF KahnInv, VerdictInv, Sorting
<1>5. OrderRespectsDeps' /\ NoServiceTwice'
  BY <1>1 DEF OrderRespectsDeps, NoServiceTwice
<1> QED BY <1>2, <1>3, <1>4, <1>5

\* Counting the edges establishes the sort's invariant.
LEMMA BuildPreserves ==
  ASSUME IInv, UnknownDependency \/ Build
  PROVE  IInv'
<1> USE DEF IInv, input
<1>1. order' = order /\ order = << >> /\ sub' = sub /\ UNCHANGED input
  BY DEF UnknownDependency, Build, SelectionInv
<1>2. Placed = {} /\ Placed' = {}
  BY <1>1 DEF Placed
<1>3. SelectionInv'
  <2>1. Seeds' = Seeds /\ \A T : ClosedSelection(T)' <=> ClosedSelection(T)
    BY <1>1 DEF Seeds, ClosedSelection, Partial, Downstream
  <2>2. pc = "build" /\ pc' \in {"unknown", "pop"}
    BY DEF UnknownDependency, Build
  <2> QED BY <1>1, <2>1, <2>2 DEF SelectionInv
<1>4. OrderRespectsDeps' /\ NoServiceTwice' /\ VerdictInv'
  BY <1>1 DEF OrderRespectsDeps, NoServiceTwice, VerdictInv, UnknownDependency, Build
<1>5. CASE UnknownDependency
  <2>1. TypeOK'
    BY <1>5, <1>1 DEF UnknownDependency, TypeOK, Verdict
  <2>2. KahnInv'
    BY <1>5 DEF UnknownDependency, KahnInv, Sorting
  <2> QED BY <2>1, <2>2, <1>3, <1>4
<1>6. CASE Build
  <2>1. \A v : Cardinality(Inside(v)) \in Nat
    BY FiniteSelection, FS_CardinalityType
  <2>2. TypeOK'
    <3>1. inDegree' \in [Node -> Int]
      BY <2>1, <1>6 DEF Build
    <3>2. q' \in SUBSET sub' /\ order' \in Seq(sub') /\ pc' = "pop"
      BY <1>6, <1>1 DEF Build
    <3> QED BY <3>1, <3>2, <1>1 DEF TypeOK
  <2>3. \A v \in sub : Unmet(v)' = Inside(v)
    BY <1>1, <1>2 DEF Unmet, Inside
  <2>4. \A v \in sub : inDegree'[v] = Cardinality(Inside(v))
    BY <1>6 DEF Build, TypeOK
  <2>5. KahnInv'
    BY <2>3, <2>4, <1>1, <1>2, <1>6 DEF KahnInv, Build
  <2> QED BY <2>2, <2>5, <1>3, <1>4
<1> QED BY <1>5, <1>6

\* Placing the head of the queue keeps it.
LEMMA PopPreserves ==
  ASSUME IInv, Pop
  PROVE  IInv'
<1> USE DEF IInv, input
<1> DEFINE u == Least(q)
           next == {v \in sub : u \in deps[v]}
<1>1. /\ pc = "pop" /\ pc' = pc /\ UNCHANGED input /\ sub' = sub
      /\ order' = Append(order, u)
      /\ inDegree' = [v \in Node |-> IF v \in next THEN inDegree[v] - 1 ELSE inDegree[v]]
      /\ q' = (q \ {u}) \cup {v \in next : inDegree'[v] = 0}
  BY DEF Pop
<1>2. u \in q
  BY FiniteSelection, LeastIsMember, FS_Subset DEF Pop, TypeOK
<1>3. /\ \A v \in sub : inDegree[v] = Cardinality(Unmet(v))
      /\ q = {v \in sub \ Placed : inDegree[v] = 0}
      /\ \A C \in SUBSET sub : (\A v \in C : deps[v] \cap C # {}) => C \cap Placed = {}
  BY <1>1 DEF KahnInv, Sorting
<1>4. u \in sub /\ u \notin Placed /\ inDegree[u] = 0
  BY <1>2, <1>3
<1>5. Inside(u) \subseteq Placed
  <2>1. Cardinality(Unmet(u)) = 0 /\ IsFiniteSet(Unmet(u))
    BY <1>3, <1>4, FiniteSelection
  <2>2. Unmet(u) = {}
    BY <2>1, FS_EmptySet
  <2> QED BY <2>2 DEF Unmet
<1>6. /\ order \in Seq(sub) /\ Len(order) \in Nat
      /\ order' \in Seq(sub)
      /\ Len(order') = Len(order) + 1
      /\ \A i \in 1 .. Len(order) : order'[i] = order[i]
      /\ order'[Len(order) + 1] = u
      /\ Placed' = Placed \cup {u}
  <2>1. order \in Seq(sub) /\ Len(order) \in Nat
    BY DEF TypeOK
  <2> HIDE DEF u
  <2> QED BY <2>1, <1>1, <1>4, PlaceOne DEF Placed
<1>7. \A v : Inside(v)' = Inside(v)
  BY <1>1 DEF Inside
<1> HIDE DEF u
<1>8. OrderRespectsDeps'
  <2> SUFFICES ASSUME NEW i \in 1 .. Len(order'), NEW d \in Inside(order'[i])
               PROVE  \E j \in 1 .. i - 1 : order'[j] = d
    BY <1>7 DEF OrderRespectsDeps
  <2>1. CASE i \in 1 .. Len(order)
    <3>1. PICK j \in 1 .. i - 1 : order[j] = d
      BY <2>1, <1>6 DEF OrderRespectsDeps
    <3> QED BY <3>1, <2>1, <1>6
  <2>2. CASE i = Len(order) + 1
    <3>1. PICK j \in 1 .. Len(order) : order[j] = d
      BY <2>2, <1>5, <1>6 DEF Placed
    <3> QED BY <3>1, <2>2, <1>6
  <2> QED BY <2>1, <2>2, <1>6
<1>9. NoServiceTwice'
  <2>1. \A i \in 1 .. Len(order) : order[i] # u
    BY <1>4 DEF Placed
  <2> SUFFICES ASSUME NEW i \in 1 .. Len(order'), NEW j \in 1 .. Len(order'),
                      order'[i] = order'[j]
               PROVE  i = j
    BY DEF NoServiceTwice
  <2>2. CASE i \in 1 .. Len(order) /\ j \in 1 .. Len(order)
    BY <2>2, <1>6 DEF NoServiceTwice
  <2>3. CASE i = Len(order) + 1 \/ j = Len(order) + 1
    BY <2>1, <2>3, <1>6
  <2> QED BY <2>2, <2>3, <1>6
<1>10. ASSUME NEW v \in sub
       PROVE  /\ Unmet(v)' = Unmet(v) \ {u}
              /\ inDegree'[v] = Cardinality(Unmet(v)')
              /\ v \in next => inDegree[v] > 0
  <2>1. Unmet(v)' = Unmet(v) \ {u}
    BY <1>6, <1>7 DEF Unmet
  <2>2. v \in next <=> u \in Unmet(v)
    BY <1>4 DEF Unmet, Inside
  <2>3. IsFiniteSet(Unmet(v)) /\ v \in Node
    BY FiniteSelection DEF TypeOK
  <2>4. Cardinality(Unmet(v) \ {u}) =
          IF u \in Unmet(v) THEN Cardinality(Unmet(v)) - 1 ELSE Cardinality(Unmet(v))
    BY <2>3, FS_RemoveElement
  <2>5. Cardinality(Unmet(v)) \in Nat /\ (u \in Unmet(v) => Cardinality(Unmet(v)) # 0)
    BY <2>3, FS_CardinalityType, FS_EmptySet
  <2>6. inDegree'[v] = IF v \in next THEN inDegree[v] - 1 ELSE inDegree[v]
    BY <1>1, <2>3
  <2> QED BY <2>1, <2>2, <2>4, <2>5, <2>6, <1>3
<1>11. q' = {v \in sub \ Placed' : inDegree'[v] = 0}
  <2>1. ASSUME NEW v \in q' PROVE v \in sub \ Placed' /\ inDegree'[v] = 0
    <3>1. CASE v \in q /\ v # u
      <4>1. v \in sub /\ v \notin Placed /\ inDegree[v] = 0
        BY <3>1, <1>3
      <4>2. v \notin next
        BY <4>1, <1>10
      <4>3. inDegree'[v] = inDegree[v]
        BY <4>1, <4>2, <1>1 DEF TypeOK
      <4> QED BY <4>1, <4>3, <3>1, <1>6
    <3>2. CASE v \in next /\ inDegree'[v] = 0
      <4>1. v \notin Placed
        <5> SUFFICES ASSUME v \in Placed PROVE FALSE
          OBVIOUS
        <5>1. PICK i \in 1 .. Len(order) : order[i] = v
          BY DEF Placed
        <5>2. u \in Inside(order[i])
          BY <5>1, <3>2, <1>4 DEF Inside
        <5>3. PICK j \in 1 .. i - 1 : order[j] = u
          BY <5>2 DEF OrderRespectsDeps
        <5>4. j \in 1 .. Len(order)
          BY <1>6, <5>3
        <5> QED BY <5>3, <5>4, <1>4 DEF Placed
      <4>2. v # u
        BY <3>2, <1>4, <1>5 DEF Inside
      <4> QED BY <4>1, <4>2, <3>2, <1>6
    <3> QED BY <2>1, <3>1, <3>2, <1>1
  <2>2. ASSUME NEW v \in sub \ Placed', inDegree'[v] = 0 PROVE v \in q'
    <3>1. v \in sub /\ v \notin Placed /\ v # u
      BY <1>6
    <3>2. CASE v \in next
      BY <3>2, <2>2, <1>1
    <3>3. CASE v \notin next
      <4>1. inDegree[v] = 0
        BY <3>1, <3>3, <2>2, <1>1 DEF TypeOK
      <4> QED BY <4>1, <3>1, <1>1, <1>3
    <3> QED BY <3>2, <3>3
  <2> QED BY <2>1, <2>2
<1>12. ASSUME NEW C \in SUBSET sub, \A v \in C : deps[v] \cap C # {}
       PROVE  C \cap Placed' = {}
  <2>1. C \cap Placed = {}
    BY <1>3, <1>12
  <2>2. u \notin C
    <3> SUFFICES ASSUME u \in C PROVE FALSE
      OBVIOUS
    <3>1. PICK d \in C : d \in deps[u]
      BY <1>12
    <3>2. d \in Placed
      BY <3>1, <1>5 DEF Inside
    <3> QED BY <3>1, <3>2, <2>1
  <2> QED BY <2>1, <2>2, <1>6
<1>13. KahnInv'
  BY <1>1, <1>10, <1>11, <1>12 DEF KahnInv
<1>14. TypeOK'
  <2>1. inDegree' \in [Node -> Int]
    BY <1>1 DEF TypeOK
  <2>2. q' \in SUBSET sub'
    BY <1>1, <1>11
  <2> QED BY <2>1, <2>2, <1>1, <1>6 DEF TypeOK
<1>15. SelectionInv'
  <2>1. Seeds' = Seeds /\ \A T : ClosedSelection(T)' <=> ClosedSelection(T)
    BY <1>1 DEF Seeds, ClosedSelection, Partial, Downstream
  <2> QED BY <2>1, <1>1 DEF SelectionInv
<1>16. VerdictInv'
  BY <1>1 DEF VerdictInv
<1> QED BY <1>8, <1>9, <1>13, <1>14, <1>15, <1>16

LEMMA FinishPreserves ==
  ASSUME IInv, Finish
  PROVE  IInv'
<1> USE DEF IInv, Finish, input
<1>1. TypeOK'
  BY DEF TypeOK, Verdict
<1>2. SelectionInv'
  <2>1. Seeds' = Seeds /\ \A T : ClosedSelection(T)' <=> ClosedSelection(T)
    BY DEF Seeds, ClosedSelection, Partial, Downstream
  <2> QED BY <2>1 DEF SelectionInv
<1>3. KahnInv'
  <2>1. Placed' = Placed /\ \A v : Unmet(v)' = Unmet(v)
    BY DEF Placed, Unmet, Inside
  <2> QED BY <2>1 DEF KahnInv, Sorting
<1>4. VerdictInv' /\ OrderRespectsDeps' /\ NoServiceTwice'
  BY DEF VerdictInv, OrderRespectsDeps, NoServiceTwice, Inside
<1> QED BY <1>1, <1>2, <1>3, <1>4

LEMMA StutterPreserves ==
  ASSUME IInv, UNCHANGED vars
  PROVE  IInv'
<1> USE DEF IInv, vars, input
<1>1. /\ Seeds' = Seeds /\ \A T : ClosedSelection(T)' <=> ClosedSelection(T)
      /\ Placed' = Placed /\ \A v : Unmet(v)' = Unmet(v) /\ Inside(v)' = Inside(v)
  BY DEF Seeds, ClosedSelection, Partial, Downstream, Placed, Unmet, Inside
<1>2. TypeOK'
  BY DEF TypeOK
<1>3. VerdictInv' /\ OrderRespectsDeps' /\ NoServiceTwice'
  <2>1. VerdictInv' /\ NoServiceTwice'
    BY DEF VerdictInv, NoServiceTwice
  <2>2. OrderRespectsDeps'
    BY <1>1 DEF OrderRespectsDeps
  <2> QED BY <2>1, <2>2
<1>4. SelectionInv' /\ KahnInv'
  BY <1>1 DEF SelectionInv, KahnInv, Sorting, Partial
<1> QED BY <1>2, <1>3, <1>4

THEOREM Invariance == Spec => []IInv
<1>1. IInv /\ [Next]_vars => IInv'
  BY SelectPreserves, BuildPreserves, PopPreserves, FinishPreserves, StutterPreserves DEF Next
<1> QED BY <1>1, InitEstablishes, PTL DEF Spec

-----------------------------------------------------------------------------
\* The types of the variables, whatever the graph.
THEOREM TypeCorrect == Spec => []TypeOK
BY Invariance, PTL DEF IInv

\* Every command works on exactly the services the user asked for.
THEOREM SelectionCorrect == Spec => []SelectionIsLeast
<1>1. IInv => SelectionIsLeast
  BY DEF IInv, SelectionInv, SelectionIsLeast, Verdict
<1> QED BY <1>1, Invariance, PTL

\* No service is placed before one of its selected dependencies.
THEOREM OrderCorrect == Spec => []OrderRespectsDeps
BY Invariance, PTL DEF IInv

\* No service is placed twice.
THEOREM OrderHasNoDuplicates == Spec => []NoServiceTwice
BY Invariance, PTL DEF IInv

\* "dependency cycle detected" is reported exactly when there is one.
THEOREM CycleDetection == Spec => []CycleVerdict
<1>1. ASSUME IInv, pc = "ok" PROVE ~ HasCycle /\ Placed = sub
  <2>1. Placed = sub
    <3>1. Cardinality(Placed) = Cardinality(sub)
      BY <1>1, PlacedCount DEF IInv, VerdictInv
    <3> QED BY <1>1, <3>1, FiniteSelection, FS_Subset DEF IInv
  <2>2. ~ HasCycle
    <3> SUFFICES ASSUME NEW C \in (SUBSET sub) \ {{}}, \A v \in C : deps[v] \cap C # {}
                 PROVE  FALSE
      BY DEF HasCycle
    <3>1. C \cap Placed = {}
      BY <1>1 DEF IInv, KahnInv, Sorting
    <3> QED BY <2>1, <3>1
  <2> QED BY <2>1, <2>2
<1>2. ASSUME IInv, pc = "cycle" PROVE HasCycle
  <2> DEFINE C == sub \ Placed
  <2>1. C # {}
    <3>1. Cardinality(Placed) = Len(order) /\ Len(order) # Cardinality(sub)
      BY <1>2, PlacedCount DEF IInv, VerdictInv
    <3>2. Placed # sub
      BY <3>1
    <3> QED BY <1>2, <3>2, FiniteSelection DEF IInv
  <2>2. ASSUME NEW v \in C PROVE deps[v] \cap C # {}
    <3>1. inDegree[v] # 0 /\ inDegree[v] = Cardinality(Unmet(v))
      BY <1>2, <2>2 DEF IInv, KahnInv, Sorting, VerdictInv
    <3>2. Unmet(v) # {}
      BY <3>1, FS_EmptySet
    <3> QED BY <3>2 DEF Unmet, Inside
  <2> QED BY <2>1, <2>2 DEF HasCycle
<1>3. IInv => CycleVerdict
  BY <1>1, <1>2 DEF CycleVerdict
<1> QED BY <1>3, Invariance, PTL

-----------------------------------------------------------------------------
LEMMA TargetPreserves ==
  ASSUME TargetInv, [Next]_vars
  PROVE  TargetInv'
BY DEF TargetInv, Next, vars, input, RefuseTarget, SelectTargets, ExpandPass,
       UnknownDependency, Build, Pop, Finish

\* The queue holds everything that is ready, and the least of it is placed.
LEMMA GreedyPreserves ==
  ASSUME IInv, GreedyInv, [Next]_vars
  PROVE  GreedyInv'
<1> USE DEF IInv
<1>1. ASSUME order' = order, order = << >>
      PROVE  GreedyInv'
  BY <1>1 DEF GreedyInv
<1>2. ASSUME order' = order, sub' = sub, deps' = deps
      PROVE  GreedyInv'
  <2>1. \A i : Prefix(i)' = Prefix(i)
    BY <1>2 DEF Prefix
  <2>2. \A v : Inside(v)' = Inside(v)
    BY <1>2 DEF Inside
  <2> QED BY <2>1, <2>2, <1>2 DEF GreedyInv
<1>3. CASE RefuseTarget \/ SelectTargets \/ ExpandPass
  BY <1>3, <1>1 DEF RefuseTarget, SelectTargets, ExpandPass, SelectionInv
<1>4. CASE UnknownDependency \/ Build \/ Finish \/ UNCHANGED vars
  BY <1>4, <1>2 DEF UnknownDependency, Build, Finish, vars, input
<1>5. CASE Pop
  <2> DEFINE u == Least(q)
  <2>1. /\ pc = "pop" /\ q # {} /\ sub' = sub /\ deps' = deps
        /\ order' = Append(order, u)
    BY <1>5 DEF Pop, input
  <2>2. u \in q /\ (\A y \in q : u <= y) /\ u \in sub
    BY <2>1, FiniteSelection, LeastIsMember, FS_Subset DEF TypeOK
  <2>3. q = {v \in sub \ Placed : inDegree[v] = 0}
    BY <2>1 DEF KahnInv, Sorting
  <2>4. ASSUME NEW v \in sub \ Placed, Inside(v) \subseteq Placed
        PROVE  u <= v
    <3>1. Unmet(v) = {}
      BY <2>4 DEF Unmet
    <3>2. inDegree[v] = Cardinality(Unmet(v))
      BY <2>1, <2>4 DEF KahnInv, Sorting
    <3>3. v \in q
      BY <3>1, <3>2, <2>3, <2>4, FS_EmptySet
    <3> QED BY <3>3, <2>2
  <2>5. /\ order \in Seq(sub) /\ Len(order) \in Nat
        /\ Len(order') = Len(order) + 1
        /\ \A i \in 1 .. Len(order) : order'[i] = order[i]
        /\ order'[Len(order) + 1] = u
    <3>1. order \in Seq(sub) /\ Len(order) \in Nat
      BY DEF TypeOK
    <3> HIDE DEF u
    <3> QED BY <3>1, <2>1, <2>2, PlaceOne
  <2> HIDE DEF u
  <2>6. ASSUME NEW i \in 1 .. Len(order) + 1
        PROVE  Prefix(i)' = Prefix(i)
    <3>1. 1 .. i - 1 \subseteq 1 .. Len(order)
      BY <2>5
    <3>2. \A j \in 1 .. i - 1 : order'[j] = order[j]
      BY <3>1, <2>5
    <3> QED BY <3>2 DEF Prefix
  <2>7. Prefix(Len(order) + 1) = Placed
    <3>1. 1 .. (Len(order) + 1) - 1 = 1 .. Len(order)
      BY <2>5
    <3> QED BY <3>1 DEF Prefix, Placed
  <2>8. \A v : Inside(v)' = Inside(v)
    BY <2>1 DEF Inside
  <2> SUFFICES ASSUME NEW i \in 1 .. Len(order'), NEW v \in sub' \ Prefix(i)',
                      Inside(v)' \subseteq Prefix(i)'
               PROVE  order'[i] <= v
    BY DEF GreedyInv
  <2>9. v \in sub \ Prefix(i) /\ Inside(v) \subseteq Prefix(i)
    BY <2>1, <2>5, <2>6, <2>8
  <2>10. CASE i \in 1 .. Len(order)
    BY <2>10, <2>9, <2>5 DEF GreedyInv
  <2>11. CASE i = Len(order) + 1
    BY <2>11, <2>9, <2>7, <2>4, <2>5
  <2> QED BY <2>10, <2>11, <2>5
<1> QED BY <1>3, <1>4, <1>5 DEF Next

\* The sort is greedy and the targets are checked, on every path.
THEOREM GreedyInvariance == Spec => [](IInv /\ GreedyInv /\ TargetInv)
<1>1. Init => GreedyInv /\ TargetInv
  BY DEF Init, GreedyInv, TargetInv
<1>2. IInv /\ GreedyInv /\ TargetInv /\ [Next]_vars => GreedyInv' /\ TargetInv'
  BY GreedyPreserves, TargetPreserves
<1> QED BY <1>1, <1>2, Invariance, PTL DEF Spec

\* The deploy order is the first of all dependency orders in name order, so it
\* does not depend on the iteration order of Go's maps, whatever the graph: at
\* the first place where another order differs, its service was ready too.
THEOREM OrderDeterminism == Spec => []OrderIsDeterministic
<1>1. ASSUME IInv, GreedyInv, NEW p \in [1 .. Len(order) -> sub], IsDependencyOrder(p),
             p # order
      PROVE  Before(order, p)
  <2>1. order \in Seq(sub) /\ Len(order) \in Nat /\ sub \subseteq Int
    BY <1>1, FiniteSelection DEF IInv, TypeOK
  <2>2. order \in [1 .. Len(order) -> sub] /\ DOMAIN order = 1 .. Len(order)
    BY <2>1
  <2> DEFINE D == {i \in 1 .. Len(order) : p[i] # order[i]}
  <2>3. D # {}
    BY <2>2, <1>1
  <2>4. D \subseteq Int /\ IsFiniteSet(D)
    <3>1. IsFiniteSet(1 .. Len(order)) /\ D \in SUBSET (1 .. Len(order))
      BY <2>1, FS_Interval
    <3>2. D \subseteq Int
      BY <2>1
    <3> HIDE DEF D
    <3> QED BY <3>1, <3>2, FS_Subset
  <2> HIDE DEF D
  <2>5. PICK i \in D : \A j \in D : i <= j
    BY <2>3, <2>4, LeastIsMember
  <2>6. i \in 1 .. Len(order) /\ p[i] # order[i]
    BY <2>5 DEF D
  <2>7. \A j \in 1 .. i - 1 : j \in 1 .. Len(order) /\ order[j] = p[j]
    <3> SUFFICES ASSUME NEW j \in 1 .. i - 1
                 PROVE  j \in 1 .. Len(order) /\ order[j] = p[j]
      OBVIOUS
    <3>1. j \in 1 .. Len(order) /\ ~ (i <= j)
      BY <2>1, <2>6
    <3> QED BY <3>1, <2>5 DEF D
  <2>8. Inside(p[i]) \subseteq Prefix(i)
    <3> SUFFICES ASSUME NEW d \in Inside(p[i]) PROVE d \in Prefix(i)
      OBVIOUS
    <3>1. PICK j \in 1 .. i - 1 : p[j] = d
      BY <1>1, <2>6 DEF IsDependencyOrder
    <3> QED BY <3>1, <2>7 DEF Prefix
  <2>9. p[i] \notin Prefix(i)
    <3> SUFFICES ASSUME NEW j \in 1 .. i - 1, order[j] = p[i] PROVE FALSE
      BY DEF Prefix
    <3>1. p[j] = p[i] /\ j \in 1 .. Len(order) /\ j # i
      BY <2>7, <2>6, <2>1
    <3> QED BY <3>1, <1>1, <2>6 DEF IsDependencyOrder
  <2>10. order[i] <= p[i] /\ order[i] \in Int /\ p[i] \in Int
    <3>1. p[i] \in sub /\ order[i] \in sub
      BY <2>2, <2>6
    <3> QED BY <3>1, <2>1, <2>6, <2>8, <2>9, <1>1 DEF GreedyInv
  <2>11. order[i] < p[i]
    BY <2>10, <2>6
  <2> QED BY <2>2, <2>6, <2>7, <2>11 DEF Before
<1>2. IInv /\ GreedyInv => OrderIsDeterministic
  BY <1>1 DEF OrderIsDeterministic
<1> QED BY <1>2, GreedyInvariance, PTL

-----------------------------------------------------------------------------
\* The loop of ServicesForDeployTargets and ExpandDependentsTransitive computes
\* the selection that Deploy, Teardown and Observe take from module Contract.
THEOREM SelectionAgreement == Spec => []SelectionAgrees
<1>1. ASSUME IInv, TargetInv PROVE SelectionAgrees
  <2> USE <1>1 DEF IInv
  <2>1. base \in SUBSET Node /\ roots \in SUBSET Node /\ sub \in SUBSET base
    BY DEF TypeOK
  <2>2. pc = "inactive" => ~ CT!TargetsAreActive(base, roots)
    BY DEF TargetInv, CT!TargetsAreActive
  <2>3. ASSUME pc \in {"build", "pop"}
        PROVE  /\ CT!TargetsAreActive(base, roots)
               /\ sub = CT!ObservabilityActiveServices(AsContract, {}, roots, dependents)
    <3>1. base = {} \/ roots \subseteq base
      BY <2>3 DEF TargetInv
    <3>2. CT!ServicesForProfiles(AsContract, {}) = base
      BY <2>1 DEF CT!ServicesForProfiles, CT!IsIncluded, AsContract
    <3>3. \A z \in base : CT!DependsOn(AsContract, z) = deps[z]
      <4> SUFFICES ASSUME NEW z \in base PROVE CT!DependsOn(AsContract, z) = deps[z]
        OBVIOUS
      <4>1. AsContract.deps[z] = {[service |-> d, condition |-> "started"] : d \in deps[z]}
        BY <2>1 DEF AsContract
      <4>2. CT!DependsOn(AsContract, z) = {d.service : d \in AsContract.deps[z]}
        BY DEF CT!DependsOn
      <4>3. ASSUME NEW d \in deps[z]
            PROVE  d \in {e.service : e \in AsContract.deps[z]}
        <5>1. [service |-> d, condition |-> "started"] \in AsContract.deps[z]
          BY <4>1
        <5>2. [service |-> d, condition |-> "started"].service = d
          OBVIOUS
        <5> QED BY <5>1, <5>2
      <4>4. ASSUME NEW e \in AsContract.deps[z]
            PROVE  e.service \in deps[z]
        BY <4>1, <4>4
      <4> QED BY <4>2, <4>3, <4>4
    <3>4. \A S : CT!DirectDependents(AsContract, base, S) = Downstream(S)
      BY <3>3 DEF CT!DirectDependents, Downstream
    <3>5. /\ Seeds \subseteq sub /\ ClosedSelection(sub)
          /\ \A T \in SUBSET base : ClosedSelection(T) => sub \subseteq T
      BY <2>3 DEF SelectionInv
    <3> DEFINE seeds == CT!ServicesForDeployTargets(base, roots)
    <3>6. seeds = Seeds
      BY <3>1, <2>1 DEF CT!ServicesForDeployTargets, Seeds, Partial
    <3>7. Seeds \subseteq base
      BY DEF Seeds
    <3>8. CASE roots # {} /\ dependents /\ seeds # {}
      <4> DEFINE closed == {T \in SUBSET (base \cup seeds) :
                              seeds \subseteq T /\ CT!DirectDependents(AsContract, base, T) \subseteq T}
      <4>1. closed = {T \in SUBSET base : ClosedSelection(T)}
        BY <3>4, <3>6, <3>7, <3>8 DEF ClosedSelection, Partial
      <4>2. sub = {s \in base \cup seeds : \A T \in closed : s \in T}
        BY <4>1, <3>5, <3>6, <3>7, <2>1
      <4>3. CT!ExpandDependentsTransitive(AsContract, base, seeds) = sub
        BY <4>2, <3>8 DEF CT!ExpandDependentsTransitive
      <4> QED BY <4>3, <3>1, <3>2, <3>8
              DEF CT!ObservabilityActiveServices, CT!TargetsAreActive
    <3>9. CASE roots # {} /\ dependents /\ seeds = {}
      <4>1. base = {} /\ sub = {}
        BY <3>9, <3>1, <2>1 DEF CT!ServicesForDeployTargets
      <4>2. CT!ExpandDependentsTransitive(AsContract, base, seeds) = {}
        BY <3>9 DEF CT!ExpandDependentsTransitive
      <4> QED BY <4>1, <4>2, <3>1, <3>2, <3>9
              DEF CT!ObservabilityActiveServices, CT!TargetsAreActive
    <3>10. CASE ~ (roots # {} /\ dependents)
      <4>1. ClosedSelection(Seeds)
        BY <3>10 DEF ClosedSelection, Partial
      <4>2. sub = Seeds
        BY <4>1, <3>5, <3>7
      <4> QED BY <4>2, <3>1, <3>2, <3>6, <3>10
              DEF CT!ObservabilityActiveServices, CT!TargetsAreActive
    <3> QED BY <3>8, <3>9, <3>10
  <2> QED BY <2>2, <2>3 DEF SelectionAgrees
<1> QED BY <1>1, GreedyInvariance, PTL
=============================================================================
