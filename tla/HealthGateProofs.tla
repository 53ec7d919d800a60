-------------------------- MODULE HealthGateProofs --------------------------
(***************************************************************************)
(* Theorems about HealthGate, for every set of settings (durations of any  *)
(* sign and size) and all limits.                                          *)
(***************************************************************************)
EXTENDS HealthGate, TLAPS

\* The settings give durations.
LEMMA Durations ==
  ASSUME NEW s \in Settings
  PROVE  /\ StartPeriod(s) \in Int /\ Interval(s) \in Int
         /\ PerTry(s) \in Int /\ Retries(s) \in Nat \ {0}
         /\ s.cliMax \in Int /\ s.kind \in {"http", "exec"}
<1>1. s \in Setting
  BY HealthAssumption
<1>2. StartPeriod(s) \in Int
  BY <1>1 DEF StartPeriod, Given, Setting, Duration
<1>3. Given(s.interval, DefaultInterval) \in Int
  BY <1>1, HealthAssumption DEF Given, Setting, Duration
<1>4. Interval(s) \in Int
  BY <1>1, <1>3 DEF Interval, Given, Setting, Duration
<1>5. Given(s.timeout, DefaultTry) \in Int
  BY <1>1, HealthAssumption DEF Given, Setting, Duration
<1>6. PerTry(s) \in Int
  BY <1>1, <1>5 DEF PerTry, Given, Setting, Duration
<1>7. Retries(s) \in Nat \ {0}
  BY <1>1 DEF Retries, Setting
<1>8. s.cliMax \in Int /\ s.kind \in {"http", "exec"}
  BY <1>1 DEF Setting
<1> QED
  BY <1>2, <1>4, <1>6, <1>7, <1>8

LEMMA WantedType ==
  ASSUME NEW s \in Settings
  PROVE  Wanted(s) \in Int /\ Wanted(s) >= MinBudget
<1> DEFINE tries == (Retries(s) + 2) * Interval(s)
<1>1. tries \in Int
  BY Durations
<1>2. 2 * PerTry(s) \in Int
  BY Durations
<1>3. Wanted(s) = AtLeast(AtLeast(tries, 2 * PerTry(s)), MinBudget)
  BY DEF Wanted
<1> HIDE DEF tries
<1> QED
  BY <1>1, <1>2, <1>3, HealthAssumption DEF AtLeast

\* The total is a clamp (for one setting).
LEMMA TotalIsClamp ==
  ASSUME NEW s \in Settings
  PROVE  /\ Total(s) \in Int
         /\ Total(s) >= MinBudget
         /\ Total(s) =
              AtLeast(IF s.cliMax > 0 THEN AtMost(StartPeriod(s) + Wanted(s), s.cliMax)
                      ELSE StartPeriod(s) + Wanted(s), MinBudget)
<1>1. MinBudget \in Int
  BY HealthAssumption
<1> QED
  BY <1>1, Durations, WantedType DEF Total, ProbeBudget, AtLeast, AtMost

LEMMA PauseType ==
  ASSUME NEW s \in Settings
  PROVE  Pause(s) \in Nat \ {0}
BY Durations, HealthAssumption DEF Pause

LEMMA Bounds ==
  ASSUME NEW s \in Settings
  PROVE  /\ Total(s) \in Int /\ Pause(s) \in Nat \ {0} /\ ProbeLimit \in Nat
         /\ s.kind \in {"http", "exec"} /\ Total(s) > 0
<1>1. MinBudget \in Nat \ {0} /\ ProbeLimit \in Nat
  BY HealthAssumption
<1>2. Total(s) \in Int /\ Total(s) >= MinBudget
  BY TotalIsClamp
<1>3. Total(s) > 0
  BY <1>1, <1>2
<1> QED
  BY <1>1, <1>2, <1>3, PauseType, Durations

-----------------------------------------------------------------------------
\* Where the clock can be: a probe begins before the time is up, a sleep at most
\* one probe later.
ClockInv ==
  /\ phase = "poll" /\ h.kind = "http" => clock < Total(h) + ProbeLimit + Pause(h)
  /\ phase = "probing" =>
       since < Total(h) /\ (h.kind = "http" => clock <= since + ProbeLimit)
  /\ phase = "inspect" => since = clock /\ h.kind = "exec"
  /\ phase = "asleep" =>
       clock <= since + Pause(h) /\ (h.kind = "http" => since < Total(h) + ProbeLimit)
  /\ phase \in Ended => OvershootBounded

IInv == TypeOK /\ ClockInv

LEMMA Initially == Init => IInv
<1> SUFFICES ASSUME Init PROVE IInv
  OBVIOUS
<1>1. TypeOK
  BY DEF Init, TypeOK, Ended
<1>2. Total(h) \in Int /\ Total(h) > 0 /\ Pause(h) \in Nat \ {0} /\ ProbeLimit \in Nat
  BY Bounds DEF Init
<1>3. ClockInv
  BY <1>2 DEF Init, ClockInv, Ended
<1> QED
  BY <1>1, <1>3 DEF IInv

LEMMA Inductive == IInv /\ [Next]_vars => IInv'
<1> SUFFICES ASSUME IInv, [Next]_vars PROVE IInv'
  OBVIOUS
<1>0. /\ h \in Settings /\ clock \in Nat /\ since \in Nat /\ since <= clock
  BY DEF IInv, TypeOK
<1>a. /\ Total(h) \in Int /\ Pause(h) \in Nat \ {0} /\ ProbeLimit \in Nat
      /\ h.kind \in {"http", "exec"} /\ Total(h) > 0
  BY <1>0, Bounds
<1>1. TypeOK /\ ClockInv
  BY DEF IInv
<1>2. TypeOK'
  <2>1. CASE Try BY <2>1, <1>1, <1>0 DEF Try, TypeOK
  <2>2. CASE GiveUp BY <2>2, <1>1, <1>0 DEF GiveUp, TypeOK
  <2>3. CASE ProbeSucceeds BY <2>3, <1>1, <1>0 DEF ProbeSucceeds, TypeOK
  <2>4. CASE ProbeFails BY <2>4, <1>1, <1>0 DEF ProbeFails, TypeOK
  <2>5. CASE HTTPTimeout BY <2>5, <1>1, <1>0 DEF HTTPTimeout, TypeOK
  <2>6. CASE InspectExited BY <2>6, <1>1, <1>0 DEF InspectExited, TypeOK
  <2>7. CASE InspectOther BY <2>7, <1>1, <1>0 DEF InspectOther, TypeOK
  <2>8. CASE Wake BY <2>8, <1>1, <1>0 DEF Wake, TypeOK
  <2>9. CASE Tick BY <2>9, <1>1, <1>0 DEF Tick, TypeOK
  <2>10. CASE AppChanges BY <2>10, <1>1, <1>0 DEF AppChanges, TypeOK
  <2>11. CASE UNCHANGED vars BY <2>11, <1>1 DEF vars, TypeOK
  <2> QED BY <2>1, <2>2, <2>3, <2>4, <2>5, <2>6, <2>7, <2>8, <2>9, <2>10, <2>11 DEF Next, Step
<1>3. ClockInv'
  <2> USE DEF ClockInv, Ended, OvershootBounded
  <2>1. CASE Try BY <2>1, <1>1, <1>0, <1>a DEF Try
  <2>2. CASE GiveUp BY <2>2, <1>1, <1>0, <1>a DEF GiveUp
  <2>3. CASE ProbeSucceeds BY <2>3, <1>1, <1>0, <1>a DEF ProbeSucceeds
  <2>4. CASE ProbeFails BY <2>4, <1>1, <1>0, <1>a DEF ProbeFails
  <2>5. CASE HTTPTimeout BY <2>5, <1>1, <1>0, <1>a DEF HTTPTimeout
  <2>6. CASE InspectExited BY <2>6, <1>1, <1>0, <1>a DEF InspectExited
  <2>7. CASE InspectOther BY <2>7, <1>1, <1>0, <1>a DEF InspectOther
  <2>8. CASE Wake BY <2>8, <1>1, <1>0, <1>a DEF Wake
  <2>9. CASE Tick BY <2>9, <1>1, <1>0, <1>a DEF Tick
  <2>10. CASE AppChanges BY <2>10, <1>1, <1>0, <1>a DEF AppChanges
  <2>11. CASE UNCHANGED vars BY <2>11, <1>1 DEF vars
  <2> QED BY <2>1, <2>2, <2>3, <2>4, <2>5, <2>6, <2>7, <2>8, <2>9, <2>10, <2>11 DEF Next, Step
<1> QED
  BY <1>2, <1>3 DEF IInv

\* The inductive invariant of the polling loop: types, and where the clock can be
\* in each phase of WaitHTTPHealth and WaitExecHealth.
THEOREM Invariance == Spec => []IInv
BY Initially, Inductive, PTL DEF Spec

\* The gate's variables keep their types for all settings.
THEOREM TypeCorrect == Spec => []TypeOK
<1>1. IInv => TypeOK
  BY DEF IInv
<1> QED
  BY <1>1, Invariance, PTL

\* Whatever the contract and the command line say, healthTiming and
\* waitServiceHealth together come to one clamp.
THEOREM ClampCorrect == Spec => []BudgetIsClamp
<1>1. IInv => BudgetIsClamp
  BY TotalIsClamp DEF IInv, TypeOK, BudgetIsClamp
<1> QED
  BY <1>1, Invariance, PTL

\* WaitHTTPHealth looks at the time between probes only, and still overshoots by
\* less than one probe and one pause.
THEOREM OvershootCorrect == Spec => []OvershootBounded
<1>1. ASSUME IInv PROVE OvershootBounded
  <2>1. /\ Total(h) \in Int /\ Pause(h) \in Nat \ {0} /\ ProbeLimit \in Nat
        /\ clock \in Nat /\ since \in Nat /\ since <= clock
    BY <1>1, Bounds DEF IInv, TypeOK
  <2> QED
    BY <2>1, <1>1 DEF IInv, TypeOK, ClockInv, OvershootBounded, Ended
<1> QED
  BY <1>1, Invariance, PTL

\* A gate that fails has had its time, or its container is gone (isTerminalContainerState):
\* no other step of the loop ends in failure.
THEOREM FailureIsLate == Spec => NeverGivesUpEarly
<1>1. ASSUME [Next]_vars, phase' = "failed", phase # "failed"
      PROVE  clock >= Total(h) \/ app = "exited"
  BY <1>1 DEF Next, Step, vars, Try, GiveUp, ProbeSucceeds, ProbeFails, HTTPTimeout,
              InspectExited, InspectOther, Wake, Tick, AppChanges
<1>2. [Next]_vars =>
        [phase' = "failed" /\ phase # "failed" => clock >= Total(h) \/ app = "exited"]_vars
  BY <1>1
<1> QED
  BY <1>2, PTL DEF Spec, NeverGivesUpEarly

-----------------------------------------------------------------------------
\* The refinement: each step of the loop is a step of the abstract gate or none.

LEMMA GateStarts == Init => AsGate!Init
<1> SUFFICES ASSUME Init PROVE AsGate!Init
  OBVIOUS
<1>1. Total(h) > 0 /\ Total(h) \in Int /\ clock = 0
  BY Bounds DEF Init
<1>2. ~ Sealed
  BY <1>1 DEF Init, Sealed
<1> QED
  BY <1>2 DEF Init, AsGate!Init, Verdict, Healthy

\* A step from an open gate, taken while the probe does not succeed.
LEMMA UnhealthyStep ==
  ASSUME ~ Sealed, phase # "passed", phase' # "passed", ~ Healthy, Healthy' = Healthy
  PROVE  AsGate!Next \/ (Verdict' = Verdict /\ Healthy' = Healthy)
<1>1. Verdict = "open"
  BY DEF Verdict
<1>2. CASE Sealed'
  <2>1. Verdict' = "failed"
    BY <1>2 DEF Verdict
  <2> QED
    BY <1>1, <2>1 DEF AsGate!Next, AsGate!Fail
<1>3. CASE ~ Sealed'
  <2>1. Verdict' = "open"
    BY <1>3 DEF Verdict
  <2> QED
    BY <1>1, <2>1
<1> QED
  BY <1>2, <1>3

LEMMA GateSteps == IInv /\ IInv' /\ [Next]_vars => [AsGate!Next]_(AsGate!vars)
<1> SUFFICES ASSUME IInv, IInv', [Next]_vars
             PROVE  AsGate!Next \/ (Verdict' = Verdict /\ Healthy' = Healthy)
  BY DEF AsGate!vars
<1>0. /\ h \in Settings /\ clock \in Nat /\ since \in Nat /\ since <= clock
  BY DEF IInv, TypeOK
<1>a. Total(h) \in Int /\ Pause(h) \in Nat \ {0}
  BY <1>0, Bounds
<1>b. ClockInv
  BY DEF IInv
<1>1. CASE Try
  <2>1. ~ Sealed /\ ~ Sealed'
    BY <1>1, <1>0, <1>a DEF Try, Sealed
  <2> QED
    BY <2>1, <1>1 DEF Try, Verdict, Healthy
<1>2. CASE GiveUp
  <2>1. Sealed /\ Sealed'
    BY <1>2 DEF GiveUp, Sealed
  <2> QED
    BY <2>1, <1>2 DEF GiveUp, Verdict, Healthy
<1>3. CASE ProbeSucceeds
  <2>1. ~ Sealed
    BY <1>3 DEF ProbeSucceeds, Sealed
  <2>2. Verdict = "open" /\ Verdict' = "passed" /\ Healthy /\ Healthy' = Healthy
    BY <2>1, <1>3 DEF ProbeSucceeds, Verdict, Healthy
  <2> QED
    BY <2>2 DEF AsGate!Next, AsGate!Pass
<1>4. CASE ProbeFails
  <2>1. ~ Sealed
    BY <1>4 DEF ProbeFails, Sealed
  <2> QED
    BY <2>1, <1>4, UnhealthyStep DEF ProbeFails, Healthy
<1>5. CASE HTTPTimeout
  <2>1. ~ Sealed
    BY <1>5 DEF HTTPTimeout, Sealed
  <2> QED
    BY <2>1, <1>5, UnhealthyStep DEF HTTPTimeout, Healthy
<1>6. CASE InspectExited
  <2>1. phase = "inspect" /\ phase' = "failed" /\ ~ Healthy /\ Healthy' = Healthy
    BY <1>6 DEF InspectExited, Healthy
  <2>2. CASE Sealed
    BY <2>1, <2>2 DEF Sealed, Verdict
  <2>3. CASE ~ Sealed
    BY <2>1, <2>3, UnhealthyStep
  <2> QED
    BY <2>2, <2>3
<1>7. CASE InspectOther
  <2>1. Sealed' <=> Sealed
    BY <1>7 DEF InspectOther, Sealed
  <2> QED
    BY <2>1, <1>7 DEF InspectOther, Verdict, Healthy
<1>8. CASE Wake
  <2>1. clock = since + Pause(h)
    BY <1>8, <1>0, <1>a, <1>b DEF Wake, ClockInv
  <2>2. Sealed' <=> Sealed
    BY <2>1, <1>8 DEF Wake, Sealed
  <2> QED
    BY <2>2, <1>8 DEF Wake, Verdict, Healthy
<1>9. CASE Tick
  <2>1. Sealed' <=> Sealed
    BY <1>9 DEF Tick, Sealed
  <2> QED
    BY <2>1, <1>9 DEF Tick, Verdict, Healthy
<1>10. CASE AppChanges
  <2>1. Sealed' <=> Sealed
    BY <1>10 DEF AppChanges, Sealed
  <2>2. Verdict' = Verdict
    BY <2>1, <1>10 DEF AppChanges, Verdict
  <2>3. Healthy' \in BOOLEAN
    BY DEF Healthy
  <2> QED
    BY <2>2, <2>3 DEF AsGate!Next, AsGate!Live
<1>11. CASE UNCHANGED vars
  BY <1>11 DEF vars, Verdict, Sealed, Healthy
<1> QED
  BY <1>1, <1>2, <1>3, <1>4, <1>5, <1>6, <1>7, <1>8, <1>9, <1>10, <1>11 DEF Next, Step

\* What Deploy assumes of a gate (GatePasses, GateFails) is what waitServiceHealth
\* does: it passes at a moment when the probe succeeds, and fails for good at one
\* when it does not.
THEOREM Refinement == Spec => ActsAsGate
<1>1. Init => AsGate!Init
  BY GateStarts
<1>2. IInv /\ IInv' /\ [Next]_vars => [AsGate!Next]_(AsGate!vars)
  BY GateSteps
<1> QED
  BY <1>1, <1>2, Invariance, PTL DEF Spec, ActsAsGate, AsGate!Spec
=============================================================================
