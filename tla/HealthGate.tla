----------------------------- MODULE HealthGate -----------------------------
(***************************************************************************)
(* One health gate: waitServiceHealth with healthTiming, WaitHTTPHealth and*)
(* WaitExecHealth (internal/deploy, internal/runner), against a clock.     *)
(*                                                                         *)
(* Time passes in ticks, and only while a probe runs or the loop sleeps.   *)
(* An HTTP probe has a deadline of its own, an exec probe has none.  The   *)
(* application may become ready, fail, stop answering, exit or come back   *)
(* at any moment.                                                          *)
(***************************************************************************)
EXTENDS Integers

CONSTANTS
  Settings,         \* health blocks with the command line's --health-timeout
  Unset,            \* a duration that is not given (or does not parse)
  MinBudget,        \* no gate waits less: 5s
  ProbeLimit,       \* an HTTP probe's own limit: 5s
  DefaultInterval,  \* 500ms
  DefaultTry,       \* default of health.timeout: 5s
  Horizon           \* bound: how long a probe without limit is followed

Duration == Int \cup {Unset}

Setting ==
  [kind : {"http", "exec"}, startPeriod : Duration, interval : Duration,
   httpInterval : Duration, timeout : Duration, httpTimeout : Duration,
   retries : Int, cliMax : Int]

ASSUME HealthAssumption ==
  /\ Settings \subseteq Setting
  /\ Unset \notin Int
  /\ MinBudget \in Nat \ {0} /\ ProbeLimit \in Nat \ {0}
  /\ DefaultInterval \in Nat \ {0} /\ DefaultTry \in Nat /\ Horizon \in Nat

VARIABLES
  h,        \* the service's settings
  clock,    \* ticks since the gate began
  phase,    \* "poll", "probing", "inspect", "asleep", "passed", "failed"
  since,    \* when the current probe or sleep began
  last,     \* what the last failed probe said
  app       \* what a probe finds: "ok", "bad", "silent", "exited"

vars == <<h, clock, phase, since, last, app>>

Ended == {"passed", "failed"}

-----------------------------------------------------------------------------
\* healthTiming and waitServiceHealth: how long the gate may poll.

Given(d, default) == IF d = Unset THEN default ELSE d

AtLeast(x, y) == IF x < y THEN y ELSE x
AtMost(x, y) == IF x > y THEN y ELSE x

StartPeriod(s) == Given(s.startPeriod, 0)
Interval(s) == Given(s.httpInterval, Given(s.interval, DefaultInterval))
PerTry(s) == Given(s.httpTimeout, Given(s.timeout, DefaultTry))
Retries(s) == IF s.retries <= 0 THEN 6 ELSE s.retries

\* What the contract asks for: room for the retries, for two slow probes, and
\* never less than the minimum.
Wanted(s) == AtLeast(AtLeast((Retries(s) + 2) * Interval(s), 2 * PerTry(s)), MinBudget)

\* probeBudget: the command line's limit caps it, the start period counts.
ProbeBudget(s) ==
  IF s.cliMax > 0
  THEN AtMost(Wanted(s), AtLeast(s.cliMax - StartPeriod(s), MinBudget))
  ELSE Wanted(s)

\* Mutant: the minimum is applied before the limit.
TotalBelowMinimum(s) ==
  LET total == AtLeast(StartPeriod(s) + ProbeBudget(s), MinBudget)
  IN  IF s.cliMax > 0 THEN AtMost(total, s.cliMax) ELSE total

\* waitServiceHealth's total.
Total(s) ==
  LET total == StartPeriod(s) + ProbeBudget(s)
  IN  AtLeast(IF s.cliMax > 0 THEN AtMost(total, s.cliMax) ELSE total, MinBudget)

\* The pause between two probes.
Pause(s) == IF Interval(s) <= 0 THEN DefaultInterval ELSE Interval(s)

-----------------------------------------------------------------------------
Init ==
  /\ h \in Settings
  /\ clock = 0
  /\ phase = "poll"
  /\ since = 0
  /\ last = "nothing"
  /\ app \in {"ok", "bad", "silent", "exited"}

\* Mutant: one more probe when the time is just up.
TryAgain ==
  /\ phase = "poll"
  /\ clock <= Total(h)
  /\ phase' = "probing"
  /\ since' = clock
  /\ UNCHANGED <<h, clock, last, app>>

\* Mutant: a probe counts from the next tick.
TryLater ==
  /\ phase = "poll"
  /\ clock < Total(h)
  /\ phase' = "probing"
  /\ since' = clock + 1
  /\ UNCHANGED <<h, clock, last, app>>

Try ==
  /\ phase = "poll"
  /\ clock < Total(h)
  /\ phase' = "probing"
  /\ since' = clock
  /\ UNCHANGED <<h, clock, last, app>>

\* Mutant: the retries are up when the start period is over.
GiveUpAfterStart ==
  /\ phase = "poll"
  /\ last # "nothing" /\ clock >= StartPeriod(h)
  /\ phase' = "failed"
  /\ UNCHANGED <<h, clock, since, last, app>>

GiveUp ==
  /\ phase = "poll"
  /\ clock >= Total(h)
  /\ phase' = "failed"
  /\ UNCHANGED <<h, clock, since, last, app>>

ProbeSucceeds ==
  /\ phase = "probing"
  /\ app = "ok"
  /\ phase' = "passed"
  /\ UNCHANGED <<h, clock, since, last, app>>

\* A bad answer.  Only what an exec probe prints may contain the word "timeout".
ProbeFails ==
  /\ phase = "probing"
  /\ app \in {"bad", "exited"}
  /\ \/ last' = "refusal"
     \/ h.kind = "exec" /\ last' = "timeout"
  /\ phase' = IF h.kind = "exec" THEN "inspect" ELSE "asleep"
  /\ since' = clock
  /\ UNCHANGED <<h, clock, app>>

\* Mutant: an HTTP probe has no limit either.
NoHTTPTimeout == FALSE /\ UNCHANGED vars

\* "probe timed out after 5s".
HTTPTimeout ==
  /\ phase = "probing"
  /\ h.kind = "http"
  /\ clock - since >= ProbeLimit
  /\ app = "silent"
  /\ last' = "timed_out"
  /\ phase' = "asleep"
  /\ since' = clock
  /\ UNCHANGED <<h, clock, app>>

\* isTerminalContainerState: a container that exited is not waited for.  One
\* that did not, or that podman inspect cannot tell of, is.
InspectExited ==
  /\ phase = "inspect"
  /\ app = "exited"
  /\ phase' = "failed"
  /\ UNCHANGED <<h, clock, since, last, app>>

InspectOther ==
  /\ phase = "inspect"
  /\ phase' = "asleep"
  /\ UNCHANGED <<h, clock, since, last, app>>

Wake ==
  /\ phase = "asleep"
  /\ clock - since >= Pause(h)
  /\ phase' = "poll"
  /\ UNCHANGED <<h, clock, since, last, app>>

\* Mutant: the limit of a probe is not enforced.
TickAnyProbe ==
  /\ \/ phase = "probing" /\ clock < Horizon
     \/ phase = "asleep" /\ clock - since < Pause(h)
  /\ clock' = clock + 1
  /\ UNCHANGED <<h, phase, since, last, app>>

Tick ==
  /\ \/ phase = "probing" /\ h.kind = "http" /\ clock - since < ProbeLimit
     \/ phase = "probing" /\ h.kind = "exec" /\ clock < Horizon
     \/ phase = "asleep" /\ clock - since < Pause(h)
  /\ clock' = clock + 1
  /\ UNCHANGED <<h, phase, since, last, app>>

\* The application's own life.
AppChanges ==
  /\ phase \notin Ended
  /\ app' \in {"ok", "bad", "silent", "exited"} \ {app}
  /\ UNCHANGED <<h, clock, phase, since, last>>

Step ==
  \/ Try \/ GiveUp \/ ProbeSucceeds \/ ProbeFails \/ HTTPTimeout
  \/ InspectExited \/ InspectOther \/ Wake \/ Tick

Next == Step \/ AppChanges

Spec == Init /\ [][Next]_vars

\* The process runs and time passes; nothing is owed by the application.
FairSpec == Spec /\ WF_vars(Step)

-----------------------------------------------------------------------------
TypeOK ==
  /\ h \in Settings
  /\ clock \in Nat
  /\ phase \in {"poll", "probing", "inspect", "asleep", "passed", "failed"}
  /\ since \in Nat /\ since <= clock
  /\ last \in {"nothing", "refusal", "timed_out", "timeout"}
  /\ app \in {"ok", "bad", "silent", "exited"}

\* The chain of minima and maxima over two functions comes to this: the contract
\* gets the time it asks for, the command line's limit cuts it short, and nothing
\* goes below the minimum.
BudgetIsClamp ==
  Total(h) =
    AtLeast(IF h.cliMax > 0 THEN AtMost(StartPeriod(h) + Wanted(h), h.cliMax)
            ELSE StartPeriod(h) + Wanted(h), MinBudget)

\* A gate does not fail before its time is up, unless the container has exited.
NeverGivesUpEarly ==
  [][phase' = "failed" /\ phase # "failed" => clock >= Total(h) \/ app = "exited"]_vars

\* The time is looked at between probes only: an HTTP gate may take longer than
\* its total by one probe and one pause, and by no more.
OvershootBounded ==
  h.kind = "http" => clock < Total(h) + ProbeLimit + Pause(h)

\* A gate is what Deploy takes it for.  Its fate is sealed by the last probe, not
\* when the pause after it ends.
Sealed ==
  \/ phase = "failed"
  \/ phase \in {"inspect", "asleep"} /\ since + Pause(h) >= Total(h)
  \/ phase = "poll" /\ clock >= Total(h)

Verdict == IF phase = "passed" THEN "passed" ELSE IF Sealed THEN "failed" ELSE "open"

Healthy == app = "ok"

AsGate == INSTANCE Gate WITH verdict <- Verdict, healthy <- Healthy

ActsAsGate == AsGate!Spec

\* Every gate ends, whatever the application does, unless an exec probe gets no
\* answer for good (WaitExecHealth gives it no deadline).
GateEnds ==
  <>(phase \in Ended) \/ []<>(h.kind = "exec" /\ phase = "probing" /\ app = "silent")

\* newHealthGateFailure: the class of a failure is read off its message.
FailureClass == IF last \in {"nothing", "timeout"} THEN "timeout" ELSE "probe_error"

\* "deploy_health_timeout: Health probe deadline exceeded", "deploy_health_probe_-
\* failed: HTTP/exec probe failed before timeout" (docs/cli-json.md).
ClassTellsWhy ==
  phase = "failed" => (FailureClass = "timeout" <=> clock >= Total(h))
=============================================================================
