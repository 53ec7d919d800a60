-------------------------------- MODULE Gate --------------------------------
(***************************************************************************)
(* A health gate as deploy relies on it (Deploy!GatePasses, GateFails): it *)
(* is open, then it passes or fails for good -- it passes at a moment when *)
(* the service answers its probe, and fails at one when it does not.       *)
(***************************************************************************)
VARIABLES
  verdict,    \* "open", "passed", "failed"
  healthy     \* would the probe succeed now?

vars == <<verdict, healthy>>

Init == verdict = "open" /\ healthy \in BOOLEAN

Pass == verdict = "open" /\ healthy /\ verdict' = "passed" /\ UNCHANGED healthy

Fail == verdict = "open" /\ ~ healthy /\ verdict' = "failed" /\ UNCHANGED healthy

Live == healthy' \in BOOLEAN /\ UNCHANGED verdict

Next == Pass \/ Fail \/ Live

Spec == Init /\ [][Next]_vars
=============================================================================
