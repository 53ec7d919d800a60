---------------------------- MODULE MCLifecycle -----------------------------
\* A database and an API that waits for its health, behind a profile or not.
EXTENDS Lifecycle, TLC

CONSTANTS db, api, debug

MCService == {db, api}

\* api waits for a healthy db and is only active with the profile.
Mixed ==
  [services |-> MCService,
   deps     |-> (db :> {}) @@ (api :> {[service |-> db, condition |-> "healthy"]}),
   profiles |-> (db :> {}) @@ (api :> {debug}),
   probed   |-> {db}]

\* Every service has a profile: without --profile none is active.
Gated == [Mixed EXCEPT !.profiles = [s \in MCService |-> {debug}]]

MixedContracts == {Mixed}
GatedContracts == {Gated}

DeployCommands ==
  {[profiles |-> {debug}, roots |-> roots, dependents |-> FALSE,
    skipHealth |-> FALSE, receipt |-> FALSE] : roots \in {{}, {api}}}

DownCommand(profiles, roots, dependents, volumes, keep) ==
  [profiles |-> profiles, roots |-> roots, dependents |-> dependents,
   volumes |-> volumes, keepNetwork |-> keep]

MCDownCommands ==
  {DownCommand({}, {}, FALSE, FALSE, FALSE),            \* down
   DownCommand({}, {}, FALSE, TRUE, TRUE),              \* down -v --keep-network
   DownCommand({debug}, {api}, FALSE, FALSE, FALSE),    \* down api
   DownCommand({debug}, {db}, TRUE, FALSE, FALSE),      \* down db --dependents
   DownCommand({}, {api}, FALSE, FALSE, FALSE),         \* refused: not active
   DownCommand({debug}, {api}, FALSE, TRUE, FALSE)}     \* down -v api: an error

\* down api, without its profile.
DownApi == {DownCommand({}, {api}, FALSE, FALSE, FALSE)}

DownSymmetry == Permutations(Down)

MCCName == [s \in MCService |-> s]
MCUses == [s \in MCService |-> (Net \ ExtNet) \cup (IF s = db THEN Vol ELSE {})]
=============================================================================
