------------------------------ MODULE MCDeploy ------------------------------
\* A database, an API that needs it healthy and a web front end; two versions
\* of the contract file.
EXTENDS Deploy

CONSTANTS db, api, web, debug

MCService == {db, api, web}

On(s, c) == [service |-> s, condition |-> c]

\* web waits for a healthy database and a started api; web is optional.
V1 == [services |-> MCService,
       deps     |-> (db :> {}) @@ (api :> {On(db, "healthy")})
                    @@ (web :> {On(db, "healthy"), On(api, "started")}),
       profiles |-> [s \in MCService |-> IF s = web THEN {debug} ELSE {}],
       probed   |-> {db, api}]

\* The other way round: nobody waits for db's health, web waits for api's.
V2 == [V1 EXCEPT !.deps = (db :> {}) @@ (api :> {On(db, "started")})
                          @@ (web :> {On(api, "healthy")})]

\* web waits for a started database and for api's gate, an exec probe.
V3 == [V1 EXCEPT !.deps[web] = {On(db, "started"), On(api, "healthy")}]

MCContracts == {V1, V2}
OneContract == {V3}

Command(profiles, roots, dependents, skip) ==
  [profiles |-> profiles, roots |-> roots, dependents |-> dependents,
   skipHealth |-> skip, receipt |-> TRUE]

MCCommands ==
  {Command({debug}, {}, FALSE, FALSE),          \* everything
   Command({}, {}, FALSE, TRUE),                \* without web, no health wait
   Command({debug}, {web}, FALSE, FALSE),       \* web alone
   Command({}, {web}, FALSE, FALSE),            \* refused: not profile-active
   [Command({debug}, {api}, TRUE, FALSE) EXCEPT !.receipt = FALSE]}

MCCName == [s \in MCService |-> s]
MCUses == [s \in MCService |-> Net \cup Vol]

RunSymmetry == Permutations(Run)
=============================================================================
