-------------------------------- MODULE Maps --------------------------------
\* Maps whose entries are merged: of env files, services and environments.

\* The entries of over go on top of those of base.
Override(base, over) ==
  [v \in DOMAIN base \cup DOMAIN over |-> IF v \in DOMAIN over THEN over[v] ELSE base[v]]
=============================================================================
