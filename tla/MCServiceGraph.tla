--------------------------- MODULE MCServiceGraph ---------------------------
\* Every depends_on relation over three services, cyclic ones and
\* self-dependencies included, with every profile-active set, every choice of
\* roots and both settings of --dependents.
EXTENDS ServiceGraph

MCNode == 1 .. 3
=============================================================================
