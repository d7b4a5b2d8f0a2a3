-------------------------- MODULE MCDatabaseAccess --------------------------
(* A monitor, an agent and a scan on databases of several releases.        *)
EXTENDS DatabaseAccess

\* A fresh file, a first release with findings, the last one before this,
\* and one with no more than the tables of findings and simulations at 9.
SomeDatabases ==
    {Release[0], [Release[1] EXCEPT !.active = {"unknown_network"}],
     [version |-> 9, active |-> {"unknown_network"},
      cols |-> {<<"findings", 1>>, <<"findings", 2>>, <<"findings", 9>>, <<"simulations", 1>>,
                <<"simulations", 8>>}],
     Release[16]}

\* What these have while they are migrated.
SchemasOf(d) ==
    LET at[v \in d.version..CURRENT_SCHEMA_VERSION] ==
            IF v = d.version THEN d ELSE Applied(v, at[v - 1])
    IN  {<<v, at[v].cols>> : v \in d.version..CURRENT_SCHEMA_VERSION}

SomeSchemas == UNION {SchemasOf(d) : d \in SomeDatabases}

\* The agent is restarted once and goes on after its first operation.
Twice == [p \in Procs |-> IF p \in Daemons THEN 2 ELSE 1]
=============================================================================
