------------------------- MODULE MCStorageBackends --------------------------
(* Two findings of one subject, two channels and three times.              *)
EXTENDS StorageBackends

CONSTANTS f, g, c, d

OneSubject == [id \in {f, g} |-> "s"]

TwoChannels == <<c, d>>

Policy(age, closed, cap, total) == [age |-> age, closed_age |-> closed, cap |-> cap, total |-> total]

\* Ages alone, each cap, both, and the caps of zero.
SomePolicies ==
    {Policy(1, 0, None, None), Policy(2, 1, 1, None), Policy(2, 2, None, 2), Policy(2, 2, 0, None)}

\* Refused and projected runs of one input, a legacy row, one without its
\* projection and one with the hash of another input.
SomeRuns ==
    {Run(id, "a", "i", "i", "completed", TRUE, id) : id \in {1, 2}}
    \cup {Run(id, "b", "i", "i", "stale", FALSE, t) : id \in {1, 3}, t \in {1, 3}}
    \cup {Run(2, "a", NoInput, "", "completed", TRUE, 2), Run(3, "a", "j", "j", "completed", TRUE, 3),
          Run(1, "a", "i", "i", "completed", FALSE, 1), Run(2, "b", "i", "j", "completed", TRUE, 2)}

\* The last has the id of runs.
SomeSims == {Simulation(4, "a", 1), Simulation(5, "b", 2), Simulation(1, "a", 2)}

\* The last has a status of no simulation.
SomeEvents ==
    {Event(1, run, "requested", 1) : run \in {1, 2}} \cup {Event(id, 1, "completed", 2) : id \in {1, 2}}
    \cup {Event(2, 1, "unknown", 2)}

Severities == [t \in {1, 2} |-> IF t = 1 THEN "Critical" ELSE "Warning"]
=============================================================================
