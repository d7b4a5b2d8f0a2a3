--------------------------- MODULE MCMonitorAlerts --------------------------
(* One alert key: the rows of different keys do not touch each other. *)
EXTENDS MonitorAlerts

CONSTANT k1

OneKey == {k1}
=============================================================================
