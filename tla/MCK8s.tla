------------------------------- MODULE MCK8s -------------------------------
(* The four stages with one task of each kind, a database in the second.     *)
EXTENDS K8s, TLC

CONSTANTS database, service

MCTask == {signals, health, telemetry, database, startedProbe, terminatingProbe, flush, service}
MCStageOf == [t \in {signals, health, telemetry} |-> 1] @@ (database :> 2) @@ (startedProbe :> 3)
             @@ [t \in {terminatingProbe, flush, service} |-> 4]
MCStepSets == {{}, {"start"}, {"setup", "stop"}}

\* Bounds: not a telemetry handler beside a health handler, whose stop steps run
\* beside each other and each beside that of the service; a telemetry task only
\* beside the signals and the health tasks.
OneHandler == ~(Added(flush) /\ Added(startedProbe))
TelemetryBelow == Added(telemetry) => ~ \E t \in {database, service, flush} : Added(t)
=============================================================================
