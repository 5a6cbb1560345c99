------------------------- MODULE MCStartStepManager -------------------------
(* A task whose stop step cancels and awaits its start step, below one whose  *)
(* start step Run cancels.                                                  *)
EXTENDS StartStepManager, TLC

CONSTANTS t1, t2

MCTask == {t1, t2}
MCStageOf == (t1 :> 1) @@ (t2 :> 2)
MCStepSets == {{"start", "stop"}}
=============================================================================
