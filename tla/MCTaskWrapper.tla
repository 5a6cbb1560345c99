--------------------------- MODULE MCTaskWrapper ---------------------------
(* Two wrappers: one whose stop step can manage its start step, and one that *)
(* learns half of its steps from its own setup.                              *)
EXTENDS TaskWrapper

CONSTANTS managed, provider

MCTask == {managed, provider}
MCStepSets == SUBSET Step
MCStartStepManaged == {managed}
MCProvider == {provider}
MCProvidedSteps == {"start", "stop"}
=============================================================================
