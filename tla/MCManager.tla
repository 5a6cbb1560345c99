----------------------------- MODULE MCManager -----------------------------
(* Two tasks, one in each of two stages, with or without a stop step.        *)
EXTENDS Manager, TLC

CONSTANTS t1, t3

TwoTasks == {t1, t3}
TwoStageOf == (t1 :> 1) @@ (t3 :> 2)

\* Tasks that implement every step, ...
AllSteps == {Step}

\* ... or all but a stop step.
MaybeNoStop == {Step, Step \ {"stop"}}

\* A setup and a start step whose errors wrap ErrExit, beside one of each that don't.
MixedExits == {<<t1, "setup">>, <<t3, "start">>}
=============================================================================
