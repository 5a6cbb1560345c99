---------------------------- MODULE MCFutureTask ----------------------------
(* Three stages with a task each: the first waits for the future of the last, *)
(* the second may fail in between.                                           *)
EXTENDS FutureTask, TLC

CONSTANTS t1, t2, t3, late

MCTask == {t1, t2, t3}
MCStageOf == (t1 :> 1) @@ (t2 :> 2) @@ (t3 :> 3)
MCFutureTasks == {t2, t3}
MCAwaits == (t1 :> {t2, t3}) @@ (t2 :> {}) @@ (t3 :> {t2})
MCStepSets == {{"setup", "start", "stop"}}

\* Two tasks for the refused one.
TwoTasks == {t1, t2}
TwoStageOf == (t1 :> 1) @@ (t2 :> 2)
OneFutureTask == {t2}
NoAwaits == (t1 :> {}) @@ (t2 :> {})
AllSteps == {Step}
=============================================================================
