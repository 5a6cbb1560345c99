--------------------------- MODULE MCInstanceTask ---------------------------
(* A plain task, and in each of the two stages a provider, its decorator or an *)
(* instance without a parent.                                                *)
EXTENDS InstanceTask, TLC

CONSTANTS t1, t2, t3, provider, decorator, instance

MCTask == {t1, t2, t3}
MCStageOf == (t1 :> 1) @@ (t2 :> 1) @@ (t3 :> 2)
MCBuildTasks == {t2, t3}
MCOwn == (provider :> {"setup", "teardown"}) @@ (decorator :> {"stop"})
             @@ (instance :> {"setup", "start"})
MCDecorates == decorator :> provider

\* A service, a task with a step the provider has too, and one with an
\* initialization error.
MCResults == {ServiceSteps({}), ServiceSteps({"teardown"}), {"start"}}
MCFaulty == {{"start"}}

\* For the plain task: of one or two steps, or none to start.  Those of the builds
\* are among them.
MCStepSets == {{"setup", "start"}, {"setup", "teardown"}, {"start"}, {"start", "teardown"},
               {"setup", "stop", "teardown"}}
=============================================================================
