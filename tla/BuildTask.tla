----------------------------- MODULE BuildTask -----------------------------
(***************************************************************************)
(* Tasks made from step functions (build.go) and from services             *)
(* (service.go): which steps such a task says it has, which errors it is   *)
(* refused for, and what running a step of it comes to.  The two answers   *)
(* are computed at different times, the first when the task is built or    *)
(* gets a parent, the second when the step is run.                         *)
(***************************************************************************)
\* init: the steps with a function and those of the parent, in any order.
BuildSteps(own, parentSteps) == own \cup parentSteps

\* init: a step with a nil function, or no step and no parent; a step that the
\* parent has too.  The errors of the parent are returned with these.
InitErrors(own, nilSteps, hasParent, parentSteps, parentErrors) ==
    (IF nilSteps # {} \/ (own = {} /\ ~hasParent) THEN {"ErrNilTask"} ELSE {})
        \cup (IF own \cap parentSteps # {} THEN {"ErrDuplicateStep"} ELSE {})
        \cup parentErrors

\* Run: the function of the step, unless the parent has the step too; otherwise
\* the parent.
RunStep(own, parentSteps, s, runOwn, runParent) ==
    CASE s \in own /\ s \in parentSteps -> "ErrDuplicateStep"
      [] s \in own \ parentSteps        -> runOwn
      [] s \in parentSteps \ own        -> runParent
      [] OTHER                          -> "ErrInvalidTaskStep"

\* ServiceAsTask: the steps of a service that implements these extra interfaces.
ServiceSteps(extra) == {"start", "stop"} \cup (extra \cap {"setup", "teardown"})
=============================================================================
