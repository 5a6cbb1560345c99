----------------------------- MODULE WriteOnce -----------------------------
(* What a Future of svcinit promises (future.go): one of those that resolve  *)
(* it gives it its content, the others panic, and whoever reads it gets that *)
(* content, unless it does not want to wait.                                 *)
CONSTANTS
    Resolver,   \* the calls of Resolve and ResolveError; each has its content
    Reader,     \* the calls of Value
    NoWait,     \* the readers with WithoutFutureWait
    WithCtx     \* the readers with WithFutureCtx

VARIABLES
    content,    \* the resolver whose content the future has, or "unresolved"
    outcome,    \* what became of each call of a resolver
    answer      \* what each reader got

vars == <<content, outcome, answer>>

Init ==
    /\ content = "unresolved"
    /\ outcome = [w \in Resolver |-> "none"]
    /\ answer = [r \in Reader |-> "none"]

\* The first to resolve the future gives it its content ...
Resolve(w) ==
    /\ outcome[w] = "none"
    /\ content = "unresolved"
    /\ content' = w
    /\ outcome' = [outcome EXCEPT ![w] = "resolved"]
    /\ UNCHANGED answer

\* ... and every other one panics.
Panic(w) ==
    /\ outcome[w] = "none"
    /\ content # "unresolved"
    /\ outcome' = [outcome EXCEPT ![w] = "panicked"]
    /\ UNCHANGED <<content, answer>>

Answer(r, a) ==
    /\ answer[r] = "none"
    /\ answer' = [answer EXCEPT ![r] = a]
    /\ UNCHANGED <<content, outcome>>

GetContent(r) == content # "unresolved" /\ Answer(r, content)

NotResolved(r) == r \in NoWait /\ content = "unresolved" /\ Answer(r, "notResolved")

GiveUp(r) == r \in WithCtx \ NoWait /\ Answer(r, "cancelled")

Next ==
    \/ \E w \in Resolver : Resolve(w) \/ Panic(w)
    \/ \E r \in Reader : GetContent(r) \/ NotResolved(r) \/ GiveUp(r)

Spec == Init /\ [][Next]_vars
=============================================================================
