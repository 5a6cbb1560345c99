------------------------------- MODULE Future -------------------------------
(***************************************************************************)
(* The future of svcinit and the latch it is built on (future.go).  The    *)
(* channel of the latch is made by the first caller of Done; resolve       *)
(* writes the content under the mutex and closes the channel, or, if       *)
(* nobody has asked for one, stores a channel closed from the start.       *)
(* Readers wait on the channel they got, and read the two fields of the    *)
(* content one after the other and without the mutex.                      *)
(***************************************************************************)
CONSTANTS
    Resolver,   \* the calls of Resolve and ResolveError
    Failing,    \* those that are calls of ResolveError
    Reader,     \* the calls of Value
    NoWait,     \* those with WithoutFutureWait
    WithCtx     \* those with WithFutureCtx

ASSUME FutureAssumption ==
    /\ Failing \subseteq Resolver
    /\ NoWait \subseteq Reader
    /\ WithCtx \subseteq Reader
    /\ "nil" \notin Resolver \cup Reader
    /\ "closedchan" \notin Reader
    /\ {"unresolved", "none", "notResolved", "cancelled"} \cap Resolver = {}

VARIABLES
    mu,         \* the mutex of the latch: the resolver that holds it, or "nil"
    done,       \* the field done: the reader that made the channel, or closedchan
    closed,     \* the channels that are closed
    v, err,     \* the fields of the future: the resolver that set it, or "nil"
    at,         \* where each resolver is
    reads       \* where each reader is, the channel it waits on, what it has read

vars == <<mu, done, closed, v, err, at, reads>>

Channel == Reader \cup {"closedchan"}

Idle == [pc |-> "idle", ch |-> "nil", v |-> "nil", err |-> "nil"]

\* Where a reader is, the channel it waits on, and the fields it has read.
Progress == [pc : {"idle", "waiting", "reading", "returned", "notResolved", "cancelled"},
             ch : Channel \cup {"nil"},
             v : Resolver \cup {"nil"},
             err : Resolver \cup {"nil"}]

TypeOK ==
    /\ mu \in Resolver \cup {"nil"}
    /\ done \in Channel \cup {"nil"}
    /\ closed \subseteq Channel
    /\ v \in Resolver \cup {"nil"} /\ err \in Resolver \cup {"nil"}
    /\ at \in [Resolver -> {"none", "locked", "written", "resolved", "panicked"}]
    /\ reads \in [Reader -> Progress]

Init ==
    /\ mu = "nil" /\ done = "nil" /\ closed = {"closedchan"}
    /\ v = "nil" /\ err = "nil"
    /\ at = [w \in Resolver |-> "none"]
    /\ reads = [r \in Reader |-> Idle]

-----------------------------------------------------------------------------
(* latch.resolve.                                                          *)

\* Mutant: the latch may be resolved again.
ResolvedAgain == FALSE

\* The channel exists and is closed.
AlreadyResolved == done \in closed

\* The mutex is taken and the channel looked at; a second resolver panics, which
\* releases the mutex.
Lock(w) ==
    /\ at[w] = "none"
    /\ mu = "nil"
    /\ IF AlreadyResolved
       THEN at' = [at EXCEPT ![w] = "panicked"] /\ UNCHANGED mu
       ELSE at' = [at EXCEPT ![w] = "locked"] /\ mu' = w
    /\ UNCHANGED <<done, closed, v, err, reads>>

\* fn sets one of the two fields.
Write(w) ==
    /\ at[w] = "locked"
    /\ at' = [at EXCEPT ![w] = "written"]
    /\ IF w \in Failing
       THEN err' = w /\ UNCHANGED v
       ELSE v' = w /\ UNCHANGED err
    /\ UNCHANGED <<mu, done, closed, reads>>

\* Mutant: a channel that readers wait on is replaced, not closed.
ChannelReplaced == done' = "closedchan" /\ UNCHANGED closed

CloseChannel ==
    IF done = "nil"
    THEN done' = "closedchan" /\ UNCHANGED closed
    ELSE closed' = closed \cup {done} /\ UNCHANGED done

\* The channel is closed and the mutex released.
Close(w) ==
    /\ at[w] = "written"
    /\ at' = [at EXCEPT ![w] = "resolved"]
    /\ CloseChannel
    /\ mu' = "nil"
    /\ UNCHANGED <<v, err, reads>>

-----------------------------------------------------------------------------
(* Value.                                                                  *)

\* Mutant: every caller gets a channel of its own.
ChannelOfItsOwn(r) == r

\* The channel of the latch, made by the first that asks for it.
ChannelFor(r) == IF done = "nil" THEN r ELSE done

\* latch.Done, under the mutex.
Done(r) ==
    /\ reads[r].pc = "idle"
    /\ mu = "nil"
    /\ done' = ChannelFor(r)
    /\ reads' = [reads EXCEPT ![r] = [Idle EXCEPT !.pc = "waiting", !.ch = ChannelFor(r)]]
    /\ UNCHANGED <<mu, closed, v, err, at>>

\* select: the channel is closed, and the first field is read, ...
ReadValue(r) ==
    /\ reads[r].pc = "waiting"
    /\ reads[r].ch \in closed
    /\ reads' = [reads EXCEPT ![r] = [@ EXCEPT !.pc = "reading", !.v = v]]
    /\ UNCHANGED <<mu, done, closed, v, err, at>>

\* ... then the second.
ReadError(r) ==
    /\ reads[r].pc = "reading"
    /\ reads' = [reads EXCEPT ![r] = [@ EXCEPT !.pc = "returned", !.err = err]]
    /\ UNCHANGED <<mu, done, closed, v, err, at>>

\* select: the default branch of a reader that does not wait ...
NotResolved(r) ==
    /\ reads[r].pc = "waiting"
    /\ r \in NoWait /\ reads[r].ch \notin closed
    /\ reads' = [reads EXCEPT ![r].pc = "notResolved"]
    /\ UNCHANGED <<mu, done, closed, v, err, at>>

\* ... and the context of one that waits, cancelled at any time.
GiveUp(r) ==
    /\ reads[r].pc = "waiting"
    /\ r \in WithCtx \ NoWait
    /\ reads' = [reads EXCEPT ![r].pc = "cancelled"]
    /\ UNCHANGED <<mu, done, closed, v, err, at>>

-----------------------------------------------------------------------------
Resolving(w) == Write(w) \/ Close(w)

Reading(r) == Done(r) \/ ReadValue(r) \/ ReadError(r) \/ NotResolved(r)

Over(r) == reads[r].pc \in {"returned", "notResolved", "cancelled"}

Terminated ==
    /\ \A w \in Resolver : at[w] \in {"resolved", "panicked"}
    /\ \A r \in Reader : Over(r)
    /\ UNCHANGED vars

Next ==
    \/ \E w \in Resolver : Lock(w) \/ Resolving(w)
    \/ \E r \in Reader : Reading(r) \/ GiveUp(r)
    \/ Terminated

Spec == Init /\ [][Next]_vars

\* The scheduler runs whoever can run; nobody has to resolve the future.
FairSpec ==
    /\ Spec
    /\ \A w \in Resolver : WF_vars(Resolving(w))
    /\ \A r \in Reader : WF_vars(Reading(r))

-----------------------------------------------------------------------------
Content(w) == [v |-> IF w \in Failing THEN "nil" ELSE w,
               err |-> IF w \in Failing THEN w ELSE "nil"]

\* future.go:159: every reader gets the content of one resolver, the only one
\* that did not panic, and never a mixture of two.
ReadersAgree ==
    \A r \in Reader : reads[r].pc = "returned" =>
        \E w \in Resolver :
            /\ at[w] = "resolved"
            /\ [v |-> reads[r].v, err |-> reads[r].err] = Content(w)
            /\ \A other \in Resolver \ {w} : at[other] \in {"none", "panicked"}

\* future.go:145-152 and 173-178: whoever has a channel has that of the latch, so
\* that resolving it wakes them all.
ChannelKept == \A r \in Reader : reads[r].ch # "nil" => reads[r].ch = done

\* The inductive invariant behind ReadersAgree and the refinement: who holds the
\* mutex, what the fields hold while the latch is open and once it is resolved,
\* and what the readers can have read.
Others(w) == \A other \in Resolver \ {w} : at[other] \in {"none", "panicked"}

MutexInv == \A w \in Resolver : at[w] \in {"locked", "written"} <=> mu = w

OpenInv ==
    done \notin closed =>
        /\ \A w \in Resolver : at[w] \in {"none", "locked", "written"}
        /\ \A w \in Resolver : at[w] = "written" => [v |-> v, err |-> err] = Content(w)
        /\ (\A w \in Resolver : at[w] # "written") => v = "nil" /\ err = "nil"

ResolvedInv ==
    done \in closed =>
        \E w \in Resolver :
            /\ at[w] = "resolved"
            /\ [v |-> v, err |-> err] = Content(w)
            /\ Others(w)

ReadInv ==
    \A r \in Reader :
        /\ reads[r].pc = "waiting" => reads[r].ch # "nil"
        /\ reads[r].pc \in {"reading", "returned"} => done \in closed /\ reads[r].v = v
        /\ reads[r].pc = "returned" => reads[r].err = err

LatchInv ==
    /\ closed \subseteq {"closedchan", done} /\ "closedchan" \in closed
    /\ "nil" \notin closed
    /\ MutexInv
    /\ OpenInv
    /\ ResolvedInv
    /\ ReadInv
    /\ ChannelKept

\* No reader that waits, with or without a context, is left behind.
NoWaiterLeft ==
    \A r \in Reader :
        (\E w \in Resolver : at[w] = "resolved") /\ reads[r].pc = "waiting" ~> Over(r)

\* The latch implements a register that is written once.
Winner == IF done \in closed THEN IF v # "nil" THEN v ELSE err ELSE "unresolved"

OutcomeOf(w) == IF at[w] \in {"resolved", "panicked"} THEN at[w] ELSE "none"

AnswerOf(r) ==
    CASE reads[r].pc = "returned" -> IF reads[r].v # "nil" THEN reads[r].v ELSE reads[r].err
      [] reads[r].pc \in {"notResolved", "cancelled"} -> reads[r].pc
      [] OTHER -> "none"

Once == INSTANCE WriteOnce WITH
    content <- Winner,
    outcome <- [w \in Resolver |-> OutcomeOf(w)],
    answer  <- [r \in Reader |-> AnswerOf(r)]

\* future.go:22-38: a future is resolved once, and Value returns what it was
\* resolved with.
IsWriteOnce == Once!Spec
=============================================================================
