---------------------------- MODULE FutureProofs ----------------------------
(***************************************************************************)
(* Proofs about Future, for any number of resolvers and readers.           *)
(***************************************************************************)
EXTENDS Future, TLAPS

USE FutureAssumption

-----------------------------------------------------------------------------
(* Type correctness.                                                       *)

\* A reader whose progress is replaced by a well typed one.
LEMMA ProgressKept ==
    ASSUME reads \in [Reader -> Progress], NEW r \in Reader, NEW p \in Progress,
           reads' = [reads EXCEPT ![r] = p]
    PROVE  reads' \in [Reader -> Progress]
OBVIOUS

\* Every variable of the future keeps its type.
LEMMA TypeKept == TypeOK /\ [Next]_vars => TypeOK'
<1> SUFFICES ASSUME TypeOK, [Next]_vars PROVE TypeOK'
  OBVIOUS
<1>1. ASSUME NEW w \in Resolver, Lock(w) PROVE TypeOK'
  BY <1>1 DEF TypeOK, Lock
<1>2. ASSUME NEW w \in Resolver, Write(w) PROVE TypeOK'
  BY <1>2 DEF TypeOK, Write
<1>3. ASSUME NEW w \in Resolver, Close(w) PROVE TypeOK'
  BY <1>3 DEF TypeOK, Close, CloseChannel, Channel
<1>4. ASSUME NEW r \in Reader, Done(r) PROVE TypeOK'
  <2>1. ChannelFor(r) \in Channel
    BY DEF ChannelFor, TypeOK, Channel
  <2>2. [Idle EXCEPT !.pc = "waiting", !.ch = ChannelFor(r)] \in Progress
    BY <2>1 DEF Idle, Progress
  <2>3. reads' \in [Reader -> Progress]
    BY <1>4, <2>2, ProgressKept DEF TypeOK, Done
  <2> QED BY <1>4, <2>1, <2>3 DEF TypeOK, Done
<1>5. ASSUME NEW r \in Reader, ReadValue(r) \/ ReadError(r) \/ NotResolved(r) \/ GiveUp(r)
      PROVE  TypeOK'
  <2>1. reads[r] \in Progress /\ v \in Resolver \cup {"nil"} /\ err \in Resolver \cup {"nil"}
    BY DEF TypeOK
  <2>2. /\ [reads[r] EXCEPT !.pc = "reading", !.v = v] \in Progress
        /\ [reads[r] EXCEPT !.pc = "returned", !.err = err] \in Progress
        /\ [reads[r] EXCEPT !.pc = "notResolved"] \in Progress
        /\ [reads[r] EXCEPT !.pc = "cancelled"] \in Progress
    BY <2>1 DEF Progress
  <2>3. \E p \in Progress : reads' = [reads EXCEPT ![r] = p]
    BY <1>5, <2>2 DEF ReadValue, ReadError, NotResolved, GiveUp
  <2>4. reads' \in [Reader -> Progress]
    BY <2>3, ProgressKept DEF TypeOK
  <2>5. UNCHANGED <<mu, done, closed, v, err, at>>
    BY <1>5 DEF ReadValue, ReadError, NotResolved, GiveUp
  <2> QED BY <2>4, <2>5 DEF TypeOK
<1>6. CASE Terminated \/ UNCHANGED vars
  BY <1>6 DEF TypeOK, Terminated, vars
<1> QED BY <1>1, <1>2, <1>3, <1>4, <1>5, <1>6 DEF Next, Resolving, Reading

\* The future's state is well typed, for any number of resolvers and readers.
THEOREM TypeCorrect == Spec => []TypeOK
<1>1. Init => TypeOK
  BY DEF Init, TypeOK, Idle, Channel, Progress
<1> QED BY <1>1, TypeKept, PTL DEF Spec

-----------------------------------------------------------------------------
(* The latch.                                                              *)

\* Every step of a resolver keeps the invariant of the latch.
LEMMA ResolverStep ==
    ASSUME TypeOK, LatchInv, NEW w \in Resolver, Lock(w) \/ Resolving(w)
    PROVE  LatchInv'
<1>1. CASE Lock(w)
  BY <1>1 DEF TypeOK, LatchInv, MutexInv, OpenInv, ResolvedInv, ReadInv, ChannelKept,
     Lock, AlreadyResolved, Others, Content
<1>2. CASE Write(w)
  <2>1. mu = w /\ done \notin closed
    BY <1>2 DEF TypeOK, LatchInv, MutexInv, ResolvedInv, Others, Write
  <2>2. \A other \in Resolver \ {w} : at[other] = "none"
    BY <2>1 DEF TypeOK, LatchInv, MutexInv, OpenInv
  <2>3. v = "nil" /\ err = "nil"
    BY <1>2, <2>1, <2>2 DEF LatchInv, OpenInv, Write
  <2>4. [v |-> v', err |-> err'] = Content(w)
    BY <1>2, <2>3 DEF Write, Content
  <2>5. at' = [at EXCEPT ![w] = "written"] /\ UNCHANGED <<mu, done, closed, reads>>
    BY <1>2 DEF Write
  <2>6. MutexInv'
    BY <2>1, <2>2, <2>5 DEF MutexInv, TypeOK
  <2>7. OpenInv'
    BY <2>2, <2>4, <2>5 DEF OpenInv, TypeOK, Content
  <2>8. ReadInv' /\ ChannelKept' /\ ResolvedInv'
    BY <2>1, <2>5 DEF LatchInv, ReadInv, ChannelKept, ResolvedInv
  <2> QED BY <2>5, <2>6, <2>7, <2>8 DEF LatchInv
<1>3. CASE Close(w)
  <2>1. mu = w /\ done \notin closed
    BY <1>3 DEF TypeOK, LatchInv, MutexInv, ResolvedInv, Others, Close
  <2>2. \A other \in Resolver \ {w} : at[other] = "none"
    BY <2>1 DEF TypeOK, LatchInv, MutexInv, OpenInv
  <2>3. [v |-> v, err |-> err] = Content(w)
    BY <1>3, <2>1 DEF LatchInv, OpenInv, Close
  <2>4. at' = [at EXCEPT ![w] = "resolved"] /\ mu' = "nil" /\ UNCHANGED <<v, err, reads>>
    BY <1>3 DEF Close
  <2>5. done' \in closed' /\ closed' \subseteq {"closedchan", done'}
        /\ "closedchan" \in closed' /\ "nil" \notin closed'
    BY <1>3 DEF Close, CloseChannel, LatchInv
  <2>6. MutexInv' /\ OpenInv'
    BY <2>2, <2>4, <2>5 DEF MutexInv, OpenInv, TypeOK
  <2>7. ResolvedInv'
    BY <2>2, <2>3, <2>4 DEF ResolvedInv, Others, Content, TypeOK
  <2>8. done' = done \/ done = "nil"
    BY <1>3 DEF Close, CloseChannel
  <2>9. ReadInv' /\ ChannelKept'
    BY <2>1, <2>4, <2>5, <2>8 DEF LatchInv, ReadInv, ChannelKept
  <2> QED BY <2>5, <2>6, <2>7, <2>9 DEF LatchInv
<1> QED BY <1>1, <1>2, <1>3 DEF Resolving

\* Every step of a reader keeps the invariant of the latch.
LEMMA ReaderStep ==
    ASSUME TypeOK, LatchInv, NEW r \in Reader, Reading(r) \/ GiveUp(r)
    PROVE  LatchInv'
<1>1. CASE Done(r)
  <2>1. UNCHANGED <<mu, closed, v, err, at>>
    BY <1>1 DEF Done
  <2>2. /\ done' # "nil"
        /\ done # "nil" => done' = done
        /\ (done' \in closed) <=> (done \in closed)
        /\ done = "nil" => closed \subseteq {"closedchan"}
    BY <1>1 DEF Done, ChannelFor, LatchInv, FutureAssumption, TypeOK, Channel
  <2>3. MutexInv' /\ OpenInv' /\ ResolvedInv'
    BY <2>1, <2>2 DEF LatchInv, MutexInv, OpenInv, ResolvedInv, Others
  <2>4. /\ reads'[r] = [Idle EXCEPT !.pc = "waiting", !.ch = done']
        /\ \A x \in Reader \ {r} : reads'[x] = reads[x]
    BY <1>1 DEF Done, TypeOK
  <2>5. reads'[r].pc = "waiting" /\ reads'[r].ch = done'
    BY <2>4 DEF Idle
  <2>6. ReadInv'
    BY <2>1, <2>2, <2>4, <2>5 DEF LatchInv, ReadInv
  <2>7. ChannelKept'
    BY <2>2, <2>4, <2>5 DEF LatchInv, ChannelKept
  <2> QED BY <2>1, <2>2, <2>3, <2>6, <2>7 DEF LatchInv
<1>2. CASE ReadValue(r) \/ ReadError(r) \/ NotResolved(r) \/ GiveUp(r)
  <2>1. UNCHANGED <<mu, done, closed, v, err, at>>
    BY <1>2 DEF ReadValue, ReadError, NotResolved, GiveUp
  <2>2. MutexInv' /\ OpenInv' /\ ResolvedInv'
    BY <2>1 DEF LatchInv, MutexInv, OpenInv, ResolvedInv, Others
  <2>3. \A x \in Reader \ {r} : reads'[x] = reads[x]
    BY <1>2 DEF ReadValue, ReadError, NotResolved, GiveUp, TypeOK
  <2>4. reads'[r].ch = reads[r].ch
    <3>1. CASE ReadValue(r)
      BY <3>1 DEF ReadValue, TypeOK, Progress
    <3>2. CASE ReadError(r)
      BY <3>2 DEF ReadError, TypeOK, Progress
    <3>3. CASE NotResolved(r) \/ GiveUp(r)
      BY <3>3 DEF NotResolved, GiveUp, TypeOK, Progress
    <3> QED BY <1>2, <3>1, <3>2, <3>3
  <2>5. ChannelKept'
    BY <2>1, <2>3, <2>4 DEF LatchInv, ChannelKept
  <2>6. ASSUME ReadValue(r) PROVE ReadInv'
    <3>1. reads'[r].pc = "reading" /\ reads'[r].v = v /\ done \in closed
      BY <2>6 DEF ReadValue, TypeOK, Progress, LatchInv, ReadInv, ChannelKept
    <3> QED BY <2>1, <2>3, <3>1 DEF LatchInv, ReadInv
  <2>7. ASSUME ReadError(r) PROVE ReadInv'
    <3>1. /\ reads'[r].pc = "returned" /\ reads'[r].v = reads[r].v /\ reads'[r].err = err
          /\ reads[r].pc = "reading"
      BY <2>7 DEF ReadError, TypeOK, Progress
    <3>2. done \in closed /\ reads[r].v = v
      BY <3>1 DEF LatchInv, ReadInv
    <3> QED BY <2>1, <2>3, <3>1, <3>2 DEF LatchInv, ReadInv
  <2>8. ASSUME NotResolved(r) \/ GiveUp(r) PROVE ReadInv'
    <3>1. reads'[r].pc \in {"notResolved", "cancelled"}
      BY <2>8 DEF NotResolved, GiveUp, TypeOK, Progress
    <3> QED BY <2>1, <2>3, <3>1 DEF LatchInv, ReadInv
  <2>9. ReadInv'
    BY <1>2, <2>6, <2>7, <2>8
  <2> QED BY <2>1, <2>2, <2>5, <2>9 DEF LatchInv
<1> QED BY <1>1, <1>2 DEF Reading

\* The invariant of the latch is inductive.
LEMMA LatchStep == TypeOK /\ LatchInv /\ [Next]_vars => LatchInv'
<1> SUFFICES ASSUME TypeOK, LatchInv, [Next]_vars PROVE LatchInv'
  OBVIOUS
<1>1. CASE Terminated \/ UNCHANGED vars
  BY <1>1 DEF Terminated, vars, LatchInv, MutexInv, OpenInv, ResolvedInv, ReadInv,
     ChannelKept, Others
<1> QED BY <1>1, ResolverStep, ReaderStep DEF Next

\* A future starts open, with nobody reading it.
LEMMA LatchInit == Init => LatchInv
BY DEF Init, LatchInv, MutexInv, OpenInv, ResolvedInv, ReadInv, ChannelKept, Idle

\* Every reader that got the content got that of the one resolver that did not
\* panic, both fields of it, and every channel handed out is the latch's.
THEOREM OneContent == Spec => [](ReadersAgree /\ ChannelKept)
<1>1. TypeOK /\ LatchInv => ReadersAgree /\ ChannelKept
  <2> SUFFICES ASSUME TypeOK, LatchInv, NEW r \in Reader, reads[r].pc = "returned"
               PROVE  \E w \in Resolver :
                         /\ at[w] = "resolved"
                         /\ [v |-> reads[r].v, err |-> reads[r].err] = Content(w)
                         /\ \A other \in Resolver \ {w} : at[other] \in {"none", "panicked"}
    BY DEF ReadersAgree, LatchInv
  <2>1. done \in closed /\ reads[r].v = v /\ reads[r].err = err
    BY DEF LatchInv, ReadInv
  <2> QED BY <2>1 DEF LatchInv, ResolvedInv, Others
<1> QED BY <1>1, LatchInit, LatchStep, TypeCorrect, PTL DEF Spec

-----------------------------------------------------------------------------
(* The future implements the register that is written once.               *)

\* Locking the latch is invisible, or a panic, in the register.
LEMMA LockRefines ==
    ASSUME TypeOK, LatchInv, NEW w \in Resolver, Lock(w)
    PROVE  [Once!Next]_Once!vars
<1>1. UNCHANGED <<Winner, [r \in Reader |-> AnswerOf(r)]>>
  BY DEF Lock, Winner, AnswerOf
<1>2. CASE AlreadyResolved
  <2>1. Winner # "unresolved"
    BY <1>2 DEF AlreadyResolved, Winner, LatchInv, ResolvedInv, Content, TypeOK
  <2>2. [x \in Resolver |-> OutcomeOf(x)]'
           = [[x \in Resolver |-> OutcomeOf(x)] EXCEPT ![w] = "panicked"]
    BY <1>2 DEF Lock, OutcomeOf, TypeOK
  <2>3. OutcomeOf(w) = "none"
    BY DEF Lock, OutcomeOf
  <2>4. Once!Panic(w)
    BY <1>1, <2>1, <2>2, <2>3 DEF Once!Panic
  <2> QED BY <2>4 DEF Once!Next
<1>3. CASE ~AlreadyResolved
  <2>1. [x \in Resolver |-> OutcomeOf(x)]' = [x \in Resolver |-> OutcomeOf(x)]
    BY <1>3 DEF Lock, OutcomeOf, TypeOK
  <2> QED BY <1>1, <2>1 DEF Once!vars
<1> QED BY <1>2, <1>3

\* Writing the content is invisible, as the latch is still open ...
LEMMA WriteRefines ==
    ASSUME TypeOK, LatchInv, NEW w \in Resolver, Write(w)
    PROVE  UNCHANGED Once!vars
<1>1. done \notin closed
  BY DEF Write, LatchInv, ResolvedInv, Others, TypeOK
<1>2. UNCHANGED <<Winner, [r \in Reader |-> AnswerOf(r)]>>
  BY <1>1 DEF Write, Winner, AnswerOf
<1>3. [x \in Resolver |-> OutcomeOf(x)]' = [x \in Resolver |-> OutcomeOf(x)]
  BY DEF Write, OutcomeOf, TypeOK
<1> QED BY <1>2, <1>3 DEF Once!vars

\* ... and closing its channel resolves the register.
LEMMA CloseRefines ==
    ASSUME TypeOK, LatchInv, NEW w \in Resolver, Close(w)
    PROVE  Once!Resolve(w)
<1>1. done \notin closed /\ done' \in closed'
  BY DEF Close, CloseChannel, LatchInv, ResolvedInv, Others, TypeOK
<1>2. [v |-> v, err |-> err] = Content(w) /\ UNCHANGED <<v, err, reads>>
  BY <1>1 DEF Close, LatchInv, OpenInv
<1>3. Winner = "unresolved" /\ Winner' = w
  BY <1>1, <1>2 DEF Winner, Content
<1>4. OutcomeOf(w) = "none"
  BY DEF Close, OutcomeOf
<1>5. [x \in Resolver |-> OutcomeOf(x)]'
         = [[x \in Resolver |-> OutcomeOf(x)] EXCEPT ![w] = "resolved"]
  BY DEF Close, OutcomeOf, TypeOK
<1>6. UNCHANGED [r \in Reader |-> AnswerOf(r)]
  BY <1>2 DEF AnswerOf
<1> QED BY <1>3, <1>4, <1>5, <1>6 DEF Once!Resolve

\* What a reader does to the resolvers' part of the register: nothing.
LEMMA ReaderKeeps ==
    ASSUME TypeOK, LatchInv, NEW r \in Reader, Reading(r) \/ GiveUp(r)
    PROVE  UNCHANGED <<Winner, [w \in Resolver |-> OutcomeOf(w)]>>
<1>1. UNCHANGED <<closed, v, err, at>>
  BY DEF Reading, Done, ReadValue, ReadError, NotResolved, GiveUp
<1>2. (done' \in closed') <=> (done \in closed)
  BY DEF Reading, Done, ChannelFor, ReadValue, ReadError, NotResolved, GiveUp, LatchInv,
     FutureAssumption
<1> QED BY <1>1, <1>2 DEF Winner, OutcomeOf

\* A reader's step is invisible until it returns; then it has the content, was
\* told that there is none, or gave up.
LEMMA ReaderRefines ==
    ASSUME TypeOK, LatchInv, NEW r \in Reader, Reading(r) \/ GiveUp(r)
    PROVE  [Once!Next]_Once!vars
<1> DEFINE answers == [x \in Reader |-> AnswerOf(x)]
<1>1. UNCHANGED <<Winner, [w \in Resolver |-> OutcomeOf(w)]>>
  BY ReaderKeeps
<1>2. CASE Done(r) \/ ReadValue(r)
  <2>1. UNCHANGED answers
    <3>1. CASE Done(r)
      BY <3>1 DEF Done, Idle, AnswerOf, TypeOK
    <3>2. CASE ReadValue(r)
      BY <3>2 DEF ReadValue, AnswerOf, TypeOK
    <3> QED BY <1>2, <3>1, <3>2
  <2> QED BY <1>1, <2>1 DEF Once!vars
<1>3. CASE ReadError(r)
  <2>1. done \in closed /\ reads[r].v = v
    BY <1>3 DEF ReadError, LatchInv, ReadInv
  <2>2. Winner # "unresolved"
    BY <2>1 DEF Winner, LatchInv, ResolvedInv, Content, TypeOK
  <2>3. AnswerOf(r) = "none"
    BY <1>3 DEF ReadError, AnswerOf
  <2>4. answers' = [answers EXCEPT ![r] = Winner]
    <3>1. \A x \in Reader \ {r} : reads'[x] = reads[x]
      BY <1>3 DEF ReadError, TypeOK
    <3>2. reads'[r].pc = "returned" /\ reads'[r].v = v /\ reads'[r].err = err
      BY <1>3, <2>1 DEF ReadError, TypeOK, Progress
    <3>3. AnswerOf(r)' = Winner
      BY <1>3, <2>1, <3>2 DEF ReadError, AnswerOf, Winner
    <3>4. \A x \in Reader \ {r} : AnswerOf(x)' = AnswerOf(x)
      BY <3>1 DEF AnswerOf
    <3> QED BY <3>3, <3>4
  <2>5. Once!GetContent(r)
    BY <1>1, <2>2, <2>3, <2>4 DEF Once!GetContent, Once!Answer
  <2> QED BY <2>5 DEF Once!Next
<1>4. CASE NotResolved(r)
  <2>1. Winner = "unresolved"
    BY <1>4 DEF NotResolved, LatchInv, ReadInv, ChannelKept, Winner
  <2>2. AnswerOf(r) = "none" /\ r \in NoWait
    BY <1>4 DEF NotResolved, AnswerOf
  <2>3. answers' = [answers EXCEPT ![r] = "notResolved"]
    <3>1. \A x \in Reader \ {r} : reads'[x] = reads[x]
      BY <1>4 DEF NotResolved, TypeOK
    <3>2. reads'[r].pc = "notResolved"
      BY <1>4 DEF NotResolved, TypeOK, Progress
    <3>3. AnswerOf(r)' = "notResolved" /\ \A x \in Reader \ {r} : AnswerOf(x)' = AnswerOf(x)
      BY <3>1, <3>2 DEF AnswerOf
    <3> QED BY <3>3
  <2>4. Once!NotResolved(r)
    BY <1>1, <2>1, <2>2, <2>3 DEF Once!NotResolved, Once!Answer
  <2> QED BY <2>4 DEF Once!Next
<1>5. CASE GiveUp(r)
  <2>1. AnswerOf(r) = "none" /\ r \in WithCtx \ NoWait
    BY <1>5 DEF GiveUp, AnswerOf
  <2>2. answers' = [answers EXCEPT ![r] = "cancelled"]
    <3>1. \A x \in Reader \ {r} : reads'[x] = reads[x]
      BY <1>5 DEF GiveUp, TypeOK
    <3>2. reads'[r].pc = "cancelled"
      BY <1>5 DEF GiveUp, TypeOK, Progress
    <3>3. AnswerOf(r)' = "cancelled" /\ \A x \in Reader \ {r} : AnswerOf(x)' = AnswerOf(x)
      BY <3>1, <3>2 DEF AnswerOf
    <3> QED BY <3>3
  <2>3. Once!GiveUp(r)
    BY <1>1, <2>1, <2>2 DEF Once!GiveUp, Once!Answer
  <2> QED BY <2>3 DEF Once!Next
<1> QED BY <1>2, <1>3, <1>4, <1>5 DEF Reading

\* Every behaviour of the latch, its lazy channel and its unsynchronized readers
\* is one of a register that is written once (future.go:22-38).
THEOREM Refinement == Spec => IsWriteOnce
<1>1. Init => Once!Init
  BY DEF Init, Once!Init, Winner, OutcomeOf, AnswerOf, Idle
<1>2. TypeOK /\ LatchInv /\ [Next]_vars => [Once!Next]_Once!vars
  <2> SUFFICES ASSUME TypeOK, LatchInv, [Next]_vars PROVE [Once!Next]_Once!vars
    OBVIOUS
  <2>1. ASSUME NEW w \in Resolver, Write(w) PROVE [Once!Next]_Once!vars
    BY <2>1, WriteRefines
  <2>2. ASSUME NEW w \in Resolver, Close(w) PROVE [Once!Next]_Once!vars
    BY <2>2, CloseRefines DEF Once!Next
  <2>3. CASE Terminated \/ UNCHANGED vars
    BY <2>3 DEF Terminated, vars, Once!vars, Winner, OutcomeOf, AnswerOf
  <2> QED BY <2>1, <2>2, <2>3, LockRefines, ReaderRefines DEF Next, Resolving
<1> QED BY <1>1, <1>2, LatchInit, LatchStep, TypeCorrect, PTL DEF Spec, IsWriteOnce, Once!Spec
=============================================================================
