------------------------------ MODULE MCFuture ------------------------------
(* Two resolvers, one with an error; readers that wait, do not wait, and wait *)
(* with a context.                                                           *)
EXTENDS Future

CONSTANTS w1, w2, r1, r2, r3

MCResolver == {w1, w2}
MCFailing == {w2}
MCReader == {r1, r2, r3}
MCNoWait == {r2}
MCWithCtx == {r3}
=============================================================================
