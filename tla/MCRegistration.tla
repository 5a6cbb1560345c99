--------------------------- MODULE MCRegistration ---------------------------
(* Every kind of call once, valid tasks twice, against two calls of Run.      *)
EXTENDS Registration, TLC

CONSTANTS add1, add2, bad, initError, initFails, shutdown, r1, r2

MCCaller == {add1, add2, bad, initError, initFails, shutdown}
MCRunner == {r1, r2}
MCKind ==
    (add1 :> "task") @@ (add2 :> "task") @@ (bad :> "badTask")
        @@ (initError :> "initError") @@ (initFails :> "initFails")
        @@ (shutdown :> "shutdown")
=============================================================================
