------------------------------ MODULE MCDBImpl ------------------------------
(***************************************************************************)
(* Small instances of DBImpl: three calls with one failing I/O operation   *)
(* or one restart, and two calls with a failure and a second crash, which  *)
(* may hit the recovery from the first.                                    *)
(***************************************************************************)
EXTENDS DBImpl

SmallBudgets ==
    {[calls |-> 3, restarts |-> 0, errors |-> 1],
     [calls |-> 3, restarts |-> 1, errors |-> 0],
     [calls |-> 2, restarts |-> 2, errors |-> 0],
     [calls |-> 2, restarts |-> 1, errors |-> 1]}
=============================================================================
