------------------------------ MODULE Promise ------------------------------
(***************************************************************************)
(* What a Bolts task promises, without locks or threads: it is completed   *)
(* at most once and never changes afterwards, and a continuation attached  *)
(* to it, before or after completion, runs exactly once and never before   *)
(* the task is completed.  BFTask implements this specification.           *)
(***************************************************************************)
EXTENDS Naturals

CONSTANTS Conts,   \* the continuations that may be attached
          Kinds,   \* the ways to complete: result, error, exception, cancelled
          Nil      \* "not completed"

VARIABLES value,     \* Nil, or how the task was completed
          attached,  \* the continuations handed to continueWith...
          runs       \* how many times each continuation has been executed

pvars == <<value, attached, runs>>

PInit ==
    /\ value \in Kinds \cup {Nil}
    /\ attached = {}
    /\ runs = [c \in Conts |-> 0]

\* trySetResult / trySetError / trySetException / trySetCancelled
Complete(k) ==
    /\ value = Nil
    /\ value' = k
    /\ UNCHANGED <<attached, runs>>

\* continueWithExecutor:block:cancellationToken:
Attach(c) ==
    /\ c \notin attached
    /\ attached' = attached \cup {c}
    /\ UNCHANGED <<value, runs>>

\* the executor runs the continuation's block
Run(c) ==
    /\ value # Nil
    /\ c \in attached
    /\ runs[c] = 0
    /\ runs' = [runs EXCEPT ![c] = 1]
    /\ UNCHANGED <<value, attached>>

PNext ==
    \/ \E k \in Kinds : Complete(k)
    \/ \E c \in Conts : Attach(c) \/ Run(c)

PSpec == PInit /\ [][PNext]_pvars

PFairSpec == PSpec /\ \A c \in Conts : WF_pvars(Run(c))
=============================================================================
