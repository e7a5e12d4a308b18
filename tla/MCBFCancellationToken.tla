----------------------- MODULE MCBFCancellationToken -----------------------
(* A small instance of BFCancellationToken. *)
EXTENDS BFCancellationToken

\* Assertions and well-behaved observers; no assertions, and observers that may
\* dispose their own registration.
Debug      == [asserts |-> TRUE, reenter |-> FALSE]
Release    == [asserts |-> FALSE, reenter |-> TRUE]
BothBuilds == {Debug, Release}
=============================================================================
