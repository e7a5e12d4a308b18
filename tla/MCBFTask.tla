------------------------------ MODULE MCBFTask ------------------------------
(* Small instances of BFTask. *)
EXTENDS BFTask
=============================================================================
