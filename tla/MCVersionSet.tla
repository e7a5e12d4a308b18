---------------------------- MODULE MCVersionSet ----------------------------
(* Small instances of VersionSet. *)
EXTENDS VersionSet

CONSTANTS x1, i1

Plain == [keys |-> {1, 2}, types |-> {"value", "deletion"}, snaps |-> {}, iters |-> {},
          manual |-> FALSE, fails |-> FALSE, writes |-> 3, moves |-> 2,
          overlap |-> 9]

\* A snapshot and four writes; an iterator and failures; a CompactRange.
ClientSettings ==
    {[Plain EXCEPT !.snaps = {x1}, !.writes = 4],
     [Plain EXCEPT !.iters = {i1}, !.fails = TRUE, !.overlap = 0],
     [Plain EXCEPT !.snaps = {x1}, !.manual = TRUE, !.overlap = 0]}

\* One key, overwritten under a snapshot.
OneKeySettings ==
    {[Plain EXCEPT !.keys = {1}, !.types = {"value"}, !.snaps = {x1}, !.moves = 3]}

\* Three keys and a CompactRange.
ThreeKeysSettings ==
    {[Plain EXCEPT !.keys = {1, 2, 3}, !.types = {"value"}, !.manual = TRUE, !.writes = 5, !.moves = 1]}
=============================================================================
