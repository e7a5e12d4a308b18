---------------------------- MODULE MCGrpcTimer ----------------------------
(* A small instance of GrpcTimer, and pop_timers as the loop it is.          *)
EXTENDS GrpcTimer

\* The loop of pop_timers over pop_one and refill_heap, turn by turn: the reference for
\* PopAll.
RECURSIVE PopLoop(_, _, _, _, _)
PopLoop(tm, c, n, delta, e) ==
    LET heap == {t \in Timers : tm[t].at = "heap"}
        due  == {t \in heap : tm[t].dl <= n}
        c2   == SaturatingAdd(Max({n, c}), delta)
        in   == {t \in Timers : tm[t].at = "list" /\ tm[t].dl < c2}
    IN  IF due # {}
        THEN LET top == CHOOSE t \in due : \A u \in due : tm[t].dl <= tm[u].dl
             IN  PopLoop(Called(tm, top, e), c, n, delta, e)
        ELSE IF heap # {} \/ n < c THEN [cap |-> c, tm |-> tm]
        ELSE IF in = {} THEN [cap |-> c2, tm |-> tm]
        ELSE PopLoop([t \in Timers |-> IF t \in in THEN [tm[t] EXCEPT !.at = "heap"]
                                                    ELSE tm[t]],
                     c2, n, delta, e)

\* Heaps and lists as the window c splits them.
Shards(c) ==
    {tm \in [Timers -> {[Unset EXCEPT !.dl = d, !.at = a] : d \in {0, 1, 3, AtmMax},
                                                           a \in {"heap", "list", "done"}}] :
        \A t \in Timers : /\ tm[t].at = "heap" => tm[t].dl < c
                          /\ tm[t].at = "list" => tm[t].dl >= c}

ASSUME PopAllIsTheLoop ==
    \A c \in {0, 1, 2, 3, 5, AtmMax}, n \in (0 .. MaxNow) \cup {AtmMax}, delta \in Deltas :
        \A tm \in Shards(c) :
            PopAll(tm, c, n, delta, "none") = PopLoop(tm, c, n, delta, "none")
=============================================================================
