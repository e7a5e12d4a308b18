----------------------------- MODULE MCCombiner -----------------------------
EXTENDS Combiner

CONSTANTS a1, a2, c1, c2, c3, l1, l2

SmallSetups ==
    {[now |-> {c1, c2}, finally |-> {c3}, carriers |-> {c2}, pollers |-> {a2},
      locks |-> {l1}],
     [now |-> {c1}, finally |-> {c3}, carriers |-> {c1}, pollers |-> {},
      locks |-> {l1, l2}]}
=============================================================================
