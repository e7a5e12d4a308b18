------------------------------- MODULE Mpscq -------------------------------
(***************************************************************************)
(* gpr_mpscq (gRPC-Core, src/core/lib/support/mpscq.cc): an intrusive      *)
(* queue with many producers and one consumer.  A producer swaps itself    *)
(* in as the head and links itself behind its predecessor later: between   *)
(* the two the list is in two pieces, and the consumer may find nothing    *)
(* although nodes are queued.                                              *)
(*                                                                         *)
(* One action is one access to memory other threads see; the accesses are  *)
(* sequentially consistent.  The stub node of a queue is the queue.  The   *)
(* actions say nothing of who may call them: Combiner composes them.       *)
(***************************************************************************)
EXTENDS Naturals

CONSTANTS Threads, Queues, Nodes, Null

VARIABLES
    head,   \* q->head
    tail,   \* q->tail
    next,   \* node->next
    op      \* per thread: where it is in push or pop, and their locals

qvars == <<head, tail, next, op>>

Slots  == Nodes \cup Queues
IdleOp == [pc |-> "idle", q |-> Null, n |-> Null, prev |-> Null, tail |-> Null]

QTypeOK ==
    /\ head \in [Queues -> Slots] /\ tail \in [Queues -> Slots]
    /\ next \in [Slots -> Slots \cup {Null}]
    /\ op \in [Threads -> [pc : {"idle", "link", "reload", "head", "stub", "last", "popped"},
                           q : Queues \cup {Null}, n : Slots \cup {Null},
                           prev : Slots \cup {Null}, tail : Slots \cup {Null}]]

\* gpr_mpscq_init
QInit ==
    /\ head = [q \in Queues |-> q] /\ tail = [q \in Queues |-> q]
    /\ next = [n \in Slots |-> Null]
    /\ op = [t \in Threads |-> IdleOp]

\* The condition gpr_mpscq_destroy asserts.
QDestroyable(q) == head[q] = q /\ tail[q] = q

-----------------------------------------------------------------------------
\* gpr_mpscq_push up to the exchange; node n is nobody else's before it.
PushXchg(t, q, n) ==
    /\ op[t].pc = "idle"
    /\ next' = [next EXCEPT ![n] = Null]
    /\ head' = [head EXCEPT ![q] = n]
    /\ op' = [op EXCEPT ![t] = [@ EXCEPT !.pc = "link", !.q = q, !.n = n, !.prev = head[q]]]
    /\ UNCHANGED tail

\* The store that links the node; gpr_mpscq_pop goes on after it if it was the stub.
PushLink(t) ==
    /\ op[t].pc = "link"
    /\ next' = [next EXCEPT ![op[t].prev] = op[t].n]
    /\ op' = [op EXCEPT ![t] = IF op[t].n \in Queues THEN [@ EXCEPT !.pc = "last"] ELSE IdleOp]
    /\ UNCHANGED <<head, tail>>

-----------------------------------------------------------------------------
\* gpr_mpscq_pop_and_check_end.  Its result is op[t].n.
Popped(t, n) == op' = [op EXCEPT ![t] = [@ EXCEPT !.pc = "popped", !.n = n]]

PopStart(t, q) ==
    /\ op[t].pc = "idle"
    /\ LET tl == tail[q]
           nx == next[tl]
           o  == [IdleOp EXCEPT !.q = q, !.tail = tl]
       IN  \/ /\ tl = q /\ nx = Null
              /\ op' = [op EXCEPT ![t] = [o EXCEPT !.pc = "popped"]]
              /\ UNCHANGED tail
           \/ /\ tl = q /\ nx # Null
              /\ tail' = [tail EXCEPT ![q] = nx]
              /\ op' = [op EXCEPT ![t] = [o EXCEPT !.pc = "reload", !.tail = nx]]
           \/ /\ tl # q /\ nx # Null
              /\ tail' = [tail EXCEPT ![q] = nx]
              /\ op' = [op EXCEPT ![t] = [o EXCEPT !.pc = "popped", !.n = tl]]
           \/ /\ tl # q /\ nx = Null
              /\ op' = [op EXCEPT ![t] = [o EXCEPT !.pc = "head"]]
              /\ UNCHANGED tail
    /\ UNCHANGED <<head, next>>

\* The stub was skipped: is there something behind the node?
PopReload(t) ==
    /\ op[t].pc = "reload"
    /\ LET nx == next[op[t].tail]
       IN  \/ /\ nx # Null
              /\ tail' = [tail EXCEPT ![op[t].q] = nx]
              /\ Popped(t, op[t].tail)
           \/ /\ nx = Null
              /\ op' = [op EXCEPT ![t].pc = "head"]
              /\ UNCHANGED tail
    /\ UNCHANGED <<head, next>>

\* Variant: the last node is handed out without the stub behind it.
PopHeadNoStub(t) ==
    /\ op[t].pc = "head"
    /\ Popped(t, op[t].tail)
    /\ UNCHANGED <<head, tail, next>>

\* Nothing behind the node: somebody is still adding, or it is the last one.
PopHead(t) ==
    /\ op[t].pc = "head"
    /\ \/ head[op[t].q] # op[t].tail /\ Popped(t, Null)
       \/ head[op[t].q] = op[t].tail /\ op' = [op EXCEPT ![t].pc = "stub"]
    /\ UNCHANGED <<head, tail, next>>

\* gpr_mpscq_push(q, &q->stub) up to the exchange.
PopStub(t) ==
    /\ op[t].pc = "stub"
    /\ LET q == op[t].q
       IN  /\ next' = [next EXCEPT ![q] = Null]
           /\ head' = [head EXCEPT ![q] = q]
           /\ op' = [op EXCEPT ![t] = [@ EXCEPT !.pc = "link", !.n = q, !.prev = head[q]]]
    /\ UNCHANGED tail

PopLast(t) ==
    /\ op[t].pc = "last"
    /\ LET nx == next[op[t].tail]
       IN  \/ /\ nx # Null
              /\ tail' = [tail EXCEPT ![op[t].q] = nx]
              /\ Popped(t, op[t].tail)
           \/ nx = Null /\ Popped(t, Null) /\ UNCHANGED tail
    /\ UNCHANGED <<head, next>>

PopStep(t) ==
    \/ PopReload(t) \/ PopHead(t) \/ PopStub(t) \/ PopLast(t)
    \/ op[t].n \in Queues /\ PushLink(t)
=============================================================================
