----------------------------- MODULE PrexQueue -----------------------------
(***************************************************************************)
(* The doubly linked queues of sys/lib/queue.c, as sequences.              *)
(*                                                                         *)
(* An item is linked in at most one queue at a time (each owner shows that *)
(* it keeps this so), hence a queue is the sequence of its items from head *)
(* to tail, and queue_remove() names an item rather than a position.       *)
(* enqueue() is Append and dequeue() is Head with Tail of module           *)
(* Sequences.                                                              *)
(***************************************************************************)
EXTENDS Naturals, Sequences

\* x is an item of the queue q.
InQueue(x, q) == \E i \in 1..Len(q) : q[i] = x

\* No item is linked twice.
Distinct(q) == \A i, j \in 1..Len(q) : q[i] = q[j] => i = j

\* The items of q.
Items(q) == {q[i] : i \in 1..Len(q)}

AtTail(x, q) == Append(q, x)                                 \* mutant

\* queue_insert(head, x): link x right after the head.
AtHead(x, q) == <<x>> \o q

\* queue_remove(x): unlink x, a no-op for a queue that does not hold x.
Without(q, x) ==
  IF InQueue(x, q)
  THEN LET k == CHOOSE i \in 1..Len(q) : q[i] = x
       IN  [j \in 1..(Len(q) - 1) |-> IF j < k THEN q[j] ELSE q[j + 1]]
  ELSE q

\* The first item of q that no other item beats, when smaller pri is better:
\* the scan of sched_wakeone(), which replaces "top" only for a strictly
\* better priority.
FirstBest(q, pri) ==
  q[CHOOSE i \in 1..Len(q) :
      /\ \A j \in 1..Len(q) : pri[q[i]] <= pri[q[j]]
      /\ \A j \in 1..(i - 1) : pri[q[j]] # pri[q[i]]]
=============================================================================
