----------------------------- MODULE PrexLinks -----------------------------
(***************************************************************************)
(* The doubly linked queues of sys/lib/queue.c, with their pointers.       *)
(*                                                                         *)
(* L is the memory of the links: L.next[x] and L.prev[x] are the fields of *)
(* the link x, an item or the head of a queue.  PrexQueue is enough for an *)
(* owner that never removes an item twice; here a link that is out of its  *)
(* queue keeps the pointers it had, and removing it again writes through   *)
(* them.                                                                   *)
(***************************************************************************)
EXTENDS Naturals, Sequences, FiniteSets

\* queue_init(h).
Emptied(L, h) == [next |-> [L.next EXCEPT ![h] = h],
                  prev |-> [L.prev EXCEPT ![h] = h]]

IsEmptyQueue(L, h) == L.next[h] = h

\* enqueue(h, x).
Enqueued(L, h, x) ==
  [next |-> [L.next EXCEPT ![x] = h, ![L.prev[h]] = x],
   prev |-> [L.prev EXCEPT ![x] = L.prev[h], ![h] = x]]

RemovedHalf(L, x) ==                                                \* mutant
  [next |-> [L.next EXCEPT ![L.prev[x]] = L.next[x]], prev |-> L.prev]

\* queue_remove(x), and dequeue(h) for x = L.next[h].
Removed(L, x) ==
  [next |-> [L.next EXCEPT ![L.prev[x]] = L.next[x]],
   prev |-> [L.prev EXCEPT ![L.next[x]] = L.prev[x]]]

\* The links from h on: the i-th that a walk along the next fields meets.
Meets(L, h, i) ==
  LET meets[j \in 0..i] == IF j = 0 THEN h ELSE L.next[meets[j - 1]]
  IN  meets[i]

\* The walk comes back to h after k steps, for the first time.
Closes(L, h, k) == /\ Meets(L, h, k) = h
                   /\ \A j \in 1..(k - 1) : Meets(L, h, j) # h

\* The walk comes back at all, and meets only links of S, none of them NULL.
IsRing(L, h, S) ==
  \E k \in 1..Cardinality(DOMAIN L.next) :
    Closes(L, h, k) /\ \A j \in 1..(k - 1) : Meets(L, h, j) \in S

\* The queue of h, for a ring: what a loop from queue_first() to queue_end()
\* meets.
Walk(L, h) ==
  LET k == CHOOSE i \in 1..Cardinality(DOMAIN L.next) : Closes(L, h, i)
  IN  [j \in 1..(k - 1) |-> Meets(L, h, j)]
=============================================================================
