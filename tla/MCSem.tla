------------------------------- MODULE MCSem -------------------------------
(* Small instances of Sem for TLC. *)
EXTENDS Sem

CONSTANTS a, b, c, d

\* c and d are better than a and b.
MCPriority == [t \in Thread |-> IF t \in {c, d} THEN 1 ELSE 2]
=============================================================================
