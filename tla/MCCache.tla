------------------------------- MODULE MCCache -------------------------------
(* Small caches.  Addresses a1 and a2 share block A; B and C are other blocks *)
(* of the same set.                                                          *)
EXTENDS Cache, TLC

CONSTANTS a1, a2, b1, c1, A, B, C, core, upper

MCBlockOf == [x \in Addrs |-> CASE x = b1 -> B [] x = c1 -> C [] OTHER -> A]
MCSetOf == [x \in {A, B, C} |-> 0]
OnePerQueue == [q \in QueueNames |-> 1]
TwoReadsAndWrites == [q \in QueueNames |-> IF q \in {"RQ", "WQ"} THEN 2 ELSE 1]
=============================================================================
