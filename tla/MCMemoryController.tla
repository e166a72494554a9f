-------------------------- MODULE MCMemoryController --------------------------
(* Two banks; a1 and a2 are two rows of the first. *)
EXTENDS MemoryController

CONSTANTS a1, a2, b1, r1, r2

MCBankOf == [a \in Addrs |-> IF a = b1 THEN 2 ELSE 1]
MCRowOf == [a \in Addrs |-> IF a = a2 THEN r2 ELSE r1]
=============================================================================
