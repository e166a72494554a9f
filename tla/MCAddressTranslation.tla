------------------------ MODULE MCAddressTranslation ------------------------
(* Two pages of one cpu with two levels of tables below the root.  They share *)
(* the upper table and its block of entries; k1 and k2 tell their last tables *)
(* apart.                                                                     *)
EXTENDS AddressTranslation, TLC

CONSTANTS v1, v2, k, k1, k2, a1, b1, i1, i2

MCKeyOf == [l \in 1..(LEVELS + 1) |-> [v \in VPages |-> IF l = 1 THEN (IF v = v1 THEN k1 ELSE k2) ELSE k]]
MCLineOf == [l \in 0..LEVELS |-> [v \in VPages |-> 0]]
MCTables == {<<1, k1>>, <<1, k2>>, <<2, k>>, <<3, k>>}
MCPageOf == [a \in VAddrs |-> IF a = a1 THEN v1 ELSE v2]
MCOffsetOf == [a \in VAddrs |-> 0]
WriteAndRead == [q \in {"WQ", "RQ"} |-> IF q = "WQ" THEN 1 ELSE 2]
=============================================================================
