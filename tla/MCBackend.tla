------------------------------ MODULE MCBackend ------------------------------
(***************************************************************************)
(* Small traces for Backend.  Addresses x1 and x2 share a cache block, y1  *)
(* is in a block of its own.                                               *)
(***************************************************************************)
EXTENDS Backend, TLC

CONSTANTS r1, r2, x1, x2, y1, X, Y

MCBlockOf == [w \in Addrs |-> IF w = y1 THEN Y ELSE X]

Ins(src, dst, loads, stores) == [src |-> src, dst |-> dst, loads |-> loads, stores |-> stores]

\* Memory traffic: a load, a store of a loaded value, a read-modify-write, a load
\* from another word of the same block, and a load of two words.
MemoryShapes == { Ins({}, {r1}, <<x1>>, <<>>),
                  Ins({r1}, {}, <<>>, <<x1>>),
                  Ins({}, {}, <<x1>>, <<x2>>),
                  Ins({}, {}, <<x2>>, <<>>),
                  Ins({}, {r1}, <<x2, x1>>, <<>>) }

\* Register traffic and two blocks: writers of r1 that finish early and late, and
\* one that waits for another, loads and stores.
MixedShapes == { Ins({}, {r1}, <<>>, <<>>),
                 Ins({r1}, {r1}, <<x1>>, <<>>),
                 Ins({r1}, {r2}, <<y1>>, <<x1>>) }
=============================================================================
