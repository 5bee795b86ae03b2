-------------------------------- MODULE MCMem --------------------------------
(* Small instances of the memory manager for TLC.                            *)
EXTENDS Mem

CONSTANTS h1, h2, u1, i1, i2

MCHeapPtr == {h1, h2}
MCUserPtr == {u1}
MCInfoAddr == {i1, i2}

\* One bucket shared by a heap address and a stored one, and by two categories.
MCTypeHash == [t \in TypeId |-> 0]
MCPtrHash == [p \in Pointer |-> IF p = h2 THEN 1 ELSE 0]
==============================================================================
