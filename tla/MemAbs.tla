------------------------------- MODULE MemAbs -------------------------------
(***************************************************************************)
(* What the memory manager of mem.c promises its callers, without its hash *)
(* tables: a set of memory categories ("types") and, for every tracked     *)
(* pointer, the category it is charged to.                                 *)
(***************************************************************************)
CONSTANTS
    TypeId,   \* category ids a caller may register (0, the reserved id, is not one)
    Pointer   \* addresses that can be tracked

VARIABLES
    types,    \* categories that exist
    owner     \* tracked pointer -> category it belongs to

vars == <<types, owner>>

Tracked == DOMAIN owner

Init ==
    /\ types = {}
    /\ owner = [p \in {} |-> 0]

AddType(t) ==
    /\ t \notin types
    /\ types' = types \cup {t}
    /\ UNCHANGED owner

\* A category goes away only when no tracked pointer belongs to it.
DelType(t) ==
    /\ t \in types
    /\ \A p \in Tracked : owner[p] # t
    /\ types' = types \ {t}
    /\ UNCHANGED owner

\* mem_alloc, mem_calloc and mem_store
Track(p, t) ==
    /\ t \in types
    /\ p \notin Tracked
    /\ owner' = [q \in Tracked \cup {p} |-> IF q = p THEN t ELSE owner[q]]
    /\ UNCHANGED types

\* mem_realloc moves a block and keeps its category
Move(p, q) ==
    /\ p \in Tracked
    /\ q \notin Tracked
    /\ owner' = [r \in (Tracked \ {p}) \cup {q} |->
                    IF r = q THEN owner[p] ELSE owner[r]]
    /\ UNCHANGED types

Release(p) ==
    /\ p \in Tracked
    /\ owner' = [q \in Tracked \ {p} |-> owner[q]]
    /\ UNCHANGED types

Next ==
    \/ \E t \in TypeId : AddType(t) \/ DelType(t)
    \/ \E p \in Pointer, t \in TypeId : Track(p, t)
    \/ \E p, q \in Pointer : Move(p, q)
    \/ \E p \in Pointer : Release(p)

Spec == Init /\ [][Next]_vars
=============================================================================
