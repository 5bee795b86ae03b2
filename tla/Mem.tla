-------------------------------- MODULE Mem --------------------------------
(***************************************************************************)
(* The typed memory manager of src/mem.c.  Every allocation is charged to  *)
(* a category; a MemList entry in the hash table pMemList remembers its    *)
(* address, size, flags and MemInfo structure; a MemInfo structure in the  *)
(* hash table pMemInfo describes the category.                             *)
(*                                                                         *)
(* A chain of a hash table is the set of its members: the code searches a  *)
(* chain to its end, so the order never matters while addresses and ids    *)
(* are unique, which is an invariant here and not an assumption.  A call   *)
(* that returns an error changes nothing and is a stuttering step, except  *)
(* for mem_realloc to size 0.                                              *)
(***************************************************************************)
EXTENDS Integers

CONSTANTS
    TypeId,       \* category ids callers use; 0 is reserved
    HeapPtr,      \* addresses malloc returns for user data
    UserPtr,      \* addresses of storage the caller owns and may mem_store
    InfoAddr,     \* addresses malloc returns for MemInfo structures
    HashSize,     \* MEM_HASH_SIZE
    TypeHash,     \* mem_hash of a category id
    PtrHash,      \* mem_hash of an address
    MaxSize,      \* bound: largest block, in bytes
    AllocSizes,   \* sizes asked of mem_alloc, mem_calloc and mem_store
    CallocCounts, \* "members" argument of mem_calloc
    ReallocSizes  \* sizes asked of mem_realloc

Bucket == 0 .. HashSize - 1
Offset == 0 .. MaxSize - 1
Byte == {0, 1}
Pointer == HeapPtr \cup UserPtr

ASSUME MemAssumption ==
    /\ TypeId \subseteq Nat \ {0}
    /\ HeapPtr \cap UserPtr = {}
    /\ HashSize \in Nat \ {0}
    /\ TypeHash \in [TypeId -> Bucket]
    /\ PtrHash \in [Pointer -> Bucket]
    /\ MaxSize \in Nat
    /\ AllocSizes \subseteq 0 .. MaxSize
    /\ CallocCounts \subseteq Nat \ {0}
    /\ ReallocSizes \subseteq 0 .. MaxSize

VARIABLES
    pMemList,  \* bucket -> MemList entries chained there
    pMemInfo,  \* bucket -> addresses of the MemInfo structures chained there
    infoType,  \* MemInfo.type at each address, 0 where no structure lives
    infoCb,    \* MemInfo.cb_free # NULL at each address
    live,      \* user blocks malloc has handed out and nobody has freed
    cap,       \* bytes the C library gave to a block
    data,      \* contents of the user heap
    phase,     \* "idle", or the loop mem_free_all is in: "list", "types"
    faType,    \* the argument of mem_free_all
    faBucket,  \* its i
    faList,    \* entries of bucket i its p_list has still to visit
    faInfo     \* MemInfo structures of bucket i its p_info has still to visit

tables == <<pMemList, pMemInfo, infoType, infoCb>>
heap == <<live, cap, data>>
walk == <<phase, faType, faBucket, faList, faInfo>>
vars == <<tables, heap, walk>>

\* MemList: "stored" is the flag MEM_FLG_STORED
Entry == [p_ptr : Pointer, size : Nat, stored : BOOLEAN, p_info : InfoAddr]

Entries == UNION {pMemList[b] : b \in Bucket}
Infos == UNION {pMemInfo[b] : b \in Bucket}

TableTypes ==
    /\ pMemList \in [Bucket -> SUBSET Entry]
    /\ pMemInfo \in [Bucket -> SUBSET InfoAddr]
    /\ infoType \in [InfoAddr -> TypeId \cup {0}]
    /\ infoCb \in [InfoAddr -> BOOLEAN]

HeapTypes ==
    /\ live \subseteq HeapPtr
    /\ cap \in [HeapPtr -> 0 .. MaxSize]
    /\ data \in [HeapPtr -> [Offset -> Byte]]

WalkTypes ==
    /\ phase \in {"idle", "list", "types"}
    /\ faType \in TypeId \cup {0}
    /\ faBucket \in Bucket
    /\ faList \subseteq Entry
    /\ faInfo \subseteq InfoAddr

\* The types of the tables, of the heap and of the locals of mem_free_all.
TypeOK == TableTypes /\ HeapTypes /\ WalkTypes

Init ==
    /\ pMemList = [b \in Bucket |-> {}]
    /\ pMemInfo = [b \in Bucket |-> {}]
    /\ infoType = [i \in InfoAddr |-> 0]
    /\ infoCb = [i \in InfoAddr |-> FALSE]
    /\ live = {}
    /\ cap = [p \in HeapPtr |-> 0]
    /\ data = [p \in HeapPtr |-> [o \in Offset |-> 0]]
    /\ phase = "idle"
    /\ faType = 0
    /\ faBucket = 0
    /\ faList = {}
    /\ faInfo = {}

-----------------------------------------------------------------------------
(* Lookups: the set of answers, empty for NULL.                            *)

mem_find_type(t) == {i \in pMemInfo[TypeHash[t]] : infoType[i] = t}

\* The fallback scan leaves only its inner loop on a match and goes on with
\* the next bucket, so what it returns is what the last bucket holds.
mem_find_ptr(p) ==
    LET hit == {e \in pMemList[PtrHash[p]] : e.p_ptr = p}
    IN  IF hit # {} THEN hit
        ELSE {e \in pMemList[HashSize - 1] : e.p_ptr = p}

InUse(t) == \E e \in Entries : infoType[e.p_info] = t

-----------------------------------------------------------------------------
(* Categories.                                                             *)

mem_add_type(t) ==
    /\ mem_find_type(t) = {}
    /\ \E i \in InfoAddr :
        /\ infoType[i] = 0
        /\ infoType' = [infoType EXCEPT ![i] = t]
        /\ infoCb' = [infoCb EXCEPT ![i] = FALSE]
        /\ pMemInfo' = [pMemInfo EXCEPT ![TypeHash[t]] = @ \cup {i}]
    /\ UNCHANGED <<pMemList, heap>>

mem_del_type(t) ==
    /\ ~InUse(t)
    /\ \E i \in mem_find_type(t) :
        /\ pMemInfo' = [pMemInfo EXCEPT ![TypeHash[t]] = @ \ {i}]
        /\ infoType' = [infoType EXCEPT ![i] = 0]
    /\ UNCHANGED <<pMemList, infoCb, heap>>

mem_cb_free(t, handler) ==
    /\ \E i \in mem_find_type(t) : infoCb' = [infoCb EXCEPT ![i] = handler]
    /\ UNCHANGED <<pMemList, pMemInfo, infoType, heap>>

-----------------------------------------------------------------------------
(* Blocks.                                                                 *)

\* Push a new entry on the chain of its address.
Push(e) == pMemList' = [pMemList EXCEPT ![PtrHash[e.p_ptr]] = @ \cup {e}]

\* Mutant: the recorded size leaves out a byte.
AllocateOneLess(t, members, size) ==
    /\ members * size <= MaxSize
    /\ \E i \in mem_find_type(t), p \in HeapPtr \ live :
        /\ live' = live \cup {p}
        /\ cap' = [cap EXCEPT ![p] = members * size]
        /\ data' = [data EXCEPT ![p] = [o \in Offset |-> 0]]
        /\ Push([p_ptr |-> p, size |-> size - 1, stored |-> FALSE, p_info |-> i])
    /\ UNCHANGED <<pMemInfo, infoType, infoCb>>

\* mem_alloc, and mem_calloc which records the size of one member only.
Allocate(t, members, size) ==
    /\ members * size <= MaxSize
    /\ \E i \in mem_find_type(t), p \in HeapPtr \ live :
        /\ live' = live \cup {p}
        /\ cap' = [cap EXCEPT ![p] = members * size]
        /\ data' = [data EXCEPT ![p] = [o \in Offset |-> 0]]
        /\ Push([p_ptr |-> p, size |-> size, stored |-> FALSE, p_info |-> i])
    /\ UNCHANGED <<pMemInfo, infoType, infoCb>>

mem_alloc(t, size) == Allocate(t, 1, size)

mem_calloc(t, members, size) == Allocate(t, members, size)

\* Mutant: a pointer may be stored twice.
StoreAgain(p, t, size) ==
    /\ \E i \in mem_find_type(t) :
        Push([p_ptr |-> p, size |-> size, stored |-> TRUE, p_info |-> i])
    /\ UNCHANGED <<pMemInfo, infoType, infoCb, heap>>

mem_store(p, t, size) ==
    /\ mem_find_ptr(p) = {}
    /\ \E i \in mem_find_type(t) :
        Push([p_ptr |-> p, size |-> size, stored |-> TRUE, p_info |-> i])
    /\ UNCHANGED <<pMemInfo, infoType, infoCb, heap>>

\* The block realloc returns: the old bytes up to the smaller of the two
\* capacities, whatever was in the heap beyond them, and then zeros from the
\* recorded size up to new_size.
Resized(p, e, new_size, garbage) ==
    [o \in Offset |->
        IF o >= e.size /\ o < new_size THEN 0
        ELSE IF o < cap[p] /\ o < new_size THEN data[p][o] ELSE garbage]

\* Mutant: the entry keeps the old address.
RehashOldAddress(e, q, new_size) ==
    LET moved == [p_ptr |-> e.p_ptr, size |-> new_size, stored |-> e.stored, p_info |-> e.p_info]
    IN  pMemList' = [pMemList EXCEPT ![PtrHash[e.p_ptr]] = (@ \ {e}) \cup {moved}]

Rehash(e, q, new_size) ==
    LET moved == [p_ptr |-> q, size |-> new_size, stored |-> e.stored, p_info |-> e.p_info]
        unlinked == [pMemList EXCEPT ![PtrHash[e.p_ptr]] = @ \ {e}]
    IN  pMemList' = [unlinked EXCEPT ![PtrHash[q]] = @ \cup {moved}]

mem_realloc(p, new_size) ==
    /\ \E e \in mem_find_ptr(p) :
        /\ ~e.stored
        /\ \/ /\ new_size > 0
              /\ \E q \in (HeapPtr \ live) \cup {p}, garbage \in Byte :
                  /\ live' = (live \ {p}) \cup {q}
                  /\ cap' = [cap EXCEPT ![q] = new_size]
                  /\ data' = [data EXCEPT ![q] = Resized(p, e, new_size, garbage)]
                  /\ Rehash(e, q, new_size)
           \/ \* the C library frees the block and returns NULL; the entry stays
              /\ new_size = 0
              /\ live' = live \ {p}
              /\ UNCHANGED <<pMemList, cap, data>>
    /\ UNCHANGED <<pMemInfo, infoType, infoCb>>

\* Mutant: the block is freed as it is.
DisposeUncleared(p, e) ==
    /\ live' = IF infoCb[e.p_info] \/ ~e.stored THEN live \ {p} ELSE live
    /\ UNCHANGED <<cap, data>>

\* A category's callback takes over the release of the pointer (external: it
\* frees a heap block, and does what it likes with storage of its own); the
\* memory manager itself clears and frees what it allocated.
Dispose(p, e) ==
    \/ /\ infoCb[e.p_info]
       /\ live' = live \ {p}
       /\ UNCHANGED <<cap, data>>
    \/ /\ ~infoCb[e.p_info]
       /\ ~e.stored
       /\ data' = [data EXCEPT ![p] = [o \in Offset |-> IF o < e.size THEN 0 ELSE @[o]]]
       /\ live' = live \ {p}
       /\ UNCHANGED cap
    \/ /\ ~infoCb[e.p_info]
       /\ e.stored
       /\ UNCHANGED heap

mem_free(p) ==
    /\ \E e \in mem_find_ptr(p) :
        /\ pMemList' = [pMemList EXCEPT ![PtrHash[p]] = {f \in @ : f.p_ptr # p}]
        /\ Dispose(p, e)
    /\ UNCHANGED <<pMemInfo, infoType, infoCb>>

\* External: the owner of a block writes into the bytes it asked for.
Write(p, o, byte) ==
    /\ p \in live
    /\ o < cap[p]
    /\ data' = [data EXCEPT ![p][o] = byte]
    /\ UNCHANGED <<tables, live, cap>>

-----------------------------------------------------------------------------
(* mem_free_all walks the tables with a saved "next" pointer; nothing else *)
(* of this single-threaded library runs until it returns.                  *)

mem_free_all(t) ==
    /\ phase = "idle"
    /\ phase' = "list"
    /\ faType' = t
    /\ faBucket' = 0
    /\ faList' = pMemList[0]
    /\ UNCHANGED <<tables, heap, faInfo>>

\* Mutant: hashes are compared where categories should be.
MatchesHash(e) == faType = 0 \/ TypeHash[infoType[e.p_info]] = TypeHash[faType]

Matches(e) == faType = 0 \/ infoType[e.p_info] = faType

FreeAllEntry ==
    /\ phase = "list"
    /\ \E e \in faList :
        /\ faList' = faList \ {e}
        /\ IF Matches(e) /\ mem_find_ptr(e.p_ptr) # {}
             THEN mem_free(e.p_ptr)
             ELSE UNCHANGED <<tables, heap>>
    /\ UNCHANGED <<phase, faType, faBucket, faInfo>>

FreeAllNextBucket ==
    /\ phase = "list"
    /\ faList = {}
    /\ \/ /\ faBucket < HashSize - 1
          /\ faBucket' = faBucket + 1
          /\ faList' = pMemList[faBucket + 1]
          /\ UNCHANGED <<phase, faInfo>>
       \/ /\ faBucket = HashSize - 1
          /\ phase' = IF faType = 0 THEN "types" ELSE "idle"
          /\ faBucket' = 0
          /\ faInfo' = IF faType = 0 THEN pMemInfo[0] ELSE {}
          /\ UNCHANGED faList
    /\ UNCHANGED <<tables, heap, faType>>

FreeAllType ==
    /\ phase = "types"
    /\ \E i \in faInfo :
        /\ faInfo' = faInfo \ {i}
        /\ IF InUse(infoType[i])
             THEN UNCHANGED <<tables, heap>>
             ELSE mem_del_type(infoType[i])
    /\ UNCHANGED <<phase, faType, faBucket, faList>>

\* Mutant: the bucket counter of the second loop is not advanced.
FreeAllSameTypes ==
    /\ phase = "types"
    /\ faInfo = {}
    /\ faInfo' = pMemInfo[faBucket]
    /\ UNCHANGED <<tables, heap, phase, faType, faBucket, faList>>

FreeAllNextTypes ==
    /\ phase = "types"
    /\ faInfo = {}
    /\ \/ /\ faBucket < HashSize - 1
          /\ faBucket' = faBucket + 1
          /\ faInfo' = pMemInfo[faBucket + 1]
          /\ UNCHANGED phase
       \/ /\ faBucket = HashSize - 1
          /\ phase' = "idle"
          /\ faBucket' = 0
          /\ UNCHANGED faInfo
    /\ UNCHANGED <<tables, heap, faType, faList>>

-----------------------------------------------------------------------------
Call ==
    \/ \E t \in TypeId : mem_add_type(t) \/ mem_del_type(t)
    \/ \E t \in TypeId, handler \in BOOLEAN : mem_cb_free(t, handler)
    \/ \E t \in TypeId, n \in AllocSizes : mem_alloc(t, n)
    \/ \E t \in TypeId, m \in CallocCounts, n \in AllocSizes : mem_calloc(t, m, n)
    \/ \E t \in TypeId, p \in UserPtr, n \in AllocSizes : mem_store(p, t, n)
    \/ \E p \in Pointer, n \in ReallocSizes : mem_realloc(p, n)
    \/ \E p \in Pointer : mem_free(p)
    \/ \E p \in HeapPtr, o \in Offset, byte \in Byte : Write(p, o, byte)

Next ==
    \/ phase = "idle" /\ Call /\ UNCHANGED walk
    \/ \E t \in TypeId \cup {0} : mem_free_all(t)
    \/ FreeAllEntry \/ FreeAllNextBucket \/ FreeAllType \/ FreeAllNextTypes

Spec == Init /\ [][Next]_vars

\* mem_free_all is a plain loop: once entered it runs to its end.
FairSpec == Spec /\ WF_vars(FreeAllEntry \/ FreeAllNextBucket \/ FreeAllType \/ FreeAllNextTypes)
-----------------------------------------------------------------------------
(* Safety.                                                                 *)

\* mem_find_ptr finds the one entry of every tracked pointer by its hash,
\* wherever mem_realloc has moved it: its fallback scan is never needed.
PointerFindable == \A e \in Entries : mem_find_ptr(e.p_ptr) = {e}

\* The MemInfo an entry points to is a registered structure of a category,
\* however often categories are deleted and registered again: mem_del_type
\* frees a structure nobody points to.
InfoLive ==
    \A e \in Entries :
        /\ infoType[e.p_info] # 0
        /\ e.p_info \in mem_find_type(infoType[e.p_info])

\* Every block of the heap has an entry that will free it, and every entry
\* that mem_free would hand to free() names a block that is allocated.
OwnedExactly == {e.p_ptr : e \in {f \in Entries : ~f.stored}} = live

\* The saved next pointers of mem_free_all never name a freed structure.
WalkFresh ==
    /\ phase = "list" => faList \subseteq pMemList[faBucket]
    /\ phase = "types" => faInfo \subseteq pMemInfo[faBucket]

\* The tables agree with each other, with the heap, and with the cursors of
\* mem_free_all, after every call and between the steps of mem_free_all.
TablesAgree == PointerFindable /\ InfoLive /\ OwnedExactly /\ WalkFresh

-----------------------------------------------------------------------------
(* Action properties.                                                      *)

\* mem_realloc: the bytes the caller had stay, the new ones are zero (mem.c:
\* "If we've reallocated more memory, zero newly allocated bytes").
ResizeKeeps ==
    \A p \in HeapPtr, n \in ReallocSizes : mem_realloc(p, n) =>
        \A q \in live' \ (live \ {p}), o \in Offset :
            o < n => data'[q][o] = IF o < cap[p] THEN data[p][o] ELSE 0
ReallocKeepsData == [][ResizeKeeps]_vars

\* A block mem_free returns to the C library holds none of its bytes any more
\* (mem.c: "Clear memory first (worth the extra time - secure)").
ClearedWhenFreed ==
    \A p \in Pointer : mem_free(p) =>
        \A e \in mem_find_ptr(p), o \in Offset :
            (~e.stored /\ ~infoCb[e.p_info] /\ o < cap[p]) => data'[p][o] = 0

\* The bytes of a block: what was written stays, and nothing is left behind.
BytesKept == [][ResizeKeeps /\ ClearedWhenFreed]_vars

\* Nothing of another type goes, neither pointer nor category.
FreeAllKeepsOthers ==
    phase # "idle" /\ faType # 0 =>
        /\ \A e \in Entries : infoType[e.p_info] # faType => e \in Entries'
        /\ UNCHANGED <<pMemInfo, infoType>>

\* At the return nothing of the category is tracked; after mem_free_all(0)
\* the tables and the heap are empty.
FreeAllLeavesNone ==
    phase # "idle" /\ phase' = "idle" =>
        /\ \A e \in Entries : ~Matches(e)
        /\ faType = 0 => live = {} /\ Infos = {} /\ \A i \in InfoAddr : infoType[i] = 0

\* mem_free_all(type) releases all of the type and nothing else, and
\* mem_free_all(0), which suva_api_die runs at exit, everything.
FreeAllExact == [][FreeAllKeepsOthers /\ FreeAllLeavesNone]_vars

\* mem_free_all returns.
FreeAllReturns == (phase # "idle") ~> (phase = "idle")

-----------------------------------------------------------------------------
(* The tables implement the abstract manager: a pointer is charged to the  *)
(* category its entry's MemInfo names.                                     *)

TypesBar == {infoType[i] : i \in Infos}
OwnerBar ==
    [p \in {e.p_ptr : e \in Entries} |->
        infoType[(CHOOSE e \in Entries : e.p_ptr = p).p_info]]

Abs == INSTANCE MemAbs WITH types <- TypesBar, owner <- OwnerBar
Refines == Abs!Spec
=============================================================================
