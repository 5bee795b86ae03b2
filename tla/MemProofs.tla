------------------------------ MODULE MemProofs ------------------------------
(***************************************************************************)
(* Theorems about the memory manager, for every set of categories,         *)
(* addresses and sizes and every hash function.                            *)
(***************************************************************************)
EXTENDS Mem, TLAPS

\* Calls leave these variables to the loop of mem_free_all.
CallStep == phase = "idle" /\ Call /\ UNCHANGED walk

-----------------------------------------------------------------------------
(* The inductive invariant.                                                *)

Hashed == \A b \in Bucket : \A e \in pMemList[b] : PtrHash[e.p_ptr] = b

OneEntry == \A b \in Bucket : \A e, f \in pMemList[b] : e.p_ptr = f.p_ptr => e = f

\* Stored pointers are the caller's own storage; all others are heap blocks.
EntryKind == \A b \in Bucket : \A e \in pMemList[b] : e.stored <=> e.p_ptr \in UserPtr

InfoHashed ==
    \A b \in Bucket : \A i \in pMemInfo[b] : infoType[i] # 0 /\ TypeHash[infoType[i]] = b

InfoUnique ==
    \A b \in Bucket : \A i, j \in pMemInfo[b] : infoType[i] = infoType[j] => i = j

\* InfoLive, bucket by bucket.
InfoNamed ==
    \A b \in Bucket : \A e \in pMemList[b] :
        /\ infoType[e.p_info] # 0
        /\ e.p_info \in pMemInfo[TypeHash[infoType[e.p_info]]]

\* OwnedExactly, bucket by bucket.
LiveTracked == \A p \in live : \E e \in pMemList[PtrHash[p]] : e.p_ptr = p
TrackedLive == \A b \in Bucket : \A e \in pMemList[b] : ~e.stored => e.p_ptr \in live

ListInv == Hashed /\ OneEntry /\ EntryKind
InfoInv == InfoHashed /\ InfoUnique /\ InfoNamed
LiveInv == LiveTracked /\ TrackedLive

\* What holds of the tables and the heap, whoever runs.
Core == TableTypes /\ HeapTypes /\ ListInv /\ InfoInv /\ LiveInv

IInv == Core /\ WalkTypes /\ WalkFresh

-----------------------------------------------------------------------------
\* The bucket an address hashes to exists.
LEMMA BucketFacts ==
    /\ 0 \in Bucket
    /\ HashSize - 1 \in Bucket
    /\ \A p \in Pointer : PtrHash[p] \in Bucket
    /\ \A t \in TypeId : TypeHash[t] \in Bucket
  BY MemAssumption, SMT DEF MemAssumption, Bucket, Pointer
-----------------------------------------------------------------------------
(* One lemma per operation: it preserves Core.                             *)

\* mem_add_type registers a structure nobody uses yet.
LEMMA AddTypeStep ==
  ASSUME Core, NEW t \in TypeId, mem_add_type(t)
  PROVE  Core'
  <1>1. PICK i \in InfoAddr :
           /\ infoType[i] = 0
           /\ infoType' = [infoType EXCEPT ![i] = t]
           /\ infoCb' = [infoCb EXCEPT ![i] = FALSE]
           /\ pMemInfo' = [pMemInfo EXCEPT ![TypeHash[t]] = @ \cup {i}]
    BY DEF mem_add_type
  <1>2. UNCHANGED <<pMemList, live, cap, data>>
    BY DEF mem_add_type, heap
  <1>3. t # 0 /\ TypeHash[t] \in Bucket
    BY BucketFacts, MemAssumption DEF MemAssumption
  <1>4. TableTypes'
    BY <1>1, <1>2, <1>3 DEF Core, TableTypes
  <1>5. HeapTypes' /\ ListInv' /\ LiveInv'
    BY <1>2 DEF Core, HeapTypes, ListInv, Hashed, OneEntry, EntryKind,
                LiveInv, LiveTracked, TrackedLive
  <1>6. InfoHashed' /\ InfoUnique'
    <2>1. \A j \in pMemInfo[TypeHash[t]] : infoType[j] # t
      BY DEF mem_add_type, mem_find_type
    <2> QED
      BY <1>1, <1>3, <2>1 DEF Core, TableTypes, InfoInv, InfoHashed, InfoUnique
  <1>7. InfoNamed'
    <2>1. SUFFICES ASSUME NEW b \in Bucket, NEW e \in pMemList[b]
                   PROVE  /\ infoType'[e.p_info] # 0
                          /\ e.p_info \in pMemInfo'[TypeHash[infoType'[e.p_info]]]
      BY <1>2 DEF InfoNamed
    <2>2. e.p_info \in InfoAddr
      BY DEF Core, TableTypes, Entry
    <2>3. infoType[e.p_info] # 0 /\ e.p_info \in pMemInfo[TypeHash[infoType[e.p_info]]]
      BY DEF Core, InfoInv, InfoNamed
    <2>4. infoType[e.p_info] \in TypeId /\ TypeHash[infoType[e.p_info]] \in Bucket
      BY <2>2, <2>3, BucketFacts DEF Core, TableTypes
    <2> QED
      BY <1>1, <1>3, <2>2, <2>3, <2>4 DEF Core, TableTypes
  <1> QED
    BY <1>4, <1>5, <1>6, <1>7 DEF Core, InfoInv

\* mem_del_type frees a structure no entry points to.
LEMMA DelTypeStep ==
  ASSUME Core, NEW t \in TypeId \cup {0}, mem_del_type(t), TypeHash[t] \in Bucket
  PROVE  Core'
  <1>1. PICK i \in mem_find_type(t) :
           /\ pMemInfo' = [pMemInfo EXCEPT ![TypeHash[t]] = @ \ {i}]
           /\ infoType' = [infoType EXCEPT ![i] = 0]
    BY DEF mem_del_type
  <1>2. UNCHANGED <<pMemList, infoCb, live, cap, data>>
    BY DEF mem_del_type, heap
  <1>3. i \in pMemInfo[TypeHash[t]] /\ infoType[i] = t /\ i \in InfoAddr
    BY DEF mem_find_type, Core, TableTypes
  <1>4. TableTypes'
    BY <1>1, <1>2, <1>3 DEF Core, TableTypes
  <1>5. HeapTypes' /\ ListInv' /\ LiveInv'
    BY <1>2 DEF Core, HeapTypes, ListInv, Hashed, OneEntry, EntryKind,
                LiveInv, LiveTracked, TrackedLive
  <1>6. InfoHashed' /\ InfoUnique'
    <2>1. \A b \in Bucket : \A j \in pMemInfo'[b] : j \in pMemInfo[b] /\ j # i
      BY <1>1, <1>3 DEF Core, TableTypes, InfoInv, InfoHashed
    <2> QED
      BY <1>1, <1>3, <2>1 DEF Core, TableTypes, InfoInv, InfoHashed, InfoUnique
  <1>7. InfoNamed'
    <2>1. SUFFICES ASSUME NEW b \in Bucket, NEW e \in pMemList[b]
                   PROVE  /\ infoType'[e.p_info] # 0
                          /\ e.p_info \in pMemInfo'[TypeHash[infoType'[e.p_info]]]
      BY <1>2 DEF InfoNamed
    <2>2. e.p_info \in InfoAddr
      BY DEF Core, TableTypes, Entry
    <2>3. infoType[e.p_info] # 0 /\ e.p_info \in pMemInfo[TypeHash[infoType[e.p_info]]]
      BY DEF Core, InfoInv, InfoNamed
    <2>4. e.p_info # i
      BY <1>3 DEF mem_del_type, InUse, Entries
    <2> QED
      BY <1>1, <2>2, <2>3, <2>4 DEF Core, TableTypes
  <1> QED
    BY <1>4, <1>5, <1>6, <1>7 DEF Core, InfoInv

\* mem_cb_free touches the callback alone.
LEMMA CbFreeStep ==
  ASSUME Core, NEW t \in TypeId, NEW handler \in BOOLEAN, mem_cb_free(t, handler)
  PROVE  Core'
  <1>1. UNCHANGED <<pMemList, pMemInfo, infoType, live, cap, data>>
    BY DEF mem_cb_free, heap
  <1>2. infoCb' \in [InfoAddr -> BOOLEAN]
    BY DEF mem_cb_free, Core, TableTypes
  <1> QED
    BY <1>1, <1>2 DEF Core, TableTypes, HeapTypes, ListInv, Hashed, OneEntry, EntryKind,
          InfoInv, InfoHashed, InfoUnique, InfoNamed, LiveInv, LiveTracked, TrackedLive

\* An owner's write changes contents only.
LEMMA WriteStep ==
  ASSUME Core, NEW p \in HeapPtr, NEW o \in Offset, NEW byte \in Byte, Write(p, o, byte)
  PROVE  Core'
  <1>1. UNCHANGED <<pMemList, pMemInfo, infoType, infoCb, live, cap>>
    BY DEF Write, tables
  <1>2. data' \in [HeapPtr -> [Offset -> Byte]]
    BY DEF Write, Core, HeapTypes
  <1> QED
    BY <1>1, <1>2 DEF Core, TableTypes, HeapTypes, ListInv, Hashed, OneEntry, EntryKind,
          InfoInv, InfoHashed, InfoUnique, InfoNamed, LiveInv, LiveTracked, TrackedLive

-----------------------------------------------------------------------------
(* Pushing the entry of an untracked pointer, whether the block is new or  *)
(* the caller's own.                                                       *)
LEMMA PushStep ==
  ASSUME Core, NEW e \in Entry, Push(e),
         \A f \in pMemList[PtrHash[e.p_ptr]] : f.p_ptr # e.p_ptr,
         e.stored <=> e.p_ptr \in UserPtr,
         \E t : e.p_info \in mem_find_type(t) /\ t # 0,
         live' = IF e.stored THEN live ELSE live \cup {e.p_ptr},
         UNCHANGED <<pMemInfo, infoType, infoCb>>
  PROVE  TableTypes' /\ ListInv' /\ InfoInv' /\ LiveInv'
  <1>1. PtrHash[e.p_ptr] \in Bucket
    BY BucketFacts DEF Entry
  <1>2. pMemList' = [pMemList EXCEPT ![PtrHash[e.p_ptr]] = @ \cup {e}]
    BY DEF Push
  <1>3. TableTypes'
    BY <1>1, <1>2 DEF Core, TableTypes
  <1>4. \A b \in Bucket : \A f \in pMemList'[b] :
           f \in pMemList[b] \/ (f = e /\ b = PtrHash[e.p_ptr])
    BY <1>1, <1>2 DEF Core, TableTypes
  <1>5. ListInv'
    BY <1>1, <1>2, <1>4 DEF Core, TableTypes, ListInv, Hashed, OneEntry, EntryKind
  <1>6. e.p_info \in pMemInfo[TypeHash[infoType[e.p_info]]] /\ infoType[e.p_info] # 0
    BY DEF mem_find_type
  <1>7. InfoInv'
    BY <1>4, <1>6 DEF Core, InfoInv, InfoHashed, InfoUnique, InfoNamed
  <1>8. LiveTracked'
    <2>1. \A b \in Bucket : pMemList[b] \subseteq pMemList'[b]
      BY <1>1, <1>2 DEF Core, TableTypes
    <2>2. \A p \in live : PtrHash[p] \in Bucket
      BY BucketFacts DEF Core, HeapTypes, Pointer
    <2>3. e \in pMemList'[PtrHash[e.p_ptr]]
      BY <1>1, <1>2 DEF Core, TableTypes
    <2> QED
      BY <2>1, <2>2, <2>3 DEF Core, LiveInv, LiveTracked
  <1>9. TrackedLive'
    BY <1>4 DEF Core, LiveInv, TrackedLive
  <1> QED
    BY <1>3, <1>5, <1>7, <1>8, <1>9 DEF LiveInv

\* A block malloc hands out is not tracked yet, so it gets one entry.
LEMMA AllocateStep ==
  ASSUME Core, NEW t \in TypeId, NEW members \in Nat, NEW size \in AllocSizes,
         Allocate(t, members, size)
  PROVE  Core'
  <1>1. PICK i \in mem_find_type(t), p \in HeapPtr \ live :
           /\ live' = live \cup {p}
           /\ cap' = [cap EXCEPT ![p] = members * size]
           /\ data' = [data EXCEPT ![p] = [o \in Offset |-> 0]]
           /\ Push([p_ptr |-> p, size |-> size, stored |-> FALSE, p_info |-> i])
    BY DEF Allocate
  <1> DEFINE e == [p_ptr |-> p, size |-> size, stored |-> FALSE, p_info |-> i]
  <1>2. size \in Nat /\ members * size \in 0 .. MaxSize
    BY MemAssumption DEF MemAssumption, Allocate
  <1>3. e \in Entry /\ p \in Pointer /\ p \notin UserPtr
    BY <1>2, BucketFacts, MemAssumption
       DEF MemAssumption, Entry, Pointer, mem_find_type, Core, TableTypes
  <1>4. \A f \in pMemList[PtrHash[p]] : f.p_ptr # p
    BY <1>3, BucketFacts DEF Core, LiveInv, TrackedLive, ListInv, EntryKind
  <1>5. \E s : e.p_info \in mem_find_type(s) /\ s # 0
    BY MemAssumption DEF MemAssumption
  <1>6. TableTypes' /\ ListInv' /\ InfoInv' /\ LiveInv'
    <2>1. UNCHANGED <<pMemInfo, infoType, infoCb>>
      BY DEF Allocate
    <2>2. e.p_ptr = p /\ e.stored = FALSE
      OBVIOUS
    <2> HIDE DEF e
    <2>3. Push(e) /\ live' = live \cup {e.p_ptr}
      BY <1>1, <2>2 DEF e
    <2> QED
      BY <1>3, <1>4, <1>5, <2>1, <2>2, <2>3, PushStep
  <1>7. HeapTypes'
    BY <1>1, <1>2 DEF Core, HeapTypes, Byte
  <1> QED
    BY <1>6, <1>7 DEF Core

\* mem_store refuses a pointer that is tracked already.
LEMMA StoreStep ==
  ASSUME Core, NEW p \in UserPtr, NEW t \in TypeId, NEW size \in AllocSizes,
         mem_store(p, t, size)
  PROVE  Core'
  <1>1. PICK i \in mem_find_type(t) :
           Push([p_ptr |-> p, size |-> size, stored |-> TRUE, p_info |-> i])
    BY DEF mem_store
  <1> DEFINE e == [p_ptr |-> p, size |-> size, stored |-> TRUE, p_info |-> i]
  <1>2. e \in Entry
    BY BucketFacts, MemAssumption
       DEF MemAssumption, Entry, Pointer, mem_find_type, Core, TableTypes
  <1>3. \A f \in pMemList[PtrHash[p]] : f.p_ptr # p
    BY DEF mem_store, mem_find_ptr
  <1>4. \E s : e.p_info \in mem_find_type(s) /\ s # 0
    BY MemAssumption DEF MemAssumption
  <1>5. UNCHANGED <<pMemInfo, infoType, infoCb, live, cap, data>>
    BY DEF mem_store, heap
  <1>6. TableTypes' /\ ListInv' /\ InfoInv' /\ LiveInv'
    <2>1. e.p_ptr = p /\ e.stored = TRUE
      OBVIOUS
    <2> HIDE DEF e
    <2>2. Push(e)
      BY <1>1 DEF e
    <2> QED
      BY <1>2, <1>3, <1>4, <1>5, <2>1, <2>2, PushStep
  <1> QED
    BY <1>5, <1>6 DEF Core, HeapTypes

\* mem_free: the hash leads to the entry, and to no other.
LEMMA FindPtr ==
  ASSUME Core, NEW p \in Pointer, NEW e \in mem_find_ptr(p)
  PROVE  e \in pMemList[PtrHash[p]] /\ e.p_ptr = p /\ e \in Entry
  BY BucketFacts DEF mem_find_ptr, Core, ListInv, Hashed, TableTypes

LEMMA FreeStep ==
  ASSUME Core, NEW p \in Pointer, mem_free(p)
  PROVE  /\ Core'
         /\ \A b \in Bucket : pMemList'[b] = {f \in pMemList[b] : f.p_ptr # p}
         /\ pMemInfo' = pMemInfo
  <1>1. PICK e \in mem_find_ptr(p) :
           /\ pMemList' = [pMemList EXCEPT ![PtrHash[p]] = {f \in @ : f.p_ptr # p}]
           /\ Dispose(p, e)
    BY DEF mem_free
  <1>2. UNCHANGED <<pMemInfo, infoType, infoCb>>
    BY DEF mem_free
  <1>3. e \in pMemList[PtrHash[p]] /\ e.p_ptr = p /\ e \in Entry /\ PtrHash[p] \in Bucket
    BY FindPtr, BucketFacts
  <1>4. \A b \in Bucket : pMemList'[b] = {f \in pMemList[b] : f.p_ptr # p}
    BY <1>1, <1>3 DEF Core, TableTypes, ListInv, Hashed
  <1>5. TableTypes'
    BY <1>1, <1>2, <1>3 DEF Core, TableTypes
  <1>6. ListInv' /\ InfoInv'
    BY <1>2, <1>4 DEF Core, ListInv, Hashed, OneEntry, EntryKind,
                      InfoInv, InfoHashed, InfoUnique, InfoNamed
  <1>7. live' = live \ {p}
    <2>1. e.stored => p \notin live
      BY <1>3, MemAssumption DEF MemAssumption, Core, HeapTypes, ListInv, EntryKind
    <2> QED
      BY <1>1, <2>1 DEF Dispose, heap
  <1>8. LiveInv'
    <2>1. \A q \in live : PtrHash[q] \in Bucket
      BY BucketFacts DEF Core, HeapTypes, Pointer
    <2> QED
      BY <1>4, <1>7, <2>1 DEF Core, LiveInv, LiveTracked, TrackedLive
  <1>9. HeapTypes'
    BY <1>1, <1>7 DEF Core, HeapTypes, Dispose, heap, Byte
  <1> QED
    BY <1>2, <1>4, <1>5, <1>6, <1>8, <1>9 DEF Core

\* mem_realloc unlinks the entry from the chain of the old address and chains
\* it at the new one.  To size 0 the C library frees a block whose entry stays:
\* that call is excluded here.
LEMMA ReallocStep ==
  ASSUME Core, NEW p \in Pointer, NEW new_size \in ReallocSizes, new_size # 0,
         mem_realloc(p, new_size)
  PROVE  Core'
  <1>1. PICK e \in mem_find_ptr(p) :
           /\ ~e.stored
           /\ \E q \in (HeapPtr \ live) \cup {p}, garbage \in Byte :
                /\ live' = (live \ {p}) \cup {q}
                /\ cap' = [cap EXCEPT ![q] = new_size]
                /\ data' = [data EXCEPT ![q] = Resized(p, e, new_size, garbage)]
                /\ Rehash(e, q, new_size)
    BY DEF mem_realloc
  <1>2. PICK q \in (HeapPtr \ live) \cup {p}, garbage \in Byte :
           /\ live' = (live \ {p}) \cup {q}
           /\ cap' = [cap EXCEPT ![q] = new_size]
           /\ data' = [data EXCEPT ![q] = Resized(p, e, new_size, garbage)]
           /\ Rehash(e, q, new_size)
    BY <1>1
  <1>3. UNCHANGED <<pMemInfo, infoType, infoCb>>
    BY DEF mem_realloc
  <1>4. /\ e \in pMemList[PtrHash[p]] /\ e.p_ptr = p /\ e \in Entry
        /\ p \in live /\ p \in HeapPtr /\ p \notin UserPtr
    BY <1>1, FindPtr, BucketFacts, MemAssumption
       DEF MemAssumption, Core, LiveInv, TrackedLive, HeapTypes
  <1>5. /\ q \in HeapPtr /\ q \in Pointer /\ q \notin UserPtr
        /\ PtrHash[p] \in Bucket /\ PtrHash[q] \in Bucket
    BY <1>4, BucketFacts, MemAssumption DEF MemAssumption, Pointer
  <1> DEFINE moved == [p_ptr |-> q, size |-> new_size, stored |-> e.stored, p_info |-> e.p_info]
  <1>6. /\ moved \in Entry /\ moved.p_ptr = q /\ moved.p_info = e.p_info
        /\ ~moved.stored
    BY <1>1, <1>4, <1>5, MemAssumption DEF Entry, MemAssumption
  <1> HIDE DEF moved
  <1>7. \A b \in Bucket : pMemList'[b] =
           (pMemList[b] \ {e}) \cup (IF b = PtrHash[q] THEN {moved} ELSE {})
    <2>1. \A b \in Bucket : e \in pMemList[b] => b = PtrHash[p]
      BY <1>4 DEF Core, ListInv, Hashed
    <2> QED
      BY <1>2, <1>4, <1>5, <2>1 DEF Rehash, Core, TableTypes, moved
  <1>8. \A b \in Bucket : \A f \in pMemList[b] : f # e => f.p_ptr # p /\ f.p_ptr # q
    <2>1. SUFFICES ASSUME NEW b \in Bucket, NEW f \in pMemList[b], f # e
                   PROVE  f.p_ptr # p /\ f.p_ptr # q
      OBVIOUS
    <2>2. f.p_ptr # p
      BY <1>4, <2>1 DEF Core, ListInv, Hashed, OneEntry
    <2>3. f.p_ptr \in HeapPtr => f.p_ptr \in live
      BY <2>1, MemAssumption DEF MemAssumption, Core, ListInv, EntryKind, LiveInv, TrackedLive
    <2> QED
      BY <1>4, <1>5, <2>2, <2>3
  <1>9. TableTypes'
    <2>1. pMemList' \in [Bucket -> SUBSET Entry]
      BY <1>2, <1>4, <1>5, <1>6 DEF Core, TableTypes, Rehash, moved
    <2> QED
      BY <1>3, <2>1 DEF Core, TableTypes
  <1>10. ListInv'
    BY <1>5, <1>6, <1>7, <1>8 DEF Core, ListInv, Hashed, OneEntry, EntryKind
  <1>11. InfoInv'
    <2>1. /\ infoType[e.p_info] # 0
          /\ e.p_info \in pMemInfo[TypeHash[infoType[e.p_info]]]
      BY <1>4, <1>5 DEF Core, InfoInv, InfoNamed
    <2> QED
      BY <1>3, <1>6, <1>7, <2>1 DEF Core, InfoInv, InfoHashed, InfoUnique, InfoNamed
  <1>12. LiveTracked'
    <2>1. SUFFICES ASSUME NEW r \in live' PROVE \E f \in pMemList'[PtrHash[r]] : f.p_ptr = r
      BY DEF LiveTracked
    <2>2. CASE r = q
      BY <1>5, <1>6, <1>7, <2>2
    <2>3. CASE r # q
      <3>1. r \in live /\ r # p /\ PtrHash[r] \in Bucket
        BY <1>2, <2>1, <2>3, BucketFacts DEF Core, HeapTypes, Pointer
      <3> QED
        BY <1>4, <1>7, <3>1 DEF Core, LiveInv, LiveTracked
    <2> QED
      BY <2>2, <2>3
  <1>13. TrackedLive'
    BY <1>2, <1>6, <1>7, <1>8 DEF Core, LiveInv, TrackedLive
  <1>14. HeapTypes'
    <2>1. new_size \in 0 .. MaxSize
      BY MemAssumption DEF MemAssumption
    <2>2. Resized(p, e, new_size, garbage) \in [Offset -> Byte]
      BY <1>4 DEF Resized, Core, HeapTypes, Byte
    <2> QED
      BY <1>2, <1>4, <1>5, <2>1, <2>2 DEF Core, HeapTypes
  <1> QED
    BY <1>9, <1>10, <1>11, <1>12, <1>13, <1>14 DEF Core, LiveInv

-----------------------------------------------------------------------------
(* The loop of mem_free_all.                                               *)

\* Calls of the client happen outside it.
LEMMA CallKeepsInv ==
  ASSUME IInv, CallStep, 0 \notin ReallocSizes
  PROVE  IInv'
  <1>1. Core /\ phase = "idle" /\ UNCHANGED walk
    BY DEF IInv, CallStep
  <1>2. Core'
    <2>1. CASE \E t \in TypeId : mem_add_type(t) \/ mem_del_type(t)
      BY <1>1, <2>1, AddTypeStep, DelTypeStep, BucketFacts
    <2>2. CASE \E t \in TypeId, handler \in BOOLEAN : mem_cb_free(t, handler)
      BY <1>1, <2>2, CbFreeStep
    <2>3. CASE \E t \in TypeId, n \in AllocSizes : mem_alloc(t, n)
      BY <1>1, <2>3, AllocateStep DEF mem_alloc
    <2>4. CASE \E t \in TypeId, m \in CallocCounts, n \in AllocSizes : mem_calloc(t, m, n)
      BY <1>1, <2>4, AllocateStep, MemAssumption DEF mem_calloc, MemAssumption
    <2>5. CASE \E t \in TypeId, p \in UserPtr, n \in AllocSizes : mem_store(p, t, n)
      BY <1>1, <2>5, StoreStep
    <2>6. CASE \E p \in Pointer, n \in ReallocSizes : mem_realloc(p, n)
      BY <1>1, <2>6, ReallocStep
    <2>7. CASE \E p \in Pointer : mem_free(p)
      BY <1>1, <2>7, FreeStep
    <2>8. CASE \E p \in HeapPtr, o \in Offset, byte \in Byte : Write(p, o, byte)
      BY <1>1, <2>8, WriteStep
    <2> QED
      BY <2>1, <2>2, <2>3, <2>4, <2>5, <2>6, <2>7, <2>8 DEF CallStep, Call
  <1> QED
    BY <1>1, <1>2 DEF IInv, WalkTypes, WalkFresh, walk

\* Freeing one entry leaves the rest of its chain where p_list expects it.
LEMMA FreeAllEntryKeepsInv ==
  ASSUME IInv, FreeAllEntry
  PROVE  IInv'
  <1>1. PICK e \in faList :
           /\ faList' = faList \ {e}
           /\ IF Matches(e) /\ mem_find_ptr(e.p_ptr) # {}
                THEN mem_free(e.p_ptr)
                ELSE UNCHANGED <<tables, heap>>
    BY DEF FreeAllEntry
  <1>2. phase = "list" /\ UNCHANGED <<phase, faType, faBucket, faInfo>>
    BY DEF FreeAllEntry
  <1>3. e \in pMemList[faBucket] /\ faBucket \in Bucket /\ e.p_ptr \in Pointer
    BY <1>2 DEF IInv, WalkTypes, WalkFresh, Core, TableTypes, Entry
  <1>4. CASE Matches(e) /\ mem_find_ptr(e.p_ptr) # {}
    <2>1. Core' /\ pMemList'[faBucket] = {f \in pMemList[faBucket] : f.p_ptr # e.p_ptr}
      BY <1>1, <1>3, <1>4, FreeStep DEF IInv
    <2>2. faList' \subseteq pMemList'[faBucket]
      BY <1>1, <1>2, <1>3, <2>1 DEF IInv, WalkFresh, Core, ListInv, OneEntry
    <2> QED
      BY <1>1, <1>2, <2>1, <2>2 DEF IInv, WalkTypes, WalkFresh
  <1>5. CASE ~(Matches(e) /\ mem_find_ptr(e.p_ptr) # {})
    <2>1. UNCHANGED <<pMemList, pMemInfo, infoType, infoCb, live, cap, data>>
      BY <1>1, <1>5 DEF tables, heap
    <2>2. Core'
      BY <2>1 DEF IInv, Core, TableTypes, HeapTypes, ListInv, Hashed, OneEntry, EntryKind,
           InfoInv, InfoHashed, InfoUnique, InfoNamed, LiveInv, LiveTracked, TrackedLive
    <2> QED
      BY <1>1, <1>2, <2>1, <2>2 DEF IInv, WalkTypes, WalkFresh
  <1> QED
    BY <1>4, <1>5

\* Deleting one category leaves the rest of its chain where p_info expects it.
LEMMA FreeAllTypeKeepsInv ==
  ASSUME IInv, FreeAllType
  PROVE  IInv'
  <1>1. PICK i \in faInfo :
           /\ faInfo' = faInfo \ {i}
           /\ IF InUse(infoType[i]) THEN UNCHANGED <<tables, heap>>
                ELSE mem_del_type(infoType[i])
    BY DEF FreeAllType
  <1>2. phase = "types" /\ UNCHANGED <<phase, faType, faBucket, faList>>
    BY DEF FreeAllType
  <1>3. i \in pMemInfo[faBucket] /\ faBucket \in Bucket /\ i \in InfoAddr
    BY <1>2 DEF IInv, WalkTypes, WalkFresh
  <1>4. /\ infoType[i] \in TypeId \cup {0}
        /\ TypeHash[infoType[i]] = faBucket
    BY <1>3 DEF IInv, Core, TableTypes, InfoInv, InfoHashed
  <1>5. CASE ~InUse(infoType[i])
    <2>1. mem_del_type(infoType[i])
      BY <1>1, <1>5
    <2>2. Core'
      BY <1>3, <1>4, <2>1, DelTypeStep DEF IInv
    <2>3. PICK j \in mem_find_type(infoType[i]) :
             pMemInfo' = [pMemInfo EXCEPT ![TypeHash[infoType[i]]] = @ \ {j}]
      BY <2>1 DEF mem_del_type
    <2>4. j = i
      BY <1>3, <1>4, <2>3 DEF mem_find_type, IInv, Core, InfoInv, InfoUnique
    <2>5. pMemInfo'[faBucket] = pMemInfo[faBucket] \ {i}
      BY <1>3, <1>4, <2>3, <2>4 DEF IInv, Core, TableTypes
    <2> QED
      BY <1>1, <1>2, <2>2, <2>5 DEF IInv, WalkTypes, WalkFresh
  <1>6. CASE InUse(infoType[i])
    <2>1. UNCHANGED <<pMemList, pMemInfo, infoType, infoCb, live, cap, data>>
      BY <1>1, <1>6 DEF tables, heap
    <2>2. Core'
      BY <2>1 DEF IInv, Core, TableTypes, HeapTypes, ListInv, Hashed, OneEntry, EntryKind,
           InfoInv, InfoHashed, InfoUnique, InfoNamed, LiveInv, LiveTracked, TrackedLive
    <2> QED
      BY <1>1, <1>2, <2>1, <2>2 DEF IInv, WalkTypes, WalkFresh
  <1> QED
    BY <1>5, <1>6

\* Entering the loop and turning to the next bucket change its cursors only.
LEMMA CursorKeepsInv ==
  ASSUME IInv,
         \/ \E t \in TypeId \cup {0} : mem_free_all(t)
         \/ FreeAllNextBucket
         \/ FreeAllNextTypes
  PROVE  IInv'
  <1>1. UNCHANGED <<pMemList, pMemInfo, infoType, infoCb, live, cap, data>>
    BY DEF mem_free_all, FreeAllNextBucket, FreeAllNextTypes, tables, heap
  <1>2. Core'
    BY <1>1 DEF IInv, Core, TableTypes, HeapTypes, ListInv, Hashed, OneEntry, EntryKind,
         InfoInv, InfoHashed, InfoUnique, InfoNamed, LiveInv, LiveTracked, TrackedLive
  <1>3. HashSize \in Nat \ {0} /\ 0 \in Bucket
    BY MemAssumption, BucketFacts DEF MemAssumption
  <1>4. CASE \E t \in TypeId \cup {0} : mem_free_all(t)
    BY <1>1, <1>2, <1>3, <1>4 DEF mem_free_all, IInv, WalkTypes, WalkFresh, Core, TableTypes
  <1>5. CASE FreeAllNextBucket
    <2>1. faBucket < HashSize - 1 => faBucket + 1 \in Bucket
      BY <1>3 DEF IInv, WalkTypes, Bucket
    <2> QED
      BY <1>1, <1>2, <1>3, <1>5, <2>1
         DEF FreeAllNextBucket, IInv, WalkTypes, WalkFresh, Core, TableTypes
  <1>6. CASE FreeAllNextTypes
    <2>1. faBucket < HashSize - 1 => faBucket + 1 \in Bucket
      BY <1>3 DEF IInv, WalkTypes, Bucket
    <2> QED
      BY <1>1, <1>2, <1>3, <1>6, <2>1
         DEF FreeAllNextTypes, IInv, WalkTypes, WalkFresh, Core, TableTypes
  <1> QED
    BY <1>4, <1>5, <1>6

-----------------------------------------------------------------------------
(* Theorems.                                                               *)

LEMMA InitInv == Init => IInv
  <1> SUFFICES ASSUME Init PROVE IInv
    OBVIOUS
  <1>1. TableTypes /\ WalkTypes /\ WalkFresh
    BY BucketFacts DEF Init, TableTypes, WalkTypes, WalkFresh
  <1>2. HeapTypes
    BY MemAssumption DEF Init, HeapTypes, Byte, MemAssumption
  <1>3. ListInv /\ InfoInv /\ LiveInv
    BY DEF Init, ListInv, Hashed, OneEntry, EntryKind, InfoInv, InfoHashed, InfoUnique,
           InfoNamed, LiveInv, LiveTracked, TrackedLive
  <1> QED
    BY <1>1, <1>2, <1>3 DEF IInv, Core

LEMMA StepInv == 0 \notin ReallocSizes /\ IInv /\ [Next]_vars => IInv'
  <1> SUFFICES ASSUME 0 \notin ReallocSizes, IInv, [Next]_vars PROVE IInv'
    OBVIOUS
  <1>1. CASE UNCHANGED vars
    BY <1>1 DEF vars, tables, heap, walk, IInv, Core, TableTypes, HeapTypes, WalkTypes,
         WalkFresh, ListInv, Hashed, OneEntry, EntryKind, InfoInv, InfoHashed, InfoUnique,
         InfoNamed, LiveInv, LiveTracked, TrackedLive
  <1>2. CASE CallStep
    BY <1>2, CallKeepsInv
  <1>3. CASE FreeAllEntry
    BY <1>3, FreeAllEntryKeepsInv
  <1>4. CASE FreeAllType
    BY <1>4, FreeAllTypeKeepsInv
  <1>5. CASE \/ \E t \in TypeId \cup {0} : mem_free_all(t)
             \/ FreeAllNextBucket
             \/ FreeAllNextTypes
    BY <1>5, CursorKeepsInv
  <1> QED
    BY <1>1, <1>2, <1>3, <1>4, <1>5 DEF Next, CallStep

\* The inductive invariant implies what the runs check.
LEMMA InvImplies == IInv => /\ TypeOK
                            /\ PointerFindable
                            /\ InfoLive
                            /\ OwnedExactly
                            /\ WalkFresh
  <1> SUFFICES ASSUME IInv
               PROVE  TypeOK /\ PointerFindable /\ InfoLive /\ OwnedExactly /\ WalkFresh
    OBVIOUS
  <1>1. TypeOK /\ WalkFresh
    BY DEF IInv, Core, TypeOK
  <1>2. ASSUME NEW e \in Entries
        PROVE  \E b \in Bucket : e \in pMemList[b] /\ e \in Entry /\ b = PtrHash[e.p_ptr]
    BY DEF Entries, IInv, Core, TableTypes, ListInv, Hashed
  <1>3. PointerFindable
    BY <1>2 DEF PointerFindable, mem_find_ptr, IInv, Core, ListInv, OneEntry
  <1>4. InfoLive
    BY <1>2 DEF InfoLive, mem_find_type, IInv, Core, InfoInv, InfoNamed
  <1>5. OwnedExactly
    <2>1. ASSUME NEW p \in live PROVE \E e \in Entries : ~e.stored /\ e.p_ptr = p
      <3>1. p \in HeapPtr /\ p \notin UserPtr /\ PtrHash[p] \in Bucket
        BY MemAssumption, BucketFacts DEF MemAssumption, Pointer, IInv, Core, HeapTypes
      <3> QED
        BY <3>1 DEF Entries, IInv, Core, TableTypes, Entry, LiveInv, LiveTracked,
             ListInv, EntryKind
    <2>2. ASSUME NEW e \in Entries, ~e.stored PROVE e.p_ptr \in live
      BY <1>2, <2>2 DEF IInv, Core, LiveInv, TrackedLive
    <2> QED
      BY <2>1, <2>2 DEF OwnedExactly
  <1> QED
    BY <1>1, <1>3, <1>4, <1>5

\* mem.c keeps its types: tables, heap and the cursors of mem_free_all.
THEOREM TypeCorrect ==
  ASSUME 0 \notin ReallocSizes
  PROVE  Spec => []TypeOK
  <1>1. IInv /\ [Next]_vars => IInv'
    BY StepInv
  <1> QED
    BY <1>1, InitInv, InvImplies, PTL DEF Spec

\* As long as mem_realloc is not asked for size 0, every tracked pointer is
\* found by its hash, every entry points to a registered MemInfo, every block
\* of the heap has exactly one owner, and the saved pointers of mem_free_all
\* stay valid.
THEOREM TablesCorrect ==
  ASSUME 0 \notin ReallocSizes
  PROVE  Spec => []TablesAgree
  <1>1. IInv /\ [Next]_vars => IInv'
    BY StepInv
  <1>2. IInv => TablesAgree
    BY InvImplies DEF TablesAgree
  <1> QED
    BY <1>1, <1>2, InitInv, PTL DEF Spec

-----------------------------------------------------------------------------
(* The scope of mem_free_all.                                              *)

\* A MemInfo structure that exists is in the chain of its category.
InfoListed == \A i \in InfoAddr : infoType[i] # 0 => \E b \in Bucket : i \in pMemInfo[b]

\* Behind the cursors of mem_free_all nothing is left that it should free.
Behind ==
    /\ phase = "list" =>
          /\ \A b \in Bucket : b < faBucket => \A e \in pMemList[b] : ~Matches(e)
          /\ \A e \in pMemList[faBucket] : e \notin faList => ~Matches(e)
    /\ phase = "types" =>
          /\ faType = 0
          /\ \A b \in Bucket : pMemList[b] = {}
          /\ \A b \in Bucket : b < faBucket => pMemInfo[b] = {}
          /\ pMemInfo[faBucket] \subseteq faInfo

LEMMA InfoListedKept ==
  ASSUME IInv, InfoListed, [Next]_vars
  PROVE  InfoListed'
  <1>1. ASSUME NEW t \in TypeId, mem_add_type(t) PROVE InfoListed'
    <2>1. PICK i \in InfoAddr :
             /\ infoType' = [infoType EXCEPT ![i] = t]
             /\ pMemInfo' = [pMemInfo EXCEPT ![TypeHash[t]] = @ \cup {i}]
      BY <1>1 DEF mem_add_type
    <2>2. TypeHash[t] \in Bucket
      BY BucketFacts
    <2> QED
      BY <2>1, <2>2 DEF InfoListed, IInv, Core, TableTypes
  <1>2. ASSUME NEW t \in TypeId \cup {0}, mem_del_type(t) PROVE InfoListed'
    <2>1. PICK i \in mem_find_type(t) :
             /\ pMemInfo' = [pMemInfo EXCEPT ![TypeHash[t]] = @ \ {i}]
             /\ infoType' = [infoType EXCEPT ![i] = 0]
      BY <1>2 DEF mem_del_type
    <2>2. \A b \in Bucket : \A j \in pMemInfo[b] : j # i => j \in pMemInfo'[b]
      BY <2>1 DEF IInv, Core, TableTypes
    <2> QED
      BY <2>1, <2>2 DEF InfoListed, IInv, Core, TableTypes
  <1>3. CASE UNCHANGED <<pMemInfo, infoType>>
    BY <1>3 DEF InfoListed
  <1>4. ASSUME NEW p, mem_free(p) PROVE InfoListed'
    BY <1>4 DEF mem_free, InfoListed
  <1>5. CASE CallStep
    BY <1>1, <1>2, <1>3, <1>5
       DEF CallStep, Call, mem_cb_free, mem_alloc, mem_calloc, Allocate, mem_store, mem_realloc,
           mem_free, Write, tables
  <1>6. CASE FreeAllEntry
    BY <1>3, <1>4, <1>6 DEF FreeAllEntry, tables
  <1>7. CASE FreeAllType
    <2>1. PICK i \in faInfo : IF InUse(infoType[i]) THEN UNCHANGED <<tables, heap>>
                                                    ELSE mem_del_type(infoType[i])
      BY <1>7 DEF FreeAllType
    <2>2. infoType[i] \in TypeId \cup {0}
      BY <2>1 DEF IInv, WalkTypes, Core, TableTypes
    <2> QED
      BY <1>2, <1>3, <2>1, <2>2 DEF tables
  <1>8. CASE \/ \E t \in TypeId \cup {0} : mem_free_all(t)
             \/ FreeAllNextBucket \/ FreeAllNextTypes \/ UNCHANGED vars
    BY <1>3, <1>8 DEF mem_free_all, FreeAllNextBucket, FreeAllNextTypes, vars, tables
  <1> QED
    BY <1>5, <1>6, <1>7, <1>8 DEF Next, CallStep

\* The step that frees an entry frees no other.
LEMMA FreeAllFrees ==
  ASSUME IInv, FreeAllEntry
  PROVE  \E e \in faList :
           /\ faList' = faList \ {e} /\ e \in pMemList[faBucket]
           /\ UNCHANGED <<pMemInfo, infoType>>
           /\ \A b \in Bucket : pMemList'[b] = IF Matches(e) THEN pMemList[b] \ {e} ELSE pMemList[b]
  <1>1. PICK e \in faList :
           /\ faList' = faList \ {e}
           /\ IF Matches(e) /\ mem_find_ptr(e.p_ptr) # {}
                THEN mem_free(e.p_ptr)
                ELSE UNCHANGED <<tables, heap>>
    BY DEF FreeAllEntry
  <1>2. e \in pMemList[faBucket] /\ faBucket \in Bucket /\ e.p_ptr \in Pointer
    BY DEF FreeAllEntry, IInv, WalkTypes, WalkFresh, Core, TableTypes, Entry
  <1>3. mem_find_ptr(e.p_ptr) # {}
    BY <1>2 DEF mem_find_ptr, IInv, Core, ListInv, Hashed
  <1>4. CASE Matches(e)
    <2>1. /\ \A b \in Bucket : pMemList'[b] = {f \in pMemList[b] : f.p_ptr # e.p_ptr}
          /\ UNCHANGED <<pMemInfo, infoType>>
      BY <1>1, <1>2, <1>3, <1>4, FreeStep DEF IInv, mem_free
    <2>2. \A b \in Bucket : \A f \in pMemList[b] : f.p_ptr = e.p_ptr <=> f = e
      BY <1>2 DEF IInv, Core, ListInv, Hashed, OneEntry
    <2>3. \A b \in Bucket : pMemList'[b] = pMemList[b] \ {e}
      BY <2>1, <2>2
    <2> QED
      BY <1>1, <1>2, <1>4, <2>1, <2>3
  <1>5. CASE ~Matches(e)
    BY <1>1, <1>2, <1>5 DEF tables
  <1> QED
    BY <1>4, <1>5

\* The step that deletes a category deletes the one under the cursor.
LEMMA FreeAllDeletes ==
  ASSUME IInv, Behind, FreeAllType
  PROVE  \E i \in faInfo :
           /\ faInfo' = faInfo \ {i} /\ i \in pMemInfo[faBucket] /\ UNCHANGED pMemList
           /\ \A b \in Bucket : pMemInfo'[b] = pMemInfo[b] \ {i}
  <1>1. PICK i \in faInfo :
           /\ faInfo' = faInfo \ {i}
           /\ IF InUse(infoType[i]) THEN UNCHANGED <<tables, heap>>
                ELSE mem_del_type(infoType[i])
    BY DEF FreeAllType
  <1>2. phase = "types"
    BY DEF FreeAllType
  <1>3. i \in pMemInfo[faBucket] /\ faBucket \in Bucket /\ i \in InfoAddr
    BY <1>2 DEF IInv, WalkTypes, WalkFresh
  <1>4. TypeHash[infoType[i]] = faBucket /\ infoType[i] # 0
    BY <1>3 DEF IInv, Core, InfoInv, InfoHashed
  <1>5. mem_del_type(infoType[i])
    BY <1>1, <1>2 DEF InUse, Entries, Behind
  <1>6. PICK j \in mem_find_type(infoType[i]) :
           pMemInfo' = [pMemInfo EXCEPT ![TypeHash[infoType[i]]] = @ \ {j}]
    BY <1>5 DEF mem_del_type
  <1>7. j = i
    BY <1>3, <1>4, <1>6 DEF mem_find_type, IInv, Core, InfoInv, InfoUnique
  <1>8. \A b \in Bucket : i \in pMemInfo[b] => b = faBucket
    BY <1>4 DEF IInv, Core, InfoInv, InfoHashed
  <1>9. \A b \in Bucket : pMemInfo'[b] = pMemInfo[b] \ {i}
    BY <1>3, <1>4, <1>6, <1>7, <1>8 DEF IInv, Core, TableTypes
  <1> QED
    BY <1>1, <1>3, <1>5, <1>9 DEF mem_del_type

LEMMA BehindKept ==
  ASSUME IInv, Behind, [Next]_vars
  PROVE  Behind'
  <1>1. HashSize \in Nat \ {0} /\ 0 \in Bucket /\ faBucket \in Bucket
    BY MemAssumption, BucketFacts DEF MemAssumption, IInv, WalkTypes
  <1>2. CASE CallStep \/ UNCHANGED vars
    <2>1. CASE CallStep
      BY <2>1 DEF CallStep, walk, Behind
    <2>2. CASE UNCHANGED vars
      BY <2>2 DEF vars, tables, walk, Behind, Matches
    <2> QED
      BY <1>2, <2>1, <2>2
  <1>3. CASE \E t \in TypeId \cup {0} : mem_free_all(t)
    BY <1>1, <1>3 DEF mem_free_all, Behind, tables, Bucket
  <1>4. CASE FreeAllEntry
    <2>1. phase = "list" /\ UNCHANGED <<phase, faType, faBucket, faInfo>>
      BY <1>4 DEF FreeAllEntry
    <2>2. PICK e \in faList :
             /\ faList' = faList \ {e} /\ e \in pMemList[faBucket]
             /\ UNCHANGED <<pMemInfo, infoType>>
             /\ \A b \in Bucket : pMemList'[b] = IF Matches(e) THEN pMemList[b] \ {e} ELSE pMemList[b]
      BY <1>4, FreeAllFrees
    <2>3. \A f : Matches(f)' = Matches(f)
      BY <2>1, <2>2 DEF Matches
    <2>4. \A b \in Bucket : b < faBucket => \A f \in pMemList'[b] : ~Matches(f)
      BY <2>1, <2>2 DEF Behind
    <2>5. \A f \in pMemList'[faBucket] : f \notin faList' => ~Matches(f)
      BY <1>1, <2>1, <2>2 DEF Behind
    <2> QED
      BY <2>1, <2>3, <2>4, <2>5 DEF Behind
  <1>5. CASE FreeAllNextBucket
    <2>1. /\ phase = "list" /\ faList = {}
          /\ UNCHANGED <<pMemList, pMemInfo, infoType, faType>>
      BY <1>5 DEF FreeAllNextBucket, tables
    <2>2. \A b \in Bucket : b <= faBucket => \A e \in pMemList[b] : ~Matches(e)
      BY <1>1, <2>1 DEF Behind, Bucket
    <2>3. \A f : Matches(f)' = Matches(f)
      BY <2>1 DEF Matches
    <2>4. CASE faBucket < HashSize - 1 /\ phase' = phase /\ faBucket' = faBucket + 1
                 /\ faList' = pMemList[faBucket + 1]
      BY <1>1, <2>1, <2>2, <2>3, <2>4 DEF Behind, Bucket
    <2>5. CASE faBucket = HashSize - 1 /\ faType = 0 /\ phase' = "types" /\ faBucket' = 0 /\ faInfo' = pMemInfo[0]
      <3>1. \A b \in Bucket : pMemList[b] = {}
        BY <1>1, <2>2, <2>5 DEF Bucket, Matches
      <3> QED
        BY <1>1, <2>1, <2>5, <3>1 DEF Behind, Bucket
    <2>6. CASE phase' = "idle"
      BY <2>6 DEF Behind
    <2> QED
      BY <1>5, <2>4, <2>5, <2>6 DEF FreeAllNextBucket
  <1>6. CASE FreeAllType
    <2>1. phase = "types" /\ UNCHANGED <<phase, faType, faBucket, faList>>
      BY <1>6 DEF FreeAllType
    <2>2. PICK i \in faInfo :
           /\ faInfo' = faInfo \ {i} /\ i \in pMemInfo[faBucket] /\ UNCHANGED pMemList
           /\ \A b \in Bucket : pMemInfo'[b] = pMemInfo[b] \ {i}
      BY <1>6, FreeAllDeletes
    <2> QED
      BY <1>1, <2>1, <2>2 DEF Behind
  <1>7. CASE FreeAllNextTypes
    <2>1. /\ phase = "types" /\ faInfo = {}
          /\ UNCHANGED <<pMemList, pMemInfo, faType>>
      BY <1>7 DEF FreeAllNextTypes, tables
    <2>2. \A b \in Bucket : b <= faBucket => pMemInfo[b] = {}
      BY <1>1, <2>1 DEF Behind, Bucket
    <2>3. CASE faBucket < HashSize - 1 /\ phase' = phase /\ faBucket' = faBucket + 1
                 /\ faInfo' = pMemInfo[faBucket + 1]
      BY <1>1, <2>1, <2>2, <2>3 DEF Behind, Bucket
    <2>4. CASE phase' = "idle"
      BY <2>4 DEF Behind
    <2> QED
      BY <1>7, <2>3, <2>4 DEF FreeAllNextTypes
  <1> QED
    BY <1>2, <1>3, <1>4, <1>5, <1>6, <1>7 DEF Next, CallStep

\* Nothing of another type goes.
LEMMA OthersKept ==
  ASSUME IInv, Behind, [Next]_vars
  PROVE  FreeAllKeepsOthers
  <1> SUFFICES ASSUME phase # "idle", faType # 0
               PROVE  /\ \A e \in Entries : infoType[e.p_info] # faType => e \in Entries'
                      /\ UNCHANGED <<pMemInfo, infoType>>
    BY DEF FreeAllKeepsOthers
  <1>1. CASE FreeAllEntry
    <2>1. PICK e \in faList :
             /\ UNCHANGED <<pMemInfo, infoType>>
             /\ \A b \in Bucket : pMemList'[b] = IF Matches(e) THEN pMemList[b] \ {e} ELSE pMemList[b]
      BY <1>1, FreeAllFrees
    <2>2. ASSUME NEW f \in Entries, infoType[f.p_info] # faType PROVE f \in Entries'
      <3>1. PICK b \in Bucket : f \in pMemList[b]
        BY <2>2 DEF Entries
      <3>2. f \in pMemList'[b]
        BY <2>1, <2>2, <3>1 DEF Matches
      <3> QED
        BY <3>2 DEF Entries
    <2> QED
      BY <2>1, <2>2
  <1>2. CASE FreeAllNextBucket \/ UNCHANGED vars
    BY <1>2 DEF FreeAllNextBucket, vars, tables, Entries
  <1>3. ~FreeAllType /\ ~FreeAllNextTypes
    BY DEF FreeAllType, FreeAllNextTypes, Behind
  <1> QED
    BY <1>1, <1>2, <1>3 DEF Next, mem_free_all

\* At the return there is nothing left to free.
LEMMA NoneLeft ==
  ASSUME IInv, InfoListed, Behind, [Next]_vars
  PROVE  FreeAllLeavesNone
  <1> SUFFICES ASSUME phase # "idle", phase' = "idle"
               PROVE  /\ \A e \in Entries : ~Matches(e)
                      /\ faType = 0 => live = {} /\ Infos = {} /\ \A i \in InfoAddr : infoType[i] = 0
    BY DEF FreeAllLeavesNone
  <1>1. HashSize \in Nat \ {0} /\ faBucket \in Bucket
    BY MemAssumption DEF MemAssumption, IInv, WalkTypes
  <1>2. CASE FreeAllNextBucket
    <2>1. phase = "list" /\ faList = {} /\ faBucket = HashSize - 1 /\ faType # 0
      BY <1>2 DEF FreeAllNextBucket
    <2>2. \A b \in Bucket : \A e \in pMemList[b] : ~Matches(e)
      BY <1>1, <2>1 DEF Behind, Bucket
    <2> QED
      BY <2>1, <2>2 DEF Entries
  <1>3. CASE FreeAllNextTypes
    <2>1. phase = "types" /\ faInfo = {} /\ faBucket = HashSize - 1
      BY <1>3 DEF FreeAllNextTypes
    <2>2. \A b \in Bucket : pMemList[b] = {} /\ pMemInfo[b] = {}
      BY <1>1, <2>1 DEF Behind, Bucket
    <2>3. live = {}
      <3>1. \A p \in live : PtrHash[p] \in Bucket
        BY BucketFacts DEF IInv, Core, HeapTypes, Pointer
      <3> QED
        BY <2>2, <3>1 DEF IInv, Core, LiveInv, LiveTracked
    <2> QED
      BY <2>2, <2>3 DEF Entries, Infos, InfoListed
  <1>4. ~FreeAllEntry /\ ~FreeAllType
    BY DEF FreeAllEntry, FreeAllType
  <1>5. ~UNCHANGED vars
    BY DEF vars, walk
  <1> QED
    BY <1>2, <1>3, <1>4, <1>5 DEF Next, mem_free_all

\* mem_free_all of a category frees all of it and nothing else, and
\* mem_free_all(0) everything, the categories themselves included.
THEOREM FreeAllIsExact ==
  ASSUME 0 \notin ReallocSizes
  PROVE  Spec => FreeAllExact
  <1>1. Init => IInv /\ InfoListed /\ Behind
    <2>1. Init => InfoListed /\ Behind
      BY DEF Init, InfoListed, Behind
    <2> QED
      BY <2>1, InitInv
  <1>2. IInv /\ InfoListed /\ Behind /\ [Next]_vars => (IInv /\ InfoListed /\ Behind)'
    BY StepInv, InfoListedKept, BehindKept
  <1>3. IInv /\ InfoListed /\ Behind /\ [Next]_vars => [FreeAllKeepsOthers /\ FreeAllLeavesNone]_vars
    BY OthersKept, NoneLeft
  <1> QED
    BY <1>1, <1>2, <1>3, PTL DEF Spec, FreeAllExact

-----------------------------------------------------------------------------
(* The abstract manager.                                                   *)

\* What OwnerBar makes of the entries E when MemInfo structures are typed ty.
Owners(E, ty) ==
    [p \in {e.p_ptr : e \in E} |-> ty[(CHOOSE e \in E : e.p_ptr = p).p_info]]

Single(E) == \A e, f \in E : e.p_ptr = f.p_ptr => e = f

LEMMA OwnersFacts ==
  ASSUME NEW E, NEW ty, Single(E)
  PROVE  /\ DOMAIN Owners(E, ty) = {e.p_ptr : e \in E}
         /\ \A e \in E : Owners(E, ty)[e.p_ptr] = ty[e.p_info]
  <1>1. ASSUME NEW e \in E PROVE (CHOOSE f \in E : f.p_ptr = e.p_ptr) = e
    BY DEF Single
  <1> QED
    BY <1>1 DEF Owners

\* The only function with these owners.
LEMMA OwnersAre ==
  ASSUME NEW E, NEW ty, Single(E), NEW g,
         g = [p \in {e.p_ptr : e \in E} |-> g[p]],
         \A e \in E : g[e.p_ptr] = ty[e.p_info]
  PROVE  Owners(E, ty) = g
  <1>1. ASSUME NEW p \in {e.p_ptr : e \in E}
        PROVE  ty[(CHOOSE e \in E : e.p_ptr = p).p_info] = g[p]
    <2>1. PICK e \in E : e.p_ptr = p
      OBVIOUS
    <2>2. (CHOOSE f \in E : f.p_ptr = p) = e
      BY <2>1 DEF Single
    <2> QED
      BY <2>1, <2>2
  <1> QED
    BY <1>1 DEF Owners

LEMMA BarFacts ==
  ASSUME IInv
  PROVE  /\ OwnerBar = Owners(Entries, infoType) /\ Single(Entries) /\ Entries \subseteq Entry
         /\ \A e \in Entries : /\ e \in pMemList[PtrHash[e.p_ptr]] /\ PtrHash[e.p_ptr] \in Bucket
                               /\ infoType[e.p_info] # 0 /\ e.p_info \in InfoAddr
         /\ DOMAIN OwnerBar = {e.p_ptr : e \in Entries}
         /\ \A e \in Entries : OwnerBar[e.p_ptr] = infoType[e.p_info]
  <1>1. OwnerBar = Owners(Entries, infoType)
    BY DEF OwnerBar, Owners
  <1>2. ASSUME NEW e \in Entries
        PROVE  /\ e \in pMemList[PtrHash[e.p_ptr]] /\ e \in Entry /\ PtrHash[e.p_ptr] \in Bucket
               /\ infoType[e.p_info] # 0 /\ e.p_info \in InfoAddr
    BY DEF Entries, IInv, Core, TableTypes, ListInv, Hashed, Entry, InfoInv, InfoNamed
  <1>3. Single(Entries)
    BY <1>2 DEF Single, IInv, Core, ListInv, OneEntry
  <1> QED
    BY <1>1, <1>2, <1>3, OwnersFacts

\* Nothing the abstract manager can see.
LEMMA SameBar ==
  ASSUME UNCHANGED <<pMemList, pMemInfo, infoType>>
  PROVE  UNCHANGED <<TypesBar, OwnerBar>>
  BY DEF TypesBar, OwnerBar, Infos, Entries

LEMMA TypesAre ==
  ASSUME IInv, NEW t \in TypeId
  PROVE  t \in TypesBar <=> mem_find_type(t) # {}
  <1>1. TypeHash[t] \in Bucket
    BY BucketFacts
  <1>2. ASSUME t \in TypesBar PROVE mem_find_type(t) # {}
    <2>1. PICK b \in Bucket : \E i \in pMemInfo[b] : infoType[i] = t
      BY <1>2 DEF TypesBar, Infos
    <2> QED
      BY <2>1 DEF mem_find_type, IInv, Core, InfoInv, InfoHashed
  <1>3. ASSUME mem_find_type(t) # {} PROVE t \in TypesBar
    BY <1>1, <1>3 DEF mem_find_type, TypesBar, Infos
  <1> QED
    BY <1>2, <1>3

LEMMA AddTypeImplements ==
  ASSUME IInv, NEW t \in TypeId, mem_add_type(t)
  PROVE  Abs!AddType(t)
  <1>1. PICK i \in InfoAddr :
           /\ infoType[i] = 0
           /\ infoType' = [infoType EXCEPT ![i] = t]
           /\ pMemInfo' = [pMemInfo EXCEPT ![TypeHash[t]] = @ \cup {i}]
    BY DEF mem_add_type
  <1>2. UNCHANGED pMemList /\ mem_find_type(t) = {} /\ TypeHash[t] \in Bucket
    BY BucketFacts DEF mem_add_type
  <1>3. t \notin TypesBar
    BY <1>2, TypesAre
  <1>4. TypesBar' = TypesBar \cup {t}
    <2>1. Infos' = Infos \cup {i}
      BY <1>1, <1>2 DEF Infos, IInv, Core, TableTypes
    <2>2. i \notin Infos /\ \A j \in Infos : infoType'[j] = infoType[j] /\ infoType'[i] = t
      BY <1>1 DEF Infos, IInv, Core, TableTypes, InfoInv, InfoHashed
    <2>3. infoType'[i] = t
      BY <1>1 DEF IInv, Core, TableTypes
    <2> QED
      BY <2>1, <2>2, <2>3 DEF TypesBar
  <1>5. OwnerBar' = OwnerBar
    <2>1. Entries' = Entries /\ Single(Entries) /\ OwnerBar = Owners(Entries, infoType)
      BY <1>2, BarFacts DEF Entries
    <2>2. \A e \in Entries : infoType'[e.p_info] = infoType[e.p_info]
      BY <1>1, BarFacts DEF IInv, Core, TableTypes
    <2>3. OwnerBar' = Owners(Entries, infoType')
      BY <2>1 DEF OwnerBar, Owners
    <2>4. \A p \in {e.p_ptr : e \in Entries} : (CHOOSE e \in Entries : e.p_ptr = p) \in Entries
      OBVIOUS
    <2> QED
      BY <2>1, <2>2, <2>3, <2>4 DEF Owners
  <1> QED
    BY <1>3, <1>4, <1>5 DEF Abs!AddType

LEMMA DelTypeImplements ==
  ASSUME IInv, NEW t \in TypeId, mem_del_type(t)
  PROVE  Abs!DelType(t)
  <1>1. PICK i \in mem_find_type(t) :
           /\ pMemInfo' = [pMemInfo EXCEPT ![TypeHash[t]] = @ \ {i}]
           /\ infoType' = [infoType EXCEPT ![i] = 0]
    BY DEF mem_del_type
  <1>2. UNCHANGED pMemList /\ ~InUse(t) /\ TypeHash[t] \in Bucket
    BY BucketFacts DEF mem_del_type
  <1>3. i \in pMemInfo[TypeHash[t]] /\ infoType[i] = t /\ i \in InfoAddr
    BY <1>2 DEF mem_find_type, IInv, Core, TableTypes
  <1>4. t \in TypesBar
    BY TypesAre
  <1>5. TypesBar' = TypesBar \ {t}
    <2>1. \A b \in Bucket : \A j \in pMemInfo[b] : infoType[j] = t => j = i /\ b = TypeHash[t]
      BY <1>2, <1>3 DEF IInv, Core, InfoInv, InfoHashed, InfoUnique
    <2>2. Infos' = Infos \ {i}
      BY <1>1, <1>2, <1>3, <2>1 DEF Infos, IInv, Core, TableTypes
    <2>3. \A j \in Infos' : infoType'[j] = infoType[j] /\ infoType[j] # t
      BY <1>1, <1>3, <2>1, <2>2 DEF Infos, IInv, Core, TableTypes
    <2>4. \A j \in Infos : infoType[j] # t => j \in Infos'
      BY <1>3, <2>2
    <2> QED
      BY <2>2, <2>3, <2>4 DEF TypesBar
  <1>6. \A e \in Entries : infoType[e.p_info] # t
    BY <1>2 DEF InUse
  <1>7. OwnerBar' = OwnerBar
    <2>1. Entries' = Entries /\ Single(Entries) /\ OwnerBar = Owners(Entries, infoType)
      BY <1>2, BarFacts DEF Entries
    <2>2. \A e \in Entries : infoType'[e.p_info] = infoType[e.p_info]
      BY <1>1, <1>3, <1>6, BarFacts DEF IInv, Core, TableTypes
    <2>3. OwnerBar' = Owners(Entries, infoType')
      BY <2>1 DEF OwnerBar, Owners
    <2>4. \A p \in {e.p_ptr : e \in Entries} : (CHOOSE e \in Entries : e.p_ptr = p) \in Entries
      OBVIOUS
    <2> QED
      BY <2>1, <2>2, <2>3, <2>4 DEF Owners
  <1>8. \A p \in DOMAIN OwnerBar : OwnerBar[p] # t
    BY <1>6, BarFacts
  <1> QED
    BY <1>4, <1>5, <1>7, <1>8 DEF Abs!DelType, Abs!Tracked

\* A new entry is a tracked pointer.
LEMMA PushImplements ==
  ASSUME IInv, IInv', NEW t \in TypeId, NEW e \in Entry, Push(e), e.p_info \in mem_find_type(t),
         \A f \in pMemList[PtrHash[e.p_ptr]] : f.p_ptr # e.p_ptr,
         UNCHANGED <<pMemInfo, infoType>>
  PROVE  Abs!Track(e.p_ptr, t)
  <1> DEFINE p == e.p_ptr
             g == [q \in DOMAIN OwnerBar \cup {p} |-> IF q = p THEN t ELSE OwnerBar[q]]
  <1>1. PtrHash[p] \in Bucket /\ pMemList' = [pMemList EXCEPT ![PtrHash[p]] = @ \cup {e}]
    BY BucketFacts DEF Push, Entry
  <1>2. Entries' = Entries \cup {e}
    BY <1>1 DEF Entries, IInv, Core, TableTypes
  <1>3. \A f \in Entries : f.p_ptr # p
    BY BarFacts
  <1>4. OwnerBar' = Owners(Entries', infoType') /\ Single(Entries')
    <2>1. (IInv => OwnerBar = Owners(Entries, infoType) /\ Single(Entries))'
      BY BarFacts, PTL
    <2> QED
      BY <2>1 DEF Owners
  <1>5. infoType[e.p_info] = t
    BY DEF mem_find_type
  <1>6. DOMAIN OwnerBar = {f.p_ptr : f \in Entries} /\ \A f \in Entries : OwnerBar[f.p_ptr] = infoType[f.p_info]
    BY BarFacts
  <1>7. Owners(Entries', infoType') = g
    <2>1. {f.p_ptr : f \in Entries'} = DOMAIN OwnerBar \cup {p}
      BY <1>2, <1>6
    <2>2. g = [q \in {f.p_ptr : f \in Entries'} |-> g[q]]
      BY <2>1
    <2>3. \A f \in Entries' : g[f.p_ptr] = infoType'[f.p_info]
      BY <1>2, <1>3, <1>5, <1>6
    <2> HIDE DEF g
    <2> QED
      BY <1>4, <2>2, <2>3, OwnersAre
  <1>8. t \in TypesBar /\ p \notin DOMAIN OwnerBar
    BY <1>3, <1>6, TypesAre
  <1>9. UNCHANGED TypesBar
    BY DEF TypesBar, Infos
  <1> QED
    BY <1>4, <1>7, <1>8, <1>9 DEF Abs!Track, Abs!Tracked

\* What becomes of the entries when one is taken out, or exchanged.
LEMMA FreeImplements ==
  ASSUME IInv, IInv', NEW p \in Pointer, mem_free(p)
  PROVE  Abs!Release(p)
  <1> DEFINE g == [q \in DOMAIN OwnerBar \ {p} |-> OwnerBar[q]]
  <1>1. PICK e \in mem_find_ptr(p) : TRUE
    BY DEF mem_free
  <1>2. e \in Entries /\ e.p_ptr = p
    BY <1>1, FindPtr, BucketFacts DEF IInv, Entries
  <1>3. /\ \A b \in Bucket : pMemList'[b] = {f \in pMemList[b] : f.p_ptr # p}
        /\ UNCHANGED <<pMemInfo, infoType>>
    BY FreeStep DEF IInv, mem_free
  <1>4. Entries' = {f \in Entries : f.p_ptr # p}
    BY <1>3 DEF Entries
  <1>5. OwnerBar' = Owners(Entries', infoType') /\ Single(Entries')
    <2>1. (IInv => OwnerBar = Owners(Entries, infoType) /\ Single(Entries))'
      BY BarFacts, PTL
    <2> QED
      BY <2>1 DEF Owners
  <1>6. DOMAIN OwnerBar = {f.p_ptr : f \in Entries} /\ \A f \in Entries : OwnerBar[f.p_ptr] = infoType[f.p_info]
    BY BarFacts
  <1>7. Owners(Entries', infoType') = g
    <2>1. {f.p_ptr : f \in Entries'} = DOMAIN OwnerBar \ {p}
      BY <1>4, <1>6
    <2>2. g = [q \in {f.p_ptr : f \in Entries'} |-> g[q]]
      BY <2>1
    <2>3. \A f \in Entries' : g[f.p_ptr] = infoType'[f.p_info]
      BY <1>3, <1>4, <1>6
    <2> HIDE DEF g
    <2> QED
      BY <1>5, <2>2, <2>3, OwnersAre
  <1>8. UNCHANGED TypesBar
    BY <1>3 DEF TypesBar, Infos
  <1> QED
    BY <1>2, <1>5, <1>6, <1>7, <1>8 DEF Abs!Release, Abs!Tracked

LEMMA ReallocImplements ==
  ASSUME IInv, IInv', NEW p \in Pointer, NEW new_size \in ReallocSizes, new_size # 0,
         mem_realloc(p, new_size)
  PROVE  (\E q \in Pointer : Abs!Move(p, q)) \/ UNCHANGED <<TypesBar, OwnerBar>>
  <1>1. PICK e \in mem_find_ptr(p), q \in (HeapPtr \ live) \cup {p} :
           ~e.stored /\ Rehash(e, q, new_size)
    BY DEF mem_realloc
  <1>2. /\ e \in pMemList[PtrHash[p]] /\ e.p_ptr = p /\ e \in Entry /\ e \in Entries
        /\ PtrHash[p] \in Bucket /\ q \in Pointer /\ PtrHash[q] \in Bucket
    BY <1>1, FindPtr, BucketFacts DEF IInv, Entries, Pointer
  <1> DEFINE moved == [p_ptr |-> q, size |-> new_size, stored |-> e.stored, p_info |-> e.p_info]
             g == [r \in (DOMAIN OwnerBar \ {p}) \cup {q} |-> IF r = q THEN OwnerBar[p] ELSE OwnerBar[r]]
  <1>3. moved.p_ptr = q /\ moved.p_info = e.p_info
    OBVIOUS
  <1>4. \A b \in Bucket : pMemList'[b] =
           (pMemList[b] \ {e}) \cup (IF b = PtrHash[q] THEN {moved} ELSE {})
    <2>1. \A b \in Bucket : e \in pMemList[b] => b = PtrHash[p]
      BY <1>2 DEF IInv, Core, ListInv, Hashed
    <2> HIDE DEF moved
    <2>2. pMemList' = [[pMemList EXCEPT ![PtrHash[p]] = @ \ {e}] EXCEPT ![PtrHash[q]] = @ \cup {moved}]
      BY <1>1, <1>2 DEF Rehash, moved
    <2> QED
      BY <1>2, <2>1, <2>2 DEF IInv, Core, TableTypes
  <1> HIDE DEF moved
  <1>5. Entries' = (Entries \ {e}) \cup {moved}
    BY <1>2, <1>4 DEF Entries
  <1>6. UNCHANGED <<pMemInfo, infoType>>
    BY DEF mem_realloc
  <1>7. OwnerBar' = Owners(Entries', infoType') /\ Single(Entries')
    <2>1. (IInv => OwnerBar = Owners(Entries, infoType) /\ Single(Entries))'
      BY BarFacts, PTL
    <2> QED
      BY <2>1 DEF Owners
  <1>8. /\ DOMAIN OwnerBar = {f.p_ptr : f \in Entries} /\ \A f \in Entries : OwnerBar[f.p_ptr] = infoType[f.p_info]
        /\ Single(Entries) /\ OwnerBar = Owners(Entries, infoType) /\ Entries \subseteq Entry
    BY BarFacts
  <1>9. \A f \in Entries : f # e => f.p_ptr # p /\ f.p_ptr # q
    <2> SUFFICES ASSUME NEW f \in Entries, f # e PROVE f.p_ptr # p /\ f.p_ptr # q
      OBVIOUS
    <2>1. f.p_ptr # p
      BY <1>2, <1>8 DEF Single
    <2>2. f.p_ptr \in HeapPtr => f.p_ptr \in live
      <3>1. f \in pMemList[PtrHash[f.p_ptr]] /\ PtrHash[f.p_ptr] \in Bucket
        BY BarFacts
      <3> QED
        BY <3>1, MemAssumption DEF MemAssumption, IInv, Core, ListInv, EntryKind, LiveInv, TrackedLive
    <2> QED
      BY <1>1, <2>1, <2>2
  <1>10. Owners(Entries', infoType') = g
    <2>1. {f.p_ptr : f \in Entries'} = (DOMAIN OwnerBar \ {p}) \cup {q}
      BY <1>2, <1>3, <1>5, <1>8, <1>9
    <2>2. g = [r \in {f.p_ptr : f \in Entries'} |-> g[r]]
      BY <2>1
    <2>3. \A f \in Entries' : g[f.p_ptr] = infoType'[f.p_info]
      BY <1>2, <1>3, <1>5, <1>6, <1>8, <1>9
    <2> HIDE DEF g
    <2> QED
      BY <1>7, <2>2, <2>3, OwnersAre
  <1>11. UNCHANGED TypesBar
    BY <1>6 DEF TypesBar, Infos
  <1>12. CASE q # p
    <2>1. q \notin DOMAIN OwnerBar /\ p \in DOMAIN OwnerBar
      BY <1>2, <1>8, <1>9, <1>12
    <2> QED
      BY <1>2, <1>7, <1>10, <1>11, <2>1 DEF Abs!Move, Abs!Tracked
  <1>13. CASE q = p
    <2>1. g = OwnerBar
      <3>1. p \in DOMAIN OwnerBar
        BY <1>2, <1>8
      <3>2. DOMAIN g = DOMAIN OwnerBar /\ \A r \in DOMAIN OwnerBar : g[r] = OwnerBar[r]
        BY <1>13, <3>1
      <3>3. OwnerBar = [r \in DOMAIN OwnerBar |-> OwnerBar[r]] /\ g = [r \in DOMAIN g |-> g[r]]
        BY <1>8 DEF Owners
      <3> HIDE DEF g
      <3> QED
        BY <3>2, <3>3
    <2> QED
      BY <1>7, <1>10, <1>11, <2>1
  <1> QED
    BY <1>12, <1>13

LEMMA AllocateImplements ==
  ASSUME IInv, IInv', NEW t \in TypeId, NEW members \in Nat, NEW size \in AllocSizes,
         Allocate(t, members, size)
  PROVE  \E p \in Pointer : Abs!Track(p, t)
  <1>1. PICK i \in mem_find_type(t), p \in HeapPtr \ live :
           Push([p_ptr |-> p, size |-> size, stored |-> FALSE, p_info |-> i])
    BY DEF Allocate
  <1> DEFINE e == [p_ptr |-> p, size |-> size, stored |-> FALSE, p_info |-> i]
  <1>2. size \in Nat /\ p \in Pointer /\ p \notin UserPtr /\ PtrHash[p] \in Bucket
    BY BucketFacts, MemAssumption DEF MemAssumption, Pointer
  <1>3. e \in Entry
    BY <1>2, BucketFacts DEF Entry, mem_find_type, IInv, Core, TableTypes
  <1>4. \A f \in pMemList[PtrHash[p]] : f.p_ptr # p
    BY <1>2 DEF IInv, Core, LiveInv, TrackedLive, ListInv, EntryKind
  <1>5. e.p_ptr = p /\ e.p_info = i
    OBVIOUS
  <1>6. Push(e) /\ UNCHANGED <<pMemInfo, infoType>>
    BY <1>1 DEF Allocate
  <1> HIDE DEF e
  <1>7. Abs!Track(e.p_ptr, t)
    BY <1>3, <1>4, <1>5, <1>6, PushImplements
  <1> QED
    BY <1>2, <1>5, <1>7

LEMMA StoreImplements ==
  ASSUME IInv, IInv', NEW p \in UserPtr, NEW t \in TypeId, NEW size \in AllocSizes,
         mem_store(p, t, size)
  PROVE  \E q \in Pointer : Abs!Track(q, t)
  <1>1. PICK i \in mem_find_type(t) :
           Push([p_ptr |-> p, size |-> size, stored |-> TRUE, p_info |-> i])
    BY DEF mem_store
  <1> DEFINE e == [p_ptr |-> p, size |-> size, stored |-> TRUE, p_info |-> i]
  <1>2. size \in Nat /\ p \in Pointer
    BY MemAssumption DEF MemAssumption, Pointer
  <1>3. e \in Entry
    BY <1>2, BucketFacts DEF Entry, mem_find_type, IInv, Core, TableTypes
  <1>4. \A f \in pMemList[PtrHash[p]] : f.p_ptr # p
    BY DEF mem_store, mem_find_ptr
  <1>5. e.p_ptr = p /\ e.p_info = i
    OBVIOUS
  <1>6. Push(e) /\ UNCHANGED <<pMemInfo, infoType>>
    BY <1>1 DEF mem_store
  <1> HIDE DEF e
  <1>7. Abs!Track(e.p_ptr, t)
    BY <1>3, <1>4, <1>5, <1>6, PushImplements
  <1> QED
    BY <1>2, <1>5, <1>7

\* A call is one step of the abstract manager, or none it can see.
LEMMA CallImplements ==
  ASSUME IInv, IInv', CallStep, 0 \notin ReallocSizes
  PROVE  Abs!Next \/ UNCHANGED <<TypesBar, OwnerBar>>
  <1>1. ASSUME NEW t \in TypeId, mem_add_type(t) \/ mem_del_type(t) PROVE Abs!Next
    BY <1>1, AddTypeImplements, DelTypeImplements DEF Abs!Next
  <1>2. ASSUME NEW t \in TypeId, NEW handler \in BOOLEAN, mem_cb_free(t, handler)
        PROVE  UNCHANGED <<TypesBar, OwnerBar>>
    BY <1>2, SameBar DEF mem_cb_free
  <1>3. ASSUME NEW t \in TypeId, NEW m \in Nat, NEW n \in AllocSizes, Allocate(t, m, n) PROVE Abs!Next
    BY <1>3, AllocateImplements DEF Abs!Next
  <1>4. ASSUME NEW t \in TypeId, NEW p \in UserPtr, NEW n \in AllocSizes, mem_store(p, t, n)
        PROVE  Abs!Next
    BY <1>4, StoreImplements DEF Abs!Next
  <1>5. ASSUME NEW p \in Pointer, NEW n \in ReallocSizes, mem_realloc(p, n)
        PROVE  Abs!Next \/ UNCHANGED <<TypesBar, OwnerBar>>
    BY <1>5, ReallocImplements DEF Abs!Next
  <1>6. ASSUME NEW p \in Pointer, mem_free(p) PROVE Abs!Next
    BY <1>6, FreeImplements DEF Abs!Next
  <1>7. ASSUME NEW p \in HeapPtr, NEW o \in Offset, NEW byte \in Byte, Write(p, o, byte)
        PROVE  UNCHANGED <<TypesBar, OwnerBar>>
    BY <1>7, SameBar DEF Write, tables
  <1>8. \A m \in CallocCounts : m \in Nat
    BY MemAssumption DEF MemAssumption
  <1> QED
    BY <1>1, <1>2, <1>3, <1>4, <1>5, <1>6, <1>7, <1>8 DEF CallStep, Call, mem_alloc, mem_calloc

\* mem_free_all is a sequence of releases and deletions.
LEMMA StepImplements ==
  ASSUME IInv, [Next]_vars, 0 \notin ReallocSizes
  PROVE  Abs!Next \/ UNCHANGED <<TypesBar, OwnerBar>>
  <1>1. IInv'
    BY StepInv
  <1>2. CASE CallStep
    BY <1>1, <1>2, CallImplements
  <1>3. CASE FreeAllEntry
    <2>1. PICK e \in faList :
             IF Matches(e) /\ mem_find_ptr(e.p_ptr) # {}
               THEN mem_free(e.p_ptr)
               ELSE UNCHANGED <<tables, heap>>
      BY <1>3 DEF FreeAllEntry
    <2>2. e.p_ptr \in Pointer
      BY DEF IInv, WalkTypes, Entry
    <2>3. CASE mem_free(e.p_ptr)
      BY <1>1, <2>2, <2>3, FreeImplements DEF Abs!Next
    <2>4. CASE UNCHANGED <<tables, heap>>
      BY <2>4, SameBar DEF tables
    <2> QED
      BY <2>1, <2>3, <2>4
  <1>4. CASE FreeAllType
    <2>1. PICK i \in faInfo :
             IF InUse(infoType[i]) THEN UNCHANGED <<tables, heap>>
               ELSE mem_del_type(infoType[i])
      BY <1>4 DEF FreeAllType
    <2>2. infoType[i] \in TypeId
      <3>1. i \in pMemInfo[faBucket] /\ faBucket \in Bucket /\ i \in InfoAddr
        BY <1>4 DEF FreeAllType, IInv, WalkTypes, WalkFresh
      <3> QED
        BY <3>1 DEF IInv, Core, TableTypes, InfoInv, InfoHashed
    <2>3. CASE mem_del_type(infoType[i])
      BY <2>2, <2>3, DelTypeImplements DEF Abs!Next
    <2>4. CASE UNCHANGED <<tables, heap>>
      BY <2>4, SameBar DEF tables
    <2> QED
      BY <2>1, <2>3, <2>4
  <1>5. CASE \/ \E t \in TypeId \cup {0} : mem_free_all(t)
             \/ FreeAllNextBucket \/ FreeAllNextTypes \/ UNCHANGED vars
    <2>1. UNCHANGED <<pMemList, pMemInfo, infoType>>
      BY <1>5 DEF mem_free_all, FreeAllNextBucket, FreeAllNextTypes, vars, tables
    <2> QED
      BY <2>1, SameBar
  <1> QED
    BY <1>2, <1>3, <1>4, <1>5 DEF Next, CallStep

LEMMA InitImplements ==
  ASSUME Init
  PROVE  Abs!Init
  <1>1. Entries = {} /\ Infos = {}
    BY DEF Init, Entries, Infos
  <1> QED
    BY <1>1 DEF Abs!Init, TypesBar, OwnerBar

\* mem.c keeps the promise of MemAbs: every call, and every step of the loop
\* of mem_free_all, registers or deletes one category, or tracks, moves or
\* releases one pointer of a category that exists, or changes neither.
THEOREM ManagerImplements ==
  ASSUME 0 \notin ReallocSizes
  PROVE  Spec => Refines
  <1>1. Init => IInv /\ Abs!Init
    BY InitInv, InitImplements
  <1>2. IInv /\ [Next]_vars => IInv'
    BY StepInv
  <1>3. IInv /\ [Next]_vars => [Abs!Next]_(Abs!vars)
    BY StepImplements DEF Abs!vars
  <1> QED
    BY <1>1, <1>2, <1>3, PTL DEF Spec, Refines, Abs!Spec

-----------------------------------------------------------------------------
(* The bytes of a block.                                                   *)

\* The recorded size of a block of ours is what the C library gave it.
SizesExact ==
    \A b \in Bucket : \A e \in pMemList[b] : ~e.stored => e.size = cap[e.p_ptr]

\* The C library gives capacity to blocks that are not live, one member at a time.
LEMMA AllocateKeepsSizes ==
  ASSUME IInv, SizesExact, NEW t \in TypeId, NEW size \in AllocSizes, Allocate(t, 1, size)
  PROVE  SizesExact'
  <1>1. PICK i \in mem_find_type(t), p \in HeapPtr \ live :
           /\ cap' = [cap EXCEPT ![p] = 1 * size]
           /\ Push([p_ptr |-> p, size |-> size, stored |-> FALSE, p_info |-> i])
    BY DEF Allocate
  <1> DEFINE e == [p_ptr |-> p, size |-> size, stored |-> FALSE, p_info |-> i]
  <1>2. PtrHash[p] \in Bucket /\ 1 * size = size
    BY BucketFacts, MemAssumption DEF MemAssumption, Pointer
  <1>3. e.p_ptr = p /\ e.size = size
    OBVIOUS
  <1>4. pMemList' = [pMemList EXCEPT ![PtrHash[p]] = @ \cup {e}]
    BY <1>1 DEF Push
  <1> HIDE DEF e
  <1>5. cap'[p] = size /\ \A q \in HeapPtr : q # p => cap'[q] = cap[q]
    BY <1>1, <1>2 DEF IInv, Core, HeapTypes
  <1>6. \A b \in Bucket : \A f \in pMemList'[b] : f = e \/ f \in pMemList[b]
    BY <1>2, <1>4 DEF IInv, Core, TableTypes
  <1>7. \A b \in Bucket : \A f \in pMemList[b] : ~f.stored => f.p_ptr \in HeapPtr /\ f.p_ptr # p
    BY DEF IInv, Core, HeapTypes, LiveInv, TrackedLive
  <1> QED
    BY <1>3, <1>5, <1>6, <1>7 DEF SizesExact

LEMMA ReallocKeepsSizes ==
  ASSUME IInv, SizesExact, NEW p \in Pointer, NEW new_size \in ReallocSizes, new_size # 0,
         mem_realloc(p, new_size)
  PROVE  SizesExact'
  <1>1. PICK e \in mem_find_ptr(p), q \in (HeapPtr \ live) \cup {p} :
           ~e.stored /\ cap' = [cap EXCEPT ![q] = new_size] /\ Rehash(e, q, new_size)
    BY DEF mem_realloc
  <1>2. e \in pMemList[PtrHash[p]] /\ e.p_ptr = p /\ PtrHash[p] \in Bucket /\ p \in HeapPtr
    BY <1>1, FindPtr, BucketFacts DEF IInv, Core, HeapTypes, LiveInv, TrackedLive
  <1>3. q \in HeapPtr /\ PtrHash[q] \in Bucket
    BY <1>2, BucketFacts DEF Pointer
  <1> DEFINE moved == [p_ptr |-> q, size |-> new_size, stored |-> e.stored, p_info |-> e.p_info]
  <1>4. moved.p_ptr = q /\ moved.size = new_size
    OBVIOUS
  <1> HIDE DEF moved
  <1>5. pMemList' = [[pMemList EXCEPT ![PtrHash[p]] = @ \ {e}] EXCEPT ![PtrHash[q]] = @ \cup {moved}]
    BY <1>1, <1>2 DEF Rehash, moved
  <1>6. \A b \in Bucket : e \in pMemList[b] => b = PtrHash[p]
    BY <1>2 DEF IInv, Core, ListInv, Hashed
  <1>7. \A b \in Bucket : \A f \in pMemList'[b] : f = moved \/ (f \in pMemList[b] /\ f # e)
    BY <1>2, <1>3, <1>5, <1>6 DEF IInv, Core, TableTypes
  <1>8. cap'[q] = new_size /\ \A r \in HeapPtr : r # q => cap'[r] = cap[r]
    BY <1>1, <1>3 DEF IInv, Core, HeapTypes
  <1>9. ASSUME NEW b \in Bucket, NEW f \in pMemList[b], f # e, ~f.stored
        PROVE  f.p_ptr \in HeapPtr /\ f.p_ptr # q
    <2>1. f.p_ptr \in live /\ live \subseteq HeapPtr
      BY <1>9 DEF IInv, Core, HeapTypes, LiveInv, TrackedLive
    <2>2. f.p_ptr # p
      BY <1>2, <1>9 DEF IInv, Core, ListInv, Hashed, OneEntry
    <2> QED
      BY <1>1, <2>1, <2>2
  <1> QED
    BY <1>4, <1>7, <1>8, <1>9 DEF SizesExact

LEMMA FreeKeepsSizes ==
  ASSUME IInv, SizesExact, NEW p \in Pointer, mem_free(p)
  PROVE  SizesExact'
  <1>1. \A b \in Bucket : pMemList'[b] = {f \in pMemList[b] : f.p_ptr # p}
    BY FreeStep DEF IInv
  <1>2. UNCHANGED cap
    BY DEF mem_free, Dispose, heap
  <1> QED
    BY <1>1, <1>2 DEF SizesExact

LEMMA SizesKept ==
  ASSUME IInv, SizesExact, [Next]_vars, 0 \notin ReallocSizes, CallocCounts \subseteq {1}
  PROVE  SizesExact'
  <1>1. CASE UNCHANGED <<pMemList, cap>>
    BY <1>1 DEF SizesExact
  <1>2. ASSUME NEW t \in TypeId, NEW p \in UserPtr, NEW n \in AllocSizes, mem_store(p, t, n)
        PROVE  SizesExact'
    <2>1. PICK i \in mem_find_type(t) :
             pMemList' = [pMemList EXCEPT ![PtrHash[p]] =
                            @ \cup {[p_ptr |-> p, size |-> n, stored |-> TRUE, p_info |-> i]}]
      BY <1>2 DEF mem_store, Push
    <2>2. UNCHANGED cap /\ PtrHash[p] \in Bucket
      BY <1>2, BucketFacts DEF mem_store, heap, Pointer
    <2>3. \A b \in Bucket : \A f \in pMemList'[b] : f.stored \/ f \in pMemList[b]
      BY <2>1, <2>2 DEF IInv, Core, TableTypes
    <2> QED
      BY <2>2, <2>3 DEF SizesExact
  <1>3. CASE CallStep
    <2>1. CASE \E t \in TypeId : mem_add_type(t) \/ mem_del_type(t)
      BY <1>1, <2>1 DEF mem_add_type, mem_del_type, heap
    <2>2. CASE \E t \in TypeId, handler \in BOOLEAN : mem_cb_free(t, handler)
      BY <1>1, <2>2 DEF mem_cb_free, heap
    <2>3. CASE \E t \in TypeId, n \in AllocSizes : Allocate(t, 1, n)
      BY <2>3, AllocateKeepsSizes
    <2>4. CASE \E t \in TypeId, m \in CallocCounts, n \in AllocSizes : mem_calloc(t, m, n)
      <3>1. \A m \in CallocCounts : m = 1
        OBVIOUS
      <3> QED
        BY <2>4, <3>1, AllocateKeepsSizes DEF mem_calloc
    <2>5. CASE \E t \in TypeId, p \in UserPtr, n \in AllocSizes : mem_store(p, t, n)
      BY <1>2, <2>5
    <2>6. CASE \E p \in Pointer, n \in ReallocSizes : mem_realloc(p, n)
      BY <2>6, ReallocKeepsSizes
    <2>7. CASE \E p \in Pointer : mem_free(p)
      BY <2>7, FreeKeepsSizes
    <2>8. CASE \E p \in HeapPtr, o \in Offset, byte \in Byte : Write(p, o, byte)
      BY <1>1, <2>8 DEF Write, tables
    <2> QED
      BY <1>3, <2>1, <2>2, <2>3, <2>4, <2>5, <2>6, <2>7, <2>8 DEF CallStep, Call, mem_alloc
  <1>4. CASE FreeAllEntry
    <2>1. PICK e \in faList :
             IF Matches(e) /\ mem_find_ptr(e.p_ptr) # {}
               THEN mem_free(e.p_ptr)
               ELSE UNCHANGED <<tables, heap>>
      BY <1>4 DEF FreeAllEntry
    <2>2. e.p_ptr \in Pointer
      BY DEF IInv, WalkTypes, Entry
    <2> QED
      BY <1>1, <2>1, <2>2, FreeKeepsSizes DEF tables, heap
  <1>5. CASE FreeAllType
    BY <1>1, <1>5 DEF FreeAllType, mem_del_type, tables, heap
  <1>6. CASE \/ \E t \in TypeId \cup {0} : mem_free_all(t)
             \/ FreeAllNextBucket \/ FreeAllNextTypes \/ UNCHANGED vars
    BY <1>1, <1>6 DEF mem_free_all, FreeAllNextBucket, FreeAllNextTypes, vars, tables, heap
  <1> QED
    BY <1>3, <1>4, <1>5, <1>6 DEF Next, CallStep

\* What mem_realloc leaves in the block it returns.
LEMMA ResizeKeepsBytes ==
  ASSUME IInv, SizesExact, 0 \notin ReallocSizes
  PROVE  ResizeKeeps
  <1> SUFFICES ASSUME NEW p \in HeapPtr, NEW n \in ReallocSizes, mem_realloc(p, n),
                      NEW q \in live' \ (live \ {p}), NEW o \in Offset, o < n
               PROVE  data'[q][o] = IF o < cap[p] THEN data[p][o] ELSE 0
    BY DEF ResizeKeeps
  <1>1. PICK e \in mem_find_ptr(p), r \in (HeapPtr \ live) \cup {p}, garbage \in Byte :
           /\ ~e.stored
           /\ live' = (live \ {p}) \cup {r}
           /\ data' = [data EXCEPT ![r] = Resized(p, e, n, garbage)]
    BY DEF mem_realloc
  <1>2. e.size = cap[p]
    <2>1. e \in pMemList[PtrHash[p]] /\ e.p_ptr = p /\ PtrHash[p] \in Bucket
      BY FindPtr, BucketFacts DEF IInv, Pointer
    <2> QED
      BY <1>1, <2>1 DEF SizesExact
  <1>3. q = r /\ r \in HeapPtr /\ data'[q] = Resized(p, e, n, garbage)
    BY <1>1 DEF IInv, Core, HeapTypes
  <1>4. o \in Int /\ cap[p] \in Int /\ n \in Int
    BY MemAssumption DEF MemAssumption, Offset, IInv, Core, HeapTypes
  <1> QED
    BY <1>2, <1>3, <1>4 DEF Resized

\* What mem_free leaves in the block it returns.
LEMMA FreeClears ==
  ASSUME IInv, SizesExact
  PROVE  ClearedWhenFreed
  <1> SUFFICES ASSUME NEW p \in Pointer, mem_free(p), NEW e \in mem_find_ptr(p), NEW o \in Offset,
                      ~e.stored, ~infoCb[e.p_info], o < cap[p]
               PROVE  data'[p][o] = 0
    BY DEF ClearedWhenFreed
  <1>1. PICK f \in mem_find_ptr(p) : Dispose(p, f)
    BY DEF mem_free
  <1>2. /\ e \in pMemList[PtrHash[p]] /\ f \in pMemList[PtrHash[p]]
        /\ e.p_ptr = p /\ f.p_ptr = p /\ PtrHash[p] \in Bucket
    BY FindPtr, BucketFacts DEF IInv
  <1>3. e = f
    BY <1>2 DEF IInv, Core, ListInv, OneEntry
  <1>4. e.size = cap[p] /\ p \in HeapPtr
    BY <1>2 DEF SizesExact, IInv, Core, HeapTypes, LiveInv, TrackedLive
  <1>5. data' = [data EXCEPT ![p] = [b \in Offset |-> IF b < f.size THEN 0 ELSE @[b]]]
    BY <1>1, <1>3 DEF Dispose
  <1> QED
    BY <1>3, <1>4, <1>5 DEF IInv, Core, HeapTypes

\* mem_realloc keeps the bytes of a block and zeroes the new ones, and mem_free
\* returns no block with bytes left in it, as long as mem_calloc is asked for
\* one member at a time: it records the size of one.
THEOREM BytesAreKept ==
  ASSUME 0 \notin ReallocSizes, CallocCounts \subseteq {1}
  PROVE  Spec => BytesKept
  <1>1. Init => IInv /\ SizesExact
    <2>1. Init => SizesExact
      BY DEF Init, SizesExact
    <2> QED
      BY <2>1, InitInv
  <1>2. IInv /\ SizesExact /\ [Next]_vars => (IInv /\ SizesExact)'
    BY StepInv, SizesKept
  <1>3. IInv /\ SizesExact => ResizeKeeps /\ ClearedWhenFreed
    BY ResizeKeepsBytes, FreeClears
  <1> QED
    BY <1>1, <1>2, <1>3, PTL DEF Spec, BytesKept
=============================================================================
