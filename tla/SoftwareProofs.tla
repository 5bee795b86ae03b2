--------------------------- MODULE SoftwareProofs ---------------------------
(***************************************************************************)
(* Theorems about the package lists, for any number of suvlets, runs and   *)
(* lines: what packages.xml names, and what is fetched from it, is the     *)
(* whole list of one run, unless a mishap happened.                        *)
(***************************************************************************)
EXTENDS Software, SequenceTheorems, FiniteSetTheorems, TLAPS

-----------------------------------------------------------------------------
(* Writing to a file.                                                      *)

LEMMA OverwrittenType ==
  ASSUME NEW old \in Seq(Part), NEW off \in Nat, NEW parts \in Seq(Part)
  PROVE  Overwritten(old, off, parts) \in Seq(Part)
  <1> DEFINE end == IF parts = <<>> THEN 0 ELSE off + Len(parts)
             len == IF Len(old) < end THEN end ELSE Len(old)
             part(i) == CASE i \in off + 1 .. end -> parts[i - off]
                          [] i \in DOMAIN old /\ i \notin off + 1 .. end -> old[i]
                          [] OTHER -> [run |-> 0, part |-> "hole"]
  <1>1. end \in Nat /\ len \in Nat
    BY EmptySeq
  <1>2. ASSUME NEW i \in 1 .. len PROVE part(i) \in Part
    <2>1. CASE i \in off + 1 .. end
      <3>1. parts # <<>> /\ i - off \in 1 .. Len(parts)
        BY <2>1
      <3> QED
        BY <2>1, <3>1
    <2>2. CASE i \in DOMAIN old /\ i \notin off + 1 .. end
      BY <2>2
    <2>3. CASE i \notin DOMAIN old /\ i \notin off + 1 .. end
      <3>1. [run |-> 0, part |-> "hole"] \in Part
        BY DEF Part
      <3> QED
        BY <2>3, <3>1
    <2> QED
      BY <2>1, <2>2, <2>3
  <1>3. Overwritten(old, off, parts) = [i \in 1 .. len |-> part(i)]
    BY DEF Overwritten
  <1> HIDE DEF len, part
  <1> QED
    BY <1>1, <1>2, <1>3

\* Nothing is written.
LEMMA NothingWritten ==
  ASSUME NEW old \in Seq(Part), NEW off \in Nat
  PROVE  Overwritten(old, off, <<>>) = old
  <1>1. \A i : i \notin off + 1 .. 0
    OBVIOUS
  <1>2. (IF Len(old) < 0 THEN 0 ELSE Len(old)) = Len(old) /\ DOMAIN old = 1 .. Len(old)
    OBVIOUS
  <1>3. Overwritten(old, off, <<>>) = [i \in 1 .. Len(old) |-> old[i]]
    BY <1>1, <1>2 DEF Overwritten
  <1> QED
    BY <1>3

\* What is written at the end of a file is appended to it.
LEMMA WrittenAtTheEnd ==
  ASSUME NEW old \in Seq(Part), NEW parts \in Seq(Part)
  PROVE  Overwritten(old, Len(old), parts) = old \o parts
  <1>1. CASE parts = <<>>
    BY <1>1, NothingWritten, ConcatEmptySeq
  <1>2. CASE parts # <<>>
    <2> DEFINE off == Len(old)
               end == off + Len(parts)
    <2>1. off \in Nat /\ end \in Nat /\ off < end
      BY <1>2, EmptySeq
    <2>2. Overwritten(old, off, parts) =
            [i \in 1 .. end |-> CASE i \in off + 1 .. end -> parts[i - off]
                                  [] i \in DOMAIN old /\ i \notin off + 1 .. end -> old[i]
                                  [] OTHER -> [run |-> 0, part |-> "hole"]]
      BY <1>2, <2>1 DEF Overwritten
    <2>3. ASSUME NEW i \in 1 .. end
          PROVE  Overwritten(old, off, parts)[i] = (old \o parts)[i]
      <3>1. CASE i <= off
        <4>1. i \in DOMAIN old /\ i \notin off + 1 .. end
          BY <2>1, <3>1
        <4>2. Overwritten(old, off, parts)[i] = old[i]
          BY <2>2, <4>1
        <4> QED
          BY <2>1, <3>1, <4>2, ConcatProperties
      <3>2. CASE i > off
        <4>1. i \in off + 1 .. end
          BY <2>1, <3>2
        <4>2. Overwritten(old, off, parts)[i] = parts[i - off]
          BY <2>2, <4>1
        <4> QED
          BY <2>1, <3>2, <4>2, ConcatProperties
      <3> QED
        BY <2>1, <3>1, <3>2
    <2>4. Len(old \o parts) = end /\ old \o parts \in Seq(Part)
      BY ConcatProperties
    <2>5. DOMAIN Overwritten(old, off, parts) = 1 .. end
      BY <2>2
    <2>6. Overwritten(old, off, parts) \in Seq(Part) /\ Len(Overwritten(old, off, parts)) = end
      BY <2>1, <2>5, OverwrittenType
    <2> QED
      BY <2>3, <2>4, <2>6, SeqEqual
  <1> QED
    BY <1>1, <1>2

-----------------------------------------------------------------------------
(* Types, and which inodes are in use.                                     *)

StreamType == [inode : Inode \cup {NoFile}, off : Nat, buf : Seq(Part)]

\* An inode is no larger than the number of runs: each run takes at most one.
Numbered ==
    /\ xml <= runs /\ new <= runs
    /\ \A p \in Suvlets :
        /\ stream[p].inode <= runs
        /\ \A i \in DOMAIN leaked[p] : leaked[p][i].inode <= runs

TypeInv ==
    /\ TypeOK
    /\ leaked \in [Suvlets -> Seq(StreamType)]
    /\ \A p \in Suvlets : pc[p] \in {"list", "fetch"} => stream[p].inode \in Inode
    /\ Numbered
    /\ \A p \in Suvlets : run[p] <= runs
    /\ \A r \in Runs : r > runs => listed[r] = 0

LEMMA TypeInit == Init => TypeInv
  <1> SUFFICES ASSUME Init PROVE TypeInv
    OBVIOUS
  <1>1. /\ <<>> \in Seq(Part) /\ <<>> \in Seq(StreamType)
        /\ Closed \in StreamType /\ Closed.inode = 0
        /\ DOMAIN <<>> = {}
    BY EmptySeq DEF Closed, StreamType, NoFile
  <1>2. TypeOK
    BY <1>1, SoftwareAssumption DEF Init, TypeOK, StreamType, SoftwareAssumption, NoFile
  <1> QED
    BY <1>1, <1>2, SoftwareAssumption DEF Init, TypeInv, Numbered, Runs, SoftwareAssumption, NoFile

\* Those are the numbers of all streams.
LEMMA StreamNumbers ==
  ASSUME TypeInv, NEW p \in Suvlets
  PROVE  /\ stream[p].inode \in 0 .. runs
         /\ \A i \in DOMAIN leaked[p] : leaked[p][i].inode \in 0 .. runs
  <1>1. runs \in Nat /\ stream[p].inode \in Inode \cup {NoFile} /\ stream[p].inode <= runs
    BY SoftwareAssumption DEF TypeInv, TypeOK, Numbered, SoftwareAssumption
  <1>2. ASSUME NEW i \in DOMAIN leaked[p] PROVE leaked[p][i].inode \in 0 .. runs
    <2>1. leaked[p][i].inode \in Inode /\ leaked[p][i].inode <= runs
      BY DEF TypeInv, TypeOK, Numbered
    <2> QED
      BY <1>1, <2>1 DEF Inode, Runs
  <1> QED
    BY <1>1, <1>2 DEF Inode, Runs, NoFile

\* A new inode is used by nobody.
LEMMA NewInodeIsNew ==
  ASSUME TypeInv, runs < MaxRuns
  PROVE  NewInode \in Inode \ InUse /\ NewInode <= runs + 1
  <1>1. InUse \subseteq 0 .. runs
    <2>1. ASSUME NEW s \in Streams PROVE s.inode \in 0 .. runs
      BY StreamNumbers DEF Streams
    <2>2. xml \in 0 .. runs /\ new \in 0 .. runs
      BY DEF TypeInv, TypeOK, Numbered, Inode, Runs, NoFile
    <2> QED
      BY <2>1, <2>2 DEF InUse
  <1>2. runs + 1 \in Inode \ InUse
    BY <1>1, SoftwareAssumption DEF TypeInv, TypeOK, Inode, Runs, SoftwareAssumption
  <1>3. Inode \ InUse \in SUBSET Nat
    BY SoftwareAssumption DEF Inode, Runs, SoftwareAssumption
  <1>4. \E i \in Inode \ InUse : \A j \in Inode \ InUse : <<j, i>> \notin OpToRel(<, Nat)
    BY <1>2, <1>3, NatLessThanWellFounded, WFMin
  <1>5. ASSUME NEW i \in Inode \ InUse, NEW j \in Inode \ InUse, <<j, i>> \notin OpToRel(<, Nat)
        PROVE  i <= j
    BY <1>3, <1>5 DEF OpToRel
  <1>6. \E i \in Inode \ InUse : \A j \in Inode \ InUse : i <= j
    BY <1>4, <1>5
  <1>7. NewInode \in Inode \ InUse /\ \A j \in Inode \ InUse : NewInode <= j
    BY <1>6 DEF NewInode
  <1> QED
    BY <1>2, <1>7

\* Writing a buffer keeps the type of files.
LEMMA FlushedType ==
  ASSUME TypeInv, NEW s \in StreamType, s.inode \in Inode, NEW n \in 0 .. Len(s.buf)
  PROVE  Flushed(s, n) \in [Inode -> Seq(Part)]
  <1>1. SubSeq(s.buf, 1, n) \in Seq(Part)
    BY SubSeqProperties, SMT DEF StreamType
  <1>2. Overwritten(content[s.inode], s.off, SubSeq(s.buf, 1, n)) \in Seq(Part)
    BY <1>1, OverwrittenType DEF StreamType, TypeInv, TypeOK
  <1> QED
    BY <1>2 DEF Flushed, TypeInv, TypeOK

\* Streams of other processes keep their numbers.
LEMMA NumberedStays ==
  ASSUME TypeInv, NEW p \in Suvlets,
         runs' \in Nat, runs <= runs', xml' <= runs', new' <= runs',
         stream'[p].inode <= runs',
         \A i \in DOMAIN leaked'[p] : leaked'[p][i].inode <= runs',
         \A q \in Suvlets \ {p} : stream'[q] = stream[q] /\ leaked'[q] = leaked[q]
  PROVE  Numbered'
  <1>1. \A q \in Suvlets \ {p} :
            /\ stream'[q].inode <= runs'
            /\ \A i \in DOMAIN leaked'[q] : leaked'[q][i].inode <= runs'
    <2>1. runs \in Nat
      BY DEF TypeInv, TypeOK
    <2> QED
      BY <2>1, StreamNumbers
  <1> QED
    BY <1>1 DEF Numbered

-----------------------------------------------------------------------------
LEMMA CreateType ==
  ASSUME TypeInv, NEW p \in Suvlets, CreatePackageList(p)
  PROVE  TypeInv'
  <1> USE DEF TypeInv, TypeOK
  <1> DEFINE i == IF new = NoFile THEN NewInode ELSE new
             head == [run |-> runs', part |-> "head"]
  <1>1. runs' = runs + 1 /\ runs' \in Runs
    BY SoftwareAssumption DEF CreatePackageList, Runs, SoftwareAssumption
  <1>2. i \in Inode /\ i <= runs'
    BY <1>1, NewInodeIsNew DEF CreatePackageList, Numbered, Inode, Runs, NoFile
  <1>3. <<>> \in Seq(Part) /\ <<head>> \in Seq(Part)
    BY <1>1 DEF Part
  <1>4. /\ stream' = [stream EXCEPT ![p] = [inode |-> i, off |-> 0, buf |-> <<head>>]]
        /\ new' = i /\ content' = [content EXCEPT ![i] = <<>>]
        /\ run' = [run EXCEPT ![p] = runs'] /\ pc' = [pc EXCEPT ![p] = "list"]
        /\ fetched' = [fetched EXCEPT ![p] = FALSE]
        /\ mishaps' \subseteq mishaps \cup {"overlap"}
        /\ UNCHANGED <<payload, leaked, xml, listed>>
    BY DEF CreatePackageList
  <1> HIDE DEF i, head
  <1>5. TypeOK'
    <2>1. stream'[p] # Closed /\ \A q \in Suvlets : q # p => stream'[q] = stream[q]
      BY <1>2, <1>4, SoftwareAssumption DEF Closed, Inode, Runs, NoFile, SoftwareAssumption
    <2>2. stream' \in [Suvlets -> StreamType]
      BY <1>2, <1>3, <1>4 DEF StreamType
    <2>3. runs' \in 0 .. MaxRuns /\ run'[p] # 0
      BY <1>1, <1>4, SoftwareAssumption DEF Runs, SoftwareAssumption
    <2> QED
      BY <1>1, <1>2, <1>3, <1>4, <2>1, <2>2, <2>3 DEF StreamType
  <1>6. Numbered'
    <2>1. /\ runs' \in Nat /\ runs <= runs' /\ xml' <= runs' /\ new' <= runs'
          /\ stream'[p].inode <= runs'
      BY <1>1, <1>2, <1>4, SoftwareAssumption
         DEF Numbered, Inode, Runs, NoFile, SoftwareAssumption
    <2>2. \A j \in DOMAIN leaked'[p] : leaked'[p][j].inode <= runs'
      BY <1>1, <1>4, StreamNumbers
    <2>3. \A q \in Suvlets \ {p} : stream'[q] = stream[q] /\ leaked'[q] = leaked[q]
      BY <1>4
    <2> QED
      BY <2>1, <2>2, <2>3, NumberedStays
  <1>7. ASSUME NEW q \in Suvlets PROVE run'[q] <= runs'
    <2>1. run[q] \in Nat /\ run[q] <= runs /\ runs \in Nat
      BY DEF Runs
    <2> QED
      BY <1>1, <1>4, <2>1
  <1>8. \A r \in Runs : r > runs' => listed'[r] = 0
    BY <1>1, <1>4 DEF Runs
  <1>9. \A q \in Suvlets : pc'[q] \in {"list", "fetch"} => stream'[q].inode \in Inode
    BY <1>2, <1>4
  <1> QED
    BY <1>4, <1>5, <1>6, <1>7, <1>8, <1>9

\* What a step of another process leaves alone.
Other(q) ==
    /\ pc'[q] = pc[q] /\ payload'[q] = payload[q] /\ run'[q] = run[q]
    /\ stream'[q] = stream[q] /\ leaked'[q] = leaked[q] /\ fetched'[q] = fetched[q]

\* A step of one process that makes no list: what is left to show is about
\* its own stream.
LEMMA OwnStreamType ==
  ASSUME TypeInv, TypeOK', NEW p \in Suvlets, UNCHANGED <<new, runs>>,
         xml' \in {xml, new},
         leaked' \in [Suvlets -> Seq(StreamType)],
         \A q \in Suvlets \ {p} : Other(q),
         stream'[p].inode <= runs, run'[p] <= runs,
         pc'[p] \in {"list", "fetch"} => stream'[p].inode \in Inode,
         \A i \in DOMAIN leaked'[p] : leaked'[p][i].inode <= runs,
         \A r \in Runs : r > runs => listed'[r] = 0
  PROVE  TypeInv'
  <1>1. /\ runs' \in Nat /\ runs <= runs' /\ runs' = runs
        /\ xml' <= runs' /\ new' <= runs'
    BY DEF TypeInv, TypeOK, Numbered
  <1>2. \A q \in Suvlets \ {p} : stream'[q] = stream[q] /\ leaked'[q] = leaked[q]
    BY DEF Other
  <1>3. stream'[p].inode <= runs' /\ \A i \in DOMAIN leaked'[p] : leaked'[p][i].inode <= runs'
    BY <1>1
  <1>4. Numbered'
    BY <1>1, <1>2, <1>3, NumberedStays
  <1>5. \A q \in Suvlets : run'[q] <= runs'
    BY <1>1 DEF Other, TypeInv
  <1>6. \A q \in Suvlets : pc'[q] \in {"list", "fetch"} => stream'[q].inode \in Inode
    BY DEF Other, TypeInv
  <1> QED
    BY <1>1, <1>4, <1>5, <1>6 DEF TypeInv

LEMMA ListPackageType ==
  ASSUME TypeInv, NEW p \in Suvlets, ListPackage(p)
  PROVE  TypeInv'
  <1> USE DEF TypeInv, TypeOK
  <1> DEFINE entry == [run |-> run[p], part |-> "entry"]
  <1>1. run[p] \in Runs /\ stream[p] \in StreamType /\ stream[p].inode \in Inode
    BY DEF ListPackage, StreamType
  <1>2. entry \in Part /\ Append(stream[p].buf, entry) \in Seq(Part)
    BY <1>1, AppendProperties DEF Part, StreamType
  <1> HIDE DEF entry
  <1>3. /\ pc[p] = "list" /\ listed' = [listed EXCEPT ![run[p]] = @ + 1]
        /\ stream' = [stream EXCEPT ![p].buf = Append(stream[p].buf, entry)]
        /\ UNCHANGED <<pc, payload, run, leaked, fetched, xml, new, content, runs, mishaps>>
    BY DEF ListPackage, fprintf, entry, files
  <1>4. stream'[p] \in StreamType /\ stream'[p].inode = stream[p].inode
    BY <1>1, <1>2, <1>3 DEF StreamType
  <1>5. listed' \in [Runs -> 0 .. MaxLines]
    BY <1>1, <1>3, SoftwareAssumption DEF ListPackage, SoftwareAssumption
  <1>6. stream'[p] # Closed
    BY <1>1, <1>4, SoftwareAssumption DEF Closed, NoFile, Inode, Runs, SoftwareAssumption
  <1>7. TypeOK'
    BY <1>3, <1>4, <1>5, <1>6 DEF StreamType
  <1>8. \A r \in Runs : r > runs => listed'[r] = 0
    BY <1>1, <1>3 DEF Runs
  <1>9. /\ stream'[p].inode <= runs /\ run'[p] <= runs
        /\ \A i \in DOMAIN leaked'[p] : leaked'[p][i].inode <= runs
    BY <1>3, <1>4 DEF Numbered
  <1>10. \A q \in Suvlets \ {p} : Other(q)
    BY <1>3 DEF Other
  <1> QED
    BY <1>1, <1>3, <1>4, <1>7, <1>8, <1>9, <1>10, OwnStreamType

LEMMA FlushType ==
  ASSUME TypeInv, NEW p \in Suvlets, Flush(p)
  PROVE  TypeInv'
  <1>1. PICK n \in 0 .. Len(stream[p].buf) :
            /\ FlushedUpTo(stream[p], n)
            /\ stream' = [stream EXCEPT ![p].off = @ + n, ![p].buf = <<>>]
    BY DEF Flush
  <1>2. /\ pc[p] = "list"
        /\ UNCHANGED <<pc, payload, run, leaked, fetched, xml, new, listed, runs>>
    BY DEF Flush
  <1>3. stream[p] \in StreamType /\ stream[p].inode \in Inode /\ n \in Nat
    BY <1>2 DEF TypeInv, TypeOK, StreamType
  <1>4. content' \in [Inode -> Seq(Part)]
    BY <1>1, <1>3, FlushedType DEF FlushedUpTo
  <1>5. stream'[p] \in StreamType /\ stream'[p].inode = stream[p].inode
    <2>1. <<>> \in Seq(Part) /\ stream[p].off + n \in Nat
      BY <1>3 DEF StreamType
    <2> QED
      BY <1>1, <1>3, <2>1 DEF TypeInv, TypeOK, StreamType
  <1>6. stream'[p] # Closed
    BY <1>3, <1>5, SoftwareAssumption DEF Closed, NoFile, Inode, Runs, SoftwareAssumption
  <1>7. mishaps' \subseteq {"full", "overlap", "leftover", "unread"}
    BY <1>1 DEF FlushedUpTo, TypeInv, TypeOK
  <1>8. TypeOK'
    BY <1>1, <1>2, <1>4, <1>5, <1>6, <1>7 DEF TypeInv, TypeOK, StreamType
  <1>9. /\ stream'[p].inode <= runs /\ run'[p] <= runs
        /\ \A i \in DOMAIN leaked'[p] : leaked'[p][i].inode <= runs
    BY <1>2, <1>5 DEF TypeInv, Numbered
  <1>10. \A q \in Suvlets \ {p} : Other(q)
    BY <1>1, <1>2 DEF Other, TypeInv, TypeOK
  <1>11. /\ leaked' \in [Suvlets -> Seq(StreamType)]
         /\ \A r \in Runs : r > runs => listed'[r] = 0
    BY <1>2 DEF TypeInv
  <1> QED
    BY <1>2, <1>3, <1>5, <1>8, <1>9, <1>10, <1>11, OwnStreamType

LEMMA CloseListType ==
  ASSUME TypeInv, NEW p \in Suvlets, CloseList(p)
  PROVE  TypeInv'
  <1> DEFINE tail == [run |-> run[p], part |-> "tail"]
             s == [stream[p] EXCEPT !.buf = Append(@, tail)]
  <1>1. PICK n \in 0 .. Len(s.buf) : FlushedUpTo(s, n)
    BY DEF CloseList
  <1>2. /\ pc[p] = "list" /\ pc' = [pc EXCEPT ![p] = "rename"]
        /\ stream' = [stream EXCEPT ![p] = Closed]
        /\ UNCHANGED <<payload, run, leaked, fetched, xml, new, listed, runs>>
    BY DEF CloseList
  <1>3. stream[p] \in StreamType /\ stream[p].inode \in Inode /\ run[p] \in Runs
    BY <1>2 DEF TypeInv, TypeOK, StreamType
  <1>4. tail \in Part
    BY <1>3 DEF Part
  <1> HIDE DEF tail
  <1>5. s \in StreamType /\ s.inode \in Inode
    BY <1>3, <1>4, AppendProperties DEF StreamType
  <1> HIDE DEF s
  <1>6. content' \in [Inode -> Seq(Part)]
    BY <1>1, <1>5, FlushedType DEF FlushedUpTo
  <1>7. mishaps' \subseteq {"full", "overlap", "leftover", "unread"}
    BY <1>1 DEF FlushedUpTo, TypeInv, TypeOK
  <1>8. Closed \in StreamType /\ Closed.inode = 0
    BY EmptySeq DEF Closed, StreamType, NoFile
  <1>9. TypeOK'
    BY <1>2, <1>3, <1>6, <1>7, <1>8 DEF TypeInv, TypeOK, StreamType
  <1>10. /\ stream'[p].inode <= runs /\ run'[p] <= runs
         /\ \A i \in DOMAIN leaked'[p] : leaked'[p][i].inode <= runs
    BY <1>2, <1>8 DEF TypeInv, TypeOK, Numbered
  <1>11. \A q \in Suvlets \ {p} : Other(q)
    BY <1>2 DEF Other, TypeInv, TypeOK
  <1>12. /\ leaked' \in [Suvlets -> Seq(StreamType)]
         /\ \A r \in Runs : r > runs => listed'[r] = 0
         /\ pc'[p] = "rename"
    BY <1>2 DEF TypeInv, TypeOK
  <1> QED
    BY <1>2, <1>9, <1>10, <1>11, <1>12, OwnStreamType

LEMMA CreateFailsType ==
  ASSUME TypeInv, NEW p \in Suvlets, CreateFails(p)
  PROVE  TypeInv'
  <1>1. /\ pc[p] = "list" /\ pc' = [pc EXCEPT ![p] = "idle"]
        /\ leaked' = [leaked EXCEPT ![p] = <<stream[p]>> \o @]
        /\ stream' = [stream EXCEPT ![p] = Closed] /\ run' = [run EXCEPT ![p] = 0]
        /\ UNCHANGED <<payload, fetched, xml, new, content, listed, runs, mishaps>>
    BY DEF CreateFails, files
  <1>2. stream[p] \in StreamType /\ stream[p].inode \in Inode
    BY <1>1 DEF TypeInv, TypeOK, StreamType
  <1>3. leaked[p] \in Seq(StreamType) /\ <<stream[p]>> \in Seq(StreamType)
    BY <1>2 DEF TypeInv
  <1>4. /\ leaked'[p] = <<stream[p]>> \o leaked[p]
        /\ leaked'[p] \in Seq(StreamType)
        /\ leaked' \in [Suvlets -> Seq(StreamType)]
    BY <1>1, <1>3, ConcatProperties DEF TypeInv
  <1>5. \A i \in DOMAIN leaked'[p] : leaked'[p][i].inode \in Inode /\ leaked'[p][i].inode <= runs
    <2>1. Len(<<stream[p]>>) = 1 /\ <<stream[p]>>[1] = stream[p]
      OBVIOUS
    <2>2. ASSUME NEW i \in 1 .. 1 + Len(leaked[p])
          PROVE  leaked'[p][i] = IF i <= 1 THEN stream[p] ELSE leaked[p][i - 1]
      <3>1. leaked'[p][i] = IF i <= 1 THEN <<stream[p]>>[i] ELSE leaked[p][i - 1]
        BY <1>3, <1>4, <2>1, ConcatProperties
      <3> QED
        BY <2>1, <3>1
    <2>3. DOMAIN leaked'[p] = 1 .. 1 + Len(leaked[p])
      BY <1>3, <1>4, <2>1, ConcatProperties
    <2>4. \A i \in 1 .. Len(leaked[p]) : leaked[p][i].inode \in Inode /\ leaked[p][i].inode <= runs
      BY <1>3 DEF TypeInv, TypeOK, Numbered
    <2>5. stream[p].inode <= runs
      BY DEF TypeInv, Numbered
    <2> HIDE DEF TypeInv
    <2>6. ASSUME NEW i \in 1 .. 1 + Len(leaked[p])
          PROVE  leaked'[p][i].inode \in Inode /\ leaked'[p][i].inode <= runs
      <3>1. CASE i <= 1
        BY <1>2, <2>2, <2>5, <3>1
      <3>2. CASE ~(i <= 1)
        <4>1. i - 1 \in 1 .. Len(leaked[p])
          BY <1>3, <3>2
        <4> QED
          BY <2>2, <2>4, <3>2, <4>1
      <3> QED
        BY <3>1, <3>2
    <2> QED
      BY <2>3, <2>6
  <1>6. Closed \in StreamType /\ Closed.inode = 0
    BY EmptySeq DEF Closed, StreamType, NoFile
  <1>7. TypeOK'
    BY <1>1, <1>5, <1>6 DEF TypeInv, TypeOK, StreamType
  <1>8. stream'[p].inode <= runs /\ run'[p] <= runs
    BY <1>1, <1>6 DEF TypeInv, TypeOK
  <1>9. \A q \in Suvlets \ {p} : Other(q)
    BY <1>1 DEF Other, TypeInv, TypeOK
  <1>10. pc'[p] = "idle" /\ \A r \in Runs : r > runs => listed'[r] = 0
    BY <1>1 DEF TypeInv, TypeOK
  <1> QED
    BY <1>1, <1>4, <1>5, <1>7, <1>8, <1>9, <1>10, OwnStreamType

LEMMA RenameType ==
  ASSUME TypeInv, NEW p \in Suvlets, Rename(p)
  PROVE  TypeInv'
  <1>1. /\ pc[p] = "rename" /\ pc' = [pc EXCEPT ![p] = "idle"]
        /\ xml' = IF new = NoFile THEN xml ELSE new
        /\ new' = NoFile
        /\ run' = [run EXCEPT ![p] = 0]
        /\ UNCHANGED <<payload, stream, leaked, fetched, content, listed, runs, mishaps>>
    BY DEF Rename
  <1>2. TypeOK'
    BY <1>1 DEF TypeInv, TypeOK
  <1>3. runs \in Nat /\ xml' <= runs' /\ new' <= runs'
    BY <1>1 DEF TypeInv, TypeOK, Numbered, NoFile
  <1>4. Numbered'
    BY <1>1, <1>3 DEF TypeInv, Numbered
  <1>5. \A q \in Suvlets : run'[q] <= runs'
    BY <1>1, <1>3 DEF TypeInv, TypeOK
  <1> QED
    BY <1>1, <1>2, <1>4, <1>5 DEF TypeInv, TypeOK

\* A step that touches neither files nor runs.
LEMMA QuietType ==
  ASSUME TypeInv, NEW p \in Suvlets, UNCHANGED <<files, listed, runs>>,
         TypeOK', \A q \in Suvlets \ {p} : Other(q),
         run'[p] \in {run[p], 0}, leaked'[p] \in {leaked[p], <<>>},
         leaked' \in [Suvlets -> Seq(StreamType)],
         stream'[p].inode \in {stream[p].inode, xml, NoFile},
         pc'[p] \in {"list", "fetch"} => stream'[p].inode \in Inode
  PROVE  TypeInv'
  <1>2. stream'[p].inode <= runs /\ run'[p] <= runs
    BY SoftwareAssumption DEF TypeInv, TypeOK, Numbered, NoFile, SoftwareAssumption
  <1>3. \A i \in DOMAIN leaked'[p] : leaked'[p][i].inode <= runs
    BY DEF TypeInv, Numbered
  <1>4. UNCHANGED <<xml, new, listed, runs>>
    BY DEF files
  <1>5. \A r \in Runs : r > runs => listed'[r] = 0
    BY <1>4 DEF TypeInv
  <1> QED
    BY <1>2, <1>3, <1>4, <1>5, OwnStreamType

LEMMA FreshType ==
  ASSUME TypeInv, NEW p \in Suvlets, Fresh(p), UNCHANGED <<files, listed, runs, mishaps>>
  PROVE  TypeInv'
  <1>1. /\ <<>> \in Seq(Part) /\ Closed \in StreamType /\ Closed.inode = NoFile
        /\ DOMAIN <<>> = {}
    BY EmptySeq DEF Closed, StreamType
  <1>2. TypeOK'
    BY <1>1 DEF TypeInv, TypeOK, Fresh, files, StreamType
  <1>3. \A q \in Suvlets \ {p} : Other(q)
    BY DEF Fresh, Other, TypeInv, TypeOK
  <1>4. /\ run'[p] = 0 /\ leaked'[p] = <<>> /\ stream'[p] = Closed /\ pc'[p] = "idle"
        /\ leaked' \in [Suvlets -> Seq(StreamType)]
    BY EmptySeq DEF Fresh, TypeInv, TypeOK
  <1> QED
    BY <1>1, <1>2, <1>3, <1>4, QuietType

LEMMA FetchListType ==
  ASSUME TypeInv, NEW p \in Suvlets, FetchPackageList(p)
  PROVE  TypeInv'
  <1> DEFINE s == [Closed EXCEPT !.inode = xml]
  <1>1. /\ pc[p] = "idle" /\ xml # NoFile
        /\ pc' = [pc EXCEPT ![p] = "fetch"]
        /\ payload' = [payload EXCEPT ![p] = <<>>]
        /\ stream' = [stream EXCEPT ![p] = s]
        /\ fetched' = [fetched EXCEPT ![p] = FALSE]
        /\ UNCHANGED <<run, leaked, files, listed, runs, mishaps>>
    BY DEF FetchPackageList
  <1>2. s \in StreamType /\ s.inode = xml /\ xml \in Inode /\ s # Closed /\ <<>> \in Seq(Part)
    BY <1>1, EmptySeq DEF Closed, StreamType, TypeInv, TypeOK
  <1> HIDE DEF s
  <1>3. TypeOK'
    BY <1>1, <1>2 DEF TypeInv, TypeOK, files, StreamType
  <1>4. \A q \in Suvlets \ {p} : Other(q)
    BY <1>1 DEF Other, TypeInv, TypeOK
  <1>5. run'[p] = run[p] /\ leaked' = leaked /\ stream'[p].inode = xml
    BY <1>1, <1>2 DEF TypeInv, TypeOK
  <1>6. leaked' \in [Suvlets -> Seq(StreamType)]
    BY <1>5 DEF TypeInv
  <1> QED
    BY <1>1, <1>2, <1>3, <1>4, <1>5, <1>6, QuietType

LEMMA FetchReadType ==
  ASSUME TypeInv, NEW p \in Suvlets, FetchRead(p)
  PROVE  TypeInv'
  <1> DEFINE s == stream[p]
             c == content[s.inode]
  <1>1. pc[p] = "fetch" /\ UNCHANGED <<run, leaked, files, listed, runs, mishaps>>
    BY DEF FetchRead
  <1>2. s \in StreamType /\ s.inode \in Inode /\ c \in Seq(Part)
    BY <1>1 DEF TypeInv, TypeOK, StreamType
  <1>3. leaked' \in [Suvlets -> Seq(StreamType)] /\ run'[p] = run[p] /\ leaked'[p] = leaked[p]
    BY <1>1 DEF TypeInv
  <1>4. CASE \E n \in s.off + 1 .. Len(c) :
            /\ payload' = [payload EXCEPT ![p] = @ \o SubSeq(c, s.off + 1, n)]
            /\ stream' = [stream EXCEPT ![p].off = n]
            /\ UNCHANGED <<pc, fetched>>
    <2>1. PICK n \in s.off + 1 .. Len(c) :
            /\ payload' = [payload EXCEPT ![p] = @ \o SubSeq(c, s.off + 1, n)]
            /\ stream' = [stream EXCEPT ![p].off = n]
            /\ UNCHANGED <<pc, fetched>>
      BY <1>4
    <2>2. SubSeq(c, s.off + 1, n) \in Seq(Part) /\ n \in Nat
      BY <1>2, SubSeqProperties DEF StreamType
    <2>3. stream'[p] \in StreamType /\ stream'[p].inode = stream[p].inode
      BY <1>2, <2>1, <2>2 DEF TypeInv, TypeOK, StreamType
    <2>4. stream'[p] # Closed
      BY <1>2, <2>3, SoftwareAssumption DEF Closed, NoFile, Inode, Runs, SoftwareAssumption
    <2>5. payload[p] \o SubSeq(c, s.off + 1, n) \in Seq(Part)
      BY <2>2, ConcatProperties DEF TypeInv, TypeOK
    <2> HIDE DEF s, c
    <2>6. TypeOK'
      BY <1>1, <2>1, <2>3, <2>4, <2>5 DEF TypeInv, TypeOK, files, StreamType
    <2>7. \A q \in Suvlets \ {p} : Other(q)
      BY <1>1, <2>1 DEF Other, TypeInv, TypeOK
    <2>8. stream'[p].inode \in Inode
      BY <1>2, <2>3 DEF s
    <2> QED
      BY <1>1, <1>3, <2>3, <2>6, <2>7, <2>8, QuietType
  <1>5. CASE /\ pc' = [pc EXCEPT ![p] = "idle"] /\ fetched' = [fetched EXCEPT ![p] = TRUE]
             /\ stream' = [stream EXCEPT ![p] = Closed]
             /\ UNCHANGED payload
    <2>1. Closed \in StreamType /\ Closed.inode = NoFile
      BY EmptySeq DEF Closed, StreamType
    <2>2. TypeOK'
      BY <1>1, <1>5, <2>1 DEF TypeInv, TypeOK, files, StreamType
    <2>3. \A q \in Suvlets \ {p} : Other(q)
      BY <1>1, <1>5 DEF Other, TypeInv, TypeOK
    <2>4. stream'[p] = Closed /\ pc'[p] = "idle"
      BY <1>5 DEF TypeInv, TypeOK
    <2> QED
      BY <1>1, <1>3, <2>1, <2>2, <2>3, <2>4, QuietType
  <1> QED
    BY <1>4, <1>5 DEF FetchRead

LEMMA FetchCutType ==
  ASSUME TypeInv, NEW p \in Suvlets, FetchCut(p)
  PROVE  TypeInv'
  <1>1. /\ pc' = [pc EXCEPT ![p] = "idle"] /\ fetched' = [fetched EXCEPT ![p] = TRUE]
        /\ stream' = [stream EXCEPT ![p] = Closed]
        /\ mishaps' = mishaps \cup {"unread"} /\ pc[p] = "fetch"
        /\ UNCHANGED <<payload, run, leaked, files, listed, runs>>
    BY DEF FetchCut
  <1>2. Closed \in StreamType /\ Closed.inode = NoFile
    BY EmptySeq DEF Closed, StreamType
  <1>3. leaked' \in [Suvlets -> Seq(StreamType)] /\ run'[p] = run[p] /\ leaked'[p] = leaked[p]
    BY <1>1 DEF TypeInv
  <1>4. TypeOK'
    BY <1>1, <1>2 DEF TypeInv, TypeOK, files, StreamType
  <1>5. \A q \in Suvlets \ {p} : Other(q)
    BY <1>1 DEF Other, TypeInv, TypeOK
  <1>6. stream'[p] = Closed /\ pc'[p] = "idle"
    BY <1>1 DEF TypeInv, TypeOK
  <1> QED
    BY <1>1, <1>2, <1>3, <1>4, <1>5, <1>6, QuietType

LEMMA ExitFlushType ==
  ASSUME TypeInv, NEW p \in Suvlets, ExitFlush(p)
  PROVE  TypeInv'
  <1>1. CASE leaked[p] = <<>>
    BY <1>1, FreshType DEF ExitFlush, files
  <1>2. CASE leaked[p] # <<>>
    <2> DEFINE s == Head(leaked[p])
    <2>1. /\ pc[p] = "exit" /\ content' = Flushed(s, Len(s.buf))
          /\ leaked' = [leaked EXCEPT ![p] = Tail(@)]
          /\ mishaps' \subseteq mishaps \cup {"leftover"}
          /\ UNCHANGED <<pc, payload, run, stream, fetched, xml, new, listed, runs>>
      BY <1>2 DEF ExitFlush
    <2>2. /\ leaked[p] \in Seq(StreamType) /\ s = leaked[p][1] /\ 1 \in DOMAIN leaked[p]
          /\ s \in StreamType
      BY <1>2, HeadTailProperties DEF TypeInv
    <2>3. s.inode \in Inode /\ Len(s.buf) \in 0 .. Len(s.buf)
      BY <2>2 DEF TypeInv, TypeOK, StreamType
    <2>4. content' \in [Inode -> Seq(Part)]
      BY <2>1, <2>2, <2>3, FlushedType
    <2> HIDE DEF s
    <2>5. leaked'[p] = Tail(leaked[p]) /\ Tail(leaked[p]) \in Seq(StreamType)
      BY <1>2, <2>1, <2>2, HeadTailProperties DEF TypeInv
    <2>6. \A i \in DOMAIN leaked'[p] : i + 1 \in DOMAIN leaked[p] /\ leaked'[p][i] = leaked[p][i + 1]
      BY <1>2, <2>2, <2>5, HeadTailProperties
    <2>7. \A i \in DOMAIN leaked'[p] : leaked'[p][i].inode \in Inode /\ leaked'[p][i].inode <= runs
      BY <2>6 DEF TypeInv, TypeOK, Numbered
    <2>8. leaked' \in [Suvlets -> Seq(StreamType)]
      BY <2>1, <2>5 DEF TypeInv
    <2>9. TypeOK'
      BY <2>1, <2>4, <2>7 DEF TypeInv, TypeOK
    <2>10. stream'[p].inode <= runs /\ run'[p] <= runs
      BY <2>1 DEF TypeInv, Numbered
    <2>11. \A q \in Suvlets \ {p} : Other(q)
      BY <2>1 DEF Other, TypeInv, TypeOK
    <2>12. /\ pc'[p] = "exit" /\ \A r \in Runs : r > runs => listed'[r] = 0
      BY <2>1 DEF TypeInv
    <2> QED
      BY <2>1, <2>7, <2>8, <2>9, <2>10, <2>11, <2>12, OwnStreamType
  <1> QED
    BY <1>1, <1>2

LEMMA PayloadType ==
  ASSUME TypeInv, NEW p \in Suvlets, FetchFails(p) \/ RunWrapper(p) \/ Destroy(p)
  PROVE  TypeInv'
  <1>1. /\ pc[p] = "idle" /\ pc' \in {pc, [pc EXCEPT ![p] = "exit"]}
        /\ fetched' \in {fetched, [fetched EXCEPT ![p] = FALSE]}
        /\ payload' \in {payload, [payload EXCEPT ![p] = <<>>],
                         [payload EXCEPT ![p] = Append(@, [run |-> 0, part |-> "status"])]}
        /\ UNCHANGED <<run, stream, leaked, files, listed, runs, mishaps>>
    BY DEF FetchFails, RunWrapper, Destroy
  <1>2. /\ <<>> \in Seq(Part)
        /\ Append(payload[p], [run |-> 0, part |-> "status"]) \in Seq(Part)
    <2>1. [run |-> 0, part |-> "status"] \in Part
      BY DEF Part
    <2> QED
      BY <2>1, AppendProperties DEF TypeInv, TypeOK
  <1>3. payload' \in [Suvlets -> Seq(Part)]
    BY <1>1, <1>2 DEF TypeInv, TypeOK
  <1>4. TypeOK'
    BY <1>1, <1>3 DEF TypeInv, TypeOK, files
  <1>5. \A q \in Suvlets \ {p} : Other(q)
    BY <1>1 DEF Other, TypeInv, TypeOK
  <1>6. /\ leaked' \in [Suvlets -> Seq(StreamType)]
        /\ run'[p] = run[p] /\ leaked'[p] = leaked[p] /\ stream'[p].inode = stream[p].inode
        /\ pc'[p] \in {"idle", "exit"}
    BY <1>1 DEF TypeInv, TypeOK
  <1> QED
    BY <1>1, <1>4, <1>5, <1>6, QuietType

LEMMA TypeStep == TypeInv /\ [Next]_vars => TypeInv'
  <1>1. ASSUME TypeInv, NEW p \in Suvlets, Step(p) PROVE TypeInv'
    <2>1. CASE Crash(p)
      BY <1>1, <2>1, FreshType DEF Crash
    <2> QED
      BY <1>1, <2>1, CreateType, ListPackageType, CreateFailsType, FlushType, CloseListType,
         RenameType, FetchListType, FetchReadType, FetchCutType, PayloadType, ExitFlushType DEF Step
  <1>2. ASSUME TypeInv, UNCHANGED vars PROVE TypeInv'
    BY <1>2 DEF vars, procs, files, TypeInv, TypeOK, Numbered
  <1> QED
    BY <1>1, <1>2 DEF Next

LEMMA TypeAlways == Spec => []TypeInv
  BY TypeInit, TypeStep, PTL DEF Spec

\* The variables keep their types, for any number of suvlets, runs and lines.
THEOREM SoftwareTypeCorrect == Spec => []TypeOK
  BY TypeAlways, PTL DEF TypeInv

-----------------------------------------------------------------------------
(***************************************************************************)
(* Lists.  While no mishap has happened, one process at most makes a list; *)
(* what is on the disk and in its buffer are the head and the entries of   *)
(* its run.  A list that is finished, as a file or as it was fetched, is   *)
(* of a run that no process is in the middle of, so it stays what it is.   *)
(***************************************************************************)

\* The list of a run, and what there is of it before the tail.
List(r) ==
    [i \in 1 .. listed[r] + 2 |->
        [run |-> r, part |-> IF i = 1 THEN "head"
                             ELSE IF i = listed[r] + 2 THEN "tail" ELSE "entry"]]

BegunOf(r, n) ==
    [i \in 1 .. n + 1 |-> [run |-> r, part |-> IF i = 1 THEN "head" ELSE "entry"]]

Begun(r) == BegunOf(r, listed[r])

Settled == {r \in 1 .. runs : \A q \in Suvlets : pc[q] = "list" => run[q] # r}

Finished == {List(r) : r \in Settled}

Busy(p) == pc[p] \in {"list", "rename"}

AtMostOne == \A p, q \in Suvlets : Busy(p) /\ Busy(q) => p = q

Published == xml # NoFile => xml # new /\ content[xml] \in Finished

Listing(p) ==
    pc[p] = "list" =>
        /\ stream[p].inode = new
        /\ stream[p].off = Len(content[new])
        /\ content[new] \o stream[p].buf = Begun(run[p])

Renaming(p) == pc[p] = "rename" => new # NoFile /\ content[new] \in Finished

Fetching(p) ==
    pc[p] = "fetch" =>
        /\ stream[p].inode # new
        /\ content[stream[p].inode] \in Finished
        /\ stream[p].off <= Len(content[stream[p].inode])
        /\ payload[p] = SubSeq(content[stream[p].inode], 1, stream[p].off)
        /\ ~fetched[p]

Returned(p) == fetched[p] => payload[p] \in Finished

Own(p) == Listing(p) /\ Renaming(p) /\ Fetching(p) /\ Returned(p)

Tidy == AtMostOne /\ Published /\ \A p \in Suvlets : Own(p)

LEMMA FinishedIsWhole ==
  ASSUME TypeInv, NEW parts \in Finished
  PROVE  Whole(parts)
  <1>1. PICK r \in Settled : parts = List(r)
    BY DEF Finished
  <1>2. r \in Runs
    BY SoftwareAssumption DEF Settled, TypeInv, TypeOK, Runs, SoftwareAssumption
  <1> QED
    BY <1>1, <1>2 DEF List, Whole

\* What is finished stays finished.
LEMMA FinishedStays ==
  ASSUME TypeInv, NEW p \in Suvlets, \A q \in Suvlets \ {p} : Other(q),
         runs' \in Nat, runs <= runs',
         pc'[p] = "list" => run'[p] > runs \/ (pc[p] = "list" /\ run'[p] = run[p]),
         \A r \in Settled : listed'[r] = listed[r]
  PROVE  Finished \subseteq Finished'
  <1>1. ASSUME NEW r \in Settled PROVE r \in Settled' /\ List(r)' = List(r)
    <2>1. r \in 1 .. runs /\ r \in 1 .. runs'
      BY DEF Settled, TypeInv, TypeOK
    <2>2. ASSUME NEW q \in Suvlets, pc'[q] = "list" PROVE run'[q] # r
      <3>1. CASE q = p
        BY <2>1, <2>2, <3>1 DEF Settled, TypeInv, TypeOK
      <3>2. CASE q # p
        BY <2>2, <3>2 DEF Settled, Other
      <3> QED
        BY <3>1, <3>2
    <2>3. List(r)' = List(r)
      BY DEF List
    <2> QED
      BY <2>1, <2>2, <2>3 DEF Settled
  <1> QED
    BY <1>1 DEF Finished

\* A step of one process that leaves the names alone, and the files of others.
LEMMA StepTidy ==
  ASSUME TypeInv, Tidy, NEW p \in Suvlets, \A q \in Suvlets \ {p} : Other(q),
         UNCHANGED <<xml, new, runs>>,
         pc'[p] = "list" => pc[p] = "list" /\ run'[p] = run[p],
         pc'[p] = "rename" => pc[p] \in {"list", "rename"},
         \A r \in Settled : listed'[r] = listed[r],
         \A q \in Suvlets \ {p} : pc[q] = "list" => listed'[run[q]] = listed[run[q]],
         xml # NoFile => content'[xml] = content[xml],
         \A q \in Suvlets \ {p} :
            /\ pc[q] \in {"list", "fetch"} => content'[stream[q].inode] = content[stream[q].inode]
            /\ pc[q] = "rename" => content'[new] = content[new],
         Own(p)'
  PROVE  Tidy'
  <1>0. runs' \in Nat /\ runs <= runs'
    BY DEF TypeInv, TypeOK
  <1>1. Finished \subseteq Finished'
    BY <1>0, FinishedStays
  <1>2. AtMostOne'
    BY DEF Tidy, AtMostOne, Busy, Other
  <1>3. Published'
    BY <1>1 DEF Tidy, Published
  <1>4. ASSUME NEW q \in Suvlets \ {p} PROVE Own(q)'
    <2>1. Own(q) /\ Other(q)
      BY DEF Tidy
    <2>2. Listing(q)'
      <3>1. SUFFICES ASSUME pc'[q] = "list" PROVE Listing(q)'
        BY DEF Listing
      <3>2. /\ pc[q] = "list" /\ run'[q] = run[q] /\ stream'[q] = stream[q]
            /\ listed'[run[q]] = listed[run[q]]
        BY <2>1, <3>1 DEF Other
      <3>3. /\ stream[q].inode = new /\ stream[q].off = Len(content[new])
            /\ content[new] \o stream[q].buf = Begun(run[q])
        BY <2>1, <3>2 DEF Own, Listing
      <3>4. new' = new /\ content'[new] = content[new]
        BY <3>2, <3>3
      <3>5. Begun(run[q])' = Begun(run[q])
        BY <3>2 DEF Begun
      <3> QED
        BY <3>2, <3>3, <3>4, <3>5 DEF Listing
    <2>3. Renaming(q)'
      BY <1>1, <2>1 DEF Own, Renaming, Other
    <2>4. Fetching(q)'
      BY <1>1, <2>1 DEF Own, Fetching, Other
    <2>5. Returned(q)'
      BY <1>1, <2>1 DEF Own, Returned, Other
    <2> QED
      BY <2>2, <2>3, <2>4, <2>5 DEF Own
  <1> QED
    BY <1>2, <1>3, <1>4 DEF Tidy

LEMMA FlushedAtTheEnd ==
  ASSUME TypeInv, NEW s \in StreamType, s.inode \in Inode, s.off = Len(content[s.inode])
  PROVE  /\ Flushed(s, Len(s.buf)) = [content EXCEPT ![s.inode] = @ \o s.buf]
         /\ Flushed(s, Len(s.buf))[s.inode] = content[s.inode] \o s.buf
  <1>1. s.buf \in Seq(Part) /\ content[s.inode] \in Seq(Part) /\ content \in [Inode -> Seq(Part)]
    BY DEF StreamType, TypeInv, TypeOK
  <1>2. SubSeq(s.buf, 1, Len(s.buf)) = s.buf
    BY <1>1, SubSeqFull
  <1>3. Overwritten(content[s.inode], s.off, SubSeq(s.buf, 1, Len(s.buf))) = content[s.inode] \o s.buf
    BY <1>1, <1>2, WrittenAtTheEnd
  <1> QED
    BY <1>1, <1>3 DEF Flushed

LEMMA BegunType ==
  ASSUME NEW r \in Runs, NEW n \in Nat
  PROVE  /\ BegunOf(r, n) \in Seq(Part) /\ Len(BegunOf(r, n)) = n + 1
         /\ \A i \in 1 .. n + 1 :
                BegunOf(r, n)[i] = [run |-> r, part |-> IF i = 1 THEN "head" ELSE "entry"]
  <1>1. \A i \in 1 .. n + 1 : [run |-> r, part |-> IF i = 1 THEN "head" ELSE "entry"] \in Part
    BY DEF Part
  <1>2. BegunOf(r, n) \in [1 .. n + 1 -> Part]
    BY <1>1 DEF BegunOf
  <1> QED
    BY <1>2 DEF BegunOf

LEMMA BegunFirst ==
  ASSUME NEW r \in Runs
  PROVE  BegunOf(r, 0) = <<[run |-> r, part |-> "head"]>>
  <1> DEFINE h == [run |-> r, part |-> "head"]
             b == BegunOf(r, 0)
  <1>1. h \in Part
    BY DEF Part
  <1>2. b \in Seq(Part) /\ Len(b) = 1 /\ b[1] = h
    <2>1. 0 \in Nat /\ 0 + 1 = 1 /\ 1 \in 1 .. 1
      OBVIOUS
    <2> QED
      BY <2>1, BegunType
  <1> HIDE DEF h, b
  <1>3. b = <<h>>
    BY <1>1, <1>2
  <1> QED
    BY <1>3 DEF h, b

\* A part more.
LEMMA BegunAppended ==
  ASSUME NEW r \in Runs, NEW n \in Nat, NEW e \in Part
  PROVE  /\ Append(BegunOf(r, n), e) \in Seq(Part)
         /\ Len(Append(BegunOf(r, n), e)) = n + 2
         /\ \A i \in 1 .. n + 2 : Append(BegunOf(r, n), e)[i] =
                IF i = n + 2 THEN e
                ELSE [run |-> r, part |-> IF i = 1 THEN "head" ELSE "entry"]
  <1> DEFINE b == BegunOf(r, n)
  <1>1. /\ b \in Seq(Part) /\ Len(b) = n + 1
        /\ \A i \in 1 .. n + 1 : b[i] = [run |-> r, part |-> IF i = 1 THEN "head" ELSE "entry"]
    BY BegunType
  <1> HIDE DEF b
  <1>2. /\ Append(b, e) \in Seq(Part) /\ Len(Append(b, e)) = n + 2
        /\ Append(b, e)[n + 2] = e
        /\ \A i \in 1 .. n + 1 : Append(b, e)[i] = b[i]
    BY <1>1, AppendProperties
  <1>3. \A i \in 1 .. n + 2 : i = n + 2 \/ (i \in 1 .. n + 1 /\ i # n + 2)
    OBVIOUS
  <1>4. \A i \in 1 .. n + 2 : Append(b, e)[i] =
            IF i = n + 2 THEN e
            ELSE [run |-> r, part |-> IF i = 1 THEN "head" ELSE "entry"]
    BY <1>1, <1>2, <1>3
  <1> QED
    BY <1>2, <1>4 DEF b

LEMMA BegunNext ==
  ASSUME NEW r \in Runs, NEW n \in Nat
  PROVE  Append(BegunOf(r, n), [run |-> r, part |-> "entry"]) = BegunOf(r, n + 1)
  <1> DEFINE e == [run |-> r, part |-> "entry"]
             longer == Append(BegunOf(r, n), e)
             next == BegunOf(r, n + 1)
  <1>1. e \in Part
    BY DEF Part
  <1>2. n + 1 \in Nat /\ (n + 1) + 1 = n + 2
    OBVIOUS
  <1>3. /\ next \in Seq(Part) /\ Len(next) = n + 2
        /\ \A i \in 1 .. n + 2 : next[i] = [run |-> r, part |-> IF i = 1 THEN "head" ELSE "entry"]
    BY <1>2, BegunType
  <1>4. /\ longer \in Seq(Part) /\ Len(longer) = n + 2
        /\ \A i \in 1 .. n + 2 : longer[i] =
                IF i = n + 2 THEN e
                ELSE [run |-> r, part |-> IF i = 1 THEN "head" ELSE "entry"]
    BY <1>1, BegunAppended
  <1> HIDE DEF longer, next
  <1>5. \A i \in 1 .. n + 2 : longer[i] = next[i]
    BY <1>3, <1>4
  <1>6. longer = next
    BY <1>3, <1>4, <1>5, SeqEqual
  <1> QED
    BY <1>6 DEF longer, next

\* With the tail, it is the list.
LEMMA BegunEnds ==
  ASSUME TypeInv, NEW r \in Runs
  PROVE  Append(Begun(r), [run |-> r, part |-> "tail"]) = List(r)
  <1> DEFINE t == [run |-> r, part |-> "tail"]
             longer == Append(BegunOf(r, listed[r]), t)
             part(i) == [run |-> r, part |-> IF i = 1 THEN "head"
                                             ELSE IF i = listed[r] + 2 THEN "tail" ELSE "entry"]
  <1>1. t \in Part
    BY DEF Part
  <1>2. listed[r] \in Nat
    BY DEF TypeInv, TypeOK
  <1>3. /\ longer \in Seq(Part) /\ Len(longer) = listed[r] + 2
        /\ \A i \in 1 .. listed[r] + 2 : longer[i] =
                IF i = listed[r] + 2 THEN t
                ELSE [run |-> r, part |-> IF i = 1 THEN "head" ELSE "entry"]
    BY <1>1, <1>2, BegunAppended
  <1>4. \A i \in 1 .. listed[r] + 2 :
            part(i) = IF i = listed[r] + 2 THEN t
                      ELSE [run |-> r, part |-> IF i = 1 THEN "head" ELSE "entry"]
    BY <1>2
  <1>5. List(r) = [i \in 1 .. listed[r] + 2 |-> part(i)]
    BY DEF List
  <1>6. longer = [i \in 1 .. listed[r] + 2 |-> part(i)]
    <2> HIDE DEF longer, part
    <2>1. longer = [i \in 1 .. listed[r] + 2 |-> longer[i]]
      BY <1>2, <1>3
    <2> QED
      BY <1>3, <1>4, <2>1
  <1> QED
    BY <1>5, <1>6 DEF Begun

-----------------------------------------------------------------------------
\* The process rests, or ends, and files stay as they are.
LEMMA RestTidy ==
  ASSUME TypeInv, Tidy, NEW p \in Suvlets, \A q \in Suvlets \ {p} : Other(q),
         UNCHANGED <<files, listed, runs>>,
         pc'[p] \in {"idle", "exit"},
         fetched'[p] => payload'[p] \in Finished
  PROVE  Tidy'
  <1>1. UNCHANGED <<xml, new, content, listed, runs>>
    BY DEF files
  <1>2. runs' \in Nat /\ runs <= runs'
    BY <1>1 DEF TypeInv, TypeOK
  <1>3. Finished \subseteq Finished'
    BY <1>1, <1>2, FinishedStays
  <1>4. Own(p)'
    BY <1>3 DEF Own, Listing, Renaming, Fetching, Returned
  <1> QED
    BY <1>1, <1>4, StepTidy

LEMMA RestingSteps ==
  ASSUME TypeInv, Tidy, NEW p \in Suvlets,
         CreateFails(p) \/ FetchFails(p) \/ RunWrapper(p) \/ Destroy(p) \/ Crash(p)
  PROVE  Tidy'
  <1>1. /\ UNCHANGED <<files, listed, runs>>
        /\ pc' \in {[pc EXCEPT ![p] = "idle"], [pc EXCEPT ![p] = "exit"], pc}
        /\ pc' = pc => pc[p] = "idle"
        /\ fetched'[p] => fetched[p] /\ payload'[p] = payload[p]
        /\ \A q \in Suvlets \ {p} : Other(q)
    <2>1. CASE CreateFails(p)
      BY <2>1 DEF CreateFails, Other, TypeInv, TypeOK
    <2>2. CASE FetchFails(p) \/ RunWrapper(p)
      BY <2>2 DEF FetchFails, RunWrapper, Other, TypeInv, TypeOK
    <2>3. CASE Destroy(p)
      BY <2>3 DEF Destroy, Other, TypeInv, TypeOK
    <2>4. CASE Crash(p)
      BY <2>4 DEF Crash, Fresh, Other, TypeInv, TypeOK
    <2> QED
      BY <2>1, <2>2, <2>3, <2>4
  <1>2. pc'[p] \in {"idle", "exit"}
    BY <1>1 DEF TypeInv, TypeOK
  <1>3. fetched'[p] => payload'[p] \in Finished
    BY <1>1 DEF Tidy, Own, Returned
  <1> QED
    BY <1>1, <1>2, <1>3, RestTidy

LEMMA FetchListTidy ==
  ASSUME TypeInv, Tidy, NEW p \in Suvlets, FetchPackageList(p)
  PROVE  Tidy'
  <1>1. /\ xml # NoFile /\ pc'[p] = "fetch" /\ payload'[p] = <<>> /\ ~fetched'[p]
        /\ stream'[p].inode = xml /\ stream'[p].off = 0
        /\ UNCHANGED <<xml, new, content, listed, runs>>
        /\ \A q \in Suvlets \ {p} : Other(q)
    BY DEF FetchPackageList, Closed, Other, files, TypeInv, TypeOK
  <1>2. runs' \in Nat /\ runs <= runs'
    BY <1>1 DEF TypeInv, TypeOK
  <1>3. Finished \subseteq Finished'
    BY <1>1, <1>2, FinishedStays
  <1>4. xml # new /\ content[xml] \in Finished /\ content[xml] \in Seq(Part)
    BY <1>1 DEF Tidy, Published, TypeInv, TypeOK
  <1>5. SubSeq(content[xml], 1, 0) = <<>> /\ 0 <= Len(content[xml])
    BY <1>4, SubSeqEmpty
  <1>6. Own(p)'
    BY <1>1, <1>3, <1>4, <1>5 DEF Own, Listing, Renaming, Fetching, Returned
  <1> QED
    BY <1>1, <1>6, StepTidy

LEMMA FetchReadTidy ==
  ASSUME TypeInv, Tidy, NEW p \in Suvlets, FetchRead(p)
  PROVE  Tidy'
  <1> DEFINE s == stream[p]
             c == content[s.inode]
  <1>1. pc[p] = "fetch" /\ UNCHANGED <<run, leaked, files, xml, new, content, listed, runs>>
    BY DEF FetchRead, files
  <1>2. /\ s.off \in Nat /\ s.inode \in Inode /\ c \in Seq(Part)
    BY <1>1 DEF TypeInv, TypeOK
  <1>3. /\ s.inode # new /\ c \in Finished /\ s.off <= Len(c)
        /\ payload[p] = SubSeq(c, 1, s.off) /\ ~fetched[p]
    BY <1>1 DEF Tidy, Own, Fetching
  <1> HIDE DEF c
  <1>4. CASE s.off < Len(c)
    <2>1. PICK n \in s.off + 1 .. Len(c) :
            /\ payload' = [payload EXCEPT ![p] = @ \o SubSeq(c, s.off + 1, n)]
            /\ stream' = [stream EXCEPT ![p].off = n]
            /\ UNCHANGED <<pc, fetched>>
      BY <1>4 DEF FetchRead, c
    <2>2. payload'[p] = payload[p] \o SubSeq(c, s.off + 1, n)
      BY <2>1 DEF TypeInv, TypeOK
    <2>3. SubSeq(c, 1, s.off) \o SubSeq(c, s.off + 1, n) = SubSeq(c, 1, n)
      <3>1. /\ 1 \in 1 .. Len(c) + 1 /\ s.off \in 1 - 1 .. Len(c) /\ n \in s.off .. Len(c)
        BY <1>2, <1>3, <2>1
      <3> QED
        BY <1>2, <3>1, ConcatAdjacentSubSeq
    <2>4. stream'[p].inode = s.inode /\ stream'[p].off = n /\ n <= Len(c)
      BY <1>2, <2>1 DEF TypeInv, TypeOK
    <2>5. \A q \in Suvlets \ {p} : Other(q)
      BY <1>1, <2>1 DEF Other, TypeInv, TypeOK
    <2>6. pc'[p] = "fetch" /\ ~fetched'[p]
      BY <1>1, <1>3, <2>1
    <2>7. runs' \in Nat /\ runs <= runs'
      BY <1>1 DEF TypeInv, TypeOK
    <2>8. Finished \subseteq Finished'
      BY <1>1, <2>5, <2>6, <2>7, FinishedStays
    <2>9. content'[stream'[p].inode] = c
      BY <1>1, <2>4 DEF c
    <2>10. Own(p)'
      BY <1>1, <1>3, <2>2, <2>3, <2>4, <2>6, <2>8, <2>9
         DEF Own, Listing, Renaming, Fetching, Returned
    <2> QED
      BY <1>1, <2>5, <2>6, <2>10, StepTidy
  <1>5. CASE ~(s.off < Len(c))
    <2>1. /\ pc' = [pc EXCEPT ![p] = "idle"] /\ UNCHANGED payload
          /\ stream' = [stream EXCEPT ![p] = Closed]
          /\ fetched' = [fetched EXCEPT ![p] = TRUE]
      BY <1>5 DEF FetchRead, c
    <2>2. s.off = Len(c)
      BY <1>2, <1>3, <1>5
    <2>3. payload'[p] = c
      BY <1>2, <1>3, <2>1, <2>2, SubSeqFull
    <2>4. \A q \in Suvlets \ {p} : Other(q)
      BY <1>1, <2>1 DEF Other, TypeInv, TypeOK
    <2>5. pc'[p] = "idle"
      BY <2>1 DEF TypeInv, TypeOK
    <2> QED
      BY <1>1, <1>3, <2>3, <2>4, <2>5, RestTidy
  <1> QED
    BY <1>4, <1>5

LEMMA PartsJoin ==
  ASSUME NEW s \in Seq(Part), NEW t \in Seq(Part)
  PROVE  s \o t \in Seq(Part) /\ Len(s \o t) = Len(s) + Len(t)
  BY ConcatProperties

LEMMA PartsJoinInTurn ==
  ASSUME NEW s \in Seq(Part), NEW t \in Seq(Part), NEW u \in Seq(Part)
  PROVE  (s \o t) \o u = s \o (t \o u)
  BY ConcatAssociative

LEMMA PartAppended ==
  ASSUME NEW c \in Seq(Part), NEW b \in Seq(Part), NEW e \in Part
  PROVE  c \o Append(b, e) = Append(c \o b, e)
  <1> DEFINE u == <<e>>
  <1>1. u \in Seq(Part)
    OBVIOUS
  <1>2. Append(b, e) = b \o u
    BY AppendIsConcat
  <1>3. c \o b \in Seq(Part)
    BY PartsJoin
  <1>4. Append(c \o b, e) = (c \o b) \o u
    BY <1>3, AppendIsConcat
  <1> HIDE DEF u
  <1>5. c \o (b \o u) = (c \o b) \o u
    BY <1>1, PartsJoinInTurn
  <1> QED
    BY <1>2, <1>4, <1>5

\* The one process that makes a list.
LEMMA OneLists ==
  ASSUME TypeInv, Tidy, NEW p \in Suvlets, pc[p] = "list"
  PROVE  /\ \A q \in Suvlets \ {p} : ~Busy(q)
         /\ new \in Inode /\ xml # new
         /\ stream[p] \in StreamType /\ stream[p].inode = new
         /\ stream[p].off = Len(content[new])
         /\ content[new] \in Seq(Part) /\ stream[p].buf \in Seq(Part)
         /\ content[new] \o stream[p].buf = Begun(run[p])
         /\ run[p] \in Runs
  <1>1. Listing(p) /\ stream[p].inode \in Inode /\ run[p] \in Runs
    BY DEF Tidy, Own, TypeInv, TypeOK
  <1>2. new \in Inode /\ new # NoFile
    BY <1>1, SoftwareAssumption DEF Listing, Inode, Runs, NoFile, SoftwareAssumption
  <1> QED
    BY <1>1, <1>2 DEF Tidy, AtMostOne, Busy, Published, Listing, TypeInv, TypeOK, StreamType

LEMMA ListPackageTidy ==
  ASSUME TypeInv, Tidy, NEW p \in Suvlets, ListPackage(p)
  PROVE  Tidy'
  <1> DEFINE e == [run |-> run[p], part |-> "entry"]
             b == stream[p].buf
             c == content[new]
  <1>1. /\ pc[p] = "list" /\ listed' = [listed EXCEPT ![run[p]] = @ + 1]
        /\ stream' = [stream EXCEPT ![p].buf = Append(b, e)]
        /\ UNCHANGED <<pc, payload, run, leaked, fetched, xml, new, content, runs>>
    BY DEF ListPackage, fprintf, files
  <1>2. /\ \A q \in Suvlets \ {p} : ~Busy(q)
        /\ stream[p].inode = new /\ stream[p].off = Len(c) /\ c \o b = Begun(run[p])
        /\ c \in Seq(Part) /\ b \in Seq(Part) /\ run[p] \in Runs
    BY <1>1, OneLists
  <1>3. \A q \in Suvlets \ {p} : Other(q)
    BY <1>1 DEF Other, TypeInv, TypeOK
  <1>4. \A r \in Settled : listed'[r] = listed[r]
    <2>1. ASSUME NEW r \in Settled PROVE r # run[p] /\ r \in Runs
      BY <1>1, SoftwareAssumption DEF Settled, TypeInv, TypeOK, Runs, SoftwareAssumption
    <2> QED
      BY <1>1, <2>1 DEF TypeInv, TypeOK
  <1>5. e \in Part
    BY <1>2 DEF Part
  <1>6. c \o Append(b, e) = Append(c \o b, e)
    BY <1>2, <1>5, PartAppended
  <1>7. Append(Begun(run[p]), e) = Begun(run[p])'
    <2>1. /\ listed[run[p]] \in Nat /\ run' = run
          /\ listed'[run[p]] = listed[run[p]] + 1
      BY <1>1, <1>2 DEF TypeInv, TypeOK
    <2>2. Append(BegunOf(run[p], listed[run[p]]), e) = BegunOf(run[p], listed[run[p]] + 1)
      BY <1>2, <2>1, BegunNext
    <2> HIDE DEF e
    <2> QED
      BY <2>1, <2>2 DEF Begun
  <1>8. /\ stream'[p].inode = stream[p].inode /\ stream'[p].off = stream[p].off
        /\ stream'[p].buf = Append(b, e)
    BY <1>1 DEF TypeInv, TypeOK
  <1>9. content' = content /\ new' = new /\ pc' = pc /\ run' = run
    BY <1>1
  <1> HIDE DEF b, e
  <1>10. Listing(p)'
    <2>1. content'[new'] \o stream'[p].buf = Begun(run[p])'
      BY <1>2, <1>6, <1>7, <1>8, <1>9
    <2> QED
      BY <1>2, <1>8, <1>9, <2>1 DEF Listing
  <1>11. fetched'[p] => payload'[p] \in Finished'
    <2>1. runs' \in Nat /\ runs <= runs'
      BY <1>1 DEF TypeInv, TypeOK
    <2>2. Finished \subseteq Finished'
      BY <1>1, <1>3, <1>4, <2>1, FinishedStays
    <2> QED
      BY <1>1, <2>2 DEF Tidy, Own, Returned
  <1>12. Own(p)'
    BY <1>1, <1>10, <1>11 DEF Own, Renaming, Fetching, Returned
  <1>13. \A q \in Suvlets \ {p} : pc[q] # "list"
    BY <1>2 DEF Busy
  <1> QED
    BY <1>1, <1>3, <1>4, <1>12, <1>13, StepTidy

\* The lister writes to its file, which no other process reads.
LEMMA OthersFiles ==
  ASSUME TypeInv, Tidy, NEW p \in Suvlets, pc[p] = "list",
         content' = [content EXCEPT ![new] = content'[new]]
  PROVE  /\ xml # NoFile => content'[xml] = content[xml]
         /\ \A q \in Suvlets \ {p} :
              /\ pc[q] \in {"list", "fetch"} => content'[stream[q].inode] = content[stream[q].inode]
              /\ pc[q] # "rename" /\ pc[q] # "list"
  <1>1. xml # new /\ (xml # NoFile => xml \in Inode)
    BY OneLists DEF TypeInv, TypeOK
  <1>2. ASSUME NEW q \in Suvlets \ {p}
        PROVE  /\ pc[q] = "fetch" => stream[q].inode # new /\ stream[q].inode \in Inode
               /\ pc[q] # "rename" /\ pc[q] # "list"
    BY OneLists DEF Busy, Tidy, Own, Fetching, TypeInv
  <1> QED
    BY <1>1, <1>2 DEF TypeInv, TypeOK

\* Without a mishap the disk takes everything.
LEMMA NothingLost ==
  ASSUME NEW s, s.buf \in Seq(Part), NEW n \in 0 .. Len(s.buf), FlushedUpTo(s, n), mishaps' = {}
  PROVE  n = Len(s.buf) /\ content' = Flushed(s, Len(s.buf))
  <1>1. ~(n < Len(s.buf))
    <2>1. "full" \notin mishaps'
      OBVIOUS
    <2> QED
      BY <2>1 DEF FlushedUpTo
  <1>2. Len(s.buf) \in Nat
    OBVIOUS
  <1>3. n = Len(s.buf)
    BY <1>1, <1>2
  <1> QED
    BY <1>3 DEF FlushedUpTo

LEMMA FlushTidy ==
  ASSUME TypeInv, Tidy, NEW p \in Suvlets, Flush(p), mishaps' = {}
  PROVE  Tidy'
  <1> DEFINE b == stream[p].buf
  <1>1. PICK n \in 0 .. Len(b) :
            /\ FlushedUpTo(stream[p], n)
            /\ stream' = [stream EXCEPT ![p].off = @ + n, ![p].buf = <<>>]
    BY DEF Flush
  <1>2. /\ pc[p] = "list"
        /\ UNCHANGED <<pc, payload, run, leaked, fetched, xml, new, listed, runs>>
    BY DEF Flush
  <1>3. /\ new \in Inode /\ stream[p] \in StreamType /\ stream[p].inode = new
        /\ stream[p].off = Len(content[new]) /\ content[new] \o b = Begun(run[p])
        /\ content[new] \in Seq(Part) /\ b \in Seq(Part)
    BY <1>2, OneLists
  <1>4. n = Len(b) /\ content' = Flushed(stream[p], Len(b))
    BY <1>1, <1>3, NothingLost
  <1>5. content' = [content EXCEPT ![new] = @ \o b] /\ content'[new] = content[new] \o b
    BY <1>3, <1>4, FlushedAtTheEnd
  <1>6. content' = [content EXCEPT ![new] = content'[new]]
    BY <1>5
  <1>7. \A q \in Suvlets \ {p} : Other(q)
    BY <1>1, <1>2 DEF Other, TypeInv, TypeOK
  <1>8. /\ stream'[p].inode = new /\ stream'[p].off = Len(content[new]) + Len(b)
        /\ stream'[p].buf = <<>>
    BY <1>1, <1>3, <1>4 DEF TypeInv, TypeOK
  <1>9. Len(content'[new]) = Len(content[new]) + Len(b) /\ content'[new] \o <<>> = content'[new]
    <2> HIDE DEF b
    <2>1. content'[new] \in Seq(Part) /\ Len(content'[new]) = Len(content[new]) + Len(b)
      BY <1>3, <1>5, PartsJoin
    <2> QED
      BY <2>1, ConcatEmptySeq
  <1>10. Begun(run[p])' = Begun(run[p])
    BY <1>2 DEF Begun
  <1>11. Listing(p)'
    BY <1>2, <1>3, <1>5, <1>8, <1>9, <1>10 DEF Listing
  <1>12. Returned(p)'
    <2>1. runs' \in Nat /\ runs <= runs'
      BY <1>2 DEF TypeInv, TypeOK
    <2>2. Finished \subseteq Finished'
      BY <1>2, <1>7, <2>1, FinishedStays
    <2> QED
      BY <1>2, <2>2 DEF Tidy, Own, Returned
  <1>13. Own(p)'
    BY <1>2, <1>11, <1>12 DEF Own, Renaming, Fetching
  <1> QED
    BY <1>2, <1>6, <1>7, <1>13, OthersFiles, StepTidy

LEMMA CloseListTidy ==
  ASSUME TypeInv, Tidy, NEW p \in Suvlets, CloseList(p), mishaps' = {}
  PROVE  Tidy'
  <1> DEFINE e == [run |-> run[p], part |-> "tail"]
             s == [stream[p] EXCEPT !.buf = Append(@, e)]
  <1>1. PICK n \in 0 .. Len(s.buf) : FlushedUpTo(s, n)
    BY DEF CloseList
  <1>2. /\ pc[p] = "list" /\ pc' = [pc EXCEPT ![p] = "rename"]
        /\ stream' = [stream EXCEPT ![p] = Closed]
        /\ UNCHANGED <<payload, run, leaked, fetched, xml, new, listed, runs>>
    BY DEF CloseList
  <1>3. /\ new \in Inode /\ stream[p] \in StreamType /\ stream[p].inode = new
        /\ stream[p].off = Len(content[new]) /\ content[new] \o stream[p].buf = Begun(run[p])
        /\ content[new] \in Seq(Part) /\ stream[p].buf \in Seq(Part) /\ run[p] \in Runs
        /\ \A q \in Suvlets \ {p} : ~Busy(q)
    BY <1>2, OneLists
  <1>4. e \in Part
    BY <1>3 DEF Part
  <1>5. /\ s \in StreamType /\ s.inode = new /\ s.off = Len(content[new])
        /\ s.buf = Append(stream[p].buf, e) /\ s.buf \in Seq(Part)
    <2> HIDE DEF e
    <2>1. Append(stream[p].buf, e) \in Seq(Part)
      BY <1>3, <1>4, AppendProperties
    <2> QED
      BY <1>3, <2>1 DEF StreamType
  <1> HIDE DEF s
  <1>6. content' = Flushed(s, Len(s.buf))
    BY <1>1, <1>5, NothingLost
  <1>7. content' = [content EXCEPT ![new] = @ \o s.buf] /\ content'[new] = content[new] \o s.buf
    BY <1>3, <1>5, <1>6, FlushedAtTheEnd
  <1>8. content'[new] = List(run[p])
    <2>1. content[new] \o s.buf = Append(content[new] \o stream[p].buf, e)
      BY <1>3, <1>4, <1>5, PartAppended
    <2> QED
      BY <1>3, <1>7, <2>1, BegunEnds
  <1>9. \A q \in Suvlets \ {p} : Other(q)
    BY <1>2 DEF Other, TypeInv, TypeOK
  <1>10. pc'[p] = "rename" /\ \A q \in Suvlets : pc'[q] # "list"
    BY <1>2, <1>3, <1>9 DEF Busy, Other, TypeInv, TypeOK
  <1>11. run[p] \in Settled'
    <2>1. run[p] \in 1 .. runs'
      BY <1>2, <1>3, SoftwareAssumption DEF TypeInv, TypeOK, Runs, SoftwareAssumption
    <2> QED
      BY <1>10, <2>1 DEF Settled
  <1>12. content'[new] \in Finished'
    <2>1. List(run[p])' = List(run[p])
      BY <1>2 DEF List
    <2>2. List(run[p])' \in Finished'
      BY <1>2, <1>11 DEF Finished
    <2> QED
      BY <1>8, <2>1, <2>2
  <1>13. Renaming(p)'
    BY <1>2, <1>3, <1>12, SoftwareAssumption
       DEF Renaming, Inode, Runs, NoFile, SoftwareAssumption
  <1>14. Returned(p)'
    <2>1. runs' \in Nat /\ runs <= runs'
      BY <1>2 DEF TypeInv, TypeOK
    <2>2. Finished \subseteq Finished'
      BY <1>2, <1>9, <1>10, <2>1, FinishedStays
    <2> QED
      BY <1>2, <2>2 DEF Tidy, Own, Returned
  <1>15. Own(p)'
    BY <1>10, <1>13, <1>14 DEF Own, Listing, Fetching
  <1>16. content' = [content EXCEPT ![new] = content'[new]]
    BY <1>7
  <1> QED
    BY <1>2, <1>9, <1>10, <1>15, <1>16, OthersFiles, StepTidy

LEMMA ExitFlushTidy ==
  ASSUME TypeInv, Tidy, NEW p \in Suvlets, ExitFlush(p), mishaps' = {}
  PROVE  Tidy'
  <1>1. CASE leaked[p] = <<>>
    <2>1. Fresh(p) /\ UNCHANGED <<files, listed, runs>>
      BY <1>1 DEF ExitFlush, files
    <2>2. /\ pc'[p] = "idle" /\ ~fetched'[p]
          /\ \A q \in Suvlets \ {p} : Other(q)
      BY <2>1 DEF Fresh, Other, TypeInv, TypeOK
    <2> QED
      BY <2>1, <2>2, RestTidy
  <1>2. CASE leaked[p] # <<>>
    <2> DEFINE s == Head(leaked[p])
    <2>1. /\ pc[p] = "exit" /\ content' = Flushed(s, Len(s.buf))
          /\ s.buf = <<>> \/ s.inode \notin Wanted
          /\ leaked' = [leaked EXCEPT ![p] = Tail(@)]
          /\ UNCHANGED <<pc, payload, run, stream, fetched, xml, new, listed, runs>>
      <3>1. "leftover" \notin mishaps'
        OBVIOUS
      <3> QED
        BY <1>2, <3>1 DEF ExitFlush
    <2>2. s \in StreamType
      BY <1>2, HeadTailProperties DEF TypeInv
    <2> HIDE DEF s
    <2>3. \A i \in Wanted \cap Inode : content'[i] = content[i]
      <3>1. CASE s.buf = <<>>
        <4>1. SubSeq(s.buf, 1, Len(s.buf)) = <<>>
          BY <3>1, SubSeqEmpty
        <4>2. ASSUME s.inode \in Inode
              PROVE  Overwritten(content[s.inode], s.off, <<>>) = content[s.inode]
          BY <2>2, <4>2, NothingWritten DEF StreamType, TypeInv, TypeOK
        <4> QED
          BY <2>1, <4>1, <4>2 DEF Flushed, TypeInv, TypeOK
      <3>2. CASE s.inode \notin Wanted
        BY <2>1, <3>2 DEF Flushed, TypeInv, TypeOK
      <3> QED
        BY <2>1, <3>1, <3>2
    <2>4. xml # NoFile => content'[xml] = content[xml]
      BY <2>3 DEF Wanted, TypeInv, TypeOK
    <2>5. ASSUME NEW q \in Suvlets
          PROVE  /\ pc[q] \in {"list", "fetch"} => content'[stream[q].inode] = content[stream[q].inode]
                 /\ pc[q] = "rename" => content'[new] = content[new]
      <3>1. pc[q] \in {"list", "fetch"} => stream[q].inode \in Wanted \cap Inode
        BY DEF Wanted, TypeInv
      <3>2. pc[q] = "rename" => new \in Wanted \cap Inode
        BY DEF Wanted, TypeInv, TypeOK, Tidy, Own, Renaming
      <3> QED
        BY <2>3, <3>1, <3>2
    <2>6. \A q \in Suvlets \ {p} : Other(q)
      BY <2>1 DEF Other, TypeInv, TypeOK
    <2>7. Own(p)'
      <3>1. runs' \in Nat /\ runs <= runs'
        BY <2>1 DEF TypeInv, TypeOK
      <3>2. Finished \subseteq Finished'
        BY <2>1, <2>6, <3>1, FinishedStays
      <3>3. Returned(p)'
        BY <2>1, <3>2 DEF Tidy, Own, Returned
      <3> QED
        BY <2>1, <3>3 DEF Own, Listing, Renaming, Fetching
    <2> QED
      BY <2>1, <2>4, <2>5, <2>6, <2>7, StepTidy
  <1> QED
    BY <1>1, <1>2

\* A process begins a list; nobody else makes one.
LEMMA CreateTidy ==
  ASSUME TypeInv, Tidy, NEW p \in Suvlets, CreatePackageList(p), mishaps' = {}
  PROVE  Tidy'
  <1> DEFINE i == IF new = NoFile THEN NewInode ELSE new
             h == [run |-> runs + 1, part |-> "head"]
  <1>1. /\ runs < MaxRuns /\ runs' = runs + 1
        /\ run' = [run EXCEPT ![p] = runs + 1]
        /\ stream' = [stream EXCEPT ![p] = [inode |-> i, off |-> 0, buf |-> <<h>>]]
        /\ new' = i /\ content' = [content EXCEPT ![i] = <<>>]
        /\ pc' = [pc EXCEPT ![p] = "list"]
        /\ fetched' = [fetched EXCEPT ![p] = FALSE]
        /\ UNCHANGED <<payload, leaked, xml, listed>>
    BY DEF CreatePackageList
  <1>2. \A q \in Suvlets : ~Busy(q)
    <2>1. "overlap" \notin mishaps'
      OBVIOUS
    <2> QED
      BY <2>1 DEF CreatePackageList, Busy
  <1>3. runs \in Nat /\ runs + 1 \in Runs /\ h \in Part
    BY <1>1, SoftwareAssumption DEF TypeInv, TypeOK, Runs, Part, SoftwareAssumption
  <1>4. i \in Inode /\ (i \notin InUse \/ i = new)
    BY <1>1, NewInodeIsNew DEF TypeInv, TypeOK
  <1>5. xml # NoFile => i # xml
    BY <1>4 DEF InUse, Tidy, Published
  <1>6. ASSUME NEW q \in Suvlets, pc[q] = "fetch"
        PROVE  i # stream[q].inode
    <2>1. stream[q].inode \in InUse
      BY DEF InUse, Streams
    <2>2. stream[q].inode # new
      BY <1>6 DEF Tidy, Own, Fetching
    <2> QED
      BY <1>4, <2>1, <2>2
  <1> HIDE DEF i, h
  <1>7. \A q \in Suvlets \ {p} : Other(q)
    BY <1>1 DEF Other, TypeInv, TypeOK
  <1>8. /\ pc'[p] = "list" /\ run'[p] = runs + 1 /\ ~fetched'[p]
        /\ stream'[p] = [inode |-> i, off |-> 0, buf |-> <<h>>]
        /\ content'[i] = <<>>
        /\ \A j \in Inode : j # i => content'[j] = content[j]
    BY <1>1, <1>4 DEF TypeInv, TypeOK
  <1>9. Finished \subseteq Finished'
    <2>1. runs' \in Nat /\ runs <= runs' /\ run'[p] > runs
      BY <1>1, <1>3, <1>8
    <2> QED
      BY <1>1, <1>7, <2>1, FinishedStays
  <1>10. AtMostOne'
    BY <1>2, <1>7 DEF AtMostOne, Busy, Other
  <1>11. Published'
    BY <1>1, <1>5, <1>8, <1>9 DEF Tidy, Published, TypeInv, TypeOK
  <1>12. Listing(p)'
    <2>1. listed'[runs + 1] = 0
      BY <1>1, <1>3 DEF TypeInv
    <2>2. Begun(run[p])' = <<h>>
      BY <1>3, <1>8, <2>1, BegunFirst DEF Begun, h
    <2>3. <<>> \o <<h>> = <<h>> /\ Len(<<>>) = 0
      <3>1. <<h>> \in Seq(Part)
        BY <1>3
      <3> QED
        BY <3>1, ConcatEmptySeq
    <2>4. /\ stream'[p].inode = i /\ stream'[p].off = 0 /\ stream'[p].buf = <<h>>
      BY <1>8
    <2>5. content'[new'] = <<>>
      BY <1>1, <1>8
    <2>6. content'[new'] \o stream'[p].buf = <<h>>
      BY <2>3, <2>4, <2>5, Zenon
    <2>7. stream'[p].inode = new' /\ stream'[p].off = Len(content'[new'])
      BY <1>1, <2>3, <2>4, <2>5, Zenon
    <2>8. content'[new'] \o stream'[p].buf = Begun(run[p])'
      BY <2>2, <2>6
    <2> QED
      BY <2>7, <2>8, Zenon DEF Listing
  <1>13. Own(p)'
    BY <1>8, <1>12 DEF Own, Renaming, Fetching, Returned
  <1>14. ASSUME NEW q \in Suvlets \ {p} PROVE Own(q)'
    <2>1. Own(q) /\ Other(q) /\ ~Busy(q)
      BY <1>2, <1>7 DEF Tidy
    <2>2. Fetching(q)'
      <3>1. pc[q] = "fetch" => stream[q].inode \in Inode /\ stream[q].inode # i
        BY <1>6 DEF TypeInv
      <3> QED
        BY <1>1, <1>8, <1>9, <2>1, <3>1 DEF Own, Fetching, Other
    <2>3. Returned(q)'
      BY <1>9, <2>1 DEF Own, Returned, Other
    <2> QED
      BY <2>1, <2>2, <2>3 DEF Own, Listing, Renaming, Busy, Other
  <1> QED
    BY <1>10, <1>11, <1>13, <1>14 DEF Tidy

LEMMA RenameTidy ==
  ASSUME TypeInv, Tidy, NEW p \in Suvlets, Rename(p)
  PROVE  Tidy'
  <1>1. /\ pc[p] = "rename" /\ pc' = [pc EXCEPT ![p] = "idle"]
        /\ new # NoFile /\ content[new] \in Finished
        /\ xml' = new /\ new' = NoFile
        /\ run' = [run EXCEPT ![p] = 0]
        /\ UNCHANGED <<payload, stream, leaked, fetched, content, listed, runs>>
    BY DEF Rename, Tidy, Own, Renaming
  <1>2. \A q \in Suvlets \ {p} : Other(q) /\ ~Busy(q)
    BY <1>1 DEF Other, Busy, Tidy, AtMostOne, TypeInv, TypeOK
  <1>3. pc'[p] = "idle"
    BY <1>1 DEF TypeInv, TypeOK
  <1>4. Finished \subseteq Finished'
    <2>1. runs' \in Nat /\ runs <= runs'
      BY <1>1 DEF TypeInv, TypeOK
    <2> QED
      BY <1>1, <1>2, <1>3, <2>1, FinishedStays
  <1>5. AtMostOne'
    BY <1>2, <1>3 DEF AtMostOne, Busy, Other
  <1>6. Published'
    BY <1>1, <1>4 DEF Published
  <1>7. ASSUME NEW q \in Suvlets PROVE Own(q)'
    <2>1. Own(q)
      BY DEF Tidy
    <2>2. ~Busy(q)'
      BY <1>2, <1>3 DEF Busy, Other
    <2>3. pc'[q] = "fetch" => pc[q] = "fetch" /\ stream[q].inode \in Inode
      BY <1>2, <1>3 DEF Other, TypeInv
    <2>4. NoFile \notin Inode
      BY SoftwareAssumption DEF Inode, Runs, NoFile, SoftwareAssumption
    <2>5. Fetching(q)'
      BY <1>1, <1>4, <2>1, <2>3, <2>4 DEF Own, Fetching
    <2>6. Returned(q)'
      BY <1>1, <1>4, <2>1 DEF Own, Returned
    <2> QED
      BY <2>2, <2>5, <2>6 DEF Own, Listing, Renaming, Busy
  <1> QED
    BY <1>5, <1>6, <1>7 DEF Tidy

-----------------------------------------------------------------------------

ListInv == mishaps = {} => Tidy

LEMMA ListInit == Init => ListInv
  BY DEF Init, ListInv, Tidy, AtMostOne, Busy, Published, Own, Listing, Renaming,
         Fetching, Returned

\* No step takes a mishap back.
LEMMA MishapsStay ==
  ASSUME NEW p \in Suvlets, Step(p), mishaps' = {}
  PROVE  mishaps = {}
  <1>1. mishaps \subseteq mishaps'
    <2>1. CASE Flush(p) \/ CloseList(p)
      BY <2>1 DEF Flush, CloseList, FlushedUpTo
    <2>2. CASE CreatePackageList(p)
      BY <2>2 DEF CreatePackageList
    <2>3. CASE ExitFlush(p)
      BY <2>3 DEF ExitFlush
    <2> QED
      BY <2>1, <2>2, <2>3 DEF Step, ListPackage, CreateFails, Rename, FetchPackageList,
         FetchFails, FetchRead, FetchCut, RunWrapper, Destroy, Crash
  <1> QED
    BY <1>1

LEMMA ListStep == TypeInv /\ ListInv /\ [Next]_vars => ListInv'
  <1>1. ASSUME TypeInv, ListInv, NEW p \in Suvlets, Step(p), mishaps' = {} PROVE Tidy'
    <2>1. Tidy /\ ~FetchCut(p)
      BY <1>1, MishapsStay DEF ListInv, FetchCut
    <2> QED
      BY <1>1, <2>1, CreateTidy, ListPackageTidy, FlushTidy, CloseListTidy, RenameTidy,
         FetchListTidy, FetchReadTidy, RestingSteps, ExitFlushTidy DEF Step
  <1>2. ASSUME ListInv, UNCHANGED vars PROVE ListInv'
    <2>1. UNCHANGED <<pc, payload, run, stream, fetched, xml, new, content, listed, runs, mishaps>>
      BY <1>2 DEF vars, procs, files
    <2>2. Finished' = Finished
      BY <2>1 DEF Finished, Settled, List
    <2>3. \A p \in Suvlets : Begun(run[p])' = Begun(run[p])
      BY <2>1 DEF Begun
    <2>4. AtMostOne' = AtMostOne /\ Published' = Published
      BY <2>1, <2>2 DEF AtMostOne, Busy, Published
    <2>5. ASSUME NEW p \in Suvlets, Own(p) PROVE Own(p)'
      <3>1. Listing(p)'
        BY <2>1, <2>3, <2>5 DEF Own, Listing
      <3> QED
        BY <2>1, <2>2, <2>5, <3>1 DEF Own, Renaming, Fetching, Returned
    <2> QED
      BY <1>2, <2>1, <2>4, <2>5 DEF ListInv, Tidy
  <1> QED
    BY <1>1, <1>2 DEF Next, ListInv

LEMMA ListAlways == Spec => []ListInv
  BY TypeAlways, ListInit, ListStep, PTL DEF Spec

\* packages.xml is the whole list of one run, wherever runs fail and suvlets
\* end, as long as there is no mishap: the rename publishes what fclose wrote.
THEOREM ListIsWhole == Spec => []ListWhole
  <1>1. TypeInv /\ ListInv => ListWhole
    BY FinishedIsWhole DEF ListInv, Tidy, Published, ListWhole
  <1> QED
    BY <1>1, TypeAlways, ListAlways, PTL

\* So is what FetchPackageList returns, whatever is published while it reads.
THEOREM FetchIsWhole == Spec => []FetchWhole
  <1>1. TypeInv /\ ListInv => FetchWhole
    BY FinishedIsWhole DEF ListInv, Tidy, Own, Returned, FetchWhole
  <1> QED
    BY <1>1, TypeAlways, ListAlways, PTL
=============================================================================
