------------------------------ MODULE Software ------------------------------
(***************************************************************************)
(* The Software suvlet, src/suvlets/Software/remote/Software.c, as several *)
(* processes of it in one directory: CreatePackageList writes              *)
(* packages.xml.new and renames it to packages.xml, FetchPackageList reads *)
(* packages.xml into the static array payload, and the other calls append  *)
(* what a program says to the same array.                                  *)
(*                                                                         *)
(* A file is a sequence of parts: the head, the entries and the tail of a  *)
(* list, each known by the run that wrote it.  All parts count as equally  *)
(* long.  A stream has a buffer, an offset and an inode; a run that fails  *)
(* leaves its stream open, and exit() writes what its buffer still holds.  *)
(*                                                                         *)
(* Not modelled: that payload is longer than its array, and that no        *)
(* descriptor is left because no list that was fetched is ever closed;     *)
(* any fopen may fail.                                                     *)
(***************************************************************************)
EXTENDS Integers, Sequences, FiniteSets

CONSTANTS
    Suvlets,     \* the processes
    MaxRuns,     \* bound: calls of CreatePackageList
    MaxLines,    \* bound: lines of "rpm -qa" or "ls"
    Room         \* bound: parts that payload takes

ASSUME SoftwareAssumption ==
    /\ MaxRuns \in Nat /\ MaxLines \in Nat
    /\ Room \in Nat /\ MaxLines + 2 <= Room

Runs == 1 .. MaxRuns
Part == [run : Runs \cup {0}, part : {"head", "entry", "tail", "status", "hole"}]

\* A run makes at most one file.
Inode == Runs
NoFile == 0

VARIABLES
    pc,       \* of a process: "idle", "list", "rename", "fetch" or "exit"
    payload,  \* its array
    run,      \* the run of CreatePackageList it is in, or 0
    stream,   \* its package_xml, of CreatePackageList or FetchPackageList
    leaked,   \* streams of runs that failed, the latest first
    fetched,  \* payload is what FetchPackageList returned
    xml,      \* the inode that packages.xml names
    new,      \* the inode that packages.xml.new names
    content,  \* of the inodes
    listed,   \* how many lines the program of a run wrote
    runs,     \* how many runs were begun
    mishaps   \* "full", "overlap", "leftover" and "unread", see below

procs == <<pc, payload, run, stream, leaked, fetched>>
files == <<xml, new, content>>
vars == <<procs, files, listed, runs, mishaps>>

Closed == [inode |-> NoFile, off |-> 0, buf |-> <<>>]

Init ==
    /\ pc = [p \in Suvlets |-> "idle"]
    /\ payload = [p \in Suvlets |-> <<>>]
    /\ run = [p \in Suvlets |-> 0]
    /\ stream = [p \in Suvlets |-> Closed]
    /\ leaked = [p \in Suvlets |-> <<>>]
    /\ fetched = [p \in Suvlets |-> FALSE]
    /\ xml = NoFile /\ new = NoFile
    /\ content = [i \in Inode |-> <<>>]
    /\ listed = [r \in Runs |-> 0]
    /\ runs = 0 /\ mishaps = {}

-----------------------------------------------------------------------------
(* The C library and the file system.                                      *)

\* Parts written at an offset, over what is there; a file that was truncated
\* since gets a hole before them.
Overwritten(old, off, parts) ==
    LET end == IF parts = <<>> THEN 0 ELSE off + Len(parts)
    IN  [i \in 1 .. IF Len(old) < end THEN end ELSE Len(old) |->
            CASE i \in off + 1 .. end -> parts[i - off]
              [] i \in DOMAIN old /\ i \notin off + 1 .. end -> old[i]
              [] OTHER -> [run |-> 0, part |-> "hole"]]

Streams == {stream[p] : p \in Suvlets}
               \cup UNION {{leaked[p][i] : i \in DOMAIN leaked[p]} : p \in Suvlets}

InUse == {xml, new} \cup {s.inode : s \in Streams}

NewInode == CHOOSE i \in Inode \ InUse : \A j \in Inode \ InUse : i <= j

fprintf(p, part) ==
    stream' = [stream EXCEPT ![p].buf = Append(@, [run |-> run[p], part |-> part])]

\* What the buffer holds goes to the disk; a full disk takes the beginning,
\* and the rest is lost.
Flushed(s, n) == [content EXCEPT ![s.inode] = Overwritten(@, s.off, SubSeq(s.buf, 1, n))]

FlushedUpTo(s, n) ==
    /\ content' = Flushed(s, n)
    /\ mishaps' = IF n < Len(s.buf) THEN mishaps \cup {"full"} ELSE mishaps

\* The buffer of a stream is written whenever it is full.
Flush(p) ==
    /\ pc[p] = "list" /\ stream[p].buf # <<>>
    /\ \E n \in 0 .. Len(stream[p].buf) :
        /\ FlushedUpTo(stream[p], n)
        /\ stream' = [stream EXCEPT ![p].off = @ + n, ![p].buf = <<>>]
    /\ UNCHANGED <<pc, payload, run, leaked, fetched, xml, new, listed, runs>>

-----------------------------------------------------------------------------
(* Software_CreatePackageList.                                             *)

\* fopen "w" truncates the file that is there, which a run that failed left, or
\* which another process has not renamed yet: that is the mishap "overlap".
CreatePackageList(p) ==
    /\ pc[p] = "idle" /\ runs < MaxRuns
    /\ runs' = runs + 1
    /\ run' = [run EXCEPT ![p] = runs']
    /\ LET i == IF new = NoFile THEN NewInode ELSE new
           head == [run |-> runs', part |-> "head"]
       IN  /\ new' = i
           /\ content' = [content EXCEPT ![i] = <<>>]
           /\ stream' = [stream EXCEPT ![p] = [inode |-> i, off |-> 0, buf |-> <<head>>]]
           /\ mishaps' = IF \E q \in Suvlets : pc[q] \in {"list", "rename"}
                           THEN mishaps \cup {"overlap"} ELSE mishaps
    /\ pc' = [pc EXCEPT ![p] = "list"]
    /\ fetched' = [fetched EXCEPT ![p] = FALSE]
    /\ UNCHANGED <<payload, leaked, xml, listed>>

\* A line of the program, and what is known of that package.  When rpm answers
\* nothing, line1 still holds the answer before.
ListPackage(p) ==
    /\ pc[p] = "list" /\ listed[run[p]] < MaxLines
    /\ listed' = [listed EXCEPT ![run[p]] = @ + 1]
    /\ fprintf(p, "entry")
    /\ UNCHANGED <<pc, payload, run, leaked, fetched, files, runs, mishaps>>

\* Mutant: what there is of the list is published.
CreateFailsRenames(p) ==
    /\ pc[p] = "list"
    /\ content' = Flushed(stream[p], Len(stream[p].buf))
    /\ stream' = [stream EXCEPT ![p] = Closed]
    /\ pc' = [pc EXCEPT ![p] = "rename"]
    /\ UNCHANGED <<payload, run, leaked, fetched, xml, new, listed, runs, mishaps>>

\* The program cannot be started, or an answer has not five words: "return -1"
\* with the stream open.
CreateFails(p) ==
    /\ pc[p] = "list"
    /\ leaked' = [leaked EXCEPT ![p] = <<stream[p]>> \o @]
    /\ stream' = [stream EXCEPT ![p] = Closed]
    /\ pc' = [pc EXCEPT ![p] = "idle"]
    /\ run' = [run EXCEPT ![p] = 0]
    /\ UNCHANGED <<payload, fetched, files, listed, runs, mishaps>>

\* Mutant: the stream is not closed.
CloseListNot(p) ==
    /\ pc[p] = "list"
    /\ fprintf(p, "tail")
    /\ pc' = [pc EXCEPT ![p] = "rename"]
    /\ UNCHANGED <<payload, run, leaked, fetched, files, listed, runs, mishaps>>

\* The tail, and fclose; its result is not looked at.
CloseList(p) ==
    /\ pc[p] = "list"
    /\ LET s == [stream[p] EXCEPT !.buf = Append(@, [run |-> run[p], part |-> "tail"])]
       IN  \E n \in 0 .. Len(s.buf) : FlushedUpTo(s, n)
    /\ stream' = [stream EXCEPT ![p] = Closed]
    /\ pc' = [pc EXCEPT ![p] = "rename"]
    /\ UNCHANGED <<payload, run, leaked, fetched, xml, new, listed, runs>>

\* rename fails when another process has renamed the file.
Rename(p) ==
    /\ pc[p] = "rename"
    /\ xml' = IF new = NoFile THEN xml ELSE new
    /\ new' = NoFile
    /\ pc' = [pc EXCEPT ![p] = "idle"]
    /\ run' = [run EXCEPT ![p] = 0]
    /\ UNCHANGED <<payload, stream, leaked, fetched, content, listed, runs, mishaps>>

-----------------------------------------------------------------------------
(* The calls that return payload.                                          *)

\* Mutant: payload is not emptied.
FetchPackageListAppends(p) ==
    /\ pc[p] = "idle" /\ xml # NoFile
    /\ stream' = [stream EXCEPT ![p] = [Closed EXCEPT !.inode = xml]]
    /\ pc' = [pc EXCEPT ![p] = "fetch"]
    /\ fetched' = [fetched EXCEPT ![p] = FALSE]
    /\ UNCHANGED <<payload, run, leaked, files, listed, runs, mishaps>>

FetchPackageList(p) ==
    /\ pc[p] = "idle" /\ xml # NoFile
    /\ payload' = [payload EXCEPT ![p] = <<>>]
    /\ stream' = [stream EXCEPT ![p] = [Closed EXCEPT !.inode = xml]]
    /\ pc' = [pc EXCEPT ![p] = "fetch"]
    /\ fetched' = [fetched EXCEPT ![p] = FALSE]
    /\ UNCHANGED <<run, leaked, files, listed, runs, mishaps>>

\* No list, or no descriptor: payload is emptied, "error" is returned.
FetchFails(p) ==
    /\ pc[p] = "idle"
    /\ payload' = [payload EXCEPT ![p] = <<>>]
    /\ fetched' = [fetched EXCEPT ![p] = FALSE]
    /\ UNCHANGED <<pc, run, stream, leaked, files, listed, runs, mishaps>>

\* The next parts of the file.  At its end the stream stays open, unused.
FetchRead(p) ==
    /\ pc[p] = "fetch"
    /\ LET s == stream[p]
           c == content[s.inode]
       IN  IF s.off < Len(c)
             THEN \E n \in s.off + 1 .. Len(c) :
                    /\ Len(payload[p]) + n - s.off <= Room
                    /\ payload' = [payload EXCEPT ![p] = @ \o SubSeq(c, s.off + 1, n)]
                    /\ stream' = [stream EXCEPT ![p].off = n]
                    /\ UNCHANGED <<pc, fetched>>
             ELSE /\ pc' = [pc EXCEPT ![p] = "idle"]
                  /\ fetched' = [fetched EXCEPT ![p] = TRUE]
                  /\ stream' = [stream EXCEPT ![p] = Closed]
                  /\ UNCHANGED payload
    /\ UNCHANGED <<run, leaked, files, listed, runs, mishaps>>

\* fgets returns NULL for an error as well: the rest of the file is left out,
\* and the list is returned all the same.
FetchCut(p) ==
    /\ pc[p] = "fetch" /\ stream[p].off < Len(content[stream[p].inode])
    /\ pc' = [pc EXCEPT ![p] = "idle"]
    /\ fetched' = [fetched EXCEPT ![p] = TRUE]
    /\ stream' = [stream EXCEPT ![p] = Closed]
    /\ mishaps' = mishaps \cup {"unread"}
    /\ UNCHANGED <<payload, run, leaked, files, listed, runs>>

\* InstallPKG, UnInstallPKG and ResetPKGDir: a line of software-wrapper goes
\* behind whatever payload holds.
RunWrapper(p) ==
    /\ pc[p] = "idle" /\ Len(payload[p]) < Room
    /\ payload' = [payload EXCEPT ![p] = Append(@, [run |-> 0, part |-> "status"])]
    /\ fetched' = [fetched EXCEPT ![p] = FALSE]
    /\ UNCHANGED <<pc, run, stream, leaked, files, listed, runs, mishaps>>

-----------------------------------------------------------------------------
(* The end of a process; another one takes its place.                      *)

Fresh(p) ==
    /\ pc' = [pc EXCEPT ![p] = "idle"]
    /\ payload' = [payload EXCEPT ![p] = <<>>]
    /\ run' = [run EXCEPT ![p] = 0]
    /\ stream' = [stream EXCEPT ![p] = Closed]
    /\ leaked' = [leaked EXCEPT ![p] = <<>>]
    /\ fetched' = [fetched EXCEPT ![p] = FALSE]

\* SCL_DSUVLET: exit(0).
Destroy(p) ==
    /\ pc[p] = "idle"
    /\ pc' = [pc EXCEPT ![p] = "exit"]
    /\ UNCHANGED <<payload, run, stream, leaked, fetched, files, listed, runs, mishaps>>

\* The files that matter: the list, and what is read, written or renamed.
Wanted ==
    {xml} \cup {stream[q].inode : q \in Suvlets}
          \cup {i \in {new} : \E q \in Suvlets : pc[q] = "rename"}

\* exit() writes what a run that failed left in its buffer, wherever its file
\* is now; when that file matters it is the mishap "leftover".
ExitFlush(p) ==
    /\ pc[p] = "exit"
    /\ IF leaked[p] = <<>>
         THEN Fresh(p) /\ UNCHANGED <<content, mishaps>>
         ELSE LET s == Head(leaked[p])
              IN  /\ content' = Flushed(s, Len(s.buf))
                  /\ mishaps' = IF s.buf # <<>> /\ s.inode \in Wanted
                                  THEN mishaps \cup {"leftover"} ELSE mishaps
                  /\ leaked' = [leaked EXCEPT ![p] = Tail(@)]
                  /\ UNCHANGED <<pc, payload, run, stream, fetched>>
    /\ UNCHANGED <<xml, new, listed, runs>>

\* External, or an undefined step: pclose of NULL when a query cannot be
\* started, or of a variable that was never set when devicetype is unknown.
Crash(p) ==
    /\ pc[p] # "idle"
    /\ Fresh(p)
    /\ UNCHANGED <<files, listed, runs, mishaps>>

-----------------------------------------------------------------------------

Step(p) ==
    \/ CreatePackageList(p) \/ ListPackage(p) \/ CreateFails(p) \/ Flush(p)
    \/ CloseList(p) \/ Rename(p)
    \/ FetchPackageList(p) \/ FetchFails(p) \/ FetchRead(p) \/ FetchCut(p) \/ RunWrapper(p)
    \/ Destroy(p) \/ ExitFlush(p) \/ Crash(p)

Next == \E p \in Suvlets : Step(p)

Spec == Init /\ [][Next]_vars

-----------------------------------------------------------------------------
(* Properties.                                                             *)

TypeOK ==
    /\ pc \in [Suvlets -> {"idle", "list", "rename", "fetch", "exit"}]
    /\ payload \in [Suvlets -> Seq(Part)]
    /\ run \in [Suvlets -> Runs \cup {0}]
    /\ stream \in [Suvlets -> [inode : Inode \cup {NoFile}, off : Nat, buf : Seq(Part)]]
    /\ \A p \in Suvlets :
        /\ stream[p] # Closed <=> pc[p] \in {"list", "fetch"}
        /\ run[p] # 0 <=> pc[p] \in {"list", "rename"}
        /\ \A i \in DOMAIN leaked[p] : leaked[p][i].inode \in Inode
    /\ fetched \in [Suvlets -> BOOLEAN]
    /\ xml \in Inode \cup {NoFile} /\ new \in Inode \cup {NoFile}
    /\ content \in [Inode -> Seq(Part)]
    /\ listed \in [Runs -> 0 .. MaxLines]
    /\ runs \in 0 .. MaxRuns
    /\ mishaps \subseteq {"full", "overlap", "leftover", "unread"}

\* The list of one run, with every line its program wrote.
Whole(parts) ==
    \E r \in Runs :
        parts = [i \in 1 .. listed[r] + 2 |->
                    [run |-> r, part |-> IF i = 1 THEN "head"
                                         ELSE IF i = listed[r] + 2 THEN "tail" ELSE "entry"]]

\* packages.xml is a whole list of one run, whatever runs failed, and wherever
\* a suvlet was ended, unless the disk was full, two processes made a list at
\* the same time, or a run that failed was written out too late.
ListWhole == mishaps = {} /\ xml # NoFile => Whole(content[xml])

\* So is what FetchPackageList returns, although another process may publish
\* the next list while this one is read, and payload is used for other answers.
FetchWhole == mishaps = {} => \A p \in Suvlets : fetched[p] => Whole(payload[p])
=============================================================================
