---------------------------- MODULE DbDiffProofs ----------------------------
(* Proofs about db_diff, for any lines, any first database, any outputs and  *)
(* any way fprintf may store a line.                                         *)
EXTENDS DbDiff, SequenceTheorems, TLAPS

-----------------------------------------------------------------------------
(* get_match implements the search of FileSearch; what that says of its      *)
(* answer 0.                                                                 *)

\* Where the first line of a search ends: where start_pos will point.
FirstEnd == IF begun < Len(file) THEN begun + 1 ELSE 1

\* Nothing was read yet; at most the end of the file was met.
NotStarted ==
    /\ start_pos = 0
    /\ pos = begun \/ (begun = Len(file) /\ pos = 0)

\* The lines read so far are start_pos .. pos, and after the rewind those from
\* start_pos to the end and from the first to pos; none is the needle.  A
\* search that began with the last line does not get as far as the rewind.
Started ==
    /\ start_pos = FirstEnd
    /\ Len(file) > 0
    /\ \/ /\ start_pos <= pos
          /\ \A i \in start_pos .. pos : file[i] # needle
       \/ /\ pos < start_pos
          /\ start_pos # Len(file)
          /\ \A i \in (start_pos .. Len(file)) \cup (1 .. pos) : file[i] # needle

SearchInv ==
    /\ GetMatchTypeOK
    /\ phase = "idle" => start_pos = 0 /\ begun = 0
    /\ phase = "search" => NotStarted \/ Started
    /\ AnswerRight

LEMMA GetMatchInitInv == GetMatchInit => SearchInv
  BY DEF GetMatchInit, SearchInv, GetMatchTypeOK, AnswerRight

\* A line was read: on to the next one, or the answer of FileSearch.
LEMMA ReadLineStep ==
  ASSUME SearchInv, ReadLine
  PROVE  SearchInv' /\ [Search!Answer]_(Search!vars)
  <1> USE DEF SearchInv, GetMatchTypeOK
  <1>1. /\ phase = "search" /\ pos < Len(file) /\ pos' = pos + 1
        /\ UNCHANGED <<file, needle, begun>>
        /\ pos' \in DOMAIN file
    BY DEF ReadLine
  <1>2. CASE file[pos'] = needle /\ Answer(1) /\ UNCHANGED start_pos
    <2>1. SearchInv'
      BY <1>1, <1>2 DEF Answer, AnswerRight, Occurs
    <2>2. Search!Hit(pos')
      <3>1. CASE NotStarted
        BY <1>1, <1>2, <3>1 DEF NotStarted, Search!Hit, Search!Passed, Search!LastLineOnly
      <3>2. CASE Started
        BY <1>1, <1>2, <3>2 DEF Started, FirstEnd, Search!Hit, Search!Passed, Search!LastLineOnly
      <3>3. QED
        BY <1>1, <3>1, <3>2
    <2>3. QED
      BY <1>1, <1>2, <2>1, <2>2 DEF Answer, Search!Answer, Search!Hit
  <1>3. CASE file[pos'] # needle /\ start_pos = pos' /\ Answer(0) /\ UNCHANGED start_pos
    <2>1. Started /\ pos < start_pos
      BY <1>1, <1>3 DEF NotStarted, Started
    <2>2. /\ begun + 1 # Len(file)
          /\ pos' = IF begun < Len(file) THEN begun + 1 ELSE 1
          /\ \A i \in DOMAIN file : file[i] # needle
      BY <1>1, <1>3, <2>1 DEF Started, FirstEnd
    <2>3. SearchInv'
      BY <1>1, <1>3, <2>2 DEF Answer, AnswerRight, Occurs
    <2>4. Search!Miss(pos')
      BY <1>1, <2>1, <2>2 DEF Started, Search!Miss, Search!LastLineOnly
    <2>5. QED
      BY <1>1, <1>3, <2>3, <2>4 DEF Answer, Search!Answer
  <1>4. CASE /\ file[pos'] # needle /\ start_pos # pos'
             /\ start_pos' = IF start_pos = 0 THEN pos' ELSE start_pos
             /\ UNCHANGED <<phase, result>>
    <2>1. Started'
      <3>1. CASE NotStarted
        BY <1>1, <1>4, <3>1 DEF NotStarted, Started, FirstEnd
      <3>2. CASE Started
        BY <1>1, <1>4, <3>2 DEF Started, FirstEnd
      <3>3. QED
        BY <1>1, <3>1, <3>2
    <2>2. SearchInv'
      BY <1>1, <1>4, <2>1 DEF AnswerRight
    <2>3. UNCHANGED Search!vars
      BY <1>1, <1>4 DEF Search!vars
    <2>4. QED
      BY <2>2, <2>3
  <1>5. QED
    BY <1>2, <1>3, <1>4 DEF ReadLine

\* The end of the file: rewind, or the answer of FileSearch.
LEMMA EndOfFileStep ==
  ASSUME SearchInv, EndOfFile
  PROVE  SearchInv' /\ [Search!Answer]_(Search!vars)
  <1> USE DEF SearchInv, GetMatchTypeOK
  <1>1. /\ phase = "search" /\ pos = Len(file)
        /\ UNCHANGED <<file, needle, start_pos, begun>>
    BY DEF EndOfFile
  <1>2. CASE start_pos = pos /\ Answer(0) /\ UNCHANGED pos
    <2>1. Search!Miss(pos') /\ (Occurs(needle) => begun + 1 = Len(file))
      <3>1. CASE NotStarted
        <4>1. Len(file) = 0 /\ begun = 0 /\ pos' = 0
          BY <1>1, <1>2, <3>1 DEF NotStarted
        <4>2. DOMAIN file = {}
          BY <4>1
        <4>3. QED
          BY <1>1, <4>1, <4>2 DEF Search!Miss, Search!LastLineOnly, Occurs
      <3>2. CASE Started
        BY <1>1, <1>2, <3>2 DEF Started, FirstEnd, Search!Miss, Search!LastLineOnly, Occurs
      <3>3. QED
        BY <1>1, <3>1, <3>2
    <2>2. SearchInv'
      BY <1>1, <1>2, <2>1 DEF Answer, AnswerRight, Occurs
    <2>3. QED
      BY <1>1, <1>2, <2>1, <2>2 DEF Answer, Search!Answer
  <1>3. CASE start_pos # pos /\ pos' = 0 /\ UNCHANGED <<phase, result>>
    <2>1. (NotStarted \/ Started)'
      <3>1. CASE NotStarted
        BY <1>1, <1>3, <3>1 DEF NotStarted
      <3>2. CASE Started
        BY <1>1, <1>3, <3>2 DEF Started, FirstEnd
      <3>3. QED
        BY <1>1, <3>1, <3>2
    <2>2. SearchInv'
      BY <1>1, <1>3, <2>1 DEF AnswerRight
    <2>3. UNCHANGED Search!vars
      BY <1>1, <1>3 DEF Search!vars
    <2>4. QED
      BY <2>2, <2>3
  <1>4. QED
    BY <1>2, <1>3 DEF EndOfFile

\* Whatever a caller does, the invariant holds on, and FileSearch does the
\* same or nothing.
LEMMA GetMatchStep ==
  ASSUME SearchInv, [GetMatchNext]_gvars
  PROVE  SearchInv' /\ [Search!Next]_(Search!vars)
  <1> USE DEF SearchInv, GetMatchTypeOK
  <1>1. ASSUME NEW lines \in Seq(Lines), fopen(lines)
        PROVE  SearchInv' /\ Search!Open
    BY <1>1 DEF fopen, local, AnswerRight, Search!Open
  <1>2. ASSUME NEW n \in Lines, get_match(n)
        PROVE  SearchInv' /\ Search!Call
    BY <1>2 DEF get_match, stream, NotStarted, AnswerRight, Search!Call
  <1>3. ASSUME Return
        PROVE  SearchInv' /\ Search!Return
    BY <1>3 DEF Return, stream, AnswerRight, Search!Return
  <1>4. ASSUME Abandon
        PROVE  SearchInv' /\ Search!Abandon
    BY <1>4 DEF Abandon, AnswerRight, Search!Abandon
  <1>5. ASSUME UNCHANGED gvars
        PROVE  SearchInv' /\ UNCHANGED Search!vars
    BY <1>5 DEF gvars, stream, local, NotStarted, Started, FirstEnd, AnswerRight, Occurs,
                Search!vars
  <1>6. QED
    BY <1>1, <1>2, <1>3, <1>4, <1>5, ReadLineStep, EndOfFileStep
       DEF GetMatchNext, SearchStep, Search!Next

\* get_match is FileSearch, with the position it began at standing for the
\* position while it searches.
THEOREM SearchImplements == GetMatchSpec => Searches
  <1>1. GetMatchInit => Search!Init
    BY DEF GetMatchInit, Search!Init
  <1>2. QED
    BY <1>1, GetMatchInitInv, GetMatchStep, PTL DEF GetMatchSpec, Searches, Search!Spec

\* The answer is right, except for a 0 of a search that began with the last
\* line.
THEOREM AnswerIsRight == GetMatchSpec => []AnswerRight
  <1>1. SearchInv => AnswerRight
    BY DEF SearchInv
  <1>2. QED
    BY <1>1, GetMatchInitInv, GetMatchStep, PTL DEF GetMatchSpec

-----------------------------------------------------------------------------
(* db_diff.                                                                  *)

\* The comparison begins with the first line; a search is for the line it has
\* come to.
NeedleInv ==
    /\ pc \in {"idle", "read"} => k = 1
    /\ phase # "idle" => pc = "compare" /\ k <= Len(out) /\ needle = out[k]

\* The lines before it are in the database or in the report.
CompareInv ==
    pc = "compare" =>
        /\ disk # NoDb /\ file = disk
        /\ "buf" \notin superseded =>
              \A i \in 1 .. k - 1 : out[i] \in Range(file) \cup Range(report)

\* What is written will be accounted for when the report is returned.
WriteInv ==
    pc = "write" =>
        /\ NothingMissed
        /\ disk \in Seq(Lines)
        /\ Range(disk) \subseteq accounted \cup Told

FileInv == pc \in {"compare", "write"} => Range(file) \subseteq accounted

DbInv ==
    /\ TypeOK /\ SearchInv
    /\ NeedleInv /\ CompareInv /\ WriteInv /\ FileInv /\ DbReported

-----------------------------------------------------------------------------
(* The lines of a sequence.                                                *)

LEMMA RangeOfAppend ==
  ASSUME NEW S, NEW s \in Seq(S), NEW x \in S
  PROVE  Append(s, x) \in Seq(S) /\ Range(Append(s, x)) = Range(s) \cup {x}
  <1>1. Append(s, x) = s \o <<x>> /\ <<x>> \in Seq(S)
    BY AppendIsConcat
  <1>2. Range(<<x>>) = {x}
    BY DEF Range
  <1>3. Range(s \o <<x>>) = Range(s) \cup Range(<<x>>)
    BY <1>1, RangeConcatenation
  <1>4. Append(s, x) \in Seq(S)
    BY AppendProperties
  <1>5. QED
    BY <1>1, <1>2, <1>3, <1>4, Zenon

LEMMA RangeOfElement ==
  ASSUME NEW S, NEW s \in Seq(S), NEW i \in 1 .. Len(s)
  PROVE  s[i] \in Range(s) /\ s[i] \in S
  BY DEF Range

LEMMA RangeOfEmpty == Range(<<>>) = {}
  BY DEF Range

\* What add_line leaves of a text.
LEMMA CutType ==
  ASSUME NEW S, CutEnds \subseteq Seq(S), NEW text \in Seq(S), NEW t \in Cut(text)
  PROVE  t \in Seq(S)
  <1>1. PICK i \in 0 .. Len(text), end \in CutEnds : t = SubSeq(text, 1, i) \o end
    BY DEF Cut
  <1>2. SubSeq(text, 1, i) \in Seq(S)
    BY <1>1
  <1>3. end \in Seq(S)
    BY <1>1
  <1>4. QED
    BY <1>1, <1>2, <1>3

LEMMA CutEndsType == CutEnds \subseteq Seq(Lines \ FindErrors) /\ CutEnds \subseteq Seq(Lines)
  <1>1. Seq(Lines \ FindErrors) \subseteq Seq(Lines)
    OBVIOUS
  <1>2. QED
    BY <1>1, DbDiffAssumption, Zenon

\* A line of the output.
LEMMA AddToOut ==
  ASSUME TypeOK, NEW line \in Lines \ FindErrors, add_line("buf2", out, line)
  PROVE  /\ out' \in Seq(Lines \ FindErrors)
         /\ superseded' \subseteq {"buf", "buf2"} /\ large' \subseteq {"buf", "buf2"}
  <1>1. /\ out \in Seq(Lines \ FindErrors)
        /\ superseded \subseteq {"buf", "buf2"} /\ large \subseteq {"buf", "buf2"}
    BY DEF TypeOK
  <1>2. CASE UNCHANGED <<out, superseded, large>>
    BY <1>1, <1>2
  <1>3. CASE out' = Append(out, line) /\ UNCHANGED <<superseded, large>>
    BY <1>1, <1>3, AppendProperties
  <1>4. CASE /\ out' \in Cut(out) /\ superseded' = superseded \cup {"buf2"}
             /\ large' \in {large, large \cup {"buf2"}}
    <2>1. out' \in Seq(Lines \ FindErrors)
      BY <1>1, <1>4, CutType, CutEndsType
    <2>2. QED
      BY <1>1, <1>4, <2>1
  <1>5. QED
    BY <1>2, <1>3, <1>4 DEF add_line

\* A line of the report: it is there, or the report was cut.
LEMMA AddToReport ==
  ASSUME TypeOK, NEW line \in Lines, add_line("buf", report, line)
  PROVE  /\ report' \in Seq(Lines)
         /\ superseded' \subseteq {"buf", "buf2"} /\ large' \subseteq {"buf", "buf2"}
         /\ "buf" \notin superseded' =>
              /\ "buf" \notin superseded
              /\ Range(report') = Range(report) \cup {line}
  <1>1. /\ report \in Seq(Lines)
        /\ superseded \subseteq {"buf", "buf2"} /\ large \subseteq {"buf", "buf2"}
    BY DEF TypeOK
  <1>2. CASE "buf" \in superseded /\ UNCHANGED <<report, superseded, large>>
    BY <1>1, <1>2
  <1>3. CASE /\ "buf" \notin superseded
             /\ report' = Append(report, line) /\ UNCHANGED <<superseded, large>>
    BY <1>1, <1>3, RangeOfAppend
  <1>4. CASE /\ report' \in Cut(report) /\ superseded' = superseded \cup {"buf"}
             /\ large' \in {large, large \cup {"buf"}}
    <2>1. report' \in Seq(Lines)
      BY <1>1, <1>4, CutType, CutEndsType
    <2>2. QED
      BY <1>1, <1>4, <2>1
  <1>5. QED
    BY <1>2, <1>3, <1>4 DEF add_line

LEMMA ToldType ==
  ASSUME TypeOK
  PROVE  Told \subseteq Lines /\ Range(report) \subseteq Told
  BY RangeOfSeq DEF TypeOK, Told

-----------------------------------------------------------------------------
(* db_diff is a caller of get_match.                                       *)

LEMMA EmptyFile == <<>> \in Seq(Lines)
  OBVIOUS

LEMMA FinishCalls ==
  ASSUME NEW n, Finish(n)
  PROVE  GetMatchNext
  BY EmptyFile DEF Finish, GetMatchNext

LEMMA CallerStep ==
  ASSUME TypeOK, [Next]_vars
  PROVE  [GetMatchNext]_gvars
  <1>1. CASE NoProgram
    BY <1>1, FinishCalls DEF NoProgram
  <1>2. CASE OtherCall \/ Begin \/ ReadOutput \/ WriteLine \/ WriteFails \/ UNCHANGED vars
    BY <1>2 DEF OtherCall, Begin, ReadOutput, WriteLine, WriteFails, vars
  <1>3. CASE ProgramEnds
    BY <1>3, FinishCalls DEF ProgramEnds
  <1>4. CASE OpenDb
    <2>1. disk # NoDb => disk \in Seq(Lines)
      BY DEF TypeOK
    <2>2. QED
      BY <1>4, <2>1, FinishCalls DEF OpenDb, GetMatchNext
  <1>5. CASE NextNeedle
    <2>1. k \in 1 .. Len(out) /\ out \in Seq(Lines)
      BY <1>5 DEF NextNeedle, TypeOK
    <2>2. out[k] \in Lines
      BY <2>1
    <2>3. QED
      BY <1>5, <2>2 DEF NextNeedle, GetMatchNext
  <1>6. CASE Searching \/ Compared
    BY <1>6 DEF Searching, Compared, GetMatchNext
  <1>7. CASE Reopen \/ Done
    BY <1>7, FinishCalls DEF Reopen, Done
  <1>8. CASE Crash
    BY <1>8, EmptyFile DEF Crash, GetMatchNext
  <1>9. QED
    BY <1>1, <1>2, <1>3, <1>4, <1>5, <1>6, <1>7, <1>8 DEF Next, db_diff

-----------------------------------------------------------------------------
(* The invariant, action by action.                                        *)

LEMMA InitDbInv == Init => DbInv
  <1> SUFFICES ASSUME Init PROVE DbInv
    OBVIOUS
  <1>1. SearchInv
    BY GetMatchInitInv DEF Init
  <1>2. TypeOK
    <2>1. disk # NoDb => disk \in Seq(Lines)
      BY DbDiffAssumption DEF Init
    <2>2. accounted \subseteq Lines
      BY <2>1, RangeOfSeq DEF Init
    <2>3. disk \in Seq(Lines) \cup {NoDb}
      BY <2>1
    <2>4. QED
      BY <1>1, <2>2, <2>3 DEF Init, TypeOK, SearchInv
  <1>3. NeedleInv /\ CompareInv /\ WriteInv /\ FileInv /\ DbReported
    BY DEF Init, GetMatchInit, NeedleInv, CompareInv, WriteInv, FileInv, DbReported
  <1>4. QED
    BY <1>1, <1>2, <1>3 DEF DbInv

\* A call that ends without touching the database.
LEMMA FinishStep ==
  ASSUME DbInv, SearchInv', NEW n \in {0, 1, 2, 4, 5}, Finish(n), pc # "write",
         UNCHANGED <<disk, accounted>>
  PROVE  DbInv'
  <1>1. TypeOK'
    BY DEF DbInv, TypeOK, SearchInv, Finish, Leave, clear_buffer
  <1>2. (NeedleInv /\ CompareInv /\ WriteInv /\ FileInv)'
    BY DEF Finish, Leave, clear_buffer, fopen, local, NeedleInv, CompareInv, WriteInv, FileInv
  <1>3. DbReported'
    BY DEF DbInv, DbReported
  <1>4. QED
    BY <1>1, <1>2, <1>3 DEF DbInv

\* What a broken off line may add.
LEMMA BreakOffStep ==
  ASSUME DbInv, pc = "write", NEW unread \in SUBSET Lines, BreakOff(unread)
  PROVE  /\ disk' \in Seq(Lines)
         /\ accounted' \subseteq Lines
         /\ accounted \cup unread \subseteq accounted'
         /\ Range(disk') \subseteq accounted' \cup Told
  <1>1. /\ disk \in Seq(Lines) /\ accounted \subseteq Lines
        /\ Range(disk) \subseteq accounted \cup Told
    BY DEF DbInv, TypeOK, WriteInv
  <1>2. CASE accounted' = accounted \cup unread /\ UNCHANGED disk
    BY <1>1, <1>2
  <1>3. ASSUME k <= Len(out), NEW f \in Fragment[out[k]],
               disk' = Append(disk, f), accounted' = accounted \cup unread \cup {f}
        PROVE  /\ disk' \in Seq(Lines)
               /\ accounted' \subseteq Lines
               /\ accounted \cup unread \subseteq accounted'
               /\ Range(disk') \subseteq accounted' \cup Told
    <2>1. f \in Lines
      <3>1. out \in Seq(Lines) /\ k \in 1 .. Len(out)
        BY <1>3 DEF DbInv, TypeOK
      <3>2. QED
        BY <3>1, RangeOfElement, DbDiffAssumption
    <2>2. disk' \in Seq(Lines) /\ Range(disk') = Range(disk) \cup {f}
      BY <1>1, <1>3, <2>1, RangeOfAppend
    <2>3. QED
      BY <1>1, <1>3, <2>1, <2>2, Zenon
  <1>4. QED
    BY <1>2, <1>3, Zenon DEF BreakOff

\* Before anything is compared.
LEMMA EarlyStep ==
  ASSUME DbInv, SearchInv', NoProgram \/ OtherCall \/ Begin \/ ReadOutput \/ ProgramEnds \/ OpenDb
  PROVE  DbInv'
  <1>1. CASE NoProgram
    BY <1>1, FinishStep DEF NoProgram
  <1>2. CASE Begin
    <2>1. TypeOK'
      BY <1>2 DEF DbInv, TypeOK, SearchInv, Begin, buffers
    <2>2. QED
      BY <1>2, <2>1 DEF DbInv, Begin, buffers, gvars, local, NeedleInv, CompareInv, WriteInv, FileInv,
                        DbReported
  <1>3. CASE ReadOutput
    <2>1. TypeOK'
      <3>1. PICK line \in Lines \ FindErrors : add_line("buf2", out, line)
        BY <1>3 DEF ReadOutput
      <3>2. /\ out' \in Seq(Lines \ FindErrors)
            /\ superseded' \subseteq {"buf", "buf2"} /\ large' \subseteq {"buf", "buf2"}
        BY <3>1, AddToOut DEF DbInv
      <3>3. k' \in 1 .. Len(out') + 1
        BY <1>3, <3>2 DEF DbInv, NeedleInv, ReadOutput
      <3>4. QED
        BY <1>3, <3>2, <3>3 DEF DbInv, TypeOK, SearchInv, ReadOutput
    <2>2. QED
      BY <1>3, <2>1 DEF DbInv, ReadOutput, gvars, local, NeedleInv, CompareInv, WriteInv,
                        FileInv, DbReported
  <1>4. CASE ProgramEnds
    <2>1. CASE pc' = "open" /\ UNCHANGED <<answer, k, buffers, gvars>>
      <3>1. TypeOK'
        BY <1>4, <2>1 DEF DbInv, TypeOK, SearchInv, ProgramEnds, buffers
      <3>2. QED
        BY <1>4, <2>1, <3>1 DEF DbInv, ProgramEnds, buffers, gvars, local, NeedleInv, CompareInv,
                                WriteInv, FileInv, DbReported
    <2>2. CASE Finish(1)
      BY <1>4, <2>2, FinishStep DEF ProgramEnds
    <2>3. QED
      BY <1>4, <2>1, <2>2 DEF ProgramEnds
  <1>5. CASE OpenDb
    <2>1. CASE Finish(4)
      BY <1>5, <2>1, FinishStep DEF OpenDb
    <2>2. CASE disk # NoDb /\ fopen(disk) /\ pc' = "compare" /\ k' = 1
               /\ UNCHANGED <<answer, buffers>>
      <3>1. TypeOK'
        BY <1>5, <2>2 DEF DbInv, TypeOK, SearchInv, OpenDb, buffers
      <3>2. QED
        BY <1>5, <2>2, <3>1 DEF DbInv, OpenDb, buffers, fopen, local, NeedleInv, CompareInv, WriteInv,
                                FileInv, DbReported
    <2>3. QED
      BY <1>5, <2>1, <2>2 DEF OpenDb
  <1>6. CASE OtherCall
    <2>1. TypeOK'
      BY <1>6 DEF DbInv, TypeOK, SearchInv, OtherCall
    <2>2. QED
      BY <1>6, <2>1 DEF DbInv, OtherCall, gvars, local, NeedleInv, CompareInv, WriteInv,
                        FileInv, DbReported
  <1>7. QED
    BY <1>1, <1>2, <1>3, <1>4, <1>5, <1>6

\* The search for a line goes on.
LEMMA SearchingStep ==
  ASSUME DbInv, SearchInv', NextNeedle \/ Searching
  PROVE  DbInv'
  <1>1. UNCHANGED <<dvars, file>> /\ pc = "compare"
    BY DEF NextNeedle, Searching, get_match, stream, SearchStep, ReadLine, EndOfFile
  <1>2. phase' # "idle" => k <= Len(out) /\ needle' = out[k]
    <2>1. CASE NextNeedle
      BY <2>1 DEF NextNeedle, get_match
    <2>2. CASE Searching
      BY <2>2 DEF Searching, SearchStep, ReadLine, EndOfFile, DbInv, NeedleInv
    <2>3. QED
      BY <2>1, <2>2
  <1>3. TypeOK'
    BY <1>1 DEF dvars, buffers, DbInv, TypeOK, SearchInv
  <1>4. NeedleInv'
    BY <1>1, <1>2 DEF dvars, buffers, DbInv, NeedleInv
  <1>5. (CompareInv /\ WriteInv /\ FileInv /\ DbReported)'
    BY <1>1 DEF dvars, buffers, DbInv, CompareInv, WriteInv, FileInv, DbReported
  <1>6. QED
    BY <1>3, <1>4, <1>5 DEF DbInv

\* A line was searched for: it is in the database or goes into the report,
\* unless the report is cut.
LEMMA ComparedStep ==
  ASSUME DbInv, SearchInv', Compared
  PROVE  DbInv'
  <1>1. /\ pc = "compare" /\ pc' = pc /\ k' = k + 1
        /\ phase = "done" /\ phase' = "idle"
        /\ UNCHANGED <<disk, out, answer, accounted, file>>
        /\ \/ result = 0 /\ add_line("buf", report, out[k])
           \/ result # 0 /\ UNCHANGED <<report, superseded, large>>
    BY DEF Compared, Return, stream
  <1>2. /\ out \in Seq(Lines \ FindErrors) /\ k \in 1 .. Len(out) /\ needle = out[k]
        /\ report \in Seq(Lines) /\ result \in {0, 1}
        /\ superseded \subseteq {"buf", "buf2"} /\ large \subseteq {"buf", "buf2"}
        /\ disk # NoDb /\ file = disk
        /\ "buf" \notin superseded =>
              \A i \in 1 .. k - 1 : out[i] \in Range(file) \cup Range(report)
    BY <1>1 DEF DbInv, TypeOK, GetMatchTypeOK, NeedleInv, CompareInv
  <1>3. out[k] \in Lines
    BY <1>2, RangeOfElement
  <1>4. /\ report' \in Seq(Lines)
        /\ superseded' \subseteq {"buf", "buf2"} /\ large' \subseteq {"buf", "buf2"}
        /\ "buf" \notin superseded' =>
              /\ "buf" \notin superseded
              /\ Range(report) \subseteq Range(report')
              /\ out[k] \in Range(file) \cup Range(report')
    <2>1. CASE result = 0 /\ add_line("buf", report, out[k])
      <3>1. TypeOK
        BY DEF DbInv
      <3>2. /\ report' \in Seq(Lines)
            /\ superseded' \subseteq {"buf", "buf2"} /\ large' \subseteq {"buf", "buf2"}
            /\ "buf" \notin superseded' =>
                  /\ "buf" \notin superseded
                  /\ Range(report') = Range(report) \cup {out[k]}
        BY <1>3, <2>1, <3>1, AddToReport
      <3>3. QED
        BY <3>2, Zenon
    <2>2. CASE result # 0 /\ UNCHANGED <<report, superseded, large>>
      <3>1. out[k] \in Range(file)
        BY <1>1, <1>2, <2>2 DEF DbInv, SearchInv, AnswerRight, Occurs, Range
      <3>2. QED
        BY <1>1, <1>2, <2>2, <3>1
    <2>3. QED
      BY <1>1, <2>1, <2>2
  <1>5. TypeOK'
    BY <1>1, <1>2, <1>4 DEF DbInv, TypeOK, SearchInv
  <1>6. CompareInv'
    <2>1. \A i \in 1 .. k' - 1 : i \in 1 .. k - 1 \/ i = k
      BY <1>1, <1>2
    <2>2. "buf" \notin superseded' =>
            \A i \in 1 .. k' - 1 : out[i] \in Range(file) \cup Range(report')
      BY <1>2, <1>4, <2>1
    <2>3. QED
      BY <1>1, <1>2, <2>2 DEF CompareInv
  <1>7. (NeedleInv /\ WriteInv /\ FileInv /\ DbReported)'
    BY <1>1 DEF DbInv, NeedleInv, WriteInv, FileInv, DbReported
  <1>8. QED
    BY <1>5, <1>6, <1>7 DEF DbInv

\* The database is truncated.
LEMMA ReopenStep ==
  ASSUME DbInv, SearchInv', Reopen
  PROVE  DbInv'
  <1>1. CASE Finish(5) /\ UNCHANGED disk
    BY <1>1, FinishStep DEF Reopen
  <1>2. CASE /\ disk' = <<>> /\ pc' = "write" /\ k' = 1
             /\ UNCHANGED <<answer, buffers, gvars>>
    <2>1. /\ pc = "compare" /\ phase = "idle" /\ k > Len(out)
          /\ UNCHANGED <<out, report, superseded, large, accounted, file, phase>>
      BY <1>2 DEF Reopen, buffers, gvars, stream, local
    <2>2. /\ k \in 1 .. Len(out) + 1 /\ out \in Seq(Lines)
          /\ "buf" \notin superseded =>
                \A i \in 1 .. k - 1 : out[i] \in Range(file) \cup Range(report)
      BY <2>1 DEF DbInv, TypeOK, CompareInv
    <2>3. NothingMissed'
      BY <1>2, <2>1, <2>2 DEF NothingMissed
    <2>4. disk' \in Seq(Lines) /\ Range(disk') = {}
      BY <1>2, EmptyFile, RangeOfEmpty
    <2>5. TypeOK'
      BY <1>2, <2>1, <2>4 DEF DbInv, TypeOK, SearchInv
    <2>6. (NeedleInv /\ CompareInv /\ FileInv /\ DbReported)'
      BY <1>2, <2>1 DEF DbInv, NeedleInv, CompareInv, FileInv, DbReported
    <2>7. WriteInv'
      BY <2>3, <2>4 DEF WriteInv
    <2>8. QED
      BY <2>5, <2>6, <2>7 DEF DbInv
  <1>3. QED
    BY <1>1, <1>2 DEF Reopen

\* While it is written.
LEMMA WriteStep ==
  ASSUME DbInv, SearchInv', WriteLine \/ WriteFails
  PROVE  DbInv'
  <1>1. /\ pc = "write" /\ pc' = pc /\ k \in 1 .. Len(out)
        /\ out \in Seq(Lines) /\ disk \in Seq(Lines) /\ accounted \subseteq Lines
        /\ UNCHANGED <<out, report, superseded, large, answer, gvars>>
        /\ NothingMissed /\ Range(disk) \subseteq accounted \cup Told
        /\ Range(file) \subseteq accounted
    BY DEF buffers, WriteLine, WriteFails, DbInv, TypeOK, WriteInv, FileInv
  <1>2. /\ k' \in 1 .. Len(out) + 1
        /\ disk' \in Seq(Lines)
        /\ accounted \subseteq accounted' /\ accounted' \subseteq Lines
        /\ Range(disk') \subseteq accounted' \cup Told
    <2>1. CASE WriteLine
      <3>1. PICK s \in Stored[out[k]] :
                /\ disk' = disk \o s
                /\ accounted' = accounted \cup (Range(s) \ {out[k]})
        BY <2>1 DEF WriteLine
      <3>2. k' \in 1 .. Len(out) + 1
        BY <1>1, <2>1 DEF WriteLine
      <3>3. s \in Seq(Lines)
        BY <1>1, <3>1, RangeOfElement, DbDiffAssumption
      <3>4. Range(disk') = Range(disk) \cup Range(s) /\ Range(s) \subseteq Lines
        BY <1>1, <3>1, <3>3, RangeConcatenation, RangeOfSeq
      <3>5. disk' \in Seq(Lines)
        BY <1>1, <3>1, <3>3
      <3>6. out[k] \in accounted \cup Told
        BY <1>1, RangeOfElement DEF NothingMissed, Told
      <3>7. QED
        BY <1>1, <3>1, <3>2, <3>4, <3>5, <3>6, Zenon
    <2>2. CASE WriteFails
      <3>1. k' \in 1 .. Len(out) + 1
        BY <1>1, <2>2 DEF WriteFails
      <3>2. QED
        BY <1>1, <2>2, <3>1, BreakOffStep, Zenon DEF WriteFails
    <2>3. QED
      BY <2>1, <2>2
  <1>3. TypeOK'
    BY <1>1, <1>2 DEF DbInv, TypeOK, SearchInv
  <1>4. Told' = Told
    BY <1>1 DEF Told
  <1>5. (NeedleInv /\ CompareInv /\ DbReported)'
    BY <1>1 DEF DbInv, gvars, local, NeedleInv, CompareInv, DbReported
  <1>6. WriteInv' /\ FileInv'
    BY <1>1, <1>2, <1>4 DEF gvars, stream, WriteInv, FileInv, NothingMissed
  <1>7. QED
    BY <1>3, <1>5, <1>6 DEF DbInv

\* The report is returned: what was written is in it or was known before.
LEMMA DoneStep ==
  ASSUME DbInv, SearchInv', Done
  PROVE  DbInv'
  <1>1. /\ pc = "write" /\ pc' = "idle" /\ UNCHANGED disk
        /\ accounted' = accounted \cup Told
        /\ out' = <<>> /\ k' = 1 /\ report' = <<>> /\ answer' = 0
        /\ superseded' = {} /\ large' = large
        /\ phase' = "idle"
    BY DEF Done, Finish, Leave, clear_buffer, fopen, local
  <1>2. /\ disk \in Seq(Lines) /\ Range(disk) \subseteq accounted \cup Told
        /\ accounted \subseteq Lines /\ Told \subseteq Lines
    BY <1>1, ToldType DEF DbInv, TypeOK, WriteInv
  <1>3. TypeOK'
    BY <1>1, <1>2 DEF DbInv, TypeOK, SearchInv
  <1>4. (NeedleInv /\ CompareInv /\ WriteInv /\ FileInv /\ DbReported)'
    BY <1>1, <1>2 DEF NeedleInv, CompareInv, WriteInv, FileInv, DbReported
  <1>5. QED
    BY <1>3, <1>4 DEF DbInv

\* The suvlet ends, anywhere.
LEMMA CrashStep ==
  ASSUME DbInv, SearchInv', Crash
  PROVE  DbInv'
  <1>1. /\ pc' = "idle" /\ phase' = "idle" /\ answer' = answer
        /\ out' = <<>> /\ k' = 1 /\ report' = <<>>
        /\ superseded' = {} /\ large' = {}
    BY DEF Crash, Leave, clear_buffer, fopen, local, Abandon
  <1>2. /\ disk' \in Seq(Lines) \cup {NoDb}
        /\ accounted' \subseteq Lines
        /\ disk' # NoDb => Range(disk') \subseteq accounted'
    <2>1. CASE pc = "write"
      <3>1. BreakOff(Told) /\ Told \in SUBSET Lines
        BY <2>1, ToldType DEF Crash, DbInv
      <3>2. /\ disk' \in Seq(Lines) /\ accounted' \subseteq Lines
            /\ accounted \cup Told \subseteq accounted'
            /\ Range(disk') \subseteq accounted' \cup Told
        BY <2>1, <3>1, BreakOffStep
      <3>3. QED
        BY <3>2
    <2>2. CASE pc # "write"
      BY <2>2 DEF Crash, DbInv, TypeOK, DbReported
    <2>3. QED
      BY <2>1, <2>2
  <1>3. TypeOK'
    BY <1>1, <1>2 DEF DbInv, TypeOK, SearchInv
  <1>4. (NeedleInv /\ CompareInv /\ WriteInv /\ FileInv /\ DbReported)'
    BY <1>1, <1>2 DEF NeedleInv, CompareInv, WriteInv, FileInv, DbReported
  <1>5. QED
    BY <1>3, <1>4 DEF DbInv

LEMMA DbStep ==
  ASSUME DbInv, [Next]_vars
  PROVE  DbInv' /\ [GetMatchNext]_gvars /\ [Search!Next]_(Search!vars)
  <1>1. [GetMatchNext]_gvars
    BY CallerStep DEF DbInv
  <1>2. SearchInv' /\ [Search!Next]_(Search!vars)
    BY <1>1, GetMatchStep DEF DbInv
  <1>3. CASE UNCHANGED vars
    <2>1. TypeOK'
      BY <1>2, <1>3 DEF vars, dvars, buffers, DbInv, TypeOK, SearchInv
    <2>2. QED
      BY <1>2, <1>3, <2>1 DEF vars, dvars, buffers, gvars, stream, local, DbInv, NeedleInv,
                              CompareInv, WriteInv, Told, NothingMissed, FileInv, DbReported
  <1>4. DbInv'
    BY <1>2, <1>3, EarlyStep, SearchingStep, ComparedStep, ReopenStep, WriteStep, DoneStep,
       CrashStep DEF Next, db_diff
  <1>5. QED
    BY <1>1, <1>2, <1>4

-----------------------------------------------------------------------------
(* The theorems.                                                           *)

\* The invariant holds in every state of db_diff.
LEMMA DbInvariant == Spec => []DbInv
  BY InitDbInv, DbStep, PTL DEF Spec

\* Types; no line that is not an output of find is ever in a buffer.
THEOREM DbTypeCorrect == Spec => []TypeOK
  <1>1. DbInv => TypeOK
    BY DEF DbInv
  <1>2. QED
    BY <1>1, DbInvariant, PTL

\* Whatever is wrong with get_match, no line that is written and was not in
\* the database is left out of a report that was not cut.
THEOREM NothingIsMissed == Spec => []NothingMissed
  <1>1. DbInv => NothingMissed
    BY DEF DbInv, WriteInv, NothingMissed
  <1>2. QED
    BY <1>1, DbInvariant, PTL

\* A line is in the database only when it was reported, or is accounted for by
\* a crash, a garbled write or a report that was cut.
THEOREM ReportedBefore == Spec => []DbReported
  <1>1. DbInv => DbReported
    BY DEF DbInv
  <1>2. QED
    BY <1>1, DbInvariant, PTL

\* db_diff searches as FileSearch does: it is a caller of get_match.
THEOREM DbDiffSearches == Spec => Searches
  <1>1. Init => Search!Init
    BY DEF Init, GetMatchInit, Search!Init
  <1>2. QED
    BY <1>1, DbInvariant, DbStep, PTL DEF Spec, Searches, Search!Spec

\* Its searches are right but for those that begin with the last line.
THEOREM DbAnswersRight == Spec => []AnswerRight
  <1>1. DbInv => AnswerRight
    BY DEF DbInv, SearchInv
  <1>2. QED
    BY <1>1, DbInvariant, PTL
=============================================================================
