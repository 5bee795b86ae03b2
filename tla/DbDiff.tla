------------------------------- MODULE DbDiff -------------------------------
(***************************************************************************)
(* db_diff of src/suvlets/SecurityAudit/remote/SecurityAudit.c, which      *)
(* get_new_xuids and get_new_dot_files call: run a program, report the     *)
(* lines that are not in the database, and make its output the database.   *)
(*                                                                         *)
(* The database is a file that outlives the suvlet, which can end between  *)
(* any two steps and is then started again.  A result of the program's     *)
(* wait may be wrong in either direction here (SecurityAudit says when),   *)
(* so its output and its success are independent.                          *)
(*                                                                         *)
(* The two buffers are those of LineBuffer, with their texts as lines: one *)
(* that is superseded ends with a message and takes no more lines, and one *)
(* that was ever made large cuts every text.  What is cut from the output  *)
(* is not compared and not written; what is cut from the report is written *)
(* all the same.                                                           *)
(***************************************************************************)
EXTENDS GetMatch, SequencesExt

CONSTANTS
    FindErrors,  \* lines that begin with "find: proc"
    Stored,      \* what fgets will read where fprintf wrote a line: the line,
                 \* perhaps after empty ones, which strtok skips, unless it
                 \* holds a conversion or is longer than LINE_LENGTH
    CutEnds,     \* what may stand in place of the rest of a text that is cut:
                 \* the beginning of a line, a message or the end of one
    Fragment,    \* what may be left of a line that was written in part
    NoDb,        \* no database, or none that can be read
    FirstDbs,    \* what the installation may have left as database
    MaxOut       \* bound: lines a program writes

ASSUME DbDiffAssumption ==
    /\ FindErrors \subseteq Lines
    /\ Stored \in [Lines -> SUBSET Seq(Lines)]
    /\ Fragment \in [Lines -> SUBSET Lines]
    /\ CutEnds \subseteq Seq(Lines \ FindErrors)
    /\ FirstDbs \subseteq Seq(Lines) \cup {NoDb}
    /\ NoDb \notin Seq(Lines)
    /\ MaxOut \in Nat

VARIABLES
    disk,      \* the database
    pc,        \* of db_diff: "idle", "read", "open", "compare", "write"
    out,       \* buf2: the lines of the program
    k,         \* the line strtok, or the writing of buf2, has come to
    report,    \* buf: the lines to return
    superseded, \* the buffers that take no more lines
    large,     \* those with a buffer_size above 262144
    answer,    \* the number in "<error>", 0 for a report
    accounted  \* lines that were in the first database, that a report named,
               \* or that a crash, a garbled write or a report that was cut
               \* put there

buffers == <<out, report, superseded, large>>
dvars == <<disk, pc, k, answer, accounted, buffers>>
vars == <<gvars, dvars>>

Init ==
    /\ GetMatchInit
    /\ disk \in FirstDbs
    /\ pc = "idle"
    /\ out = <<>> /\ k = 1 /\ report = <<>> /\ answer = 0
    /\ superseded = {} /\ large = {}
    /\ accounted = IF disk = NoDb THEN {} ELSE Range(disk)

Cut(text) == {SubSeq(text, 1, i) \o end : i \in 0 .. Len(text), end \in CutEnds}

\* A line for buffer b: it is dropped, appended, or the last the buffer takes.
\* The text is cut because b is too large, by now or by an earlier text, or
\* because there is no memory for b to grow, which leaves its size doubled.
add_line(b, text, line) ==
    \/ /\ b \in superseded
       /\ UNCHANGED <<text, superseded, large>>
    \/ /\ b \notin superseded \cup large
       /\ text' = Append(text, line)
       /\ UNCHANGED <<superseded, large>>
    \/ /\ b \notin superseded
       /\ text' \in Cut(text)
       /\ superseded' = superseded \cup {b}
       /\ large' \in {large, large \cup {b}}

\* The buffers are cleared before they are used again; they keep their size.
clear_buffer ==
    /\ out' = <<>> /\ report' = <<>>
    /\ superseded' = {}

Leave ==
    /\ pc' = "idle" /\ k' = 1
    /\ clear_buffer

Finish(n) ==
    /\ answer' = n
    /\ Leave
    /\ UNCHANGED large
    /\ fopen(<<>>)

\* run_aide and get_passwordless use buf as well, and db_diff of the other
\* database both: their answers may be long.
OtherCall ==
    /\ pc = "idle"
    /\ \E b \in {"buf", "buf2"} : large' = large \cup {b}
    /\ UNCHANGED <<disk, pc, k, answer, accounted, out, report, superseded, gvars>>

\* safe_exec_pipe or fdopen fails.
NoProgram ==
    /\ pc = "idle"
    /\ \E n \in {1, 2} : Finish(n)
    /\ UNCHANGED <<disk, accounted>>

Begin ==
    /\ pc = "idle" /\ pc' = "read"
    /\ UNCHANGED <<disk, k, answer, accounted, buffers, gvars>>

\* Mutant: what find says about /proc is taken for output.
ReadOutputUnfiltered ==
    /\ pc = "read" /\ Len(out) < MaxOut
    /\ \E line \in Lines : add_line("buf2", out, line)
    /\ UNCHANGED <<disk, pc, k, report, answer, accounted, gvars>>

\* Lines that begin with "find: proc" are dropped.
ReadOutput ==
    /\ pc = "read" /\ Len(out) < MaxOut
    /\ \E line \in Lines \ FindErrors : add_line("buf2", out, line)
    /\ UNCHANGED <<disk, pc, k, report, answer, accounted, gvars>>

\* The end of the output; wait says whether the program succeeded.
ProgramEnds ==
    /\ pc = "read"
    /\ \/ pc' = "open" /\ UNCHANGED <<answer, k, buffers, gvars>>
       \/ Finish(1)
    /\ UNCHANGED <<disk, accounted>>

OpenDb ==
    /\ pc = "open"
    /\ \/ /\ disk = NoDb
          /\ Finish(4)
       \/ /\ disk # NoDb
          /\ fopen(disk)
          /\ pc' = "compare" /\ k' = 1
          /\ UNCHANGED <<answer, buffers>>
    /\ UNCHANGED <<disk, accounted>>

NextNeedle ==
    /\ pc = "compare" /\ k <= Len(out)
    /\ get_match(out[k])
    /\ UNCHANGED dvars

Searching ==
    /\ pc = "compare"
    /\ SearchStep
    /\ UNCHANGED dvars

\* Mutant: only the first line that is missing is reported.
ComparedOnce ==
    /\ pc = "compare"
    /\ Return
    /\ IF result = 0 /\ report = <<>>
         THEN add_line("buf", report, out[k])
         ELSE UNCHANGED <<report, superseded, large>>
    /\ k' = k + 1
    /\ UNCHANGED <<disk, pc, out, answer, accounted>>

\* The line and its end are added by two calls, of which either may cut.
Compared ==
    /\ pc = "compare"
    /\ Return
    /\ \/ result = 0 /\ add_line("buf", report, out[k])
       \/ result # 0 /\ UNCHANGED <<report, superseded, large>>
    /\ k' = k + 1
    /\ UNCHANGED <<disk, pc, out, answer, accounted>>

\* fopen "w" truncates the database, or fails.
Reopen ==
    /\ pc = "compare" /\ phase = "idle" /\ k > Len(out)
    /\ \/ /\ disk' = <<>>
          /\ pc' = "write" /\ k' = 1
          /\ UNCHANGED <<answer, buffers, gvars>>
       \/ Finish(5) /\ UNCHANGED disk
    /\ UNCHANGED accounted

\* The buffer is the format string of fprintf.
WriteLine ==
    /\ pc = "write" /\ k <= Len(out)
    /\ \E s \in Stored[out[k]] :
        /\ disk' = disk \o s
        /\ accounted' = accounted \cup (Range(s) \ {out[k]})
    /\ k' = k + 1
    /\ UNCHANGED <<pc, answer, buffers, gvars>>

\* What the report accounts for: its lines, and if it was cut, all that are
\* written.
Told == Range(report) \cup (IF "buf" \in superseded THEN Range(out) ELSE {})

\* Writing stops: perhaps inside a line, of which a fragment stays.
BreakOff(unread) ==
    \/ accounted' = accounted \cup unread /\ UNCHANGED disk
    \/ /\ k <= Len(out)
       /\ \E f \in Fragment[out[k]] :
           disk' = Append(disk, f) /\ accounted' = accounted \cup unread \cup {f}

\* Mutant: the caller is told, instead of what is new.
WriteFailsError ==
    /\ pc = "write" /\ k <= Len(out)
    /\ BreakOff({})
    /\ Finish(5)

\* The disk is full; nobody looks at what fprintf and fclose return.
WriteFails ==
    /\ pc = "write" /\ k <= Len(out)
    /\ BreakOff({})
    /\ k' = Len(out) + 1
    /\ UNCHANGED <<pc, answer, buffers, gvars>>

\* fclose; the report is returned.
Done ==
    /\ pc = "write" /\ k > Len(out)
    /\ Finish(0)
    /\ accounted' = accounted \cup Told
    /\ UNCHANGED disk

\* External: the suvlet ends and another one, with new buffers, takes its
\* place.  If it had begun to write, its report is lost, and what it wrote
\* stays.  (One that finds no memory even for the error ends itself.)
Crash ==
    /\ IF pc = "write" THEN BreakOff(Told) ELSE UNCHANGED <<disk, accounted>>
    /\ Leave
    /\ large' = {}
    /\ IF phase = "idle" THEN fopen(<<>>) ELSE Abandon
    /\ UNCHANGED answer

db_diff ==
    \/ ProgramEnds \/ OpenDb \/ NextNeedle \/ Searching \/ Compared
    \/ Reopen \/ WriteLine \/ WriteFails \/ Done

Next == NoProgram \/ OtherCall \/ Begin \/ ReadOutput \/ db_diff \/ Crash

\* The program ends, and so does what follows unless it loops.
Spec == Init /\ [][Next]_vars /\ WF_vars(db_diff)

-----------------------------------------------------------------------------
(* Properties.                                                             *)

\* Lines of other processes that find lost on its way are in no buffer.
TypeOK ==
    /\ GetMatchTypeOK
    /\ disk \in Seq(Lines) \cup {NoDb}
    /\ pc \in {"idle", "read", "open", "compare", "write"}
    /\ out \in Seq(Lines \ FindErrors)
    /\ k \in 1 .. Len(out) + 1
    /\ report \in Seq(Lines)
    /\ superseded \subseteq {"buf", "buf2"} /\ large \subseteq {"buf", "buf2"}
    /\ answer \in {0, 1, 2, 4, 5}
    /\ accounted \subseteq Lines

\* Before the database is overwritten, every line that will be written and was
\* not in it is in the report, unless the report was cut: whatever get_match
\* does wrong, it hides nothing.
NothingMissed ==
    pc = "write" /\ "buf" \notin superseded =>
        \A i \in DOMAIN out : out[i] \in Range(file) \cup Range(report)

\* A line gets into the database only by having been reported, however many
\* runs fail, find the disk full, or end halfway.  The exceptions: lines
\* whose report was lost because the suvlet ended while it wrote, or was cut
\* because its buffer had become too large (perhaps in an earlier call) or
\* found no memory, and what other text than the lines of the output came of
\* the writing.
DbReported == pc # "write" /\ disk # NoDb => Range(disk) \subseteq accounted

\* A call returns once its program has ended.
Returns == pc # "idle" ~> pc = "idle"
=============================================================================
