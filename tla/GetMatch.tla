------------------------------ MODULE GetMatch ------------------------------
(***************************************************************************)
(* get_match of src/suvlets/SecurityAudit/remote/SecurityAudit.c: the      *)
(* search for a line in a file that stays open between searches.           *)
(*                                                                         *)
(* The search starts wherever the one before stopped, reads to the end,    *)
(* rewinds, and gives up when it is back where its first line ended; it    *)
(* recognizes that place by its offset, start_pos.  No line is empty,      *)
(* not even a blank one, so offsets of line ends and numbers of lines are  *)
(* the same thing: pos is ftell, counted in lines.                         *)
(*                                                                         *)
(* A line is what one fgets returns.  That nobody writes the file while it *)
(* is open for reading is an assumption: a second suvlet that runs the     *)
(* same audit at the same time would break it.                             *)
(***************************************************************************)
EXTENDS Integers, Sequences

CONSTANT Lines    \* the lines that a file or an output may hold

VARIABLES
    file,       \* the lines of the open file
    pos,        \* its position
    phase,      \* of get_match: "idle", "search" (in the loop) or "done"
    needle,     \* its argument
    start_pos,  \* its local variable, 0 until the first line was read
    begun,      \* the position it found, for the properties
    result      \* what it returned last

stream == <<file, pos>>
local == <<phase, needle, start_pos, begun, result>>
gvars == <<stream, local>>

GetMatchInit ==
    /\ file = <<>> /\ pos = 0
    /\ phase = "idle"
    /\ needle \in Lines /\ start_pos = 0 /\ begun = 0 /\ result = 0

\* The caller opens a file, at its first line.
fopen(lines) ==
    /\ phase = "idle"
    /\ file' = lines
    /\ pos' = 0
    /\ UNCHANGED local

get_match(n) ==
    /\ phase = "idle" /\ phase' = "search"
    /\ needle' = n
    /\ start_pos' = 0 /\ begun' = pos
    /\ UNCHANGED <<stream, result>>

Answer(r) == phase' = "done" /\ result' = r

\* Mutant: a place that was passed already is not noticed at a line's end.
ReadLineNoStop ==
    /\ phase = "search" /\ pos < Len(file)
    /\ pos' = pos + 1
    /\ \/ /\ file[pos'] = needle
          /\ Answer(1)
          /\ UNCHANGED start_pos
       \/ /\ file[pos'] # needle
          /\ start_pos' = IF start_pos = 0 THEN pos' ELSE start_pos
          /\ UNCHANGED <<phase, result>>
    /\ UNCHANGED <<file, needle, begun>>

\* fgets returned a line: "Have we found it?", "Have we been here before?"
ReadLine ==
    /\ phase = "search" /\ pos < Len(file)
    /\ pos' = pos + 1
    /\ \/ /\ file[pos'] = needle
          /\ Answer(1)
          /\ UNCHANGED start_pos
       \/ /\ file[pos'] # needle /\ start_pos = pos'
          /\ Answer(0)
          /\ UNCHANGED start_pos
       \/ /\ file[pos'] # needle /\ start_pos # pos'
          /\ start_pos' = IF start_pos = 0 THEN pos' ELSE start_pos
          /\ UNCHANGED <<phase, result>>
    /\ UNCHANGED <<file, needle, begun>>

\* Mutant: the search ends at the end of the file.
EndOfFileNoRewind ==
    /\ phase = "search" /\ pos = Len(file)
    /\ Answer(0)
    /\ UNCHANGED <<stream, needle, start_pos, begun>>

\* fgets returned NULL.  The test is meant for an empty file, but start_pos is
\* the end of the file as well when the last line was the first one read.
EndOfFile ==
    /\ phase = "search" /\ pos = Len(file)
    /\ \/ start_pos = pos /\ Answer(0) /\ UNCHANGED pos
       \/ start_pos # pos /\ pos' = 0 /\ UNCHANGED <<phase, result>>
    /\ UNCHANGED <<file, needle, start_pos, begun>>

SearchStep == ReadLine \/ EndOfFile

Return ==
    /\ phase = "done" /\ phase' = "idle"
    /\ start_pos' = 0 /\ begun' = 0
    /\ UNCHANGED <<stream, needle, result>>

\* The process ends, wherever it is, and closes the file by that.
Abandon ==
    /\ phase # "idle" /\ phase' = "idle"
    /\ file' = <<>> /\ pos' = 0
    /\ start_pos' = 0 /\ begun' = 0
    /\ UNCHANGED <<needle, result>>

\* External: a caller with any files and any needles.
GetMatchNext ==
    \/ \E lines \in Seq(Lines) : fopen(lines)
    \/ \E n \in Lines : get_match(n)
    \/ SearchStep \/ Return \/ Abandon

GetMatchSpec == GetMatchInit /\ [][GetMatchNext]_gvars

-----------------------------------------------------------------------------
(* Properties.                                                             *)

GetMatchTypeOK ==
    /\ file \in Seq(Lines)
    /\ pos \in 0 .. Len(file) /\ begun \in 0 .. Len(file)
    /\ phase \in {"idle", "search", "done"}
    /\ needle \in Lines
    /\ start_pos \in 0 .. Len(file)
    /\ result \in {0, 1}

Occurs(line) == \E i \in DOMAIN file : file[i] = line

\* get_match "returns whether a string exists in a file", except that its
\* answer 0 may be wrong when the search began with the last line of several.
AnswerRight ==
    phase = "done" =>
        \/ result = 1 /\ Occurs(needle)
        \/ result = 0 /\ ~Occurs(needle)
        \/ result = 0 /\ begun + 1 = Len(file)

Search ==
    INSTANCE FileSearch WITH pos <- IF phase = "search" THEN begun ELSE pos

\* get_match gives the answer, and leaves the position, of FileSearch.
Searches == Search!Spec
=============================================================================
