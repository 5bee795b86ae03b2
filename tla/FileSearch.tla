----------------------------- MODULE FileSearch -----------------------------
(***************************************************************************)
(* What get_match of SecurityAudit.c amounts to: a search as one step.     *)
(*                                                                         *)
(* The file keeps its position from one search to the next.  A search      *)
(* finds the first occurrence of the needle after that position, going     *)
(* round the end of the file, with one exception: a search that begins     *)
(* with the last line looks at that line only.                             *)
(***************************************************************************)
EXTENDS Integers, Sequences

CONSTANT Lines

VARIABLES
    file,    \* the lines of the open file
    pos,     \* how many of them are before its position
    phase,   \* "idle", "search" or "done"
    needle,  \* what is, or was last, searched for
    result   \* of the last search

vars == <<file, pos, phase, needle, result>>

\* The lines a search that began at p has read when it stands at q.
Passed(p, q) == IF p < q THEN p + 1 .. q ELSE (p + 1 .. Len(file)) \cup (1 .. q)

LastLineOnly == pos + 1 = Len(file)

\* Found at q, and at no line that was read before.
Hit(q) ==
    /\ q \in DOMAIN file
    /\ file[q] = needle
    /\ \A i \in Passed(pos, q) \ {q} : file[i] # needle
    /\ LastLineOnly => q = Len(file)

\* Not found: the position moves on by one line.
Miss(q) ==
    IF LastLineOnly
      THEN /\ file[Len(file)] # needle
           /\ q = Len(file)
      ELSE /\ \A i \in DOMAIN file : file[i] # needle
           /\ q = IF pos < Len(file) THEN pos + 1 ELSE IF Len(file) = 0 THEN 0 ELSE 1

Init ==
    /\ file = <<>> /\ pos = 0
    /\ phase = "idle"
    /\ needle \in Lines /\ result = 0

Open ==
    /\ phase = "idle"
    /\ file' \in Seq(Lines)
    /\ pos' = 0
    /\ UNCHANGED <<phase, needle, result>>

Call ==
    /\ phase = "idle" /\ phase' = "search"
    /\ needle' \in Lines
    /\ UNCHANGED <<file, pos, result>>

Answer ==
    /\ phase = "search" /\ phase' = "done"
    /\ \/ result' = 1 /\ Hit(pos')
       \/ result' = 0 /\ Miss(pos')
    /\ UNCHANGED <<file, needle>>

Return ==
    /\ phase = "done" /\ phase' = "idle"
    /\ UNCHANGED <<file, pos, needle, result>>

\* The caller ends before the search does, and closes the file by that.
Abandon ==
    /\ phase # "idle" /\ phase' = "idle"
    /\ file' = <<>> /\ pos' = 0
    /\ UNCHANGED <<needle, result>>

Next == Open \/ Call \/ Answer \/ Return \/ Abandon

Spec == Init /\ [][Next]_vars
=============================================================================
