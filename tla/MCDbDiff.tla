------------------------------ MODULE MCDbDiff ------------------------------
(* A small instance of the database comparison: two plain lines, one that    *)
(* fprintf garbles, a line that find writes about /proc, and the message of  *)
(* a buffer that was cut.                                                    *)
EXTENDS DbDiff

CONSTANTS a, b, percent, proc, snip

\* What fprintf makes of the garbled line is line b.
MCStored == [line \in Lines |-> IF line = percent THEN {<<b>>} ELSE {<<line>>}]

\* The beginning of line a is line b.
MCFragment == [line \in Lines |-> IF line = a THEN {b} ELSE {}]

MCFirstDbs == BoundedSeq({a, b}, 3) \cup {NoDb}

\* A text that is cut ends with the message, perhaps after the beginning of a
\* line.
MCCutEnds == {<<snip>>, <<b, snip>>}
=============================================================================
