------------------------------- MODULE MCAudit -------------------------------
(* A small instance of the SecurityAudit suvlet: lines of one and two        *)
(* bytes, a note of three, a first buffer of four, and a limit of as many:   *)
(* two lines fill the buffer, a line and the note exceed it by one.          *)
EXTENDS SecurityAudit

CONSTANTS short, long, d1

MCLineLen == [l \in Texts |-> IF l = long THEN 2 ELSE IF l = Note THEN 3 ELSE 1]
=============================================================================
