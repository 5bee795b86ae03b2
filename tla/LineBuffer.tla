----------------------------- MODULE LineBuffer -----------------------------
(***************************************************************************)
(* struct buffer_desc of src/suvlets/SecurityAudit/remote/SecurityAudit.c  *)
(* with add_line and clear_buffer: the buffer that collects the lines of   *)
(* an answer.                                                              *)
(*                                                                         *)
(* Not modelled: what the bytes written outside the buffer hit.  These are *)
(* counted behind its end (Outside); in front of it there may be some of   *)
(* the message, where that is longer than the text.                        *)
(*                                                                         *)
(* Sizes are in bytes; a byte is known by the line it belongs to.  The     *)
(* buffer grows by doubling, is cut at Limit, and never shrinks.           *)
(***************************************************************************)
EXTENDS Integers, Sequences

CONSTANTS
    Texts,         \* the lines
    LineLen,       \* their lengths
    LINE_LENGTH,   \* of one fgets, and what is allocated first
    Limit,         \* 262144 in the code
    Message,       \* "(Message too long, snip)"
    MessageLen,
    NoCore,        \* "<error>256 Ran out of memory"
    NoCoreLen,
    NoLine

ASSUME LineBufferAssumption ==
    /\ LINE_LENGTH \in Nat /\ Limit \in Nat
    /\ LineLen \in [Texts -> 1 .. LINE_LENGTH - 1]
    /\ MessageLen \in Nat \ {0} /\ MessageLen < NoCoreLen
    /\ NoCoreLen \in Nat /\ NoCoreLen < LINE_LENGTH
    /\ Message \notin Texts /\ NoCore \notin Texts /\ Message # NoCore
    /\ NoLine \notin Texts

VARIABLES
    text,         \* the first buffer_pos bytes
    buffer_size,
    allocated,    \* what the buffer really has
    superseded,
    line,         \* what add_line is adding, or NoLine
    wanted        \* all bytes added since the buffer was cleared

bvars == <<text, buffer_size, allocated, superseded, line, wanted>>

Bytes(l, n) == [i \in 1 .. n |-> l]

\* After the constructor has added "null"; every user clears that.
BufferInit ==
    /\ text = <<>> /\ wanted = <<>>
    /\ buffer_size = LINE_LENGTH /\ allocated = LINE_LENGTH
    /\ superseded = FALSE
    /\ line = NoLine

\* A superseded buffer takes no more lines.
add_line(l) ==
    /\ line = NoLine
    /\ line' = IF superseded THEN NoLine ELSE l
    /\ wanted' = wanted \o Bytes(l, LineLen[l])
    /\ UNCHANGED <<text, buffer_size, allocated, superseded>>

\* Mutant: room for one byte more is taken for granted.
FullLate == Len(text) + LineLen[line] >= buffer_size + 2

Full == Len(text) + LineLen[line] >= buffer_size + 1

Doubled == IF buffer_size * 2 < LINE_LENGTH THEN LINE_LENGTH ELSE buffer_size * 2

\* strcpy of the message over the end of the text; where the text is shorter
\* than the message, it begins in front of the buffer.
Snipped(t) == [i \in DOMAIN t |-> IF i > Len(t) - MessageLen THEN Message ELSE t[i]]

Grow ==
    /\ line # NoLine /\ Full
    /\ buffer_size' = Doubled /\ allocated' = Doubled
    /\ UNCHANGED <<text, superseded, line, wanted>>

\* realloc fails: a new buffer of the first size holds the error text, but
\* buffer_size stays doubled.  (If that malloc fails too, the suvlet exits.)
GrowFails ==
    /\ line # NoLine /\ Full
    /\ buffer_size' = Doubled /\ allocated' = LINE_LENGTH
    /\ text' = LET t == Bytes(NoCore, NoCoreLen)
               IN  IF buffer_size' > Limit THEN Snipped(t) ELSE t
    /\ superseded' = TRUE
    /\ UNCHANGED <<line, wanted>>

\* The line is copied; the buffer may be too long by that, or have been too
\* long for an earlier text.
Append_line ==
    /\ line # NoLine /\ ~Full
    /\ LET t == text \o Bytes(line, LineLen[line])
       IN  text' = IF buffer_size > Limit THEN Snipped(t) ELSE t
    /\ superseded' = (superseded \/ buffer_size > Limit)
    /\ line' = NoLine
    /\ UNCHANGED <<buffer_size, allocated, wanted>>

clear_buffer ==
    /\ line = NoLine
    /\ text' = <<>> /\ wanted' = <<>>
    /\ superseded' = FALSE
    /\ UNCHANGED <<buffer_size, allocated, line>>

AddStep == Grow \/ GrowFails \/ Append_line

\* External: a user that adds any lines and clears the buffer.
BufferNext == (\E l \in Texts : add_line(l)) \/ AddStep \/ clear_buffer

BufferSpec == BufferInit /\ [][BufferNext]_bvars

-----------------------------------------------------------------------------
(* Properties.                                                             *)

BufferTypeOK ==
    /\ text \in Seq(Texts \cup {Message, NoCore})
    /\ wanted \in Seq(Texts)
    /\ buffer_size \in Nat /\ buffer_size >= LINE_LENGTH
    /\ allocated \in LINE_LENGTH .. buffer_size
    /\ superseded \in BOOLEAN
    /\ line \in Texts \cup {NoLine}

\* add_line writes the text, the null of strcpy and one more zero.
Written == Len(text) + 2

Outside == IF Written > allocated THEN Written - allocated ELSE 0

\* No more is written behind the end of the memory than the two zeros, of a
\* text that fills the buffer, however often it grew; after a realloc that
\* failed, what buffer_size promises in excess comes on top.
OutsideBounded == Outside <= 2 + (buffer_size - allocated)

\* add_line keeps "One for null": as long as no realloc has failed, the text
\* and its null lie in the memory of the buffer.
NullInside == allocated = buffer_size => Len(text) + 1 <= allocated

\* A text that is not marked is complete.  A marked one begins with the error,
\* or with what was added, and then ends with the message.
TextKept ==
    line = NoLine =>
        \/ ~superseded /\ text = wanted
        \/ superseded /\ text # <<>> /\ text[1] = NoCore
        \/ /\ superseded /\ text # <<>> /\ Len(text) <= Len(wanted)
           /\ \A i \in DOMAIN text :
                text[i] = IF i > Len(text) - MessageLen THEN Message ELSE wanted[i]

\* The buffer holds what was added to it, and what of it is outside its memory
\* is known.
BufferSound == OutsideBounded /\ TextKept
=============================================================================
