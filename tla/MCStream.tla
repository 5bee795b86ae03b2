------------------------------ MODULE MCStream ------------------------------
(***************************************************************************)
(* A small instance of SclStream: a call with data between two empty       *)
(* values, and the packet without data that ends a suvlet.                 *)
(***************************************************************************)
EXTENDS SclStream

MCPackets == << [op |-> 5, values |-> <<0, 2, 0>>], [op |-> 4, values |-> <<>>] >>

\* The local socket polls, the suvlet's standard input and output block.
MCBlockings == {{}, {"writer"}, {"reader"}, {"writer", "reader"}}
=============================================================================
