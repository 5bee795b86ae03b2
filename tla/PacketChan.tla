----------------------------- MODULE PacketChan -----------------------------
(***************************************************************************)
(* What the SCL framing of src/scl_reader.c and src/scl_writer.c promises: *)
(* a channel that hands over whole packets, in the order they were sent,   *)
(* until a transfer is cut in the middle of a packet.  From then on the    *)
(* channel promises nothing: the reader takes data for headers.            *)
(***************************************************************************)
EXTENDS Naturals, Sequences

CONSTANT Messages    \* the packets the sender will send, in order

VARIABLES
    sent,     \* how many of them have been sent
    received, \* what the reader was given
    sound     \* no transfer has been cut

chan == <<sent, received, sound>>

Init == sent = 0 /\ received = <<>> /\ sound = TRUE

Send ==
    /\ sent < Len(Messages)
    /\ sent' = sent + 1
    /\ UNCHANGED <<received, sound>>

\* The next packet, and only after all of it was sent.
Receive ==
    /\ sound
    /\ Len(received) < sent
    /\ received' = Append(received, Messages[Len(received) + 1])
    /\ UNCHANGED <<sent, sound>>

\* A transfer is cut, perhaps the one of the packet that is being sent.
Cut ==
    /\ sound' = FALSE
    /\ sent' \in {sent, sent + 1}
    /\ UNCHANGED received

\* After a cut the reader may be given anything, but no packet is taken back.
Garbage ==
    /\ ~sound
    /\ Len(received') = Len(received) + 1
    /\ SubSeq(received', 1, Len(received)) = received
    /\ UNCHANGED <<sent, sound>>

Next == Send \/ Receive \/ Cut \/ Garbage

Spec == Init /\ [][Next]_chan
=============================================================================
