----------------------------- MODULE SclStream ------------------------------
(***************************************************************************)
(* One direction of a connection: scl_write_out of src/scl_writer.c on one *)
(* side, scl_read_packet of src/scl_reader.c on the other, and the socket  *)
(* or pipe between them.                                                   *)
(*                                                                         *)
(* The unit is the word of SCL_INT_LEN bytes.  A packet is a header of     *)
(* four words, each written by a call of scl_write of its own, and the     *)
(* words of its values, one or more calls of scl_write for each value.     *)
(* Both sides transfer as much as the pipe takes or has, poll a            *)
(* non-blocking descriptor until SCL_TIMEOUT has passed without progress,  *)
(* and nobody tells the other side when a transfer was given up.           *)
(*                                                                         *)
(* Nothing marks where a packet begins: every word carries its packet and  *)
(* position for the properties only, the reader sees its value v.          *)
(***************************************************************************)
EXTENDS Integers, Sequences

CONSTANTS
    Packets,      \* the packets to write: [op, values], a value the lengths
                  \* of the scl_write calls that write it, one after the other
    DataWord,     \* what a word of data is worth when it is taken for a header
    Capacity,     \* words the pipe holds
    SclTimeout,   \* SCL_TIMEOUT in ticks of the clock
    Blockings,    \* sets of sides whose descriptors may be without O_NONBLOCK
    MayDie        \* which sides may end at any moment

Sides == {"writer", "reader"}

ASSUME StreamAssumption ==
    /\ Packets \in Seq([op : Nat, values : Seq(Nat)])
    /\ DataWord \in Nat
    /\ Capacity \in Nat \ {0} /\ SclTimeout \in Nat \ {0}
    /\ Blockings \subseteq SUBSET Sides
    /\ MayDie \subseteq Sides

VARIABLES
    pipe,     \* the words on their way
    wpkt,     \* the packet that is, or was last, written
    wcall,    \* the scl_write call that runs, 0 if none does
    wpos,     \* words of the packet that are written or given up
    widle,    \* ticks since that call began or last made progress
    rpc,      \* where scl_read_packet is: "idle", "header" or "payload"
    rbuf,     \* the words its scl_read has so far
    rneed,    \* and how many it still needs
    ridle,    \* ticks since it began or last made progress
    opcode,   \* in_packet_opcode
    result,   \* of the last scl_read_packet
    received, \* the packets it has returned
    blocking, \* the sides with a blocking descriptor
    alive,    \* the sides that run
    cut       \* a transfer ended in the middle of a packet

writer == <<wpkt, wcall, wpos, widle>>
reader == <<rpc, rbuf, rneed, ridle, opcode, result, received>>
vars == <<pipe, writer, reader, blocking, alive, cut>>

Least(a, b) == IF a < b THEN a ELSE b

-----------------------------------------------------------------------------
(* Packets as words.                                                       *)

\* The scl_write calls of one scl_write_out: each word of the header on its
\* own, then the values.
Calls(n) == 4 + Len(Packets[n].values)

\* How many words of the packet each of them ends with.
CallEnds(n) ==
    LET end[i \in 0 .. Calls(n)] ==
            IF i <= 4 THEN i ELSE end[i - 1] + Packets[n].values[i - 4]
    IN  end

PacketLen(n) == CallEnds(n)[Calls(n)]

\* out_packet_len
PayloadLen(n) == PacketLen(n) - 4

\* The header is out_packet_opcode, reserved1, reserved2, out_packet_len.
Word(n, i) ==
    [pkt |-> n, pos |-> i,
     v |-> CASE i = 1 -> Packets[n].op
             [] i \in {2, 3} -> 0
             [] i = 4 -> PayloadLen(n)
             [] OTHER -> DataWord]

\* The words behind the first a ones, k of them.
WordsOf(n, a, k) == [i \in 1 .. k |-> Word(n, a + i)]

Payload(n) == WordsOf(n, 4, PayloadLen(n))

\* What a reader is given of a packet.
Message(n) == [op |-> Packets[n].op, data |-> Payload(n)]

Messages == [n \in DOMAIN Packets |-> Message(n)]

-----------------------------------------------------------------------------
Init ==
    /\ pipe = <<>>
    /\ wpkt = 0 /\ wcall = 0 /\ wpos = 0 /\ widle = 0
    /\ rpc = "idle" /\ rbuf = <<>> /\ rneed = 0 /\ ridle = 0
    /\ opcode = 0 /\ result = "none" /\ received = <<>>
    /\ blocking \in Blockings
    /\ alive = Sides
    /\ cut = FALSE

(***************************************************************************)
(* The writer.                                                             *)
(***************************************************************************)

\* scl_write_out is called for the next packet.
WriteOut ==
    /\ "writer" \in alive
    /\ wcall = 0 /\ wpkt < Len(Packets)
    /\ wpkt' = wpkt + 1
    /\ wcall' = 1 /\ wpos' = 0 /\ widle' = 0
    /\ UNCHANGED <<pipe, reader, blocking, alive, cut>>

CallEnd == CallEnds(wpkt)[wcall]

\* What scl_write_out does when the call returns.
Following == IF wcall < Calls(wpkt) THEN wcall + 1 ELSE 0

\* Bug: a short write ends the call as a whole one does.
Put_short(k) ==
    /\ "writer" \in alive
    /\ wcall # 0 /\ wpos + k <= CallEnd
    /\ "reader" \in alive \/ k = 0
    /\ Len(pipe) + k <= Capacity
    /\ k = 0 => wpos = CallEnd
    /\ pipe' = pipe \o WordsOf(wpkt, wpos, k)
    /\ wpos' = CallEnd
    /\ wcall' = Following
    /\ widle' = 0
    /\ UNCHANGED <<wpkt, reader, blocking, alive, cut>>

\* Bug: the chunk pointer is not moved, so the rest of the call begins with
\* the words already written.
Put_rewind(k) ==
    /\ "writer" \in alive
    /\ wcall # 0 /\ wpos + k <= CallEnd
    /\ "reader" \in alive \/ k = 0
    /\ Len(pipe) + k <= Capacity
    /\ k = 0 => wpos = CallEnd
    /\ pipe' = pipe \o WordsOf(wpkt, CallEnds(wpkt)[wcall - 1], k)
    /\ wpos' = wpos + k
    /\ wcall' = IF wpos + k = CallEnd THEN Following ELSE wcall
    /\ widle' = 0
    /\ UNCHANGED <<wpkt, reader, blocking, alive, cut>>

\* write(2) takes k words of the call; the call returns when it has none left.
\* A write of no words succeeds, and it is all that an empty value is.
Put(k) ==
    /\ "writer" \in alive
    /\ wcall # 0 /\ wpos + k <= CallEnd
    /\ "reader" \in alive \/ k = 0
    /\ Len(pipe) + k <= Capacity
    /\ k = 0 => wpos = CallEnd
    /\ pipe' = pipe \o WordsOf(wpkt, wpos, k)
    /\ wpos' = wpos + k
    /\ wcall' = IF wpos + k = CallEnd THEN Following ELSE wcall
    /\ widle' = 0
    /\ UNCHANGED <<wpkt, reader, blocking, alive, cut>>

GiveUp ==
    /\ wpos' = CallEnd
    /\ wcall' = Following
    /\ widle' = 0
    /\ cut' = TRUE
    /\ UNCHANGED <<pipe, wpkt, reader, blocking, alive>>

\* scl_write returns -1, after SCL_TIMEOUT without room or at once when the
\* reader is gone (SIGPIPE is ignored).  The words it has not written are
\* given up, and scl_write_out goes on with the next call.
WriteFails ==
    /\ "writer" \in alive
    /\ wcall # 0 /\ wpos < CallEnd
    /\ \/ "reader" \notin alive
       \/ "writer" \notin blocking /\ Len(pipe) = Capacity /\ widle = SclTimeout
    /\ GiveUp

\* Another errno of write(2), at any time.
WriteError == "writer" \in alive /\ wcall # 0 /\ wpos < CallEnd /\ GiveUp

(***************************************************************************)
(* The reader.                                                             *)
(***************************************************************************)

\* scl_read begins: n words are to be read.
scl_read(n) == rbuf' = <<>> /\ rneed' = n /\ ridle' = 0

\* scl_read_packet is called.
ReadPacket ==
    /\ "reader" \in alive
    /\ rpc = "idle"
    /\ rpc' = "header"
    /\ result' = "none"
    /\ scl_read(4)
    /\ UNCHANGED <<pipe, writer, opcode, received, blocking, alive, cut>>

\* Bug: every read(2) asks for the whole length again.
Take_whole(k) ==
    /\ "reader" \in alive
    /\ rpc # "idle" /\ rneed > 0
    /\ k \in 1 .. Least(Len(pipe), Len(rbuf) + rneed)
    /\ rbuf' = rbuf \o SubSeq(pipe, 1, k)
    /\ pipe' = SubSeq(pipe, k + 1, Len(pipe))
    /\ rneed' = rneed - k
    /\ ridle' = 0
    /\ UNCHANGED <<writer, rpc, opcode, result, received, blocking, alive, cut>>

\* read(2) gives k words.
Take(k) ==
    /\ "reader" \in alive
    /\ rpc # "idle" /\ rneed > 0
    /\ k \in 1 .. Least(Len(pipe), rneed)
    /\ rbuf' = rbuf \o SubSeq(pipe, 1, k)
    /\ pipe' = SubSeq(pipe, k + 1, Len(pipe))
    /\ rneed' = rneed - k
    /\ ridle' = 0
    /\ UNCHANGED <<writer, rpc, opcode, result, received, blocking, alive, cut>>

\* The header is there: the opcode is set, the last packet freed, and a
\* payload of as many words as the fourth word says is read.
HeaderRead ==
    /\ "reader" \in alive
    /\ rpc = "header" /\ rneed = 0
    /\ opcode' = rbuf[1].v
    /\ rpc' = "payload"
    /\ scl_read(rbuf[4].v)
    /\ UNCHANGED <<pipe, writer, result, received, blocking, alive, cut>>

\* The payload is there.  An empty one makes scl_read_packet return 0.
PayloadRead ==
    /\ "reader" \in alive
    /\ rpc = "payload" /\ rneed = 0
    /\ rpc' = "idle"
    /\ result' = IF rbuf = <<>> THEN "zero" ELSE "bytes"
    /\ received' = Append(received, [op |-> opcode, data |-> rbuf])
    /\ rbuf' = <<>>
    /\ UNCHANGED <<pipe, writer, rneed, ridle, opcode, blocking, alive, cut>>

\* scl_read_packet returns r without a packet.
ReadStops(r) ==
    /\ rpc' = "idle"
    /\ result' = r
    /\ rbuf' = <<>> /\ rneed' = 0 /\ ridle' = 0
    /\ UNCHANGED <<pipe, writer, opcode, received, blocking, alive>>

\* Words it has taken are lost.
ReadFails(r) == ReadStops(r) /\ cut' = (cut \/ rpc = "payload" \/ rbuf # <<>>)

\* Another errno of read(2), at any time; what comes after it is anyone's guess.
ReadError ==
    /\ "reader" \in alive
    /\ rpc # "idle" /\ rneed > 0
    /\ ReadStops("error")
    /\ cut' = TRUE

\* read(2) returns 0: the writer is gone and the pipe is empty.
HangUp ==
    /\ "reader" \in alive
    /\ rpc # "idle" /\ rneed > 0 /\ pipe = <<>>
    /\ "writer" \notin alive
    /\ ReadFails("zero")

\* read(2) has said EAGAIN for SCL_TIMEOUT.
ReadTimeOut ==
    /\ "reader" \in alive
    /\ rpc # "idle" /\ rneed > 0 /\ pipe = <<>>
    /\ "writer" \in alive
    /\ "reader" \notin blocking /\ ridle = SclTimeout
    /\ ReadFails("error")

(***************************************************************************)
(* The clock, which both sides look at only while they poll, and the end   *)
(* of a process.                                                           *)
(***************************************************************************)
WriterPolls == "writer" \in alive /\ "writer" \notin blocking /\ wcall # 0
ReaderPolls == "reader" \in alive /\ "reader" \notin blocking /\ rpc # "idle" /\ rneed > 0

Later(idle) == Least(idle + 1, SclTimeout)

\* Bug: every EAGAIN restarts the reader's timer.
Tick_reader ==
    /\ WriterPolls \/ ReaderPolls
    /\ widle' = IF WriterPolls THEN Later(widle) ELSE widle
    /\ ridle' = 0
    /\ UNCHANGED <<pipe, wpkt, wcall, wpos, rpc, rbuf, rneed, opcode, result, received,
                   blocking, alive, cut>>

Tick ==
    /\ WriterPolls \/ ReaderPolls
    /\ widle' = IF WriterPolls THEN Later(widle) ELSE widle
    /\ ridle' = IF ReaderPolls THEN Later(ridle) ELSE ridle
    /\ UNCHANGED <<pipe, wpkt, wcall, wpos, rpc, rbuf, rneed, opcode, result, received,
                   blocking, alive, cut>>

Die(side) ==
    /\ side \in MayDie \cap alive
    /\ alive' = alive \ {side}
    /\ UNCHANGED <<pipe, writer, reader, blocking, cut>>

WriterStep == (\E k \in 0 .. Capacity : Put(k)) \/ WriteFails

ReaderStep ==
    (\E k \in 1 .. Capacity : Take(k)) \/ HeaderRead \/ PayloadRead \/ HangUp \/ ReadTimeOut

Next ==
    \/ WriteOut \/ WriterStep
    \/ ReadPacket \/ ReaderStep
    \/ WriteError \/ ReadError
    \/ Tick
    \/ \E side \in Sides : Die(side)

Spec == Init /\ [][Next]_vars

\* A process inside a transfer goes on with it, the clock goes on, and the
\* writer has all its packets to write.  The reader need not ask for them, and
\* no error of the descriptors need happen.
Fairness ==
    WF_vars(WriteOut) /\ WF_vars(WriterStep) /\ WF_vars(ReaderStep) /\ WF_vars(Tick)

FairSpec == Spec /\ Fairness

-----------------------------------------------------------------------------
(* Properties.                                                             *)

Words == [pkt : DOMAIN Packets, pos : Nat, v : Nat]

\* The types of scl_read's and scl_write's locals; the lengths left to
\* transfer (both unsigned in the code) never go below zero.
TypeOK ==
    /\ pipe \in Seq(Words) /\ Len(pipe) <= Capacity
    /\ wpkt \in 0 .. Len(Packets)
    /\ wcall = 0 \/ (wpkt # 0 /\ wcall \in 1 .. Calls(wpkt)
                      /\ wpos \in CallEnds(wpkt)[wcall - 1] .. CallEnd)
    /\ widle \in 0 .. SclTimeout /\ ridle \in 0 .. SclTimeout
    /\ rpc \in {"idle", "header", "payload"}
    /\ rbuf \in Seq(Words) /\ rneed \in Nat
    /\ opcode \in Nat /\ result \in {"none", "zero", "error", "bytes"}
    /\ blocking \subseteq Sides /\ alive \subseteq Sides /\ cut \in BOOLEAN
    /\ \A n \in DOMAIN received : received[n].op \in Nat /\ received[n].data \in Seq(Words)

\* What is left to write of a packet.
Unwritten == IF wcall = 0 THEN <<>> ELSE WordsOf(wpkt, wpos, PacketLen(wpkt) - wpos)

\* All words that were not read yet, in the order they will be read.
Unread == rbuf \o pipe \o Unwritten

Earlier(a, b) == a.pkt < b.pkt \/ (a.pkt = b.pkt /\ a.pos < b.pos)

\* Whatever fails, short writes and short reads (scl_write and scl_read's
\* p_chunk and length) neither repeat a word nor swap two.
WordsInOrder ==
    /\ \A i, j \in DOMAIN Unread : i < j => Earlier(Unread[i], Unread[j])
    /\ \A m, n \in DOMAIN received : \A i \in DOMAIN received[m].data, j \in DOMAIN received[n].data :
          m < n => Earlier(received[m].data[i], received[n].data[j])

\* scl_read_packet returns 0 only for a packet without data or when nobody
\* can write any more: a caller that sees 0 for a packet with data need not
\* read again.
ZeroIsTheEnd ==
    result = "zero" /\ ~(received # <<>> /\ received[Len(received)].data = <<>>)
        => "writer" \notin alive /\ pipe = <<>>

\* What a reader may conclude from what it gets, however a packet was cut.
ReaderSees == WordsInOrder /\ ZeroIsTheEnd

PC == INSTANCE PacketChan
        WITH sent <- IF Unwritten = <<>> THEN wpkt ELSE wpkt - 1, sound <- ~cut

\* Until a write gives up on words or a read gives up with words in hand, the
\* reader gets whole packets, in order, each with the opcode and length it was
\* sent with; a time-out between two packets, on either side, loses nothing.
Refines == PC!Spec

\* A call of scl_read_packet returns, unless it waits on a blocking descriptor
\* for a writer that has nothing to say; a call of scl_write_out returns,
\* whether its packet could be written or not.
CallsReturn ==
    /\ (rpc # "idle" /\ "reader" \notin blocking) ~> (rpc = "idle" \/ "reader" \notin alive)
    /\ (wcall # 0 /\ "writer" \notin blocking) ~> (wcall = 0 \/ "writer" \notin alive)

\* A reader that goes on asking gets every packet while both sides live and no
\* packet is cut: however small the pipe, wherever the transfers are broken
\* up, whichever side blocks, and however many reads time out before a packet.
AllDelivered ==
    []<>(rpc # "idle") => <>(received = Messages \/ cut \/ alive # Sides)
=============================================================================
