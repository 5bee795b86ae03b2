------------------------------ MODULE SclCodec ------------------------------
(***************************************************************************)
(* The values of SCL packets: scl_queue_value and scl_write_value of       *)
(* src/scl_writer.c, scl_get_value of src/scl_reader.c, on a little-endian *)
(* host.                                                                   *)
(*                                                                         *)
(* The writer goes over the values twice: once to add up the length the    *)
(* header announces, once to write the bytes.  The reader decodes in       *)
(* place: it hands out pointers into the packet and ends strings by        *)
(* writing zeros into it, so what it returned before may change.           *)
(*                                                                         *)
(* The four words of the header are abstracted to the length; partial      *)
(* reads and writes are the subject of SclStream.  Pointers into a packet  *)
(* are positions of in_pdata, from 1.                                      *)
(***************************************************************************)
EXTENDS Integers, SequencesExt

CONSTANTS
    NULL,       \* the null pointer
    Values,     \* values the program may queue: type, object, array_len
    MaxValues,  \* bound: values of one packet
    MaxPackets  \* bound: packets

SCL_LEN_LEN == 4

\* bound: lengths fit an int, which the code does not check
INT_MAX == 2147483647

\* Bytes of a scalar, and of a member of an array.
Width == [SCL_INT |-> 4, SCL_FLOAT |-> 4, SCL_LONG |-> 8, SCL_DOUB |-> 8, SCL_BOOL |-> 1]
MemberWidth == [SCL_INT_A |-> 4, SCL_FLOAT_A |-> 4, SCL_LONG_A |-> 8, SCL_DOUB_A |-> 8,
                SCL_BOOL_A |-> 1, SCL_DATA |-> 1]

scl_type_complex == DOMAIN MemberWidth \cup {"SCL_STRING_A"}
scl_type == DOMAIN Width \cup {"SCL_STRING"} \cup scl_type_complex

Byte == 0 .. 255

\* Bytes of a string in C, without its end; or no string.
CString == Seq(1 .. 255) \cup {NULL}

\* An object has as many bytes, or strings, as its type and array_len say; it
\* may be a null pointer if it is a string or an array of no members.
WellFormed(v) ==
    \/ v.type \in DOMAIN Width /\ v.object \in Seq(Byte) /\ Len(v.object) = Width[v.type]
    \/ v.type = "SCL_STRING" /\ v.object \in CString
    \/ v.type \in scl_type_complex /\ v.array_len = 0 /\ v.object = NULL
    \/ /\ v.type \in DOMAIN MemberWidth
       /\ v.object \in Seq(Byte) /\ Len(v.object) = MemberWidth[v.type] * v.array_len
    \/ /\ v.type = "SCL_STRING_A" /\ v.object # NULL
       /\ v.object \in Seq(CString) /\ Len(v.object) = v.array_len

ASSUME CodecAssumption ==
    /\ \A v \in Values : v.type \in scl_type /\ v.array_len \in Nat /\ WellFormed(v)
    /\ NULL \notin Nat \cup Seq(Byte)
    /\ MaxValues \in Nat /\ MaxPackets \in Nat

VARIABLES
    out_ele_queue,  \* the queued values
    out_packet_len, \* their bytes, as scl_queue_value counted them
    stream,         \* bytes written and not read
    in_pdata,       \* the incoming packet
    in_pcursor,     \* next position in it
    results,        \* what scl_get_value returned from it
    due,            \* the values it was made of
    unread,         \* those of the packets still in the stream
    packets         \* packets written so far

writer == <<out_ele_queue, out_packet_len, packets>>
reader == <<in_pdata, in_pcursor, results, due>>
vars == <<writer, reader, stream, unread>>

TypeOK ==
    /\ out_ele_queue \in Seq(Values) /\ Len(out_ele_queue) <= MaxValues
    /\ out_packet_len \in Nat
    /\ stream \in Seq(Byte) /\ in_pdata \in Seq(Byte)
    /\ in_pcursor \in Nat \ {0}
    /\ due \in Seq(Values) /\ Len(results) <= Len(due)
    /\ unread \in Seq(Seq(Values))
    /\ packets \in 0 .. MaxPackets

Init ==
    /\ out_ele_queue = <<>> /\ out_packet_len = 0 /\ packets = 0
    /\ stream = <<>> /\ unread = <<>>
    /\ in_pdata = <<>> /\ in_pcursor = 1 /\ results = <<>> /\ due = <<>>

-----------------------------------------------------------------------------
(* The writer.                                                             *)

Text(s) == IF s = NULL THEN <<>> ELSE s

StrLen(s) == Len(Text(s))

StrLens(strings) == Len(FlattenSeq([i \in DOMAIN strings |-> Text(strings[i])]))

\* The bytes a value adds to out_packet_len.
QueuedLen(v) ==
    CASE v.type \in DOMAIN Width -> Width[v.type]
      [] v.type \in DOMAIN MemberWidth -> SCL_LEN_LEN + MemberWidth[v.type] * v.array_len
      [] v.type = "SCL_STRING" -> SCL_LEN_LEN + 1 + StrLen(v.object)
      [] v.type = "SCL_STRING_A" ->
            SCL_LEN_LEN + 1
                + IF v.object = NULL THEN 0 ELSE SCL_LEN_LEN * v.array_len + StrLens(v.object)

scl_queue_value(v) ==
    /\ Len(out_ele_queue) < MaxValues /\ packets < MaxPackets
    /\ out_packet_len + QueuedLen(v) <= INT_MAX
    /\ out_ele_queue' = Append(out_ele_queue, v)
    /\ out_packet_len' = out_packet_len + QueuedLen(v)
    /\ UNCHANGED <<reader, stream, unread, packets>>

\* Mutant: only the lowest byte is filled.
WordOneByte(n) == [i \in 1 .. SCL_LEN_LEN |-> IF i = 1 THEN n ELSE 0]

\* An int as its four bytes.
Word(n) == <<n % 256, (n \div 256) % 256, (n \div 65536) % 256, (n \div 16777216) % 256>>

WithLength(s) == Word(StrLen(s)) \o Text(s)

\* The bytes scl_write_value writes.
Written(v) ==
    IF v.type \in scl_type_complex /\ v.array_len = 0
      THEN Word(0) \o IF v.type = "SCL_STRING_A" THEN <<0>> ELSE <<>>
      ELSE CASE v.type \in DOMAIN Width -> v.object
             [] v.type \in DOMAIN MemberWidth -> Word(v.array_len) \o v.object
             [] v.type = "SCL_STRING" -> WithLength(v.object) \o <<0>>
             [] v.type = "SCL_STRING_A" ->
                    Word(v.array_len)
                        \o FlattenSeq([i \in 1 .. v.array_len |-> WithLength(v.object[i])])
                        \o <<0>>

Body(values) == FlattenSeq([k \in DOMAIN values |-> Written(values[k])])

scl_write_out ==
    /\ packets < MaxPackets
    /\ stream' = stream \o Word(out_packet_len) \o Body(out_ele_queue)
    /\ unread' = Append(unread, out_ele_queue)
    /\ packets' = packets + 1
    /\ out_ele_queue' = <<>> /\ out_packet_len' = 0
    /\ UNCHANGED reader

-----------------------------------------------------------------------------
(* The reader.                                                             *)

\* What lies behind the packet is not known; 0 stands for it.
At(d, p) == IF p \in DOMAIN d THEN d[p] ELSE 0

Unword(d, p) ==
    At(d, p) + 256 * At(d, p + 1) + 65536 * At(d, p + 2) + 16777216 * At(d, p + 3)

Zeroed(d, p, n) == [i \in DOMAIN d |-> IF i \in p .. p + n - 1 THEN 0 ELSE d[i]]

\* The program may leave values of the packet before unread; it is freed.
scl_read_packet ==
    /\ unread # <<>>
    /\ LET end == SCL_LEN_LEN + Unword(stream, 1)
       IN  /\ Len(stream) >= end
           /\ in_pdata' = SubSeq(stream, SCL_LEN_LEN + 1, end)
           /\ stream' = SubSeq(stream, end + 1, Len(stream))
    /\ in_pcursor' = 1
    /\ results' = <<>>
    /\ due' = Head(unread) /\ unread' = Tail(unread)
    /\ UNCHANGED writer

\* Mutant: an empty string is not stepped over.
GetStringShort(d, p) ==
    LET n == Unword(d, p)
        s == p + SCL_LEN_LEN
    IN  IF n = 0 THEN [retval |-> NULL, pdata |-> d, pcursor |-> s]
        ELSE [retval |-> s, pdata |-> Zeroed(d, s + n, 1), pcursor |-> s + n + 1]

GetString(d, p) ==
    LET n == Unword(d, p)
        s == p + SCL_LEN_LEN
    IN  IF n = 0 THEN [retval |-> NULL, pdata |-> d, pcursor |-> s + 1]
        ELSE [retval |-> s, pdata |-> Zeroed(d, s + n, 1), pcursor |-> s + n + 1]

\* Mutant: the length fields stay as they are.
NextPointerKeep(got) ==
    LET n == Unword(got.pdata, got.pcursor)
        s == got.pcursor + SCL_LEN_LEN
    IN  [retval |-> Append(got.retval, IF n = 0 THEN NULL ELSE s),
         pdata |-> got.pdata,
         pcursor |-> s + n]

\* One string of an array: its length field is zeroed, which ends the string
\* before it.
NextPointer(got) ==
    LET n == Unword(got.pdata, got.pcursor)
        s == got.pcursor + SCL_LEN_LEN
    IN  [retval |-> Append(got.retval, IF n = 0 THEN NULL ELSE s),
         pdata |-> Zeroed(got.pdata, got.pcursor, SCL_LEN_LEN),
         pcursor |-> s + n]

GetStrings(d, p) ==
    LET array_len == Unword(d, p)
        got[count \in 0 .. array_len] ==
            IF count = 0 THEN [retval |-> <<>>, pdata |-> d, pcursor |-> p + SCL_LEN_LEN]
            ELSE NextPointer(got[count - 1])
        all == got[array_len]
    IN  [retval |-> all.retval, pdata |-> Zeroed(all.pdata, all.pcursor, 1),
         pcursor |-> all.pcursor + 1]

Got(type, d, p) ==
    CASE type \in DOMAIN Width -> [retval |-> p, pdata |-> d, pcursor |-> p + Width[type]]
      [] type \in DOMAIN MemberWidth ->
            LET array == p + SCL_LEN_LEN
            IN  [retval |-> array, pdata |-> d,
                 pcursor |-> array + MemberWidth[type] * Unword(d, p)]
      [] type = "SCL_STRING" -> GetString(d, p)
      [] type = "SCL_STRING_A" -> GetStrings(d, p)

\* The program asks for the values in the types they were queued with.
scl_get_value ==
    /\ Len(results) < Len(due)
    /\ LET got == Got(due[Len(results) + 1].type, in_pdata, in_pcursor)
       IN  /\ results' = Append(results, got.retval)
           /\ in_pdata' = got.pdata
           /\ in_pcursor' = got.pcursor
    /\ UNCHANGED <<writer, stream, unread, due>>

Done ==
    /\ packets = MaxPackets /\ unread = <<>> /\ Len(results) = Len(due)
    /\ UNCHANGED vars

Next ==
    \/ \E v \in Values : scl_queue_value(v)
    \/ scl_write_out \/ scl_read_packet \/ scl_get_value \/ Done

Spec == Init /\ [][Next]_vars

-----------------------------------------------------------------------------
(* Properties.                                                             *)

\* The two passes of the writer agree: the length scl_queue_value adds up is
\* the number of bytes scl_write_value will write.
Framed == out_packet_len = Len(Body(out_ele_queue))

\* Reader and writer stay in step: what is left of the stream is whole packets
\* with their headers, so no header is looked for in the middle of a packet.
InStep ==
    stream = FlattenSeq([k \in DOMAIN unread |-> Word(Len(Body(unread[k]))) \o Body(unread[k])])

\* The cursor of scl_get_value never leaves the packet, and stands at its end
\* when every value was taken.
CursorInside ==
    /\ in_pcursor <= Len(in_pdata) + 1
    /\ Len(results) = Len(due) => in_pcursor = Len(in_pdata) + 1

\* The length announced, the bytes written and the bytes taken agree, from the
\* queue of the writer to the cursor of the reader.
Aligned == Framed /\ InStep /\ CursorInside

\* The string a pointer into the packet denotes: up to the next zero, which
\* has to be there.
StringAt(d, p) ==
    IF p = NULL THEN NULL
    ELSE LET ends == {q \in p .. Len(d) : d[q] = 0}
         IN  IF ends = {} THEN <<0>> ELSE SubSeq(d, p, Min(ends) - 1)

Denoted(v, r, d) ==
    CASE v.type \in DOMAIN Width -> SubSeq(d, r, r + Width[v.type] - 1)
      [] v.type \in DOMAIN MemberWidth -> SubSeq(d, r, r + MemberWidth[v.type] * v.array_len - 1)
      [] v.type = "SCL_STRING" -> StringAt(d, r)
      [] v.type = "SCL_STRING_A" -> [i \in DOMAIN r |-> StringAt(d, r[i])]

\* An empty string arrives as a null pointer, a null array as an empty one.
Arrives(s) == IF StrLen(s) = 0 THEN NULL ELSE s
Sent(v) ==
    IF v.type = "SCL_STRING" THEN Arrives(v.object)
    ELSE IF v.object = NULL THEN <<>>
    ELSE IF v.type = "SCL_STRING_A" THEN [i \in DOMAIN v.object |-> Arrives(v.object[i])]
    ELSE v.object

\* Every pointer scl_get_value has returned from the packet still denotes the
\* value that was queued, whatever it has written into the packet since.
Decoded == \A k \in DOMAIN results : Denoted(due[k], results[k], in_pdata) = Sent(due[k])
=============================================================================
