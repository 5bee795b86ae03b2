------------------------------- MODULE Session -------------------------------
(***************************************************************************)
(* Connections and suvlets: open_suva_conn, create_suvlet, function calls, *)
(* destroy_suvlet and close_suva_conn of src/suva_conn.c on the local      *)
(* side, suva_get_request of a suvlet's suva_receiver.c on the remote      *)
(* side, and between them suvad, which is not in this repository.          *)
(*                                                                         *)
(* The local program is sequential and may hold several connections.  An   *)
(* operation writes its packet, blocks in scl_read_packet, and goes on     *)
(* whatever that returned; every operation has a number, which packets and *)
(* answers carry for the properties only.  Packets arrive whole and in     *)
(* order (SclStream); an answer may come after the local side gave up.     *)
(*                                                                         *)
(* Memory is the set of live blocks with their types, as in MemAbs: what   *)
(* is freed by type must be what the connection allocated.                 *)
(***************************************************************************)
EXTENDS Integers, FiniteSets, SequencesExt

CONSTANTS
    Conns,   \* connections the program opens
    Busy,    \* bound: those on which it does more than open and close
    ApiType, \* the type of connection structs (1024)
    Taken,   \* types that exist before the first connection
    Faults,  \* what suvad may do, a subset of FaultNames
    MaxOps,  \* bound: operations that write a packet
    MaxLate  \* bound: answers that come after the time-out of their read

FaultNames == {"refuse", "fail", "spawn", "die", "suvlet_die"}

ASSUME SessionAssumption ==
    /\ ApiType \in Taken /\ Taken \subseteq Nat \ {0} /\ IsFiniteSet(Taken)
    /\ Conns # {} /\ Busy \subseteq Conns
    /\ Faults \subseteq FaultNames
    /\ MaxOps \in Nat /\ MaxLate \in Nat

VARIABLES
    pc,        \* the operation that waits for an answer, or "idle"
    cur,       \* the connection it is about
    got,       \* what scl_read_packet returned to it: "no" (not yet), "ok", "failed"
    conn,      \* the connection structs
    inp,       \* the packet of each that is read and not yet freed
    types,     \* the memory types that exist
    in_mem_id, \* the static counter of open_suva_conn
    live,      \* the live memory blocks
    to,        \* packets on their way to suvad
    from,      \* packets on their way back
    far,       \* suvad and the suvlet, for every connection
    ops,       \* number of the latest operation
    late,      \* answers given up on while they were under way
    last,      \* what the latest operation returned, if it was create_suvlet
    history    \* what happened so far, for the properties

local == <<pc, cur, got, conn, inp, types, in_mem_id, live, ops, last>>
vars == <<local, to, from, far, late, history>>

\* A read that failed; a suvlet or a suvad that died; an element of an output
\* queue that was read after it was freed.
Events == {"read_failed", "suvlet_died", "suvad_died", "freed_element"}

Waiting == {"connecting", "connected", "create", "call", "destroy", "close"}

\* The result codes of suva.h that are told apart.
Codes == {"CONNECT", "CONNECTED", "CONN_FAIL", "INVORG", "OKAY", "SPAWN", "SEXISTS", "STERM",
          "SDIED", "value"}

Answer(op, code, n) == [op |-> op, code |-> code, n |-> n]
Packet(op, n) == [op |-> op, n |-> n]

\* Blocks of a connection: its struct, the packet it has read, and the empty
\* element at the end of its output queue.
Struct(c) == [what |-> "struct", of |-> c, type |-> ApiType]
Inbound(c, id) == [what |-> "packet", of |-> c, type |-> id]
Element(c, id) == [what |-> "element", of |-> c, type |-> id]

NoAnswer == Answer("RETURN", "none", 0)

\* The return value of create_suvlet, and whether it could read its answer.
NoCreate == [ret |-> 0, read |-> "no"]

TypeOK ==
    /\ pc \in Waiting \cup {"idle"} /\ cur \in Conns
    /\ got \in {"no", "ok", "failed"}
    /\ \A c \in Conns :
          /\ conn[c].st \in {"none", "opening", "held", "null", "closed"}
          /\ conn[c].sock \in BOOLEAN
          /\ conn[c].in_id \in Nat /\ conn[c].out_id \in Nat
          /\ inp[c].code \in Codes \cup {"none"}
          /\ far[c].suvlet \in {"none", "runs", "ended", "spins"}
          /\ far[c].link \in BOOLEAN /\ far[c].hung \in BOOLEAN /\ far[c].called \in BOOLEAN
    /\ \A b \in live : b.of \in Conns /\ b.type \in types
    /\ ops \in 0 .. MaxOps /\ late \in 0 .. MaxLate
    /\ history \subseteq Events

Init ==
    /\ pc = "idle" /\ cur = (CHOOSE c \in Conns : TRUE) /\ got = "no"
    /\ conn = [c \in Conns |-> [st |-> "none", sock |-> FALSE, in_id |-> 0, out_id |-> 0]]
    /\ inp = [c \in Conns |-> NoAnswer]
    /\ types = Taken /\ in_mem_id = 0
    /\ live = {}
    /\ to = [c \in Conns |-> <<>>] /\ from = [c \in Conns |-> <<>>]
    /\ far = [c \in Conns |-> [link |-> TRUE, suvlet |-> "none", stdin |-> <<>>, hung |-> FALSE,
                               called |-> FALSE]]
    /\ ops = 0 /\ late = 0
    /\ last = NoCreate
    /\ history = {}

-----------------------------------------------------------------------------
(* Steps of the local library.                                             *)

\* The loops of open_suva_conn around mem_add_type: type 0 is refused, then
\* numbers from a counter on, until one is new.
FreeType(after, used) ==
    CHOOSE m \in after + 1 .. after + 2 + Cardinality(used) :
        m \notin used /\ \A k \in after + 1 .. m - 1 : k \in used

\* scl_free_packet_mem is mem_free_all of the inbound type.
scl_free_packet_mem(c, blocks) == {b \in blocks : b.type # conn[c].in_id}

\* An operation on a connection the program holds writes its packet while these
\* blocks are live; the elements it queued are freed on the way, the last and
\* empty one stays.
scl_write_out(c, op, wait, blocks) ==
    /\ pc = "idle" /\ ops < MaxOps
    /\ conn[c].st = "held"
    /\ ops' = ops + 1
    /\ to' = IF far[c].link THEN [to EXCEPT ![c] = Append(@, Packet(op, ops + 1))] ELSE to
    /\ pc' = wait /\ cur' = c /\ got' = "no"
    /\ live' = blocks
    /\ history' = IF Element(c, conn[c].out_id) \in blocks THEN history
                  ELSE history \cup {"freed_element"}
    /\ last' = NoCreate
    /\ UNCHANGED <<conn, inp, types, in_mem_id, from, far, late>>

\* The operation that waited in pc goes on.
Goes(wait) == pc = wait /\ got # "no"

\* It returns to the program.
Returns ==
    /\ pc' = "idle" /\ got' = "no"
    /\ UNCHANGED <<cur, types, in_mem_id, to, from, far, ops, late, history>>

(***************************************************************************)
(* open_suva_conn.                                                         *)
(***************************************************************************)

\* No host, no socket, no connection: the struct and the socket are released.
OpenEarly(c) ==
    /\ pc = "idle"
    /\ conn[c].st = "none"
    /\ conn' = [conn EXCEPT ![c].st = "null"]
    /\ UNCHANGED <<pc, cur, got, inp, types, in_mem_id, live, to, from, far, ops, late, last, history>>

\* Bug: the outbound type is used, but never added.
Open_unregistered(c) ==
    LET in == FreeType(in_mem_id, types)
        out == FreeType(in, types \cup {in})
    IN  /\ pc = "idle" /\ ops < MaxOps
        /\ conn[c].st = "none"
        /\ conn' = [conn EXCEPT ![c] = [st |-> "opening", sock |-> TRUE, in_id |-> in, out_id |-> out]]
        /\ types' = types \cup {in}
        /\ in_mem_id' = in
        /\ live' = live \cup {Struct(c), Element(c, out)}
        /\ ops' = ops + 1
        /\ to' = [to EXCEPT ![c] = Append(@, Packet("OCONN", ops + 1))]
        /\ pc' = "connecting" /\ cur' = c /\ got' = "no"
        /\ last' = NoCreate
        /\ UNCHANGED <<inp, from, far, late, history>>

\* Bug: the result of mem_add_type is not looked at.
Open_blind(c) ==
    LET in == in_mem_id + 1
        out == in + 1
    IN  /\ pc = "idle" /\ ops < MaxOps
        /\ conn[c].st = "none"
        /\ conn' = [conn EXCEPT ![c] = [st |-> "opening", sock |-> TRUE, in_id |-> in, out_id |-> out]]
        /\ types' = types \cup {in, out}
        /\ in_mem_id' = in
        /\ live' = live \cup {Struct(c), Element(c, out)}
        /\ ops' = ops + 1
        /\ to' = [to EXCEPT ![c] = Append(@, Packet("OCONN", ops + 1))]
        /\ pc' = "connecting" /\ cur' = c /\ got' = "no"
        /\ last' = NoCreate
        /\ UNCHANGED <<inp, from, far, late, history>>

\* The connection is made: both types are found and added, the queue gets its
\* element, and SCL_OCONN is written.
Open(c) ==
    LET in == FreeType(in_mem_id, types)
        out == FreeType(in, types \cup {in})
    IN  /\ pc = "idle" /\ ops < MaxOps
        /\ conn[c].st = "none"
        /\ conn' = [conn EXCEPT ![c] = [st |-> "opening", sock |-> TRUE, in_id |-> in, out_id |-> out]]
        /\ types' = types \cup {in, out}
        /\ in_mem_id' = in
        /\ live' = live \cup {Struct(c), Element(c, out)}
        /\ ops' = ops + 1
        /\ to' = [to EXCEPT ![c] = Append(@, Packet("OCONN", ops + 1))]
        /\ pc' = "connecting" /\ cur' = c /\ got' = "no"
        /\ last' = NoCreate
        /\ UNCHANGED <<inp, from, far, late, history>>

\* The wrong message: the socket is closed, packets and struct are freed, and
\* NULL is returned.  The queue's last element and both types stay.
Refused(c) ==
    /\ conn' = [conn EXCEPT ![c].st = "null", ![c].sock = FALSE]
    /\ inp' = [inp EXCEPT ![c] = NoAnswer]
    /\ live' = scl_free_packet_mem(c, live) \ {Struct(c)}
    /\ UNCHANGED last
    /\ Returns

\* The 'connecting' message.  When it could not be read NULL is returned, and
\* everything stays as it is.
Connecting ==
    /\ Goes("connecting")
    /\ \/ /\ got = "failed"
          /\ conn' = [conn EXCEPT ![cur].st = "null"]
          /\ UNCHANGED <<inp, live, last>>
          /\ Returns
       \/ got = "ok" /\ inp[cur].code # "CONNECT" /\ Refused(cur)
       \/ /\ got = "ok" /\ inp[cur].code = "CONNECT"
          /\ pc' = "connected" /\ got' = "no"
          /\ UNCHANGED <<cur, conn, inp, types, in_mem_id, live, to, from, far, ops, late, last, history>>

\* What a result code is read to be: after a read that failed the cursor is
\* past the values of the last packet, or in freed memory.
ResultCodes(good) == IF got = "ok" THEN {inp[cur].code} ELSE {good, "none"}

\* The 'connected' message.
Connected ==
    /\ Goes("connected")
    /\ \E code \in ResultCodes("CONNECTED") :
         \/ code # "CONNECTED" /\ Refused(cur)
         \/ /\ code = "CONNECTED"
            /\ conn' = [conn EXCEPT ![cur].st = "held"]
            /\ inp' = [inp EXCEPT ![cur] = NoAnswer]
            /\ live' = scl_free_packet_mem(cur, live)
            /\ UNCHANGED last
            /\ Returns

(***************************************************************************)
(* Operations on an open connection.                                       *)
(***************************************************************************)
Create(c) == scl_write_out(c, "CSUVLET", "create", live)

\* Bug: the packet is freed only when all is well.
CreateReturns_keep ==
    /\ Goes("create")
    /\ \E code \in ResultCodes("OKAY") :
         /\ last' = [ret |-> IF code = "OKAY" THEN 1 ELSE 0, read |-> got]
         /\ live' = IF code = "OKAY" THEN scl_free_packet_mem(cur, live) ELSE live
    /\ UNCHANGED <<conn, inp>>
    /\ Returns

CreateReturns ==
    /\ Goes("create")
    /\ \E code \in ResultCodes("OKAY") :
         last' = [ret |-> IF code = "OKAY" THEN 1 ELSE 0, read |-> got]
    /\ live' = scl_free_packet_mem(cur, live)
    /\ inp' = [inp EXCEPT ![cur] = NoAnswer]
    /\ UNCHANGED conn
    /\ Returns

\* A function the suvlet has, and one it does not have.
Call(c) ==
    \/ scl_write_out(c, "FCALL", "call", live)
    \/ scl_write_out(c, "FCALL unknown", "call", live)

\* Bug: the answer nobody cares about is not read.
Destroy_nowait(c) == scl_write_out(c, "DSUVLET", "idle", live)

Destroy(c) == scl_write_out(c, "DSUVLET", "destroy", live)

\* A call or destroy_suvlet frees what it has read.
CallReturns ==
    /\ Goes("call") \/ Goes("destroy")
    /\ live' = scl_free_packet_mem(cur, live)
    /\ inp' = [inp EXCEPT ![cur] = NoAnswer]
    /\ UNCHANGED <<conn, last>>
    /\ Returns

\* close_suva_conn frees the last element of the queue, then packets, and then
\* lets scl_write_out walk the queue from that element.  mem_free has cleared
\* it and nothing was allocated since, so the walk ends there.
Close(c) ==
    scl_write_out(c, "CCONN", "close",
                  scl_free_packet_mem(c, live \ {Element(c, conn[c].out_id)}))

CloseReturns ==
    /\ Goes("close")
    /\ conn' = [conn EXCEPT ![cur].st = "closed", ![cur].sock = FALSE]
    /\ inp' = [inp EXCEPT ![cur] = NoAnswer]
    /\ live' = scl_free_packet_mem(cur, live) \ {Struct(cur)}
    /\ UNCHANGED last
    /\ Returns

(***************************************************************************)
(* scl_read_packet, on whole packets.                                      *)
(***************************************************************************)
Reads == pc \in Waiting /\ got = "no"

\* The last packet is freed, the next one takes its place.
ReadPacket ==
    /\ Reads
    /\ from[cur] # <<>>
    /\ from' = [from EXCEPT ![cur] = Tail(@)]
    /\ inp' = [inp EXCEPT ![cur] = Head(from[cur])]
    /\ live' = scl_free_packet_mem(cur, live) \cup {Inbound(cur, conn[cur].in_id)}
    /\ got' = "ok"
    /\ UNCHANGED <<pc, cur, conn, types, in_mem_id, to, far, ops, late, last, history>>

\* An answer may still come.
UnderWay(c) ==
    \/ to[c] # <<>>
    \/ far[c].suvlet = "runs" /\ \E i \in DOMAIN far[c].stdin : far[c].stdin[i].op = "FCALL"

\* Bug: a hang-up is polled like a descriptor that has no data.
ReadFails_poll ==
    /\ Reads
    /\ from[cur] = <<>> /\ far[cur].link
    /\ late' = IF UnderWay(cur) THEN late + 1 ELSE late
    /\ late' <= MaxLate
    /\ got' = "failed"
    /\ history' = history \cup {"read_failed"}
    /\ UNCHANGED <<pc, cur, conn, inp, types, in_mem_id, live, to, from, far, ops, last>>

\* SCL_TIMEOUT has passed, or the peer has hung up, before a header came.
ReadFails ==
    /\ Reads
    /\ from[cur] = <<>>
    /\ late' = IF far[cur].link /\ UnderWay(cur) THEN late + 1 ELSE late
    /\ late' <= MaxLate
    /\ got' = "failed"
    /\ history' = history \cup {"read_failed"}
    /\ UNCHANGED <<pc, cur, conn, inp, types, in_mem_id, live, to, from, far, ops, last>>

\* The header of the last packet came, and what follows it does not, because
\* suvad went away while it wrote it: the last packet is freed and the new one
\* allocated before the read fails.
ReadCut ==
    /\ Reads
    /\ ~far[cur].link /\ Len(from[cur]) = 1
    /\ from' = [from EXCEPT ![cur] = Tail(@)]
    /\ inp' = [inp EXCEPT ![cur] = [Head(from[cur]) EXCEPT !.code = "none"]]
    /\ live' = scl_free_packet_mem(cur, live) \cup {Inbound(cur, conn[cur].in_id)}
    /\ got' = "failed"
    /\ history' = history \cup {"read_failed"}
    /\ UNCHANGED <<pc, cur, conn, types, in_mem_id, to, far, ops, late, last>>

-----------------------------------------------------------------------------
(***************************************************************************)
(* External: suvad.  It takes one packet after another, starts and feeds   *)
(* the suvlet, and passes its answers on.                                  *)
(***************************************************************************)
Sends(c, answers) == from' = [from EXCEPT ![c] = @ \o answers]

Suvad(c) ==
    LET n == Head(to[c]).n
        op == Head(to[c]).op
        runs == far[c].suvlet = "runs"
        Says(code) == Sends(c, <<Answer("RETURN", code, n)>>)
        Stdin(p) == far' = [far EXCEPT ![c].stdin = Append(@, p)]
    IN  /\ far[c].link /\ to[c] # <<>>
        /\ to' = [to EXCEPT ![c] = Tail(@)]
        /\ \/ /\ op = "OCONN" /\ UNCHANGED far
              /\ \/ Sends(c, <<Answer("RETURN", "CONNECT", n), Answer("RETURN", "CONNECTED", n)>>)
                 \/ "refuse" \in Faults /\ Says("INVORG")
                 \/ /\ "fail" \in Faults
                    /\ Sends(c, <<Answer("RETURN", "CONNECT", n), Answer("RETURN", "CONN_FAIL", n)>>)
           \/ op \notin {"OCONN", "CCONN", "CSUVLET"} /\ ~runs /\ Says("SEXISTS") /\ UNCHANGED far
           \/ op = "CSUVLET" /\ runs /\ Says("SEXISTS") /\ UNCHANGED far
           \/ op = "CSUVLET" /\ ~runs /\ "spawn" \in Faults /\ Says("SPAWN") /\ UNCHANGED far
           \/ /\ op = "CSUVLET" /\ ~runs /\ Says("OKAY")
              /\ far' = [far EXCEPT ![c].suvlet = "runs", ![c].stdin = <<>>, ![c].called = FALSE]
           \/ op = "DSUVLET" /\ runs /\ Says("STERM") /\ Stdin(Packet(op, n))
           \/ op \in {"FCALL", "FCALL unknown"} /\ runs /\ Stdin(Packet(op, n)) /\ UNCHANGED from
           \/ op = "CCONN" /\ Says("OKAY") /\ far' = [far EXCEPT ![c].hung = TRUE]
        /\ UNCHANGED <<local, late, history>>

\* External: suvad dies, and with it both pipes of the suvlet.
SuvadDies(c) ==
    /\ "die" \in Faults
    /\ far[c].link
    /\ far' = [far EXCEPT ![c].link = FALSE, ![c].hung = TRUE]
    /\ to' = [to EXCEPT ![c] = <<>>]
    /\ history' = history \cup {"suvad_died"}
    /\ UNCHANGED <<local, from, late>>

\* External: the suvlet dies, which suvad reports.
SuvletDies(c) ==
    /\ "suvlet_die" \in Faults
    /\ far[c].suvlet = "runs" /\ far[c].link
    /\ far' = [far EXCEPT ![c].suvlet = "ended", ![c].stdin = <<>>]
    /\ Sends(c, <<Answer("RETURN", "SDIED", 0)>>)
    /\ history' = history \cup {"suvlet_died"}
    /\ UNCHANGED <<local, to, late>>

(***************************************************************************)
(* The suvlet: suva_get_request, for ever.                                 *)
(***************************************************************************)
Replies(c, answer) == IF far[c].link THEN Sends(c, <<answer>>) ELSE UNCHANGED from

\* Bug: SCL_DSUVLET runs the deconstructor and goes on.
suva_get_request_noexit(c) ==
    /\ far[c].suvlet = "runs" /\ far[c].stdin # <<>>
    /\ LET p == Head(far[c].stdin) IN
         /\ far' = [far EXCEPT ![c].stdin = Tail(@), ![c].called = p.op # "DSUVLET"]
         /\ IF p.op = "FCALL" THEN Replies(c, Answer("FRETURN", "value", p.n)) ELSE UNCHANGED from
    /\ UNCHANGED <<local, to, late, history>>

\* A packet: a function is called and its answer written, a function the suvlet
\* does not have is passed over, and SCL_DSUVLET ends the process.
suva_get_request(c) ==
    /\ far[c].suvlet = "runs" /\ far[c].stdin # <<>>
    /\ LET p == Head(far[c].stdin) IN
         /\ far' = [far EXCEPT ![c].stdin = Tail(@), ![c].called = TRUE,
                                ![c].suvlet = IF p.op = "DSUVLET" THEN "ended" ELSE @]
         /\ IF p.op = "FCALL" THEN Replies(c, Answer("FRETURN", "value", p.n)) ELSE UNCHANGED from
    /\ UNCHANGED <<local, to, late, history>>

\* End of file: the read fails, and in_packet_opcode is the one before.  If it
\* is SCL_FCALL a name is read from freed memory, no function has it, and the
\* next read fails at once again; if there was no packet yet, the opcode is not
\* the expected one, and scl_throw_error ends the process.
HungUp(c) ==
    /\ far[c].suvlet = "runs" /\ far[c].stdin = <<>> /\ far[c].hung
    /\ far' = [far EXCEPT ![c].suvlet = IF far[c].called THEN "spins" ELSE "ended"]
    /\ IF far[c].called THEN UNCHANGED from ELSE Replies(c, Answer("FERROR", "value", 0))
    /\ UNCHANGED <<local, to, late, history>>

-----------------------------------------------------------------------------
LocalStep ==
    Connecting \/ Connected \/ CreateReturns \/ CallReturns \/ CloseReturns

RemoteStep == \E c \in Conns : Suvad(c) \/ suva_get_request(c) \/ HungUp(c)

\* The program does something else, for as long as it likes.
Done == pc = "idle" /\ UNCHANGED vars

Next ==
    \/ \E c \in Conns : OpenEarly(c) \/ Open(c) \/ Close(c)
    \/ \E c \in Busy : Create(c) \/ Call(c) \/ Destroy(c)
    \/ LocalStep \/ ReadPacket \/ ReadFails \/ ReadCut \/ Done
    \/ RemoteStep
    \/ \E c \in Conns : SuvadDies(c) \/ SuvletDies(c)

\* The local program runs, and so do suvad and the suvlets while they live.
Fairness == WF_vars(LocalStep) /\ WF_vars(ReadPacket \/ ReadFails \/ ReadCut) /\ WF_vars(RemoteStep)

Spec == Init /\ [][Next]_vars /\ Fairness

-----------------------------------------------------------------------------
(* Properties.                                                             *)

\* A connection the program holds has its struct, its socket and the element
\* that scl_queue_value fills next and scl_write_out ends at.
HeldLive ==
    \A c \in Conns : conn[c].st = "held" /\ ~(pc = "close" /\ cur = c) =>
        /\ conn[c].sock
        /\ {Struct(c), Element(c, conn[c].out_id)} \subseteq live

\* scl_free_packet_mem frees by type number, and the type numbers of a
\* connection are found by trial: no operation on one connection frees
\* anything of another.
FreeOnlyOwn == [][\A b \in live \ live' : b.of = cur']_vars

\* open_suva_conn could not read the first message, returned NULL, and left the
\* open socket and its memory behind.
Abandoned(c) == conn[c].st = "null" /\ conn[c].sock

\* Whichever way an operation returns, what it has read of packets is freed,
\* also when the read failed after it had allocated one.  Excepted is what
\* open_suva_conn abandons.
PacketsFreed == pc = "idle" => \A b \in live : b.what = "packet" => Abandoned(b.of)

\* open_suva_conn that returns NULL has closed the socket and freed everything
\* but the element of its queue; or a read has failed, the connection is
\* abandoned, and its struct and its element are lost.
NullReleased ==
    \A c \in Conns : conn[c].st = "null" =>
        IF Abandoned(c)
        THEN "read_failed" \in history /\ {Struct(c), Element(c, conn[c].out_id)} \subseteq live
        ELSE \A b \in live : b.of = c => b.what = "element"

\* What a connection needs is there, and what nobody needs is released, but for
\* what open_suva_conn loses when its first read fails.
MemoryAccounted == HeldLive /\ PacketsFreed /\ NullReleased

\* Every operation reads the answer to its own packet, although nothing in an
\* answer says which it is to, as long as no answer came late and nobody died.
\* A time-out of a call that has no answer does no harm.
Paired ==
    late = 0 /\ history \cap {"suvlet_died", "suvad_died"} = {} /\ pc \in Waiting /\ got = "ok" =>
        /\ inp[cur].n = ops
        /\ inp[cur].op = "FRETURN" => pc = "call"

\* When create_suvlet has read SRC_OKAY ("Last operation successful"), has
\* returned 1, and suvad is through with every packet it was sent, then a suvlet
\* runs, unless it died.
OkayMeansRuns ==
    (last.ret = 1 /\ last.read = "ok" /\ to[cur] = <<>>
        /\ history \cap {"suvlet_died", "suvad_died"} = {})
    => far[cur].suvlet = "runs"

\* Every operation returns, whatever suvad and the suvlet do.
OperationsReturn == (pc \in Waiting) ~> (pc \notin Waiting)

\* A suvlet that is told to end does, after whatever calls came before.
SuvletEnds ==
    \A c \in Conns :
        (\E i \in DOMAIN far[c].stdin : far[c].stdin[i].op = "DSUVLET") ~> (far[c].suvlet # "runs")
=============================================================================
