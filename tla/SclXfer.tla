------------------------------- MODULE SclXfer -------------------------------
(***************************************************************************)
(* One file transfer of src/scl_inlines.c: scl_il_xfer_ex on the local     *)
(* side, the "inline-" functions of a suvlet on the remote side, and the   *)
(* connection between them.                                                *)
(*                                                                         *)
(* The local side is sequential: it writes a call packet, blocks in        *)
(* scl_read_packet, and goes on whatever that call returned.  The remote   *)
(* side takes one call after another and writes its answer.  The           *)
(* connection keeps packets in order; an answer may come after the local   *)
(* side has given up on it, and the suvlet may die, even in the middle of  *)
(* an answer.                                                              *)
(*                                                                         *)
(* A file is a sequence of bytes, the source holding 1, 2, ... so that     *)
(* every byte is told apart; a received value keeps its SCL type.          *)
(***************************************************************************)
EXTENDS Integers, Sequences

CONSTANTS
    BlockSize,   \* the block_size argument
    Lengths,     \* lengths the source file may have
    ApiVersions, \* SUVA_API_VERSION of the suvlet
    Faults,      \* what may go wrong, a subset of FaultNames
    MaxLate,     \* bound: answers that come after the time-out of their call
    MaxTarget    \* bound: length of the target file

FaultNames == {"local_open", "local_stat", "local_write", "remote_stat", "remote_open",
               "remote_write", "remote_chmod", "callback", "fread", "flush", "late", "die"}

ASSUME XferAssumption ==
    /\ BlockSize \in Nat \ {0}
    /\ Lengths \subseteq Nat
    /\ ApiVersions \subseteq Nat
    /\ Faults \subseteq FaultNames
    /\ MaxLate \in Nat
    /\ MaxTarget \in Nat

VARIABLES
    direction, \* "GET" or "PUT"
    pc,        \* where scl_il_xfer_ex is; in a "w_..." it waits for an answer
    got,       \* the scl_read_packet it waited in has returned
    code,      \* the exit code it has chosen, 0 before that
    kill,      \* kill_remote_file, for an exit that has to read a packet first
    api_vers,
    remote_mode,
    data_len,
    lfile,     \* contents of the local file
    lpos,      \* its read position
    lopen,     \* file_handle is open
    inp,       \* the incoming packet of conn
    calls,     \* packets on their way to the suvlet
    answers,   \* packets on their way back
    alive,     \* the suvlet runs
    rapi,      \* its SUVA_API_VERSION
    rfile,     \* contents of the remote file
    rpos,      \* its read position
    rhandle,   \* scl_inline_file: "null", "open" or "closed"
    late,      \* answers given up on so far
    history    \* what happened so far, for the properties

control == <<pc, got, code, kill>>
info == <<api_vers, remote_mode, data_len>>
localFile == <<lfile, lpos, lopen>>
remoteFile == <<rfile, rpos, rhandle>>
wire == <<calls, answers, late>>
vars == <<direction, control, info, localFile, inp, wire, alive, rapi, remoteFile, history>>

\* What each exit code stands for; 3 and 5 belong to packets nobody asked for.
Cause == <<"local_open", "local_stat", "opcode", "remote_open", "no_data",
           "remote_write", "local_write", "callback">>

\* A read of a packet that failed, an I/O error nobody reports, a use of a
\* FILE that is not open, and the faults that have a code.
Events == {"read_failed", "unreported", "bad_handle"}
              \cup {Cause[c] : c \in DOMAIN Cause}

Calls == {"get_info", "get_fsize_mode", "open_file", "put_data", "get_data", "set_fmode",
          "close_file"}

\* The call whose answer each waiting point expects.
Expected == [w_api |-> "get_info", w_fsize |-> "get_fsize_mode", w_open |-> "open_file",
             w_put |-> "put_data", w_get |-> "get_data", w_mode |-> "set_fmode",
             w_close |-> "close_file"]

Waiting == DOMAIN Expected \cup {"w_err"}

Source(n) == [i \in 1 .. n |-> i]

\* The types of the local variables, of the wire and of the suvlet.
TypeOK ==
    /\ direction \in {"GET", "PUT"}
    /\ pc \in Waiting \cup {"start", "loop", "callback", "mode", "fclose", "done"}
    /\ got \in BOOLEAN /\ kill \in BOOLEAN /\ lopen \in BOOLEAN /\ alive \in BOOLEAN
    /\ code \in {0, 1, 2, 3, 4, 6, 7, 8}
    /\ api_vers \in Int /\ remote_mode \in Int
    /\ data_len \in 0 .. BlockSize
    /\ lfile \in Seq(Nat) /\ rfile \in Seq(Nat)
    /\ lpos \in 0 .. Len(lfile) /\ rpos \in 0 .. Len(rfile)
    /\ inp.op \in {"RETURN", "FRETURN", "FERROR"} /\ inp.freed \in BOOLEAN
    /\ \A i \in DOMAIN calls : calls[i].name \in Calls
    /\ \A i \in DOMAIN answers : answers[i].to \in Calls \cup {"none"}
    /\ rhandle \in {"null", "open", "closed"}
    /\ late \in 0 .. MaxLate
    /\ history \subseteq Events

Init ==
    /\ direction \in {"GET", "PUT"}
    /\ pc = "start" /\ got = FALSE /\ code = 0 /\ kill = FALSE
    /\ api_vers = 0 /\ remote_mode = -1 /\ data_len = 0
    /\ \E n \in Lengths :
        IF direction = "GET"
          THEN rfile = Source(n) /\ lfile = <<>>
          ELSE lfile = Source(n) /\ rfile = <<>>
    /\ lpos = 0 /\ lopen = FALSE /\ rpos = 0 /\ rhandle = "null"
    \* what create_suvlet leaves behind: its answer, freed
    /\ inp = [op |-> "RETURN", vals |-> <<>>, to |-> "none", freed |-> TRUE]
    /\ calls = <<>> /\ answers = <<>> /\ late = 0
    /\ alive = TRUE
    /\ rapi \in ApiVersions
    /\ history = {}

-----------------------------------------------------------------------------
(* Values of the incoming packet.                                          *)

Val(t, v) == [t |-> t, v |-> v]

Holds(k, t) == ~inp.freed /\ k \in DOMAIN inp.vals /\ inp.vals[k].t = t

\* scl_get_value(conn, SCL_INT, NULL) takes four bytes, whatever they are: of
\* a one-byte SCL_BOOL only the lowest is defined, of a packet that was freed
\* or ends before them none is.
Ints(k) ==
    IF Holds(k, "int") THEN {inp.vals[k].v}
    ELSE IF Holds(k, "bool") THEN {inp.vals[k].v, inp.vals[k].v + 256}
    ELSE {-1, 0, 1, 3}

Bools(k) == IF Holds(k, "bool") THEN {inp.vals[k].v} ELSE {0, 1}

\* Undefined data: no byte, or a block of bytes that are not the file's (0).
Datas(k) ==
    IF Holds(k, "data") THEN {inp.vals[k].v}
    ELSE {<<>>, [i \in 1 .. BlockSize |-> 0]}

Note(event) == history' = history \cup {event}

FreePacket == inp' = [inp EXCEPT !.freed = TRUE, !.vals = <<>>]

-----------------------------------------------------------------------------
(* scl_read_packet: the next packet, or nothing and the opcode and values  *)
(* of the packet before stay in conn.  Its result is never looked at.      *)

TakeAnswer ==
    /\ answers # <<>>
    /\ LET a == Head(answers)
       IN  /\ inp' = [op |-> a.op, vals |-> a.vals, to |-> a.to, freed |-> FALSE]
           /\ history' = IF a.whole THEN history ELSE history \cup {"read_failed"}
    /\ answers' = Tail(answers)
    /\ UNCHANGED late

\* No answer within SCL_TIMEOUT.
TimeOut ==
    /\ "late" \in Faults /\ late < MaxLate
    /\ answers = <<>> /\ alive
    /\ late' = late + 1
    /\ history' = history \cup {"read_failed"}
    /\ UNCHANGED <<inp, answers>>

\* The suvlet is gone and everything it wrote has been read.
HangUp ==
    /\ answers = <<>> /\ ~alive
    /\ history' = history \cup {"read_failed"}
    /\ UNCHANGED <<inp, answers, late>>

scl_read_packet ==
    /\ pc \in Waiting /\ ~got
    /\ got' = TRUE
    /\ TakeAnswer \/ TimeOut \/ HangUp
    /\ UNCHANGED <<direction, pc, code, kill, info, localFile, calls, alive, rapi, remoteFile>>

-----------------------------------------------------------------------------
(* Local side.  Each handler runs from the return of scl_read_packet to    *)
(* the next call packet it writes.                                         *)

\* scl_queue_value ..., scl_write_out; the packet goes nowhere once the
\* suvlet is dead.  Then the code waits for the answer at "next".
CallAndWait(name, arg, next) ==
    /\ calls' = IF alive THEN Append(calls, [name |-> name, arg |-> arg]) ELSE calls
    /\ pc' = next
    /\ got' = FALSE
    /\ UNCHANGED <<answers, late>>

GoTo(next) == pc' = next /\ got' = FALSE /\ UNCHANGED wire

\* scl_il_xfer_exit: close the remote file if asked to, then the local one.
scl_il_xfer_exit(exit_code, kill_remote_file) ==
    /\ code' = exit_code
    /\ kill' = kill_remote_file
    /\ FreePacket
    /\ IF kill_remote_file THEN CallAndWait("close_file", 0, "w_close") ELSE GoTo("fclose")

\* suva_unexpected_return reads one more packet after an SCL_FERROR.
UnexpectedReturn(exit_code, kill_remote_file) ==
    IF inp.op = "FERROR"
      THEN /\ code' = exit_code /\ kill' = kill_remote_file
           /\ GoTo("w_err")
           /\ UNCHANGED inp
      ELSE scl_il_xfer_exit(exit_code, kill_remote_file)

AfterError ==
    /\ pc = "w_err" /\ got
    /\ scl_il_xfer_exit(code, kill)
    /\ UNCHANGED <<info, localFile, history>>

GetApiVersion ==
    /\ pc = "start"
    /\ CallAndWait("get_info", 0, "w_api")
    /\ UNCHANGED <<code, kill, info, localFile, inp, history>>

OpenRemote(next) == CallAndWait("open_file", IF direction = "GET" THEN "r" ELSE "w", next)

\* The api version is in; the local file is opened, and a GET truncates it.
OpenLocal ==
    /\ pc = "w_api" /\ got
    /\ \E v \in Ints(1) : api_vers' = v
    /\ \/ /\ "local_open" \in Faults /\ Note("local_open")
          /\ scl_il_xfer_exit(1, FALSE)
          /\ UNCHANGED localFile
       \/ /\ lopen' = TRUE
          /\ lfile' = IF direction = "GET" THEN <<>> ELSE lfile
          /\ UNCHANGED lpos
          /\ \/ /\ direction = "PUT" /\ "local_stat" \in Faults /\ Note("local_stat")
                /\ scl_il_xfer_exit(2, FALSE)
             \/ /\ FreePacket /\ UNCHANGED history
                /\ IF direction = "GET" /\ api_vers' >= 3
                     THEN CallAndWait("get_fsize_mode", 0, "w_fsize")
                     ELSE OpenRemote("w_open")
                /\ UNCHANGED <<code, kill>>
    /\ UNCHANGED <<remote_mode, data_len>>

GotSizeMode ==
    /\ pc = "w_fsize" /\ got
    /\ \E mode \in Ints(2) : remote_mode' = mode
    /\ FreePacket
    /\ OpenRemote("w_open")
    /\ UNCHANGED <<code, kill, api_vers, data_len, localFile, history>>

\* "Check to see if it worked..."
CheckOpen ==
    /\ pc = "w_open" /\ got
    /\ \/ inp.op # "FRETURN" /\ UnexpectedReturn(3, FALSE)
       \/ /\ inp.op = "FRETURN"
          /\ \E return_code \in Ints(1) :
              IF return_code = 0
                THEN FreePacket /\ GoTo("loop") /\ UNCHANGED <<code, kill>>
                ELSE scl_il_xfer_exit(4, FALSE)
    /\ UNCHANGED <<info, localFile, history>>

\* PUT: the next block, or the end of the file, which an error looks like.
PutBlock ==
    /\ pc = "loop" /\ direction = "PUT"
    /\ \E error \in IF "fread" \in Faults THEN BOOLEAN ELSE {FALSE} :
        LET left == Len(lfile) - lpos
            n == IF error THEN 0 ELSE IF left < BlockSize THEN left ELSE BlockSize
        IN  /\ data_len' = n
            /\ lpos' = lpos + n
            /\ history' = IF error /\ left > 0 THEN history \cup {"unreported"} ELSE history
            /\ IF n = 0
                 THEN GoTo("mode")
                 ELSE CallAndWait("put_data", SubSeq(lfile, lpos + 1, lpos + n), "w_put")
    /\ UNCHANGED <<code, kill, api_vers, remote_mode, lfile, lopen, inp>>

\* Mutant: a block the suvlet could not write is taken for written.
CheckPutOpcodeOnly ==
    /\ pc = "w_put" /\ got
    /\ \/ inp.op # "FRETURN" /\ UnexpectedReturn(4, TRUE)
       \/ inp.op = "FRETURN" /\ FreePacket /\ GoTo("callback") /\ UNCHANGED <<code, kill>>
    /\ UNCHANGED <<info, localFile, history>>

\* Mutant: such a block is sent again, for ever.
CheckPutRetry ==
    /\ pc = "w_put" /\ got
    /\ \/ inp.op # "FRETURN" /\ UnexpectedReturn(4, TRUE) /\ UNCHANGED lpos
       \/ /\ inp.op = "FRETURN"
          /\ \E ret_val \in Bools(1) :
              IF ret_val = 0
                THEN FreePacket /\ GoTo("callback") /\ UNCHANGED <<code, kill, lpos>>
                ELSE /\ lpos' = lpos - data_len
                     /\ FreePacket /\ GoTo("loop") /\ UNCHANGED <<code, kill>>
    /\ UNCHANGED <<info, lfile, lopen, history>>

CheckPut ==
    /\ pc = "w_put" /\ got
    /\ \/ inp.op # "FRETURN" /\ UnexpectedReturn(4, TRUE)
       \/ /\ inp.op = "FRETURN"
          /\ \E ret_val \in Bools(1) :
              IF ret_val = 0
                THEN FreePacket /\ GoTo("callback") /\ UNCHANGED <<code, kill>>
                ELSE scl_il_xfer_exit(6, TRUE)
    /\ UNCHANGED <<info, localFile, history>>

\* Mutant: one byte too many is asked for.
GetBlockAndOne ==
    /\ pc = "loop" /\ direction = "GET"
    /\ CallAndWait("get_data", BlockSize + 1, "w_get")
    /\ UNCHANGED <<code, kill, info, localFile, inp, history>>

GetBlock ==
    /\ pc = "loop" /\ direction = "GET"
    /\ CallAndWait("get_data", BlockSize, "w_get")
    /\ UNCHANGED <<code, kill, info, localFile, inp, history>>

\* fwrite of one member of data_len bytes returns 0 for an empty member too.
WriteLocal ==
    /\ pc = "w_get" /\ got
    /\ \/ /\ inp.op # "FRETURN" /\ UnexpectedReturn(4, TRUE)
          /\ UNCHANGED <<data_len, lfile, history>>
       \/ /\ inp.op = "FRETURN"
          /\ \E data \in Datas(1), full \in IF "local_write" \in Faults THEN BOOLEAN ELSE {FALSE} :
              /\ data_len' = Len(data)
              /\ IF data = <<>> \/ full
                   THEN /\ scl_il_xfer_exit(7, TRUE) /\ UNCHANGED lfile
                        /\ history' = IF full THEN history \cup {"local_write"} ELSE history
                   ELSE /\ Len(lfile) + Len(data) <= MaxTarget
                        /\ lfile' = lfile \o data
                        /\ FreePacket /\ GoTo("callback") /\ UNCHANGED <<code, kill, history>>
    /\ UNCHANGED <<api_vers, remote_mode, lpos, lopen>>

\* The progress callback may stop the transfer; a short block ends a GET.
Callback ==
    /\ pc = "callback"
    /\ \/ "callback" \in Faults /\ scl_il_xfer_exit(8, TRUE) /\ Note("callback")
       \/ /\ GoTo(IF direction = "GET" /\ data_len # BlockSize THEN "mode" ELSE "loop")
          /\ UNCHANGED <<code, kill, inp, history>>
    /\ UNCHANGED <<info, localFile>>

\* Mutant: the remote file is not closed at the end.
SetModeNoClose ==
    /\ pc = "mode"
    /\ IF direction = "PUT" /\ api_vers >= 3
         THEN CallAndWait("set_fmode", 0, "w_mode") /\ UNCHANGED <<code, kill, inp>>
         ELSE scl_il_xfer_exit(0, FALSE)
    /\ UNCHANGED <<info, localFile, history>>

\* Mutant: the answer of set_fmode is not waited for.
SetModeNoWait ==
    /\ pc = "mode"
    /\ code' = 0 /\ kill' = TRUE
    /\ FreePacket
    /\ calls' = calls \o <<[name |-> "set_fmode", arg |-> 0], [name |-> "close_file", arg |-> 0]>>
    /\ pc' = "w_close" /\ got' = FALSE
    /\ UNCHANGED <<answers, late, info, localFile, history>>

\* A GET sets the mode of its own file and ends; a PUT asks a suvlet of
\* version 3 to set it.
SetMode ==
    /\ pc = "mode"
    /\ IF direction = "PUT" /\ api_vers >= 3
         THEN CallAndWait("set_fmode", 0, "w_mode") /\ UNCHANGED <<code, kill, inp>>
         ELSE scl_il_xfer_exit(0, TRUE)
    /\ UNCHANGED <<info, localFile, history>>

\* The answer decides about a warning only.
CheckMode ==
    /\ pc = "w_mode" /\ got
    /\ scl_il_xfer_exit(0, TRUE)
    /\ UNCHANGED <<info, localFile, history>>

RemoteClosed ==
    /\ pc = "w_close" /\ got
    /\ FreePacket
    /\ GoTo("fclose")
    /\ UNCHANGED <<code, kill, info, localFile, history>>

\* fclose of the local file; what it could not write is lost, and its result
\* is not looked at.
CloseLocal ==
    /\ pc = "fclose"
    /\ GoTo("done")
    /\ lopen' = FALSE
    /\ \E lost \in IF "flush" \in Faults /\ lopen /\ direction = "GET" /\ lfile # <<>>
                    THEN BOOLEAN ELSE {FALSE} :
        /\ lfile' = IF lost THEN SubSeq(lfile, 1, Len(lfile) - 1) ELSE lfile
        /\ history' = IF lost THEN history \cup {"unreported"} ELSE history
    /\ UNCHANGED <<code, kill, info, lpos, inp>>

LocalStep ==
    /\ \/ AfterError \/ GetApiVersion \/ OpenLocal \/ GotSizeMode \/ CheckOpen
       \/ PutBlock \/ CheckPut \/ GetBlock \/ WriteLocal \/ Callback
       \/ SetMode \/ CheckMode \/ RemoteClosed \/ CloseLocal
    /\ UNCHANGED <<direction, alive, rapi, remoteFile>>

-----------------------------------------------------------------------------
(* The suvlet: scl_call_inlines runs one function for one call.            *)

Serves(name) == alive /\ calls # <<>> /\ Head(calls).name = name

Answer(vals) ==
    /\ calls' = Tail(calls)
    /\ answers' = Append(answers, [op |-> "FRETURN", vals |-> vals,
                                   to |-> Head(calls).name, whole |-> TRUE])
    /\ UNCHANGED <<late, alive>>

\* A FILE that is not open is used: the suvlet does not survive it.
BadHandle ==
    /\ alive' = FALSE
    /\ calls' = <<>>
    /\ history' = history \cup {"bad_handle"}
    /\ UNCHANGED <<answers, late, remoteFile>>

r_get_info ==
    /\ Serves("get_info")
    /\ Answer(<<Val("int", rapi)>>)
    /\ UNCHANGED <<remoteFile, history>>

r_get_fsize_mode ==
    /\ Serves("get_fsize_mode")
    /\ \/ Answer(<<Val("int", Len(rfile)), Val("int", 0)>>)
       \/ "remote_stat" \in Faults /\ Answer(<<Val("int", -1), Val("int", -1)>>)
    /\ UNCHANGED <<remoteFile, history>>

r_open_file ==
    /\ Serves("open_file")
    /\ \/ /\ rhandle' = "open"
          /\ rpos' = 0
          /\ rfile' = IF Head(calls).arg = "w" THEN <<>> ELSE rfile
          /\ Answer(<<Val("int", 0), Val("str", "")>>)
          /\ UNCHANGED history
       \/ /\ "remote_open" \in Faults /\ Note("remote_open")
          /\ rhandle' = "null"
          /\ Answer(<<Val("int", 1), Val("str", "error")>>)
          /\ UNCHANGED <<rpos, rfile>>

r_put_data ==
    /\ Serves("put_data")
    /\ \/ rhandle # "open" /\ BadHandle
       \/ /\ rhandle = "open"
          /\ \/ /\ rfile' = rfile \o Head(calls).arg
                /\ Answer(<<Val("bool", 0)>>)
                /\ UNCHANGED history
             \/ /\ "remote_write" \in Faults /\ Note("remote_write")
                /\ Answer(<<Val("bool", 1)>>)
                /\ UNCHANGED rfile
          /\ UNCHANGED <<rpos, rhandle>>

r_get_data ==
    /\ Serves("get_data")
    /\ \/ rhandle # "open" /\ BadHandle
       \/ /\ rhandle = "open"
          /\ \E error \in IF "fread" \in Faults THEN BOOLEAN ELSE {FALSE} :
              LET left == Len(rfile) - rpos
                  asked == Head(calls).arg
                  bytes == IF error THEN 0 ELSE IF left < asked THEN left ELSE asked
              IN  /\ rpos' = rpos + bytes
                  /\ Answer(<<Val("data", SubSeq(rfile, rpos + 1, rpos + bytes))>>)
                  /\ history' = IF error /\ left > 0 THEN history \cup {"unreported"} ELSE history
          /\ UNCHANGED <<rfile, rhandle>>

\* The answer is a boolean.
r_set_fmode ==
    /\ Serves("set_fmode")
    /\ \/ Answer(<<Val("bool", 1)>>)
       \/ "remote_chmod" \in Faults /\ Answer(<<Val("bool", 0)>>)
    /\ UNCHANGED <<remoteFile, history>>

\* The handle is not cleared; the results of fflush and fclose are not kept.
r_close_file ==
    /\ Serves("close_file")
    /\ \/ rhandle # "open" /\ BadHandle
       \/ /\ rhandle = "open"
          /\ rhandle' = "closed"
          /\ \E lost \in IF "flush" \in Faults /\ direction = "PUT" /\ rfile # <<>>
                          THEN BOOLEAN ELSE {FALSE} :
              /\ rfile' = IF lost THEN SubSeq(rfile, 1, Len(rfile) - 1) ELSE rfile
              /\ history' = IF lost THEN history \cup {"unreported"} ELSE history
          /\ Answer(<<>>)
          /\ UNCHANGED rpos

RemoteStep ==
    /\ \/ r_get_info \/ r_get_fsize_mode \/ r_open_file \/ r_put_data
       \/ r_get_data \/ r_set_fmode \/ r_close_file
    /\ UNCHANGED <<direction, control, info, localFile, inp, rapi>>

\* What a reader finds in a packet that broke off after "whole" values: the
\* packet memory was zero-filled before it was read into.
Torn(a, kept) ==
    [a EXCEPT !.whole = FALSE,
              !.vals = [k \in DOMAIN a.vals |->
                          IF k <= kept THEN a.vals[k]
                          ELSE IF a.vals[k].t = "data"
                            THEN Val("data", [i \in DOMAIN a.vals[k].v |-> 0])
                          ELSE IF a.vals[k].t = "str" THEN Val("str", "") ELSE Val(a.vals[k].t, 0)]]

\* External: the suvlet dies.  The connection drops, perhaps inside its last
\* answer, or suvad reports the death with a packet of its own; what stdio had
\* not yet written of a file open for writing is lost, and nobody says so.
Die ==
    /\ "die" \in Faults
    /\ alive
    /\ alive' = FALSE
    /\ calls' = <<>>
    /\ \/ UNCHANGED answers
       \/ /\ answers # <<>>
          /\ \E kept \in 0 .. Len(answers[Len(answers)].vals) - 1 :
              answers' = [answers EXCEPT ![Len(answers)] = Torn(answers[Len(answers)], kept)]
       \/ \E op \in {"RETURN", "FERROR"} :
            answers' = Append(answers, [op |-> op, vals |-> <<Val("int", 11), Val("str", "died")>>,
                                        to |-> "none", whole |-> TRUE])
    /\ \E written \in IF direction = "PUT" /\ rhandle = "open"
                        THEN 0 .. Len(rfile) ELSE {Len(rfile)} :
        /\ rfile' = SubSeq(rfile, 1, written)
        /\ history' = IF written < Len(rfile) THEN history \cup {"unreported"} ELSE history
    /\ UNCHANGED <<direction, control, info, localFile, inp, late, rapi, rpos, rhandle>>

\* The transfer is over.
Done ==
    /\ pc = "done"
    /\ UNCHANGED vars

Next == LocalStep \/ scl_read_packet \/ RemoteStep \/ Die \/ Done

\* Both programs run; a read ends at the latest when its time is up.
Fairness == WF_vars(LocalStep) /\ WF_vars(scl_read_packet) /\ WF_vars(RemoteStep)

Spec == Init /\ [][Next]_vars /\ Fairness

-----------------------------------------------------------------------------
(* Properties.                                                             *)

Failed == "read_failed" \in history

\* Exit code 0 means the target holds the source, unless a read failed, an
\* error occurred that stdio reports only where the code does not look, or the
\* suvlet died with blocks it had accepted and not yet written.
CopiedOnZero ==
    (pc = "done" /\ code = 0 /\ ~Failed /\ "unreported" \notin history) => lfile = rfile

\* The loop of a transfer that meets no failure is left through one of its
\* two exits, and the transfer ends with code 0 ("There are likewise two ways
\* to jump out of this endless loop").
ZeroWithoutFault == (pc = "done" /\ Faults = {}) => code = 0

\* With an intact connection the exit code tells what went wrong: it names a
\* fault that happened, and no fault that has a code is covered up by another
\* code or by 0.  The exception is a block that is empty because the file ends
\* at a block's end, or because the suvlet could not read.
CodeTellsCause ==
    (pc = "done" /\ alive /\ ~Failed) =>
        /\ \A c \in DOMAIN Cause : Cause[c] \in history => code = c
        /\ \/ code = 0 \/ Cause[code] \in history
           \/ /\ code = 7 /\ direction = "GET"
              /\ Len(rfile) % BlockSize = 0 \/ "unreported" \in history

\* What the caller concludes from the exit code is so.
CodeIsRight == CopiedOnZero /\ CodeTellsCause

\* Without a failed read the suvlet never uses a FILE that is not open, and
\* the local side never leaves the remote file open behind it.
HandleSafe == "bad_handle" \in history => Failed
HandleReleased == (pc = "done" /\ alive /\ ~Failed) => rhandle # "open"
RemoteHandle == HandleSafe /\ HandleReleased

\* Every answer is read by the call it answers, as long as no read has failed;
\* then there is at most one call or answer under way.
Paired ==
    (~Failed /\ alive) =>
        /\ Len(calls) + Len(answers) <= 1
        /\ (pc \in DOMAIN Expected /\ got) => inp.to = Expected[pc]

\* Every transfer comes to an end while the suvlet lives, however late its
\* answers are and whichever call reads them.
Terminates == <>(pc = "done" \/ ~alive)
=============================================================================
