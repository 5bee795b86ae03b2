---------------------------- MODULE SclXferProofs ----------------------------
(***************************************************************************)
(* Theorems about file transfers, for every block size, every length of    *)
(* the source, every version of the suvlet and whatever may go wrong: what *)
(* the exit code tells is so, every answer is read by the call it is to,   *)
(* and the remote file is used only while it is open.                      *)
(***************************************************************************)
EXTENDS SclXfer, SequenceTheorems, TLAPS

-----------------------------------------------------------------------------
(* Types.                                                                  *)

Block == {s \in Seq(Nat) : Len(s) <= BlockSize}

Texts == {"", "error", "died"}

Value == [t : {"int"}, v : Int] \cup [t : {"bool"}, v : {0, 1}]
            \cup [t : {"data"}, v : Block] \cup [t : {"str"}, v : Texts]

CallPacket ==
    [name : {"get_info", "get_fsize_mode", "set_fmode", "close_file"}, arg : {0}]
      \cup [name : {"open_file"}, arg : {IF direction = "GET" THEN "r" ELSE "w"}]
      \cup [name : {"put_data"}, arg : IF direction = "PUT" THEN Seq(Nat) ELSE {}]
      \cup [name : {"get_data"}, arg : IF direction = "GET" THEN {BlockSize} ELSE {}]

AnswerPacket ==
    [op : {"RETURN", "FRETURN", "FERROR"}, vals : Seq(Value), to : Calls \cup {"none"},
     whole : BOOLEAN]

InPacket ==
    [op : {"RETURN", "FRETURN", "FERROR"}, vals : Seq(Value), to : Calls \cup {"none"},
     freed : BOOLEAN]

\* TypeOK, the packets as a whole, and which way the files are read.
Types ==
    /\ TypeOK
    /\ inp \in InPacket
    /\ calls \in Seq(CallPacket) /\ answers \in Seq(AnswerPacket)
    /\ rapi \in Nat
    /\ direction = "GET" => lpos = 0
    /\ direction = "PUT" => rpos = 0
    /\ pc = "w_put" => direction = "PUT"
    /\ pc = "w_get" => direction = "GET"

-----------------------------------------------------------------------------
(* What an answer tells.                                                   *)

\* No error occurred that nobody reports.
Sound == "unreported" \notin history

\* What has been read so far has been written.
Copied ==
    IF direction = "GET" THEN lfile = SubSeq(rfile, 1, rpos) ELSE rfile = SubSeq(lfile, 1, lpos)

\* A GET is at the boundary of a block.
Round == direction = "GET" => rpos % BlockSize = 0

Fresh == IF direction = "GET" THEN lfile = <<>> ELSE lpos = 0

Ready == rhandle = "open" /\ (Sound => Copied)

OpenedOk == <<Val("int", 0), Val("str", "")>>
NotOpened == <<Val("int", 1), Val("str", "error")>>
Written == <<Val("bool", 0)>>
NotWritten == <<Val("bool", 1)>>

\* A block is in the answer, and shorter than asked for only at the end.
Fetched(data) ==
    /\ rhandle = "open"
    /\ Sound => lfile \o data = SubSeq(rfile, 1, rpos)
    /\ Sound /\ Len(data) < BlockSize => rpos = Len(rfile)
    /\ data = <<>> \/ Len(data) = BlockSize => Round

\* The values of the answer the local side waits for, and what they report.
Reports(vals) ==
    /\ pc = "w_open" =>
         \/ vals = OpenedOk /\ Ready /\ Round
         \/ vals = NotOpened /\ rhandle = "null" /\ "remote_open" \in history
    /\ pc = "w_put" =>
         /\ rhandle = "open"
         /\ \/ vals = Written /\ (Sound => Copied)
            \/ vals = NotWritten /\ "remote_write" \in history
    /\ pc = "w_get" => LET data == vals[1].v IN vals = <<Val("data", data)>> /\ data \in Block /\ Fetched(data)
    /\ pc = "w_close" => rhandle = "closed"

IsReply(a) ==
    /\ pc \in DOMAIN Expected
    /\ a.op = "FRETURN" /\ a.to = Expected[pc]
    /\ Reports(a.vals)

\* The report of a death, or an answer that broke off.
IsEnd(a) == a.whole => a.op # "FRETURN"

-----------------------------------------------------------------------------
(* The inductive invariant, which holds until a read fails.                *)

\* One call at a time: it is under way, or its answer is, or the answer has
\* been read.
Turns ==
    /\ pc \in DOMAIN Expected /\ ~got /\ alive =>
         \/ Len(calls) = 1 /\ calls[1].name = Expected[pc] /\ answers = <<>>
         \/ calls = <<>> /\ Len(answers) = 1 /\ answers[1].whole /\ IsReply(answers[1])
    /\ pc \notin DOMAIN Expected \/ got \/ ~alive => calls = <<>>
    /\ (pc \notin DOMAIN Expected \/ got) /\ alive => answers = <<>>
    /\ pc \in DOMAIN Expected /\ got => ~inp.freed /\ (IsReply(inp) \/ (~alive /\ inp.op # "FRETURN"))
    /\ pc = "w_err" => ~alive
    /\ pc \notin Waiting => ~got
    \* of a suvlet that is dead
    /\ ~alive => \A i \in DOMAIN answers :
         IsEnd(answers[i]) \/ (i = 1 /\ ~got /\ answers[1].whole /\ IsReply(answers[1]))

Files ==
    /\ pc \in {"start", "w_api", "w_fsize"} => rhandle = "null" /\ Fresh
    /\ pc = "w_open" /\ calls # <<>> => rhandle = "null" /\ Fresh
    /\ pc = "loop" => Ready /\ Round
    /\ pc = "w_put" /\ calls # <<>> =>
         rhandle = "open" /\ (Sound => rfile \o calls[1].arg = SubSeq(lfile, 1, lpos))
    /\ pc = "w_get" /\ calls # <<>> => Ready /\ Round
    /\ pc = "callback" =>
         /\ Ready
         /\ direction = "GET" /\ data_len < BlockSize /\ Sound => rpos = Len(rfile)
         /\ data_len = BlockSize => Round
    /\ pc \in {"mode", "w_mode"} => rhandle = "open" /\ (Sound => lfile = rfile)
    /\ pc = "w_close" /\ calls # <<>> => rhandle = "open"
    /\ pc \in {"w_close", "fclose", "done"} => (code = 0 /\ Sound => lfile = rfile)
    /\ pc \in {"fclose", "done"} /\ alive => rhandle # "open"
    /\ pc = "w_err" => code # 0

\* The faults that have a code, as far as they have happened.
Faulted == history \cap {Cause[c] : c \in DOMAIN Cause}

\* With the suvlet alive, a fault is known to the local side at once, or by the
\* answer it waits for.
Causes ==
    alive =>
      /\ pc \notin {"w_open", "w_put", "w_close", "fclose", "done"} => Faulted = {}
      /\ pc = "w_open" => Faulted = {} \/ (Faulted = {Cause[4]} /\ calls = <<>>
                             /\ (IF got THEN inp ELSE answers[1]).vals = NotOpened)
      /\ pc = "w_put" => Faulted = {} \/ (Faulted = {Cause[6]} /\ calls = <<>>
                             /\ (IF got THEN inp ELSE answers[1]).vals = NotWritten)
      /\ pc \in {"w_close", "fclose", "done"} =>
           \/ code = 0 /\ Faulted = {}
           \/ code \in DOMAIN Cause /\ Faulted = {Cause[code]}
           \/ /\ code = 7 /\ Faulted = {}
              /\ direction = "GET" /\ (Sound => Len(rfile) % BlockSize = 0)

Intact == Turns /\ Files /\ Causes /\ "bad_handle" \notin history

IInv == Types /\ (~Failed => Intact)

-----------------------------------------------------------------------------
(* Sequences and values.                                                   *)

\* The first element of a sequence and the others.
LEMMA HeadAndTail ==
  ASSUME NEW S, NEW s \in Seq(S), s # <<>>
  PROVE  /\ Len(s) \in Nat /\ Len(s) > 0
         /\ Head(s) \in S /\ Head(s) = s[1]
         /\ Tail(s) \in Seq(S) /\ Len(Tail(s)) = Len(s) - 1
         /\ \A i \in 1 .. Len(s) - 1 : Tail(s)[i] = s[i + 1]
  OBVIOUS

\* A sequence with one more element.
LEMMA OneMore ==
  ASSUME NEW S, NEW s \in Seq(S), NEW e \in S
  PROVE  /\ Append(s, e) \in Seq(S) /\ Append(s, e) # <<>>
         /\ Len(Append(s, e)) = Len(s) + 1
         /\ Append(s, e)[Len(s) + 1] = e
         /\ \A i \in 1 .. Len(s) : Append(s, e)[i] = s[i]
         /\ DOMAIN Append(s, e) = DOMAIN s \cup {Len(s) + 1}
         /\ s = <<>> => Append(s, e) = <<e>>
  <1>1. /\ Append(s, e) \in Seq(S)
        /\ Len(Append(s, e)) = Len(s) + 1
        /\ Append(s, e)[Len(s) + 1] = e
        /\ \A i \in 1 .. Len(s) : Append(s, e)[i] = s[i]
    BY AppendProperties
  <1>2. s = <<>> => Append(s, e) = <<e>>
    OBVIOUS
  <1>3. /\ DOMAIN s = 1 .. Len(s) /\ Len(s) \in Nat
        /\ DOMAIN Append(s, e) = 1 .. Len(Append(s, e))
    BY <1>1
  <1>4. 1 .. Len(s) + 1 = (1 .. Len(s)) \cup {Len(s) + 1}
    BY <1>3
  <1>5. DOMAIN Append(s, e) = DOMAIN s \cup {Len(s) + 1}
    BY <1>1, <1>3, <1>4
  <1> QED
    BY <1>1, <1>2, <1>3, <1>5

\* The bytes a reader at n gets next come after those it has.
LEMMA NextBytes ==
  ASSUME NEW s \in Seq(Nat), NEW n \in 0 .. Len(s), NEW k \in 0 .. Len(s) - n
  PROVE  /\ SubSeq(s, n + 1, n + k) \in Seq(Nat)
         /\ Len(SubSeq(s, n + 1, n + k)) = k
         /\ SubSeq(s, 1, n) \o SubSeq(s, n + 1, n + k) = SubSeq(s, 1, n + k)
  <1>1. Len(s) \in Nat /\ n \in Nat /\ k \in Nat /\ n + k <= Len(s)
    OBVIOUS
  <1>2. SubSeq(s, n + 1, n + k) \in Seq(Nat) /\ Len(SubSeq(s, n + 1, n + k)) = k
    <2>1. CASE k = 0
      BY <1>1, <2>1, SubSeqEmpty, EmptySeq
    <2>2. CASE k > 0
      BY <1>1, <2>2, SubSeqProperties
    <2> QED
      BY <1>1, <2>1, <2>2
  <1>3. SubSeq(s, 1, n) \o SubSeq(s, n + 1, n + k) = SubSeq(s, 1, n + k)
    BY <1>1, ConcatAdjacentSubSeq
  <1> QED
    BY <1>2, <1>3

\* A prefix of a file is a file.
LEMMA Prefix ==
  ASSUME NEW s \in Seq(Nat), NEW n \in 0 .. Len(s)
  PROVE  SubSeq(s, 1, n) \in Seq(Nat) /\ Len(SubSeq(s, 1, n)) = n
  <1>1. Len(s) \in Nat /\ 0 <= Len(s)
    OBVIOUS
  <1> QED
    BY <1>1, NextBytes, 0 + 1 = 1, 0 + n = n, n \in 0 .. Len(s) - 0

\* Values of the kinds that are sent, and what is read of them.
LEMMA ValueTypes ==
  /\ \A v \in Int : Val("int", v) \in Value
  /\ \A v \in {0, 1} : Val("bool", v) \in Value
  /\ \A v \in Block : Val("data", v) \in Value
  /\ \A v \in Texts : Val("str", v) \in Value
  /\ \A x \in Value :
       /\ x.t = "int" => x.v \in Int
       /\ x.t = "bool" => x.v \in {0, 1}
       /\ x.t = "data" => x.v \in Block
  BY DEF Value, Val

LEMMA ReadTypes ==
  ASSUME inp \in InPacket, NEW k \in Nat
  PROVE  Ints(k) \subseteq Int /\ Bools(k) \subseteq {0, 1} /\ Datas(k) \subseteq Block
  <1>1. ASSUME NEW t, Holds(k, t)
        PROVE  inp.vals[k] \in Value /\ inp.vals[k].t = t
    BY <1>1 DEF Holds, InPacket
  <1>2. BlockSize \in Nat
    BY XferAssumption DEF XferAssumption
  <1>3. [i \in 1 .. BlockSize |-> 0] \in Block /\ <<>> \in Block
    BY <1>2 DEF Block
  <1>4. Ints(k) \subseteq Int
    <2>1. CASE Holds(k, "int")
      BY <1>1, <2>1, ValueTypes DEF Ints
    <2>2. CASE Holds(k, "bool") /\ ~Holds(k, "int")
      BY <1>1, <2>2, ValueTypes DEF Ints
    <2> QED
      BY <2>1, <2>2 DEF Ints
  <1>5. Bools(k) \subseteq {0, 1}
    BY <1>1, ValueTypes DEF Bools
  <1>6. Datas(k) \subseteq Block
    BY <1>1, <1>3, ValueTypes DEF Datas
  <1> QED
    BY <1>4, <1>5, <1>6

-----------------------------------------------------------------------------
(* Types are kept.                                                         *)

Codes == {0, 1, 2, 3, 4, 6, 7, 8}

\* The packets of the calls that are made.
LEMMA CallTypes ==
  /\ \A n \in {"get_info", "get_fsize_mode", "set_fmode", "close_file"} :
       [name |-> n, arg |-> 0] \in CallPacket
  /\ [name |-> "open_file", arg |-> IF direction = "GET" THEN "r" ELSE "w"] \in CallPacket
  /\ direction = "PUT" => \A b \in Seq(Nat) : [name |-> "put_data", arg |-> b] \in CallPacket
  /\ direction = "GET" => [name |-> "get_data", arg |-> BlockSize] \in CallPacket
  /\ \A c \in CallPacket :
       /\ c.name \in Calls
       /\ c.name = "put_data" => c.arg \in Seq(Nat) /\ direction = "PUT"
       /\ c.name = "get_data" => c.arg = BlockSize /\ direction = "GET"
       /\ c.name = "open_file" => (c.arg = "w" <=> direction # "GET")
  BY DEF CallPacket, Calls

LEMMA AnswerTypes ==
  ASSUME NEW s \in Seq(AnswerPacket)
  PROVE  \A i \in DOMAIN s : /\ s[i] \in AnswerPacket
                             /\ s[i].to \in Calls \cup {"none"}
                             /\ s[i].op \in {"RETURN", "FRETURN", "FERROR"}
                             /\ s[i].vals \in Seq(Value) /\ s[i].whole \in BOOLEAN
  <1>1. \A i \in DOMAIN s : s[i] \in AnswerPacket
    OBVIOUS
  <1> QED
    BY <1>1 DEF AnswerPacket

LEMMA SentTypes ==
  ASSUME Types, NEW name, NEW arg, NEW next, [name |-> name, arg |-> arg] \in CallPacket,
         CallAndWait(name, arg, next)
  PROVE  /\ calls' \in Seq(CallPacket)
         /\ pc' = next /\ got' = FALSE /\ answers' = answers /\ late' = late
  BY OneMore DEF Types, CallAndWait

LEMMA FreedTypes ==
  ASSUME Types, FreePacket
  PROVE  inp' \in InPacket
  BY EmptySeq DEF Types, FreePacket, InPacket

LEMMA ExitTypes ==
  ASSUME Types, NEW c \in Codes, NEW k \in BOOLEAN, scl_il_xfer_exit(c, k)
  PROVE  /\ inp' \in InPacket /\ calls' \in Seq(CallPacket)
         /\ answers' = answers /\ late' = late
         /\ code' = c /\ kill' = k /\ got' = FALSE
         /\ pc' = IF k THEN "w_close" ELSE "fclose"
  <1>1. inp' \in InPacket
    BY FreedTypes DEF scl_il_xfer_exit
  <1>2. CASE k
    <2>1. [name |-> "close_file", arg |-> 0] \in CallPacket
      BY CallTypes
    <2>2. CallAndWait("close_file", 0, "w_close") /\ code' = c /\ kill' = k
      BY <1>2 DEF scl_il_xfer_exit
    <2> QED
      BY <1>1, <1>2, <2>1, <2>2, SentTypes
  <1>3. CASE ~k
    BY <1>1, <1>3 DEF scl_il_xfer_exit, GoTo, wire, Types
  <1> QED
    BY <1>2, <1>3

LEMMA UnexpectedTypes ==
  ASSUME Types, NEW c \in Codes, NEW k \in BOOLEAN, UnexpectedReturn(c, k)
  PROVE  /\ inp' \in InPacket /\ calls' \in Seq(CallPacket)
         /\ answers' = answers /\ late' = late
         /\ code' = c /\ kill' = k /\ got' = FALSE
         /\ pc' \in {"w_err", "w_close", "fclose"}
  <1>1. CASE inp.op = "FERROR"
    BY <1>1 DEF UnexpectedReturn, GoTo, wire, Types
  <1>2. CASE inp.op # "FERROR"
    BY <1>2, ExitTypes DEF UnexpectedReturn
  <1> QED
    BY <1>1, <1>2

\* What a step of the local side leaves to be shown.
LEMMA LocalTypes ==
  ASSUME Types, UNCHANGED <<direction, alive, rapi, rfile, rpos, rhandle, answers, late>>,
         inp' \in InPacket, calls' \in Seq(CallPacket), got' = FALSE,
         code' \in Codes, kill' \in BOOLEAN, lopen' \in BOOLEAN,
         pc' \in Waiting \cup {"start", "loop", "callback", "mode", "fclose", "done"},
         pc' = "w_put" => direction = "PUT", pc' = "w_get" => direction = "GET",
         api_vers' \in Int, remote_mode' \in Int, data_len' \in 0 .. BlockSize,
         lfile' \in Seq(Nat), lpos' \in 0 .. Len(lfile'), direction = "GET" => lpos' = 0,
         history' \subseteq Events
  PROVE  Types'
  <1>1. CallPacket' = CallPacket
    BY DEF CallPacket
  <1>2. \A i \in DOMAIN calls' : calls'[i].name \in Calls
    BY CallTypes
  <1>3. inp'.op \in {"RETURN", "FRETURN", "FERROR"} /\ inp'.freed \in BOOLEAN
    BY DEF InPacket
  <1>4. \A i \in DOMAIN answers' : answers'[i].to \in Calls \cup {"none"}
    BY DEF Types, TypeOK
  <1>5. TypeOK'
    BY <1>2, <1>3, <1>4 DEF Types, TypeOK, Codes
  <1>6. inp' \in InPacket' /\ calls' \in Seq(CallPacket') /\ answers' \in Seq(AnswerPacket')
    BY <1>1 DEF Types, InPacket, AnswerPacket
  <1> QED
    BY <1>5, <1>6 DEF Types

\* The parts of the state that a step leaves alone.
Elsewhere == UNCHANGED <<direction, alive, rapi, remoteFile>>

Points == Waiting \cup {"start", "loop", "callback", "mode", "fclose", "done"}

\* What is known of the local variables.
LEMMA LocalFacts ==
  ASSUME Types
  PROVE  /\ api_vers \in Int /\ remote_mode \in Int /\ data_len \in 0 .. BlockSize
         /\ lfile \in Seq(Nat) /\ lpos \in 0 .. Len(lfile) /\ lopen \in BOOLEAN
         /\ code \in Codes /\ kill \in BOOLEAN /\ history \subseteq Events
         /\ direction = "GET" => lpos = 0
         /\ inp \in InPacket
         /\ Len(lfile) \in Nat
  BY DEF Types, TypeOK, Codes

LEMMA CauseIs ==
  /\ DOMAIN Cause = 1 .. 8
  /\ Cause[1] = "local_open" /\ Cause[2] = "local_stat" /\ Cause[3] = "opcode"
  /\ Cause[4] = "remote_open" /\ Cause[5] = "no_data" /\ Cause[6] = "remote_write"
  /\ Cause[7] = "local_write" /\ Cause[8] = "callback"
  BY DEF Cause

LEMMA EventsAre ==
  {"local_open", "local_stat", "remote_open", "remote_write", "local_write", "callback",
   "read_failed", "unreported", "bad_handle"} \subseteq Events
  <1>1. \A c \in 1 .. 8 : Cause[c] \in Events
    BY CauseIs DEF Events
  <1>2. 1 \in 1 .. 8 /\ 2 \in 1 .. 8 /\ 4 \in 1 .. 8 /\ 6 \in 1 .. 8 /\ 7 \in 1 .. 8 /\ 8 \in 1 .. 8
    OBVIOUS
  <1>3. {"read_failed", "unreported", "bad_handle"} \subseteq Events
    BY DEF Events
  <1> QED
    BY <1>1, <1>2, <1>3, CauseIs

LEMMA WaitingIs ==
  Waiting = {"w_api", "w_fsize", "w_open", "w_put", "w_get", "w_mode", "w_close", "w_err"}
  BY DEF Waiting, Expected

LEMMA AfterErrorTypes ==
  ASSUME Types, AfterError, Elsewhere
  PROVE  Types'
  <1>1. code \in Codes /\ kill \in BOOLEAN
    BY DEF Types, TypeOK, Codes
  <1>2. scl_il_xfer_exit(code, kill)
    BY DEF AfterError
  <1> QED
    BY <1>1, <1>2, ExitTypes, LocalTypes
    DEF AfterError, Elsewhere, remoteFile, info, localFile, Types, TypeOK, Waiting, Expected

LEMMA GetApiVersionTypes ==
  ASSUME Types, GetApiVersion, Elsewhere
  PROVE  Types'
  <1>1. [name |-> "get_info", arg |-> 0] \in CallPacket
    BY CallTypes
  <1>2. CallAndWait("get_info", 0, "w_api")
    BY DEF GetApiVersion
  <1>3. UNCHANGED <<code, kill, api_vers, remote_mode, data_len, lfile, lpos, lopen, inp, history>>
    BY DEF GetApiVersion, info, localFile
  <1>4. calls' \in Seq(CallPacket) /\ pc' = "w_api" /\ got' = FALSE /\ UNCHANGED <<answers, late>>
    BY <1>1, <1>2, SentTypes
  <1>5. UNCHANGED <<direction, alive, rapi, rfile, rpos, rhandle>>
    BY DEF Elsewhere, remoteFile
  <1> QED
    BY <1>3, <1>4, <1>5, LocalFacts, LocalTypes, WaitingIs

LEMMA OpenRemoteTypes ==
  ASSUME Types, NEW next, OpenRemote(next)
  PROVE  /\ calls' \in Seq(CallPacket)
         /\ pc' = next /\ got' = FALSE /\ answers' = answers /\ late' = late
  BY CallTypes, SentTypes DEF OpenRemote

LEMMA OpenLocalTypes ==
  ASSUME Types, OpenLocal, Elsewhere
  PROVE  Types'
  <1>1. api_vers' \in Int
    BY ReadTypes DEF OpenLocal, Types
  <1>2. /\ UNCHANGED <<remote_mode, data_len>>
        /\ lfile \in Seq(Nat) /\ lpos \in 0 .. Len(lfile) /\ lopen \in BOOLEAN
        /\ code \in Codes /\ kill \in BOOLEAN /\ history \subseteq Events
        /\ remote_mode \in Int /\ data_len \in 0 .. BlockSize
        /\ direction = "GET" => lpos = 0
    BY DEF OpenLocal, Types, TypeOK, Codes
  <1>3. CASE /\ Note("local_open") /\ scl_il_xfer_exit(1, FALSE) /\ UNCHANGED localFile
    <2>1. history' \subseteq Events
      BY <1>2, <1>3 DEF Note, Events, Cause
    <2> QED
      BY <1>1, <1>2, <1>3, <2>1, ExitTypes, LocalTypes
      DEF Elsewhere, remoteFile, localFile, Codes, Waiting, Expected
  <1>4. CASE /\ lopen' = TRUE
             /\ lfile' = IF direction = "GET" THEN <<>> ELSE lfile
             /\ UNCHANGED lpos
             /\ \/ Note("local_stat") /\ scl_il_xfer_exit(2, FALSE)
                \/ /\ FreePacket /\ UNCHANGED history
                   /\ IF direction = "GET" /\ api_vers' >= 3
                        THEN CallAndWait("get_fsize_mode", 0, "w_fsize")
                        ELSE OpenRemote("w_open")
                   /\ UNCHANGED <<code, kill>>
    <2>1. lfile' \in Seq(Nat) /\ lpos' \in 0 .. Len(lfile') /\ (direction = "GET" => lpos' = 0)
      BY <1>2, <1>4, EmptySeq
    <2>2. CASE Note("local_stat") /\ scl_il_xfer_exit(2, FALSE)
      <3>1. history' \subseteq Events
        BY <1>2, <2>2 DEF Note, Events, Cause
      <3> QED
        BY <1>1, <1>2, <1>4, <2>1, <2>2, <3>1, ExitTypes, LocalTypes
        DEF Elsewhere, remoteFile, Codes, Waiting, Expected
    <2>3. CASE /\ FreePacket /\ UNCHANGED history /\ UNCHANGED <<code, kill>>
               /\ IF direction = "GET" /\ api_vers' >= 3
                    THEN CallAndWait("get_fsize_mode", 0, "w_fsize") ELSE OpenRemote("w_open")
      <3>1. [name |-> "get_fsize_mode", arg |-> 0] \in CallPacket
        BY CallTypes
      <3>2. /\ calls' \in Seq(CallPacket) /\ pc' \in {"w_fsize", "w_open"} /\ got' = FALSE
            /\ answers' = answers /\ late' = late
        BY <2>3, <3>1, SentTypes, OpenRemoteTypes
      <3> QED
        BY <1>1, <1>2, <1>4, <2>1, <2>3, <3>2, FreedTypes, LocalTypes
        DEF Elsewhere, remoteFile, Waiting, Expected
    <2> QED
      BY <1>4, <2>2, <2>3
  <1> QED
    BY <1>3, <1>4 DEF OpenLocal

LEMMA GotSizeModeTypes ==
  ASSUME Types, GotSizeMode, Elsewhere
  PROVE  Types'
  <1>1. remote_mode' \in Int
    BY ReadTypes DEF GotSizeMode, Types
  <1>2. inp' \in InPacket /\ OpenRemote("w_open")
    BY FreedTypes DEF GotSizeMode
  <1>3. UNCHANGED <<code, kill, api_vers, data_len, lfile, lpos, lopen, history>>
    BY DEF GotSizeMode, localFile
  <1>4. calls' \in Seq(CallPacket) /\ pc' = "w_open" /\ got' = FALSE /\ UNCHANGED <<answers, late>>
    BY <1>2, OpenRemoteTypes
  <1>5. UNCHANGED <<direction, alive, rapi, rfile, rpos, rhandle>>
    BY DEF Elsewhere, remoteFile
  <1> QED
    BY <1>1, <1>2, <1>3, <1>4, <1>5, LocalFacts, LocalTypes, WaitingIs

LEMMA CheckOpenTypes ==
  ASSUME Types, CheckOpen, Elsewhere
  PROVE  Types'
  <1>1. CASE UnexpectedReturn(3, FALSE)
    BY <1>1, UnexpectedTypes, LocalTypes
    DEF CheckOpen, Elsewhere, remoteFile, info, localFile, Types, TypeOK, Codes, Waiting, Expected
  <1>2. CASE FreePacket /\ GoTo("loop") /\ UNCHANGED <<code, kill>>
    BY <1>2, FreedTypes, LocalTypes
    DEF CheckOpen, GoTo, wire, Elsewhere, remoteFile, info, localFile, Types, TypeOK, Codes, Waiting,
        Expected
  <1>3. CASE scl_il_xfer_exit(4, FALSE)
    BY <1>3, ExitTypes, LocalTypes
    DEF CheckOpen, Elsewhere, remoteFile, info, localFile, Types, TypeOK, Codes, Waiting, Expected
  <1> QED
    BY <1>1, <1>2, <1>3 DEF CheckOpen

\* What PutBlock reads.
BlockOf(error) ==
    IF error THEN 0 ELSE IF Len(lfile) - lpos < BlockSize THEN Len(lfile) - lpos ELSE BlockSize

LEMMA BlockOfType ==
  ASSUME Types, NEW error \in BOOLEAN
  PROVE  BlockOf(error) \in 0 .. BlockSize /\ BlockOf(error) \in 0 .. Len(lfile) - lpos
  BY LocalFacts, XferAssumption DEF XferAssumption, BlockOf

LEMMA PutBlockTypes ==
  ASSUME Types, PutBlock, Elsewhere
  PROVE  Types'
  <1>1. PICK error \in BOOLEAN :
          /\ data_len' = BlockOf(error) /\ lpos' = lpos + BlockOf(error)
          /\ history' = IF error /\ Len(lfile) - lpos > 0 THEN history \cup {"unreported"} ELSE history
          /\ IF BlockOf(error) = 0 THEN GoTo("mode")
               ELSE CallAndWait("put_data", SubSeq(lfile, lpos + 1, lpos + BlockOf(error)), "w_put")
    BY DEF PutBlock, BlockOf
  <1> DEFINE n == BlockOf(error)
             b == SubSeq(lfile, lpos + 1, lpos + n)
  <1>2. /\ direction = "PUT"
        /\ UNCHANGED <<code, kill, api_vers, remote_mode, lfile, lopen, inp>>
    BY DEF PutBlock
  <1>3. n \in 0 .. BlockSize /\ n \in 0 .. Len(lfile) - lpos
    BY BlockOfType
  <1>4. data_len' \in 0 .. BlockSize /\ lpos' \in 0 .. Len(lfile')
    BY <1>1, <1>2, <1>3, LocalFacts
  <1>5. history' \subseteq Events
    BY <1>1, LocalFacts DEF Events
  <1>6. /\ calls' \in Seq(CallPacket) /\ pc' \in {"mode", "w_put"} /\ got' = FALSE
        /\ UNCHANGED <<answers, late>>
    <2>1. CASE n = 0
      BY <1>1, <2>1 DEF GoTo, wire, Types
    <2>2. CASE n # 0
      <3>1. b \in Seq(Nat)
        BY <1>3, LocalFacts, NextBytes
      <3>2. [name |-> "put_data", arg |-> b] \in CallPacket
        BY <1>2, <3>1, CallTypes
      <3>3. CallAndWait("put_data", b, "w_put")
        BY <1>1, <2>2
      <3> QED
        BY <3>2, <3>3, SentTypes
    <2> QED
      BY <2>1, <2>2
  <1>7. UNCHANGED <<direction, alive, rapi, rfile, rpos, rhandle>>
    BY DEF Elsewhere, remoteFile
  <1> QED
    BY <1>2, <1>4, <1>5, <1>6, <1>7, LocalFacts, LocalTypes, WaitingIs

LEMMA CheckPutTypes ==
  ASSUME Types, CheckPut, Elsewhere
  PROVE  Types'
  <1>1. UNCHANGED <<api_vers, remote_mode, data_len, lfile, lpos, lopen, history>>
    BY DEF CheckPut, info, localFile
  <1>2. UNCHANGED <<direction, alive, rapi, rfile, rpos, rhandle>>
    BY DEF Elsewhere, remoteFile
  <1>3. /\ inp' \in InPacket /\ calls' \in Seq(CallPacket) /\ UNCHANGED <<answers, late>>
        /\ code' \in Codes /\ kill' \in BOOLEAN /\ got' = FALSE
        /\ pc' \in {"w_err", "w_close", "fclose", "callback"}
    <2>1. CASE UnexpectedReturn(4, TRUE)
      BY <2>1, UnexpectedTypes DEF Codes
    <2>2. CASE FreePacket /\ GoTo("callback") /\ UNCHANGED <<code, kill>>
      BY <2>2, FreedTypes, LocalFacts DEF GoTo, wire, Types
    <2>3. CASE scl_il_xfer_exit(6, TRUE)
      BY <2>3, ExitTypes DEF Codes
    <2> QED
      BY <2>1, <2>2, <2>3 DEF CheckPut
  <1> QED
    BY <1>1, <1>2, <1>3, LocalFacts, LocalTypes, WaitingIs

LEMMA GetBlockTypes ==
  ASSUME Types, GetBlock, Elsewhere
  PROVE  Types'
  <1>1. UNCHANGED <<code, kill, api_vers, remote_mode, data_len, lfile, lpos, lopen, inp, history>>
    BY DEF GetBlock, info, localFile
  <1>2. [name |-> "get_data", arg |-> BlockSize] \in CallPacket /\ direction = "GET"
    BY CallTypes DEF GetBlock
  <1>3. CallAndWait("get_data", BlockSize, "w_get")
    BY DEF GetBlock
  <1>4. calls' \in Seq(CallPacket) /\ pc' = "w_get" /\ got' = FALSE /\ UNCHANGED <<answers, late>>
    BY <1>2, <1>3, SentTypes
  <1>5. UNCHANGED <<direction, alive, rapi, rfile, rpos, rhandle>>
    BY DEF Elsewhere, remoteFile
  <1> QED
    BY <1>1, <1>2, <1>4, <1>5, LocalFacts, LocalTypes, WaitingIs

LEMMA WriteLocalTypes ==
  ASSUME Types, WriteLocal, Elsewhere
  PROVE  Types'
  <1>1. UNCHANGED <<api_vers, remote_mode, lpos, lopen>> /\ pc = "w_get"
    BY DEF WriteLocal
  <1>2. UNCHANGED <<direction, alive, rapi, rfile, rpos, rhandle>>
    BY DEF Elsewhere, remoteFile
  <1>3. lpos = 0
    BY <1>1, LocalFacts DEF Types
  <1>4. CASE UnexpectedReturn(4, TRUE) /\ UNCHANGED <<data_len, lfile, history>>
    <2>1. /\ inp' \in InPacket /\ calls' \in Seq(CallPacket) /\ UNCHANGED <<answers, late>>
          /\ code' \in Codes /\ kill' \in BOOLEAN /\ got' = FALSE
          /\ pc' \in {"w_err", "w_close", "fclose"}
      BY <1>4, UnexpectedTypes DEF Codes
    <2> QED
      BY <1>1, <1>2, <1>4, <2>1, LocalFacts, LocalTypes, WaitingIs
  <1>5. ASSUME NEW data \in Datas(1), NEW full \in BOOLEAN, data_len' = Len(data),
               \/ /\ scl_il_xfer_exit(7, TRUE) /\ UNCHANGED lfile
                  /\ history' = IF full THEN history \cup {"local_write"} ELSE history
               \/ /\ lfile' = lfile \o data
                  /\ FreePacket /\ GoTo("callback") /\ UNCHANGED <<code, kill, history>>
        PROVE  Types'
    <2>1. data \in Seq(Nat) /\ Len(data) \in 0 .. BlockSize
      BY ReadTypes, XferAssumption DEF Types, Block, XferAssumption
    <2>2. /\ inp' \in InPacket /\ calls' \in Seq(CallPacket) /\ UNCHANGED <<answers, late>>
          /\ code' \in Codes /\ kill' \in BOOLEAN /\ got' = FALSE
          /\ pc' \in {"w_close", "callback"}
          /\ lfile' \in Seq(Nat) /\ history' \subseteq Events
      <3>1. CASE /\ scl_il_xfer_exit(7, TRUE) /\ UNCHANGED lfile
                 /\ history' = IF full THEN history \cup {"local_write"} ELSE history
        BY <3>1, ExitTypes, LocalFacts, EventsAre DEF Codes
      <3>2. CASE /\ lfile' = lfile \o data
                 /\ FreePacket /\ GoTo("callback") /\ UNCHANGED <<code, kill, history>>
        BY <2>1, <3>2, FreedTypes, LocalFacts, ConcatProperties DEF GoTo, wire, Types
      <3> QED
        BY <1>5, <3>1, <3>2
    <2>3. lpos' \in 0 .. Len(lfile') /\ data_len' \in 0 .. BlockSize
      BY <1>1, <1>3, <1>5, <2>1, <2>2
    <2> QED
      BY <1>1, <1>2, <1>3, <2>2, <2>3, LocalFacts, LocalTypes, WaitingIs
  <1> QED
    BY <1>4, <1>5 DEF WriteLocal

LEMMA CallbackTypes ==
  ASSUME Types, Callback, Elsewhere
  PROVE  Types'
  <1>1. UNCHANGED <<api_vers, remote_mode, data_len, lfile, lpos, lopen>>
    BY DEF Callback, info, localFile
  <1>2. UNCHANGED <<direction, alive, rapi, rfile, rpos, rhandle>>
    BY DEF Elsewhere, remoteFile
  <1>3. /\ inp' \in InPacket /\ calls' \in Seq(CallPacket) /\ UNCHANGED <<answers, late>>
        /\ code' \in Codes /\ kill' \in BOOLEAN /\ got' = FALSE
        /\ pc' \in {"w_close", "mode", "loop"} /\ history' \subseteq Events
    <2>1. CASE scl_il_xfer_exit(8, TRUE) /\ Note("callback")
      BY <2>1, ExitTypes, LocalFacts, EventsAre DEF Codes, Note
    <2>2. CASE /\ GoTo(IF direction = "GET" /\ data_len # BlockSize THEN "mode" ELSE "loop")
               /\ UNCHANGED <<code, kill, inp, history>>
      BY <2>2, LocalFacts DEF GoTo, wire, Types
    <2> QED
      BY <2>1, <2>2 DEF Callback
  <1> QED
    BY <1>1, <1>2, <1>3, LocalFacts, LocalTypes, WaitingIs

LEMMA SetModeTypes ==
  ASSUME Types, SetMode, Elsewhere
  PROVE  Types'
  <1>1. UNCHANGED <<api_vers, remote_mode, data_len, lfile, lpos, lopen, history>>
    BY DEF SetMode, info, localFile
  <1>2. UNCHANGED <<direction, alive, rapi, rfile, rpos, rhandle>>
    BY DEF Elsewhere, remoteFile
  <1>3. /\ inp' \in InPacket /\ calls' \in Seq(CallPacket) /\ UNCHANGED <<answers, late>>
        /\ code' \in Codes /\ kill' \in BOOLEAN /\ got' = FALSE
        /\ pc' \in {"w_close", "w_mode"}
    <2>1. CASE scl_il_xfer_exit(0, TRUE)
      BY <2>1, ExitTypes DEF Codes
    <2>2. CASE CallAndWait("set_fmode", 0, "w_mode") /\ UNCHANGED <<code, kill, inp>>
      <3>1. [name |-> "set_fmode", arg |-> 0] \in CallPacket
        BY CallTypes
      <3> QED
        BY <2>2, <3>1, SentTypes, LocalFacts
    <2> QED
      BY <2>1, <2>2 DEF SetMode
  <1> QED
    BY <1>1, <1>2, <1>3, LocalFacts, LocalTypes, WaitingIs

LEMMA CheckModeTypes ==
  ASSUME Types, CheckMode, Elsewhere
  PROVE  Types'
  <1>1. UNCHANGED <<api_vers, remote_mode, data_len, lfile, lpos, lopen, history>>
    BY DEF CheckMode, info, localFile
  <1>2. UNCHANGED <<direction, alive, rapi, rfile, rpos, rhandle>>
    BY DEF Elsewhere, remoteFile
  <1>3. scl_il_xfer_exit(0, TRUE)
    BY DEF CheckMode
  <1>4. /\ inp' \in InPacket /\ calls' \in Seq(CallPacket) /\ UNCHANGED <<answers, late>>
        /\ code' \in Codes /\ kill' \in BOOLEAN /\ got' = FALSE /\ pc' = "w_close"
    BY <1>3, ExitTypes DEF Codes
  <1> QED
    BY <1>1, <1>2, <1>4, LocalFacts, LocalTypes, WaitingIs

LEMMA RemoteClosedTypes ==
  ASSUME Types, RemoteClosed, Elsewhere
  PROVE  Types'
  <1>1. /\ UNCHANGED <<code, kill, api_vers, remote_mode, data_len, lfile, lpos, lopen, history>>
        /\ FreePacket /\ pc' = "fclose" /\ got' = FALSE /\ UNCHANGED <<calls, answers, late>>
    BY DEF RemoteClosed, info, localFile, GoTo, wire
  <1>2. UNCHANGED <<direction, alive, rapi, rfile, rpos, rhandle>>
    BY DEF Elsewhere, remoteFile
  <1>3. inp' \in InPacket /\ calls' \in Seq(CallPacket)
    BY <1>1, FreedTypes DEF Types
  <1> QED
    BY <1>1, <1>2, <1>3, LocalFacts, LocalTypes

LEMMA CloseLocalTypes ==
  ASSUME Types, CloseLocal, Elsewhere
  PROVE  Types'
  <1>1. PICK lost \in BOOLEAN :
          /\ lost => direction = "GET" /\ lfile # <<>>
          /\ lfile' = IF lost THEN SubSeq(lfile, 1, Len(lfile) - 1) ELSE lfile
          /\ history' = IF lost THEN history \cup {"unreported"} ELSE history
    BY DEF CloseLocal
  <1>2. /\ UNCHANGED <<code, kill, api_vers, remote_mode, data_len, lpos, inp>>
        /\ lopen' = FALSE /\ pc' = "done" /\ got' = FALSE /\ UNCHANGED <<calls, answers, late>>
    BY DEF CloseLocal, info, GoTo, wire
  <1>3. UNCHANGED <<direction, alive, rapi, rfile, rpos, rhandle>>
    BY DEF Elsewhere, remoteFile
  <1>4. /\ lfile' \in Seq(Nat) /\ lpos' \in 0 .. Len(lfile') /\ history' \subseteq Events
    <2>1. CASE lost
      <3>1. Len(lfile) - 1 \in 0 .. Len(lfile) /\ lpos = 0
        BY <1>1, <2>1, LocalFacts
      <3> QED
        BY <1>1, <1>2, <2>1, <3>1, LocalFacts, Prefix, EventsAre
    <2> QED
      BY <1>1, <1>2, <2>1, LocalFacts
  <1>5. calls' \in Seq(CallPacket)
    BY <1>2 DEF Types
  <1> QED
    BY <1>2, <1>3, <1>4, <1>5, LocalFacts, LocalTypes

LEMMA LocalStepTypes ==
  ASSUME Types, LocalStep
  PROVE  Types'
  <1>1. Elsewhere
    BY DEF LocalStep, Elsewhere
  <1> QED
    BY <1>1, AfterErrorTypes, GetApiVersionTypes, OpenLocalTypes, GotSizeModeTypes, CheckOpenTypes,
       PutBlockTypes, CheckPutTypes, GetBlockTypes, WriteLocalTypes, CallbackTypes, SetModeTypes,
       CheckModeTypes, RemoteClosedTypes, CloseLocalTypes
    DEF LocalStep

LEMMA ReadTypesKept ==
  ASSUME Types, scl_read_packet
  PROVE  Types'
  <1>1. /\ UNCHANGED <<direction, pc, code, kill, api_vers, remote_mode, data_len, lfile, lpos, lopen,
                       calls, alive, rapi, rfile, rpos, rhandle>>
        /\ got' = TRUE
    BY DEF scl_read_packet, info, localFile, remoteFile
  <1>2. /\ inp' \in InPacket /\ answers' \in Seq(AnswerPacket) /\ late' \in 0 .. MaxLate
        /\ history' \subseteq Events
    <2>1. CASE TakeAnswer
      <3>1. Head(answers) \in AnswerPacket /\ Tail(answers) \in Seq(AnswerPacket)
        BY <2>1, HeadAndTail DEF TakeAnswer, Types
      <3>2. answers' = Tail(answers) /\ late' = late
        BY <2>1 DEF TakeAnswer
      <3>3. inp' \in InPacket /\ history' \subseteq Events
        BY <2>1, <3>1, LocalFacts, EventsAre DEF TakeAnswer, InPacket, AnswerPacket
      <3> QED
        BY <3>1, <3>2, <3>3 DEF Types, TypeOK
    <2>2. CASE TimeOut
      BY <2>2, LocalFacts, EventsAre, XferAssumption DEF TimeOut, Types, TypeOK, XferAssumption
    <2>3. CASE HangUp
      BY <2>3, LocalFacts, EventsAre DEF HangUp, Types, TypeOK
    <2> QED
      BY <2>1, <2>2, <2>3 DEF scl_read_packet
  <1>3. CallPacket' = CallPacket
    BY <1>1 DEF CallPacket
  <1>4. \A i \in DOMAIN answers' : answers'[i].to \in Calls \cup {"none"}
    BY <1>2, AnswerTypes
  <1>5. inp'.op \in {"RETURN", "FRETURN", "FERROR"} /\ inp'.freed \in BOOLEAN
    BY <1>2 DEF InPacket
  <1>6. TypeOK'
    BY <1>1, <1>2, <1>4, <1>5 DEF Types, TypeOK
  <1>7. inp' \in InPacket' /\ calls' \in Seq(CallPacket') /\ answers' \in Seq(AnswerPacket')
    BY <1>1, <1>2, <1>3 DEF Types, InPacket, AnswerPacket
  <1> QED
    BY <1>1, <1>6, <1>7 DEF Types

\* What a step of the suvlet, or its death, leaves to be shown.
LEMMA RemoteTypes ==
  ASSUME Types, UNCHANGED <<direction, control, info, localFile, inp, rapi, late>>,
         calls' \in Seq(CallPacket), answers' \in Seq(AnswerPacket), alive' \in BOOLEAN,
         rfile' \in Seq(Nat), rpos' \in 0 .. Len(rfile'), direction = "PUT" => rpos' = 0,
         rhandle' \in {"null", "open", "closed"}, history' \subseteq Events
  PROVE  Types'
  <1>1. UNCHANGED <<direction, pc, got, code, kill, api_vers, remote_mode, data_len, lfile, lpos, lopen,
                    inp, rapi, late>>
    BY DEF control, info, localFile
  <1>2. CallPacket' = CallPacket
    BY <1>1 DEF CallPacket
  <1>3. \A i \in DOMAIN answers' : answers'[i].to \in Calls \cup {"none"}
    BY AnswerTypes
  <1>4. \A i \in DOMAIN calls' : calls'[i].name \in Calls
    BY CallTypes
  <1>5. TypeOK'
    BY <1>1, <1>3, <1>4 DEF Types, TypeOK
  <1>6. inp' \in InPacket' /\ calls' \in Seq(CallPacket') /\ answers' \in Seq(AnswerPacket')
    BY <1>1, <1>2 DEF Types, InPacket, AnswerPacket
  <1> QED
    BY <1>1, <1>5, <1>6 DEF Types

\* What is known of the suvlet.
LEMMA RemoteFacts ==
  ASSUME Types
  PROVE  /\ rfile \in Seq(Nat) /\ Len(rfile) \in Nat /\ rpos \in 0 .. Len(rfile)
         /\ rhandle \in {"null", "open", "closed"} /\ alive \in BOOLEAN
         /\ calls \in Seq(CallPacket) /\ answers \in Seq(AnswerPacket)
         /\ direction \in {"GET", "PUT"} /\ (direction = "PUT" => rpos = 0)
         /\ history \subseteq Events /\ rapi \in Nat /\ late \in 0 .. MaxLate
  BY DEF Types, TypeOK

LEMMA TakenCall ==
  ASSUME Types, NEW name, Serves(name)
  PROVE  /\ calls # <<>> /\ alive /\ Head(calls) = calls[1] /\ calls[1].name = name
         /\ Head(calls) \in CallPacket /\ Tail(calls) \in Seq(CallPacket)
         /\ Len(Tail(calls)) = Len(calls) - 1
  BY RemoteFacts, HeadAndTail DEF Serves

LEMMA AnsweredTypes ==
  ASSUME Types, NEW name, Serves(name), NEW vals \in Seq(Value), Answer(vals)
  PROVE  /\ calls' \in Seq(CallPacket) /\ answers' \in Seq(AnswerPacket)
         /\ late' = late /\ alive' = alive
  <1>1. Head(calls).name \in Calls
    BY TakenCall, CallTypes
  <1>2. [op |-> "FRETURN", vals |-> vals, to |-> Head(calls).name, whole |-> TRUE] \in AnswerPacket
    BY <1>1 DEF AnswerPacket
  <1> QED
    BY <1>2, RemoteFacts, TakenCall, OneMore DEF Answer

LEMMA BadHandleTypes ==
  ASSUME Types, BadHandle, UNCHANGED <<direction, control, info, localFile, inp, rapi>>
  PROVE  Types'
  BY RemoteFacts, EventsAre, RemoteTypes, EmptySeq DEF BadHandle, remoteFile

\* Answers with values of their types.
LEMMA ValueSeqs ==
  /\ <<>> \in Seq(Value)
  /\ \A v \in Value : <<v>> \in Seq(Value)
  /\ \A v, w \in Value : <<v, w>> \in Seq(Value)
  OBVIOUS

RemoteRest == UNCHANGED <<direction, control, info, localFile, inp, rapi>>

LEMMA InfoTypes ==
  ASSUME Types, r_get_info, RemoteRest
  PROVE  Types'
  <1>1. <<Val("int", rapi)>> \in Seq(Value)
    BY RemoteFacts, ValueTypes, ValueSeqs
  <1> QED
    BY <1>1, AnsweredTypes, RemoteFacts, RemoteTypes DEF r_get_info, RemoteRest, remoteFile

LEMMA SizeModeTypes ==
  ASSUME Types, r_get_fsize_mode, RemoteRest
  PROVE  Types'
  <1>1. /\ <<Val("int", Len(rfile)), Val("int", 0)>> \in Seq(Value)
        /\ <<Val("int", -1), Val("int", -1)>> \in Seq(Value)
    BY RemoteFacts, ValueTypes, ValueSeqs
  <1>2. Serves("get_fsize_mode") /\ UNCHANGED <<rfile, rpos, rhandle, history>>
    BY DEF r_get_fsize_mode, remoteFile
  <1>3. /\ calls' \in Seq(CallPacket) /\ answers' \in Seq(AnswerPacket)
        /\ late' = late /\ alive' = alive
    BY <1>1, <1>2, AnsweredTypes DEF r_get_fsize_mode
  <1> QED
    BY <1>2, <1>3, RemoteFacts, RemoteTypes DEF RemoteRest

LEMMA OpenFileTypes ==
  ASSUME Types, r_open_file, RemoteRest
  PROVE  Types'
  <1>1. OpenedOk \in Seq(Value) /\ NotOpened \in Seq(Value)
    <2>1. /\ Val("int", 0) \in Value /\ Val("int", 1) \in Value
          /\ Val("str", "") \in Value /\ Val("str", "error") \in Value
      <3>1. "" \in Texts /\ "error" \in Texts /\ 0 \in Int /\ 1 \in Int
        BY DEF Texts
      <3> QED
        BY <3>1, ValueTypes
    <2> QED
      BY <2>1, ValueSeqs DEF OpenedOk, NotOpened
  <1>2. Serves("open_file")
    BY DEF r_open_file
  <1>3. CASE /\ rhandle' = "open" /\ rpos' = 0
             /\ rfile' = IF Head(calls).arg = "w" THEN <<>> ELSE rfile
             /\ Answer(OpenedOk) /\ UNCHANGED history
    <2>1. rfile' \in Seq(Nat) /\ rpos' \in 0 .. Len(rfile')
      BY <1>3, RemoteFacts, EmptySeq
    <2> QED
      BY <1>1, <1>2, <1>3, <2>1, AnsweredTypes, RemoteFacts, RemoteTypes DEF RemoteRest
  <1>4. CASE Note("remote_open") /\ rhandle' = "null" /\ Answer(NotOpened) /\ UNCHANGED <<rpos, rfile>>
    BY <1>1, <1>2, <1>4, AnsweredTypes, RemoteFacts, RemoteTypes, EventsAre DEF RemoteRest, Note
  <1> QED
    BY <1>3, <1>4 DEF r_open_file, OpenedOk, NotOpened

LEMMA PutDataTypes ==
  ASSUME Types, r_put_data, RemoteRest
  PROVE  Types'
  <1>1. Written \in Seq(Value) /\ NotWritten \in Seq(Value)
    BY ValueTypes, ValueSeqs DEF Written, NotWritten
  <1>2. Serves("put_data")
    BY DEF r_put_data
  <1>3. Head(calls).arg \in Seq(Nat) /\ direction = "PUT"
    BY <1>2, TakenCall, CallTypes
  <1>4. CASE BadHandle
    BY <1>4, BadHandleTypes DEF RemoteRest
  <1>5. CASE /\ rfile' = rfile \o Head(calls).arg /\ Answer(Written)
             /\ UNCHANGED <<history, rpos, rhandle>>
    <2>1. rfile' \in Seq(Nat) /\ rpos' \in 0 .. Len(rfile')
      BY <1>3, <1>5, RemoteFacts, ConcatProperties
    <2> QED
      BY <1>1, <1>2, <1>5, <2>1, AnsweredTypes, RemoteFacts, RemoteTypes DEF RemoteRest
  <1>6. CASE Note("remote_write") /\ Answer(NotWritten) /\ UNCHANGED <<rfile, rpos, rhandle>>
    BY <1>1, <1>2, <1>6, AnsweredTypes, RemoteFacts, RemoteTypes, EventsAre DEF RemoteRest, Note
  <1> QED
    BY <1>4, <1>5, <1>6 DEF r_put_data, Written, NotWritten

\* The bytes of one answer of get_data.
BytesOf(error, asked) ==
    IF error THEN 0 ELSE IF Len(rfile) - rpos < asked THEN Len(rfile) - rpos ELSE asked

BytesRead(error, asked) == SubSeq(rfile, rpos + 1, rpos + BytesOf(error, asked))

LEMMA BytesOfType ==
  ASSUME Types, NEW error \in BOOLEAN, NEW asked, asked = BlockSize
  PROVE  /\ BytesOf(error, asked) \in 0 .. BlockSize
         /\ BytesOf(error, asked) \in 0 .. Len(rfile) - rpos
         /\ BytesRead(error, asked) \in Block
         /\ Len(BytesRead(error, asked)) = BytesOf(error, asked)
  <1>1. BlockSize \in Nat
    BY XferAssumption DEF XferAssumption
  <1> DEFINE n == BytesOf(error, asked)
  <1>2. n \in 0 .. BlockSize /\ n \in 0 .. Len(rfile) - rpos
    BY <1>1, RemoteFacts DEF BytesOf
  <1>3. SubSeq(rfile, rpos + 1, rpos + n) \in Seq(Nat) /\ Len(SubSeq(rfile, rpos + 1, rpos + n)) = n
    <2> HIDE DEF n
    <2> QED
      BY <1>2, RemoteFacts, NextBytes
  <1> QED
    BY <1>1, <1>2, <1>3 DEF BytesRead, Block

LEMMA GetDataTypes ==
  ASSUME Types, r_get_data, RemoteRest
  PROVE  Types'
  <1>1. Serves("get_data")
    BY DEF r_get_data
  <1>2. Head(calls).arg = BlockSize /\ direction = "GET"
    BY <1>1, TakenCall, CallTypes
  <1>3. CASE BadHandle
    BY <1>3, BadHandleTypes DEF RemoteRest
  <1>4. ASSUME NEW error \in BOOLEAN,
               /\ rpos' = rpos + BytesOf(error, BlockSize)
               /\ Answer(<<Val("data", BytesRead(error, BlockSize))>>)
               /\ history' = IF error /\ Len(rfile) - rpos > 0 THEN history \cup {"unreported"}
                             ELSE history
               /\ UNCHANGED <<rfile, rhandle>>
        PROVE  Types'
    <2>1. <<Val("data", BytesRead(error, BlockSize))>> \in Seq(Value)
      BY BytesOfType, ValueTypes, ValueSeqs
    <2>2. rpos' \in 0 .. Len(rfile') /\ history' \subseteq Events
      BY <1>4, BytesOfType, RemoteFacts, EventsAre
    <2> QED
      BY <1>1, <1>2, <1>4, <2>1, <2>2, AnsweredTypes, RemoteFacts, RemoteTypes DEF RemoteRest
  <1> QED
    BY <1>2, <1>3, <1>4 DEF r_get_data, BytesOf, BytesRead

LEMMA SetModeAnswerTypes ==
  ASSUME Types, r_set_fmode, RemoteRest
  PROVE  Types'
  <1>1. <<Val("bool", 1)>> \in Seq(Value) /\ <<Val("bool", 0)>> \in Seq(Value)
    BY ValueTypes, ValueSeqs
  <1>2. Serves("set_fmode") /\ UNCHANGED <<rfile, rpos, rhandle, history>>
    BY DEF r_set_fmode, remoteFile
  <1>3. /\ calls' \in Seq(CallPacket) /\ answers' \in Seq(AnswerPacket)
        /\ late' = late /\ alive' = alive
    BY <1>1, <1>2, AnsweredTypes DEF r_set_fmode
  <1> QED
    BY <1>2, <1>3, RemoteFacts, RemoteTypes DEF RemoteRest

LEMMA CloseFileTypes ==
  ASSUME Types, r_close_file, RemoteRest
  PROVE  Types'
  <1>1. Serves("close_file")
    BY DEF r_close_file
  <1>2. CASE BadHandle
    BY <1>2, BadHandleTypes DEF RemoteRest
  <1>3. ASSUME NEW lost \in BOOLEAN,
               /\ lost => direction = "PUT" /\ rfile # <<>>
               /\ rfile' = IF lost THEN SubSeq(rfile, 1, Len(rfile) - 1) ELSE rfile
               /\ history' = IF lost THEN history \cup {"unreported"} ELSE history
               /\ rhandle' = "closed" /\ Answer(<<>>) /\ UNCHANGED rpos
        PROVE  Types'
    <2>1. rfile' \in Seq(Nat) /\ rpos' \in 0 .. Len(rfile') /\ history' \subseteq Events
      <3>1. CASE lost
        <4>1. Len(rfile) - 1 \in 0 .. Len(rfile) /\ rpos = 0
          BY <1>3, <3>1, RemoteFacts
        <4> QED
          BY <1>3, <3>1, <4>1, RemoteFacts, Prefix, EventsAre
      <3> QED
        BY <1>3, <3>1, RemoteFacts
    <2> QED
      BY <1>1, <1>3, <2>1, AnsweredTypes, ValueSeqs, RemoteFacts, RemoteTypes DEF RemoteRest
  <1> QED
    BY <1>2, <1>3 DEF r_close_file

LEMMA RemoteStepTypes ==
  ASSUME Types, RemoteStep
  PROVE  Types'
  <1>1. RemoteRest
    BY DEF RemoteStep, RemoteRest
  <1> QED
    BY <1>1, InfoTypes, SizeModeTypes, OpenFileTypes, PutDataTypes, GetDataTypes, SetModeAnswerTypes,
       CloseFileTypes
    DEF RemoteStep

\* A torn answer is still a packet.
LEMMA TornTypes ==
  ASSUME NEW a \in AnswerPacket, NEW kept \in Int
  PROVE  Torn(a, kept) \in AnswerPacket /\ ~Torn(a, kept).whole
  <1> DEFINE val(k) == IF k <= kept THEN a.vals[k]
                       ELSE IF a.vals[k].t = "data"
                         THEN Val("data", [i \in DOMAIN a.vals[k].v |-> 0])
                       ELSE IF a.vals[k].t = "str" THEN Val("str", "") ELSE Val(a.vals[k].t, 0)
             vals == [k \in DOMAIN a.vals |-> val(k)]
  <1>1. a.vals \in Seq(Value)
    BY DEF AnswerPacket
  <1>2. ASSUME NEW k \in DOMAIN a.vals PROVE val(k) \in Value
    <2>1. a.vals[k] \in Value
      BY <1>1, <1>2
    <2>2. a.vals[k].t \in {"int", "bool", "data", "str"}
      BY <2>1 DEF Value
    <2>3. "" \in Texts /\ 0 \in Int /\ 0 \in {0, 1}
      BY DEF Texts
    <2>4. ASSUME a.vals[k].t = "data" PROVE [i \in DOMAIN a.vals[k].v |-> 0] \in Block
      <3>1. a.vals[k].v \in Block
        BY <2>1, <2>4, ValueTypes
      <3> DEFINE v == a.vals[k].v
      <3>2. Len(v) \in Nat /\ DOMAIN v = 1 .. Len(v) /\ Len(v) <= BlockSize
        BY <3>1 DEF Block
      <3>3. [i \in 1 .. Len(v) |-> 0] \in Seq(Nat) /\ Len([i \in 1 .. Len(v) |-> 0]) = Len(v)
        <4> HIDE DEF v
        <4> QED
          BY <3>2
      <3> QED
        BY <3>2, <3>3 DEF Block
    <2> QED
      BY <2>1, <2>2, <2>3, <2>4, ValueTypes
  <1>3. Len(a.vals) \in Nat /\ DOMAIN a.vals = 1 .. Len(a.vals)
    BY <1>1
  <1>4. vals \in Seq(Value)
    <2> HIDE DEF val
    <2> QED
      BY <1>2, <1>3
  <1>5. Torn(a, kept) = [a EXCEPT !.whole = FALSE, !.vals = vals]
    BY DEF Torn
  <1> HIDE DEF vals
  <1> QED
    BY <1>4, <1>5 DEF AnswerPacket

\* What a death leaves of the answers, and of the file.
LEMMA DieTypes ==
  ASSUME Types, Die
  PROVE  Types'
  <1>1. calls' \in Seq(CallPacket) /\ alive' \in BOOLEAN
    BY EmptySeq DEF Die
  <1>2. answers' \in Seq(AnswerPacket)
    <2>1. CASE UNCHANGED answers
      BY <2>1, RemoteFacts
    <2>2. ASSUME answers # <<>>, NEW kept \in Int,
                 answers' = [answers EXCEPT ![Len(answers)] = Torn(answers[Len(answers)], kept)]
          PROVE  answers' \in Seq(AnswerPacket)
      <3>1. Len(answers) \in 1 .. Len(answers) /\ answers[Len(answers)] \in AnswerPacket
        BY <2>2, RemoteFacts
      <3> QED
        BY <2>2, <3>1, RemoteFacts, TornTypes, ExceptSeq
    <2>3. ASSUME NEW op \in {"RETURN", "FERROR"},
                 answers' = Append(answers, [op |-> op, vals |-> <<Val("int", 11), Val("str", "died")>>,
                                             to |-> "none", whole |-> TRUE])
          PROVE  answers' \in Seq(AnswerPacket)
      <3>1. "died" \in Texts /\ 11 \in Int
        BY DEF Texts
      <3>2. <<Val("int", 11), Val("str", "died")>> \in Seq(Value)
        BY <3>1, ValueTypes, ValueSeqs
      <3>3. [op |-> op, vals |-> <<Val("int", 11), Val("str", "died")>>,
             to |-> "none", whole |-> TRUE] \in AnswerPacket
        BY <3>2 DEF AnswerPacket
      <3> QED
        BY <2>3, <3>3, RemoteFacts, OneMore
    <2>4. \A n : 0 .. n \subseteq Int
      OBVIOUS
    <2> QED
      BY <2>1, <2>2, <2>3, <2>4 DEF Die
  <1>3. PICK written \in 0 .. Len(rfile) :
          /\ written = Len(rfile) \/ direction = "PUT"
          /\ rfile' = SubSeq(rfile, 1, written)
          /\ history' = IF written < Len(rfile) THEN history \cup {"unreported"} ELSE history
    BY RemoteFacts DEF Die
  <1>4. rfile' \in Seq(Nat) /\ Len(rfile') = written /\ rpos' = rpos
    BY <1>3, RemoteFacts, Prefix DEF Die
  <1>5. rpos' \in 0 .. Len(rfile')
    BY <1>3, <1>4, RemoteFacts
  <1>6. history' \subseteq Events
    BY <1>3, RemoteFacts, EventsAre
  <1>7. UNCHANGED <<direction, control, info, localFile, inp, rapi, late, rhandle>>
    BY DEF Die
  <1> QED
    BY <1>1, <1>2, <1>4, <1>5, <1>6, <1>7, RemoteFacts, RemoteTypes

LEMMA InitTypes == Init => Types
  <1> SUFFICES ASSUME Init PROVE Types
    OBVIOUS
  <1>1. PICK n \in Lengths :
          IF direction = "GET" THEN rfile = Source(n) /\ lfile = <<>>
                               ELSE lfile = Source(n) /\ rfile = <<>>
    BY DEF Init
  <1>2. n \in Nat /\ <<>> \in Seq(Nat) /\ Len(<<>>) = 0
    BY XferAssumption, EmptySeq DEF XferAssumption
  <1>3. Source(n) \in Seq(Nat) /\ Len(Source(n)) = n
    BY <1>2 DEF Source
  <1>4. rfile \in Seq(Nat) /\ lfile \in Seq(Nat) /\ rpos \in 0 .. Len(rfile) /\ lpos \in 0 .. Len(lfile)
    <2>1. rpos = 0 /\ lpos = 0
      BY DEF Init
    <2>2. 0 \in 0 .. n /\ 0 \in 0 .. 0
      BY <1>2
    <2> QED
      BY <1>1, <1>2, <1>3, <2>1, <2>2
  <1>5. inp \in InPacket /\ calls \in Seq(CallPacket) /\ answers \in Seq(AnswerPacket)
    BY EmptySeq DEF Init, InPacket
  <1>6. TypeOK
    <2>1. BlockSize \in Nat /\ MaxLate \in Nat
      BY XferAssumption DEF XferAssumption
    <2>2. /\ rpos = 0 /\ lpos = 0 /\ late = 0 /\ data_len = 0 /\ code = 0
          /\ api_vers = 0 /\ remote_mode = -1 /\ calls = <<>> /\ answers = <<>>
          /\ history = {} /\ pc = "start" /\ rhandle = "null"
          /\ got = FALSE /\ kill = FALSE /\ lopen = FALSE /\ alive = TRUE
          /\ direction \in {"GET", "PUT"}
          /\ inp.op = "RETURN" /\ inp.freed = TRUE
      BY DEF Init
    <2>3. data_len \in 0 .. BlockSize /\ late \in 0 .. MaxLate /\ history \subseteq Events
      BY <2>1, <2>2
    <2>4. DOMAIN calls = {} /\ DOMAIN answers = {}
      BY <2>2
    <2>5. /\ got \in BOOLEAN /\ kill \in BOOLEAN /\ lopen \in BOOLEAN /\ alive \in BOOLEAN
          /\ inp.freed \in BOOLEAN
      BY <2>2
    <2>6. /\ api_vers \in Int /\ remote_mode \in Int /\ code \in {0, 1, 2, 3, 4, 6, 7, 8}
          /\ rhandle \in {"null", "open", "closed"} /\ inp.op \in {"RETURN", "FRETURN", "FERROR"}
      BY <2>2
    <2> QED
      BY <1>4, <2>2, <2>3, <2>4, <2>5, <2>6 DEF TypeOK
  <1>7. rapi \in Nat
    BY XferAssumption DEF XferAssumption, Init
  <1> QED
    BY <1>5, <1>6, <1>7 DEF Init, Types

LEMMA NextTypes ==
  ASSUME Types, [Next]_vars
  PROVE  Types'
  <1>1. ASSUME UNCHANGED vars PROVE Types'
    <2>1. UNCHANGED <<direction, pc, got, code, kill, api_vers, remote_mode, data_len, lfile, lpos, lopen,
                      inp, calls, answers, late, alive, rapi, rfile, rpos, rhandle, history>>
      BY <1>1 DEF vars, control, info, localFile, wire, remoteFile
    <2>2. TypeOK'
      BY <2>1 DEF Types, TypeOK
    <2> QED
      BY <2>1, <2>2 DEF Types, InPacket, CallPacket, AnswerPacket
  <1> QED
    BY <1>1, LocalStepTypes, ReadTypesKept, RemoteStepTypes, DieTypes DEF Next, Done

\* Every variable keeps its type, whatever fails and whatever comes late; no
\* block is longer than what was asked for (scl_inlines.c:513).
THEOREM TransferTypeCorrect == Spec => []TypeOK
  <1>1. Init => Types
    BY InitTypes
  <1>2. Types /\ [Next]_vars => Types'
    BY NextTypes
  <1>3. Types => TypeOK
    BY DEF Types
  <1> QED
    BY <1>1, <1>2, <1>3, PTL DEF Spec

-----------------------------------------------------------------------------
(* The turns of a step of the local side.                                  *)

LEMMA ExpectedIs ==
  /\ DOMAIN Expected = {"w_api", "w_fsize", "w_open", "w_put", "w_get", "w_mode", "w_close"}
  /\ Expected["w_api"] = "get_info" /\ Expected["w_fsize"] = "get_fsize_mode"
  /\ Expected["w_open"] = "open_file" /\ Expected["w_put"] = "put_data"
  /\ Expected["w_get"] = "get_data" /\ Expected["w_mode"] = "set_fmode"
  /\ Expected["w_close"] = "close_file"
  BY DEF Expected

\* It is the local side's turn: nothing is under way but the end of a suvlet.
Turn == pc \notin DOMAIN Expected \/ got

LEMMA OnTurn ==
  ASSUME Turns, Turn
  PROVE  /\ calls = <<>>
         /\ alive => answers = <<>>
         /\ ~alive => \A i \in DOMAIN answers : IsEnd(answers[i])
  BY DEF Turns, Turn, IsReply

\* After a call.
LEMMA TurnsCall ==
  ASSUME Types, Turns, Turn, UNCHANGED alive,
         NEW next \in DOMAIN Expected, NEW arg, CallAndWait(Expected[next], arg, next)
  PROVE  /\ Turns'
         /\ calls' = IF alive THEN <<[name |-> Expected[next], arg |-> arg]>> ELSE <<>>
         /\ answers' = answers
  <1>1. calls = <<>> /\ answers' = answers /\ pc' = next /\ got' = FALSE
    BY OnTurn DEF CallAndWait
  <1>2. calls' = IF alive THEN <<[name |-> Expected[next], arg |-> arg]>> ELSE <<>>
    BY <1>1 DEF CallAndWait
  <1>3. CASE alive
    <2>1. answers' = <<>> /\ Len(calls') = 1 /\ calls'[1].name = Expected[pc']
      BY <1>1, <1>2, <1>3, OnTurn
    <2>2. pc' # "w_err" /\ pc' \in Waiting
      BY <1>1, ExpectedIs, WaitingIs
    <2> QED
      BY <1>1, <1>2, <1>3, <2>1, <2>2 DEF Turns
  <1>4. CASE ~alive
    <2>1. \A i \in DOMAIN answers' : IsEnd(answers'[i])
      BY <1>1, <1>4, OnTurn
    <2>2. \A i \in DOMAIN answers' : IsEnd(answers[i])'
      BY <1>1, <2>1 DEF IsEnd
    <2>3. pc' \in Waiting
      BY <1>1, ExpectedIs, WaitingIs
    <2> QED
      BY <1>1, <1>2, <1>4, <2>2, <2>3 DEF Turns
  <1> QED
    BY <1>1, <1>2, <1>3, <1>4

\* After a step to a point where no answer is waited for.
LEMMA TurnsGo ==
  ASSUME Turns, Turn, UNCHANGED <<alive, answers, calls>>, got' = FALSE,
         pc' \notin DOMAIN Expected, pc' = "w_err" => ~alive
  PROVE  Turns'
  <1>1. calls' = <<>> /\ (alive' => answers' = <<>>)
    BY OnTurn
  <1>2. ~alive' => \A i \in DOMAIN answers' : IsEnd(answers[i])'
    BY OnTurn DEF IsEnd
  <1> QED
    BY <1>1, <1>2 DEF Turns

LEMMA TurnsExit ==
  ASSUME Types, Turns, Turn, UNCHANGED alive, NEW c \in Codes, NEW k \in BOOLEAN,
         scl_il_xfer_exit(c, k)
  PROVE  /\ Turns' /\ answers' = answers
         /\ calls' = IF k /\ alive THEN <<[name |-> "close_file", arg |-> 0]>> ELSE <<>>
  <1>1. CASE k
    <2>1. CallAndWait("close_file", 0, "w_close")
      BY <1>1 DEF scl_il_xfer_exit
    <2> QED
      BY <1>1, <2>1, TurnsCall, ExpectedIs
  <1>2. CASE ~k
    <2>1. pc' = "fclose" /\ got' = FALSE /\ UNCHANGED <<calls, answers>>
      BY <1>2 DEF scl_il_xfer_exit, GoTo, wire
    <2> QED
      BY <1>2, <2>1, OnTurn, TurnsGo, ExpectedIs
  <1> QED
    BY <1>1, <1>2

\* Only a suvlet that is dead has reported anything but a return.
LEMMA TurnsUnexpected ==
  ASSUME Types, Turns, Turn, UNCHANGED alive, ~alive, NEW c \in Codes, NEW k \in BOOLEAN,
         UnexpectedReturn(c, k)
  PROVE  Turns' /\ answers' = answers /\ calls' = <<>>
  <1>1. CASE inp.op = "FERROR"
    <2>1. pc' = "w_err" /\ got' = FALSE /\ UNCHANGED <<calls, answers>>
      BY <1>1 DEF UnexpectedReturn, GoTo, wire
    <2> QED
      BY <2>1, OnTurn, TurnsGo, ExpectedIs
  <1>2. CASE inp.op # "FERROR"
    BY <1>2, TurnsExit DEF UnexpectedReturn
  <1> QED
    BY <1>1, <1>2

-----------------------------------------------------------------------------
(* The steps of the local side, as long as no read has failed.             *)

\* A step of the local side or of the suvlet adds to the history, if anything.
LEMMA Unmentioned ==
  /\ history' = history => Faulted' = Faulted /\ (Sound' <=> Sound) /\ (Failed' <=> Failed)
  /\ history' = history \cup {"unreported"} =>
       Faulted' = Faulted /\ ~Sound' /\ (Failed' <=> Failed)
  /\ history' = history \cup {"bad_handle"} => Failed' <=> Failed
  <1>1. "unreported" \notin {Cause[c] : c \in DOMAIN Cause}
    <2>1. \A c \in 1 .. 8 : c \in {1, 2, 3, 4, 5, 6, 7, 8}
      OBVIOUS
    <2> QED
      BY <2>1, CauseIs
  <1> QED
    BY <1>1 DEF Faulted, Sound, Failed

LEMMA Mentioned ==
  ASSUME NEW c \in {1, 2, 4, 6, 7, 8}, history' = history \cup {Cause[c]}
  PROVE  Faulted' = Faulted \cup {Cause[c]} /\ (Sound' <=> Sound) /\ (Failed' <=> Failed)
         /\ ("bad_handle" \in history' <=> "bad_handle" \in history)
  <1>1. c \in DOMAIN Cause /\ Cause[c] \notin {"unreported", "read_failed", "bad_handle"}
    BY CauseIs
  <1> QED
    BY <1>1 DEF Faulted, Sound, Failed

\* The state in which a step of the local side is taken.
LocalStart ==
    /\ Types /\ Intact /\ Turn
    /\ Elsewhere

LEMMA StartFacts ==
  ASSUME LocalStart
  PROVE  /\ Types /\ Turns /\ Files /\ Causes /\ Turn /\ "bad_handle" \notin history
         /\ UNCHANGED <<direction, alive, rapi, rfile, rpos, rhandle>>
  BY DEF LocalStart, Intact, Elsewhere, remoteFile

LEMMA AfterErrorIntact ==
  ASSUME LocalStart, AfterError
  PROVE  Intact'
  <1>1. pc = "w_err" /\ got /\ UNCHANGED history /\ UNCHANGED <<info, localFile>>
        /\ scl_il_xfer_exit(code, kill)
    BY DEF AfterError
  <1>2. ~alive /\ code # 0 /\ code \in Codes /\ kill \in BOOLEAN
    BY <1>1, StartFacts, LocalFacts DEF Turns, Files
  <1>3. Turns' /\ calls' = <<>>
    BY <1>1, <1>2, StartFacts, TurnsExit
  <1>4. code' = code /\ pc' \in {"w_close", "fclose"}
    BY <1>1, <1>2, StartFacts, ExitTypes
  <1>5. Files'
    BY <1>2, <1>3, <1>4, StartFacts DEF Files
  <1>6. Causes'
    BY <1>2, StartFacts DEF Causes
  <1> QED
    BY <1>1, <1>3, <1>5, <1>6, StartFacts DEF Intact

LEMMA GetApiVersionIntact ==
  ASSUME LocalStart, GetApiVersion
  PROVE  Intact'
  <1>1. /\ pc = "start" /\ UNCHANGED <<history, lfile, lpos>>
        /\ CallAndWait(Expected["w_api"], 0, "w_api")
    BY ExpectedIs DEF GetApiVersion, localFile
  <1>2. Turns' /\ pc' = "w_api"
    BY <1>1, StartFacts, TurnsCall, ExpectedIs DEF CallAndWait
  <1>3. Files'
    BY <1>1, <1>2, StartFacts DEF Files, Fresh
  <1>4. Causes'
    BY <1>1, <1>2, StartFacts, Unmentioned DEF Causes
  <1> QED
    BY <1>1, <1>2, <1>3, <1>4, StartFacts DEF Intact

LEMMA OpenLocalIntact ==
  ASSUME LocalStart, OpenLocal
  PROVE  Intact'
  <1>1. pc = "w_api" /\ rhandle = "null" /\ Fresh /\ (alive => Faulted = {})
    BY StartFacts DEF OpenLocal, Files, Causes
  <1>2. ASSUME NEW c \in {1, 2}, Note(Cause[c]), scl_il_xfer_exit(c, FALSE)
        PROVE  Intact'
    <2>1. Turns' /\ pc' = "fclose" /\ code' = c
      BY <1>2, StartFacts, TurnsExit, ExitTypes DEF Codes
    <2>2. Files'
      BY <1>1, <2>1, StartFacts DEF Files
    <2>3. Faulted' = Faulted \cup {Cause[c]} /\ "bad_handle" \notin history'
      BY <1>2, Mentioned, StartFacts DEF Note
    <2>4. Causes'
      <3>1. alive => Faulted' = {Cause[c]}
        BY <1>1, <2>3
      <3>2. c \in DOMAIN Cause
        BY CauseIs
      <3>3. alive' => code' \in DOMAIN Cause /\ Faulted' = {Cause'[code']}
        BY <2>1, <3>1, <3>2, StartFacts DEF Cause
      <3> QED
        BY <2>1, <3>3 DEF Causes
    <2> QED
      BY <2>1, <2>2, <2>3, <2>4 DEF Intact
  <1>3. CASE /\ lfile' = IF direction = "GET" THEN <<>> ELSE lfile
             /\ UNCHANGED lpos /\ UNCHANGED history
             /\ IF direction = "GET" /\ api_vers' >= 3
                  THEN CallAndWait("get_fsize_mode", 0, "w_fsize")
                  ELSE OpenRemote("w_open")
    <2>1. Turns' /\ pc' \in {"w_fsize", "w_open"}
      <3>1. CASE CallAndWait(Expected["w_fsize"], 0, "w_fsize")
        BY <3>1, StartFacts, TurnsCall, ExpectedIs DEF CallAndWait
      <3>2. CASE CallAndWait(Expected["w_open"], IF direction = "GET" THEN "r" ELSE "w", "w_open")
        <4>1. "w_open" \in DOMAIN Expected
          BY ExpectedIs
        <4>2. pc' = "w_open"
          BY <3>2 DEF CallAndWait
        <4> QED
          BY <3>2, <4>1, <4>2, StartFacts, TurnsCall
      <3> QED
        BY <1>3, <3>1, <3>2, ExpectedIs DEF OpenRemote
    <2>2. Fresh'
      BY <1>1, <1>3, StartFacts DEF Fresh
    <2>3. Files'
      BY <1>1, <2>1, <2>2, StartFacts DEF Files
    <2>4. Causes'
      BY <1>1, <1>3, <2>1, StartFacts, Unmentioned DEF Causes
    <2> QED
      BY <1>3, <2>1, <2>3, <2>4, StartFacts DEF Intact
  <1>4. Cause[1] = "local_open" /\ Cause[2] = "local_stat"
    BY CauseIs
  <1> QED
    BY <1>2, <1>3, <1>4 DEF OpenLocal

LEMMA GotSizeModeIntact ==
  ASSUME LocalStart, GotSizeMode
  PROVE  Intact'
  <1>1. /\ pc = "w_fsize" /\ UNCHANGED <<history, lfile, lpos>>
        /\ CallAndWait(Expected["w_open"], IF direction = "GET" THEN "r" ELSE "w", "w_open")
    BY ExpectedIs DEF GotSizeMode, OpenRemote, localFile
  <1>2. "w_open" \in DOMAIN Expected /\ pc' = "w_open"
    BY <1>1, ExpectedIs DEF CallAndWait
  <1>3. Turns'
    BY <1>1, <1>2, StartFacts, TurnsCall
  <1>4. Files'
    BY <1>1, <1>2, StartFacts DEF Files, Fresh
  <1>5. Causes'
    BY <1>1, <1>2, StartFacts, Unmentioned DEF Causes
  <1> QED
    BY <1>1, <1>3, <1>4, <1>5, StartFacts DEF Intact

\* The answer that has been read, if it is one.
LEMMA InHand ==
  ASSUME LocalStart, pc \in DOMAIN Expected, got
  PROVE  /\ ~inp.freed
         /\ IF inp.op = "FRETURN" THEN Reports(inp.vals) ELSE ~alive
         /\ alive => Reports(inp.vals)
  BY StartFacts DEF Turns, IsReply

\* What the values of an answer are read as.
LEMMA InHandRead ==
  ASSUME ~inp.freed
  PROVE  /\ inp.vals = OpenedOk => Ints(1) = {0}
         /\ inp.vals = NotOpened => Ints(1) = {1}
         /\ inp.vals = Written => Bools(1) = {0}
         /\ inp.vals = NotWritten => Bools(1) = {1}
         /\ \A v : inp.vals = <<Val("data", v)>> => Datas(1) = {v}
  <1>1. \A x, y : 1 \in DOMAIN <<x, y>> /\ <<x, y>>[1] = x /\ 1 \in DOMAIN <<x>> /\ <<x>>[1] = x
    OBVIOUS
  <1>2. \A t, v : Val(t, v).t = t /\ Val(t, v).v = v
    BY DEF Val
  <1>3. ASSUME NEW t, NEW v, inp.vals[1] = Val(t, v), 1 \in DOMAIN inp.vals
        PROVE  Holds(1, t) /\ inp.vals[1].v = v
    BY <1>2, <1>3 DEF Holds
  <1>4. ASSUME NEW v, inp.vals = <<Val("data", v)>> PROVE Datas(1) = {v}
    BY <1>1, <1>3, <1>4 DEF Datas
  <1>5. ASSUME inp.vals = OpenedOk PROVE Ints(1) = {0}
    <2>1. inp.vals[1] = Val("int", 0) /\ 1 \in DOMAIN inp.vals
      BY <1>1, <1>5 DEF OpenedOk
    <2> QED
      BY <1>3, <2>1 DEF Ints
  <1>6. ASSUME inp.vals = NotOpened PROVE Ints(1) = {1}
    <2>1. inp.vals[1] = Val("int", 1) /\ 1 \in DOMAIN inp.vals
      BY <1>1, <1>6 DEF NotOpened
    <2> QED
      BY <1>3, <2>1 DEF Ints
  <1>7. inp.vals = Written => Bools(1) = {0}
    BY <1>1, <1>3 DEF Bools, Written
  <1>8. inp.vals = NotWritten => Bools(1) = {1}
    BY <1>1, <1>3 DEF Bools, NotWritten
  <1> QED
    BY <1>4, <1>5, <1>6, <1>7, <1>8

\* An exit that keeps the history or adds to it a fault with a code of its own,
\* where nothing was copied.
LEMMA UnexpectedIntact ==
  ASSUME LocalStart, ~alive, NEW c \in Codes \ {0}, NEW k \in BOOLEAN, UnexpectedReturn(c, k),
         UNCHANGED history
  PROVE  Intact'
  <1>1. Turns' /\ calls' = <<>>
    BY StartFacts, TurnsUnexpected
  <1>2. code' = c /\ pc' \in {"w_err", "w_close", "fclose"}
    BY StartFacts, UnexpectedTypes
  <1>3. Files'
    BY <1>1, <1>2, StartFacts DEF Files
  <1>4. Causes'
    BY StartFacts DEF Causes
  <1> QED
    BY <1>1, <1>3, <1>4, StartFacts DEF Intact

LEMMA CheckOpenIntact ==
  ASSUME LocalStart, CheckOpen
  PROVE  Intact'
  <1>1. pc = "w_open" /\ got /\ pc \in DOMAIN Expected /\ UNCHANGED <<history, lfile, lpos>>
    BY ExpectedIs DEF CheckOpen, localFile
  <1>2. CASE inp.op # "FRETURN"
    <2>1. ~alive /\ UnexpectedReturn(3, FALSE)
      BY <1>1, <1>2, InHand DEF CheckOpen
    <2>2. 3 \in Codes \ {0}
      BY DEF Codes
    <2> QED
      BY <1>1, <2>1, <2>2, UnexpectedIntact
  <1>3. CASE inp.op = "FRETURN"
    <2>1. ~inp.freed /\ Reports(inp.vals)
      BY <1>1, <1>3, InHand
    <2>2. PICK return_code \in Ints(1) :
            /\ return_code = 0 => GoTo("loop")
            /\ return_code # 0 => scl_il_xfer_exit(4, FALSE)
      BY <1>3 DEF CheckOpen
    <2>3. CASE inp.vals = OpenedOk /\ Ready /\ Round
      <3>1. GoTo("loop")
        BY <2>1, <2>2, <2>3, InHandRead
      <3>2. Turns' /\ pc' = "loop" /\ calls' = calls
        BY <3>1, StartFacts, TurnsGo, ExpectedIs DEF GoTo, wire
      <3>3. Ready' /\ Round'
        BY <1>1, <2>3, StartFacts DEF Ready, Round, Copied, Sound
      <3>4. Files'
        BY <3>2, <3>3, StartFacts DEF Files
      <3>5. OpenedOk # NotOpened
        BY DEF OpenedOk, NotOpened, Val
      <3>6. Causes'
        BY <1>1, <2>3, <3>2, <3>5, StartFacts, Unmentioned DEF Causes
      <3> QED
        BY <1>1, <3>2, <3>4, <3>6, StartFacts DEF Intact
    <2>4. CASE inp.vals = NotOpened /\ rhandle = "null" /\ "remote_open" \in history
      <3>1. scl_il_xfer_exit(4, FALSE)
        <4>1. return_code = 1
          BY <2>1, <2>4, InHandRead
        <4>2. return_code # 0
          BY <4>1
        <4> QED
          BY <2>2, <4>2, Zenon
      <3>2. Turns' /\ pc' = "fclose" /\ code' = 4
        BY <3>1, StartFacts, TurnsExit, ExitTypes DEF Codes
      <3>3. Files'
        BY <2>4, <3>2, StartFacts DEF Files
      <3>4. 4 \in DOMAIN Cause /\ Cause[4] = "remote_open"
        BY CauseIs
      <3>5. Cause[4] \in Faulted
        BY <2>4, <3>4 DEF Faulted
      <3>6. alive => Faulted = {Cause[4]}
        BY <1>1, <3>5, StartFacts DEF Causes
      <3>7. Causes'
        BY <1>1, <3>2, <3>4, <3>6, StartFacts, Unmentioned DEF Causes
      <3> QED
        BY <1>1, <3>2, <3>3, <3>7, StartFacts DEF Intact
    <2> QED
      BY <1>1, <2>1, <2>3, <2>4 DEF Reports
  <1> QED
    BY <1>2, <1>3

\* What a step of the local side leaves to be shown of a transfer that goes on
\* without a fault.
LEMMA NoFaultYet ==
  ASSUME LocalStart, alive => Faulted = {}, UNCHANGED history \/ history' = history \cup {"unreported"},
         pc' \notin {"w_open", "w_put", "w_close", "fclose", "done"} \/ pc' \in {"w_open", "w_put"}
           \/ code' = 0
  PROVE  Causes' /\ "bad_handle" \notin history'
  <1>1. alive' => Faulted' = {}
    BY StartFacts, Unmentioned
  <1>2. Causes'
    BY <1>1 DEF Causes
  <1> QED
    BY <1>2, StartFacts

LEMMA PutBlockIntact ==
  ASSUME LocalStart, PutBlock
  PROVE  Intact'
  <1>1. PICK error \in BOOLEAN :
          /\ data_len' = BlockOf(error) /\ lpos' = lpos + BlockOf(error)
          /\ history' = IF error /\ Len(lfile) - lpos > 0 THEN history \cup {"unreported"} ELSE history
          /\ BlockOf(error) = 0 => GoTo("mode")
          /\ BlockOf(error) # 0 =>
               CallAndWait("put_data", SubSeq(lfile, lpos + 1, lpos + BlockOf(error)), "w_put")
    BY DEF PutBlock, BlockOf
  <1> DEFINE n == BlockOf(error)
             b == SubSeq(lfile, lpos + 1, lpos + n)
  <1>2. /\ pc = "loop" /\ direction = "PUT" /\ UNCHANGED lfile
        /\ Ready /\ (alive => Faulted = {})
    BY StartFacts DEF PutBlock, Files, Causes
  <1>3. n \in 0 .. BlockSize /\ n \in 0 .. Len(lfile) - lpos
    BY StartFacts, BlockOfType
  <1>4. rhandle = "open" /\ (Sound => rfile = SubSeq(lfile, 1, lpos)) /\ (Sound' => Sound)
    BY <1>1, <1>2, Unmentioned DEF Ready, Copied
  <1>5. CASE n = 0
    <2>1. Turns' /\ pc' = "mode"
      BY <1>1, <1>5, StartFacts, TurnsGo, ExpectedIs DEF GoTo, wire
    <2>2. Sound' => lpos = Len(lfile)
      <3>1. (error /\ Len(lfile) - lpos > 0) => ~Sound'
        BY <1>1, Unmentioned
      <3> QED
        BY <1>5, <3>1, StartFacts, LocalFacts, XferAssumption DEF BlockOf, XferAssumption
    <2>3. Sound' => lfile' = rfile'
      BY <1>2, <1>4, <2>2, StartFacts, LocalFacts, SubSeqFull
    <2>4. Files'
      BY <1>4, <2>1, <2>3, StartFacts DEF Files
    <2>5. Causes' /\ "bad_handle" \notin history'
      BY <1>1, <1>2, <2>1, NoFaultYet
    <2> QED
      BY <2>1, <2>4, <2>5 DEF Intact
  <1>6. CASE n # 0
    <2>1. CallAndWait(Expected["w_put"], b, "w_put")
      BY <1>1, <1>6, ExpectedIs
    <2>2. "w_put" \in DOMAIN Expected
      BY ExpectedIs
    <2>3. /\ Turns' /\ pc' = "w_put"
          /\ calls' = IF alive THEN <<[name |-> Expected["w_put"], arg |-> b]>> ELSE <<>>
      <3> HIDE DEF b
      <3> QED
        BY <2>1, <2>2, StartFacts, TurnsCall DEF CallAndWait
    <2>4. Sound' => rfile \o b = SubSeq(lfile, 1, lpos')
      <3>1. lpos' = lpos + n
        BY <1>1
      <3>2. lfile \in Seq(Nat) /\ lpos \in 0 .. Len(lfile)
        BY StartFacts, LocalFacts
      <3>3. SubSeq(lfile, 1, lpos) \o b = SubSeq(lfile, 1, lpos + n)
        <4> HIDE DEF n
        <4> QED
          BY <1>3, <3>2, NextBytes
      <3> HIDE DEF n, b
      <3> QED
        BY <1>4, <3>1, <3>3
    <2>5. calls' # <<>> => calls'[1].arg = b
      <3> HIDE DEF b
      <3> QED
        BY <2>3
    <2>6. Files'
      <3> HIDE DEF b
      <3> QED
        BY <1>2, <1>4, <2>3, <2>4, <2>5, StartFacts DEF Files
    <2>7. Causes' /\ "bad_handle" \notin history'
      BY <1>1, <1>2, <2>3, NoFaultYet
    <2> QED
      BY <2>3, <2>6, <2>7 DEF Intact
  <1> QED
    BY <1>5, <1>6

\* The local side gives up, or ends, and has the remote file closed.
LEMMA ExitIntact ==
  ASSUME LocalStart, NEW c \in Codes, scl_il_xfer_exit(c, TRUE), rhandle = "open",
         (c = 0 /\ Sound') => lfile' = rfile,
         "bad_handle" \notin history',
         alive => \/ c = 0 /\ Faulted' = {}
                  \/ c \in DOMAIN Cause /\ Faulted' = {Cause[c]}
                  \/ /\ c = 7 /\ Faulted' = {} /\ direction = "GET"
                     /\ Sound' => Len(rfile) % BlockSize = 0
  PROVE  Intact'
  <1>1. Turns' /\ pc' = "w_close" /\ code' = c
    BY StartFacts, TurnsExit, ExitTypes
  <1>2. Files'
    BY <1>1, StartFacts DEF Files
  <1>3. Causes'
    BY <1>1, StartFacts DEF Causes
  <1> QED
    BY <1>1, <1>2, <1>3 DEF Intact

LEMMA CheckPutIntact ==
  ASSUME LocalStart, CheckPut
  PROVE  Intact'
  <1>1. /\ pc = "w_put" /\ got /\ pc \in DOMAIN Expected /\ UNCHANGED <<history, lfile, lpos>>
        /\ direction = "PUT"
    BY ExpectedIs, StartFacts DEF CheckPut, localFile, Types
  <1>2. CASE inp.op # "FRETURN"
    <2>1. ~alive /\ UnexpectedReturn(4, TRUE)
      BY <1>1, <1>2, InHand DEF CheckPut
    <2>2. 4 \in Codes \ {0}
      BY DEF Codes
    <2> QED
      BY <1>1, <2>1, <2>2, UnexpectedIntact
  <1>3. CASE inp.op = "FRETURN"
    <2>1. ~inp.freed /\ Reports(inp.vals)
      BY <1>1, <1>3, InHand
    <2>2. PICK ret_val \in Bools(1) :
            /\ ret_val = 0 => GoTo("callback")
            /\ ret_val # 0 => scl_il_xfer_exit(6, TRUE)
      BY <1>3 DEF CheckPut
    <2>3. CASE rhandle = "open" /\ inp.vals = Written /\ (Sound => Copied)
      <3>1. GoTo("callback")
        BY <2>1, <2>2, <2>3, InHandRead
      <3>2. Turns' /\ pc' = "callback"
        BY <3>1, StartFacts, TurnsGo, ExpectedIs DEF GoTo, wire
      <3>3. Ready' /\ Round'
        BY <1>1, <2>3, StartFacts DEF Ready, Round, Copied, Sound
      <3>4. Files'
        BY <1>1, <3>2, <3>3, StartFacts DEF Files
      <3>5. Written # NotWritten
        BY DEF Written, NotWritten, Val
      <3>6. alive => Faulted = {}
        BY <1>1, <2>3, <3>5, StartFacts DEF Causes
      <3>7. Causes' /\ "bad_handle" \notin history'
        BY <1>1, <3>2, <3>6, NoFaultYet
      <3> QED
        BY <3>2, <3>4, <3>7 DEF Intact
    <2>4. CASE rhandle = "open" /\ inp.vals = NotWritten /\ "remote_write" \in history
      <3>1. scl_il_xfer_exit(6, TRUE)
        <4>1. ret_val = 1
          BY <2>1, <2>4, InHandRead
        <4>2. ret_val # 0
          BY <4>1
        <4> QED
          BY <2>2, <4>2, Zenon
      <3>2. 6 \in DOMAIN Cause /\ Cause[6] = "remote_write" /\ 6 \in Codes
        BY CauseIs DEF Codes
      <3>3. Cause[6] \in Faulted
        BY <2>4, <3>2 DEF Faulted
      <3>4. alive => Faulted' = {Cause[6]}
        BY <1>1, <3>3, StartFacts, Unmentioned DEF Causes
      <3>5. "bad_handle" \notin history'
        BY <1>1, StartFacts
      <3>6. ~(6 = 0 /\ Sound')
        OBVIOUS
      <3> QED
        BY <2>4, <3>1, <3>2, <3>4, <3>5, <3>6, ExitIntact
    <2> QED
      BY <1>1, <2>1, <2>3, <2>4 DEF Reports
  <1> QED
    BY <1>2, <1>3

LEMMA GetBlockIntact ==
  ASSUME LocalStart, GetBlock
  PROVE  Intact'
  <1>1. /\ pc = "loop" /\ direction = "GET" /\ UNCHANGED <<history, lfile, lpos>>
        /\ CallAndWait(Expected["w_get"], BlockSize, "w_get")
    BY ExpectedIs DEF GetBlock, localFile
  <1>2. "w_get" \in DOMAIN Expected /\ pc' = "w_get"
    BY <1>1, ExpectedIs DEF CallAndWait
  <1>3. Turns'
    BY <1>1, <1>2, StartFacts, TurnsCall
  <1>4. Ready' /\ Round'
    BY <1>1, StartFacts DEF Files, Ready, Round, Copied, Sound
  <1>5. Files'
    BY <1>1, <1>2, <1>4, StartFacts DEF Files
  <1>6. alive => Faulted = {}
    BY <1>1, StartFacts DEF Causes
  <1>7. Causes' /\ "bad_handle" \notin history'
    BY <1>1, <1>2, <1>6, NoFaultYet
  <1> QED
    BY <1>3, <1>5, <1>7 DEF Intact

LEMMA WriteLocalIntact ==
  ASSUME LocalStart, WriteLocal
  PROVE  Intact'
  <1>1. /\ pc = "w_get" /\ got /\ pc \in DOMAIN Expected /\ UNCHANGED lpos
        /\ direction = "GET" /\ (alive => Faulted = {})
    BY ExpectedIs, StartFacts DEF WriteLocal, Types, Causes
  <1>2. CASE inp.op # "FRETURN"
    <2>1. ~alive /\ UnexpectedReturn(4, TRUE) /\ UNCHANGED history
      BY <1>1, <1>2, InHand DEF WriteLocal
    <2>2. 4 \in Codes \ {0}
      BY DEF Codes
    <2> QED
      BY <2>1, <2>2, UnexpectedIntact
  <1>3. CASE inp.op = "FRETURN"
    <2> DEFINE data == inp.vals[1].v
    <2>1. ~inp.freed /\ inp.vals = <<Val("data", data)>> /\ data \in Block /\ Fetched(data)
      BY <1>1, <1>3, InHand DEF Reports
    <2>2. Datas(1) = {data}
      <3> HIDE DEF data
      <3> QED
        BY <2>1, InHandRead
    <2>3. /\ data_len' = Len(data)
          /\ \/ /\ data # <<>> /\ lfile' = lfile \o data
                /\ GoTo("callback") /\ UNCHANGED history
             \/ \E full \in BOOLEAN :
                  /\ data = <<>> \/ full
                  /\ scl_il_xfer_exit(7, TRUE)
                  /\ history' = IF full THEN history \cup {"local_write"} ELSE history
      <3> HIDE DEF data
      <3> QED
        BY <1>3, <2>2 DEF WriteLocal
    <2>4. /\ rhandle = "open" /\ Len(data) \in 0 .. BlockSize
          /\ Sound => lfile \o data = SubSeq(rfile, 1, rpos)
          /\ Sound /\ Len(data) < BlockSize => rpos = Len(rfile)
          /\ data = <<>> \/ Len(data) = BlockSize => Round
      <3> HIDE DEF data
      <3>1. Len(data) \in 0 .. BlockSize
        BY <2>1, XferAssumption DEF Block, XferAssumption
      <3> QED
        BY <2>1, <3>1 DEF Fetched
    <2> HIDE DEF data
    <2>5. ASSUME data # <<>>, lfile' = lfile \o data, GoTo("callback"), UNCHANGED history
          PROVE  Intact'
      <3>1. Turns' /\ pc' = "callback"
        BY <2>5, <1>1, StartFacts, TurnsGo, ExpectedIs DEF GoTo, wire
      <3>2. Ready'
        BY <1>1, <2>4, <2>5, StartFacts DEF Ready, Copied, Sound
      <3>3. Sound' /\ data_len' < BlockSize => rpos' = Len(rfile')
        BY <2>3, <2>4, <2>5, StartFacts DEF Sound
      <3>4. data_len' = BlockSize => Round'
        BY <2>3, <2>4, StartFacts DEF Round
      <3>5. Files'
        BY <3>1, <3>2, <3>3, <3>4 DEF Files
      <3>6. Causes' /\ "bad_handle" \notin history'
        BY <1>1, <2>5, <3>1, NoFaultYet
      <3> QED
        BY <3>1, <3>5, <3>6 DEF Intact
    <2>6. ASSUME NEW full \in BOOLEAN, data = <<>> \/ full, scl_il_xfer_exit(7, TRUE),
                 history' = IF full THEN history \cup {"local_write"} ELSE history
          PROVE  Intact'
      <3>1. 7 \in DOMAIN Cause /\ Cause[7] = "local_write" /\ 7 \in Codes /\ ~(7 = 0 /\ Sound')
        BY CauseIs DEF Codes
      <3>2. CASE full
        <4>1. history' = history \cup {Cause[7]}
          BY <2>6, <3>1, <3>2
        <4>2. Faulted' = Faulted \cup {Cause[7]} /\ ("bad_handle" \in history' <=> "bad_handle" \in history)
          BY <4>1, Mentioned
        <4>3. alive => Faulted' = {Cause[7]}
          BY <1>1, <4>2
        <4> QED
          BY <2>4, <2>6, <3>1, <4>2, <4>3, StartFacts, ExitIntact
      <3>3. CASE ~full
        <4>1. data = <<>> /\ history' = history
          BY <2>6, <3>3
        <4>2. Faulted' = Faulted /\ (Sound' <=> Sound)
          BY <4>1, Unmentioned
        <4>3. Sound' => Len(rfile) % BlockSize = 0
          <5>1. Len(data) = 0 /\ 0 < BlockSize
            BY <4>1, XferAssumption DEF XferAssumption
          <5> QED
            BY <1>1, <2>4, <4>1, <4>2, <5>1 DEF Round
        <4> QED
          BY <1>1, <2>4, <2>6, <3>1, <4>1, <4>2, <4>3, StartFacts, ExitIntact
      <3> QED
        BY <3>2, <3>3
    <2> QED
      BY <2>3, <2>5, <2>6
  <1> QED
    BY <1>2, <1>3

LEMMA CallbackIntact ==
  ASSUME LocalStart, Callback
  PROVE  Intact'
  <1>1. /\ pc = "callback" /\ UNCHANGED <<data_len, lfile, lpos>>
        /\ Ready /\ (alive => Faulted = {})
        /\ direction = "GET" /\ data_len < BlockSize /\ Sound => rpos = Len(rfile)
        /\ data_len = BlockSize => Round
    BY StartFacts DEF Callback, info, localFile, Files, Causes
  <1>2. CASE scl_il_xfer_exit(8, TRUE) /\ Note("callback")
    <2>1. 8 \in DOMAIN Cause /\ Cause[8] = "callback" /\ 8 \in Codes /\ ~(8 = 0 /\ Sound')
      BY CauseIs DEF Codes
    <2>2. history' = history \cup {Cause[8]}
      BY <1>2, <2>1 DEF Note
    <2>3. Faulted' = Faulted \cup {Cause[8]} /\ ("bad_handle" \in history' <=> "bad_handle" \in history)
      BY <2>2, Mentioned
    <2>4. alive => Faulted' = {Cause[8]}
      BY <1>1, <2>3
    <2>5. rhandle = "open"
      BY <1>1 DEF Ready
    <2> QED
      BY <1>2, <2>1, <2>3, <2>4, <2>5, StartFacts, ExitIntact
  <1>3. CASE /\ GoTo(IF direction = "GET" /\ data_len # BlockSize THEN "mode" ELSE "loop")
             /\ UNCHANGED history
    <2>1. /\ Turns'
          /\ pc' = IF direction = "GET" /\ data_len # BlockSize THEN "mode" ELSE "loop"
      BY <1>1, <1>3, StartFacts, TurnsGo, ExpectedIs DEF GoTo, wire
    <2>2. Causes' /\ "bad_handle" \notin history'
      BY <1>1, <1>3, <2>1, NoFaultYet
    <2>3. Ready' /\ (Round => Round') /\ (Sound' <=> Sound)
      BY <1>1, <1>3, StartFacts DEF Ready, Round, Copied, Sound
    <2>4. CASE direction = "GET" /\ data_len # BlockSize
      <3>1. data_len < BlockSize
        BY <2>4, StartFacts, LocalFacts, XferAssumption DEF XferAssumption
      <3>2. Sound => lfile = rfile
        BY <1>1, <2>4, <3>1, StartFacts, RemoteFacts, SubSeqFull DEF Ready, Copied
      <3>3. Files'
        BY <1>1, <2>1, <2>3, <2>4, <3>2, StartFacts DEF Files, Ready
      <3> QED
        BY <2>1, <2>2, <3>3 DEF Intact
    <2>5. CASE ~(direction = "GET" /\ data_len # BlockSize)
      <3>1. Round'
        BY <1>1, <2>3, <2>5, StartFacts DEF Round
      <3>2. Files'
        BY <2>1, <2>3, <2>5, <3>1 DEF Files
      <3> QED
        BY <2>1, <2>2, <3>2 DEF Intact
    <2> QED
      BY <2>4, <2>5
  <1> QED
    BY <1>2, <1>3 DEF Callback

LEMMA SetModeIntact ==
  ASSUME LocalStart, SetMode
  PROVE  Intact'
  <1>1. /\ pc = "mode" /\ UNCHANGED <<history, lfile, lpos>>
        /\ rhandle = "open" /\ (Sound => lfile = rfile) /\ (alive => Faulted = {})
    BY StartFacts DEF SetMode, localFile, Files, Causes
  <1>2. CASE CallAndWait(Expected["w_mode"], 0, "w_mode")
    <2>1. "w_mode" \in DOMAIN Expected /\ pc' = "w_mode"
      BY <1>2, ExpectedIs DEF CallAndWait
    <2>2. Turns'
      BY <1>2, <2>1, StartFacts, TurnsCall
    <2>3. Files'
      BY <1>1, <2>1, StartFacts DEF Files, Sound
    <2>4. Causes' /\ "bad_handle" \notin history'
      BY <1>1, <2>1, NoFaultYet
    <2> QED
      BY <2>2, <2>3, <2>4 DEF Intact
  <1>3. CASE scl_il_xfer_exit(0, TRUE)
    <2>1. 0 \in Codes /\ Faulted' = Faulted /\ (Sound' <=> Sound)
      BY <1>1, Unmentioned DEF Codes
    <2> QED
      BY <1>1, <1>3, <2>1, StartFacts, ExitIntact
  <1> QED
    BY <1>2, <1>3, ExpectedIs DEF SetMode

LEMMA CheckModeIntact ==
  ASSUME LocalStart, CheckMode
  PROVE  Intact'
  <1>1. /\ pc = "w_mode" /\ UNCHANGED <<history, lfile, lpos>>
        /\ rhandle = "open" /\ (Sound => lfile = rfile) /\ (alive => Faulted = {})
        /\ scl_il_xfer_exit(0, TRUE)
    BY StartFacts DEF CheckMode, localFile, Files, Causes
  <1>2. 0 \in Codes /\ Faulted' = Faulted /\ (Sound' <=> Sound)
    BY <1>1, Unmentioned DEF Codes
  <1> QED
    BY <1>1, <1>2, StartFacts, ExitIntact

LEMMA RemoteClosedIntact ==
  ASSUME LocalStart, RemoteClosed
  PROVE  Intact'
  <1>1. /\ pc = "w_close" /\ got /\ pc \in DOMAIN Expected
        /\ UNCHANGED <<history, code, lfile, lpos>>
        /\ GoTo("fclose")
    BY ExpectedIs DEF RemoteClosed, localFile
  <1>2. Turns' /\ pc' = "fclose"
    BY <1>1, StartFacts, TurnsGo, ExpectedIs DEF GoTo, wire
  <1>3. alive => rhandle = "closed"
    BY <1>1, InHand DEF Reports
  <1>4. Files'
    BY <1>1, <1>2, <1>3, StartFacts DEF Files, Sound
  <1>5. Faulted' = Faulted /\ (Sound' <=> Sound)
    BY <1>1, Unmentioned
  <1>6. Causes'
    BY <1>1, <1>2, <1>5, StartFacts DEF Causes
  <1> QED
    BY <1>1, <1>2, <1>4, <1>6, StartFacts DEF Intact

LEMMA CloseLocalIntact ==
  ASSUME LocalStart, CloseLocal
  PROVE  Intact'
  <1>1. PICK lost \in BOOLEAN :
          /\ lfile' = IF lost THEN SubSeq(lfile, 1, Len(lfile) - 1) ELSE lfile
          /\ history' = IF lost THEN history \cup {"unreported"} ELSE history
    BY DEF CloseLocal
  <1>2. pc = "fclose" /\ UNCHANGED code /\ GoTo("done")
    BY DEF CloseLocal
  <1>3. Turns' /\ pc' = "done"
    BY <1>2, StartFacts, TurnsGo, ExpectedIs DEF GoTo, wire
  <1>4. Sound' => Sound /\ lfile' = lfile
    BY <1>1, Unmentioned
  <1>5. Files'
    BY <1>2, <1>3, <1>4, StartFacts DEF Files
  <1>6. Faulted' = Faulted /\ "bad_handle" \notin history'
    BY <1>1, Unmentioned, StartFacts
  <1>7. Causes'
    BY <1>2, <1>3, <1>4, <1>6, StartFacts DEF Causes
  <1> QED
    BY <1>3, <1>5, <1>6, <1>7 DEF Intact

\* Each of these steps is taken when no answer is waited for.
LEMMA LocalStepIntact ==
  ASSUME Types, Intact, LocalStep
  PROVE  Intact'
  <1>1. Elsewhere
    BY DEF LocalStep, Elsewhere
  <1>2. Turn
    BY ExpectedIs
    DEF LocalStep, Turn, AfterError, GetApiVersion, OpenLocal, GotSizeMode, CheckOpen, PutBlock,
        CheckPut, GetBlock, WriteLocal, Callback, SetMode, CheckMode, RemoteClosed, CloseLocal
  <1>3. LocalStart
    BY <1>1, <1>2 DEF LocalStart
  <1> QED
    BY <1>3, AfterErrorIntact, GetApiVersionIntact, OpenLocalIntact, GotSizeModeIntact,
       CheckOpenIntact, PutBlockIntact, CheckPutIntact, GetBlockIntact, WriteLocalIntact,
       CallbackIntact, SetModeIntact, CheckModeIntact, RemoteClosedIntact, CloseLocalIntact
    DEF LocalStep

-----------------------------------------------------------------------------
(* Reading a packet.                                                       *)

\* What an answer reports, and what is true of the files, stays so while
\* neither side moves and what the suvlet wrote is not lost unnoticed.
Settled ==
    /\ UNCHANGED <<pc, direction, rhandle, lfile, lpos, rpos, code, data_len>>
    /\ history \subseteq history'
    /\ Sound' => Sound /\ rfile' = rfile
    /\ alive' => alive
    /\ calls' = calls \/ calls' = <<>>

LEMMA ReportsKept ==
  ASSUME Settled, NEW vals, Reports(vals)
  PROVE  Reports(vals)'
  <1>1. (Sound => Copied) => (Sound => Copied)'
    BY DEF Settled, Copied
  <1>2. Ready /\ Round => Ready' /\ Round'
    BY <1>1 DEF Settled, Ready, Round
  <1>3. \A data : Fetched(data) => Fetched(data)'
    BY DEF Settled, Fetched, Round
  <1>4. UNCHANGED <<pc, rhandle>> /\ history \subseteq history'
    BY DEF Settled
  <1>5. CASE pc = "w_open"
    BY <1>2, <1>4, <1>5 DEF Reports
  <1>6. CASE pc = "w_put"
    BY <1>1, <1>4, <1>6 DEF Reports
  <1>7. CASE pc = "w_get"
    BY <1>3, <1>4, <1>7 DEF Reports
  <1>8. CASE pc \notin {"w_open", "w_put", "w_get"}
    BY <1>4, <1>8 DEF Reports
  <1> QED
    BY <1>5, <1>6, <1>7, <1>8

LEMMA ReplyKept ==
  ASSUME Settled, NEW a, IsReply(a)
  PROVE  IsReply(a)'
  <1>1. pc' = pc
    BY DEF Settled
  <1>2. Reports(a.vals)'
    BY ReportsKept DEF IsReply
  <1> QED
    BY <1>1, <1>2 DEF IsReply

LEMMA FilesKept ==
  ASSUME Settled, Files
  PROVE  Files'
  <1>1. /\ UNCHANGED <<pc, rhandle, code>>
        /\ calls' # <<>> => calls' = calls /\ calls # <<>>
        /\ (Sound => lfile = rfile) => (Sound' => lfile' = rfile')
        /\ alive' => alive
    BY DEF Settled
  <1>2. Fresh => Fresh'
    BY DEF Settled, Fresh
  <1>3. (Ready => Ready') /\ (Round => Round')
    BY DEF Settled, Ready, Round, Copied
  <1>4. (direction = "GET" /\ data_len < BlockSize /\ Sound => rpos = Len(rfile))
          => (direction = "GET" /\ data_len < BlockSize /\ Sound => rpos = Len(rfile))'
    BY DEF Settled
  <1>5. (data_len = BlockSize => Round) => (data_len = BlockSize => Round)'
    BY <1>3 DEF Settled
  <1>6. pc = "w_put" /\ calls' # <<>> => (Sound' => rfile' \o calls'[1].arg = SubSeq(lfile', 1, lpos'))
    BY <1>1 DEF Files, Settled
  <1> QED
    BY <1>1, <1>2, <1>3, <1>4, <1>5, <1>6 DEF Files

\* A packet that is read whole is the answer that is waited for, or tells of
\* the end of the suvlet.
LEMMA ReadIntact ==
  ASSUME Types, Intact, scl_read_packet, ~Failed'
  PROVE  Intact'
  <1>1. /\ pc \in Waiting /\ ~got /\ got' = TRUE
        /\ UNCHANGED <<direction, pc, code, data_len, lfile, lpos, calls, alive, rfile, rpos, rhandle>>
    BY DEF scl_read_packet, info, localFile, remoteFile
  <1>2. TakeAnswer
    BY DEF scl_read_packet, TimeOut, HangUp, Failed
  <1>3. PICK a \in AnswerPacket : a = Head(answers) /\ a = answers[1]
    BY <1>2, RemoteFacts, HeadAndTail DEF TakeAnswer
  <1>4. /\ a.whole /\ UNCHANGED history /\ answers' = Tail(answers) /\ answers # <<>>
        /\ inp'.op = a.op /\ inp'.vals = a.vals /\ inp'.to = a.to /\ inp'.freed = FALSE
    BY <1>2, <1>3 DEF TakeAnswer, Failed
  <1>5. Settled
    BY <1>1, <1>4 DEF Settled, Sound
  <1>6. /\ Len(answers) \in Nat /\ Len(answers) > 0 /\ DOMAIN answers = 1 .. Len(answers)
        /\ Len(answers') = Len(answers) - 1 /\ DOMAIN answers' = 1 .. Len(answers) - 1
        /\ \A i \in DOMAIN answers' : answers'[i] = answers[i + 1]
    BY <1>4, RemoteFacts, HeadAndTail
  <1>7. Turns /\ Files /\ Causes /\ "bad_handle" \notin history
    BY DEF Intact
  <1>8. /\ calls = <<>>
        /\ pc = "w_err" => ~alive
        /\ alive => pc \in DOMAIN Expected /\ IsReply(a) /\ Len(answers) = 1
        /\ ~alive => a.op # "FRETURN" \/ IsReply(a)
    BY <1>1, <1>3, <1>4, <1>6, <1>7, WaitingIs, ExpectedIs DEF Turns, IsEnd
  <1>9. ~alive => \A i \in DOMAIN answers' : IsEnd(answers'[i])
    <2>1. SUFFICES ASSUME ~alive, NEW i \in DOMAIN answers'
                   PROVE  IsEnd(answers[i + 1])
      BY <1>6
    <2>2. i + 1 \in DOMAIN answers /\ i + 1 # 1
      BY <1>6
    <2> QED
      BY <1>7, <2>1, <2>2 DEF Turns
  <1>10. IsReply(a) => IsReply(inp)'
    <2>1. SUFFICES ASSUME IsReply(a) PROVE IsReply(inp)'
      OBVIOUS
    <2>2. IsReply(a)'
      BY <1>5, <2>1, ReplyKept
    <2> QED
      BY <1>4, <2>2 DEF IsReply, Reports
  <1>11. Turns'
    <2>1. calls' = <<>> /\ (alive' => answers' = <<>>)
      BY <1>1, <1>4, <1>6, <1>8
    <2>2. ~inp'.freed /\ (pc' \in DOMAIN Expected => IsReply(inp)' \/ (~alive' /\ inp'.op # "FRETURN"))
      BY <1>1, <1>4, <1>8, <1>10
    <2>3. ~alive' => \A i \in DOMAIN answers' : IsEnd(answers[i])'
      BY <1>1, <1>9 DEF IsEnd
    <2> QED
      BY <1>1, <1>8, <2>1, <2>2, <2>3 DEF Turns
  <1>12. Files'
    BY <1>5, <1>7, FilesKept
  <1>13. Causes'
    <2>1. Faulted' = Faulted /\ (Sound' <=> Sound)
      BY <1>4, Unmentioned
    <2>2. inp'.vals = answers[1].vals
      BY <1>3, <1>4
    <2> QED
      BY <1>1, <1>7, <2>1, <2>2 DEF Causes
  <1> QED
    BY <1>4, <1>7, <1>11, <1>12, <1>13 DEF Intact

-----------------------------------------------------------------------------
(* The steps of the suvlet.                                                *)

\* A call that is served is the one the local side waits for.
ServeStart(name) ==
    /\ Types /\ Intact /\ Serves(name)
    /\ RemoteRest

LEMMA ServeFacts ==
  ASSUME NEW name, ServeStart(name)
  PROVE  /\ Types /\ Turns /\ Files /\ Causes /\ "bad_handle" \notin history /\ alive
         /\ pc \in DOMAIN Expected /\ ~got /\ name = Expected[pc]
         /\ calls # <<>> /\ calls[1].name = name /\ Head(calls) = calls[1]
         /\ calls[1] \in CallPacket
         /\ Tail(calls) = <<>> /\ answers = <<>>
         /\ UNCHANGED <<direction, pc, got, code, data_len, lfile, lpos, inp>>
  <1>1. /\ Types /\ Turns /\ Files /\ Causes /\ "bad_handle" \notin history
        /\ Serves(name)
        /\ UNCHANGED <<direction, pc, got, code, data_len, lfile, lpos, inp>>
    BY DEF ServeStart, Intact, RemoteRest, control, info, localFile
  <1>2. /\ calls # <<>> /\ alive /\ Head(calls) = calls[1] /\ calls[1].name = name
        /\ Head(calls) \in CallPacket
    BY <1>1, TakenCall
  <1>3. /\ pc \in DOMAIN Expected /\ ~got /\ Len(calls) = 1 /\ name = Expected[pc] /\ answers = <<>>
    BY <1>1, <1>2 DEF Turns
  <1>4. Tail(calls) = <<>>
    <2>1. Tail(calls) \in Seq(CallPacket) /\ Len(Tail(calls)) = 0
      BY <1>1, <1>2, <1>3, TakenCall, 1 - 1 = 0
    <2> QED
      BY <2>1, EmptySeq
  <1> QED
    BY <1>1, <1>2, <1>3, <1>4

LEMMA AnsweredTurns ==
  ASSUME NEW name, ServeStart(name), NEW vals \in Seq(Value), Answer(vals), Reports(vals)'
  PROVE  Turns' /\ calls' = <<>> /\ alive' = alive /\ answers'[1].vals = vals
  <1> DEFINE a == [op |-> "FRETURN", vals |-> vals, to |-> name, whole |-> TRUE]
  <1>1. answers' = <<a>> /\ calls' = <<>> /\ alive' = alive
    <2>1. answers' = Append(answers, a) /\ calls' = Tail(calls) /\ alive' = alive
      BY ServeFacts DEF Answer
    <2> HIDE DEF a
    <2>2. Append(<<>>, a) = <<a>>
      OBVIOUS
    <2> QED
      BY <2>1, <2>2, ServeFacts
  <1>2. /\ a.op = "FRETURN" /\ a.vals = vals /\ a.to = name /\ a.whole
        /\ answers'[1] = a /\ Len(answers') = 1
    BY <1>1
  <1> HIDE DEF a
  <1>3. IsReply(a)'
    BY <1>2, ServeFacts DEF IsReply
  <1>4. IsReply(answers[1])'
    BY <1>2, <1>3 DEF IsReply, Reports
  <1>5. pc' \in DOMAIN Expected /\ ~got' /\ alive' /\ pc' \in Waiting /\ pc' # "w_err"
    BY <1>1, ServeFacts, ExpectedIs, WaitingIs
  <1>6. Turns'
    BY <1>1, <1>2, <1>4, <1>5 DEF Turns
  <1> QED
    BY <1>1, <1>2, <1>6

\* A call that only asks.
LEMMA AskedIntact ==
  ASSUME NEW name \in {"get_info", "get_fsize_mode", "set_fmode"}, ServeStart(name),
         NEW vals \in Seq(Value), Answer(vals), UNCHANGED <<rfile, rpos, rhandle, history>>
  PROVE  Intact'
  <1>1. pc \in {"w_api", "w_fsize", "w_mode"} /\ pc' = pc
    BY ServeFacts, ExpectedIs
  <1>2. Reports(vals)'
    BY <1>1 DEF Reports
  <1>3. Turns' /\ calls' = <<>> /\ alive' = alive
    BY <1>2, AnsweredTurns
  <1>4. Settled
    BY <1>3, ServeFacts DEF Settled, Sound
  <1>5. Files'
    BY <1>4, ServeFacts, FilesKept
  <1>6. Causes'
    BY <1>1, <1>3, ServeFacts, Unmentioned DEF Causes
  <1> QED
    BY <1>3, <1>5, <1>6, ServeFacts DEF Intact

LEMMA InfoIntact ==
  ASSUME Types, Intact, r_get_info, RemoteRest
  PROVE  Intact'
  <1>1. <<Val("int", rapi)>> \in Seq(Value)
    BY RemoteFacts, ValueTypes, ValueSeqs
  <1>2. ServeStart("get_info") /\ UNCHANGED <<rfile, rpos, rhandle, history>>
    BY DEF r_get_info, ServeStart, remoteFile
  <1> QED
    BY <1>1, <1>2, AskedIntact DEF r_get_info

LEMMA SizeModeIntact ==
  ASSUME Types, Intact, r_get_fsize_mode, RemoteRest
  PROVE  Intact'
  <1>1. /\ <<Val("int", Len(rfile)), Val("int", 0)>> \in Seq(Value)
        /\ <<Val("int", -1), Val("int", -1)>> \in Seq(Value)
    BY RemoteFacts, ValueTypes, ValueSeqs
  <1>2. ServeStart("get_fsize_mode") /\ UNCHANGED <<rfile, rpos, rhandle, history>>
    BY DEF r_get_fsize_mode, ServeStart, remoteFile
  <1> QED
    BY <1>1, <1>2, AskedIntact DEF r_get_fsize_mode

LEMMA SetModeAnswerIntact ==
  ASSUME Types, Intact, r_set_fmode, RemoteRest
  PROVE  Intact'
  <1>1. <<Val("bool", 1)>> \in Seq(Value) /\ <<Val("bool", 0)>> \in Seq(Value)
    BY ValueTypes, ValueSeqs
  <1>2. ServeStart("set_fmode") /\ UNCHANGED <<rfile, rpos, rhandle, history>>
    BY DEF r_set_fmode, ServeStart, remoteFile
  <1> QED
    BY <1>1, <1>2, AskedIntact DEF r_set_fmode

LEMMA OpenFileIntact ==
  ASSUME Types, Intact, r_open_file, RemoteRest
  PROVE  Intact'
  <1>1. ServeStart("open_file")
    BY DEF r_open_file, ServeStart
  <1>2. /\ pc = "w_open" /\ pc' = "w_open" /\ ~got' /\ Fresh /\ Faulted = {}
        /\ UNCHANGED <<direction, lfile, lpos>>
    BY <1>1, ServeFacts, ExpectedIs DEF Files, Causes
  <1>3. OpenedOk \in Seq(Value) /\ NotOpened \in Seq(Value)
    <2>1. /\ Val("int", 0) \in Value /\ Val("int", 1) \in Value
          /\ Val("str", "") \in Value /\ Val("str", "error") \in Value
      <3>1. "" \in Texts /\ "error" \in Texts /\ 0 \in Int /\ 1 \in Int
        BY DEF Texts
      <3> QED
        BY <3>1, ValueTypes
    <2> QED
      BY <2>1, ValueSeqs DEF OpenedOk, NotOpened
  <1>4. ASSUME NEW vals \in Seq(Value), Answer(vals), Reports(vals)', "bad_handle" \notin history',
               \/ Faulted' = {}
               \/ Faulted' = {Cause[4]} /\ vals = NotOpened
        PROVE  Intact'
    <2>1. Turns' /\ calls' = <<>> /\ alive' = alive /\ answers'[1].vals = vals
      BY <1>1, <1>4, AnsweredTurns
    <2>2. Files'
      BY <1>2, <2>1 DEF Files
    <2>3. Causes'
      BY <1>2, <1>4, <2>1 DEF Causes
    <2> QED
      BY <1>4, <2>1, <2>2, <2>3 DEF Intact
  <1>5. ASSUME rhandle' = "open", rpos' = 0, rfile' = IF Head(calls).arg = "w" THEN <<>> ELSE rfile,
               Answer(OpenedOk), UNCHANGED history
        PROVE  Intact'
    <2>1. Head(calls).arg = "w" <=> direction # "GET"
      BY <1>1, ServeFacts, CallTypes
    <2>2. Copied'
      <3>1. \A s \in Seq(Nat) : SubSeq(s, 1, 0) = <<>>
        BY SubSeqEmpty
      <3> QED
        BY <1>1, <1>2, <1>5, <2>1, <3>1, ServeFacts, LocalFacts, RemoteFacts DEF Fresh, Copied
    <2>3. Round'
      BY <1>5, XferAssumption DEF Round, XferAssumption
    <2>4. Reports(OpenedOk)'
      BY <1>2, <1>5, <2>2, <2>3 DEF Reports, Ready
    <2>5. Faulted' = {} /\ "bad_handle" \notin history'
      BY <1>1, <1>2, <1>5, Unmentioned, ServeFacts
    <2> QED
      BY <1>3, <1>4, <1>5, <2>4, <2>5
  <1>6. ASSUME Note("remote_open"), rhandle' = "null", Answer(NotOpened)
        PROVE  Intact'
    <2>1. Cause[4] = "remote_open"
      BY CauseIs
    <2>2. Faulted' = Faulted \cup {Cause[4]} /\ ("bad_handle" \in history' <=> "bad_handle" \in history)
      BY <1>6, <2>1, Mentioned DEF Note
    <2>3. Reports(NotOpened)'
      BY <1>2, <1>6 DEF Reports, Note
    <2> QED
      BY <1>1, <1>2, <1>3, <1>4, <1>6, <2>2, <2>3, ServeFacts
  <1> QED
    BY <1>5, <1>6 DEF r_open_file, OpenedOk, NotOpened

\* A reader at a block's boundary is at one after another block.
LEMMA NextBoundary ==
  ASSUME NEW n \in Nat, NEW b \in Nat \ {0}, n % b = 0
  PROVE  (n + b) % b = 0
  <1> DEFINE q == n \div b
  <1>1. q \in Nat /\ n = b * q
    <2>1. n = b * q + (n % b) /\ q \in Nat
      OBVIOUS
    <2> HIDE DEF q
    <2> QED
      BY <2>1
  <1> HIDE DEF q
  <1>2. n + b = (q + 1) * b
    BY <1>1
  <1>3. \A m \in Nat : (m * b) % b = 0
    OBVIOUS
  <1> QED
    BY <1>1, <1>2, <1>3

LEMMA PutDataIntact ==
  ASSUME Types, Intact, r_put_data, RemoteRest
  PROVE  Intact'
  <1>1. ServeStart("put_data")
    BY DEF r_put_data, ServeStart
  <1>2. /\ pc = "w_put" /\ pc' = "w_put" /\ ~got' /\ Faulted = {} /\ direction = "PUT" /\ rhandle = "open"
        /\ Sound => rfile \o Head(calls).arg = SubSeq(lfile, 1, lpos)
        /\ UNCHANGED <<direction, lfile, lpos>>
    BY <1>1, ServeFacts, ExpectedIs DEF Files, Causes, Types
  <1>3. Written \in Seq(Value) /\ NotWritten \in Seq(Value)
    BY ValueTypes, ValueSeqs DEF Written, NotWritten
  <1>4. ASSUME NEW vals \in Seq(Value), Answer(vals), Reports(vals)', "bad_handle" \notin history',
               \/ Faulted' = {}
               \/ Faulted' = {Cause[6]} /\ vals = NotWritten
        PROVE  Intact'
    <2>1. Turns' /\ calls' = <<>> /\ alive' = alive /\ answers'[1].vals = vals
      BY <1>1, <1>4, AnsweredTurns
    <2>2. Files'
      BY <1>2, <2>1 DEF Files
    <2>3. Causes'
      BY <1>2, <1>4, <2>1 DEF Causes
    <2> QED
      BY <1>4, <2>1, <2>2, <2>3 DEF Intact
  <1>5. ASSUME rfile' = rfile \o Head(calls).arg, Answer(Written), UNCHANGED <<history, rhandle>>
        PROVE  Intact'
    <2>1. Sound' => Copied'
      BY <1>2, <1>5, Unmentioned DEF Copied
    <2>2. Reports(Written)'
      BY <1>2, <1>5, <2>1 DEF Reports
    <2>3. Faulted' = {} /\ "bad_handle" \notin history'
      BY <1>1, <1>2, <1>5, Unmentioned, ServeFacts
    <2> QED
      BY <1>3, <1>4, <1>5, <2>2, <2>3
  <1>6. ASSUME Note("remote_write"), Answer(NotWritten), UNCHANGED rhandle
        PROVE  Intact'
    <2>1. Cause[6] = "remote_write"
      BY CauseIs
    <2>2. Faulted' = Faulted \cup {Cause[6]} /\ ("bad_handle" \in history' <=> "bad_handle" \in history)
      BY <1>6, <2>1, Mentioned DEF Note
    <2>3. Reports(NotWritten)'
      BY <1>2, <1>6 DEF Reports, Note
    <2> QED
      BY <1>1, <1>2, <1>3, <1>4, <1>6, <2>2, <2>3, ServeFacts
  <1> QED
    BY <1>2, <1>5, <1>6 DEF r_put_data, Written, NotWritten

LEMMA GetDataIntact ==
  ASSUME Types, Intact, r_get_data, RemoteRest
  PROVE  Intact'
  <1>1. ServeStart("get_data")
    BY DEF r_get_data, ServeStart
  <1>2. /\ pc = "w_get" /\ pc' = "w_get" /\ ~got' /\ Faulted = {} /\ direction = "GET" /\ rhandle = "open"
        /\ Sound => lfile = SubSeq(rfile, 1, rpos)
        /\ rpos % BlockSize = 0
        /\ UNCHANGED <<direction, lfile, lpos>>
    BY <1>1, ServeFacts, ExpectedIs DEF Files, Causes, Types, Ready, Copied, Round
  <1>3. Head(calls).arg = BlockSize
    BY <1>1, TakenCall, CallTypes DEF ServeStart
  <1>4. PICK error \in BOOLEAN :
          /\ rpos' = rpos + BytesOf(error, BlockSize)
          /\ Answer(<<Val("data", BytesRead(error, BlockSize))>>)
          /\ history' = IF error /\ Len(rfile) - rpos > 0 THEN history \cup {"unreported"} ELSE history
          /\ UNCHANGED <<rfile, rhandle>>
    BY <1>2, <1>3 DEF r_get_data, BytesOf, BytesRead
  <1>5. PICK n \in Nat, data \in Block : n = BytesOf(error, BlockSize) /\ data = BytesRead(error, BlockSize)
    <2>1. BytesOf(error, BlockSize) \in Nat /\ BytesRead(error, BlockSize) \in Block
      BY <1>1, BytesOfType DEF ServeStart
    <2> QED
      BY <2>1
  <1>6. /\ n \in 0 .. BlockSize /\ n \in 0 .. Len(rfile) - rpos
        /\ Len(data) = n /\ BlockSize \in Nat \ {0}
        /\ rpos \in Nat /\ Len(rfile) \in Nat /\ rpos <= Len(rfile) /\ rfile \in Seq(Nat)
    BY <1>1, <1>5, BytesOfType, RemoteFacts, XferAssumption DEF ServeStart, XferAssumption
  <1>7. /\ rpos' = rpos + n /\ UNCHANGED <<rfile, rhandle>>
        /\ Answer(<<Val("data", data)>>)
    BY <1>4, <1>5
  <1>8. (Sound' => Sound) /\ Faulted' = {} /\ "bad_handle" \notin history'
    BY <1>1, <1>2, <1>4, Unmentioned, ServeFacts
  <1>9. Sound' => lfile' \o data = SubSeq(rfile', 1, rpos')
    <2>1. data = SubSeq(rfile, rpos + 1, rpos + n)
      BY <1>5 DEF BytesRead
    <2>2. rpos \in 0 .. Len(rfile)
      BY <1>6
    <2>3. SubSeq(rfile, 1, rpos) \o data = SubSeq(rfile, 1, rpos + n)
      BY <1>6, <2>1, <2>2, NextBytes
    <2> QED
      BY <1>2, <1>7, <1>8, <2>3
  <1>10. Sound' /\ Len(data) < BlockSize => rpos' = Len(rfile')
    <2>1. (error /\ Len(rfile) - rpos > 0) => ~Sound'
      BY <1>4, Unmentioned
    <2>2. n = IF error THEN 0 ELSE IF Len(rfile) - rpos < BlockSize THEN Len(rfile) - rpos ELSE BlockSize
      BY <1>5 DEF BytesOf
    <2> QED
      BY <1>6, <1>7, <2>1, <2>2
  <1>11. data = <<>> \/ Len(data) = BlockSize => Round'
    <2>1. data = <<>> => n = 0
      BY <1>6
    <2>2. CASE n = 0
      BY <1>2, <1>6, <1>7, <2>2 DEF Round
    <2>3. CASE n = BlockSize
      BY <1>2, <1>6, <1>7, <2>3, NextBoundary DEF Round
    <2> QED
      BY <1>6, <2>1, <2>2, <2>3
  <1>12. Fetched(data)'
    BY <1>2, <1>7, <1>9, <1>10, <1>11 DEF Fetched
  <1>13. <<Val("data", data)>> \in Seq(Value) /\ <<Val("data", data)>>[1].v = data
    BY ValueTypes, ValueSeqs DEF Val
  <1>14. Reports(<<Val("data", data)>>)'
    BY <1>2, <1>12, <1>13 DEF Reports
  <1>15. Turns' /\ calls' = <<>> /\ alive' = alive
    BY <1>1, <1>7, <1>13, <1>14, AnsweredTurns
  <1>16. Files'
    BY <1>2, <1>15 DEF Files
  <1>17. Causes'
    BY <1>2, <1>8, <1>15 DEF Causes
  <1> QED
    BY <1>8, <1>15, <1>16, <1>17 DEF Intact

LEMMA CloseFileIntact ==
  ASSUME Types, Intact, r_close_file, RemoteRest
  PROVE  Intact'
  <1>1. ServeStart("close_file")
    BY DEF r_close_file, ServeStart
  <1>2. /\ pc = "w_close" /\ pc' = "w_close" /\ rhandle = "open"
        /\ UNCHANGED <<direction, lfile, lpos, code>>
        /\ (code = 0 /\ Sound => lfile = rfile)
    BY <1>1, ServeFacts, ExpectedIs DEF Files
  <1>3. PICK lost \in BOOLEAN :
          /\ lost => direction = "PUT"
          /\ rfile' = IF lost THEN SubSeq(rfile, 1, Len(rfile) - 1) ELSE rfile
          /\ history' = IF lost THEN history \cup {"unreported"} ELSE history
          /\ rhandle' = "closed" /\ Answer(<<>>)
    BY <1>2 DEF r_close_file
  <1>4. /\ Sound' => Sound /\ rfile' = rfile
        /\ Faulted' = Faulted /\ "bad_handle" \notin history'
    BY <1>1, <1>3, Unmentioned, ServeFacts
  <1>5. Reports(<<>>)'
    BY <1>2, <1>3 DEF Reports
  <1>6. Turns' /\ calls' = <<>> /\ alive' = alive
    BY <1>1, <1>3, <1>5, ValueSeqs, AnsweredTurns
  <1>7. Files'
    BY <1>2, <1>3, <1>4, <1>6 DEF Files
  <1>8. Causes'
    BY <1>1, <1>2, <1>4, <1>6, ServeFacts DEF Causes
  <1> QED
    BY <1>4, <1>6, <1>7, <1>8 DEF Intact

LEMMA RemoteStepIntact ==
  ASSUME Types, Intact, RemoteStep
  PROVE  Intact'
  <1>1. RemoteRest
    BY DEF RemoteStep, RemoteRest
  <1> QED
    BY <1>1, InfoIntact, SizeModeIntact, OpenFileIntact, PutDataIntact, GetDataIntact,
       SetModeAnswerIntact, CloseFileIntact
    DEF RemoteStep

-----------------------------------------------------------------------------
(* The death of the suvlet.                                                *)

LEMMA DieIntact ==
  ASSUME Types, Intact, Die
  PROVE  Intact'
  <1>1. /\ UNCHANGED <<pc, got, code, direction, data_len, lfile, lpos, inp, rpos, rhandle>>
        /\ alive /\ ~alive' /\ calls' = <<>>
    BY DEF Die, control, info, localFile
  <1>2. PICK written \in 0 .. Len(rfile) :
          /\ rfile' = SubSeq(rfile, 1, written)
          /\ history' = IF written < Len(rfile) THEN history \cup {"unreported"} ELSE history
    BY RemoteFacts DEF Die
  <1>3. /\ Sound' => Sound /\ rfile' = rfile
        /\ history \subseteq history'
        /\ "bad_handle" \notin history' /\ (Sound' => Sound)
    <2>1. CASE written < Len(rfile)
      BY <1>2, <2>1, Unmentioned DEF Intact
    <2>2. CASE written = Len(rfile)
      BY <1>2, <2>2, RemoteFacts, SubSeqFull, Unmentioned DEF Intact
    <2> QED
      BY <1>2, <2>1, <2>2, RemoteFacts
  <1>4. Settled
    BY <1>1, <1>3 DEF Settled
  <1>5. Turns /\ Files
    BY DEF Intact
  <1>6. \/ answers = <<>>
        \/ Len(answers) = 1 /\ ~got /\ answers[1].whole /\ IsReply(answers[1])
    BY <1>1, <1>5 DEF Turns
  <1>7. answers \in Seq(AnswerPacket) /\ Len(answers) \in {0, 1} /\ DOMAIN answers = 1 .. Len(answers)
    BY <1>6, RemoteFacts
  <1>8. \A i \in DOMAIN answers :
          i = 1 /\ ~got' /\ answers[1].whole /\ IsReply(answers[1])
    BY <1>1, <1>6, <1>7
  <1>9. \A i \in DOMAIN answers' :
          \/ IsEnd(answers'[i])
          \/ i \in DOMAIN answers /\ answers'[i] = answers[i]
    <2>1. ASSUME answers # <<>>, NEW kept \in Int,
                 answers' = [answers EXCEPT ![Len(answers)] = Torn(answers[Len(answers)], kept)]
          PROVE  \A i \in DOMAIN answers' : IsEnd(answers'[i])
      <3>1. Len(answers) = 1 /\ 1 \in DOMAIN answers /\ answers[1] \in AnswerPacket
        BY <1>7, <2>1
      <3>2. DOMAIN answers' = DOMAIN answers /\ answers'[1] = Torn(answers[1], kept)
        BY <2>1, <3>1
      <3>3. ~answers'[1].whole
        BY <3>1, <3>2, TornTypes
      <3>4. DOMAIN answers' = {1}
        BY <1>7, <3>1, <3>2, 1 .. 1 = {1}
      <3> QED
        BY <3>3, <3>4 DEF IsEnd
    <2>2. ASSUME NEW op \in {"RETURN", "FERROR"},
                 answers' = Append(answers, [op |-> op, vals |-> <<Val("int", 11), Val("str", "died")>>,
                                             to |-> "none", whole |-> TRUE])
          PROVE  \A i \in DOMAIN answers' :
                   IsEnd(answers'[i]) \/ (i \in DOMAIN answers /\ answers'[i] = answers[i])
      <3> DEFINE a == [op |-> op, vals |-> <<Val("int", 11), Val("str", "died")>>,
                       to |-> "none", whole |-> TRUE]
      <3>1. a.op # "FRETURN"
        BY <2>2
      <3>2. "died" \in Texts /\ 11 \in Int
        BY DEF Texts
      <3>3. a \in AnswerPacket
        BY <3>2, ValueTypes, ValueSeqs DEF AnswerPacket
      <3> HIDE DEF a
      <3>4. answers' = Append(answers, a)
        BY <2>2 DEF a
      <3> QED
        BY <1>7, <3>1, <3>3, <3>4, OneMore DEF IsEnd
    <2>3. \A n : 0 .. n \subseteq Int
      OBVIOUS
    <2> QED
      BY <2>1, <2>2, <2>3 DEF Die
  <1>10. ASSUME NEW i \in DOMAIN answers', ~IsEnd(answers[i])'
         PROVE  i = 1 /\ ~got' /\ answers'[1].whole /\ IsReply(answers[1])'
    <2>1. ~IsEnd(answers'[i])
      BY <1>10 DEF IsEnd
    <2>2. i = 1 /\ ~got' /\ answers[1].whole /\ IsReply(answers[1]) /\ answers'[1] = answers[1]
      BY <1>8, <1>9, <2>1
    <2>3. PICK a \in AnswerPacket : a = answers[1]
      BY <1>7, <1>9, <2>1, <2>2
    <2>4. IsReply(a)'
      BY <1>4, <2>2, <2>3, ReplyKept
    <2>5. IsReply(answers[1])'
      BY <2>2, <2>3, <2>4 DEF IsReply, Reports
    <2> QED
      BY <2>2, <2>5
  <1>11. pc \in DOMAIN Expected /\ got => ~inp'.freed /\ IsReply(inp)'
    <2> SUFFICES ASSUME pc \in DOMAIN Expected, got PROVE ~inp'.freed /\ IsReply(inp)'
      OBVIOUS
    <2>1. ~inp.freed /\ IsReply(inp)
      BY <1>1, <1>5 DEF Turns
    <2>2. PICK a : a = inp
      OBVIOUS
    <2>3. IsReply(a)'
      BY <1>4, <2>1, <2>2, ReplyKept
    <2>4. inp' = a
      BY <1>1, <2>2
    <2>5. IsReply(inp)'
      BY <2>3, <2>4 DEF IsReply, Reports
    <2> QED
      BY <1>1, <2>1, <2>5
  <1>12. Turns'
    BY <1>1, <1>5, <1>10, <1>11 DEF Turns
  <1>13. Files'
    BY <1>4, <1>5, FilesKept
  <1>14. Causes'
    BY <1>1 DEF Causes
  <1> QED
    BY <1>3, <1>12, <1>13, <1>14 DEF Intact

-----------------------------------------------------------------------------
(* The invariant, and what follows from it.                                *)

LEMMA InitIntact == Init => Intact
  <1> SUFFICES ASSUME Init PROVE Intact
    OBVIOUS
  <1>1. /\ direction \in {"GET", "PUT"} /\ pc = "start" /\ got = FALSE /\ lpos = 0 /\ rhandle = "null"
        /\ calls = <<>> /\ answers = <<>> /\ alive = TRUE /\ history = {}
        /\ direction = "GET" => lfile = <<>>
    BY DEF Init
  <1>2. Turns
    BY <1>1, ExpectedIs, WaitingIs DEF Turns
  <1>3. Files
    BY <1>1 DEF Files, Fresh
  <1>4. Causes
    BY <1>1 DEF Causes, Faulted
  <1> QED
    BY <1>1, <1>2, <1>3, <1>4 DEF Intact

\* A failed read is never forgotten.
LEMMA FailedStays ==
  ASSUME Types, [Next]_vars, ~Failed'
  PROVE  ~Failed
  <1>1. CASE UNCHANGED vars
    BY <1>1 DEF vars, Failed
  <1>2. CASE LocalStep
    BY <1>2
    DEF Failed, LocalStep, AfterError, GetApiVersion, OpenLocal, GotSizeMode, CheckOpen, PutBlock,
        CheckPut, GetBlock, WriteLocal, Callback, SetMode, CheckMode, RemoteClosed, CloseLocal, Note
  <1>3. CASE scl_read_packet
    BY <1>3 DEF Failed, scl_read_packet, TakeAnswer, TimeOut, HangUp
  <1>4. CASE RemoteStep
    BY <1>4
    DEF Failed, RemoteStep, r_get_info, r_get_fsize_mode, r_open_file, r_put_data, r_get_data,
        r_set_fmode, r_close_file, BadHandle, Note
  <1>5. CASE Die
    BY <1>5 DEF Failed, Die
  <1> QED
    BY <1>1, <1>2, <1>3, <1>4, <1>5 DEF Next, Done

LEMMA NextInvariant ==
  ASSUME IInv, [Next]_vars
  PROVE  IInv'
  <1>1. Types /\ Types'
    BY NextTypes DEF IInv
  <1>2. ASSUME ~Failed' PROVE Intact'
    <2>1. Intact
      BY <1>1, <1>2, FailedStays DEF IInv
    <2>2. ASSUME UNCHANGED vars PROVE Intact'
      <3>1. UNCHANGED <<direction, pc, got, code, data_len, lfile, lpos, inp, calls, answers, alive,
                        rfile, rpos, rhandle, history>>
        BY <2>2 DEF vars, control, info, localFile, wire, remoteFile
      <3>2. Turns'
        <4>1. Sound' <=> Sound
          BY <3>1 DEF Sound
        <4>2. (Copied' <=> Copied) /\ (Round' <=> Round)
          BY <3>1 DEF Copied, Round
        <4>3. \A d : Fetched(d)' <=> Fetched(d)
          BY <3>1, <4>1, <4>2 DEF Fetched
        <4>4. \A vals : Reports(vals)' <=> Reports(vals)
          BY <3>1, <4>1, <4>2, <4>3 DEF Reports, Ready
        <4>5. \A a : (IsReply(a)' <=> IsReply(a)) /\ (IsEnd(a)' <=> IsEnd(a))
          BY <3>1, <4>4 DEF IsReply, IsEnd
        <4> QED
          BY <2>1, <3>1, <4>5 DEF Intact, Turns
      <3>3. Settled
        BY <3>1 DEF Settled, Sound
      <3>4. Files'
        BY <2>1, <3>3, FilesKept DEF Intact
      <3>5. Causes'
        BY <2>1, <3>1 DEF Intact, Causes, Faulted, Sound
      <3> QED
        BY <2>1, <3>1, <3>2, <3>4, <3>5 DEF Intact
    <2> QED
      BY <1>1, <1>2, <2>1, <2>2, LocalStepIntact, ReadIntact, RemoteStepIntact, DieIntact DEF Next, Done
  <1> QED
    BY <1>1, <1>2 DEF IInv

LEMMA InvariantHolds == Spec => []IInv
  <1>1. Init => IInv
    BY InitTypes, InitIntact DEF IInv
  <1> QED
    BY <1>1, NextInvariant, PTL DEF Spec

\* Each answer is read by the call it answers, and one call is under way at a
\* time, as long as no read fails (scl_inlines.c:444: the result of
\* scl_read_packet is not looked at).
THEOREM AnswersArePaired == Spec => []Paired
  <1>1. IInv => Paired
    <2> SUFFICES ASSUME IInv, ~Failed, alive PROVE Paired
      BY DEF Paired
    <2>1. Turns /\ calls \in Seq(CallPacket) /\ answers \in Seq(AnswerPacket)
      BY RemoteFacts DEF IInv, Intact
    <2>2. Len(calls) + Len(answers) <= 1
      <3>1. Len(calls) \in Nat /\ Len(answers) \in Nat
        BY <2>1
      <3>2. (calls = <<>> => Len(calls) = 0) /\ (answers = <<>> => Len(answers) = 0)
        OBVIOUS
      <3>3. \/ Len(calls) = 1 /\ answers = <<>>
            \/ calls = <<>> /\ Len(answers) = 1
            \/ calls = <<>> /\ answers = <<>>
        BY <2>1 DEF Turns
      <3>4. \/ Len(calls) = 1 /\ Len(answers) = 0
            \/ Len(calls) = 0 /\ Len(answers) = 1
            \/ Len(calls) = 0 /\ Len(answers) = 0
        BY <3>2, <3>3, Zenon
      <3>5. \A m, n \in Nat : m \in {0, 1} /\ n \in {0, 1} /\ (m = 0 \/ n = 0) => m + n <= 1
        OBVIOUS
      <3> QED
        BY <3>1, <3>4, <3>5, Zenon
    <2>3. pc \in DOMAIN Expected /\ got => inp.to = Expected[pc]
      BY <2>1 DEF Turns, IsReply
    <2> QED
      BY <2>2, <2>3 DEF Paired
  <1> QED
    BY <1>1, InvariantHolds, PTL

\* The remote file is used only while it is open, and is closed at the end, as
\* long as no read fails (scl_inlines.c:635).
THEOREM RemoteHandleKept == Spec => []RemoteHandle
  <1>1. IInv => RemoteHandle
    BY DEF IInv, Intact, Files, RemoteHandle, HandleSafe, HandleReleased
  <1> QED
    BY <1>1, InvariantHolds, PTL

\* Exit code 0 means that the file was copied, and the exit code names what
\* went wrong, as long as no read fails (scl_inlines.c:451).
THEOREM ExitCodeIsRight == Spec => []CodeIsRight
  <1>1. IInv => CopiedOnZero
    BY DEF IInv, Intact, Files, CopiedOnZero, Sound
  <1>2. IInv => CodeTellsCause
    <2> SUFFICES ASSUME IInv, pc = "done", alive, ~Failed
                 PROVE  /\ \A c \in DOMAIN Cause : Cause[c] \in history => code = c
                        /\ \/ code = 0 \/ Cause[code] \in history
                           \/ /\ code = 7 /\ direction = "GET"
                              /\ Len(rfile) % BlockSize = 0 \/ "unreported" \in history
      BY DEF CodeTellsCause
    <2>1. \/ code = 0 /\ Faulted = {}
          \/ code \in DOMAIN Cause /\ Faulted = {Cause[code]}
          \/ /\ code = 7 /\ Faulted = {}
             /\ direction = "GET" /\ (Sound => Len(rfile) % BlockSize = 0)
      BY DEF IInv, Intact, Causes
    <2>2. \A c \in DOMAIN Cause : Cause[c] \in history => Cause[c] \in Faulted
      BY DEF Faulted
    <2>3. \A c, d \in DOMAIN Cause : Cause[c] = Cause[d] => c = d
      <3>1. \A c \in 1 .. 8 : c \in {1, 2, 3, 4, 5, 6, 7, 8}
        OBVIOUS
      <3> QED
        BY <3>1, CauseIs
    <2>4. \A c \in DOMAIN Cause : Cause[c] \in history => code = c
      BY <2>1, <2>2, <2>3
    <2>5. Faulted \subseteq history
      BY DEF Faulted
    <2> QED
      BY <2>1, <2>4, <2>5 DEF Sound
  <1> QED
    BY <1>1, <1>2, InvariantHolds, PTL DEF CodeIsRight
=============================================================================
