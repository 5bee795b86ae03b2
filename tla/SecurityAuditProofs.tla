------------------------ MODULE SecurityAuditProofs ------------------------
(***************************************************************************)
(* Proofs about LineBuffer, for all lines, lengths and limits: the buffer  *)
(* holds what was added to it, or says that it does not.  And about        *)
(* SecurityAudit, for all bounds on children, descriptors and output, and  *)
(* all directories: the suvlet uses its buffer as LineBuffer assumes, and  *)
(* what its waits for "any child" leave of its bookkeeping.                *)
(***************************************************************************)
EXTENDS SecurityAudit, FiniteSetTheorems, TLAPS

(***************************************************************************)
(* The two operators on texts.                                             *)
(***************************************************************************)

\* A line is a sequence of its own bytes, as long as the line.
LEMMA BytesOfLine ==
    ASSUME NEW S, NEW l \in S, NEW n \in Nat
    PROVE  /\ Bytes(l, n) \in Seq(S)
           /\ Len(Bytes(l, n)) = n
           /\ \A i \in 1 .. n : Bytes(l, n)[i] = l
  BY DEF Bytes

\* The message takes the place of the end of a text and keeps its length.
LEMMA SnippedText ==
    ASSUME NEW t \in Seq(Texts \cup {Message, NoCore})
    PROVE  /\ Snipped(t) \in Seq(Texts \cup {Message, NoCore})
           /\ Len(Snipped(t)) = Len(t)
           /\ \A i \in 1 .. Len(t) :
                Snipped(t)[i] = IF i > Len(t) - MessageLen THEN Message ELSE t[i]
  <1>1. DOMAIN t = 1 .. Len(t) /\ Len(t) \in Nat
    OBVIOUS
  <1>2. \A i \in 1 .. Len(t) : t[i] \in Texts \cup {Message, NoCore}
    OBVIOUS
  <1>3. Snipped(t) = [i \in 1 .. Len(t) |-> IF i > Len(t) - MessageLen THEN Message ELSE t[i]]
    BY <1>1 DEF Snipped
  <1> DEFINE s == Snipped(t)
  <1>4. s \in [1 .. Len(t) -> Texts \cup {Message, NoCore}]
    BY <1>2, <1>3
  <1>5. s \in Seq(Texts \cup {Message, NoCore}) /\ Len(s) = Len(t)
    <2> HIDE DEF s
    <2> QED  BY <1>1, <1>4
  <1> QED
    BY <1>3, <1>5

(***************************************************************************)
(* The inductive invariant.  While a line is being added, the text lacks   *)
(* that line; only the error text can be marked then.                      *)
(***************************************************************************)

\* The text ends with the message, and is what was added up to there.
Marked ==
    /\ Len(text) <= Len(wanted)
    /\ \A i \in 1 .. Len(text) :
        text[i] = IF i > Len(text) - MessageLen THEN Message ELSE wanted[i]

\* The error text, long enough to show in front of the message.
ErrorText == Len(text) > MessageLen /\ text[1] = NoCore

BInv ==
    /\ BufferTypeOK
    /\ Len(text) <= buffer_size
    /\ ~superseded => wanted = IF line = NoLine THEN text
                               ELSE text \o Bytes(line, LineLen[line])
    /\ superseded => text # <<>> /\ (ErrorText \/ (line = NoLine /\ Marked))

\* It says more than the property.
LEMMA BInvSuffices == BInv => BufferTypeOK /\ BufferSound
  <1> SUFFICES ASSUME BInv PROVE BufferTypeOK /\ BufferSound
    OBVIOUS
  <1>1. OutsideBounded
    <2>1. Len(text) \in Nat /\ buffer_size \in Nat /\ allocated \in Nat
          /\ Len(text) <= buffer_size /\ allocated <= buffer_size
      BY LineBufferAssumption DEF BInv, BufferTypeOK, LineBufferAssumption
    <2> QED
      BY <2>1 DEF OutsideBounded, Outside, Written
  <1>2. TextKept
    <2> SUFFICES ASSUME line = NoLine PROVE TextKept!2
      BY DEF TextKept
    <2>1. DOMAIN text = 1 .. Len(text)
      BY DEF BInv, BufferTypeOK
    <2> QED
      BY <2>1 DEF BInv, ErrorText, Marked
  <1> QED
    BY <1>1, <1>2 DEF BInv, BufferSound

LEMMA BufferBegins == BufferInit => BInv
  <1> SUFFICES ASSUME BufferInit PROVE BInv
    OBVIOUS
  <1>1. LINE_LENGTH \in Nat
    BY LineBufferAssumption DEF LineBufferAssumption
  <1>2. text = <<>> /\ wanted = <<>> /\ line = NoLine /\ superseded = FALSE
    BY DEF BufferInit
  <1>3. buffer_size = LINE_LENGTH /\ allocated = LINE_LENGTH
    BY DEF BufferInit
  <1>a. superseded \in BOOLEAN
    BY <1>2
  <1>b. text \in Seq(Texts \cup {Message, NoCore}) /\ wanted \in Seq(Texts)
    BY <1>2
  <1>4. BufferTypeOK
    BY <1>1, <1>2, <1>3, <1>a, <1>b DEF BufferTypeOK
  <1>5. Len(text) <= buffer_size
    BY <1>1, <1>2, <1>3
  <1>6. ~superseded /\ wanted = text
    BY <1>2
  <1> QED
    BY <1>2, <1>4, <1>5, <1>6 DEF BInv

-----------------------------------------------------------------------------
(* The steps.                                                              *)

LEMMA AddLineStep ==
    ASSUME BInv, NEW l \in Texts, add_line(l)
    PROVE  BInv'
  <1> USE LineBufferAssumption DEF LineBufferAssumption, add_line
  <1> DEFINE b == Bytes(l, LineLen[l])
  <1>1. LineLen[l] \in Nat /\ LineLen[l] > 0
    OBVIOUS
  <1>2. b \in Seq(Texts) /\ Len(b) = LineLen[l]
    BY <1>1, BytesOfLine
  <1>3. wanted' = wanted \o b /\ wanted \in Seq(Texts)
    BY DEF BInv, BufferTypeOK
  <1> HIDE DEF b
  <1>4. wanted' \in Seq(Texts) /\ Len(wanted') = Len(wanted) + Len(b)
        /\ \A i \in 1 .. Len(wanted) : wanted'[i] = wanted[i]
    BY <1>2, <1>3
  <1>5. BufferTypeOK' /\ (Len(text) <= buffer_size)'
    BY <1>4 DEF BInv, BufferTypeOK
  <1>6. CASE ~superseded
    <2>1. line' = l /\ l # NoLine /\ text' = text /\ wanted = text
      BY <1>6 DEF BInv
    <2> QED
      BY <1>3, <1>5, <1>6, <2>1 DEF BInv, b
  <1>7. CASE superseded
    <2>1. line' = NoLine /\ text' = text /\ superseded'
      BY <1>7
    <2>2. Marked => Marked'
      BY <1>2, <1>4, <2>1 DEF Marked, BInv, BufferTypeOK
    <2> QED
      BY <1>5, <1>7, <2>1, <2>2 DEF BInv, ErrorText
  <1> QED
    BY <1>6, <1>7 DEF BInv, BufferTypeOK

\* A buffer that is full is doubled.
LEMMA DoubledSize ==
    ASSUME BufferTypeOK
    PROVE  Doubled \in Nat /\ Doubled = 2 * buffer_size /\ Doubled > LINE_LENGTH
  BY LineBufferAssumption DEF BufferTypeOK, Doubled, LineBufferAssumption

LEMMA GrowStep ==
    ASSUME BInv, Grow
    PROVE  BInv'
  <1>1. Doubled \in Nat /\ Doubled = 2 * buffer_size /\ Doubled > LINE_LENGTH
    BY DoubledSize DEF BInv
  <1>2. UNCHANGED <<text, superseded, line, wanted>>
    BY DEF Grow
  <1>3. buffer_size' = Doubled /\ allocated' = Doubled
    BY DEF Grow
  <1>4. BufferTypeOK'
    BY <1>1, <1>2, <1>3, LineBufferAssumption DEF BInv, BufferTypeOK, LineBufferAssumption
  <1>5. (Len(text) <= buffer_size)'
    BY <1>1, <1>2, <1>3 DEF BInv, BufferTypeOK
  <1> QED
    BY <1>2, <1>4, <1>5 DEF BInv, ErrorText, Marked

LEMMA GrowFailsStep ==
    ASSUME BInv, GrowFails
    PROVE  BInv'
  <1> DEFINE e == Bytes(NoCore, NoCoreLen)
  <1>1. Doubled \in Nat /\ Doubled = 2 * buffer_size /\ Doubled > LINE_LENGTH
    BY DoubledSize DEF BInv
  <1>2. NoCoreLen \in Nat /\ MessageLen \in Nat /\ MessageLen < NoCoreLen
        /\ NoCoreLen < LINE_LENGTH /\ LINE_LENGTH \in Nat
    BY LineBufferAssumption DEF LineBufferAssumption
  <1>3. e \in Seq(Texts \cup {Message, NoCore}) /\ Len(e) = NoCoreLen
        /\ \A i \in 1 .. NoCoreLen : e[i] = NoCore
    BY <1>2, BytesOfLine
  <1>4. text' = e \/ text' = Snipped(e)
    BY DEF GrowFails
  <1> HIDE DEF e
  <1>5. text' \in Seq(Texts \cup {Message, NoCore}) /\ Len(text') = NoCoreLen
    BY <1>3, <1>4, SnippedText
  <1>6. text'[1] = NoCore
    BY <1>2, <1>3, <1>4, SnippedText
  <1>7. superseded' /\ UNCHANGED <<line, wanted>>
    BY DEF GrowFails
  <1>8. buffer_size' = Doubled /\ allocated' = LINE_LENGTH
    BY DEF GrowFails
  <1>9. BufferTypeOK'
    BY <1>1, <1>2, <1>5, <1>7, <1>8 DEF BInv, BufferTypeOK
  <1> QED
    BY <1>1, <1>2, <1>5, <1>6, <1>7, <1>8, <1>9 DEF BInv, ErrorText

LEMMA AppendStep ==
    ASSUME BInv, Append_line
    PROVE  BInv'
  <1> DEFINE b == Bytes(line, LineLen[line])
             t == text \o b
             S == Texts \cup {Message, NoCore}
  <1>1. line \in Texts /\ LineLen[line] \in Nat /\ LineLen[line] > 0
    BY LineBufferAssumption DEF Append_line, BInv, BufferTypeOK, LineBufferAssumption
  <1>2. b \in Seq(S) /\ Len(b) = LineLen[line]
    BY <1>1, BytesOfLine
  <1>3. text \in Seq(S) /\ wanted \in Seq(Texts) /\ buffer_size \in Nat
    BY DEF BInv, BufferTypeOK
  <1>4. Len(text) + LineLen[line] <= buffer_size
    BY <1>1, <1>3 DEF Append_line, Full
  <1>5. text' = IF buffer_size > Limit THEN Snipped(t) ELSE t
    BY DEF Append_line
  <1>6. superseded' = (superseded \/ buffer_size > Limit)
    BY DEF Append_line
  <1>7. line' = NoLine /\ UNCHANGED <<buffer_size, allocated, wanted>>
    BY DEF Append_line
  <1>8. superseded \/ wanted = t
    BY DEF BInv, Append_line
  <1>b. superseded => ErrorText
    BY DEF BInv, Append_line
  <1> HIDE DEF b
  <1>9. t \in Seq(S) /\ Len(t) = Len(text) + LineLen[line]
        /\ \A i \in 1 .. Len(text) : t[i] = text[i]
    BY <1>2, <1>3
  <1> HIDE DEF t
  <1>10. text' \in Seq(S) /\ Len(text') = Len(t)
    BY <1>5, <1>9, SnippedText
  <1>c. superseded' \in BOOLEAN
    BY <1>6, <1>3, LineBufferAssumption DEF LineBufferAssumption
  <1>11. BufferTypeOK'
    BY <1>3, <1>7, <1>10, <1>c DEF BInv, BufferTypeOK
  <1>12. Len(text') <= buffer_size'
    BY <1>4, <1>7, <1>9, <1>10
  <1>13. text' # <<>>
    BY <1>1, <1>3, <1>9, <1>10
  <1>14. CASE superseded
    <2>1. MessageLen \in Nat
      BY LineBufferAssumption DEF LineBufferAssumption
    <2>2. Len(t) > MessageLen /\ t[1] = NoCore /\ Len(text) >= 1
      BY <1>1, <1>3, <1>9, <1>14, <1>b, <2>1 DEF ErrorText
    <2>3. text'[1] = NoCore
      BY <1>5, <1>9, <2>1, <2>2, SnippedText
    <2>4. ErrorText'
      BY <1>10, <2>2, <2>3 DEF ErrorText
    <2> QED
      BY <1>6, <1>11, <1>12, <1>13, <1>14, <2>4 DEF BInv
  <1>15. CASE ~superseded /\ buffer_size > Limit
    <2>1. wanted' = t /\ text' = Snipped(t)
      BY <1>5, <1>7, <1>8, <1>15
    <2>2. Marked'
      BY <1>9, <1>10, <2>1, SnippedText DEF Marked
    <2> QED
      BY <1>6, <1>7, <1>11, <1>12, <1>13, <1>15, <2>2 DEF BInv
  <1>16. CASE ~superseded /\ ~(buffer_size > Limit)
    <2>1. wanted' = t /\ text' = t /\ ~superseded'
      BY <1>5, <1>6, <1>7, <1>8, <1>16
    <2> QED
      BY <1>7, <1>11, <1>12, <2>1 DEF BInv
  <1> QED
    BY <1>14, <1>15, <1>16

LEMMA ClearStep ==
    ASSUME BInv, clear_buffer
    PROVE  BInv'
  <1>1. text' = <<>> /\ wanted' = <<>> /\ line' = NoLine /\ superseded' = FALSE
    BY DEF clear_buffer
  <1>2. UNCHANGED <<buffer_size, allocated>>
    BY DEF clear_buffer
  <1>a. superseded' \in BOOLEAN
    BY <1>1
  <1>b. text' \in Seq(Texts \cup {Message, NoCore}) /\ wanted' \in Seq(Texts)
    BY <1>1
  <1>3. BufferTypeOK'
    BY <1>1, <1>2, <1>a, <1>b DEF BInv, BufferTypeOK
  <1>4. Len(text') <= buffer_size'
    BY <1>1, <1>2 DEF BInv, BufferTypeOK
  <1>5. ~superseded' /\ wanted' = text'
    BY <1>1
  <1> QED
    BY <1>1, <1>3, <1>4, <1>5 DEF BInv

LEMMA BufferStep ==
    ASSUME BInv, [BufferNext]_bvars
    PROVE  BInv'
  <1>1. ASSUME NEW l \in Texts, add_line(l) PROVE BInv'
    BY <1>1, AddLineStep
  <1>2. CASE AddStep
    BY <1>2, GrowStep, GrowFailsStep, AppendStep DEF AddStep
  <1>3. CASE clear_buffer
    BY <1>3, ClearStep
  <1>4. CASE UNCHANGED bvars
    BY <1>4 DEF bvars, BInv, BufferTypeOK, ErrorText, Marked
  <1> QED
    BY <1>1, <1>2, <1>3, <1>4 DEF BufferNext

(***************************************************************************)
(* Whoever uses the buffer, and whatever realloc does: no more than its    *)
(* two zeros, and what a failed realloc leaves out of account, lies behind *)
(* the memory the text has; a text that is not marked is complete, and a   *)
(* marked one begins with what was added or with the error.                *)
(***************************************************************************)
THEOREM BufferIsSound == BufferSpec => [](BufferTypeOK /\ BufferSound)
  <1>1. BufferInit => BInv
    BY BufferBegins
  <1>2. BInv /\ [BufferNext]_bvars => BInv'
    BY BufferStep
  <1>3. BInv => BufferTypeOK /\ BufferSound
    BY BInvSuffices
  <1> QED
    BY <1>1, <1>2, <1>3, PTL DEF BufferSpec

-----------------------------------------------------------------------------
(* The buffer of the suvlet.                                               *)

\* What begins a call that runs a program leaves the buffer to its caller.
LEMMA SuvletUsesBuffer == [Next]_vars => [BufferNext]_bvars
  <1> SUFFICES ASSUME [Next]_vars, ~UNCHANGED bvars PROVE BufferNext
    OBVIOUS
  <1> USE DEF vars
  <1>1. Note \in Texts
    BY AuditAssumption DEF AuditAssumption
  <1>2. ASSUME Noted PROVE BufferNext
    BY <1>1, <1>2 DEF Noted, BufferNext
  <1>3. ASSUME NEW d \in Dirs, mk_working_dir(d) PROVE FALSE
    BY <1>3 DEF mk_working_dir
  <1>4. ASSUME NEW d \in Dirs, run_aide(d) PROVE BufferNext
    BY <1>4 DEF run_aide, BufferNext
  <1>5. CASE rmdir
    BY <1>5 DEF rmdir
  <1>6. CASE get_md5
    BY <1>6 DEF get_md5
  <1>7. CASE get_passwordless_or_db_diff
    BY <1>7 DEF get_passwordless_or_db_diff, BufferNext
  <1>8. CASE destroy
    BY <1>8 DEF destroy
  <1>9. CASE rmdir_wait
    BY <1>9 DEF rmdir_wait
  <1>10. CASE ReadLine
    BY <1>10 DEF ReadLine, BufferNext
  <1>11. CASE AddLine
    BY <1>11 DEF AddLine, BufferNext
  <1>12. CASE EndOfOutput
    BY <1>12 DEF EndOfOutput
  <1>13. CASE Waited
    BY <1>13 DEF Waited
  <1>14. CASE aide_init
    BY <1>2, <1>14 DEF aide_init
  <1>15. CASE aide_init_wait
    BY <1>2, <1>15 DEF aide_init_wait
  <1>16. CASE file_copy
    BY <1>2, <1>16 DEF file_copy
  <1>17. CASE NoteAdded
    BY <1>17 DEF NoteAdded
  <1>18. CASE OutOfCore
    BY <1>18 DEF OutOfCore
  <1>19. CASE exit_clean_up
    BY <1>19 DEF exit_clean_up
  <1>20. ASSUME NEW p \in Pids, Kid(p) PROVE FALSE
    BY <1>20 DEF Kid, Exec, ExecFails, Silent, Succeeds, Fails, SuvletSame
  <1> QED
    BY <1>3, <1>4, <1>5, <1>6, <1>7, <1>8, <1>9, <1>10, <1>11, <1>12, <1>13, <1>14,
       <1>15, <1>16, <1>17, <1>18, <1>19, <1>20 DEF Next, Call, InCall

(***************************************************************************)
(* The suvlet is one of the users LineBuffer speaks of, and so its answers *)
(* are complete, or marked as superseded.                                  *)
(***************************************************************************)
THEOREM AuditBufferIsSound == Spec => [](BufferTypeOK /\ BufferSound)
  <1>1. Init => BufferInit
    BY DEF Init
  <1>2. [Next]_vars => [BufferNext]_bvars
    BY SuvletUsesBuffer
  <1>3. Spec => BufferSpec
    BY <1>1, <1>2, PTL DEF Spec, BufferSpec
  <1> QED
    BY <1>3, BufferIsSound, PTL

-----------------------------------------------------------------------------
(* Children.                                                               *)

Jobs == {"audit", "rm", "init"}

Names == Dirs \cup {NoDir}

KidType == [Pids -> [state : States, does : {"nothing"} \cup Jobs, dir : Names]]

\* fork returns a pid that nobody has.
LEMMA FreePid ==
    ASSUME Free # {}
    PROVE  NewPid \in Pids /\ kid[NewPid] = Nobody
  <1>1. Free \in SUBSET Nat
    BY AuditAssumption DEF AuditAssumption, Free, Pids
  <1>2. \E p \in Free : \A q \in Free : <<q, p>> \notin OpToRel(<, Nat)
    BY <1>1, NatLessThanWellFounded, WFMin
  <1>3. ASSUME NEW p \in Free, NEW q \in Free, <<q, p>> \notin OpToRel(<, Nat)
        PROVE  p <= q
    BY <1>1, <1>3 DEF OpToRel
  <1>4. \E p \in Free : \A q \in Free : p <= q
    BY <1>2, <1>3
  <1>5. NewPid \in Free
    BY <1>4 DEF NewPid
  <1> QED
    BY <1>5 DEF Free

LEMMA ForkEffect ==
    ASSUME kid \in KidType, NEW does \in Jobs, NEW dir \in Names, Fork(does, dir)
    PROVE  /\ NewPid \in Pids /\ kid[NewPid] = Nobody
           /\ kid' \in KidType
           /\ kid'[NewPid] = [state |-> "forked", does |-> does, dir |-> dir]
           /\ \A q \in Pids \ {NewPid} : kid'[q] = kid[q]
  <1>1. NewPid \in Pids /\ kid[NewPid] = Nobody
    BY FreePid DEF Fork
  <1>2. kid' = [kid EXCEPT ![NewPid] = [state |-> "forked", does |-> does, dir |-> dir]]
    BY DEF Fork
  <1> QED
    BY <1>1, <1>2 DEF KidType, States

LEMMA WaitEffect ==
    ASSUME kid \in KidType, NEW p \in Pids, wait(p)
    PROVE  /\ kid[p].state \in Ended /\ kid'[p] = Nobody
           /\ kid' \in KidType
           /\ \A q \in Pids \ {p} : kid'[q] = kid[q]
  <1>1. kid[p].state \in Ended /\ kid' = [kid EXCEPT ![p] = Nobody]
    BY DEF wait
  <1>2. Nobody \in [state : States, does : {"nothing"} \cup Jobs, dir : Names]
    BY DEF Nobody, States, Names
  <1> QED
    BY <1>1, <1>2 DEF KidType

LEMMA BecomesEffect ==
    ASSUME kid \in KidType, NEW p \in Pids, NEW state \in States, Becomes(p, state)
    PROVE  /\ kid' \in KidType
           /\ kid'[p] = [state |-> state, does |-> kid[p].does, dir |-> kid[p].dir]
           /\ \A q \in Pids \ {p} : kid'[q] = kid[q]
  <1>1. kid' = [kid EXCEPT ![p].state = state]
    BY DEF Becomes
  <1>2. kid[p] \in [state : States, does : {"nothing"} \cup Jobs, dir : Names]
    BY DEF KidType
  <1> QED
    BY <1>1, <1>2 DEF KidType

-----------------------------------------------------------------------------
(* Types.                                                                  *)

Answers == {"none", "made", "not made", "removed", "not removed", "text", "noted",
            "error 1", "error 2", "error 3", "error 6", "error 7"}

SuvletType ==
    /\ pc \in Pcs /\ answer \in Answers
    /\ op \in {"none", "md5", "aide", "passwordless", "db_diff"}
    /\ own \in Pids \cup {0}
    /\ tmpDir \in Names
    /\ fds \in 0 .. MaxFds
    /\ early \in Nat

DiskType ==
    /\ dirs \subseteq Dirs /\ linked \subseteq dirs
    /\ newDb \in {"none", "part", "whole"} /\ aideDb \in {"part", "whole"}
    /\ mishaps \subseteq {"noexec", "killed", "copy"}

LEMMA TypeParts ==
    TypeOK <=> BufferTypeOK /\ kid \in KidType /\ SuvletType /\ DiskType
  <1>1. {"nothing"} \cup Jobs = {"nothing", "audit", "rm", "init"}
    BY DEF Jobs
  <1>2. kid \in KidType <=> kid \in [Pids -> [state : States,
            does : {"nothing", "audit", "rm", "init"}, dir : Dirs \cup {NoDir}]]
    BY <1>1 DEF KidType, Names
  <1> QED
    BY <1>2 DEF TypeOK, SuvletType, DiskType, Answers, Names

LEMMA TypeInit == Init => TypeOK
  <1> SUFFICES ASSUME Init PROVE TypeOK
    OBVIOUS
  <1>1. BufferTypeOK
    BY BufferBegins DEF Init, BInv
  <1>2. kid \in KidType
    BY DEF Init, KidType, Nobody, States, Names
  <1>3. SuvletType
    BY AuditAssumption DEF AuditAssumption, Init, SuvletType, Pcs, Answers, Names
  <1>4. DiskType
    BY DEF Init, DiskType
  <1> QED
    BY <1>1, <1>2, <1>3, <1>4, TypeParts

\* What there is of a step when the buffer is left out of account.
TypeRest == kid \in KidType /\ SuvletType /\ DiskType

LEMMA BeginType ==
    ASSUME TypeRest, pc = "idle", linked' \subseteq dirs, UNCHANGED aideDb,
           NEW o \in {"md5", "aide", "passwordless", "db_diff"}, Begin(o)
    PROVE  TypeRest'
  <1>1. UNCHANGED <<tmpDir, dirs, newDb, aideDb, mishaps>>
    BY DEF Begin
  <1>2. DiskType'
    BY <1>1 DEF TypeRest, DiskType
  <1>3. CASE Return("error 1") /\ UNCHANGED <<kid, fds, early>>
    BY <1>1, <1>2, <1>3 DEF TypeRest, SuvletType, Return, Pcs, Answers
  <1>4. CASE /\ fds + 2 <= MaxFds
             /\ Fork("audit", tmpDir)
             /\ fds' = fds + 1
             /\ \/ GoOn("read") /\ op' = o /\ own' = NewPid /\ UNCHANGED early
                \/ Return("error 2") /\ early' = early + 1
    <2>1. NewPid \in Pids /\ kid' \in KidType
      BY <1>4, ForkEffect DEF TypeRest, SuvletType, Jobs
    <2>2. fds' = fds + 1 /\ fds + 2 <= MaxFds /\ fds \in 0 .. MaxFds /\ MaxFds \in Nat
      BY <1>4, AuditAssumption DEF TypeRest, SuvletType, AuditAssumption
    <2>3. fds' \in 0 .. MaxFds
      BY <2>2
    <2>4. early' \in Nat
      <3>1. early \in Nat
        BY DEF TypeRest, SuvletType
      <3>2. early' = early \/ early' = early + 1
        BY <1>4
      <3> QED
        BY <3>1, <3>2
    <2>5. pc' \in Pcs /\ answer' \in Answers
      BY <1>4 DEF Return, GoOn, Pcs, Answers
    <2>6. own' \in Pids \cup {0} /\ op' \in {"none", "md5", "aide", "passwordless", "db_diff"}
      BY <1>4, <2>1 DEF Return, GoOn
    <2> QED
      BY <1>1, <1>2, <2>1, <2>3, <2>4, <2>5, <2>6 DEF TypeRest, SuvletType
  <1> QED
    BY <1>3, <1>4 DEF Begin

LEMMA CallType ==
    ASSUME TypeRest, Call
    PROVE  TypeRest'
  <1> USE DEF Pcs, Answers, Return, GoOn
  <1>1. ASSUME NEW d \in Dirs, mk_working_dir(d) PROVE TypeRest'
    BY <1>1 DEF mk_working_dir, TypeRest, SuvletType, DiskType, Names
  <1>2. ASSUME NEW d \in Dirs, run_aide(d) PROVE TypeRest'
    <2>1. CASE d \in dirs \ linked /\ linked' = linked \cup {d} /\ Begin("aide")
      BY <1>2, <2>1, BeginType DEF run_aide, Begin, TypeRest, DiskType
    <2>2. CASE d \notin dirs \ linked
      BY <1>2, <2>2 DEF run_aide, TypeRest, SuvletType, DiskType, disk
    <2> QED
      BY <1>2, <2>1, <2>2 DEF run_aide
  <1>3. CASE rmdir
    <2>1. kid' \in KidType
      BY <1>3, ForkEffect DEF rmdir, TypeRest, SuvletType, Jobs
    <2> QED
      BY <1>3, <2>1 DEF rmdir, TypeRest, SuvletType, DiskType, disk, Names
  <1>4. CASE get_md5
    BY <1>4, BeginType DEF get_md5, Begin, TypeRest, DiskType
  <1>5. CASE get_passwordless_or_db_diff
    <2>1. PICK o \in {"passwordless", "db_diff"} : Begin(o)
      BY <1>5 DEF get_passwordless_or_db_diff
    <2>2. pc = "idle" /\ linked' \subseteq dirs
      BY <1>5 DEF get_passwordless_or_db_diff, TypeRest, DiskType
    <2> QED
      BY <2>1, <2>2, BeginType DEF Begin
  <1>6. CASE destroy
    <2>1. kid' \in KidType
      BY <1>6, ForkEffect DEF destroy, TypeRest, SuvletType, Jobs
    <2> QED
      BY <1>6, <2>1 DEF destroy, exit, TypeRest, SuvletType, DiskType, disk, Names
  <1> QED
    BY <1>1, <1>2, <1>3, <1>4, <1>5, <1>6 DEF Call

LEMMA InCallType ==
    ASSUME TypeRest, InCall
    PROVE  TypeRest'
  <1> USE DEF Pcs, Answers, Return, GoOn, disk
  <1>1. CASE rmdir_wait
    <2>1. kid' \in KidType
      BY <1>1, WaitEffect DEF rmdir_wait, TypeRest
    <2> QED
      BY <1>1, <2>1 DEF rmdir_wait, TypeRest, SuvletType, DiskType, Names
  <1>2. CASE ReadLine
    BY <1>2 DEF ReadLine, TypeRest, SuvletType, DiskType
  <1>3. CASE AddLine
    BY <1>3 DEF AddLine, svars, TypeRest, SuvletType, DiskType
  <1>4. CASE EndOfOutput
    <2>1. early' \in Nat
      <3>1. early \in Nat
        BY DEF TypeRest, SuvletType
      <3>2. early' = early \/ early' = early + 1
        BY <1>4 DEF EndOfOutput
      <3> QED
        BY <3>1, <3>2
    <2>2. DiskType'
      BY <1>4 DEF EndOfOutput, TypeRest, DiskType
    <2>3. pc' \in Pcs /\ answer' \in Answers
      BY <1>4 DEF EndOfOutput
    <2>4. own' \in Pids \cup {0} /\ op' \in {"none", "md5", "aide", "passwordless", "db_diff"}
      BY <1>4 DEF EndOfOutput, TypeRest, SuvletType
    <2>5. UNCHANGED <<tmpDir, fds, kid>>
      BY <1>4 DEF EndOfOutput
    <2> QED
      BY <2>1, <2>2, <2>3, <2>4, <2>5 DEF TypeRest, SuvletType
  <1>5. CASE Waited
    <2>1. kid' \in KidType
      BY <1>5, WaitEffect DEF Waited, TypeRest
    <2>2. DiskType'
      BY <1>5 DEF Waited, TypeRest, DiskType
    <2>3. SuvletType'
      BY <1>5 DEF Waited, TypeRest, SuvletType
    <2> QED
      BY <2>1, <2>2, <2>3 DEF TypeRest
  <1>6. CASE aide_init
    <2>1. kid' \in KidType
      BY <1>6, ForkEffect DEF aide_init, TypeRest, SuvletType, Jobs
    <2> QED
      BY <1>6, <2>1 DEF aide_init, Noted, TypeRest, SuvletType, DiskType
  <1>7. CASE aide_init_wait
    <2>1. kid' \in KidType
      BY <1>7, WaitEffect DEF aide_init_wait, TypeRest
    <2> QED
      BY <1>7, <2>1 DEF aide_init_wait, Noted, TypeRest, SuvletType, DiskType
  <1>8. CASE file_copy
    BY <1>8 DEF file_copy, Noted, TypeRest, SuvletType, DiskType
  <1>9. CASE NoteAdded
    BY <1>9 DEF NoteAdded, TypeRest, SuvletType, DiskType
  <1>10. CASE OutOfCore
    <2>1. kid' \in KidType
      BY <1>10, ForkEffect DEF OutOfCore, Remove, TypeRest, SuvletType, Jobs
    <2>2. DiskType'
      BY <1>10 DEF OutOfCore, TypeRest, DiskType
    <2>3. early' \in Nat
      <3>1. early \in Nat
        BY DEF TypeRest, SuvletType
      <3>2. early' = early \/ early' = early + 1
        BY <1>10 DEF OutOfCore
      <3> QED
        BY <3>1, <3>2
    <2>4. pc' \in Pcs /\ answer' \in Answers
      BY <1>10 DEF OutOfCore, Remove, exit
    <2>5. UNCHANGED <<op, own, tmpDir, fds>>
      BY <1>10 DEF OutOfCore
    <2> QED
      BY <2>1, <2>2, <2>3, <2>4, <2>5 DEF TypeRest, SuvletType
  <1>11. CASE exit_clean_up
    <2>1. kid' \in KidType
      BY <1>11, ForkEffect, WaitEffect
         DEF exit_clean_up, Remove, TypeRest, SuvletType, Jobs, Names
    <2>2. DiskType'
      BY <1>11 DEF exit_clean_up, TypeRest, DiskType
    <2>3. SuvletType'
      BY <1>11 DEF exit_clean_up, Remove, exit, TypeRest, SuvletType
    <2> QED
      BY <2>1, <2>2, <2>3 DEF TypeRest
  <1> QED
    BY <1>1, <1>2, <1>3, <1>4, <1>5, <1>6, <1>7, <1>8, <1>9, <1>10, <1>11 DEF InCall

LEMMA KidTypeStep ==
    ASSUME TypeRest, NEW p \in Pids, Kid(p)
    PROVE  TypeRest'
  <1>1. kid \in KidType /\ SuvletType /\ DiskType
    BY DEF TypeRest
  <1>2. PICK state \in States : Becomes(p, state)
    BY DEF Kid, Exec, ExecFails, Silent, Succeeds, Fails, States, Ended
  <1>3. kid' \in KidType
    BY <1>1, <1>2, BecomesEffect
  <1>4. UNCHANGED svars /\ UNCHANGED early
    BY DEF Kid, Exec, ExecFails, Silent, Succeeds, Fails, SuvletSame
  <1>5. SuvletType'
    BY <1>1, <1>4 DEF SuvletType, svars
  <1>6. DiskType'
    BY <1>1 DEF DiskType, Kid, Exec, ExecFails, Silent, Succeeds, Fails, disk
  <1> QED
    BY <1>3, <1>5, <1>6 DEF TypeRest

LEMMA TypeStep ==
    ASSUME TypeOK, BufferTypeOK', [Next]_vars
    PROVE  TypeOK'
  <1>1. TypeRest
    BY TypeParts DEF TypeRest
  <1>2. ASSUME UNCHANGED vars PROVE TypeRest'
    BY <1>1, <1>2 DEF vars, svars, disk, TypeRest, SuvletType, DiskType
  <1>3. ASSUME Next PROVE TypeRest'
    BY <1>1, <1>3, CallType, InCallType, KidTypeStep DEF Next
  <1>4. TypeRest'
    BY <1>1, <1>2, <1>3
  <1> QED
    BY <1>4, TypeParts, PTL DEF TypeRest

\* The suvlet's variables keep their types.
THEOREM AuditTypeCorrect == Spec => []TypeOK
  <1>1. Init => TypeOK
    BY TypeInit
  <1>2. TypeOK /\ BufferTypeOK' /\ [Next]_vars => TypeOK'
    BY TypeStep
  <1> QED
    BY <1>1, <1>2, AuditBufferIsSound, PTL DEF Spec

-----------------------------------------------------------------------------
(* The number of children.                                                 *)

Kids == {p \in Pids : kid[p].state # "none"}

Owed == early + (IF pc \in Owing THEN 1 ELSE 0)

LEMMA KidsFinite ==
    IsFiniteSet(Kids) /\ Cardinality(Kids) \in Nat
  <1>1. IsFiniteSet(Pids)
    BY FS_Interval, AuditAssumption DEF Pids, AuditAssumption
  <1>2. IsFiniteSet(Kids)
    BY <1>1, FS_Subset DEF Kids
  <1> QED
    BY <1>2, FS_CardinalityType

LEMMA ForkCounts ==
    ASSUME kid \in KidType, NEW does \in Jobs, NEW dir \in Names, Fork(does, dir)
    PROVE  Cardinality(Kids') = Cardinality(Kids) + 1
  <1>a. /\ NewPid \in Pids /\ kid[NewPid] = Nobody
        /\ kid'[NewPid] = [state |-> "forked", does |-> does, dir |-> dir]
        /\ \A q \in Pids \ {NewPid} : kid'[q] = kid[q]
    BY ForkEffect
  <1>1. Kids' = Kids \cup {NewPid} /\ NewPid \notin Kids
    BY <1>a DEF Kids, Nobody
  <1> QED
    BY <1>1, KidsFinite, FS_AddElement

LEMMA WaitCounts ==
    ASSUME kid \in KidType, NEW p \in Pids, wait(p)
    PROVE  Cardinality(Kids') = Cardinality(Kids) - 1
  <1>1. Kids' = Kids \ {p} /\ p \in Kids
    BY WaitEffect DEF Kids, Nobody, Ended
  <1> QED
    BY <1>1, KidsFinite, FS_RemoveElement

\* A child that goes on is still there.
LEMMA KidStays ==
    ASSUME kid \in KidType, NEW p \in Pids, Kid(p)
    PROVE  Kids' = Kids /\ UNCHANGED <<pc, early>>
  <1>1. PICK state \in States \ {"none"} : Becomes(p, state)
    BY DEF Kid, Exec, ExecFails, Silent, Succeeds, Fails, States, Ended
  <1>2. kid[p].state # "none"
    BY DEF Kid, Exec, ExecFails, Silent, Succeeds, Fails
  <1>a. /\ kid'[p] = [state |-> state, does |-> kid[p].does, dir |-> kid[p].dir]
        /\ \A q \in Pids \ {p} : kid'[q] = kid[q]
    BY <1>1, BecomesEffect
  <1>3. Kids' = Kids
    BY <1>1, <1>2, <1>a DEF Kids
  <1> QED
    BY <1>3 DEF Kid, Exec, ExecFails, Silent, Succeeds, Fails, SuvletSame, svars

\* What a step does to the children and to what is owed.
Forked == \E does \in Jobs, dir \in Names : Fork(does, dir)

Taken == \E p \in Pids : wait(p)

Balanced ==
    \/ Forked /\ Owed' = Owed + 1
    \/ Taken /\ Owed' = Owed - 1
    \/ UNCHANGED kid /\ Owed' = Owed

LEMMA BalancedConserves ==
    ASSUME TypeRest, ChildrenConserved, Balanced
    PROVE  ChildrenConserved'
  <1>1. kid \in KidType /\ Cardinality(Kids) \in Nat
    BY KidsFinite DEF TypeRest
  <1>2. Cardinality(Kids) = Owed
    BY DEF ChildrenConserved, Kids, Owed
  <1>3. Cardinality(Kids') = Owed'
    <2>1. CASE Forked /\ Owed' = Owed + 1
      BY <1>1, <1>2, <2>1, ForkCounts DEF Forked
    <2>2. CASE Taken /\ Owed' = Owed - 1
      BY <1>1, <1>2, <2>2, WaitCounts DEF Taken
    <2>3. CASE UNCHANGED kid /\ Owed' = Owed
      BY <1>2, <2>3 DEF Kids
    <2> QED
      BY <2>1, <2>2, <2>3 DEF Balanced
  <1> QED
    BY <1>3 DEF ChildrenConserved, Kids, Owed

LEMMA BeginBalanced ==
    ASSUME TypeRest, pc = "idle", NEW o, Begin(o)
    PROVE  Balanced
  <1>1. early \in Nat /\ tmpDir \in Names /\ "audit" \in Jobs
    BY DEF TypeRest, SuvletType, Jobs
  <1>2. CASE Return("error 1") /\ UNCHANGED <<kid, fds, early>>
    BY <1>1, <1>2 DEF Balanced, Owed, Owing, Return
  <1>3. CASE /\ Fork("audit", tmpDir)
             /\ \/ GoOn("read") /\ UNCHANGED early
                \/ Return("error 2") /\ early' = early + 1
    <2>1. Forked
      BY <1>1, <1>3 DEF Forked
    <2>2. \/ pc' = "read" /\ early' = early
          \/ pc' = "idle" /\ early' = early + 1
      BY <1>3 DEF Return, GoOn
    <2>3. Owed' = Owed + 1
      BY <1>1, <2>2 DEF Owed, Owing
    <2> QED
      BY <2>1, <2>3 DEF Balanced
  <1> QED
    BY <1>2, <1>3 DEF Begin

LEMMA CallBalanced ==
    ASSUME TypeRest, Call
    PROVE  Balanced
  <1>1. early \in Nat /\ tmpDir \in Names /\ "rm" \in Jobs
    BY DEF TypeRest, SuvletType, Jobs
  <1>2. ASSUME NEW d \in Dirs, mk_working_dir(d) PROVE Balanced
    BY <1>1, <1>2 DEF mk_working_dir, Return, Balanced, Owed, Owing
  <1>3. ASSUME NEW d \in Dirs, run_aide(d) PROVE Balanced
    <2>1. CASE Begin("aide")
      BY <1>3, <2>1, BeginBalanced DEF run_aide
    <2>2. CASE d \notin dirs \ linked
      BY <1>1, <1>3, <2>2 DEF run_aide, Return, Balanced, Owed, Owing
    <2> QED
      BY <1>3, <2>1, <2>2 DEF run_aide
  <1>4. CASE rmdir
    <2>1. CASE Fork("rm", tmpDir) /\ GoOn("wait_rm")
      <3>1. Forked
        BY <1>1, <2>1 DEF Forked
      <3>2. pc = "idle" /\ pc' = "wait_rm" /\ UNCHANGED early
        BY <1>4, <2>1 DEF rmdir, GoOn
      <3> QED
        BY <1>1, <3>1, <3>2 DEF Balanced, Owed, Owing
    <2>2. CASE UNCHANGED kid /\ pc' = "idle"
      BY <1>1, <1>4, <2>2 DEF rmdir, Balanced, Owed, Owing
    <2> QED
      BY <1>4, <2>1, <2>2 DEF rmdir, Return
  <1>5. CASE get_md5
    BY <1>5, BeginBalanced DEF get_md5
  <1>6. CASE get_passwordless_or_db_diff
    BY <1>6, BeginBalanced DEF get_passwordless_or_db_diff
  <1>7. CASE destroy
    <2>1. CASE Fork("rm", tmpDir) /\ GoOn("wait_destroy")
      BY <1>1, <1>7, <2>1 DEF destroy, GoOn, Balanced, Forked, Owed, Owing
    <2>2. CASE UNCHANGED kid /\ pc' \in {"ended", "destroyed"}
      BY <1>1, <1>7, <2>2 DEF destroy, Balanced, Owed, Owing
    <2> QED
      BY <1>7, <2>1, <2>2 DEF destroy, exit, GoOn
  <1> QED
    BY <1>2, <1>3, <1>4, <1>5, <1>6, <1>7 DEF Call

LEMMA InCallBalanced ==
    ASSUME TypeRest, InCall
    PROVE  Balanced
  <1>1. early \in Nat /\ tmpDir \in Names /\ NoDir \in Names /\ Jobs = {"audit", "rm", "init"}
    BY DEF TypeRest, SuvletType, Jobs, Names
  <1> USE DEF Return, GoOn, Balanced, Owed, Owing
  <1>2. CASE rmdir_wait
    <2>1. Taken /\ UNCHANGED early /\ pc = "wait_rm" /\ pc' = "idle"
      BY <1>2 DEF rmdir_wait, Taken
    <2> QED
      BY <1>1, <2>1
  <1>3. CASE ReadLine
    BY <1>1, <1>3 DEF ReadLine
  <1>4. CASE AddLine
    BY <1>1, <1>4 DEF AddLine, svars
  <1>5. CASE EndOfOutput
    <2>1. \/ pc' = "idle" /\ early' = early + 1
          \/ pc' = "wait" /\ early' = early
      BY <1>5 DEF EndOfOutput
    <2>2. pc = "read" /\ UNCHANGED kid
      BY <1>5 DEF EndOfOutput
    <2> QED
      BY <1>1, <2>1, <2>2
  <1>6. CASE Waited
    <2>1. Taken /\ UNCHANGED early
      BY <1>6 DEF Waited, Taken
    <2>2. pc = "wait" /\ pc' \in {"idle", "init"}
      BY <1>6 DEF Waited
    <2> QED
      BY <1>1, <2>1, <2>2
  <1>7. CASE aide_init
    <2>1. CASE Fork("init", tmpDir) /\ pc' = "wait_init"
      BY <1>1, <1>7, <2>1 DEF aide_init, Forked
    <2>2. CASE UNCHANGED kid /\ pc' = "note"
      BY <1>1, <1>7, <2>2 DEF aide_init
    <2> QED
      BY <1>7, <2>1, <2>2 DEF aide_init, Noted
  <1>8. CASE aide_init_wait
    <2>1. Taken /\ UNCHANGED early
      BY <1>8 DEF aide_init_wait, Taken
    <2>2. pc = "wait_init" /\ pc' \in {"copy", "note"}
      BY <1>8 DEF aide_init_wait, Noted
    <2> QED
      BY <1>1, <2>1, <2>2
  <1>9. CASE file_copy
    BY <1>1, <1>9 DEF file_copy, Noted
  <1>10. CASE NoteAdded
    BY <1>1, <1>10 DEF NoteAdded
  <1>11. CASE OutOfCore
    <2>1. (pc = "read" /\ early' = early + 1) \/ (pc = "note" /\ early' = early)
      BY <1>11 DEF OutOfCore
    <2>2. CASE UNCHANGED kid /\ pc' = "ended"
      BY <1>1, <2>1, <2>2
    <2>3. CASE Fork("rm", tmpDir) /\ pc' = "wait_exit"
      BY <1>1, <2>1, <2>3 DEF Forked
    <2> QED
      BY <1>11, <2>2, <2>3 DEF OutOfCore, Remove, exit
  <1>12. CASE exit_clean_up
    <2>1. UNCHANGED early
      BY <1>12 DEF exit_clean_up
    <2>2. CASE pc = "destroyed" /\ Fork("rm", NoDir) /\ pc' = "wait_exit"
      BY <1>1, <2>1, <2>2 DEF Forked
    <2>3. CASE pc = "destroyed" /\ UNCHANGED kid /\ pc' = "ended"
      BY <1>1, <2>1, <2>3
    <2>4. CASE pc \in {"wait_destroy", "wait_exit"} /\ Taken /\ pc' \in {"destroyed", "ended"}
      BY <1>1, <2>1, <2>4
    <2> QED
      BY <1>12, <2>2, <2>3, <2>4 DEF exit_clean_up, Remove, exit, Taken
  <1> QED
    BY <1>2, <1>3, <1>4, <1>5, <1>6, <1>7, <1>8, <1>9, <1>10, <1>11, <1>12 DEF InCall

LEMMA ConservedStep ==
    ASSUME TypeOK, ChildrenConserved, [Next]_vars
    PROVE  ChildrenConserved'
  <1>1. TypeRest
    BY TypeParts DEF TypeRest
  <1>2. ASSUME NEW p \in Pids, Kid(p) PROVE ChildrenConserved'
    <2>1. Kids' = Kids /\ UNCHANGED <<pc, early>>
      BY <1>1, <1>2, KidStays DEF TypeRest
    <2> QED
      BY <2>1 DEF ChildrenConserved, Kids
  <1>3. CASE Call \/ InCall
    BY <1>1, <1>3, CallBalanced, InCallBalanced, BalancedConserves
  <1>4. CASE UNCHANGED vars
    BY <1>4 DEF vars, svars, ChildrenConserved
  <1> QED
    BY <1>2, <1>3, <1>4 DEF Next

LEMMA ConservedInit == Init => ChildrenConserved
  <1> SUFFICES ASSUME Init PROVE ChildrenConserved
    OBVIOUS
  <1>1. Kids = {}
    BY DEF Init, Kids, Nobody
  <1>2. Owed = 0
    BY DEF Init, Owed, Owing
  <1> QED
    BY <1>1, <1>2, FS_EmptySet DEF ChildrenConserved, Kids, Owed

(***************************************************************************)
(* A child nobody waited for is never made good: there are as many of them *)
(* as calls that returned early, whatever children the waits took since.   *)
(***************************************************************************)
THEOREM ChildrenAreConserved == Spec => []ChildrenConserved
  <1>1. TypeOK /\ ChildrenConserved /\ [Next]_vars => ChildrenConserved'
    BY ConservedStep
  <1> QED
    BY <1>1, ConservedInit, AuditTypeCorrect, PTL DEF Spec

-----------------------------------------------------------------------------
(* As long as no call has returned early, a wait takes the right child.    *)

LEMMA Alone ==
    ASSUME TypeOK, ChildrenConserved, early = 0
    PROVE  /\ pc \notin Owing => \A p \in Pids : kid[p].state = "none"
           /\ \A p, q \in Pids : kid[p].state # "none" /\ kid[q].state # "none" => p = q
  <1>1. IsFiniteSet(Kids) /\ Cardinality(Kids) = Owed
    BY KidsFinite DEF ChildrenConserved, Kids, Owed
  <1>2. CASE pc \notin Owing
    <2>1. Kids = {}
      BY <1>1, <1>2, FS_EmptySet DEF Owed
    <2> QED
      BY <1>2, <2>1 DEF Kids
  <1>3. CASE pc \in Owing
    <2>a. Cardinality(Kids) = 1
      BY <1>1, <1>3 DEF Owed
    <2>1. \E p : Kids = {p}
      BY <1>1, <2>a, FS_Singleton
    <2> QED
      BY <1>3, <2>1 DEF Kids
  <1> QED
    BY <1>2, <1>3

\* Which steps lead to the places where a child is waited for.
LEMMA PcSteps ==
    ASSUME TypeRest, Call \/ InCall
    PROVE  /\ pc' = "wait_rm" => rmdir
           /\ pc' = "wait_init" => aide_init
           /\ pc' = "copy" => aide_init_wait
           /\ pc' \in {"read", "wait"} =>
                \/ pc = "read" /\ UNCHANGED <<kid, own>>
                \/ Fork("audit", tmpDir) /\ own' = NewPid
           /\ aideDb' # aideDb => file_copy
           /\ ~file_copy => UNCHANGED mishaps
  <1> USE DEF Return, GoOn
  <1>1. ASSUME NEW o, Begin(o), pc = "idle"
        PROVE  /\ pc' \in {"idle", "read"} /\ UNCHANGED <<aideDb, mishaps>>
               /\ pc' = "read" => Fork("audit", tmpDir) /\ own' = NewPid
    BY <1>1 DEF Begin
  <1>2. ASSUME NEW d \in Dirs, mk_working_dir(d)
        PROVE  pc' = "idle" /\ UNCHANGED <<aideDb, mishaps>>
    BY <1>2 DEF mk_working_dir
  <1>3. ASSUME NEW d \in Dirs, run_aide(d)
        PROVE  /\ pc' \in {"idle", "read"} /\ UNCHANGED <<aideDb, mishaps>>
               /\ pc' = "read" => Fork("audit", tmpDir) /\ own' = NewPid
    BY <1>1, <1>3 DEF run_aide, disk
  <1>4. CASE rmdir
    BY <1>4 DEF rmdir, disk
  <1>5. CASE get_md5
    BY <1>1, <1>5 DEF get_md5
  <1>6. CASE get_passwordless_or_db_diff
    BY <1>1, <1>6 DEF get_passwordless_or_db_diff
  <1>7. CASE destroy
    BY <1>7 DEF destroy, exit, disk
  <1>8. CASE rmdir_wait
    BY <1>8 DEF rmdir_wait, disk
  <1>9. CASE ReadLine
    BY <1>9 DEF ReadLine, disk
  <1>10. CASE AddLine
    BY <1>10 DEF AddLine, svars, disk
  <1>11. CASE EndOfOutput
    BY <1>11 DEF EndOfOutput, disk
  <1>12. CASE Waited
    BY <1>12 DEF Waited, disk
  <1>13. CASE aide_init
    BY <1>13 DEF aide_init, Noted, disk
  <1>14. CASE aide_init_wait
    BY <1>14 DEF aide_init_wait, Noted, disk
  <1>15. CASE file_copy
    BY <1>15 DEF file_copy, Noted
  <1>16. CASE NoteAdded
    BY <1>16 DEF NoteAdded, disk
  <1>17. CASE OutOfCore
    BY <1>17 DEF OutOfCore, Remove, exit, disk
  <1>18. CASE exit_clean_up
    BY <1>18 DEF exit_clean_up, Remove, exit, disk
  <1> QED
    BY <1>2, <1>3, <1>4, <1>5, <1>6, <1>7, <1>8, <1>9, <1>10, <1>11, <1>12, <1>13,
       <1>14, <1>15, <1>16, <1>17, <1>18 DEF Call, InCall

\* Nothing outside is undone: a call that returned early, a child that was
\* killed, and a copy that broke off are remembered.
LEMMA FaultsStay ==
    ASSUME TypeOK, [Next]_vars
    PROVE  mishaps \subseteq mishaps' /\ (early' = 0 => early = 0)
  <1>1. TypeRest /\ early \in Nat
    BY TypeParts DEF TypeRest, SuvletType
  <1>2. CASE UNCHANGED vars
    BY <1>2 DEF vars
  <1>3. ASSUME NEW p \in Pids, Kid(p) PROVE mishaps \subseteq mishaps' /\ UNCHANGED early
    BY <1>3 DEF Kid, Exec, ExecFails, Silent, Succeeds, Fails, SuvletSame
  <1>4. ASSUME Call \/ InCall PROVE mishaps \subseteq mishaps'
    <2>1. CASE file_copy
      BY <2>1 DEF file_copy
    <2>2. CASE ~file_copy
      BY <1>1, <1>4, <2>2, PcSteps
    <2> QED
      BY <2>1, <2>2
  <1>5. ASSUME Call \/ InCall PROVE early' = early \/ early' = early + 1
    <2>1. ASSUME NEW o, Begin(o) PROVE early' = early \/ early' = early + 1
      BY <2>1 DEF Begin
    <2>2. ASSUME NEW d \in Dirs, mk_working_dir(d) \/ run_aide(d)
          PROVE  early' = early \/ early' = early + 1
      BY <2>1, <2>2 DEF mk_working_dir, run_aide
    <2>3. CASE rmdir \/ get_md5 \/ get_passwordless_or_db_diff \/ destroy
      BY <2>1, <2>3 DEF rmdir, get_md5, get_passwordless_or_db_diff, destroy
    <2>4. CASE EndOfOutput \/ OutOfCore
      BY <2>4 DEF EndOfOutput, OutOfCore
    <2>5. CASE \/ rmdir_wait \/ ReadLine \/ AddLine \/ Waited \/ aide_init
               \/ aide_init_wait \/ file_copy \/ NoteAdded \/ exit_clean_up
      BY <2>5 DEF rmdir_wait, ReadLine, AddLine, Waited, aide_init, aide_init_wait,
                  file_copy, NoteAdded, exit_clean_up
    <2> QED
      BY <1>5, <2>2, <2>3, <2>4, <2>5 DEF Call, InCall
  <1> QED
    BY <1>1, <1>2, <1>3, <1>4, <1>5 DEF Next

(***************************************************************************)
(* What is known then of the child that is waited for.                     *)
(***************************************************************************)

\* While rmdir waits, the child is rm, and has done its work when it is "ok".
RmdirWaits ==
    pc = "wait_rm" =>
        \A p \in Pids : kid[p].state # "none" =>
            /\ kid[p].does = "rm" /\ kid[p].dir = tmpDir
            /\ kid[p].state = "ok" => tmpDir \notin dirs

\* While output is read, and until the wait after it, its program is there.
OwnIsThere == pc \in {"read", "wait"} => own \in Pids /\ kid[own].state # "none"

\* While run_aide waits for aide --init, that is the child.
InitWaits ==
    /\ pc = "wait_init" =>
        \A p \in Pids : kid[p].state # "none" =>
            /\ kid[p].does = "init"
            /\ kid[p].state = "ok" => newDb = "whole"
    /\ pc = "copy" => newDb = "whole"

NoneKilled == \A p \in Pids : kid[p].state # "killed"

RightChild ==
    early = 0 /\ "killed" \notin mishaps =>
        NoneKilled /\ RmdirWaits /\ OwnIsThere /\ InitWaits

LEMMA RightChildInit == Init => RightChild /\ AideDbWhole
  BY DEF Init, RightChild, NoneKilled, RmdirWaits, OwnIsThere, InitWaits, Nobody, AideDbWhole

\* A child that was forked where there was none is alone.
LEMMA OnlyForked ==
    ASSUME TypeRest, NEW does \in Jobs, NEW dir \in Names, Fork(does, dir),
           \A p \in Pids : kid[p].state = "none"
    PROVE  \A p \in Pids : kid'[p].state # "none" =>
                kid'[p] = [state |-> "forked", does |-> does, dir |-> dir]
  <1>1. /\ kid'[NewPid] = [state |-> "forked", does |-> does, dir |-> dir]
        /\ \A q \in Pids \ {NewPid} : kid'[q] = kid[q]
    BY ForkEffect DEF TypeRest
  <1> QED
    BY <1>1

LEMMA RightChildOfCall ==
    ASSUME TypeOK, ChildrenConserved, RightChild, Call \/ InCall,
           early = 0, "killed" \notin mishaps
    PROVE  (NoneKilled /\ RmdirWaits /\ OwnIsThere /\ InitWaits)'
  <1>1. TypeRest /\ kid \in KidType /\ tmpDir \in Names /\ Jobs = {"audit", "rm", "init"}
    BY TypeParts DEF TypeRest, SuvletType, Jobs
  <1>2. NoneKilled /\ RmdirWaits /\ OwnIsThere /\ InitWaits
    BY DEF RightChild
  <1>3. NoneKilled'
    <2>1. CASE Forked
      <3>1. PICK does \in Jobs, dir \in Names : Fork(does, dir)
        BY <2>1 DEF Forked
      <3>2. /\ kid'[NewPid] = [state |-> "forked", does |-> does, dir |-> dir]
            /\ \A q \in Pids \ {NewPid} : kid'[q] = kid[q]
        BY <1>1, <3>1, ForkEffect
      <3> QED
        BY <1>2, <3>2 DEF NoneKilled
    <2>2. CASE Taken
      <3>1. PICK p \in Pids : wait(p)
        BY <2>2 DEF Taken
      <3>2. kid'[p] = Nobody /\ \A q \in Pids \ {p} : kid'[q] = kid[q]
        BY <1>1, <3>1, WaitEffect
      <3> QED
        BY <1>2, <3>2 DEF NoneKilled, Nobody
    <2>3. CASE UNCHANGED kid
      BY <1>2, <2>3 DEF NoneKilled
    <2> QED
      BY <1>1, <2>1, <2>2, <2>3, CallBalanced, InCallBalanced DEF Balanced
  <1>4. RmdirWaits'
    <2> SUFFICES ASSUME pc' = "wait_rm" PROVE RmdirWaits!2'
      BY DEF RmdirWaits
    <2>1. rmdir
      BY <1>1, PcSteps
    <2>2. Fork("rm", tmpDir) /\ pc = "idle" /\ UNCHANGED tmpDir
      BY <2>1 DEF rmdir, Return
    <2>3. \A p \in Pids : kid'[p].state # "none" =>
             kid'[p] = [state |-> "forked", does |-> "rm", dir |-> tmpDir]
      BY <1>1, <2>2, Alone, OnlyForked DEF Owing
    <2> QED
      BY <2>2, <2>3
  <1>5. OwnIsThere'
    <2> SUFFICES ASSUME pc' \in {"read", "wait"}
                 PROVE  own' \in Pids /\ kid'[own'].state # "none"
      BY DEF OwnIsThere
    <2>1. CASE pc = "read" /\ UNCHANGED <<kid, own>>
      BY <1>2, <2>1 DEF OwnIsThere
    <2>2. CASE Fork("audit", tmpDir) /\ own' = NewPid
      <3>1. NewPid \in Pids
            /\ kid'[NewPid] = [state |-> "forked", does |-> "audit", dir |-> tmpDir]
        BY <1>1, <2>2, ForkEffect
      <3> QED
        BY <2>2, <3>1
    <2> QED
      BY <1>1, <2>1, <2>2, PcSteps
  <1>6. ASSUME pc' = "wait_init"
        PROVE  \A p \in Pids : kid'[p].state # "none" =>
                 kid'[p] = [state |-> "forked", does |-> "init", dir |-> tmpDir]
    <2>1. aide_init
      BY <1>1, <1>6, PcSteps
    <2>2. Fork("init", tmpDir) /\ pc = "init"
      BY <1>6, <2>1 DEF aide_init, Noted, GoOn
    <2> QED
      BY <1>1, <2>2, Alone, OnlyForked DEF Owing
  <1>7. ASSUME pc' = "copy" PROVE newDb' = "whole"
    <2>1. aide_init_wait
      BY <1>1, <1>7, PcSteps
    <2>2. PICK p \in Pids : wait(p) /\ ZeroStatus(p)
      BY <1>7, <2>1 DEF aide_init_wait, Noted, GoOn
    <2>3. pc = "wait_init" /\ UNCHANGED newDb
      BY <2>1 DEF aide_init_wait, disk
    <2>4. kid[p].state = "ok"
      BY <1>2, <2>2 DEF NoneKilled, ZeroStatus
    <2> QED
      BY <1>2, <2>3, <2>4 DEF InitWaits
  <1>8. InitWaits'
    BY <1>6, <1>7 DEF InitWaits
  <1> QED
    BY <1>3, <1>4, <1>5, <1>8

LEMMA RightChildOfKid ==
    ASSUME TypeOK, ChildrenConserved, RightChild, NEW p \in Pids, Kid(p),
           early = 0, "killed" \notin mishaps'
    PROVE  (NoneKilled /\ RmdirWaits /\ OwnIsThere /\ InitWaits)'
  <1>1. kid \in KidType
    BY TypeParts
  <1>2. kid[p].state \notin {"none", "ok"} /\ UNCHANGED svars
    BY DEF Kid, Exec, ExecFails, Silent, Succeeds, Fails, SuvletSame
  <1>3. pc \in Owing /\ \A q \in Pids : kid[q].state # "none" => q = p
    BY <1>2, Alone
  <1>4. PICK state \in States \ {"none", "killed"} : Becomes(p, state)
    BY DEF Kid, Exec, ExecFails, Silent, Succeeds, Fails, States, Ended
  <1>5. /\ kid'[p] = [state |-> state, does |-> kid[p].does, dir |-> kid[p].dir]
        /\ \A q \in Pids \ {p} : kid'[q] = kid[q]
    BY <1>1, <1>4, BecomesEffect
  <1>6. \A q \in Pids : kid'[q].state # "none" => q = p
    BY <1>3, <1>5
  <1>7. NoneKilled /\ RmdirWaits /\ OwnIsThere /\ InitWaits
    BY FaultsStay DEF RightChild, Next
  <1>8. NoneKilled' /\ OwnIsThere'
    BY <1>2, <1>5, <1>7 DEF NoneKilled, OwnIsThere, svars
  <1>9. state = "ok" => Succeeds(p)
    BY <1>1, <1>5 DEF Kid, Exec, ExecFails, Silent, Fails, Becomes, KidType
  <1>10. RmdirWaits'
    <2>1. state = "ok" /\ kid[p].does = "rm" => kid[p].dir \notin dirs'
      BY <1>9 DEF Succeeds
    <2> QED
      BY <1>2, <1>5, <1>6, <1>7, <2>1 DEF RmdirWaits, svars
  <1>11. InitWaits'
    <2>1. state = "ok" /\ kid[p].does = "init" => newDb' = "whole"
      BY <1>9 DEF Succeeds
    <2>2. pc' # "copy"
      BY <1>2, <1>3 DEF Owing, svars
    <2> QED
      BY <1>2, <1>5, <1>6, <1>7, <2>1, <2>2 DEF InitWaits, svars
  <1> QED
    BY <1>8, <1>10, <1>11

LEMMA RightChildStep ==
    ASSUME TypeOK, ChildrenConserved, RightChild, [Next]_vars
    PROVE  RightChild'
  <1> SUFFICES ASSUME early' = 0, "killed" \notin mishaps'
               PROVE  (NoneKilled /\ RmdirWaits /\ OwnIsThere /\ InitWaits)'
    BY DEF RightChild
  <1>1. early = 0 /\ "killed" \notin mishaps
    BY FaultsStay
  <1>2. CASE UNCHANGED vars
    BY <1>1, <1>2 DEF vars, svars, disk, RightChild, NoneKilled, RmdirWaits, OwnIsThere, InitWaits
  <1> QED
    BY <1>1, <1>2, RightChildOfCall, RightChildOfKid DEF Next

LEMMA AideDbStep ==
    ASSUME TypeOK, RightChild, AideDbWhole, [Next]_vars
    PROVE  AideDbWhole'
  <1> SUFFICES ASSUME early' = 0, mishaps' \cap {"killed", "copy"} = {}
               PROVE  aideDb' = "whole"
    BY DEF AideDbWhole
  <1>1. early = 0 /\ "killed" \notin mishaps /\ aideDb = "whole"
    BY FaultsStay DEF AideDbWhole
  <1>2. CASE file_copy
    <2>1. newDb = "whole"
      BY <1>1, <1>2 DEF file_copy, RightChild, InitWaits
    <2> QED
      BY <1>1, <1>2, <2>1 DEF file_copy
  <1>3. ASSUME Call \/ InCall, ~file_copy PROVE aideDb' = aideDb
    BY <1>3, PcSteps, TypeParts DEF TypeRest
  <1>4. ASSUME NEW p \in Pids, Kid(p) PROVE aideDb' = aideDb
    BY <1>4 DEF Kid, Exec, ExecFails, Silent, Succeeds, Fails, disk
  <1>5. CASE UNCHANGED vars
    BY <1>1, <1>5 DEF vars, disk
  <1> QED
    BY <1>1, <1>2, <1>3, <1>4, <1>5 DEF Next

LEMMA RightChildAlways == Spec => []RightChild
  <1>1. Init => RightChild
    BY RightChildInit
  <1>2. TypeOK /\ ChildrenConserved /\ RightChild /\ [Next]_vars => RightChild'
    BY RightChildStep
  <1> QED
    BY <1>1, <1>2, AuditTypeCorrect, ChildrenAreConserved, PTL DEF Spec

(***************************************************************************)
(* The database of aide is replaced by a whole one only.                   *)
(***************************************************************************)
THEOREM AideDbStaysWhole == Spec => []AideDbWhole
  <1>1. Init => AideDbWhole
    BY RightChildInit
  <1>2. TypeOK /\ RightChild /\ AideDbWhole /\ [Next]_vars => AideDbWhole'
    BY AideDbStep
  <1> QED
    BY <1>1, <1>2, AuditTypeCorrect, RightChildAlways, PTL DEF Spec

-----------------------------------------------------------------------------
(* What the waits tell the caller.                                         *)

\* The only place that answers "removed" after a wait, and the only one that
\* answers with the text of a program that was waited for.
LEMMA AnswerSteps ==
    ASSUME Next
    PROVE  /\ pc = "wait_rm" /\ pc' = "idle" => rmdir_wait
           /\ pc = "wait" /\ pc' = "idle" => Waited
  <1>1. ASSUME Call PROVE pc = "idle"
    BY <1>1 DEF Call, mk_working_dir, run_aide, rmdir, get_md5,
                get_passwordless_or_db_diff, destroy
  <1>2. ASSUME InCall, ~rmdir_wait, ~Waited PROVE pc \notin {"wait_rm", "wait"}
    BY <1>2 DEF InCall, ReadLine, AddLine, EndOfOutput, aide_init, aide_init_wait,
                file_copy, NoteAdded, OutOfCore, exit_clean_up
  <1>3. ASSUME NEW p \in Pids, Kid(p) PROVE UNCHANGED pc
    BY <1>3 DEF Kid, Exec, ExecFails, Silent, Succeeds, Fails, SuvletSame, svars
  <1>4. (rmdir_wait => pc = "wait_rm") /\ (Waited => pc = "wait")
    BY DEF rmdir_wait, Waited
  <1> QED
    BY <1>1, <1>2, <1>3, <1>4 DEF Next

(***************************************************************************)
(* While no call has returned early and no child was killed, "removed" and *)
(* the answers of get_passwordless and db_diff are true.                   *)
(***************************************************************************)
THEOREM AnswersAreTrue == Spec => AnswersTrue
  <1> DEFINE A ==
        early = 0 /\ "killed" \notin mishaps =>
          /\ pc = "wait_rm" /\ pc' = "idle" /\ answer' = "removed" => tmpDir \notin dirs'
          /\ /\ pc = "wait" /\ op \in {"passwordless", "db_diff"}
             /\ pc' = "idle" /\ answer' = "text"
             => kid[own].state = "ok"
  <1>1. ASSUME TypeOK, ChildrenConserved, RightChild, Next PROVE A
    <2> SUFFICES ASSUME early = 0, "killed" \notin mishaps PROVE A!2
      OBVIOUS
    <2>1. NoneKilled /\ RmdirWaits /\ OwnIsThere
      BY <1>1 DEF RightChild
    <2>2. ASSUME pc = "wait_rm", pc' = "idle", answer' = "removed"
          PROVE  tmpDir \notin dirs'
      <3>1. rmdir_wait
        BY <1>1, <2>2, AnswerSteps
      <3>2. PICK p \in Pids : wait(p) /\ ZeroStatus(p)
        BY <2>2, <3>1 DEF rmdir_wait, Return
      <3>3. kid[p].state = "ok"
        BY <2>1, <3>2 DEF NoneKilled, ZeroStatus
      <3> QED
        BY <2>1, <2>2, <3>1, <3>3 DEF rmdir_wait, disk, RmdirWaits
    <2>3. ASSUME pc = "wait", op \in {"passwordless", "db_diff"},
                 pc' = "idle", answer' = "text"
          PROVE  kid[own].state = "ok"
      <3>1. Waited
        BY <1>1, <2>3, AnswerSteps
      <3>2. PICK p \in Pids : wait(p) /\ ZeroStatus(p)
        BY <2>3, <3>1 DEF Waited, Return
      <3>3. kid[p].state = "ok"
        BY <2>1, <3>2 DEF NoneKilled, ZeroStatus
      <3>4. p = own
        BY <1>1, <2>1, <2>3, <3>3, Alone DEF OwnIsThere
      <3> QED
        BY <3>3, <3>4
    <2> QED
      BY <2>2, <2>3
  <1>2. TypeOK /\ ChildrenConserved /\ RightChild /\ [Next]_vars => [A]_vars
    BY <1>1
  <1>3. Spec => [][A]_vars
    BY <1>2, AuditTypeCorrect, ChildrenAreConserved, RightChildAlways, PTL DEF Spec
  <1> QED
    BY <1>3 DEF AnswersTrue

-----------------------------------------------------------------------------
(* The working directory.                                                  *)

\* Where the suvlet removes the directory for the last time.
Ending == {"wait_destroy", "destroyed", "wait_exit", "ended"}

Removing(p) == kid[p].does = "rm" /\ kid[p].state \in {"forked", "runs", "silent"}

\* Children that still remove a directory, which a wait may have left behind,
\* remove each another one, and none the suvlet still uses.
RemovalsApart ==
    pc \notin Ending /\ "noexec" \notin mishaps =>
        /\ tmpDir # NoDir /\ pc # "wait_rm" => tmpDir \in dirs
        /\ \A p \in Pids : Removing(p) =>
              kid[p].dir \in dirs /\ (kid[p].dir = tmpDir => pc = "wait_rm")
        /\ \A p, q \in Pids : Removing(p) /\ Removing(q) /\ p # q =>
              kid[p].dir # kid[q].dir

LEMMA RemovalsInit == Init => RemovalsApart
  BY DEF Init, RemovalsApart, Removing, Nobody

\* No step but these touches a directory or its name.
LEMMA DirSteps ==
    ASSUME TypeRest, Call \/ InCall
    PROVE  \/ \E d \in Dirs : mk_working_dir(d)
           \/ rmdir
           \/ rmdir_wait
           \/ /\ UNCHANGED <<tmpDir, dirs>>
              /\ pc' \notin Ending => pc # "wait_rm" /\ pc' # "wait_rm" /\ pc \notin Ending
              /\ pc' \notin Ending =>
                    \/ Fork("audit", tmpDir) \/ Fork("init", tmpDir)
                    \/ Taken \/ UNCHANGED kid
  <1> USE DEF Return, GoOn, Ending
  <1>1. ASSUME NEW o, Begin(o)
        PROVE  /\ UNCHANGED <<tmpDir, dirs>> /\ pc' \in {"idle", "read"}
               /\ UNCHANGED kid \/ Fork("audit", tmpDir)
    BY <1>1 DEF Begin
  <1>2. ASSUME NEW d \in Dirs, run_aide(d)
        PROVE  /\ UNCHANGED <<tmpDir, dirs>> /\ pc = "idle" /\ pc' \in {"idle", "read"}
               /\ UNCHANGED kid \/ Fork("audit", tmpDir)
    BY <1>1, <1>2 DEF run_aide, disk
  <1>3. CASE get_md5 \/ get_passwordless_or_db_diff
    BY <1>1, <1>3 DEF get_md5, get_passwordless_or_db_diff
  <1>4. CASE destroy
    BY <1>4 DEF destroy, exit, disk
  <1>5. CASE ReadLine \/ AddLine \/ EndOfOutput
    BY <1>5 DEF ReadLine, AddLine, EndOfOutput, svars, disk
  <1>6. CASE Waited
    BY <1>6 DEF Waited, Taken, disk
  <1>7. CASE aide_init
    BY <1>7 DEF aide_init, Noted, disk
  <1>8. CASE aide_init_wait
    BY <1>8 DEF aide_init_wait, Noted, Taken, disk
  <1>9. CASE file_copy \/ NoteAdded
    BY <1>9 DEF file_copy, Noted, NoteAdded, disk
  <1>10. CASE OutOfCore \/ exit_clean_up
    BY <1>10 DEF OutOfCore, exit_clean_up, Remove, exit, disk
  <1> QED
    BY <1>2, <1>3, <1>4, <1>5, <1>6, <1>7, <1>8, <1>9, <1>10 DEF Call, InCall

\* A child that does not remove, or one less, disturbs no removal.
LEMMA OtherKids ==
    ASSUME TypeRest,
           Fork("audit", tmpDir) \/ Fork("init", tmpDir) \/ Taken \/ UNCHANGED kid
    PROVE  \A p \in Pids : Removing(p)' => Removing(p) /\ kid'[p] = kid[p]
  <1>1. kid \in KidType /\ tmpDir \in Names /\ Jobs = {"audit", "rm", "init"}
    BY DEF TypeRest, SuvletType, Jobs
  <1>2. ASSUME NEW does \in {"audit", "init"}, Fork(does, tmpDir), NEW p \in Pids, Removing(p)'
        PROVE  Removing(p) /\ kid'[p] = kid[p]
    <2>1. /\ kid'[NewPid] = [state |-> "forked", does |-> does, dir |-> tmpDir]
          /\ \A q \in Pids \ {NewPid} : kid'[q] = kid[q]
      BY <1>1, <1>2, ForkEffect
    <2> QED
      BY <1>2, <2>1 DEF Removing
  <1>3. ASSUME NEW r \in Pids, wait(r), NEW p \in Pids, Removing(p)'
        PROVE  Removing(p) /\ kid'[p] = kid[p]
    <2>1. kid'[r] = Nobody /\ \A q \in Pids \ {r} : kid'[q] = kid[q]
      BY <1>1, <1>3, WaitEffect
    <2> QED
      BY <1>3, <2>1 DEF Removing, Nobody
  <1>4. CASE UNCHANGED kid
    BY <1>4 DEF Removing
  <1> QED
    BY <1>2, <1>3, <1>4 DEF Taken

LEMMA RemovalsOfCall ==
    ASSUME TypeOK, RemovalsApart, Call \/ InCall, pc' \notin Ending, "noexec" \notin mishaps
    PROVE  RemovalsApart'
  <1>1. /\ TypeRest /\ kid \in KidType /\ tmpDir \in Names /\ dirs \subseteq Dirs
        /\ NoDir \notin Dirs /\ "rm" \in Jobs
    BY TypeParts, AuditAssumption
       DEF TypeRest, SuvletType, DiskType, AuditAssumption, Jobs
  <1>2. ASSUME NEW d \in Dirs, mk_working_dir(d) PROVE RemovalsApart'
    <2>1. pc = "idle" /\ pc' = "idle" /\ UNCHANGED kid
      BY <1>2 DEF mk_working_dir, Return
    <2>2. \/ d \notin dirs /\ dirs' = dirs \cup {d} /\ tmpDir' = d
          \/ UNCHANGED <<dirs, tmpDir>>
      BY <1>2 DEF mk_working_dir
    <2> QED
      BY <2>1, <2>2 DEF RemovalsApart, Removing, Ending
  <1>3. CASE rmdir
    <2>1. pc = "idle" /\ UNCHANGED dirs
      BY <1>3 DEF rmdir, disk
    <2>2. CASE tmpDir # NoDir /\ Fork("rm", tmpDir) /\ pc' = "wait_rm" /\ UNCHANGED tmpDir
      <3>1. /\ NewPid \in Pids
            /\ kid'[NewPid] = [state |-> "forked", does |-> "rm", dir |-> tmpDir]
            /\ \A q \in Pids \ {NewPid} : kid'[q] = kid[q]
        BY <1>1, <2>2, ForkEffect
      <3>2. \A q \in Pids \ {NewPid} : Removing(q)' => Removing(q)
        BY <3>1 DEF Removing
      <3>3. \A q \in Pids \ {NewPid} : Removing(q)' =>
              kid'[q].dir \in dirs /\ kid'[q].dir # tmpDir
        BY <2>1, <3>1, <3>2 DEF RemovalsApart, Ending
      <3>4. tmpDir \in dirs
        BY <2>1, <2>2 DEF RemovalsApart, Ending
      <3>5. \A p, q \in Pids \ {NewPid} : Removing(p)' /\ Removing(q)' /\ p # q =>
              kid'[p].dir # kid'[q].dir
        BY <2>1, <3>1, <3>2 DEF RemovalsApart, Ending
      <3>6. kid'[NewPid].dir = tmpDir
        BY <3>1
      <3> QED
        BY <2>1, <2>2, <3>3, <3>4, <3>5, <3>6 DEF RemovalsApart
    <2>3. CASE UNCHANGED kid /\ pc' = "idle" /\ tmpDir' = NoDir
      BY <1>1, <2>1, <2>3 DEF RemovalsApart, Removing, Ending
    <2> QED
      BY <1>3, <2>2, <2>3 DEF rmdir, Return, GoOn
  <1>4. CASE rmdir_wait
    <2>1. Taken /\ pc = "wait_rm" /\ tmpDir' = NoDir /\ UNCHANGED dirs
      BY <1>4 DEF rmdir_wait, Taken, disk
    <2>2. \A p \in Pids : Removing(p)' => Removing(p) /\ kid'[p] = kid[p]
      BY <1>1, <2>1, OtherKids
    <2> QED
      BY <1>1, <2>1, <2>2 DEF RemovalsApart, Ending
  <1>5. ASSUME UNCHANGED <<tmpDir, dirs>>, pc # "wait_rm", pc' # "wait_rm", pc \notin Ending,
               Fork("audit", tmpDir) \/ Fork("init", tmpDir) \/ Taken \/ UNCHANGED kid
        PROVE  RemovalsApart'
    <2>1. \A p \in Pids : Removing(p)' => Removing(p) /\ kid'[p] = kid[p]
      BY <1>1, <1>5, OtherKids
    <2> QED
      BY <1>5, <2>1 DEF RemovalsApart
  <1> QED
    BY <1>1, <1>2, <1>3, <1>4, <1>5, DirSteps

LEMMA RemovalsOfKid ==
    ASSUME TypeOK, RemovalsApart, NEW p \in Pids, Kid(p), pc \notin Ending,
           "noexec" \notin mishaps'
    PROVE  RemovalsApart'
  <1>1. kid \in KidType
    BY TypeParts
  <1>2. UNCHANGED <<pc, tmpDir>> /\ "noexec" \notin mishaps
    BY FaultsStay DEF Kid, Exec, ExecFails, Silent, Succeeds, Fails, SuvletSame, svars, Next
  <1>3. PICK state \in States : Becomes(p, state)
    BY DEF Kid, Exec, ExecFails, Silent, Succeeds, Fails, States, Ended
  <1>4. /\ kid'[p] = [state |-> state, does |-> kid[p].does, dir |-> kid[p].dir]
        /\ \A q \in Pids \ {p} : kid'[q] = kid[q]
    BY <1>1, <1>3, BecomesEffect
  <1>5. kid[p].state \in {"forked", "runs", "silent"}
    BY DEF Kid, Exec, ExecFails, Silent, Succeeds, Fails
  <1>6. \A q \in Pids : Removing(q)' => Removing(q) /\ kid'[q].dir = kid[q].dir
    BY <1>4, <1>5 DEF Removing
  <1>7. CASE Succeeds(p) /\ kid[p].does = "rm"
    <2>1. dirs' = dirs \ {kid[p].dir}
      BY <1>7 DEF Succeeds
    <2>2. ~Removing(p)'
      BY <1>1, <1>7 DEF Succeeds, Becomes, KidType, Removing
    <2>3. Removing(p)
      BY <1>5, <1>7 DEF Removing
    <2> QED
      BY <1>2, <1>6, <2>1, <2>2, <2>3 DEF RemovalsApart
  <1>8. CASE ~(Succeeds(p) /\ kid[p].does = "rm")
    <2>1. UNCHANGED dirs
      BY <1>2, <1>8 DEF Kid, Exec, ExecFails, Silent, Succeeds, Fails, disk
    <2> QED
      BY <1>2, <1>6, <2>1 DEF RemovalsApart
  <1> QED
    BY <1>7, <1>8

LEMMA RemovalsStep ==
    ASSUME TypeOK, RemovalsApart, [Next]_vars
    PROVE  RemovalsApart'
  <1> SUFFICES ASSUME pc' \notin Ending, "noexec" \notin mishaps' PROVE RemovalsApart'
    BY DEF RemovalsApart
  <1>1. "noexec" \notin mishaps
    BY FaultsStay
  <1>2. CASE UNCHANGED vars
    BY <1>2 DEF vars, svars, disk, RemovalsApart, Removing
  <1>3. ASSUME NEW p \in Pids, Kid(p) PROVE RemovalsApart'
    <2>1. UNCHANGED pc
      BY <1>3 DEF Kid, Exec, ExecFails, Silent, Succeeds, Fails, SuvletSame, svars
    <2> QED
      BY <1>3, <2>1, RemovalsOfKid
  <1> QED
    BY <1>1, <1>2, <1>3, RemovalsOfCall DEF Next

(***************************************************************************)
(* The directory that tmpDir names is there until the suvlet removes it,   *)
(* although waits that took the wrong child let an old rm run on.          *)
(***************************************************************************)
THEOREM DirIsKept == Spec => []DirKept
  <1>1. Init => RemovalsApart
    BY RemovalsInit
  <1>2. TypeOK /\ RemovalsApart /\ [Next]_vars => RemovalsApart'
    BY RemovalsStep
  <1>3. RemovalsApart => DirKept
    BY DEF RemovalsApart, DirKept, Ending
  <1> QED
    BY <1>1, <1>2, <1>3, AuditTypeCorrect, PTL DEF Spec
=============================================================================
