--------------------------- MODULE SecurityAudit ---------------------------
(***************************************************************************)
(* The service functions of the SecurityAudit suvlet,                      *)
(* src/suvlets/SecurityAudit/remote/SecurityAudit.c: it runs programs as   *)
(* children, collects their output in a buffer, and keeps a working        *)
(* directory.                                                              *)
(*                                                                         *)
(* wait() takes any child that has ended.  A call that returns early       *)
(* leaves its child behind, and a later call may take that one for its     *)
(* own.  A child that cannot execute its program leaves through exit(),    *)
(* and so through the exit handler of the suvlet it was forked from.       *)
(*                                                                         *)
(* A program is taken to end, and, once a line of md5sum was read, to      *)
(* write no more than the pipe holds.  What db_diff does after the wait is *)
(* in DbDiff.                                                              *)
(***************************************************************************)
EXTENDS LineBuffer, FiniteSets

CONSTANTS
    Dirs,        \* names of directories
    NoDir,       \* tmpDir == NULL
    Note,        \* "<error>8 ..." or "<error>9 ...", added to the output of aide
    MaxKids,     \* bound: children at one time
    MaxFds,      \* descriptors the suvlet may open
    MaxOutput    \* bound: bytes of output in a call

ASSUME AuditAssumption ==
    /\ NoDir \notin Dirs
    /\ Note \in Texts
    /\ MaxKids \in Nat /\ MaxFds \in Nat /\ MaxOutput \in Nat

VARIABLES
    pc,        \* where the suvlet is in a call
    op,        \* the program of the call whose output is read, or "none"
    own,       \* its pid
    answer,    \* of the call that just returned, or "none"
    tmpDir,
    fds,       \* descriptors open; none is ever closed
    kid,       \* the children: state, what they do, tmpDir as they inherited it
    dirs,      \* directories on the disk
    linked,    \* those that hold a link aide.db
    newDb,     \* aide.db.new: "none", "part" or "whole"
    aideDb,    \* aide.db: "part" or "whole"
    early,     \* how many calls returned without a wait for their child
    mishaps    \* what went wrong outside: "noexec", "killed", "copy"

svars == <<pc, op, own, answer, tmpDir, fds>>
disk == <<dirs, linked, newDb, aideDb>>
vars == <<bvars, svars, kid, disk, early, mishaps>>

Pids == 1 .. MaxKids
Nobody == [state |-> "none", does |-> "nothing", dir |-> NoDir]
Ended == {"ok", "failed", "noexec", "killed"}

Init ==
    /\ BufferInit
    /\ pc = "idle" /\ op = "none" /\ own = 0 /\ answer = "none"
    /\ tmpDir = NoDir /\ fds = 0
    /\ kid = [p \in Pids |-> Nobody]
    /\ dirs = {} /\ linked = {} /\ newDb = "none" /\ aideDb = "whole"
    /\ early = 0 /\ mishaps = {}

-----------------------------------------------------------------------------
(* The children.                                                           *)

Becomes(p, state) == kid' = [kid EXCEPT ![p].state = state]

SuvletSame == UNCHANGED <<bvars, svars, early>>

\* aide --init begins to write aide.db.new.
Exec(p) ==
    /\ kid[p].state = "forked"
    /\ Becomes(p, "runs")
    /\ newDb' = IF kid[p].does = "init" THEN "part" ELSE newDb
    /\ UNCHANGED <<dirs, linked, aideDb, mishaps>> /\ SuvletSame

\* exit(1), with the exit handler on the way: it may remove the directory.
ExecFails(p) ==
    /\ kid[p].state = "forked"
    /\ Becomes(p, "noexec")
    /\ \E gone \in SUBSET {kid[p].dir} :
        dirs' = dirs \ gone /\ linked' = linked \ gone
    /\ mishaps' = mishaps \cup {"noexec"}
    /\ UNCHANGED <<newDb, aideDb>> /\ SuvletSame

\* The program closes its output before it ends.
Silent(p) ==
    /\ kid[p].state = "runs" /\ kid[p].does = "audit"
    /\ Becomes(p, "silent")
    /\ UNCHANGED <<disk, mishaps>> /\ SuvletSame

\* exit(0): the work of rm and of aide --init is done.
Succeeds(p) ==
    /\ kid[p].state \in {"runs", "silent"}
    /\ kid[p].does = "rm" => kid[p].dir \in dirs
    /\ Becomes(p, "ok")
    /\ IF kid[p].does = "rm"
         THEN dirs' = dirs \ {kid[p].dir} /\ linked' = linked \ {kid[p].dir}
         ELSE UNCHANGED <<dirs, linked>>
    /\ newDb' = IF kid[p].does = "init" THEN "whole" ELSE newDb
    /\ UNCHANGED <<aideDb, mishaps>> /\ SuvletSame

Fails(p) ==
    /\ kid[p].state \in {"runs", "silent"}
    /\ \/ Becomes(p, "failed") /\ UNCHANGED mishaps
       \/ Becomes(p, "killed") /\ mishaps' = mishaps \cup {"killed"}
    /\ UNCHANGED disk /\ SuvletSame

Kid(p) == Exec(p) \/ ExecFails(p) \/ Silent(p) \/ Succeeds(p) \/ Fails(p)

-----------------------------------------------------------------------------
(* fork and wait.                                                          *)

Free == {p \in Pids : kid[p] = Nobody}

\* Any pid that is free will do.
NewPid == CHOOSE p \in Free : \A q \in Free : p <= q

Fork(does, dir) ==
    /\ Free # {}
    /\ kid' = [kid EXCEPT ![NewPid] = [state |-> "forked", does |-> does, dir |-> dir]]

\* wait() takes any child that has ended; none is left untaken.
wait(p) ==
    /\ kid[p].state \in Ended
    /\ kid' = [kid EXCEPT ![p] = Nobody]

\* Mutant: that it left through exit() is taken for success.
ZeroStatusExited(p) == kid[p].state \in {"ok", "killed", "failed", "noexec"}

\* WEXITSTATUS of a child that a signal ended is 0.
ZeroStatus(p) == kid[p].state \in {"ok", "killed"}

Return(a) == pc' = "idle" /\ answer' = a /\ op' = "none" /\ own' = 0

GoOn(where) == pc' = where /\ answer' = "none"

-----------------------------------------------------------------------------
(* The working directory.                                                  *)

\* The name of a directory made before is forgotten.
mk_working_dir(d) ==
    /\ pc = "idle"
    /\ \/ /\ d \notin dirs
          /\ dirs' = dirs \cup {d} /\ tmpDir' = d
          /\ Return("made")
       \/ /\ Return("not made")
          /\ UNCHANGED <<dirs, tmpDir>>
    /\ UNCHANGED <<bvars, fds, kid, linked, newDb, aideDb, early, mishaps>>

\* The argument is not looked at.
rmdir ==
    /\ pc = "idle"
    /\ \/ /\ tmpDir = NoDir
          /\ Return("removed")
          /\ UNCHANGED <<tmpDir, kid>>
       \/ /\ tmpDir # NoDir
          /\ Fork("rm", tmpDir) /\ GoOn("wait_rm")
          /\ UNCHANGED <<op, own, tmpDir>>
       \/ /\ tmpDir # NoDir   \* fork fails
          /\ Return("not removed") /\ tmpDir' = NoDir
          /\ UNCHANGED kid
    /\ UNCHANGED <<bvars, fds, disk, early, mishaps>>

\* Mutant: tmpDir is not reset.
rmdir_waitKeeps ==
    /\ pc = "wait_rm"
    /\ \E p \in Pids :
        /\ wait(p)
        /\ Return(IF ZeroStatus(p) THEN "removed" ELSE "not removed")
    /\ UNCHANGED <<bvars, tmpDir, fds, disk, early, mishaps>>

rmdir_wait ==
    /\ pc = "wait_rm"
    /\ \E p \in Pids :
        /\ wait(p)
        /\ Return(IF ZeroStatus(p) THEN "removed" ELSE "not removed")
    /\ tmpDir' = NoDir
    /\ UNCHANGED <<bvars, fds, disk, early, mishaps>>

-----------------------------------------------------------------------------
(* The audits.                                                             *)

\* Mutant: pipe() is taken to succeed.
BeginUnchecked(o) ==
    /\ \/ Return("error 1") /\ UNCHANGED <<kid, fds, early>>
       \/ /\ Fork("audit", tmpDir)
          /\ fds' = fds + 1
          /\ \/ GoOn("read") /\ op' = o /\ own' = NewPid /\ UNCHANGED early
             \/ Return("error 2") /\ early' = early + 1
    /\ UNCHANGED <<tmpDir, dirs, newDb, aideDb, mishaps>>

\* safe_exec_pipe and fdopen: the pipe takes two descriptors for a moment and
\* one for good, and a child without a stream is left behind.
Begin(o) ==
    /\ \/ Return("error 1") /\ UNCHANGED <<kid, fds, early>>
       \/ /\ fds + 2 <= MaxFds
          /\ Fork("audit", tmpDir)
          /\ fds' = fds + 1
          /\ \/ GoOn("read") /\ op' = o /\ own' = NewPid /\ UNCHANGED early
             \/ Return("error 2") /\ early' = early + 1
    /\ UNCHANGED <<tmpDir, dirs, newDb, aideDb, mishaps>>

get_md5 ==
    /\ pc = "idle"
    /\ Begin("md5")
    /\ UNCHANGED <<bvars, linked>>

\* db_diff reads into a buffer of its own.
get_passwordless_or_db_diff ==
    /\ pc = "idle"
    /\ clear_buffer
    /\ \E o \in {"passwordless", "db_diff"} : Begin(o)
    /\ UNCHANGED linked

\* The link to the database stays: the next run in that directory fails.
run_aide(d) ==
    /\ pc = "idle"
    /\ clear_buffer
    /\ \/ /\ d \in dirs \ linked
          /\ linked' = linked \cup {d}
          /\ Begin("aide")
       \/ /\ d \notin dirs \ linked
          /\ Return(IF d \in dirs THEN "error 7" ELSE "error 6")
          /\ UNCHANGED <<tmpDir, fds, kid, disk, early, mishaps>>

\* fgets, of a program that was executed.
ReadLine ==
    /\ pc = "read" /\ line = NoLine
    /\ kid[own].state \notin {"forked", "noexec"}
    /\ \/ /\ op = "md5"
          /\ pc' = "wait" /\ UNCHANGED bvars
       \/ /\ op \in {"aide", "passwordless"}
          /\ \E l \in Texts \ {Note} :
              Len(wanted) + LineLen[l] <= MaxOutput /\ add_line(l)
          /\ UNCHANGED pc
    /\ UNCHANGED <<op, own, answer, tmpDir, fds, kid, disk, early, mishaps>>

AddLine ==
    /\ pc \in {"read", "note"}
    /\ AddStep
    /\ UNCHANGED <<svars, kid, disk, early, mishaps>>

\* Mutant: the suvlet holds its own copy of the writing end, so that the end
\* comes only when the suvlet has ended.
EndOfOutputHeldOpen ==
    /\ pc = "ended"
    /\ UNCHANGED vars

\* fgets returns NULL: get_md5 does not wait then.
EndOfOutput ==
    /\ pc = "read" /\ line = NoLine
    /\ kid[own].state \in Ended \cup {"silent"}
    /\ IF op = "md5"
         THEN Return("error 3") /\ early' = early + 1
         ELSE GoOn("wait") /\ UNCHANGED <<op, own, early>>
    /\ UNCHANGED <<bvars, tmpDir, fds, kid, disk, mishaps>>

\* Mutant: an answer without a wait.
WaitedNot ==
    /\ pc = "wait"
    /\ IF op = "aide"
         THEN GoOn("init") /\ op' = "none" /\ own' = 0
         ELSE Return("text")
    /\ UNCHANGED <<bvars, tmpDir, fds, kid, disk, early, mishaps>>

\* get_md5 and run_aide ignore the status.
Waited ==
    /\ pc = "wait"
    /\ \E p \in Pids :
        /\ wait(p)
        /\ IF op = "aide"
             THEN GoOn("init") /\ op' = "none" /\ own' = 0
             ELSE Return(IF op = "md5" \/ ZeroStatus(p) THEN "text" ELSE "error 1")
    /\ UNCHANGED <<bvars, tmpDir, fds, disk, early, mishaps>>

\* The error goes behind the output of aide.
Noted == add_line(Note) /\ GoOn("note")

\* safe_exec of aide --init, or fork fails.
aide_init ==
    /\ pc = "init"
    /\ \/ Fork("init", tmpDir) /\ GoOn("wait_init") /\ UNCHANGED bvars
       \/ Noted /\ UNCHANGED kid
    /\ UNCHANGED <<op, own, tmpDir, fds, disk, early, mishaps>>

\* Mutant: the status is not looked at.
aide_init_waitAny ==
    /\ pc = "wait_init"
    /\ \E p \in Pids : wait(p)
    /\ GoOn("copy")
    /\ UNCHANGED <<bvars, op, own, tmpDir, fds, disk, early, mishaps>>

aide_init_wait ==
    /\ pc = "wait_init"
    /\ \E p \in Pids :
        /\ wait(p)
        /\ \/ ZeroStatus(p) /\ GoOn("copy") /\ UNCHANGED bvars
           \/ ~ZeroStatus(p) /\ Noted
    /\ UNCHANGED <<op, own, tmpDir, fds, disk, early, mishaps>>

\* file_copy truncates its target, and may fail before that or after.  An
\* fread that fails looks like the end of the file, and nobody looks at what
\* fclose returns: then a part is taken for a whole.
file_copy ==
    /\ pc = "copy"
    /\ \/ /\ newDb # "none"
          /\ \/ aideDb' = newDb /\ UNCHANGED mishaps
             \/ aideDb' = "part" /\ mishaps' = mishaps \cup {"copy"}
          /\ Return("text")
          /\ UNCHANGED bvars
       \/ /\ Noted
          /\ \/ UNCHANGED <<aideDb, mishaps>>
             \/ newDb # "none" /\ aideDb' = "part" /\ mishaps' = mishaps \cup {"copy"}
          /\ UNCHANGED <<op, own>>
    /\ UNCHANGED <<tmpDir, fds, kid, dirs, linked, newDb, early>>

NoteAdded ==
    /\ pc = "note" /\ line = NoLine
    /\ Return("noted")
    /\ UNCHANGED <<bvars, tmpDir, fds, kid, disk, early, mishaps>>

-----------------------------------------------------------------------------
(* The end of the suvlet.                                                  *)

exit == pc' = "ended" /\ answer' = "none"

\* The handler runs rm once more, if it can fork.
Remove(dir) ==
    \/ Fork("rm", dir) /\ GoOn("wait_exit")
    \/ exit /\ UNCHANGED kid

\* SCL_DSUVLET: deconstructor.
destroy ==
    /\ pc = "idle"
    /\ \/ tmpDir = NoDir /\ exit /\ UNCHANGED kid
       \/ tmpDir # NoDir /\ Fork("rm", tmpDir) /\ GoOn("wait_destroy")
       \/ tmpDir # NoDir /\ UNCHANGED kid /\ GoOn("destroyed")   \* fork fails
    /\ UNCHANGED <<bvars, op, own, tmpDir, fds, disk, early, mishaps>>

\* exit_clean_up, after free(tmpDir): rm gets no name of a directory.
exit_clean_up ==
    /\ \/ pc = "destroyed" /\ Remove(NoDir)
       \/ pc = "wait_destroy" /\ GoOn("destroyed") /\ \E p \in Pids : wait(p)
       \/ pc = "wait_exit" /\ exit /\ \E p \in Pids : wait(p)
    /\ UNCHANGED <<bvars, op, own, tmpDir, fds, disk, early, mishaps>>

\* add_line finds no memory at all: exit(1), and exit_clean_up.
OutOfCore ==
    /\ pc \in {"read", "note"} /\ line # NoLine /\ Full
    /\ \/ tmpDir = NoDir /\ exit /\ UNCHANGED kid
       \/ tmpDir # NoDir /\ Remove(tmpDir)
    /\ early' = IF pc = "read" THEN early + 1 ELSE early
    /\ UNCHANGED <<bvars, op, own, tmpDir, fds, disk, mishaps>>

-----------------------------------------------------------------------------

Call ==
    \/ \E d \in Dirs : mk_working_dir(d) \/ run_aide(d)
    \/ rmdir \/ get_md5 \/ get_passwordless_or_db_diff \/ destroy

InCall ==
    \/ rmdir_wait
    \/ ReadLine \/ AddLine \/ EndOfOutput \/ Waited
    \/ aide_init \/ aide_init_wait \/ file_copy \/ NoteAdded
    \/ OutOfCore \/ exit_clean_up

Next == Call \/ InCall \/ \E p \in Pids : Kid(p)

\* The suvlet and its children run.
Spec ==
    /\ Init /\ [][Next]_vars
    /\ WF_vars(InCall)
    /\ \A p \in Pids : WF_vars(Kid(p))

-----------------------------------------------------------------------------
(* Properties.                                                             *)

States == {"none", "forked", "runs", "silent"} \cup Ended

Pcs == {"idle", "read", "wait", "wait_rm", "init", "wait_init", "copy", "note",
        "wait_destroy", "destroyed", "wait_exit", "ended"}

TypeOK ==
    /\ BufferTypeOK
    /\ pc \in Pcs
    /\ op \in {"none", "md5", "aide", "passwordless", "db_diff"}
    /\ own \in Pids \cup {0}
    /\ answer \in {"none", "made", "not made", "removed", "not removed", "text", "noted",
                  "error 1", "error 2", "error 3", "error 6", "error 7"}
    /\ tmpDir \in Dirs \cup {NoDir}
    /\ fds \in 0 .. MaxFds
    /\ kid \in [Pids -> [state : States, does : {"nothing", "audit", "rm", "init"},
                         dir : Dirs \cup {NoDir}]]
    /\ dirs \subseteq Dirs /\ linked \subseteq dirs
    /\ newDb \in {"none", "part", "whole"} /\ aideDb \in {"part", "whole"}
    /\ early \in Nat
    /\ mishaps \subseteq {"noexec", "killed", "copy"}

\* Where the suvlet has a child of its own that it has not waited for.
Owing == {"read", "wait", "wait_rm", "wait_init", "wait_destroy", "wait_exit"}

\* The children nobody has waited for are as many as the calls that returned
\* early, and the one of the call that runs: wait() may take the wrong one,
\* but every call that starts a child and waits takes one, so that a child
\* once left behind puts every later wait one child behind, for good.
ChildrenConserved ==
    Cardinality({p \in Pids : kid[p].state # "none"}) =
        early + (IF pc \in Owing THEN 1 ELSE 0)

\* While no call has returned early and no child was killed: rmdir answers 1
\* only when the directory is gone, and what get_passwordless and db_diff
\* take for complete is the output of a program that succeeded.
AnswersTrue ==
    [][ early = 0 /\ "killed" \notin mishaps =>
          /\ pc = "wait_rm" /\ pc' = "idle" /\ answer' = "removed" => tmpDir \notin dirs'
          /\ /\ pc = "wait" /\ op \in {"passwordless", "db_diff"}
             /\ pc' = "idle" /\ answer' = "text"
             => kid[own].state = "ok" ]_vars

\* The working directory stays until the suvlet removes it, unless a program
\* could not be executed: the child then removes it on its way out.
DirKept ==
    /\ tmpDir # NoDir
    /\ pc \notin {"wait_rm", "wait_destroy", "destroyed", "wait_exit", "ended"}
    /\ "noexec" \notin mishaps
    => tmpDir \in dirs

\* The database of aide is overwritten only by a whole one, as long as no call
\* returned early, no child was killed and file_copy did not fail half way,
\* noticed or not.
AideDbWhole == early = 0 /\ mishaps \cap {"killed", "copy"} = {} => aideDb = "whole"

\* Every call comes to an end.
CallsReturn == pc \notin {"idle", "ended"} ~> pc \in {"idle", "ended"}
=============================================================================
