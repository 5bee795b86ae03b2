# compat-suva, specified in TLA+

compat-suva is the client library of the suva system: a program opens a connection to
the local daemon `suvad`, asks it for an organization's remote system, starts a *suvlet*
there (a small service process whose standard input and output `suvad` carries over the
network), calls functions of the suvlet, transfers files through it, and closes the
connection. The daemon itself is not in this repository; the library, the suvlets and the
utilities they share are.

This directory holds TLA+ modules of the library and of the suvlets' main loops,
configurations that check them with TLC, theorems about them that TLAPS checks, and
`PROJECT.json`, which says for every definition which lines of the code it stands for.

To check a run: `tlc -config <cfg> <module>`, with the pairs of the table under *Runs*.
To check the proofs: `tlapm` with each of the modules whose name ends in `Proofs`.

## The system

| Component | State it keeps | Operations | Module |
|---|---|---|---|
| Memory manager, `mem.c` | hash tables `pMemInfo` (categories) and `pMemList` (tracked pointers); the heap | `mem_add_type`, `mem_del_type`, `mem_cb_free`, `mem_alloc`, `mem_calloc`, `mem_store`, `mem_realloc`, `mem_free`, `mem_free_all`, `mem_get_size` | `Mem`, `MemAbs` |
| SCL values, `scl_writer.c`, `scl_reader.c` | the queue of values going out, the packet read last and the cursor in it | `scl_queue_value`, `scl_write_value`, `scl_get_value` | `SclCodec` |
| SCL stream, the same files | the bytes of a socket or pipe, the buffers and timers of a call | `scl_write_out`, `scl_write`, `scl_read_packet`, `scl_read` | `SclStream`, `PacketChan` |
| Connections, `suva_conn.c`, `suva_api.c`, `suva_util.c` | the `suva_conn` structs, the counter of type numbers | `open_suva_conn`, `create_suvlet`, `destroy_suvlet`, `close_suva_conn`, `suva_unexpected_return`, `suva_api_die` | `Session` |
| Suvlet receivers, `suva_receiver.c` of every suvlet | the suvlet's own connection, `in_packet_opcode` | `main`, `suva_get_request` | `Session` |
| File transfer, `scl_inlines.c` | the local file, the caller's flags; the suvlet's one open `FILE *` | `scl_il_xfer_ex`, `scl_il_xfer_exit`, and on the remote side `inline-get_info`, `-get_fsize_mode`, `-open_file`, `-put_data`, `-get_data`, `-set_fmode`, `-close_file` | `SclXfer` |
| `suvad` (not in the repository) | which suvlet runs for which connection | opens, refuses, starts a suvlet, forwards, reports a suvlet's death | in `Session` and `SclXfer`, marked external |
| SecurityAudit suvlet | child processes, a working directory, aide's database, databases of findings, two growing buffers | `mk_working_dir`, `rmdir`, `get_md5`, `run_aide`, `get_passwordless`, `db_diff` with `get_match`, `add_line`, `clear_buffer`, `safe_exec`, `safe_exec_pipe`, `file_copy`, the exit handler | `SecurityAudit`, `LineBuffer`, `DbDiff`, `GetMatch`, `FileSearch` |
| Software suvlet | a static answer buffer `payload`; `packages.xml` and `packages.xml.new` | `CreatePackageList`, `FetchPackageList`, `InstallPKG`, `UnInstallPKG`, `ResetPKGDir`, the end of the process | `Software` |
| DeviceInfo suvlet | none between calls | `DiskSpaceTotal` and other getters | not modelled |
| Utilities, `sutil.c`, `crc.c` | a lock file with a pid | `pid_lock`, `pid_unlock`, `pid_status`, string and array helpers, sockets, logging | not modelled |
| SecurityAudit's helper programs, findutils 4.5.11, build files | | | not modelled |

**How they interact.** Every operation of `suva_conn.c` is a remote call by hand: queue
values (`scl_queue_value`), write the packet (`scl_write_out`), wait for an answer
(`scl_read_packet`), read values from it (`scl_get_value`), free it (`scl_free_packet_mem`,
which is `mem_free_all` of the connection's own memory type). `scl_inlines.c` does the same in a loop. The
suvlet does the mirror image on its standard input and output. Everything is sequential in
one process; the concurrency is between the program, `suvad` and the suvlet, and with time:
every read and write of a polled descriptor gives up after `SCL_TIMEOUT` seconds without
progress. A suvlet's service functions run programs as children and keep files that outlive the
process; several suvlets of a kind can run in one directory.

**What is hard.** The results of `scl_read_packet` and `scl_write` are ignored almost
everywhere, answers carry nothing that says which call they belong to, and after a failed
read the opcode and the values of the packet before are still around (the values in freed
memory). So a late answer, a transfer that was cut in the middle of a packet, or a peer
that died leads the code through states nobody tests. The memory manager adds aliasing: entries
move between hash chains, categories are deleted and registered again, and the release of
everything a connection has read depends on a type number that was found by trial. In the suvlets,
`wait()` takes any child, children inherit the exit handler, searches begin wherever the last one
stopped, and files are rewritten while a process may end between any two steps.

**What makes each part correct.**

- Memory manager: every tracked pointer can be found, every heap block has exactly one entry
  that will free it, no entry refers to a deleted category, `mem_free_all` visits everything
  once while it deletes under its own feet, contents survive a move.
- Values: what `scl_queue_value` announces is what `scl_write_value` writes and
  what `scl_get_value` consumes, whatever the reader skips.
- Stream: packets arrive whole and in order as long as no transfer is cut in the middle of a
  packet (after that nothing is promised, and no comment promises anything); words are never repeated or
  swapped; calls return.
- Connections: operations return, release what they read and nothing of any other
  connection, and take an answer for what it is.
- File transfer: code 0 means the target is a copy, any other code names something that
  happened, and the remote file is neither used unopened nor left open.
- SecurityAudit: an answer is complete or says that it is not, statuses belong to the call that
  asks for them, the working directory and aide's database survive every failure that is not
  named, and nothing that is new escapes a report that was not cut.
- Software: `packages.xml`, and what is fetched from it, is one whole list, whatever runs fail or
  end half way.

## Modules and code

One action stands for one function, or for the part of a function between two points where
another process can interfere: writing a packet and starting to wait is one step, the arrival
(or not) of the answer is another, what the code then does is a third.

**`MemAbs`** is what the memory manager promises: a set of categories and a function from
tracked pointers to categories. **`Mem`** is `mem.c`. A hash chain is the set of its entries:
the code always searches a chain to its end, and that addresses and ids are unique on a chain
is an invariant here (`TablesAgree`), not an assumption. `mem_hash` is a constant function,
so that two addresses share a chain or not as the configuration says. `mem_free_all` is the only
call that is not one step: its two loops, with the pointer each has saved before it frees the
current element, are the variables `phase`, `faBucket`, `faList`, `faInfo`. The free callback of a
category is external: it releases the pointer it is given and calls nothing (no program in
the repository installs one). `mem_dump` and `mem_plot` are compiled out
of the library. Failures of `malloc` are calls that change nothing, as in the code.

**`SclCodec`** is the byte format: one packet is a sequence of bytes, built by `scl_queue_value` and
`scl_write_value` and taken apart, in place, by `scl_get_value`, which ends strings by writing zeros over
the length field of the next one. Values are queued by address (`scl_writer.c:119`), so the
object is constant while it is queued. The lengths in a packet are trusted
(`scl_reader.c:194`), so only packets of this writer are read. A little-endian host is
modelled: no build file defines `SCO_BIG_ENDIAN`, and the reader does not swap what the writer
would under it.

**`SclStream`** is one direction of a connection: the `write` and `read` calls that may transfer any
part of what was asked, `EAGAIN` and the timer that counts from the last progress, other errors of the two calls at any time, blocking and
non-blocking descriptors, and processes that end anywhere. Data is modelled by words with
their place in the packet, so that what is lost can be told from what is late. Where the writer is, is the number of the `scl_write` call
that runs (`wcall`: four for the header, one or more for a value) and the words of the packet that are written or given up (`wpos`); a call that fails moves
`wpos` to its end, because `scl_write_out` does not look at what `scl_write` returns.
**`PacketChan`** is its abstract specification, a queue of whole packets, until a transfer is cut, and from then on anything but the loss of what was received;
`SclStream` implements it (`Refines`): a packet counts as sent when its last word is, which may be before `scl_write_out` has
returned, if the packet ends with an empty value.

**`Session`** takes whole packets from there and models the local library with several connections,
`suvad` and the suvlets. `pc` is the call that waits; `got` is what `scl_read_packet` returned
to it. `ReadCut` is a header whose body never comes: the packet before is freed and the new one allocated before the read fails. Only a `suvad` that is
gone cuts a packet here; after a time-out in the middle of one its rest comes later and is taken for a header, which is the cut framing of `SclStream`. An operation goes on whatever that was, because the code does. What is read after a read that failed
is any of the codes told apart: the cursor is past the values of the last packet or in freed memory.
`live` is the set of memory blocks with their types, `FreeType` the two loops of `open_suva_conn`
that look for unused type numbers. The output queue of a connection is its last, empty element: that is the one which is
allocated, filled, walked to and freed in different calls. Every packet and answer carries
the number of its operation, for the properties only: the code has no such number.

**`SclXfer`** is a file transfer, from the first call to the return of `scl_il_xfer_ex`, against the
seven remote functions. `pc` names the point in the code; after each read comes the check the code makes,
with the opcode (and the freed values) of the packet before when the read failed. Files are sequences
of numbered bytes. `history` records for the properties which faults have happened. A suvlet that dies (`Die`) may lose what it has written to the file's
buffer.

**`LineBuffer`** is `struct buffer_desc` with `add_line` and `clear_buffer`. A byte is known by the line it
belongs to. The growing of the buffer and the copying of the line are separate steps, because `realloc` may
fail between them and leaves a new buffer of the first size, an error text in it, and a `buffer_size` that is no longer true.
What is written behind the memory, two zeros or more, is counted (`Outside`).

**`SecurityAudit`** extends it by the processes. `kid` holds the children: what each does, how far it
is, and the name of the working directory as it inherited it. `wait(p)` takes any that has ended.
`pc` is where the suvlet is in a call; each step of it is the code between two points where a child can act. `early`
counts the calls that returned without a wait, and `mishaps` records what went wrong outside, both for the properties only.
Programs are taken to end.

**`FileSearch`** says what `get_match` amounts to, in one step: the first occurrence after the position where
the search before stopped, around the end of the file, except that a search that begins with the last line looks at no other.
**`GetMatch`** is the loop with `fgets`, `ftell` and `fseek`; it implements `FileSearch` (`Searches`). **`DbDiff`** uses it
on a database that outlives the suvlet, which can end between any two steps; what `fprintf` with the output as format writes, and what
a full disk leaves of a line, are constants of the module (`Stored`, `Fragment`).
Both buffers are used by other calls too and never shrink, so that `add_line` may cut a text because an earlier one was long: `large` holds the buffers of which that is so, `superseded` those that were
cut since they were cleared. The text of the error or of the message, and the piece of a line in front of it, come from the constant `CutEnds`; where a text is cut is left open, because lengths are those of `LineBuffer`.

**`Software`** is several processes of that suvlet in one directory. Files are inodes that names refer to; a stream has a buffer, an offset
and an inode, so that what a process writes late goes where its file is by then. A list is a head, its entries and a tail, each known by its run.
Mishaps are a full disk, two lists made at one time, a failed run's buffer written by `exit()` into a file that matters, and an `fgets` that fails, which looks like the end of the file.

**`MCMem`, `MCStream`, `MCCodec`, `MCAudit`, `MCDbDiff`, `MCSoftware`** give constants to the runs. `Session` and `SclXfer` are checked
without such a module, because their constants can be written in the configuration itself.
Definitions that a comment introduces with "Mutant" or "Bug" are not used by any
specification: each is a plausible slip in the code, with which the property it is listed under in
`PROJECT.json` fails.

## Runs

| Run | Module, configuration | States | What it shows |
|---|---|---|---|
| mem | `MCMem`, `Mem.cfg` | 409 212 | tables and heap agree after every sequence of calls; `mem_free_all` visits everything, only what it should, and returns; contents survive `mem_realloc`, freed blocks are cleared; `Mem` implements `MemAbs` |
| codec | `MCCodec`, `Codec.cfg` | 96 336 | what is announced is written and read, values decode to what was queued, the cursor stays inside the packet, and a skipped value does not disturb the next packet |
| stream | `MCStream`, `Stream.cfg` | 152 684 | packets are whole and in order until a transfer is cut or a descriptor fails; 0 from `scl_read_packet` means the end or an empty packet; calls return; what is not cut arrives |
| session_ops | `Session`, `SessionOps.cfg` | 230 881 | two connections, every order of operations, refusals, failed starts, time-outs, a late answer, a header without its body, deaths of `suvad` and the suvlet |
| xfer | `SclXfer`, `Xfer.cfg` | 326 880 | GET and PUT, both api versions, lengths from empty to over two blocks, every I/O fault on either side, late answers, and a suvlet that dies at any moment, even inside an answer |
| audit | `MCAudit`, `Audit.cfg` | 859 615 | every order of service calls with children left behind, killed or never executed, buffers that overflow or find no memory, descriptors that run out |
| db_diff | `MCDbDiff`, `DbDiff.cfg` | 2 008 236 | any sequence of runs over one database, with failures and crashes at every step and buffers that cut what they are given; `get_match` implements `FileSearch` |
| software | `MCSoftware`, `Software.cfg` | 372 482 | two processes make, publish and fetch lists while runs fail and processes end anywhere |
| mem_calloc_realloc | `MCMem`, `MemCallocRealloc.cfg` | violation | finding 1 |
| xfer_blocks | `SclXfer`, `XferBlocks.cfg` | violation | finding 2 |
| session_late | `Session`, `SessionLate.cfg` | violation | finding 3 |
| audit_null | `MCAudit`, `AuditNull.cfg` | violation | finding 4 |

### Bounds, and why they are enough

- *mem*: two categories in one chain; two heap addresses, of which one shares its bucket with the stored pointer and the other
  is in another bucket; two addresses for MemInfo structs; two buckets. An error of chaining needs two entries in one chain and a move
  between chains; an error of category needs a deletion and a second registration at the same address, or a second category on
  the chain; an error of the walk needs a bucket after the current one. Blocks have 0 or 2 bytes and are
  reallocated to 1 or 2: smaller, equal and larger, with a boundary inside a block. `mem_calloc` is asked
  for one member only, because with two the recorded size is wrong (finding 1, which has its own run).
- *codec*: the pool of values has every type shape, and the lengths where the coding changes: null and empty strings, an array of
  strings with two adjacent non-empty ones and both kinds of empty one (the in-place
  zero of one string falls on the length of the next), arrays without members, and a block of 257 bytes, whose length
  takes two bytes of the length field. `INT_MAX` bounds the length of a packet: `out_packet_len` is an `int` and nothing keeps it from
overflowing, so packets of more than 2 GB are not modelled. Two values per packet and two packets show a boundary between values
  and one between packets.
- *stream*: a packet with data between two empty values, and the packet without data; a pipe of two words, less
  than a header, so that every transfer is split in every way; a timer that runs out after one tick without progress.
- *session_ops*: two connections, of which one does everything and the other opens and closes in between:
  types and blocks of one connection are only at risk from another one. Type 1 is taken by the
  program and 3 by the library, so that both loops have to skip a number. Five packets are enough for
  open, create, call, destroy and a call after that (or close); one answer may come after its time-out.
- *xfer*: blocks of two bytes, files of 0, 1, 2, 3 and 5 bytes (empty, less than a block, a whole number, one more), both api versions, and all
  faults at once, two of them late answers: enough to shift every later answer. When answers are shifted a GET can receive
  a block twice, so `MaxTarget` bounds the length of the local target, above the length of any source.
- *audit*: lines of two bytes, the note of `run_aide` with three, a first buffer of four bytes, which is also the limit beyond which a
  text is cut, and an error text of three: two lines fill the buffer, a line and the note exceed it by one, and growing happens once and more often.
  Three children and three descriptors: one child left behind by an early return, one of the running call, and one that
  removes a directory. Outputs end at six bytes. The one directory name makes a name that is used again the normal case.
- *audit_null*: the same instance.
- *db_diff*: plain lines `a` and `b`, one that `fprintf` garbles into `b`, a line of find, and the message of a text that was cut, alone or behind the line
  `b`; `b` is also the beginning of `a`, so that a line that is cut on a full disk or in a buffer can be taken for another. The first databases have up to three lines: the circle of `get_match`
  starts, ends and wraps at different lines, and a line may come twice. Two lines of output make a second search start where the first stopped.
- *software*: two processes, which are alike (the symmetry is sound: no liveness is checked), three runs of `CreatePackageList` and one line
  in a list: one list that is published, one that failed, and one that is being made. The constraint `NoMishap` ends behaviours at a full
  disk, two lists made at one time, a failed run's buffer written into a file that matters, or a read that failed, because both
  invariants except what follows. An instance with two lines in a list (2 728 826 states) passes as well.

### Fairness

Safety runs assume none. `mem_free_all` is a loop of one thread and runs to its end. In `Session` and `SclXfer` the local
program, `scl_read_packet` and the remote processes take their next step if they can: each is an ordinary process the
system schedules, and `scl_read_packet` always has one, because its timer ends the wait. (Once `MaxLate` answers were given up on, the model lets a read wait for an answer that is
under way, which the fairness of the remote processes brings; a read for which none is under way times out as before.) In `SclStream` the timer
is a step (`Tick`) with fairness of its own, and so are the transfer steps of the writer and the reader. Nothing obliges a reader to ask for the next packet, so
`AllDelivered` speaks of readers that do; nothing obliges a program to make the next call, a suvlet to answer, or
anyone to die.

In `SecurityAudit` the suvlet goes on with the call it is in, and each child takes its next step: the programs the suvlet starts (aide, find and
their like) end by themselves, which no time-out of the suvlet would replace. `CallsReturn` rests on that: a `wait` returns because some child ends.
`DbDiff` assumes the same of its program and of the function itself; `Software` is checked for safety only and states no fairness.

## Findings

1. **`mem_realloc` of a `mem_calloc` block zeroes data** (`mem.c:341`). `mem_calloc` records the size of one member
   (`mem.c:266`), and `mem_realloc` zeroes from the recorded size on. For the same reason `mem_free` clears only the first
   member (`mem.c:501`) and `mem_get_size` counts one.
2. **A GET of a whole number of blocks reports an error** (`scl_inlines.c:526`): the last, empty block makes `fwrite` return 0, which is
   taken for a failed write, code 7. The copy is complete.
3. **`create_suvlet` returns 1 for an answer to another call** (`suva_conn.c:205`), after two time-outs, although no suvlet runs.
4. **`add_line` writes the terminating null of a full buffer behind it** (`SecurityAudit.c:393`): the buffer grows only when `buffer_pos + line_len` exceeds
   `buffer_size`, so a text of exactly that many bytes is taken to fit, although the comment of the test says "One for null". `strcpy` (line 415) writes one byte
   behind the memory, and line 428 another one behind that (`BufferSound` bounds both).

The models hold more that no line of the repository contradicts, so no run claims it:

- the result of `scl_read_packet` is ignored at `scl_inlines.c:444`, so a transfer goes on without an open remote file when the answer
  of `open_file` is late; the answers of `set_fmode` and `close_file` are not looked at either, so a suvlet that dies after it has taken the last block leaves
  code 0 and a target that may lack its end; and a failed remote chmod (`scl_inlines.c:607`) answers a boolean, which the caller compares with -1;
- `close_suva_conn` frees the last element of the output queue and then lets `scl_write_out` read it (`suva_conn.c:162`, `169`), which ends
  well only because `mem_free` has cleared the element and nothing is allocated in between;
- a suvlet that has served a call and whose standard input ends spins for ever (`HungUp` in `Session`), because `in_packet_opcode`
  is still that of the last call;
- `add_line` decides by the size of the buffer, which never shrinks, whether a text is too long: after one answer beyond 256 KB each later text is cut at its
  first line (`SecurityAudit.c:419`). So a later `db_diff` reports the message in place of what is new, and new lines enter the database without having been named, once and for all; `NothingMissed` and
  `DbReported` except that by name. (The comment at line 475 says "returns anything new"; the report ends with the message of line 420, or, where its text is shorter than that, is the end of it.) When it is the second buffer, the cut text becomes the database;
- `get_match` takes the end of the file for an empty file when its search begins with the last line of several (`SecurityAudit.c:449`), and `db_diff` then reports
  a line that is in the database, against the comment at line 205, "returns any that weren't there last time". `FileSearch` says exactly when (`Searches`, proved); it hides nothing;
- an `open_suva_conn` whose first read fails returns NULL and leaves its socket, its struct, its queue element and, if the header had come, the packet (`suva_conn.c:115`;
  `Abandoned` in `Session`);
- a list of a run that failed can be written into `packages.xml` when the process exits, a full disk leaves a cut list there, and two suvlets in one
  directory overwrite each other's `packages.xml.new`, and an `fgets` that fails cuts what is fetched (the mishaps of `Software`);
- `pclose` gets NULL, or a variable never set for an unknown `devicetype` (`Software.c:108`, `177`; `Crash` stands for what follows).

Read, but not in a model: `DiskSpaceTotal` drops the first partition as a header line (`DeviceInfo.c:209`), the progress report can divide by zero
(`scl_inlines.c:570`), and `pid_lock`, which nothing calls, unlinks the holder's file when it fails (`sutil.c:64`).

## Proofs

All theorems hold for every value of the constants that satisfies the `ASSUME` of their module. `PROJECT.json` lists them with the properties they state.

**`MemProofs`** proves `TypeCorrect` (`Spec => []TypeOK`) and `TablesCorrect`
(`Spec => []TablesAgree`: `PointerFindable`, `InfoLive`, `OwnedExactly`, `WalkFresh`), `FreeAllIsExact`, `BytesAreKept` and
`ManagerImplements` (`Spec => Refines`) for all sets of categories, addresses and
sizes and every hash function, from `MemAssumption` and `0 \notin ReallocSizes`: `realloc` to size 0 frees
the block and `mem_realloc` keeps its entry, so without that assumption `OwnedExactly` is false.

None of these invariants is inductive alone. That the entry of a pointer is found by its hash needs that entries are in the chain of
their address (`Hashed`) and that no chain has two for one address (`OneEntry`). For the second to survive
`malloc`, an address `malloc` may return must not be tracked: every unstored entry's block is live (`TrackedLive`), and stored
pointers are not heap addresses (`EntryKind`). That no entry points to a deleted category needs the same of
the category table (`InfoHashed`, `InfoUnique`, `InfoNamed`). `Core` is the conjunction; it
speaks of tables and heap only, so each operation's lemma (`AddTypeStep` ... `FreeStep`) says that the operation preserves
`Core`, whoever performs it, and the steps of `mem_free_all` reuse the lemmas of `mem_free` and `mem_del_type`. `IInv` adds the
types of the loop's cursors and `WalkFresh`.

On top of it, `FreeAllIsExact` needs to know what `mem_free_all` has already done: `Behind` says that behind its cursors, in the buckets passed and in
the part of the chain passed, no entry matches, and that in its second loop no entry is left at all, which is why `mem_del_type` refuses no category there
(`FreeAllDeletes`). `InfoListed` (a structure that exists is in a chain) turns empty chains into "no category exists". `BytesAreKept` needs that the
recorded size of a block is what the C library gave it (`SizesExact`). That is false when `mem_calloc` is asked for several members, which is finding 1 (run
*mem_calloc_realloc*), so the theorem assumes `CallocCounts \subseteq {1}` as the passing run of `Mem` does. `ManagerImplements` computes what an operation does to `OwnerBar`,
a `CHOOSE` among the entries of a pointer: there is one only (`Single`), so the function is determined by what it is at each entry (`OwnersAre`). The primed
invariant gives the same for the tables after the step.

**`SessionProofs`** proves `MemoryIsAccounted` and `FreesOnlyOwn`, for every set of connections, every set of types that exist
before, and whatever `suvad` and the suvlets do, from `SessionAssumption` (types are positive, those taken are finitely many, the library's own
type is one of them). `FreeTypeIsFree` says that the loops around `mem_add_type` stop, at a number that is new (there are more numbers ahead
than types, and a set of numbers that is not empty has a least one). So the types of a connection exist and are not the program's (`IdsTaken`),
and its inbound type is no other type of any connection (`IdsApart`). Every live block is the struct, a packet or the queue element of its connection, with that connection's
types (`Blocks`). These three give `FreesOwnPackets`: what `scl_free_packet_mem` frees by number is a packet of its own connection. That a held connection has its
memory moreover needs to know that an operation waits only for a connection that is being opened or held (`Waits`) and that a
connection has everything already while it is opened (`AllKept`). Nearly all steps are about one connection that has its types already: `StepOfKeepsInv` treats them
once, and the lemma of an operation shows that it is such a step; `OpenStep` is the exception. Three invariants are
inductive on top of `IInv`: `PacketHeld` (only the operation that waits has a packet, or a connection that was abandoned), `NullInv` (what a connection that was never opened has kept: its
element, or, if a read failed, what `open_suva_conn` abandons), and `PairInv`: until a read gives up, at most one packet, call or answer of a connection is under way, and the operation that wrote
it is the one that waits (`OneUnderWay`). Nothing is ever done with an abandoned connection (`AbandonedStays`). `AnswersAreOwn` and, with the types of what is on the wire, `ConnectionTypeCorrect` follow.

**`SclXferProofs`** proves the four invariants of a transfer for every block size and file: `TransferTypeCorrect`, `AnswersArePaired`, `RemoteHandleKept` and
`ExitCodeIsRight`. Except for the types everything is said of transfers in which no read has failed, as in the code: after that a caller may read the answer of another call.
The inductive invariant (`Intact`) ties the two sides together: `Turns` says for each `pc` which call or answer is under way and whether it was read; `Files` that
the target is what was read of the source so far, with the block that is under way, unless a fault is in `history`; `Causes` that `code` is what `history` says.
`Files` needs arithmetic on blocks: a source is read in whole blocks until one is short, and an empty block is the only one that ends a GET with code 7.

**`SclStreamProofs`** proves `StreamTypeCorrect`, `ReaderIsNotMisled` and `FramingImplements`, for every list of packets, however their values are split into calls, every
capacity and every time-out. The lengths of packets are recursive functions over the list of values; that they are what their equations say (`CallEndsFacts`, `UptoFacts`)
is shown from the least index at which they would not be (`RunningSum`, `Rises`). `Place` numbers the words of all packets. `InOrder` says that the words the reader has taken and can take are words of the
packets, in the order of their places, and before what is still to be written: no failure changes that. `Whole` says that until a transfer is cut no place is missing between the reader and
the writer, and that the reader began at the place where a packet, or its payload, begins; so what it takes for the opcode and the length are the opcode and the length (`WordAtPlace`).
With that each step is a step of `PacketChan` or none (`StepImplements`): `Send` is the write of a packet's last word, `Receive` the read of its payload, `Cut` what gives up words.

**`DbDiffProofs`** first proves that the loop of `get_match` implements `FileSearch`, for all files (`SearchImplements`). `SearchInv` is a loop invariant on a
circle: the lines read so far, from where the search began to where it is, do not hold the needle, in two cases, before and behind the end of the
file. Then it shows that `db_diff` is a caller of `get_match` (`DbDiffSearches`), so that `SearchInv` is at hand, and proves
`NothingIsMissed` and `ReportedBefore`: `CompareInv` says that every line compared so far is in the file or in the report, unless the report was cut, `WriteInv` that what
is written is accounted for or told (`Told`: the lines of the report, or all, when it was cut), and `FileInv` that what was in the file is accounted for.

**`SecurityAuditProofs`** begins with `LineBuffer`: what `add_line` writes behind its memory is bounded, and its text is whole or marked (`BufferIsSound`), for all lines and lengths. `BInv` speaks
of the middle of `add_line` as well, where the text lacks the line that is being added, and where only the error text can be marked already.
The suvlet uses the buffer that way: every step of the suvlet is a step of the buffer or leaves it alone (`SuvletUsesBuffer`, `AuditBufferIsSound`). `ChildrenAreConserved` is
counting: each step changes the number of children and what is owed by the same amount (`Balanced`). It gives `Alone`: when no call has
returned early, and only one child is owed for, there is only one, and `wait` can take no other. With it `RightChild`, that the child a call waits for is the one it started and that its status is
the truth, is inductive, and implies `AideDbStaysWhole` and `AnswersAreTrue`. `DirIsKept` rests on `RemovalsApart`: children that still remove a directory,
which an early return may have left behind, remove each another one, and `tmpDir` only while `rmdir` waits.

**`SoftwareProofs`** proves `ListIsWhole` and `FetchIsWhole` for any number of suvlets, runs and lines. Types first: a new list finds an inode nobody uses, because inodes in
use are no larger than the number of runs begun (`Numbered`). Then, while no mishap has happened, one process at most makes a list (`AtMostOne`); the file that
`packages.xml.new` names and that process's buffer are together the head and the entries of its run (`Listing`), so that `fclose` completes the list
(`BegunEnds`), and a list that is finished is of a run no process is in the middle of (`Settled`), so that it stays what it is. A process that fetches holds an inode
that is not the new file's and whose content is finished (`Fetching`): renaming over its name, and writing to `packages.xml.new`, do not touch it.
`StepTidy` says once what a step of one process leaves to the others; each action's lemma adds what it does to its own process.

**`SclCodecProofs`** proves all three properties of the byte format for every value the types allow, as long as the length of a packet fits an `int`.
What `FlattenSeq` does is found by least counterexample (`FlattenIsUpto`, `FlattenPlaces`): the k-th sequence stands between `EndOf(.., k - 1)` and `EndOf(.., k)`.
`WrittenFacts` compares the two switches of the writer, type by type, and `WordFacts` the four bytes of an `int` with the sum the reader makes of them, so
that a packet of the stream is cut where it was joined (`CutApart`, `ReadKeeps`). `TakesValue` is the heart: where the bytes of a value stand (`Holds`),
one call of `scl_get_value` returns a pointer that `Denotes` the value, moves the cursor over its bytes and touches no other. For an array of strings that is
a statement about its loop: after k strings the first k length fields are zero and nothing else has changed (`Cleared`, `AfterNext`), so each text still ends with a zero,
the first byte of the next length field or the last byte of the array (`TakesStrings`). The invariant `Reads` then says that the cursor stands between the values that are
denoted and the values that stand as they were written; `DenotesStays` keeps the former while the latter are taken, and `DenotesSent` reads the value back.

Only model-checked: liveness (`FreeAllReturns`, `Terminates`, `CallsReturn`, `AllDelivered`, `OperationsReturn`, `SuvletEnds`, `Returns`), because fairness and `ENABLED` are
beyond the prover. Every invariant, action property and refinement that a passing run checks is stated by a theorem, under the assumptions on constants named above.

## Not modelled

The repository has about 107 000 lines of C; some 100 000 of them are findutils 4.5.11, which is shipped with the SecurityAudit suvlet, built, and
never called other than as the program `find`. Of the 6 900 lines that are compat-suva's own, 2 500 are mapped. The rest:

- `realloc` to size 0 (`mem.c:325`), which `mem_realloc` takes for a failure: its entry then refers to a freed block.
- `mem_dump`, `mem_plot` (compiled out), failures of `malloc` in `mem.c`, free callbacks that call the memory manager again.
- Exit code 10 of a transfer: `gettimeofday` does not fail with the arguments it gets (`scl_inlines.c:462`, `543`).
- The progress report of `scl_il_xfer_ex` (floating point) and the getters `scl_il_get_*` other than the api version.
- `get_additional_packet_mem`, error handlers, sockets and host lookup of `open_suva_conn` other than by their failure; the big-endian branches of the codec, and
  data or arrays read without `array_len` (`scl_reader.c:154`), which no caller does.
- The memory of the suvlet's own connection, which its receiver sets up by hand, and the generated skeletons that unpack arguments.
- SecurityAudit: `get_uid_zeros`, which only reads `/etc/passwd`; what the bytes written outside a buffer hit; a child that blocks on a full pipe; two
  suvlets on one database (each of `db_diff`'s rewritings would be at the mercy of the other's, as in `Software`).
- Software: how a line of `rpm` or `ls` becomes an entry, and `payload` beyond its array.
- DeviceInfo: each call parses the output of `df`, `free` or `uptime`; there is no state between calls and nothing concurrent.
- `sutil.c` and `crc.c`: string helpers, logging, sockets, a table. `pid_lock` and its relatives are called by nothing here.
- The helper programs of SecurityAudit exec or read one file and exit; `software-wrapper` runs one script. The build files have no behaviour.

## Plan

Done: memory, values, stream, session, transfer (in that order), then the two suvlets that keep state. What is left, the most useful first:

1. *Composition*: the suvlet's own connection and memory inside `Session`, with `MemAbs` as the memory of both sides.
2. *SecurityAudit*: two suvlets on one database.
3. *PidLock*, if some program of the repository begins to use it: `pid_lock`, `pid_unlock`, `pid_status` with three processes.
