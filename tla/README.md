# A verification of aesdchar and aesdsocket

This directory holds TLA+ models of the two programs that are the core of this
repository and that run together on the target:

* **aesdchar** (`aesd-char-driver/`), a kernel module whose device `/dev/aesdchar`
  remembers the last ten complete lines written to it;
* **aesdsocket** (`server/`), a threaded TCP server that writes what clients send
  to that device, and sends back what the device holds.

Around them it models what loads and unloads the driver, the earlier server without
threads, and the example that starts processes. TLC checks the models on small
instances, and TLAPS proves the safety properties for every value of the parameters.

## 1. Inventory

| component | source | state | operations |
|---|---|---|---|
| circular buffer | `aesd-circular-buffer.[ch]` | `entry[]`, `in_offs`, `out_offs`, `full` | init, add_entry, find_entry_offset_for_fpos |
| driver | `main.c`, `aesdchar.h`, `aesd_ioctl.h` | `dev->aesd_buffer`, `dev->aesd_entry` (the partial write), `dev->lock`, one `f_pos` per open file, the kernel heap | open, release, read, write, llseek, unlocked_ioctl |
| driver module | `main.c` 256-317, `aesdchar_load`, `aesdchar_unload` | the registered region, the cdev and the kernel's probes for it, the node in `/dev` | insmod, rmmod, each command of the scripts |
| server | `aesdsocket.c`, `linkedlist.h` | `running`, `server_socket`, `client_socket`, the list of nodes, `file_mutex`, each worker's locals, the descriptors of the process | the main loop, one worker per connection, the signal handler |
| server, file-backed build | `aesdsocket.c` under `#ifndef USE_AESD_CHAR_DEVICE` | the above, `list_mutex`, `/var/tmp/aesdsocketdata` | its own worker, a timer thread |
| start and stop script | `aesdsocket-start-stop.sh` | none | start, stop (TERM, then KILL), restart |
| server without threads | `aesdsocket-nothread.c` (not built) | `server_socket`, `client_socket`, `buffer`, the descriptors, the port, a file | listen, accept, serve, cleanup, signal handler |
| system calls example | `examples/systemcalls` | the processes, what stdout has buffered | do_system, do_exec, do_exec_redirect |
| threading example | `examples/threading` | a mutex and a record per thread | start a thread |
| finder-app, tests, CI | `finder-app/`, `student-test/`, `*.sh` | none that lasts | write a file, count lines, build an image |

**How they interact.** Clients talk to the server over TCP. A worker of the server
opens `/dev/aesdchar` for its connection and calls the driver: `write`, `lseek` and
`read` for a request that is data, `ioctl(AESDCHAR_IOCSEEKTO)` and `read` for one
that contains `AESDCHAR_IOCSEEKTO:<cmd>,<offset>`. Every driver call but the open
is made with `file_mutex` held. The driver serialises the calls of all files with
`dev->lock`, and keeps the lines in the circular buffer, whose entries point to
blocks of the kernel heap. The handler of SIGINT and SIGTERM unlinks the device
node and closes the listening socket; the start script starts the server again.

**Which behaviours are hard.**

* *Driver.* Calls sleep in `copy_to_user` and `copy_from_user` with the lock held,
  and go on afterwards with pointers and sizes they read before. Memory is freed by
  one call (the eviction of the oldest line) that another call may have looked up.
  Each copy and each `kmalloc` may fail. One partial write is shared by all writers.
  `in_offs = out_offs` means empty or full. Positions, slot numbers and write
  numbers are three different things. Nobody initialises the mutex.
* *Module.* One cdev is added twice and deleted once, either addition may fail, and
  programs open the node, or make a file of that name, between any two commands.
* *Server.* A reply takes many reads and sends, between which other workers want to
  write. A signal may come at any step of the main thread: between the test of
  `running` and `accept`, or in the middle of a `syslog`, whose lock the handler then
  waits for and the whole process has to do without. Clients vanish while they
  are sent their answer. Descriptors run out. After a restart the name
  `/dev/aesdchar` may stand for a regular file.
* *Server without threads.* Globals keep the numbers of closed descriptors; each early
  return leaves something open; the handler runs anywhere, even in another handler.
* *System calls.* A child is a copy of the caller, its unwritten output included, and
  may return into it; an interrupted wait leaves a child behind.

**What makes them correct.** For the driver: the ring is well formed; every block
has one owner and is not used once it is freed; what a sleeping call remembers is
still so when it wakes; a read delivers consecutive bytes of the stored lines; only
complete lines are stored, in order, and only the oldest is lost. For the server:
an answer is one snapshot of the device, with the client's own line at its end;
workers finish, clients that wait are accepted, and the loop ends after a signal, all
of this as long as the handler does not deadlock. Together: two workers never meet at the uninitialised lock.
For the module: a node leads to a driver that is loaded. For the server without
threads: what is closed by number is its own, and it serves again. For the system
calls: TRUE means that this call's command succeeded, and one process goes on.

`PROJECT.json` lists the hazards behind these properties, each at its line.

## 2. Modules

| module | what it is |
|---|---|
| `AesdCircularBuffer` | the ring as pure operators: `AddEntry`, `Evicted`, `FindEntry`, `SizesUpTo`, and `WellFormed`, what they assume of each other |
| `AesdChar` | the driver: one action per call, or two where the call sleeps in a copy; EXTENDS the ring |
| `AesdLog` | the abstract device: a window of lines and one partial write, three actions |
| `AesdSocket` | the server, its clients and the script; uses `AesdLog` for the device |
| `AesdSocketFile` | the same server built without `USE_AESD_CHAR_DEVICE`: workers and a timer thread on a regular file |
| `AesdSystem` | the composition: the server's workers, and other programs, with `AesdChar`'s actions for their driver calls |
| `AesdModule` | `AesdChar` being loaded and unloaded by the scripts while programs use the node |
| `AesdSocketNothread` | the server without threads, call by call |
| `SystemCalls` | the three functions of the example and the processes they start |
| `MCAesdChar`, `MCAesdSocket`, `MCAesdSocketFile`, `MCAesdSystem`, `MCAesdModule` | model values, bounds, symmetry and views for TLC |
| `SequenceLemmas` | lemmas about sequences and `FlattenSeq` that the proofs share |
| `AesdCharProofs`, `AesdSocketProofs`, `AesdSocketFileProofs`, `AesdSystemProofs`, `AesdModuleProofs`, `AesdSocketNothreadProofs`, `SystemCallsProofs` | the theorems: the ring's and the driver's in the first, then one module per component |

### The driver (`AesdChar`)

A pointer is a block (a model value) or `NULL`; `heap` gives the bytes of every
block, or `FREE`. A file's `pc` is `closed`, `open` (no call in progress) or the
copy it sleeps in; `local` is what the call keeps across it. So `aesd_write` is
`WriteFirst` or `WriteAppend` (down to the copy) and then `WriteEnd` or
`WriteFault`; `aesd_read` is `ReadBegin` and then `ReadEnd` or `ReadFault`, or
`ReadEOF`; `aesd_llseek` and the ioctl do not sleep and are single steps. `f_pos`
moves as the VFS and the handlers move it: a read advances it, a write leaves it
alone, `SEEK_SET` leaves it alone. `result` keeps what the last call returned.

`Contend` is a call that finds the lock taken. The mutex is zeroed and never
initialised: the call may spin until the lock is free, which is the same as coming
later and needs no action; be interrupted; or enter the slow path, whose wait list
has null links. The kernel then oopses and nothing is promised after that. The
interruption is allowed whenever the lock is taken, which is more than the kernel does.

Not modelled: writes and reads of zero bytes (`kmalloc(0)`), one `struct file` used
by several threads at once (its `f_pos` would race), sizes near 2^31. The sum of an
`int` and a `uint32_t` in the ioctl is modelled modulo `Uint32`.

### The abstract device (`AesdLog`)

`Extend` keeps the bytes of a write that completes no line; `Complete` and `Replace`
move the completed line into the window, at the expense of its oldest line when the
window is full. `AesdChar` implements it under the mapping that reads the window off
the ring, oldest first (property `ImplementsLog`): the two-step writes, the copies,
the frees and the failures are all invisible or atomic. `first` is the slot of the
oldest line; it is part of the abstract state because the ioctl shows it.

### The server (`AesdSocket`)

`main` is the place of the main thread, `handler` that of `cleanupsignal` (which runs
in place of it), `pc[c]` that of the worker of connection `c`. The main thread's
actions follow the code: `Listen` (socket, bind and listen), the loop with `Test`,
`AcceptFails` and `Continue` / `AcceptWaits` and `Accept`, `CreateThread`, `AppendNode`,
`RemoveFinishedThreads`, and `MainExits`, which stands for every way out of
`serversocket`. A worker's are `Receive` (any part of what has arrived), `Open` and
`Opened`, `Lock`, `SeekRequest` or `WriteRequest`, `Reply` once per read and send,
`ReplyEnds`, `Finish`. `fds` holds the open descriptors by what they belong to. The
handler is two steps: `Signal` (unlink, and then the syslog, where it may stay) and
`HandlerReturns` (clear `running`, close).

`syslog` has one lock for the whole process. `Logging` lists the places at which the main
thread may be inside a syslog of its own when the signal comes: the handler then waits
for a lock its own thread holds (`stuck`), and every other thread waits at its next
syslog. Each step of a worker that logs has the guard `CanLog`. Between `Listen` and the
loop nothing is logged, so at the first `Test` the handler cannot deadlock.

The device is `AesdLog`'s state and a position per worker; the driver calls of one
critical section that nobody can get between are one step, the reads are one step
each, since a signal, a reset or the end of the process can fall between them. A read
asks for `BufferSize` bytes and returns at most that, and at most one stored write; the
sum of the ioctl's position wraps at `Uint32`, as in the driver. A byte of a request may stand for `AESDCHAR_IOCSEEKTO:` with its arguments, which
`SeekArgs` gives. Request bytes, not characters, are counted against `BufferSize`.

External, and modelled as the code uses them: clients (`Connect`, `Reset`), TCP (a
reset may lose what was sent last; the first send after it fails and the second
raises SIGPIPE), `accept` (it reserves its descriptor before it waits, and is
interrupted by the handler), the end of the process, `start-stop-daemon`'s kill. The
signal is delivered to the main thread, as Linux prefers. Not modelled: a second
signal while the handler runs, an I/O error on the regular file, the order of nodes
in memory, and descriptor numbers being reused between the two closes of
`server_socket`.

### The file-backed build (`AesdSocketFile`)

The code under `#ifndef USE_AESD_CHAR_DEVICE` shares the main loop and the handler
with the other build, the deadlock of its syslog included (`Logging`, `CanLog`), and
differs in its worker and its timer thread, which the main thread joins before it ends. The file is a
sequence of pieces: a chunk is what one `recv` returned or one timestamp, and stdio
hands a large chunk to the file partly in `fwrite` and the rest in `fclose` (`Fwrite`,
`Fclose`); a timestamp is small and goes in `fclose` alone. `files` holds every file
the name has stood for and `name` the current one: the handler's `unlink` sets it to
0, and the next `fopen(path, "a")` makes a new one. `readfile` is one step, since
whoever might write waits for `list_mutex`. A failing `fopen` leaves the mutex locked
(`WriteOpenFails`, `ReadfileFails`), as the early returns at 78 and 101 do. `Send` goes
to `client_socket`, the connection accepted last.

The list of nodes, the worker's own socket (which this build never sends to) and
restarts are as in `AesdSocket` and left out; so is a second signal while the handler
runs. When the handler is stuck, a thread may be caught behind `list_mutex` at a syslog
inside `readfile` or `writefile`; it is taken not to have come so far, which is the same
to all but the threads that would wait for it, and those wait at their own syslog.

### The server on the driver (`AesdSystem`)

`AesdSocket` takes the driver calls of a critical section for one step, which is right
only if nobody else is in the driver. Here a worker's section is spelt out, from the
open to the unlock of `file_mutex`, and each call is `AesdChar`'s own action with its
sleeps, faults and failed allocations: `Lock`, `WriteCall` / `WriteReturns`, `Rewind`,
or `SeekCall`, then `ReadCall` / `ReadReturns` until `Unlock`. Workers are the files
they open. `Outsiders` are files of other programs, which open, read, write and close
at any moment and do not know `file_mutex`. `seen` is a history variable: what has
happened to the device since the worker took the mutex. Sockets, signals and the main
thread are `AesdSocket`'s and left out; so are workers that a vanished client stops
before their open.

### Loading and unloading (`AesdModule`)

The commands of `aesdchar_load` (`insmod`, `rm`, `mknod`) and of `aesdchar_unload`
(`rmmod`, `rm`) are one action each, except that `insmod` is two: `Insmod` up to the
first `aesd_setup_cdev` and `SecondSetup` for the one that decides. `probes` is the
kernel's list for the device number: `cdev_add` prepends, `cdev_del` takes one away, so
every unload leaves one that points into freed memory. `open` follows the first
(`Reaches`). `wild` is set when a program reaches a module that has gone. The open files
behave as in `AesdChar`; `Rmmod` frees what `aesd_cleanup_module` frees and starts the
driver's memory anew.

Taken as given: the module is always given the same number; the scripts run one after
the other and nobody else loads or unloads; `insmod` needs no other file. Left out:
`chgrp` and `chmod`, and a region that is refused (it changes nothing).

### The server without threads (`AesdSocketNothread`)

Each system call of `serversocket` is an action, and descriptors are numbers, because
`cleanup` closes by number and the globals keep numbers that were closed. A closed
connection may linger and keep the port until `Expire`. `bind` or `listen` failing,
`accept` failing and `malloc` failing each return from `serversocket` at a different
point, with different things still open; main calls it again at once. `handlers` is the
stack of signal handlers: one may find main or another handler in `syslog` or `closelog`,
and deadlock before it has closed anything, or in `malloc` or `free`, and deadlock after. The bytes that are read and sent are left out: a chunk completes a request or
does not, and the file exists or does not.

### The system calls (`SystemCalls`)

Processes are records with their place in the code, parent and child, and the texts
that wait in their copy of stdout's buffer; ids are used again. `Fork` copies the
buffer, `Execv` discards it, `exit` writes it. `dup2` failing returns into the program
in the child. `Waitpid` waits for the id of the call's own child, `WaitpidFails` is an
interrupted wait. The program around the functions prints, calls and exits. Left out:
arguments, and the caller's own descriptor of the output file.

## 3. Runs

All runs are exhaustive over their bounds. "violation" runs show a disagreement
between the code and what a document or message of the repository says of it;
section 5 lists them.

| run | instance | checks |
|---|---|---|
| `driver_memory` | 2 files, ring of 2, 4 blocks, reads of 1 and 3 bytes, seeks, partial write of at most 3 | `TypeOK` `BufferShape` `BlocksOwnedOnce` `SizesMatch` `ReaderBlockLive` `WriterUpToDate` `StoredLines` `NoNewLeak` `ReadDeliversWindow` `ImplementsLog` `PoisonedForever` |
| `driver_seek` | 1 file, ring of 3, 5 blocks, all seeks, positions up to 7 | `FindIsStreamIndex` `SeekFindsSlot` `SeekEndIsEndUntilFull` |
| `server_reply` | 2 connections, requests: a line, a bare newline, a seek; a device with one entry, longer than a read | `ReplyIsSnapshot` `OwnLineIsLast` `WorkersFinish` `WaitingAreAccepted` |
| `server_signals` | 1 connection, every request, 3 descriptors, 2 signals and restarts, new and used devices | `TypeOK` `StopsAfterSignal` `WorkersFinish` |
| `system_calls_in_driver` | 2 workers and 1 outsider, ring of 2, every call may sleep and fail | `WorkersNeverContend` `AnswerIsSnapshot` |
| `file_serve` | 2 connections and the timer thread, one chunk each, 2 signals, any `fopen` may fail | `TypeOK` `ChunksWhole` `OwnLineInReply` `LostLockIsForever` `StopsUnlessLost` |
| `module_load` | 2 loads and unloads, 2 files, either `cdev_add` may fail | `NodeHasDriver` `NodeReachesDriver` `LoadedHasNode` `UnloadLosesPartialOnly` |
| `nothread_serve` | 3 connections, 4 descriptors, 2 signals, every failure | `CleanupClosesOwn` `FreedOnce` `LostPortShutsOut` `ServesAgain` `SignalEnds` |
| `calls` | 3 calls, 4 processes, one text, every failure | `TrueMeansRan` `OneCaller` `TextOnce` |

**Bounds and why they are enough.**

* `MaxOps` is 2 or 3 where the code has 10. The ring treats all slots alike, so 2
  slots already wrap, fill and replace; 3 are used for seeks, where "before slot n"
  and "after the wrap" must differ. The proofs are for every `MaxOps`.
* `Blocks`: the slots, the partial write and the new block of an append need
  `MaxOps + 2`. A leaked block makes them scarce, so failed allocations are reached.
* Payloads are a fragment, a bare newline, and a write of pieces of two lines. These
  are the cases `checkCR` tells apart.
* `MaxPending` bounds the partial write, `MaxPos` the positions llseek reaches: one
  past the largest window and more. Both are guards, and unbounded in the code.
* `Uint32 = 16` with an offset of 15 makes the wrap of the ioctl's sum happen.
  The server's requests have an offset of `Uint32 - 1` too, which is what `%d` makes of -1.
* `BufferSize = 4`: a line fits, a request of four bytes does not, and an entry of five
  bytes that another program has written comes in two reads.
* `MaxFds`: 5 serve two connections (the listening socket and two per worker) and then
  leave none for accept; 3 make `accept` and `open` fail. `MaxSignals` counts the signals; a
  second one may meet the first one's main thread in a syslog, or come after a restart with
  an unlinked device. `server_reply` has none: two workers and two signals are beyond a
  run, and the deadlocked handler stops a worker of `server_signals` as it would stop two.
* `file_serve`: a chunk per worker and one timestamp after the signal (`MaxTicks = 0`
  counts those before it) put three writers at the mutex at once; the file then has
  up to five pieces, one more than `BufferSize = 4`, so that an answer is cut off too. The
  second signal finds the main thread at the syslogs after the loop, or after the join.
* `Windows`: the device is new, or other programs have filled it, so that the first line
  already replaces one; in `server_reply` it holds one line, so that the second worker's
  line replaces it.
* `system_calls_in_driver`: three files suffice for a worker asleep in the driver, one
  that waits for `file_mutex`, and a program that contends for the lock. Partial writes
  of two bytes give lines, bare newlines and one that waits for its newline.
* `module_load`: the second load meets the probe the first has left, and the node, the
  files and the blocks of the first.
* `nothread_serve`: four descriptors are exhausted by two that are lost and two in use;
  a third connection comes after a failure of each kind. Two signals nest.
* `calls`: four processes are a caller, a child an interrupted wait has left, the child
  of the next call, and one more; three calls let an id be used again.
* `VIEW`: the views drop `result`, which says what the last call returned. No guard
  reads it, and the properties that do look at its new value, in the step that sets it.
  `MCAesdModule`'s also drops the positions of closed files, which open resets.

`CHECK_DEADLOCK FALSE` is stated in every cfg: the driver stops after an oops, the servers
may rest in `accept` when every connection of the instance has been served, and the
program of `SystemCalls` ends.

**Fairness.** The driver's properties are safety and need none. The server's
specification has weak fairness of the main thread, of the handler's return, and of
each worker's own steps: threads are scheduled. A worker that waits for `file_mutex`
is weakly fair only while the mutex is free; this suffices because each worker takes
it at most twice, so nobody is overtaken for ever. There is none for `recv` (nothing
obliges a client to send), for clients, or for signals. That clients read what they
are sent (or vanish) is an assumption: `send` waits for them with `file_mutex` held,
so one client that does neither stops every worker. `WorkersFinish` and
`WaitingAreAccepted` except a handler that has deadlocked, since the threads then wait at
their next syslog. The file-backed build has weak
fairness of the main thread's steps that do not wait for a client, of the handler's
return, of the timer thread and of each worker but for `recv`. `StopsUnlessLost` needs
no more: once `running` is clear each thread takes the mutex at most a few times.
`AesdSocketNothread` has weak fairness of the one thread's steps that wait for no client
and of the handler's. `WaitingAreAccepted` excepts a server out of descriptors, which is
where finished workers that are never removed lead; `ServesAgain` excepts the time a
closed connection holds the port, during which each failed `bind` costs a descriptor.
The module and the system calls are checked for safety only.

## 4. Proofs

Every safety property a run checks is also a theorem, for every value of the constants.
The prover cannot do liveness, so those properties are model-checked only (below).
An invariant is seldom inductive as the run states it; each module names the stronger
one it proves instead, which TLC has found to hold on the instance of a run first.

**`SequenceLemmas`** holds what the others share about sequences: parts, joins and ends of
them, and `FlattenSeq`, which puts the writes of the device end to end. The library
defines it by recursion, and induction cannot be used with these provers; the lemmas use
instead that a set of naturals has a least element (`NatLeast`): a first number at which
a claim fails would contradict the equation that defines the number after it.
`FlattenIndex` then finds the k-th sequence in the whole at the running total of the
lengths before it.

**`AesdCharProofs`** begins with the operators, for every `MaxOps > 0`: `AddEntryWellFormed`
(`AddEntry` keeps the ring well formed) and `FindEntryOfSlot`, `FindEntryTotal` (the
position made of the sizes before a slot and an offset inside it is found there; every
position below the total is found, no other is). They rest on `Before`, the running
total, being monotone.

The driver's inductive invariant, for any files, blocks and payloads, is `Inv`
(`InvHolds`): the conjunction of `TypeOK`, `BufferShape`, `BlocksOwnedOnce`, `SizesMatch`,
`ReaderBlockLive`, `WriterUpToDate` and `StoredLines`. None of these but the type and
the shape is inductive alone: a reader's block stays live because only the file that
holds the lock changes the ring (`WriterUpToDate` says that a file asleep in a copy
is the one that holds it); a freed block was owned once, by the evicted slot
(`BlocksOwnedOnce`), so nothing else pointed at it; the stored entry is a line
because its size is its block's length (`SizesMatch`) and `checkCR` found the first
newline at that place. One lemma is about types and one about each group of actions
that touches memory; actions that touch none fall under `QuietStep`. On it rest, beside
the parts of `Inv` themselves:

* `SeekAgreesWithFind`, `FindIndexesStream`, `SeekEndExact`: where the driver's loops over
  the ring lead, compared with the stored bytes end to end. `StreamValue` ties the two:
  the k-th write starts where the running total says.
* `DriverImplementsLog`: the refinement. The initial states correspond, and each step of
  the driver is a step of `AesdLog` or none. All the work is in `LogWriteEnd`, where the
  call that completes a copy is shown to be an `Extend`, a `Complete` or a `Replace` of
  the bytes it kept across its sleep.
* `OneLeakOnly` and `PoisonIsForever`, action properties.
* `ReadsTheWindow`: what a read delivers. `ReadInv` is inductive relative to `Inv` and says
  where a reader asleep stands: the block it copies from is still that of the k-th write,
  and its position is the total before that write plus what it skips.

**`AesdSystemProofs`** is about the composition, for any number of workers and other
programs. `SystemUsesDriver == SystemSpec => Spec` says that the driver sees nothing but
a behaviour of `AesdChar`, which makes every theorem about the driver one about the
whole. `ServerNeverContends`: `file_mutex` and `dev->lock` know nothing of each other;
`ContendInv` ties them, for exactly the worker inside its section holds `file_mutex`, and
a worker that holds the lock is asleep in the write or the read of its section.
`AnswersAreSnapshots` follows the answer of each worker through its section (`AnswerInv`)
beside `Inv` and `ReadInv`: the position is 0 until the last write has returned, and
then it grows with the answer.

**`AesdSocketProofs`** is about the server, for any connections, requests, limits and
contents of the device. `OneWorkerInDriver` has that exactly the worker between its lock and its unlock holds
`file_mutex` (`DriverSerial`); it needs `SerialInv`, which follows each connection
from connect to `pthread_create`: a worker that has not been created has not run.
`SocketInv`, inductive relative to it, says of every worker what it has counted, stored
and sent so far, which gives `TypeCorrect`, `RepliesAreSnapshots` and `OwnLineComesLast`.
That nobody writes while a worker replies is `SerialInv`'s.

**`AesdSocketFileProofs`**: `TypeCorrect`, `ChunksStayWhole`, `OwnLineIsSentBack`, `LostStays`.
`FileInv` says what `list_mutex` protects: a thread inside `writefile` holds it, and only
the last piece of the one file that thread has open may wait for its tail; a worker that
comes to `readfile` has its chunk in the file, or the mutex is lost.

**`AesdSocketNothreadProofs`**: `ClosesItsOwn`, `FreedOnceAlone`, `LostPortStays`. `NothreadInv`
says, for each place in `serversocket`, which descriptors are open as long as no handler
has run, and that a handler that is alone has not freed the buffer before its own free.

**`AesdModuleProofs`**, for any number of loads and files: `DriverBehindNode`,
`NodeLeadsToDriver` and `LoadLeavesNode` from `ModuleInv`, which says which commands of the
scripts run with the module in which state, that the first probe is that of the loaded
module, and that the node is gone between `rm` and `mknod`. `UnloadLosesLittle` needs the
driver's `Inv`, which outlives a load (`LoadedInvHolds`): the calls of open files are
`AesdChar`'s, and `RmmodDriver` shows that an unload restores it.

**`SystemCallsProofs`**, for any number of processes and calls: `OneProcessGoesOn` and
`TrueIsOwnChild` from `CallsInv`, which has that a process that waits is the parent of the
child it waits for, and that this child has not been reaped; hence an id that is used
again cannot bring another command's status. `TextOnlyOnce` needs `TextInv`: of all the
copies of a text, unless a failed `execv` excuses it, at most one is still to be written,
and none once the text has been.

The assumptions are the named ASSUMEs on the constants (`BufferAssumption`,
`DriverAssumption`, `ServerAssumption`, `FileAssumption`, `SystemAssumption`,
`ModuleAssumption`, `NothreadAssumption`, `CallsAssumption`), which
TLC evaluates in every run of their modules. `SystemAssumption` has the server read
with a size, and seek to an offset, that the driver's instance knows.

**Only model-checked:** the liveness properties `WorkersFinish`, `WaitingAreAccepted`,
`StopsAfterSignal`, `StopsUnlessLost`, `ServesAgain` and `SignalEnds`. Liveness under
fairness is out of the prover's reach, as is anything that needs ENABLED. The properties of
section 5 are violated.

## 5. Where the code and its documents disagree

| run | property | what happens |
|---|---|---|
| `driver_seek_command` | `SeekIsToWriteCommand` | `write_cmd` is a slot number, not a write number (`main.c:234`, `aesd_ioctl.h:27`) |
| `server_signal` | `SignalEndsProcess` | `syslog` in the handler deadlocks with one it interrupted (`aesdsocket.c:52`) |
| `server_send` | `SendFailuresAreLocal` | SIGPIPE ends the server (`aesdsocket.c:315`) |

More are in the models as the code has them, and need no search to be seen.

* *Driver.* A write that succeeded returns `-ENOMEM` (`main.c:157`, 205), which
  `aesdsocket.c:300` logs as a failure. `SEEK_SET` ignores its offset (`main.c:121`,
  against the comment at 119). `SEEK_END` takes a full ring for an empty one
  (`main.c:131`, comment 127; `SeekEndIsEndUntilFull` says that it does so only then).
  The ioctl does not compare its offset with the size of the write (`main.c:239`, against
  `aesd_ioctl.h:31`).
* *Module.* The cdev is added twice and deleted once (`main.c:284`, 286), so each load
  leaves a probe in the kernel; unloading frees the slots and not the partial write
  (`main.c:301`); a program that opens the node with `O_CREAT` between the script's `rm`
  and `mknod` leaves the server with a regular file.
* *Server.* `removeFinishedThreads` starts at NULL and removes nothing
  (`linkedlist.h:77`, 84). The branch that enlarges the buffer is dead, because `recv` is
  always given one byte less than is free (`aesdsocket.c:230`, 250-262).
* *Server without threads.* A failed `accept`, `listen` or `malloc` leaves the listening
  socket open, and every later `bind` fails (`LostPortShutsOut`): one failure costs all
  later clients their service. Each failed `bind` loses a descriptor, each connection a
  buffer. A second signal in the handler of the first frees the buffer again (63).
* *System calls.* `do_system` returns TRUE whatever the status of the command
  (`systemcalls.c:26`; the comment at 12-14 says false "if a non-zero return value was
  returned by the command").
  `do_exec` does not flush before it forks, so a child whose `execv` fails prints the
  caller's text again. In `do_exec_redirect` a child whose `dup2` fails returns into the
  caller's code (151), and may end with 0 there, which its parent takes for success.

In the file-backed build a failed `fopen` costs more than its request: no thread writes
or reads again (`LostLockIsForever`), and if the timer thread is among those that wait,
`main` waits for it for ever. The handler itself can bring this about, by unlinking
the file between a worker's write and its read. `StopsUnlessLost` has that a process whose
`running` is clear ends but for two cases: this one, and a second signal that interrupts a
syslog of the main thread, such as those after the join (407, 410). A first signal may
deadlock in the same way before it clears `running` (52), in this build as in the other;
`server_signal` shows it.

Two of the driver's quirks cancel out: because a write does not advance the position and
`SEEK_SET` does not move it, the server's "write, seek to 0, read everything" works.
`ReplyIsSnapshot` depends on it.

## 6. Plan

Done: the ring, the driver, the abstract log, the server on the device and its composition
with the driver, the file-backed build, loading and unloading, the server without threads,
the system calls, and the proofs named above. The runs are twelve, one for each question;
a new property joins an existing instance or takes the place of a weaker one. Every
safety property of the runs is a theorem. To come:

1. What `AesdSocket` takes for one step, the driver calls of a critical section, as a
   refinement: the composition's section implements the abstract device's.
2. What liveness rests on, as far as it is safety: that a worker which waits for
   `file_mutex` waits for one that can go on.

**Not modelled.** The threading example: a thread sleeps, takes a mutex, sleeps and
releases it; it shares nothing but the mutex, and what it does is one lock and one unlock
on one path. The finder-app programs and scripts, the tests and the CI are sequential and
keep no state. `status` of the start script prints.
