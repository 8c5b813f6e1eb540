----------------------------- MODULE AesdSocket -----------------------------
(***************************************************************************)
(* The server (server/aesdsocket.c and linkedlist.h, as built with         *)
(* USE_AESD_CHAR_DEVICE): the main thread that accepts connections, one    *)
(* worker thread per connection, the signal handler, and around them the   *)
(* clients, the start and stop script, and /dev/aesdchar.                  *)
(*                                                                         *)
(* The device is AesdLog, the specification AesdChar implements, with the  *)
(* position of each open file: a driver call is one step here.  All of     *)
(* them are made under file_mutex, so the steps of one request are split   *)
(* only where other threads can run in between.                            *)
(*                                                                         *)
(* A request is a string of bytes; one byte of it may stand for            *)
(* SEARCHSTRING with its arguments.                                        *)
(***************************************************************************)
EXTENDS Integers, SequencesExt

CONSTANTS
  Conns,      \* the connections; each has its worker thread
  NULL,
  Bytes, NL,  \* the bytes, and the newline among them
  SeekArgs,   \* what sscanf makes of the arguments, for each byte that stands
              \* for SEARCHSTRING: a struct aesd_seekto, or Malformed
  Malformed,
  Requests,   \* the byte strings clients send
  Windows,    \* what the device may hold when the server first starts
  MaxOps,     \* AESDCHAR_MAX_WRITE_OPERATIONS_SUPPORTED
  Uint32,     \* 2^32, the modulus of uint32_t arithmetic
  BufferSize, \* BUFFERSIZE
  MaxFds,     \* the limit on open descriptors
  MaxSignals  \* bound: how many SIGINT or SIGTERM arrive

ASSUME ServerAssumption ==
  /\ NULL \notin Conns
  /\ Requests \subseteq Seq(Bytes)
  /\ Windows \subseteq Seq(Seq(Bytes))
  /\ \A b \in DOMAIN SeekArgs :
       \/ SeekArgs[b] = Malformed
       \/ SeekArgs[b]
            \in [write_cmd : Nat, write_cmd_offset : 0 .. Uint32 - 1]
  /\ MaxOps \in Nat \ {0}
  /\ Uint32 \in Nat \ {0}
  /\ BufferSize \in Nat \ {0}
  /\ MaxFds \in Nat \ {0}
  /\ MaxSignals \in Nat

VARIABLES
  window, first, partial,  \* the device: see AesdLog
  node,        \* what FILENAME names
  files,       \* the contents of the regular files it has named
  running,
  main,        \* where the main thread is; "down" when there is no process
  handler,     \* where cleanupsignal is
  signals,     \* how many signals have been sent
  client_socket, \* the connection accept returned last
  fds,         \* the open descriptors of the process
  list,        \* the linked list of nodes
  file_mutex,  \* the worker that holds it, or NULL
  pc,          \* where each worker is
  local,       \* its local variables
  backlog,     \* the connections accept has not taken yet
  peer,        \* the state of each connection
  wire,        \* what its client has sent and no recv has returned
  received     \* what its worker has sent it so far

device  == <<window, first, partial>>
storage == <<window, first, partial, node, files>>
flags   == <<running, handler, signals>>
process == <<flags, main, client_socket, fds, list>>
workers == <<file_mutex, pc, local>>
clients == <<backlog, peer, wire, received>>
vars    == <<storage, process, workers, clients>>

-----------------------------------------------------------------------------
(* The device and the regular file. *)

Stream == FlattenSeq(window)

(* What one read of BufferSize bytes returns: the rest of the entry pos is *)
(* in, or as much of it as was asked for.                                  *)
ReadDevice(pos) ==
  LET ends == {Len(FlattenSeq(SubSeq(window, 1, k))) : k \in 1 .. Len(window)}
      past == {e \in ends : e > pos}
  IN  IF past = {} THEN <<>>
      ELSE SubSeq(Stream, pos + 1, Min(past \cup {pos + BufferSize}))

(* The position AESDCHAR_IOCSEEKTO leaves: the bytes of the entries before *)
(* slot write_cmd, and the offset, added up in a uint32_t.  (sscanf's %d   *)
(* takes negative numbers too: an offset of -1 arrives as Uint32 - 1.)     *)
SeekTarget(args) ==
  LET before == Min({(args.write_cmd - first) % MaxOps, Len(window)})
      size   == Len(FlattenSeq(SubSeq(window, 1, before)))
  IN  (size + args.write_cmd_offset) % Uint32

(* A write to the device: the log takes it whole, or kmalloc has failed.   *)
Log == INSTANCE AesdLog WITH Payloads <- {}

WriteDevice(bytes) ==
  Log!Extend(bytes) \/ Log!Complete(bytes) \/ Log!Replace(bytes)

(***************************************************************************)
(* FILENAME names the device, nothing, or a regular file: open(O_CREAT)    *)
(* creates one once the handler has unlinked the device.  The k-th signal  *)
(* unlinks what was there before, so each file is known by the number of   *)
(* signals at its creation; the threads that have it open keep it.         *)
(***************************************************************************)
Device  == 0
Nothing == -1

(* What the file worker c has open contains; nothing if the open failed.   *)
Contents(c) ==
  IF local[c].fd = Nothing THEN <<>>
  ELSE IF local[c].fd = Device THEN Stream ELSE files[local[c].fd]

(* What its next read returns. *)
NextRead(c) ==
  LET pos  == local[c].pos
      rest == SubSeq(Contents(c), pos + 1, Len(Contents(c)))
  IN  IF local[c].fd = Device THEN ReadDevice(pos)
      ELSE SubSeq(rest, 1, Min({Len(rest), BufferSize}))

-----------------------------------------------------------------------------
(* The locals of a worker; stored is history: its write has succeeded.     *)
NoLocals ==
  [buffer |-> <<>>, total |-> 0, fd |-> Nothing, pos |-> 0, stored |-> FALSE]

(* Besides these two, server_socket and the one accept has reserved, each  *)
(* descriptor belongs to a connection.                                     *)
ServerFd == <<"server", NULL>>
AcceptFd == <<"accept", NULL>>

Init ==
  /\ window \in Windows /\ partial = <<>>
  /\ first \in IF Len(window) = MaxOps THEN 0 .. MaxOps - 1 ELSE {0}
  /\ node = Device /\ files = [k \in 1 .. MaxSignals |-> <<>>]
  /\ running = FALSE /\ main = "down" /\ handler = "none" /\ signals = 0
  /\ client_socket = NULL /\ fds = {} /\ list = <<>>
  /\ file_mutex = NULL
  /\ pc = [c \in Conns |-> "none"]
  /\ local = [c \in Conns |-> NoLocals]
  /\ backlog = <<>>
  /\ peer = [c \in Conns |-> "none"]
  /\ wire = [c \in Conns |-> <<>>]
  /\ received = [c \in Conns |-> <<>>]

(* The process is gone, its threads, descriptors and connections with it.  *)
ProcessEnds ==
  /\ running' = FALSE /\ main' = "down" /\ handler' = "none"
  /\ client_socket' = NULL /\ fds' = {} /\ list' = <<>>
  /\ file_mutex' = NULL
  /\ pc' = [c \in Conns |-> IF peer[c] = "none" THEN "none" ELSE "dead"]
  /\ local' = [c \in Conns |-> NoLocals]
  /\ backlog' = <<>>
  /\ peer' = [c \in Conns |-> IF peer[c] = "none" THEN "none" ELSE "gone"]
  /\ wire' = [c \in Conns |-> <<>>]
  /\ received' = [c \in Conns |-> <<>>]
  /\ UNCHANGED <<storage, signals>>

-----------------------------------------------------------------------------
(* Clients. *)

Connect(c) ==
  /\ peer[c] = "none"
  /\ ServerFd \in fds
  /\ peer' = [peer EXCEPT ![c] = "up"]
  /\ \E request \in Requests : wire' = [wire EXCEPT ![c] = request]
  /\ backlog' = Append(backlog, c)
  /\ UNCHANGED <<storage, process, workers, received>>

(* The client is gone; what it had sent last may be lost.  (After its      *)
(* worker has finished nothing would notice.)                              *)
Reset(c) ==
  /\ peer[c] = "up" /\ pc[c] # "done"
  /\ peer' = [peer EXCEPT ![c] = "reset"]
  /\ \E n \in 0 .. Len(wire[c]) :
       wire' = [wire EXCEPT ![c] = SubSeq(@, 1, n)]
  /\ UNCHANGED <<storage, process, workers, backlog, received>>

-----------------------------------------------------------------------------
(* The main thread.  It does not move while it runs the signal handler.    *)

At(where) == main = where /\ handler = "none"

(* start: a new process, up to the first syslog of serversocket. *)
Start ==
  /\ main = "down"
  /\ running' = TRUE
  /\ main' = "starting"
  /\ UNCHANGED <<storage, handler, signals, client_socket, fds, list, workers,
                 clients>>

(* socket, bind and listen.  (When one of them fails serversocket returns: *)
(* see MainExits.)                                                         *)
Listen ==
  /\ At("starting")
  /\ main' = "test"
  /\ fds' = {ServerFd}
  /\ UNCHANGED <<storage, flags, client_socket, list, workers, clients>>

(* while (running) *)
Test ==
  /\ At("test")
  /\ main' = IF running THEN "accept" ELSE "close"
  /\ UNCHANGED <<storage, flags, client_socket, fds, list, workers, clients>>

(* accept takes its descriptor first, and then waits; without a socket to  *)
(* accept from, or without a descriptor left, it fails at once.            *)
AcceptFails ==
  /\ At("accept")
  /\ ServerFd \notin fds \/ Cardinality(fds) >= MaxFds
  /\ main' = "failed"
  /\ UNCHANGED <<storage, flags, client_socket, fds, list, workers, clients>>

(* The failure is logged, and continue. *)
Continue ==
  /\ At("failed")
  /\ main' = "test"
  /\ UNCHANGED <<storage, flags, client_socket, fds, list, workers, clients>>

AcceptWaits ==
  /\ At("accept")
  /\ ServerFd \in fds /\ Cardinality(fds) < MaxFds
  /\ main' = "waiting"
  /\ fds' = fds \cup {AcceptFd}
  /\ UNCHANGED <<storage, flags, client_socket, list, workers, clients>>

Accept ==
  /\ At("waiting")
  /\ backlog # <<>>
  /\ main' = "create"
  /\ client_socket' = Head(backlog)
  /\ fds' = (fds \ {AcceptFd}) \cup {<<"client", Head(backlog)>>}
  /\ backlog' = Tail(backlog)
  /\ UNCHANGED <<storage, flags, list, workers, peer, wire, received>>

(* createNode and pthread_create: the worker may run, and even finish,     *)
(* before its node is in the list.                                         *)
CreateThread ==
  /\ At("create")
  /\ main' = "append"
  /\ pc' = [pc EXCEPT ![client_socket] = "start"]
  /\ UNCHANGED <<storage, flags, client_socket, fds, list, file_mutex, local,
                 clients>>

(* pthread_create fails: the loop is left.  (Without memory for the node,  *)
(* createNode exits: see MainExits.)                                       *)
CreateThreadFails ==
  /\ At("create")
  /\ main' = "close"
  /\ fds' = fds \ {<<"client", client_socket>>}
  /\ peer' = [peer EXCEPT ![client_socket] = "gone"]
  /\ UNCHANGED <<storage, flags, client_socket, list, workers, backlog, wire,
                 received>>

AppendNode ==
  /\ At("append")
  /\ main' = "remove"
  /\ list' = Append(list, client_socket)
  /\ UNCHANGED <<storage, flags, client_socket, fds, workers, clients>>

(* Mutant: the cursor is never advanced. *)
RemoveFinishedThreadsLoops ==
  /\ At("remove") /\ list = <<>>
  /\ main' = "test"
  /\ UNCHANGED <<storage, flags, client_socket, fds, list, workers, clients>>

(* removeFinishedThreads, after the pause: its cursor starts as NULL, so   *)
(* it visits no node at all.                                               *)
RemoveFinishedThreads ==
  /\ At("remove")
  /\ main' = "test"
  /\ UNCHANGED <<storage, flags, client_socket, fds, list, workers, clients>>

(* serversocket returns, at its end or because socket, bind or listen has  *)
(* failed, or createNode exits: with main the process ends, and the        *)
(* threads nobody has joined.                                              *)
MainExits ==
  /\ At("close") \/ At("create") \/ At("starting")
  /\ ProcessEnds

-----------------------------------------------------------------------------
(***************************************************************************)
(* cleanupsignal, run by the main thread wherever it is.  unlink comes     *)
(* first; then syslog, which deadlocks when the signal has interrupted     *)
(* another syslog of the same thread: the main thread logs when it starts, *)
(* on its way into accept, when accept has returned or failed, and when it *)
(* has left the loop.                                                      *)
(***************************************************************************)
Logging == {"starting", "accept", "failed", "create", "close"}

Signal ==
  /\ main # "down" /\ handler = "none" /\ signals < MaxSignals
  /\ node' = Nothing
  /\ \/ handler' = "syslog"
     \/ main \in Logging /\ handler' = "stuck"
  /\ signals' = signals + 1
  /\ UNCHANGED <<device, files, running, main, client_socket, fds, list,
                 workers, clients>>

(* Mutant: the handler leaves server_socket open. *)
HandlerReturnsNoClose ==
  /\ handler = "syslog"
  /\ running' = FALSE
  /\ main' = IF main = "waiting" THEN "failed" ELSE main
  /\ fds' = fds \ {AcceptFd}
  /\ handler' = "none"
  /\ UNCHANGED <<storage, signals, client_socket, list, workers, clients>>

(* The rest of it: running = 0 and close.  An accept that was waiting has  *)
(* been interrupted.                                                       *)
HandlerReturns ==
  /\ handler = "syslog"
  /\ running' = FALSE
  /\ main' = IF main = "waiting" THEN "failed" ELSE main
  /\ fds' = fds \ {ServerFd, AcceptFd}
  /\ handler' = "none"
  /\ UNCHANGED <<storage, signals, client_socket, list, workers, clients>>

(* start-stop-daemon --retry 5: a process that a signal has not ended in   *)
(* time is killed.                                                         *)
Kill ==
  /\ handler = "stuck" \/ (main # "down" /\ ~running)
  /\ ProcessEnds

-----------------------------------------------------------------------------
(***************************************************************************)
(* A worker: socketThread.  syslog has one lock for the whole process: the *)
(* deadlocked handler keeps it, and a worker that comes to a syslog then   *)
(* waits there for ever.  A step with a syslog in it is taken only while   *)
(* that lock can be had; a worker the deadlock finds in the middle of such *)
(* a step, with the syslog still to come, is one that has not begun it: no *)
(* other thread uses what the first half of the step changes.              *)
(***************************************************************************)
CanLog == handler # "stuck"

Becomes(c, where) == pc' = [pc EXCEPT ![c] = where]

WorkerStarts(c) ==
  /\ pc[c] = "start" /\ CanLog
  /\ Becomes(c, "loop") \/ Becomes(c, "done")
  /\ UNCHANGED <<storage, process, file_mutex, local, clients>>

WhileRunning(c) ==
  /\ pc[c] = "loop"
  /\ Becomes(c, IF running THEN "recv" ELSE "open")
  /\ UNCHANGED <<storage, process, file_mutex, local, clients>>

(* Mutant: the whole of the buffer. *)
RoomToTheEnd(c) == BufferSize - local[c].total

(* The room recv is given: it keeps one byte of the buffer zero. *)
Room(c) == BufferSize - local[c].total - 1

(* recv returns some of what has arrived.  total_bytes_read can therefore  *)
(* not reach bufferSize, and the branch that enlarges the buffer is dead.  *)
Receive(c) ==
  /\ pc[c] = "recv" /\ CanLog
  /\ peer[c] \in {"up", "reset"}
  /\ \E n \in 1 .. Len(wire[c]) :
       LET bytes == local[c].buffer \o SubSeq(wire[c], 1, n)
       IN  /\ n <= Room(c)
           /\ local' = [local EXCEPT ![c].buffer = bytes,
                                     ![c].total = @ + n]
           /\ wire' = [wire EXCEPT ![c] = SubSeq(@, n + 1, Len(@))]
           /\ Becomes(c, IF Contains(bytes, NL) THEN "open" ELSE "loop")
  /\ UNCHANGED <<storage, process, file_mutex, backlog, peer, received>>

(* recv returns 0: the client has closed its side, or there is no room.    *)
ReceiveNothing(c) ==
  /\ pc[c] = "recv" /\ CanLog
  /\ Room(c) = 0 \/ peer[c] = "broken" \/ (peer[c] = "up" /\ wire[c] = <<>>)
  /\ Becomes(c, "open")
  /\ UNCHANGED <<storage, process, file_mutex, local, clients>>

(* recv returns -1, which is added to total_bytes_read before it is looked *)
(* at.                                                                     *)
ReceiveError(c) ==
  /\ pc[c] = "recv" /\ CanLog
  /\ peer[c] = "reset" /\ wire[c] = <<>>
  /\ peer' = [peer EXCEPT ![c] = "broken"]
  /\ local' = [local EXCEPT ![c].total = @ - 1]
  /\ Becomes(c, "open")
  /\ UNCHANGED <<storage, process, file_mutex, backlog, wire, received>>

(* open(FILENAME, O_RDWR | O_CREAT | O_APPEND), under file_mutex, which is *)
(* released once the open has been logged.                                 *)
Open(c) ==
  /\ pc[c] = "open"
  /\ file_mutex = NULL
  /\ \/ /\ Cardinality(fds) >= MaxFds
        /\ local' = [local EXCEPT ![c].fd = Nothing]
        /\ UNCHANGED <<node, fds>>
     \/ /\ Cardinality(fds) < MaxFds
        /\ node' = IF node = Nothing THEN signals ELSE node
        /\ fds' = fds \cup {<<"file", c>>}
        /\ local' = [local EXCEPT ![c].fd = node']
  /\ file_mutex' = c
  /\ Becomes(c, "opened")
  /\ UNCHANGED <<device, files, flags, main, client_socket, list, clients>>

(* Mutant: the unlock after the open is forgotten. *)
OpenedKeepsLock(c) ==
  /\ pc[c] = "opened" /\ CanLog
  /\ Becomes(c, "request")
  /\ UNCHANGED <<storage, process, file_mutex, local, clients>>

Opened(c) ==
  /\ pc[c] = "opened" /\ CanLog
  /\ file_mutex' = NULL
  /\ Becomes(c, "request")
  /\ UNCHANGED <<storage, process, local, clients>>

(* What strstr and sscanf find in the buffer: the first SEARCHSTRING. *)
HasSeek(c) ==
  \E i \in DOMAIN local[c].buffer : local[c].buffer[i] \in DOMAIN SeekArgs

SeekOf(c) ==
  LET buffer == local[c].buffer
      i == CHOOSE i \in DOMAIN buffer :
             /\ buffer[i] \in DOMAIN SeekArgs
             /\ \A j \in 1 .. i - 1 : buffer[j] \notin DOMAIN SeekArgs
  IN  SeekArgs[buffer[i]]

(* Arguments sscanf cannot read: nothing is done, and nothing is sent. *)
BadRequest(c) ==
  /\ pc[c] = "request"
  /\ HasSeek(c) /\ SeekOf(c) = Malformed
  /\ Becomes(c, "finish")
  /\ UNCHANGED <<storage, process, file_mutex, local, clients>>

(* Both branches take file_mutex first; the seek is logged before that. *)
Lock(c) ==
  /\ pc[c] = "request"
  /\ HasSeek(c) => SeekOf(c) # Malformed /\ CanLog
  /\ file_mutex = NULL
  /\ file_mutex' = c
  /\ Becomes(c, "locked")
  /\ UNCHANGED <<storage, process, local, clients>>

(* The ioctl; when it fails the position is left alone. *)
SeekRequest(c) ==
  /\ pc[c] = "locked" /\ CanLog
  /\ HasSeek(c) /\ SeekOf(c) # Malformed
  /\ local' = [local EXCEPT ![c].pos =
                 IF local[c].fd = Device /\ SeekOf(c).write_cmd < MaxOps
                 THEN SeekTarget(SeekOf(c)) ELSE @]
  /\ Becomes(c, "reply")
  /\ UNCHANGED <<storage, process, file_mutex, clients>>

(* The bytes the write call is given; none when total_bytes_read is -1.    *)
Request(c) == SubSeq(local[c].buffer, 1, local[c].total)

(* Mutant: file_mutex is not kept between the write and the reads. *)
WriteRequestUnlocks(c) ==
  /\ pc[c] = "locked"
  /\ ~HasSeek(c)
  /\ file_mutex' = NULL
  /\ local' = [local EXCEPT ![c].stored = TRUE]
  /\ IF local[c].fd = Device THEN WriteDevice(Request(c))
                           ELSE UNCHANGED device
  /\ Becomes(c, "reply")
  /\ UNCHANGED <<node, files, process, clients>>

(* write and lseek(0, SEEK_SET).  The driver's write leaves the position   *)
(* alone and so does its lseek: the reads start where open left it, at 0.  *)
(* A regular file is appended to, and lseek goes back to 0.  A write that  *)
(* fails is logged, and the reads follow all the same.                     *)
WriteRequest(c) ==
  /\ pc[c] = "locked" /\ CanLog
  /\ ~HasSeek(c)
  /\ \/ /\ local[c].fd = Device /\ WriteDevice(Request(c))
        /\ local' = [local EXCEPT ![c].stored = TRUE]
        /\ UNCHANGED files
     \/ /\ local[c].fd \in DOMAIN files
        /\ files' = [files EXCEPT ![local[c].fd] = @ \o Request(c)]
        /\ local' = [local EXCEPT ![c].stored = TRUE]
        /\ UNCHANGED device
     \/ UNCHANGED <<device, files, local>>
  /\ Becomes(c, "reply")
  /\ UNCHANGED <<node, file_mutex, process, clients>>

(* The end of both branches: file_mutex is released. *)
Unlock(c) ==
  /\ file_mutex' = NULL
  /\ Becomes(c, "finish")

(* Mutant: a read that returns 0 does not end the loop. *)
ReplyEndsGoesOn(c) ==
  /\ pc[c] = "reply"
  /\ NextRead(c) = <<>>
  /\ UNCHANGED vars

(* read returns 0, or fails, which the write branch logs. *)
ReplyEnds(c) ==
  /\ pc[c] = "reply"
  /\ NextRead(c) = <<>>
  /\ ~HasSeek(c) /\ local[c].fd = Nothing => CanLog
  /\ Unlock(c)
  /\ UNCHANGED <<storage, process, local, clients>>

(* One turn of the read and send loop; the write branch logs what it has   *)
(* read, and then what it has sent.                                        *)
Reply(c) ==
  /\ pc[c] = "reply"
  /\ NextRead(c) # <<>>
  /\ ~HasSeek(c) => CanLog
  /\ peer[c] = "up"
  /\ local' = [local EXCEPT ![c].pos = @ + Len(NextRead(c))]
  /\ received' = [received EXCEPT ![c] = @ \o NextRead(c)]
  /\ UNCHANGED <<storage, process, file_mutex, pc, backlog, peer, wire>>

(* send fails.  The seek branch stops; the write branch reads on and sends *)
(* again, and a send to a broken connection raises SIGPIPE, whose default  *)
(* action nothing in the program changes.                                  *)
ReplyFails(c) ==
  /\ pc[c] = "reply" /\ CanLog
  /\ NextRead(c) # <<>>
  /\ peer[c] = "reset"
  /\ peer' = [peer EXCEPT ![c] = "broken"]
  /\ IF HasSeek(c)
     THEN Unlock(c) /\ UNCHANGED local
     ELSE /\ local' = [local EXCEPT ![c].pos = @ + Len(NextRead(c))]
          /\ UNCHANGED <<file_mutex, pc>>
  /\ UNCHANGED <<storage, process, backlog, wire, received>>

BrokenPipe(c) ==
  /\ pc[c] = "reply"
  /\ ~HasSeek(c) => CanLog
  /\ NextRead(c) # <<>>
  /\ peer[c] = "broken"
  /\ ProcessEnds

(* free, finished = FINISHED, and the thread ends; neither descriptor is   *)
(* closed.                                                                 *)
Finish(c) ==
  /\ pc[c] = "finish" /\ CanLog
  /\ Becomes(c, "done")
  /\ local' = [local EXCEPT ![c] = NoLocals]
  /\ received' = [received EXCEPT ![c] = <<>>]
  /\ UNCHANGED <<storage, process, file_mutex, backlog, peer, wire>>

-----------------------------------------------------------------------------
Main ==
  \/ Listen \/ Test \/ AcceptFails \/ Continue \/ AcceptWaits \/ Accept
  \/ CreateThread \/ CreateThreadFails \/ AppendNode \/ RemoveFinishedThreads
  \/ MainExits

(* What a worker does by itself, and what it does when bytes arrive.       *)
Worker(c) ==
  \/ WorkerStarts(c) \/ WhileRunning(c) \/ Open(c) \/ Opened(c)
  \/ BadRequest(c) \/ Lock(c) \/ SeekRequest(c) \/ WriteRequest(c)
  \/ Reply(c) \/ ReplyEnds(c) \/ ReplyFails(c) \/ BrokenPipe(c)
  \/ Finish(c)

Recv(c) == Receive(c) \/ ReceiveNothing(c) \/ ReceiveError(c)

Next ==
  \/ Start \/ Main \/ Signal \/ HandlerReturns \/ Kill
  \/ \E c \in Conns : Connect(c) \/ Reset(c) \/ Worker(c) \/ Recv(c)

(* The threads are scheduled, and a worker that waits for file_mutex gets  *)
(* it in the end: each worker takes it twice in its life, so it cannot be  *)
(* overtaken for ever.  Nothing obliges clients to send, or signals to     *)
(* come; that clients read what they are sent is assumed, as send waits    *)
(* for them with file_mutex held.                                          *)
Fairness ==
  /\ WF_vars(Main) /\ WF_vars(HandlerReturns)
  /\ \A c \in Conns : WF_vars(Worker(c))

Spec == Init /\ [][Next]_vars /\ Fairness

-----------------------------------------------------------------------------
(* Properties. *)

TypeOK ==
  /\ running \in BOOLEAN
  /\ main \in {"down", "starting", "test", "accept", "waiting", "failed",
               "create", "append", "remove", "close"}
  /\ handler \in {"none", "syslog", "stuck"}
  /\ client_socket \in Conns \cup {NULL}
  /\ node \in {Device, Nothing} \cup 1 .. signals
  /\ fds \subseteq {ServerFd, AcceptFd} \cup ({"client", "file"} \X Conns)
  /\ Cardinality(fds) <= MaxFds
  /\ file_mutex \in Conns \cup {NULL}
  /\ \A c \in Conns :
       /\ pc[c] \in {"none", "start", "loop", "recv", "open", "opened",
                     "request", "locked", "reply", "finish", "done", "dead"}
       /\ peer[c] \in {"none", "up", "reset", "broken", "gone"}
       /\ local[c].total \in {Len(local[c].buffer), Len(local[c].buffer) - 1}
       /\ local[c].total < BufferSize
       /\ local[c].fd \in {Device, Nothing} \cup 1 .. signals
       /\ local[c].pos \in Nat

(* What a client is sent is one snapshot of the file its worker has open,  *)
(* however many sends it takes and whatever other workers wait to write:   *)
(* the whole of it after a write, its end after a seek.  It rests on       *)
(* file_mutex being held from the write to the last read, and on two       *)
(* quirks of the driver that cancel out: neither write nor lseek moves the *)
(* position.                                                               *)
ReplyIsSnapshot ==
  \A c \in Conns : pc[c] = "reply" /\ peer[c] = "up" =>
    LET pos  == local[c].pos
        sent == received[c]
    IN  /\ sent # <<>> =>
             /\ Len(sent) <= pos /\ pos <= Len(Contents(c))
             /\ sent = SubSeq(Contents(c), pos - Len(sent) + 1, pos)
        /\ ~HasSeek(c) => Len(sent) = pos

(* A client that sends a line gets it back last: what a worker has stored  *)
(* ends the window for as long as it replies, unless the device was        *)
(* holding a newline that no write can complete (AesdChar's Poisoned).     *)
OwnLineIsLast ==
  \A c \in Conns :
    /\ pc[c] = "reply" /\ local[c].stored /\ local[c].fd = Device
    /\ Log!IsLine(Request(c))
    /\ ~Contains(partial, NL)
    => IsSuffix(Request(c), Stream)

(* A worker that has stopped receiving finishes, whatever the other        *)
(* workers and clients that go away do, unless the whole process ends      *)
(* first, or the handler deadlocks in syslog and the workers wait at       *)
(* theirs.                                                                 *)
WorkersFinish ==
  \A c \in Conns :
    pc[c] = "open" ~> pc[c] \in {"done", "dead"} \/ handler = "stuck"

(* A client that waits to be accepted is accepted, however long the        *)
(* workers before it take, unless descriptors run out (the finished ones   *)
(* keep theirs), the handler deadlocks or the process ends.                *)
WaitingAreAccepted ==
  \A c \in Conns :
    Contains(backlog, c) ~>
      ~Contains(backlog, c) \/ Cardinality(fds) >= MaxFds \/ handler = "stuck"

(* Once the handler has cleared running the main thread leaves its loop,   *)
(* wherever the signal found it: between the test and accept, waiting in   *)
(* accept, or serving a connection; unless a second signal deadlocks it.   *)
StopsAfterSignal == ~running ~> main = "down" \/ handler = "stuck"

(* A signal ends the process by itself: the handler logs "End process"     *)
(* (aesdsocket.c:56).                                                      *)
SignalEndsProcess == handler # "none" ~> main = "down"

(* A send that fails costs that client its answer and no more: the code    *)
(* logs "Failed to send data" and goes on (aesdsocket.c:316).              *)
SendFailuresAreLocal ==
  [][main # "down" /\ main' = "down" => MainExits \/ Kill]_vars
=============================================================================
