--------------------------- MODULE AesdSocketFile ---------------------------
(***************************************************************************)
(* The server built without USE_AESD_CHAR_DEVICE (server/aesdsocket.c):    *)
(* workers and a timer thread append to a regular file, each write and     *)
(* each read under list_mutex, and the signal handler unlinks it.          *)
(*                                                                         *)
(* The file is a sequence of pieces: what one call has written is one      *)
(* chunk, and stdio passes a large chunk to the file in two pieces, one in *)
(* fwrite and one in fclose.  The list of nodes, the workers' own sockets  *)
(* and restarts are those of AesdSocket and left out here: a behaviour     *)
(* begins when the timer thread has been created.                          *)
(***************************************************************************)
EXTENDS Integers, SequencesExt

CONSTANTS
  Conns,      \* the connections; each has its worker thread
  Timer,      \* the timer thread
  NULL,
  KO,         \* what readfile returns when it fails
  BufferSize, \* BUFFERSIZE, in pieces
  Scarce,     \* whether descriptors may run out
  MaxChunks,  \* bound: how often one worker receives
  MaxTicks,   \* bound: how many timestamps are written while running is set;
              \* one more follows the signal
  MaxSignals  \* bound: how many SIGINT or SIGTERM arrive

ASSUME FileAssumption ==
  /\ Timer \notin Conns /\ NULL \notin Conns \cup {Timer}
  /\ BufferSize \in Nat \ {0}
  /\ Scarce \in BOOLEAN
  /\ MaxChunks \in Nat /\ MaxTicks \in Nat /\ MaxSignals \in Nat

VARIABLES
  running,
  main,        \* where the main thread is; "down" once the process has ended
  handler,     \* where cleanupsignal is
  signals,
  client_socket,
  list_mutex,  \* the thread that holds it, or NULL
  files,       \* the files FILENAME has named, the oldest first
  name,        \* the one it names now, or 0
  ticks,
  pc,          \* where each worker and the timer thread are
  local,       \* their local variables
  gone         \* the connections whose client has left

flags == <<running, handler, signals>>
store == <<list_mutex, files, name>>
vars  == <<flags, main, client_socket, store, ticks, pc, local, gone>>

Threads == Conns \cup {Timer}

(* file is the open stream, n numbers the chunks of a thread, newline says *)
(* whether the last one has one, and read is what readfile has returned.   *)
NoLocals == [file |-> 0, n |-> 0, newline |-> FALSE, read |-> <<>>]

Init ==
  /\ running = TRUE /\ main = "test" /\ handler = "none" /\ signals = 0
  /\ client_socket = NULL /\ list_mutex = NULL
  /\ files = <<>> /\ name = 0 /\ ticks = 0
  /\ pc = [t \in Threads |-> IF t = Timer THEN "test" ELSE "none"]
  /\ local = [t \in Threads |-> NoLocals]
  /\ gone = {}

ProcessEnds ==
  /\ main' = "down" /\ handler' = "none" /\ list_mutex' = NULL
  /\ pc' = [t \in Threads |-> "dead"]
  /\ local' = [t \in Threads |-> NoLocals]
  /\ UNCHANGED <<running, signals, client_socket, files, name, ticks, gone>>

(* The client of c has left.  It makes a difference to the recv of its     *)
(* worker and to a send to it, and so is told apart only there.            *)
Leave(c) ==
  /\ c \notin gone
  /\ pc[c] = "recv" \/ (client_socket = c /\ \E d \in Conns : pc[d] = "send")
  /\ gone' = gone \cup {c}
  /\ UNCHANGED <<flags, main, client_socket, store, ticks, pc, local>>

-----------------------------------------------------------------------------
(* The main thread, and the handler that runs in its place. *)

MainAt(where) == main = where /\ handler = "none"

Test ==
  /\ MainAt("test")
  /\ main' = IF running THEN "accept" ELSE "join"
  /\ UNCHANGED <<flags, client_socket, store, ticks, pc, local, gone>>

(* server_socket is open as long as running is set. *)
Accept(c) ==
  /\ MainAt("accept") /\ running
  /\ pc[c] = "none"
  /\ main' = "create"
  /\ client_socket' = c
  /\ UNCHANGED <<flags, store, ticks, pc, local, gone>>

(* accept's result goes to client_socket even when it is an error. *)
AcceptFails ==
  /\ MainAt("accept") /\ (~running \/ Scarce)
  /\ main' = "failed"
  /\ client_socket' = NULL
  /\ UNCHANGED <<flags, store, ticks, pc, local, gone>>

(* The failure is logged, and continue. *)
Continue ==
  /\ MainAt("failed")
  /\ main' = "test"
  /\ UNCHANGED <<flags, client_socket, store, ticks, pc, local, gone>>

CreateThread ==
  /\ MainAt("create")
  /\ \/ main' = "test" /\ pc' = [pc EXCEPT ![client_socket] = "loop"]
     \/ main' = "join" /\ pc' = [pc EXCEPT ![client_socket] = "done"]
  /\ UNCHANGED <<flags, client_socket, store, ticks, local, gone>>

(* Mutant: the workers are joined as well. *)
JoinWorkersToo ==
  /\ MainAt("join")
  /\ pc[Timer] = "done" /\ \A c \in Conns : pc[c] \in {"none", "done"}
  /\ main' = "close"
  /\ UNCHANGED <<flags, client_socket, store, ticks, pc, local, gone>>

(* pthread_join of the timer thread. *)
Join ==
  /\ MainAt("join")
  /\ pc[Timer] = "done"
  /\ main' = "close"
  /\ UNCHANGED <<flags, client_socket, store, ticks, pc, local, gone>>

(* The last messages, and the end of main. *)
Exit ==
  /\ MainAt("close")
  /\ ProcessEnds

(***************************************************************************)
(* cleanupsignal: unlink, and a syslog that deadlocks when the signal has  *)
(* interrupted another one of the main thread: on its way into accept,     *)
(* when accept has returned or failed, and when the timer thread has been  *)
(* joined.                                                                 *)
(***************************************************************************)
Logging == {"accept", "failed", "create", "close"}

Signal ==
  /\ main # "down" /\ handler = "none" /\ signals < MaxSignals
  /\ name' = 0
  /\ \/ handler' = "syslog"
     \/ main \in Logging /\ handler' = "stuck"
  /\ signals' = signals + 1
  /\ UNCHANGED <<running, main, client_socket, list_mutex, files, ticks, pc,
                 local, gone>>

HandlerReturns ==
  /\ handler = "syslog"
  /\ running' = FALSE
  /\ handler' = "none"
  /\ UNCHANGED <<signals, main, client_socket, store, ticks, pc, local, gone>>

(***************************************************************************)
(* The deadlocked handler keeps the lock of syslog, which the process has  *)
(* one of: the other threads wait at their next syslog for ever.  So a     *)
(* step that a syslog comes before, or is part of, is taken only while     *)
(* that lock can be had.  A thread may be caught behind list_mutex, at the *)
(* syslog after readfile's fopen or writefile's failed one; it is taken    *)
(* not to have come so far: all it does there is to keep others waiting.   *)
(***************************************************************************)
CanLog == handler # "stuck"

-----------------------------------------------------------------------------
(* writefile, called by the workers and the timer thread. *)

Goto(t, where) == pc' = [pc EXCEPT ![t] = where]

(* Where a thread goes on after its writefile. *)
AfterWrite(t) ==
  IF t = Timer THEN "test" ELSE IF local[t].newline THEN "read" ELSE "loop"

(* Mutant: the mutex is not waited for. *)
WriteOpenUnlocked(t) ==
  /\ pc[t] = "write"
  /\ Goto(t, "writing")
  /\ list_mutex' = t
  /\ \/ name # 0 /\ UNCHANGED <<files, name>>
     \/ name = 0 /\ files' = Append(files, <<>>) /\ name' = Len(files')
  /\ local' = [local EXCEPT ![t].file = name']
  /\ UNCHANGED <<flags, main, client_socket, ticks, gone>>

(* lock and fopen(path, "a"). *)
WriteOpen(t) ==
  /\ pc[t] = "write"
  /\ list_mutex = NULL
  /\ Goto(t, "writing")
  /\ list_mutex' = t
  /\ \/ name # 0 /\ UNCHANGED <<files, name>>
     \/ name = 0 /\ files' = Append(files, <<>>) /\ name' = Len(files')
  /\ local' = [local EXCEPT ![t].file = name']
  /\ UNCHANGED <<flags, main, client_socket, ticks, gone>>

(* fopen fails: writefile returns, and list_mutex stays locked. *)
WriteOpenFails(t) ==
  /\ Scarce
  /\ pc[t] = "write" /\ CanLog
  /\ list_mutex = NULL
  /\ list_mutex' = t
  /\ Goto(t, AfterWrite(t))
  /\ UNCHANGED <<flags, main, client_socket, files, name, ticks, local, gone>>

Piece(t, tail) == [by |-> t, n |-> local[t].n, tail |-> tail]

Put(t, piece) == files' = [files EXCEPT ![local[t].file] = Append(@, piece)]

(* fwrite: the chunks of workers are taken to be larger than stdio's       *)
(* buffer, so that a piece goes to the file at once; a timestamp is not.   *)
Fwrite(t) ==
  /\ pc[t] = "writing"
  /\ Goto(t, "closing")
  /\ IF t = Timer THEN UNCHANGED files ELSE Put(t, Piece(t, FALSE))
  /\ UNCHANGED <<flags, main, client_socket, list_mutex, name, ticks, local,
                 gone>>

(* Mutant: fclose is forgotten, and what stdio has buffered with it. *)
FcloseForgotten(t) ==
  /\ pc[t] = "closing"
  /\ list_mutex' = NULL
  /\ Goto(t, AfterWrite(t))
  /\ UNCHANGED <<flags, main, client_socket, files, name, ticks, local, gone>>

(* fclose and unlock. *)
Fclose(t) ==
  /\ pc[t] = "closing"
  /\ Put(t, Piece(t, TRUE))
  /\ list_mutex' = NULL
  /\ Goto(t, AfterWrite(t))
  /\ UNCHANGED <<flags, main, client_socket, name, ticks, local, gone>>

-----------------------------------------------------------------------------
(* The timer thread. *)

TimerTest ==
  /\ pc[Timer] = "test" /\ CanLog
  /\ Goto(Timer, IF running THEN "sleep" ELSE "done")
  /\ UNCHANGED <<flags, main, client_socket, store, ticks, local, gone>>

(* usleep, and the timestamp. *)
Tick ==
  /\ pc[Timer] = "sleep"
  /\ ticks < MaxTicks \/ ~running
  /\ ticks' = IF ticks < MaxTicks THEN ticks + 1 ELSE ticks
  /\ local' = [local EXCEPT ![Timer].n = ticks']
  /\ Goto(Timer, "write")
  /\ UNCHANGED <<flags, main, client_socket, store, gone>>

-----------------------------------------------------------------------------
(* A worker. *)

(* free, and finished = FINISHED. *)
Finish(c) ==
  /\ Goto(c, "done")
  /\ local' = [local EXCEPT ![c] = NoLocals]

(* while (running), unless the buffer could not be allocated. *)
Loop(c) ==
  /\ pc[c] = "loop" /\ CanLog
  /\ \/ running /\ Goto(c, "recv") /\ UNCHANGED local
     \/ (~running \/ local[c].n = 0) /\ Finish(c)
  /\ UNCHANGED <<flags, main, client_socket, store, ticks, gone>>

Receive(c) ==
  /\ pc[c] = "recv" /\ CanLog
  /\ local[c].n < MaxChunks
  /\ \E newline \in BOOLEAN :
       local' = [local EXCEPT ![c].n = @ + 1, ![c].newline = newline]
  /\ Goto(c, "write")
  /\ UNCHANGED <<flags, main, client_socket, store, ticks, gone>>

(* recv returns 0 or -1. *)
ReceiveNothing(c) ==
  /\ pc[c] = "recv" /\ CanLog
  /\ c \in gone
  /\ Finish(c)
  /\ UNCHANGED <<flags, main, client_socket, store, ticks, gone>>

(* Mutant: one piece more than the buffer holds. *)
ReadfileTooMuch(c) ==
  /\ pc[c] = "read" /\ CanLog
  /\ list_mutex = NULL
  /\ name # 0
  /\ local' = [local EXCEPT ![c].read =
                 SubSeq(files[name], 1, Min({Len(files[name]), BufferSize + 1}))]
  /\ Goto(c, "send")
  /\ UNCHANGED <<flags, main, client_socket, store, ticks, gone>>

(* readfile: as much of the file as the buffer holds. *)
Readfile(c) ==
  /\ pc[c] = "read" /\ CanLog
  /\ list_mutex = NULL
  /\ name # 0
  /\ local' = [local EXCEPT ![c].read =
                 SubSeq(files[name], 1, Min({Len(files[name]), BufferSize}))]
  /\ Goto(c, "send")
  /\ UNCHANGED <<flags, main, client_socket, store, ticks, gone>>

(* fopen fails, because the handler has unlinked the file or for want of a *)
(* descriptor: readfile returns, and list_mutex stays locked.              *)
ReadfileFails(c) ==
  /\ pc[c] = "read" /\ CanLog
  /\ list_mutex = NULL
  /\ name = 0 \/ Scarce
  /\ list_mutex' = c
  /\ local' = [local EXCEPT ![c].read = KO]
  /\ Goto(c, "send")
  /\ UNCHANGED <<flags, main, client_socket, files, name, ticks, gone>>

(* send goes to client_socket, the connection accepted last and not always *)
(* the worker's own.  It fails when that is closed or was never one, and   *)
(* may when there was nothing to send; the worker then receives again.     *)
Send(c) ==
  /\ pc[c] = "send" /\ CanLog
  /\ \/ client_socket # NULL /\ Finish(c)
     \/ /\ client_socket \in gone \cup {NULL} \/ local[c].read = KO
        /\ Goto(c, "loop")
        /\ local' = [local EXCEPT ![c].read = <<>>, ![c].newline = FALSE]
  /\ UNCHANGED <<flags, main, client_socket, store, ticks, gone>>

(* Or SIGPIPE ends the process. *)
BrokenPipe(c) ==
  /\ pc[c] = "send" /\ CanLog
  /\ client_socket \in gone
  /\ ProcessEnds

-----------------------------------------------------------------------------
(* What the main thread does by itself. *)
Proceed == Test \/ AcceptFails \/ Continue \/ CreateThread \/ Join \/ Exit

Main == Proceed \/ \E c \in Conns : Accept(c)

Write(t) == WriteOpen(t) \/ WriteOpenFails(t) \/ Fwrite(t) \/ Fclose(t)

Worker(c) ==
  \/ Write(c) \/ Loop(c) \/ Readfile(c) \/ ReadfileFails(c)
  \/ Send(c) \/ BrokenPipe(c)

TimerThread == Write(Timer) \/ TimerTest \/ Tick

Next ==
  \/ Main \/ Signal \/ HandlerReturns \/ TimerThread
  \/ \E c \in Conns :
       Leave(c) \/ Worker(c) \/ Receive(c) \/ ReceiveNothing(c)

(* The threads are scheduled.  Once running is cleared each of them takes  *)
(* list_mutex a bounded number of times more, so none is overtaken for     *)
(* ever.  Connections, data and signals need not come.                     *)
Fairness ==
  /\ WF_vars(Proceed) /\ WF_vars(HandlerReturns) /\ WF_vars(TimerThread)
  /\ \A c \in Conns : WF_vars(Worker(c))

Spec == Init /\ [][Next]_vars /\ Fairness

-----------------------------------------------------------------------------
(* Properties. *)

PieceType == [by : Threads, n : Nat, tail : BOOLEAN]

TypeOK ==
  /\ running \in BOOLEAN /\ handler \in {"none", "syslog", "stuck"}
  /\ signals \in 0 .. MaxSignals
  /\ main \in {"test", "accept", "failed", "create", "join", "close", "down"}
  /\ client_socket \in Conns \cup {NULL}
  /\ list_mutex \in Threads \cup {NULL}
  /\ name \in 0 .. Len(files)
  /\ \A k \in DOMAIN files : \A i \in DOMAIN files[k] : files[k][i] \in PieceType
  /\ \A t \in Threads :
       /\ pc[t] \in {"none", "test", "sleep", "loop", "recv", "write",
                     "writing", "closing", "read", "send", "done", "dead"}
       /\ local[t].file \in 0 .. Len(files)
       /\ local[t].read # KO => Len(local[t].read) <= BufferSize
  /\ gone \subseteq Conns

(* A thread has left writefile or readfile without releasing list_mutex. *)
Lost ==
  /\ list_mutex # NULL
  /\ pc[list_mutex] \notin {"writing", "closing"}

(* Every chunk is whole: what fwrite has put in is followed by the rest.   *)
Whole(s) ==
  \A i \in DOMAIN s :
    ~s[i].tail => i < Len(s) /\ s[i + 1] = [s[i] EXCEPT !.tail = TRUE]

(* Chunks of different threads never mix in the file, and what a client is *)
(* sent has no half-written chunk at its end, unless the buffer cut it.    *)
(* (A process that ends may leave half a chunk.)                           *)
ChunksWhole ==
  /\ main # "down" /\ (list_mutex = NULL \/ Lost) =>
       \A k \in DOMAIN files : Whole(files[k])
  /\ \A c \in Conns :
       pc[c] = "send" /\ local[c].read # KO /\ Len(local[c].read) < BufferSize
         => Whole(local[c].read)

(* A worker sends the line it has just written, although others may have   *)
(* written in between, unless the file has been unlinked since or has      *)
(* outgrown the buffer.                                                    *)
OwnLineInReply ==
  \A c \in Conns :
    /\ pc[c] = "send" /\ local[c].read # KO
    /\ name = local[c].file /\ Len(files[name]) <= BufferSize
    => Contains(local[c].read, Piece(c, TRUE))

(* Once a failed fopen has kept list_mutex, nothing is written or read any *)
(* more until the process ends: the early returns (aesdsocket.c:78, 101)   *)
(* come before the unlock.                                                 *)
LostLockIsForever ==
  [][Lost => main' = "down"
             \/ /\ Lost' /\ files' = files
                /\ \A c \in Conns :
                     local'[c].read \in {local[c].read, <<>>}]_vars

(* Once the handler has cleared running the process ends, the timer thread *)
(* joined, unless list_mutex has been lost, or a second signal comes while *)
(* the main thread is in a syslog and its handler deadlocks there.         *)
StopsUnlessLost == ~running ~> main = "down" \/ Lost \/ handler = "stuck"
=============================================================================
