----------------------------- MODULE AesdSystem -----------------------------
(***************************************************************************)
(* The server on the driver: what AesdSocket's workers do with their files *)
(* from the open on (server/aesdsocket.c:264-325), with AesdChar in place  *)
(* of the abstract device, while programs outside the server (echo, cat)   *)
(* use the device as well.  Every call sleeps where AesdChar's does.       *)
(*                                                                         *)
(* Sockets, signals and the main thread are AesdSocket's and left out.     *)
(***************************************************************************)
EXTENDS AesdChar

CONSTANTS
  Workers,    \* the worker threads, each with the file it opens
  Outsiders,  \* the files other programs have open
  BufferSize  \* BUFFERSIZE

ASSUME SystemAssumption ==
  /\ Files = Workers \cup Outsiders /\ Workers \cap Outsiders = {}
  /\ BufferSize \in Counts /\ 0 \in Offsets

VARIABLES
  file_mutex,  \* the worker that holds it, or NULL
  at,          \* where each worker is in socketThread
  request,     \* what it has received: bytes to write, or <<>> for a seek
  reply,       \* what it has sent so far
  seen         \* history: whether its write is "stored", or the device at
               \* least "quiet", since it took file_mutex, or "torn" by an
               \* outsider's write

server  == <<file_mutex, at, request, reply, seen>>
allVars == <<vars, server>>

SystemInit ==
  /\ Init
  /\ file_mutex = NULL
  /\ at = [w \in Workers |-> "recv"]
  /\ request = [w \in Workers |-> <<>>]
  /\ reply = [w \in Workers |-> <<>>]
  /\ seen = [w \in Workers |-> "quiet"]

Goto(w, where) == at' = [at EXCEPT ![w] = where]

-----------------------------------------------------------------------------
(* A worker. *)

(* A request that contains SEARCHSTRING stands for any arguments that      *)
(* sscanf reads; one it cannot read makes no driver call and is left out.  *)
Receive(w) ==
  /\ at[w] = "recv"
  /\ Goto(w, "open")
  /\ \E r \in Payloads \cup {<<>>} : request' = [request EXCEPT ![w] = r]
  /\ UNCHANGED <<vars, file_mutex, reply, seen>>

OpenDevice(w) ==
  /\ at[w] = "open" /\ file_mutex = NULL
  /\ Open(w)
  /\ Goto(w, "lock")
  /\ UNCHANGED <<file_mutex, request, reply, seen>>

(* Mutant: file_mutex is not looked at. *)
LockAlways(w) ==
  /\ at[w] = "lock"
  /\ file_mutex' = w
  /\ Goto(w, IF request[w] = <<>> THEN "ioctl" ELSE "write")
  /\ seen' = [seen EXCEPT ![w] = "quiet"]
  /\ UNCHANGED <<vars, request, reply>>

Lock(w) ==
  /\ at[w] = "lock" /\ file_mutex = NULL
  /\ file_mutex' = w
  /\ Goto(w, IF request[w] = <<>> THEN "ioctl" ELSE "write")
  /\ seen' = [seen EXCEPT ![w] = "quiet"]
  /\ UNCHANGED <<vars, request, reply>>

(* write, until it sleeps or fails. *)
WriteCall(w) ==
  /\ at[w] = "write"
  /\ \/ (WriteFirst(w, request[w]) \/ WriteAppend(w, request[w]))
        /\ Goto(w, "writing")
     \/ (WriteNoMemory(w) \/ Contend(w, "write")) /\ Goto(w, "lseek")
  /\ UNCHANGED <<file_mutex, request, reply, seen>>

(* write returns; that it has failed is logged. *)
WriteReturns(w) ==
  /\ at[w] = "writing"
  /\ \/ WriteEnd(w) /\ seen' = [seen EXCEPT ![w] = "stored"]
     \/ WriteFault(w) /\ UNCHANGED seen
  /\ Goto(w, "lseek")
  /\ UNCHANGED <<file_mutex, request, reply>>

Rewind(w) ==
  /\ at[w] = "lseek"
  /\ Llseek(w, 0, "SEEK_SET")
  /\ Goto(w, "read")
  /\ UNCHANGED <<file_mutex, request, reply, seen>>

(* ioctl; a failure is logged. *)
SeekCall(w) ==
  /\ at[w] = "ioctl"
  /\ \/ \E cmd \in Slots, off \in SeekOffsets : IoctlSeekTo(w, cmd, off)
     \/ IoctlInvalid(w) \/ Contend(w, "ioctl")
  /\ Goto(w, "read")
  /\ UNCHANGED <<file_mutex, request, reply, seen>>

ReadCall(w) ==
  /\ at[w] = "read"
  /\ ReadBegin(w, BufferSize)
  /\ Goto(w, "reading")
  /\ UNCHANGED <<file_mutex, request, reply, seen>>

(* read has delivered, and send sends it. *)
ReadReturns(w) ==
  /\ at[w] = "reading"
  /\ ReadEnd(w)
  /\ reply' = [reply EXCEPT ![w] = @ \o result'.data]
  /\ Goto(w, "read")
  /\ UNCHANGED <<file_mutex, request, seen>>

(* read returns 0 or fails: the loop ends, file_mutex is released, and the *)
(* buffers are gone.                                                       *)
Unlock(w) ==
  /\ \/ at[w] = "read" /\ (ReadEOF(w) \/ Contend(w, "read"))
     \/ at[w] = "reading" /\ ReadFault(w)
  /\ file_mutex' = NULL
  /\ Goto(w, "done")
  /\ request' = [request EXCEPT ![w] = <<>>]
  /\ reply' = [reply EXCEPT ![w] = <<>>]
  /\ seen' = [seen EXCEPT ![w] = "quiet"]

-----------------------------------------------------------------------------
(* Another program's calls, in any order. *)
Outside(o) ==
  \/ /\ \/ Open(o) \/ Release(o) \/ Read(o)
        \/ \E payload \in Payloads : WriteFirst(o, payload) \/ WriteAppend(o, payload)
        \/ WriteNoMemory(o) \/ WriteFault(o)
        \/ \E call \in {"read", "write"} : Contend(o, call)
     /\ UNCHANGED server
  \/ /\ WriteEnd(o)
     /\ seen' = [w \in Workers |-> IF file_mutex = w THEN "torn" ELSE seen[w]]
     /\ UNCHANGED <<file_mutex, at, request, reply>>

Worker(w) ==
  \/ Receive(w) \/ OpenDevice(w) \/ Lock(w)
  \/ WriteCall(w) \/ WriteReturns(w) \/ Rewind(w) \/ SeekCall(w)
  \/ ReadCall(w) \/ ReadReturns(w) \/ Unlock(w)

SystemNext ==
  ~oops /\ (\/ \E w \in Workers : Worker(w)
            \/ \E o \in Outsiders : Outside(o))

SystemSpec == SystemInit /\ [][SystemNext]_allVars

-----------------------------------------------------------------------------
(* Properties. *)

(* Two workers never meet at dev->lock, which nobody has initialised: when *)
(* a worker makes a call that takes it, no worker's call is asleep with    *)
(* it.  Only a program outside the server can make the lock's slow path    *)
(* run.                                                                    *)
WorkersNeverContend ==
  \A w \in Workers :
    at[w] \in {"write", "ioctl", "read"} => lock \notin Workers

(* As long as no outsider writes, what a client is sent is one snapshot of *)
(* the window, from its first byte, through all the sleeps of the driver's *)
(* calls and whatever fails in them; and its own line, once stored, ends   *)
(* that window (unless a newline no write can complete was pending).       *)
AnswerIsSnapshot ==
  \A w \in Workers :
    at[w] \in {"lseek", "read", "reading"} /\ request[w] # <<>> =>
      /\ seen[w] # "torn" => reply[w] = SubSeq(Stream, 1, f_pos[w])
      /\ seen[w] = "stored" /\ IsLine(request[w]) /\ ~Poisoned =>
           IsSuffix(request[w], Stream)
=============================================================================
