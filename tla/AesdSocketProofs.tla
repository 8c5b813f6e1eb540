-------------------------- MODULE AesdSocketProofs --------------------------
(***************************************************************************)
(* Theorems about the server, for any number of connections, any requests  *)
(* and any limits: at most one worker is between its lock and its unlock   *)
(* of file_mutex; the state keeps its type; what a client is sent is one   *)
(* snapshot, and its own line is the last of it.                           *)
(*                                                                         *)
(* What could break the first is a worker that starts while it is already  *)
(* in the middle of a reply.  So SerialInv follows each connection from    *)
(* connect to pthread_create: until then its worker has not run.           *)
(* SocketInv then says of each worker what it has counted, stored and sent *)
(* so far; that nobody writes while it replies is SerialInv's.             *)
(***************************************************************************)
EXTENDS AesdSocket, SequenceLemmas, FiniteSetTheorems

Places ==
  {"none", "start", "loop", "recv", "open", "opened", "request", "locked",
   "reply", "finish", "done", "dead"}

(* Where a worker is between a lock and the next unlock of file_mutex.     *)
Critical == {"opened", "locked", "reply"}

(* One worker at a time is inside the driver: the server alone never makes *)
(* two driver calls contend for dev->lock, which nobody has initialised.   *)
DriverSerial == \A c \in Conns : pc[c] \in Critical <=> file_mutex = c

(* The connections accept has not taken are distinct, known and not        *)
(* served.                                                                 *)
Waiting ==
  /\ backlog \in Seq(Conns)
  /\ \A i \in DOMAIN backlog :
       /\ pc[backlog[i]] = "none"
       /\ peer[backlog[i]] # "none"
       /\ \A j \in DOMAIN backlog : backlog[i] = backlog[j] => i = j

(* The one accept has just taken is not served yet either.                 *)
Accepted ==
  main = "create" =>
    /\ client_socket \in Conns
    /\ pc[client_socket] = "none"
    /\ peer[client_socket] # "none"
    /\ \A i \in DOMAIN backlog : backlog[i] # client_socket

SerialInv ==
  /\ pc \in [Conns -> Places]
  /\ DOMAIN peer = Conns
  /\ \A c \in Conns : peer[c] = "none" => pc[c] = "none"
  /\ Waiting
  /\ Accepted
  /\ DriverSerial

(* The worker of c goes from one place to another, none of them "none",    *)
(* and what it does to file_mutex fits.                                    *)
WorkerMoves(c) ==
  /\ pc[c] # "none"
  /\ \E place \in Places \ {"none"} : pc' = [pc EXCEPT ![c] = place]
  /\ \/ file_mutex' = file_mutex /\ (pc[c] \in Critical <=> pc'[c] \in Critical)
     \/ file_mutex = NULL /\ file_mutex' = c /\ pc'[c] \in Critical
     \/ pc[c] \in Critical /\ file_mutex' = NULL /\ pc'[c] \notin Critical
  /\ \A d \in Conns : peer'[d] = "none" <=> peer[d] = "none"
  /\ DOMAIN peer' = DOMAIN peer
  /\ UNCHANGED <<backlog, main, client_socket>>

LEMMA InitSerial == Init => SerialInv
BY ServerAssumption DEF Init, SerialInv, Places, Critical, Waiting, Accepted,
   DriverSerial

LEMMA EndsSerial ==
  ASSUME SerialInv, ProcessEnds PROVE SerialInv'
<1> USE ServerAssumption DEF ProcessEnds
<1>1. pc' \in [Conns -> Places]
  BY DEF Places
<1>2. \A c \in Conns : pc'[c] \notin Critical /\ file_mutex' # c
  BY DEF Critical
<1> QED BY <1>1, <1>2 DEF SerialInv, Waiting, Accepted, DriverSerial

(* Between its two ends a worker disturbs nobody.                          *)
LEMMA WorkerSerial ==
  ASSUME SerialInv, NEW c \in Conns, WorkerMoves(c) PROVE SerialInv'
<1> USE DEF SerialInv
<1>1. PICK place \in Places \ {"none"} : pc' = [pc EXCEPT ![c] = place]
  BY DEF WorkerMoves
<1>2. pc' \in [Conns -> Places] /\ DOMAIN peer' = Conns
  BY <1>1 DEF WorkerMoves
<1>3. \A d \in Conns : pc[d] = "none" => pc'[d] = "none"
  BY <1>1 DEF WorkerMoves
<1>4. \A d \in Conns : peer'[d] = "none" => pc'[d] = "none"
  BY <1>3 DEF WorkerMoves
<1>5. Waiting'
  BY <1>3 DEF Waiting, WorkerMoves
<1>6. Accepted'
  BY <1>3 DEF Accepted, WorkerMoves
<1>7. DriverSerial'
  <2>1. \A d \in Conns \ {c} : pc'[d] = pc[d]
    BY <1>1
  <2> QED BY <2>1, ServerAssumption DEF DriverSerial, WorkerMoves
<1> QED BY <1>2, <1>4, <1>5, <1>6, <1>7

(* Every step of a worker that does not end the process is such a move.    *)
LEMMA WorkerStep ==
  ASSUME SerialInv, NEW c \in Conns, Worker(c) \/ Recv(c)
  PROVE  WorkerMoves(c) \/ ProcessEnds
<1> USE DEF SerialInv, WorkerMoves, Places, Critical, Becomes,
            process, clients, workers, flags
<1>1. CASE WorkerStarts(c)
  BY <1>1 DEF WorkerStarts
<1>2. CASE WhileRunning(c)
  BY <1>2 DEF WhileRunning
<1>3. CASE Open(c)
  BY <1>3 DEF Open
<1>4. CASE BadRequest(c)
  BY <1>4 DEF BadRequest
<1>5. CASE SeekRequest(c)
  BY <1>5 DEF SeekRequest
<1>6. CASE WriteRequest(c)
  BY <1>6 DEF WriteRequest
<1>15. CASE Opened(c)
  BY <1>15 DEF Opened
<1>16. CASE Lock(c)
  BY <1>16 DEF Lock
<1>7. CASE Reply(c)
  <2>1. pc' = [pc EXCEPT ![c] = "reply"]
    BY <1>7 DEF Reply
  <2> QED BY <1>7, <2>1 DEF Reply
<1>8. CASE ReplyEnds(c)
  BY <1>8 DEF ReplyEnds, Unlock
<1>9. CASE ReplyFails(c)
  <2>1. \A d \in Conns : peer'[d] = "none" <=> peer[d] = "none"
    BY <1>9 DEF ReplyFails
  <2>2. CASE HasSeek(c)
    BY <1>9, <2>1, <2>2 DEF ReplyFails, Unlock
  <2>3. CASE ~HasSeek(c)
    <3>1. pc' = [pc EXCEPT ![c] = "reply"]
      BY <1>9, <2>3 DEF ReplyFails
    <3> QED BY <1>9, <2>1, <2>3, <3>1 DEF ReplyFails
  <2> QED BY <2>2, <2>3
<1>10. CASE BrokenPipe(c)
  BY <1>10 DEF BrokenPipe
<1>11. CASE Finish(c)
  BY <1>11 DEF Finish
<1>12. CASE Receive(c)
  BY <1>12 DEF Receive
<1>13. CASE ReceiveNothing(c)
  BY <1>13 DEF ReceiveNothing
<1>14. CASE ReceiveError(c)
  BY <1>14 DEF ReceiveError
<1> QED
  BY <1>1, <1>2, <1>3, <1>4, <1>5, <1>6, <1>7, <1>8, <1>9, <1>10, <1>11,
     <1>12, <1>13, <1>14, <1>15, <1>16 DEF Worker, Recv

(* The steps that move neither a worker, nor a connection between places:  *)
(* most of the main thread's, and the handler's.                           *)
LEMMA QuietSerial ==
  ASSUME SerialInv, UNCHANGED <<workers, backlog, client_socket>>,
         DOMAIN peer' = DOMAIN peer,
         \A c \in Conns : peer'[c] = "none" <=> peer[c] = "none",
         main' = "create" => main = "create"
  PROVE  SerialInv'
BY DEF SerialInv, workers, Waiting, Accepted, DriverSerial

LEMMA ConnectSerial ==
  ASSUME SerialInv, NEW c \in Conns, Connect(c) PROVE SerialInv'
<1> USE DEF SerialInv, Connect, workers, process
<1>1. pc' = pc /\ file_mutex' = file_mutex /\ main' = main
        /\ client_socket' = client_socket /\ backlog' = Append(backlog, c)
  OBVIOUS
<1>2. /\ DOMAIN peer' = Conns
      /\ \A d \in Conns : peer'[d] = "none" => peer[d] = "none"
      /\ peer'[c] # "none"
  OBVIOUS
<1>3. \A i \in DOMAIN backlog : backlog[i] # c
  BY DEF Waiting
<1>4. /\ backlog' \in Seq(Conns)
      /\ \A i \in DOMAIN backlog' :
           IF i \in DOMAIN backlog THEN backlog'[i] = backlog[i]
           ELSE i = Len(backlog) + 1 /\ backlog'[i] = c
  <2>1. backlog \in Seq(Conns)
    BY DEF Waiting
  <2> HIDE DEF SerialInv, Connect
  <2> QED BY <1>1, <2>1
<1>5. Waiting'
  <2>1. pc[c] = "none"
    OBVIOUS
  <2>2. \A i \in DOMAIN backlog : backlog[i] \in Conns
    BY DEF Waiting
  <2> QED BY <1>1, <1>2, <1>3, <1>4, <2>1, <2>2 DEF Waiting
<1>6. Accepted'
  BY <1>1, <1>2, <1>4 DEF Accepted
<1> QED BY <1>1, <1>2, <1>5, <1>6 DEF DriverSerial

LEMMA AcceptSerial ==
  ASSUME SerialInv, Accept PROVE SerialInv'
<1> USE DEF SerialInv, Accept, workers, Waiting
<1>1. pc' = pc /\ file_mutex' = file_mutex /\ peer' = peer
        /\ client_socket' = Head(backlog) /\ backlog' = Tail(backlog)
  OBVIOUS
<1>2. /\ Tail(backlog) \in Seq(Conns)
      /\ DOMAIN Tail(backlog) = 1 .. Len(backlog) - 1
      /\ \A i \in DOMAIN Tail(backlog) :
           i + 1 \in DOMAIN backlog /\ Tail(backlog)[i] = backlog[i + 1]
      /\ 1 \in DOMAIN backlog /\ Head(backlog) = backlog[1]
      /\ Head(backlog) \in Conns
  OBVIOUS
<1>3. Waiting'
  BY <1>1, <1>2
<1>4. \A i \in DOMAIN backlog' : backlog'[i] # client_socket'
  BY <1>1, <1>2
<1>5. Accepted'
  BY <1>1, <1>2, <1>4 DEF Accepted
<1> QED BY <1>1, <1>3, <1>5 DEF DriverSerial

(* pthread_create starts the worker of a connection that had none.         *)
LEMMA CreateSerial ==
  ASSUME SerialInv, CreateThread PROVE SerialInv'
<1> USE DEF SerialInv, CreateThread, At, clients
<1>1. client_socket \in Conns /\ pc[client_socket] = "none"
        /\ pc' = [pc EXCEPT ![client_socket] = "start"]
        /\ peer' = peer /\ backlog' = backlog /\ file_mutex' = file_mutex
        /\ peer[client_socket] # "none"
        /\ \A i \in DOMAIN backlog : backlog[i] # client_socket
  BY DEF Accepted
<1>2. pc' \in [Conns -> Places]
  BY <1>1 DEF Places
<1>3. Waiting'
  BY <1>1 DEF Waiting
<1>4. Accepted'
  BY DEF Accepted
<1>5. DriverSerial'
  BY <1>1 DEF DriverSerial, Critical
<1> QED BY <1>1, <1>2, <1>3, <1>4, <1>5

LEMMA NextSerial == SerialInv /\ [Next]_vars => SerialInv'
<1> SUFFICES ASSUME SerialInv, [Next]_vars PROVE SerialInv'
  OBVIOUS
<1>1. CASE Start
  BY <1>1, QuietSerial DEF Start, clients
<1>2. CASE Main
  <2>1. CASE Test
    BY <2>1, QuietSerial DEF Test, clients
  <2>2. CASE AcceptFails
    BY <2>2, QuietSerial DEF AcceptFails, clients
  <2>3. CASE AcceptWaits
    BY <2>3, QuietSerial DEF AcceptWaits, clients
  <2>4. CASE Accept
    BY <2>4, AcceptSerial
  <2>5. CASE CreateThread
    BY <2>5, CreateSerial
  <2>6. CASE CreateThreadFails
    <3>1. peer[client_socket] # "none"
      BY <2>6 DEF CreateThreadFails, At, SerialInv, Accepted
    <3>2. DOMAIN peer' = DOMAIN peer
            /\ \A c \in Conns : peer'[c] = "none" <=> peer[c] = "none"
      BY <2>6, <3>1 DEF CreateThreadFails, SerialInv
    <3> QED BY <2>6, <3>2, QuietSerial DEF CreateThreadFails
  <2>7. CASE AppendNode
    BY <2>7, QuietSerial DEF AppendNode, clients
  <2>8. CASE RemoveFinishedThreads
    BY <2>8, QuietSerial DEF RemoveFinishedThreads, clients
  <2>9. CASE MainExits
    BY <2>9, EndsSerial DEF MainExits
  <2>10. CASE Listen
    BY <2>10, QuietSerial DEF Listen, clients
  <2>11. CASE Continue
    BY <2>11, QuietSerial DEF Continue, clients
  <2> QED BY <1>2, <2>1, <2>2, <2>3, <2>4, <2>5, <2>6, <2>7, <2>8, <2>9,
             <2>10, <2>11 DEF Main
<1>3. CASE Signal
  BY <1>3, QuietSerial DEF Signal, clients
<1>4. CASE HandlerReturns
  BY <1>4, QuietSerial DEF HandlerReturns, clients
<1>5. CASE Kill
  BY <1>5, EndsSerial DEF Kill
<1>6. ASSUME NEW c \in Conns, Connect(c) PROVE SerialInv'
  BY <1>6, ConnectSerial
<1>7. ASSUME NEW c \in Conns, Reset(c) PROVE SerialInv'
  <2>1. DOMAIN peer' = DOMAIN peer
          /\ \A d \in Conns : peer'[d] = "none" <=> peer[d] = "none"
    BY <1>7 DEF Reset, SerialInv
  <2> QED BY <1>7, <2>1, QuietSerial DEF Reset, process
<1>8. ASSUME NEW c \in Conns, Worker(c) \/ Recv(c) PROVE SerialInv'
  BY <1>8, WorkerStep, WorkerSerial, EndsSerial
<1>9. CASE UNCHANGED vars
  BY <1>9, QuietSerial DEF vars, clients, process
<1> QED
  BY <1>1, <1>2, <1>3, <1>4, <1>5, <1>6, <1>7, <1>8, <1>9 DEF Next

(* The connections the main thread and the workers hand each other stay in *)
(* step, from accept to the end of each worker.                            *)
THEOREM SerialInvHolds == Spec => []SerialInv
<1>1. Init => SerialInv
  BY InitSerial
<1>2. SerialInv /\ [Next]_vars => SerialInv'
  BY NextSerial
<1> QED BY <1>1, <1>2, PTL DEF Spec

(* Driver calls of different workers never overlap: file_mutex is held by  *)
(* exactly the worker that is between the lock and the unlock around its   *)
(* open, or around its request and the reads that answer it.               *)
THEOREM OneWorkerInDriver == Spec => []DriverSerial
<1>1. SerialInv => DriverSerial
  BY DEF SerialInv
<1> QED BY <1>1, SerialInvHolds, PTL

-----------------------------------------------------------------------------
(* The values of a state, and what a client is sent. *)

USE ServerAssumption

LocalType ==
  [buffer : Seq(Bytes), total : Int, fd : Int, pos : Nat, stored : BOOLEAN]

(* What files, and the device, hold; a name that is gone has been unlinked *)
(* by a signal.                                                            *)
StorageOK ==
  /\ window \in Seq(Seq(Bytes)) /\ first \in Nat /\ partial \in Seq(Bytes)
  /\ files \in [1 .. MaxSignals -> Seq(Bytes)]
  /\ node \in {Device, Nothing} \cup 1 .. signals
  /\ node = Nothing => signals # 0

(* The process: accept has its descriptor while it waits. *)
ProcessOK ==
  /\ running \in BOOLEAN
  /\ main \in {"down", "starting", "test", "accept", "waiting", "failed",
               "create", "append", "remove", "close"}
  /\ handler \in {"none", "syslog", "stuck"}
  /\ signals \in 0 .. MaxSignals
  /\ client_socket \in Conns \cup {NULL}
  /\ file_mutex \in Conns \cup {NULL}
  /\ IsFiniteSet(fds)
  /\ fds \subseteq {ServerFd, AcceptFd} \cup ({"client", "file"} \X Conns)
  /\ Cardinality(fds) <= MaxFds
  /\ main = "waiting" => AcceptFd \in fds

ClientsOK ==
  /\ peer \in [Conns -> {"none", "up", "reset", "broken", "gone"}]
  /\ wire \in [Conns -> Seq(Bytes)]
  /\ received \in [Conns -> Seq(Bytes)]
  /\ local \in [Conns -> LocalType]

(* Nothing is written or read before the reply, and total_bytes_read       *)
(* counts the buffer until recv fails.                                     *)
Fresh(c) ==
  /\ pc[c] \in {"none", "start", "done", "dead"} => local[c] = NoLocals
  /\ pc[c] \in {"start", "loop", "recv"} =>
       local[c].total = Len(local[c].buffer)
  /\ pc[c] \notin {"reply", "finish"} =>
       local[c].pos = 0 /\ ~local[c].stored /\ received[c] = <<>>

Counted(c) ==
  /\ local[c].total \in {Len(local[c].buffer), Len(local[c].buffer) - 1}
  /\ local[c].total < BufferSize
  /\ local[c].fd \in {Device, Nothing} \cup 1 .. signals

(* What has been sent lies in front of the position. *)
Answered(c) ==
  pc[c] = "reply" /\ peer[c] = "up" =>
    /\ received[c] # <<>> =>
         /\ Len(received[c]) <= local[c].pos
         /\ local[c].pos <= Len(Contents(c))
         /\ received[c] = SubSeq(Contents(c),
                                 local[c].pos - Len(received[c]) + 1,
                                 local[c].pos)
    /\ ~HasSeek(c) => Len(received[c]) = local[c].pos

LineStored(c) ==
  /\ pc[c] = "reply" /\ local[c].stored /\ local[c].fd = Device
  /\ Log!IsLine(Request(c))
  /\ ~Contains(partial, NL)
  => IsSuffix(Request(c), Stream)

WorkerOK(c) == Fresh(c) /\ Counted(c) /\ Answered(c) /\ LineStored(c)

SocketInv ==
  StorageOK /\ ProcessOK /\ ClientsOK /\ \A c \in Conns : WorkerOK(c)

(* The stream of the device is a sequence of bytes. *)
LEMMA StreamBytes ==
  ASSUME StorageOK PROVE Stream \in Seq(Bytes)
<1>1. 0 \in 0 .. Len(window)
  BY DEF StorageOK
<1>2. FlattenSeq(window) \in Seq(Bytes)
  BY <1>1, FlattenFirst DEF StorageOK
<1> QED BY <1>2 DEF Stream

(* So is what any worker has open. *)
LEMMA ContentsBytes ==
  ASSUME StorageOK, ProcessOK, NEW c \in Conns,
         local[c].fd \in {Device, Nothing} \cup 1 .. signals
  PROVE  Contents(c) \in Seq(Bytes)
<1> HIDE DEF Stream
<1>1. CASE local[c].fd = Nothing
  BY <1>1, EmptySeq DEF Contents
<1>2. CASE local[c].fd = Device
  BY <1>2, StreamBytes DEF Contents, Device, Nothing
<1>3. CASE local[c].fd \in 1 .. signals
  <2>1. local[c].fd \in 1 .. MaxSignals /\ local[c].fd \notin {Device, Nothing}
    BY <1>3 DEF ProcessOK, Device, Nothing
  <2> QED BY <2>1 DEF Contents, StorageOK
<1> QED BY <1>1, <1>2, <1>3

(* One read of the device returns a part of the stream that begins at the  *)
(* position: the end of an entry is no further than the end of the stream. *)
LEMMA ReadDeviceIsPart ==
  ASSUME StorageOK, NEW pos \in Nat
  PROVE  PartBehind(ReadDevice(pos), Stream, pos)
<1> USE DEF PartBehind
<1> DEFINE N    == Len(window)
           end(k) == Len(FlattenSeq(SubSeq(window, 1, k)))
           ends == {end(k) : k \in 1 .. N}
           past == {e \in ends : e > pos}
           to   == Min(past \cup {pos + BufferSize})
<1>1. ReadDevice(pos) = IF past = {} THEN <<>> ELSE SubSeq(Stream, pos + 1, to)
  BY DEF ReadDevice
<1>2. \A k \in 1 .. N : end(k) \in Nat /\ end(k) <= Len(Stream)
  <2> SUFFICES ASSUME NEW k \in 1 .. N
               PROVE  end(k) \in Nat /\ end(k) <= Len(Stream)
    OBVIOUS
  <2>1. k \in 0 .. Len(window) /\ window \in Seq(Seq(Bytes))
    BY DEF StorageOK
  <2>2. /\ FlattenSeq(SubSeq(window, 1, k)) \in Seq(Bytes)
        /\ Len(FlattenSeq(SubSeq(window, 1, k))) <= Len(FlattenSeq(window))
    BY <2>1, FlattenFirst
  <2> QED BY <2>2 DEF Stream
<1> HIDE DEF end, Stream, N
<1>3. past \in SUBSET Nat
  BY <1>2
<1>4. CASE past # {}
  <2>1. to \in past \cup {pos + BufferSize} /\ \A e \in past : to <= e
    <3> DEFINE T == past \cup {pos + BufferSize}
    <3>1. T \in SUBSET Nat /\ T # {} /\ past \subseteq T
      BY <1>3, ServerAssumption
    <3> HIDE DEF T, past
    <3>2. Min(T) \in T /\ \A e \in T : Min(T) <= e
      BY <3>1, NatLeast DEF Min
    <3> QED BY <3>1, <3>2 DEF T
  <2>2. PICK e \in past : TRUE
    BY <1>4
  <2>3. e \in Nat /\ e > pos /\ e <= Len(Stream)
    BY <1>2, <2>2
  <2>4. to \in Nat /\ to > pos /\ to <= Len(Stream)
    <3>1. to <= e
      BY <2>1, <2>2
    <3>2. CASE to \in past
      <4>1. to \in Nat /\ to > pos
        BY <1>2, <3>2
      <4> HIDE DEF to, past
      <4> QED BY <2>3, <3>1, <4>1
    <3>3. CASE to = pos + BufferSize
      <4> HIDE DEF to, past
      <4>1. to \in Nat /\ to > pos
        BY <3>3, ServerAssumption
      <4> QED BY <2>3, <3>1, <4>1
    <3> QED BY <2>1, <3>2, <3>3
  <2> HIDE DEF past, to
  <2>5. to - pos \in Nat /\ pos + (to - pos) = to
    BY <2>4
  <2> QED BY <1>1, <1>4, <2>4, <2>5
<1> QED BY <1>1, <1>4

(* One read of whatever is open returns a part of it. *)
LEMMA NextReadIsPart ==
  ASSUME StorageOK, ProcessOK, NEW c \in Conns, Counted(c),
         local[c].pos \in Nat
  PROVE  PartBehind(NextRead(c), Contents(c), local[c].pos)
<1> DEFINE pos == local[c].pos
           s   == Contents(c)
<1>1. s \in Seq(Bytes) /\ pos \in Nat
  BY ContentsBytes DEF Counted
<1>2. CASE local[c].fd = Device
  <2>1. s = Stream /\ NextRead(c) = ReadDevice(pos)
    BY <1>2 DEF Contents, NextRead, Device, Nothing
  <2> HIDE DEF s, pos, Stream
  <2> QED BY <1>1, <2>1, ReadDeviceIsPart DEF s, pos
<1>3. CASE local[c].fd # Device
  <2> DEFINE rest == SubSeq(s, pos + 1, Len(s))
  <2>1. NextRead(c) = Beginning(rest, BufferSize)
    BY <1>3 DEF NextRead, Beginning
  <2>2. BufferSize \in Nat /\ rest = SubSeq(s, pos + 1, Len(s))
    OBVIOUS
  <2> HIDE DEF s, pos, rest
  <2>3. PartBehind(Beginning(rest, BufferSize), s, pos)
    BY <1>1, <2>2, BeginningOfRest
  <2> QED BY <2>1, <2>3 DEF s, pos
<1> QED BY <1>2, <1>3

(* A worker that does not move itself keeps what holds of it, as long as   *)
(* nobody writes while it replies.                                         *)
LEMMA WorkerKept ==
  ASSUME NEW c \in Conns, WorkerOK(c),
         pc'[c] = pc[c], local'[c] = local[c], received'[c] = received[c],
         peer'[c] = "up" => peer[c] = "up",
         signals \in Nat, signals' \in Nat, signals <= signals',
         pc[c] # "reply" \/ UNCHANGED <<window, partial, files>>
  PROVE  WorkerOK(c)'
<1>1. Fresh(c)'
  BY DEF WorkerOK, Fresh
<1>2. Counted(c)'
  BY DEF WorkerOK, Counted
<1>3. /\ pc[c] = "reply" => Contents(c)' = Contents(c)
      /\ HasSeek(c)' = HasSeek(c) /\ Request(c)' = Request(c)
      /\ pc[c] = "reply" => Stream' = Stream
  BY DEF Contents, HasSeek, Request, Stream
<1>4. Answered(c)'
  BY <1>3 DEF WorkerOK, Answered
<1>5. LineStored(c)'
  BY <1>3 DEF WorkerOK, LineStored
<1> QED BY <1>1, <1>2, <1>4, <1>5 DEF WorkerOK

LEMMA InitSocket == Init => SocketInv
<1> SUFFICES ASSUME Init PROVE SocketInv
  OBVIOUS
<1> USE DEF Init
<1>1. StorageOK
  <2>1. first \in Nat
    OBVIOUS
  <2>2. /\ files \in [1 .. MaxSignals -> Seq(Bytes)] /\ partial \in Seq(Bytes)
        /\ window \in Seq(Seq(Bytes))
    OBVIOUS
  <2> QED BY <2>1, <2>2 DEF StorageOK, Device, Nothing
<1>2. ProcessOK
  <2>1. fds = {} /\ Cardinality(fds) <= MaxFds /\ IsFiniteSet(fds)
    BY FS_EmptySet
  <2>2. /\ running = FALSE /\ main = "down" /\ handler = "none"
        /\ signals \in 0 .. MaxSignals /\ client_socket = NULL
        /\ file_mutex = NULL
    OBVIOUS
  <2> HIDE DEF Init
  <2> QED BY <2>1, <2>2 DEF ProcessOK
<1>3. ClientsOK
  BY DEF ClientsOK, NoLocals, LocalType, Nothing
<1>4. ASSUME NEW c \in Conns PROVE WorkerOK(c)
  BY DEF WorkerOK, Fresh, Counted, Answered, LineStored, NoLocals
<1> QED BY <1>1, <1>2, <1>3, <1>4 DEF SocketInv

(* What is left when the process has ended.                                *)
LEMMA EndsSocket ==
  ASSUME SocketInv, ProcessEnds PROVE SocketInv'
<1> USE DEF ProcessEnds
<1>1. StorageOK'
  BY DEF SocketInv, StorageOK, storage
<1>2. ProcessOK'
  <2>1. Cardinality(fds') <= MaxFds /\ IsFiniteSet(fds')
    BY FS_EmptySet
  <2> QED BY <2>1 DEF SocketInv, ProcessOK
<1>3. ClientsOK'
  BY DEF SocketInv, ClientsOK, NoLocals, LocalType, Nothing
<1>4. ASSUME NEW c \in Conns PROVE WorkerOK(c)'
  BY DEF WorkerOK, Fresh, Counted, Answered, LineStored, NoLocals
<1> QED BY <1>1, <1>2, <1>3, <1>4 DEF SocketInv

(* The steps of the clients, the main thread and the handler: no worker    *)
(* moves, and nobody writes.                                               *)
LEMMA QuietSocket ==
  ASSUME SocketInv, StorageOK', ProcessOK', ClientsOK',
         UNCHANGED <<device, files, pc, local, received>>,
         signals <= signals',
         \A c \in Conns : peer'[c] = "up" => peer[c] = "up" \/ pc[c] = "none"
  PROVE  SocketInv'
<1> SUFFICES ASSUME NEW c \in Conns PROVE WorkerOK(c)'
  BY DEF SocketInv
<1>1. WorkerOK(c) /\ signals \in Nat /\ signals' \in Nat
  BY DEF SocketInv, ProcessOK
<1>2. UNCHANGED <<window, partial, files>>
  BY DEF device
<1>3. CASE pc[c] = "none"
  <2>1. Fresh(c)' /\ Counted(c)'
    BY <1>1 DEF WorkerOK, Fresh, Counted
  <2>2. Answered(c)' /\ LineStored(c)'
    BY <1>3 DEF Answered, LineStored
  <2> QED BY <2>1, <2>2 DEF WorkerOK
<1>4. CASE pc[c] # "none"
  BY <1>1, <1>2, <1>4, WorkerKept
<1> QED BY <1>3, <1>4

(* The steps of a worker: no other moves, and while it writes no other is  *)
(* replying.                                                               *)
LEMMA StepSocket ==
  ASSUME SocketInv, NEW c \in Conns,
         StorageOK', ProcessOK', ClientsOK', WorkerOK(c)', signals' = signals,
         \A d \in Conns \ {c} :
           /\ pc'[d] = pc[d] /\ local'[d] = local[d]
           /\ received'[d] = received[d] /\ peer'[d] = peer[d]
           /\ pc[d] # "reply" \/ UNCHANGED <<window, partial, files>>
  PROVE  SocketInv'
<1> SUFFICES ASSUME NEW d \in Conns \ {c} PROVE WorkerOK(d)'
  BY DEF SocketInv
<1>1. WorkerOK(d) /\ signals \in Nat /\ signals' \in Nat /\ signals <= signals'
  BY DEF SocketInv, ProcessOK
<1> QED BY <1>1, WorkerKept

-----------------------------------------------------------------------------
(* The main thread, the handler and the clients. *)

(* The limit on descriptors: one more, and some fewer. *)
LEMMA OneMore ==
  ASSUME NEW S, IsFiniteSet(S), NEW x
  PROVE  /\ IsFiniteSet(S \cup {x})
         /\ Cardinality(S) \in Nat /\ Cardinality(S \cup {x}) \in Nat
         /\ Cardinality(S \cup {x}) <= Cardinality(S) + 1
<1>1. IsFiniteSet(S \cup {x}) /\ Cardinality(S) \in Nat
  BY FS_AddElement, FS_CardinalityType
<1>2. Cardinality(S \cup {x}) = Cardinality(S)
        \/ Cardinality(S \cup {x}) = Cardinality(S) + 1
  BY FS_AddElement
<1> QED BY <1>1, <1>2

(* Closing descriptors leaves fewer.                                       *)
LEMMA SomeFewer ==
  ASSUME NEW S, IsFiniteSet(S), NEW x, NEW y
  PROVE  /\ IsFiniteSet(S \ {x, y})
         /\ Cardinality(S) \in Nat /\ Cardinality(S \ {x, y}) \in Nat
         /\ Cardinality(S \ {x, y}) <= Cardinality(S)
<1>1. S \ {x, y} \in SUBSET S
  OBVIOUS
<1> QED BY <1>1, FS_Subset, FS_CardinalityType

(* accept puts the connection where its own descriptor was. *)
LEMMA OneForAnother ==
  ASSUME NEW S, IsFiniteSet(S), NEW x \in S, NEW y
  PROVE  /\ IsFiniteSet((S \ {x}) \cup {y})
         /\ Cardinality((S \ {x}) \cup {y}) <= Cardinality(S)
<1>1. /\ IsFiniteSet(S \ {x}) /\ Cardinality(S \ {x}) = Cardinality(S) - 1
      /\ Cardinality(S) \in Nat
  BY FS_RemoveElement, FS_CardinalityType
<1>2. Cardinality((S \ {x}) \cup {y}) <= Cardinality(S \ {x}) + 1
        /\ IsFiniteSet((S \ {x}) \cup {y})
        /\ Cardinality((S \ {x}) \cup {y}) \in Nat
  BY <1>1, OneMore
<1> QED BY <1>1, <1>2

(* The main thread keeps its part of the invariant.  While accept waits it *)
(* has a descriptor, so the connection takes the place of one.             *)
LEMMA MainProcess ==
  ASSUME SocketInv, SerialInv, Main, ~ProcessEnds
  PROVE  ProcessOK'
<1>1. ProcessOK
  BY DEF SocketInv
<1> USE DEF ProcessOK, flags, workers, At
<1>2. CASE Test
  BY <1>1, <1>2 DEF Test
<1>3. CASE AcceptFails
  BY <1>1, <1>3 DEF AcceptFails
<1>4. CASE AcceptWaits
  <2>1. IsFiniteSet(fds') /\ Cardinality(fds') <= MaxFds
    <3>1. /\ IsFiniteSet(fds \cup {AcceptFd})
          /\ Cardinality(fds) \in Nat /\ Cardinality(fds \cup {AcceptFd}) \in Nat
          /\ Cardinality(fds \cup {AcceptFd}) <= Cardinality(fds) + 1
      BY <1>1, OneMore
    <3>2. fds' = fds \cup {AcceptFd} /\ Cardinality(fds) < MaxFds
      BY <1>4 DEF AcceptWaits
    <3> QED BY <3>1, <3>2
  <2> QED BY <1>1, <1>4, <2>1 DEF AcceptWaits
<1>5. CASE Accept
  <2>1. Head(backlog) \in Conns
    BY <1>5 DEF Accept, SerialInv, Waiting
  <2>2. AcceptFd \in fds
    BY <1>1, <1>5 DEF Accept
  <2>3. IsFiniteSet(fds') /\ Cardinality(fds') <= MaxFds
    <3>1. fds' = (fds \ {AcceptFd}) \cup {<<"client", Head(backlog)>>}
      BY <1>5 DEF Accept
    <3>2. IsFiniteSet(fds') /\ Cardinality(fds') <= Cardinality(fds)
      BY <1>1, <2>2, <3>1, OneForAnother
    <3>3. Cardinality(fds') \in Nat /\ Cardinality(fds) \in Nat
      BY <1>1, <3>2, FS_CardinalityType
    <3> QED BY <1>1, <3>2, <3>3
  <2>4. fds' \subseteq {ServerFd, AcceptFd} \cup ({"client", "file"} \X Conns)
    BY <1>1, <1>5, <2>1 DEF Accept
  <2> QED BY <1>1, <1>5, <2>1, <2>3, <2>4 DEF Accept
<1>6. CASE CreateThread
  BY <1>1, <1>6 DEF CreateThread, clients
<1>7. CASE CreateThreadFails
  <2>1. fds' = fds \ {<<"client", client_socket>>, <<"client", client_socket>>}
    BY <1>7 DEF CreateThreadFails
  <2>2. IsFiniteSet(fds') /\ Cardinality(fds') <= MaxFds
    <3>1. /\ IsFiniteSet(fds') /\ Cardinality(fds') <= Cardinality(fds)
          /\ Cardinality(fds') \in Nat /\ Cardinality(fds) \in Nat
      BY <1>1, <2>1, SomeFewer
    <3> QED BY <1>1, <3>1
  <2> QED BY <1>1, <1>7, <2>2 DEF CreateThreadFails
<1>8. CASE AppendNode
  BY <1>1, <1>8 DEF AppendNode
<1>9. CASE RemoveFinishedThreads
  BY <1>1, <1>9 DEF RemoveFinishedThreads
<1>10. CASE Listen
  <2>1. IsFiniteSet(fds') /\ Cardinality(fds') = 1
    BY <1>10, FS_Singleton DEF Listen
  <2>2. Cardinality(fds') <= MaxFds
    BY <2>1
  <2> QED BY <1>1, <1>10, <2>1, <2>2 DEF Listen
<1>11. CASE Continue
  BY <1>1, <1>11 DEF Continue
<1> QED
  BY <1>2, <1>3, <1>4, <1>5, <1>6, <1>7, <1>8, <1>9, <1>10, <1>11
     DEF Main, MainExits

(* pthread_create gives a worker locals nobody has touched. *)
LEMMA CreateSocket ==
  ASSUME SocketInv, SerialInv, CreateThread, ProcessOK' PROVE SocketInv'
<1> USE DEF CreateThread, At, clients, storage, flags
<1>1. /\ client_socket \in Conns /\ pc[client_socket] = "none"
      /\ pc' = [pc EXCEPT ![client_socket] = "start"] /\ DOMAIN pc = Conns
  BY DEF SerialInv, Accepted
<1>2. StorageOK' /\ ClientsOK' /\ signals' = signals
  BY DEF SocketInv, StorageOK, ClientsOK
<1>3. WorkerOK(client_socket)'
  <2>1. Fresh(client_socket) /\ Counted(client_socket)
    BY <1>1 DEF SocketInv, WorkerOK
  <2>2. Fresh(client_socket)' /\ Counted(client_socket)'
    BY <1>1, <2>1 DEF Fresh, Counted, NoLocals
  <2>3. Answered(client_socket)' /\ LineStored(client_socket)'
    BY <1>1 DEF Answered, LineStored
  <2> QED BY <2>2, <2>3 DEF WorkerOK
<1>4. \A d \in Conns \ {client_socket} :
        /\ pc'[d] = pc[d] /\ local'[d] = local[d]
        /\ received'[d] = received[d] /\ peer'[d] = peer[d]
        /\ UNCHANGED <<window, partial, files>>
  BY <1>1
<1> QED BY <1>1, <1>2, <1>3, <1>4, StepSocket

LEMMA MainSocket ==
  ASSUME SocketInv, SerialInv, Main PROVE SocketInv'
<1>1. CASE MainExits
  BY <1>1, EndsSocket DEF MainExits
<1>2. CASE ~ProcessEnds /\ Main /\ ~MainExits
  <2>1. ProcessOK'
    BY <1>2, MainProcess
  <2>2. CASE CreateThread
    BY <2>1, <2>2, CreateSocket
  <2>3. CASE Main /\ ~MainExits /\ ~CreateThread
    <3>1. StorageOK' /\ signals' = signals
            /\ UNCHANGED <<device, files, pc, local, received>>
      BY <2>3 DEF SocketInv, StorageOK, Main, Listen, Test, AcceptFails,
           Continue, AcceptWaits, Accept, CreateThreadFails, AppendNode, RemoveFinishedThreads,
           storage, device, flags, workers, clients
    <3>2. \/ UNCHANGED <<peer, wire>>
          \/ /\ peer' = [peer EXCEPT ![client_socket] = "gone"]
             /\ UNCHANGED wire
      BY <2>3 DEF Main, Listen, Test, AcceptFails, Continue,
           AcceptWaits, Accept, CreateThreadFails, AppendNode, RemoveFinishedThreads,
           clients
    <3>3. ClientsOK'
      BY <3>1, <3>2 DEF SocketInv, ClientsOK
    <3>4. \A c \in Conns : peer'[c] = "up" => peer[c] = "up"
      BY <3>2 DEF SocketInv, ClientsOK
    <3>5. signals <= signals'
      BY <3>1 DEF SocketInv, ProcessOK
    <3> QED BY <2>1, <3>1, <3>3, <3>4, <3>5, QuietSocket
  <2> QED BY <1>2, <2>2, <2>3
<1>3. CASE ProcessEnds
  BY <1>3, EndsSocket
<1> QED BY <1>1, <1>2, <1>3

LEMMA StartSocket ==
  ASSUME SocketInv, Start PROVE SocketInv'
<1> USE DEF Start
<1>1. StorageOK' /\ ClientsOK'
  BY DEF SocketInv, StorageOK, ClientsOK, storage, workers, clients
<1>2. ProcessOK'
  BY DEF SocketInv, ProcessOK, workers
<1>3. UNCHANGED <<device, files, pc, local, received, peer, signals>>
  BY DEF storage, device, workers, clients
<1>4. signals <= signals'
  BY <1>3 DEF SocketInv, ProcessOK
<1> QED BY <1>1, <1>2, <1>3, <1>4, QuietSocket

(* The handler unlinks the device's name, and closes the listening socket. *)
LEMMA HandlerSocket ==
  ASSUME SocketInv, Signal \/ HandlerReturns PROVE SocketInv'
<1>1. UNCHANGED <<device, files, pc, local, received, peer, wire, file_mutex,
                  client_socket>>
  BY DEF Signal, HandlerReturns, storage, device, workers, clients
<1>2. ClientsOK'
  BY <1>1 DEF SocketInv, ClientsOK
<1>3. StorageOK /\ ProcessOK
  BY DEF SocketInv
<1>4. signals \in Nat /\ signals' \in Nat /\ signals <= signals'
        /\ signals' <= MaxSignals
  BY <1>3 DEF Signal, HandlerReturns, ProcessOK
<1>5. StorageOK'
  <2>1. node' \in {Nothing, node} /\ (node' = Nothing => signals' # 0)
    BY <1>3, <1>4 DEF Signal, HandlerReturns, StorageOK, storage, ProcessOK
  <2>2. node' \in {Device, Nothing} \cup 1 .. signals'
    BY <1>3, <1>4, <2>1 DEF StorageOK, Device, Nothing
  <2> QED BY <1>1, <1>3, <2>1, <2>2 DEF StorageOK, device
<1>6. ProcessOK'
  <2>1. CASE Signal
    BY <1>1, <1>3, <1>4, <2>1 DEF Signal, ProcessOK
  <2>2. CASE HandlerReturns
    <3>1. fds' = fds \ {ServerFd, AcceptFd}
      BY <2>2 DEF HandlerReturns
    <3>2. IsFiniteSet(fds') /\ Cardinality(fds') <= MaxFds
      <4>1. /\ IsFiniteSet(fds') /\ Cardinality(fds') <= Cardinality(fds)
            /\ Cardinality(fds') \in Nat /\ Cardinality(fds) \in Nat
        BY <1>3, <3>1, SomeFewer DEF ProcessOK
      <4> QED BY <1>3, <4>1 DEF ProcessOK
    <3> QED BY <1>1, <1>3, <1>4, <2>2, <3>1, <3>2 DEF HandlerReturns, ProcessOK
  <2> QED BY <2>1, <2>2
<1> QED BY <1>1, <1>2, <1>4, <1>5, <1>6, QuietSocket

LEMMA ConnectSocket ==
  ASSUME SocketInv, SerialInv, NEW c \in Conns, Connect(c) PROVE SocketInv'
<1> USE DEF Connect, process, flags, workers
<1>1. StorageOK' /\ ProcessOK'
  BY DEF SocketInv, StorageOK, ProcessOK, storage
<1>2. ClientsOK'
  BY DEF SocketInv, ClientsOK
<1>3. \A d \in Conns : peer'[d] = "up" => peer[d] = "up" \/ pc[d] = "none"
  BY DEF SocketInv, ClientsOK, SerialInv
<1>4. UNCHANGED <<device, files, pc, local, received, signals>>
  BY DEF storage, device
<1>5. signals <= signals'
  BY <1>4 DEF SocketInv, ProcessOK
<1> QED BY <1>1, <1>2, <1>3, <1>4, <1>5, QuietSocket

(* What the client had sent last may be lost. *)
LEMMA ResetSocket ==
  ASSUME SocketInv, NEW c \in Conns, Reset(c) PROVE SocketInv'
<1> USE DEF Reset, process, flags, workers
<1>1. StorageOK' /\ ProcessOK'
  BY DEF SocketInv, StorageOK, ProcessOK, storage
<1>2. wire' \in [Conns -> Seq(Bytes)]
  <2>1. PICK n \in 0 .. Len(wire[c]) :
          wire' = [wire EXCEPT ![c] = SubSeq(@, 1, n)]
    OBVIOUS
  <2>2. wire \in [Conns -> Seq(Bytes)] /\ wire[c] \in Seq(Bytes)
    BY DEF SocketInv, ClientsOK
  <2>3. SubSeq(wire[c], 1, n) \in Seq(Bytes)
    BY <2>2
  <2> QED BY <2>1, <2>2, <2>3
<1>3. ClientsOK'
  BY <1>2 DEF SocketInv, ClientsOK
<1>4. \A d \in Conns : peer'[d] = "up" => peer[d] = "up"
  BY DEF SocketInv, ClientsOK
<1>5. UNCHANGED <<device, files, pc, local, received, signals>>
  BY DEF storage, device
<1>6. signals <= signals'
  BY <1>5 DEF SocketInv, ProcessOK
<1> QED BY <1>1, <1>3, <1>4, <1>5, <1>6, QuietSocket

-----------------------------------------------------------------------------
(* The workers. *)

LEMMA OwnStepSocket ==
  ASSUME SocketInv, NEW c \in Conns, UNCHANGED <<storage, process>>,
         file_mutex' \in Conns \cup {NULL}, ClientsOK', WorkerOK(c)',
         \A d \in Conns \ {c} :
           /\ pc'[d] = pc[d] /\ local'[d] = local[d]
           /\ received'[d] = received[d] /\ peer'[d] = peer[d]
  PROVE  SocketInv'
<1>1. StorageOK' /\ ProcessOK' /\ signals' = signals
        /\ UNCHANGED <<window, partial, files>>
  BY DEF SocketInv, StorageOK, ProcessOK, storage, process, flags
<1> QED BY <1>1, StepSocket

(* A worker on its way to the reply only has to keep its counts.           *)
LEMMA NotReplying ==
  ASSUME NEW c \in Conns, pc'[c] # "reply", Fresh(c)', Counted(c)'
  PROVE  WorkerOK(c)'
BY DEF WorkerOK, Answered, LineStored

LEMMA StartsSocket ==
  ASSUME SocketInv, SerialInv, NEW c \in Conns,
         WorkerStarts(c) \/ WhileRunning(c) \/ ReceiveNothing(c)
           \/ Opened(c) \/ BadRequest(c) \/ Lock(c)
  PROVE  SocketInv'
<1> USE DEF WorkerStarts, WhileRunning, ReceiveNothing, Opened, BadRequest,
            Lock, Becomes, clients
<1>1. ClientsOK' /\ file_mutex' \in Conns \cup {NULL}
        /\ UNCHANGED <<storage, process, local, received, peer, signals>>
  BY DEF SocketInv, ClientsOK, ProcessOK, process, flags
<1>2. PICK place \in {"loop", "done", "recv", "open", "request", "locked",
                      "finish"} :
        pc' = [pc EXCEPT ![c] = place] /\ (place = "done" => pc[c] = "start")
          /\ (place \in {"loop", "recv"} => pc[c] \in {"start", "loop"})
          /\ (pc[c] = "request" <=> place \in {"finish", "locked"})
          /\ pc[c] \notin {"reply", "finish"}
  OBVIOUS
<1> HIDE DEF WorkerStarts, WhileRunning, ReceiveNothing, Opened, BadRequest,
             Lock
<1>3. WorkerOK(c)'
  <2>1. Fresh(c) /\ Counted(c) /\ DOMAIN pc = Conns
    BY DEF SocketInv, WorkerOK, SerialInv
  <2>2. Fresh(c)'
    BY <1>1, <1>2, <2>1 DEF Fresh
  <2>3. Counted(c)'
    BY <1>1, <2>1 DEF Counted
  <2> QED BY <1>2, <2>1, <2>2, <2>3, NotReplying
<1>4. \A d \in Conns \ {c} :
        /\ pc'[d] = pc[d] /\ local'[d] = local[d]
        /\ received'[d] = received[d] /\ peer'[d] = peer[d]
  BY <1>1, <1>2
<1> QED BY <1>1, <1>3, <1>4, OwnStepSocket

(* What has been received fits the buffer, with one byte to spare.         *)
LEMMA ReceiveSocket ==
  ASSUME SocketInv, SerialInv, NEW c \in Conns, Receive(c) PROVE SocketInv'
<1>1. PICK n \in 1 .. Len(wire[c]) :
        /\ n <= Room(c)
        /\ local' = [local EXCEPT
                       ![c].buffer = local[c].buffer \o SubSeq(wire[c], 1, n),
                       ![c].total = @ + n]
        /\ wire' = [wire EXCEPT ![c] = SubSeq(@, n + 1, Len(@))]
        /\ Becomes(c, IF Contains(local[c].buffer \o SubSeq(wire[c], 1, n), NL)
                      THEN "open" ELSE "loop")
  BY DEF Receive
<1> DEFINE bytes == SubSeq(wire[c], 1, n)
<1>2. /\ wire[c] \in Seq(Bytes) /\ local[c] \in LocalType
      /\ wire \in [Conns -> Seq(Bytes)] /\ local \in [Conns -> LocalType]
  BY DEF SocketInv, ClientsOK
<1>3. bytes \in Seq(Bytes) /\ Len(bytes) = n
        /\ SubSeq(wire[c], n + 1, Len(wire[c])) \in Seq(Bytes)
  BY <1>2
<1> HIDE DEF bytes
<1>4. PICK place \in {"open", "loop"} : pc' = [pc EXCEPT ![c] = place]
  BY <1>1 DEF Becomes
<1>5. /\ local' = [local EXCEPT ![c].buffer = local[c].buffer \o bytes,
                                ![c].total = @ + n]
      /\ n \in Nat /\ n <= BufferSize - local[c].total - 1
  BY <1>1 DEF bytes, Room
<1>6. pc[c] = "recv" /\ DOMAIN pc = Conns
        /\ UNCHANGED <<storage, process, file_mutex, peer, received>>
  BY DEF Receive, SerialInv
<1>7. local[c].buffer \o bytes \in Seq(Bytes)
        /\ Len(local[c].buffer \o bytes) = Len(local[c].buffer) + n
  <2>1. local[c].buffer \in Seq(Bytes)
    BY <1>2 DEF LocalType
  <2> QED BY <1>3, <2>1
<1>8. /\ local'[c].buffer = local[c].buffer \o bytes
      /\ local'[c].total = local[c].total + n
      /\ local'[c].fd = local[c].fd /\ local'[c].pos = local[c].pos
      /\ local'[c].stored = local[c].stored
      /\ local' \in [Conns -> LocalType]
      /\ \A d \in Conns \ {c} : local'[d] = local[d]
  <2> DEFINE b == local[c].buffer \o bytes
             t == local[c].total + n
             l == [local[c] EXCEPT !.buffer = b, !.total = t]
  <2>1. b \in Seq(Bytes) /\ t \in Int
    BY <1>2, <1>5, <1>7 DEF LocalType
  <2>2. local' = [local EXCEPT ![c] = l]
    BY <1>2, <1>5
  <2> HIDE DEF b, t
  <2>3. l \in LocalType
    BY <1>2, <2>1 DEF LocalType
  <2>4. /\ l.buffer = b /\ l.total = t /\ l.fd = local[c].fd
        /\ l.pos = local[c].pos /\ l.stored = local[c].stored
    BY <1>2 DEF LocalType
  <2> HIDE DEF l
  <2> QED BY <1>2, <2>2, <2>3, <2>4 DEF b, t
<1>9. ClientsOK'
  <2>1. wire' \in [Conns -> Seq(Bytes)]
    BY <1>1, <1>2, <1>3
  <2> QED BY <1>6, <1>8, <2>1 DEF SocketInv, ClientsOK
<1>10. WorkerOK(c)'
  <2>1. Fresh(c) /\ Counted(c)
    BY DEF SocketInv, WorkerOK
  <2>2. Len(local[c].buffer) \in Nat /\ local[c].total \in Int
    BY <1>2 DEF LocalType
  <2>3. local'[c].total = Len(local'[c].buffer) /\ local'[c].total < BufferSize
    <3>1. BufferSize \in Nat /\ local[c].total = Len(local[c].buffer)
      BY <1>6, <2>1 DEF Fresh
    <3> HIDE ServerAssumption
    <3> QED BY <1>5, <1>7, <1>8, <2>2, <3>1
  <2>4. Fresh(c)'
    BY <1>4, <1>6, <1>8, <2>1, <2>3 DEF Fresh
  <2>5. Counted(c)'
    <3>1. signals' = signals
      BY <1>6 DEF process, flags
    <3> QED BY <1>8, <2>1, <2>3, <3>1 DEF Counted
  <2>6. pc'[c] # "reply"
    BY <1>4, <1>6
  <2> QED BY <2>4, <2>5, <2>6, NotReplying
<1>11. \A d \in Conns \ {c} :
        /\ pc'[d] = pc[d] /\ local'[d] = local[d]
        /\ received'[d] = received[d] /\ peer'[d] = peer[d]
  BY <1>4, <1>6, <1>8
<1>12. file_mutex' \in Conns \cup {NULL}
  BY <1>6 DEF SocketInv, ProcessOK
<1> QED BY <1>6, <1>9, <1>10, <1>11, <1>12, OwnStepSocket

(* recv's -1 is counted once: the worker has left the loop.                *)
LEMMA ErrorSocket ==
  ASSUME SocketInv, SerialInv, NEW c \in Conns, ReceiveError(c)
  PROVE  SocketInv'
<1>1. /\ pc[c] = "recv" /\ DOMAIN pc = Conns
      /\ pc' = [pc EXCEPT ![c] = "open"]
      /\ peer' = [peer EXCEPT ![c] = "broken"]
      /\ local' = [local EXCEPT ![c].total = @ - 1]
      /\ UNCHANGED <<storage, process, file_mutex, wire, received>>
  BY DEF ReceiveError, Becomes, SerialInv
<1>2. local \in [Conns -> LocalType] /\ local[c] \in LocalType
  BY DEF SocketInv, ClientsOK
<1>3. /\ local'[c].buffer = local[c].buffer
      /\ local'[c].total = local[c].total - 1
      /\ local'[c].fd = local[c].fd /\ local'[c].pos = local[c].pos
      /\ local'[c].stored = local[c].stored
      /\ local' \in [Conns -> LocalType]
      /\ \A d \in Conns \ {c} : local'[d] = local[d]
  <2> DEFINE t == local[c].total - 1
             l == [local[c] EXCEPT !.total = t]
  <2>1. t \in Int
    BY <1>2 DEF LocalType
  <2>2. local' = [local EXCEPT ![c] = l]
    BY <1>1, <1>2
  <2> HIDE DEF t
  <2>3. l \in LocalType
    BY <1>2, <2>1 DEF LocalType
  <2>4. /\ l.buffer = local[c].buffer /\ l.total = t /\ l.fd = local[c].fd
        /\ l.pos = local[c].pos /\ l.stored = local[c].stored
    BY <1>2 DEF LocalType
  <2> HIDE DEF l
  <2> QED BY <1>2, <2>2, <2>3, <2>4 DEF t
<1>4. ClientsOK'
  BY <1>1, <1>3 DEF SocketInv, ClientsOK
<1>5. WorkerOK(c)'
  <2>1. Fresh(c) /\ Counted(c)
    BY DEF SocketInv, WorkerOK
  <2>2. Len(local[c].buffer) \in Nat /\ local[c].total \in Int
    BY <1>2 DEF LocalType
  <2>3. Fresh(c)'
    BY <1>1, <1>3, <2>1 DEF Fresh
  <2>4. Counted(c)'
    <3>1. signals' = signals
      BY <1>1 DEF process, flags
    <3>2. local'[c].total = Len(local'[c].buffer) - 1
            /\ local'[c].total < BufferSize
      BY <1>1, <1>3, <2>1, <2>2 DEF Fresh, Counted
    <3> QED BY <1>3, <2>1, <3>1, <3>2 DEF Counted
  <2> QED BY <1>1, <2>3, <2>4, NotReplying
<1>6. \A d \in Conns \ {c} :
        /\ pc'[d] = pc[d] /\ local'[d] = local[d]
        /\ received'[d] = received[d] /\ peer'[d] = peer[d]
  BY <1>1, <1>3 DEF SocketInv, ClientsOK
<1>7. file_mutex' \in Conns \cup {NULL}
  BY <1>1 DEF SocketInv, ProcessOK
<1> QED BY <1>1, <1>4, <1>5, <1>6, <1>7, OwnStepSocket

(* open names the file by the signals there have been, or finds no         *)
(* descriptor.                                                             *)
LEMMA OpenSocket ==
  ASSUME SocketInv, SerialInv, NEW c \in Conns, Open(c) PROVE SocketInv'
<1>1. /\ pc[c] = "open" /\ DOMAIN pc = Conns
      /\ pc' = [pc EXCEPT ![c] = "opened"] /\ file_mutex' = c
      /\ UNCHANGED <<device, files, flags, main, client_socket, peer, wire,
                     received>>
  BY DEF Open, Becomes, SerialInv, clients
<1>2. StorageOK /\ ProcessOK /\ ClientsOK
  BY DEF SocketInv
<1>3. local \in [Conns -> LocalType] /\ local[c] \in LocalType
  BY <1>2 DEF ClientsOK
<1>4. PICK fd \in {Device, Nothing} \cup 1 .. signals :
        local' = [local EXCEPT ![c].fd = fd]
  <2>1. CASE Cardinality(fds) >= MaxFds
                /\ local' = [local EXCEPT ![c].fd = Nothing]
    BY <2>1
  <2>2. CASE /\ node' = IF node = Nothing THEN signals ELSE node
             /\ local' = [local EXCEPT ![c].fd = node']
    <3>1. node' \in {Device, Nothing} \cup 1 .. signals
      BY <1>2, <2>2 DEF StorageOK, ProcessOK
    <3> QED BY <2>2, <3>1
  <2> QED BY <2>1, <2>2 DEF Open
<1>5. /\ local'[c].buffer = local[c].buffer /\ local'[c].total = local[c].total
      /\ local'[c].fd = fd /\ local'[c].pos = local[c].pos
      /\ local'[c].stored = local[c].stored
      /\ local' \in [Conns -> LocalType]
      /\ \A d \in Conns \ {c} : local'[d] = local[d]
  <2> DEFINE l == [local[c] EXCEPT !.fd = fd]
  <2>1. fd \in Int
    BY <1>2 DEF ProcessOK, Device, Nothing
  <2>2. local' = [local EXCEPT ![c] = l]
    BY <1>3, <1>4
  <2>3. l \in LocalType
    BY <1>3, <2>1 DEF LocalType
  <2>4. /\ l.buffer = local[c].buffer /\ l.total = local[c].total /\ l.fd = fd
        /\ l.pos = local[c].pos /\ l.stored = local[c].stored
    BY <1>3 DEF LocalType
  <2> HIDE DEF l
  <2> QED BY <1>3, <2>2, <2>3, <2>4
<1>6. ClientsOK'
  BY <1>1, <1>2, <1>5 DEF ClientsOK
<1>7. StorageOK'
  <2>1. node' \in {node, signals} /\ (node' = Nothing => node = Nothing)
          /\ (node' # node => node = Nothing)
    BY <1>2 DEF Open, ProcessOK, Nothing
  <2>2. UNCHANGED <<window, first, partial, files, signals>>
    BY <1>1 DEF device, flags
  <2> QED BY <1>2, <2>1, <2>2 DEF StorageOK, ProcessOK
<1>8. ProcessOK'
  <2>1. /\ IsFiniteSet(fds') /\ Cardinality(fds') <= MaxFds
        /\ fds \subseteq fds' /\ fds' \subseteq fds \cup {<<"file", c>>}
    <3>1. CASE fds' = fds
      BY <1>2, <3>1 DEF ProcessOK
    <3>2. CASE fds' = fds \cup {<<"file", c>>} /\ Cardinality(fds) < MaxFds
      <4>1. /\ IsFiniteSet(fds') /\ Cardinality(fds') <= Cardinality(fds) + 1
            /\ Cardinality(fds') \in Nat /\ Cardinality(fds) \in Nat
        BY <1>2, <3>2, OneMore DEF ProcessOK
      <4> QED BY <3>2, <4>1
    <3> QED BY <3>1, <3>2 DEF Open
  <2> QED BY <1>1, <1>2, <2>1 DEF ProcessOK, flags
<1>9. WorkerOK(c)'
  <2>1. Fresh(c) /\ Counted(c)
    BY DEF SocketInv, WorkerOK
  <2>2. Fresh(c)'
    BY <1>1, <1>5, <2>1 DEF Fresh
  <2>3. Counted(c)'
    BY <1>1, <1>5, <2>1 DEF Counted, flags
  <2> QED BY <1>1, <2>2, <2>3, NotReplying
<1>10. signals' = signals /\ UNCHANGED <<window, partial, files>>
         /\ \A d \in Conns \ {c} :
              /\ pc'[d] = pc[d] /\ local'[d] = local[d]
              /\ received'[d] = received[d] /\ peer'[d] = peer[d]
  BY <1>1, <1>5 DEF flags, device
<1> QED BY <1>6, <1>7, <1>8, <1>9, <1>10, StepSocket

LEMMA FinishSocket ==
  ASSUME SocketInv, SerialInv, NEW c \in Conns, Finish(c) PROVE SocketInv'
<1>1. /\ pc[c] = "finish" /\ DOMAIN pc = Conns
      /\ pc' = [pc EXCEPT ![c] = "done"]
      /\ local' = [local EXCEPT ![c] = NoLocals]
      /\ received' = [received EXCEPT ![c] = <<>>]
      /\ UNCHANGED <<storage, process, file_mutex, peer, wire>>
  BY DEF Finish, Becomes, SerialInv
<1>2. local \in [Conns -> LocalType] /\ received \in [Conns -> Seq(Bytes)]
  BY DEF SocketInv, ClientsOK
<1>3. NoLocals \in LocalType
  BY DEF NoLocals, LocalType, Nothing
<1>4. ClientsOK'
  <2>1. local' \in [Conns -> LocalType]
    BY <1>1, <1>2, <1>3
  <2>2. received' \in [Conns -> Seq(Bytes)]
    BY <1>1, <1>2
  <2> QED BY <1>1, <2>1, <2>2 DEF SocketInv, ClientsOK
<1>5. WorkerOK(c)'
  <2>1. pc'[c] = "done" /\ local'[c] = NoLocals /\ received'[c] = <<>>
    BY <1>1, <1>2
  <2>2. Fresh(c)'
    BY <2>1 DEF Fresh, NoLocals
  <2>3. Counted(c)'
    BY <2>1 DEF Counted, NoLocals
  <2> QED BY <2>1, <2>2, <2>3, NotReplying
<1>6. \A d \in Conns \ {c} :
        /\ pc'[d] = pc[d] /\ local'[d] = local[d]
        /\ received'[d] = received[d] /\ peer'[d] = peer[d]
  BY <1>1, <1>2
<1>7. file_mutex' \in Conns \cup {NULL}
  BY <1>1 DEF SocketInv, ProcessOK
<1> QED BY <1>1, <1>4, <1>5, <1>6, <1>7, OwnStepSocket

(* The position moves by what is read.                                     *)
LEMMA PositionMoves ==
  ASSUME ClientsOK, NEW c \in Conns, NEW n \in Nat,
         local' = [local EXCEPT ![c].pos = @ + n]
  PROVE  /\ local' \in [Conns -> LocalType]
         /\ local'[c].pos = local[c].pos + n
         /\ local'[c].buffer = local[c].buffer
         /\ local'[c].total = local[c].total
         /\ local'[c].fd = local[c].fd /\ local'[c].stored = local[c].stored
         /\ \A d \in Conns \ {c} : local'[d] = local[d]
<1> DEFINE p == local[c].pos + n
           l == [local[c] EXCEPT !.pos = p]
<1>1. local \in [Conns -> LocalType] /\ local[c] \in LocalType
  BY DEF ClientsOK
<1>2. p \in Nat
  BY <1>1 DEF LocalType
<1>3. local' = [local EXCEPT ![c] = l]
  BY <1>1
<1> HIDE DEF p
<1>4. l \in LocalType
  BY <1>1, <1>2 DEF LocalType
<1>5. /\ l.buffer = local[c].buffer /\ l.total = local[c].total
      /\ l.fd = local[c].fd /\ l.pos = p /\ l.stored = local[c].stored
  BY <1>1 DEF LocalType
<1> HIDE DEF l
<1> QED BY <1>1, <1>3, <1>4, <1>5 DEF p

(* A read that returns something returns n > 0 bytes behind the position.  *)
LEMMA NextReadBytes ==
  ASSUME SocketInv, NEW c \in Conns, NextRead(c) # <<>>
  PROVE  /\ Contents(c) \in Seq(Bytes) /\ local[c].pos \in Nat
         /\ \E n \in Nat :
              /\ local[c].pos + n <= Len(Contents(c))
              /\ NextRead(c)
                   = SubSeq(Contents(c), local[c].pos + 1, local[c].pos + n)
              /\ NextRead(c) \in Seq(Bytes) /\ Len(NextRead(c)) = n
<1> DEFINE s   == Contents(c)
           pos == local[c].pos
<1>1. StorageOK /\ ProcessOK /\ Counted(c) /\ pos \in Nat
  BY DEF SocketInv, ClientsOK, LocalType, WorkerOK
<1>2. s \in Seq(Bytes)
  BY <1>1, ContentsBytes DEF Counted
<1>3. PartBehind(NextRead(c), s, pos)
  BY <1>1, NextReadIsPart
<1> HIDE DEF s, pos
<1>4. PICK n \in Nat :
        pos + n <= Len(s) /\ NextRead(c) = SubSeq(s, pos + 1, pos + n)
  BY <1>3 DEF PartBehind
<1>5. NextRead(c) \in Seq(Bytes) /\ Len(NextRead(c)) = n
  BY <1>1, <1>2, <1>4, SubSeqParts
<1> QED BY <1>1, <1>2, <1>4, <1>5 DEF s, pos

(* One more read and send: what has been sent still lies in front of the   *)
(* position.                                                               *)
LEMMA ReplySocket ==
  ASSUME SocketInv, SerialInv, NEW c \in Conns, Reply(c) PROVE SocketInv'
<1> DEFINE s    == Contents(c)
           pos  == local[c].pos
           sent == received[c]
           x    == NextRead(c)
<1>1. /\ pc[c] = "reply" /\ x # <<>> /\ peer[c] = "up"
      /\ local' = [local EXCEPT ![c].pos = @ + Len(x)]
      /\ received' = [received EXCEPT ![c] = @ \o x]
      /\ UNCHANGED <<storage, process, file_mutex, pc, peer, wire>>
  BY DEF Reply
<1>2. PICK n \in Nat : /\ pos + n <= Len(s)
                       /\ x = SubSeq(s, pos + 1, pos + n)
                       /\ x \in Seq(Bytes) /\ Len(x) = n
  BY <1>1, NextReadBytes
<1>3. s \in Seq(Bytes) /\ pos \in Nat
  BY <1>1, NextReadBytes
<1>4. received \in [Conns -> Seq(Bytes)] /\ sent \in Seq(Bytes) /\ ClientsOK
  BY DEF SocketInv, ClientsOK
<1> HIDE DEF x
<1>5. /\ local' \in [Conns -> LocalType]
      /\ local'[c].pos = pos + n
      /\ local'[c].buffer = local[c].buffer
      /\ local'[c].total = local[c].total
      /\ local'[c].fd = local[c].fd /\ local'[c].stored = local[c].stored
      /\ \A d \in Conns \ {c} : local'[d] = local[d]
  BY <1>1, <1>2, <1>4, PositionMoves
<1>6. /\ received' \in [Conns -> Seq(Bytes)] /\ received'[c] = sent \o x
      /\ \A d \in Conns \ {c} : received'[d] = received[d]
  <2>1. sent \o x \in Seq(Bytes)
    BY <1>2, <1>4, ConcatIndex
  <2> QED BY <1>1, <1>4, <2>1
<1>7. ClientsOK'
  BY <1>1, <1>4, <1>5, <1>6 DEF ClientsOK
<1>8. /\ Contents(c)' = s /\ HasSeek(c)' = HasSeek(c)
      /\ Request(c)' = Request(c) /\ Stream' = Stream
      /\ UNCHANGED <<window, partial, files>> /\ signals' = signals
  <2>1. UNCHANGED <<window, partial, files>> /\ signals' = signals
    BY <1>1 DEF storage, process, flags
  <2>2. Stream' = Stream
    BY <2>1 DEF Stream
  <2> HIDE DEF Stream
  <2>3. Contents(c)' = Contents(c)
    BY <1>5, <2>1, <2>2 DEF Contents
  <2>4. HasSeek(c)' = HasSeek(c) /\ Request(c)' = Request(c)
    BY <1>5 DEF HasSeek, Request
  <2> QED BY <2>1, <2>2, <2>3, <2>4
<1> HIDE DEF s, pos, sent
<1>9. WorkerOK(c)'
  <2>1. Fresh(c) /\ Counted(c) /\ Answered(c) /\ LineStored(c)
    BY DEF SocketInv, WorkerOK
  <2>2. Fresh(c)' /\ Counted(c)' /\ LineStored(c)'
    BY <1>1, <1>5, <1>8, <2>1 DEF Fresh, Counted, LineStored
  <2>3. /\ sent # <<>> =>
             /\ Len(sent) <= pos
             /\ sent = SubSeq(s, pos - Len(sent) + 1, pos)
        /\ ~HasSeek(c) => Len(sent) = pos
    BY <1>1, <2>1 DEF Answered, s, pos, sent
  <2>4. /\ Len(sent \o x) = Len(sent) + n /\ Len(sent) \in Nat
        /\ Len(sent \o x) <= pos + n
        /\ sent \o x = SubSeq(s, (pos + n) - Len(sent \o x) + 1, pos + n)
    <3>1. Len(sent \o x) = Len(sent) + n /\ Len(sent) \in Nat
      BY <1>2, <1>4, ConcatIndex
    <3>2. CASE sent = <<>>
      <4>1. sent \o x = x /\ Len(sent) = 0
        BY <1>2, <3>2
      <4>2. Len(sent \o x) = n /\ (pos + n) - Len(sent \o x) = pos
        BY <1>3, <3>1, <4>1
      <4> QED BY <1>2, <1>3, <3>1, <4>1, <4>2
    <3>3. CASE sent # <<>>
      <4> DEFINE m == pos - Len(sent)
                 k == Len(sent)
      <4>1. m \in Nat /\ k \in Nat /\ m + k = pos
        BY <1>3, <2>3, <3>1, <3>3
      <4>2. (pos + n) - Len(sent \o x) = m /\ m + (k + n) = pos + n
              /\ Len(sent \o x) <= pos + n
        BY <1>3, <3>1, <4>1
      <4>3. sent = SubSeq(s, m + 1, m + k)
        BY <2>3, <3>3, <4>1
      <4> HIDE DEF m, k
      <4>4. x = SubSeq(s, (m + k) + 1, (m + k) + n)
        BY <1>2, <4>1
      <4>5. m + k + n <= Len(s)
        BY <1>2, <4>1
      <4>6. SubSeq(s, m + 1, m + k) \o SubSeq(s, (m + k) + 1, (m + k) + n)
              = SubSeq(s, m + 1, m + (k + n))
        BY <1>3, <4>1, <4>5, SubSeqJoin
      <4> QED BY <3>1, <4>2, <4>3, <4>4, <4>6
    <3> QED BY <3>2, <3>3
  <2>5. Answered(c)'
    <3>1. ~HasSeek(c) => Len(sent \o x) = pos + n
      BY <2>3, <2>4
    <3> QED BY <1>1, <1>2, <1>5, <1>6, <1>8, <2>4, <3>1 DEF Answered, s
  <2> QED BY <2>2, <2>5 DEF WorkerOK
<1>10. \A d \in Conns \ {c} :
         /\ pc'[d] = pc[d] /\ local'[d] = local[d]
         /\ received'[d] = received[d] /\ peer'[d] = peer[d]
  BY <1>1, <1>5, <1>6
<1>11. file_mutex' \in Conns \cup {NULL}
  BY <1>1 DEF SocketInv, ProcessOK
<1> QED BY <1>1, <1>7, <1>9, <1>10, <1>11, OwnStepSocket

LEMMA ReplyEndsSocket ==
  ASSUME SocketInv, SerialInv, NEW c \in Conns, ReplyEnds(c) PROVE SocketInv'
<1>1. /\ pc[c] = "reply" /\ DOMAIN pc = Conns
      /\ pc' = [pc EXCEPT ![c] = "finish"] /\ file_mutex' = NULL
      /\ UNCHANGED <<storage, process, local, peer, wire, received>>
  BY DEF ReplyEnds, Unlock, Becomes, SerialInv, clients
<1>2. ClientsOK'
  BY <1>1 DEF SocketInv, ClientsOK
<1>3. WorkerOK(c)'
  <2>1. Counted(c)
    BY DEF SocketInv, WorkerOK
  <2>2. Fresh(c)' /\ Counted(c)'
    BY <1>1, <2>1 DEF Fresh, Counted, process, flags
  <2> QED BY <1>1, <2>2, NotReplying
<1>4. \A d \in Conns \ {c} :
        /\ pc'[d] = pc[d] /\ local'[d] = local[d]
        /\ received'[d] = received[d] /\ peer'[d] = peer[d]
  BY <1>1
<1> QED BY <1>1, <1>2, <1>3, <1>4, OwnStepSocket

(* Once a send has failed nothing more is claimed of this client.          *)
LEMMA ReplyFailsSocket ==
  ASSUME SocketInv, SerialInv, NEW c \in Conns, ReplyFails(c) PROVE SocketInv'
<1>1. /\ pc[c] = "reply" /\ DOMAIN pc = Conns /\ NextRead(c) # <<>>
      /\ peer' = [peer EXCEPT ![c] = "broken"] /\ peer \in [Conns ->
           {"none", "up", "reset", "broken", "gone"}]
      /\ UNCHANGED <<storage, process, wire, received>>
  BY DEF ReplyFails, SerialInv, SocketInv, ClientsOK
<1>2. Fresh(c) /\ Counted(c) /\ LineStored(c) /\ ClientsOK
  BY DEF SocketInv, WorkerOK
<1>3. UNCHANGED <<window, partial, files, signals>>
  BY <1>1 DEF storage, process, flags
<1>4. CASE HasSeek(c)
  <2>1. pc' = [pc EXCEPT ![c] = "finish"] /\ file_mutex' = NULL
          /\ local' = local
    BY <1>4 DEF ReplyFails, Unlock, Becomes
  <2>2. ClientsOK'
    BY <1>1, <1>2, <2>1 DEF ClientsOK
  <2>3. Fresh(c)' /\ Counted(c)'
    BY <1>1, <1>2, <1>3, <2>1 DEF Fresh, Counted
  <2>4. WorkerOK(c)'
    BY <1>1, <2>1, <2>3, NotReplying
  <2>5. \A d \in Conns \ {c} :
          /\ pc'[d] = pc[d] /\ local'[d] = local[d]
          /\ received'[d] = received[d] /\ peer'[d] = peer[d]
    BY <1>1, <2>1
  <2> QED BY <1>1, <2>1, <2>2, <2>4, <2>5, OwnStepSocket
<1>5. CASE ~HasSeek(c)
  <2>1. /\ local' = [local EXCEPT ![c].pos = @ + Len(NextRead(c))]
        /\ UNCHANGED <<file_mutex, pc>>
    BY <1>5 DEF ReplyFails
  <2>2. Len(NextRead(c)) \in Nat
    BY <1>1, NextReadBytes
  <2>3. /\ local' \in [Conns -> LocalType]
        /\ local'[c].buffer = local[c].buffer
        /\ local'[c].total = local[c].total
        /\ local'[c].fd = local[c].fd /\ local'[c].stored = local[c].stored
        /\ \A d \in Conns \ {c} : local'[d] = local[d]
    BY <1>2, <2>1, <2>2, PositionMoves
  <2>4. ClientsOK'
    BY <1>1, <1>2, <2>3 DEF ClientsOK
  <2>5. Fresh(c)' /\ Counted(c)'
    BY <1>1, <1>2, <1>3, <2>1, <2>3 DEF Fresh, Counted
  <2>6. LineStored(c)'
    BY <1>1, <1>2, <1>3, <2>1, <2>3 DEF LineStored, Request, Stream
  <2>7. Answered(c)'
    BY <1>1 DEF Answered
  <2>8. \A d \in Conns \ {c} :
          /\ pc'[d] = pc[d] /\ local'[d] = local[d]
          /\ received'[d] = received[d] /\ peer'[d] = peer[d]
    BY <1>1, <2>1, <2>3
  <2>9. file_mutex' \in Conns \cup {NULL}
    BY <2>1 DEF SocketInv, ProcessOK
  <2>10. WorkerOK(c)'
    BY <2>5, <2>6, <2>7 DEF WorkerOK
  <2> QED BY <1>1, <2>4, <2>8, <2>9, <2>10, OwnStepSocket
<1> QED BY <1>4, <1>5

(* A part of the end of the end. *)
LEMMA EndsWithEnd ==
  ASSUME NEW S, NEW s \in Seq(S), NEW t \in Seq(S), NEW r \in Seq(S),
         EndsWith(s, t \o r)
  PROVE  EndsWith(s, r)
<1>1. /\ Len(t \o r) = Len(t) + Len(r)
      /\ \A i \in 1 .. Len(r) : (t \o r)[Len(t) + i] = r[i]
  BY ConcatIndex
<1> DEFINE x == t \o r
<1>2. /\ Len(s) \in Nat /\ Len(t) \in Nat /\ Len(r) \in Nat
      /\ Len(x) = Len(t) + Len(r)
      /\ \A i \in 1 .. Len(r) : x[Len(t) + i] = r[i]
      /\ EndsWith(s, x)
  BY <1>1
<1> HIDE DEF x
<1>3. Len(x) <= Len(s) /\ \A i \in 1 .. Len(x) : s[(Len(s) - Len(x)) + i] = x[i]
  BY <1>2 DEF EndsWith
<1>4. ASSUME NEW i \in 1 .. Len(r)
      PROVE  s[(Len(s) - Len(r)) + i] = r[i]
  <2>1. Len(t) + i \in 1 .. Len(x)
    BY <1>2
  <2>2. s[(Len(s) - Len(x)) + (Len(t) + i)] = x[Len(t) + i]
    BY <1>3, <2>1
  <2>3. (Len(s) - Len(x)) + (Len(t) + i) = (Len(s) - Len(r)) + i
    BY <1>2
  <2> QED BY <1>2, <2>2, <2>3
<1>5. Len(r) <= Len(s)
  BY <1>2, <1>3
<1> QED BY <1>4, <1>5 DEF EndsWith

(* What a write leaves in the device.  A line that is written whole ends   *)
(* the stream, unless it has been added to what no write can complete.     *)
LEMMA DeviceTakes ==
  ASSUME StorageOK, NEW r \in Seq(Bytes), WriteDevice(r)
  PROVE  /\ window' \in Seq(Seq(Bytes)) /\ first' \in Nat
         /\ partial' \in Seq(Bytes)
         /\ Log!IsLine(r) /\ ~Contains(partial', NL) => IsSuffix(r, Stream')
<1> DEFINE x == partial \o r
<1>1. /\ window \in Seq(Seq(Bytes)) /\ first \in Nat /\ partial \in Seq(Bytes)
      /\ MaxOps \in Nat \ {0}
  BY DEF StorageOK
<1>2. /\ x \in Seq(Bytes) /\ Len(x) = Len(partial) + Len(r)
      /\ \A i \in 1 .. Len(r) : x[Len(partial) + i] = r[i]
  BY <1>1, ConcatIndex
<1> HIDE DEF x
<1>3. CASE Log!Extend(r)
  <2>1. partial' = x /\ UNCHANGED <<window, first>>
    BY <1>3 DEF Log!Extend, x
  <2>2. ASSUME Log!IsLine(r) PROVE Contains(x, NL)
    <3>1. /\ Len(partial) \in Nat /\ Len(r) \in Nat \ {0} /\ r[Len(r)] = NL
      BY <1>1, <2>2 DEF Log!IsLine
    <3>2. Len(x) \in 1 .. Len(x) /\ x[Len(x)] = NL
      BY <1>2, <3>1
    <3> QED BY <3>2 DEF Contains
  <2> QED BY <1>1, <1>2, <2>1, <2>2
<1>4. ASSUME NEW w \in Seq(Seq(Bytes)), window' = Append(w, x), partial' = <<>>
      PROVE  /\ window' \in Seq(Seq(Bytes)) /\ partial' \in Seq(Bytes)
             /\ IsSuffix(r, Stream')
  <2>1. FlattenSeq(window') \in Seq(Bytes) /\ EndsWith(FlattenSeq(window'), x)
    BY <1>2, <1>4, FlattenAppend
  <2>2. EndsWith(FlattenSeq(window'), r)
    BY <1>1, <2>1, EndsWithEnd DEF x
  <2>3. IsSuffix(r, FlattenSeq(window'))
    BY <2>1, <2>2, EndsWithSuffix
  <2> QED BY <1>2, <1>4, <2>3 DEF Stream
<1>5. CASE Log!Complete(r)
  <2>1. window' = Append(window, x) /\ partial' = <<>> /\ first' = first
    BY <1>5 DEF Log!Complete, x
  <2> QED BY <1>1, <1>4, <2>1
<1>6. CASE Log!Replace(r)
  <2>1. window' = Append(Tail(window), x) /\ partial' = <<>>
          /\ first' = (first + 1) % MaxOps /\ Len(window) = MaxOps
    BY <1>6 DEF Log!Replace, x
  <2>2. Tail(window) \in Seq(Seq(Bytes)) /\ first' \in Nat
    BY <1>1, <2>1
  <2> QED BY <1>4, <2>1, <2>2
<1> QED BY <1>3, <1>5, <1>6 DEF WriteDevice

(* The first SEARCHSTRING, when there is one, has arguments.               *)
LEMMA SeekArguments ==
  ASSUME ClientsOK, NEW c \in Conns, HasSeek(c), SeekOf(c) # Malformed
  PROVE  SeekOf(c) \in [write_cmd : Nat, write_cmd_offset : 0 .. Uint32 - 1]
<1> DEFINE b == local[c].buffer
           first1(i) == /\ b[i] \in DOMAIN SeekArgs
                        /\ \A j \in 1 .. i - 1 : b[j] \notin DOMAIN SeekArgs
           I == {i \in DOMAIN b : b[i] \in DOMAIN SeekArgs}
           at == CHOOSE i \in DOMAIN b : first1(i)
<1>1. b \in Seq(Bytes) /\ DOMAIN b \in SUBSET Nat /\ DOMAIN b = 1 .. Len(b)
  BY DEF ClientsOK, LocalType
<1>2. SeekOf(c) = SeekArgs[b[at]]
  BY DEF SeekOf
<1>3. I # {}
  BY DEF HasSeek
<1> HIDE DEF b
<1>4. PICK m \in I : \A i \in I : m <= i
  BY <1>1, <1>3, NatLeast
<1>5. m \in DOMAIN b /\ first1(m)
  BY <1>1, <1>4
<1> HIDE DEF I
<1>6. at \in DOMAIN b /\ b[at] \in DOMAIN SeekArgs
  BY <1>5
<1> HIDE DEF at
<1> QED BY <1>2, <1>6

(* AESDCHAR_IOCSEEKTO leaves a position.                                   *)
LEMMA SeekTargetNat ==
  ASSUME StorageOK, NEW args \in [write_cmd : Nat,
                                  write_cmd_offset : 0 .. Uint32 - 1]
  PROVE  SeekTarget(args) \in Nat
<1> DEFINE slot   == (args.write_cmd - first) % MaxOps
           N      == Len(window)
           before == Min({slot, N})
<1>1. slot \in Nat /\ N \in Nat
  <2>1. MaxOps \in Nat \ {0} /\ args.write_cmd - first \in Int
    BY DEF StorageOK
  <2> QED BY <2>1 DEF StorageOK
<1>2. SeekTarget(args)
        = (Len(FlattenSeq(SubSeq(window, 1, before))) + args.write_cmd_offset)
            % Uint32
  BY DEF SeekTarget
<1> HIDE DEF slot
<1>3. before \in 0 .. N
  <2> HIDE DEF N
  <2>1. before = IF slot <= N THEN slot ELSE N
    BY <1>1 DEF Min
  <2> QED BY <1>1, <2>1
<1> HIDE DEF before
<1>4. FlattenSeq(SubSeq(window, 1, before)) \in Seq(Bytes)
  BY <1>3, FlattenFirst DEF StorageOK
<1>5. Len(FlattenSeq(SubSeq(window, 1, before))) \in Nat
  BY <1>4
<1> QED BY <1>2, <1>5

(* The seek: nothing has been sent, and a position is all it changes.      *)
LEMMA SeekSocket ==
  ASSUME SocketInv, SerialInv, NEW c \in Conns, SeekRequest(c)
  PROVE  SocketInv'
<1>1. /\ pc[c] = "locked" /\ DOMAIN pc = Conns /\ HasSeek(c)
      /\ SeekOf(c) # Malformed
      /\ pc' = [pc EXCEPT ![c] = "reply"] /\ file_mutex' = file_mutex
      /\ file_mutex \in Conns \cup {NULL}
      /\ UNCHANGED <<storage, process, peer, wire, received>>
  BY DEF SeekRequest, Becomes, SerialInv, SocketInv, ProcessOK, clients
<1>2. StorageOK /\ ClientsOK /\ local \in [Conns -> LocalType]
        /\ local[c] \in LocalType
  BY DEF SocketInv, ClientsOK
<1>3. PICK p \in Nat : local' = [local EXCEPT ![c].pos = p]
  <2>1. SeekTarget(SeekOf(c)) \in Nat
    BY <1>1, <1>2, SeekArguments, SeekTargetNat
  <2>2. local[c].pos \in Nat
    BY <1>2 DEF LocalType
  <2>3. local' = [local EXCEPT ![c].pos =
                    IF local[c].fd = Device /\ SeekOf(c).write_cmd < MaxOps
                    THEN SeekTarget(SeekOf(c)) ELSE local[c].pos]
    BY DEF SeekRequest
  <2> QED BY <2>1, <2>2, <2>3
<1>4. /\ local' \in [Conns -> LocalType]
      /\ local'[c].buffer = local[c].buffer
      /\ local'[c].total = local[c].total
      /\ local'[c].fd = local[c].fd /\ local'[c].stored = local[c].stored
      /\ \A d \in Conns \ {c} : local'[d] = local[d]
  <2> DEFINE l == [local[c] EXCEPT !.pos = p]
  <2>1. local' = [local EXCEPT ![c] = l]
    BY <1>2, <1>3
  <2>2. l \in LocalType
    BY <1>2 DEF LocalType
  <2>3. /\ l.buffer = local[c].buffer /\ l.total = local[c].total
        /\ l.fd = local[c].fd /\ l.stored = local[c].stored
    BY <1>2 DEF LocalType
  <2> HIDE DEF l
  <2> QED BY <1>2, <2>1, <2>2, <2>3
<1>5. ClientsOK'
  BY <1>1, <1>2, <1>4 DEF ClientsOK
<1>6. WorkerOK(c)'
  <2>1. Fresh(c) /\ Counted(c)
    BY DEF SocketInv, WorkerOK
  <2>2. HasSeek(c)'
    BY <1>1, <1>4 DEF HasSeek
  <2>3. ~local[c].stored /\ received[c] = <<>>
    BY <1>1, <2>1 DEF Fresh
  <2>4. Fresh(c)' /\ Counted(c)'
    BY <1>1, <1>4, <2>1 DEF Fresh, Counted, process, flags
  <2>5. Answered(c)'
    BY <1>1, <2>2, <2>3 DEF Answered
  <2>6. LineStored(c)'
    BY <1>4, <2>3 DEF LineStored
  <2> QED BY <2>4, <2>5, <2>6 DEF WorkerOK
<1>7. \A d \in Conns \ {c} :
        /\ pc'[d] = pc[d] /\ local'[d] = local[d]
        /\ received'[d] = received[d] /\ peer'[d] = peer[d]
  BY <1>1, <1>4
<1> QED BY <1>1, <1>5, <1>6, <1>7, OwnStepSocket

(* The write: its worker holds file_mutex, so nobody is replying, and the  *)
(* line is the last in the device.                                         *)
LEMMA WriteSocket ==
  ASSUME SocketInv, SerialInv, NEW c \in Conns, WriteRequest(c)
  PROVE  SocketInv'
<1>1. /\ pc[c] = "locked" /\ DOMAIN pc = Conns
      /\ pc' = [pc EXCEPT ![c] = "reply"] /\ file_mutex' = file_mutex
      /\ UNCHANGED <<node, process, peer, wire, received>>
  BY DEF WriteRequest, Becomes, SerialInv, clients
<1>2. StorageOK /\ ProcessOK /\ ClientsOK /\ local \in [Conns -> LocalType]
        /\ local[c] \in LocalType /\ Fresh(c) /\ Counted(c)
  BY DEF SocketInv, ClientsOK, WorkerOK
<1>3. \A d \in Conns : pc[d] # "reply"
  <2>1. file_mutex = c
    BY <1>1 DEF SerialInv, DriverSerial, Critical
  <2> QED BY <1>1, <2>1 DEF SerialInv, DriverSerial, Critical
<1>4. PICK stored \in BOOLEAN : /\ local' = [local EXCEPT ![c].stored = stored]
                                /\ stored => WriteDevice(Request(c))
                                     \/ local[c].fd \in DOMAIN files
  <2>1. CASE local' = [local EXCEPT ![c].stored = TRUE]
               /\ (WriteDevice(Request(c)) \/ local[c].fd \in DOMAIN files)
    BY <2>1
  <2>2. CASE local' = local
    <3>1. ~local[c].stored
      BY <1>1, <1>2 DEF Fresh
    <3>2. local[c] = [local[c] EXCEPT !.stored = FALSE]
      BY <1>2, <3>1 DEF LocalType
    <3> QED BY <1>2, <2>2, <3>2
  <2> QED BY <2>1, <2>2 DEF WriteRequest
<1>5. /\ local' \in [Conns -> LocalType]
      /\ local'[c].buffer = local[c].buffer
      /\ local'[c].total = local[c].total /\ local'[c].pos = local[c].pos
      /\ local'[c].fd = local[c].fd /\ local'[c].stored = stored
      /\ \A d \in Conns \ {c} : local'[d] = local[d]
  <2> DEFINE l == [local[c] EXCEPT !.stored = stored]
  <2>1. local' = [local EXCEPT ![c] = l]
    BY <1>2, <1>4
  <2>2. l \in LocalType
    BY <1>2 DEF LocalType
  <2>3. /\ l.buffer = local[c].buffer /\ l.total = local[c].total
        /\ l.pos = local[c].pos /\ l.fd = local[c].fd /\ l.stored = stored
    BY <1>2 DEF LocalType
  <2> HIDE DEF l
  <2> QED BY <1>2, <2>1, <2>2, <2>3
<1>6. ClientsOK'
  BY <1>1, <1>2, <1>5 DEF ClientsOK
<1>7. Request(c) \in Seq(Bytes) /\ Request(c)' = Request(c)
  <2>1. /\ local[c].buffer \in Seq(Bytes) /\ local[c].total \in Int
        /\ \/ local[c].total = Len(local[c].buffer)
           \/ local[c].total = Len(local[c].buffer) - 1
    BY <1>2 DEF LocalType, Counted
  <2> QED BY <1>5, <2>1 DEF Request
<1>8. /\ UNCHANGED <<node, signals>>
      /\ window' \in Seq(Seq(Bytes)) /\ first' \in Nat
      /\ partial' \in Seq(Bytes) /\ files' \in [1 .. MaxSignals -> Seq(Bytes)]
  <2>1. UNCHANGED <<node, signals>>
    BY <1>1 DEF process, flags
  <2>2. CASE WriteDevice(Request(c)) /\ UNCHANGED files
    BY <1>2, <1>7, <2>1, <2>2, DeviceTakes DEF StorageOK
  <2>3. CASE /\ local[c].fd \in DOMAIN files
             /\ files' = [files EXCEPT ![local[c].fd] = @ \o Request(c)]
             /\ UNCHANGED device
    <3>1. files[local[c].fd] \in Seq(Bytes)
      BY <1>2, <2>3 DEF StorageOK
    <3>2. files[local[c].fd] \o Request(c) \in Seq(Bytes)
      BY <1>7, <3>1, ConcatIndex
    <3> QED BY <1>2, <2>1, <2>3, <3>2 DEF StorageOK, device
  <2>4. CASE UNCHANGED <<device, files>>
    BY <1>2, <2>1, <2>4 DEF StorageOK, device
  <2> QED BY <2>2, <2>3, <2>4 DEF WriteRequest
<1>9. StorageOK'
  BY <1>2, <1>8 DEF StorageOK
<1>10. ProcessOK'
  BY <1>1, <1>2 DEF ProcessOK, process, flags
<1>11. WorkerOK(c)'
  <2>1. local[c].pos = 0 /\ ~local[c].stored /\ received[c] = <<>>
    BY <1>1, <1>2 DEF Fresh
  <2>2. Fresh(c)' /\ Counted(c)'
    BY <1>1, <1>2, <1>5, <1>8 DEF Fresh, Counted
  <2>3. Answered(c)'
    BY <1>1, <1>5, <2>1 DEF Answered
  <2>4. LineStored(c)'
    <3>1. CASE ~stored
      BY <1>5, <3>1 DEF LineStored
    <3>2. CASE local[c].fd \in DOMAIN files
      <4>1. local[c].fd # Device
        BY <1>2, <3>2 DEF StorageOK, Device
      <4> QED BY <1>5, <4>1 DEF LineStored, Device
    <3>3. CASE WriteDevice(Request(c))
      <4>1. Log!IsLine(Request(c)) /\ ~Contains(partial', NL)
              => IsSuffix(Request(c), Stream')
        BY <1>2, <1>7, <3>3, DeviceTakes
      <4> QED BY <1>7, <4>1 DEF LineStored
    <3> QED BY <1>4, <3>1, <3>2, <3>3
  <2> QED BY <2>2, <2>3, <2>4 DEF WorkerOK
<1>12. \A d \in Conns \ {c} :
         /\ pc'[d] = pc[d] /\ local'[d] = local[d]
         /\ received'[d] = received[d] /\ peer'[d] = peer[d]
         /\ pc[d] # "reply"
  BY <1>1, <1>3, <1>5
<1> QED BY <1>6, <1>8, <1>9, <1>10, <1>11, <1>12, StepSocket

LEMMA NextSocket == SocketInv /\ SerialInv /\ [Next]_vars => SocketInv'
<1> SUFFICES ASSUME SocketInv, SerialInv, [Next]_vars PROVE SocketInv'
  OBVIOUS
<1>1. CASE Start
  BY <1>1, StartSocket
<1>2. CASE Main
  BY <1>2, MainSocket
<1>3. CASE Signal \/ HandlerReturns
  BY <1>3, HandlerSocket
<1>4. CASE Kill
  BY <1>4, EndsSocket DEF Kill
<1>5. ASSUME NEW c \in Conns, Connect(c) \/ Reset(c) PROVE SocketInv'
  BY <1>5, ConnectSocket, ResetSocket
<1>6. ASSUME NEW c \in Conns, Worker(c) PROVE SocketInv'
  <2>1. CASE \/ WorkerStarts(c) \/ WhileRunning(c)
            \/ Opened(c) \/ BadRequest(c) \/ Lock(c)
    BY <2>1, StartsSocket
  <2>2. CASE Open(c)
    BY <2>2, OpenSocket
  <2>3. CASE SeekRequest(c)
    BY <2>3, SeekSocket
  <2>4. CASE WriteRequest(c)
    BY <2>4, WriteSocket
  <2>5. CASE Reply(c)
    BY <2>5, ReplySocket
  <2>6. CASE ReplyEnds(c) \/ ReplyFails(c)
    BY <2>6, ReplyEndsSocket, ReplyFailsSocket
  <2>7. CASE BrokenPipe(c)
    BY <2>7, EndsSocket DEF BrokenPipe
  <2>8. CASE Finish(c)
    BY <2>8, FinishSocket
  <2> QED BY <1>6, <2>1, <2>2, <2>3, <2>4, <2>5, <2>6, <2>7, <2>8 DEF Worker
<1>7. ASSUME NEW c \in Conns, Recv(c) PROVE SocketInv'
  BY <1>7, ReceiveSocket, StartsSocket, ErrorSocket DEF Recv
<1>8. CASE UNCHANGED vars
  <2>1. StorageOK' /\ ProcessOK' /\ ClientsOK'
    BY <1>8 DEF vars, storage, process, flags, workers, clients,
         SocketInv, StorageOK, ProcessOK, ClientsOK
  <2>2. UNCHANGED <<device, files, pc, local, received, peer, signals>>
    BY <1>8 DEF vars, storage, device, process, flags, workers, clients
  <2>3. signals <= signals'
    BY <2>2 DEF SocketInv, ProcessOK
  <2> QED BY <2>1, <2>2, <2>3, QuietSocket
<1> QED BY <1>1, <1>2, <1>3, <1>4, <1>5, <1>6, <1>7, <1>8 DEF Next

(* The values of a state, what each worker has counted and what it has     *)
(* sent fit together, however the threads, the clients and the signals     *)
(* interleave.                                                             *)
THEOREM SocketInvHolds == Spec => []SocketInv
<1>1. Init => SocketInv
  BY InitSocket
<1>2. SocketInv /\ SerialInv /\ [Next]_vars => SocketInv'
  BY NextSocket
<1> QED BY <1>1, <1>2, SerialInvHolds, PTL DEF Spec

(* The state of a server keeps its type, whatever its clients send and     *)
(* reset: the descriptors never pass the limit, the buffer of a worker     *)
(* never fills (aesdsocket.c's realloc is dead code), and a worker opens   *)
(* only files that signals so far have left.                               *)
THEOREM TypeCorrect == Spec => []TypeOK
<1>1. SocketInv /\ SerialInv => TypeOK
  <2> SUFFICES ASSUME SocketInv, SerialInv PROVE TypeOK
    OBVIOUS
  <2>1. StorageOK /\ ProcessOK /\ ClientsOK
    BY DEF SocketInv
  <2>2. ASSUME NEW c \in Conns
        PROVE  /\ pc[c] \in {"none", "start", "loop", "recv", "open",
                             "opened", "request", "locked", "reply", "finish",
                             "done", "dead"}
               /\ peer[c] \in {"none", "up", "reset", "broken", "gone"}
               /\ local[c].total
                    \in {Len(local[c].buffer), Len(local[c].buffer) - 1}
               /\ local[c].total < BufferSize
               /\ local[c].fd \in {Device, Nothing} \cup 1 .. signals
               /\ local[c].pos \in Nat
    <3>1. Counted(c)
      BY DEF SocketInv, WorkerOK
    <3>2. local[c] \in LocalType
      BY <2>1 DEF ClientsOK
    <3>3. local[c].pos \in Nat
      BY <3>2 DEF LocalType
    <3>4. pc[c] \in Places /\ peer[c] \in {"none", "up", "reset", "broken",
                                           "gone"}
      BY <2>1 DEF ClientsOK, SerialInv
    <3> QED BY <3>1, <3>3, <3>4 DEF Places, Counted
  <2> QED BY <2>1, <2>2 DEF TypeOK, StorageOK, ProcessOK
<1> QED BY <1>1, SocketInvHolds, SerialInvHolds, PTL

(* What a client is sent is one snapshot of what its worker has open,      *)
(* however many reads it takes and whatever the other workers wait to      *)
(* write (socketThread's loop of read and send under file_mutex).          *)
THEOREM RepliesAreSnapshots == Spec => []ReplyIsSnapshot
<1>1. SocketInv => ReplyIsSnapshot
  BY DEF SocketInv, WorkerOK, Answered, ReplyIsSnapshot
<1> QED BY <1>1, SocketInvHolds, PTL

(* The line a client has sent is the last one of its reply: nobody writes  *)
(* between socketThread's write and its last read.                         *)
THEOREM OwnLineComesLast == Spec => []OwnLineIsLast
<1>1. SocketInv => OwnLineIsLast
  BY DEF SocketInv, WorkerOK, LineStored, OwnLineIsLast
<1> QED BY <1>1, SocketInvHolds, PTL
=============================================================================
