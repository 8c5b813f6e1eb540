-------------------------- MODULE AesdSystemProofs --------------------------
(***************************************************************************)
(* Theorems about the server on the driver, for any number of workers and  *)
(* outsiders, any ring and any heap.                                       *)
(*                                                                         *)
(* Two workers never meet at dev->lock.  file_mutex alone does not say so: *)
(* the lock belongs to the driver, which knows nothing of file_mutex.  The *)
(* invariant ties them: a worker that holds the lock is asleep in the      *)
(* write or the read of its critical section.                              *)
(*                                                                         *)
(* The server is a user of the driver: the driver's variables move only as *)
(* AesdChar lets them, so everything proved in AesdCharProofs holds here.  *)
(*                                                                         *)
(* What a client is sent is the window from its first byte on.  The        *)
(* invariant follows the answer of each worker through its critical        *)
(* section, beside the invariants of the driver.                           *)
(***************************************************************************)
EXTENDS AesdSystem, AesdCharProofs

(* Where a worker holds file_mutex. *)
Critical == {"write", "ioctl", "writing", "lseek", "read", "reading"}

Places == {"recv", "open", "lock", "done"} \cup Critical

Asleep == {"writing", "reading"}

ContendInv ==
  /\ at \in [Workers -> Places]
  /\ \A w \in Workers : at[w] \in Critical <=> file_mutex = w
  /\ lock \in Workers => at[lock] \in Asleep

(* NULL is the mutex that nobody holds. *)
LEMMA NoNullWorker == NULL \notin Workers
BY DriverAssumption, SystemAssumption

(* Nobody has started. *)
LEMMA InitContend == SystemInit => ContendInv
BY NoNullWorker DEF SystemInit, Init, ContendInv, Places, Critical

(* A step that moves no worker, and leaves the lock or takes it for an     *)
(* outsider or nobody.                                                     *)
LEMMA QuietContend ==
  ASSUME ContendInv, UNCHANGED <<at, file_mutex>>,
         lock' = lock \/ lock' \notin Workers
  PROVE  ContendInv'
BY DEF ContendInv

(* A step of a worker inside its critical section, or outside it.  What it *)
(* does to the lock fits where it goes.                                    *)
LEMMA MoveContend ==
  ASSUME ContendInv, NEW w \in Workers, NEW where \in Places,
         at' = [at EXCEPT ![w] = where],
         at[w] \in Critical <=> where \in Critical,
         UNCHANGED file_mutex,
         \/ lock' = lock /\ (lock = w => where \in Asleep)
         \/ lock' = w /\ where \in Asleep
         \/ lock' \notin Workers
  PROVE  ContendInv'
BY DEF ContendInv

LEMMA LockContend ==
  ASSUME ContendInv, NEW w \in Workers, Lock(w)
  PROVE  ContendInv'
<1>1. PICK where \in {"ioctl", "write"} : at' = [at EXCEPT ![w] = where]
  BY DEF Lock, Goto
<1>2. UNCHANGED lock /\ file_mutex = NULL /\ file_mutex' = w /\ at[w] = "lock"
  BY DEF Lock, vars
<1>3. \A v \in Workers : at[v] \notin Critical
  BY <1>2, NoNullWorker DEF ContendInv
<1> QED
  BY <1>1, <1>2, <1>3 DEF ContendInv, Places, Critical, Asleep

LEMMA UnlockContend ==
  ASSUME ContendInv, NEW w \in Workers, Unlock(w)
  PROVE  ContendInv'
<1>1. /\ at' = [at EXCEPT ![w] = "done"] /\ file_mutex' = NULL
      /\ at[w] \in {"read", "reading"}
  BY DEF Unlock, Goto
<1>2. /\ at[w] = "read" => UNCHANGED lock
      /\ at[w] = "reading" => lock' = NULL
  BY DEF Unlock, ReadEOF, Contend, ReadFault, Wake
<1>3. \A v \in Workers : at[v] \in Critical => v = w
  BY <1>1 DEF ContendInv, Critical
<1> QED
  BY <1>1, <1>2, <1>3, NoNullWorker DEF ContendInv, Places, Critical, Asleep

LEMMA WorkerContend ==
  ASSUME ContendInv, NEW w \in Workers, Worker(w)
  PROVE  ContendInv'
<1> USE DEF Goto, Places, Critical, Asleep
<1>1. CASE Receive(w)
  BY <1>1, MoveContend DEF Receive, vars, ContendInv
<1>2. CASE OpenDevice(w)
  BY <1>2, MoveContend DEF OpenDevice, Open, ContendInv
<1>3. CASE Lock(w)
  BY <1>3, LockContend
<1>4. CASE WriteCall(w)
  <2>1. CASE WriteFirst(w, request[w]) \/ WriteAppend(w, request[w])
    BY <1>4, <2>1, MoveContend
    DEF WriteCall, WriteFirst, WriteAppend, WriteNoMemory, Contend, Sleep,
        ContendInv
  <2>2. CASE WriteNoMemory(w) \/ Contend(w, "write")
    BY <1>4, <2>2, MoveContend DEF WriteCall, WriteNoMemory, Contend, ContendInv
  <2> QED BY <1>4, <2>1, <2>2 DEF WriteCall
<1>5. CASE WriteReturns(w)
  BY <1>5, NoNullWorker, MoveContend DEF WriteReturns, WriteEnd, WriteFault, Wake
<1>6. CASE Rewind(w)
  BY <1>6, MoveContend DEF Rewind, Llseek, ContendInv
<1>7. CASE SeekCall(w)
  BY <1>7, MoveContend DEF SeekCall, IoctlSeekTo, IoctlInvalid, Contend, ContendInv
<1>8. CASE ReadCall(w)
  BY <1>8, MoveContend DEF ReadCall, ReadBegin, Sleep
<1>9. CASE ReadReturns(w)
  BY <1>9, NoNullWorker, MoveContend DEF ReadReturns, ReadEnd, Wake
<1>10. CASE Unlock(w)
  BY <1>10, UnlockContend
<1> QED
  BY <1>1, <1>2, <1>3, <1>4, <1>5, <1>6, <1>7, <1>8, <1>9, <1>10 DEF Worker

(* Another program takes the lock for its own file only.                   *)
LEMMA OutsideContend ==
  ASSUME ContendInv, NEW o \in Outsiders, Outside(o)
  PROVE  ContendInv'
<1>1. UNCHANGED <<at, file_mutex>>
  BY DEF Outside, server
<1>2. lock' \in {lock, o, NULL}
  <2>1. Read(o) => lock' \in {lock, o, NULL}
    BY DEF Read, ReadEOF, ReadBegin, ReadEnd, ReadFault, Sleep, Wake
  <2>2. ASSUME NEW payload \in Payloads,
               WriteFirst(o, payload) \/ WriteAppend(o, payload)
        PROVE  lock' \in {lock, o, NULL}
    BY <2>2 DEF WriteFirst, WriteAppend, Sleep
  <2> QED
    BY <2>1, <2>2
    DEF Outside, Open, Release, WriteNoMemory, WriteFault, WriteEnd, Contend, Wake
<1>3. o \notin Workers
  BY SystemAssumption
<1> QED BY <1>1, <1>2, <1>3, NoNullWorker, QuietContend

(* In every state, whoever moved last. *)
THEOREM ContendInvHolds == SystemSpec => []ContendInv
<1>1. SystemInit => ContendInv
  BY InitContend
<1>2. ContendInv /\ [SystemNext]_allVars => ContendInv'
  <2> SUFFICES ASSUME ContendInv, [SystemNext]_allVars PROVE ContendInv'
    OBVIOUS
  <2>1. ASSUME NEW w \in Workers, Worker(w) PROVE ContendInv'
    BY <2>1, WorkerContend
  <2>2. ASSUME NEW o \in Outsiders, Outside(o) PROVE ContendInv'
    BY <2>2, OutsideContend
  <2>3. CASE UNCHANGED allVars
    BY <2>3, QuietContend DEF allVars, vars, server
  <2> QED BY <2>1, <2>2, <2>3 DEF SystemNext
<1> QED BY <1>1, <1>2, PTL DEF SystemSpec

(* However many workers there are, and whatever other programs do, no      *)
(* worker's call ever finds dev->lock held by another worker's: the slow   *)
(* path of the uninitialised mutex is out of the server's own reach.       *)
THEOREM ServerNeverContends == SystemSpec => []WorkersNeverContend
<1>1. ContendInv => WorkersNeverContend
  BY DEF ContendInv, WorkersNeverContend, Critical, Asleep
<1> QED BY <1>1, ContendInvHolds, PTL

USE DriverAssumption, BufferAssumption, SystemAssumption

-----------------------------------------------------------------------------
(* The server uses the driver through its calls only. *)

(* What a worker passes to write is one of the driver's payloads. *)
Requests ==
  /\ request \in [Workers -> Payloads \cup {<<>>}]
  /\ \A w \in Workers :
       at[w] \in {"write", "writing", "lseek"} => request[w] # <<>>

(* Every step of a worker is a step of a call for its own file, or none of *)
(* the driver's.                                                           *)
LEMMA WorkerCalls ==
  ASSUME Requests, NEW w \in Workers, Worker(w)
  PROVE  \/ UNCHANGED vars
         \/ Unseen(w)
         \/ at[w] = "writing" /\ WriteEnd(w) /\ WriteReturns(w)
<1> USE DEF Unseen
<1>1. CASE Receive(w) \/ Lock(w)
  BY <1>1 DEF Receive, Lock
<1>2. CASE OpenDevice(w)
  BY <1>2 DEF OpenDevice
<1>3. CASE WriteCall(w)
  <2>1. request[w] \in Payloads
    BY <1>3 DEF Requests, WriteCall
  <2> QED BY <1>3, <2>1 DEF WriteCall
<1>4. CASE WriteReturns(w)
  BY <1>4 DEF WriteReturns
<1>5. CASE Rewind(w)
  BY <1>5 DEF Rewind, Seek, Whences
<1>6. CASE SeekCall(w)
  BY <1>6 DEF SeekCall, Seek
<1>7. CASE ReadCall(w)
  BY <1>7 DEF ReadCall, Read
<1>8. CASE ReadReturns(w)
  BY <1>8 DEF ReadReturns, Read
<1>9. CASE Unlock(w)
  BY <1>9 DEF Unlock, Read
<1> QED BY <1>1, <1>2, <1>3, <1>4, <1>5, <1>6, <1>7, <1>8, <1>9 DEF Worker

(* Every step of another program is a step of a call for its own file; one *)
(* that stores something tears the answer of the worker in the lock.       *)
LEMMA OutsideCalls ==
  ASSUME NEW o \in Outsiders, Outside(o)
  PROVE  \/ Unseen(o) /\ UNCHANGED server
         \/ /\ WriteEnd(o) /\ UNCHANGED <<file_mutex, at, request, reply>>
            /\ seen' = [w \in Workers |->
                          IF file_mutex = w THEN "torn" ELSE seen[w]]
BY DEF Outside, Unseen

(* Both are steps of the driver. *)
LEMMA DriverStep ==
  ASSUME Requests, [SystemNext]_allVars
  PROVE  [Next]_vars
<1>1. ASSUME NEW f \in Files, ~oops, Unseen(f) \/ WriteEnd(f) PROVE Next
  BY <1>1 DEF Next, Unseen, Write
<1>2. ASSUME NEW w \in Workers, ~oops, Worker(w) PROVE [Next]_vars
  BY <1>1, <1>2, WorkerCalls
<1>3. ASSUME NEW o \in Outsiders, ~oops, Outside(o) PROVE Next
  BY <1>1, <1>3, OutsideCalls
<1>4. CASE UNCHANGED allVars
  BY <1>4 DEF allVars
<1> QED BY <1>2, <1>3, <1>4 DEF SystemNext

(* A request is fixed from the receive to the answer. *)
LEMMA RequestsStep ==
  ContendInv /\ Requests /\ [SystemNext]_allVars => Requests'
<1> SUFFICES ASSUME ContendInv, Requests, [SystemNext]_allVars PROVE Requests'
  OBVIOUS
<1>1. ASSUME UNCHANGED <<at, request>> PROVE Requests'
  BY <1>1 DEF Requests
<1>2. ASSUME NEW w \in Workers, Worker(w) PROVE Requests'
  <2>1. CASE Receive(w)
    BY <2>1 DEF Receive, Goto, Requests, ContendInv
  <2>2. CASE Lock(w)
    BY <2>2 DEF Lock, Goto, Requests, ContendInv
  <2>3. CASE Unlock(w)
    BY <2>3 DEF Unlock, Goto, Requests, ContendInv
  <2>4. CASE \/ OpenDevice(w) \/ WriteCall(w) \/ WriteReturns(w)
             \/ Rewind(w) \/ SeekCall(w) \/ ReadCall(w) \/ ReadReturns(w)
    <3>1. request' = request
      BY <2>4 DEF OpenDevice, WriteCall, WriteReturns, Rewind, SeekCall,
                  ReadCall, ReadReturns
    <3>2. PICK where \in {"lock", "writing", "lseek", "read", "reading"} :
            /\ at' = [at EXCEPT ![w] = where]
            /\ where \in {"writing", "lseek"} => at[w] \in {"write", "writing"}
      BY <2>4 DEF OpenDevice, WriteCall, WriteReturns, Rewind, SeekCall,
                  ReadCall, ReadReturns, Goto
    <3> QED BY <3>1, <3>2 DEF Requests, ContendInv
  <2> QED BY <1>2, <2>1, <2>2, <2>3, <2>4 DEF Worker
<1>3. ASSUME NEW o \in Outsiders, Outside(o) PROVE Requests'
  BY <1>1, <1>3, OutsideCalls DEF server
<1>4. CASE UNCHANGED allVars
  BY <1>1, <1>4 DEF allVars, server
<1> QED BY <1>2, <1>3, <1>4 DEF SystemNext

(* And so always. *)
LEMMA RequestsHold == SystemSpec => []Requests
<1>1. SystemInit => Requests
  BY DEF SystemInit, Requests
<1> QED BY <1>1, RequestsStep, ContendInvHolds, PTL DEF SystemSpec

(* Whatever the workers and the other programs do, the driver sees nothing *)
(* but a behaviour of AesdChar: what is proved of the driver holds of the  *)
(* whole.                                                                  *)
THEOREM SystemUsesDriver == SystemSpec => Spec
<1>1. SystemInit => Init
  BY DEF SystemInit
<1>2. Requests /\ [SystemNext]_allVars => [Next]_vars
  BY DriverStep
<1> QED BY <1>1, <1>2, RequestsHold, PTL DEF SystemSpec, Spec

-----------------------------------------------------------------------------
(* What a client is sent. *)

(* What it has been sent so far. *)
SentSoFar(w) ==
  /\ seen[w] # "torn" =>
       f_pos[w] <= Len(Stream) /\ reply[w] = SubSeq(Stream, 1, f_pos[w])
  /\ seen[w] = "stored" /\ IsLine(request[w]) /\ ~Poisoned =>
       IsSuffix(request[w], Stream)

(* The position and the answer start at nothing and grow together; what a  *)
(* worker keeps across the sleep of its write is its request.              *)
Answer(w) ==
  /\ at[w] \in {"recv", "open"} => reply[w] = <<>>
  /\ at[w] \in {"lock", "write", "writing", "lseek"} =>
       f_pos[w] = 0 /\ reply[w] = <<>>
  /\ at[w] \in {"write", "writing"} => seen[w] # "stored"
  /\ at[w] = "writing" =>
       pc[w] \in {"writing first", "writing append"} /\ local[w].data = request[w]
  /\ at[w] = "reading" => pc[w] = "reading"
  /\ at[w] = "ioctl" => request[w] = <<>>
  /\ at[w] \in {"lseek", "read", "reading"} /\ request[w] # <<>> =>
       SentSoFar(w)

AnswerInv ==
  /\ reply \in [Workers -> Seq(Bytes)]
  /\ seen \in [Workers -> {"quiet", "stored", "torn"}]
  /\ \A w \in Workers : Answer(w)

(* All that is known before a step of the system. *)
SystemInv == Inv /\ ReadInv /\ ContendInv /\ Requests /\ AnswerInv

(* A worker whose place, request, answer and call do not change, while     *)
(* readers see the same stream or the worker's answer is torn.             *)
LEMMA AnswerKept ==
  ASSUME Inv, [Next]_vars, NEW w \in Workers, Answer(w),
         at'[w] = at[w], request'[w] = request[w], reply'[w] = reply[w],
         pc'[w] = pc[w], local'[w] = local[w], f_pos'[w] = f_pos[w],
         seen'[w] = seen[w] \/ seen'[w] = "torn",
         \/ at[w] \notin {"lseek", "read", "reading"}
         \/ seen'[w] = "torn"
         \/ Stream' = Stream
  PROVE  Answer(w)'
<1>1. ~Poisoned' => ~Poisoned
  BY PoisonStep
<1> HIDE DEF Stream
<1>2. CASE at[w] \notin {"lseek", "read", "reading"}
  BY <1>2 DEF Answer
<1>3. CASE seen'[w] = "torn"
  BY <1>3 DEF Answer, SentSoFar
<1>4. CASE seen'[w] = seen[w] /\ Stream' = Stream
  <2>1. SentSoFar(w) => SentSoFar(w)'
    BY <1>1, <1>4 DEF SentSoFar
  <2> QED BY <1>4, <2>1 DEF Answer
<1> QED BY <1>2, <1>3, <1>4

(* Another worker's step: it is outside its critical section while w is    *)
(* inside.                                                                 *)
LEMMA AnswerOfOthers ==
  ASSUME SystemInv, Inv', [SystemNext]_allVars,
         NEW v \in Workers, Worker(v), NEW w \in Workers \ {v}
  PROVE  Answer(w)'
<1>1. /\ at \in [Workers -> Places] /\ request \in [Workers -> Payloads \cup {<<>>}]
      /\ reply \in [Workers -> Seq(Bytes)]
      /\ seen \in [Workers -> {"quiet", "stored", "torn"}]
  BY DEF SystemInv, ContendInv, Requests, AnswerInv
<1>2. /\ at'[w] = at[w] /\ request'[w] = request[w] /\ reply'[w] = reply[w]
      /\ seen'[w] = seen[w]
  BY <1>1 DEF Worker, Goto, Receive, OpenDevice, Lock, WriteCall, WriteReturns,
              Rewind, SeekCall, ReadCall, ReadReturns, Unlock
<1>3. [Next]_vars
  BY DriverStep DEF SystemInv
<1>4. CASE UNCHANGED vars
  <2>1. Stream' = Stream /\ pc' = pc /\ local' = local /\ f_pos' = f_pos
    BY <1>4 DEF vars, Stream, Window, Content, Allocated
  <2> HIDE DEF Stream
  <2> QED BY <1>2, <1>3, <2>1, AnswerKept DEF SystemInv, AnswerInv
<1>5. CASE Unseen(v) \/ (at[v] = "writing" /\ WriteEnd(v))
  <2>1. pc'[w] = pc[w] /\ local'[w] = local[w] /\ f_pos'[w] = f_pos[w]
    BY <1>5, OthersAlone DEF SystemInv
  <2>2. CASE Unseen(v)
    <3>1. Stream' = Stream
      BY <2>2, StreamQuiet DEF SystemInv
    <3> HIDE DEF Stream
    <3> QED BY <1>2, <1>3, <2>1, <3>1, AnswerKept DEF SystemInv, AnswerInv
  <2>3. CASE at[v] = "writing"
    <3>1. at[w] \notin {"lseek", "read", "reading"}
      BY <2>3, NoNullWorker DEF SystemInv, ContendInv, Critical
    <3> QED BY <1>2, <1>3, <2>1, <3>1, AnswerKept DEF SystemInv, AnswerInv
  <2> QED BY <1>5, <2>2, <2>3
<1> QED BY <1>4, <1>5, WorkerCalls DEF SystemInv

(* Another program's step: a write of its own tears the answer of the      *)
(* worker that holds file_mutex.                                           *)
LEMMA AnswerOutside ==
  ASSUME SystemInv, Inv', [SystemNext]_allVars,
         NEW o \in Outsiders, Outside(o), NEW w \in Workers
  PROVE  Answer(w)'
<1>1. [Next]_vars
  BY DriverStep DEF SystemInv
<1>2. w # o
  OBVIOUS
<1>3. Unseen(o) \/ WriteEnd(o)
  BY OutsideCalls
<1>4. pc'[w] = pc[w] /\ local'[w] = local[w] /\ f_pos'[w] = f_pos[w]
  BY <1>2, <1>3, OthersAlone DEF SystemInv
<1>5. CASE Unseen(o) /\ UNCHANGED server
  <2>1. Stream' = Stream
    BY <1>5, StreamQuiet DEF SystemInv
  <2> HIDE DEF Stream
  <2> QED BY <1>1, <1>4, <1>5, <2>1, AnswerKept DEF SystemInv, AnswerInv, server
<1>6. CASE /\ WriteEnd(o) /\ UNCHANGED <<file_mutex, at, request, reply>>
           /\ seen' = [v \in Workers |-> IF file_mutex = v THEN "torn" ELSE seen[v]]
  <2>1. /\ at[w] \in {"lseek", "read", "reading"} => seen'[w] = "torn"
        /\ seen'[w] \in {seen[w], "torn"}
    BY <1>6 DEF SystemInv, ContendInv, Critical
  <2> QED BY <1>1, <1>4, <1>6, <2>1, AnswerKept DEF SystemInv, AnswerInv
<1> QED BY <1>5, <1>6, OutsideCalls

(* A worker's own step. *)
LEMMA AnswerOwn ==
  ASSUME SystemInv, Inv', [SystemNext]_allVars, NEW w \in Workers, Worker(w)
  PROVE  /\ reply' \in [Workers -> Seq(Bytes)]
         /\ seen' \in [Workers -> {"quiet", "stored", "torn"}]
         /\ Answer(w)'
<1>1. /\ at \in [Workers -> Places] /\ request \in [Workers -> Payloads \cup {<<>>}]
      /\ reply \in [Workers -> Seq(Bytes)]
      /\ seen \in [Workers -> {"quiet", "stored", "torn"}]
      /\ f_pos \in [Files -> Nat] /\ pc \in [Files -> PCs]
      /\ local \in [Files -> LocalType]
      /\ w \in Files /\ Answer(w)
  BY DEF SystemInv, ContendInv, Requests, AnswerInv, Inv, TypeOK
<1>2. [Next]_vars
  BY DriverStep DEF SystemInv
<1> USE DEF Goto
<1>3. /\ Stream \in Seq(Bytes) /\ Len(Stream) \in Nat
      /\ (Stream \in Seq(Bytes))'
  <2>1. (Stream \in Seq(Bytes))'
    BY StreamValue, PTL
  <2> QED BY <2>1, StreamValue DEF SystemInv
<1>4. CASE Receive(w)
  <2>1. at'[w] = "open" /\ UNCHANGED <<reply, seen>> /\ reply[w] = <<>>
    BY <1>1, <1>4 DEF Receive, Answer
  <2> QED BY <1>1, <2>1 DEF Answer
<1>5. CASE OpenDevice(w)
  <2>1. /\ at'[w] = "lock" /\ UNCHANGED <<reply, seen>> /\ reply[w] = <<>>
        /\ f_pos'[w] = 0
    BY <1>1, <1>5 DEF OpenDevice, Open, Answer
  <2> QED BY <1>1, <2>1 DEF Answer
<1>6. CASE Lock(w)
  <2>1. /\ at'[w] = (IF request[w] = <<>> THEN "ioctl" ELSE "write")
        /\ request' = request /\ reply' = reply /\ f_pos' = f_pos
        /\ seen' = [seen EXCEPT ![w] = "quiet"]
        /\ reply[w] = <<>> /\ f_pos[w] = 0
    BY <1>1, <1>6 DEF Lock, Answer, vars
  <2> QED BY <1>1, <2>1 DEF Answer
<1>7. CASE WriteCall(w)
  <2>1. /\ UNCHANGED <<reply, seen, f_pos, request>>
        /\ reply[w] = <<>> /\ f_pos[w] = 0 /\ seen[w] # "stored"
    BY <1>1, <1>7 DEF WriteCall, WriteFirst, WriteAppend, WriteNoMemory,
                      Contend, Answer
  <2>2. CASE (WriteFirst(w, request[w]) \/ WriteAppend(w, request[w]))
               /\ Goto(w, "writing")
    <3>1. /\ at'[w] = "writing"
          /\ pc'[w] \in {"writing first", "writing append"}
          /\ local'[w].data = request[w]
      <4>1. PICK where \in {"writing first", "writing append"}, b \in Blocks,
                 skip \in Nat, count \in Nat :
              Sleep(w, where, [block |-> b, skip |-> skip, count |-> count,
                               data |-> request[w]])
        <5> DEFINE n == Len(request[w])
                   m == aesd_entry.size
        <5>1. n \in Nat /\ m \in Nat
          BY <1>1 DEF SystemInv, Inv, TypeOK, EntryType
        <5>2. m + n \in Nat
          <6> HIDE DEF n, m
          <6> QED BY <5>1
        <5>3. CASE WriteFirst(w, request[w])
          BY <5>1, <5>3 DEF WriteFirst
        <5>4. CASE WriteAppend(w, request[w])
          BY <5>1, <5>2, <5>4 DEF WriteAppend
        <5> QED BY <2>2, <5>3, <5>4
      <4> QED BY <1>1, <2>2, <4>1 DEF Sleep
    <3> QED BY <1>1, <2>1, <3>1 DEF Answer
  <2>3. CASE (WriteNoMemory(w) \/ Contend(w, "write")) /\ Goto(w, "lseek")
    <3>1. at'[w] = "lseek"
      BY <1>1, <2>3
    <3> HIDE DEF Stream
    <3> QED BY <1>1, <1>3, <2>1, <3>1, EmptySubSeq DEF Answer, SentSoFar
  <2> QED BY <1>7, <2>2, <2>3 DEF WriteCall
<1>8. CASE WriteReturns(w)
  <2>1. /\ at[w] = "writing" /\ at'[w] = "lseek"
        /\ UNCHANGED <<reply, f_pos, request>>
        /\ reply[w] = <<>> /\ f_pos[w] = 0 /\ seen[w] # "stored"
        /\ local[w].data = request[w]
    BY <1>1, <1>8 DEF WriteReturns, WriteEnd, WriteFault, Answer
  <2>2. CASE WriteFault(w) /\ UNCHANGED seen
    <3> HIDE DEF Stream
    <3> QED BY <1>1, <1>3, <2>1, <2>2, EmptySubSeq DEF Answer, SentSoFar
  <2>3. CASE WriteEnd(w) /\ seen' = [seen EXCEPT ![w] = "stored"]
    <3>1. IsLine(request[w]) /\ ~Poisoned' => IsSuffix(request[w], Stream')
      BY <2>1, <2>3, LineIsLast DEF SystemInv
    <3>2. seen' \in [Workers -> {"quiet", "stored", "torn"}]
      BY <1>1, <2>3
    <3> HIDE DEF Stream
    <3> QED BY <1>1, <1>3, <2>1, <3>1, <3>2, EmptySubSeq DEF Answer, SentSoFar
  <2> QED BY <1>8, <2>2, <2>3 DEF WriteReturns
<1>9. CASE Rewind(w)
  <2>1. /\ at[w] = "lseek" /\ at'[w] = "read"
        /\ UNCHANGED <<reply, request, seen>>
        /\ f_pos'[w] = f_pos[w]
    BY <1>1, <1>9 DEF Rewind, Llseek, SeekPos
  <2>2. Stream' = Stream
    BY <1>9, StreamQuiet DEF Rewind, Unseen, Seek, Whences, SystemInv
  <2>3. ~Poisoned' => ~Poisoned
    BY <1>2, PoisonStep DEF SystemInv
  <2> HIDE DEF Stream
  <2>4. SentSoFar(w) => SentSoFar(w)'
    BY <2>1, <2>2, <2>3 DEF SentSoFar
  <2> QED BY <1>1, <2>1, <2>4 DEF Answer
<1>10. CASE SeekCall(w)
  <2>1. /\ at'[w] = "read" /\ request[w] = <<>>
        /\ UNCHANGED <<reply, request, seen>>
    BY <1>1, <1>10 DEF SeekCall, Answer
  <2> QED BY <1>1, <2>1 DEF Answer
<1>11. CASE ReadCall(w)
  <2>1. /\ at[w] = "read" /\ at'[w] = "reading"
        /\ UNCHANGED <<reply, request, seen, f_pos>>
        /\ pc'[w] = "reading"
    BY <1>1, <1>11 DEF ReadCall, ReadBegin, Sleep
  <2>2. Stream' = Stream
    BY <1>11, StreamQuiet DEF ReadCall, Unseen, Read, SystemInv
  <2>3. ~Poisoned' => ~Poisoned
    BY <1>2, PoisonStep DEF SystemInv
  <2> HIDE DEF Stream
  <2>4. SentSoFar(w) => SentSoFar(w)'
    BY <2>1, <2>2, <2>3 DEF SentSoFar
  <2> QED BY <1>1, <2>1, <2>4 DEF Answer
<1>12. CASE ReadReturns(w)
  <2>1. /\ at[w] = "reading" /\ at'[w] = "read" /\ ReadEnd(w)
        /\ UNCHANGED <<request, seen>>
        /\ reply' = [reply EXCEPT ![w] = reply[w] \o result'.data]
        /\ pc[w] = "reading"
    BY <1>1, <1>12 DEF ReadReturns, Answer
  <2>2. Stream' = Stream
    BY <2>1, StreamQuiet DEF Unseen, Read, SystemInv
  <2>3. ~Poisoned' => ~Poisoned
    BY <1>2, PoisonStep DEF SystemInv
  <2>4. PICK k \in 0 .. Count(buffer) - 1 : ReadsFrom(w, k)
    BY <1>1, <2>1 DEF SystemInv, ReadInv, ReaderPlace
  <2>5. /\ result'.data = SubSeq(Stream, f_pos[w] + 1, f_pos'[w])
        /\ f_pos'[w] <= Len(Stream)
    BY <1>1, <2>1, <2>4, ReadEndDelivers DEF SystemInv
  <2>6. f_pos'[w] = f_pos[w] + local[w].count /\ local[w].count \in Nat
    BY <1>1, <2>1 DEF ReadEnd, LocalType
  <2>7. result'.data \in Seq(Bytes)
    BY DEF Inv, TypeOK, ResultType
  <2>8. /\ reply' \in [Workers -> Seq(Bytes)]
        /\ reply'[w] = reply[w] \o result'.data
    BY <1>1, <2>1, <2>7
  <2>9. request[w] # <<>> /\ seen[w] # "torn" =>
          reply'[w] = SubSeq(Stream, 1, f_pos'[w])
    <3>1. request[w] # <<>> /\ seen[w] # "torn" =>
            reply[w] = SubSeq(Stream, 1, f_pos[w])
      BY <1>1, <2>1 DEF Answer, SentSoFar
    <3> HIDE DEF Stream
    <3>2. SubSeq(Stream, 1, f_pos[w]) \o SubSeq(Stream, f_pos[w] + 1, f_pos'[w])
            = SubSeq(Stream, 1, f_pos'[w])
      <4> DEFINE c == f_pos[w]
                 d == local[w].count
      <4>1. /\ c \in Nat /\ d \in Nat /\ f_pos'[w] = c + d
            /\ c + d <= Len(Stream) /\ Stream \in Seq(Bytes)
        BY <1>1, <2>5, <2>6, <1>3
      <4> HIDE DEF c, d
      <4>2. SubSeq(Stream, 0 + 1, 0 + c) \o SubSeq(Stream, (0 + c) + 1, (0 + c) + d)
              = SubSeq(Stream, 0 + 1, 0 + (c + d))
        <5>1. 0 + c + d <= Len(Stream) /\ 0 \in Nat
          BY <4>1
        <5> QED BY <4>1, <5>1, SubSeqJoin
      <4>3. 0 + 1 = 1 /\ 0 + c = c /\ 0 + (c + d) = c + d
        BY <4>1
      <4> QED BY <4>1, <4>2, <4>3 DEF c
    <3> QED BY <2>5, <2>8, <3>1, <3>2
  <2> HIDE DEF Stream
  <2>10. request[w] # <<>> => SentSoFar(w)'
    <3>1. request[w] # <<>> => SentSoFar(w)
      BY <1>1, <2>1 DEF Answer
    <3> QED BY <2>1, <2>2, <2>3, <2>5, <2>9, <3>1 DEF SentSoFar
  <2> QED BY <1>1, <2>1, <2>8, <2>10 DEF Answer
<1>13. CASE Unlock(w)
  <2>1. /\ at'[w] = "done"
        /\ reply' = [reply EXCEPT ![w] = <<>>]
        /\ seen' = [seen EXCEPT ![w] = "quiet"]
    BY <1>1, <1>13 DEF Unlock
  <2>2. Answer(w)'
    BY <2>1 DEF Answer
  <2>3. /\ reply' \in [Workers -> Seq(Bytes)]
        /\ seen' \in [Workers -> {"quiet", "stored", "torn"}]
    BY <1>1, <2>1
  <2> QED BY <2>2, <2>3
<1> QED BY <1>4, <1>5, <1>6, <1>7, <1>8, <1>9, <1>10, <1>11, <1>12, <1>13
        DEF Worker

(* Whoever moves, every answer stays what it should be. *)
LEMMA AnswerInvHolds == SystemSpec => []AnswerInv
<1>1. SystemInit => AnswerInv
  BY DEF SystemInit, AnswerInv, Answer
<1>2. SystemInv /\ Inv' /\ [SystemNext]_allVars => AnswerInv'
  <2> SUFFICES ASSUME SystemInv, Inv', [SystemNext]_allVars PROVE AnswerInv'
    OBVIOUS
  <2>1. ASSUME NEW v \in Workers, Worker(v) PROVE AnswerInv'
    BY <2>1, AnswerOwn, AnswerOfOthers DEF AnswerInv
  <2>2. ASSUME NEW o \in Outsiders, Outside(o) PROVE AnswerInv'
    <3>1. /\ reply' \in [Workers -> Seq(Bytes)]
          /\ seen' \in [Workers -> {"quiet", "stored", "torn"}]
      BY <2>2, OutsideCalls DEF SystemInv, AnswerInv, server
    <3> QED BY <2>2, <3>1, AnswerOutside DEF AnswerInv
  <2>3. CASE UNCHANGED allVars
    <3>1. UNCHANGED vars /\ UNCHANGED server
      BY <2>3 DEF allVars
    <3>2. /\ Stream' = Stream /\ pc' = pc /\ local' = local /\ f_pos' = f_pos
          /\ UNCHANGED <<at, request, reply, seen>>
      BY <3>1 DEF vars, server, Stream, Window, Content, Allocated
    <3>3. [Next]_vars
      BY <3>1
    <3> HIDE DEF Stream
    <3>4. ASSUME NEW w \in Workers PROVE Answer(w)'
      BY <3>2, <3>3, AnswerKept DEF SystemInv, AnswerInv
    <3> QED BY <3>2, <3>4 DEF SystemInv, AnswerInv
  <2> QED BY <2>1, <2>2, <2>3 DEF SystemNext
<1>3. SystemSpec => []Inv /\ []ReadInv
  BY SystemUsesDriver, InvHolds, ReadInvHolds, PTL
<1> QED BY <1>1, <1>2, <1>3, ContendInvHolds, RequestsHold, PTL
        DEF SystemSpec, SystemInv

(* However many workers there are, whatever sleeps and fails in the driver *)
(* and whatever other programs read: what a client is sent, as long as no  *)
(* other program has written, is the window from its first byte on, and    *)
(* its own line is the last of that window once it is stored.              *)
THEOREM AnswersAreSnapshots == SystemSpec => []AnswerIsSnapshot
<1>1. AnswerInv => AnswerIsSnapshot
  <2> HIDE DEF Stream
  <2> QED BY DEF AnswerInv, Answer, SentSoFar, AnswerIsSnapshot
<1> QED BY <1>1, AnswerInvHolds, PTL
=============================================================================
