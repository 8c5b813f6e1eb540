---------------------- MODULE AesdSocketNothreadProofs ----------------------
(***************************************************************************)
(* Theorems about the server without threads, for any number of            *)
(* descriptors, connections and signals: it closes by number just what it  *)
(* has opened, frees its buffer once unless two signals come, and never    *)
(* listens again after a listening socket has been left behind.            *)
(*                                                                         *)
(* The invariant says, for each place in serversocket, what the            *)
(* descriptors are as long as no handler has run; and that a handler that  *)
(* is alone has not freed the buffer before its own free.                  *)
(***************************************************************************)
EXTENDS AesdSocketNothread, SequenceLemmas

USE NothreadAssumption

Places ==
  {"down", "socket", "bind", "accept", "malloc", "recv", "send", "cleanup"}

Descriptors == {"free", "socket", "bound", "listening", "connection"}
USE DEF Descriptors

Typed ==
  /\ main \in Places
  /\ handlers \in Seq({"log", "free", "unlink", "stuck"})
  /\ fds \in [Fds -> Descriptors]
  /\ server_socket \in Fds \cup {-1}
  /\ client_socket \in Fds \cup {-1}

Listening == {n \in Fds : fds[n] = "listening"}
Connections == {n \in Fds : fds[n] = "connection"}

(* What is open at each place, before any handler has closed something:    *)
(* a listening socket that failures have left behind is only possible      *)
(* before bind, which succeeds when there is none.                         *)
Opened ==
  handlers = <<>> =>
    /\ main \in {"down", "socket", "bind", "accept"} => Connections = {}
    /\ main = "down" => \A n \in Fds : fds[n] = "free"
    /\ main = "bind" => server_socket \in Fds /\ fds[server_socket] = "socket"
    /\ main \in {"accept", "malloc", "recv", "send", "cleanup"} =>
         Listening = {server_socket}
    /\ main \in {"malloc", "recv", "send", "cleanup"} =>
         Connections = {client_socket}

(* Only handlers free, and the first one frees after its "free". *)
NotYetFreed ==
  /\ handlers = <<>> => freed = {}
  /\ Len(handlers) = 1 /\ handlers[1] \in {"log", "free"} => freed = {}
  /\ main = "down" => handlers = <<>>

NothreadInv == Typed /\ Opened /\ NotYetFreed

-----------------------------------------------------------------------------
(* The number a new descriptor gets is free, if there is one.              *)
LEMMA LowestIsFree ==
  /\ Lowest = -1 <=> Free = {}
  /\ Free # {} => Lowest \in Free
  /\ Lowest \in Fds \cup {-1}
<1>1. Free \subseteq Nat /\ Free \subseteq Fds /\ Fds \subseteq Nat
  BY DEF Free, Fds
<1>2. Free # {} => Min(Free) \in Free
  BY <1>1, NatLeast DEF Min
<1>3. -1 \notin Fds
  BY DEF Fds
<1> HIDE DEF Fds
<1> QED BY <1>1, <1>2, <1>3 DEF Lowest

(* cleanup, and the end of the process, leave only what they do not name.  *)
LEMMA CloseTyped ==
  ASSUME Typed, NEW numbers, Close(numbers)
  PROVE  /\ fds' \in [Fds -> Descriptors]
         /\ \A n \in Fds : fds'[n] = IF n \in numbers THEN "free" ELSE fds[n]
BY DEF Typed, Close

LEMMA EndNothread ==
  ASSUME Typed, ProcessEnds PROVE NothreadInv'
<1>1. /\ fds' \in [Fds -> Descriptors]
      /\ \A n \in Fds : fds'[n] = "free"
  BY CloseTyped DEF ProcessEnds
<1>2. /\ main' = "down" /\ handlers' = <<>> /\ freed' = {}
      /\ server_socket' = -1 /\ client_socket' = -1
  BY DEF ProcessEnds
<1>3. Typed'
  BY <1>1, <1>2, EmptySeq DEF Typed, Places
<1>4. Opened'
  BY <1>1, <1>2 DEF Opened, Connections
<1>5. NotYetFreed'
  BY <1>2, EmptySeq DEF NotYetFreed
<1> QED BY <1>3, <1>4, <1>5 DEF NothreadInv

LEMMA InitNothread == Init => NothreadInv
<1> SUFFICES ASSUME Init PROVE NothreadInv
  OBVIOUS
<1>1. handlers \in Seq({"log", "free", "unlink", "stuck"}) /\ Len(handlers) = 0
  BY EmptySeq DEF Init
<1>2. Typed
  BY <1>1 DEF Init, Typed, Places
<1>3. Opened
  BY DEF Init, Opened, Connections
<1>4. NotYetFreed
  BY <1>1 DEF Init, NotYetFreed
<1> QED BY <1>2, <1>3, <1>4 DEF NothreadInv

(* A step of serversocket or from outside: no handler has run. *)
LEMMA ServeNothread ==
  ASSUME NothreadInv,
         \/ Serve \/ Accept \/ RecvAndWrite
         \/ Start \/ ClientLeaves \/ Expire
  PROVE  NothreadInv'
<1> USE DEF At, Goto
<1>1. Typed /\ Opened /\ NotYetFreed
  BY DEF NothreadInv
<1>2. /\ Lowest = -1 <=> Free = {}
      /\ Free # {} => Lowest \in Fds /\ fds[Lowest] = "free"
      /\ Lowest \in Fds \cup {-1}
  BY LowestIsFree DEF Free
<1>3. CASE Socket
  <2>1. CASE Lowest = -1
    <3>1. /\ UNCHANGED <<main, handlers, fds, client_socket, freed>>
          /\ main = "socket" /\ server_socket' = -1
      BY <1>3, <2>1 DEF Socket, memory
    <3> QED BY <1>1, <3>1
            DEF NothreadInv, Typed, Opened, NotYetFreed, Connections
  <2>2. CASE Lowest # -1
    <3>1. /\ main = "socket" /\ main' = "bind" /\ handlers' = handlers
          /\ server_socket' = Lowest /\ client_socket' = client_socket
          /\ fds' = [fds EXCEPT ![Lowest] = "socket"]
          /\ freed' = freed /\ handlers = <<>>
      BY <1>3, <2>2 DEF Socket, memory
    <3>2. Lowest \in Fds
      BY <1>2, <2>2
    <3> HIDE DEF Lowest
    <3> QED BY <1>1, <3>1, <3>2
            DEF NothreadInv, Typed, Opened, NotYetFreed, Connections, Places
  <2> QED BY <2>1, <2>2
<1>4. CASE Bind
  <2>1. /\ main = "bind" /\ handlers = <<>> /\ handlers' = handlers
        /\ UNCHANGED <<server_socket, client_socket, freed>>
        /\ server_socket \in Fds /\ fds[server_socket] = "socket"
    BY <1>1, <1>4 DEF Bind, globals, memory, Opened
  <2>2. CASE main' = "socket" /\ fds' = fds
    BY <1>1, <2>1, <2>2
    DEF NothreadInv, Typed, Opened, NotYetFreed, Connections, Places
  <2>3. CASE main' = "socket" /\ fds' = [fds EXCEPT ![server_socket] = "bound"]
    BY <1>1, <2>1, <2>3
    DEF NothreadInv, Typed, Opened, NotYetFreed, Connections, Places
  <2>4. CASE /\ ~PortTaken /\ main' = "accept"
             /\ fds' = [fds EXCEPT ![server_socket] = "listening"]
    <3>1. \A n \in Fds : fds[n] # "listening"
      BY <2>4 DEF PortTaken, Holders
    <3>2. Listening' = {server_socket'} /\ Connections' = {}
      BY <1>1, <2>1, <2>4, <3>1 DEF Typed, Opened, Listening, Connections
    <3> QED BY <1>1, <2>1, <2>4, <3>2
            DEF NothreadInv, Typed, Opened, NotYetFreed, Places
  <2> QED BY <1>4, <2>2, <2>3, <2>4 DEF Bind
<1>5. CASE Accept
  <2>1. /\ main = "accept" /\ main' = "malloc"
        /\ handlers = <<>> /\ handlers' = handlers
        /\ client_socket' = Lowest
        /\ fds' = [fds EXCEPT ![Lowest] = "connection"]
        /\ UNCHANGED <<server_socket, freed>> /\ Free # {}
    BY <1>5 DEF Accept, memory
  <2> HIDE DEF Lowest
  <2>2. Listening' = {server_socket'} /\ Connections' = {client_socket'}
    BY <1>1, <1>2, <2>1 DEF Typed, Opened, Listening, Connections
  <2> QED BY <1>1, <1>2, <2>1, <2>2
          DEF NothreadInv, Typed, Opened, NotYetFreed, Places
<1>6. CASE AcceptFails
  BY <1>1, <1>6
  DEF AcceptFails, memory, NothreadInv, Typed, Opened, NotYetFreed,
      Connections, Places
<1>7. CASE Malloc \/ RecvNothing \/ Send \/ RecvAndWrite
  <2> USE DEF globals, memory
  <2>1. /\ main \in {"malloc", "recv", "send"}
        /\ main' \in {"recv", "send", "cleanup"}
        /\ handlers = <<>> /\ handlers' = handlers
        /\ UNCHANGED <<fds, server_socket, client_socket, freed>>
    BY <1>7 DEF Malloc, RecvNothing, Send, RecvAndWrite
  <2> QED BY <1>1, <1>7, <2>1
          DEF NothreadInv, Typed, Opened, NotYetFreed, Listening, Connections,
              Places, Malloc, RecvNothing, Send, RecvAndWrite
<1>8. CASE MallocFails \/ Cleanup
  <2>1. /\ main \in {"malloc", "cleanup"} /\ main' = "socket"
        /\ handlers = <<>> /\ handlers' = handlers
        /\ UNCHANGED <<server_socket, client_socket, freed>>
        /\ Close({client_socket}) \/ Close({server_socket, client_socket})
    BY <1>8 DEF MallocFails, Cleanup, globals, memory
  <2>2. Connections' = {}
    BY <1>1, <2>1, CloseTyped DEF Opened, Connections
  <2> QED BY <1>1, <2>1, <2>2, CloseTyped
          DEF NothreadInv, Typed, Opened, NotYetFreed, Places
<1>9. CASE BrokenPipe
  BY <1>1, <1>9, EndNothread DEF BrokenPipe
<1>10. CASE Start
  BY <1>1, <1>10
  DEF Start, globals, memory, NothreadInv, Typed, Opened, NotYetFreed,
      Connections, Places
<1>11. CASE ClientLeaves \/ Expire
  BY <1>1, <1>11
  DEF ClientLeaves, Expire, globals, memory, NothreadInv, Typed, Opened,
      NotYetFreed, Listening, Connections
<1> QED BY <1>3, <1>4, <1>5, <1>6, <1>7, <1>8, <1>9, <1>10, <1>11 DEF Serve

(* A signal, or a step of the handler that runs: handlers do not return. *)
LEMMA HandlerNothread ==
  ASSUME NothreadInv, Handler \/ \E s \in Signals : Signal(s)
  PROVE  NothreadInv'
<1> DEFINE H == {"log", "free", "unlink", "stuck"}
<1>1. Typed /\ Opened /\ NotYetFreed
  BY DEF NothreadInv
<1>2. /\ handlers \in Seq(H) /\ Len(handlers) \in Nat
      /\ DOMAIN handlers = 1 .. Len(handlers)
      /\ (handlers # <<>> => 1 \in 1 .. Len(handlers))
  BY <1>1, LenProperties, EmptySeq DEF Typed
<1>3. CASE \E s \in Signals : Signal(s)
  <2>1. PICK h \in H : handlers' = <<h>> \o handlers
    BY <1>3 DEF Signal
  <2>2. /\ UNCHANGED <<main, fds, server_socket, client_socket, freed>>
        /\ main # "down"
    BY <1>3 DEF Signal, globals, memory
  <2>3. /\ handlers' \in Seq(H) /\ Len(handlers') = Len(handlers) + 1
        /\ handlers' # <<>>
    <3>1. <<h>> \in Seq(H) /\ Len(<<h>>) = 1
      OBVIOUS
    <3>2. handlers' \in Seq(H) /\ Len(handlers') = Len(handlers) + 1
      BY <1>2, <2>1, <3>1, ConcatProperties
    <3> QED BY <1>2, <3>2, EmptySeq
  <2>4. Len(handlers') = 1 => freed' = {}
    BY <1>1, <1>2, <2>2, <2>3, EmptySeq DEF NotYetFreed
  <2> QED BY <1>1, <2>2, <2>3, <2>4
          DEF NothreadInv, Typed, Opened, NotYetFreed
<1>4. CASE HandlerCloses
  <2>1. /\ handlers # <<>> /\ handlers[1] = "log"
        /\ handlers' = [handlers EXCEPT ![1] = "free"]
        /\ UNCHANGED <<main, server_socket, client_socket, freed>>
        /\ Close({server_socket, client_socket})
    BY <1>4 DEF HandlerCloses, Running, Top, HandlerGoto, globals, memory
  <2>2. /\ handlers' \in Seq(H) /\ Len(handlers') = Len(handlers)
        /\ handlers' # <<>>
    BY <1>2, <2>1, ExceptSeq, EmptySeq
  <2>3. Typed'
    BY <1>1, <2>1, <2>2, CloseTyped DEF Typed
  <2>4. Len(handlers') = 1 => freed' = {}
    BY <1>1, <2>1, <2>2 DEF NotYetFreed
  <2> QED BY <1>1, <2>1, <2>2, <2>3, <2>4 DEF NothreadInv, Opened, NotYetFreed
<1>5. CASE HandlerFrees /\ ~ProcessEnds
  <2>1. PICK where \in {"unlink", "stuck"} :
          HandlerGoto(where) /\ UNCHANGED <<fds, globals>>
    BY <1>5 DEF HandlerFrees
  <2>2. /\ handlers # <<>>
        /\ handlers' = [handlers EXCEPT ![1] = where]
        /\ UNCHANGED <<main, fds, server_socket, client_socket>>
    BY <1>5, <2>1 DEF HandlerFrees, Running, HandlerGoto, globals
  <2>3. /\ handlers' \in Seq(H) /\ Len(handlers') = Len(handlers)
        /\ handlers' # <<>>
        /\ (Len(handlers) = 1 => handlers'[1] = where)
    BY <1>2, <2>2, ExceptSeq, EmptySeq
  <2>4. Typed'
    BY <1>1, <2>2, <2>3 DEF Typed
  <2> QED BY <1>1, <2>2, <2>3, <2>4 DEF NothreadInv, Opened, NotYetFreed
<1>6. CASE ProcessEnds
  BY <1>1, <1>6, EndNothread
<1> QED BY <1>3, <1>4, <1>5, <1>6 DEF Handler, HandlerFrees, HandlerExits

(* In every state, whether main or its handler runs. *)
THEOREM NothreadInvHolds == Spec => []NothreadInv
<1>1. Init => NothreadInv
  BY InitNothread
<1>2. NothreadInv /\ [Next]_vars => NothreadInv'
  <2> SUFFICES ASSUME NothreadInv, [Next]_vars PROVE NothreadInv'
    OBVIOUS
  <2>1. CASE UNCHANGED vars
    BY <2>1
    DEF vars, globals, memory, NothreadInv, Typed, Opened, NotYetFreed,
        Listening, Connections
  <2> QED BY <2>1, ServeNothread, HandlerNothread DEF Next
<1> QED BY <1>1, <1>2, PTL DEF Spec

(* cleanup closes the two numbers of this call of serversocket, and they   *)
(* are the only listening socket and the only connection.                  *)
THEOREM ClosesItsOwn == Spec => []CleanupClosesOwn
<1>1. NothreadInv => CleanupClosesOwn
  BY DEF NothreadInv, Opened, Listening, Connections, CleanupClosesOwn
<1> QED BY <1>1, NothreadInvHolds, PTL

(* A double free takes two signals. *)
THEOREM FreedOnceAlone == Spec => []FreedOnce
<1>1. NothreadInv => FreedOnce
  <2> SUFFICES ASSUME NothreadInv, Running("free"), buffer \in freed
               PROVE  Len(handlers) > 1
    BY DEF FreedOnce
  <2>1. /\ handlers # <<>> /\ handlers[1] = "free"
        /\ Len(handlers) \in Nat /\ Len(handlers) # 0
    BY LenProperties, EmptySeq DEF Running, Top, NothreadInv, Typed
  <2>2. Len(handlers) # 1
    BY <2>1 DEF NothreadInv, NotYetFreed
  <2> DEFINE n == Len(handlers)
  <2>3. n \in Nat /\ n # 0 /\ n # 1
    BY <2>1, <2>2
  <2> HIDE DEF n
  <2>4. n > 1
    BY <2>3
  <2> QED BY <2>4 DEF n
<1> QED BY <1>1, NothreadInvHolds, PTL

(* A listening socket left behind by a failed listen, accept or malloc     *)
(* keeps the port: each later bind fails, until a signal or the end.       *)
THEOREM LostPortStays == Spec => LostPortShutsOut
<1>1. ASSUME NothreadInv, Next, PortLost
      PROVE  PortLost' \/ handlers' # <<>> \/ main' = "down"
  <2>1. main \in {"socket", "bind"} /\ Holders # {} /\ Typed
    BY <1>1 DEF PortLost, NothreadInv
  <2>2. CASE Socket
    <3>1. CASE Lowest = -1
      BY <2>1, <2>2, <3>1 DEF Socket, Goto, PortLost, Holders
    <3>2. CASE Lowest # -1
      <4>1. Lowest \in Fds /\ fds[Lowest] = "free"
        BY <3>2, LowestIsFree DEF Free
      <4>2. main' = "bind" /\ fds' = [fds EXCEPT ![Lowest] = "socket"]
        BY <2>2, <3>2 DEF Socket, Goto
      <4> HIDE DEF Lowest
      <4> QED BY <2>1, <4>1, <4>2 DEF PortLost, Holders, Typed
    <3> QED BY <3>1, <3>2
  <2>3. CASE Bind
    BY <2>1, <2>3 DEF Bind, PortTaken, Goto, PortLost, Holders
  <2>4. CASE ClientLeaves \/ Expire
    BY <2>1, <2>4 DEF ClientLeaves, Expire, PortLost, Holders
  <2>5. CASE \E s \in Signals : Signal(s)
    <3>1. PICK h \in {"log", "stuck"} : handlers' = <<h>> \o handlers
      BY <2>5 DEF Signal
    <3>2. <<h>> \in Seq({"log", "free", "unlink", "stuck"}) /\ Len(<<h>>) = 1
      OBVIOUS
    <3>3. Len(handlers') = Len(handlers) + 1 /\ Len(handlers) \in Nat
      BY <2>1, <3>1, <3>2, ConcatProperties, LenProperties DEF Typed
    <3> QED BY <3>3, EmptySeq
  <2>6. CASE Handler
    <3>1. CASE ProcessEnds
      BY <3>1 DEF ProcessEnds
    <3>2. ASSUME NEW where, handlers # <<>>, HandlerGoto(where)
          PROVE  handlers' # <<>>
      <4>1. DOMAIN handlers' = DOMAIN handlers
        BY <3>2 DEF HandlerGoto
      <4>2. DOMAIN handlers # {}
        <5>1. Len(handlers) \in Nat /\ Len(handlers) # 0
              /\ DOMAIN handlers = 1 .. Len(handlers)
          BY <2>1, <3>2, EmptySeq, LenProperties DEF Typed
        <5>2. 1 \in 1 .. Len(handlers)
          BY <5>1
        <5> QED BY <5>1, <5>2
      <4> QED BY <4>1, <4>2, EmptySeq, LenProperties
    <3> QED
      BY <2>6, <3>1, <3>2
      DEF Handler, HandlerCloses, HandlerFrees, HandlerExits, Running
  <2> QED
    BY <1>1, <2>1, <2>2, <2>3, <2>4, <2>5, <2>6
    DEF Next, Serve, Start, AcceptFails, Malloc, MallocFails, RecvNothing,
        Send, BrokenPipe, Cleanup, Accept, RecvAndWrite, At
<1>2. NothreadInv /\ [Next]_vars =>
        [PortLost => PortLost' \/ handlers' # <<>> \/ main' = "down"]_vars
  BY <1>1
<1> QED BY <1>2, NothreadInvHolds, PTL DEF Spec, LostPortShutsOut
=============================================================================
