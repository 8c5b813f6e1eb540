------------------------- MODULE AesdSocketNothread -------------------------
(***************************************************************************)
(* The server without threads (server/aesdsocket-nothread.c): main calls   *)
(* serversocket again and again, and each call listens, serves one         *)
(* connection and closes both sockets.  Descriptors are numbers, the       *)
(* lowest free one first, as the globals keep numbers that have been       *)
(* closed; the port stays taken while the last connection lingers.         *)
(*                                                                         *)
(* What a client sends and is sent is left out: chunks with and without a  *)
(* newline are told apart, and whether FILENAME exists.                    *)
(***************************************************************************)
EXTENDS Integers, Sequences, FiniteSetsExt

CONSTANTS
  MaxFds,    \* the limit on open descriptors
  MaxConns,  \* bound: how many connections a process accepts
  Signals,   \* SIGINT and SIGTERM
  Failures   \* the calls that may fail without a reason of their own

ASSUME NothreadAssumption ==
  /\ MaxFds \in Nat \ {0, 1} /\ MaxConns \in Nat
  /\ Failures \subseteq {"listen", "accept", "malloc", "fopen"}

VARIABLES
  main,      \* where serversocket is; "down" when there is no process
  handlers,  \* where the signal handlers are, the running one first
  signals,   \* the signals received; each is blocked in its own handler
  fds,       \* what each descriptor is
  server_socket, client_socket,
  allocs,    \* how many buffers malloc has returned
  buffer,    \* which of them the global points to; 0 for NULL
  freed,     \* those that have been freed
  peer,      \* the client of the connection: "up" or "gone"
  lingering, \* a connection that has been closed still holds the port
  file       \* whether FILENAME exists

globals == <<server_socket, client_socket>>
memory  == <<allocs, buffer, freed>>
outside == <<peer, lingering, file>>
vars    == <<main, handlers, signals, fds, globals, memory, outside>>

Fds    == 0 .. MaxFds - 1
Free   == {n \in Fds : fds[n] = "free"}
Lowest == IF Free = {} THEN -1 ELSE Min(Free)

Init ==
  /\ main = "down" /\ handlers = <<>> /\ signals = {}
  /\ fds = [n \in Fds |-> "free"]
  /\ server_socket = -1 /\ client_socket = -1
  /\ allocs = 0 /\ buffer = 0 /\ freed = {}
  /\ peer = "gone" /\ lingering = FALSE /\ file = FALSE

(* Close the descriptors of a set, by their numbers.  A connection that is *)
(* closed may linger.                                                      *)
Close(numbers) ==
  /\ fds' = [n \in Fds |-> IF n \in numbers THEN "free" ELSE fds[n]]
  /\ lingering' \in IF \E n \in numbers \cap Fds : fds[n] = "connection"
                    THEN BOOLEAN ELSE {lingering}

(* The process ends: the kernel closes what is open. *)
ProcessEnds ==
  /\ main' = "down" /\ handlers' = <<>> /\ signals' = {}
  /\ Close(Fds)
  /\ server_socket' = -1 /\ client_socket' = -1
  /\ allocs' = 0 /\ buffer' = 0 /\ freed' = {}
  /\ peer' = "gone"

-----------------------------------------------------------------------------
(* Outside. *)

Start ==
  /\ main = "down"
  /\ main' = "socket"
  /\ UNCHANGED <<handlers, signals, fds, globals, memory, outside>>

ClientLeaves ==
  /\ peer = "up"
  /\ peer' = "gone"
  /\ UNCHANGED <<main, handlers, signals, fds, globals, memory, lingering, file>>

(* The last acknowledgement has come, or TIME_WAIT is over. *)
Expire ==
  /\ lingering
  /\ lingering' = FALSE
  /\ UNCHANGED <<main, handlers, signals, fds, globals, memory, peer, file>>

-----------------------------------------------------------------------------
(* serversocket.  The program has one thread: it does not move while a     *)
(* handler runs, and the handlers never return.                            *)

At(where) == main = where /\ handlers = <<>>
Goto(where) == main' = where /\ UNCHANGED <<handlers, signals>>

(* socket overwrites server_socket, whatever that still names. *)
Socket ==
  /\ At("socket")
  /\ server_socket' = Lowest
  /\ IF Lowest = -1 THEN Goto("socket") /\ UNCHANGED fds
                    ELSE Goto("bind") /\ fds' = [fds EXCEPT ![Lowest] = "socket"]
  /\ UNCHANGED <<client_socket, memory, outside>>

(* Mutant: a listening socket does not keep the port, as with SO_REUSEPORT. *)
PortTakenShared == lingering

(* There is no SO_REUSEADDR: a lingering connection keeps the port too. *)
Holders == {n \in Fds : fds[n] \in {"bound", "listening"}}
PortTaken == lingering \/ Holders # {}

(* bind and listen; when one fails the socket is not closed. *)
Bind ==
  /\ At("bind")
  /\ \/ PortTaken /\ Goto("socket") /\ UNCHANGED fds
     \/ /\ ~PortTaken /\ "listen" \in Failures
        /\ Goto("socket")
        /\ fds' = [fds EXCEPT ![server_socket] = "bound"]
     \/ /\ ~PortTaken
        /\ Goto("accept")
        /\ fds' = [fds EXCEPT ![server_socket] = "listening"]
  /\ UNCHANGED <<globals, memory, outside>>

Accept ==
  /\ At("accept") /\ Free # {} /\ allocs < MaxConns
  /\ Goto("malloc")
  /\ client_socket' = Lowest
  /\ fds' = [fds EXCEPT ![Lowest] = "connection"]
  /\ peer' = "up"
  /\ UNCHANGED <<server_socket, memory, lingering, file>>

(* Mutant: the failure is logged, and no more. *)
AcceptFailsGoesOn ==
  /\ At("accept") /\ (Free = {} \/ "accept" \in Failures)
  /\ Goto("malloc")
  /\ client_socket' = -1
  /\ UNCHANGED <<fds, server_socket, memory, outside>>

(* accept fails: serversocket returns and leaves server_socket listening. *)
AcceptFails ==
  /\ At("accept") /\ (Free = {} \/ "accept" \in Failures)
  /\ Goto("socket")
  /\ client_socket' = -1
  /\ UNCHANGED <<fds, server_socket, memory, outside>>

Malloc ==
  /\ At("malloc")
  /\ Goto("recv")
  /\ allocs' = allocs + 1 /\ buffer' = allocs'
  /\ UNCHANGED <<fds, globals, freed, outside>>

(* Here the connection is closed, and server_socket is not. *)
MallocFails ==
  /\ At("malloc") /\ "malloc" \in Failures
  /\ Goto("socket")
  /\ buffer' = 0
  /\ Close({client_socket})
  /\ UNCHANGED <<globals, allocs, freed, peer, file>>

(* A chunk, with a newline or without, is appended to the file if fopen    *)
(* succeeds; one without is all that comes of this turn of the loop.       *)
RecvAndWrite ==
  /\ At("recv")
  /\ \/ Free # {} /\ file' = TRUE
     \/ (Free = {} \/ "fopen" \in Failures) /\ UNCHANGED file
  /\ Goto("recv") \/ Goto("send")
  /\ UNCHANGED <<fds, globals, memory, peer, lingering>>

(* recv returns 0 or -1. *)
RecvNothing ==
  /\ At("recv") /\ peer = "gone"
  /\ Goto("cleanup")
  /\ UNCHANGED <<fds, globals, memory, outside>>

(* readfile and send.  It may fail when the client has gone, or when fopen *)
(* has, and the size is -1.                                                *)
Send ==
  /\ At("send")
  /\ \/ Goto("recv")
     \/ /\ peer = "gone" \/ ~file \/ Free = {} \/ "fopen" \in Failures
        /\ Goto("cleanup")
  /\ UNCHANGED <<fds, globals, memory, outside>>

BrokenPipe ==
  /\ At("send") /\ peer = "gone"
  /\ ProcessEnds /\ UNCHANGED file

(* Mutant: the buffer is freed here as well, and still pointed to. *)
CleanupFrees ==
  /\ At("cleanup")
  /\ Goto("socket")
  /\ Close({server_socket, client_socket})
  /\ freed' = freed \cup {buffer}
  /\ UNCHANGED <<globals, allocs, buffer, peer, file>>

(* Mutant: the listening socket is forgotten. *)
CleanupForgets ==
  /\ At("cleanup")
  /\ Goto("socket")
  /\ Close({client_socket})
  /\ UNCHANGED <<globals, memory, peer, file>>

(* cleanup: both sockets are closed, and neither number is forgotten; the  *)
(* buffer is forgotten at the next malloc, and never freed.                *)
Cleanup ==
  /\ At("cleanup")
  /\ Goto("socket")
  /\ Close({server_socket, client_socket})
  /\ UNCHANGED <<globals, memory, peer, file>>

-----------------------------------------------------------------------------
(***************************************************************************)
(* cleanupsignal.  Its syslog deadlocks when the signal has interrupted    *)
(* another syslog or the closelog of a handler, and its free may when main *)
(* was in stdio or malloc, or a handler in its own free.  main logs        *)
(* wherever a call has returned.                                           *)
(***************************************************************************)
Top == Head(handlers)
Running(where) == handlers # <<>> /\ Top = where
HandlerGoto(where) ==
  /\ handlers' = [handlers EXCEPT ![1] = where]
  /\ UNCHANGED <<main, signals>>

Signal(s) ==
  /\ main # "down" /\ s \notin signals /\ ~Running("stuck")
  /\ signals' = signals \cup {s}
  /\ \/ handlers' = <<"log">> \o handlers
     \/ /\ IF handlers = <<>> THEN main # "accept" ELSE Top \in {"log", "unlink"}
        /\ handlers' = <<"stuck">> \o handlers
  /\ UNCHANGED <<main, fds, globals, memory, outside>>

(* syslog, and cleanup with the numbers of the moment. *)
HandlerCloses ==
  /\ Running("log")
  /\ HandlerGoto("free")
  /\ Close({server_socket, client_socket})
  /\ UNCHANGED <<globals, memory, peer, file>>

(* Where free would wait for a lock of malloc's that is already held.      *)
InMalloc ==
  \/ main \in {"malloc", "recv", "send"}
  \/ \E i \in 2 .. Len(handlers) : handlers[i] = "free"

(* free(buffer), which is not set to NULL: a second one aborts.            *)
HandlerFrees ==
  /\ Running("free")
  /\ \/ /\ buffer \notin freed
        /\ HandlerGoto("unlink")
        /\ freed' = IF buffer = 0 THEN freed ELSE freed \cup {buffer}
        /\ UNCHANGED <<fds, globals, allocs, buffer, outside>>
     \/ /\ buffer # 0 /\ InMalloc
        /\ HandlerGoto("stuck")
        /\ UNCHANGED <<fds, globals, memory, outside>>
     \/ buffer \in freed /\ ProcessEnds /\ UNCHANGED file

(* Mutant: exit is forgotten, and the program goes on. *)
HandlerReturns ==
  /\ Running("unlink")
  /\ file' = FALSE
  /\ handlers' = Tail(handlers)
  /\ UNCHANGED <<main, signals, fds, globals, memory, peer, lingering>>

HandlerExits ==
  /\ Running("unlink")
  /\ file' = FALSE
  /\ ProcessEnds

-----------------------------------------------------------------------------
(* What the process does by itself; a client must come before it accepts,  *)
(* and send something, or leave, before recv returns.                      *)
Serve ==
  \/ Socket \/ Bind \/ AcceptFails \/ Malloc \/ MallocFails
  \/ RecvNothing \/ Send \/ BrokenPipe \/ Cleanup

Handler == HandlerCloses \/ HandlerFrees \/ HandlerExits

Next ==
  \/ Start \/ ClientLeaves \/ Expire
  \/ Serve \/ Accept \/ RecvAndWrite \/ Handler
  \/ \E s \in Signals : Signal(s)

Fairness == WF_vars(Serve) /\ WF_vars(Handler)

Spec == Init /\ [][Next]_vars /\ Fairness

-----------------------------------------------------------------------------
(* Properties. *)

(* While a connection is served, server_socket and client_socket name the  *)
(* listening socket and the connection, and nothing else is of these       *)
(* kinds: cleanup, which closes by number, closes just what this call of   *)
(* serversocket has opened, although old numbers are never reset.          *)
CleanupClosesOwn ==
  main \in {"recv", "send", "cleanup"} /\ handlers = <<>> =>
    /\ {n \in Fds : fds[n] = "listening"} = {server_socket}
    /\ {n \in Fds : fds[n] = "connection"} = {client_socket}

(* A socket that holds the port and that no call of serversocket will      *)
(* close any more: listen, accept or malloc has failed.                    *)
PortLost == main \in {"socket", "bind"} /\ Holders # {}

(* From then on bind always fails, and nobody is served until the process  *)
(* ends: one failed accept costs all later clients their service.          *)
LostPortShutsOut ==
  [][PortLost => PortLost' \/ handlers' # <<>> \/ main' = "down"]_vars

(* After a connection the server listens again, unless listen fails, a     *)
(* signal comes, or the connection lingers (one descriptor is lost with    *)
(* each bind that fails until it is gone, and they may not last).          *)
ServesAgain ==
  main = "cleanup" ~>
    \/ main \in {"accept", "down"} \/ handlers # <<>>
    \/ lingering \/ \E n \in Fds : fds[n] = "bound"

(* A signal ends the process, wherever it is caught, unless the handler    *)
(* deadlocks in syslog or free.                                            *)
SignalEnds == handlers # <<>> ~> main = "down" \/ Running("stuck")

(* Only a second signal in the handler of the first frees the buffer twice *)
(* (the handler does not set it to NULL, nor block the other signal).      *)
FreedOnce == Running("free") /\ buffer \in freed => Len(handlers) > 1
=============================================================================
