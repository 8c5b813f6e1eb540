------------------------- MODULE SystemCallsProofs --------------------------
(***************************************************************************)
(* Theorems about do_exec and do_exec_redirect, for any number of          *)
(* processes, calls and texts.                                             *)
(*                                                                         *)
(* They rest on this: a process that waits is the parent of the child it   *)
(* waits for, and nobody else has reaped that child.  Although ids are     *)
(* used again, its status cannot be that of another command.               *)
(*                                                                         *)
(* That a text is written once rests on who has copies of it: of those,    *)
(* at most one process is yet to write its own (TextInv).                  *)
(***************************************************************************)
EXTENDS SystemCalls, TLAPS

USE CallsAssumption

Places == {"none", "caller", "dup2", "execv", "command", "waiting", "zombie"}

ProcessType ==
  [at : Places, parent : Pids \cup {0}, child : Pids \cup {0},
   call : {"none", "do_exec", "do_exec_redirect"}, text : SUBSET Texts,
   redirected : BOOLEAN, ran : BOOLEAN, ok : BOOLEAN, stray : BOOLEAN,
   forgotten : BOOLEAN]

(* A process that was forked runs the program only if its dup2 has failed, *)
(* and ends with 0 only if it ran its command, or the program.             *)
Sound(r) ==
  /\ r.at \in {"dup2", "execv"} => ~r.ok
  /\ r.at = "command" => r.ran
  /\ r.parent # 0 /\ r.at \in {"caller", "waiting"} => r.stray
  /\ r.parent # 0 /\ r.at = "zombie" /\ r.ok => r.ran \/ r.stray

(* The one p waits for is there, and is its child. *)
Awaits(p) ==
  proc[p].at = "waiting" =>
    /\ proc[p].child \in Pids
    /\ proc[proc[p].child].parent = p
    /\ proc[proc[p].child].at # "none"

CallsInv ==
  /\ proc \in [Pids -> ProcessType]
  /\ \A p \in Pids : Sound(proc[p]) /\ Awaits(p)
  /\ OneCaller

LEMMA InitCalls == Init => CallsInv
<1> SUFFICES ASSUME Init PROVE CallsInv
  OBVIOUS
<1> DEFINE first == [NoProcess EXCEPT !.at = "caller"]
<1>1. NoProcess \in ProcessType /\ first \in ProcessType
  BY DEF NoProcess, ProcessType, Places
<1>2. /\ NoProcess.at = "none" /\ Sound(NoProcess)
      /\ first.at = "caller" /\ Sound(first)
  BY DEF NoProcess, Sound
<1>3. proc = [p \in Pids |-> IF p = First THEN first ELSE NoProcess]
  BY DEF Init
<1> HIDE DEF first
<1> QED BY <1>1, <1>2, <1>3 DEF CallsInv, Awaits, OneCaller

(* One process changes, to a sound record, and stays where it is waited    *)
(* for.                                                                    *)
LEMMA OneChanges ==
  ASSUME CallsInv, NEW p \in Pids, NEW r \in ProcessType, Sound(r),
         proc' = [proc EXCEPT ![p] = r],
         proc[p].at # "none", r.at # "none", r.at # "waiting",
         r.parent = proc[p].parent,
         p # First /\ r.at = "caller" => r.stray
  PROVE  CallsInv'
<1>1. proc' \in [Pids -> ProcessType] /\ \A q \in Pids : Sound(proc'[q])
  BY DEF CallsInv
<1>2. OneCaller'
  BY DEF CallsInv, OneCaller
<1>3. \A q \in Pids : proc'[q].parent = proc[q].parent
  OBVIOUS
<1>4. \A q \in Pids : proc'[q].at = "none" => proc[q].at = "none"
  OBVIOUS
<1>5. ASSUME NEW q \in Pids, proc'[q].at = "waiting"
      PROVE  /\ proc'[q].child \in Pids
             /\ proc'[proc'[q].child].parent = q
             /\ proc'[proc'[q].child].at # "none"
  <2>1. q # p
    BY <1>5 DEF CallsInv
  <2>2. proc'[q] = proc[q]
    BY <2>1
  <2>3. /\ proc[q].child \in Pids
        /\ proc[proc[q].child].parent = q
        /\ proc[proc[q].child].at # "none"
    BY <1>5, <2>2 DEF CallsInv, Awaits
  <2> QED BY <1>3, <1>4, <2>2, <2>3
<1> QED BY <1>1, <1>2, <1>5 DEF CallsInv, Awaits

LEMMA PrintfCalls ==
  ASSUME CallsInv, NEW p \in Pids, Printf(p) PROVE CallsInv'
<1>1. PICK t \in Texts : proc' = [proc EXCEPT ![p].text = @ \cup {t}]
  BY DEF Printf
<1> DEFINE r == [proc[p] EXCEPT !.text = @ \cup {t}]
<1>2. proc[p] \in ProcessType /\ Sound(proc[p]) /\ proc[p].at = "caller"
  BY DEF CallsInv, Printf
<1>3. r \in ProcessType /\ Sound(r)
  BY <1>2 DEF ProcessType, Sound
<1>4. p # First => proc[p].stray
  BY <1>2 DEF CallsInv, OneCaller
<1>5. proc' = [proc EXCEPT ![p] = r]
  BY <1>1
<1> QED BY <1>2, <1>3, <1>4, <1>5, OneChanges DEF ProcessType

(* The children of a process that ends are no longer anybody's.            *)
LEMMA ExitCalls ==
  ASSUME CallsInv, NEW p \in Pids, Exit(p) PROVE CallsInv'
<1>1. PICK ok \in BOOLEAN :
        proc' = [q \in Pids |->
          IF q = p THEN [proc[p] EXCEPT !.at = "zombie", !.ok = ok, !.text = {}]
          ELSE IF proc[q].parent = p THEN [proc[q] EXCEPT !.parent = 0]
          ELSE proc[q]]
  BY DEF Exit
<1>2. proc[p].at = "caller" /\ \A q \in Pids : proc[q] \in ProcessType /\ Sound(proc[q])
  BY DEF CallsInv, Exit
<1>3. ASSUME NEW q \in Pids PROVE proc'[q] \in ProcessType
  <2>1. [proc[p] EXCEPT !.at = "zombie", !.ok = ok, !.text = {}] \in ProcessType
    BY <1>2 DEF ProcessType, Places
  <2>2. [proc[q] EXCEPT !.parent = 0] \in ProcessType
    BY <1>2 DEF ProcessType
  <2> QED BY <1>1, <1>2, <2>1, <2>2
<1>4. \A q \in Pids : Sound(proc'[q])
  BY <1>1, <1>2 DEF Sound, ProcessType
<1>5. OneCaller'
  BY <1>1, <1>2 DEF CallsInv, OneCaller, ProcessType
<1>6. ASSUME NEW q \in Pids PROVE Awaits(q)'
  <2> SUFFICES ASSUME proc'[q].at = "waiting"
               PROVE  /\ proc'[q].child \in Pids
                      /\ proc'[proc'[q].child].parent = q
                      /\ proc'[proc'[q].child].at # "none"
    BY DEF Awaits
  <2>1. q # p
    BY <1>1, <1>2 DEF ProcessType
  <2>2. proc'[q].at = proc[q].at /\ proc'[q].child = proc[q].child
    BY <1>1, <1>2, <2>1 DEF ProcessType
  <2> DEFINE c == proc[q].child
  <2>3. c \in Pids /\ proc[c].parent = q /\ proc[c].at # "none"
    BY <2>2 DEF CallsInv, Awaits
  <2>4. proc'[c].parent = q /\ proc'[c].at # "none"
    BY <1>1, <1>2, <2>1, <2>3 DEF ProcessType
  <2> QED BY <2>2, <2>3, <2>4
<1>7. proc' \in [Pids -> ProcessType]
  BY <1>1, <1>3
<1> QED BY <1>4, <1>5, <1>6, <1>7 DEF CallsInv

(* Nobody waits for a process that goes.                                   *)
LEMMA GoneCalls ==
  ASSUME CallsInv, NEW c \in Pids, NEW w \in Pids \cup {0},
         proc[c].at = "zombie", proc[c].parent = w,
         proc' \in [Pids -> ProcessType],
         proc'[c] = NoProcess,
         \A q \in Pids \ {c} : q # w => proc'[q] = proc[q],
         w # 0 => /\ w # c
                  /\ proc'[w] = [proc[w] EXCEPT !.at = "caller"]
                  /\ proc[w].at = "waiting"
  PROVE  CallsInv'
<1>1. \A q \in Pids : Sound(proc'[q])
  BY DEF CallsInv, Sound, NoProcess, ProcessType
<1>2. OneCaller'
  BY DEF CallsInv, OneCaller, NoProcess, ProcessType
<1>3. ASSUME NEW q \in Pids PROVE Awaits(q)'
  <2> SUFFICES ASSUME proc'[q].at = "waiting"
               PROVE  /\ proc'[q].child \in Pids
                      /\ proc'[proc'[q].child].parent = q
                      /\ proc'[proc'[q].child].at # "none"
    BY DEF Awaits
  <2>1. q # c /\ q # w
    BY DEF NoProcess, CallsInv, ProcessType
  <2>2. proc'[q] = proc[q]
    BY <2>1
  <2> DEFINE d == proc[q].child
  <2>3. d \in Pids /\ proc[d].parent = q /\ proc[d].at # "none"
    BY <2>2 DEF CallsInv, Awaits
  <2>4. d # c
    BY <2>1, <2>3
  <2>5. proc'[d].parent = q /\ proc'[d].at # "none"
    BY <2>3, <2>4 DEF CallsInv, ProcessType
  <2> QED BY <2>2, <2>3, <2>5
<1> QED BY <1>1, <1>2, <1>3 DEF CallsInv

LEMMA InitReapsCalls ==
  ASSUME CallsInv, NEW c \in Pids, InitReaps(c) PROVE CallsInv'
<1>1. /\ proc[c].at = "zombie" /\ proc[c].parent = 0
      /\ proc' = [proc EXCEPT ![c] = NoProcess]
  BY DEF InitReaps
<1>2. proc' \in [Pids -> ProcessType]
  BY <1>1 DEF CallsInv, ProcessType, Places, NoProcess
<1> QED BY <1>1, <1>2, GoneCalls DEF CallsInv

(* fork: a new process, and one that waits for it.                         *)
LEMMA ForkCalls ==
  ASSUME CallsInv, NEW p \in Pids, proc[p].at = "caller",
         NEW call \in {"do_exec", "do_exec_redirect"},
         NEW where \in {"execv", "dup2"},
         NEW text \in SUBSET Texts, Fork(p, call, where, text)
  PROVE  CallsInv'
<1>1. PICK c \in Pids :
        /\ proc[c].at = "none"
        /\ proc' = [proc EXCEPT
             ![p] = [@ EXCEPT !.at = "waiting", !.child = c, !.call = call,
                              !.text = text],
             ![c] = [NoProcess EXCEPT !.at = where, !.parent = p, !.call = call,
                                      !.text = text]]
  BY DEF Fork
<1> DEFINE r == [proc[p] EXCEPT !.at = "waiting", !.child = c, !.call = call,
                                !.text = text]
           s == [NoProcess EXCEPT !.at = where, !.parent = p, !.call = call,
                                  !.text = text]
<1>2. /\ proc \in [Pids -> ProcessType] /\ p # c /\ p # 0
      /\ proc' \in [Pids -> ProcessType]
      /\ proc'[p] = r /\ proc'[c] = s
      /\ \A q \in Pids \ {p, c} : proc'[q] = proc[q]
  <2>1. r \in ProcessType
    BY DEF CallsInv, ProcessType, Places
  <2>2. s \in ProcessType
    BY DEF NoProcess, ProcessType, Places
  <2>3. proc \in [Pids -> ProcessType] /\ p # c /\ p # 0
    BY <1>1 DEF CallsInv
  <2>4. proc' = [proc EXCEPT ![p] = r, ![c] = s]
    BY <1>1
  <2> HIDE DEF r, s
  <2> QED BY <2>1, <2>2, <2>3, <2>4
<1>3. /\ r.at = "waiting" /\ r.child = c
      /\ r.parent = proc[p].parent /\ r.stray = proc[p].stray
  BY <1>2 DEF ProcessType
<1>4. s.at = where /\ s.parent = p /\ s.ok = FALSE
  BY DEF NoProcess
<1> HIDE DEF r, s
<1>5. Sound(proc[p]) /\ (p # First => proc[p].stray)
  BY DEF CallsInv, OneCaller
<1>6. Sound(r) /\ Sound(s)
  BY <1>3, <1>4, <1>5 DEF Sound
<1>7. \A q \in Pids : Sound(proc'[q])
  BY <1>2, <1>6 DEF CallsInv
<1>8. OneCaller'
  BY <1>2, <1>3, <1>4, <1>5 DEF CallsInv, OneCaller
<1>9. ASSUME NEW q \in Pids PROVE Awaits(q)'
  <2>1. CASE q = p
    BY <1>2, <1>3, <1>4, <2>1 DEF Awaits
  <2>2. CASE q = c
    BY <1>2, <1>4, <2>2 DEF Awaits
  <2>3. CASE q \notin {p, c} /\ proc[q].at = "waiting"
    <3> DEFINE d == proc[q].child
    <3>1. d \in Pids /\ proc[d].parent = q /\ proc[d].at # "none"
      BY <2>3 DEF CallsInv, Awaits
    <3>2. d # c
      BY <1>1, <3>1
    <3>3. proc'[d].parent = q /\ proc'[d].at # "none"
      BY <1>2, <1>3, <3>1, <3>2
    <3> QED BY <1>2, <2>3, <3>1, <3>3 DEF Awaits
  <2>4. CASE q \notin {p, c} /\ proc[q].at # "waiting"
    BY <1>2, <2>4 DEF Awaits
  <2> QED BY <2>1, <2>2, <2>3, <2>4
<1> QED BY <1>2, <1>7, <1>8, <1>9 DEF CallsInv

LEMMA BeginCalls ==
  ASSUME CallsInv, NEW p \in Pids, DoSystem(p) \/ DoExec(p) \/ DoExecRedirect(p)
  PROVE  CallsInv'
<1>1. proc[p].at = "caller" /\ proc[p] \in ProcessType
  BY DEF DoSystem, DoExec, DoExecRedirect, Calls, CallsInv
<1>2. UNCHANGED proc => CallsInv'
  BY DEF CallsInv, Awaits, OneCaller
<1>3. CASE DoSystem(p)
  BY <1>2, <1>3 DEF DoSystem
<1>4. CASE DoExec(p)
  <2>1. proc[p].text \in SUBSET Texts
    BY <1>1 DEF ProcessType
  <2> QED BY <1>1, <1>2, <1>4, <2>1, ForkCalls DEF DoExec
<1>5. CASE DoExecRedirect(p)
  <2>1. CASE Fork(p, "do_exec_redirect", "dup2", {})
    BY <1>1, <2>1, ForkCalls
  <2>2. CASE proc' = [proc EXCEPT ![p].text = {}]
    <3> DEFINE r == [proc[p] EXCEPT !.text = {}]
    <3>1. r \in ProcessType /\ Sound(r) /\ r.parent = proc[p].parent
          /\ r.at = "caller" /\ r.stray = proc[p].stray
      BY <1>1 DEF CallsInv, ProcessType, Sound
    <3>2. proc' = [proc EXCEPT ![p] = r]
      BY <2>2
    <3>3. p # First => proc[p].stray
      BY <1>1 DEF CallsInv, OneCaller
    <3> HIDE DEF r
    <3> QED BY <1>1, <3>1, <3>2, <3>3, OneChanges
  <2> QED BY <1>2, <1>5, <2>1, <2>2 DEF DoExecRedirect
<1> QED BY <1>3, <1>4, <1>5

(* A child, from its fork to its end.                                      *)
LEMMA ChildCalls ==
  ASSUME CallsInv, NEW c \in Pids,
         Dup2(c) \/ Execv(c) \/ ExecvFails(c) \/ CommandEnds(c)
  PROVE  CallsInv'
<1>1. proc[c] \in ProcessType /\ Sound(proc[c])
  BY DEF CallsInv
<1>2. PICK r \in ProcessType :
        /\ proc' = [proc EXCEPT ![c] = r]
        /\ Sound(r) /\ r.parent = proc[c].parent
        /\ r.at \notin {"none", "waiting"} /\ proc[c].at # "none"
        /\ r.at = "caller" => r.stray
  <2>1. CASE Dup2(c)
    <3> DEFINE r == [proc[c] EXCEPT !.at = "execv", !.redirected = TRUE]
               s == [proc[c] EXCEPT !.at = "caller", !.stray = TRUE]
    <3>1. /\ proc[c].at = "dup2"
          /\ proc' = [proc EXCEPT ![c] = r] \/ proc' = [proc EXCEPT ![c] = s]
      BY <2>1 DEF Dup2
    <3>2. /\ r \in ProcessType /\ r.parent = proc[c].parent
          /\ r.at = "execv" /\ r.ok = proc[c].ok
      BY <1>1 DEF ProcessType, Places
    <3>3. /\ s \in ProcessType /\ s.parent = proc[c].parent
          /\ s.at = "caller" /\ s.stray = TRUE
      BY <1>1 DEF ProcessType, Places
    <3> HIDE DEF r, s
    <3>4. Sound(r) /\ Sound(s)
      BY <1>1, <3>1, <3>2, <3>3 DEF Sound
    <3> QED BY <3>1, <3>2, <3>3, <3>4
  <2>2. CASE Execv(c)
    <3> DEFINE r == [proc[c] EXCEPT !.at = "command", !.ran = TRUE, !.text = {}]
    <3>1. /\ r \in ProcessType /\ Sound(r) /\ r.parent = proc[c].parent
          /\ r.at = "command"
      BY <1>1 DEF ProcessType, Places, Sound
    <3>2. proc[c].at = "execv" /\ proc' = [proc EXCEPT ![c] = r]
      BY <2>2 DEF Execv
    <3> HIDE DEF r
    <3> QED BY <3>1, <3>2
  <2>3. CASE ExecvFails(c)
    <3> DEFINE r == [proc[c] EXCEPT !.at = "zombie", !.text = {}]
    <3>1. proc[c].at = "execv" /\ proc' = [proc EXCEPT ![c] = r]
      BY <2>3 DEF ExecvFails
    <3>2. /\ r \in ProcessType /\ r.parent = proc[c].parent
          /\ r.at = "zombie" /\ r.ok = proc[c].ok
      BY <1>1 DEF ProcessType, Places
    <3>3. ~proc[c].ok
      BY <1>1, <3>1 DEF Sound
    <3> HIDE DEF r
    <3> QED BY <3>1, <3>2, <3>3 DEF Sound
  <2>4. CASE CommandEnds(c)
    <3>1. PICK ok \in BOOLEAN :
            proc' = [proc EXCEPT ![c] = [@ EXCEPT !.at = "zombie", !.ok = ok]]
      BY <2>4 DEF CommandEnds
    <3> DEFINE r == [proc[c] EXCEPT !.at = "zombie", !.ok = ok]
    <3>2. /\ r \in ProcessType /\ r.parent = proc[c].parent
          /\ r.at = "zombie" /\ r.ran = proc[c].ran
      BY <1>1 DEF ProcessType, Places
    <3>3. proc[c].at = "command" /\ proc' = [proc EXCEPT ![c] = r]
      BY <2>4, <3>1 DEF CommandEnds
    <3>4. proc[c].ran
      BY <1>1, <3>3 DEF Sound
    <3> HIDE DEF r
    <3> QED BY <3>2, <3>3, <3>4 DEF Sound
  <2> QED BY <2>1, <2>2, <2>3, <2>4
<1> QED BY <1>2, OneChanges

LEMMA WaitpidCalls ==
  ASSUME CallsInv, NEW p \in Pids, Waitpid(p) PROVE CallsInv'
<1> DEFINE c == proc[p].child
           r == [proc[p] EXCEPT !.at = "caller"]
<1>1. /\ proc[p].at = "waiting" /\ proc[c].at = "zombie"
      /\ proc' = [proc EXCEPT ![p].at = "caller", ![c] = NoProcess]
  BY DEF Waitpid, Awaited
<1>2. c \in Pids /\ proc[c].parent = p /\ c # p /\ p # 0
  BY <1>1 DEF CallsInv, Awaits
<1>3. r \in ProcessType /\ NoProcess \in ProcessType
  BY DEF CallsInv, ProcessType, Places, NoProcess
<1>4. proc' = [proc EXCEPT ![p] = r, ![c] = NoProcess]
  BY <1>1
<1>5. proc \in [Pids -> ProcessType]
  BY DEF CallsInv
<1> HIDE DEF c, r
<1>6. /\ proc' \in [Pids -> ProcessType]
      /\ proc'[c] = NoProcess /\ proc'[p] = r
      /\ \A q \in Pids \ {c} : q # p => proc'[q] = proc[q]
  BY <1>2, <1>3, <1>4, <1>5
<1>7. \A q \in Pids \ {c} : q # p => proc'[q] = proc[q]
  BY <1>6
<1>8. proc'[p] = [proc[p] EXCEPT !.at = "caller"]
  BY <1>6 DEF r
<1> QED BY <1>1, <1>2, <1>6, <1>7, <1>8, GoneCalls

(* The child that is forgotten keeps all it is judged by. *)
LEMMA WaitpidFailsCalls ==
  ASSUME CallsInv, NEW p \in Pids, WaitpidFails(p) PROVE CallsInv'
<1> DEFINE c == proc[p].child
           r == [proc[p] EXCEPT !.at = "caller"]
           Forget(x) == [x EXCEPT !.forgotten = TRUE]
<1>1. /\ proc[p].at = "waiting"
      /\ proc' = [proc EXCEPT ![p].at = "caller", ![c].forgotten = TRUE]
  BY DEF WaitpidFails
<1>2. c \in Pids /\ proc[c].parent = p /\ proc[c].at # "none"
  BY <1>1 DEF CallsInv, Awaits
<1>3. proc \in [Pids -> ProcessType]
  BY DEF CallsInv
<1> DEFINE Keeps(x, y) ==
             /\ x \in ProcessType
             /\ x.at = y.at /\ x.parent = y.parent /\ x.child = y.child
             /\ x.ran = y.ran /\ x.ok = y.ok /\ x.stray = y.stray
<1>4. \A x \in ProcessType : Keeps(x, x) /\ Keeps(Forget(x), x)
  BY DEF ProcessType
<1>5. /\ r \in ProcessType /\ r.at = "caller"
      /\ r.parent = proc[p].parent /\ r.child = proc[p].child
      /\ r.ran = proc[p].ran /\ r.ok = proc[p].ok /\ r.stray = proc[p].stray
  BY <1>3 DEF ProcessType, Places
<1>6. /\ c # p => proc' = [proc EXCEPT ![p] = r, ![c] = Forget(proc[c])]
      /\ c = p => proc' = [proc EXCEPT ![p] = Forget(r)]
  BY <1>1, <1>2, <1>3
<1>7. \A q \in Pids : Keeps(proc'[q], IF q = p THEN r ELSE proc[q])
  <2> HIDE DEF r, c, Forget, Keeps
  <2>1. CASE c # p
    BY <1>2, <1>3, <1>4, <1>5, <1>6, <2>1
  <2>2. CASE c = p
    BY <1>2, <1>3, <1>4, <1>5, <1>6, <2>2
  <2> QED BY <2>1, <2>2
<1>8. \A q \in Pids : /\ proc'[q] \in ProcessType
                      /\ proc'[q].at = IF q = p THEN "caller" ELSE proc[q].at
                      /\ proc'[q].parent = proc[q].parent
                      /\ proc'[q].child = proc[q].child
                      /\ proc'[q].ran = proc[q].ran
                      /\ proc'[q].ok = proc[q].ok
                      /\ proc'[q].stray = proc[q].stray
  <2> HIDE DEF r
  <2> QED BY <1>5, <1>7
<1>9. proc' \in [Pids -> ProcessType]
  BY <1>1, <1>3, <1>8
<1>10. \A q \in Pids : Sound(proc'[q])
  BY <1>1, <1>8 DEF CallsInv, Sound
<1>11. OneCaller'
  BY <1>1, <1>8 DEF CallsInv, OneCaller
<1>12. ASSUME NEW q \in Pids PROVE Awaits(q)'
  BY <1>8 DEF CallsInv, Awaits
<1> QED BY <1>9, <1>10, <1>11, <1>12 DEF CallsInv

LEMMA NextCalls == CallsInv /\ [Next]_vars => CallsInv'
<1> SUFFICES ASSUME CallsInv, [Next]_vars PROVE CallsInv'
  OBVIOUS
<1>1. CASE UNCHANGED vars
  BY <1>1 DEF vars, CallsInv, Awaits, OneCaller
<1>2. ASSUME NEW p \in Pids,
             \/ Printf(p) \/ Exit(p) \/ InitReaps(p)
             \/ DoSystem(p) \/ DoExec(p) \/ DoExecRedirect(p)
             \/ Dup2(p) \/ Execv(p) \/ ExecvFails(p) \/ CommandEnds(p)
             \/ Waitpid(p) \/ WaitpidFails(p)
      PROVE  CallsInv'
  BY <1>2, PrintfCalls, ExitCalls, InitReapsCalls, BeginCalls, ChildCalls,
     WaitpidCalls, WaitpidFailsCalls
<1> QED BY <1>1, <1>2 DEF Next

(* Only Waitpid returns TRUE, and then the status is that of its own       *)
(* child, which is a sound one.                                            *)
LEMMA AnswerTrue ==
  ASSUME CallsInv, TrueMeansRan, [Next]_vars PROVE TrueMeansRan'
<1>1. CASE UNCHANGED answer
  BY <1>1 DEF TrueMeansRan
<1>2. ASSUME NEW p \in Pids, Waitpid(p) PROVE TrueMeansRan'
  <2> DEFINE c == proc[p].child
  <2>1. /\ proc[p].at = "waiting" /\ proc[c].at = "zombie"
        /\ answer' = [call |-> proc[p].call, value |-> proc[c].ok,
                      child |-> proc[c]]
    BY <1>2 DEF Waitpid, Awaited, Return
  <2>2. c \in Pids /\ proc[c].parent # 0
    BY <2>1 DEF CallsInv, Awaits
  <2>3. proc[c].ok => proc[c].ran \/ proc[c].stray
    BY <2>1, <2>2 DEF CallsInv, Sound
  <2> HIDE DEF c
  <2> QED BY <2>1, <2>3 DEF TrueMeansRan
<1>3. ASSUME NEW p \in Pids, DoSystem(p) PROVE TrueMeansRan'
  BY <1>3 DEF DoSystem, Return, TrueMeansRan
<1>4. ASSUME NEW p \in Pids,
             DoExec(p) \/ DoExecRedirect(p) \/ Dup2(p) \/ WaitpidFails(p)
      PROVE  UNCHANGED answer \/ answer'.value = FALSE
  BY <1>4 DEF DoExec, DoExecRedirect, Dup2, WaitpidFails, Return
<1>5. ASSUME NEW p \in Pids,
             \/ Printf(p) \/ Exit(p) \/ InitReaps(p)
             \/ Execv(p) \/ ExecvFails(p) \/ CommandEnds(p)
      PROVE  UNCHANGED answer
  BY <1>5 DEF Printf, Exit, InitReaps, Execv, ExecvFails, CommandEnds
<1>6. answer'.value = FALSE => TrueMeansRan'
  BY DEF TrueMeansRan
<1> QED BY <1>1, <1>2, <1>3, <1>4, <1>5, <1>6 DEF Next, vars

(* In every state each of the three calls is where its children let it be, *)
(* and a true answer means the command ran.                                *)
THEOREM CallsInvHolds == Spec => [](CallsInv /\ TrueMeansRan)
<1>1. Init => CallsInv /\ TrueMeansRan
  BY InitCalls DEF Init, TrueMeansRan
<1>2. CallsInv /\ TrueMeansRan /\ [Next]_vars => (CallsInv /\ TrueMeansRan)'
  BY NextCalls, AnswerTrue
<1> QED BY <1>1, <1>2, PTL DEF Spec

(* No child returns into the program, whatever fails in it, but one whose  *)
(* dup2 has failed.                                                        *)
THEOREM OneProcessGoesOn == Spec => []OneCaller
<1>1. CallsInv => OneCaller
  BY DEF CallsInv
<1> QED BY <1>1, CallsInvHolds, PTL

(* TRUE is never the status of another call's child, however many calls    *)
(* were interrupted before and whatever ids their children left behind.    *)
THEOREM TrueIsOwnChild == Spec => []TrueMeansRan
BY CallsInvHolds, PTL

-----------------------------------------------------------------------------
(* Where a text waits: in a process of the program, or in a copy that only *)
(* execv discards or writes.  A process whose stdout is the output file    *)
(* has none.                                                               *)
TextPlace(r) ==
  /\ r.at \notin {"caller", "waiting", "execv"} => r.text = {}
  /\ r.at = "execv" /\ r.call # "do_exec" => r.text = {}
  /\ r.redirected => r.text = {} /\ r.at \in {"execv", "command", "zombie"}

(* It is up to p to write t. *)
Keeps(p, t) == proc[p].at \in {"caller", "waiting"} /\ t \in proc[p].text

TextInv ==
  /\ written \in [Texts -> Nat] /\ misplaced = {}
  /\ \A p \in Pids : TextPlace(proc[p])
  /\ \A p, q \in Pids, t \in Texts : Keeps(p, t) /\ Keeps(q, t) => p = q
  /\ \A t \in Texts \ excused :
       /\ written[t] <= 1
       /\ \A p \in Pids : Keeps(p, t) => written[t] = 0

(* A step that takes no text up and writes none.                           *)
LEMMA TextKept ==
  ASSUME TextInv, UNCHANGED <<written, misplaced, excused>>,
         \A q \in Pids : TextPlace(proc'[q]),
         \A q \in Pids, t \in Texts : Keeps(q, t)' => Keeps(q, t)
  PROVE  TextInv'
<1>1. \A q, r \in Pids, t \in Texts : Keeps(q, t)' /\ Keeps(r, t)' => q = r
  BY DEF TextInv
<1>2. \A t \in Texts \ excused :
        /\ written[t] <= 1
        /\ \A q \in Pids : Keeps(q, t)' => written[t] = 0
  BY DEF TextInv
<1> QED BY <1>1, <1>2 DEF TextInv

(* The program's own process writes what it keeps, and keeps it no longer. *)
LEMMA TextFlushed ==
  ASSUME TextInv, NEW p \in Pids, Flush(p), proc[p].at = "caller",
         UNCHANGED excused,
         \A q \in Pids : TextPlace(proc'[q]),
         \A q \in Pids, t \in Texts : Keeps(q, t)' => Keeps(q, t) /\ q # p
  PROVE  TextInv'
<1>1. ~proc[p].redirected
  BY DEF TextInv, TextPlace
<1>2. /\ misplaced' = {} /\ written' \in [Texts -> Nat]
      /\ \A t \in Texts : written'[t] = IF t \in proc[p].text
                                        THEN written[t] + 1 ELSE written[t]
  BY <1>1 DEF Flush, TextInv
<1>3. \A q, r \in Pids, t \in Texts : Keeps(q, t)' /\ Keeps(r, t)' => q = r
  BY DEF TextInv
<1>4. ASSUME NEW t \in Texts \ excused
      PROVE  /\ written'[t] <= 1
             /\ \A q \in Pids : Keeps(q, t)' => written'[t] = 0
  <2>1. /\ written[t] <= 1 /\ written[t] \in Nat
        /\ \A q \in Pids : Keeps(q, t) => written[t] = 0
    BY <1>4 DEF TextInv
  <2>2. CASE t \in proc[p].text
    <3>1. Keeps(p, t)
      BY <2>2 DEF Keeps
    <3>2. \A q \in Pids : ~Keeps(q, t)'
      BY <3>1 DEF TextInv
    <3>3. written'[t] = 1
      BY <1>2, <2>1, <2>2, <3>1
    <3> QED BY <3>2, <3>3
  <2>3. CASE t \notin proc[p].text
    BY <1>2, <2>1, <2>3
  <2> QED BY <2>2, <2>3
<1> QED BY <1>2, <1>3, <1>4 DEF TextInv

(* The program prints a text nobody has.                                   *)
LEMMA PrintfText ==
  ASSUME CallsInv, TextInv, NEW p \in Pids, Printf(p) PROVE TextInv'
<1>1. PICK t \in Texts :
        /\ \A q \in Pids : t \notin proc[q].text
        /\ written[t] = 0
        /\ proc' = [proc EXCEPT ![p].text = @ \cup {t}]
  BY DEF Printf
<1>2. /\ proc[p].at = "caller" /\ UNCHANGED <<written, misplaced, excused>>
      /\ proc \in [Pids -> ProcessType] /\ proc[p] \in ProcessType
  BY DEF Printf, CallsInv
<1>3. /\ proc'[p].text = proc[p].text \cup {t} /\ proc'[p].at = proc[p].at
      /\ proc'[p].redirected = proc[p].redirected
      /\ \A q \in Pids \ {p} : proc'[q] = proc[q]
  BY <1>1, <1>2 DEF ProcessType
<1>4. \A q \in Pids : TextPlace(proc'[q])
  BY <1>2, <1>3 DEF TextInv, TextPlace
<1>5. \A q \in Pids, u \in Texts :
        Keeps(q, u)' => Keeps(q, u) \/ (q = p /\ u = t)
  BY <1>3 DEF Keeps
<1>6. \A q \in Pids : ~Keeps(q, t)
  BY <1>1 DEF Keeps
<1>7. \A q, r \in Pids, u \in Texts : Keeps(q, u)' /\ Keeps(r, u)' => q = r
  BY <1>5, <1>6 DEF TextInv
<1>8. \A u \in Texts \ excused :
        /\ written[u] <= 1
        /\ \A q \in Pids : Keeps(q, u)' => written[u] = 0
  BY <1>1, <1>5 DEF TextInv
<1> QED BY <1>2, <1>4, <1>7, <1>8 DEF TextInv

LEMMA ExitText ==
  ASSUME CallsInv, TextInv, NEW p \in Pids, Exit(p) PROVE TextInv'
<1>1. PICK ok \in BOOLEAN :
        proc' = [q \in Pids |->
          IF q = p THEN [proc[p] EXCEPT !.at = "zombie", !.ok = ok, !.text = {}]
          ELSE IF proc[q].parent = p THEN [proc[q] EXCEPT !.parent = 0]
          ELSE proc[q]]
  BY DEF Exit
<1>2. /\ proc[p].at = "caller" /\ Flush(p) /\ UNCHANGED excused
      /\ \A q \in Pids : proc[q] \in ProcessType
  BY DEF Exit, CallsInv
<1>3. /\ proc'[p].at = "zombie" /\ proc'[p].text = {}
      /\ \A q \in Pids \ {p} :
           /\ proc'[q].at = proc[q].at /\ proc'[q].text = proc[q].text
           /\ proc'[q].call = proc[q].call
           /\ proc'[q].redirected = proc[q].redirected
  BY <1>1, <1>2 DEF ProcessType
<1>4. \A q \in Pids : TextPlace(proc'[q])
  BY <1>3 DEF TextInv, TextPlace
<1>5. \A q \in Pids, t \in Texts : Keeps(q, t)' => Keeps(q, t) /\ q # p
  BY <1>3 DEF Keeps
<1> QED BY <1>2, <1>4, <1>5, TextFlushed

(* fork: only do_exec leaves the child something to write.                 *)
LEMMA ForkPlaces ==
  ASSUME CallsInv, TextInv, NEW p \in Pids, proc[p].at = "caller",
         NEW call, NEW where, NEW text,
         \/ call = "do_exec" /\ where = "execv"
         \/ where = "dup2" /\ text = {},
         Fork(p, call, where, text)
  PROVE  /\ \A q \in Pids : TextPlace(proc'[q])
         /\ proc'[p].text = text
         /\ \A q \in Pids, t \in Texts :
              Keeps(q, t)' => (q = p /\ t \in text) \/ (q # p /\ Keeps(q, t))
<1>1. PICK c \in {c \in Pids : proc[c].at = "none"} :
        proc' = [proc EXCEPT
          ![p] = [@ EXCEPT !.at = "waiting", !.child = c, !.call = call,
                           !.text = text],
          ![c] = [NoProcess EXCEPT !.at = where, !.parent = p, !.call = call,
                                   !.text = text]]
  BY DEF Fork
<1>2. c # p /\ proc \in [Pids -> ProcessType] /\ proc[p] \in ProcessType
  BY <1>1 DEF CallsInv
<1> DEFINE r == [proc[p] EXCEPT !.at = "waiting", !.child = c, !.call = call,
                                !.text = text]
           s == [NoProcess EXCEPT !.at = where, !.parent = p, !.call = call,
                                  !.text = text]
<1>3. /\ r.at = "waiting" /\ r.text = text
      /\ r.redirected = proc[p].redirected
      /\ s.at = where /\ s.text = text /\ s.call = call
      /\ s.redirected = FALSE
  BY <1>2 DEF ProcessType, NoProcess
<1>4. /\ proc'[p] = r /\ proc'[c] = s
      /\ \A q \in Pids \ {p, c} : proc'[q] = proc[q]
  BY <1>1, <1>2
<1> HIDE DEF r, s
<1>5. ~proc[p].redirected
  BY DEF TextInv, TextPlace
<1>6. \A q \in Pids : TextPlace(proc'[q])
  BY <1>3, <1>4, <1>5 DEF TextInv, TextPlace
<1>7. \A q \in Pids, t \in Texts :
        Keeps(q, t)' => (q = p /\ t \in text) \/ (q # p /\ Keeps(q, t))
  BY <1>3, <1>4 DEF Keeps
<1> QED BY <1>3, <1>4, <1>6, <1>7

LEMMA BeginText ==
  ASSUME CallsInv, TextInv, NEW p \in Pids,
         DoSystem(p) \/ DoExec(p) \/ DoExecRedirect(p)
  PROVE  TextInv'
<1>1. proc[p].at = "caller" /\ proc[p] \in ProcessType /\ UNCHANGED excused
        /\ proc \in [Pids -> ProcessType]
  BY DEF DoSystem, DoExec, DoExecRedirect, Calls, CallsInv
<1>2. CASE UNCHANGED <<proc, written, misplaced>>
  BY <1>1, <1>2, TextKept DEF TextInv, Keeps
<1>3. CASE Fork(p, "do_exec", "execv", proc[p].text)
             /\ UNCHANGED <<written, misplaced>>
  <2>1. /\ \A q \in Pids : TextPlace(proc'[q])
        /\ \A q \in Pids, t \in Texts :
             Keeps(q, t)' => (q = p /\ t \in proc[p].text)
                               \/ (q # p /\ Keeps(q, t))
    BY <1>1, <1>3, ForkPlaces
  <2>2. \A q \in Pids, t \in Texts : Keeps(q, t)' => Keeps(q, t)
    BY <1>1, <2>1 DEF Keeps
  <2> QED BY <1>1, <1>3, <2>1, <2>2, TextKept
<1>4. CASE Flush(p) /\ Fork(p, "do_exec_redirect", "dup2", {})
  <2>1. /\ \A q \in Pids : TextPlace(proc'[q])
        /\ \A q \in Pids, t \in Texts :
             Keeps(q, t)' => (q = p /\ t \in {}) \/ (q # p /\ Keeps(q, t))
    BY <1>1, <1>4, ForkPlaces
  <2> QED BY <1>1, <1>4, <2>1, TextFlushed
<1>5. CASE Flush(p) /\ proc' = [proc EXCEPT ![p].text = {}]
  <2>1. /\ proc'[p].text = {} /\ proc'[p].at = proc[p].at
        /\ proc'[p].redirected = proc[p].redirected
        /\ \A q \in Pids \ {p} : proc'[q] = proc[q]
    BY <1>1, <1>5 DEF ProcessType
  <2>2. \A q \in Pids : TextPlace(proc'[q])
    BY <1>1, <2>1 DEF TextInv, TextPlace
  <2>3. \A q \in Pids, t \in Texts : Keeps(q, t)' => Keeps(q, t) /\ q # p
    BY <2>1 DEF Keeps
  <2> QED BY <1>1, <1>5, <2>2, <2>3, TextFlushed
<1> QED
  BY <1>2, <1>3, <1>4, <1>5 DEF DoSystem, DoExec, DoExecRedirect

(* A child takes up no text of its own.                                    *)
LEMMA ChildText ==
  ASSUME CallsInv, TextInv, NEW c \in Pids,
         Dup2(c) \/ Execv(c) \/ CommandEnds(c)
  PROVE  TextInv'
<1>1. /\ proc \in [Pids -> ProcessType] /\ proc[c] \in ProcessType
      /\ UNCHANGED <<written, misplaced, excused>> /\ TextPlace(proc[c])
  BY DEF CallsInv, TextInv, Dup2, Execv, CommandEnds
<1>2. /\ proc'[c].text = {} /\ \A q \in Pids \ {c} : proc'[q] = proc[q]
      /\ proc'[c].redirected => proc'[c].at \in {"execv", "command", "zombie"}
  <2>1. CASE Dup2(c)
    <3>1. proc[c].at = "dup2" /\ proc[c].text = {} /\ ~proc[c].redirected
      BY <1>1, <2>1 DEF Dup2, TextPlace
    <3>2. PICK r \in {[proc[c] EXCEPT !.at = "execv", !.redirected = TRUE],
                      [proc[c] EXCEPT !.at = "caller", !.stray = TRUE]} :
            proc' = [proc EXCEPT ![c] = r]
      BY <2>1 DEF Dup2
    <3>3. r.text = {} /\ (r.redirected => r.at = "execv")
      BY <1>1, <3>1, <3>2 DEF ProcessType
    <3> QED BY <1>1, <3>2, <3>3
  <2>2. CASE Execv(c)
    BY <1>1, <2>2 DEF Execv, ProcessType
  <2>3. CASE CommandEnds(c)
    <3>1. proc[c].at = "command" /\ proc[c].text = {}
      BY <1>1, <2>3 DEF CommandEnds, TextPlace
    <3>2. PICK ok \in BOOLEAN :
            proc' = [proc EXCEPT ![c] = [@ EXCEPT !.at = "zombie", !.ok = ok]]
      BY <2>3 DEF CommandEnds
    <3> QED BY <1>1, <3>1, <3>2 DEF ProcessType
  <2> QED BY <2>1, <2>2, <2>3
<1>3. \A q \in Pids : TextPlace(proc'[q])
  BY <1>2 DEF TextInv, TextPlace
<1>4. \A q \in Pids, t \in Texts : Keeps(q, t)' => Keeps(q, t)
  BY <1>2 DEF Keeps
<1> QED BY <1>1, <1>3, <1>4, TextKept

(* exit(1) in a child writes its copy, which then counts as excused.       *)
LEMMA ExecvFailsText ==
  ASSUME CallsInv, TextInv, NEW c \in Pids, ExecvFails(c) PROVE TextInv'
<1>1. /\ proc \in [Pids -> ProcessType] /\ proc[c] \in ProcessType
      /\ proc[c].at = "execv" /\ Flush(c) /\ TextPlace(proc[c])
      /\ proc' = [proc EXCEPT ![c] = [@ EXCEPT !.at = "zombie", !.text = {}]]
      /\ excused' = IF proc[c].call = "do_exec" THEN excused \cup proc[c].text
                                                ELSE excused
  BY DEF CallsInv, TextInv, ExecvFails
<1>2. /\ proc'[c].text = {} /\ proc'[c].at = "zombie"
      /\ \A q \in Pids \ {c} : proc'[q] = proc[q]
  BY <1>1 DEF ProcessType
<1>3. \A q \in Pids : TextPlace(proc'[q])
  BY <1>2 DEF TextInv, TextPlace
<1>4. \A q \in Pids, t \in Texts : Keeps(q, t)' => Keeps(q, t)
  BY <1>2 DEF Keeps
<1>5. excused' = excused \cup proc[c].text
  BY <1>1 DEF TextPlace
<1>6. /\ misplaced' = {} /\ written' \in [Texts -> Nat]
      /\ \A t \in Texts : t \notin proc[c].text => written'[t] = written[t]
  <2>1. CASE proc[c].redirected
    <3>1. proc[c].text = {}
      BY <1>1, <2>1 DEF TextPlace
    <3> QED BY <1>1, <2>1, <3>1 DEF Flush, TextInv
  <2>2. CASE ~proc[c].redirected
    BY <1>1, <2>2 DEF Flush, TextInv
  <2> QED BY <2>1, <2>2
<1>7. \A q, r \in Pids, t \in Texts : Keeps(q, t)' /\ Keeps(r, t)' => q = r
  BY <1>4 DEF TextInv
<1>8. \A t \in Texts \ excused' :
        /\ written'[t] <= 1
        /\ \A q \in Pids : Keeps(q, t)' => written'[t] = 0
  BY <1>4, <1>5, <1>6 DEF TextInv
<1> QED BY <1>3, <1>6, <1>7, <1>8 DEF TextInv

(* Nobody's text changes when a child is reaped or forgotten.              *)
LEMMA WaitText ==
  ASSUME CallsInv, TextInv, NEW p \in Pids,
         InitReaps(p) \/ Waitpid(p) \/ WaitpidFails(p)
  PROVE  TextInv'
<1>1. /\ proc \in [Pids -> ProcessType] /\ \A q \in Pids : proc[q] \in ProcessType
      /\ UNCHANGED <<written, misplaced, excused>>
  BY DEF CallsInv, InitReaps, Waitpid, WaitpidFails
<1>2. NoProcess.at = "none" /\ NoProcess.text = {} /\ ~NoProcess.redirected
  BY DEF NoProcess
<1>3. ASSUME NEW q \in Pids
      PROVE  \/ proc'[q] = NoProcess
             \/ /\ proc'[q].text = proc[q].text
                /\ proc'[q].redirected = proc[q].redirected
                /\ proc'[q].call = proc[q].call
                /\ \/ proc'[q].at = proc[q].at
                   \/ proc'[q].at = "caller" /\ proc[q].at = "waiting"
  <2>1. CASE InitReaps(p)
    BY <1>1, <2>1 DEF InitReaps
  <2> DEFINE c == proc[p].child
  <2>2. CASE Waitpid(p)
    <3>1. /\ proc[p].at = "waiting" /\ proc[c].at = "zombie"
          /\ proc' = [proc EXCEPT ![p].at = "caller", ![c] = NoProcess]
      BY <2>2 DEF Waitpid, Awaited
    <3>2. c \in Pids /\ c # p
      BY <3>1 DEF CallsInv, Awaits
    <3> HIDE DEF c
    <3> QED BY <1>1, <3>1, <3>2 DEF ProcessType
  <2>3. CASE WaitpidFails(p)
    <3>1. /\ proc[p].at = "waiting" /\ c \in Pids
          /\ proc' = [proc EXCEPT ![p].at = "caller", ![c].forgotten = TRUE]
      BY <2>3 DEF WaitpidFails, CallsInv, Awaits
    <3> HIDE DEF c
    <3> QED BY <1>1, <3>1 DEF ProcessType
  <2> QED BY <2>1, <2>2, <2>3
<1>4. \A q \in Pids : TextPlace(proc'[q])
  BY <1>2, <1>3 DEF TextInv, TextPlace
<1>5. \A q \in Pids, t \in Texts : Keeps(q, t)' => Keeps(q, t)
  BY <1>2, <1>3 DEF Keeps
<1> QED BY <1>1, <1>4, <1>5, TextKept

LEMMA InitText == Init => TextInv
<1> SUFFICES ASSUME Init PROVE TextInv
  OBVIOUS
<1>1. /\ written = [t \in Texts |-> 0] /\ misplaced = {} /\ excused = {}
      /\ proc = [p \in Pids |-> IF p = First
                                THEN [NoProcess EXCEPT !.at = "caller"]
                                ELSE NoProcess]
  BY DEF Init
<1>2. \A p \in Pids :
        proc[p].text = {} /\ ~proc[p].redirected
  BY <1>1 DEF NoProcess
<1> QED BY <1>1, <1>2 DEF TextInv, TextPlace, Keeps

LEMMA NextText == CallsInv /\ TextInv /\ [Next]_vars => TextInv'
<1> SUFFICES ASSUME CallsInv, TextInv, [Next]_vars PROVE TextInv'
  OBVIOUS
<1>1. CASE UNCHANGED vars
  BY <1>1, TextKept DEF vars, TextInv, Keeps
<1>2. ASSUME NEW p \in Pids,
             \/ Printf(p) \/ Exit(p) \/ InitReaps(p)
             \/ DoSystem(p) \/ DoExec(p) \/ DoExecRedirect(p)
             \/ Dup2(p) \/ Execv(p) \/ ExecvFails(p) \/ CommandEnds(p)
             \/ Waitpid(p) \/ WaitpidFails(p)
      PROVE  TextInv'
  <2>1. CASE Printf(p) \/ Exit(p)
    BY <2>1, PrintfText, ExitText
  <2>2. CASE DoSystem(p) \/ DoExec(p) \/ DoExecRedirect(p)
    BY <2>2, BeginText
  <2>3. CASE Dup2(p) \/ Execv(p) \/ CommandEnds(p)
    BY <2>3, ChildText
  <2>4. CASE ExecvFails(p)
    BY <2>4, ExecvFailsText
  <2>5. CASE InitReaps(p) \/ Waitpid(p) \/ WaitpidFails(p)
    BY <2>5, WaitText
  <2> QED BY <1>2, <2>1, <2>2, <2>3, <2>4, <2>5
<1> QED BY <1>1, <1>2 DEF Next

(* What the program prints comes out once, however often a fork copies the *)
(* buffer of stdout: do_exec_redirect flushes before it forks, execv drops *)
(* the copy, and only the exit(1) of a do_exec child writes it again.      *)
THEOREM TextOnlyOnce == Spec => []TextOnce
<1>1. Init => TextInv
  BY InitText
<1>2. CallsInv /\ TextInv /\ [Next]_vars => TextInv'
  BY NextText
<1>3. TextInv => TextOnce
  <2> SUFFICES ASSUME TextInv PROVE TextOnce
    OBVIOUS
  <2>1. misplaced = {}
    BY DEF TextInv
  <2>2. ASSUME NEW t \in Texts, t \notin excused PROVE ~(written[t] > 1)
    <3>1. written[t] \in Nat /\ written[t] <= 1
      BY <2>2 DEF TextInv
    <3> QED BY <3>1
  <2> QED BY <2>1, <2>2 DEF TextOnce
<1> QED BY <1>1, <1>2, <1>3, CallsInvHolds, PTL DEF Spec
=============================================================================
