---------------------------- MODULE SystemCalls ----------------------------
(***************************************************************************)
(* do_system, do_exec and do_exec_redirect                                 *)
(* (examples/systemcalls/systemcalls.c) in a program that prints and calls *)
(* them again and again, with the processes they start.                    *)
(*                                                                         *)
(* What the program prints waits in the buffer of stdout, of which a fork  *)
(* makes a copy.  Arguments are left out; a command may not exist, end     *)
(* with any status or be killed, and every system call may fail.           *)
(***************************************************************************)
EXTENDS Naturals, FiniteSets

CONSTANTS
  Pids,     \* process ids; a reaped process gives its id back
  First,    \* the process that runs the program
  Texts,    \* what the program prints, each text once
  MaxCalls  \* bound: the number of calls

ASSUME CallsAssumption == First \in Pids /\ 0 \notin Pids /\ MaxCalls \in Nat

VARIABLES
  proc,       \* the processes
  written,    \* how often each text has reached the program's stdout
  misplaced,  \* the texts that have reached an output file instead
  calls,      \* how many calls have been made
  answer,     \* what the last call returned, and how the child it had
              \* forked stood then
  excused     \* history: what a child of do_exec had in its buffer when its
              \* execv failed

vars == <<proc, written, misplaced, calls, answer, excused>>

(* at: in the program's own code ("caller"), in a call, or a child's place *)
(* in it; child: pidId; text: the unwritten part of stdout; redirected:    *)
(* stdout is the output file; ran, ok: execv succeeded, the exit status is *)
(* 0; stray: dup2 failed; forgotten: its parent's waitpid failed.  0 is    *)
(* the init process.                                                       *)
NoProcess ==
  [at |-> "none", parent |-> 0, child |-> 0, call |-> "none",
   text |-> {}, redirected |-> FALSE,
   ran |-> FALSE, ok |-> FALSE, stray |-> FALSE, forgotten |-> FALSE]

Init ==
  /\ proc = [p \in Pids |-> IF p = First THEN [NoProcess EXCEPT !.at = "caller"]
                                         ELSE NoProcess]
  /\ written = [t \in Texts |-> 0]
  /\ misplaced = {} /\ excused = {}
  /\ calls = 0
  /\ answer = [call |-> "none", value |-> FALSE, child |-> NoProcess]

(* fflush(stdout), or exit, by process p. *)
Flush(p) ==
  IF proc[p].redirected
  THEN misplaced' = misplaced \cup proc[p].text /\ UNCHANGED written
  ELSE /\ written' = [t \in Texts |-> IF t \in proc[p].text THEN written[t] + 1
                                                            ELSE written[t]]
       /\ UNCHANGED misplaced

(* What a call returns, and its child's record. *)
Return(call, value, child) ==
  answer' = [call |-> call, value |-> value, child |-> child]

Calls(p) ==
  /\ proc[p].at = "caller" /\ calls < MaxCalls
  /\ calls' = calls + 1

-----------------------------------------------------------------------------
(* The program. *)

Printf(p) ==
  /\ proc[p].at = "caller"
  /\ \E t \in Texts :
       /\ \A q \in Pids : t \notin proc[q].text
       /\ written[t] = 0 /\ t \notin misplaced
       /\ proc' = [proc EXCEPT ![p].text = @ \cup {t}]
  /\ UNCHANGED <<written, misplaced, calls, answer, excused>>

Exit(p) ==
  /\ proc[p].at = "caller"
  /\ Flush(p)
  /\ \E ok \in BOOLEAN :
       proc' = [q \in Pids |->
         IF q = p THEN [proc[p] EXCEPT !.at = "zombie", !.ok = ok, !.text = {}]
         ELSE IF proc[q].parent = p THEN [proc[q] EXCEPT !.parent = 0]
         ELSE proc[q]]
  /\ UNCHANGED <<calls, answer, excused>>

(* init reaps what has no parent any more. *)
InitReaps(c) ==
  /\ proc[c].at = "zombie" /\ proc[c].parent = 0
  /\ proc' = [proc EXCEPT ![c] = NoProcess]
  /\ UNCHANGED <<written, misplaced, calls, answer, excused>>

-----------------------------------------------------------------------------
(* system(): its -1 is FALSE, any status TRUE. *)
DoSystem(p) ==
  /\ Calls(p)
  /\ \E value \in BOOLEAN : Return("do_system", value, NoProcess)
  /\ UNCHANGED <<proc, written, misplaced, excused>>

(* fork: the child starts with a copy of the caller's buffer. *)
Fork(p, call, where, text) ==
  \E c \in {c \in Pids : proc[c].at = "none"} :
    proc' = [proc EXCEPT
      ![p] = [@ EXCEPT !.at = "waiting", !.child = c, !.call = call,
                       !.text = text],
      ![c] = [NoProcess EXCEPT !.at = where, !.parent = p, !.call = call,
                               !.text = text]]

DoExec(p) ==
  /\ Calls(p)
  /\ \/ /\ Fork(p, "do_exec", "execv", proc[p].text)
        /\ UNCHANGED answer
     \/ /\ Return("do_exec", FALSE, NoProcess)
        /\ UNCHANGED proc
  /\ UNCHANGED <<written, misplaced, excused>>

(* Mutant: stdout is not flushed before the fork. *)
DoExecRedirectUnflushed(p) ==
  /\ Calls(p)
  /\ Fork(p, "do_exec_redirect", "dup2", proc[p].text)
  /\ UNCHANGED <<written, misplaced, answer, excused>>

(* The open may fail; the fork may, after the flush.  The caller's own     *)
(* descriptor of the file is left out: nothing here uses it.               *)
DoExecRedirect(p) ==
  /\ Calls(p)
  /\ \/ /\ Flush(p)
        /\ Fork(p, "do_exec_redirect", "dup2", {})
        /\ UNCHANGED answer
     \/ /\ Flush(p)
        /\ proc' = [proc EXCEPT ![p].text = {}]
        /\ Return("do_exec_redirect", FALSE, NoProcess)
     \/ /\ Return("do_exec_redirect", FALSE, NoProcess)
        /\ UNCHANGED <<proc, written, misplaced>>
  /\ UNCHANGED excused

(* In the child.  When dup2 fails the function returns there too: a second *)
(* process goes on in the program.                                         *)
Dup2(c) ==
  /\ proc[c].at = "dup2"
  /\ \/ proc' = [proc EXCEPT ![c] = [@ EXCEPT !.at = "execv", !.redirected = TRUE]]
        /\ UNCHANGED answer
     \/ proc' = [proc EXCEPT ![c] = [@ EXCEPT !.at = "caller", !.stray = TRUE]]
        /\ Return("do_exec_redirect", FALSE, NoProcess)
  /\ UNCHANGED <<written, misplaced, calls, excused>>

(* execv discards the buffer with the rest of the old image. *)
Execv(c) ==
  /\ proc[c].at = "execv"
  /\ proc' = [proc EXCEPT ![c] = [@ EXCEPT !.at = "command", !.ran = TRUE,
                                           !.text = {}]]
  /\ UNCHANGED <<written, misplaced, calls, answer, excused>>

(* Mutant: there is no exit after execv. *)
ExecvFailsReturns(c) ==
  /\ proc[c].at = "execv"
  /\ proc' = [proc EXCEPT ![c].at = "caller"]
  /\ UNCHANGED <<written, misplaced, calls, answer, excused>>

(* exit(1) writes the copy of the buffer. *)
ExecvFails(c) ==
  /\ proc[c].at = "execv"
  /\ Flush(c)
  /\ proc' = [proc EXCEPT ![c] = [@ EXCEPT !.at = "zombie", !.text = {}]]
  /\ excused' = IF proc[c].call = "do_exec" THEN excused \cup proc[c].text
                                            ELSE excused
  /\ UNCHANGED <<calls, answer>>

CommandEnds(c) ==
  /\ proc[c].at = "command"
  /\ \E ok \in BOOLEAN :
       proc' = [proc EXCEPT ![c] = [@ EXCEPT !.at = "zombie", !.ok = ok]]
  /\ UNCHANGED <<written, misplaced, calls, answer, excused>>

(* Mutant: any child is waited for. *)
AwaitedAny(p) == {c \in Pids \ {p} : proc[c].parent = p}

(* waitpid(pidId, ...). *)
Awaited(p) == {proc[p].child}

Waitpid(p) ==
  /\ proc[p].at = "waiting"
  /\ \E c \in Awaited(p) :
       /\ proc[c].at = "zombie"
       /\ Return(proc[p].call, proc[c].ok, proc[proc[p].child])
       /\ proc' = [proc EXCEPT ![p].at = "caller", ![c] = NoProcess]
  /\ UNCHANGED <<written, misplaced, calls, excused>>

(* waitpid is interrupted: the child is forgotten. *)
WaitpidFails(p) ==
  /\ proc[p].at = "waiting"
  /\ Return(proc[p].call, FALSE, proc[proc[p].child])
  /\ proc' = [proc EXCEPT ![p].at = "caller", ![proc[p].child].forgotten = TRUE]
  /\ UNCHANGED <<written, misplaced, calls, excused>>

Next ==
  \E p \in Pids :
    \/ Printf(p) \/ Exit(p) \/ InitReaps(p)
    \/ DoSystem(p) \/ DoExec(p) \/ DoExecRedirect(p)
    \/ Dup2(p) \/ Execv(p) \/ ExecvFails(p) \/ CommandEnds(p)
    \/ Waitpid(p) \/ WaitpidFails(p)

Spec == Init /\ [][Next]_vars

-----------------------------------------------------------------------------
(* Properties. *)

(* TRUE from do_exec or do_exec_redirect means that the command of this    *)
(* very call ran and ended with 0, although interrupted calls have left    *)
(* other children behind; or that its child had failed in dup2 and gone on *)
(* in the program until that ended with 0.                                 *)
TrueMeansRan ==
  answer.call \in {"do_exec", "do_exec_redirect"} /\ answer.value =>
    /\ answer.child.at = "zombie" /\ answer.child.ok
    /\ answer.child.ran \/ answer.child.stray

(* The program goes on in one process only, unless a dup2 has failed: no   *)
(* other child, whatever fails in it, returns to the caller.               *)
OneCaller ==
  \A p \in Pids \ {First} :
    proc[p].at \in {"caller", "waiting"} => proc[p].stray

(* What the program prints comes out once and never in an output file,     *)
(* however often the buffer is copied; only do_exec, which does not flush, *)
(* lets a child whose execv fails write it as well.                        *)
TextOnce ==
  /\ misplaced = {}
  /\ \A t \in Texts : written[t] > 1 => t \in excused
=============================================================================
