------------------------------- MODULE Shell --------------------------------
(***************************************************************************)
(* One execution of PreparedShellCommand: a shell in a process group of its*)
(* own, two threads that drain its pipes, and a caller that waits for the  *)
(* shell, a deadline, a cancellation or Ctrl-C, and then kills, joins and  *)
(* reports.                                                                *)
(*                                                                         *)
(* The processes do what they like: start others, leave the group, write,  *)
(* close their output, ignore SIGTERM, end.  A SIGKILL is final but takes  *)
(* its time; killpg reaches the processes of the group one after another.  *)
(* A wait with a timeout may end without what it waited for, at any time.  *)
(***************************************************************************)
EXTENDS Naturals, FiniteSets

CONSTANTS Procs,        \* processes there may be
          sh,           \* the command interpreter, leader of the group
          Pipes,        \* stdout and stderr
          MaxInterrupts \* bound: Ctrl-C

ASSUME ShellConfig == sh \in Procs /\ MaxInterrupts \in Nat

VARIABLES born, alive,
          group,     \* processes that have not left the group
          doomed,    \* processes that were sent SIGKILL
          holds,     \* the pipes a process has open for writing
          code,      \* how the shell ended: "none", "ok", "bad"
          full,      \* pipes with bytes nobody has read
          drain,     \* "off", "on", "eof", "quit"
          halt,      \* drain_stop is set and the pipes are closed
          phase,     \* the block of execute: "spawn", "unwind", "try",
                     \* "handler", "finally", "cleanup", "over"
          pc,        \* where it is: "run", "join", or in _stop_process_group
                     \* "leader", "group", "term", "grace", "back"
          raising,   \* "no", "ctrl_c", "error"
          timed_out, interrupted,
          main,      \* called by the main thread, and not by Code Mode's pool
          interrupts,
          result
procs == <<born, alive, group, doomed, holds, code>>
pipes == <<full, drain, halt>>
flags == <<raising, timed_out, interrupted>>
world == <<main, interrupts>>
vars == <<procs, pipes, phase, pc, flags, world, result>>

Init ==
  /\ born = {sh} /\ alive = {sh} /\ group = {sh} /\ doomed = {}
  /\ holds = [p \in Procs |-> IF p = sh THEN Pipes ELSE {}]
  /\ code = "none" /\ full = {} /\ drain = [q \in Pipes |-> "off"] /\ halt = FALSE
  /\ phase = "spawn" /\ pc = "run"
  /\ raising = "no" /\ timed_out = FALSE /\ interrupted = FALSE
  /\ main \in BOOLEAN /\ interrupts = 0
  /\ result = "none"

-----------------------------------------------------------------------------
(* The processes, and the two threads. *)

(* A shell starts its next command when it likes, with its output or without *)
(* any; a process that was killed starts nothing any more.                   *)
Fork(p, k) ==
  /\ p \in alive \ doomed /\ k \notin born
  /\ born' = born \union {k} /\ alive' = alive \union {k}
  /\ group' = IF p \in group THEN group \union {k} ELSE group
  /\ \E fds \in {holds[p], {}} : holds' = [holds EXCEPT ![k] = fds]
  /\ UNCHANGED <<doomed, code, pipes, phase, pc, flags, world, result>>

(* setsid; the leader of a group cannot.                                     *)
Escape(p) ==
  /\ p \in (alive \intersect group) \ (doomed \union {sh})
  /\ group' = group \ {p}
  /\ UNCHANGED <<born, alive, doomed, holds, code, pipes, phase, pc, flags, world, result>>

Write(p, q) ==
  /\ p \in alive \ doomed /\ q \in holds[p] \ full
  /\ full' = full \union {q}
  /\ UNCHANGED <<procs, drain, halt, phase, pc, flags, world, result>>

Exit(p) ==
  /\ p \in alive
  /\ alive' = alive \ {p}
  /\ code' \in IF p # sh THEN {code} ELSE IF p \in doomed THEN {"bad"} ELSE {"ok", "bad"}
  /\ UNCHANGED <<born, group, doomed, holds, pipes, phase, pc, flags, world, result>>

Read(q) ==
  /\ drain[q] = "on" /\ q \in full /\ ~halt
  /\ full' = full \ {q}
  /\ UNCHANGED <<procs, drain, halt, phase, pc, flags, world, result>>

(* The end of the pipe, or the event that asks the thread to stop.           *)
ThreadEnds(q) ==
  /\ drain[q] = "on"
  /\ \/ /\ q \notin full /\ \A p \in alive : q \notin holds[p]
        /\ drain' = [drain EXCEPT ![q] = "eof"]
     \/ halt /\ drain' = [drain EXCEPT ![q] = "quit"]
  /\ UNCHANGED <<procs, full, halt, phase, pc, flags, world, result>>

-----------------------------------------------------------------------------
(* _stop_process_group *)

(* Bug: a group that is killed is signalled as one, its leader with it.      *)
KillGroupFirst ==
  /\ pc = "leader" /\ pc' = "group"
  /\ UNCHANGED <<procs, pipes, phase, flags, world, result>>

(* process.kill() and a bounded wait for it.                                 *)
KillLeader ==
  /\ pc = "leader" /\ pc' = "group"
  /\ doomed' = doomed \union (alive \intersect {sh})
  /\ UNCHANGED <<born, alive, group, holds, code, pipes, phase, flags, world, result>>

Members == alive \intersect group

(* Bug: the leader is killed, and nobody else. *)
KillLeaderOnly ==
  /\ pc = "group" /\ pc' = "back"
  /\ doomed' = doomed \union (alive \intersect {sh})
  /\ UNCHANGED <<born, alive, group, holds, code, pipes, phase, flags, world, result>>

(* killpg(SIGKILL) returns when every process of the group has the signal.   *)
KillGroup ==
  /\ pc = "group"
  /\ IF Members \subseteq doomed
     THEN pc' = "back" /\ UNCHANGED doomed
     ELSE (\E p \in Members \ doomed : doomed' = doomed \union {p}) /\ UNCHANGED pc
  /\ UNCHANGED <<born, alive, group, holds, code, pipes, phase, flags, world, result>>

(* SIGTERM, which a process may heed or not, and the grace period.           *)
Terminate ==
  /\ pc = "term" /\ pc' = "grace"
  /\ UNCHANGED <<procs, pipes, phase, flags, world, result>>

EndGrace ==
  /\ pc = "grace"
  /\ pc' = IF Members = {} THEN "back" ELSE "group"
  /\ UNCHANGED <<procs, pipes, phase, flags, world, result>>

Stop == KillLeader \/ KillGroup \/ Terminate \/ EndGrace

-----------------------------------------------------------------------------
(* PreparedShellCommand.execute *)

StartThread ==
  /\ phase = "spawn" /\ pc = "run"
  /\ \E q \in Pipes :
       /\ drain[q] = "off" /\ drain' = [drain EXCEPT ![q] = "on"]
       /\ phase' = IF \A r \in Pipes \ {q} : drain[r] # "off" THEN "try" ELSE "spawn"
  /\ UNCHANGED <<procs, full, halt, pc, flags, world, result>>

ThreadFails ==
  /\ phase = "spawn" /\ pc = "run"
  /\ raising' = "error" /\ phase' = "unwind" /\ pc' = "term"
  /\ UNCHANGED <<procs, pipes, timed_out, interrupted, world, result>>

Unwound ==
  /\ phase = "unwind" /\ pc = "back"
  /\ halt' = TRUE /\ phase' = "over" /\ pc' = "run" /\ result' = raising
  /\ UNCHANGED <<procs, full, drain, flags, world>>

(* The loop: the shell has ended, or is found late, or the cancellation of   *)
(* the code run is.                                                          *)
Poll ==
  /\ phase = "try" /\ pc = "run"
  /\ IF sh \notin alive
     THEN phase' = "finally" /\ UNCHANGED <<pc, timed_out, interrupted>>
     ELSE /\ pc' = "leader" /\ UNCHANGED phase
          /\ \/ timed_out' = TRUE /\ UNCHANGED interrupted
             \/ ~main /\ interrupted' = TRUE /\ UNCHANGED timed_out
  /\ UNCHANGED <<procs, pipes, raising, world, result>>

Stopped ==
  /\ phase \in {"try", "handler"} /\ pc = "back"
  /\ phase' = "finally" /\ pc' = "run"
  /\ UNCHANGED <<procs, pipes, flags, world, result>>

Finally ==
  /\ phase = "finally" /\ pc \in {"run", "back"}
  /\ pc' = IF pc = "run" /\ sh \in alive THEN "term" ELSE "join"
  /\ UNCHANGED <<procs, pipes, phase, flags, world, result>>

Drained == \A q \in Pipes : drain[q] \in {"eof", "quit"}

Status == IF interrupted THEN "interrupted" ELSE IF timed_out THEN "timed_out"
          ELSE IF code = "ok" THEN "succeeded" ELSE "failed"

Report ==
  /\ phase \in {"finally", "cleanup"} /\ pc = "join" /\ Drained
  /\ phase' = "over" /\ pc' = "run"
  /\ result' = IF raising = "no" THEN Status ELSE raising
  /\ UNCHANGED <<procs, pipes, flags, world>>

(* Bug: output that is held open does not make it a timeout. *)
GiveUpQuietly ==
  /\ phase = "finally" /\ pc = "join" /\ ~Drained
  /\ phase' = "cleanup" /\ pc' = "term"
  /\ UNCHANGED <<procs, pipes, flags, world, result>>

(* Bug: the threads are joined without a timeout. *)
JoinForEver == phase = "finally" /\ pc = "join" /\ Drained /\ UNCHANGED vars

(* The threads did not end in time: somebody holds the pipes.                *)
GiveUp ==
  /\ phase = "finally" /\ pc = "join" /\ ~Drained
  /\ timed_out' = TRUE /\ phase' = "cleanup" /\ pc' = "term"
  /\ UNCHANGED <<procs, pipes, raising, interrupted, world, result>>

CloseDrains ==
  /\ phase = "cleanup" /\ pc = "back"
  /\ halt' = TRUE /\ pc' = "join"
  /\ UNCHANGED <<procs, full, drain, phase, flags, world, result>>

DrainsStay ==
  /\ phase = "cleanup" /\ pc = "join" /\ ~Drained
  /\ phase' = "over" /\ pc' = "run" /\ result' = "error"
  /\ UNCHANGED <<procs, pipes, flags, world>>

(* KeyboardInterrupt: while the threads start it is raised after a cleanup;  *)
(* in the loop, or in a stop the loop asked for, it is handled; in the       *)
(* handler it is raised when finally is through; anywhere else at once.      *)
CtrlC ==
  /\ main /\ phase # "over" /\ interrupts < MaxInterrupts
  /\ interrupts' = interrupts + 1
  /\ \/ /\ phase = "spawn" /\ phase' = "unwind" /\ pc' = "term" /\ raising' = "ctrl_c"
        /\ UNCHANGED <<interrupted, result>>
     \/ /\ phase = "try" /\ phase' = "handler" /\ pc' = "leader" /\ interrupted' = TRUE
        /\ UNCHANGED <<raising, result>>
     \/ /\ phase = "handler" /\ phase' = "finally" /\ pc' = "run" /\ raising' = "ctrl_c"
        /\ UNCHANGED <<interrupted, result>>
     \/ /\ phase \in {"unwind", "finally", "cleanup"}
        /\ phase' = "over" /\ pc' = "run" /\ result' = "ctrl_c"
        /\ UNCHANGED <<raising, interrupted>>
  /\ UNCHANGED <<procs, pipes, timed_out, main>>

Execute ==
  \/ Stop \/ StartThread \/ ThreadFails \/ Unwound \/ Poll \/ Stopped \/ Finally
  \/ Report \/ GiveUp \/ CloseDrains \/ DrainsStay

Processes ==
  \/ \E p, k \in Procs : Fork(p, k)
  \/ \E p \in Procs : Escape(p) \/ Exit(p) \/ (\E q \in Pipes : Write(p, q))

Threads == \E q \in Pipes : Read(q) \/ ThreadEnds(q)

(* The model ends where execute does.                                        *)
Next ==
  /\ phase # "over"
  /\ Execute \/ Processes \/ Threads \/ CtrlC

(* The caller goes on, as time does; the processes and threads owe nothing.  *)
ShellSpec == Init /\ [][Next]_vars /\ WF_vars(Execute)

-----------------------------------------------------------------------------
(* A command that is reported as timed out or interrupted has no process     *)
(* left in its group that was not killed, whoever ignored SIGTERM or was     *)
(* started meanwhile.  (_stop_process_group.)                                *)
KillLeavesNobody ==
  result \in {"timed_out", "interrupted"} => Members \subseteq doomed

(* A command that is reported as succeeded or failed came to that end by     *)
(* itself, and its output is complete.  (drains_finished, timed_out.)        *)
StatusIsItsOwn ==
  result \in {"succeeded", "failed"} =>
    /\ doomed = {} /\ code = (IF result = "succeeded" THEN "ok" ELSE "bad")
    /\ \A q \in Pipes : drain[q] = "eof"

(* Once a command is being killed for its deadline or an interruption, its   *)
(* shell does not go on with the next one: it is killed before the child it  *)
(* waits for.  (process.kill before killpg.)                                 *)
NeverResumes ==
  [][(phase \in {"try", "handler"} /\ doomed # {}) => ~(\E k \in Procs : Fork(sh, k))]_vars

(* execute returns, whatever the processes do.  (Deadline, bounded waits.)   *)
Returns == phase # "over" ~> phase = "over"

(* "Ctrl-C cleans the whole process group": a call that is recorded as       *)
(* interrupted leaves nobody, however the interruption came.                 *)
CtrlCLeavesNobody ==
  result \in {"interrupted", "ctrl_c"} /\ raising # "error" => Members \subseteq doomed
=============================================================================
