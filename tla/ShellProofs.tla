----------------------------- MODULE ShellProofs -----------------------------
(***************************************************************************)
(* What one execution of a shell command promises, for any processes it     *)
(* starts and any number of pipes: a report of a kill is true, a report of  *)
(* an end of its own is true, and a shell that is being killed goes no      *)
(* further.  The three are not inductive; what carries them is that a group *)
(* in which everybody has the signal stays so (nobody left in it can start  *)
(* another process), and where execute may be with which flags.             *)
(***************************************************************************)
EXTENDS Shell, TLAPS

Typed ==
  /\ sh \in born /\ alive \subseteq born /\ group \subseteq born /\ born \subseteq Procs
  /\ drain \in [Pipes -> {"off", "on", "eof", "quit"}]
  /\ code \in {"none", "ok", "bad"} /\ (code = "none" <=> sh \in alive)
  /\ timed_out \in BOOLEAN /\ interrupted \in BOOLEAN
  /\ raising \in {"no", "ctrl_c", "error"}

Flagged == timed_out \/ interrupted
Everybody == Members \subseteq doomed

(* Where execute may be: a stop begins with the leader in the loop and its   *)
(* handler, and with SIGTERM elsewhere.                                      *)
Blocks ==
  /\ phase \in {"spawn", "unwind", "try", "handler", "finally", "cleanup", "over"}
  /\ pc \in {"run", "join", "leader", "group", "term", "grace", "back"}
  /\ phase = "spawn" => pc = "run" /\ doomed = {} /\ ~Flagged /\ raising = "no"
  /\ phase = "unwind" => raising # "no"
  /\ phase \in {"try", "handler"} => pc \in {"run", "leader", "group", "back"}
  /\ phase = "try" => raising = "no"
  /\ phase = "try" /\ pc = "run" => doomed = {} /\ ~Flagged
  /\ phase = "try" /\ pc # "run" => Flagged
  /\ phase = "handler" => interrupted /\ pc # "run"
  /\ phase = "cleanup" => timed_out
  /\ phase # "over" => result = "none"

(* Until the group is killed the program is still at it.                     *)
GroupIsKilled ==
  Flagged /\ raising = "no" =>
    \/ phase \in {"try", "handler"} /\ pc \in {"leader", "group"}
    \/ phase = "cleanup" /\ pc \in {"term", "grace", "group"}
    \/ phase = "over"
    \/ Everybody

(* A command nobody stopped has come to its end before it is reported, and   *)
(* its threads were not sent away.                                           *)
EndsByItself ==
  /\ phase = "finally" /\ ~Flagged /\ raising = "no" =>
        sh \notin alive /\ doomed = {} /\ pc \in {"run", "join"}
  /\ halt => phase \in {"cleanup", "over"}
  /\ \A q \in Pipes : drain[q] = "quit" => halt

(* Whoever kills in the loop or its handler kills the leader first.          *)
LeaderFirst ==
  phase \in {"try", "handler"} =>
    /\ pc \in {"group", "back"} => sh \notin alive \ doomed
    /\ doomed # {} => sh \notin alive \ doomed

ShellInv == /\ Typed /\ Blocks /\ GroupIsKilled /\ EndsByItself /\ LeaderFirst
            /\ KillLeavesNobody /\ StatusIsItsOwn

-----------------------------------------------------------------------------
(* The execution begins with a shell that lives and two threads to come.     *)
LEMMA InitInv == Init => ShellInv
<1> SUFFICES ASSUME Init PROVE ShellInv
  OBVIOUS
<1> USE ShellConfig DEF Init
<1>1. Typed BY DEF Typed
<1>2. Blocks BY DEF Blocks, Flagged
<1>3. GroupIsKilled BY DEF GroupIsKilled, Flagged
<1>4. EndsByItself BY DEF EndsByItself
<1>5. LeaderFirst BY DEF LeaderFirst
<1>6. KillLeavesNobody /\ StatusIsItsOwn BY DEF KillLeavesNobody, StatusIsItsOwn
<1> QED BY <1>1, <1>2, <1>3, <1>4, <1>5, <1>6 DEF ShellInv

(* What the processes and the threads do: nobody lives again, only a process *)
(* that was not killed starts another, and a thread that is sent away was.   *)
Outside ==
  /\ UNCHANGED <<doomed, halt, phase, pc, flags, result>>
  /\ Everybody => Members' \subseteq Members
  /\ sh \in alive' => sh \in alive
  /\ \A q \in Pipes : drain'[q] = drain[q] \/ (drain'[q] = "quit" => halt)

(* Every step of a process or of a thread is such a step. *)
LEMMA OutsideIs ==
  ASSUME Typed, Processes \/ Threads
  PROVE  Typed' /\ Outside
<1> USE DEF flags, procs, pipes, Members, Everybody
<1>1. ASSUME NEW p \in Procs, NEW k \in Procs, Fork(p, k) PROVE Typed' /\ Outside
  <2>1. Typed'
    BY <1>1 DEF Typed, Fork
  <2>2. UNCHANGED <<doomed, halt, phase, pc, flags, result, drain>>
    BY <1>1 DEF Fork
  <2>3. ASSUME NEW r \in Members', r \notin Members PROVE p \in Members \ doomed
    BY <1>1, <2>3 DEF Fork, Typed
  <2>4. sh \in alive' => sh \in alive
    BY <1>1 DEF Fork, Typed
  <2> QED BY <2>1, <2>2, <2>3, <2>4 DEF Outside
<1>2. ASSUME NEW p \in Procs, Escape(p) PROVE Typed' /\ Outside
  BY <1>2 DEF Escape, Typed, Outside
<1>3. ASSUME NEW p \in Procs, Exit(p) PROVE Typed' /\ Outside
  <2>1. Typed'
    BY <1>3 DEF Exit, Typed
  <2>2. Outside
    BY <1>3 DEF Exit, Outside
  <2> QED BY <2>1, <2>2
<1>4. ASSUME NEW p \in Procs, NEW q \in Pipes, Write(p, q) PROVE Typed' /\ Outside
  BY <1>4 DEF Write, Typed, Outside
<1>5. ASSUME NEW q \in Pipes, Read(q) PROVE Typed' /\ Outside
  BY <1>5 DEF Read, Typed, Outside
<1>6. ASSUME NEW q \in Pipes, ThreadEnds(q) PROVE Typed' /\ Outside
  <2>1. UNCHANGED <<doomed, halt, phase, pc, flags, result, born, alive, group, code>>
    BY <1>6 DEF ThreadEnds
  <2>2. drain' = [drain EXCEPT ![q] = "eof"] \/ (halt /\ drain' = [drain EXCEPT ![q] = "quit"])
    BY <1>6 DEF ThreadEnds
  <2>3. Typed'
    BY <2>1, <2>2 DEF Typed
  <2>4. Outside
    BY <2>1, <2>2 DEF Typed, Outside
  <2> QED BY <2>3, <2>4
<1> QED BY <1>1, <1>2, <1>3, <1>4, <1>5, <1>6 DEF Processes, Threads

(* A group in which everybody has the signal stays so. *)
LEMMA OutsideKeeps ==
  ASSUME ShellInv, Outside, Typed', phase # "over"
  PROVE  ShellInv'
<1> USE DEF ShellInv, flags
<1>1. Blocks'
  BY DEF Blocks, Outside, Flagged
<1>2. Everybody => Everybody'
  BY DEF Everybody, Outside
<1>3. GroupIsKilled'
  BY <1>2 DEF GroupIsKilled, Outside, Flagged
<1>4. EndsByItself'
  BY DEF EndsByItself, Outside, Flagged
<1>5. LeaderFirst'
  BY DEF LeaderFirst, Outside
<1>6. result' = "none"
  BY DEF Outside, Blocks
<1> QED BY <1>1, <1>3, <1>4, <1>5, <1>6 DEF KillLeavesNobody, StatusIsItsOwn

(* A signal reaches more processes, and a stop goes on or comes back when    *)
(* everybody has it.                                                         *)
LEMMA StopKeeps ==
  ASSUME ShellInv, Stop, phase # "over"
  PROVE  ShellInv'
<1> USE DEF ShellInv, flags, procs, pipes
<1>1. /\ UNCHANGED <<born, alive, group, holds, code, pipes, phase, flags, result>>
      /\ doomed \subseteq doomed'
      /\ pc' # pc => <<pc, pc'>> \in {<<"leader", "group">>, <<"group", "back">>, <<"term", "grace">>,
                                     <<"grace", "back">>, <<"grace", "group">>}
      /\ pc' = "back" => Everybody'
      /\ pc = "leader" => doomed' = doomed \union (alive \intersect {sh})
      /\ pc \in {"leader", "group", "term", "grace"}
      /\ pc \in {"term", "grace"} => doomed' = doomed
  BY DEF Stop, KillLeader, KillGroup, Terminate, EndGrace, Everybody, Members
<1>2. Typed'
  BY <1>1 DEF Typed
<1>3. Blocks'
  BY <1>1 DEF Blocks, Flagged
<1>4. Everybody => Everybody'
  BY <1>1 DEF Everybody, Members
<1>5. GroupIsKilled'
  BY <1>1, <1>4 DEF GroupIsKilled, Flagged, Blocks
<1>6. EndsByItself'
  BY <1>1 DEF EndsByItself, Flagged
<1>7. LeaderFirst'
  BY <1>1 DEF LeaderFirst, Blocks
<1>8. result' = "none"
  BY <1>1 DEF Blocks
<1> QED BY <1>2, <1>3, <1>5, <1>6, <1>7, <1>8 DEF KillLeavesNobody, StatusIsItsOwn

(* The steps of execute itself, between two stops. *)
LEMMA ExecuteKeeps ==
  ASSUME ShellInv, Execute, ~Stop, phase # "over"
  PROVE  ShellInv'
<1> USE DEF flags, procs, pipes
<1>0. Typed /\ Blocks /\ GroupIsKilled /\ EndsByItself /\ LeaderFirst /\ result = "none"
  BY DEF ShellInv, Blocks
<1>1. UNCHANGED <<born, alive, group, doomed, code>>
  BY DEF Execute, StartThread, ThreadFails, Unwound, Poll, Stopped, Finally, Report, GiveUp, CloseDrains, DrainsStay
<1>2. Everybody' <=> Everybody
  BY <1>1 DEF Everybody, Members
<1>3. Typed'
  <2>1. StartThread => Typed'
    BY <1>0, <1>1 DEF StartThread, Typed
  <2> QED
    BY <1>0, <1>1, <2>1
    DEF Execute, ThreadFails, Unwound, Poll, Stopped, Finally, Report, GiveUp, CloseDrains, DrainsStay, Typed
<1> USE DEF Blocks, Flagged
<1>4. CASE StartThread
  <2>1. PICK q \in Pipes : drain' = [drain EXCEPT ![q] = "on"]
    BY <1>4 DEF StartThread
  <2>2. \A r \in Pipes : drain'[r] = "quit" => drain[r] = "quit"
    BY <1>0, <2>1 DEF Typed
  <2>3. phase = "spawn" /\ phase' \in {"spawn", "try"} /\ UNCHANGED <<halt, pc, flags, result>>
    BY <1>4 DEF StartThread
  <2>4. Blocks' /\ GroupIsKilled' /\ EndsByItself' /\ LeaderFirst'
    BY <1>0, <1>1, <2>2, <2>3 DEF GroupIsKilled, EndsByItself, LeaderFirst
  <2> QED BY <1>0, <1>3, <2>3, <2>4 DEF ShellInv, KillLeavesNobody, StatusIsItsOwn
<1>5. CASE ThreadFails \/ Poll \/ Stopped \/ Finally \/ GiveUp \/ CloseDrains
  <2>1. Blocks'
    BY <1>0, <1>1, <1>5 DEF ThreadFails, Poll, Stopped, Finally, GiveUp, CloseDrains, Typed
  <2>2. GroupIsKilled'
    BY <1>0, <1>2, <1>5 DEF ThreadFails, Poll, Stopped, Finally, GiveUp, CloseDrains, GroupIsKilled
  <2>3. EndsByItself'
    BY <1>0, <1>1, <1>5 DEF ThreadFails, Poll, Stopped, Finally, GiveUp, CloseDrains, EndsByItself
  <2>4. LeaderFirst'
    BY <1>0, <1>1, <1>5 DEF ThreadFails, Poll, Stopped, Finally, GiveUp, CloseDrains, LeaderFirst
  <2>5. result' = "none"
    BY <1>0, <1>5 DEF ThreadFails, Poll, Stopped, Finally, GiveUp, CloseDrains
  <2> QED BY <1>3, <2>1, <2>2, <2>3, <2>4, <2>5 DEF ShellInv, KillLeavesNobody, StatusIsItsOwn
<1>6. CASE Unwound \/ DrainsStay
  <2>1. Blocks' /\ GroupIsKilled' /\ EndsByItself' /\ LeaderFirst'
    BY <1>0, <1>1, <1>6 DEF Unwound, DrainsStay, GroupIsKilled, EndsByItself, LeaderFirst
  <2>2. result' \in {"ctrl_c", "error"}
    BY <1>0, <1>6 DEF Unwound, DrainsStay, Typed
  <2> QED BY <1>3, <2>1, <2>2 DEF ShellInv, KillLeavesNobody, StatusIsItsOwn
<1>7. CASE Report
  <2>1. /\ phase' = "over" /\ phase \in {"finally", "cleanup"} /\ pc = "join" /\ pc' = "run" /\ Drained
        /\ result' = (IF raising = "no" THEN Status ELSE raising)
        /\ UNCHANGED <<drain, halt, flags>>
    BY <1>7 DEF Report
  <2>2. Blocks' /\ GroupIsKilled' /\ EndsByItself' /\ LeaderFirst'
    BY <1>0, <1>1, <2>1 DEF GroupIsKilled, EndsByItself, LeaderFirst
  <2>3. Flagged /\ raising = "no" => Everybody
    BY <1>0, <2>1 DEF GroupIsKilled
  <2>4. result' \in {"timed_out", "interrupted"} => Flagged /\ raising = "no"
    BY <1>0, <2>1 DEF Status, Typed
  <2>5. result' \in {"succeeded", "failed"} =>
          ~Flagged /\ raising = "no" /\ (code = "ok" <=> result' = "succeeded")
    BY <1>0, <2>1 DEF Status, Typed
  <2>6. KillLeavesNobody'
    BY <1>2, <2>3, <2>4 DEF KillLeavesNobody, Everybody
  <2>7. StatusIsItsOwn'
    <3> SUFFICES ASSUME result' \in {"succeeded", "failed"}
                 PROVE  /\ doomed' = {} /\ code' = (IF result' = "succeeded" THEN "ok" ELSE "bad")
                        /\ \A q \in Pipes : drain'[q] = "eof"
      BY DEF StatusIsItsOwn
    <3>1. phase = "finally" /\ doomed = {} /\ sh \notin alive /\ ~halt
      BY <1>0, <2>1, <2>5 DEF EndsByItself
    <3>2. code \in {"ok", "bad"}
      BY <1>0, <3>1 DEF Typed
    <3>3. \A q \in Pipes : drain[q] = "eof"
      BY <1>0, <2>1, <3>1 DEF EndsByItself, Drained
    <3> QED BY <1>1, <2>1, <2>5, <3>1, <3>2, <3>3
  <2> QED BY <1>3, <2>2, <2>6, <2>7 DEF ShellInv
<1> QED BY <1>4, <1>5, <1>6, <1>7 DEF Execute

(* Ctrl-C, wherever it comes: it asks for a stop or ends the execution by an *)
(* exception. *)
LEMMA CtrlCKeeps ==
  ASSUME ShellInv, CtrlC
  PROVE  ShellInv'
<1> USE DEF flags, procs, pipes
<1>0. Typed /\ Blocks /\ GroupIsKilled /\ EndsByItself /\ LeaderFirst /\ result = "none"
  BY DEF ShellInv, Blocks, CtrlC
<1>1. UNCHANGED <<born, alive, group, doomed, code, drain, halt>>
  BY DEF CtrlC
<1>2. Typed'
  BY <1>0, <1>1 DEF CtrlC, Typed
<1>3. Everybody' <=> Everybody
  BY <1>1 DEF Everybody, Members
<1> USE DEF Blocks, Flagged
<1>4. Blocks'
  BY <1>0, <1>1 DEF CtrlC, Typed
<1>5. GroupIsKilled' /\ EndsByItself' /\ LeaderFirst'
  BY <1>0, <1>1, <1>3 DEF CtrlC, GroupIsKilled, EndsByItself, LeaderFirst
<1>6. result' \in {"none", "ctrl_c"}
  BY <1>0 DEF CtrlC
<1> QED BY <1>2, <1>4, <1>5, <1>6 DEF ShellInv, KillLeavesNobody, StatusIsItsOwn

(* Every step keeps the invariant. *)
LEMMA NextInv == ShellInv /\ [Next]_vars => ShellInv'
<1> SUFFICES ASSUME ShellInv, [Next]_vars PROVE ShellInv'
  OBVIOUS
<1>1. CASE UNCHANGED vars
  BY <1>1 DEF ShellInv, vars, flags, procs, pipes, Typed, Blocks, GroupIsKilled, EndsByItself, LeaderFirst,
              KillLeavesNobody, StatusIsItsOwn, Flagged, Everybody, Members
<1>2. CASE Next
  <2>1. phase # "over" /\ (Execute \/ Processes \/ Threads \/ CtrlC)
    BY <1>2 DEF Next
  <2>2. CASE Processes \/ Threads
    BY <2>1, <2>2, OutsideIs, OutsideKeeps DEF ShellInv
  <2> QED BY <2>1, <2>2, StopKeeps, ExecuteKeeps, CtrlCKeeps
<1> QED BY <1>1, <1>2

(* Where every execution is, and what it has done to its group. *)
THEOREM ShellInvariance == ShellSpec => []ShellInv
  BY InitInv, NextInv, PTL DEF ShellSpec

(* A command reported as timed out or interrupted leaves nobody in its group *)
(* who was not killed, for any processes that fork, leave the group or       *)
(* ignore SIGTERM while it is stopped (_stop_process_group).                 *)
THEOREM KilledGroupsAreGone == ShellSpec => []KillLeavesNobody
  BY ShellInvariance, PTL DEF ShellInv

(* A command reported as succeeded or failed was killed by nobody, ended with*)
(* that code, and its output is complete (drains_finished, timed_out).       *)
THEOREM EndsAreItsOwn == ShellSpec => []StatusIsItsOwn
  BY ShellInvariance, PTL DEF ShellInv

(* A shell that is being killed never starts the next command, for it is     *)
(* killed before the child it waits for (process.kill before killpg).        *)
THEOREM KilledShellsStop == ShellSpec => NeverResumes
<1> DEFINE Resumes == (phase \in {"try", "handler"} /\ doomed # {}) => ~(\E k \in Procs : Fork(sh, k))
<1>1. ShellInv => Resumes
  BY DEF ShellInv, LeaderFirst, Fork
<1>2. ShellInv /\ [Next]_vars => [Resumes]_vars
  BY <1>1
<1> QED BY <1>2, ShellInvariance, PTL DEF ShellSpec, NeverResumes
=============================================================================
