------------------------------ MODULE CodeRun ------------------------------
(***************************************************************************)
(* One run of run_code: the program in the worker process (code_worker),    *)
(* the frames it exchanges with the parent (code_runtime), the scheduler    *)
(* that executes closures of its nodes in a pool of threads                 *)
(* (code_scheduler) and the record of the run (code_mode), with the wall    *)
(* deadline, Ctrl-C and a crash at any point.                               *)
(*                                                                          *)
(* A node is its ordinal.  The host takes nodes in ordinal order; its       *)
(* durable appends are single steps, except that nodes closed together with *)
(* one status are closed in one step.                                       *)
(***************************************************************************)
EXTENDS CodeDag, Integers, FiniteSetsExt

CONSTANTS Settings,     \* pairs of max_nodes (the worker's max_tool_nodes) and max_parallel
          Target,       \* the file each node writes, or NoFile
          NoFile,
          MaxMade,      \* bound: nodes the program creates
          MaxAfter,     \* bound: calls of node.after(...)
          MaxInterrupts \* bound: how often Ctrl-C is pressed

ASSUME RunConfig == /\ Settings \subseteq (Nat \ {0}) \X (Nat \ {0})
                    /\ MaxMade \in Nat \ {0} /\ Node = 1 .. MaxMade
                    /\ DOMAIN Target = Node
                    /\ MaxAfter \in Nat /\ MaxInterrupts \in Nat

VARIABLES limit, cap, \* max_nodes and max_parallel of this run
          wk,        \* the worker process
          made,      \* nodes its program created
          after,     \* their dependencies, as the worker has them
          told,      \* the outcome the worker holds for each node
          frame,     \* the frame on its way to the parent
          sent, asked, \* nodes and targets of the execute_graph frame in hand
          reply,     \* the graph_result on its way to the worker
          pc,        \* where the main thread is
          relevant,  \* the closure of the targets
          scan, progress, \* one pass of _execute_closure: nodes to look at
          queue,     \* ready nodes to prepare
          staged,    \* prepared nodes that belong to a later wave
          rest,      \* nodes of the wave that are not dispatched yet
          hand,      \* the node between tool_started and its dispatch
          flight,    \* nodes whose future is in in_flight
          settled,   \* those that wait() returned as done
          body,      \* what the thread of each node does
          late,      \* the deadline of the run has passed
          expired, cancel, \* deadline_expired, cancellation_event
          verdict,   \* how the runtime ended
          run,       \* status of the code run in the rollout
          belated,   \* bodies dispatched after the cancellation
          afters, interrupts

worker == <<limit, cap, wk, made, after, told, afters>>
pipe   == <<frame, sent, asked, reply>>
pass   == <<relevant, scan, progress>>
pool   == <<queue, staged, rest, hand, flight, settled, body, belated>>
clock  == <<late, expired, cancel>>
result == <<verdict, run>>
vars == <<dag, worker, pipe, pc, pass, pool, clock, result, interrupts>>

NoReply == [n \in Node |-> "none"]
Results == {"succeeded", "failed"}
Stages == {"top", "recv", "plan", "loop", "scan", "prepare", "wave", "fill",
           "launch", "submit", "await", "commit", "drain", "respond", "reject",
           "finish", "refused", "stuck", "abort", "abandon", "closed"}

RunTypeOK ==
  /\ DagTypeOK
  /\ <<limit, cap>> \in Settings
  /\ wk \in {"program", "waiting", "ended", "dead"}
  /\ made \in 0 .. MaxMade /\ afters \in 0 .. MaxAfter
  /\ after \in [Node -> SUBSET Node]
  /\ told \in [Node -> {"none", "ok", "error", "rejected"}]
  /\ frame \in {"none", "graph", "value", "error"}
  /\ reply \in [Node -> {"none", "ok", "error", "rejected"}]
  /\ pc \in Stages /\ progress \in BOOLEAN /\ hand \in Node \union {0}
  /\ {sent, asked, relevant, scan, queue, staged, rest, flight, settled} \subseteq SUBSET Node
  /\ body \in [Node -> Results \union {"idle", "running", "lost"}]
  /\ {late, expired, cancel} \subseteq BOOLEAN
  /\ verdict \in {"none", "value", "error", "timeout", "exit", "protocol",
                  "interrupted", "exception"}
  /\ run \in {"active", "succeeded", "failed", "interrupted"}
  /\ belated \in Nat /\ interrupts \in 0 .. MaxInterrupts

RunInit ==
  /\ DagInit
  /\ \E s \in Settings : limit = s[1] /\ cap = s[2]
  /\ wk = "program" /\ made = 0 /\ afters = 0
  /\ after = [n \in Node |-> {}]
  /\ told = [n \in Node |-> "none"]
  /\ frame = "none" /\ sent = {} /\ asked = {} /\ reply = NoReply
  /\ pc = "top" /\ relevant = {} /\ scan = {} /\ progress = FALSE
  /\ queue = {} /\ staged = {} /\ rest = {} /\ hand = 0
  /\ flight = {} /\ settled = {} /\ body = [n \in Node |-> "idle"]
  /\ late = FALSE /\ expired = FALSE /\ cancel = FALSE
  /\ verdict = "none" /\ run = "active"
  /\ belated = 0 /\ interrupts = 0

(* What is reached from ns along edges without entering stop: what is in     *)
(* every set that is closed under that.                                      *)
ClosedUnder(ns, from, edges, stop) ==
  from \ stop \subseteq ns /\ \A m \in ns : edges[m] \ stop \subseteq ns
Reach(from, edges, stop) ==
  {n \in Node : \A ns \in SUBSET Node : ClosedUnder(ns, from, edges, stop) => n \in ns}

-----------------------------------------------------------------------------
(* The program in the worker. *)

Made == 1 .. made
Submitted == {n \in Made : told[n] # "none"}

CreateNode(ds) ==
  /\ wk = "program" /\ made <= limit /\ made < MaxMade /\ ds \subseteq Made
  /\ made' = made + 1
  /\ after' = [after EXCEPT ![made + 1] = ds]
  /\ UNCHANGED <<dag, limit, cap, wk, told, afters, pipe, pc, pass, pool, clock, result, interrupts>>

After(n, d) ==
  /\ wk = "program" /\ afters < MaxAfter
  /\ n \in Made \ Submitted /\ d \in Made \ ({n} \union after[n])
  /\ after' = [after EXCEPT ![n] = @ \union {d}]
  /\ afters' = afters + 1
  /\ UNCHANGED <<dag, limit, cap, wk, told, made, pipe, pc, pass, pool, clock, result, interrupts>>

Cyclic(ns) == \E c \in SUBSET ns : c # {} /\ \A n \in c : after[n] \cap c # {}

(* Bug: the frame repeats what was submitted before. *)
ExecuteAgain(ts) ==
  LET pending == Reach(ts, after, {}) IN
  /\ wk = "program" /\ pending # {} /\ ~Cyclic(pending)
  /\ wk' = "waiting" /\ frame' = "graph" /\ sent' = pending /\ asked' = ts
  /\ UNCHANGED <<dag, limit, cap, made, after, told, afters, reply, pc, pass, pool, clock, result, interrupts>>

(* await, gather, execute: the part of the closure that is not submitted.    *)
Execute(ts) ==
  LET pending == Reach(ts, after, Submitted) IN
  /\ wk = "program" /\ pending # {} /\ ~Cyclic(pending)
  /\ wk' = "waiting" /\ frame' = "graph" /\ sent' = pending /\ asked' = ts
  /\ UNCHANGED <<dag, limit, cap, made, after, told, afters, reply, pc, pass, pool, clock, result, interrupts>>

(* An outcome that is an error is raised; the program may catch it, or end.  *)
TakeReply ==
  /\ wk = "waiting" /\ reply # NoReply
  /\ told' = [n \in Node |-> IF n \in sent THEN reply[n] ELSE told[n]]
  /\ reply' = NoReply /\ sent' = {} /\ asked' = {} /\ wk' = "program"
  /\ UNCHANGED <<dag, limit, cap, made, after, afters, frame, pc, pass, pool, clock, result, interrupts>>

(* Every exception of the program is a done frame with an error: budgets, a  *)
(* cycle, a node over the limit, an outcome nobody caught.                   *)
EndProgram(how) ==
  /\ wk = "program" /\ how \in {"value", "error"}
  /\ how = "value" => ~(made > limit /\ Submitted # Made)
  /\ wk' = "ended" /\ frame' = how
  /\ UNCHANGED <<dag, limit, cap, made, after, told, afters, sent, asked, reply, pc, pass, pool, clock, result, interrupts>>

(* The limits of CPU and memory, or a kill; one that comes while the worker  *)
(* waits is an answer that cannot be written (Answer).                       *)
WorkerDies ==
  /\ wk = "program" /\ wk' = "dead"
  /\ UNCHANGED <<dag, limit, cap, made, after, told, afters, pipe, pc, pass, pool, clock, result, interrupts>>

Worker ==
  \/ \E ds \in SUBSET Made : CreateNode(ds)
  \/ \E n, d \in Made : After(n, d)
  \/ \E ts \in SUBSET Made \ {{}} : Execute(ts)
  \/ TakeReply
  \/ \E how \in {"value", "error"} : EndProgram(how)
  \/ WorkerDies

-----------------------------------------------------------------------------
(* CodeRuntime.run: the parent reads frames until the run has a result. *)

Go(next) == pc' = next

(* On the way out the locals are gone and the worker is stopped.             *)
Unwind(next, how) ==
  /\ pc' = next /\ verdict' = how /\ wk' = "dead"
  /\ frame' = "none" /\ sent' = {} /\ asked' = {} /\ reply' = NoReply
  /\ relevant' = {} /\ scan' = {} /\ progress' = FALSE
  /\ queue' = {} /\ staged' = {} /\ rest' = {} /\ hand' = 0
  /\ flight' = {} /\ settled' = {}
  /\ UNCHANGED <<limit, cap, made, after, told, afters, run>>
Leave(how) == Unwind("finish", how) /\ UNCHANGED <<dag, body, belated, clock, interrupts>>

Top ==
  /\ pc = "top"
  /\ \/ late /\ Leave("timeout")
     \/ /\ ~late /\ Go("recv")
        /\ UNCHANGED <<dag, worker, pipe, pass, pool, clock, result, interrupts>>

(* Bug: the parent waits for a frame without a timeout. *)
ReceiveForEver == pc = "recv" /\ frame = "none" /\ wk = "dead" /\ Leave("exit")

ReceiveNothing ==
  /\ pc = "recv"
  /\ \/ late /\ Leave("timeout")
     \/ frame = "none" /\ wk = "dead" /\ Leave("exit")

ReceiveDone == pc = "recv" /\ frame \in {"value", "error"} /\ Leave(frame)

(* execute_graph refuses the whole frame before it plans any of it. *)
Acceptable ==
  /\ Cardinality(Known) + Cardinality(sent) <= limit
  /\ sent \cap Known = {}
  /\ \A n \in sent : after[n] \subseteq Known \union sent
  /\ asked \subseteq Known \union sent

ReceiveGraph ==
  /\ pc = "recv" /\ frame = "graph"
  /\ frame' = "none"
  /\ Go(IF Acceptable THEN "plan" ELSE "reject")
  /\ UNCHANGED <<dag, worker, sent, asked, reply, pass, pool, clock, result, interrupts>>

Told(n) == IF status[n] = "succeeded" THEN "ok" ELSE "error"

(* The answer is written unless the deadline struck meanwhile; it may be too *)
(* large for a frame, and nobody may be left to read it.                     *)
Answer(from, outcome) ==
  /\ pc = from
  /\ \/ Leave(IF expired THEN "timeout" ELSE "protocol")
     \/ /\ ~expired /\ reply' = outcome /\ Go("top") /\ relevant' = {}
        /\ UNCHANGED <<dag, worker, frame, sent, asked, scan, progress, pool, clock, result, interrupts>>

Respond == Answer("respond", [n \in Node |-> IF n \in relevant THEN Told(n) ELSE "none"])
Reject == Answer("reject", [n \in Node |-> IF n \in sent THEN "rejected" ELSE "none"])

-----------------------------------------------------------------------------
(* CodeDagScheduler: plan the frame, then execute the closure of its targets. *)

Plan(n) ==
  /\ pc = "plan" /\ n \in sent /\ PlanNode(n, after[n])
  /\ UNCHANGED <<worker, pipe, pc, pass, pool, clock, result, interrupts>>

Planned == {n \in relevant : status[n] = "planned"}

AllPlanned ==
  /\ pc = "plan" /\ sent \subseteq Known
  /\ relevant' = Reach(asked, needs, {})
  /\ Go("loop")
  /\ UNCHANGED <<dag, worker, pipe, scan, progress, pool, clock, result, interrupts>>

Loop ==
  /\ pc = "loop"
  /\ \/ Planned = {} /\ Go("respond") /\ UNCHANGED pass
     \/ /\ Planned # {} /\ Go("scan")
        /\ scan' = Planned /\ progress' = FALSE /\ UNCHANGED relevant
  /\ UNCHANGED <<dag, worker, pipe, pool, clock, result, interrupts>>

(* Bug: a node is blocked only when all of its dependencies failed. *)
ScanForAll ==
  /\ pc = "scan" /\ scan # {}
  /\ LET n == Min(scan) IN
     /\ scan' = scan \ {n}
     /\ IF Blockers(n) # {} /\ Blockers(n) = needs[n]
          THEN BlockNode(n) /\ progress' = TRUE
          ELSE UNCHANGED <<dag, progress>>
  /\ UNCHANGED <<worker, pipe, pc, relevant, pool, clock, result, interrupts>>

Scan ==
  /\ pc = "scan" /\ scan # {}
  /\ LET n == Min(scan) IN
     /\ scan' = scan \ {n}
     /\ IF Blockers(n) # {} THEN BlockNode(n) /\ progress' = TRUE
                            ELSE UNCHANGED <<dag, progress>>
  /\ UNCHANGED <<worker, pipe, pc, relevant, pool, clock, result, interrupts>>

(* Bug: every node that is still planned is taken for ready. *)
ReadyPlanned == Planned

ReadyNodes == {n \in Planned : Ready(n)}

Scanned ==
  /\ pc = "scan" /\ scan = {}
  /\ \/ cancel /\ Drop(Planned) /\ Go("respond") /\ UNCHANGED queue
     \/ ~cancel /\ ReadyNodes # {} /\ queue' = ReadyNodes /\ Go("prepare") /\ UNCHANGED dag
     \/ /\ ~cancel /\ ReadyNodes = {} /\ UNCHANGED <<dag, queue>>
        /\ Go(IF progress THEN "loop" ELSE "stuck")
  /\ progress' = FALSE
  /\ UNCHANGED <<worker, pipe, relevant, scan, staged, rest, hand, flight, settled, body, belated, clock, result, interrupts>>

(* prepare_staged: refused, or ready to start with its approval.             *)
Prepare ==
  /\ pc = "prepare" /\ queue # {}
  /\ LET n == Min(queue) IN
     /\ queue' = queue \ {n}
     /\ \/ cancel /\ Drop({n}) /\ UNCHANGED staged
        \/ ~cancel /\ Put(n, "refused") /\ UNCHANGED staged
        \/ ~cancel /\ staged' = staged \union {n} /\ UNCHANGED dag
  /\ UNCHANGED <<worker, pipe, pc, pass, rest, hand, flight, settled, body, belated, clock, result, interrupts>>

Prepared ==
  /\ pc = "prepare" /\ queue = {}
  /\ Go("wave")
  /\ UNCHANGED <<dag, worker, pipe, pass, pool, clock, result, interrupts>>

(* Bug: the paths of a wave are not compared. *)
WaveOfAll == staged

(* At most one change of each file. *)
NextWave == {n \in staged : \A m \in staged : Target[m] = Target[n] /\ m < n => Target[n] = NoFile}

Wave ==
  /\ pc = "wave"
  /\ \/ staged = {} /\ Go("loop") /\ UNCHANGED <<dag, staged, rest>>
     \/ staged # {} /\ cancel /\ Drop(staged) /\ staged' = {} /\ Go("wave") /\ UNCHANGED rest
     \/ /\ staged # {} /\ ~cancel
        /\ rest' = NextWave /\ staged' = staged \ NextWave /\ Go("fill") /\ UNCHANGED dag
  /\ UNCHANGED <<worker, pipe, pass, queue, hand, flight, settled, body, belated, clock, result, interrupts>>

-----------------------------------------------------------------------------
(* _execute_staged_wave: tool_started, dispatch, wait, commit. *)

Room == rest # {} /\ Cardinality(flight) < cap

Fill ==
  /\ pc = "fill"
  /\ \/ rest = {} /\ flight = {} /\ Go("wave") /\ UNCHANGED <<dag, rest, hand>>
     \/ /\ Room /\ hand' = Min(rest) /\ rest' = rest \ {hand'}
        /\ Put(hand', "started") /\ Go("launch")
     \/ ~Room /\ flight # {} /\ Go("await") /\ UNCHANGED <<dag, rest, hand>>
  /\ UNCHANGED <<worker, pipe, pass, queue, staged, flight, settled, body, belated, clock, result, interrupts>>

(* Bug: the cancellation is not looked at again after tool_started. *)
LaunchBlindly ==
  /\ pc = "launch" /\ Go("submit")
  /\ UNCHANGED <<dag, hand, worker, pipe, pass, queue, staged, rest, flight, settled, body, belated, clock, result, interrupts>>

Launch ==
  /\ pc = "launch"
  /\ \/ cancel /\ Put(hand, "cancelled") /\ hand' = 0 /\ Go("await")
     \/ ~cancel /\ Go("submit") /\ UNCHANGED <<dag, hand>>
  /\ UNCHANGED <<worker, pipe, pass, queue, staged, rest, flight, settled, body, belated, clock, result, interrupts>>

Submit ==
  /\ pc = "submit"
  /\ body' = [body EXCEPT ![hand] = "running"]
  /\ flight' = flight \union {hand} /\ hand' = 0
  /\ belated' = IF cancel THEN belated + 1 ELSE belated
  /\ Go("fill")
  /\ UNCHANGED <<dag, worker, pipe, pass, queue, staged, rest, settled, clock, result, interrupts>>

BodyEndsAs(n, how) ==
  /\ body[n] = "running" /\ body' = [body EXCEPT ![n] = how]
  /\ UNCHANGED <<dag, worker, pipe, pc, pass, queue, staged, rest, hand, flight, settled, belated, clock, result, interrupts>>

BodyEnd(n) == \E how \in Results : BodyEndsAs(n, how)

Done == {n \in flight : body[n] \in Results}
Running == {n \in Node : body[n] = "running"}

(* With nothing in flight the wave is broken off; a wait that times out goes *)
(* back to fill, which after a cancellation starts and cancels one more.     *)
Await ==
  /\ pc = "await"
  /\ \/ flight = {} /\ Drop(rest) /\ rest' = {} /\ Go("wave") /\ UNCHANGED settled
     \/ Done # {} /\ settled' = Done /\ Go("commit") /\ UNCHANGED <<dag, rest>>
     \/ flight # {} /\ Done = {} /\ Room /\ Go("fill") /\ UNCHANGED <<dag, rest, settled>>
  /\ UNCHANGED <<worker, pipe, pass, queue, staged, hand, flight, body, belated, clock, result, interrupts>>

Commit(n) ==
  /\ pc = "commit" /\ n \in settled
  /\ Put(n, body[n])
  /\ settled' = settled \ {n} /\ flight' = flight \ {n}
  /\ Go(IF settled' = {} THEN "fill" ELSE "commit")
  /\ UNCHANGED <<worker, pipe, pass, queue, staged, rest, hand, body, belated, clock, result, interrupts>>

-----------------------------------------------------------------------------
(* The end of the run: code_mode records it. *)

Settled == \A n \in Known : status[n] \in Terminal

RunVerdict == IF verdict = "value" /\ \A n \in Known : status[n] = "succeeded"
              THEN "succeeded" ELSE "failed"

(* The reducer refuses code_run_finished while a node is open. *)
Finish ==
  /\ pc = "finish"
  /\ \/ Settled /\ run' = RunVerdict /\ Go("closed")
     \/ ~Settled /\ Go("refused") /\ UNCHANGED run
  /\ UNCHANGED <<dag, worker, pipe, pass, pool, clock, verdict, interrupts>>

(* The handlers of the run, after the pool has waited for its threads; also  *)
(* the recovery of a process that died.                                      *)
Abort ==
  /\ pc = "abandon" \/ (pc = "abort" /\ Running = {})
  /\ Drop(WithStatus("planned") \union WithStatus("started"))
  /\ cancel' = TRUE /\ Go("closed")
  /\ run' = IF verdict = "interrupted" THEN "interrupted" ELSE "failed"
  /\ UNCHANGED <<worker, pipe, pass, pool, late, expired, verdict, interrupts>>

-----------------------------------------------------------------------------
(* Time, Ctrl-C and crashes. *)

Expire ==
  /\ pc \notin {"finish", "abandon", "closed"}
  /\ \/ ~late /\ late' = TRUE /\ UNCHANGED <<expired, cancel>>
     \/ late /\ ~expired /\ expired' = TRUE /\ cancel' = TRUE /\ UNCHANGED late
  /\ UNCHANGED <<dag, worker, pipe, pc, pass, pool, result, interrupts>>

Pressed == interrupts < MaxInterrupts /\ interrupts' = interrupts + 1
Interrupted(next) == Unwind(next, "interrupted") /\ UNCHANGED <<belated, clock>>

(* Ctrl-C while wait() blocks: cancel, wait for all in flight and commit.    *)
InterruptWait ==
  /\ pc = "await" /\ flight # {} /\ Pressed
  /\ cancel' = TRUE /\ Go("drain")
  /\ UNCHANGED <<dag, worker, pipe, pass, pool, late, expired, result>>

Drain ==
  /\ pc = "drain" /\ Running = {}
  /\ \/ flight = {} /\ Interrupted("abort") /\ UNCHANGED dag
     \/ \E n \in flight :
          /\ Put(n, body[n]) /\ flight' = flight \ {n}
          /\ UNCHANGED <<worker, pipe, pc, pass, queue, staged, rest, hand, settled, belated, clock, result>>
  /\ UNCHANGED <<body, interrupts>>

(* Ctrl-C in the approval of a node: the call is closed as cancelled.        *)
InterruptApproval ==
  /\ pc = "prepare" /\ queue # {} /\ Pressed
  /\ Put(Min(queue), "refused") /\ Interrupted("abort")
  /\ UNCHANGED body

(* Anywhere else inside runtime.run; the pool still waits for its threads,   *)
(* unless it is interrupted in that, too.                                    *)
Interrupt ==
  /\ pc \notin {"finish", "abandon", "closed"} /\ ~(pc = "await" /\ flight # {})
  /\ Pressed /\ Interrupted(IF pc = "abort" THEN "abandon" ELSE "abort")
  /\ UNCHANGED <<dag, body>>

(* The process dies, or Ctrl-C comes after the runtime returned, where no    *)
(* handler closes the run: the next process recovers it.                     *)
Crash ==
  /\ pc \notin {"abandon", "closed"}
  /\ body' = [n \in Node |-> IF body[n] = "running" THEN "lost" ELSE body[n]]
  /\ Unwind("abandon", "exception")
  /\ UNCHANGED <<dag, belated, clock, interrupts>>

Host ==
  \/ Top \/ ReceiveNothing \/ ReceiveDone \/ ReceiveGraph \/ Respond \/ Reject
  \/ (\E n \in Node : Plan(n)) \/ AllPlanned \/ Loop \/ Scan \/ Scanned
  \/ Prepare \/ Prepared \/ Wave \/ Fill \/ Launch \/ Submit \/ Await
  \/ (\E n \in Node : Commit(n)) \/ Drain \/ Finish \/ Abort

RunNext ==
  \/ Worker \/ Host \/ (\E n \in Node : BodyEnd(n)) \/ Expire
  \/ InterruptWait \/ InterruptApproval \/ Interrupt \/ Crash

RunSpec == RunInit /\ [][RunNext]_vars

(* The main thread goes on, tools return (each has a timeout of its own), and *)
(* time passes.  Nothing is assumed of the program in the worker.            *)
FairRun == /\ RunSpec /\ WF_vars(Host) /\ WF_vars(Expire)
           /\ \A n \in Node : WF_vars(BodyEnd(n))

-----------------------------------------------------------------------------
(* The run keeps the promise of CodeDag: order, ends and root failures of    *)
(* nodes over any number of frames, cancellations, aborts and recoveries.    *)
KeepsTheDag == DagSpec

(* The worker never holds an outcome the rollout contradicts: what it was    *)
(* told succeeded did, what it was told was rejected was never planned nor   *)
(* executed by a later frame.  (_GraphClient.execute, execute_graph.)        *)
WorkerKnowsTheTruth ==
  \A n \in Node : /\ told[n] = "ok" => status[n] = "succeeded"
                  /\ told[n] = "error" => status[n] \in Failures
                  /\ told[n] = "rejected" => status[n] = "none"

(* What is recorded of a node is what its thread did: an end that says it    *)
(* was not executed is never given to one that was dispatched, and a thread  *)
(* that outlives the run is recorded as unknown.  (code_mode.py:145-176.)    *)
RecordIsTrue ==
  \A n \in Node :
     /\ status[n] \in Results => body[n] = status[n]
     /\ status[n] \notin Results \union {"started", "outcome_unknown"} => body[n] = "idle"
     /\ pc = "closed" /\ body[n] = "running" => status[n] = "outcome_unknown"

(* Never more bodies at once than the cap, nor two that change one file, also *)
(* after a cancellation or an abort.  (_next_execution_wave.)                *)
FlightIsBounded ==
  /\ Cardinality(Running) <= cap
  /\ \A m, n \in Running : m # n /\ Target[m] = Target[n] => Target[n] = NoFile

(* After the deadline or Ctrl-C cancelled the run, at most the one body whose *)
(* dispatch was under way begins.  (code_scheduler.py:346-358.)              *)
OneDispatchAfterCancel == belated <= 1

(* A closed run has no open node, it counts as succeeded only when all of    *)
(* its nodes did; the record of its end is never refused, and the pass over  *)
(* the nodes never finds itself without progress.                            *)
ClosedIsSettled ==
  /\ pc \notin {"refused", "stuck"}
  /\ pc = "closed" => Settled
  /\ run = "succeeded" => \A n \in Known : status[n] = "succeeded"

(* Whatever the program does, the run ends.  (max_wall_seconds.)             *)
RunEnds == <>(pc = "closed")
=============================================================================
