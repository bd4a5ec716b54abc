------------------------------ MODULE Session ------------------------------
(***************************************************************************)
(* The program that writes a session's facts: the agent loop, the tool      *)
(* executor and its scheduler, Code Mode, Ctrl-C, crashes, resume and the   *)
(* operator who reconciles unknown outcomes.  Every action is one durable   *)
(* append, one step of a tool body, or a step of control between two of     *)
(* them, so a crash or a Ctrl-C can come between any two appends.           *)
(*                                                                          *)
(* Left to other modules: the cap on workers, the dependency order of the   *)
(* nodes of a code run, sampling and compaction, files, undo, the bytes of  *)
(* the rollout (RolloutStore.tla).                                          *)
(***************************************************************************)
EXTENDS SessionReducer

CONSTANTS MaxSteps,       \* max_steps: tool batches a turn may run
          BatchLimit,     \* max_tool_calls_per_batch
          MaxStops,       \* bound: how often the process is stopped or killed
          MaxInterrupts   \* bound: how often the user presses Ctrl-C

(* A batch is executed in model order: the order of its calls as numbers.    *)
ASSUME ConfigIsPositive == /\ Call \subseteq Nat
                           /\ MaxSteps \in Nat /\ BatchLimit \in Nat \ {0}
                           /\ MaxStops \in Nat /\ MaxInterrupts \in Nat

VARIABLES phase,     \* where the program is
          batch,     \* the calls of the batch in hand
          body,      \* per call, what the executor has in hand and has not recorded
          steps,     \* tool_steps
          verdict,   \* the status the turn is about to end with
          handler,   \* "try" while an exception still reaches _drive_turn's handlers
          scope,     \* the calls _close_calls was given
          ran,       \* how often the body of each call ran
          batches,   \* tool batches accepted in each turn (read from the rollout)
          stray,     \* code calls ended by an event that lacks origin "code"
          rejected,  \* writers whose durable event the reducer refused
          escaped,   \* an exception left run_turn of this process
          stops, interrupts

control == <<batch, steps, verdict, handler, scope>>
ghosts  == <<ran, batches, stray, escaped>>
budget  == <<stops, interrupts>>
vars == <<facts, phase, body, control, ghosts, rejected, budget>>

Phases == {"down", "recover", "operator", "idle", "sample", "batch", "drain",
           "abort", "close", "finish"}
Ended == {"succeeded", "failed", "interrupted", "cancelled"}
Bodies == {"none", "denied", "running"} \union Ended

SessionTypeOK ==
  /\ TypeOK
  /\ phase \in Phases
  /\ batch \subseteq Call /\ scope \subseteq Call /\ stray \subseteq Call
  /\ body \in [Call -> Bodies]
  /\ steps \in 0 .. MaxSteps
  /\ verdict \in {"none"} \union TurnEnds
  /\ handler \in {"try", "except"}
  /\ ran \in [Call -> Nat]
  /\ batches \in [Turn -> Nat]
  /\ rejected \subseteq {"executor", "recovery", "cli"}
  /\ escaped \in BOOLEAN
  /\ stops \in 0 .. MaxStops /\ interrupts \in 0 .. MaxInterrupts

SessionInit ==
  /\ Init
  /\ phase = "idle" /\ handler = "try" /\ verdict = "none"
  /\ batch = {} /\ scope = {} /\ steps = 0
  /\ body = [c \in Call |-> "none"]
  /\ ran = [c \in Call |-> 0]
  /\ batches = [t \in Turn |-> 0]
  /\ escaped = FALSE
  /\ stray = {} /\ rejected = {}
  /\ stops = 0 /\ interrupts = 0

(* Append, then reduce: a refused event is already in the rollout.           *)
Write(writer, can, event) ==
  \/ can /\ event /\ UNCHANGED rejected
  \/ ~can /\ UNCHANGED facts /\ rejected' = rejected \union {writer}

Hold(c, what) == body' = [body EXCEPT ![c] = what]

(* Events of the agent loop and of recovery end a call without an origin.    *)
WithoutOrigin(c) == stray' = IF parent[c] = NoCall THEN stray ELSE stray \union {c}

OpenCalls == CallsIn(Open)

(* close, then finish the turn with status.                                  *)
Close(calls, status, where) ==
  /\ phase' = "close"
  /\ scope' = calls
  /\ verdict' = status
  /\ handler' = where
  /\ UNCHANGED <<batch, steps>>

-----------------------------------------------------------------------------
(* The prompt, and one round of sampling. *)

StartTurn(t) ==
  /\ phase = "idle" /\ active = NoTurn /\ turn[t] = "unused"
  /\ CanTurnStarted(t) /\ TurnStarted(t)
  /\ phase' = "sample" /\ handler' = "try" /\ steps' = 0
  /\ UNCHANGED <<body, batch, verdict, scope, ghosts, rejected, budget>>

(* continuable_turn_id. *)
Continuable == active # NoTurn /\ ~blocked /\ intent = "none"

(* Bug: the batches before the resume are not counted. *)
ResumeAfresh ==
  /\ phase = "idle" /\ Continuable
  /\ phase' = "sample" /\ handler' = "try" /\ steps' = 0
  /\ UNCHANGED <<facts, body, batch, verdict, scope, ghosts, rejected, budget>>

(* Bug: a turn without a batch is not taken for a turn to resume. *)
ResumeOnlyBatches ==
  /\ phase = "idle" /\ Continuable
  /\ batches[active] > 0
  /\ phase' = "sample" /\ handler' = "try" /\ steps' = batches[active]
  /\ UNCHANGED <<facts, body, batch, verdict, scope, ghosts, rejected, budget>>

ResumeTurn ==
  /\ phase = "idle" /\ Continuable
  /\ phase' = "sample" /\ handler' = "try" /\ steps' = batches[active]
  /\ UNCHANGED <<facts, body, batch, verdict, scope, ghosts, rejected, budget>>

(* The commands at the prompt, and --plan when a turn waits to be resumed.   *)
Command ==
  /\ phase = "idle"
  /\ \/ Write("cli", CanPlanModeSet, PlanModeSet(~planMode))
     \/ always /\ active = NoTurn /\ Write("cli", CanApprovalReset, ApprovalReset)
  /\ UNCHANGED <<phase, body, control, ghosts, budget>>

(* No accepted call may be without a result the projection can place.        *)
Projectable == stray = {}

AcceptBatch(calls) ==
  /\ phase = "sample" /\ Projectable /\ steps < MaxSteps /\ calls # {}
  /\ CanAssistantAccepted(calls) /\ AssistantAccepted(calls)
  /\ phase' = "batch" /\ batch' = calls /\ steps' = steps + 1
  /\ batches' = [batches EXCEPT ![active] = @ + 1]
  /\ UNCHANGED <<body, verdict, handler, scope, ran, stray, escaped, rejected, budget>>

(* A text response is accepted without calls, which leaves the facts as they *)
(* are; every other outcome ends the turn.                                   *)
EndSampling(status) ==
  /\ phase = "sample" /\ Projectable /\ steps < MaxSteps
  /\ status \in {"completed", "failed", "interrupted"}
  /\ status = "completed" => CanAssistantAccepted({})
  /\ phase' = "finish" /\ verdict' = status
  /\ UNCHANGED <<facts, body, batch, steps, handler, scope, ghosts, rejected, budget>>

(* After the last batch the model is asked once more, without tools, and the *)
(* turn ends whatever it answers.                                            *)
FinalizeAfterLimit ==
  /\ phase = "sample" /\ Projectable /\ steps >= MaxSteps
  /\ phase' = "finish" /\ verdict' = "max_steps_reached"
  /\ UNCHANGED <<facts, body, batch, steps, handler, scope, ghosts, rejected, budget>>

(* PromptProjector raises, and run_turn's last handler closes the turn.      *)
ProjectionFails ==
  /\ phase = "sample" /\ ~Projectable
  /\ Close(OpenCalls, "failed", "except")
  /\ UNCHANGED <<facts, body, ghosts, rejected, budget>>

-----------------------------------------------------------------------------
(* One batch: ToolBatchScheduler in model order, and the nodes of the code   *)
(* run whose parent is the call being executed.                              *)

Limited == {c \in batch : Cardinality({d \in batch : d < c}) < BatchLimit}
Before(c) == {d \in Limited : d < c}
Parallel(c) == Tool[c] = "read"
NeedsApproval(c) == Tool[c] \in {"effect", "exit_plan_mode"}

InRun(p) == run[p] = "active" /\ body[p] = "running"
Running == {p \in Call : InRun(p)}
IsNode(c) == parent[c] \in Running
AtHead(c) == c \in Limited /\ \A d \in Before(c) : call[d] \in Terminal

(* What the scheduler's workers hold: calls of a group of reads, or nodes.   *)
InFlight == {c \in Limited \union {n \in Call : IsNode(n)} :
               call[c] = "started" /\ (Parallel(c) \/ IsNode(c))}

(* _require_accepted_identity: the call is still to be executed.             *)
Pending(c) == call[c] = "requested" /\ body[c] = "none"

(* The next call is prepared; nodes are prepared while no node is in flight. *)
Preparing(c) ==
  /\ phase = "batch"
  /\ AtHead(c) \/ (IsNode(c) /\ InFlight = {})
  /\ Pending(c)

(* Bug: a standing approval outranks plan mode. *)
DeniedUnlessStanding(c) == Tool[c] = "effect" /\ planMode /\ ~always

(* Plan mode refuses every effect, and only plan mode can be left.           *)
DeniedByPlan(c) == Tool[c] = "effect" /\ planMode
NothingToLeave(c) == Tool[c] = "exit_plan_mode" /\ ~planMode

RefusedAs(c) ==
  {"invalid_arguments"}
    \union (IF IsNode(c) THEN {} ELSE {"unknown_tool"})
    \union (IF NeedsApproval(c) /\ ~DeniedByPlan(c) THEN {"failed"} ELSE {})
    \union (IF DeniedByPlan(c) THEN {"denied"} ELSE {})

Refuse(c, status) ==
  /\ Preparing(c) /\ approved[c] = "undecided" /\ status \in RefusedAs(c)
  /\ Write("executor", CanToolFinished(c, status), ToolFinished(c, status))
  /\ UNCHANGED <<phase, body, control, ghosts, budget>>

(* A session-wide approval answers for the user.                             *)
Decide(c, answer) ==
  /\ Preparing(c) /\ approved[c] = "undecided" /\ NeedsApproval(c)
  /\ ~DeniedByPlan(c) /\ ~NothingToLeave(c)
  /\ always => answer = "session"
  /\ answer = "interrupt" => interrupts < MaxInterrupts
  /\ LET allow == answer \in {"once", "session"}
     IN  Write("executor", CanApprovalDecided(c),
               ApprovalDecided(c, allow, IF answer = "session" THEN "session" ELSE "once"))
  /\ Hold(c, CASE answer = "deny" -> "denied" [] answer = "interrupt" -> "cancelled"
               [] OTHER -> "none")
  /\ interrupts' = IF answer = "interrupt" THEN interrupts + 1 ELSE interrupts
  /\ UNCHANGED <<phase, control, ran, batches, stray, escaped, stops>>

(* Where a Ctrl-C that leaves the executor goes: Code Mode aborts its run,   *)
(* and AgentLoop closes the calls it gave to the scheduler.                  *)
Propagate ==
  IF Running # {}
  THEN phase' = "abort" /\ UNCHANGED control
  ELSE Close(Limited, "interrupted", "try")

FinishRefused(c) ==
  /\ phase = "batch" /\ call[c] = "requested" /\ body[c] \in {"denied", "cancelled"}
  /\ Write("executor", CanToolFinished(c, body[c]), ToolFinished(c, body[c]))
  /\ Hold(c, "none")
  /\ IF body[c] = "cancelled" THEN Propagate ELSE UNCHANGED <<phase, control>>
  /\ UNCHANGED <<ghosts, budget>>

(* tool_started: a read may start beside the reads before it.                *)
Start(c) ==
  /\ phase = "batch" /\ Pending(c)
  /\ \/ AtHead(c) \/ IsNode(c)
     \/ /\ c \in Limited /\ Parallel(c)
        /\ \A d \in Before(c) : call[d] \in Terminal \/ (Parallel(d) /\ call[d] = "started")
  /\ NeedsApproval(c) => approved[c] = "yes"
  /\ Write("executor", CanToolStarted(c), ToolStarted(c))
  /\ UNCHANGED <<phase, body, control, ghosts, budget>>

(* Bug: a body that failed is run again. *)
RetryBody(c) ==
  /\ phase = "batch" /\ call[c] = "started" /\ body[c] \in {"none", "failed"}
  /\ c \in Limited \/ IsNode(c)
  /\ Tool[c] \in {"read", "grep", "effect"}
  /\ ran' = [ran EXCEPT ![c] = @ + 1]
  /\ Hold(c, "running")
  /\ UNCHANGED <<facts, phase, control, batches, stray, escaped, rejected, budget>>

(* The body runs between tool_started and tool_finished.                     *)
RunBody(c) ==
  /\ phase = "batch" /\ call[c] = "started" /\ body[c] = "none"
  /\ c \in Limited \/ IsNode(c)
  /\ ran' = [ran EXCEPT ![c] = @ + 1]
  /\ CASE Tool[c] = "exit_plan_mode" ->
            Hold(c, "succeeded") /\ Write("executor", CanPlanModeSet, PlanModeSet(FALSE))
       [] Tool[c] = "run_code" ->
            Hold(c, "running") /\ Write("executor", CanCodeRunStarted(c), CodeRunStarted(c))
       [] OTHER ->
            Hold(c, "running") /\ UNCHANGED <<facts, rejected>>
  /\ UNCHANGED <<phase, control, batches, stray, escaped, budget>>

EndBody(c, outcome) ==
  /\ phase \in {"batch", "drain"} /\ body[c] = "running" /\ Tool[c] # "run_code"
  /\ outcome \in {"succeeded", "failed"} \union (IF IsNode(c) THEN {"cancelled"} ELSE {})
  /\ Hold(c, outcome)
  /\ UNCHANGED <<facts, phase, control, ghosts, rejected, budget>>

InHand(c) == call[c] = "started" /\ body[c] \in Ended

(* Results are recorded in model order; an interrupted one ends the batch.   *)
Commit(c) ==
  /\ phase \in {"batch", "drain"} /\ InHand(c)
  /\ \A d \in Before(c) : c \in Limited => call[d] \in Terminal
  /\ Write("executor", CanToolFinished(c, body[c]), ToolFinished(c, body[c]))
  /\ Hold(c, "none")
  /\ IF body[c] = "interrupted" THEN Close(batch, "interrupted", "try")
                                ELSE UNCHANGED <<phase, control>>
  /\ UNCHANGED <<ghosts, budget>>

(* A Ctrl-C during os.replace is held back until the result is recorded.     *)
CommitThenInterrupt(c) ==
  /\ phase = "batch" /\ InHand(c) /\ body[c] = "succeeded"
  /\ c \in Limited /\ Tool[c] = "effect" /\ interrupts < MaxInterrupts
  /\ Write("executor", CanToolFinished(c, body[c]), ToolFinished(c, body[c]))
  /\ Hold(c, "none")
  /\ interrupts' = interrupts + 1
  /\ Close(Limited, "interrupted", "try")
  /\ UNCHANGED <<ghosts, stops>>

LimitedDone == \A c \in Limited : call[c] \in Terminal

ExceedLimit(c) ==
  /\ phase = "batch" /\ LimitedDone /\ c \in batch \ Limited
  /\ CanToolFinished(c, "batch_limit_exceeded")
  /\ ToolFinished(c, "batch_limit_exceeded")
  /\ UNCHANGED <<phase, body, control, ghosts, rejected, budget>>

EndBatch ==
  /\ phase = "batch" /\ \A c \in batch : call[c] \in Terminal
  /\ phase' = "sample" /\ batch' = {}
  /\ UNCHANGED <<facts, body, steps, verdict, handler, scope, ghosts, rejected, budget>>

-----------------------------------------------------------------------------
(* Code Mode: the events of the run itself. *)

PlanNode(p, n) ==
  /\ phase = "batch" /\ InRun(p) /\ call[n] = "absent"
  /\ Tool[n] \in {"read", "grep", "effect"}
  /\ \A m \in Nodes(p) : call[m] \in Terminal \/ (call[m] = "requested" /\ approved[m] = "undecided")
  /\ Write("executor", CanCodeNodePlanned(p, n), CodeNodePlanned(p, n))
  /\ UNCHANGED <<phase, body, control, ghosts, budget>>

(* A dependency failed, or the wall clock of the run expired.                *)
SkipNode(n, status) ==
  /\ Preparing(n) /\ IsNode(n)
  /\ status = "upstream_failed" => approved[n] = "undecided"
  /\ Write("executor", CanToolFinished(n, status), ToolFinished(n, status))
  /\ UNCHANGED <<phase, body, control, ghosts, budget>>

EndRun(p, status) ==
  /\ phase = "batch" /\ InRun(p)
  /\ \A n \in Nodes(p) : call[n] \in Terminal
  /\ status = "succeeded" => \A n \in Nodes(p) : call[n] = "succeeded"
  /\ Write("executor", CanCodeRunFinished(p), CodeRunFinished(p, status))
  /\ Hold(p, status)
  /\ UNCHANGED <<phase, control, ghosts, budget>>

(* _close_aborted_run: the nodes, then the run, then the call of the run.    *)
AbortNode(n) ==
  /\ phase = "abort" /\ IsNode(n) /\ call[n] \in Open
  /\ LET status == IF call[n] = "started" THEN "outcome_unknown" ELSE "not_executed"
     IN  Write("executor", CanToolFinished(n, status), ToolFinished(n, status))
  /\ UNCHANGED <<phase, body, control, ghosts, budget>>

AbortRun(p) ==
  /\ phase = "abort" /\ InRun(p) /\ \A n \in Nodes(p) : call[n] \in Terminal
  /\ Write("executor", CanCodeRunFinished(p), CodeRunFinished(p, "interrupted"))
  /\ body' = [c \in Call |-> IF c = p THEN "interrupted" ELSE "none"]
  /\ phase' = "batch"
  /\ UNCHANGED <<control, ghosts, budget>>

-----------------------------------------------------------------------------
(* Ctrl-C, by what the main thread is doing when it comes. *)

Interrupt == interrupts < MaxInterrupts /\ interrupts' = interrupts + 1 /\ UNCHANGED stops

(* In a tool body on the main thread: the result is "interrupted".           *)
InterruptBody(c) ==
  /\ Interrupt
  /\ phase = "batch" /\ body[c] = "running" /\ c \in Limited
  /\ Tool[c] \in {"grep", "effect"}
  /\ Hold(c, "interrupted")
  /\ UNCHANGED <<facts, phase, control, ghosts, rejected>>

(* While it waits for workers: no more starts, their results are recorded.   *)
InterruptWait ==
  /\ Interrupt
  /\ phase = "batch" /\ InFlight # {} /\ \A c \in InFlight : body[c] # "none"
  /\ phase' = "drain"
  /\ UNCHANGED <<facts, body, control, ghosts, rejected>>

Drained ==
  /\ phase = "drain" /\ InFlight = {}
  /\ IF Running # {} THEN phase' = "abort" /\ UNCHANGED control
                     ELSE Close(batch, "interrupted", "try")
  /\ UNCHANGED <<facts, body, ghosts, rejected, budget>>

(* Elsewhere in the executor: the exception propagates.                      *)
OnMainThread == \E c \in Limited : body[c] = "running" /\ Tool[c] \in {"grep", "effect"}

InterruptExecutor ==
  /\ Interrupt
  /\ phase \in {"batch", "drain"} /\ ~OnMainThread /\ ~LimitedDone
  /\ body' = [c \in Call |-> IF c \in Running THEN body[c] ELSE "none"]
  /\ Propagate
  /\ UNCHANGED <<facts, ghosts, rejected>>

(* In _close_aborted_run, or before the run has a node and a handler.        *)
InterruptAbort(p) ==
  /\ Interrupt
  /\ InRun(p) /\ (phase = "abort" \/ (phase = "batch" /\ Nodes(p) = {}))
  /\ phase' = "batch"
  /\ body' = [c \in Call |-> IF c = p THEN "interrupted" ELSE "none"]
  /\ UNCHANGED <<facts, control, ghosts, rejected>>

(* In _drive_turn itself: its first handler closes every open call of the    *)
(* turn.  A second one, in the handler, leaves run_turn and the program.     *)
InterruptTurn ==
  /\ Interrupt
  /\ \/ phase \in {"sample", "close", "finish"}
     \/ phase = "batch" /\ (LimitedDone \/ \A c \in batch : call[c] = "requested")
  /\ IF handler = "try"
     THEN Close(OpenCalls, "interrupted", "except")
     ELSE phase' = "down" /\ UNCHANGED control
  /\ body' = [c \in Call |-> "none"]
  /\ UNCHANGED <<facts, ghosts, rejected>>

(* In RolloutStore.append, whose event is durable or not: the store is       *)
(* poisoned, no handler can append or replay, and an AgentLoopError leaves   *)
(* run_turn.                                                                 *)
InterruptAppend ==
  /\ Interrupt
  /\ phase \in {"sample", "batch", "drain", "abort", "close", "finish"}
  /\ phase' = "down" /\ escaped' = TRUE
  /\ UNCHANGED <<facts, body, control, ran, batches, stray, rejected>>

-----------------------------------------------------------------------------
(* Ending the turn. *)

CloseCall(c) ==
  /\ phase = "close" /\ c \in scope /\ call[c] \in Open
  /\ LET status == IF call[c] = "started" THEN "cancelled" ELSE "not_executed"
     IN  CanToolFinished(c, status) /\ ToolFinished(c, status)
  /\ WithoutOrigin(c)
  /\ UNCHANGED <<phase, body, control, ran, batches, escaped, rejected, budget>>

Closed ==
  /\ phase = "close" /\ \A c \in scope : call[c] \notin Open
  /\ phase' = "finish"
  /\ UNCHANGED <<facts, body, control, ghosts, rejected, budget>>

FinishTurn ==
  /\ phase = "finish" /\ CanTurnFinished(verdict)
  /\ TurnFinished(verdict)
  /\ phase' = "idle" /\ verdict' = "none" /\ scope' = {} /\ batch' = {} /\ steps' = 0
  /\ handler' = "try"
  /\ body' = [c \in Call |-> "none"]
  /\ UNCHANGED <<ghosts, rejected, budget>>

(* turn_finished is refused: the last handler closes what is open and tries  *)
(* again, and when it is refused there too the exception leaves run_turn.    *)
FinishRefusedOnce ==
  /\ phase = "finish" /\ ~CanTurnFinished(verdict) /\ handler = "try"
  /\ Close(OpenCalls, "failed", "except")
  /\ UNCHANGED <<facts, body, ghosts, rejected, budget>>

Escape ==
  /\ phase = "finish" /\ ~CanTurnFinished(verdict) /\ handler = "except"
  /\ phase' = "down" /\ escaped' = TRUE
  /\ UNCHANGED <<facts, body, control, ran, batches, stray, rejected, budget>>

-----------------------------------------------------------------------------
(* The process ends (killed, quit, or the operator defers) and is resumed. *)

Stop ==
  /\ phase # "down" /\ stops < MaxStops
  /\ stops' = stops + 1
  /\ phase' = "down"
  /\ UNCHANGED <<facts, body, control, ghosts, rejected, interrupts>>

Restart ==
  /\ phase = "down"
  /\ phase' = "recover" /\ handler' = "try" /\ verdict' = "none"
  /\ batch' = {} /\ scope' = {} /\ steps' = 0
  /\ escaped' = FALSE
  /\ body' = [c \in Call |-> "none"]
  /\ UNCHANGED <<facts, ran, batches, stray, rejected, budget>>

Recovering == phase = "recover" /\ intent = "none"
Stale == {p \in Call : run[p] = "active" \/ (run[p] \in RunEnds /\ call[p] = "started")}
LostAs(c) == IF call[c] = "started" THEN "outcome_unknown" ELSE "not_executed"
Recover(can, event) ==
  /\ Write("recovery", can, event)
  /\ UNCHANGED <<body, control, ran, batches, escaped, budget>>

RecoverNode(p, n) ==
  /\ Recovering /\ run[p] = "active" /\ n \in Nodes(p) /\ call[n] \in Open
  /\ Recover(CanToolFinished(n, LostAs(n)), ToolFinished(n, LostAs(n)))
  /\ UNCHANGED <<phase, stray>>

RecoverRun(p) ==
  /\ Recovering /\ run[p] = "active" /\ \A n \in Nodes(p) : call[n] \notin Open
  /\ Recover(CanCodeRunFinished(p), CodeRunFinished(p, "failed"))
  /\ UNCHANGED <<phase, stray>>

RecoverParent(p) ==
  /\ Recovering /\ run[p] \in RunEnds /\ call[p] = "started"
  /\ Recover(CanToolFinished(p, "failed"), ToolFinished(p, "failed"))
  /\ UNCHANGED <<phase, stray>>

(* Bug: calls that did start are not looked at. *)
SomethingRequested == (\E c \in Call : call[c] = "requested") /\ ~blocked

(* Calls that never started end the turn; otherwise the turn may go on.      *)
NothingStarted == /\ \E c \in Call : call[c] = "requested"
                  /\ \A c \in Call : call[c] \notin {"started", "outcome_unknown"}
                  /\ ~blocked

RecoverIntent ==
  /\ Recovering /\ Stale = {} /\ NothingStarted
  /\ Recover(CanRecoveryIntent("recover_interrupted"), RecoveryIntent("recover_interrupted"))
  /\ UNCHANGED <<phase, stray>>

RecoverCall(c) ==
  /\ Recovering /\ Stale = {} /\ ~NothingStarted /\ call[c] \in Open
  /\ Recover(CanToolFinished(c, LostAs(c)), ToolFinished(c, LostAs(c)))
  /\ WithoutOrigin(c)
  /\ UNCHANGED phase

(* Bug: a call that never started is left open. *)
RecoveredStarted ==
  /\ Recovering /\ Stale = {} /\ \A c \in Call : call[c] # "started"
  /\ phase' = "operator"
  /\ UNCHANGED <<facts, body, control, ghosts, rejected, budget>>

Recovered ==
  /\ Recovering /\ Stale = {} /\ \A c \in Call : call[c] \notin Open
  /\ phase' = "operator"
  /\ UNCHANGED <<facts, body, control, ghosts, rejected, budget>>

(* A pending intent is completed, by this process or by the next one.        *)
IntentCalls == {c \in Call : IF intent = "abandon" THEN call[c] = "outcome_unknown"
                                                   ELSE call[c] \in Open}

CompleteCall(c) ==
  /\ phase = "recover" /\ intent # "none" /\ c \in IntentCalls
  /\ IF intent = "abandon"
     THEN Recover(CanToolReconciled(c, "abandoned"), ToolReconciled(c, "abandoned"))
     ELSE Recover(CanToolFinished(c, LostAs(c)), ToolFinished(c, LostAs(c)))
  /\ WithoutOrigin(c)
  /\ UNCHANGED phase

CompleteTurn ==
  /\ phase = "recover" /\ intent # "none" /\ IntentCalls = {}
  /\ LET status == IF intent = "abandon" THEN "abandoned" ELSE "interrupted"
     IN  Recover(CanTurnFinished(status), TurnFinished(status))
  /\ phase' = "operator"
  /\ UNCHANGED stray

(* The operator confirms one outcome, or gives up the turn.                  *)
Reconcile(c, outcome) ==
  /\ phase = "operator" /\ blocked /\ call[c] = "outcome_unknown"
  /\ outcome \in {"succeeded", "failed"}
  /\ Recover(CanToolReconciled(c, outcome), ToolReconciled(c, outcome))
  /\ WithoutOrigin(c)
  /\ UNCHANGED phase

Abandon ==
  /\ phase = "operator" /\ blocked
  /\ Recover(CanRecoveryIntent("abandon"), RecoveryIntent("abandon"))
  /\ phase' = "recover"
  /\ UNCHANGED stray

Unblocked ==
  /\ phase = "operator" /\ ~blocked
  /\ phase' = "idle"
  /\ UNCHANGED <<facts, body, control, ghosts, rejected, budget>>

-----------------------------------------------------------------------------
(* What the program does by itself, its bodies and its operator, and what    *)
(* only happens to it.                                                       *)

Turns ==
  \/ ResumeTurn
  \/ \E calls \in SUBSET Call : AcceptBatch(calls)
  \/ \E status \in TurnEnds : EndSampling(status)
  \/ FinalizeAfterLimit
  \/ ProjectionFails
  \/ \E c \in Call : CloseCall(c)
  \/ Closed \/ FinishTurn \/ FinishRefusedOnce \/ Escape

Execution ==
  \/ \E c \in Call, status \in UnstartedEnds : Refuse(c, status)
  \/ \E c \in Call, answer \in {"once", "session", "deny", "interrupt"} : Decide(c, answer)
  \/ \E c \in Call : \/ FinishRefused(c) \/ Start(c) \/ RunBody(c) \/ Commit(c)
                     \/ CommitThenInterrupt(c) \/ ExceedLimit(c)
  \/ \E c \in Call, outcome \in Ended : EndBody(c, outcome)
  \/ EndBatch \/ Drained

CodeMode ==
  \/ \E p, n \in Call : PlanNode(p, n)
  \/ \E n \in Call, status \in {"upstream_failed", "not_executed"} : SkipNode(n, status)
  \/ \E p \in Call, status \in {"succeeded", "failed"} : EndRun(p, status)
  \/ \E n \in Call : AbortNode(n)
  \/ \E p \in Call : AbortRun(p)

Recovery ==
  \/ Restart
  \/ \E p, n \in Call : RecoverNode(p, n)
  \/ \E c \in Call : \/ RecoverRun(c) \/ RecoverParent(c) \/ RecoverCall(c)
                     \/ CompleteCall(c)
  \/ RecoverIntent \/ Recovered \/ CompleteTurn
  \/ \E c \in Call, outcome \in Outcomes : Reconcile(c, outcome)
  \/ Abandon \/ Unblocked

Program == Turns \/ Execution \/ CodeMode \/ Recovery

User ==
  \/ \E t \in Turn : StartTurn(t)
  \/ Command
  \/ Stop
  \/ \E c \in Call : InterruptBody(c) \/ InterruptAbort(c)
  \/ InterruptWait \/ InterruptExecutor \/ InterruptTurn \/ InterruptAppend

SessionNext == Program \/ User

SessionSpec == SessionInit /\ [][SessionNext]_vars

(* Tool bodies, the model and the code worker have deadlines, so the program *)
(* always takes its next step; someone resumes the session and answers.      *)
FairSession == SessionSpec /\ WF_vars(Program)

-----------------------------------------------------------------------------
(* The entry of a call in the ledger of side effects.                        *)
Entry(c) ==
  CASE call[c] \in {"absent", "requested"} -> "blank"
    [] call[c] = "started" -> "intended"
    [] call[c] = "outcome_unknown" -> "uncertain"
    [] call[c] \in {"denied", "invalid_arguments", "unknown_tool", "not_executed",
                    "batch_limit_exceeded", "upstream_failed"} -> "refused"
    [] call[c] \in Reconciled -> "judged"
    [] OTHER -> "settled"

Ledger == INSTANCE ToolLedger WITH ledger <- [c \in Call |-> Entry(c)], effect <- ran

(* Session implements the ledger: a body runs at most once and only after    *)
(* its intent is durable, a call recorded as not executed never ran, and an  *)
(* effect whose result was lost stays uncertain until the operator settles   *)
(* it, through every crash, Ctrl-C and resume.                               *)
KeepsTheLedger == Ledger!LedgerSpec

(* Every event the program writes is one the reducer accepts, so the rollout *)
(* can be replayed: the executor and recovery append before they reduce, and *)
(* a refused event would leave a session that never opens again              *)
(* (_append_and_reduce, _append_candidates).                                 *)
NothingRejected == rejected = {}

(* The model is asked again only when each call it made has one certain      *)
(* result, also after a crash, a Ctrl-C or a reconciliation (_drive_turn,    *)
(* resume_active_turn).                                                      *)
SampledWhenSettled ==
  phase = "sample" => /\ CallsIn(Open \union {"outcome_unknown"}) = {}
                      /\ intent = "none"

(* The body of an effect begins only under an approval on record, and never  *)
(* while plan mode is on, whichever of the model, a code program, a resumed  *)
(* turn or a standing approval asks for it (prepare_staged).                 *)
NoUnapprovedEffect ==
  [][\A c \in Call : ran'[c] # ran[c] /\ Tool[c] = "effect" =>
                        approved[c] = "yes" /\ ~planMode]_vars

(* A turn never runs more tool batches than max_steps, however often it is   *)
(* resumed in between (resume_active_turn counts them from the rollout).     *)
StepLimit == \A t \in Turn : batches[t] <= MaxSteps

(* Giving up a turn can always be completed: when the abandon intent is      *)
(* durable no call of the turn is open, and after a crash in the middle the  *)
(* next process reconciles the rest and ends it (_complete_recovery_intent). *)
AbandonCompletes == intent = "abandon" => active # NoTurn /\ CallsIn(Open) = {}

(* Every turn that was started ends.                                         *)
TurnsEnd == \A t \in Turn : turn[t] \in {"active", "recovery_blocked"} ~> turn[t] \in TurnEnds

-----------------------------------------------------------------------------
(* What documents of the repository say, and the program does not do.        *)

(* A Ctrl-C produces no uncaught exception and ends the turn safely.         *)
InterruptNeverEscapes == ~escaped

(* Only a crash leaves an outcome unknown: while a process is in its turn, a *)
(* Ctrl-C gives every call a certain end (_close_aborted_run).               *)
OnlyCrashesAreUnknown ==
  phase \notin {"down", "recover", "operator"} => CallsIn({"outcome_unknown"}) = {}

(* Once every unknown call has its explicit result, projection goes on.      *)
ReconciledProjects == phase = "sample" => Projectable
=============================================================================
