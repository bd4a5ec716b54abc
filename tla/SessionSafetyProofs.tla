------------------------ MODULE SessionSafetyProofs ------------------------
(***************************************************************************)
(* What Session.tla promises of every session, with any number of turns,    *)
(* calls, crashes and interrupts: no event of the program is refused, the   *)
(* model is asked only when the record is settled, no effect runs without   *)
(* its approval or in plan mode, and the ledger of side effects is kept.    *)
(*                                                                          *)
(* None of the four is inductive.  What carries them is ProgramInv: which   *)
(* calls of the batch in hand may be open and in what order, what the       *)
(* executor has in hand of each of them, and what is left in hand where     *)
(* (nothing, outside a batch).                                              *)
(***************************************************************************)
EXTENDS SessionProofs

(* A pending intent is completed before anything else happens, and an        *)
(* abandoned turn has nothing open.                                          *)
IntentsComeFirst ==
  /\ intent # "none" => phase \in {"recover", "down"}
  /\ AbandonCompletes

(* Between batches nothing is open, and nothing is in hand.                  *)
QuietBetween ==
  /\ phase \in {"operator", "idle", "sample"} => \A c \in Call : call[c] \notin Open
  /\ phase \in {"recover", "operator", "idle", "sample"} => \A c \in Call : body[c] = "none"
  /\ phase = "sample" => \A c \in Call : call[c] # "outcome_unknown"

(* What the record says of each call, wherever the program is.               *)
OnRecord ==
  \A c \in Call :
    /\ call[c] \in {"absent", "requested"} => ran[c] = 0
    /\ call[c] = "absent" => approved[c] = "undecided"
    /\ run[c] # "absent" => Tool[c] = "run_code" /\ ran[c] # 0
    /\ parent[c] # NoCall => Tool[c] \in {"read", "grep", "effect"}
    /\ call[c] = "started" /\ NeedsApproval(c) => approved[c] = "yes"

(* While a batch is in hand: an open call is one of the batch, or a node of  *)
(* a code run that the batch started.                                        *)
InBatch == {"batch", "drain", "abort"}
OpenIsInBatch ==
  phase \in InBatch =>
    /\ active # NoTurn
    /\ \A c \in batch : parent[c] = NoCall /\ call[c] # "absent"
    /\ \A c \in Call : call[c] \in Open =>
          c \in batch \/ (parent[c] \in Limited /\ call[parent[c]] = "started")
    /\ \A p \in Call : InRun(p) => p \in Limited /\ call[p] = "started"

(* Its calls start in model order, only reads together, and the one that was *)
(* decided is the next.                                                      *)
InModelOrder ==
  phase \in InBatch =>
    /\ \A c \in Limited : call[c] = "started" =>
          \A d \in Before(c) : \/ call[d] \in Terminal
                               \/ call[d] = "started" /\ Parallel(c) /\ Parallel(d)
    /\ \A c \in Limited : call[c] = "requested" /\ approved[c] # "undecided" => AtHead(c)

(* Plan mode is not entered while an approved effect is under way.           *)
ApprovedOutsidePlan ==
  phase \in InBatch =>
    \A c \in Call : Tool[c] = "effect" /\ approved[c] = "yes" /\ call[c] \in Open => ~planMode

(* What the executor has in hand is open, a node that is open has a run that *)
(* lives or was interrupted, and an unknown outcome is one of the latter.    *)
InHands ==
  phase \in {"batch", "drain"} =>
    /\ \A c \in Call : body[c] # "none" => call[c] \in Open /\ (c \in Limited \/ parent[c] # NoCall)
    /\ \A n \in Call : call[n] \in Open /\ parent[n] # NoCall =>
          body[parent[n]] \in {"running", "interrupted"}
    /\ \A c \in Call : call[c] = "outcome_unknown" =>
          \E p \in Limited : call[p] = "started" /\ body[p] = "interrupted"

(* While it executes, a started call with nothing in hand has not run yet,   *)
(* and the refusal of a call is in hand until it is recorded.                *)
Executing(c) == c \in Limited \/ IsNode(c)
NotYetRun ==
  phase = "batch" => \A c \in Call : Executing(c) =>
     /\ call[c] = "started" /\ body[c] = "none" => ran[c] = 0
     /\ call[c] = "requested" /\ approved[c] = "no" => body[c] \in {"denied", "cancelled"}

Sizes == /\ phase \in Phases /\ batch \subseteq Call
         /\ body \in [Call -> Bodies] /\ ran \in [Call -> Nat]

ProgramInv == /\ Inv /\ VerdictIsKnown /\ NothingRejected /\ Sizes
              /\ IntentsComeFirst /\ QuietBetween /\ OnRecord
              /\ OpenIsInBatch /\ InModelOrder /\ ApprovedOutsidePlan /\ InHands /\ NotYetRun

-----------------------------------------------------------------------------
(* What the invariant says of single calls. *)

(* A call is open, unknown or has its result, never two of these. *)
LEMMA Kinds ==
  /\ Open \subseteq CallStatus /\ Terminal \subseteq CallStatus
  /\ \A s \in Open : s \notin Terminal /\ s # "absent" /\ s # "outcome_unknown"
  /\ "absent" \notin Terminal /\ "absent" \notin Open
  /\ "outcome_unknown" \in Terminal
  /\ "requested" \in Open /\ "started" \in Open
  /\ \A s \in Open : s \in {"requested", "started"}
  /\ \A s \in CallStatus : s = "absent" \/ s \in Open \/ s \in Terminal
BY DEF Open, Terminal, CallStatus, UnstartedEnds, StartedEnds, Reconciled

(* A call without a certain result belongs to the active turn.               *)
LEMMA UnsettledIsCurrent ==
  ASSUME Inv, NEW c \in Call, call[c] \in Open \union {"outcome_unknown"}
  PROVE  c \in TurnCalls /\ active # NoTurn
<1>1. call[c] # "absent" /\ call[c] \notin Settled
  BY Kinds DEF Settled, Open
<1>2. owner[c] \in Turn /\ owner[c] = active
  BY <1>1 DEF Inv, CallsHaveTurns, FinishedTurnsAreSettled
<1> QED BY <1>2, CallsAreKeys DEF TurnCalls

(* Calls of the active turn that are in none of these states: none at all.   *)
LEMMA NoneOfTheTurn ==
  ASSUME Inv, NEW S \in SUBSET (Open \union {"outcome_unknown"}), CallsIn(S) = {}
  PROVE  \A c \in Call : call[c] \notin S
BY UnsettledIsCurrent DEF CallsIn

(* The calls that are executed do not change with a step inside a batch.     *)
LEMMA SameBatch ==
  ASSUME batch' = batch
  PROVE  Limited' = Limited /\ \A c \in Call : Before(c)' = Before(c)
BY DEF Limited, Before

(* Limited and the calls before one are calls. *)
LEMMA LimitedIsCalls ==
  ASSUME Sizes
  PROVE  Limited \subseteq batch /\ Limited \subseteq Call /\ \A c \in Call : Before(c) \subseteq Limited
BY DEF Sizes, Limited, Before

(* While a code run goes on in a batch it is the one call that has started:  *)
(* a run is not executed beside another call (ToolBatchScheduler).           *)
LEMMA RunIsAlone ==
  ASSUME ProgramInv, phase \in InBatch, NEW p \in Call, InRun(p), NEW c \in Limited, c # p
  PROVE  /\ call[c] # "started"
         /\ IF c \in Before(p) THEN call[c] \in Terminal ELSE ~AtHead(c)
<1>1. p \in Limited /\ call[p] = "started"
  BY DEF ProgramInv, OpenIsInBatch
<1>2. Tool[p] = "run_code"
  BY DEF ProgramInv, OnRecord, InRun
<1>3. c \in Call /\ c \in Nat /\ p \in Nat
  BY LimitedIsCalls, ConfigIsPositive DEF ProgramInv
<1>4. c \in Before(p) \/ p \in Before(c)
  BY <1>1, <1>3 DEF Before
<1>5. c \in Before(p) => call[c] \in Terminal
  BY <1>1, <1>2 DEF ProgramInv, InModelOrder, Parallel
<1>6. p \in Before(c) => call[c] # "started"
  BY <1>1, <1>2, Kinds DEF ProgramInv, InModelOrder, Parallel
<1>7. p \in Before(c) => ~AtHead(c)
  BY <1>1, Kinds DEF AtHead
<1> QED BY <1>4, <1>5, <1>6, <1>7, Kinds

(* The nodes of a code run are not calls of the batch. *)
LEMMA NodesAreNotInBatch ==
  ASSUME ProgramInv, phase \in InBatch, NEW n \in Call, parent[n] # NoCall \/ IsNode(n)
  PROVE  n \notin batch /\ n \notin Limited /\ parent[n] # NoCall
BY CallsAreKeys, LimitedIsCalls DEF ProgramInv, OpenIsInBatch, IsNode, Running

-----------------------------------------------------------------------------
(* Every append is of an event the reducer accepts. *)

(* With nothing of recovery pending, any open call may get its result.       *)
LEMMA ResultIsAccepted ==
  ASSUME Inv, intent = "none", NEW c \in Call, NEW status, FinishAllowed(c, status)
  PROVE  CanToolFinished(c, status)
BY UnsettledIsCurrent DEF CanToolFinished, FinishAllowed, Open

(* Outside recovery nothing of recovery is pending. *)
LEMMA NoIntent ==
  ASSUME ProgramInv, phase \notin {"recover", "down"}
  PROVE  intent = "none"
BY DEF ProgramInv, IntentsComeFirst

(* The events of a batch. *)
LEMMA ExecutionIsAccepted ==
  ASSUME ProgramInv, NEW c \in Call
  PROVE  /\ \A status \in UnstartedEnds : Refuse(c, status) => CanToolFinished(c, status)
         /\ \A answer : Decide(c, answer) => CanApprovalDecided(c)
         /\ FinishRefused(c) => CanToolFinished(c, body[c])
         /\ Start(c) => CanToolStarted(c)
         /\ RunBody(c) /\ Tool[c] = "exit_plan_mode" => CanPlanModeSet
         /\ RunBody(c) /\ Tool[c] = "run_code" => CanCodeRunStarted(c)
         /\ Commit(c) \/ CommitThenInterrupt(c) => CanToolFinished(c, body[c])
<1> USE DEF Preparing, Pending
<1>1. phase \in {"batch", "drain"} => intent = "none"
  BY NoIntent
<1>2. ASSUME NEW status \in UnstartedEnds, Refuse(c, status) PROVE CanToolFinished(c, status)
  BY <1>1, <1>2, ResultIsAccepted DEF ProgramInv, Refuse, FinishAllowed
<1>3. ASSUME NEW answer, Decide(c, answer) PROVE CanApprovalDecided(c)
  BY <1>1, <1>3, UnsettledIsCurrent DEF ProgramInv, Decide, CanApprovalDecided, Open
<1>4. ASSUME FinishRefused(c) PROVE CanToolFinished(c, body[c])
  BY <1>1, <1>4, ResultIsAccepted DEF ProgramInv, FinishRefused, FinishAllowed, UnstartedEnds
<1>5. ASSUME Start(c) PROVE CanToolStarted(c)
  <2>1. approved[c] # "no"
    BY <1>5 DEF Start, ProgramInv, NotYetRun, Executing, AtHead
  <2> QED BY <1>1, <1>5, <2>1, UnsettledIsCurrent DEF ProgramInv, Start, CanToolStarted, Open
<1>6. ASSUME RunBody(c) PROVE CanPlanModeSet
  BY <1>1, <1>6 DEF RunBody, CanPlanModeSet
<1>7. ASSUME RunBody(c), Tool[c] = "run_code" PROVE CanCodeRunStarted(c)
  <2>1. ran[c] = 0
    BY <1>7 DEF RunBody, ProgramInv, NotYetRun, Executing
  <2>2. run[c] = "absent"
    BY <2>1 DEF ProgramInv, OnRecord
  <2> QED BY <1>7, <2>2, UnsettledIsCurrent DEF ProgramInv, RunBody, CanCodeRunStarted, Open
<1>8. ASSUME Commit(c) \/ CommitThenInterrupt(c) PROVE CanToolFinished(c, body[c])
  BY <1>1, <1>8, ResultIsAccepted
  DEF ProgramInv, Commit, CommitThenInterrupt, InHand, FinishAllowed, StartedEnds, Ended
<1> QED BY <1>2, <1>3, <1>4, <1>5, <1>6, <1>7, <1>8

(* The events of Code Mode. *)
LEMMA CodeModeIsAccepted ==
  ASSUME ProgramInv, NEW p \in Call, NEW n \in Call
  PROVE  /\ PlanNode(p, n) => CanCodeNodePlanned(p, n)
         /\ \A status \in {"upstream_failed", "not_executed"} :
               SkipNode(n, status) => CanToolFinished(n, status)
         /\ \A status : EndRun(p, status) => CanCodeRunFinished(p)
         /\ AbortNode(n) => CanToolFinished(n, IF call[n] = "started" THEN "outcome_unknown" ELSE "not_executed")
         /\ AbortRun(p) => CanCodeRunFinished(p)
<1>1. phase \in InBatch => intent = "none" /\ active # NoTurn
  BY NoIntent DEF InBatch, ProgramInv, OpenIsInBatch
<1>2. ASSUME PlanNode(p, n) PROVE CanCodeNodePlanned(p, n)
  BY <1>1, <1>2 DEF PlanNode, CanCodeNodePlanned, InRun, InBatch
<1>3. ASSUME NEW status \in {"upstream_failed", "not_executed"}, SkipNode(n, status)
      PROVE  CanToolFinished(n, status)
  BY <1>1, <1>3, ResultIsAccepted
  DEF ProgramInv, SkipNode, Preparing, Pending, FinishAllowed, UnstartedEnds, InBatch
<1>4. ASSUME NEW status, EndRun(p, status) \/ AbortRun(p) PROVE CanCodeRunFinished(p)
  BY <1>4 DEF EndRun, AbortRun, CanCodeRunFinished, InRun
<1>5. ASSUME AbortNode(n)
      PROVE  CanToolFinished(n, IF call[n] = "started" THEN "outcome_unknown" ELSE "not_executed")
  BY <1>1, <1>5, ResultIsAccepted
  DEF ProgramInv, AbortNode, FinishAllowed, UnstartedEnds, StartedEnds, InBatch, Open
<1> QED BY <1>2, <1>3, <1>4, <1>5

(* The results recovery and the operator record. *)
LEMMA RecoveryIsAccepted ==
  ASSUME ProgramInv, NEW c \in Call
  PROVE  /\ \A n \in Call : RecoverNode(c, n) => CanToolFinished(n, LostAs(n))
         /\ RecoverRun(c) => CanCodeRunFinished(c)
         /\ RecoverParent(c) => CanToolFinished(c, "failed")
         /\ RecoverCall(c) => CanToolFinished(c, LostAs(c))
         /\ CompleteCall(c) => IF intent = "abandon" THEN CanToolReconciled(c, "abandoned")
                                                     ELSE CanToolFinished(c, LostAs(c))
         /\ \A outcome \in Outcomes : Reconcile(c, outcome) => CanToolReconciled(c, outcome)
<1> USE DEF Recovering
<1>1. ASSUME NEW d \in Call, intent = "none", call[d] \in Open PROVE CanToolFinished(d, LostAs(d))
  BY <1>1, ResultIsAccepted DEF ProgramInv, FinishAllowed, LostAs, Open, UnstartedEnds, StartedEnds
<1>2. ASSUME RecoverRun(c) PROVE CanCodeRunFinished(c)
  BY <1>2, Kinds, CallsAreKeys DEF RecoverRun, CanCodeRunFinished, ProgramInv, Inv, FinishedRunsAreClosed, Nodes, TypeOK
<1>3. ASSUME RecoverParent(c) PROVE CanToolFinished(c, "failed")
  BY <1>3, ResultIsAccepted DEF RecoverParent, ProgramInv, FinishAllowed, StartedEnds
<1>4. ASSUME CompleteCall(c), intent = "abandon" PROVE CanToolReconciled(c, "abandoned")
  BY <1>4, UnsettledIsCurrent DEF CompleteCall, IntentCalls, CanToolReconciled, ProgramInv
<1>5. ASSUME CompleteCall(c), intent # "abandon" PROVE CanToolFinished(c, LostAs(c))
  <2>1. intent = "recover_interrupted" /\ call[c] \in Open
    BY <1>5 DEF CompleteCall, IntentCalls, ProgramInv, Inv, TypeOK, Intents
  <2>2. c \in TurnCalls /\ active # NoTurn
    BY <2>1, UnsettledIsCurrent DEF ProgramInv
  <2>3. call[c] = "requested"
    BY <2>1, <2>2, Kinds DEF ProgramInv, Inv, InterruptedIntentIsCertain, CallsIn
  <2> QED BY <2>1, <2>2, <2>3 DEF CanToolFinished, FinishAllowed, LostAs, UnstartedEnds
<1>6. ASSUME NEW outcome \in Outcomes, Reconcile(c, outcome) PROVE CanToolReconciled(c, outcome)
  BY <1>6, NoIntent, UnsettledIsCurrent DEF Reconcile, CanToolReconciled, ProgramInv
<1> QED
  BY <1>1, <1>2, <1>3, <1>4, <1>5, <1>6 DEF RecoverNode, RecoverCall

(* The intents, and the end of the turn they lead to. *)
LEMMA IntentIsAccepted ==
  ASSUME ProgramInv
  PROVE  /\ RecoverIntent => CanRecoveryIntent("recover_interrupted")
         /\ CompleteTurn => CanTurnFinished(IF intent = "abandon" THEN "abandoned" ELSE "interrupted")
         /\ Abandon => CanRecoveryIntent("abandon")
<1> USE DEF Recovering
<1>1. ASSUME RecoverIntent PROVE CanRecoveryIntent("recover_interrupted")
  <2>1. PICK d \in Call : call[d] = "requested"
    BY <1>1 DEF RecoverIntent, NothingStarted
  <2>2. d \in TurnCalls /\ active # NoTurn
    BY <2>1, UnsettledIsCurrent, Kinds DEF ProgramInv
  <2> QED BY <1>1, <2>1, <2>2 DEF RecoverIntent, NothingStarted, CanRecoveryIntent, CallsIn, TurnCalls
<1>2. ASSUME CompleteTurn, intent = "abandon" PROVE CanTurnFinished("abandoned")
  <2>1. ~blocked
    BY <1>2 DEF CompleteTurn, IntentCalls, ProgramInv, Inv, BlockedIffUnknown
  <2> QED BY <1>2, <2>1 DEF CanTurnFinished, ProgramInv, IntentsComeFirst, AbandonCompletes
<1>3. ASSUME CompleteTurn, intent # "abandon" PROVE CanTurnFinished("interrupted")
  <2>1. intent = "recover_interrupted" /\ \A d \in Call : call[d] \notin Open
    BY <1>3 DEF CompleteTurn, IntentCalls, ProgramInv, Inv, TypeOK, Intents
  <2>2. \A d \in Call : call[d] # "outcome_unknown"
    BY <2>1, UnsettledIsCurrent DEF ProgramInv, Inv, InterruptedIntentIsCertain, CallsIn
  <2>3. ~blocked /\ active # NoTurn
    BY <2>1, <2>2 DEF ProgramInv, Inv, BlockedIffUnknown, InterruptedIntentIsCertain
  <2> QED BY <2>1, <2>3 DEF CanTurnFinished, CallsIn, TurnCalls
<1>4. ASSUME Abandon PROVE CanRecoveryIntent("abandon")
  <2>1. PICK d \in Call : call[d] = "outcome_unknown"
    BY <1>4 DEF Abandon, ProgramInv, Inv, BlockedIffUnknown
  <2>2. d \in TurnCalls /\ active # NoTurn
    BY <2>1, UnsettledIsCurrent DEF ProgramInv
  <2> QED BY <1>4, <2>1, <2>2, NoIntent DEF Abandon, CanRecoveryIntent, CallsIn
<1> QED
  BY <1>1, <1>2, <1>3, <1>4

(* So no writer is refused, in any step of the program or of its user.       *)
LEMMA NothingIsRejected ==
  ASSUME ProgramInv, [SessionNext]_vars
  PROVE  NothingRejected'
<1>1. rejected = {}
  BY DEF ProgramInv, NothingRejected
<1> USE <1>1 DEF NothingRejected
<1>2. CASE Turns
  BY <1>2 DEF Turns, ResumeTurn, AcceptBatch, EndSampling, FinalizeAfterLimit, ProjectionFails,
              CloseCall, Closed, FinishTurn, FinishRefusedOnce, Escape
<1>3. CASE Execution
  <2>1. ASSUME NEW c \in Call, NEW status \in UnstartedEnds, Refuse(c, status) PROVE rejected' = {}
    BY <2>1, ExecutionIsAccepted DEF Refuse, Write
  <2>2. ASSUME NEW c \in Call, NEW answer, Decide(c, answer) PROVE rejected' = {}
    BY <2>2, ExecutionIsAccepted DEF Decide, Write
  <2>3. ASSUME NEW c \in Call, FinishRefused(c) PROVE rejected' = {}
    BY <2>3, ExecutionIsAccepted DEF FinishRefused, Write
  <2>4. ASSUME NEW c \in Call, Start(c) PROVE rejected' = {}
    BY <2>4, ExecutionIsAccepted DEF Start, Write
  <2>5. ASSUME NEW c \in Call, RunBody(c) PROVE rejected' = {}
    <3>1. CASE Tool[c] = "exit_plan_mode"
      BY <2>5, <3>1, ExecutionIsAccepted DEF RunBody, Write
    <3>2. CASE Tool[c] = "run_code"
      BY <2>5, <3>2, ExecutionIsAccepted DEF RunBody, Write
    <3>3. CASE Tool[c] \notin {"exit_plan_mode", "run_code"}
      BY <2>5, <3>3 DEF RunBody
    <3> QED BY <3>1, <3>2, <3>3
  <2>6. ASSUME NEW c \in Call, Commit(c) PROVE rejected' = {}
    BY <2>6, ExecutionIsAccepted DEF Commit, Write
  <2>7. ASSUME NEW c \in Call, CommitThenInterrupt(c) PROVE rejected' = {}
    BY <2>7, ExecutionIsAccepted DEF CommitThenInterrupt, Write
  <2> QED
    BY <1>3, <2>1, <2>2, <2>3, <2>4, <2>5, <2>6, <2>7
    DEF Execution, ExceedLimit, EndBody, EndBatch, Drained
<1>4. CASE CodeMode
  <2>1. ASSUME NEW p \in Call, NEW n \in Call, PlanNode(p, n) PROVE rejected' = {}
    BY <2>1, CodeModeIsAccepted DEF PlanNode, Write
  <2>2. ASSUME NEW n \in Call, NEW status \in {"upstream_failed", "not_executed"}, SkipNode(n, status)
        PROVE  rejected' = {}
    BY <2>2, CodeModeIsAccepted DEF SkipNode, Write
  <2>3. ASSUME NEW p \in Call, NEW status, EndRun(p, status) PROVE rejected' = {}
    BY <2>3, CodeModeIsAccepted DEF EndRun, Write
  <2>4. ASSUME NEW n \in Call, AbortNode(n) PROVE rejected' = {}
    BY <2>4, CodeModeIsAccepted DEF AbortNode, Write
  <2>5. ASSUME NEW p \in Call, AbortRun(p) PROVE rejected' = {}
    BY <2>5, CodeModeIsAccepted DEF AbortRun, Write
  <2> QED BY <1>4, <2>1, <2>2, <2>3, <2>4, <2>5 DEF CodeMode
<1>5. CASE Recovery
  <2> USE DEF Recover, Write
  <2>1. ASSUME NEW p \in Call, NEW n \in Call, RecoverNode(p, n) PROVE rejected' = {}
    BY <2>1, RecoveryIsAccepted DEF RecoverNode
  <2>2. ASSUME NEW c \in Call, RecoverRun(c) PROVE rejected' = {}
    BY <2>2, RecoveryIsAccepted DEF RecoverRun
  <2>3. ASSUME NEW c \in Call, RecoverParent(c) PROVE rejected' = {}
    BY <2>3, RecoveryIsAccepted DEF RecoverParent
  <2>4. ASSUME NEW c \in Call, RecoverCall(c) PROVE rejected' = {}
    BY <2>4, RecoveryIsAccepted DEF RecoverCall
  <2>5. ASSUME NEW c \in Call, CompleteCall(c) PROVE rejected' = {}
    BY <2>5, RecoveryIsAccepted DEF CompleteCall
  <2>6. ASSUME RecoverIntent \/ CompleteTurn \/ Abandon PROVE rejected' = {}
    BY <2>6, IntentIsAccepted DEF RecoverIntent, CompleteTurn, Abandon
  <2>7. ASSUME NEW c \in Call, NEW outcome \in Outcomes, Reconcile(c, outcome) PROVE rejected' = {}
    BY <2>7, RecoveryIsAccepted DEF Reconcile
  <2> QED
    BY <1>5, <2>1, <2>2, <2>3, <2>4, <2>5, <2>6, <2>7
    DEF Recovery, Restart, Recovered, Unblocked
<1>6. CASE User
  <2>1. ASSUME Command PROVE rejected' = {}
    BY <2>1, NoIntent DEF Command, Write, CanPlanModeSet, CanApprovalReset
  <2> QED
    BY <1>6, <2>1
    DEF User, StartTurn, Stop, InterruptBody, InterruptAbort, InterruptWait, InterruptExecutor,
        InterruptTurn, InterruptAppend
<1>7. CASE UNCHANGED vars
  BY <1>7 DEF vars
<1> QED BY <1>2, <1>3, <1>4, <1>5, <1>6, <1>7 DEF SessionNext, Program

-----------------------------------------------------------------------------
(* The parts of the invariant that hold wherever the program is. *)

(* The counters and what is in hand keep their types. *)
LEMMA SizesStep ==
  ASSUME Sizes, [SessionNext]_vars
  PROVE  Sizes'
<1> USE DEF Sizes, Phases, Bodies, Ended, control, ghosts, Hold
<1>1. CASE Turns
  BY <1>1 DEF Turns, ResumeTurn, AcceptBatch, EndSampling, FinalizeAfterLimit, ProjectionFails, CloseCall,
              Closed, FinishTurn, FinishRefusedOnce, Escape, Close
<1>2. CASE Execution
  <2>1. ASSUME NEW c \in Call, NEW status \in UnstartedEnds, Refuse(c, status) PROVE Sizes'
    BY <2>1 DEF Refuse
  <2>2. ASSUME NEW c \in Call, NEW answer \in {"once", "session", "deny", "interrupt"}, Decide(c, answer)
        PROVE  Sizes'
    BY <2>2 DEF Decide
  <2>3. ASSUME NEW c \in Call, FinishRefused(c) PROVE Sizes'
    BY <2>3 DEF FinishRefused, Propagate, Close
  <2>4. ASSUME NEW c \in Call, Start(c) PROVE Sizes'
    BY <2>4 DEF Start
  <2>5. ASSUME NEW c \in Call, RunBody(c) PROVE Sizes'
    <3>1. \E what \in {"running", "succeeded"} : Hold(c, what)
      BY <2>5 DEF RunBody
    <3> QED BY <2>5, <3>1 DEF RunBody
  <2>6. ASSUME NEW c \in Call, Commit(c) \/ CommitThenInterrupt(c) PROVE Sizes'
    BY <2>6 DEF Commit, CommitThenInterrupt, Close
  <2>7. ASSUME NEW c \in Call, ExceedLimit(c) PROVE Sizes'
    BY <2>7 DEF ExceedLimit
  <2>8. ASSUME NEW c \in Call, NEW outcome \in Ended, EndBody(c, outcome) PROVE Sizes'
    BY <2>8 DEF EndBody
  <2>9. CASE EndBatch \/ Drained
    BY <2>9 DEF EndBatch, Drained, Close
  <2> QED BY <1>2, <2>1, <2>2, <2>3, <2>4, <2>5, <2>6, <2>7, <2>8, <2>9 DEF Execution
<1>3. CASE CodeMode
  <2>1. ASSUME NEW p \in Call, NEW status \in {"succeeded", "failed"}, EndRun(p, status) PROVE Sizes'
    BY <2>1 DEF EndRun
  <2>2. ASSUME NEW p \in Call, AbortRun(p) PROVE Sizes'
    BY <2>2 DEF AbortRun
  <2> QED BY <1>3, <2>1, <2>2 DEF CodeMode, PlanNode, SkipNode, AbortNode
<1>4. CASE Recovery
  BY <1>4 DEF Recovery, Restart, RecoverNode, RecoverRun, RecoverParent, RecoverCall, CompleteCall,
              RecoverIntent, Recovered, CompleteTurn, Reconcile, Abandon, Unblocked, Recover
<1>5. CASE User
  <2>1. ASSUME NEW c \in Call, InterruptBody(c) PROVE Sizes'
    BY <2>1 DEF InterruptBody
  <2>2. ASSUME NEW c \in Call, InterruptAbort(c) PROVE Sizes'
    BY <2>2 DEF InterruptAbort
  <2>3. CASE InterruptExecutor
    BY <2>3 DEF InterruptExecutor, Propagate, Close
  <2>4. CASE InterruptTurn
    BY <2>4 DEF InterruptTurn, Close
  <2> QED
    BY <1>5, <2>1, <2>2, <2>3, <2>4 DEF User, StartTurn, Command, Stop, InterruptWait, InterruptAppend
<1>6. CASE UNCHANGED vars
  BY <1>6 DEF vars
<1> QED BY <1>1, <1>2, <1>3, <1>4, <1>5, <1>6 DEF SessionNext, Program

(* What recovery records, it does in its own phases; only it leaves an       *)
(* intent behind. *)
LEMMA IntentStep ==
  ASSUME ProgramInv, [SessionNext]_vars
  PROVE  IntentsComeFirst'
<1> USE DEF IntentsComeFirst, AbandonCompletes, ToolFinished, control
<1>0. phase \notin {"recover", "down"} => intent = "none"
  BY NoIntent
<1>1. CASE Turns
  <2>1. intent = "none"
    BY <1>0, <1>1
    DEF Turns, ResumeTurn, AcceptBatch, EndSampling, FinalizeAfterLimit, ProjectionFails, CloseCall,
        Closed, FinishTurn, FinishRefusedOnce, Escape
  <2>2. intent' = "none"
    BY <1>1, <2>1
    DEF Turns, ResumeTurn, AcceptBatch, AssistantAccepted, EndSampling, FinalizeAfterLimit,
        ProjectionFails, CloseCall, Closed, FinishTurn, TurnFinished, FinishRefusedOnce, Escape, facts
  <2> QED BY <2>2
<1>2. CASE Execution
  <2>1. phase \in {"batch", "drain"} /\ intent' = intent
    BY <1>2
    DEF Execution, Refuse, Preparing, Decide, FinishRefused, Start, RunBody, Commit, CommitThenInterrupt,
        ExceedLimit, EndBody, EndBatch, Drained, Write, facts, ToolStarted, PlanModeSet, CodeRunStarted,
        ApprovalDecided
  <2> QED BY <1>0, <2>1
<1>3. CASE CodeMode
  <2>1. phase \in {"batch", "abort"} /\ intent' = intent
    BY <1>3
    DEF CodeMode, PlanNode, SkipNode, Preparing, EndRun, AbortNode, AbortRun, Write, facts,
        CodeNodePlanned, CodeRunFinished
  <2> QED BY <1>0, <2>1
<1>4. CASE Recovery
  <2> USE DEF Recover, Write, facts
  <2>1. ASSUME NEW c \in Call, CompleteCall(c) PROVE IntentsComeFirst'
    <3>1. phase' = phase /\ intent' = intent /\ active' = active /\ owner' = owner
      BY <2>1 DEF CompleteCall, ToolReconciled
    <3>2. \A d \in Call : call'[d] \in Open => call[d] \in Open
      BY <2>1, Kinds
      DEF CompleteCall, ToolReconciled, ReconciledAs, LostAs, Open, ProgramInv, Inv, TypeOK
    <3> QED BY <3>1, <3>2 DEF ProgramInv, CallsIn, TurnCalls
  <2>2. CASE CompleteTurn
    <3>1. intent' = "none"
      BY <2>2, IntentIsAccepted DEF CompleteTurn, TurnFinished
    <3> QED BY <3>1
  <2>3. CASE RecoverIntent
    BY <2>3 DEF RecoverIntent, RecoveryIntent, ProgramInv, Recovering
  <2>4. CASE Abandon
    <3>1. CanRecoveryIntent("abandon") /\ RecoveryIntent("abandon")
      BY <2>4, IntentIsAccepted DEF Abandon
    <3> QED BY <2>4, <3>1 DEF Abandon, CanRecoveryIntent, RecoveryIntent, CallsIn, TurnCalls,
                              ProgramInv, QuietBetween
  <2>5. ASSUME Restart PROVE IntentsComeFirst'
    BY <2>5 DEF Restart, ProgramInv, CallsIn, TurnCalls
  <2>6. ASSUME ~CompleteTurn, ~RecoverIntent, ~Abandon, ~Restart,
               \A c \in Call : ~CompleteCall(c)
        PROVE  intent' = intent /\ intent = "none"
    BY <1>0, <1>4, <2>6
    DEF Recovery, RecoverNode, RecoverRun, RecoverParent, RecoverCall, Recovered, Reconcile, Unblocked,
        Recovering, CodeRunFinished, ToolReconciled
  <2> QED BY <2>1, <2>2, <2>3, <2>4, <2>5, <2>6
<1>5. CASE User
  <2>1. CASE phase = "down"
    BY <1>5, <2>1
    DEF User, StartTurn, Command, Stop, InterruptBody, InterruptAbort, InterruptWait, InterruptExecutor,
        InterruptTurn, InterruptAppend, InRun
  <2>2. CASE Stop
    BY <2>2 DEF Stop, facts, ProgramInv, CallsIn, TurnCalls
  <2>3. CASE ~Stop
    <3>1. phase \notin {"recover", "down"} /\ intent' = intent
      BY <1>5, <2>3
      DEF User, StartTurn, TurnStarted, Command, Write, PlanModeSet, ApprovalReset, InterruptBody,
          InterruptAbort, InterruptWait, InterruptExecutor, InterruptTurn, InterruptAppend, facts
    <3> QED BY <1>0, <3>1
  <2> QED BY <2>1, <2>2, <2>3
<1>6. CASE UNCHANGED vars
  BY <1>6 DEF vars, facts, ProgramInv, CallsIn, TurnCalls
<1> QED BY <1>1, <1>2, <1>3, <1>4, <1>5, <1>6 DEF SessionNext, Program

(* Where no batch is in hand, nothing is open and nothing is held. *)
LEMMA QuietStep ==
  ASSUME ProgramInv, [SessionNext]_vars
  PROVE  QuietBetween'
<1> USE DEF QuietBetween
<1>1. CASE Turns
  <2> USE DEF control
  <2>1. CASE ResumeTurn
    BY <2>1 DEF ResumeTurn, Continuable, facts, ProgramInv, Inv, BlockedIffUnknown
  <2>2. CASE FinishTurn
    <3>1. CallsIn(Open) = {} /\ call' = call
      BY <2>2 DEF FinishTurn, CanTurnFinished, TurnFinished
    <3>2. \A c \in Call : call[c] \notin Open
      BY <3>1, NoneOfTheTurn DEF ProgramInv
    <3> QED BY <2>2, <3>1, <3>2 DEF FinishTurn
  <2>3. ASSUME ~ResumeTurn, ~FinishTurn
        PROVE  phase' \in {"batch", "finish", "close", "down"}
    BY <1>1, <2>3
    DEF Turns, AcceptBatch, EndSampling, FinalizeAfterLimit, ProjectionFails, CloseCall, Closed,
        FinishRefusedOnce, Escape, Close
  <2> QED BY <2>1, <2>2, <2>3
<1>2. CASE Execution
  <2>1. CASE EndBatch
    <3>1. \A c \in Call : call[c] \notin Open
      BY <2>1, Kinds, LimitedIsCalls DEF EndBatch, ProgramInv, OpenIsInBatch, InBatch
    <3>2. \A c \in Call : body[c] = "none"
      BY <2>1, <3>1 DEF EndBatch, ProgramInv, InHands
    <3>3. \A c \in Call : call[c] # "outcome_unknown"
      BY <2>1, Kinds, LimitedIsCalls DEF EndBatch, ProgramInv, InHands
    <3> QED BY <2>1, <3>1, <3>2, <3>3 DEF EndBatch, facts
  <2>2. CASE ~EndBatch
    BY <1>2, <2>2
    DEF Execution, Refuse, Preparing, Decide, FinishRefused, Propagate, Start, RunBody, Commit, Close,
        CommitThenInterrupt, ExceedLimit, EndBody, Drained, control
  <2> QED BY <2>1, <2>2
<1>3. CASE CodeMode
  BY <1>3 DEF CodeMode, PlanNode, SkipNode, Preparing, EndRun, AbortNode, AbortRun
<1>4. CASE Recovery
  <2> USE DEF Recover
  <2>1. CASE Restart
    BY <2>1 DEF Restart, Sizes
  <2>2. CASE Recovered
    BY <2>2 DEF Recovered, Recovering, facts, ProgramInv
  <2>3. CASE CompleteTurn
    <3>1. CanTurnFinished(IF intent = "abandon" THEN "abandoned" ELSE "interrupted") /\ call' = call
      BY <2>3, IntentIsAccepted DEF CompleteTurn, Write, facts, TurnFinished
    <3>2. \A c \in Call : call[c] \notin Open
      BY <3>1, NoneOfTheTurn DEF ProgramInv, CanTurnFinished
    <3> QED BY <2>3, <3>1, <3>2 DEF CompleteTurn, ProgramInv
  <2>4. ASSUME NEW c \in Call, NEW outcome \in Outcomes, Reconcile(c, outcome) PROVE QuietBetween'
    <3>1. CanToolReconciled(c, outcome) /\ ToolReconciled(c, outcome)
      BY <2>4, RecoveryIsAccepted, NothingIsRejected DEF Reconcile, Write
    <3>2. \A d \in Call : call'[d] \in Open => call[d] \in Open
      BY <3>1 DEF ToolReconciled, ReconciledAs, Outcomes, Open, ProgramInv, Inv, TypeOK
    <3> QED BY <2>4, <3>2 DEF Reconcile, ProgramInv
  <2>5. CASE Unblocked
    BY <2>5 DEF Unblocked, facts, ProgramInv
  <2>6. ASSUME ~Restart, ~Recovered, ~CompleteTurn, ~Unblocked,
               \A c \in Call, outcome \in Outcomes : ~Reconcile(c, outcome)
        PROVE  phase' = "recover" /\ body' = body /\ phase \in {"recover", "operator"}
    BY <1>4, <2>6
    DEF Recovery, RecoverNode, RecoverRun, RecoverParent, RecoverCall, CompleteCall, RecoverIntent,
        Abandon, Recovering
  <2> QED BY <2>1, <2>2, <2>3, <2>4, <2>5, <2>6 DEF ProgramInv
<1>5. CASE User
  <2>1. ASSUME NEW t \in Turn, StartTurn(t) PROVE QuietBetween'
    <3>1. \A c \in Call : call[c] # "outcome_unknown"
      BY <2>1, UnsettledIsCurrent DEF StartTurn, ProgramInv
    <3> QED BY <2>1, <3>1 DEF StartTurn, TurnStarted, ProgramInv
  <2>2. CASE Command
    BY <2>2 DEF Command, Write, PlanModeSet, ApprovalReset, facts, ProgramInv
  <2>3. ASSUME ~Command, \A t \in Turn : ~StartTurn(t)
        PROVE  phase' \in {"batch", "drain", "abort", "close", "down"}
    BY <1>5, <2>3
    DEF User, Stop, InterruptBody, InterruptAbort, InterruptWait, InterruptExecutor, Propagate, Close,
        InterruptTurn, InterruptAppend, control
  <2> QED BY <2>1, <2>2, <2>3
<1>6. CASE UNCHANGED vars
  BY <1>6 DEF vars, facts, ProgramInv
<1> QED BY <1>1, <1>2, <1>3, <1>4, <1>5, <1>6 DEF SessionNext, Program

-----------------------------------------------------------------------------
(* What is on record of each call. *)

(* A step after which no call is new and none has begun.                     *)
NothingBegins ==
  /\ parent' = parent
  /\ \A c \in Call :
       /\ call'[c] = call[c] \/ (call[c] # "absent" /\ call'[c] \in Terminal)
       /\ approved'[c] = approved[c] \/ (approved[c] = "undecided" /\ call[c] # "absent")
       /\ run'[c] # "absent" => run[c] # "absent"

(* Most events are such steps: those that end a call or a run, decide, or    *)
(* concern the turn.                                                         *)
LEMMA EventsThatBeginNothing ==
  ASSUME Inv, NEW c \in Call
  PROVE  /\ UNCHANGED facts => NothingBegins
         /\ \A status \in Terminal : CanToolFinished(c, status) /\ ToolFinished(c, status) => NothingBegins
         /\ \A outcome \in Outcomes : CanToolReconciled(c, outcome) /\ ToolReconciled(c, outcome) => NothingBegins
         /\ \A allow, scope1 : CanApprovalDecided(c) /\ ApprovalDecided(c, allow, scope1) => NothingBegins
         /\ \A status : CanCodeRunFinished(c) /\ CodeRunFinished(c, status) => NothingBegins
<1> USE DEF NothingBegins, Inv, TypeOK
<1>1. UNCHANGED facts => NothingBegins
  BY DEF facts
<1>2. ASSUME NEW status \in Terminal, CanToolFinished(c, status), ToolFinished(c, status) PROVE NothingBegins
  BY <1>2, Kinds DEF CanToolFinished, FinishAllowed, ToolFinished
<1>3. ASSUME NEW outcome \in Outcomes, CanToolReconciled(c, outcome), ToolReconciled(c, outcome)
      PROVE  NothingBegins
  <2>1. ReconciledAs(outcome) \in Terminal
    BY DEF Outcomes, ReconciledAs, Terminal, Reconciled
  <2> QED BY <1>3, <2>1, Kinds DEF CanToolReconciled, ToolReconciled
<1>4. ASSUME NEW allow, NEW scope1, CanApprovalDecided(c), ApprovalDecided(c, allow, scope1)
      PROVE  NothingBegins
  BY <1>4 DEF CanApprovalDecided, ApprovalDecided
<1>5. ASSUME NEW status, CanCodeRunFinished(c), CodeRunFinished(c, status) PROVE NothingBegins
  BY <1>5 DEF CanCodeRunFinished, CodeRunFinished
<1> QED BY <1>1, <1>2, <1>3, <1>4, <1>5

(* The events of the turn begin nothing either. *)
LEMMA TurnsBeginNothing ==
  ASSUME Inv
  PROVE  /\ \A t : TurnStarted(t) => NothingBegins
         /\ \A status : TurnFinished(status) => NothingBegins
         /\ \A action : RecoveryIntent(action) => NothingBegins
         /\ \A on : PlanModeSet(on) => NothingBegins
         /\ ApprovalReset => NothingBegins
         /\ UNCHANGED facts => NothingBegins
BY DEF NothingBegins, Inv, TypeOK, TurnStarted, TurnFinished, RecoveryIntent, PlanModeSet, ApprovalReset, facts

(* Every step begins nothing and leaves ran alone, but for the four that     *)
(* accept a batch, plan a node, start a call and run its body.               *)
LEMMA StepsThatBegin ==
  ASSUME ProgramInv, [SessionNext]_vars
  PROVE  \/ NothingBegins /\ ran' = ran
         \/ \E calls \in SUBSET Call : AcceptBatch(calls)
         \/ \E p, n \in Call : PlanNode(p, n)
         \/ \E c \in Call : Start(c) \/ RunBody(c)
<1> DEFINE Idle == NothingBegins /\ ran' = ran
<1> USE DEF ghosts
<1>0. /\ Inv
      /\ UNCHANGED facts => NothingBegins
      /\ rejected' = {} /\ rejected = {}
  BY TurnsBeginNothing, NothingIsRejected DEF ProgramInv, NothingRejected
<1>1. CASE Turns
  <2>1. ASSUME NEW c \in Call, CloseCall(c) PROVE Idle
    <3>1. PICK status \in {"cancelled", "not_executed"} :
             CanToolFinished(c, status) /\ ToolFinished(c, status)
      BY <2>1 DEF CloseCall
    <3>2. status \in Terminal
      BY DEF Terminal, UnstartedEnds
    <3> QED BY <1>0, <2>1, <3>1, <3>2, EventsThatBeginNothing DEF CloseCall
  <2>2. ASSUME FinishTurn PROVE Idle
    BY <1>0, <2>2, TurnsBeginNothing DEF FinishTurn
  <2> QED
    BY <1>0, <1>1, <2>1, <2>2
    DEF Turns, ResumeTurn, EndSampling, FinalizeAfterLimit, ProjectionFails, Closed, FinishRefusedOnce, Escape
<1>2. CASE Execution
  <2>1. ASSUME NEW c \in Call, NEW status \in UnstartedEnds, Refuse(c, status) PROVE Idle
    <3>1. CanToolFinished(c, status) /\ ToolFinished(c, status) /\ status \in Terminal
      BY <2>1, ExecutionIsAccepted DEF Refuse, Write, Terminal
    <3> QED BY <1>0, <2>1, <3>1, EventsThatBeginNothing DEF Refuse
  <2>2. ASSUME NEW c \in Call, NEW answer, Decide(c, answer) PROVE Idle
    <3>1. \E allow, scope1 : CanApprovalDecided(c) /\ ApprovalDecided(c, allow, scope1)
      BY <2>2, ExecutionIsAccepted DEF Decide, Write
    <3> QED BY <1>0, <2>2, <3>1, EventsThatBeginNothing DEF Decide
  <2>3. ASSUME NEW c \in Call, FinishRefused(c) \/ Commit(c) \/ CommitThenInterrupt(c) PROVE Idle
    <3>1. CanToolFinished(c, body[c]) /\ ToolFinished(c, body[c])
      BY <2>3, ExecutionIsAccepted DEF FinishRefused, Commit, CommitThenInterrupt, Write
    <3>2. body[c] \in Terminal
      BY <2>3 DEF FinishRefused, Commit, CommitThenInterrupt, InHand, Ended, Terminal, UnstartedEnds, StartedEnds
    <3> QED BY <1>0, <2>3, <3>1, <3>2, EventsThatBeginNothing DEF FinishRefused, Commit, CommitThenInterrupt
  <2>4. ASSUME NEW c \in Call, ExceedLimit(c) PROVE Idle
    <3>1. "batch_limit_exceeded" \in Terminal
      BY DEF Terminal, UnstartedEnds
    <3> QED BY <1>0, <2>4, <3>1, EventsThatBeginNothing DEF ExceedLimit
  <2> QED
    BY <1>0, <1>2, <2>1, <2>2, <2>3, <2>4 DEF Execution, EndBody, EndBatch, Drained
<1>3. CASE CodeMode
  <2>1. ASSUME NEW n \in Call, NEW status \in {"upstream_failed", "not_executed"}, SkipNode(n, status) PROVE Idle
    <3>1. CanToolFinished(n, status) /\ ToolFinished(n, status) /\ status \in Terminal
      BY <2>1, CodeModeIsAccepted DEF SkipNode, Write, Terminal, UnstartedEnds
    <3> QED BY <1>0, <2>1, <3>1, EventsThatBeginNothing DEF SkipNode
  <2>2. ASSUME NEW p \in Call, NEW status, EndRun(p, status) PROVE Idle
    <3>1. CanCodeRunFinished(p) /\ CodeRunFinished(p, status)
      BY <2>2, CodeModeIsAccepted DEF EndRun, Write
    <3> QED BY <1>0, <2>2, <3>1, EventsThatBeginNothing DEF EndRun
  <2>3. ASSUME NEW n \in Call, AbortNode(n) PROVE Idle
    <3>1. PICK status \in {"outcome_unknown", "not_executed"} :
             CanToolFinished(n, status) /\ ToolFinished(n, status)
      BY <2>3, CodeModeIsAccepted DEF AbortNode, Write
    <3>2. status \in Terminal
      BY DEF Terminal, UnstartedEnds, StartedEnds
    <3> QED BY <1>0, <2>3, <3>1, <3>2, EventsThatBeginNothing DEF AbortNode
  <2>4. ASSUME NEW p \in Call, AbortRun(p) PROVE Idle
    <3>1. CanCodeRunFinished(p) /\ CodeRunFinished(p, "interrupted")
      BY <2>4, CodeModeIsAccepted DEF AbortRun, Write
    <3> QED BY <1>0, <2>4, <3>1, EventsThatBeginNothing DEF AbortRun
  <2> QED BY <1>3, <2>1, <2>2, <2>3, <2>4 DEF CodeMode
<1>4. CASE Recovery
  <2> USE DEF Recover, Write
  <2>1. \A c \in Call : LostAs(c) \in Terminal /\ "failed" \in Terminal
    BY DEF LostAs, Terminal, UnstartedEnds, StartedEnds
  <2>2. ASSUME NEW p \in Call, NEW n \in Call, RecoverNode(p, n) PROVE Idle
    BY <1>0, <2>1, <2>2, RecoveryIsAccepted, EventsThatBeginNothing DEF RecoverNode
  <2>3. ASSUME NEW c \in Call, RecoverRun(c) PROVE Idle
    BY <1>0, <2>3, RecoveryIsAccepted, EventsThatBeginNothing DEF RecoverRun
  <2>4. ASSUME NEW c \in Call, RecoverParent(c) \/ RecoverCall(c) PROVE Idle
    BY <1>0, <2>1, <2>4, RecoveryIsAccepted, EventsThatBeginNothing DEF RecoverParent, RecoverCall
  <2>5. ASSUME NEW c \in Call, CompleteCall(c) PROVE Idle
    BY <1>0, <2>1, <2>5, RecoveryIsAccepted, EventsThatBeginNothing DEF CompleteCall, Outcomes
  <2>6. ASSUME NEW c \in Call, NEW outcome \in Outcomes, Reconcile(c, outcome) PROVE Idle
    BY <1>0, <2>6, RecoveryIsAccepted, EventsThatBeginNothing DEF Reconcile
  <2>7. ASSUME RecoverIntent \/ Abandon \/ CompleteTurn PROVE Idle
    BY <1>0, <2>7, TurnsBeginNothing DEF RecoverIntent, Abandon, CompleteTurn
  <2> QED
    BY <1>0, <1>4, <2>2, <2>3, <2>4, <2>5, <2>6, <2>7 DEF Recovery, Restart, Recovered, Unblocked
<1>5. CASE User
  <2>1. ASSUME NEW t \in Turn, StartTurn(t) PROVE Idle
    BY <1>0, <2>1, TurnsBeginNothing DEF StartTurn
  <2>2. ASSUME Command PROVE Idle
    BY <1>0, <2>2, TurnsBeginNothing DEF Command, Write
  <2> QED
    BY <1>0, <1>5, <2>1, <2>2
    DEF User, Stop, InterruptBody, InterruptAbort, InterruptWait, InterruptExecutor, InterruptTurn, InterruptAppend
<1>6. CASE UNCHANGED vars
  BY <1>0, <1>6 DEF vars
<1> QED BY <1>1, <1>2, <1>3, <1>4, <1>5, <1>6 DEF SessionNext, Program

(* A call that has not started has not run, and one that needs an approval   *)
(* started under it. *)
LEMMA OnRecordStep ==
  ASSUME ProgramInv, [SessionNext]_vars
  PROVE  OnRecord'
<1> USE DEF OnRecord
<1>0. OnRecord /\ Inv
  BY DEF ProgramInv
<1>1. CASE NothingBegins /\ ran' = ran
  <2>1. \A c \in Call : call[c] # "started" => call'[c] # "started"
    BY <1>1, Kinds DEF NothingBegins
  <2>2. \A c \in Call : /\ call'[c] = "absent" => call[c] = "absent"
                        /\ call'[c] = "requested" => call[c] = "requested"
    BY <1>1, Kinds DEF NothingBegins
  <2> QED
    BY <1>0, <1>1, <2>1, <2>2 DEF NothingBegins, NeedsApproval
<1>2. ASSUME NEW calls \in SUBSET Call, AcceptBatch(calls) PROVE OnRecord'
  BY <1>0, <1>2
  DEF AcceptBatch, CanAssistantAccepted, AssistantAccepted, NeedsApproval, Inv, TypeOK
<1>3. ASSUME NEW p \in Call, NEW n \in Call, PlanNode(p, n) PROVE OnRecord'
  <2>1. CodeNodePlanned(p, n)
    BY <1>3, CodeModeIsAccepted DEF PlanNode, Write
  <2> QED BY <1>0, <1>3, <2>1, CallsAreKeys DEF PlanNode, CodeNodePlanned, ghosts, NeedsApproval, Inv, TypeOK
<1>4. ASSUME NEW c \in Call, Start(c) PROVE OnRecord'
  <2>1. ToolStarted(c)
    BY <1>4, ExecutionIsAccepted DEF Start, Write
  <2> QED BY <1>0, <1>4, <2>1 DEF Start, Pending, ToolStarted, ghosts, NeedsApproval, Inv, TypeOK
<1>5. ASSUME NEW c \in Call, RunBody(c) PROVE OnRecord'
  <2>1. /\ call[c] = "started" /\ UNCHANGED <<call, parent, approved>>
        /\ run' = run \/ (Tool[c] = "run_code" /\ run' = [run EXCEPT ![c] = "active"])
    BY <1>5 DEF RunBody, Write, PlanModeSet, CodeRunStarted, facts
  <2>2. ran' = [ran EXCEPT ![c] = ran[c] + 1] /\ ran \in [Call -> Nat]
    BY <1>5 DEF RunBody, ProgramInv, Sizes
  <2> QED BY <1>0, <2>1, <2>2 DEF NeedsApproval, Inv, TypeOK
<1> QED BY <1>1, <1>2, <1>3, <1>4, <1>5, StepsThatBegin

-----------------------------------------------------------------------------
(* Inside a batch.  Its steps are of few kinds: a result is recorded, only   *)
(* what is in hand changes, an interrupted code run is given up, and the     *)
(* five steps by which something begins.                                     *)

BatchInv == OpenIsInBatch /\ InModelOrder /\ ApprovedOutsidePlan /\ InHands /\ NotYetRun

(* The parent of a node is a call of run_code. *)
LEMMA ParentsRunCode ==
  ASSUME ProgramInv, NEW n \in Call, parent[n] # NoCall
  PROVE  parent[n] \in Call /\ Tool[parent[n]] = "run_code" /\ call[n] # "absent"
BY DEF ProgramInv, Inv, TypeOK, FinishedRunsAreClosed, OnRecord

(* A result of c is recorded: c is no live run and none of its nodes is open,*)
(* and nothing of it stays in hand.                                          *)
Records(c) ==
  /\ UNCHANGED <<active, parent, approved, run, planMode, ran, batch>>
  /\ call[c] \in Open /\ \E s \in Terminal : call' = [call EXCEPT ![c] = s]
  /\ \A d \in Call : call[d] \in Open => parent[d] # c
  /\ \A d \in Call \ {c} : body'[d] = body[d]
  /\ body'[c] = "running" => body[c] = "running"
  /\ ~InRun(c)
  /\ phase \in InBatch
  /\ phase' = phase \/ phase' = "abort"
  /\ phase' \in {"batch", "drain"} =>
        body'[c] = "none" /\ body[c] # "interrupted" /\ call'[c] # "outcome_unknown"

(* Recording one result keeps the order and what is in hand of the others.   *)
LEMMA RecordsKeeps ==
  ASSUME ProgramInv, NEW c \in Call, Records(c)
  PROVE  BatchInv'
<1> USE DEF InBatch
<1>1. /\ Limited' = Limited /\ \A d \in Call : Before(d)' = Before(d)
      /\ Limited \subseteq Call /\ \A d \in Call : Before(d) \subseteq Limited
  BY SameBatch, LimitedIsCalls DEF Records, ProgramInv
<1>2. \A d \in Call : d # c => call'[d] = call[d]
  BY DEF Records, ProgramInv, Inv, TypeOK
<1>3. call[c] \in Open /\ call'[c] \in Terminal
  BY DEF Records, ProgramInv, Inv, TypeOK
<1>4. \A d \in Call : InRun(d)' => InRun(d) /\ d # c
  BY DEF Records, InRun
<1>5. OpenIsInBatch'
  <2>1. \A d \in batch : parent[d] = NoCall /\ call'[d] # "absent"
    BY <1>2, <1>3, Kinds DEF Records, ProgramInv, OpenIsInBatch, Sizes
  <2>2. ASSUME NEW d \in Call, call'[d] \in Open
        PROVE  d \in batch \/ (parent[d] \in Limited /\ call'[parent[d]] = "started")
    BY <1>1, <1>2, <1>3, <2>2, Kinds DEF Records, ProgramInv, OpenIsInBatch
  <2>3. \A p \in Call : InRun(p)' => p \in Limited /\ call'[p] = "started"
    BY <1>2, <1>4 DEF Records, ProgramInv, OpenIsInBatch
  <2> QED BY <1>1, <2>1, <2>2, <2>3 DEF OpenIsInBatch, Records, ProgramInv
<1>6. InModelOrder'
  <2>1. \A d \in Call : call[d] \in Terminal => call'[d] \in Terminal
    BY <1>2, <1>3
  <2>2. ASSUME NEW d \in Limited, call'[d] = "started", NEW e \in Before(d)
        PROVE  call'[e] \in Terminal \/ (call'[e] = "started" /\ Parallel(d) /\ Parallel(e))
    BY <1>1, <1>2, <1>3, <2>2, Kinds DEF Records, ProgramInv, InModelOrder
  <2>3. ASSUME NEW d \in Limited, call'[d] = "requested", approved[d] # "undecided"
        PROVE  \A e \in Before(d) : call'[e] \in Terminal
    BY <1>1, <1>2, <1>3, <2>1, <2>3, Kinds DEF Records, ProgramInv, InModelOrder, AtHead
  <2> QED BY <1>1, <2>2, <2>3 DEF InModelOrder, Records, AtHead, Parallel
<1>7. ApprovedOutsidePlan'
  BY <1>2, <1>3, Kinds DEF ApprovedOutsidePlan, Records, ProgramInv
<1>8. InHands'
  <2> SUFFICES ASSUME phase' \in {"batch", "drain"} PROVE InHands'
    BY DEF InHands
  <2>1. phase \in {"batch", "drain"} /\ body'[c] = "none" /\ body[c] # "interrupted" /\ call'[c] # "outcome_unknown"
    BY DEF Records
  <2>2. ASSUME NEW d \in Call, body'[d] # "none"
        PROVE  call'[d] \in Open /\ (d \in Limited \/ parent[d] # NoCall)
    BY <1>2, <2>1, <2>2 DEF Records, ProgramInv, InHands
  <2>3. ASSUME NEW n \in Call, call'[n] \in Open, parent[n] # NoCall
        PROVE  body'[parent[n]] \in {"running", "interrupted"}
    <3>1. call[n] \in Open /\ parent[n] # c /\ parent[n] \in Call
      BY <1>2, <1>3, <2>3, Kinds, ParentsRunCode DEF Records
    <3> QED BY <2>1, <2>3, <3>1 DEF Records, ProgramInv, InHands
  <2>4. ASSUME NEW d \in Call, call'[d] = "outcome_unknown"
        PROVE  \E p \in Limited : call'[p] = "started" /\ body'[p] = "interrupted"
    <3>1. PICK p \in Limited : call[p] = "started" /\ body[p] = "interrupted"
      BY <1>2, <2>1, <2>4 DEF ProgramInv, InHands
    <3> QED BY <1>1, <1>2, <2>1, <3>1 DEF Records
  <2> QED BY <1>1, <2>2, <2>3, <2>4 DEF InHands, Records
<1>9. NotYetRun'
  <2> SUFFICES ASSUME phase' = "batch", NEW d \in Call, Executing(d)'
               PROVE  /\ call'[d] = "started" /\ body'[d] = "none" => ran'[d] = 0
                      /\ call'[d] = "requested" /\ approved'[d] = "no" => body'[d] \in {"denied", "cancelled"}
    BY DEF NotYetRun
  <2>1. phase = "batch" /\ Executing(d)
    BY <1>1, <1>4 DEF Records, Executing, IsNode, Running
  <2>2. d = c => call'[d] \notin Open
    BY <1>3, Kinds
  <2>3. d # c => call'[d] = call[d] /\ body'[d] = body[d] /\ ran'[d] = ran[d] /\ approved'[d] = approved[d]
    BY <1>2 DEF Records
  <2> QED BY <2>1, <2>2, <2>3, Kinds DEF ProgramInv, NotYetRun
<1> QED BY <1>5, <1>6, <1>7, <1>8, <1>9 DEF BatchInv

(* Only what is in hand changes: a body ends or is interrupted, the batch    *)
(* starts no more, or a Ctrl-C leaves the executor for its code run.         *)
OnlyHands ==
  /\ UNCHANGED <<facts, ran, batch>>
  /\ phase \in InBatch
  /\ \A d \in Call : body'[d] = "running" => body[d] = "running"
  /\ phase' \in {"batch", "drain"} =>
       /\ phase \in {"batch", "drain"}
       /\ phase' = "batch" => phase = "batch"
       /\ \A d \in Call :
            /\ body'[d] = "none" <=> body[d] = "none"
            /\ Tool[d] = "run_code" => body'[d] = body[d]
            /\ body[d] \in {"denied", "cancelled", "interrupted"} => body'[d] = body[d]

(* A step in what is in hand keeps the rest. *)
LEMMA OnlyHandsKeeps ==
  ASSUME ProgramInv, OnlyHands
  PROVE  BatchInv'
<1> USE DEF InBatch
<1>1. /\ Limited' = Limited /\ \A d \in Call : Before(d)' = Before(d)
      /\ Limited \subseteq Call /\ \A d \in Call : Before(d) \subseteq Limited
  BY SameBatch, LimitedIsCalls DEF OnlyHands, ProgramInv
<1>2. \A d \in Call : InRun(d)' => InRun(d)
  BY DEF OnlyHands, InRun, facts
<1>3. OpenIsInBatch'
  BY <1>1, <1>2 DEF OpenIsInBatch, OnlyHands, ProgramInv, facts
<1>4. InModelOrder'
  BY <1>1 DEF InModelOrder, OnlyHands, ProgramInv, facts, AtHead, Parallel
<1>5. ApprovedOutsidePlan'
  BY DEF ApprovedOutsidePlan, OnlyHands, ProgramInv, facts
<1>6. InHands'
  <2> SUFFICES ASSUME phase' \in {"batch", "drain"} PROVE InHands'
    BY DEF InHands
  <2>1. ASSUME NEW n \in Call, call[n] \in Open, parent[n] # NoCall
        PROVE  body'[parent[n]] \in {"running", "interrupted"}
    <3>1. parent[n] \in Call /\ Tool[parent[n]] = "run_code"
      BY <2>1, ParentsRunCode
    <3> QED BY <2>1, <3>1 DEF OnlyHands, ProgramInv, InHands
  <2> QED BY <1>1, <2>1 DEF InHands, OnlyHands, ProgramInv, facts
<1>7. NotYetRun'
  <2> SUFFICES ASSUME phase' = "batch", NEW d \in Call, Executing(d)'
               PROVE  /\ call'[d] = "started" /\ body'[d] = "none" => ran'[d] = 0
                      /\ call'[d] = "requested" /\ approved'[d] = "no" => body'[d] \in {"denied", "cancelled"}
    BY DEF NotYetRun
  <2>1. phase = "batch" /\ Executing(d)
    BY <1>1, <1>2 DEF OnlyHands, Executing, IsNode, Running, facts
  <2> QED BY <2>1 DEF ProgramInv, NotYetRun, OnlyHands, facts
<1> QED BY <1>3, <1>4, <1>5, <1>6, <1>7 DEF BatchInv

(* The code run p is given up: of the whole batch only its call is in hand.  *)
GivesUp(p) ==
  /\ UNCHANGED <<active, call, parent, approved, planMode, ran, batch>>
  /\ phase \in InBatch /\ phase' = "batch" /\ InRun(p)
  /\ body' = [c \in Call |-> IF c = p THEN "interrupted" ELSE "none"]

(* That nothing else was in hand is lost, for the run was alone.             *)
LEMMA GivesUpKeeps ==
  ASSUME ProgramInv, NEW p \in Call, GivesUp(p)
  PROVE  BatchInv'
<1> USE DEF InBatch
<1>1. /\ Limited' = Limited /\ \A d \in Call : Before(d)' = Before(d)
      /\ Limited \subseteq Call /\ \A d \in Call : Before(d) \subseteq Limited
  BY SameBatch, LimitedIsCalls DEF GivesUp, ProgramInv
<1>2. p \in Limited /\ call[p] = "started" /\ phase \in InBatch
  BY DEF GivesUp, ProgramInv, OpenIsInBatch
<1>3. \A d \in Call : body'[d] = IF d = p THEN "interrupted" ELSE "none"
  BY DEF GivesUp
<1>4. \A c \in Limited : c # p => call[c] # "started"
  BY <1>2, RunIsAlone DEF GivesUp
<1>5. OpenIsInBatch'
  BY <1>1, <1>3 DEF OpenIsInBatch, GivesUp, ProgramInv, InRun
<1>6. InModelOrder'
  BY <1>1 DEF InModelOrder, GivesUp, ProgramInv, AtHead, Parallel
<1>7. ApprovedOutsidePlan'
  BY DEF ApprovedOutsidePlan, GivesUp, ProgramInv
<1>8. InHands'
  <2>1. ASSUME NEW n \in Call, call[n] \in Open, parent[n] # NoCall
        PROVE  parent[n] = p
    BY <1>2, <1>4, <2>1, NodesAreNotInBatch DEF ProgramInv, OpenIsInBatch
  <2> QED BY <1>1, <1>2, <1>3, <2>1, Kinds DEF InHands, GivesUp, ProgramInv
<1>9. NotYetRun'
  <2> SUFFICES ASSUME NEW d \in Call, Executing(d)'
               PROVE  /\ call'[d] = "started" /\ body'[d] = "none" => ran'[d] = 0
                      /\ ~(call'[d] = "requested" /\ approved'[d] = "no")
    BY DEF NotYetRun
  <2>1. d \in Limited
    BY <1>1, <1>3 DEF Executing, IsNode, Running, InRun
  <2>2. call[d] = "started" => body'[d] # "none"
    BY <1>3, <1>4, <2>1
  <2>3. ASSUME call[d] = "requested", approved[d] = "no" PROVE FALSE
    <3>1. AtHead(d) /\ d # p
      BY <1>2, <2>1, <2>3 DEF ProgramInv, InModelOrder
    <3>2. call[d] \in Terminal
      BY <1>2, <2>1, <3>1, RunIsAlone DEF GivesUp
    <3> QED BY <2>3, <3>2, Kinds
  <2> QED BY <2>2, <2>3 DEF GivesUp
<1> QED BY <1>5, <1>6, <1>7, <1>8, <1>9 DEF BatchInv

(* A batch is accepted when nothing is open, so all of it is still to do.    *)
LEMMA AcceptBatchKeeps ==
  ASSUME ProgramInv, NEW calls \in SUBSET Call, AcceptBatch(calls)
  PROVE  BatchInv'
<1> USE DEF InBatch
<1>1. /\ phase' = "batch" /\ batch' = calls /\ active # NoTurn /\ body' = body /\ ran' = ran
      /\ UNCHANGED <<active, parent, approved, run, planMode>>
      /\ call' = [c \in Call |-> IF c \in calls THEN "requested" ELSE call[c]]
      /\ \A c \in calls : call[c] = "absent"
      /\ \A c \in Call : call[c] \notin Open /\ call[c] # "outcome_unknown" /\ body[c] = "none"
  BY DEF AcceptBatch, CanAssistantAccepted, AssistantAccepted, ProgramInv, QuietBetween
<1>2. Limited' \subseteq calls /\ \A c \in Call : Before(c)' \subseteq calls
  BY <1>1 DEF Limited, Before
<1>3. \A c \in calls : parent[c] = NoCall /\ approved[c] = "undecided"
  BY <1>1 DEF ProgramInv, Inv, FinishedRunsAreClosed, OnRecord
<1>4. \A c \in Call : ~InRun(c)'
  BY <1>1 DEF InRun
<1>5. \A c \in calls : call'[c] = "requested"
  BY <1>1
<1>6. \A c \in Call : call'[c] \in Open => c \in calls
  BY <1>1
<1>7. OpenIsInBatch'
  BY <1>1, <1>3, <1>4, <1>5, <1>6 DEF OpenIsInBatch
<1>8. InModelOrder'
  <2>1. \A c \in Limited' : call'[c] = "requested" /\ approved'[c] = "undecided"
    BY <1>1, <1>2, <1>3, <1>5
  <2> QED BY <2>1 DEF InModelOrder
<1>9. ApprovedOutsidePlan'
  BY <1>1, <1>3, <1>6 DEF ApprovedOutsidePlan
<1>10. InHands'
  <2>1. \A n \in Call : call'[n] \in Open => parent'[n] = NoCall
    BY <1>1, <1>3, <1>6
  <2>2. \A c \in Call : call'[c] # "outcome_unknown" /\ body'[c] = "none"
    BY <1>1
  <2> QED BY <2>1, <2>2 DEF InHands
<1>11. NotYetRun'
  <2>1. \A c \in Call : Executing(c)' => c \in calls
    BY <1>2, <1>4 DEF Executing, IsNode, Running
  <2> QED BY <1>1, <1>3, <1>5, <2>1 DEF NotYetRun
<1> QED BY <1>7, <1>8, <1>9, <1>10, <1>11 DEF BatchInv

(* The user, or a standing approval, decides about the next call; a refusal  *)
(* stays in hand.                                                            *)
LEMMA DecideKeeps ==
  ASSUME ProgramInv, NEW c \in Call, NEW answer \in {"once", "session", "deny", "interrupt"}, Decide(c, answer)
  PROVE  BatchInv'
<1> USE DEF InBatch
<1>0. /\ phase = "batch" /\ phase' = "batch" /\ batch' = batch /\ ran' = ran
      /\ UNCHANGED <<active, call, parent, run, planMode>>
      /\ call[c] = "requested" /\ body[c] = "none" /\ (AtHead(c) \/ IsNode(c))
      /\ ~(Tool[c] = "effect" /\ planMode)
  BY ExecutionIsAccepted DEF Decide, Preparing, Pending, Write, ApprovalDecided, control, DeniedByPlan
<1>00. PICK allow \in BOOLEAN : /\ approved' = [approved EXCEPT ![c] = IF allow THEN "yes" ELSE "no"]
                                /\ \E what \in {"denied", "cancelled", "none"} :
                                      body' = [body EXCEPT ![c] = what] /\ (~allow => what # "none")
  <2> DEFINE allow == answer \in {"once", "session"}
  <2>1. approved' = [approved EXCEPT ![c] = IF allow THEN "yes" ELSE "no"]
    BY ExecutionIsAccepted DEF Decide, Write, ApprovalDecided
  <2>2. \E what \in {"denied", "cancelled", "none"} :
           body' = [body EXCEPT ![c] = what] /\ (~allow => what # "none")
    BY DEF Decide, Hold
  <2>3. allow \in BOOLEAN
    OBVIOUS
  <2> HIDE DEF allow
  <2> QED BY <2>1, <2>2, <2>3
<1>1. /\ Limited' = Limited /\ \A d \in Call : Before(d)' = Before(d)
      /\ Limited \subseteq Call /\ \A d \in Call : Before(d) \subseteq Limited
  BY <1>0, SameBatch, LimitedIsCalls DEF ProgramInv
<1>2. /\ \A d \in Call \ {c} : approved'[d] = approved[d] /\ body'[d] = body[d]
      /\ approved'[c] \in {"yes", "no"} /\ body'[c] \in {"denied", "cancelled", "none"}
      /\ approved'[c] = "no" => body'[c] # "none"
  BY <1>00 DEF ProgramInv, Inv, TypeOK, Sizes
<1>3. \A d \in Call : InRun(d)' => InRun(d)
  BY <1>0, <1>2 DEF InRun
<1>4. OpenIsInBatch'
  BY <1>0, <1>1, <1>3 DEF OpenIsInBatch, ProgramInv
<1>5. InModelOrder'
  <2>1. c \in Limited => AtHead(c)
    BY <1>0, NodesAreNotInBatch
  <2> QED BY <1>0, <1>1, <1>2, <2>1 DEF InModelOrder, ProgramInv, AtHead, Parallel
<1>6. ApprovedOutsidePlan'
  BY <1>0, <1>2 DEF ApprovedOutsidePlan, ProgramInv
<1>7. InHands'
  <2>1. c \in Limited \/ parent[c] # NoCall
    BY <1>0, NodesAreNotInBatch DEF AtHead
  <2>2. ASSUME NEW n \in Call, call[n] \in Open, parent[n] # NoCall
        PROVE  body'[parent[n]] \in {"running", "interrupted"}
    <3>1. parent[n] \in Call /\ body[parent[n]] \in {"running", "interrupted"}
      BY <1>0, <2>2, ParentsRunCode DEF ProgramInv, InHands
    <3> QED BY <1>0, <1>2, <3>1
  <2>3. ASSUME NEW d \in Call, call[d] = "outcome_unknown"
        PROVE  \E p \in Limited : call[p] = "started" /\ body'[p] = "interrupted"
    BY <1>0, <1>1, <1>2, <2>3 DEF ProgramInv, InHands
  <2> QED BY <1>0, <1>1, <1>2, <2>1, <2>2, <2>3, Kinds DEF InHands, ProgramInv
<1>8. NotYetRun'
  <2>1. \A d \in Call : Executing(d)' => Executing(d)
    BY <1>0, <1>1, <1>3 DEF Executing, IsNode, Running
  <2> QED BY <1>0, <1>2, <2>1 DEF NotYetRun, ProgramInv
<1> QED BY <1>4, <1>5, <1>6, <1>7, <1>8 DEF BatchInv

(* A call starts: the next one, a node, or a read beside the reads before it.*)
LEMMA StartKeeps ==
  ASSUME ProgramInv, NEW c \in Call, Start(c)
  PROVE  BatchInv'
<1> USE DEF InBatch
<1>0. /\ phase = "batch" /\ phase' = "batch" /\ batch' = batch /\ ran' = ran /\ body' = body
      /\ UNCHANGED <<active, parent, approved, run, planMode>>
      /\ call[c] = "requested" /\ body[c] = "none"
      /\ call' = [call EXCEPT ![c] = "started"]
  BY ExecutionIsAccepted DEF Start, Pending, Write, ToolStarted, control, ghosts
<1>1. /\ Limited' = Limited /\ \A d \in Call : Before(d)' = Before(d)
      /\ Limited \subseteq Call /\ \A d \in Call : Before(d) \subseteq Limited
  BY <1>0, SameBatch, LimitedIsCalls DEF ProgramInv
<1>2. call'[c] = "started" /\ \A d \in Call \ {c} : call'[d] = call[d]
  BY <1>0 DEF ProgramInv, Inv, TypeOK
<1>3. \A d \in Call : InRun(d)' <=> InRun(d)
  BY <1>0 DEF InRun
<1>4. OpenIsInBatch'
  BY <1>0, <1>1, <1>2, <1>3, Kinds DEF OpenIsInBatch, ProgramInv, Sizes
<1>5. InModelOrder'
  <2>1. c \in Limited => \A d \in Before(c) : \/ call[d] \in Terminal
                                              \/ call[d] = "started" /\ Parallel(c) /\ Parallel(d)
    <3>1. IsNode(c) => c \notin Limited
      BY <1>0, NodesAreNotInBatch
    <3>2. \/ AtHead(c) \/ IsNode(c)
          \/ /\ c \in Limited /\ Parallel(c)
             /\ \A d \in Before(c) : call[d] \in Terminal \/ (Parallel(d) /\ call[d] = "started")
      BY DEF Start
    <3> QED BY <3>1, <3>2 DEF AtHead
  <2>2. ASSUME NEW d \in Limited, call'[d] = "started", NEW e \in Before(d)
        PROVE  call'[e] \in Terminal \/ (call'[e] = "started" /\ Parallel(d) /\ Parallel(e))
    <3>1. e # d
      BY <1>1, <2>2, ConfigIsPositive DEF Before
    <3>2. CASE d = c
      BY <1>1, <1>2, <2>1, <2>2, <3>1, <3>2
    <3>3. CASE d # c
      BY <1>0, <1>1, <1>2, <2>2, <3>3, Kinds DEF ProgramInv, InModelOrder
    <3> QED BY <3>2, <3>3
  <2>3. ASSUME NEW d \in Limited, call'[d] = "requested", approved[d] # "undecided"
        PROVE  \A e \in Before(d) : call'[e] \in Terminal
    BY <1>0, <1>1, <1>2, <2>3, Kinds DEF ProgramInv, InModelOrder, AtHead
  <2> QED BY <1>0, <1>1, <2>2, <2>3 DEF InModelOrder, AtHead, Parallel
<1>6. ApprovedOutsidePlan'
  BY <1>0, <1>2, Kinds DEF ApprovedOutsidePlan, ProgramInv
<1>7. InHands'
  BY <1>0, <1>1, <1>2, Kinds DEF InHands, ProgramInv
<1>8. NotYetRun'
  <2>1. \A d \in Call : Executing(d)' => Executing(d)
    BY <1>0, <1>1, <1>3 DEF Executing, IsNode, Running
  <2>2. ran[c] = 0
    BY <1>0 DEF ProgramInv, OnRecord
  <2> QED BY <1>0, <1>2, <2>1, <2>2 DEF NotYetRun, ProgramInv
<1> QED BY <1>4, <1>5, <1>6, <1>7, <1>8 DEF BatchInv

(* The body of a call begins: the first time, and under its approval.        *)
LEMMA RunBodyKeeps ==
  ASSUME ProgramInv, NEW c \in Call, RunBody(c)
  PROVE  BatchInv'
<1> USE DEF InBatch
<1>0. /\ phase = "batch" /\ phase' = "batch" /\ batch' = batch
      /\ UNCHANGED <<active, call, parent, approved>>
      /\ call[c] = "started" /\ body[c] = "none" /\ Executing(c)
      /\ run' = run \/ (Tool[c] = "run_code" /\ run' = [run EXCEPT ![c] = "active"])
      /\ Tool[c] = "run_code" => run[c] = "absent"
      /\ planMode' => planMode
  BY ExecutionIsAccepted DEF RunBody, Write, PlanModeSet, CodeRunStarted, facts, control, Executing, CanCodeRunStarted
<1>1. /\ Limited' = Limited /\ \A d \in Call : Before(d)' = Before(d)
      /\ Limited \subseteq Call /\ \A d \in Call : Before(d) \subseteq Limited
  BY <1>0, SameBatch, LimitedIsCalls DEF ProgramInv
<1>2. /\ body'[c] \in {"running", "succeeded"}
      /\ \A d \in Call \ {c} : body'[d] = body[d] /\ ran'[d] = ran[d] /\ run'[d] = run[d]
      /\ Tool[c] # "run_code" => run' = run
  <2>1. \E what \in {"running", "succeeded"} : body' = [body EXCEPT ![c] = what]
    BY DEF RunBody, Hold
  <2>2. ran' = [ran EXCEPT ![c] = @ + 1]
    BY DEF RunBody
  <2> QED BY <1>0, <2>1, <2>2 DEF ProgramInv, Inv, TypeOK, Sizes
<1>3. Tool[c] = "run_code" => c \in Limited
  BY <1>0, NodesAreNotInBatch DEF Executing, ProgramInv, OnRecord
<1>4. \A d \in Call \ {c} : InRun(d)' <=> InRun(d)
  BY <1>2 DEF InRun
<1>5. InRun(c)' => Tool[c] = "run_code"
  BY <1>0, <1>2 DEF InRun, ProgramInv, OnRecord
<1>6. OpenIsInBatch'
  BY <1>0, <1>1, <1>3, <1>4, <1>5 DEF OpenIsInBatch, ProgramInv
<1>7. InModelOrder'
  BY <1>0, <1>1 DEF InModelOrder, ProgramInv, AtHead, Parallel
<1>8. ApprovedOutsidePlan'
  BY <1>0 DEF ApprovedOutsidePlan, ProgramInv
<1>9. InHands'
  <2>1. c \in Limited \/ parent[c] # NoCall
    BY <1>0, NodesAreNotInBatch DEF Executing
  <2>2. ASSUME NEW n \in Call, call[n] \in Open, parent[n] # NoCall
        PROVE  body'[parent[n]] \in {"running", "interrupted"}
    <3>1. parent[n] \in Call /\ body[parent[n]] \in {"running", "interrupted"}
      BY <1>0, <2>2, ParentsRunCode DEF ProgramInv, InHands
    <3> QED BY <1>0, <1>2, <3>1
  <2>3. ASSUME NEW d \in Call, call[d] = "outcome_unknown"
        PROVE  \E p \in Limited : call[p] = "started" /\ body'[p] = "interrupted"
    BY <1>0, <1>1, <1>2, <2>3 DEF ProgramInv, InHands
  <2> QED BY <1>0, <1>1, <1>2, <2>1, <2>2, <2>3, Kinds DEF InHands, ProgramInv
<1>10. NotYetRun'
  <2> SUFFICES ASSUME NEW d \in Call, Executing(d)'
               PROVE  /\ call'[d] = "started" /\ body'[d] = "none" => ran'[d] = 0
                      /\ call'[d] = "requested" /\ approved'[d] = "no" => body'[d] \in {"denied", "cancelled"}
    BY DEF NotYetRun
  <2>1. CASE d = c
    BY <1>0, <1>2, <2>1
  <2>2. CASE d # c
    <3>1. parent[d] = c => run[c] # "absent"
      BY CallsAreKeys, <2>2 DEF ProgramInv, Inv, FinishedRunsAreClosed
    <3>2. IsNode(d)' => IsNode(d)
      BY <1>0, <1>4, <1>5, <3>1 DEF IsNode, Running
    <3>3. Executing(d)
      BY <1>1, <3>2 DEF Executing
    <3> QED BY <1>0, <1>2, <2>2, <3>3 DEF NotYetRun, ProgramInv
  <2> QED BY <2>1, <2>2
<1> QED BY <1>6, <1>7, <1>8, <1>9, <1>10 DEF BatchInv

(* A code run plans a node: a new call, of a parent that is being executed.  *)
LEMMA PlanNodeKeeps ==
  ASSUME ProgramInv, NEW p \in Call, NEW n \in Call, PlanNode(p, n)
  PROVE  BatchInv'
<1> USE DEF InBatch
<1>0. /\ phase = "batch" /\ phase' = "batch" /\ batch' = batch /\ ran' = ran /\ body' = body
      /\ UNCHANGED <<active, approved, run, planMode>>
      /\ InRun(p) /\ call[n] = "absent"
      /\ call' = [call EXCEPT ![n] = "requested"] /\ parent' = [parent EXCEPT ![n] = p]
  BY CodeModeIsAccepted DEF PlanNode, Write, CodeNodePlanned, control, ghosts
<1>1. /\ Limited' = Limited /\ \A d \in Call : Before(d)' = Before(d)
      /\ Limited \subseteq Call /\ \A d \in Call : Before(d) \subseteq Limited
  BY <1>0, SameBatch, LimitedIsCalls DEF ProgramInv
<1>2. /\ call'[n] = "requested" /\ parent'[n] = p /\ approved[n] = "undecided" /\ body[n] = "none"
      /\ \A d \in Call \ {n} : call'[d] = call[d] /\ parent'[d] = parent[d]
  BY <1>0, Kinds DEF ProgramInv, Inv, TypeOK, OnRecord, InHands
<1>3. p \in Limited /\ call[p] = "started" /\ n \notin batch /\ n \notin Limited
  BY <1>0, <1>1, LimitedIsCalls DEF ProgramInv, OpenIsInBatch
<1>4. \A d \in Call : InRun(d)' <=> InRun(d)
  BY <1>0 DEF InRun
<1>5. OpenIsInBatch'
  BY <1>0, <1>1, <1>2, <1>3, <1>4, Kinds DEF OpenIsInBatch, ProgramInv, Sizes
<1>6. InModelOrder'
  BY <1>0, <1>1, <1>2, <1>3 DEF InModelOrder, ProgramInv, AtHead, Parallel
<1>7. ApprovedOutsidePlan'
  BY <1>0, <1>2 DEF ApprovedOutsidePlan, ProgramInv
<1>8. InHands'
  <2>1. body[p] = "running" /\ p # NoCall
    BY <1>0, CallsAreKeys DEF InRun
  <2> QED BY <1>0, <1>1, <1>2, <1>3, <2>1, Kinds DEF InHands, ProgramInv
<1>9. NotYetRun'
  <2>1. \A d \in Call \ {n} : Executing(d)' => Executing(d)
    BY <1>0, <1>1, <1>2, <1>4 DEF Executing, IsNode, Running
  <2> QED BY <1>0, <1>2, <2>1 DEF NotYetRun, ProgramInv
<1> QED BY <1>5, <1>6, <1>7, <1>8, <1>9 DEF BatchInv

(* A code run ends, with all its nodes; its result is in hand.               *)
LEMMA EndRunKeeps ==
  ASSUME ProgramInv, NEW p \in Call, NEW status \in {"succeeded", "failed"}, EndRun(p, status)
  PROVE  BatchInv'
<1> USE DEF InBatch
<1>0. /\ phase = "batch" /\ phase' = "batch" /\ batch' = batch /\ ran' = ran
      /\ UNCHANGED <<active, call, parent, approved, planMode>>
      /\ InRun(p) /\ \A d \in Call : parent[d] = p => call[d] \in Terminal
      /\ run' = [run EXCEPT ![p] = status] /\ body' = [body EXCEPT ![p] = status]
  BY CodeModeIsAccepted DEF EndRun, Write, CodeRunFinished, Hold, Nodes, control, ghosts
<1>1. /\ Limited' = Limited /\ \A d \in Call : Before(d)' = Before(d)
      /\ Limited \subseteq Call /\ \A d \in Call : Before(d) \subseteq Limited
  BY <1>0, SameBatch, LimitedIsCalls DEF ProgramInv
<1>2. /\ body'[p] = status
      /\ \A d \in Call \ {p} : body'[d] = body[d] /\ run'[d] = run[d]
  BY <1>0 DEF ProgramInv, Inv, TypeOK, Sizes
<1>3. \A d \in Call : InRun(d)' => InRun(d)
  BY <1>0, <1>2 DEF InRun
<1>4. p \in Limited /\ call[p] = "started" /\ body[p] = "running"
  BY <1>0 DEF ProgramInv, OpenIsInBatch, InRun
<1>5. OpenIsInBatch'
  BY <1>0, <1>1, <1>3 DEF OpenIsInBatch, ProgramInv
<1>6. InModelOrder'
  BY <1>0, <1>1 DEF InModelOrder, ProgramInv, AtHead, Parallel
<1>7. ApprovedOutsidePlan'
  BY <1>0 DEF ApprovedOutsidePlan, ProgramInv
<1>8. InHands'
  <2>1. ASSUME NEW n \in Call, call[n] \in Open, parent[n] # NoCall
        PROVE  body'[parent[n]] \in {"running", "interrupted"}
    <3>1. parent[n] \in Call /\ parent[n] # p /\ body[parent[n]] \in {"running", "interrupted"}
      BY <1>0, <2>1, ParentsRunCode, Kinds DEF ProgramInv, InHands
    <3> QED BY <1>2, <3>1
  <2>2. ASSUME NEW d \in Call, call[d] = "outcome_unknown"
        PROVE  \E q \in Limited : call[q] = "started" /\ body'[q] = "interrupted"
    BY <1>0, <1>1, <1>2, <1>4, <2>2 DEF ProgramInv, InHands
  <2> QED BY <1>0, <1>1, <1>2, <1>4, <2>1, <2>2, Kinds DEF InHands, ProgramInv
<1>9. NotYetRun'
  <2>1. \A d \in Call : Executing(d)' => Executing(d)
    BY <1>0, <1>1, <1>3 DEF Executing, IsNode, Running
  <2> QED BY <1>0, <1>2, <1>4, <2>1 DEF NotYetRun, ProgramInv
<1> QED BY <1>5, <1>6, <1>7, <1>8, <1>9 DEF BatchInv

(* Where the executor records a result, it is such a step.                   *)
LEMMA RecordingSteps ==
  ASSUME ProgramInv, NEW c \in Call, phase' \in InBatch,
         \/ \E status \in UnstartedEnds : Refuse(c, status)
         \/ FinishRefused(c) \/ Commit(c) \/ CommitThenInterrupt(c) \/ ExceedLimit(c)
         \/ \E status \in {"upstream_failed", "not_executed"} : SkipNode(c, status)
         \/ AbortNode(c)
  PROVE  Records(c)
<1> USE DEF InBatch, control, ghosts
<1>0. \A s : ToolFinished(c, s) => /\ UNCHANGED <<active, parent, approved, run, planMode>>
                                   /\ call' = [call EXCEPT ![c] = s]
  BY DEF ToolFinished
<1>00. /\ call \in [Call -> CallStatus] /\ body \in [Call -> Bodies]
       /\ \A s : call' = [call EXCEPT ![c] = s] => call'[c] = s
       /\ \A s : body' = [body EXCEPT ![c] = s] => body'[c] = s /\ \A d \in Call \ {c} : body'[d] = body[d]
  BY DEF ProgramInv, Inv, TypeOK, Sizes
<1>1. /\ c \notin Limited \/ call[c] = "requested" => ~InRun(c)
      /\ c \notin Limited \/ call[c] = "requested" => \A d \in Call : call[d] \in Open => parent[d] # c
    <2>1. phase \in InBatch
      BY DEF Refuse, Preparing, FinishRefused, Commit, CommitThenInterrupt, ExceedLimit, SkipNode, AbortNode
    <2> QED BY <2>1, CallsAreKeys DEF ProgramInv, OpenIsInBatch
<1>2. ASSUME NEW status \in UnstartedEnds, Refuse(c, status) PROVE Records(c)
  <2>1. ToolFinished(c, status) /\ status \in Terminal /\ status # "outcome_unknown"
    BY <1>2, ExecutionIsAccepted DEF Refuse, Write, Terminal, UnstartedEnds
  <2> QED BY <1>0, <1>00, <1>1, <1>2, <2>1, Kinds DEF Records, Refuse, Preparing, Pending
<1>3. ASSUME FinishRefused(c) PROVE Records(c)
  <2>1. ToolFinished(c, body[c]) /\ body[c] \in Terminal /\ body[c] \notin {"outcome_unknown", "interrupted", "running"}
    BY <1>3, ExecutionIsAccepted DEF FinishRefused, Write, Terminal, UnstartedEnds
  <2>2. UNCHANGED control /\ phase' \in {phase, "abort"}
    BY <1>3 DEF FinishRefused, Propagate, Close
  <2>3. phase = "batch" /\ call[c] = "requested" /\ ran' = ran /\ body' = [body EXCEPT ![c] = "none"]
    BY <1>3 DEF FinishRefused, Hold
  <2> QED BY <1>0, <1>00, <1>1, <2>1, <2>2, <2>3, Kinds DEF Records
<1>4. ASSUME Commit(c) PROVE Records(c)
  <2>1. ToolFinished(c, body[c]) /\ body[c] \in Terminal /\ body[c] \notin {"outcome_unknown", "running", "none"}
    BY <1>4, ExecutionIsAccepted DEF Commit, InHand, Ended, Write, Terminal, StartedEnds
  <2>2. UNCHANGED control /\ phase' = phase /\ body[c] # "interrupted" /\ phase \in {"batch", "drain"}
    BY <1>4 DEF Commit, Close
  <2>3. call[c] = "started" /\ ran' = ran /\ body' = [body EXCEPT ![c] = "none"] /\ ~InRun(c)
    BY <1>4, <2>1 DEF Commit, InHand, Hold, InRun
  <2>4. ASSUME NEW d \in Call, call[d] \in Open PROVE parent[d] # c
    BY <2>1, <2>2, <2>4, CallsAreKeys DEF ProgramInv, InHands
  <2> QED BY <1>0, <1>00, <2>1, <2>2, <2>3, <2>4, Kinds DEF Records
<1>5. CASE CommitThenInterrupt(c)
  BY <1>5 DEF CommitThenInterrupt, Close
<1>6. ASSUME ExceedLimit(c) PROVE Records(c)
  <2>1. /\ ToolFinished(c, "batch_limit_exceeded") /\ "batch_limit_exceeded" \in Terminal
        /\ call[c] \in Open /\ phase = "batch" /\ c \notin Limited /\ c \in batch
        /\ UNCHANGED <<phase, body, control, ran>>
    BY <1>6 DEF ExceedLimit, CanToolFinished, FinishAllowed, Open, Terminal, UnstartedEnds
  <2>2. body[c] = "none"
    BY <2>1 DEF ProgramInv, InHands, OpenIsInBatch
  <2> QED BY <1>0, <1>00, <1>1, <2>1, <2>2, Kinds DEF Records
<1>7. ASSUME NEW status \in {"upstream_failed", "not_executed"}, SkipNode(c, status) PROVE Records(c)
  <2>1. ToolFinished(c, status) /\ status \in Terminal /\ status # "outcome_unknown"
    BY <1>7, CodeModeIsAccepted DEF SkipNode, Write, Terminal, UnstartedEnds
  <2> QED BY <1>0, <1>00, <1>1, <1>7, <2>1, Kinds DEF Records, SkipNode, Preparing, Pending
<1>8. ASSUME AbortNode(c) PROVE Records(c)
  <2>1. PICK status \in {"outcome_unknown", "not_executed"} : ToolFinished(c, status)
    BY <1>8, CodeModeIsAccepted DEF AbortNode, Write
  <2>2. status \in Terminal
    BY DEF Terminal, UnstartedEnds, StartedEnds
  <2>3. c \notin Limited
    BY <1>8, NodesAreNotInBatch DEF AbortNode
  <2> QED BY <1>0, <1>00, <1>1, <1>8, <2>1, <2>2, <2>3 DEF Records, AbortNode
<1> QED BY <1>2, <1>3, <1>4, <1>5, <1>6, <1>7, <1>8

(* Where only what is in hand changes, it is such a step.                    *)
LEMMA HandSteps ==
  ASSUME ProgramInv, phase' \in InBatch,
         \/ \E c \in Call, outcome \in Ended : EndBody(c, outcome)
         \/ \E c \in Call : InterruptBody(c)
         \/ Drained \/ InterruptWait \/ InterruptExecutor
         \/ UNCHANGED vars
  PROVE  OnlyHands
<1> USE DEF InBatch, control, ghosts
<1>0. body \in [Call -> Bodies]
  BY DEF ProgramInv, Sizes
<1>1. ASSUME NEW c \in Call, NEW outcome \in Ended, EndBody(c, outcome) PROVE OnlyHands
  <2>1. body' = [body EXCEPT ![c] = outcome] /\ outcome \in Ended /\ body[c] = "running"
    BY <1>1 DEF EndBody, Hold
  <2> QED BY <1>0, <1>1, <2>1 DEF OnlyHands, EndBody, Ended
<1>2. ASSUME NEW c \in Call, InterruptBody(c) PROVE OnlyHands
  BY <1>0, <1>2 DEF OnlyHands, InterruptBody, Hold
<1>3. ASSUME Drained \/ InterruptWait PROVE OnlyHands
  BY <1>3 DEF OnlyHands, Drained, InterruptWait, Close
<1>4. ASSUME InterruptExecutor PROVE OnlyHands
  BY <1>4 DEF OnlyHands, InterruptExecutor, Propagate, Close
<1>5. ASSUME UNCHANGED vars PROVE OnlyHands
  BY <1>5 DEF OnlyHands, vars
<1> QED BY <1>1, <1>2, <1>3, <1>4, <1>5

(* Every step keeps what is said of the batch in hand. *)
LEMMA BatchStep ==
  ASSUME ProgramInv, [SessionNext]_vars
  PROVE  BatchInv'
<1> SUFFICES ASSUME phase' \in InBatch PROVE BatchInv'
  BY DEF BatchInv, OpenIsInBatch, InModelOrder, ApprovedOutsidePlan, InHands, NotYetRun, InBatch
<1>1. CASE Turns
  <2>1. PICK calls \in SUBSET Call : AcceptBatch(calls)
    BY <1>1 DEF Turns, ResumeTurn, EndSampling, FinalizeAfterLimit, ProjectionFails, CloseCall, Closed,
                FinishTurn, FinishRefusedOnce, Escape, Close, InBatch
  <2> QED BY <2>1, AcceptBatchKeeps
<1>2. CASE Execution
  <2>1. ASSUME ~EndBatch, ~Drained,
               \A c \in Call : /\ ~Start(c) /\ ~RunBody(c)
                               /\ \A outcome \in Ended : ~EndBody(c, outcome)
                               /\ \A answer \in {"once", "session", "deny", "interrupt"} : ~Decide(c, answer)
        PROVE  \E c \in Call : \/ \E status \in UnstartedEnds : Refuse(c, status)
                               \/ FinishRefused(c) \/ Commit(c) \/ CommitThenInterrupt(c) \/ ExceedLimit(c)
    BY <1>2, <2>1 DEF Execution
  <2>2. ~EndBatch
    BY DEF EndBatch, InBatch
  <2> QED
    BY <2>1, <2>2, DecideKeeps, StartKeeps, RunBodyKeeps, HandSteps, OnlyHandsKeeps, RecordingSteps, RecordsKeeps
<1>3. CASE CodeMode
  <2>1. ASSUME NEW p \in Call, AbortRun(p) PROVE GivesUp(p)
    <3>1. CodeRunFinished(p, "interrupted")
      BY <2>1, CodeModeIsAccepted DEF AbortRun, Write
    <3> QED BY <2>1, <3>1 DEF AbortRun, GivesUp, CodeRunFinished, control, ghosts, InBatch
  <2> QED
    BY <1>3, <2>1, PlanNodeKeeps, EndRunKeeps, GivesUpKeeps, RecordingSteps, RecordsKeeps DEF CodeMode
<1>4. CASE Recovery
  BY <1>4 DEF Recovery, Restart, RecoverNode, RecoverRun, RecoverParent, RecoverCall, CompleteCall,
              RecoverIntent, Recovered, CompleteTurn, Reconcile, Abandon, Unblocked, Recover, Recovering,
              InBatch
<1>5. CASE User
  <2>1. ASSUME NEW p \in Call, InterruptAbort(p) PROVE GivesUp(p)
    BY <2>1 DEF InterruptAbort, GivesUp, facts, control, ghosts, InBatch
  <2>2. \/ \E c \in Call : InterruptBody(c) \/ InterruptAbort(c)
        \/ InterruptWait \/ InterruptExecutor
    BY <1>5 DEF User, StartTurn, Command, Stop, InterruptTurn, InterruptAppend, Close, InBatch
  <2> QED
    BY <2>1, <2>2, GivesUpKeeps, HandSteps, OnlyHandsKeeps
<1>6. CASE UNCHANGED vars
  BY <1>6, HandSteps, OnlyHandsKeeps
<1> QED BY <1>1, <1>2, <1>3, <1>4, <1>5, <1>6 DEF SessionNext, Program

-----------------------------------------------------------------------------
(* The session satisfies the invariant when it opens. *)
LEMMA ProgramInvInit == SessionInit => ProgramInv
<1> SUFFICES ASSUME SessionInit PROVE ProgramInv
  OBVIOUS
<1> USE DEF SessionInit
<1>1. Inv
  BY InitInv
<1>2. VerdictIsKnown /\ NothingRejected /\ Sizes
  BY DEF VerdictIsKnown, NothingRejected, Sizes, Phases, Bodies
<1>3. IntentsComeFirst /\ QuietBetween
  BY DEF IntentsComeFirst, AbandonCompletes, QuietBetween, Init, Open
<1>4. OnRecord
  BY DEF OnRecord, Init
<1>5. OpenIsInBatch /\ InModelOrder /\ ApprovedOutsidePlan /\ InHands /\ NotYetRun
  BY DEF OpenIsInBatch, InModelOrder, ApprovedOutsidePlan, InHands, NotYetRun, InBatch
<1> QED BY <1>1, <1>2, <1>3, <1>4, <1>5 DEF ProgramInv

(* Every step of the program, a crash, a Ctrl-C and a resume keep it.        *)
LEMMA ProgramInvStep == ProgramInv /\ [SessionNext]_vars => ProgramInv'
<1> SUFFICES ASSUME ProgramInv, [SessionNext]_vars PROVE ProgramInv'
  OBVIOUS
<1>1. Inv /\ VerdictIsKnown /\ Sizes /\ TypeOK
  BY DEF ProgramInv, Inv
<1>2. Inv'
  BY <1>1, StepAccepted, NextInv
<1> QED
  BY <1>1, <1>2, VerdictStep, NothingIsRejected, SizesStep, IntentStep, QuietStep, OnRecordStep, BatchStep
  DEF ProgramInv, BatchInv

(* What is known of every session. *)
THEOREM ProgramInvariance == SessionSpec => []ProgramInv
  BY ProgramInvInit, ProgramInvStep, PTL DEF SessionSpec

(* No event the program appends is refused by the reducer, so no session     *)
(* ends up with a rollout that cannot be replayed (_append_and_reduce,       *)
(* _append_candidates): for any calls, turns, crashes and interrupts.        *)
THEOREM EveryEventIsAccepted == SessionSpec => []NothingRejected
  BY ProgramInvariance, PTL DEF ProgramInv

(* The model is asked again only when the record of every call is certain    *)
(* (_drive_turn, resume_active_turn).                                        *)
THEOREM SamplingIsSettled == SessionSpec => []SampledWhenSettled
<1>1. ProgramInv => SampledWhenSettled
  BY DEF ProgramInv, SampledWhenSettled, QuietBetween, IntentsComeFirst, CallsIn, TurnCalls
<1> QED BY <1>1, ProgramInvariance, PTL

(* An abandoned turn can always be ended: nothing of it is open              *)
(* (_complete_recovery_intent).                                              *)
THEOREM AbandonCanComplete == SessionSpec => []AbandonCompletes
<1>1. ProgramInv => AbandonCompletes
  BY DEF ProgramInv, IntentsComeFirst
<1> QED BY <1>1, ProgramInvariance, PTL

(* A body runs only in RunBody. *)
LEMMA OnlyRunBodyRuns ==
  ASSUME ProgramInv, [SessionNext]_vars, ran' # ran
  PROVE  \E c \in Call : RunBody(c)
<1>1. ASSUME NEW calls \in SUBSET Call, AcceptBatch(calls) PROVE FALSE
  BY <1>1 DEF AcceptBatch
<1>2. ASSUME NEW p \in Call, NEW n \in Call, PlanNode(p, n) PROVE FALSE
  BY <1>2 DEF PlanNode, ghosts
<1>3. ASSUME NEW c \in Call, Start(c) PROVE FALSE
  BY <1>3 DEF Start, ghosts
<1> QED BY <1>1, <1>2, <1>3, StepsThatBegin

(* An effect begins only under an approval on record and outside plan mode,  *)
(* for any batch, code run, resumed turn or standing approval                *)
(* (prepare_staged).                                                         *)
THEOREM EffectsAreApproved == SessionSpec => NoUnapprovedEffect
<1> DEFINE Approved == \A c \in Call : ran'[c] # ran[c] /\ Tool[c] = "effect" =>
                                          approved[c] = "yes" /\ ~planMode
<1>1. ASSUME ProgramInv, [SessionNext]_vars PROVE Approved
  <2> SUFFICES ASSUME NEW c \in Call, ran'[c] # ran[c], Tool[c] = "effect"
               PROVE  approved[c] = "yes" /\ ~planMode
    OBVIOUS
  <2>1. PICK d \in Call : RunBody(d)
    BY <1>1, OnlyRunBodyRuns
  <2>2. d = c
    BY <1>1, <2>1 DEF RunBody, ProgramInv, Sizes
  <2>3. call[c] = "started" /\ phase = "batch"
    BY <2>1, <2>2 DEF RunBody
  <2>4. approved[c] = "yes"
    BY <1>1, <2>3 DEF ProgramInv, OnRecord, NeedsApproval
  <2> QED BY <1>1, <2>3, <2>4, Kinds DEF ProgramInv, ApprovedOutsidePlan, InBatch
<1>2. ProgramInv /\ [SessionNext]_vars => [Approved]_vars
  BY <1>1
<1> QED BY <1>2, ProgramInvariance, PTL DEF SessionSpec, NoUnapprovedEffect

-----------------------------------------------------------------------------
(* The ledger of side effects. *)

(* The entry of a call by its status, before and after a step. *)
EntryTable ==
  \A c \in Call :
    /\ call[c] \in {"absent", "requested"} => Entry(c) = "blank"
    /\ call[c] = "started" => Entry(c) = "intended"
    /\ call[c] = "outcome_unknown" => Entry(c) = "uncertain"
    /\ call[c] \in UnstartedEnds => Entry(c) \in {"refused", "settled"}
    /\ call[c] \in StartedEnds \ {"outcome_unknown"} => Entry(c) = "settled"
    /\ call[c] \in Reconciled => Entry(c) = "judged"

(* The table is what Entry says. *)
LEMMA EntryTableHolds == EntryTable
<1> SUFFICES ASSUME NEW c \in Call
             PROVE  /\ call[c] \in {"absent", "requested"} => Entry(c) = "blank"
                    /\ call[c] = "started" => Entry(c) = "intended"
                    /\ call[c] = "outcome_unknown" => Entry(c) = "uncertain"
                    /\ call[c] \in UnstartedEnds => Entry(c) \in {"refused", "settled"}
                    /\ call[c] \in StartedEnds \ {"outcome_unknown"} => Entry(c) = "settled"
                    /\ call[c] \in Reconciled => Entry(c) = "judged"
  BY DEF EntryTable
<1>1. call[c] \in {"absent", "requested"} => Entry(c) = "blank"
  <2>1. call[c] = "absent" => Entry(c) = "blank"
    BY DEF Entry, Reconciled
  <2>2. call[c] = "requested" => Entry(c) = "blank"
    BY DEF Entry, Reconciled
  <2> QED BY <2>1, <2>2
<1>2. call[c] = "started" => Entry(c) = "intended"
  BY DEF Entry, Reconciled
<1>3. call[c] = "outcome_unknown" => Entry(c) = "uncertain"
  BY DEF Entry, Reconciled
<1>4. call[c] \in UnstartedEnds => Entry(c) \in {"refused", "settled"}
  BY DEF Entry, UnstartedEnds, Reconciled
<1>5. call[c] \in StartedEnds \ {"outcome_unknown"} => Entry(c) = "settled"
  BY DEF Entry, StartedEnds, Reconciled
<1>6. call[c] \in Reconciled => Entry(c) = "judged"
  BY DEF Entry, Reconciled
<1> QED BY <1>1, <1>2, <1>3, <1>4, <1>5, <1>6

(* And says in the next state. *)
LEMMA EntryTableNext == EntryTable'
  BY EntryTableHolds, PTL

(* Each event of the reducer is an entry of the ledger, or none.             *)
LEMMA EventIsAnEntry ==
  ASSUME TypeOK, [Next]_facts, ran' = ran
  PROVE  [Ledger!LedgerNext]_<<[c \in Call |-> Entry(c)], ran>>
<1> DEFINE L == [c \in Call |-> Entry(c)]
<1>0. EntryTable /\ EntryTable'
  BY EntryTableHolds, EntryTableNext
<1>1. ASSUME NEW c \in Call, \A d \in Call \ {c} : Entry(d)' = Entry(d)
      PROVE  /\ L' = [L EXCEPT ![c] = Entry(c)']
             /\ L[c] = Entry(c)
  BY <1>1
<1>2. ASSUME NEW c \in Call, NEW s, call' = [call EXCEPT ![c] = s]
      PROVE  /\ call'[c] = s
             /\ \A d \in Call \ {c} : Entry(d)' = Entry(d)
  BY <1>2 DEF Entry, TypeOK
<1>3. ASSUME call' = call PROVE UNCHANGED L
  BY <1>3 DEF Entry
<1>4. ASSUME NEW calls \in SUBSET Call, CanAssistantAccepted(calls), AssistantAccepted(calls)
      PROVE  UNCHANGED L
  <2>1. \A c \in Call : Entry(c)' = Entry(c)
    <3>1. ASSUME NEW c \in Call PROVE Entry(c)' = Entry(c)
      <4>1. CASE c \in calls
        <5>1. call[c] = "absent" /\ call'[c] = "requested"
          BY <1>4, <4>1 DEF CanAssistantAccepted, AssistantAccepted
        <5> QED BY <1>0, <5>1 DEF EntryTable
      <4>2. CASE c \notin calls
        BY <1>4, <4>2 DEF AssistantAccepted, Entry
      <4> QED BY <4>1, <4>2
    <3> QED BY <3>1
  <2> QED BY <2>1
<1>5. ASSUME NEW c \in Call, CanToolStarted(c), ToolStarted(c) PROVE Ledger!Intend(c)
  <2>1. Entry(c) = "blank" /\ Entry(c)' = "intended"
    BY <1>0, <1>2, <1>5 DEF CanToolStarted, ToolStarted, EntryTable
  <2>2. \A d \in Call \ {c} : Entry(d)' = Entry(d)
    BY <1>2, <1>5 DEF ToolStarted
  <2> QED BY <1>1, <2>1, <2>2 DEF Ledger!Intend, Ledger!Mark
<1>6. ASSUME NEW c \in Call, NEW status \in Terminal, CanToolFinished(c, status), ToolFinished(c, status)
      PROVE  Ledger!Decline(c) \/ Ledger!Settle(c) \/ Ledger!LoseTrack(c)
  <2>1. call'[c] = status /\ \A d \in Call \ {c} : Entry(d)' = Entry(d)
    BY <1>2, <1>6 DEF ToolFinished
  <2>2. CASE call[c] = "requested"
    <3>1. Entry(c) = "blank" /\ Entry(c)' \in {"refused", "settled"}
      BY <1>0, <1>6, <2>1, <2>2 DEF CanToolFinished, FinishAllowed, EntryTable
    <3> QED BY <1>1, <2>1, <3>1 DEF Ledger!Decline, Ledger!Settle, Ledger!Mark
  <2>3. CASE call[c] = "started"
    <3>1. Entry(c) = "intended" /\ Entry(c)' \in {"uncertain", "settled"}
      BY <1>0, <1>6, <2>1, <2>3 DEF CanToolFinished, FinishAllowed, EntryTable
    <3> QED BY <1>1, <2>1, <3>1 DEF Ledger!LoseTrack, Ledger!Settle, Ledger!Mark
  <2> QED BY <1>6, <2>2, <2>3 DEF CanToolFinished, FinishAllowed
<1>7. ASSUME NEW p \in Call, NEW n \in Call, CanCodeNodePlanned(p, n), CodeNodePlanned(p, n)
      PROVE  UNCHANGED L
  <2>1. \A c \in Call : Entry(c)' = Entry(c)
    <3>1. call[n] = "absent" /\ call'[n] = "requested" /\ \A d \in Call \ {n} : Entry(d)' = Entry(d)
      BY <1>2, <1>7 DEF CanCodeNodePlanned, CodeNodePlanned
    <3>2. Entry(n)' = Entry(n)
      BY <1>0, <3>1 DEF EntryTable
    <3> QED BY <3>1, <3>2
  <2> QED BY <2>1
<1>8. ASSUME NEW c \in Call, NEW outcome \in Outcomes, CanToolReconciled(c, outcome), ToolReconciled(c, outcome)
      PROVE  Ledger!Judge(c)
  <2>1. call'[c] \in Reconciled /\ \A d \in Call \ {c} : Entry(d)' = Entry(d)
    BY <1>2, <1>8 DEF ToolReconciled, ReconciledAs, Outcomes, Reconciled
  <2>2. Entry(c) = "uncertain" /\ Entry(c)' = "judged"
    BY <1>0, <1>8, <2>1 DEF CanToolReconciled, EntryTable
  <2> QED BY <1>1, <2>1, <2>2 DEF Ledger!Judge, Ledger!Mark
<1>9. ASSUME call' # call, ~\E calls \in SUBSET Call : CanAssistantAccepted(calls) /\ AssistantAccepted(calls),
             ~\E p, n \in Call : CanCodeNodePlanned(p, n) /\ CodeNodePlanned(p, n)
      PROVE  Ledger!LedgerNext
  <2>1. \/ \E c \in Call : CanToolStarted(c) /\ ToolStarted(c)
        \/ \E c \in Call, status \in Terminal : CanToolFinished(c, status) /\ ToolFinished(c, status)
        \/ \E c \in Call, outcome \in Outcomes : CanToolReconciled(c, outcome) /\ ToolReconciled(c, outcome)
    BY <1>9
    DEF Next, facts, TurnStarted, TurnFinished, ApprovalDecided, ApprovalReset, CodeRunStarted,
        CodeRunFinished, RecoveryIntent, PlanModeSet
  <2> QED BY <1>5, <1>6, <1>8, <2>1 DEF Ledger!LedgerNext
<1> QED BY <1>3, <1>4, <1>7, <1>9

(* A body that begins is the one run of an intent on record. *)
LEMMA RunIsAnEntry ==
  ASSUME ProgramInv, NEW c \in Call, RunBody(c)
  PROVE  Ledger!RunOnce(c)
<1>1. call[c] = "started" /\ body[c] = "none" /\ phase = "batch" /\ Executing(c) /\ call' = call
  BY DEF RunBody, Executing, Write, PlanModeSet, CodeRunStarted, facts
<1>2. ran[c] = 0
  BY <1>1 DEF ProgramInv, NotYetRun
<1>3. ran' = [ran EXCEPT ![c] = 1]
  BY <1>2 DEF RunBody, ProgramInv, Sizes
<1>4. Entry(c) = "intended" /\ UNCHANGED [d \in Call |-> Entry(d)]
  <2>1. Entry(c) = "intended"
    BY <1>1, EntryTableHolds DEF EntryTable
  <2>2. \A d \in Call : Entry(d)' = Entry(d)
    BY <1>1 DEF Entry
  <2> QED BY <2>1, <2>2
<1> QED BY <1>2, <1>3, <1>4 DEF Ledger!RunOnce

(* Session implements the ledger of side effects, for any calls: a body runs *)
(* at most once and under its intent, a refusal on record is true, and a     *)
(* lost result stays uncertain until a person settles it (start_staged,      *)
(* dispatch_staged, plan_recovery_events).                                   *)
THEOREM SideEffectsAreOnRecord == SessionSpec => KeepsTheLedger
<1>1. SessionInit => Ledger!LedgerInit
  <2> SUFFICES ASSUME SessionInit PROVE Ledger!LedgerInit
    OBVIOUS
  <2>1. \A c \in Call : Entry(c) = "blank"
    BY EntryTableHolds DEF SessionInit, Init, EntryTable
  <2> QED BY <2>1 DEF SessionInit, Ledger!LedgerInit
<1>2. ProgramInv /\ [SessionNext]_vars => [Ledger!LedgerNext]_<<[c \in Call |-> Entry(c)], ran>>
  <2> SUFFICES ASSUME ProgramInv, [SessionNext]_vars
               PROVE  [Ledger!LedgerNext]_<<[c \in Call |-> Entry(c)], ran>>
    OBVIOUS
  <2>1. CASE ran' = ran
    BY <2>1, StepAccepted, EventIsAnEntry DEF ProgramInv, Inv
  <2>2. CASE ran' # ran
    BY <2>2, OnlyRunBodyRuns, RunIsAnEntry DEF Ledger!LedgerNext
  <2> QED BY <2>1, <2>2
<1> QED BY <1>1, <1>2, ProgramInvariance, PTL DEF SessionSpec, KeepsTheLedger, Ledger!LedgerSpec

(* Whatever keeps the ledger is honest: each step changes the entry of one   *)
(* call, and no entry turns into a refusal after an effect.                  *)
LEMMA LedgerStaysHonest == Ledger!LedgerSpec => []Ledger!LedgerIsHonest
<1> DEFINE L == [c \in Call |-> Entry(c)]
           Honest == /\ ran \in [Call -> Nat]
                     /\ \A c \in Call : /\ L[c] \in {"blank", "refused"} => ran[c] = 0
                                        /\ ran[c] \in {0, 1}
<1>1. Ledger!LedgerInit => Honest
  BY DEF Ledger!LedgerInit
<1>2. Honest /\ [Ledger!LedgerNext]_<<L, ran>> => Honest'
  <2> SUFFICES ASSUME Honest, [Ledger!LedgerNext]_<<L, ran>>
               PROVE  Honest'
    OBVIOUS
  <2>1. ASSUME NEW c \in Call, NEW from, NEW to, Ledger!Mark(c, from, to),
               to \in {"blank", "refused"} => L[c] \in {"blank", "refused"}
        PROVE  Honest'
    <3>1. \A d \in Call : L'[d] = IF d = c THEN to ELSE L[d]
      <4>1. L' = [L EXCEPT ![c] = to] /\ DOMAIN L = Call
        BY <2>1 DEF Ledger!Mark
      <4> HIDE DEF L
      <4> QED BY <4>1
    <3>2. L[c] \in from /\ ran' = ran
      BY <2>1 DEF Ledger!Mark
    <3> HIDE DEF L
    <3> QED BY <2>1, <3>1, <3>2
  <2>2. ASSUME NEW c \in Call, Ledger!RunOnce(c) PROVE Honest'
    <3>1. L[c] = "intended" /\ L' = L /\ ran' = [ran EXCEPT ![c] = 1]
      BY <2>2 DEF Ledger!RunOnce
    <3> HIDE DEF L
    <3> QED BY <3>1
  <2>3. CASE UNCHANGED <<L, ran>>
    <3> HIDE DEF L
    <3> QED BY <2>3
  <2>4. ASSUME NEW c \in Call, Ledger!Decline(c) PROVE Honest'
    <3>1. L[c] = "blank"
      BY <2>4 DEF Ledger!Decline, Ledger!Mark
    <3> HIDE DEF Honest, L
    <3> QED BY <2>1, <2>4, <3>1 DEF Ledger!Decline
  <2>5. ASSUME NEW c \in Call, Ledger!Intend(c) \/ Ledger!Settle(c) \/ Ledger!LoseTrack(c) \/ Ledger!Judge(c)
        PROVE  Honest'
    <3> HIDE DEF Honest, L
    <3>1. CASE Ledger!Intend(c)
      BY <2>1, <3>1 DEF Ledger!Intend
    <3>2. CASE Ledger!Settle(c)
      BY <2>1, <3>2 DEF Ledger!Settle
    <3>3. CASE Ledger!LoseTrack(c)
      BY <2>1, <3>3 DEF Ledger!LoseTrack
    <3>4. CASE Ledger!Judge(c)
      BY <2>1, <3>4 DEF Ledger!Judge
    <3> QED BY <2>5, <3>1, <3>2, <3>3, <3>4
  <2> QED BY <2>2, <2>3, <2>4, <2>5 DEF Ledger!LedgerNext
<1>3. Honest => Ledger!LedgerIsHonest
  BY DEF Ledger!LedgerIsHonest
<1> QED BY <1>1, <1>2, <1>3, PTL DEF Ledger!LedgerSpec

(* What the rollout says of side effects can be relied on: in every session  *)
(* a call that is blank or refused on record had no effect, and none had two *)
(* (start_staged before dispatch_staged; plan_recovery_events).              *)
THEOREM RecordsOfEffectsAreHonest == SessionSpec => []Ledger!LedgerIsHonest
BY SideEffectsAreOnRecord, LedgerStaysHonest, PTL DEF KeepsTheLedger

(* What the invariant does not say of types.                                 *)
Margins ==
  /\ steps \in 0 .. MaxSteps /\ verdict \in {"none"} \union TurnEnds
  /\ handler \in {"try", "except"} /\ scope \subseteq Call
  /\ stray \subseteq Call /\ escaped \in BOOLEAN
  /\ stops \in 0 .. MaxStops /\ interrupts \in 0 .. MaxInterrupts

LEMMA MarginsAreKept ==
  ASSUME Inv, Sizes, StepsAreCounted, Margins, [SessionNext]_vars
  PROVE  Margins'
<1> DEFINE Steered == /\ steps' \in 0 .. MaxSteps /\ verdict' \in {"none"} \union TurnEnds
                      /\ handler' \in {"try", "except"} /\ scope' \subseteq Call
           Marked == stray' \subseteq Call
           Watched == escaped' \in BOOLEAN
           Spent == stops' \in 0 .. MaxStops /\ interrupts' \in 0 .. MaxInterrupts
<1>1. MaxSteps \in Nat /\ MaxStops \in Nat /\ MaxInterrupts \in Nat
  BY ConfigIsPositive
<1>2. Steered /\ Marked /\ Watched /\ Spent => Margins'
  BY DEF Margins
<1>3. UNCHANGED control => Steered
  BY DEF control, Margins
<1>4. UNCHANGED ghosts => Marked /\ Watched
  BY DEF ghosts, Margins
<1>5. /\ UNCHANGED budget => Spent
      /\ Interrupt => Spent
      /\ interrupts < MaxInterrupts /\ interrupts' = interrupts + 1 /\ UNCHANGED stops => Spent
      /\ stops < MaxStops /\ stops' = stops + 1 /\ UNCHANGED interrupts => Spent
  BY <1>1 DEF budget, Margins, Interrupt
<1>6. UNCHANGED stray => Marked
  BY DEF Margins
<1>7. UNCHANGED escaped => Watched
  BY DEF Margins
<1>8. \A c \in Call : WithoutOrigin(c) => Marked
  BY DEF WithoutOrigin, Margins
<1>9. \A calls \in SUBSET Call : \A status \in {"interrupted", "failed"} : \A where \in {"try", "except"} :
        Close(calls, status, where) => Steered
  BY DEF Close, Margins, TurnEnds
<1>10. Limited \in SUBSET Call /\ batch \in SUBSET Call /\ OpenCalls \in SUBSET Call
  <2>1. OpenCalls \subseteq Call
    BY DEF OpenCalls, CallsIn, TurnCalls
  <2>. QED BY <2>1 DEF Limited, Sizes
<1>11. Propagate => Steered
  BY <1>3, <1>9, <1>10 DEF Propagate
<1> HIDE DEF Steered, Marked, Watched, Spent
<1>12. CASE Turns
  <2>1. CASE ResumeTurn
    <3>1. active \in Turn
      BY <2>1 DEF ResumeTurn, Continuable, Inv, TypeOK
    <3>2. Steered
      BY <2>1, <3>1 DEF ResumeTurn, StepsAreCounted, Steered, Margins
    <3>. QED BY <1>2, <1>4, <1>5, <2>1, <3>2 DEF ResumeTurn
  <2>2. ASSUME NEW calls \in SUBSET Call, AcceptBatch(calls) PROVE Margins'
    <3>1. Steered
      BY <1>1, <2>2 DEF AcceptBatch, Steered, Margins
    <3>. QED BY <1>2, <1>5, <1>6, <1>7, <2>2, <3>1 DEF AcceptBatch
  <2>3. ASSUME NEW status \in TurnEnds, EndSampling(status) PROVE Margins'
    <3>1. Steered
      BY <2>3 DEF EndSampling, Steered, Margins
    <3>. QED BY <1>2, <1>4, <1>5, <2>3, <3>1 DEF EndSampling
  <2>4. CASE FinalizeAfterLimit
    <3>1. Steered
      BY <2>4 DEF FinalizeAfterLimit, Steered, Margins, TurnEnds
    <3>. QED BY <1>2, <1>4, <1>5, <2>4, <3>1 DEF FinalizeAfterLimit
  <2>5. CASE ProjectionFails \/ FinishRefusedOnce
    BY <1>2, <1>4, <1>5, <1>9, <1>10, <2>5 DEF ProjectionFails, FinishRefusedOnce
  <2>6. ASSUME NEW c \in Call, CloseCall(c) PROVE Margins'
    BY <1>2, <1>3, <1>5, <1>7, <1>8, <2>6 DEF CloseCall
  <2>7. CASE Closed
    BY <1>2, <1>3, <1>4, <1>5, <2>7 DEF Closed
  <2>8. CASE FinishTurn
    <3>1. Steered
      BY <1>1, <2>8 DEF FinishTurn, Steered
    <3>. QED BY <1>2, <1>4, <1>5, <2>8, <3>1 DEF FinishTurn
  <2>9. CASE Escape
    <3>1. Watched
      BY <2>9 DEF Escape, Watched
    <3>. QED BY <1>2, <1>3, <1>5, <1>6, <2>9, <3>1 DEF Escape
  <2>. QED BY <1>12, <2>1, <2>2, <2>3, <2>4, <2>5, <2>6, <2>7, <2>8, <2>9 DEF Turns
<1>13. CASE Execution
  <2>1. ASSUME NEW c \in Call, NEW status \in UnstartedEnds, Refuse(c, status) PROVE Margins'
    BY <1>2, <1>3, <1>4, <1>5, <2>1 DEF Refuse
  <2>2. ASSUME NEW c \in Call, NEW answer \in {"once", "session", "deny", "interrupt"}, Decide(c, answer)
        PROVE  Margins'
    <3>1. Spent
      BY <1>1, <2>2 DEF Decide, Spent, Margins
    <3>. QED BY <1>2, <1>3, <1>6, <1>7, <2>2, <3>1 DEF Decide
  <2>3. ASSUME NEW c \in Call, FinishRefused(c) PROVE Margins'
    <3>1. Steered
      BY <1>3, <1>11, <2>3 DEF FinishRefused
    <3>. QED BY <1>2, <1>4, <1>5, <2>3, <3>1 DEF FinishRefused
  <2>4. ASSUME NEW c \in Call, Start(c) \/ ExceedLimit(c) PROVE Margins'
    BY <1>2, <1>3, <1>4, <1>5, <2>4 DEF Start, ExceedLimit
  <2>5. ASSUME NEW c \in Call, RunBody(c) PROVE Margins'
    BY <1>2, <1>3, <1>5, <1>6, <1>7, <2>5 DEF RunBody
  <2>6. ASSUME NEW c \in Call, Commit(c) PROVE Margins'
    <3>1. Steered
      BY <1>3, <1>9, <1>10, <2>6 DEF Commit
    <3>. QED BY <1>2, <1>4, <1>5, <2>6, <3>1 DEF Commit
  <2>7. ASSUME NEW c \in Call, CommitThenInterrupt(c) PROVE Margins'
    BY <1>2, <1>4, <1>5, <1>9, <1>10, <2>7 DEF CommitThenInterrupt
  <2>8. ASSUME NEW c \in Call, NEW outcome \in Ended, EndBody(c, outcome) PROVE Margins'
    BY <1>2, <1>3, <1>4, <1>5, <2>8 DEF EndBody
  <2>9. CASE EndBatch
    <3>1. Steered
      BY <2>9 DEF EndBatch, Steered, Margins
    <3>. QED BY <1>2, <1>4, <1>5, <2>9, <3>1 DEF EndBatch
  <2>10. CASE Drained
    BY <1>2, <1>3, <1>4, <1>5, <1>9, <1>10, <2>10 DEF Drained
  <2>. QED BY <1>13, <2>1, <2>2, <2>3, <2>4, <2>5, <2>6, <2>7, <2>8, <2>9, <2>10 DEF Execution
<1>14. CASE CodeMode
  BY <1>2, <1>3, <1>4, <1>5, <1>14 DEF CodeMode, PlanNode, SkipNode, EndRun, AbortNode, AbortRun
<1>15. CASE Recovery
  <2>1. CASE Restart
    <3>1. Steered
      BY <1>1, <2>1 DEF Restart, Steered
    <3>2. Watched
      BY <2>1 DEF Restart, Watched
    <3>. QED BY <1>2, <1>5, <1>6, <2>1, <3>1, <3>2 DEF Restart
  <2>2. \A can, event : Recover(can, event) => Steered /\ Watched /\ Spent
    BY <1>3, <1>5, <1>7 DEF Recover
  <2>3. ASSUME NEW p \in Call, NEW n \in Call, RecoverNode(p, n) PROVE Margins'
    BY <1>2, <1>6, <2>2, <2>3 DEF RecoverNode
  <2>4. ASSUME NEW c \in Call, RecoverRun(c) \/ RecoverParent(c) PROVE Margins'
    BY <1>2, <1>6, <2>2, <2>4 DEF RecoverRun, RecoverParent
  <2>5. ASSUME NEW c \in Call, RecoverCall(c) \/ CompleteCall(c) PROVE Margins'
    BY <1>2, <1>8, <2>2, <2>5 DEF RecoverCall, CompleteCall
  <2>6. CASE RecoverIntent \/ CompleteTurn \/ Abandon
    BY <1>2, <1>6, <2>2, <2>6 DEF RecoverIntent, CompleteTurn, Abandon
  <2>7. ASSUME NEW c \in Call, NEW outcome \in Outcomes, Reconcile(c, outcome) PROVE Margins'
    BY <1>2, <1>8, <2>2, <2>7 DEF Reconcile
  <2>8. CASE Recovered \/ Unblocked
    BY <1>2, <1>3, <1>4, <1>5, <2>8 DEF Recovered, Unblocked
  <2>. QED BY <1>15, <2>1, <2>3, <2>4, <2>5, <2>6, <2>7, <2>8 DEF Recovery
<1>16. CASE User
  <2>1. ASSUME NEW t \in Turn, StartTurn(t) PROVE Margins'
    <3>1. Steered
      BY <1>1, <2>1 DEF StartTurn, Steered, Margins
    <3>. QED BY <1>2, <1>4, <1>5, <2>1, <3>1 DEF StartTurn
  <2>2. CASE Command \/ Stop \/ InterruptWait
    BY <1>2, <1>3, <1>4, <1>5, <2>2 DEF Command, Stop, InterruptWait
  <2>3. ASSUME NEW c \in Call, InterruptBody(c) \/ InterruptAbort(c) PROVE Margins'
    BY <1>2, <1>3, <1>4, <1>5, <2>3 DEF InterruptBody, InterruptAbort
  <2>4. CASE InterruptExecutor
    BY <1>2, <1>4, <1>5, <1>11, <2>4 DEF InterruptExecutor
  <2>5. CASE InterruptTurn
    BY <1>2, <1>3, <1>4, <1>5, <1>9, <1>10, <2>5 DEF InterruptTurn
  <2>6. CASE InterruptAppend
    <3>1. Watched
      BY <2>6 DEF InterruptAppend, Watched
    <3>. QED BY <1>2, <1>3, <1>5, <1>6, <2>6, <3>1 DEF InterruptAppend
  <2>. QED BY <1>16, <2>1, <2>2, <2>3, <2>4, <2>5, <2>6 DEF User
<1>17. CASE UNCHANGED vars
  BY <1>2, <1>3, <1>4, <1>5, <1>17 DEF vars
<1>. QED BY <1>12, <1>13, <1>14, <1>15, <1>16, <1>17 DEF SessionNext, Program

(* Every part of the session's state has its type: the calls to close are    *)
(* calls, a turn ends with a status the log knows, and the counter of tool    *)
(* steps is within its limit (_drive_turn, _close_calls).                     *)
THEOREM SessionsAreTyped == SessionSpec => []SessionTypeOK
<1>1. SessionInit => Margins
  <2> SUFFICES ASSUME SessionInit PROVE Margins
    OBVIOUS
  <2>1. steps \in 0 .. MaxSteps /\ stops \in 0 .. MaxStops /\ interrupts \in 0 .. MaxInterrupts
    BY ConfigIsPositive DEF SessionInit
  <2>2. escaped \in BOOLEAN
    BY DEF SessionInit
  <2>. QED BY <2>1, <2>2 DEF SessionInit, Margins
<1>2. ProgramInv /\ StepsAreCounted /\ Margins /\ [SessionNext]_vars => Margins'
  BY MarginsAreKept DEF ProgramInv
<1>3. ProgramInv /\ StepsAreCounted /\ Margins => SessionTypeOK
  <2> SUFFICES ASSUME ProgramInv, StepsAreCounted, Margins PROVE SessionTypeOK
    OBVIOUS
  <2>1. batches \in [Turn -> Nat]
    BY ConfigIsPositive DEF StepsAreCounted
  <2>. QED BY <2>1 DEF ProgramInv, Inv, NothingRejected, Sizes, Margins, SessionTypeOK
<1>. QED BY <1>1, <1>2, <1>3, ProgramInvariance, StepsInvariance, PTL DEF SessionSpec
=============================================================================
