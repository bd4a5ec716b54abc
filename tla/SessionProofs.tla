--------------------------- MODULE SessionProofs ---------------------------
(***************************************************************************)
(* The invariants of SessionReducer hold of every log, for any number of    *)
(* turns and calls.  The inductive invariant adds one fact to them: an      *)
(* accepted call belongs to a turn.  Without it a call owned by "no turn"   *)
(* would escape FinishedTurnsAreSettled while no turn is active.            *)
(*                                                                          *)
(* A step of the program is a step of the reducer's log or leaves the facts, *)
(* by how Write and the reducer's guards are used there, so what is proved   *)
(* of every log may be used of every session; that no event is ever refused *)
(* is another matter, and is in SessionSafetyProofs.                         *)
(***************************************************************************)
EXTENDS Session, TLAPS

-----------------------------------------------------------------------------
(* Every log.                                                                *)

CallsHaveTurns == \A c \in Call : call[c] # "absent" <=> owner[c] \in Turn

Inv == /\ TypeOK
       /\ CallsHaveTurns
       /\ FinishedTurnsAreSettled
       /\ BlockedIffUnknown
       /\ InterruptedIntentIsCertain
       /\ DeniedNeverStarts
       /\ FinishedRunsAreClosed

-----------------------------------------------------------------------------
(* The empty session satisfies the invariant. *)
LEMMA InitInv == Init => Inv
<1> SUFFICES ASSUME Init PROVE Inv
  OBVIOUS
<1> USE CallsAreKeys DEF Init
<1>1. TypeOK
  BY DEF TypeOK, TurnStatus, CallStatus
<1>2. CallsHaveTurns BY DEF CallsHaveTurns
<1>3. FinishedTurnsAreSettled BY DEF FinishedTurnsAreSettled
<1>4. BlockedIffUnknown BY DEF BlockedIffUnknown
<1>5. InterruptedIntentIsCertain BY DEF InterruptedIntentIsCertain
<1>6. DeniedNeverStarts BY DEF DeniedNeverStarts
<1>7. FinishedRunsAreClosed BY DEF FinishedRunsAreClosed
<1>8. QED BY <1>1, <1>2, <1>3, <1>4, <1>5, <1>6, <1>7 DEF Inv

(* turn_started opens a turn only when every call has its certain result.    *)
LEMMA TurnStartedInv ==
  ASSUME NEW t \in Turn, Inv, CanTurnStarted(t), TurnStarted(t)
  PROVE  Inv'
<1> USE CallsAreKeys DEF TurnStarted, CanTurnStarted, Inv
<1>1. TypeOK' BY DEF TypeOK, TurnStatus
<1>2. CallsHaveTurns' BY DEF CallsHaveTurns
<1>3. FinishedTurnsAreSettled'
  BY DEF FinishedTurnsAreSettled, CallsHaveTurns, TypeOK
<1>4. BlockedIffUnknown'
  BY <1>3 DEF BlockedIffUnknown, TypeOK, FinishedTurnsAreSettled, CallsHaveTurns, TurnStatus, TurnEnds, Settled
<1>5. InterruptedIntentIsCertain' BY DEF InterruptedIntentIsCertain
<1>6. DeniedNeverStarts' BY DEF DeniedNeverStarts
<1>7. FinishedRunsAreClosed' BY DEF FinishedRunsAreClosed
<1>8. QED BY <1>1, <1>2, <1>3, <1>4, <1>5, <1>6, <1>7
(* assistant_accepted adds calls that were unknown to the log, and none is    *)
(* unknown as an outcome.                                                     *)
LEMMA AssistantAcceptedInv ==
  ASSUME NEW calls \in SUBSET Call, Inv, CanAssistantAccepted(calls), AssistantAccepted(calls)
  PROVE  Inv'
<1> USE CallsAreKeys DEF CanAssistantAccepted, AssistantAccepted, Inv
<1>1. TypeOK' BY DEF TypeOK, CallStatus, Open
<1>2. CallsHaveTurns' BY DEF CallsHaveTurns, TypeOK
<1>3. FinishedTurnsAreSettled' BY DEF FinishedTurnsAreSettled, CallsHaveTurns, TypeOK
<1>4. BlockedIffUnknown' BY DEF BlockedIffUnknown, TypeOK
<1>5. InterruptedIntentIsCertain' BY DEF InterruptedIntentIsCertain
<1>6. DeniedNeverStarts' BY DEF DeniedNeverStarts, TypeOK, StartedOnly, Reconciled
<1>7. FinishedRunsAreClosed' BY DEF FinishedRunsAreClosed, TypeOK
<1>8. QED BY <1>1, <1>2, <1>3, <1>4, <1>5, <1>6, <1>7

(* turn_finished leaves no call of the turn open, and none unknown.          *)
LEMMA TurnFinishedInv ==
  ASSUME NEW status \in TurnEnds, Inv, CanTurnFinished(status), TurnFinished(status)
  PROVE  Inv'
<1> USE CallsAreKeys DEF CanTurnFinished, TurnFinished, Inv
<1>1. TypeOK' BY DEF TypeOK, TurnStatus, Intents
<1>2. CallsHaveTurns' BY DEF CallsHaveTurns
<1>3. FinishedTurnsAreSettled' BY DEF FinishedTurnsAreSettled, BlockedIffUnknown, TypeOK, CallsHaveTurns, CallsIn, TurnCalls, Settled, CallStatus, Terminal, Open, UnstartedEnds, StartedEnds, Reconciled
<1>4. BlockedIffUnknown' BY DEF BlockedIffUnknown, TypeOK, TurnEnds
<1>5. InterruptedIntentIsCertain' BY DEF InterruptedIntentIsCertain
<1>6. DeniedNeverStarts' BY DEF DeniedNeverStarts
<1>7. FinishedRunsAreClosed' BY DEF FinishedRunsAreClosed
<1>8. QED BY <1>1, <1>2, <1>3, <1>4, <1>5, <1>6, <1>7

(* approval_decided reaches only a call that has not started.               *)
LEMMA ApprovalDecidedInv ==
  ASSUME NEW c \in Call, NEW allow \in BOOLEAN, NEW extent \in {"once", "session"}, Inv,
         CanApprovalDecided(c), ApprovalDecided(c, allow, extent)
  PROVE  Inv'
<1> USE CallsAreKeys DEF CanApprovalDecided, ApprovalDecided, Inv
<1>1. TypeOK' BY DEF TypeOK
<1>2. CallsHaveTurns' BY DEF CallsHaveTurns
<1>3. FinishedTurnsAreSettled' BY DEF FinishedTurnsAreSettled
<1>4. BlockedIffUnknown' BY DEF BlockedIffUnknown
<1>5. InterruptedIntentIsCertain' BY DEF InterruptedIntentIsCertain, CallsIn, TurnCalls
<1>6. DeniedNeverStarts' BY DEF DeniedNeverStarts, TypeOK, StartedOnly, Reconciled
<1>7. FinishedRunsAreClosed' BY DEF FinishedRunsAreClosed
<1>8. QED BY <1>1, <1>2, <1>3, <1>4, <1>5, <1>6, <1>7

(* approval_reset touches no call.                                          *)
LEMMA ApprovalResetInv ==
  ASSUME Inv, CanApprovalReset, ApprovalReset
  PROVE  Inv'
<1> USE CallsAreKeys DEF CanApprovalReset, ApprovalReset, Inv
<1>1. TypeOK' BY DEF TypeOK
<1>2. CallsHaveTurns' BY DEF CallsHaveTurns
<1>3. FinishedTurnsAreSettled' BY DEF FinishedTurnsAreSettled
<1>4. BlockedIffUnknown' BY DEF BlockedIffUnknown
<1>5. InterruptedIntentIsCertain' BY DEF InterruptedIntentIsCertain, CallsIn, TurnCalls
<1>6. DeniedNeverStarts' BY DEF DeniedNeverStarts
<1>7. FinishedRunsAreClosed' BY DEF FinishedRunsAreClosed
<1>8. QED BY <1>1, <1>2, <1>3, <1>4, <1>5, <1>6, <1>7

(* tool_started never meets a pending recovery intent or a refusal.         *)
LEMMA ToolStartedInv ==
  ASSUME NEW c \in Call, Inv, CanToolStarted(c), ToolStarted(c)
  PROVE  Inv'
<1> USE CallsAreKeys DEF CanToolStarted, ToolStarted, Inv
<1>1. TypeOK' BY DEF TypeOK, CallStatus, Open
<1>2. CallsHaveTurns' BY DEF CallsHaveTurns, TypeOK
<1>3. FinishedTurnsAreSettled' BY DEF FinishedTurnsAreSettled, TypeOK, TurnCalls
<1>4. BlockedIffUnknown' BY DEF BlockedIffUnknown, TypeOK
<1>5. InterruptedIntentIsCertain' BY DEF InterruptedIntentIsCertain
<1>6. DeniedNeverStarts' BY DEF DeniedNeverStarts, TypeOK
<1>7. FinishedRunsAreClosed' BY DEF FinishedRunsAreClosed, TypeOK, CallStatus, Terminal, Open, UnstartedEnds, StartedEnds, Reconciled
<1>8. QED BY <1>1, <1>2, <1>3, <1>4, <1>5, <1>6, <1>7

(* tool_finished gives a status the call may end with, and raises or lowers  *)
(* the block.                                                                *)
LEMMA ToolFinishedInv ==
  ASSUME NEW c \in Call, NEW status \in Terminal, Inv, CanToolFinished(c, status), ToolFinished(c, status)
  PROVE  Inv'
<1> USE CallsAreKeys DEF CanToolFinished, ToolFinished, RefreshRecoveryBlock, FinishAllowed, Inv
<1>1. TypeOK' BY DEF TypeOK, TurnStatus, CallStatus
<1>2. CallsHaveTurns' BY DEF CallsHaveTurns, TypeOK, CallStatus, Terminal, Open, UnstartedEnds, StartedEnds, Reconciled
<1>3. FinishedTurnsAreSettled' BY DEF FinishedTurnsAreSettled, TypeOK, TurnCalls, CallStatus, Terminal, Open, UnstartedEnds, StartedEnds, Reconciled
<1>4. BlockedIffUnknown' BY DEF BlockedIffUnknown, TypeOK
<1>5. InterruptedIntentIsCertain' BY DEF InterruptedIntentIsCertain, TypeOK, CallsIn, TurnCalls
<1>6. DeniedNeverStarts' BY DEF DeniedNeverStarts, TypeOK, StartedOnly, CallStatus, Terminal, Open, UnstartedEnds, StartedEnds, Reconciled
<1>7. FinishedRunsAreClosed' BY DEF FinishedRunsAreClosed, TypeOK, CallStatus, Terminal, Open, UnstartedEnds, StartedEnds, Reconciled
<1>8. QED BY <1>1, <1>2, <1>3, <1>4, <1>5, <1>6, <1>7

(* code_run_started opens a run whose parent has begun.                     *)
LEMMA CodeRunStartedInv ==
  ASSUME NEW p \in Call, Inv, CanCodeRunStarted(p), CodeRunStarted(p)
  PROVE  Inv'
<1> USE CallsAreKeys DEF CanCodeRunStarted, CodeRunStarted, Inv
<1>1. TypeOK' BY DEF TypeOK
<1>2. CallsHaveTurns' BY DEF CallsHaveTurns
<1>3. FinishedTurnsAreSettled' BY DEF FinishedTurnsAreSettled
<1>4. BlockedIffUnknown' BY DEF BlockedIffUnknown
<1>5. InterruptedIntentIsCertain' BY DEF InterruptedIntentIsCertain, CallsIn, TurnCalls
<1>6. DeniedNeverStarts' BY DEF DeniedNeverStarts
<1>7. FinishedRunsAreClosed' BY DEF FinishedRunsAreClosed, TypeOK, RunEnds
<1>8. QED BY <1>1, <1>2, <1>3, <1>4, <1>5, <1>6, <1>7

(* code_node_planned adds a node to an active run of an active turn.         *)
LEMMA CodeNodePlannedInv ==
  ASSUME NEW p \in Call, NEW n \in Call, Inv, CanCodeNodePlanned(p, n), CodeNodePlanned(p, n)
  PROVE  Inv'
<1> USE CallsAreKeys DEF CanCodeNodePlanned, CodeNodePlanned, Inv
<1>1. TypeOK' BY DEF TypeOK, CallStatus, Open
<1>2. CallsHaveTurns' BY DEF CallsHaveTurns, TypeOK
<1>3. FinishedTurnsAreSettled' BY DEF FinishedTurnsAreSettled, TypeOK
<1>4. BlockedIffUnknown' BY DEF BlockedIffUnknown, TypeOK
<1>5. InterruptedIntentIsCertain' BY DEF InterruptedIntentIsCertain, TypeOK, CallsIn, TurnCalls
<1>6. DeniedNeverStarts' BY DEF DeniedNeverStarts, TypeOK, StartedOnly, Reconciled
<1>7. FinishedRunsAreClosed' BY DEF FinishedRunsAreClosed, TypeOK, RunEnds
<1>8. QED BY <1>1, <1>2, <1>3, <1>4, <1>5, <1>6, <1>7

(* code_run_finished closes a run only when its nodes are terminal.          *)
LEMMA CodeRunFinishedInv ==
  ASSUME NEW p \in Call, NEW status \in RunEnds, Inv, CanCodeRunFinished(p), CodeRunFinished(p, status)
  PROVE  Inv'
<1> USE CallsAreKeys DEF CanCodeRunFinished, CodeRunFinished, Inv
<1>1. TypeOK' BY DEF TypeOK
<1>2. CallsHaveTurns' BY DEF CallsHaveTurns
<1>3. FinishedTurnsAreSettled' BY DEF FinishedTurnsAreSettled
<1>4. BlockedIffUnknown' BY DEF BlockedIffUnknown
<1>5. InterruptedIntentIsCertain' BY DEF InterruptedIntentIsCertain, CallsIn, TurnCalls
<1>6. DeniedNeverStarts' BY DEF DeniedNeverStarts
<1>7. FinishedRunsAreClosed' BY DEF FinishedRunsAreClosed, TypeOK, RunEnds, Nodes
<1>8. QED BY <1>1, <1>2, <1>3, <1>4, <1>5, <1>6, <1>7

(* turn_recovery_intent records recover_interrupted only for a turn in which *)
(* nothing started.                                                          *)
LEMMA RecoveryIntentInv ==
  ASSUME NEW action \in Intents, Inv, CanRecoveryIntent(action), RecoveryIntent(action)
  PROVE  Inv'
<1> USE CallsAreKeys DEF CanRecoveryIntent, RecoveryIntent, Inv
<1>1. TypeOK' BY DEF TypeOK
<1>2. CallsHaveTurns' BY DEF CallsHaveTurns
<1>3. FinishedTurnsAreSettled' BY DEF FinishedTurnsAreSettled
<1>4. BlockedIffUnknown' BY DEF BlockedIffUnknown
<1>5. InterruptedIntentIsCertain' BY DEF InterruptedIntentIsCertain, CallsIn, TurnCalls
<1>6. DeniedNeverStarts' BY DEF DeniedNeverStarts
<1>7. FinishedRunsAreClosed' BY DEF FinishedRunsAreClosed
<1>8. QED BY <1>1, <1>2, <1>3, <1>4, <1>5, <1>6, <1>7

(* tool_reconciled settles one unknown outcome and lowers the block with the *)
(* last of them.                                                             *)
LEMMA ToolReconciledInv ==
  ASSUME NEW c \in Call, NEW outcome \in Outcomes, Inv, CanToolReconciled(c, outcome), ToolReconciled(c, outcome)
  PROVE  Inv'
<1> USE CallsAreKeys DEF CanToolReconciled, ToolReconciled, RefreshRecoveryBlock, ReconciledAs, Outcomes, Inv
<1>1. TypeOK' BY DEF TypeOK, TurnStatus, CallStatus, Terminal, Open, UnstartedEnds, StartedEnds, Reconciled
<1>2. CallsHaveTurns' BY DEF CallsHaveTurns, TypeOK
<1>3. FinishedTurnsAreSettled' BY DEF FinishedTurnsAreSettled, TypeOK, TurnCalls
<1>4. BlockedIffUnknown' BY DEF BlockedIffUnknown, TypeOK
<1>5. InterruptedIntentIsCertain' BY DEF InterruptedIntentIsCertain, TypeOK, CallsIn, TurnCalls
<1>6. DeniedNeverStarts' BY DEF DeniedNeverStarts, TypeOK, StartedOnly
<1>7. FinishedRunsAreClosed' BY DEF FinishedRunsAreClosed, TypeOK, CallStatus, Terminal, Open, UnstartedEnds, StartedEnds, Reconciled
<1>8. QED BY <1>1, <1>2, <1>3, <1>4, <1>5, <1>6, <1>7

(* plan_mode_set touches no call.                                           *)
LEMMA PlanModeSetInv ==
  ASSUME NEW on \in BOOLEAN, Inv, CanPlanModeSet, PlanModeSet(on)
  PROVE  Inv'
<1> USE CallsAreKeys DEF CanPlanModeSet, PlanModeSet, Inv
<1>1. TypeOK' BY DEF TypeOK
<1>2. CallsHaveTurns' BY DEF CallsHaveTurns
<1>3. FinishedTurnsAreSettled' BY DEF FinishedTurnsAreSettled
<1>4. BlockedIffUnknown' BY DEF BlockedIffUnknown
<1>5. InterruptedIntentIsCertain' BY DEF InterruptedIntentIsCertain, CallsIn, TurnCalls
<1>6. DeniedNeverStarts' BY DEF DeniedNeverStarts
<1>7. FinishedRunsAreClosed' BY DEF FinishedRunsAreClosed
<1>8. QED BY <1>1, <1>2, <1>3, <1>4, <1>5, <1>6, <1>7

(* A step that changes no fact changes none of the above. *)
LEMMA StutterInv == Inv /\ UNCHANGED facts => Inv'
  BY DEF Inv, facts, TypeOK, CallsHaveTurns, FinishedTurnsAreSettled, BlockedIffUnknown,
      InterruptedIntentIsCertain, DeniedNeverStarts, FinishedRunsAreClosed, CallsIn, TurnCalls

-----------------------------------------------------------------------------
(* Every event the reducer accepts preserves the invariant. *)
LEMMA NextInv == Inv /\ [Next]_facts => Inv'
<1> SUFFICES ASSUME Inv, [Next]_facts PROVE Inv'
  OBVIOUS
<1>1. ASSUME NEW t \in Turn, CanTurnStarted(t), TurnStarted(t) PROVE Inv'
  BY <1>1, TurnStartedInv
<1>2. ASSUME NEW calls \in SUBSET Call, CanAssistantAccepted(calls), AssistantAccepted(calls)
      PROVE Inv'
  BY <1>2, AssistantAcceptedInv
<1>3. ASSUME NEW status \in TurnEnds, CanTurnFinished(status), TurnFinished(status) PROVE Inv'
  BY <1>3, TurnFinishedInv
<1>4. ASSUME NEW c \in Call, NEW allow \in BOOLEAN, NEW extent \in {"once", "session"},
             CanApprovalDecided(c), ApprovalDecided(c, allow, extent)
      PROVE Inv'
  BY <1>4, ApprovalDecidedInv
<1>5. ASSUME CanApprovalReset, ApprovalReset PROVE Inv'
  BY <1>5, ApprovalResetInv
<1>6. ASSUME NEW c \in Call, CanToolStarted(c), ToolStarted(c) PROVE Inv'
  BY <1>6, ToolStartedInv
<1>7. ASSUME NEW c \in Call, NEW status \in Terminal, CanToolFinished(c, status), ToolFinished(c, status)
      PROVE Inv'
  BY <1>7, ToolFinishedInv
<1>8. ASSUME NEW p \in Call, CanCodeRunStarted(p), CodeRunStarted(p) PROVE Inv'
  BY <1>8, CodeRunStartedInv
<1>9. ASSUME NEW p \in Call, NEW n \in Call, CanCodeNodePlanned(p, n), CodeNodePlanned(p, n)
      PROVE Inv'
  BY <1>9, CodeNodePlannedInv
<1>10. ASSUME NEW p \in Call, NEW status \in RunEnds, CanCodeRunFinished(p), CodeRunFinished(p, status)
       PROVE Inv'
  BY <1>10, CodeRunFinishedInv
<1>11. ASSUME NEW action \in Intents, CanRecoveryIntent(action), RecoveryIntent(action) PROVE Inv'
  BY <1>11, RecoveryIntentInv
<1>12. ASSUME NEW c \in Call, NEW outcome \in Outcomes, CanToolReconciled(c, outcome), ToolReconciled(c, outcome)
       PROVE Inv'
  BY <1>12, ToolReconciledInv
<1>13. ASSUME NEW on \in BOOLEAN, CanPlanModeSet, PlanModeSet(on) PROVE Inv'
  BY <1>13, PlanModeSetInv
<1>14. CASE UNCHANGED facts
  BY <1>14, StutterInv
<1>15. QED
  BY <1>1, <1>2, <1>3, <1>4, <1>5, <1>6, <1>7, <1>8, <1>9, <1>10, <1>11, <1>12, <1>13, <1>14
  DEF Next

(* Every log the reducer accepts satisfies the invariant. *)
THEOREM Invariance == Spec => []Inv
  BY InitInv, NextInv, PTL DEF Spec

(* Type correctness of the session's facts. *)
THEOREM FactsAreTyped == Spec => []TypeOK
  BY Invariance, PTL DEF Inv

(* A finished turn leaves no open and no unknown call behind. *)
THEOREM TurnsFinishSettled == Spec => []FinishedTurnsAreSettled
  BY Invariance, PTL DEF Inv

(* The recovery block is up exactly while an outcome is unknown. *)
THEOREM BlockIsExact == Spec => []BlockedIffUnknown
  BY Invariance, PTL DEF Inv

(* Ending a turn by a recover_interrupted intent hides no side effect. *)
THEOREM InterruptionIsCertain == Spec => []InterruptedIntentIsCertain
  BY Invariance, PTL DEF Inv

(* A call the user refused never begins. *)
THEOREM DenialHolds == Spec => []DeniedNeverStarts
  BY Invariance, PTL DEF Inv

(* No node of a finished code run is open. *)
THEOREM RunsFinishClosed == Spec => []FinishedRunsAreClosed
  BY Invariance, PTL DEF Inv

-----------------------------------------------------------------------------
(* A call that has its certain result keeps it, whatever event comes next. *)
FinalStep ==
  /\ \A c \in Call :
       /\ call[c] \in Settled => call'[c] = call[c]
       /\ call[c] = "outcome_unknown" => call'[c] \in {call[c]} \union Reconciled
       /\ approved[c] # "undecided" => approved'[c] = approved[c]
       /\ run[c] \in RunEnds => run'[c] = run[c]
  /\ \A t \in Turn : turn[t] \in TurnEnds => turn'[t] = turn[t]

(* Every event respects what is already settled. *)
LEMMA NextIsFinal == Inv /\ Next => FinalStep
<1> SUFFICES ASSUME Inv, Next PROVE FinalStep
  OBVIOUS
<1> USE CallsAreKeys DEF Inv, TypeOK
<1> USE DEF Settled, Terminal, UnstartedEnds, StartedEnds, Reconciled, RunEnds
<1>1. ASSUME NEW t \in Turn, CanTurnStarted(t), TurnStarted(t) PROVE FinalStep
  BY <1>1 DEF FinalStep, CanTurnStarted, TurnStarted, TurnEnds
<1>2. ASSUME NEW calls \in SUBSET Call, CanAssistantAccepted(calls), AssistantAccepted(calls)
      PROVE FinalStep
  BY <1>2 DEF FinalStep, CanAssistantAccepted, AssistantAccepted
<1>3. ASSUME NEW status \in TurnEnds, CanTurnFinished(status), TurnFinished(status) PROVE FinalStep
  BY <1>3 DEF FinalStep, CanTurnFinished, TurnFinished, BlockedIffUnknown, TurnEnds
<1>4. ASSUME NEW c \in Call, NEW allow \in BOOLEAN, NEW extent \in {"once", "session"},
             CanApprovalDecided(c), ApprovalDecided(c, allow, extent)
      PROVE FinalStep
  BY <1>4 DEF FinalStep, CanApprovalDecided, ApprovalDecided
<1>5. ASSUME CanApprovalReset, ApprovalReset PROVE FinalStep
  BY <1>5 DEF FinalStep, ApprovalReset
<1>6. ASSUME NEW c \in Call, CanToolStarted(c), ToolStarted(c) PROVE FinalStep
  BY <1>6 DEF FinalStep, CanToolStarted, ToolStarted
<1>7. ASSUME NEW c \in Call, NEW status \in Terminal, CanToolFinished(c, status), ToolFinished(c, status)
      PROVE FinalStep
  <2>1. turn[active] \notin TurnEnds
    BY <1>7 DEF CanToolFinished, BlockedIffUnknown, TurnEnds
  <2>2. QED
    BY <1>7, <2>1 DEF FinalStep, CanToolFinished, ToolFinished, FinishAllowed, RefreshRecoveryBlock
<1>8. ASSUME NEW p \in Call, CanCodeRunStarted(p), CodeRunStarted(p) PROVE FinalStep
  BY <1>8 DEF FinalStep, CanCodeRunStarted, CodeRunStarted
<1>9. ASSUME NEW p \in Call, NEW n \in Call, CanCodeNodePlanned(p, n), CodeNodePlanned(p, n)
      PROVE FinalStep
  BY <1>9 DEF FinalStep, CanCodeNodePlanned, CodeNodePlanned
<1>10. ASSUME NEW p \in Call, NEW status \in RunEnds, CanCodeRunFinished(p), CodeRunFinished(p, status)
       PROVE FinalStep
  BY <1>10 DEF FinalStep, CanCodeRunFinished, CodeRunFinished
<1>11. ASSUME NEW action \in Intents, CanRecoveryIntent(action), RecoveryIntent(action) PROVE FinalStep
  BY <1>11 DEF FinalStep, RecoveryIntent
<1>12. ASSUME NEW c \in Call, NEW outcome \in Outcomes, CanToolReconciled(c, outcome), ToolReconciled(c, outcome)
       PROVE FinalStep
  <2>1. turn[active] \notin TurnEnds
    BY <1>12 DEF CanToolReconciled, BlockedIffUnknown, TurnEnds
  <2>2. ReconciledAs(outcome) \in Reconciled
    BY DEF ReconciledAs, Outcomes
  <2>3. QED
    BY <1>12, <2>1, <2>2 DEF FinalStep, CanToolReconciled, ToolReconciled, RefreshRecoveryBlock
<1>13. ASSUME NEW on \in BOOLEAN, CanPlanModeSet, PlanModeSet(on) PROVE FinalStep
  BY <1>13 DEF FinalStep, PlanModeSet
<1>14. QED
  BY <1>1, <1>2, <1>3, <1>4, <1>5, <1>6, <1>7, <1>8, <1>9, <1>10, <1>11, <1>12, <1>13 DEF Next

(* Terminal results, finished turns, closed runs and recorded approvals are  *)
(* never revised; only a person settles an unknown outcome.                  *)
THEOREM Finality == Spec => FactsAreFinal
<1>1. Inv /\ [Next]_facts => [FinalStep]_facts
  BY NextIsFinal
<1>2. QED BY <1>1, Invariance, PTL DEF Spec, FactsAreFinal, FinalStep


-----------------------------------------------------------------------------
(* Every session.                                                            *)

(* While a turn is being closed or finished, the program knows how it ends.  *)
VerdictIsKnown == phase \in {"close", "finish"} => verdict \in TurnEnds

-----------------------------------------------------------------------------
(* The events, as steps of the reducer.                                      *)

(* A tool_finished the reducer accepts is a step of its log. *)
LEMMA ToolFinishedStep ==
  ASSUME NEW c \in Call, NEW status \in Terminal, CanToolFinished(c, status), ToolFinished(c, status)
  PROVE  Next
  BY DEF Next

(* An approval_decided the reducer accepts is a step of its log. *)
LEMMA ApprovalStep ==
  ASSUME NEW c \in Call, NEW allow \in BOOLEAN, NEW extent \in {"once", "session"},
         extent = "session" => allow, CanApprovalDecided(c), ApprovalDecided(c, allow, extent)
  PROVE  Next
  BY DEF Next

(* A tool_reconciled the reducer accepts is a step of its log. *)
LEMMA ReconciledStep ==
  ASSUME NEW c \in Call, NEW outcome \in Outcomes, CanToolReconciled(c, outcome), ToolReconciled(c, outcome)
  PROVE  Next
  BY DEF Next

(* A code_run_finished the reducer accepts is a step of its log. *)
LEMMA RunFinishedStep ==
  ASSUME NEW p \in Call, NEW status \in RunEnds, CanCodeRunFinished(p), CodeRunFinished(p, status)
  PROVE  Next
  BY DEF Next

-----------------------------------------------------------------------------
(* The loop over turns appends only what the reducer has accepted before. *)
LEMMA TurnsAccepted ==
  ASSUME VerdictIsKnown, Turns
  PROVE  [Next]_facts
<1>1. CASE ResumeTurn
  BY <1>1 DEF ResumeTurn
<1>2. ASSUME NEW calls \in SUBSET Call, AcceptBatch(calls) PROVE Next
  BY <1>2 DEF AcceptBatch, Next
<1>3. ASSUME NEW status \in TurnEnds, EndSampling(status) PROVE UNCHANGED facts
  BY <1>3 DEF EndSampling
<1>4. CASE ProjectionFails
  BY <1>4 DEF ProjectionFails
<1>5. ASSUME NEW c \in Call, CloseCall(c) PROVE Next
  <2>1. PICK status \in {"cancelled", "not_executed"} : CanToolFinished(c, status) /\ ToolFinished(c, status)
    BY <1>5 DEF CloseCall
  <2>2. QED BY <2>1, ToolFinishedStep DEF Terminal, UnstartedEnds
<1>6. CASE Closed
  BY <1>6 DEF Closed
<1>7. CASE FinishTurn
  BY <1>7 DEF FinishTurn, VerdictIsKnown, Next
<1>8. CASE FinishRefusedOnce
  BY <1>8 DEF FinishRefusedOnce
<1>9. CASE Escape
  BY <1>9 DEF Escape
<1>10. CASE FinalizeAfterLimit
  BY <1>10 DEF FinalizeAfterLimit
<1>11. QED
  BY <1>1, <1>2, <1>3, <1>4, <1>5, <1>6, <1>7, <1>8, <1>9, <1>10 DEF Turns

(* The executor's events are accepted, or leave the facts as they were. *)
LEMMA ExecutionAccepted ==
  ASSUME Execution
  PROVE  [Next]_facts
<1>1. ASSUME NEW c \in Call, NEW status \in UnstartedEnds, Refuse(c, status) PROVE [Next]_facts
  BY <1>1, ToolFinishedStep DEF Refuse, Write, Terminal
<1>2. ASSUME NEW c \in Call, NEW answer \in {"once", "session", "deny", "interrupt"}, Decide(c, answer)
      PROVE [Next]_facts
  <2> DEFINE allow == answer \in {"once", "session"}
  <2> DEFINE extent == IF answer = "session" THEN "session" ELSE "once"
  <2>1. Write("executor", CanApprovalDecided(c), ApprovalDecided(c, allow, extent))
    BY <1>2 DEF Decide
  <2>2. allow \in BOOLEAN /\ extent \in {"once", "session"} /\ (extent = "session" => allow)
    OBVIOUS
  <2> HIDE DEF allow, extent
  <2>3. QED BY <2>1, <2>2, ApprovalStep DEF Write
<1>3. ASSUME NEW c \in Call, FinishRefused(c) PROVE [Next]_facts
  <2>1. body[c] \in Terminal
    BY <1>3 DEF FinishRefused, Terminal, UnstartedEnds
  <2>2. QED BY <1>3, <2>1, ToolFinishedStep DEF FinishRefused, Write
<1>4. ASSUME NEW c \in Call, Start(c) PROVE [Next]_facts
  BY <1>4 DEF Start, Write, Next
<1>5. ASSUME NEW c \in Call, RunBody(c) PROVE [Next]_facts
  <2>1. CASE Tool[c] = "exit_plan_mode"
    BY <1>5, <2>1 DEF RunBody, Write, Next
  <2>2. CASE Tool[c] = "run_code"
    BY <1>5, <2>2 DEF RunBody, Write, Next
  <2>3. CASE Tool[c] \notin {"exit_plan_mode", "run_code"}
    BY <1>5, <2>3 DEF RunBody
  <2>4. QED BY <2>1, <2>2, <2>3
<1>6. ASSUME NEW c \in Call, Commit(c) PROVE [Next]_facts
  <2>1. body[c] \in Terminal
    BY <1>6 DEF Commit, InHand, Ended, Terminal, StartedEnds
  <2>2. QED BY <1>6, <2>1, ToolFinishedStep DEF Commit, Write
<1>7. ASSUME NEW c \in Call, CommitThenInterrupt(c) PROVE [Next]_facts
  <2>1. body[c] \in Terminal
    BY <1>7 DEF CommitThenInterrupt, Terminal, StartedEnds
  <2>2. QED BY <1>7, <2>1, ToolFinishedStep DEF CommitThenInterrupt, Write
<1>8. ASSUME NEW c \in Call, ExceedLimit(c) PROVE Next
  BY <1>8, ToolFinishedStep DEF ExceedLimit, Terminal, UnstartedEnds
<1>9. ASSUME NEW c \in Call, NEW outcome \in Ended, EndBody(c, outcome) PROVE UNCHANGED facts
  BY <1>9 DEF EndBody
<1>10. CASE EndBatch
  BY <1>10 DEF EndBatch
<1>11. CASE Drained
  BY <1>11 DEF Drained
<1>12. QED
  BY <1>1, <1>2, <1>3, <1>4, <1>5, <1>6, <1>7, <1>8, <1>9, <1>10, <1>11 DEF Execution

(* So are the events of Code Mode. *)
LEMMA CodeModeAccepted ==
  ASSUME CodeMode
  PROVE  [Next]_facts
<1>1. ASSUME NEW p \in Call, NEW n \in Call, PlanNode(p, n) PROVE [Next]_facts
  BY <1>1 DEF PlanNode, Write, Next
<1>2. ASSUME NEW n \in Call, NEW status \in {"upstream_failed", "not_executed"}, SkipNode(n, status)
      PROVE [Next]_facts
  BY <1>2, ToolFinishedStep DEF SkipNode, Write, Terminal, UnstartedEnds
<1>3. ASSUME NEW p \in Call, NEW status \in {"succeeded", "failed"}, EndRun(p, status) PROVE [Next]_facts
  BY <1>3, RunFinishedStep DEF EndRun, Write, RunEnds
<1>4. ASSUME NEW n \in Call, AbortNode(n) PROVE [Next]_facts
  <2>1. PICK status \in {"outcome_unknown", "not_executed"} :
           Write("executor", CanToolFinished(n, status), ToolFinished(n, status))
    BY <1>4 DEF AbortNode
  <2>2. QED BY <2>1, ToolFinishedStep DEF Write, Terminal, UnstartedEnds, StartedEnds
<1>5. ASSUME NEW p \in Call, AbortRun(p) PROVE [Next]_facts
  BY <1>5, RunFinishedStep DEF AbortRun, Write, RunEnds
<1>6. QED BY <1>1, <1>2, <1>3, <1>4, <1>5 DEF CodeMode

(* And the events of recovery and reconciliation. *)
LEMMA RecoveryAccepted ==
  ASSUME Recovery
  PROVE  [Next]_facts
<1> DEFINE Lost(c) == Write("recovery", CanToolFinished(c, LostAs(c)), ToolFinished(c, LostAs(c)))
<1>1. ASSUME NEW c \in Call, Lost(c) PROVE [Next]_facts
  <2>1. LostAs(c) \in Terminal
    BY DEF LostAs, Terminal, UnstartedEnds, StartedEnds
  <2>2. QED BY <1>1, <2>1, ToolFinishedStep DEF Write
<1>2. CASE Restart
  BY <1>2 DEF Restart
<1>3. ASSUME NEW p \in Call, NEW n \in Call, RecoverNode(p, n) PROVE [Next]_facts
  BY <1>1, <1>3 DEF RecoverNode, Recover
<1>4. ASSUME NEW p \in Call, RecoverRun(p) PROVE [Next]_facts
  BY <1>4, RunFinishedStep DEF RecoverRun, Recover, Write, RunEnds
<1>5. ASSUME NEW p \in Call, RecoverParent(p) PROVE [Next]_facts
  BY <1>5, ToolFinishedStep DEF RecoverParent, Recover, Write, Terminal, StartedEnds
<1>6. ASSUME NEW c \in Call, RecoverCall(c) PROVE [Next]_facts
  BY <1>1, <1>6 DEF RecoverCall, Recover
<1>7. ASSUME NEW c \in Call, CompleteCall(c) PROVE [Next]_facts
  <2>1. CASE intent = "abandon"
    BY <1>7, <2>1, ReconciledStep DEF CompleteCall, Recover, Write, Outcomes
  <2>2. CASE intent # "abandon"
    BY <1>1, <1>7, <2>2 DEF CompleteCall, Recover
  <2>3. QED BY <2>1, <2>2
<1>8. CASE RecoverIntent
  BY <1>8 DEF RecoverIntent, Recover, Write, Intents, Next
<1>9. CASE Recovered
  BY <1>9 DEF Recovered
<1>10. CASE CompleteTurn
  <2>1. PICK status \in {"abandoned", "interrupted"} :
           Write("recovery", CanTurnFinished(status), TurnFinished(status))
    BY <1>10 DEF CompleteTurn, Recover
  <2>2. QED BY <2>1 DEF Write, Next, TurnEnds
<1>11. ASSUME NEW c \in Call, NEW outcome \in Outcomes, Reconcile(c, outcome) PROVE [Next]_facts
  BY <1>11, ReconciledStep DEF Reconcile, Recover, Write
<1>12. CASE Abandon
  BY <1>12 DEF Abandon, Recover, Write, Intents, Next
<1>13. CASE Unblocked
  BY <1>13 DEF Unblocked
<1>14. QED
  BY <1>2, <1>3, <1>4, <1>5, <1>6, <1>7, <1>8, <1>9, <1>10, <1>11, <1>12, <1>13 DEF Recovery

(* The user starts turns and gives commands; a stop or a Ctrl-C writes       *)
(* nothing. *)
LEMMA UserAccepted ==
  ASSUME planMode \in BOOLEAN, User
  PROVE  [Next]_facts
<1>1. ASSUME NEW t \in Turn, StartTurn(t) PROVE Next
  BY <1>1 DEF StartTurn, Next
<1>2. CASE Command
  BY <1>2 DEF Command, Write, Next
<1>3. CASE Stop
  BY <1>3 DEF Stop
<1>4. ASSUME NEW c \in Call, InterruptBody(c) \/ InterruptAbort(c) PROVE UNCHANGED facts
  BY <1>4 DEF InterruptBody, InterruptAbort
<1>5. CASE InterruptWait \/ InterruptExecutor \/ InterruptTurn \/ InterruptAppend
  BY <1>5 DEF InterruptWait, InterruptExecutor, InterruptTurn, InterruptAppend
<1>6. QED BY <1>1, <1>2, <1>3, <1>4, <1>5 DEF User

(* While a turn is closed or finished its verdict stays one of the statuses  *)
(* a turn may end with. *)
LEMMA VerdictStep ==
  ASSUME VerdictIsKnown, [SessionNext]_vars
  PROVE  VerdictIsKnown'
<1> USE DEF VerdictIsKnown, TurnEnds, control
<1>1. CASE Turns
  BY <1>1 DEF Turns, ResumeTurn, AcceptBatch, EndSampling, FinalizeAfterLimit, ProjectionFails, CloseCall, Closed,
              FinishTurn, FinishRefusedOnce, Escape, Close
<1>2. CASE Execution
  BY <1>2 DEF Execution, Refuse, Decide, FinishRefused, Start, RunBody, Commit, CommitThenInterrupt,
              ExceedLimit, EndBody, EndBatch, Drained, Propagate, Close
<1>3. CASE CodeMode
  BY <1>3 DEF CodeMode, PlanNode, SkipNode, EndRun, AbortNode, AbortRun
<1>4. CASE Recovery
  BY <1>4 DEF Recovery, Restart, RecoverNode, RecoverRun, RecoverParent, RecoverCall, CompleteCall,
              RecoverIntent, Recovered, CompleteTurn, Reconcile, Abandon, Unblocked, Recover
<1>5. CASE User
  BY <1>5 DEF User, StartTurn, Command, Stop, InterruptBody, InterruptAbort, InterruptWait,
              InterruptExecutor, InterruptTurn, InterruptAppend, Propagate, Close
<1>6. CASE UNCHANGED vars
  BY <1>6 DEF vars
<1>7. QED BY <1>1, <1>2, <1>3, <1>4, <1>5, <1>6 DEF SessionNext, Program

(* Every step of a session is a step of the reducer's log, or leaves it.     *)
LEMMA StepAccepted ==
  ASSUME TypeOK, VerdictIsKnown, [SessionNext]_vars
  PROVE  [Next]_facts
<1>1. CASE UNCHANGED vars
  BY <1>1 DEF vars
<1>2. CASE User
  BY <1>2, UserAccepted DEF TypeOK
<1>3. QED
  BY <1>1, <1>2, TurnsAccepted, ExecutionAccepted, CodeModeAccepted, RecoveryAccepted
  DEF SessionNext, Program

-----------------------------------------------------------------------------
(* The step limit.  tool_steps is in memory only and starts again at zero    *)
(* with each turn; what ties it to the rollout is that resume_active_turn    *)
(* counts the batches of the turn.                                           *)

Driving == {"sample", "batch", "drain", "abort", "close", "finish"}

StepsAreCounted ==
  /\ batches \in [Turn -> 0 .. MaxSteps]
  /\ \A t \in Turn : turn[t] = "unused" => batches[t] = 0
  /\ phase \in Driving /\ active # NoTurn => steps = batches[active]

(* No event makes a turn unused again. *)
LEMMA UsedForEver ==
  ASSUME TypeOK, [Next]_facts, NEW t \in Turn, turn'[t] = "unused"
  PROVE  turn[t] = "unused"
<1> USE DEF TypeOK, facts, TurnEnds
<1>1. CASE UNCHANGED facts
  BY <1>1
<1>2. ASSUME NEW u \in Turn, TurnStarted(u) PROVE turn[t] = "unused"
  BY <1>2 DEF TurnStarted
<1>3. ASSUME NEW status \in TurnEnds, TurnFinished(status) PROVE turn[t] = "unused"
  BY <1>3 DEF TurnFinished
<1>4. ASSUME NEW c \in Call, NEW status \in Terminal, ToolFinished(c, status) PROVE turn[t] = "unused"
  BY <1>4 DEF ToolFinished, RefreshRecoveryBlock
<1>5. ASSUME NEW c \in Call, NEW outcome \in Outcomes, ToolReconciled(c, outcome) PROVE turn[t] = "unused"
  BY <1>5 DEF ToolReconciled, RefreshRecoveryBlock
<1>6. QED
  BY <1>1, <1>2, <1>3, <1>4, <1>5
  DEF Next, AssistantAccepted, ApprovalDecided, ApprovalReset, ToolStarted, CodeRunStarted,
      CodeNodePlanned, CodeRunFinished, RecoveryIntent, PlanModeSet

(* Execution counts nothing. *)
LEMMA ExecutionKeepsSteps ==
  ASSUME Execution \/ CodeMode
  PROVE  UNCHANGED <<active, steps, batches>> /\ phase \in Driving
<1> USE DEF Driving, control, ghosts, facts, Write, Close, ToolFinished, RefreshRecoveryBlock
<1>1. ASSUME NEW c \in Call, NEW status \in UnstartedEnds, Refuse(c, status)
      PROVE  UNCHANGED <<active, steps, batches>> /\ phase \in Driving
  BY <1>1 DEF Refuse, Preparing
<1>2. ASSUME NEW c \in Call, NEW answer \in {"once", "session", "deny", "interrupt"}, Decide(c, answer)
      PROVE  UNCHANGED <<active, steps, batches>> /\ phase \in Driving
  BY <1>2 DEF Decide, Preparing, ApprovalDecided
<1>3. ASSUME NEW c \in Call, FinishRefused(c)
      PROVE  UNCHANGED <<active, steps, batches>> /\ phase \in Driving
  BY <1>3 DEF FinishRefused, Propagate
<1>4. ASSUME NEW c \in Call, Start(c) \/ RunBody(c)
      PROVE  UNCHANGED <<active, steps, batches>> /\ phase \in Driving
  BY <1>4 DEF Start, RunBody, ToolStarted, PlanModeSet, CodeRunStarted
<1>5. ASSUME NEW c \in Call, Commit(c) \/ CommitThenInterrupt(c) \/ ExceedLimit(c)
      PROVE  UNCHANGED <<active, steps, batches>> /\ phase \in Driving
  BY <1>5 DEF Commit, CommitThenInterrupt, ExceedLimit
<1>6. ASSUME NEW c \in Call, NEW outcome \in Ended, EndBody(c, outcome)
      PROVE  UNCHANGED <<active, steps, batches>> /\ phase \in Driving
  BY <1>6 DEF EndBody
<1>7. CASE EndBatch \/ Drained
  BY <1>7 DEF EndBatch, Drained
<1>8. ASSUME CodeMode
      PROVE  UNCHANGED <<active, steps, batches>> /\ phase \in Driving
  BY <1>8 DEF CodeMode, PlanNode, SkipNode, EndRun, AbortNode, AbortRun, Preparing,
              CodeNodePlanned, CodeRunFinished
<1>9. QED
  BY <1>1, <1>2, <1>3, <1>4, <1>5, <1>6, <1>7, <1>8 DEF Execution

(* Recovery counts nothing, and drives no turn. *)
LEMMA RecoveryKeepsSteps ==
  ASSUME Recovery
  PROVE  batches' = batches /\ phase' \notin Driving
<1> USE DEF Driving, ghosts
<1>1. CASE Restart
  BY <1>1 DEF Restart
<1>2. QED
  BY <1>1 DEF Recovery, RecoverNode, RecoverRun, RecoverParent, RecoverCall, CompleteCall,
              RecoverIntent, Recovered, CompleteTurn, Reconcile, Abandon, Unblocked, Recover,
              Recovering

(* A loop over turns counts the batch it accepts, and only within the limit. *)
LEMMA TurnsCountSteps ==
  ASSUME Inv, StepsAreCounted, Turns,
         \A t \in Turn : turn'[t] = "unused" => turn[t] = "unused"
  PROVE  StepsAreCounted'
<1> USE DEF StepsAreCounted, Driving, control, ghosts
<1>1. CASE ResumeTurn
  BY <1>1 DEF ResumeTurn, Continuable, facts, Inv, TypeOK
<1>2. ASSUME NEW calls \in SUBSET Call, AcceptBatch(calls) PROVE StepsAreCounted'
  <2>1. active \in Turn /\ turn[active] # "unused"
    BY <1>2 DEF AcceptBatch, CanAssistantAccepted, Inv, TypeOK, BlockedIffUnknown
  <2>2. steps = batches[active] /\ steps < MaxSteps /\ active' = active /\ turn' = turn
    BY <1>2, <2>1 DEF AcceptBatch, CanAssistantAccepted, AssistantAccepted
  <2>3. batches' = [batches EXCEPT ![active] = batches[active] + 1] /\ steps' = steps + 1
    BY <1>2 DEF AcceptBatch
  <2>4. batches' \in [Turn -> 0 .. MaxSteps]
    BY <2>1, <2>2, <2>3, ConfigIsPositive
  <2>5. QED BY <2>1, <2>2, <2>3, <2>4
<1>3. ASSUME NEW c \in Call, CloseCall(c) PROVE StepsAreCounted'
  BY <1>3 DEF CloseCall, ToolFinished, RefreshRecoveryBlock
<1>4. CASE FinishTurn
  BY <1>4 DEF FinishTurn
<1>5. QED
  BY <1>1, <1>2, <1>3, <1>4
  DEF Turns, EndSampling, FinalizeAfterLimit, ProjectionFails, Closed, FinishRefusedOnce, Escape,
      Close, facts

(* The user starts a turn at zero; a Ctrl-C and a kill count nothing. *)
LEMMA UserKeepsSteps ==
  ASSUME StepsAreCounted, User,
         \A t \in Turn : turn'[t] = "unused" => turn[t] = "unused"
  PROVE  StepsAreCounted'
<1> USE DEF StepsAreCounted, Driving, control, ghosts
<1>1. ASSUME NEW t \in Turn, StartTurn(t) PROVE StepsAreCounted'
  BY <1>1 DEF StartTurn, TurnStarted
<1>2. CASE Command
  BY <1>2 DEF Command
<1>3. CASE Stop
  BY <1>3 DEF Stop
<1>4. QED
  BY <1>1, <1>2, <1>3
  DEF User, InterruptBody, InterruptAbort, InterruptWait, InterruptExecutor, InterruptTurn,
      InterruptAppend, Propagate, Close, facts

(* The counter in memory agrees with the rollout whenever a turn is driven.  *)
LEMMA StepsInvariance == SessionSpec => []StepsAreCounted
<1>1. SessionInit => Init /\ VerdictIsKnown /\ StepsAreCounted
  BY ConfigIsPositive DEF SessionInit, VerdictIsKnown, StepsAreCounted, Driving
<1>2. Inv /\ VerdictIsKnown /\ StepsAreCounted /\ [SessionNext]_vars => StepsAreCounted'
  <2> SUFFICES ASSUME Inv, VerdictIsKnown, StepsAreCounted, [SessionNext]_vars
               PROVE  StepsAreCounted'
    OBVIOUS
  <2>1. \A t \in Turn : turn'[t] = "unused" => turn[t] = "unused"
    BY StepAccepted, UsedForEver DEF Inv
  <2>2. CASE Execution \/ CodeMode
    BY <2>1, <2>2, ExecutionKeepsSteps DEF StepsAreCounted
  <2>3. CASE Recovery
    BY <2>1, <2>3, RecoveryKeepsSteps DEF StepsAreCounted
  <2>4. CASE UNCHANGED vars
    BY <2>4 DEF vars, facts, control, ghosts, StepsAreCounted
  <2>5. QED
    BY <2>1, <2>2, <2>3, <2>4, TurnsCountSteps, UserKeepsSteps DEF SessionNext, Program
<1>3. Inv /\ VerdictIsKnown /\ [SessionNext]_vars => Inv'
  BY StepAccepted, NextInv DEF Inv
<1>4. QED
  BY <1>1, <1>2, <1>3, InitInv, VerdictStep, PTL DEF SessionSpec

(* A turn never runs more tool batches than max_steps, over any number of    *)
(* crashes, interruptions and resumptions, for every limit: the counter in   *)
(* memory agrees with the rollout whenever a turn is driven                  *)
(* (resume_active_turn, _drive_turn).                                        *)
THEOREM StepLimitHolds == SessionSpec => []StepLimit
<1>1. StepsAreCounted => StepLimit
  BY DEF StepsAreCounted, StepLimit
<1>2. QED
  BY <1>1, StepsInvariance, PTL
=============================================================================
