--------------------------- MODULE SessionReducer ---------------------------
(***************************************************************************)
(* The facts of a session.  SessionState is derived only by replaying the   *)
(* rollout, so the state of this module is what the accepted events say:    *)
(* one action per event type, its guard the DomainErrors the handler raises *)
(* (CanX) and its effect what the handler assigns (X).  Next accepts every  *)
(* log the reducer accepts, whoever wrote it; Session.tla adds the program  *)
(* that writes them.                                                        *)
(*                                                                          *)
(* Data left out: inputs, results, usage, timestamps and the identity       *)
(* checks on payload fields.  File plans and snapshots, undo results and    *)
(* checkpoints belong to other components.                                  *)
(***************************************************************************)
EXTENDS Naturals, FiniteSets

CONSTANTS Turn,      \* turn ids
          Call,      \* call keys, of model calls and of code nodes
          Tool,      \* the tool each call key names: a function from Call
          NoTurn, NoCall

ToolNames == {"read", "grep", "effect", "run_code", "exit_plan_mode"}

ASSUME CallsAreKeys == /\ NoTurn \notin Turn
                       /\ NoCall \notin Call
                       /\ Tool \in [Call -> ToolNames]

VARIABLES active,    \* active_turn_id
          turn,      \* turns: the status of each id, "unused" before turn_started
          call,      \* tool_calls: the status of each key, "absent" before it is accepted
          owner,     \* the turn_id of each call
          parent,    \* parent_call_key: NoCall for a call of origin "model"
          approved,  \* the approved field: "undecided", "yes" or "no"
          run,       \* code_runs, each named by its parent call
          intent,    \* the action of pending_recovery_intent, or "none"
          blocked,   \* recovery_blocked
          planMode,  \* plan_mode_active
          always     \* session_approval_always

facts == <<active, turn, call, owner, parent, approved, run, intent, blocked,
           planMode, always>>

-----------------------------------------------------------------------------
(* Statuses. *)

Open == {"requested", "started"}

(* _TOOL_FINISH_TRANSITIONS: how a call that never started, and one that did, may end. *)
UnstartedEnds == {"denied", "invalid_arguments", "unknown_tool", "not_executed",
                  "batch_limit_exceeded", "cancelled", "failed", "upstream_failed"}
StartedEnds   == {"succeeded", "failed", "timed_out", "interrupted", "conflict",
                  "cancelled", "outcome_unknown"}
Reconciled    == {"user_confirmed_success", "user_confirmed_failure", "abandoned"}

Terminal   == UnstartedEnds \union StartedEnds \union Reconciled
Settled    == Terminal \ {"outcome_unknown"}
CallStatus == {"absent"} \union Open \union Terminal

TurnEnds   == {"completed", "failed", "interrupted", "max_steps_reached", "abandoned"}
TurnStatus == {"unused", "active", "recovery_blocked"} \union TurnEnds
RunEnds    == {"succeeded", "failed", "interrupted"}
Intents    == {"recover_interrupted", "abandon"}

(* What the user may answer about an unknown outcome, and the status it gives. *)
Outcomes == {"succeeded", "failed", "abandoned"}
ReconciledAs(o) == CASE o = "succeeded" -> "user_confirmed_success"
                     [] o = "failed"    -> "user_confirmed_failure"
                     [] o = "abandoned" -> "abandoned"

TurnCalls == {c \in Call : owner[c] = active}
CallsIn(S) == {c \in TurnCalls : call[c] \in S}
Nodes(p) == {n \in Call : parent[n] = p}

TypeOK ==
  /\ active \in Turn \union {NoTurn}
  /\ turn \in [Turn -> TurnStatus]
  /\ call \in [Call -> CallStatus]
  /\ owner \in [Call -> Turn \union {NoTurn}]
  /\ parent \in [Call -> Call \union {NoCall}]
  /\ approved \in [Call -> {"undecided", "yes", "no"}]
  /\ run \in [Call -> {"absent", "active"} \union RunEnds]
  /\ intent \in Intents \union {"none"}
  /\ blocked \in BOOLEAN
  /\ planMode \in BOOLEAN
  /\ always \in BOOLEAN

Init ==
  /\ active = NoTurn
  /\ turn = [t \in Turn |-> "unused"]
  /\ call = [c \in Call |-> "absent"]
  /\ owner = [c \in Call |-> NoTurn]
  /\ parent = [c \in Call |-> NoCall]
  /\ approved = [c \in Call |-> "undecided"]
  /\ run = [c \in Call |-> "absent"]
  /\ intent = "none"
  /\ blocked = FALSE
  /\ planMode = FALSE
  /\ always = FALSE

-----------------------------------------------------------------------------
(* The events of a turn. *)

CanTurnStarted(t) == active = NoTurn /\ turn[t] = "unused"

TurnStarted(t) ==
  /\ active' = t
  /\ turn' = [turn EXCEPT ![t] = "active"]
  /\ UNCHANGED <<call, owner, parent, approved, run, intent, blocked, planMode, always>>

(* calls is empty for a text response. *)
CanAssistantAccepted(calls) ==
  /\ active # NoTurn
  /\ intent = "none"
  /\ ~blocked
  /\ CallsIn(Open) = {}
  /\ \A c \in calls : call[c] = "absent"

AssistantAccepted(calls) ==
  /\ call' = [c \in Call |-> IF c \in calls THEN "requested" ELSE call[c]]
  /\ owner' = [c \in Call |-> IF c \in calls THEN active ELSE owner[c]]
  /\ UNCHANGED <<active, turn, parent, approved, run, intent, blocked, planMode, always>>

(* Bug: the recovery block is not looked at. *)
TurnFinishedWhileBlocked(status) ==
  /\ active # NoTurn
  /\ intent = "recover_interrupted" => status = "interrupted"
  /\ intent = "abandon" => status = "abandoned"
  /\ CallsIn(Open) = {}

CanTurnFinished(status) ==
  /\ active # NoTurn
  /\ ~blocked
  /\ intent = "recover_interrupted" => status = "interrupted"
  /\ intent = "abandon" => status = "abandoned"
  /\ CallsIn(Open) = {}

TurnFinished(status) ==
  /\ turn' = [turn EXCEPT ![active] = status]
  /\ active' = NoTurn
  /\ blocked' = FALSE
  /\ intent' = "none"
  /\ UNCHANGED <<call, owner, parent, approved, run, planMode, always>>

-----------------------------------------------------------------------------
(* The events of a tool call. *)

CanApprovalDecided(c) ==
  /\ intent = "none"
  /\ c \in TurnCalls /\ active # NoTurn
  /\ call[c] = "requested"
  /\ approved[c] = "undecided"

ApprovalDecided(c, allow, scope) ==
  /\ approved' = [approved EXCEPT ![c] = IF allow THEN "yes" ELSE "no"]
  /\ always' = (always \/ scope = "session")
  /\ UNCHANGED <<active, turn, call, owner, parent, run, intent, blocked, planMode>>

CanApprovalReset == intent = "none"

ApprovalReset ==
  /\ always' = FALSE
  /\ UNCHANGED <<active, turn, call, owner, parent, approved, run, intent, blocked, planMode>>

CanToolStarted(c) ==
  /\ intent = "none"
  /\ c \in TurnCalls /\ active # NoTurn
  /\ call[c] = "requested"
  /\ approved[c] # "no"

ToolStarted(c) ==
  /\ call' = [call EXCEPT ![c] = "started"]
  /\ UNCHANGED <<active, turn, owner, parent, approved, run, intent, blocked, planMode, always>>

(* Bug: only the call of the event is looked at, not the others. *)
RefreshFromThisCall(c, status) ==
  LET unknown == status = "outcome_unknown"
  IN  /\ blocked' = unknown
      /\ turn' = [turn EXCEPT ![active] =
                    IF unknown THEN "recovery_blocked" ELSE "active"]

(* _refresh_recovery_block, once the status of c is known to become status. *)
RefreshRecoveryBlock(c, status) ==
  LET unknown == status = "outcome_unknown"
                   \/ \E d \in Call \ {c} : call[d] = "outcome_unknown"
  IN  /\ blocked' = unknown
      /\ turn' = [turn EXCEPT ![active] =
                    IF unknown THEN "recovery_blocked" ELSE "active"]

FinishAllowed(c, status) ==
  \/ call[c] = "requested" /\ status \in UnstartedEnds
  \/ call[c] = "started" /\ status \in StartedEnds

CanToolFinished(c, status) ==
  /\ c \in TurnCalls /\ active # NoTurn
  /\ intent # "none" => intent = "recover_interrupted" /\ status = "not_executed"
  /\ FinishAllowed(c, status)

ToolFinished(c, status) ==
  /\ call' = [call EXCEPT ![c] = status]
  /\ RefreshRecoveryBlock(c, status)
  /\ UNCHANGED <<active, owner, parent, approved, run, intent, planMode, always>>

-----------------------------------------------------------------------------
(* The events of Code Mode.  A call of origin "code" and its CodeNode carry *)
(* the same status, so one variable stands for both.                        *)

CanCodeRunStarted(p) ==
  /\ active # NoTurn
  /\ run[p] = "absent"
  /\ p \in TurnCalls
  /\ Tool[p] = "run_code"
  /\ call[p] = "started"

CodeRunStarted(p) ==
  /\ run' = [run EXCEPT ![p] = "active"]
  /\ UNCHANGED <<active, turn, call, owner, parent, approved, intent, blocked, planMode, always>>

CanCodeNodePlanned(p, n) ==
  /\ active # NoTurn
  /\ run[p] = "active"
  /\ call[n] = "absent"

CodeNodePlanned(p, n) ==
  /\ call' = [call EXCEPT ![n] = "requested"]
  /\ owner' = [owner EXCEPT ![n] = active]
  /\ parent' = [parent EXCEPT ![n] = p]
  /\ UNCHANGED <<active, turn, approved, run, intent, blocked, planMode, always>>

CanCodeRunFinished(p) ==
  /\ run[p] = "active"
  /\ \A n \in Nodes(p) : call[n] \in Terminal

CodeRunFinished(p, status) ==
  /\ run' = [run EXCEPT ![p] = status]
  /\ UNCHANGED <<active, turn, call, owner, parent, approved, intent, blocked, planMode, always>>

-----------------------------------------------------------------------------
(* The events of recovery, and plan mode. *)

(* Bug: that a call has started is not looked at. *)
IntentAfterStart(action) ==
  /\ active # NoTurn
  /\ intent = "none"
  /\ action = "recover_interrupted" => CallsIn({"requested"}) # {}
  /\ action = "abandon" => CallsIn({"outcome_unknown"}) # {}

CanRecoveryIntent(action) ==
  /\ active # NoTurn
  /\ intent = "none"
  /\ action = "recover_interrupted" =>
       /\ CallsIn({"requested"}) # {}
       /\ CallsIn({"started", "outcome_unknown"}) = {}
  /\ action = "abandon" => CallsIn({"outcome_unknown"}) # {}

RecoveryIntent(action) ==
  /\ intent' = action
  /\ UNCHANGED <<active, turn, call, owner, parent, approved, run, blocked, planMode, always>>

(* Bug: any finished call may be reconciled. *)
ReconciledTwice(c, outcome) ==
  /\ c \in TurnCalls /\ active # NoTurn
  /\ call[c] \in Terminal
  /\ intent # "none" => intent = "abandon" /\ outcome = "abandoned"

CanToolReconciled(c, outcome) ==
  /\ c \in TurnCalls /\ active # NoTurn
  /\ call[c] = "outcome_unknown"
  /\ intent # "none" => intent = "abandon" /\ outcome = "abandoned"

ToolReconciled(c, outcome) ==
  /\ call' = [call EXCEPT ![c] = ReconciledAs(outcome)]
  /\ RefreshRecoveryBlock(c, ReconciledAs(outcome))
  /\ UNCHANGED <<active, owner, parent, approved, run, intent, planMode, always>>

CanPlanModeSet == intent = "none"

PlanModeSet(on) ==
  /\ planMode' = on
  /\ UNCHANGED <<active, turn, call, owner, parent, approved, run, intent, blocked, always>>

-----------------------------------------------------------------------------
(* Every log the reducer accepts. *)

Next ==
  \/ \E t \in Turn : CanTurnStarted(t) /\ TurnStarted(t)
  \/ \E calls \in SUBSET Call : CanAssistantAccepted(calls) /\ AssistantAccepted(calls)
  \/ \E status \in TurnEnds : CanTurnFinished(status) /\ TurnFinished(status)
  \/ \E c \in Call, allow \in BOOLEAN, scope \in {"once", "session"} :
        /\ scope = "session" => allow
        /\ CanApprovalDecided(c) /\ ApprovalDecided(c, allow, scope)
  \/ CanApprovalReset /\ ApprovalReset
  \/ \E c \in Call : CanToolStarted(c) /\ ToolStarted(c)
  \/ \E c \in Call, status \in Terminal : CanToolFinished(c, status) /\ ToolFinished(c, status)
  \/ \E p \in Call : CanCodeRunStarted(p) /\ CodeRunStarted(p)
  \/ \E p, n \in Call : CanCodeNodePlanned(p, n) /\ CodeNodePlanned(p, n)
  \/ \E p \in Call, status \in RunEnds : CanCodeRunFinished(p) /\ CodeRunFinished(p, status)
  \/ \E action \in Intents : CanRecoveryIntent(action) /\ RecoveryIntent(action)
  \/ \E c \in Call, outcome \in Outcomes : CanToolReconciled(c, outcome) /\ ToolReconciled(c, outcome)
  \/ \E on \in BOOLEAN : CanPlanModeSet /\ PlanModeSet(on)

Spec == Init /\ [][Next]_facts

-----------------------------------------------------------------------------
(* What holds of every accepted log. *)

(* A finished turn leaves nothing behind: every call of a turn that is not   *)
(* the active one has a terminal result, and none of them is unknown         *)
(* (_apply_turn_finished refuses otherwise, and no later event may reach a   *)
(* call outside the active turn).                                            *)
FinishedTurnsAreSettled ==
  \A c \in Call : call[c] # "absent" /\ owner[c] # active => call[c] \in Settled

(* recovery_blocked, the status of the active turn and the calls agree: the  *)
(* flag is up exactly while some outcome is unknown, a turn shows it, and it *)
(* never survives the turn.                                                  *)
BlockedIffUnknown ==
  /\ blocked <=> \E c \in Call : call[c] = "outcome_unknown"
  /\ \A t \in Turn : turn[t] = "recovery_blocked" <=> blocked /\ t = active
  /\ \A t \in Turn : turn[t] \in {"active", "recovery_blocked"} <=> t = active

(* A pending recover_interrupted intent covers only calls that never started:*)
(* whatever follows it, no call of the turn is started or uncertain, so      *)
(* ending the turn as interrupted hides no side effect.                      *)
InterruptedIntentIsCertain ==
  intent = "recover_interrupted" => active # NoTurn /\ CallsIn({"started", "outcome_unknown"}) = {}

(* A denied call never gets past its boundary: a status only a started call  *)
(* can reach is never the status of a call whose approval was refused.       *)
StartedOnly == {"started"} \union Reconciled \union
               {"succeeded", "timed_out", "interrupted", "conflict", "outcome_unknown"}
DeniedNeverStarts == \A c \in Call : approved[c] = "no" => call[c] \notin StartedOnly

(* A finished code run has no open node, and neither an open node nor a run  *)
(* outlives the events that created it: every node belongs to a run.         *)
FinishedRunsAreClosed ==
  \A n \in Call : parent[n] # NoCall =>
     /\ call[n] # "absent"
     /\ run[parent[n]] # "absent"
     /\ run[parent[n]] \in RunEnds => call[n] \in Terminal

(* A terminal fact is final: a call leaves a terminal status only when the   *)
(* user reconciles an unknown outcome, a turn never reopens, a run never     *)
(* changes its verdict, and an approval is never revised.                    *)
FactsAreFinal ==
  [][ /\ \A c \in Call :
           /\ call[c] \in Settled => call'[c] = call[c]
           /\ call[c] = "outcome_unknown" => call'[c] \in {call[c]} \union Reconciled
           /\ approved[c] # "undecided" => approved'[c] = approved[c]
           /\ run[c] \in RunEnds => run'[c] = run[c]
      /\ \A t \in Turn : turn[t] \in TurnEnds => turn'[t] = turn[t]
    ]_facts
=============================================================================
