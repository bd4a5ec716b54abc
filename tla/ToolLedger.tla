----------------------------- MODULE ToolLedger -----------------------------
(***************************************************************************)
(* What the rollout promises about the side effects of tool calls, without  *)
(* the program that keeps the promise: the intent to run a body is on       *)
(* record before the body runs, a body runs at most once, a body whose      *)
(* result was lost is recorded as uncertain, and only a person settles it.  *)
(* Session implements this specification (Session!Ledger).                  *)
(***************************************************************************)
EXTENDS Naturals

CONSTANT Call

VARIABLES ledger,  \* what the facts say of each call
          effect   \* how often the body of each call ran

Entries == {"blank", "refused", "intended", "settled", "uncertain", "judged"}

LedgerInit == /\ ledger = [c \in Call |-> "blank"]
              /\ effect = [c \in Call |-> 0]

Mark(c, from, to) ==
  /\ ledger[c] \in from
  /\ ledger' = [ledger EXCEPT ![c] = to]
  /\ UNCHANGED effect

Intend(c) == Mark(c, {"blank"}, "intended")

(* The call ends without its body, and says so. *)
Decline(c) == Mark(c, {"blank"}, "refused")

(* Some results do not say whether the body ran. *)
Settle(c) == Mark(c, {"blank", "intended"}, "settled")

LoseTrack(c) == Mark(c, {"intended"}, "uncertain")

Judge(c) == Mark(c, {"uncertain"}, "judged")

RunOnce(c) ==
  /\ ledger[c] = "intended" /\ effect[c] = 0
  /\ effect' = [effect EXCEPT ![c] = 1]
  /\ UNCHANGED ledger

LedgerNext == \E c \in Call : \/ Intend(c) \/ Decline(c) \/ Settle(c)
                              \/ LoseTrack(c) \/ Judge(c) \/ RunOnce(c)

LedgerSpec == LedgerInit /\ [][LedgerNext]_<<ledger, effect>>

(* A call recorded as refused had no effect, and no call had two; an effect  *)
(* without a result is never silent: it is an intent or an uncertainty       *)
(* (start_staged before dispatch_staged; plan_recovery_events).              *)
LedgerIsHonest ==
  \A c \in Call : /\ ledger[c] \in {"blank", "refused"} => effect[c] = 0
                  /\ effect[c] \in {0, 1}
=============================================================================
