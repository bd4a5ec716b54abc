---------------------------- MODULE Compaction -----------------------------
(***************************************************************************)
(* What the model sees: the messages the rollout projects to, the budget a *)
(* request must fit, and the checkpoints that replace the older messages   *)
(* by a summary.  AgentLoop samples, compacts at most once for a sample,   *)
(* and appends replies and results; the user may compact between turns;    *)
(* Ctrl-C and crashes come anywhere.                                       *)
(*                                                                         *)
(* A message is its position in history, so a conversation is the set of   *)
(* its messages, in the order of the log.                                  *)
(***************************************************************************)
EXTENDS Integers, Sequences, FiniteSetsExt

CONSTANTS Calls,        \* call ids; a later batch uses them again
          ToolSizes,    \* estimated tokens of a result; other messages take one
          System,       \* tokens of the system message and the tool schemas
          Available,    \* available_input
          MaxInput,     \* max_summary_input_chars, in the same unit
          Short,        \* max_old_tool_chars
          TailGroups,   \* tail_group_count
          Excess,       \* how far the provider counts above the estimate
          MaxSteps,     \* max_steps
          MaxMessages,  \* bound: length of the history
          MaxStops      \* bound: interruptions and crashes

ASSUME CompactionConfig ==
  /\ IsFiniteSet(Calls)
  /\ ToolSizes \subseteq Nat \ {0} /\ System \in Nat
  /\ {Available, MaxInput, Short, TailGroups, MaxSteps} \subseteq Nat \ {0}
  /\ {Excess, MaxMessages, MaxStops} \subseteq Nat

VARIABLES history,   \* the messages of the rollout
          open,      \* calls of the last batch that have no result yet
          kept,      \* replacement_conversation of the latest checkpoint
          through,   \* its through_seq
          digest,    \* the messages its summary was made from
          usage,     \* total_tokens of last_usage; 0: None
          steps,     \* tool_steps
          pc,        \* where the turn, or /compact, is
          compacted, \* this sample had its compaction
          stopping,  \* the turn ends when its open calls have results
          stops
checkpoint == <<kept, through, digest>>
turn == <<steps, compacted, stopping>>
vars == <<history, open, checkpoint, usage, turn, pc, stops>>

Message == [role : {"user", "assistant", "tool"}, calls : SUBSET Calls,
            size : ToolSizes \union {1}]
UserMessage == [role |-> "user", calls |-> {}, size |-> 1]
Reply(cs) == [role |-> "assistant", calls |-> cs, size |-> 1]
ToolMessage(c, n) == [role |-> "tool", calls |-> {c}, size |-> n]

Init ==
  /\ history = <<>> /\ open = {}
  /\ kept = {} /\ through = 0 /\ digest = {}
  /\ usage = 0 /\ steps = 0 /\ pc = "idle"
  /\ compacted = FALSE /\ stopping = FALSE /\ stops = 0

-----------------------------------------------------------------------------
(* Conversations: PromptProjector, validate_conversation, atomic_groups. *)

View == kept \union (through + 1 .. Len(history))
WithRole(role, ms) == {i \in ms : history[i].role = role}

(* Bug: every message begins a group. *)
StartsAnywhere(ms) == ms

Starts(ms) == ms \ WithRole("tool", ms)
GroupOf(i, ms) == {j \in ms : i <= j /\ \A s \in Starts(ms) : s <= j => s <= i}

(* After a reply come the results of its calls, one for each, and no result  *)
(* is anywhere else.                                                         *)
Valid(ms) ==
  LET tools == WithRole("tool", ms)
      heads == ms \ tools
      answers(i) == {j \in tools : i < j /\ \A s \in heads : s < j => s <= i}
  IN /\ tools = UNION {answers(i) : i \in heads}
     /\ \A i \in heads :
          /\ UNION {history[j].calls : j \in answers(i)} = history[i].calls
          /\ Cardinality(answers(i)) = Cardinality(history[i].calls)

(* Bug: only the most recent groups are kept. *)
KeptTail(ms) ==
  UNION {GroupOf(i, ms) : i \in {s \in Starts(ms) :
           Cardinality({j \in Starts(ms) : j >= s}) <= TailGroups}}

(* The first task, the last one, and the most recent groups. *)
Kept(ms) ==
  LET users == WithRole("user", ms)
      recent == {s \in Starts(ms) : Cardinality({j \in Starts(ms) : j >= s}) <= TailGroups}
  IN UNION {GroupOf(i, ms) : i \in {Min(users), Max(users)} \union recent}

-----------------------------------------------------------------------------
(* Budgets: estimate_request_tokens, usage_anchored_request_tokens. *)

Size(i) == history[i].size
Cost(ms) == MapThenSumSet(Size, ms)
Summary == IF through = 0 THEN 0 ELSE 1
Heuristic == System + Summary + Cost(View)

Replies == WithRole("assistant", View)
Anchored == usage + (IF Replies = {} THEN Heuristic
                     ELSE Cost({i \in View : i > Max(Replies)}))
Fits == Heuristic <= Available /\ (usage # 0 => Anchored <= Available)

(* Bug: what is kept is not summarised. *)
FreshNotKept == (View \ kept) \ Kept(View)

(* The summary request skips what the previous summary was made from, and    *)
(* shortens old results when it is too large.                                *)
Fresh == View \ kept
Shortened(i) == IF i \in WithRole("tool", Fresh) \ Kept(View) /\ Size(i) > Short
                THEN Short ELSE Size(i)
Summarisable ==
  /\ WithRole("user", View) # {}
  /\ Fresh # {} => Min(Fresh) \in Starts(View)
  /\ Summary + MapThenSumSet(Shortened, Fresh) <= MaxInput

Checkpointed ==
  /\ Summarisable /\ open = {}
  /\ kept' = Kept(View) /\ through' = Len(history)
  /\ digest' = digest \union Fresh

-----------------------------------------------------------------------------
(* Turns. *)

StartTurn ==
  /\ pc = "idle" /\ Len(history) < MaxMessages
  /\ history' = Append(history, UserMessage)
  /\ pc' = "project" /\ steps' = 0 /\ compacted' = FALSE /\ stopping' = FALSE
  /\ UNCHANGED <<open, checkpoint, usage, stops>>

(* /compact *)
Command ==
  /\ pc = "idle" /\ Checkpointed
  /\ UNCHANGED <<history, open, usage, turn, pc, stops>>

(* Bug: a request that does not fit is compacted as often as it takes. *)
ProjectAgain ==
  /\ pc = "project"
  /\ pc' = IF Fits THEN "sample" ELSE "compact"
  /\ UNCHANGED <<history, open, checkpoint, usage, turn, stops>>

Project ==
  /\ pc = "project"
  /\ pc' = IF Fits THEN "sample" ELSE IF compacted THEN "toobig" ELSE "compact"
  /\ UNCHANGED <<history, open, checkpoint, usage, turn, stops>>

(* SessionCompactor.compact for the loop; the summary may fail.              *)
Compact ==
  /\ pc = "compact"
  /\ \/ Checkpointed /\ pc' = "project" /\ compacted' = TRUE
     \/ pc' = "done" /\ UNCHANGED <<checkpoint, compacted>>
  /\ UNCHANGED <<history, open, usage, steps, stopping, stops>>

(* usage is recorded with the reply, when the provider reports it.           *)
Accept(cs) ==
  /\ history' = Append(history, Reply(cs))
  /\ usage' \in {usage} \union {Heuristic + 1 + n : n \in 0 .. Excess}

SampleText ==
  /\ pc = "sample" /\ Len(history) < MaxMessages
  /\ Accept({}) /\ pc' = "done"
  /\ UNCHANGED <<open, checkpoint, turn, stops>>

SampleBatch(cs) ==
  /\ pc = "sample" /\ steps < MaxSteps
  /\ cs # {} /\ Len(history) + Cardinality(cs) < MaxMessages
  /\ Accept(cs) /\ open' = cs /\ steps' = steps + 1 /\ pc' = "batch"
  /\ UNCHANGED <<checkpoint, compacted, stopping, stops>>

SampleOverflow ==
  /\ pc = "sample"
  /\ pc' = IF compacted THEN "done" ELSE "compact"
  /\ UNCHANGED <<history, open, checkpoint, usage, turn, stops>>

(* Every other outcome ends the turn, as does a batch after the last step.   *)
SampleFails ==
  /\ pc = "sample" /\ pc' = "done"
  /\ UNCHANGED <<history, open, checkpoint, usage, turn, stops>>

(* A result in any order; after an interruption or a recovery it says so.    *)
ToolResult(c, n) ==
  /\ pc = "batch" /\ c \in open /\ (stopping => n = 1)
  /\ history' = Append(history, ToolMessage(c, n))
  /\ open' = open \ {c}
  /\ pc' = IF open' # {} THEN "batch" ELSE IF stopping THEN "done" ELSE "project"
  /\ compacted' = IF open' = {} THEN FALSE ELSE compacted
  /\ UNCHANGED <<checkpoint, usage, steps, stopping, stops>>

Finish ==
  /\ pc \in {"done", "toobig"} /\ pc' = "idle"
  /\ UNCHANGED <<history, open, checkpoint, usage, turn, stops>>

Stopped == stops < MaxStops /\ stops' = stops + 1

(* Ctrl-C: calls that are open are closed, and the turn ends.                *)
Interrupt ==
  /\ pc \in {"project", "compact", "sample", "batch"} /\ Stopped
  /\ stopping' = TRUE /\ pc' = IF open = {} THEN "done" ELSE "batch"
  /\ UNCHANGED <<history, open, checkpoint, usage, steps, compacted>>

(* After a crash the rollout is all there is; the turn is continued, or ended *)
(* by the user.                                                              *)
Crash ==
  /\ pc # "idle" /\ Stopped
  /\ compacted' = FALSE /\ stopping' \in BOOLEAN
  /\ pc' = IF open # {} THEN "batch" ELSE IF stopping' THEN "done" ELSE "project"
  /\ UNCHANGED <<history, open, usage, steps>>
  /\ \/ UNCHANGED checkpoint
     \/ pc = "compact" /\ Checkpointed

Step ==
  \/ Project \/ Compact \/ SampleText \/ SampleOverflow \/ SampleFails \/ Finish
  \/ (\E cs \in SUBSET Calls : SampleBatch(cs))
  \/ (\E c \in Calls, n \in ToolSizes \union {1} : ToolResult(c, n))

Next == Step \/ StartTurn \/ Command \/ Interrupt \/ Crash

Spec == Init /\ [][Next]_vars

(* Sampling, tools and the summary end (each has a timeout).                 *)
FairSpec == Spec /\ WF_vars(Step)

-----------------------------------------------------------------------------
ContextTypeOK ==
  /\ history \in Seq(Message) /\ open \subseteq Calls
  /\ kept \union digest \subseteq 1 .. through /\ through \in 0 .. Len(history)
  /\ usage \in Nat /\ steps \in 0 .. MaxSteps /\ stops \in 0 .. MaxStops
  /\ pc \in {"idle", "project", "compact", "sample", "batch", "done", "toobig"}
  /\ {compacted, stopping} \subseteq BOOLEAN

(* Whenever no call is open, the conversation the model is shown is one the  *)
(* provider accepts, after any number of compactions, interruptions and      *)
(* crashes.  (validate_conversation.)                                        *)
ViewIsValid == open = {} => Valid(View)

(* The first task of the session and the one at hand are always shown word   *)
(* for word.  (prepare_compaction, retained_indexes.)                        *)
TaskStays ==
  history # <<>> => {1, Max(WithRole("user", DOMAIN history))} \subseteq View

(* Whatever is no longer shown went into the chain of summaries the model is *)
(* shown instead.  (summarized_prefix_message_count.)                        *)
NothingForgotten == DOMAIN history \subseteq View \union digest

(* A compaction that fails, or does not help, ends the turn instead of being *)
(* tried again: no turn hangs on its context.  (_sample_with_one_compaction.) *)
TurnsGoOn == pc # "idle" ~> pc = "idle"

(* A turn is given up for the size of its context only when what would be    *)
(* sent is too large.                                                        *)
GivenUpForSize == pc = "toobig" => Heuristic > Available
=============================================================================
