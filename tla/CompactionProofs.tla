-------------------------- MODULE CompactionProofs --------------------------
(***************************************************************************)
(* What the model is shown, for histories of any length, batches of any     *)
(* finite set of calls, and any number of compactions, interruptions and    *)
(* crashes: a conversation that is valid, with the tasks in it, and with    *)
(* summaries that stand for all that is missing.                            *)
(*                                                                          *)
(* Validity is no invariant of what is shown alone: it is one of the whole  *)
(* history (Answered), of which a view takes whole groups (Aligned).        *)
(***************************************************************************)
EXTENDS Compaction, TLAPS, FiniteSetTheorems

Sent == DOMAIN history
Users == WithRole("user", Sent)
Tools == WithRole("tool", Sent)
Heads == Sent \ Tools

(* j belongs to the group that head i begins.                                *)
Under(i, j) == i <= j /\ \A s \in Heads : s <= j => s <= i
Answers(i) == {j \in Tools : Under(i, j)}
IsLast(i) == i \in Heads /\ \A s \in Heads : s <= i
Due(i) == IF IsLast(i) THEN history[i].calls \ open ELSE history[i].calls

-----------------------------------------------------------------------------
(* The inductive invariant. *)

Typed ==
  /\ history \in Seq(Message) /\ open \subseteq Calls
  /\ through \in 0 .. Len(history) /\ kept \subseteq 1 .. through
  /\ pc \in {"idle", "project", "compact", "sample", "batch", "done", "toobig"}
  /\ {compacted, stopping} \subseteq BOOLEAN

(* A history begins with a task, and only a batch has calls open: those of   *)
(* the last reply, which no checkpoint has reached.                          *)
Begun ==
  /\ Len(history) # 0 => history[1].role = "user"
  /\ pc # "idle" => Len(history) # 0
  /\ open # {} => pc = "batch"
  /\ \A i \in Heads : IsLast(i) => open \subseteq history[i].calls
  /\ \A i \in Heads : IsLast(i) /\ open # {} => i > through

(* A reply has the results of its calls behind it, one for each, but for     *)
(* those that are open.                                                      *)
Answered ==
  \A i \in Heads : /\ UNION {history[j].calls : j \in Answers(i)} = Due(i)
                   /\ Cardinality(Answers(i)) = Cardinality(Due(i))

(* A group is shown whole or not at all.                                     *)
Aligned == \A i \in Heads, j \in Tools : Under(i, j) => (i \in View <=> j \in View)

(* The first task and the last one are shown.                                *)
Tasks == /\ Len(history) # 0 => 1 \in View
         /\ \A i \in Users : (\A k \in Users : k <= i) => i \in View

(* Summaries were made from all that a checkpoint has reached.               *)
Digested == 1 .. through \subseteq digest

ContextInv == Typed /\ Begun /\ Answered /\ Aligned /\ Tasks /\ Digested

-----------------------------------------------------------------------------
(* Least and greatest members of sets of positions. *)
LEMMA LeastExists ==
  ASSUME NEW S \in SUBSET Nat, S # {}
  PROVE  \E x \in S : \A y \in S : x <= y
<1> DEFINE below == {0 .. n : n \in S}
<1>1. /\ below \subseteq FiniteSubsetsOf(Nat) /\ below # {}
  <2>1. \A n \in S : 0 .. n \subseteq Nat /\ IsFiniteSet(0 .. n)
    BY FS_Interval
  <2>. QED BY <2>1 DEF FiniteSubsetsOf
<1>2. PICK b \in below : \A c \in below : <<c, b>> \notin StrictSubsetOrdering(Nat)
  <2> HIDE DEF below
  <2>. QED BY <1>1, FS_StrictSubsetOrderingWellFounded, WFMin
<1>3. PICK x \in S : b = 0 .. x
  OBVIOUS
<1>4. ASSUME NEW y \in S, y < x PROVE FALSE
  <2> DEFINE by == 0 .. y
  <2>1. by \in below /\ by \subseteq b /\ by \subseteq Nat /\ b \subseteq Nat /\ by # b
    BY <1>3, <1>4
  <2> HIDE DEF by
  <2>2. <<by, b>> \in StrictSubsetOrdering(Nat)
    BY <2>1 DEF StrictSubsetOrdering
  <2> HIDE DEF below
  <2>. QED BY <1>2, <2>1, <2>2
<1>. QED BY <1>4

LEMMA MinOf ==
  ASSUME NEW n \in Nat, NEW S \in SUBSET (1 .. n), S # {}
  PROVE  Min(S) \in S /\ \A y \in S : Min(S) <= y
<1>1. \E x \in S : \A y \in S : x <= y
  BY LeastExists
<1> QED BY <1>1 DEF Min

LEMMA MaxOf ==
  ASSUME NEW n \in Nat, NEW S \in SUBSET (1 .. n), S # {}
  PROVE  Max(S) \in S /\ \A y \in S : Max(S) >= y
<1> DEFINE T == {n - x : x \in S}
<1>1. T \in SUBSET Nat /\ T # {}
  <2>1. \A x \in S : n - x \in Nat
    OBVIOUS
  <2>2. PICK x \in S : TRUE
    OBVIOUS
  <2> QED BY <2>1, <2>2
<1>2. PICK m \in T : \A y \in T : m <= y
  <2> HIDE DEF T
  <2> QED BY <1>1, LeastExists
<1>3. PICK x \in S : m = n - x
  OBVIOUS
<1>4. ASSUME NEW y \in S PROVE x >= y
  <2>1. n - y \in T
    OBVIOUS
  <2>2. m <= n - y
    BY <1>2, <2>1
  <2> QED BY <1>3, <2>2
<1> QED BY <1>4 DEF Max

(* Every message is in the group of one head.                                *)
LEMMA HasHead ==
  ASSUME Typed, Begun, NEW j \in Sent
  PROVE  \E h \in Heads : Under(h, j)
<1> DEFINE below == {s \in Heads : s <= j}
<1>1. Sent = 1 .. Len(history) /\ Len(history) \in Nat
  BY DEF Sent, Typed
<1>2. 1 \in below
  BY <1>1 DEF Begun, Heads, Tools, WithRole
<1>3. below \in SUBSET (1 .. Len(history))
  BY <1>1 DEF Heads
<1>4. Max(below) \in below /\ \A y \in below : Max(below) >= y
  <2> HIDE DEF below
  <2> QED BY <1>1, <1>2, <1>3, MaxOf
<1> QED BY <1>1, <1>4 DEF Under, Heads

(* The heads of a view are those of the history that are in it.              *)
LEMMA ViewIs ==
  ASSUME Typed
  PROVE  /\ View \subseteq Sent
         /\ Sent = 1 .. Len(history) /\ Len(history) \in Nat
         /\ WithRole("tool", View) = View \intersect Tools
         /\ Starts(View) = View \intersect Heads
         /\ WithRole("user", View) = View \intersect Users
         /\ Users \subseteq Heads
<1>1. Sent = 1 .. Len(history) /\ Len(history) \in Nat
  <2>1. history \in Seq(Message)
    BY DEF Typed
  <2> QED BY <2>1 DEF Sent
<1>2. View \subseteq Sent
  <2>1. through \in 0 .. Len(history) /\ kept \subseteq 1 .. through
    BY DEF Typed
  <2>2. kept \subseteq Sent
    BY <1>1, <2>1
  <2>3. through + 1 .. Len(history) \subseteq Sent
    BY <1>1, <2>1
  <2> QED BY <2>2, <2>3 DEF View
<1>3. /\ WithRole("tool", View) = View \intersect Tools
      /\ WithRole("user", View) = View \intersect Users
  BY <1>2 DEF Tools, Users, WithRole
<1>4. Users \subseteq Heads
  BY DEF Heads, Tools, Users, WithRole
<1> QED BY <1>1, <1>2, <1>3, <1>4 DEF Starts, Heads

-----------------------------------------------------------------------------
(* What is shown. *)

(* Between batches each reply of the view has its results in it, and they    *)
(* are what Valid looks for.                                                 *)
LEMMA ViewIsWhole ==
  ASSUME ContextInv, open = {}
  PROVE  Valid(View)
<1> DEFINE tools == WithRole("tool", View)
           heads == View \ tools
           answers(i) == {j \in tools : i < j /\ \A s \in heads : s < j => s <= i}
<1>1. /\ View \subseteq Sent /\ Sent = 1 .. Len(history) /\ Len(history) \in Nat
      /\ tools = View \intersect Tools /\ heads = View \intersect Heads
  BY ViewIs DEF ContextInv, Starts
<1> HIDE DEF tools, heads
<1>6. View \subseteq Nat
  <2>1. 1 .. Len(history) \subseteq Nat
    BY <1>1
  <2> QED BY <1>1, <2>1
<1>2. \A j \in tools : \E h \in heads : h < j /\ Under(h, j)
  <2> TAKE j \in tools
  <2>1. j \in Sent /\ j \in Tools /\ j \in View
    BY <1>1
  <2>2. PICK h \in Heads : Under(h, j)
    BY <2>1, HasHead DEF ContextInv
  <2>3. h \in View
    BY <2>1, <2>2 DEF ContextInv, Aligned
  <2>4. h \in Sent /\ h # j /\ h <= j
    BY <2>1, <2>2 DEF Heads, Under
  <2>5. h < j
    BY <1>1, <2>1, <2>4
  <2> QED BY <1>1, <2>2, <2>3, <2>5
<1>3. ASSUME NEW i \in heads PROVE answers(i) = Answers(i)
  <2>1. i \in Heads /\ i \in View /\ i \in Sent /\ i \notin Tools
    BY <1>1 DEF Heads
  <2>2. ASSUME NEW j \in Answers(i) PROVE j \in answers(i)
    <3>1. j \in Tools /\ Under(i, j) /\ j \in Sent
      BY <2>2 DEF Answers, Tools, WithRole
    <3>2. j \in tools
      BY <1>1, <2>1, <3>1 DEF ContextInv, Aligned
    <3>3. i < j
      BY <1>1, <2>1, <3>1 DEF Under
    <3>4. \A s \in heads : s < j => s <= i
      BY <1>1, <3>1 DEF Under
    <3> QED BY <3>2, <3>3, <3>4
  <2>3. ASSUME NEW j \in answers(i) PROVE j \in Answers(i)
    <3>1. j \in tools /\ i < j /\ (\A s \in heads : s < j => s <= i)
      BY <2>3
    <3>2. PICK h \in heads : h < j /\ Under(h, j)
      BY <1>2, <3>1
    <3>3. h <= i
      BY <3>1, <3>2
    <3>4. i <= h
      <4>1. i \in Nat /\ j \in Nat /\ i < j
        BY <1>1, <1>6, <2>1, <3>1
      <4>2. i <= j
        BY <4>1
      <4> QED BY <2>1, <3>2, <4>2 DEF Under
    <3>5. h = i
      BY <1>1, <3>3, <3>4
    <3> QED BY <1>1, <3>1, <3>2, <3>5 DEF Answers
  <2> QED BY <2>2, <2>3
<1>4. ASSUME NEW i \in heads
      PROVE  /\ UNION {history[j].calls : j \in answers(i)} = history[i].calls
             /\ Cardinality(answers(i)) = Cardinality(history[i].calls)
  <2>1. i \in Heads /\ answers(i) = Answers(i)
    BY <1>1, <1>3, <1>4
  <2>2. Due(i) = history[i].calls
    BY DEF Due
  <2> QED BY <2>1, <2>2 DEF ContextInv, Answered
<1>5. tools = UNION {answers(i) : i \in heads}
  <2>1. ASSUME NEW j \in tools PROVE \E i \in heads : j \in answers(i)
    <3>1. PICK h \in heads : h < j /\ Under(h, j)
      BY <1>2
    <3>2. j \in Answers(h)
      BY <1>1, <3>1 DEF Answers
    <3> QED BY <1>3, <3>1, <3>2
  <2> QED BY <2>1
<1> USE DEF tools, heads
<1> QED BY <1>4, <1>5 DEF Valid

(* The groups of what is shown, as a checkpoint takes them.                  *)
LEMMA KeptIs ==
  ASSUME ContextInv, WithRole("user", View) # {}
  PROVE  \E core \in SUBSET (View \intersect Heads) :
           /\ Kept(View) = UNION {GroupOf(i, View) : i \in core}
           /\ \E u \in core : u \in Users /\ \A k \in View \intersect Users : u <= k
           /\ \E u \in core : u \in Users /\ \A k \in View \intersect Users : k <= u
<1> DEFINE users == WithRole("user", View)
           recent == {s \in Starts(View) : Cardinality({j \in Starts(View) : j >= s}) <= TailGroups}
           core == {Min(users), Max(users)} \union recent
<1>1. /\ Starts(View) = View \intersect Heads /\ users = View \intersect Users
      /\ users \subseteq 1 .. Len(history) /\ Len(history) \in Nat /\ Users \subseteq Heads
  BY ViewIs DEF ContextInv
<1>2. /\ Min(users) \in users /\ \A k \in users : Min(users) <= k
      /\ Max(users) \in users /\ \A k \in users : Max(users) >= k
  <2> HIDE DEF users
  <2>1. users # {}
    BY DEF users
  <2> QED BY <1>1, <2>1, MinOf, MaxOf
<1>3. \A k \in users : k <= Max(users)
  BY <1>1, <1>2
<1>4. core \subseteq View \intersect Heads
  BY <1>1, <1>2
<1>5. Kept(View) = UNION {GroupOf(i, View) : i \in core}
  BY DEF Kept
<1> HIDE DEF users, recent
<1>6. Min(users) \in core /\ Max(users) \in core
  OBVIOUS
<1> HIDE DEF core
<1> QED BY <1>1, <1>2, <1>3, <1>4, <1>5, <1>6

(* A checkpoint keeps whole groups.                                          *)
LEMMA KeptIsAligned ==
  ASSUME ContextInv, WithRole("user", View) # {}
  PROVE  /\ Kept(View) \subseteq View
         /\ \A i \in Heads, j \in Tools : Under(i, j) => (i \in Kept(View) <=> j \in Kept(View))
<1>1. PICK core \in SUBSET (View \intersect Heads) : Kept(View) = UNION {GroupOf(i, View) : i \in core}
  BY KeptIs
<1>2. Kept(View) \subseteq View
  BY <1>1 DEF GroupOf
<1>3. /\ View \subseteq Nat /\ Starts(View) = View \intersect Heads
  <2>1. /\ View \subseteq 1 .. Len(history) /\ Len(history) \in Nat
        /\ Starts(View) = View \intersect Heads
    BY ViewIs DEF ContextInv
  <2>2. 1 .. Len(history) \subseteq Nat
    BY <2>1
  <2> QED BY <2>1, <2>2
<1>4. ASSUME NEW i \in Heads, NEW j \in Tools, Under(i, j), i \in View, j \in View,
             NEW k \in {i, j}, NEW s \in core, k \in GroupOf(s, View)
      PROVE  s = i
  <2>1. /\ s \in View /\ s \in Heads /\ i \in Nat /\ j \in Nat /\ s \in Nat
        /\ s <= k /\ (\A t \in View \intersect Heads : t <= k => t <= s)
    BY <1>1, <1>3, <1>4 DEF GroupOf
  <2>2. i <= j /\ s <= j
    BY <1>4, <2>1 DEF Under
  <2>3. s <= i
    BY <1>4, <2>1, <2>2 DEF Under
  <2>4. i <= k
    BY <2>1, <2>2
  <2>5. i <= s
    BY <1>4, <2>1, <2>4
  <2> QED BY <2>1, <2>3, <2>5
<1>5. ASSUME NEW i \in Heads, NEW j \in Tools, Under(i, j), i \in View, j \in View
      PROVE  i \in GroupOf(i, View) /\ j \in GroupOf(i, View)
  BY <1>3, <1>5 DEF GroupOf, Under
<1>6. ASSUME NEW i \in Heads, NEW j \in Tools, Under(i, j)
      PROVE  i \in Kept(View) <=> j \in Kept(View)
  <2>1. i \in View <=> j \in View
    BY <1>6 DEF ContextInv, Aligned
  <2>2. i \in Kept(View) <=> i \in View /\ i \in core
    <3>1. ASSUME i \in Kept(View) PROVE i \in View /\ i \in core
      <4>1. PICK s \in core : i \in GroupOf(s, View)
        BY <1>1, <3>1
      <4> QED BY <1>2, <1>4, <1>6, <2>1, <3>1, <4>1
    <3>2. ASSUME i \in View, i \in core PROVE i \in Kept(View)
      BY <1>1, <1>5, <1>6, <2>1, <3>2
    <3> QED BY <3>1, <3>2
  <2>3. j \in Kept(View) <=> i \in View /\ i \in core
    <3>1. ASSUME j \in Kept(View) PROVE i \in View /\ i \in core
      <4>1. PICK s \in core : j \in GroupOf(s, View)
        BY <1>1, <3>1
      <4> QED BY <1>2, <1>4, <1>6, <2>1, <3>1, <4>1
    <3>2. ASSUME i \in View, i \in core PROVE j \in Kept(View)
      BY <1>1, <1>5, <1>6, <2>1, <3>2
    <3> QED BY <3>1, <3>2
  <2> QED BY <2>2, <2>3
<1> QED BY <1>2, <1>6

(* A checkpoint keeps the first task and the last one.                       *)
LEMMA KeptHasTasks ==
  ASSUME ContextInv, WithRole("user", View) # {}
  PROVE  /\ Len(history) # 0 => 1 \in Kept(View)
         /\ \A i \in Users : (\A k \in Users : k <= i) => i \in Kept(View)
<1>1. PICK core \in SUBSET (View \intersect Heads) :
           /\ Kept(View) = UNION {GroupOf(i, View) : i \in core}
           /\ \E u \in core : u \in Users /\ \A k \in View \intersect Users : u <= k
           /\ \E u \in core : u \in Users /\ \A k \in View \intersect Users : k <= u
  BY KeptIs
<1>2. Sent = 1 .. Len(history) /\ Len(history) \in Nat /\ Users \subseteq Sent
  BY ViewIs DEF ContextInv, Users, WithRole
<1>3. Users \subseteq Nat
  <2>1. 1 .. Len(history) \subseteq Nat
    BY <1>2
  <2> QED BY <1>2, <2>1
<1>4. ASSUME NEW u \in core, u \in Users PROVE u \in Kept(View)
  <2>1. u \in View /\ u <= u
    BY <1>3, <1>4
  <2>2. u \in GroupOf(u, View)
    BY <2>1 DEF GroupOf
  <2> QED BY <1>1, <2>2
<1>5. ASSUME Len(history) # 0 PROVE 1 \in Kept(View)
  <2>1. 1 \in View /\ 1 \in Users
    BY <1>2, <1>5 DEF ContextInv, Begun, Tasks, Users, WithRole
  <2>2. PICK u \in core : u \in Users /\ \A k \in View \intersect Users : u <= k
    BY <1>1
  <2>3. u <= 1 /\ u \in 1 .. Len(history)
    BY <1>2, <2>1, <2>2
  <2>4. u = 1
    BY <1>2, <2>3
  <2> QED BY <1>4, <2>2, <2>4
<1>6. ASSUME NEW i \in Users, \A k \in Users : k <= i PROVE i \in Kept(View)
  <2>1. i \in View
    BY <1>6 DEF ContextInv, Tasks
  <2>2. PICK u \in core : u \in Users /\ \A k \in View \intersect Users : k <= u
    BY <1>1
  <2>3. u <= i /\ i <= u
    BY <1>6, <2>1, <2>2
  <2>4. u = i
    BY <1>3, <2>2, <2>3
  <2> QED BY <1>4, <2>2, <2>4
<1> QED BY <1>5, <1>6

-----------------------------------------------------------------------------
(* What a step does to the history and the view. *)

(* The parts of the invariant that speak of messages only.                   *)
Shown == /\ history \in Seq(Message) /\ open \subseteq Calls
         /\ through \in 0 .. Len(history) /\ kept \subseteq 1 .. through
         /\ Len(history) # 0 => history[1].role = "user"
         /\ \A i \in Heads : IsLast(i) => open \subseteq history[i].calls
         /\ \A i \in Heads : IsLast(i) /\ open # {} => i > through
         /\ Answered /\ Aligned /\ Tasks /\ Digested

LEMMA CheckpointKeeps ==
  ASSUME ContextInv, Checkpointed, UNCHANGED <<history, open>>
  PROVE  Shown'
<1>1. /\ WithRole("user", View) # {} /\ open = {}
      /\ kept' = Kept(View) /\ through' = Len(history) /\ digest' = digest \union (View \ kept)
  BY DEF Checkpointed, Summarisable, Fresh
<1>2. /\ View \subseteq Sent /\ Sent = 1 .. Len(history) /\ Len(history) \in Nat
  BY ViewIs DEF ContextInv
<1>3. Kept(View) \subseteq View
  BY <1>1, KeptIsAligned
<1>4. View' = Kept(View)
  <2>1. through' + 1 .. Len(history') = {}
    BY <1>1, <1>2
  <2> QED BY <1>1, <2>1 DEF View
<1>5. /\ Sent' = Sent /\ Tools' = Tools /\ Users' = Users /\ Heads' = Heads
      /\ \A i, j : Under(i, j)' <=> Under(i, j)
      /\ \A i : IsLast(i)' <=> IsLast(i)
      /\ \A i : Answers(i)' = Answers(i) /\ Due(i)' = Due(i)
  BY DEF Sent, Tools, Users, WithRole, Heads, Under, IsLast, Answers, Due
<1>6. Answered'
  BY <1>5 DEF ContextInv, Answered
<1>7. Aligned'
  BY <1>1, <1>4, <1>5, KeptIsAligned DEF Aligned
<1>8. Tasks'
  BY <1>1, <1>4, <1>5, KeptHasTasks DEF Tasks
<1>9. Digested'
  <2> SUFFICES ASSUME NEW i \in 1 .. through' PROVE i \in digest'
    BY DEF Digested
  <2>1. i \in Sent
    BY <1>1, <1>2
  <2>2. through \in 0 .. Len(history) /\ kept \subseteq 1 .. through
    BY DEF ContextInv, Typed
  <2>3. i \in 1 .. through \/ i \in through + 1 .. Len(history)
    BY <1>2, <2>1, <2>2
  <2>4. i \in 1 .. through \/ i \in View \ kept
    BY <1>2, <2>2, <2>3 DEF View
  <2> QED BY <1>1, <2>4 DEF ContextInv, Digested
<1>10. /\ history' \in Seq(Message) /\ open' \subseteq Calls
       /\ through' \in 0 .. Len(history') /\ kept' \subseteq 1 .. through'
       /\ Len(history') # 0 => history'[1].role = "user"
  <2>1. history' = history /\ open' = open /\ history \in Seq(Message) /\ open \subseteq Calls
    BY DEF ContextInv, Typed
  <2>2. Len(history') # 0 => history'[1].role = "user"
    BY <2>1 DEF ContextInv, Begun
  <2>3. kept' \subseteq 1 .. through' /\ through' \in 0 .. Len(history')
    <3>1. kept' \subseteq Sent
      BY <1>1, <1>2, <1>3
    <3> QED BY <1>1, <1>2, <2>1, <3>1
  <2> QED BY <2>1, <2>2, <2>3
<1>11. /\ \A i \in Heads' : IsLast(i)' => open' \subseteq history'[i].calls
       /\ \A i \in Heads' : IsLast(i)' /\ open' # {} => i > through'
  BY <1>1
<1> QED BY <1>6, <1>7, <1>8, <1>9, <1>10, <1>11 DEF Shown

LEMMA Appended ==
  ASSUME Typed, NEW m \in Message, history' = Append(history, m), UNCHANGED checkpoint,
         NEW n, n = Len(history) + 1
  PROVE  /\ Sent' = Sent \union {n} /\ n \notin Sent /\ n \in Nat
         /\ \A i \in Sent : i \in Nat /\ i < n /\ history'[i] = history[i]
         /\ history'[n] = m /\ View' = View \union {n}
         /\ history' \in Seq(Message) /\ Len(history') = n
         /\ through' \in 0 .. Len(history') /\ kept' \subseteq 1 .. through' /\ through < n
<1>1. /\ history \in Seq(Message) /\ through \in 0 .. Len(history) /\ kept \subseteq 1 .. through
      /\ kept' = kept /\ through' = through
  BY DEF Typed, checkpoint
<1>2. /\ history' \in Seq(Message) /\ Len(history') = n /\ history'[n] = m
      /\ \A i \in 1 .. Len(history) : history'[i] = history[i]
      /\ Sent' = 1 .. n /\ Sent = 1 .. Len(history) /\ Len(history) \in Nat
  <2>1. Sent = 1 .. Len(history) /\ Len(history) \in Nat
    BY <1>1 DEF Sent
  <2>2. history' \in Seq(Message) /\ Len(history') = n
    BY <1>1
  <2>3. Sent' = 1 .. n
    BY <2>2 DEF Sent
  <2>4. history'[n] = m /\ \A i \in 1 .. Len(history) : history'[i] = history[i]
    BY <1>1
  <2> QED BY <2>1, <2>2, <2>3, <2>4
<1>3. /\ Sent' = Sent \union {n} /\ n \notin Sent /\ n \in Nat
      /\ \A i \in Sent : i \in Nat /\ i < n
  BY <1>2
<1>4. View' = View \union {n}
  <2>1. through + 1 .. n = (through + 1 .. Len(history)) \union {n}
    BY <1>1, <1>2
  <2> QED BY <1>1, <1>2, <2>1 DEF View
<1>5. through < n /\ through' \in 0 .. Len(history') /\ kept' \subseteq 1 .. through'
  BY <1>1, <1>2
<1> QED BY <1>2, <1>3, <1>4, <1>5

(* A task or a reply begins a group of its own, with nothing in it yet.      *)
LEMMA HeadKeeps ==
  ASSUME ContextInv, NEW m \in Message, history' = Append(history, m), UNCHANGED checkpoint,
         m.role # "tool", open = {}, open' = m.calls, Len(history) = 0 => m.role = "user"
  PROVE  Shown'
<1>0. PICK n : n = Len(history) + 1
  OBVIOUS
<1>1. /\ Sent' = Sent \union {n} /\ n \notin Sent /\ n \in Nat
      /\ \A i \in Sent : i \in Nat /\ i < n /\ history'[i] = history[i]
      /\ history'[n] = m /\ View' = View \union {n}
      /\ history' \in Seq(Message) /\ Len(history') = n
      /\ through' \in 0 .. Len(history') /\ kept' \subseteq 1 .. through' /\ through < n
  BY <1>0, Appended DEF ContextInv
<1>2. /\ View \subseteq Sent /\ Sent = 1 .. Len(history) /\ Len(history) \in Nat
      /\ Users \subseteq Heads /\ Heads \subseteq Sent /\ Tools \subseteq Sent
  BY ViewIs DEF ContextInv, Heads, Tools, WithRole
<1>3. /\ Tools' = Tools /\ Heads' = Heads \union {n} /\ n \notin Tools
      /\ Users' = Users \union (IF m.role = "user" THEN {n} ELSE {})
  <2>1. Tools' = Tools
    BY <1>1 DEF Tools, WithRole
  <2>2. Users' = Users \union (IF m.role = "user" THEN {n} ELSE {})
    BY <1>1 DEF Users, WithRole
  <2> QED BY <1>1, <1>2, <2>1, <2>2 DEF Heads
<1>4. ASSUME NEW j \in Tools
      PROVE  /\ \A i \in Heads : Under(i, j)' <=> Under(i, j)
             /\ ~ Under(n, j)'
  <2>1. j \in Nat /\ j < n /\ ~(n <= j)
    BY <1>1, <1>2
  <2>2. ASSUME NEW i \in Heads PROVE Under(i, j)' <=> Under(i, j)
    BY <1>3, <2>1 DEF Under
  <2>3. ~ Under(n, j)'
    BY <2>1 DEF Under
  <2> QED BY <2>2, <2>3
<1>5. \A i \in Heads' : IsLast(i)' <=> i = n
  <2>1. \A i \in Heads : i <= n /\ ~(n <= i)
    BY <1>1, <1>2
  <2> QED BY <1>1, <1>3, <2>1 DEF IsLast
<1>6. /\ \A i \in Heads : Answers(i)' = Answers(i)
      /\ Answers(n)' = {}
  BY <1>3, <1>4 DEF Answers
<1>7. Answered'
  <2>1. ASSUME NEW i \in Heads
        PROVE  /\ UNION {history'[j].calls : j \in Answers(i)'} = Due(i)'
               /\ Cardinality(Answers(i)') = Cardinality(Due(i)')
    <3>1. \A j \in Answers(i) : history'[j] = history[j]
      BY <1>1, <1>2 DEF Answers
    <3>2. Due(i) = history[i].calls /\ Due(i)' = history'[i].calls /\ history'[i] = history[i]
      BY <1>1, <1>2, <1>3, <1>5 DEF Due
    <3>3. /\ UNION {history[j].calls : j \in Answers(i)} = Due(i)
          /\ Cardinality(Answers(i)) = Cardinality(Due(i))
      BY DEF ContextInv, Answered
    <3>4. {history'[j].calls : j \in Answers(i)} = {history[j].calls : j \in Answers(i)}
      BY <3>1
    <3> QED BY <1>6, <3>2, <3>3, <3>4
  <2>2. Due(n)' = {}
    <3>1. IsLast(n)'
      BY <1>3, <1>5
    <3>2. Due(n)' = history'[n].calls \ open'
      BY <3>1 DEF Due
    <3>3. history'[n].calls = open'
      BY <1>1
    <3> QED BY <3>2, <3>3
  <2>3. UNION {history'[j].calls : j \in Answers(n)'} = {}
    BY <1>6
  <2>4. \A i \in Heads' : /\ UNION {history'[j].calls : j \in Answers(i)'} = Due(i)'
                         /\ Cardinality(Answers(i)') = Cardinality(Due(i)')
    <3> SUFFICES ASSUME NEW i \in Heads'
                 PROVE  /\ UNION {history'[j].calls : j \in Answers(i)'} = Due(i)'
                        /\ Cardinality(Answers(i)') = Cardinality(Due(i)')
      OBVIOUS
    <3>1. CASE i = n
      BY <1>6, <2>2, <2>3, <3>1
    <3>2. CASE i # n
      BY <1>3, <2>1, <3>2
    <3> QED BY <3>1, <3>2
  <2> QED BY <2>4 DEF Answered
<1>8. Aligned'
  <2> SUFFICES ASSUME NEW i \in Heads', NEW j \in Tools, Under(i, j)'
               PROVE  i \in View' <=> j \in View'
    BY <1>3 DEF Aligned
  <2>1. i \in Heads /\ Under(i, j)
    BY <1>3, <1>4
  <2>2. i # n /\ j # n
    BY <1>1, <1>2, <2>1
  <2> QED BY <1>1, <2>1, <2>2 DEF ContextInv, Aligned
<1>9. Tasks'
  <2>1. 1 \in View'
    <3>1. CASE Len(history) = 0
      BY <1>0, <1>1, <3>1
    <3>2. CASE Len(history) # 0
      BY <1>1, <3>2 DEF ContextInv, Tasks
    <3> QED BY <3>1, <3>2
  <2>2. ASSUME NEW i \in Users', \A k \in Users' : k <= i PROVE i \in View'
    BY <1>1, <1>3, <2>2 DEF ContextInv, Tasks
  <2> QED BY <2>1, <2>2 DEF Tasks
<1>10. Digested'
  BY DEF ContextInv, Digested, checkpoint
<1>11. history'[1].role = "user"
  <2>1. CASE Len(history) = 0
    <3>1. n = 1 /\ m.role = "user"
      BY <1>0, <2>1
    <3> QED BY <1>1, <3>1
  <2>2. CASE Len(history) # 0
    BY <1>1, <1>2, <2>2 DEF ContextInv, Begun
  <2> QED BY <2>1, <2>2
<1>12. /\ \A i \in Heads' : IsLast(i)' => open' \subseteq history'[i].calls
       /\ \A i \in Heads' : IsLast(i)' /\ open' # {} => i > through'
  BY <1>1, <1>5 DEF checkpoint
<1>13. open' \subseteq Calls
  BY DEF Message
<1> QED BY <1>1, <1>7, <1>8, <1>9, <1>10, <1>11, <1>12, <1>13 DEF Shown

(* One member more. *)
LEMMA UnionOf ==
  ASSUME NEW X, NEW S
  PROVE  UNION (X \union {S}) = (UNION X) \union S
OBVIOUS

LEMMA OneMore ==
  ASSUME NEW S, NEW x, IsFiniteSet(S), x \notin S
  PROVE  Cardinality(S \union {x}) = Cardinality(S) + 1
BY FS_AddElement

(* A result belongs to the last reply, which waited for it.                  *)
LEMMA ToolKeeps ==
  ASSUME ContextInv, NEW m \in Message, history' = Append(history, m), UNCHANGED checkpoint,
         NEW c \in open, m.role = "tool", m.calls = {c}, open' = open \ {c}, Len(history) # 0
  PROVE  Shown'
<1>0. PICK n : n = Len(history) + 1
  OBVIOUS
<1>1. /\ Sent' = Sent \union {n} /\ n \notin Sent /\ n \in Nat
      /\ \A i \in Sent : i \in Nat /\ i < n /\ history'[i] = history[i]
      /\ history'[n] = m /\ View' = View \union {n}
      /\ history' \in Seq(Message) /\ Len(history') = n
      /\ through' \in 0 .. Len(history') /\ kept' \subseteq 1 .. through' /\ through < n
  BY <1>0, Appended DEF ContextInv
<1>2. /\ View \subseteq Sent /\ Sent = 1 .. Len(history) /\ Len(history) \in Nat
      /\ Users \subseteq Heads /\ Heads \subseteq Sent /\ Tools \subseteq Sent
  BY ViewIs DEF ContextInv, Heads, Tools, WithRole
<1>3. Tools' = Tools \union {n} /\ Heads' = Heads /\ Users' = Users
  <2>1. Tools' = Tools \union {n}
    BY <1>1 DEF Tools, WithRole
  <2>2. Users' = Users
    BY <1>1 DEF Users, WithRole
  <2> QED BY <1>1, <1>2, <2>1, <2>2 DEF Heads
<1>4. PICK last \in Heads : IsLast(last)
  <2>1. Len(history) \in Sent
    BY <1>2
  <2>2. PICK h \in Heads : Under(h, Len(history))
    BY <2>1, HasHead DEF ContextInv
  <2>3. \A s \in Heads : s <= Len(history)
    BY <1>2
  <2> QED BY <2>2, <2>3 DEF Under, IsLast
<1>5. /\ \A i, j : Under(i, j)' <=> Under(i, j)
      /\ \A i \in Heads : Under(i, n) <=> IsLast(i)
      /\ \A i : IsLast(i)' <=> IsLast(i)
      /\ \A i \in Heads : IsLast(i) => i = last
  <2>1. \A i, j : Under(i, j)' <=> Under(i, j)
    BY <1>3 DEF Under
  <2>2. \A i \in Heads : i \in Nat /\ i <= n
    BY <1>1, <1>2
  <2>3. \A i \in Heads : Under(i, n) <=> IsLast(i)
    BY <2>2 DEF Under, IsLast
  <2>4. \A i : IsLast(i)' <=> IsLast(i)
    BY <1>3 DEF IsLast
  <2>5. \A i \in Heads : IsLast(i) => i <= last /\ last <= i
    BY <1>4 DEF IsLast
  <2>6. \A i \in Heads : IsLast(i) => i = last
    BY <2>2, <2>5
  <2> QED BY <2>1, <2>3, <2>4, <2>6
<1>6. /\ \A i \in Heads \ {last} : Answers(i)' = Answers(i)
      /\ Answers(last)' = Answers(last) \union {n} /\ n \notin Answers(last)
  <2>1. \A i \in Heads \ {last} : ~ Under(i, n)
    BY <1>5
  <2>2. Under(last, n)
    BY <1>4, <1>5
  <2>3. n \notin Tools
    BY <1>1, <1>2
  <2>4. \A i : Answers(i)' = {j \in Tools \union {n} : Under(i, j)}
    BY <1>3, <1>5 DEF Answers
  <2> QED BY <2>1, <2>2, <2>3, <2>4 DEF Answers
<1>7. /\ \A i \in Heads : history'[i] = history[i]
      /\ \A i \in Heads : \A j \in Answers(i) : history'[j] = history[j]
  BY <1>1, <1>2 DEF Answers
<1>8. \A i \in Heads : /\ UNION {history[j].calls : j \in Answers(i)} = Due(i)
                       /\ Cardinality(Answers(i)) = Cardinality(Due(i))
  BY DEF ContextInv, Answered
<1>9. Due(last)' = Due(last) \union {c} /\ c \notin Due(last)
  <2>1. open \subseteq history[last].calls
    BY <1>4 DEF ContextInv, Begun
  <2>2. Due(last) = history[last].calls \ open
    BY <1>4 DEF Due
  <2>3. Due(last)' = history[last].calls \ (open \ {c})
    BY <1>4, <1>5, <1>7 DEF Due
  <2> QED BY <2>1, <2>2, <2>3
<1>10. ASSUME NEW i \in Heads
       PROVE  /\ UNION {history'[j].calls : j \in Answers(i)'} = Due(i)'
              /\ Cardinality(Answers(i)') = Cardinality(Due(i)')
  <2>1. {history'[j].calls : j \in Answers(i)} = {history[j].calls : j \in Answers(i)}
    BY <1>7
  <2>2. CASE i # last
    <3>1. Due(i)' = history[i].calls /\ Due(i) = history[i].calls
      BY <1>5, <1>7, <2>2 DEF Due
    <3> QED BY <1>6, <1>8, <2>1, <2>2, <3>1
  <2>3. CASE i = last
    <3> DEFINE got(S) == {history'[j].calls : j \in S}
    <3>1. UNION got(Answers(last)) = Due(last)
      BY <1>8, <2>1, <2>3
    <3>2. UNION got(Answers(last) \union {n}) = (UNION got(Answers(last))) \union {c}
      <4>1. got(Answers(last) \union {n}) = got(Answers(last)) \union {{c}}
        BY <1>1
      <4> HIDE DEF got
      <4> QED BY <4>1, UnionOf
    <3>7. UNION got(Answers(i)') = Due(i)'
      <4>1. Answers(i)' = Answers(last) \union {n} /\ Due(i)' = Due(last) \union {c}
        BY <1>6, <1>9, <2>3
      <4>2. UNION got(Answers(last) \union {n}) = Due(i)'
        <5> HIDE DEF got
        <5> QED BY <3>1, <3>2, <4>1
      <4>3. got(Answers(i)') = got(Answers(last) \union {n})
        BY <4>1
      <4> HIDE DEF got
      <4> QED BY <4>2, <4>3
    <3>3. IsFiniteSet(Answers(last))
      <4>1. IsFiniteSet(1 .. Len(history))
        BY <1>2, FS_Interval
      <4>2. Answers(last) \subseteq 1 .. Len(history)
        BY <1>2 DEF Answers
      <4> QED BY <4>1, <4>2, FS_Subset
    <3>4. IsFiniteSet(Due(last))
      <4>1. history[last] \in Message
        BY <1>2 DEF ContextInv, Typed
      <4>2. Due(last) \subseteq Calls
        BY <4>1 DEF Due, Message
      <4> QED BY <4>2, FS_Subset, CompactionConfig
    <3>5. Cardinality(Answers(last) \union {n}) = Cardinality(Answers(last)) + 1
      BY <1>6, <3>3, OneMore
    <3>6. Cardinality(Due(last) \union {c}) = Cardinality(Due(last)) + 1
      BY <1>9, <3>4, OneMore
    <3> QED BY <1>6, <1>8, <1>9, <2>3, <3>5, <3>6, <3>7
  <2> QED BY <2>2, <2>3
<1>11. Answered'
  BY <1>3, <1>10 DEF Answered
<1>12. last \in View /\ last > through
  <2>1. last > through
    BY <1>4 DEF ContextInv, Begun
  <2>2. last \in through + 1 .. Len(history)
    BY <1>2, <2>1 DEF ContextInv, Typed
  <2> QED BY <2>1, <2>2 DEF View
<1>13. Aligned'
  <2> SUFFICES ASSUME NEW i \in Heads, NEW j \in Tools \union {n}, Under(i, j)
               PROVE  i \in View' <=> j \in View'
    BY <1>3, <1>5 DEF Aligned
  <2>1. CASE j = n
    BY <1>1, <1>5, <1>12, <2>1
  <2>2. CASE j # n
    <3>1. i \in View <=> j \in View
      BY <2>2 DEF ContextInv, Aligned
    <3>2. i # n
      BY <1>1, <1>2
    <3> QED BY <1>1, <2>2, <3>1, <3>2
  <2> QED BY <2>1, <2>2
<1>14. Tasks'
  BY <1>1, <1>3 DEF ContextInv, Tasks
<1>15. Digested'
  BY DEF ContextInv, Digested, checkpoint
<1>16. history'[1].role = "user"
  BY <1>1, <1>2 DEF ContextInv, Begun
<1>17. /\ \A i \in Heads' : IsLast(i)' => open' \subseteq history'[i].calls
       /\ \A i \in Heads' : IsLast(i)' /\ open' # {} => i > through'
  <2>1. open \subseteq history[last].calls
    BY <1>4 DEF ContextInv, Begun
  <2> QED BY <1>3, <1>5, <1>7, <1>12, <2>1 DEF checkpoint
<1>18. open' \subseteq Calls
  BY DEF ContextInv, Typed
<1> QED BY <1>1, <1>11, <1>13, <1>14, <1>15, <1>16, <1>17, <1>18 DEF Shown

-----------------------------------------------------------------------------
(* The invariant is inductive. *)

(* What the control of a turn must respect besides.                          *)
Controlled == /\ pc \in {"idle", "project", "compact", "sample", "batch", "done", "toobig"}
              /\ {compacted, stopping} \subseteq BOOLEAN
              /\ pc # "idle" => Len(history) # 0
              /\ open # {} => pc = "batch"

LEMMA Parts == ContextInv <=> Shown /\ Controlled
BY DEF ContextInv, Typed, Begun, Shown, Controlled

LEMMA PartsNext == ContextInv' <=> Shown' /\ Controlled'
BY DEF ContextInv, Typed, Begun, Shown, Controlled

LEMMA SameMessages ==
  ASSUME Shown, UNCHANGED <<history, open, checkpoint>>
  PROVE  Shown'
<1>1. /\ Sent' = Sent /\ Tools' = Tools /\ Users' = Users /\ Heads' = Heads /\ View' = View
      /\ \A i, j : Under(i, j)' <=> Under(i, j)
      /\ \A i : IsLast(i)' <=> IsLast(i)
      /\ \A i : Answers(i)' = Answers(i) /\ Due(i)' = Due(i)
  BY DEF Sent, Tools, Users, WithRole, Heads, Under, IsLast, Answers, Due, View, checkpoint
<1>2. Answered' /\ Aligned' /\ Tasks' /\ Digested'
  BY <1>1 DEF Shown, Answered, Aligned, Tasks, Digested, checkpoint
<1> QED BY <1>1, <1>2 DEF Shown, checkpoint

(* A step that only moves the turn.                                          *)
LEMMA MoveKeeps ==
  ASSUME ContextInv,
         \/ Project \/ SampleOverflow \/ SampleFails \/ Finish \/ Interrupt
         \/ UNCHANGED vars
  PROVE  ContextInv'
<1>1. UNCHANGED <<history, open, checkpoint>>
  BY DEF Project, SampleOverflow, SampleFails, Finish, Interrupt, vars
<1>2. Controlled'
  BY Parts DEF Controlled, Project, SampleOverflow, SampleFails, Finish, Interrupt, turn, vars
<1> QED BY <1>1, <1>2, Parts, PartsNext, SameMessages

(* A compaction, by the loop, by the user, or cut short by a crash.          *)
LEMMA CompactKeeps ==
  ASSUME ContextInv, Compact \/ Command \/ Crash
  PROVE  ContextInv'
<1>1. Shown'
  <2>1. UNCHANGED <<history, open>> /\ (Checkpointed \/ UNCHANGED checkpoint)
    BY DEF Compact, Command, Crash
  <2> QED BY <2>1, Parts, CheckpointKeeps, SameMessages
<1>2. Controlled'
  <2>1. CASE Compact \/ Command
    BY <2>1, Parts DEF Controlled, Compact, Command, turn
  <2>2. CASE Crash
    BY <2>2, Parts DEF Controlled, Crash
  <2> QED BY <2>1, <2>2
<1> QED BY <1>1, <1>2, PartsNext

(* A task of the user or a reply of the model.                               *)
LEMMA HeadStepKeeps ==
  ASSUME ContextInv,
         StartTurn \/ SampleText \/ \E cs \in SUBSET Calls : SampleBatch(cs)
  PROVE  ContextInv'
<1>1. open = {}
  BY Parts DEF Controlled, StartTurn, SampleText, SampleBatch
<1>2. Len(history) \in Nat
  BY ViewIs DEF ContextInv
<1>3. CASE StartTurn
  <2>1. UserMessage \in Message
    BY DEF UserMessage, Message
  <2>2. Shown'
    BY <1>1, <1>3, <2>1, HeadKeeps DEF StartTurn, UserMessage
  <2>3. Len(history') # 0
    BY <1>2, <1>3, <2>1, Appended DEF StartTurn, ContextInv
  <2>4. Controlled'
    BY <1>1, <1>3, <2>3 DEF StartTurn, Controlled
  <2> QED BY <2>2, <2>4, PartsNext
<1>4. ASSUME NEW cs \in SUBSET Calls, (SampleText /\ cs = {}) \/ SampleBatch(cs)
      PROVE  ContextInv'
  <2>1. Reply(cs) \in Message /\ Reply(cs).role = "assistant" /\ Reply(cs).calls = cs
    BY DEF Reply, Message
  <2>2. /\ history' = Append(history, Reply(cs)) /\ open' = cs /\ UNCHANGED checkpoint
        /\ pc = "sample"
    BY <1>1, <1>4 DEF SampleText, SampleBatch, Accept
  <2>3. Len(history) # 0
    BY <2>2, Parts DEF Controlled
  <2>4. Shown'
    BY <1>1, <2>1, <2>2, <2>3, HeadKeeps
  <2>5. Len(history') # 0
    BY <1>2, <2>1, <2>2, Appended DEF ContextInv
  <2>6. Controlled'
    BY <1>4, <2>2, <2>5, Parts DEF SampleText, SampleBatch, Controlled, turn
  <2> QED BY <2>4, <2>6, PartsNext
<1>5. CASE SampleText
  <2>1. {} \in SUBSET Calls
    OBVIOUS
  <2> QED BY <1>4, <1>5, <2>1
<1>6. CASE \E cs \in SUBSET Calls : SampleBatch(cs)
  BY <1>4, <1>6
<1> QED BY <1>3, <1>5, <1>6

(* A result. *)
LEMMA ToolStepKeeps ==
  ASSUME ContextInv, NEW c \in Calls, NEW n \in ToolSizes \union {1}, ToolResult(c, n)
  PROVE  ContextInv'
<1>1. /\ ToolMessage(c, n) \in Message /\ ToolMessage(c, n).role = "tool"
      /\ ToolMessage(c, n).calls = {c}
  BY DEF ToolMessage, Message
<1>2. Len(history) # 0 /\ Len(history) \in Nat
  BY Parts, ViewIs DEF Controlled, ToolResult, ContextInv
<1>3. /\ history' = Append(history, ToolMessage(c, n)) /\ open' = open \ {c} /\ c \in open
      /\ UNCHANGED checkpoint
  BY DEF ToolResult
<1>4. Shown'
  BY <1>1, <1>2, <1>3, ToolKeeps
<1>5. Len(history') # 0
  BY <1>1, <1>2, <1>3, Appended DEF ContextInv
<1>6. Controlled'
  BY <1>5, Parts DEF ToolResult, Controlled
<1> QED BY <1>4, <1>6, PartsNext

LEMMA ContextStarts == Init => ContextInv
<1> SUFFICES ASSUME Init PROVE ContextInv
  OBVIOUS
<1>1. /\ history = <<>> /\ Len(history) = 0 /\ history \in Seq(Message) /\ Sent = {}
      /\ open = {} /\ through = 0 /\ kept = {}
  BY DEF Init, Sent
<1>2. Heads = {} /\ Users = {}
  BY <1>1 DEF Heads, Users, WithRole
<1>3. Shown
  <2>1. 1 .. through = {}
    BY <1>1
  <2> QED BY <1>1, <1>2, <2>1 DEF Shown, Answered, Aligned, Tasks, Digested
<1>4. Controlled
  BY <1>1 DEF Init, Controlled
<1> QED BY <1>3, <1>4, Parts

LEMMA ContextInvIsInductive == ContextInv /\ [Next]_vars => ContextInv'
<1> SUFFICES ASSUME ContextInv, [Next]_vars PROVE ContextInv'
  OBVIOUS
<1>1. CASE \/ Project \/ SampleOverflow \/ SampleFails \/ Finish \/ Interrupt
           \/ UNCHANGED vars
  BY <1>1, MoveKeeps
<1>2. CASE Compact \/ Command \/ Crash
  BY <1>2, CompactKeeps
<1>3. CASE StartTurn \/ SampleText \/ \E cs \in SUBSET Calls : SampleBatch(cs)
  BY <1>3, HeadStepKeeps
<1>4. CASE \E c \in Calls, n \in ToolSizes \union {1} : ToolResult(c, n)
  BY <1>4, ToolStepKeeps
<1> QED BY <1>1, <1>2, <1>3, <1>4 DEF Next, Step

(* The invariant, of every behaviour of the context. *)
THEOREM ContextInvariance == Spec => []ContextInv
BY ContextStarts, ContextInvIsInductive, PTL DEF Spec

(* Whenever no call is open, validate_conversation accepts what the model is *)
(* shown, for histories of any length and any number of compactions.         *)
THEOREM ViewsAreValid == Spec => []ViewIsValid
<1>1. ContextInv => ViewIsValid
  BY ViewIsWhole DEF ViewIsValid
<1> QED BY <1>1, ContextInvariance, PTL

(* The first task of the session and the one at hand are always shown word   *)
(* for word (retained_indexes of prepare_compaction).                        *)
THEOREM TasksStay == Spec => []TaskStays
<1>1. ContextInv => TaskStays
  <2> SUFFICES ASSUME ContextInv, history # <<>>
               PROVE  1 \in View /\ Max(Users) \in View
    BY DEF TaskStays, Users, Sent
  <2>1. Sent = 1 .. Len(history) /\ Len(history) \in Nat
    BY ViewIs DEF ContextInv
  <2>2. Len(history) # 0
    BY DEF ContextInv, Typed
  <2>3. 1 \in Users /\ Users \in SUBSET (1 .. Len(history))
    BY <2>1, <2>2 DEF ContextInv, Begun, Users, WithRole
  <2>4. Max(Users) \in Users /\ \A k \in Users : Max(Users) >= k
    BY <2>1, <2>3, MaxOf
  <2>5. \A k \in Users : k <= Max(Users)
    BY <2>1, <2>3, <2>4
  <2> QED BY <2>2, <2>4, <2>5 DEF ContextInv, Tasks
<1> QED BY <1>1, ContextInvariance, PTL

(* What is no longer shown went into the summaries: the request for a        *)
(* summary leaves out only what an earlier one was made from                 *)
(* (summarized_prefix_message_count).                                        *)
THEOREM NothingIsForgotten == Spec => []NothingForgotten
<1>1. ContextInv => NothingForgotten
  <2> SUFFICES ASSUME ContextInv, NEW i \in Sent PROVE i \in View \union digest
    BY DEF NothingForgotten, Sent
  <2>1. Sent = 1 .. Len(history) /\ Len(history) \in Nat /\ through \in 0 .. Len(history)
    BY ViewIs DEF ContextInv, Typed
  <2>2. i \in 1 .. through \/ i \in through + 1 .. Len(history)
    BY <2>1
  <2> QED BY <2>2 DEF ContextInv, Digested, View
<1> QED BY <1>1, ContextInvariance, PTL
=============================================================================
