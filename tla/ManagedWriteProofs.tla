------------------------- MODULE ManagedWriteProofs -------------------------
(***************************************************************************)
(* What the managed writes of a turn promise of every file, for any number  *)
(* of calls and files, whatever an editor, a failure, Ctrl-C and a crash do *)
(* in between: one turn at a path, no work replaced that was not seen, and  *)
(* a log that says what is in the files.                                    *)
(***************************************************************************)
EXTENDS ManagedWrite, TLAPS

(* Where a call is while it holds a ticket of its path, and where it may be  *)
(* once it has replaced the file.                                            *)
InTurn == {"parents", "temp", "recheck", "replace", "capture", "provenance", "cleanup", "leaving"}
Queued == InTurn \union {"waiting"}
Written == {"capture", "provenance", "leaving", "releasing", "finish", "done"}

(* Where it is once it has left its turn.                                    *)
Left == {"releasing", "finish", "done"}

(* The statuses of a write whose outcome the log does not say yet.           *)
Open == {"started", "unknown"}

Statuses == {"none", "requested", "started", "succeeded", "no effect", "unknown", "closed"}

-----------------------------------------------------------------------------
(* The inductive invariant. *)

Typed ==
  /\ disk \in [Path -> Version] /\ directory \in BOOLEAN
  /\ at \in [Call -> Dispatched \union {"unborn", "prepared", "staged", "done"}]
  /\ expected \in [Call -> Version \union {None}] /\ result \in [Call -> Version \union {None}]
  /\ queue \in [Path -> Seq(Call)] /\ users \subseteq Call /\ lost \subseteq Call
  /\ status \in [Call -> Statuses]
  /\ snapshot \in [Path -> [before : Version \union {None}, source : Call \union {None},
                            after : Version \union {None}, made : BOOLEAN]]
  /\ owns \in [Call -> BOOLEAN]
  /\ unreadable \in BOOLEAN /\ wrote \subseteq Call /\ touched \subseteq Path

(* A call is in the queue of its path from its ticket until it leaves, and   *)
(* in its turn only as the first; a lost ticket is that of a call that has   *)
(* left.  A call on the main thread runs alone.                              *)
InLine ==
  \A p \in Path : \A i, j \in 1 .. Len(queue[p]) :
    /\ PathOf[queue[p][i]] = p
    /\ queue[p][i] \in lost \/ at[queue[p][i]] \in IF i = 1 THEN Queued ELSE {"waiting"}
    /\ queue[p][i] = queue[p][j] => i = j

HasTicket ==
  \A c \in Call :
    /\ at[c] \in Queued \/ c \in lost
         => \E i \in 1 .. Len(queue[PathOf[c]]) : queue[PathOf[c]][i] = c
    /\ at[c] \in Queued \union {"releasing"} => c \in users
    /\ c \in lost => at[c] \in Left

MainIsAlone == main # None => Executing \subseteq {main}

(* What the log says of a call, what it did, and where it is, fit together.  *)
Told ==
  \A c \in Call :
    /\ at[c] \in Dispatched => status[c] = "started"
    /\ status[c] = "started" => at[c] \in Dispatched \/ unreadable
    /\ c \in wrote => at[c] \in Written /\ status[c] \notin {"none", "requested"}
    /\ at[c] = "capture" => c \in wrote
    /\ result[c] # None => c \in wrote /\ at[c] \in {"provenance", "leaving", "releasing", "finish", "done"}

(* A version of a call in a file is one that the call wrote there; without   *)
(* an editor there is no other but the one from before the turn.             *)
Provenanced ==
  \A p \in Path : /\ disk[p] \in Call => disk[p] \in wrote /\ PathOf[disk[p]] = p
                  /\ p \notin touched => disk[p] \in Call \union {Before(p)}

(* A call is prepared on nothing that is still open.                         *)
Seen ==
  \A c \in Call :
    /\ expected[c] \in Call => /\ expected[c] \in wrote
                               /\ PathOf[expected[c]] = PathOf[c]
                               /\ status[expected[c]] \notin Open
    /\ at[c] # "unborn" /\ PathOf[c] \notin touched
         => expected[c] \in Call \union {Before(PathOf[c])}

(* What a call checked is still there, and what it wrote, until its end is   *)
(* recorded.                                                                 *)
StillThere ==
  \A c \in Call :
    /\ at[c] = "replace" => \/ disk[PathOf[c]] = expected[c]
                            \/ PathOf[c] \in touched /\ disk[PathOf[c]] \notin Call
    /\ PathOf[c] \notin touched =>
         /\ c \in wrote /\ status[c] \in Open => disk[PathOf[c]] = c
         /\ result[c] # None => result[c] = c

(* The baselines: taken before a call starts, kept once a write succeeded.   *)
Based ==
  /\ \A p \in Path : snapshot[p].source = None => snapshot[p] = NoBaseline
  /\ \A c \in Call :
       /\ at[c] = "staged" \/ status[c] \in Open => snapshot[PathOf[c]].source # None
       /\ status[c] = "succeeded" => snapshot[PathOf[c]].after # None

(* What the log leaves in a file, and what undo will put back.               *)
Logged ==
  \A p \in Path \ touched : Hidden(p) = {} =>
    /\ (\A c \in wrote : PathOf[c] = p => status[c] \notin Open)
         => disk[p] = IF snapshot[p].after = None THEN Before(p) ELSE snapshot[p].after
    /\ snapshot[p].source # None => snapshot[p].before = Before(p)

WriteInv == /\ Typed /\ InLine /\ HasTicket /\ MainIsAlone /\ Told
            /\ Provenanced /\ Seen /\ StillThere /\ Based /\ Logged /\ DirectoryIsKept

-----------------------------------------------------------------------------
LEMMA Named ==
  /\ \A c \in Call : PathOf[c] \in Path /\ c # None /\ c # Absent /\ c # Original
  /\ \A c \in Call, e \in Edit : c # e
  /\ \A p \in Path : Before(p) \in Version /\ Before(p) \notin Call
BY WritesAreNamed DEF Before, Version

-----------------------------------------------------------------------------
(* The queues. *)

(* A call in its turn is the first of its path, so the only one in its turn. *)
LEMMA TurnIsFirst ==
  ASSUME WriteInv, NEW c \in Call, at[c] \in InTurn
  PROVE  Len(queue[PathOf[c]]) >= 1 /\ queue[PathOf[c]][1] = c
<1>1. PICK i \in 1 .. Len(queue[PathOf[c]]) : queue[PathOf[c]][i] = c
  BY DEF WriteInv, HasTicket, Queued
<1>2. i = 1
  BY <1>1, Named DEF WriteInv, InLine, HasTicket, InTurn, Left
<1>. QED BY <1>1, <1>2, Named DEF WriteInv, Typed

LEMMA TurnIsAlone ==
  ASSUME WriteInv, NEW c \in Call, NEW d \in Call, PathOf[c] = PathOf[d],
         at[c] \in InTurn, at[d] \in InTurn
  PROVE  c = d
BY TurnIsFirst

HasTurn(c) == at[c] \in InTurn \/ (at[c] = "waiting" /\ Head(queue[PathOf[c]]) = c)

(* Steps of a call in its turn, or of the first to it, keep the queues.      *)
LEMMA WalkKeepsLine ==
  ASSUME WriteInv, NEW c \in Call, NEW s \in InTurn,
         HasTurn(c),
         Go(c, s), UNCHANGED <<queue, users, lost, main>>
  PROVE  InLine' /\ HasTicket' /\ MainIsAlone'
<1>1. at' = [at EXCEPT ![c] = s] /\ at \in [Call -> Dispatched \union {"unborn", "prepared", "staged", "done"}]
  BY DEF Go, WriteInv, Typed
<1>2. Len(queue[PathOf[c]]) >= 1 /\ queue[PathOf[c]][1] = c
  <2>1. CASE at[c] \in InTurn
    BY <2>1, TurnIsFirst
  <2>2. CASE at[c] = "waiting" /\ Head(queue[PathOf[c]]) = c
    <3>1. PICK i \in 1 .. Len(queue[PathOf[c]]) : queue[PathOf[c]][i] = c
      BY <2>2 DEF WriteInv, HasTicket, Queued
    <3>2. queue[PathOf[c]] \in Seq(Call)
      BY Named DEF WriteInv, Typed
    <3>. QED BY <2>2, <3>1, <3>2
  <2>. QED BY <2>1, <2>2 DEF HasTurn
<1>3. InLine'
  <2> SUFFICES ASSUME NEW p \in Path, NEW i \in 1 .. Len(queue[p]), NEW j \in 1 .. Len(queue[p])
               PROVE  /\ PathOf[queue[p][i]] = p
                      /\ queue[p][i] \in lost' \/ at'[queue[p][i]] \in IF i = 1 THEN Queued ELSE {"waiting"}
                      /\ queue[p][i] = queue[p][j] => i = j
    BY DEF InLine
  <2>1. /\ PathOf[queue[p][i]] = p
        /\ queue[p][i] \in lost \/ at[queue[p][i]] \in IF i = 1 THEN Queued ELSE {"waiting"}
        /\ queue[p][i] = queue[p][j] => i = j
    BY DEF WriteInv, InLine
  <2>2. queue[p][i] \in Call
    BY DEF WriteInv, Typed
  <2>3. CASE queue[p][i] = c
    <3>1. i = 1
      BY <1>2, <2>1, <2>3 DEF WriteInv, InLine
    <3>. QED BY <1>1, <2>1, <2>3, <3>1 DEF Queued
  <2>4. CASE queue[p][i] # c
    BY <1>1, <2>1, <2>2, <2>4
  <2>. QED BY <2>3, <2>4
<1>4. HasTicket'
  BY <1>1 DEF WriteInv, HasTicket, Queued, HasTurn, Left, InTurn
<1>5. MainIsAlone'
  BY <1>1 DEF WriteInv, MainIsAlone, Executing, Dispatched, InTurn, HasTurn
<1>. QED BY <1>3, <1>4, <1>5

(* Steps of a call before its ticket or after it do, too.                    *)
LEMMA AsideKeepsLine ==
  ASSUME WriteInv, NEW c \in Call, NEW s, s \notin Queued \union {"releasing"}, at[c] \notin Queued,
         at[c] \in Left => s \in Left,
         Go(c, s), UNCHANGED <<queue, lost>>, users \ {c} \subseteq users'
  PROVE  InLine' /\ HasTicket'
<1>1. at' = [at EXCEPT ![c] = s] /\ at \in [Call -> Dispatched \union {"unborn", "prepared", "staged", "done"}]
  BY DEF Go, WriteInv, Typed
<1>2. InLine'
  <2> SUFFICES ASSUME NEW p \in Path, NEW i \in 1 .. Len(queue[p]), NEW j \in 1 .. Len(queue[p])
               PROVE  /\ PathOf[queue[p][i]] = p
                      /\ queue[p][i] \in lost' \/ at'[queue[p][i]] \in IF i = 1 THEN Queued ELSE {"waiting"}
                      /\ queue[p][i] = queue[p][j] => i = j
    BY DEF InLine
  <2>1. /\ PathOf[queue[p][i]] = p
        /\ queue[p][i] \in lost \/ at[queue[p][i]] \in IF i = 1 THEN Queued ELSE {"waiting"}
        /\ queue[p][i] = queue[p][j] => i = j
    BY DEF WriteInv, InLine
  <2>2. queue[p][i] \in Call /\ (queue[p][i] = c => c \in lost)
    BY <2>1 DEF WriteInv, Typed, Queued
  <2>. QED BY <1>1, <2>1, <2>2
<1>3. HasTicket'
  BY <1>1 DEF WriteInv, HasTicket
<1>. QED BY <1>2, <1>3

LEMMA EnterKeepsLine ==
  ASSUME WriteInv, NEW c \in Call, Enter(c)
  PROVE  InLine' /\ HasTicket' /\ MainIsAlone' /\ queue' \in [Path -> Seq(Call)]
<1>1. /\ at[c] = "started" /\ at' = [at EXCEPT ![c] = "waiting"] /\ users' = users \union {c}
      /\ queue' = [queue EXCEPT ![PathOf[c]] = Append(@, c)] /\ main' = main /\ lost' = lost
      /\ at \in [Call -> Dispatched \union {"unborn", "prepared", "staged", "done"}]
      /\ queue \in [Path -> Seq(Call)] /\ PathOf[c] \in Path
  BY Named DEF Enter, Go, SameWorld, world, environment, WriteInv, Typed
<1>2. queue' \in [Path -> Seq(Call)]
  BY <1>1
<1>3. ASSUME NEW p \in Path, NEW i \in 1 .. Len(queue[p])
      PROVE  /\ queue[p][i] \in Call /\ queue[p][i] # c /\ PathOf[queue[p][i]] = p
             /\ at'[queue[p][i]] = at[queue[p][i]]
             /\ queue[p][i] \in lost \/ at[queue[p][i]] \in IF i = 1 THEN Queued ELSE {"waiting"}
  <2>1. queue[p][i] \in Call
    BY <1>1
  <2>2. /\ PathOf[queue[p][i]] = p
        /\ queue[p][i] \in lost \/ at[queue[p][i]] \in IF i = 1 THEN Queued ELSE {"waiting"}
    BY DEF WriteInv, InLine
  <2>3. queue[p][i] # c
    BY <1>1, <2>2 DEF Queued, InTurn, WriteInv, HasTicket, Left
  <2>. QED BY <1>1, <2>1, <2>2, <2>3
<1>4. InLine'
  <2> SUFFICES ASSUME NEW p \in Path, NEW i \in 1 .. Len(queue'[p]), NEW j \in 1 .. Len(queue'[p])
               PROVE  /\ PathOf[queue'[p][i]] = p
                      /\ queue'[p][i] \in lost' \/ at'[queue'[p][i]] \in IF i = 1 THEN Queued ELSE {"waiting"}
                      /\ queue'[p][i] = queue'[p][j] => i = j
    BY DEF InLine
  <2>1. CASE p # PathOf[c]
    <3>1. queue'[p] = queue[p] /\ lost' = lost
      BY <1>1, <2>1
    <3>. QED BY <1>3, <3>1 DEF WriteInv, InLine
  <2>2. CASE p = PathOf[c]
    <3> DEFINE q == queue[p]
    <3>1. q \in Seq(Call) /\ queue'[p] = Append(q, c) /\ Len(queue'[p]) = Len(q) + 1 /\ Len(q) \in Nat
      BY <1>1, <2>2
    <3>2. /\ i <= Len(q) => i \in 1 .. Len(q) /\ queue'[p][i] = q[i]
          /\ j <= Len(q) => j \in 1 .. Len(q) /\ queue'[p][j] = q[j]
          /\ i > Len(q) => i = Len(q) + 1 /\ queue'[p][i] = c
          /\ j > Len(q) => j = Len(q) + 1 /\ queue'[p][j] = c
      BY <3>1
    <3>3. /\ i \in 1 .. Len(q) => PathOf[q[i]] = p /\ q[i] # c
                    /\ (q[i] \in lost \/ at'[q[i]] \in IF i = 1 THEN Queued ELSE {"waiting"})
          /\ j \in 1 .. Len(q) => q[j] # c
          /\ i \in 1 .. Len(q) /\ j \in 1 .. Len(q) /\ q[i] = q[j] => i = j
      BY <1>3 DEF WriteInv, InLine
    <3>4. at'[c] = "waiting" /\ lost' = lost
      BY <1>1
    <3> HIDE DEF q
    <3>. QED BY <2>2, <3>1, <3>2, <3>3, <3>4 DEF Queued
  <2>. QED BY <2>1, <2>2
<1>5. HasTicket'
  <2>1. ASSUME NEW d \in Call, at'[d] \in Queued \/ d \in lost
        PROVE  \E i \in 1 .. Len(queue'[PathOf[d]]) : queue'[PathOf[d]][i] = d
    <3> DEFINE p == PathOf[d]
               q == queue[p]
    <3>1. p \in Path /\ q \in Seq(Call) /\ Len(q) \in Nat
      BY <1>1, Named
    <3>2. CASE d = c
      <4>1. queue'[p] = Append(q, c)
        BY <1>1, <3>2
      <4>2. Len(q) + 1 \in 1 .. Len(queue'[p]) /\ queue'[p][Len(q) + 1] = d
        BY <3>1, <3>2, <4>1
      <4>. QED BY <4>2
    <3>3. CASE d # c
      <4>1. PICK i \in 1 .. Len(q) : q[i] = d
        BY <1>1, <2>1, <3>3 DEF WriteInv, HasTicket
      <4>2. queue'[p] = q \/ queue'[p] = Append(q, c)
        BY <1>1, <3>1
      <4>3. i \in 1 .. Len(queue'[p]) /\ queue'[p][i] = d
        <5>1. CASE queue'[p] = q
          BY <4>1, <5>1
        <5>2. CASE queue'[p] = Append(q, c)
          BY <3>1, <4>1, <5>2
        <5>. QED BY <4>2, <5>1, <5>2
      <4>. QED BY <4>3
    <3>. QED BY <3>2, <3>3
  <2>2. ASSUME NEW d \in Call PROVE at'[d] \in Queued \union {"releasing"} => d \in users'
    BY <1>1 DEF WriteInv, HasTicket
  <2>3. ASSUME NEW d \in Call PROVE d \in lost => at'[d] \in Left
    BY <1>1 DEF WriteInv, HasTicket, Left
  <2>. QED BY <1>1, <2>1, <2>2, <2>3 DEF HasTicket
<1>6. MainIsAlone'
  BY <1>1 DEF WriteInv, MainIsAlone, Executing, Dispatched
<1>. QED BY <1>2, <1>4, <1>5, <1>6

LEMMA LeaveKeepsLine ==
  ASSUME WriteInv, NEW c \in Call, Leave(c)
  PROVE  InLine' /\ HasTicket' /\ MainIsAlone' /\ queue' \in [Path -> Seq(Call)]
<1>1. /\ at[c] = "leaving" /\ at' = [at EXCEPT ![c] = "releasing"] /\ users' = users
      /\ queue' = [queue EXCEPT ![PathOf[c]] = Tail(@)] /\ main' = main /\ lost' = lost
      /\ at \in [Call -> Dispatched \union {"unborn", "prepared", "staged", "done"}]
      /\ queue \in [Path -> Seq(Call)] /\ PathOf[c] \in Path
  BY Named DEF Leave, Go, SameWorld, world, environment, WriteInv, Typed
<1>2. Len(queue[PathOf[c]]) >= 1 /\ queue[PathOf[c]][1] = c
  BY <1>1, TurnIsFirst DEF InTurn
<1> DEFINE line == queue[PathOf[c]]
<1>3. /\ line \in Seq(Call) /\ Len(line) \in Nat /\ Tail(line) \in Seq(Call)
      /\ Len(Tail(line)) = Len(line) - 1
      /\ \A i \in 1 .. Len(Tail(line)) : i + 1 \in 2 .. Len(line) /\ Tail(line)[i] = line[i + 1]
  BY <1>1, <1>2
<1>4. queue' \in [Path -> Seq(Call)]
  BY <1>1, <1>3
<1>5. ASSUME NEW p \in Path, NEW i \in 1 .. Len(queue[p]), queue[p][i] = c
      PROVE  p = PathOf[c] /\ i = 1
  BY <1>2, <1>3, <1>5 DEF WriteInv, InLine
<1>6. InLine'
  <2> SUFFICES ASSUME NEW p \in Path, NEW i \in 1 .. Len(queue'[p]), NEW j \in 1 .. Len(queue'[p])
               PROVE  /\ PathOf[queue'[p][i]] = p
                      /\ queue'[p][i] \in lost' \/ at'[queue'[p][i]] \in IF i = 1 THEN Queued ELSE {"waiting"}
                      /\ queue'[p][i] = queue'[p][j] => i = j
    BY DEF InLine
  <2>1. CASE p # PathOf[c]
    <3>1. queue'[p] = queue[p]
      BY <1>1, <2>1
    <3>2. queue[p][i] \in Call /\ queue[p][i] # c
      BY <1>1, <1>5, <2>1, <3>1
    <3>. QED BY <1>1, <3>1, <3>2 DEF WriteInv, InLine
  <2>2. CASE p = PathOf[c]
    <3>1. queue'[p] = Tail(line)
      BY <1>1, <2>2
    <3>2. /\ i + 1 \in 2 .. Len(line) /\ queue'[p][i] = line[i + 1]
          /\ j + 1 \in 2 .. Len(line) /\ queue'[p][j] = line[j + 1]
      BY <1>3, <3>1
    <3>3. i + 1 \in 1 .. Len(line) /\ j + 1 \in 1 .. Len(line) /\ i + 1 # 1
      BY <1>3, <3>2
    <3>4. /\ PathOf[line[i + 1]] = p
          /\ line[i + 1] \in lost \/ at[line[i + 1]] = "waiting"
          /\ line[i + 1] = line[j + 1] => i + 1 = j + 1
      BY <2>2, <3>3 DEF WriteInv, InLine
    <3>5. line[i + 1] \in lost' \/ at'[line[i + 1]] = "waiting"
      BY <1>1, <3>4
    <3>. QED BY <1>3, <3>2, <3>4, <3>5 DEF Queued
  <2>. QED BY <2>1, <2>2
<1>7. HasTicket'
  <2>1. ASSUME NEW d \in Call, at'[d] \in Queued \/ d \in lost
        PROVE  \E i \in 1 .. Len(queue'[PathOf[d]]) : queue'[PathOf[d]][i] = d
    <3>1. d # c /\ (at[d] \in Queued \/ d \in lost)
      BY <1>1, <2>1 DEF Queued, InTurn, WriteInv, HasTicket, Left
    <3>2. PICK i \in 1 .. Len(queue[PathOf[d]]) : queue[PathOf[d]][i] = d
      BY <3>1 DEF WriteInv, HasTicket
    <3>3. CASE PathOf[d] # PathOf[c]
      BY <1>1, <3>2, <3>3, Named
    <3>4. CASE PathOf[d] = PathOf[c]
      <4>1. i # 1 /\ i \in 1 .. Len(line) /\ line[i] = d
        BY <1>2, <3>1, <3>2, <3>4
      <4>2. i - 1 \in 1 .. Len(Tail(line)) /\ Tail(line)[i - 1] = d
        BY <1>3, <4>1
      <4>3. queue'[PathOf[d]] = Tail(line)
        BY <1>1, <3>4
      <4>. QED BY <4>2, <4>3
    <3>. QED BY <3>3, <3>4
  <2>2. ASSUME NEW d \in Call PROVE at'[d] \in Queued \union {"releasing"} => d \in users'
    BY <1>1 DEF WriteInv, HasTicket, Queued, InTurn
  <2>3. ASSUME NEW d \in Call PROVE d \in lost => at'[d] \in Left
    BY <1>1 DEF WriteInv, HasTicket, Left
  <2>. QED BY <1>1, <2>1, <2>2, <2>3 DEF HasTicket
<1>8. MainIsAlone'
  BY <1>1 DEF WriteInv, MainIsAlone, Executing, Dispatched
<1>. QED BY <1>4, <1>6, <1>7, <1>8

-----------------------------------------------------------------------------
(* Steps of execute. *)

Facts == Told /\ Provenanced /\ Seen /\ StillThere /\ Based /\ Logged

(* A step of a started call that changes no file leaves the log true, if its *)
(* check was good and if what it captured is what it wrote.                  *)
LEMMA WalkKeepsFacts ==
  ASSUME WriteInv, NEW c \in Call, NEW s \in Dispatched \ {"capture"}, NEW v \in Version \union {None},
         at[c] \in Dispatched, Go(c, s), result' = [result EXCEPT ![c] = v],
         UNCHANGED <<disk, wrote, expected, log, touched>>,
         c \in wrote => s \in Written,
         s = "replace" => disk[PathOf[c]] = expected[c],
         v # None => /\ c \in wrote /\ s \in {"provenance", "leaving", "releasing", "finish"}
                     /\ PathOf[c] \notin touched => v = c
  PROVE  Facts'
<1>1. /\ at' = [at EXCEPT ![c] = s]
      /\ at \in [Call -> Dispatched \union {"unborn", "prepared", "staged", "done"}]
      /\ result \in [Call -> Version \union {None}]
      /\ UNCHANGED <<status, snapshot, unreadable>>
  BY DEF Go, log, WriteInv, Typed
<1>2. status[c] = "started"
  BY DEF WriteInv, Told
<1>3. Told'
  <2> SUFFICES ASSUME NEW d \in Call
      PROVE  /\ at'[d] \in Dispatched => status[d] = "started"
             /\ status[d] = "started" => at'[d] \in Dispatched \/ unreadable
             /\ d \in wrote => at'[d] \in Written /\ status[d] \notin {"none", "requested"}
             /\ at'[d] = "capture" => d \in wrote
             /\ result'[d] # None => d \in wrote /\ at'[d] \in {"provenance", "leaving", "releasing", "finish", "done"}
    BY <1>1 DEF Told
  <2>1. CASE d = c
    BY <1>1, <1>2, <2>1
  <2>2. CASE d # c
    BY <1>1, <2>2 DEF WriteInv, Told
  <2>. QED BY <2>1, <2>2
<1>4. Provenanced'
  BY DEF WriteInv, Provenanced
<1>5. Seen'
  BY <1>1 DEF WriteInv, Seen, Dispatched
<1>6. StillThere'
  <2> SUFFICES ASSUME NEW d \in Call
      PROVE  /\ at'[d] = "replace" => \/ disk[PathOf[d]] = expected[d]
                                      \/ PathOf[d] \in touched /\ disk[PathOf[d]] \notin Call
             /\ PathOf[d] \notin touched =>
                  /\ d \in wrote /\ status[d] \in Open => disk[PathOf[d]] = d
                  /\ result'[d] # None => result'[d] = d
    BY <1>1 DEF StillThere
  <2>1. CASE d = c
    BY <1>1, <2>1 DEF WriteInv, StillThere
  <2>2. CASE d # c
    BY <1>1, <2>2 DEF WriteInv, StillThere
  <2>. QED BY <2>1, <2>2
<1>7. Based'
  BY <1>1 DEF WriteInv, Based, Dispatched
<1>8. Logged'
  BY <1>1 DEF WriteInv, Logged, Hidden
<1>. QED BY <1>3, <1>4, <1>5, <1>6, <1>7, <1>8 DEF Facts

(* A step that leaves the directory alone, or makes it, keeps it.            *)
LEMMA WalkKeepsDirectory ==
  ASSUME WriteInv, NEW c \in Call, NEW s, Go(c, s), directory => directory',
         s = "temp" => HasParent(PathOf[c])'
  PROVE  DirectoryIsKept'
BY DEF Go, WriteInv, Typed, DirectoryIsKept, HasParent

LEMMA Together ==
  ASSUME Typed', InLine', HasTicket', MainIsAlone', Facts', DirectoryIsKept'
  PROVE  WriteInv'
BY DEF WriteInv, Facts

LEMMA EnterKeeps ==
  ASSUME WriteInv, NEW c \in Call, Enter(c) PROVE WriteInv'
<1>1. /\ at[c] = "started" /\ Go(c, "waiting") /\ UNCHANGED <<disk, directory, wrote, local, log, world>>
      /\ users' = users \union {c}
  BY DEF Enter, SameFiles, SameWorld
<1>2. result[c] = None /\ c \notin wrote
  BY <1>1 DEF WriteInv, Told, Written
<1>3. result' = [result EXCEPT ![c] = None]
  BY <1>1, <1>2 DEF local, WriteInv, Typed
<1>4. Facts'
  BY <1>1, <1>2, <1>3, WalkKeepsFacts DEF local, log, world, environment, Dispatched
<1>5. Typed'
  BY <1>1, EnterKeepsLine DEF WriteInv, Typed, Go, local, log, world, environment, Dispatched
<1>6. DirectoryIsKept'
  BY <1>1, WalkKeepsDirectory
<1>. QED BY <1>4, <1>5, <1>6, EnterKeepsLine, Together

(* A step of a call that only looks.                                         *)
LEMMA LookKeeps ==
  ASSUME WriteInv, NEW c \in Call, NEW s \in InTurn \ {"capture", "temp"},
         HasTurn(c),
         Go(c, s), UNCHANGED <<disk, directory, wrote, expected, result, log, queue, users, lost, touched, main>>,
         owns' \in [Call -> BOOLEAN],
         c \in wrote => s \in Written,
         s = "replace" => disk[PathOf[c]] = expected[c],
         result[c] # None => s \in {"provenance", "leaving"}
  PROVE  WriteInv'
<1>1. at[c] \in Dispatched /\ s \in Dispatched
  BY DEF HasTurn, InTurn, Dispatched
<1>2. /\ result' = [result EXCEPT ![c] = result[c]] /\ result[c] \in Version \union {None}
      /\ result[c] # None => c \in wrote /\ (PathOf[c] \notin touched => result[c] = c)
  BY DEF WriteInv, Typed, Told, StillThere
<1>3. Facts'
  BY <1>1, <1>2, WalkKeepsFacts
<1>4. InLine' /\ HasTicket' /\ MainIsAlone'
  BY WalkKeepsLine
<1>5. Typed'
  BY <1>1 DEF WriteInv, Typed, Go, log
<1>6. DirectoryIsKept'
  BY WalkKeepsDirectory
<1>. QED BY <1>3, <1>4, <1>5, <1>6, Together

LEMMA CheckKeeps ==
  ASSUME WriteInv, NEW c \in Call, Check(c) PROVE WriteInv'
<1>1. PICK s \in {"parents", "leaving"} : Go(c, s)
  BY DEF Check
<1>2. /\ at[c] = "waiting" /\ Head(queue[PathOf[c]]) = c
      /\ UNCHANGED <<disk, directory, wrote, local, coordinator, log, world>>
  BY DEF Check, SameFiles, SameWorld
<1>3. result[c] = None /\ c \notin wrote
  BY <1>2 DEF WriteInv, Told, Written
<1>4. UNCHANGED <<expected, result, queue, users, lost, touched, main>> /\ owns' \in [Call -> BOOLEAN]
  BY <1>2 DEF local, coordinator, world, environment, WriteInv, Typed
<1>5. HasTurn(c) /\ s \in InTurn \ {"capture", "temp"} /\ s # "replace"
  BY <1>1, <1>2 DEF InTurn, HasTurn
<1>. QED BY <1>1, <1>2, <1>3, <1>4, <1>5, LookKeeps

LEMMA ParentsKeeps ==
  ASSUME WriteInv, NEW c \in Call, Parents(c) PROVE WriteInv'
<1>1. /\ at[c] = "parents" /\ Go(c, "temp") /\ directory' = (directory \/ PathOf[c] \in Inside)
      /\ UNCHANGED <<disk, wrote, expected, result, owns, queue, users, lost, log, world>>
  BY DEF Parents, SameWorld, world, environment
<1>2. result[c] = None /\ c \notin wrote /\ result' = [result EXCEPT ![c] = None]
  BY <1>1 DEF WriteInv, Told, Written, Typed
<1>3. Facts'
  BY <1>1, <1>2, WalkKeepsFacts DEF world, environment, Dispatched
<1>4. InLine' /\ HasTicket' /\ MainIsAlone'
  <2>1. HasTurn(c) /\ "temp" \in InTurn /\ UNCHANGED <<queue, users, lost, main>>
    BY <1>1 DEF world, environment, InTurn, HasTurn
  <2>. QED BY <1>1, <2>1, WalkKeepsLine
<1>5. Typed'
  BY <1>1 DEF WriteInv, Typed, Go, log, world, environment, Dispatched
<1>6. DirectoryIsKept'
  BY <1>1, WalkKeepsDirectory DEF HasParent, WriteInv, Typed
<1>. QED BY <1>3, <1>4, <1>5, <1>6, Together

LEMMA TempKeeps ==
  ASSUME WriteInv, NEW c \in Call, Temp(c) PROVE WriteInv'
<1>1. PICK s \in {"recheck", "cleanup"} : Go(c, s)
  BY DEF Temp
<1>2. /\ at[c] = "temp"
      /\ UNCHANGED <<disk, directory, wrote, local, coordinator, log, lost, touched, main>>
  BY DEF Temp, SameFiles
<1>3. result[c] = None /\ c \notin wrote
  BY <1>2 DEF WriteInv, Told, Written
<1>4. UNCHANGED <<expected, result, queue, users, lost>> /\ owns' \in [Call -> BOOLEAN]
  BY <1>2 DEF local, coordinator, WriteInv, Typed
<1>5. HasTurn(c) /\ s \in InTurn \ {"capture", "temp"} /\ s # "replace"
  BY <1>1, <1>2 DEF InTurn, HasTurn
<1>. QED BY <1>1, <1>2, <1>3, <1>4, <1>5, LookKeeps

LEMMA RecheckKeeps ==
  ASSUME WriteInv, NEW c \in Call, Recheck(c) PROVE WriteInv'
<1>1. PICK s \in {"replace", "cleanup"} : Go(c, s) /\ (s = "replace" => disk[PathOf[c]] = expected[c])
  BY DEF Recheck, Unchanged
<1>2. /\ at[c] = "recheck"
      /\ UNCHANGED <<disk, directory, wrote, local, coordinator, log, world>>
  BY DEF Recheck, SameFiles, SameWorld
<1>3. result[c] = None /\ c \notin wrote
  BY <1>2 DEF WriteInv, Told, Written
<1>4. UNCHANGED <<expected, result, queue, users, lost, touched, main>> /\ owns' \in [Call -> BOOLEAN]
  BY <1>2 DEF local, coordinator, world, environment, WriteInv, Typed
<1>5. HasTurn(c) /\ s \in InTurn \ {"capture", "temp"}
  BY <1>1, <1>2 DEF InTurn, HasTurn
<1>. QED BY <1>1, <1>2, <1>3, <1>4, <1>5, LookKeeps

LEMMA CaptureKeeps ==
  ASSUME WriteInv, NEW c \in Call, Capture(c) PROVE WriteInv'
<1>1. /\ at[c] = "capture"
      /\ UNCHANGED <<disk, directory, wrote, expected, owns, coordinator, log, world>>
  BY DEF Capture, SameFiles, SameWorld
<1>2. /\ c \in wrote /\ status[c] = "started" /\ result[c] = None
      /\ result \in [Call -> Version \union {None}] /\ disk[PathOf[c]] \in Version
      /\ PathOf[c] \notin touched => disk[PathOf[c]] = c
  BY <1>1, Named DEF WriteInv, Told, Typed, StillThere, Open, Dispatched
<1>3. PICK s \in {"provenance", "leaving"}, v \in Version \union {None} :
        Go(c, s) /\ result' = [result EXCEPT ![c] = v] /\ v \in {None, disk[PathOf[c]]}
  <2>1. CASE result' = [result EXCEPT ![c] = disk[PathOf[c]]] /\ Go(c, "provenance")
    BY <1>2, <2>1
  <2>2. CASE Go(c, "leaving") /\ UNCHANGED result
    <3>1. result' = [result EXCEPT ![c] = None]
      BY <1>2, <2>2
    <3>. QED BY <2>2, <3>1
  <2>. QED BY <2>1, <2>2 DEF Capture
<1>4. Facts'
  BY <1>1, <1>2, <1>3, WalkKeepsFacts DEF world, environment, Dispatched, Written
<1>5. InLine' /\ HasTicket' /\ MainIsAlone'
  <2>1. HasTurn(c) /\ s \in InTurn /\ UNCHANGED <<queue, users, lost, main>>
    BY <1>1, <1>3 DEF coordinator, world, environment, InTurn, HasTurn
  <2>. QED BY <1>3, <2>1, WalkKeepsLine
<1>6. Typed'
  BY <1>1, <1>2, <1>3 DEF WriteInv, Typed, Go, coordinator, log, world, environment, Dispatched
<1>7. DirectoryIsKept'
  BY <1>1, <1>3, WalkKeepsDirectory
<1>. QED BY <1>4, <1>5, <1>6, <1>7, Together

LEMMA ProvenanceKeeps ==
  ASSUME WriteInv, NEW c \in Call, Provenance(c) PROVE WriteInv'
<1>1. /\ at[c] = "provenance" /\ Go(c, "leaving")
      /\ UNCHANGED <<disk, directory, wrote, expected, result, queue, users, lost, log, world>>
  BY DEF Provenance, SameFiles, SameWorld, world, environment
<1>2. owns' \in [Call -> BOOLEAN]
  BY DEF Provenance, Adopts, WriteInv, Typed
<1>3. /\ HasTurn(c) /\ "leaving" \in InTurn \ {"capture", "temp"} /\ "leaving" \in Written
      /\ UNCHANGED <<touched, main>>
  BY <1>1 DEF world, environment, InTurn, HasTurn, Written
<1>. QED BY <1>1, <1>2, <1>3, LookKeeps

(* Only the last user of the directory removes it.                           *)
LEMMA CleanupKeeps ==
  ASSUME WriteInv, NEW c \in Call, Cleanup(c) PROVE WriteInv'
<1>1. /\ at[c] = "cleanup" /\ Go(c, "leaving")
      /\ UNCHANGED <<disk, wrote, local, queue, users, lost, log, world>>
  BY DEF Cleanup, SameWorld, world, environment
<1>2. result[c] = None /\ c \notin wrote /\ result' = [result EXCEPT ![c] = None]
  BY <1>1 DEF WriteInv, Told, Written, Typed, local
<1>3. Facts'
  BY <1>1, <1>2, WalkKeepsFacts DEF local, world, environment, Dispatched
<1>4. InLine' /\ HasTicket' /\ MainIsAlone'
  <2>1. HasTurn(c) /\ "leaving" \in InTurn /\ UNCHANGED <<queue, users, lost, main>>
    BY <1>1 DEF world, environment, InTurn, HasTurn
  <2>. QED BY <1>1, <2>1, WalkKeepsLine
<1>5. directory' \in BOOLEAN /\ (directory /\ ~directory' => Writers = {c})
  BY DEF Cleanup, Removes, WriteInv, Typed
<1>6. Typed'
  BY <1>1, <1>5 DEF WriteInv, Typed, Go, local, log, world, environment, Dispatched
<1>7. DirectoryIsKept'
  <2> SUFFICES ASSUME NEW d \in Call, at'[d] = "temp", PathOf[d] \in Inside PROVE directory'
    BY DEF DirectoryIsKept, HasParent
  <2>1. d # c /\ at[d] = "temp"
    BY <1>1 DEF Go, WriteInv, Typed
  <2>2. directory
    BY <2>1 DEF WriteInv, DirectoryIsKept, HasParent
  <2>3. d \in Writers
    BY <2>1 DEF WriteInv, HasTicket, Writers, Queued, InTurn
  <2>. QED BY <1>5, <2>1, <2>2, <2>3
<1>. QED BY <1>3, <1>4, <1>6, <1>7, Together

LEMMA LeaveKeeps ==
  ASSUME WriteInv, NEW c \in Call, Leave(c) PROVE WriteInv'
<1>1. /\ at[c] = "leaving" /\ Go(c, "releasing")
      /\ UNCHANGED <<disk, directory, wrote, local, users, log, world>>
  BY DEF Leave, SameFiles, SameWorld
<1>2. /\ result' = [result EXCEPT ![c] = result[c]] /\ result[c] \in Version \union {None}
      /\ result[c] # None => c \in wrote /\ (PathOf[c] \notin touched => result[c] = c)
  BY <1>1 DEF WriteInv, Typed, Told, StillThere, local
<1>3. Facts'
  BY <1>1, <1>2, WalkKeepsFacts DEF local, log, world, environment, Dispatched, Written
<1>4. Typed'
  BY <1>1, LeaveKeepsLine DEF WriteInv, Typed, Go, local, log, world, environment, Dispatched
<1>5. DirectoryIsKept'
  BY <1>1, WalkKeepsDirectory
<1>. QED BY <1>3, <1>4, <1>5, LeaveKeepsLine, Together

LEMMA ReleaseKeeps ==
  ASSUME WriteInv, NEW c \in Call, Release(c) PROVE WriteInv'
<1>1. /\ at[c] = "releasing" /\ Go(c, "finish") /\ users' = users \ {c}
      /\ UNCHANGED <<disk, directory, wrote, local, queue, log, world>>
  BY DEF Release, SameFiles, SameWorld
<1>2. /\ result' = [result EXCEPT ![c] = result[c]] /\ result[c] \in Version \union {None}
      /\ result[c] # None => c \in wrote /\ (PathOf[c] \notin touched => result[c] = c)
  BY <1>1 DEF WriteInv, Typed, Told, StillThere, local
<1>3. Facts'
  BY <1>1, <1>2, WalkKeepsFacts DEF local, log, world, environment, Dispatched, Written
<1>4. InLine' /\ HasTicket'
  BY <1>1, AsideKeepsLine DEF world, environment, Queued, InTurn, Left
<1>5. MainIsAlone'
  BY <1>1 DEF WriteInv, Typed, Go, world, MainIsAlone, Executing, Dispatched
<1>6. Typed'
  BY <1>1 DEF WriteInv, Typed, Go, local, log, world, environment, Dispatched
<1>7. DirectoryIsKept'
  BY <1>1, WalkKeepsDirectory
<1>. QED BY <1>3, <1>4, <1>5, <1>6, <1>7, Together

(* A lost ticket stays in the queue, of a call that has left.                *)
LEMMA LoseTicketKeepsLine ==
  ASSUME WriteInv, NEW c \in Call, at[c] \in {"waiting", "leaving"},
         Go(c, "releasing"), lost' = lost \union {c}, UNCHANGED <<queue, users>>
  PROVE  InLine' /\ HasTicket'
<1>1. at' = [at EXCEPT ![c] = "releasing"] /\ at \in [Call -> Dispatched \union {"unborn", "prepared", "staged", "done"}]
  BY DEF Go, WriteInv, Typed
<1>2. InLine'
  <2> SUFFICES ASSUME NEW p \in Path, NEW i \in 1 .. Len(queue[p]), NEW j \in 1 .. Len(queue[p])
               PROVE  /\ PathOf[queue[p][i]] = p
                      /\ queue[p][i] \in lost' \/ at'[queue[p][i]] \in IF i = 1 THEN Queued ELSE {"waiting"}
                      /\ queue[p][i] = queue[p][j] => i = j
    BY DEF InLine
  <2>1. /\ PathOf[queue[p][i]] = p
        /\ queue[p][i] \in lost \/ at[queue[p][i]] \in IF i = 1 THEN Queued ELSE {"waiting"}
        /\ queue[p][i] = queue[p][j] => i = j
    BY DEF WriteInv, InLine
  <2>. QED BY <1>1, <2>1
<1>3. HasTicket'
  <2> SUFFICES ASSUME NEW d \in Call
      PROVE  /\ at'[d] \in Queued \/ d \in lost'
                  => \E i \in 1 .. Len(queue[PathOf[d]]) : queue[PathOf[d]][i] = d
             /\ at'[d] \in Queued \union {"releasing"} => d \in users
             /\ d \in lost' => at'[d] \in Left
    BY DEF HasTicket
  <2>1. CASE d = c
    <3>1. at[c] \in Queued /\ at'[c] \in Left
      BY <1>1 DEF Queued, InTurn, Left
    <3>. QED BY <1>1, <2>1, <3>1 DEF WriteInv, HasTicket
  <2>2. CASE d # c
    BY <1>1, <2>2 DEF WriteInv, HasTicket
  <2>. QED BY <2>1, <2>2
<1>. QED BY <1>2, <1>3

(* Where a Ctrl-C leads to from where it meets the call. *)
InterruptedAt(c, s) ==
  /\ Go(c, s) /\ s \in {"cleanup", "leaving", "releasing", "finish"}
  /\ s = "cleanup" => at[c] \in {"parents", "temp", "recheck"}
  /\ s = "leaving" => at[c] \in {"waiting", "parents", "temp", "cleanup", "provenance"}
  /\ s = "releasing" => at[c] \in {"waiting", "leaving", "releasing"}
  /\ s = "finish" => at[c] \in {"started", "releasing", "finish"}

LEMMA InterruptKeepsLine ==
  ASSUME WriteInv, NEW c \in Call, Interrupt(c)
  PROVE  /\ InLine' /\ HasTicket' /\ users' \subseteq Call /\ lost' \subseteq Call
         /\ directory' \in BOOLEAN /\ (directory /\ ~directory' => Writers = {c})
         /\ \E s : InterruptedAt(c, s)
<1>0. /\ at[c] \in Dispatched \ {"replace", "capture"} /\ queue' = queue
      /\ at \in [Call -> Dispatched \union {"unborn", "prepared", "staged", "done"}]
      /\ users \subseteq Call /\ lost \subseteq Call /\ directory \in BOOLEAN
  BY DEF Interrupt, WriteInv, Typed
<1>1. CASE Handled(c)
  <2>1. UNCHANGED <<users, lost, directory>>
    BY <1>1 DEF Handled, SameLease
  <2>2. CASE at[c] \in {"waiting", "parents", "provenance"}
    <3>1. Go(c, "leaving") /\ (at[c] = "waiting" => Head(queue[PathOf[c]]) = c) /\ UNCHANGED main
      BY <1>1, <2>2 DEF Handled, Interrupt
    <3>2. HasTurn(c) /\ "leaving" \in InTurn
      BY <2>2, <3>1 DEF HasTurn, InTurn
    <3>3. InLine' /\ HasTicket'
      BY <1>0, <2>1, <3>1, <3>2, WalkKeepsLine
    <3>. QED BY <1>0, <2>1, <2>2, <3>1, <3>3 DEF InterruptedAt
  <2>3. CASE at[c] \in {"temp", "recheck"}
    <3>1. Go(c, "cleanup") /\ UNCHANGED main
      BY <1>1, <2>3 DEF Handled, Interrupt
    <3>2. HasTurn(c) /\ "cleanup" \in InTurn
      BY <2>3 DEF HasTurn, InTurn
    <3>3. InLine' /\ HasTicket'
      BY <1>0, <2>1, <3>1, <3>2, WalkKeepsLine
    <3>. QED BY <1>0, <2>1, <2>3, <3>1, <3>3 DEF InterruptedAt
  <2>4. CASE at[c] = "releasing"
    <3>1. Go(c, "releasing") /\ at' = at
      BY <1>0, <1>1, <2>4 DEF Handled, Go
    <3>2. InLine' /\ HasTicket'
      BY <1>0, <2>1, <3>1 DEF WriteInv, InLine, HasTicket
    <3>. QED BY <1>0, <2>1, <2>4, <3>1, <3>2 DEF InterruptedAt
  <2>5. CASE at[c] \in {"started", "finish"}
    <3>1. Go(c, "finish")
      BY <1>1, <2>5 DEF Handled
    <3>2. InLine' /\ HasTicket'
      BY <1>0, <2>1, <2>5, <3>1, AsideKeepsLine DEF Queued, InTurn, Left
    <3>. QED BY <1>0, <2>1, <2>5, <3>1, <3>2 DEF InterruptedAt
  <2>. QED BY <1>0, <1>1, <2>2, <2>3, <2>4, <2>5 DEF Handled, Dispatched
<1>2. CASE LoseTicket(c)
  <2>1. /\ at[c] \in {"waiting", "leaving"} /\ Go(c, "releasing") /\ lost' = lost \union {c}
        /\ UNCHANGED <<users, directory>>
    BY <1>2 DEF LoseTicket, SameLease
  <2>2. InLine' /\ HasTicket'
    BY <1>0, <2>1, LoseTicketKeepsLine
  <2>. QED BY <1>0, <2>1, <2>2 DEF InterruptedAt
<1>3. CASE LoseUser(c)
  <2>1. /\ at[c] \in {"started", "releasing"} /\ Go(c, "finish")
        /\ users' \in {users, users \union {c}, users \ {c}} /\ UNCHANGED <<lost, directory>>
    BY <1>3 DEF LoseUser
  <2>2. InLine' /\ HasTicket'
    BY <1>0, <2>1, AsideKeepsLine DEF Queued, InTurn, Left
  <2>. QED BY <1>0, <2>1, <2>2 DEF InterruptedAt
<1>4. CASE MakeAndStop(c)
  <2>1. /\ at[c] = "parents" /\ directory' = TRUE /\ UNCHANGED <<users, lost, main>>
        /\ \E s \in {"cleanup", "leaving"} : Go(c, s)
    BY <1>4 DEF MakeAndStop, Interrupt
  <2>2. PICK s \in {"cleanup", "leaving"} : Go(c, s)
    BY <2>1
  <2>3. HasTurn(c) /\ s \in InTurn
    BY <2>1 DEF HasTurn, InTurn
  <2>4. InLine' /\ HasTicket'
    BY <1>0, <2>1, <2>2, <2>3, WalkKeepsLine
  <2>. QED BY <1>0, <2>1, <2>2, <2>4 DEF InterruptedAt
<1>5. CASE LoseDirectory(c)
  <2>1. /\ at[c] \in {"temp", "cleanup", "provenance"} /\ UNCHANGED <<users, lost, main>>
        /\ \E s \in {"cleanup", "leaving"} : Go(c, s) /\ (s = "cleanup" => at[c] = "temp")
    BY <1>5 DEF LoseDirectory, Interrupt
  <2>2. PICK s \in {"cleanup", "leaving"} : Go(c, s) /\ (s = "cleanup" => at[c] = "temp")
    BY <2>1
  <2>3. HasTurn(c) /\ s \in InTurn
    BY <2>1 DEF HasTurn, InTurn
  <2>4. InLine' /\ HasTicket'
    BY <1>0, <2>1, <2>2, <2>3, WalkKeepsLine
  <2>5. directory' \in BOOLEAN /\ (directory /\ ~directory' => Writers = {c})
    <3>1. directory' = directory \/ directory' = (directory /\ ~Removes(c))
      BY <1>5 DEF LoseDirectory
    <3>2. Removes(c) => Writers = {c}
      BY DEF Removes
    <3>. QED BY <1>0, <3>1, <3>2
  <2>. QED BY <1>0, <2>1, <2>2, <2>4, <2>5 DEF InterruptedAt
<1>. QED BY <1>1, <1>2, <1>3, <1>4, <1>5 DEF Interrupt

LEMMA InterruptKeeps ==
  ASSUME WriteInv, NEW c \in Call, Interrupt(c) PROVE WriteInv'
<1>1. /\ main = c /\ result' = [result EXCEPT ![c] = None]
      /\ at[c] \in Dispatched \ {"replace", "capture"}
      /\ UNCHANGED <<disk, wrote, expected, owns, queue, log, touched, main>>
  BY DEF Interrupt
<1>2. PICK s : InterruptedAt(c, s)
  BY InterruptKeepsLine
<1>3. /\ Go(c, s) /\ s \in Dispatched \ {"capture"} /\ s \notin {"replace", "temp"}
      /\ c \in wrote => s \in Written
  <2>1. Go(c, s) /\ s \in Dispatched \ {"capture"} /\ s \notin {"replace", "temp"}
    BY <1>2 DEF InterruptedAt, Dispatched
  <2>2. c \in wrote => s # "cleanup"
    BY <1>2 DEF InterruptedAt, WriteInv, Told, Written
  <2>. QED BY <1>2, <2>1, <2>2 DEF InterruptedAt, Written
<1>4. Facts'
  BY <1>1, <1>3, WalkKeepsFacts
<1>5. InLine' /\ HasTicket'
  BY InterruptKeepsLine
<1>6. MainIsAlone'
  BY <1>1, <1>3 DEF WriteInv, Typed, Go, MainIsAlone, Executing
<1>7. Typed'
  <2>1. users' \subseteq Call /\ lost' \subseteq Call /\ directory' \in BOOLEAN
    BY InterruptKeepsLine
  <2>. QED BY <1>1, <1>3, <2>1 DEF WriteInv, Typed, Go, log
<1>8. DirectoryIsKept'
  <2> SUFFICES ASSUME NEW d \in Call, at'[d] = "temp", PathOf[d] \in Inside PROVE directory'
    BY DEF DirectoryIsKept, HasParent
  <2>1. d # c /\ at[d] = "temp"
    BY <1>3 DEF Go, WriteInv, Typed
  <2>2. directory
    BY <2>1 DEF WriteInv, DirectoryIsKept, HasParent
  <2>3. d \in Writers
    BY <2>1 DEF WriteInv, HasTicket, Writers, Queued, InTurn
  <2>. QED BY <2>1, <2>2, <2>3, InterruptKeepsLine
<1>. QED BY <1>4, <1>5, <1>6, <1>7, <1>8, Together

(* The replacement itself: nobody else at this path has one open, as this    *)
(* call saw what is there.                                                   *)
LEMMA ReplaceKeeps ==
  ASSUME WriteInv, NEW c \in Call, Replace(c) PROVE WriteInv'
<1> DEFINE p == PathOf[c]
<1>1. /\ at[c] = "replace" /\ at' = [at EXCEPT ![c] = "capture"] /\ Go(c, "capture")
      /\ disk' = [disk EXCEPT ![p] = c] /\ wrote' = wrote \union {c}
      /\ UNCHANGED <<directory, local, coordinator, log, world>>
      /\ at \in [Call -> Dispatched \union {"unborn", "prepared", "staged", "done"}]
      /\ disk \in [Path -> Version] /\ wrote \subseteq Call /\ p \in Path
  BY Named DEF Replace, SameWorld, Go, WriteInv, Typed
<1>2. UNCHANGED <<expected, result, owns, queue, users, lost, status, snapshot, unreadable, touched, main>>
  BY <1>1 DEF local, coordinator, log, world, environment
<1>3. status[c] = "started" /\ c \notin wrote /\ result[c] = None
  BY <1>1 DEF WriteInv, Told, Written, Dispatched
<1>4. ASSUME NEW d \in wrote, PathOf[d] = p, status[d] \in Open, p \notin touched PROVE FALSE
  <2>1. disk[p] = d
    BY <1>1, <1>4 DEF WriteInv, StillThere
  <2>2. expected[c] = d
    BY <1>1, <1>4, <2>1 DEF WriteInv, StillThere
  <2>. QED BY <1>1, <1>4, <2>2 DEF WriteInv, Seen
<1>5. Told'
  <2> SUFFICES ASSUME NEW d \in Call
      PROVE  /\ at'[d] \in Dispatched => status[d] = "started"
             /\ status[d] = "started" => at'[d] \in Dispatched \/ unreadable
             /\ d \in wrote' => at'[d] \in Written /\ status[d] \notin {"none", "requested"}
             /\ at'[d] = "capture" => d \in wrote'
             /\ result[d] # None => d \in wrote' /\ at'[d] \in {"provenance", "leaving", "releasing", "finish", "done"}
    BY <1>2 DEF Told
  <2>1. CASE d = c
    BY <1>1, <1>3, <2>1 DEF Written, Dispatched
  <2>2. CASE d # c
    BY <1>1, <2>2 DEF WriteInv, Told
  <2>. QED BY <2>1, <2>2
<1>6. Provenanced'
  BY <1>1, <1>2 DEF WriteInv, Provenanced
<1>7. Seen'
  BY <1>1, <1>2 DEF WriteInv, Seen
<1>8. StillThere'
  <2> SUFFICES ASSUME NEW d \in Call
      PROVE  /\ at'[d] = "replace" => \/ disk'[PathOf[d]] = expected[d]
                                      \/ PathOf[d] \in touched /\ disk'[PathOf[d]] \notin Call
             /\ PathOf[d] \notin touched =>
                  /\ d \in wrote' /\ status[d] \in Open => disk'[PathOf[d]] = d
                  /\ result[d] # None => result[d] = d
    BY <1>2 DEF StillThere
  <2>1. CASE d = c
    BY <1>1, <1>3, <2>1
  <2>2. CASE d # c /\ PathOf[d] = p
    <3>1. at'[d] # "replace"
      BY <1>1, <2>2, TurnIsAlone DEF InTurn
    <3>2. d \in wrote' => d \in wrote
      BY <1>1, <2>2
    <3>. QED BY <1>4, <2>2, <3>1, <3>2 DEF WriteInv, StillThere
  <2>3. CASE PathOf[d] # p
    <3>1. disk'[PathOf[d]] = disk[PathOf[d]] /\ d # c /\ at'[d] = at[d] /\ (d \in wrote' => d \in wrote)
      BY <1>1, <2>3, Named
    <3>. QED BY <3>1 DEF WriteInv, StillThere
  <2>. QED BY <2>1, <2>2, <2>3
<1>9. Based'
  BY <1>1, <1>2 DEF WriteInv, Based
<1>10. Logged'
  <2> SUFFICES ASSUME NEW q \in Path \ touched, Hidden(q)' = {}
      PROVE  /\ (\A d \in wrote' : PathOf[d] = q => status[d] \notin Open)
                   => disk'[q] = IF snapshot[q].after = None THEN Before(q) ELSE snapshot[q].after
             /\ snapshot[q].source # None => snapshot[q].before = Before(q)
    BY <1>2 DEF Logged
  <2>1. Hidden(q) = {}
    BY <1>1, <1>2 DEF Hidden
  <2>2. CASE q = p
    BY <1>1, <1>3, <2>1, <2>2 DEF WriteInv, Logged, Open
  <2>3. CASE q # p
    BY <1>1, <2>1, <2>3 DEF WriteInv, Logged
  <2>. QED BY <2>2, <2>3
<1>11. InLine' /\ HasTicket' /\ MainIsAlone'
  <2>1. HasTurn(c) /\ "capture" \in InTurn
    BY <1>1 DEF HasTurn, InTurn
  <2>. QED BY <1>1, <1>2, <2>1, WalkKeepsLine
<1>12. Typed'
  BY <1>1, <1>2 DEF WriteInv, Typed, Dispatched, Version
<1>13. DirectoryIsKept'
  BY <1>1, WalkKeepsDirectory
<1>. QED BY <1>5, <1>6, <1>7, <1>8, <1>9, <1>10, <1>11, <1>12, <1>13, Together DEF Facts

-----------------------------------------------------------------------------
(* Steps that are recorded. *)

(* What a call c may be prepared on. *)
SeenBy(c, x) ==
  /\ x \in Call => x \in wrote /\ PathOf[x] = PathOf[c] /\ status[x] \notin Open
  /\ at'[c] # "unborn" /\ PathOf[c] \notin touched => x \in Call \union {Before(PathOf[c])}

Recorded(c, s, v) ==
  /\ at' = [at EXCEPT ![c] = s] /\ status' = [status EXCEPT ![c] = v]
  /\ \E x : expected' = [expected EXCEPT ![c] = x] /\ SeenBy(c, x)

(* A status that says of no write that it succeeded leaves the log true.     *)
LEMMA StatusKeepsFacts ==
  ASSUME WriteInv, NEW c \in Call, NEW s, NEW v, v \in Statuses, v # "succeeded",
         Recorded(c, s, v),
         UNCHANGED <<disk, wrote, result, snapshot, unreadable, touched>>,
         (s \in Dispatched) <=> (v = "started"), s \notin {"capture", "replace"},
         c \in wrote => s = "done" /\ v \in {"no effect", "closed"},
         (s = "staged" \/ v \in Open) => snapshot[PathOf[c]].source # None
  PROVE  Facts'
<1>1. /\ at \in [Call -> Dispatched \union {"unborn", "prepared", "staged", "done"}]
      /\ status \in [Call -> Statuses] /\ expected \in [Call -> Version \union {None}]
      /\ wrote \subseteq Call
      /\ at' = [at EXCEPT ![c] = s] /\ status' = [status EXCEPT ![c] = v]
  BY DEF WriteInv, Typed, Recorded
<1>2. Told'
  <2> SUFFICES ASSUME NEW d \in Call
      PROVE  /\ at'[d] \in Dispatched => status'[d] = "started"
             /\ status'[d] = "started" => at'[d] \in Dispatched \/ unreadable
             /\ d \in wrote => at'[d] \in Written /\ status'[d] \notin {"none", "requested"}
             /\ at'[d] = "capture" => d \in wrote
             /\ result[d] # None => d \in wrote /\ at'[d] \in {"provenance", "leaving", "releasing", "finish", "done"}
    BY DEF Told
  <2>1. CASE d = c
    BY <1>1, <2>1 DEF WriteInv, Told, Written
  <2>2. CASE d # c
    BY <1>1, <2>2 DEF WriteInv, Told
  <2>. QED BY <2>1, <2>2
<1>3. Provenanced'
  BY DEF WriteInv, Provenanced
<1>4. Seen'
  <2> SUFFICES ASSUME NEW d \in Call
      PROVE  /\ expected'[d] \in Call => /\ expected'[d] \in wrote
                                         /\ PathOf[expected'[d]] = PathOf[d]
                                         /\ status'[expected'[d]] \notin Open
             /\ at'[d] # "unborn" /\ PathOf[d] \notin touched
                  => expected'[d] \in Call \union {Before(PathOf[d])}
    BY DEF Seen
  <2>0. PICK x : expected' = [expected EXCEPT ![c] = x] /\ SeenBy(c, x)
    BY DEF Recorded
  <2>1. expected'[d] \in Call => /\ expected'[d] \in wrote
                                 /\ PathOf[expected'[d]] = PathOf[d]
                                 /\ status[expected'[d]] \notin Open
    BY <1>1, <2>0 DEF WriteInv, Seen, SeenBy
  <2>2. \A y \in wrote : status[y] \notin Open => status'[y] \notin Open
    BY <1>1 DEF Open
  <2>3. at'[d] # "unborn" /\ PathOf[d] \notin touched => expected'[d] \in Call \union {Before(PathOf[d])}
    BY <1>1, <2>0 DEF WriteInv, Seen, SeenBy
  <2>. QED BY <2>1, <2>2, <2>3
<1>5. StillThere'
  <2> SUFFICES ASSUME NEW d \in Call
      PROVE  /\ at'[d] = "replace" => \/ disk[PathOf[d]] = expected'[d]
                                      \/ PathOf[d] \in touched /\ disk[PathOf[d]] \notin Call
             /\ PathOf[d] \notin touched =>
                  /\ d \in wrote /\ status'[d] \in Open => disk[PathOf[d]] = d
                  /\ result[d] # None => result[d] = d
    BY DEF StillThere
  <2>1. CASE d = c
    BY <1>1, <2>1 DEF WriteInv, StillThere, Open
  <2>2. CASE d # c
    <3>1. status'[d] = status[d] /\ at'[d] = at[d] /\ expected'[d] = expected[d]
      BY <1>1, <2>2 DEF Recorded
    <3> QED BY <3>1 DEF WriteInv, StillThere
  <2>. QED BY <2>1, <2>2
<1>6. Based'
  BY <1>1 DEF WriteInv, Based
<1>7. Logged'
  <2> SUFFICES ASSUME NEW p \in Path \ touched, Hidden(p)' = {}
      PROVE  /\ (\A d \in wrote : PathOf[d] = p => status'[d] \notin Open)
                   => disk[p] = IF snapshot[p].after = None THEN Before(p) ELSE snapshot[p].after
             /\ snapshot[p].source # None => snapshot[p].before = Before(p)
    BY DEF Logged
  <2>1. c \in wrote => PathOf[c] # p
    BY <1>1 DEF Hidden
  <2>2. \A d \in wrote : PathOf[d] = p => status'[d] = status[d]
    BY <1>1, <2>1
  <2>3. Hidden(p) = {}
    BY <2>2 DEF Hidden
  <2>. QED BY <2>2, <2>3 DEF WriteInv, Logged
<1>. QED BY <1>2, <1>3, <1>4, <1>5, <1>6, <1>7 DEF Facts

(* A call is prepared while nothing runs or is unknown, so on a closed write. *)
LEMMA PrepareKeeps ==
  ASSUME WriteInv, NEW c \in Call, Prepare(c) PROVE WriteInv'
<1>1. /\ at[c] = "unborn" /\ Go(c, "prepared") /\ at' = [at EXCEPT ![c] = "prepared"]
      /\ status' = [status EXCEPT ![c] = "requested"]
      /\ expected' = [expected EXCEPT ![c] = disk[PathOf[c]]]
      /\ UNCHANGED <<disk, directory, wrote, result, owns, queue, users, lost, snapshot, unreadable, touched, main>>
      /\ Executing = {} /\ ~Blocked /\ ~unreadable
  BY DEF Prepare, Go, SameFiles, SameWorld, world, environment, coordinator
<1>2. disk[PathOf[c]] \in Version /\ PathOf[c] \in Path
  BY Named DEF WriteInv, Typed
<1>3. c \notin wrote
  BY <1>1 DEF WriteInv, Told, Written
<1>4. \A d \in Call : status[d] \notin Open
  BY <1>1 DEF WriteInv, Told, Executing, Blocked, Open
<1>5. disk[PathOf[c]] \in Call
        => disk[PathOf[c]] \in wrote /\ PathOf[disk[PathOf[c]]] = PathOf[c] /\ status[disk[PathOf[c]]] \notin Open
  BY <1>2, <1>4 DEF WriteInv, Provenanced
<1>6. PathOf[c] \notin touched => disk[PathOf[c]] \in Call \union {Before(PathOf[c])}
  BY <1>2 DEF WriteInv, Provenanced
<1>7. Facts'
  <2>1. SeenBy(c, disk[PathOf[c]])
    BY <1>5, <1>6 DEF SeenBy
  <2>2. /\ Recorded(c, "prepared", "requested")
        /\ "prepared" \notin Dispatched /\ "requested" \in Statuses /\ "requested" \notin Open
    BY <1>1, <2>1 DEF Recorded, Dispatched, Statuses, Open
  <2>3. UNCHANGED <<disk, wrote, result, snapshot, unreadable, touched>>
    BY <1>1
  <2>. QED BY <1>3, <2>2, <2>3, StatusKeepsFacts
<1>8. InLine' /\ HasTicket'
  BY <1>1, AsideKeepsLine DEF Queued, InTurn, Left
<1>9. MainIsAlone'
  BY <1>1 DEF WriteInv, Typed, MainIsAlone, Executing, Dispatched
<1>10. Typed'
  BY <1>1, <1>2 DEF WriteInv, Typed, Statuses
<1>11. DirectoryIsKept'
  BY <1>1, WalkKeepsDirectory
<1>. QED BY <1>7, <1>8, <1>9, <1>10, <1>11, Together

LEMMA DropKeeps ==
  ASSUME WriteInv, NEW c \in Call, Drop(c) PROVE WriteInv'
<1>1. /\ at[c] \in {"prepared", "staged"} /\ Go(c, "done") /\ at' = [at EXCEPT ![c] = "done"]
      /\ status' = [status EXCEPT ![c] = "no effect"]
      /\ UNCHANGED <<disk, directory, wrote, expected, result, owns, queue, users, lost, snapshot, unreadable,
                     touched, main>>
  BY DEF Drop, Go, SameFiles, SameWorld, world, environment, coordinator, local
<1>2. c \notin wrote /\ expected' = [expected EXCEPT ![c] = expected[c]]
  BY <1>1 DEF WriteInv, Told, Written, Typed
<1>3. Facts'
  <2>1. SeenBy(c, expected[c])
    BY <1>1 DEF WriteInv, Seen, SeenBy
  <2>2. /\ Recorded(c, "done", "no effect")
        /\ "done" \notin Dispatched /\ "no effect" \in Statuses /\ "no effect" \notin Open
    BY <1>1, <1>2, <2>1 DEF Recorded, Dispatched, Statuses, Open
  <2>3. c \notin wrote /\ UNCHANGED <<disk, wrote, result, snapshot, unreadable, touched>>
    BY <1>1, <1>2
  <2>. QED BY <2>1, <2>2, <2>3, StatusKeepsFacts
<1>4. InLine' /\ HasTicket'
  BY <1>1, AsideKeepsLine DEF Queued, InTurn, Left
<1>5. MainIsAlone'
  BY <1>1 DEF WriteInv, Typed, MainIsAlone, Executing, Dispatched
<1>6. Typed'
  BY <1>1 DEF WriteInv, Typed, Statuses
<1>7. DirectoryIsKept'
  BY <1>1, WalkKeepsDirectory
<1>. QED BY <1>3, <1>4, <1>5, <1>6, <1>7, Together

LEMMA BeginKeeps ==
  ASSUME WriteInv, NEW c \in Call, Begin(c) PROVE WriteInv'
<1>1. /\ at[c] = "staged" /\ Go(c, "started") /\ at' = [at EXCEPT ![c] = "started"]
      /\ status' = [status EXCEPT ![c] = "started"]
      /\ main = None /\ (main' = None \/ (main' = c /\ Executing = {}))
      /\ UNCHANGED <<disk, directory, wrote, expected, result, owns, queue, users, lost, snapshot, unreadable,
                     touched>>
  BY DEF Begin, Go, SameFiles, environment, coordinator, local
<1>2. c \notin wrote /\ expected' = [expected EXCEPT ![c] = expected[c]]
  BY <1>1 DEF WriteInv, Told, Written, Typed
<1>3. Facts'
  <2>1. SeenBy(c, expected[c]) /\ snapshot[PathOf[c]].source # None
    BY <1>1 DEF WriteInv, Seen, SeenBy, Based
  <2>2. /\ Recorded(c, "started", "started")
        /\ "started" \in Dispatched /\ "started" \in Statuses
    BY <1>1, <1>2, <2>1 DEF Recorded, Dispatched, Statuses
  <2>3. c \notin wrote /\ UNCHANGED <<disk, wrote, result, snapshot, unreadable, touched>>
    BY <1>1, <1>2
  <2>. QED BY <2>1, <2>2, <2>3, StatusKeepsFacts
<1>4. InLine' /\ HasTicket'
  BY <1>1, AsideKeepsLine DEF Queued, InTurn, Left
<1>5. MainIsAlone'
  BY <1>1 DEF WriteInv, Typed, MainIsAlone, Executing, Dispatched
<1>6. Typed'
  BY <1>1 DEF WriteInv, Typed, Statuses, Dispatched
<1>7. DirectoryIsKept'
  BY <1>1, WalkKeepsDirectory
<1>. QED BY <1>3, <1>4, <1>5, <1>6, <1>7, Together

LEMMA GiveUpKeeps ==
  ASSUME WriteInv, NEW c \in Call, GiveUp(c) PROVE WriteInv'
<1>1. /\ status[c] = "unknown" /\ status' = [status EXCEPT ![c] = "closed"]
      /\ UNCHANGED <<disk, directory, wrote, at, expected, result, owns, queue, users, lost, snapshot, unreadable,
                     touched, main>>
  BY DEF GiveUp, SameFiles, SameWorld, world, environment, coordinator, local
<1>2. /\ at' = [at EXCEPT ![c] = at[c]] /\ expected' = [expected EXCEPT ![c] = expected[c]]
      /\ at[c] \notin Dispatched
  BY <1>1 DEF WriteInv, Told, Typed
<1>3. Facts'
  <2>1. SeenBy(c, expected[c]) /\ snapshot[PathOf[c]].source # None
    BY <1>1 DEF WriteInv, Seen, SeenBy, Based, Open
  <2>2. c \in wrote => at[c] = "done"
    BY <1>2 DEF WriteInv, Told, Written, Dispatched
  <2>3. /\ Recorded(c, at[c], "closed")
        /\ at[c] \notin {"capture", "replace"} /\ "closed" \in Statuses /\ "closed" \notin Open
    BY <1>1, <1>2, <2>1 DEF Recorded, Dispatched, Statuses, Open
  <2>. QED BY <1>1, <1>2, <2>1, <2>2, <2>3, StatusKeepsFacts
<1>4. InLine' /\ HasTicket' /\ MainIsAlone' /\ DirectoryIsKept'
  BY <1>1 DEF WriteInv, InLine, HasTicket, MainIsAlone, Executing, DirectoryIsKept, HasParent
<1>5. Typed'
  BY <1>1 DEF WriteInv, Typed, Statuses
<1>. QED BY <1>3, <1>4, <1>5, Together

(* The baseline of a path is taken once, unless it is of no effect and no    *)
(* write has succeeded since.                                                *)
LEMMA StageKeeps ==
  ASSUME WriteInv, NEW c \in Call, Stage(c) PROVE WriteInv'
<1> DEFINE p == PathOf[c]
           new == [before |-> expected[c], source |-> c, after |-> None, made |-> FALSE]
<1>1. /\ at[c] = "prepared" /\ Go(c, "staged") /\ at' = [at EXCEPT ![c] = "staged"]
      /\ snapshot' = [snapshot EXCEPT ![p] = Baseline(c)]
      /\ UNCHANGED <<disk, directory, wrote, expected, result, owns, queue, users, lost, status, unreadable,
                     touched, main>>
      /\ ~unreadable
  BY DEF Stage, Go, SameFiles, SameWorld, world, environment, coordinator, local
<1>2. p \in Path /\ c # None /\ expected[c] \in Version \union {None} /\ None \notin Call
  BY Named DEF WriteInv, Typed
<1>3. at[c] \notin Dispatched /\ c \notin wrote /\ status[c] \notin {"started"}
  BY <1>1 DEF WriteInv, Told, Written, Dispatched
<1>4. \/ Baseline(c) = new /\ snapshot[p].after = None
      \/ Baseline(c) = snapshot[p] /\ snapshot[p].source # None
  <2>1. snapshot[p] = NoBaseline => snapshot[p].after = None
    BY DEF NoBaseline
  <2>2. snapshot[p] # NoBaseline => snapshot[p].source # None
    BY <1>2 DEF WriteInv, Based
  <2>3. \/ Baseline(c) = new /\ (snapshot[p] = NoBaseline \/ snapshot[p].after = None)
        \/ Baseline(c) = snapshot[p] /\ snapshot[p] # NoBaseline
    BY DEF Baseline
  <2> HIDE DEF new
  <2>. QED BY <2>1, <2>2, <2>3
<1>5. snapshot' \in [Path -> [before : Version \union {None}, source : Call \union {None},
                              after : Version \union {None}, made : BOOLEAN]]
  <2>1. Baseline(c) \in [before : Version \union {None}, source : Call \union {None},
                         after : Version \union {None}, made : BOOLEAN]
    <3>1. new \in [before : Version \union {None}, source : Call \union {None},
                   after : Version \union {None}, made : BOOLEAN]
      BY <1>2
    <3>2. snapshot[p] \in [before : Version \union {None}, source : Call \union {None},
                           after : Version \union {None}, made : BOOLEAN]
      BY <1>2 DEF WriteInv, Typed
    <3> HIDE DEF new
    <3>. QED BY <1>4, <3>1, <3>2
  <2>. QED BY <1>1, <2>1 DEF WriteInv, Typed
<1>6. /\ \A q \in Path : q # p => snapshot'[q] = snapshot[q]
      /\ snapshot'[p] = Baseline(c) /\ snapshot'[p].after = snapshot[p].after
      /\ snapshot'[p].source # None
  <2>1. (\A q \in Path : q # p => snapshot'[q] = snapshot[q]) /\ snapshot'[p] = Baseline(c)
    BY <1>1, <1>2 DEF WriteInv, Typed
  <2>2. Baseline(c).after = snapshot[p].after /\ Baseline(c).source # None
    BY <1>2, <1>4
  <2>. QED BY <2>1, <2>2
<1> HIDE DEF new
<1>7. Told'
  BY <1>1, <1>3 DEF WriteInv, Typed, Told, Dispatched
<1>8. Provenanced'
  BY <1>1 DEF WriteInv, Provenanced
<1>9. Seen'
  BY <1>1 DEF WriteInv, Typed, Seen
<1>10. StillThere'
  BY <1>1 DEF WriteInv, Typed, StillThere
<1>11. Based'
  <2>1. \A q \in Path : snapshot'[q].source = None => snapshot'[q] = NoBaseline
    BY <1>6 DEF WriteInv, Based
  <2>2. ASSUME NEW d \in Call, at'[d] = "staged" \/ status[d] \in Open
        PROVE  snapshot'[PathOf[d]].source # None
    BY <1>1, <1>6, <2>2, Named DEF WriteInv, Typed, Based
  <2>3. ASSUME NEW d \in Call, status[d] = "succeeded" PROVE snapshot'[PathOf[d]].after # None
    BY <1>6, <2>3, Named DEF WriteInv, Based
  <2>. QED BY <1>1, <2>1, <2>2, <2>3 DEF Based
<1>12. Logged'
  <2> SUFFICES ASSUME NEW q \in Path \ touched, Hidden(q)' = {}
      PROVE  /\ (\A d \in wrote : PathOf[d] = q => status[d] \notin Open)
                   => disk[q] = IF snapshot'[q].after = None THEN Before(q) ELSE snapshot'[q].after
             /\ snapshot'[q].source # None => snapshot'[q].before = Before(q)
    BY <1>1 DEF Logged
  <2>1. Hidden(q) = {}
    BY <1>1 DEF Hidden
  <2>2. snapshot'[q].after = snapshot[q].after
    BY <1>6
  <2>3. CASE q = p /\ Baseline(c) = new /\ snapshot[p].after = None
    <3>1. expected[c] \in Call \union {Before(p)}
      BY <1>1, <2>3 DEF WriteInv, Seen
    <3>2. ASSUME NEW d \in Call, d = expected[c] PROVE FALSE
      <4>1. d \in wrote /\ PathOf[d] = p /\ status[d] \notin Open
        BY <3>2 DEF WriteInv, Seen
      <4>2. status[d] \in Statuses /\ status[d] \notin {"none", "requested"}
        BY <4>1 DEF WriteInv, Told, Typed
      <4>3. status[d] \notin {"no effect", "closed"}
        BY <2>1, <2>3, <4>1 DEF Hidden
      <4>4. status[d] = "succeeded"
        BY <4>1, <4>2, <4>3 DEF Statuses, Open
      <4>. QED BY <2>3, <4>1, <4>4 DEF WriteInv, Based
    <3>3. snapshot'[p].before = Before(p)
      BY <1>6, <2>3, <3>1, <3>2 DEF new
    <3>. QED BY <2>1, <2>2, <2>3, <3>3 DEF WriteInv, Logged
  <2>4. CASE q # p \/ Baseline(c) = snapshot[p]
    <3>1. snapshot'[q] = snapshot[q]
      BY <1>6, <2>4
    <3>. QED BY <2>1, <3>1 DEF WriteInv, Logged
  <2>. QED BY <1>4, <2>3, <2>4
<1>13. InLine' /\ HasTicket'
  BY <1>1, AsideKeepsLine DEF Queued, InTurn, Left
<1>14. MainIsAlone'
  BY <1>1 DEF WriteInv, Typed, MainIsAlone, Executing, Dispatched
<1>15. Typed'
  BY <1>1, <1>5 DEF WriteInv, Typed
<1>16. DirectoryIsKept'
  BY <1>1, WalkKeepsDirectory
<1>. QED BY <1>7, <1>8, <1>9, <1>10, <1>11, <1>12, <1>13, <1>14, <1>15, <1>16, Together DEF Facts

(* A success is recorded of a write that is there, unless an editor came.    *)
LEMMA SuccessKeepsFacts ==
  ASSUME WriteInv, NEW c \in Call, c \in wrote, status[c] \in Open,
         status' = [status EXCEPT ![c] = "succeeded"],
         at' = at \/ (at' = [at EXCEPT ![c] = "done"] /\ at[c] = "finish"),
         at' = at => status[c] = "unknown",
         \A q \in Path : q # PathOf[c] => snapshot'[q] = snapshot[q],
         snapshot'[PathOf[c]].after = c,
         snapshot'[PathOf[c]].before = snapshot[PathOf[c]].before,
         snapshot'[PathOf[c]].source = snapshot[PathOf[c]].source,
         UNCHANGED <<disk, wrote, expected, result, unreadable, touched>>
  PROVE  Facts'
<1> DEFINE p == PathOf[c]
<1>1. /\ at \in [Call -> Dispatched \union {"unborn", "prepared", "staged", "done"}]
      /\ status \in [Call -> Statuses] /\ wrote \subseteq Call /\ p \in Path /\ c # None
  BY Named DEF WriteInv, Typed
<1>2. snapshot[p].source # None
  BY DEF WriteInv, Based
<1>3. Told'
  <2> SUFFICES ASSUME NEW d \in Call
      PROVE  /\ at'[d] \in Dispatched => status'[d] = "started"
             /\ status'[d] = "started" => at'[d] \in Dispatched \/ unreadable
             /\ d \in wrote => at'[d] \in Written /\ status'[d] \notin {"none", "requested"}
             /\ at'[d] = "capture" => d \in wrote
             /\ result[d] # None => d \in wrote /\ at'[d] \in {"provenance", "leaving", "releasing", "finish", "done"}
    BY DEF Told
  <2>1. CASE d = c
    <3>1. status'[d] = "succeeded" /\ at'[d] \notin Dispatched
      BY <1>1, <2>1 DEF WriteInv, Told, Dispatched
    <3>2. at'[d] \in Written /\ (result[d] # None => at'[d] \in {"provenance", "leaving", "releasing", "finish", "done"})
      BY <1>1, <2>1 DEF WriteInv, Told, Written
    <3>. QED BY <2>1, <3>1, <3>2 DEF Dispatched
  <2>2. CASE d # c
    BY <1>1, <2>2 DEF WriteInv, Told
  <2>. QED BY <2>1, <2>2
<1>4. Provenanced'
  BY DEF WriteInv, Provenanced
<1>5. Seen'
  BY <1>1 DEF WriteInv, Seen, Open
<1>6. StillThere'
  BY <1>1 DEF WriteInv, StillThere, Open
<1>7. Based'
  <2>1. \A q \in Path : snapshot'[q].source = None => snapshot'[q] = NoBaseline
    BY <1>2 DEF WriteInv, Based
  <2>2. ASSUME NEW d \in Call, at'[d] = "staged" \/ status'[d] \in Open
        PROVE  snapshot'[PathOf[d]].source # None
    <3>1. at[d] = "staged" \/ status[d] \in Open
      BY <1>1, <2>2 DEF Open
    <3>. QED BY <3>1, Named DEF WriteInv, Based
  <2>3. ASSUME NEW d \in Call, status'[d] = "succeeded" PROVE snapshot'[PathOf[d]].after # None
    <3>1. CASE PathOf[d] = p
      BY <1>1, <3>1
    <3>2. CASE PathOf[d] # p
      BY <1>1, <2>3, <3>2, Named DEF WriteInv, Based
    <3>. QED BY <3>1, <3>2
  <2>. QED BY <2>1, <2>2, <2>3 DEF Based
<1>8. Logged'
  <2> SUFFICES ASSUME NEW q \in Path \ touched, Hidden(q)' = {}
      PROVE  /\ (\A d \in wrote : PathOf[d] = q => status'[d] \notin Open)
                   => disk[q] = IF snapshot'[q].after = None THEN Before(q) ELSE snapshot'[q].after
             /\ snapshot'[q].source # None => snapshot'[q].before = Before(q)
    BY DEF Logged
  <2>1. Hidden(q) = {}
    BY <1>1 DEF Hidden, Open
  <2>2. CASE q = p
    <3>1. disk[p] = c
      BY <2>2 DEF WriteInv, StillThere
    <3>2. snapshot[p].before = Before(p)
      BY <1>2, <2>1, <2>2 DEF WriteInv, Logged
    <3>. QED BY <1>1, <2>2, <3>1, <3>2
  <2>3. CASE q # p
    <3>1. \A d \in wrote : PathOf[d] = q => status'[d] = status[d]
      BY <1>1, <2>3
    <3>. QED BY <2>1, <2>3, <3>1 DEF WriteInv, Logged
  <2>. QED BY <2>2, <2>3
<1>. QED BY <1>3, <1>4, <1>5, <1>6, <1>7, <1>8 DEF Facts

LEMMA ConfirmKeeps ==
  ASSUME WriteInv, NEW c \in Call, Confirm(c) PROVE WriteInv'
<1> DEFINE p == PathOf[c]
<1>1. /\ status[c] = "unknown" /\ disk[p] = c /\ status' = [status EXCEPT ![c] = "succeeded"]
      /\ snapshot' = [snapshot EXCEPT ![p].after = c]
      /\ UNCHANGED <<disk, directory, wrote, at, expected, result, owns, queue, users, lost, unreadable,
                     touched, main>>
  BY DEF Confirm, SameFiles, SameWorld, world, environment, coordinator, local
<1>2. p \in Path /\ c \in Version /\ c \in wrote /\ status[c] \in Open
  BY <1>1, Named DEF WriteInv, Provenanced, Version, Open
<1>3. snapshot \in [Path -> [before : Version \union {None}, source : Call \union {None},
                             after : Version \union {None}, made : BOOLEAN]]
  BY DEF WriteInv, Typed
<1>4. /\ \A q \in Path : q # p => snapshot'[q] = snapshot[q]
      /\ snapshot'[p].after = c /\ snapshot'[p].before = snapshot[p].before
      /\ snapshot'[p].source = snapshot[p].source
      /\ snapshot' \in [Path -> [before : Version \union {None}, source : Call \union {None},
                                after : Version \union {None}, made : BOOLEAN]]
  BY <1>1, <1>2, <1>3
<1>5. Facts'
  BY <1>1, <1>2, <1>4, SuccessKeepsFacts
<1>6. InLine' /\ HasTicket' /\ MainIsAlone' /\ DirectoryIsKept'
  BY <1>1 DEF WriteInv, InLine, HasTicket, MainIsAlone, Executing, DirectoryIsKept, HasParent
<1>7. Typed'
  BY <1>1, <1>4 DEF WriteInv, Typed, Statuses
<1>. QED BY <1>5, <1>6, <1>7, Together

LEMMA FinishKeeps ==
  ASSUME WriteInv, NEW c \in Call, Finish(c) PROVE WriteInv'
<1> DEFINE p == PathOf[c]
<1>1. /\ at[c] = "finish" /\ Go(c, "done") /\ at' = [at EXCEPT ![c] = "done"] /\ main' = None
      /\ UNCHANGED <<disk, directory, wrote, expected, result, owns, queue, users, lost, touched>>
  BY DEF Finish, Go, SameFiles, environment, coordinator, local
<1>2. status[c] = "started" /\ p \in Path /\ c \in Version
  BY <1>1, Named DEF WriteInv, Told, Dispatched, Version
<1>3. InLine' /\ HasTicket' /\ MainIsAlone' /\ DirectoryIsKept'
  <2>1. InLine' /\ HasTicket'
    BY <1>1, AsideKeepsLine DEF Queued, InTurn, Left
  <2>2. MainIsAlone'
    BY <1>1 DEF MainIsAlone
  <2>3. DirectoryIsKept'
    BY <1>1 DEF WriteInv, Typed, DirectoryIsKept, HasParent
  <2>. QED BY <2>1, <2>2, <2>3
<1>4. CASE result[c] = None
  <2>1. status' = [status EXCEPT ![c] = "no effect"] /\ UNCHANGED <<snapshot, unreadable>>
    BY <1>4, Named DEF Finish
  <2>2. SeenBy(c, expected[c]) /\ expected' = [expected EXCEPT ![c] = expected[c]]
    BY <1>1 DEF WriteInv, Seen, SeenBy, Typed
  <2>3. /\ Recorded(c, "done", "no effect")
        /\ "done" \notin Dispatched /\ "no effect" \in Statuses /\ "no effect" \notin Open
    BY <1>1, <2>1, <2>2 DEF Recorded, Dispatched, Statuses, Open
  <2>4. UNCHANGED <<disk, wrote, result, snapshot, unreadable, touched>>
    BY <1>1, <2>1
  <2>5. Facts'
    BY <2>3, <2>4, StatusKeepsFacts
  <2>6. Typed'
    BY <1>1, <2>1 DEF WriteInv, Typed, Statuses
  <2>. QED BY <1>3, <2>5, <2>6, Together
<1>5. CASE result[c] # None /\ result[c] = c
  <2>1. /\ status' = [status EXCEPT ![c] = "succeeded"] /\ UNCHANGED unreadable
        /\ snapshot' = [snapshot EXCEPT ![p].after = c, ![p].made = @ \/ owns[c]]
    BY <1>5 DEF Finish
  <2>2. /\ snapshot \in [Path -> [before : Version \union {None}, source : Call \union {None},
                                  after : Version \union {None}, made : BOOLEAN]]
        /\ owns[c] \in BOOLEAN
    BY DEF WriteInv, Typed
  <2>3. \A q \in Path : q # p => snapshot'[q] = snapshot[q]
    BY <1>2, <2>1, <2>2
  <2>4. snapshot'[p].after = c /\ snapshot'[p].before = snapshot[p].before
        /\ snapshot'[p].source = snapshot[p].source
    BY <1>2, <2>1, <2>2
  <2>5. snapshot' \in [Path -> [before : Version \union {None}, source : Call \union {None},
                                after : Version \union {None}, made : BOOLEAN]]
    <3> DEFINE new == [snapshot[p] EXCEPT !.after = c, !.made = @ \/ owns[c]]
    <3>1. snapshot' = [snapshot EXCEPT ![p] = new]
      BY <1>2, <2>1, <2>2
    <3>2. new \in [before : Version \union {None}, source : Call \union {None},
                   after : Version \union {None}, made : BOOLEAN]
      BY <1>2, <2>2
    <3> HIDE DEF new
    <3>. QED BY <1>2, <2>2, <3>1, <3>2
  <2>6. c \in wrote /\ status[c] \in Open
    BY <1>2, <1>5 DEF WriteInv, Told, Open
  <2>7. Facts'
    <3>1. at' # at
      BY <1>1 DEF WriteInv, Typed
    <3>2. UNCHANGED <<disk, wrote, expected, result, unreadable, touched>>
      BY <1>1, <2>1
    <3>. QED BY <1>1, <2>1, <2>3, <2>4, <2>6, <3>1, <3>2, SuccessKeepsFacts
  <2>8. Typed'
    BY <1>1, <2>1, <2>5 DEF WriteInv, Typed, Statuses
  <2>. QED BY <1>3, <2>7, <2>8, Together
<1>6. CASE result[c] # None /\ result[c] # c
  <2>1. unreadable' = TRUE /\ UNCHANGED <<status, snapshot>>
    BY <1>6 DEF Finish
  <2>2. Told'
    BY <1>1, <1>2, <2>1 DEF WriteInv, Typed, Told, Written, Dispatched
  <2>3. Provenanced' /\ Based'
    BY <1>1, <2>1 DEF WriteInv, Typed, Provenanced, Based
  <2>4. Seen'
    BY <1>1, <2>1 DEF WriteInv, Typed, Seen
  <2>5. StillThere'
    BY <1>1, <2>1 DEF WriteInv, Typed, StillThere
  <2>6. Logged'
    BY <1>1, <2>1 DEF WriteInv, Logged, Hidden
  <2>7. Typed'
    BY <1>1, <2>1 DEF WriteInv, Typed
  <2>. QED BY <1>3, <2>2, <2>3, <2>4, <2>5, <2>6, <2>7, Together DEF Facts
<1>. QED BY <1>4, <1>5, <1>6

-----------------------------------------------------------------------------
(* What comes from outside. *)

(* The process dies: what was started is unknown from now on.                *)
LEMMA CrashKeeps ==
  ASSUME WriteInv, Crash PROVE WriteInv'
<1>1. /\ status' = [c \in Call |-> CASE status[c] = "requested" -> "no effect"
                                      [] status[c] = "started" -> "unknown"
                                      [] OTHER -> status[c]]
      /\ at' = [c \in Call |-> IF at[c] = "unborn" THEN "unborn" ELSE "done"]
      /\ result' = [c \in Call |-> None] /\ owns' = [c \in Call |-> FALSE]
      /\ queue' = [p \in Path |-> <<>>] /\ users' = {} /\ lost' = {} /\ main' = None
      /\ UNCHANGED <<disk, directory, wrote, expected, snapshot, unreadable, touched>>
      /\ ~unreadable
  BY DEF Crash, SameFiles
<1>2. ASSUME NEW c \in Call
      PROVE  /\ at'[c] \in {"unborn", "done"} /\ (at'[c] = "unborn" <=> at[c] = "unborn")
             /\ status'[c] \in Statuses \ {"requested", "started"}
             /\ (status'[c] \in Open) <=> (status[c] \in Open)
             /\ (status'[c] = "succeeded") <=> (status[c] = "succeeded")
             /\ c \in wrote => status'[c] # "none"
             /\ c \in wrote => ((status'[c] \in {"no effect", "closed"}) <=> (status[c] \in {"no effect", "closed"}))
  <2>1. status[c] \in Statuses /\ (c \in wrote => status[c] \notin {"none", "requested"})
    BY DEF WriteInv, Typed, Told
  <2>2. at'[c] = IF at[c] = "unborn" THEN "unborn" ELSE "done"
    BY <1>1
  <2>3. CASE status[c] = "requested"
    <3>1. status'[c] = "no effect"
      BY <1>1, <2>3
    <3>. QED BY <2>1, <2>2, <2>3, <3>1 DEF Statuses, Open
  <2>4. CASE status[c] = "started"
    <3>1. status'[c] = "unknown"
      BY <1>1, <2>4
    <3>. QED BY <2>1, <2>2, <2>4, <3>1 DEF Statuses, Open
  <2>5. CASE status[c] \notin {"requested", "started"}
    <3>1. status'[c] = status[c]
      BY <1>1, <2>5
    <3>. QED BY <2>1, <2>2, <2>5, <3>1 DEF Statuses, Open
  <2>. QED BY <2>3, <2>4, <2>5
<1>3. Told'
  <2> SUFFICES ASSUME NEW c \in Call
      PROVE  /\ at'[c] \in Dispatched => status'[c] = "started"
             /\ status'[c] = "started" => at'[c] \in Dispatched \/ unreadable'
             /\ c \in wrote => at'[c] \in Written /\ status'[c] \notin {"none", "requested"}
             /\ at'[c] = "capture" => c \in wrote
             /\ result'[c] # None => c \in wrote /\ at'[c] \in {"provenance", "leaving", "releasing", "finish", "done"}
    BY <1>1 DEF Told
  <2>1. at'[c] \notin Dispatched /\ at'[c] # "capture" /\ result'[c] = None
    BY <1>1, <1>2 DEF Dispatched
  <2>2. c \in wrote => at[c] # "unborn"
    BY DEF WriteInv, Told, Written
  <2>3. c \in wrote => at'[c] = "done"
    BY <1>2, <2>2
  <2>. QED BY <1>2, <2>1, <2>3 DEF Written
<1>4. Provenanced'
  BY <1>1 DEF WriteInv, Provenanced
<1>5. Seen'
  BY <1>1, <1>2 DEF WriteInv, Seen
<1>6. StillThere'
  <2>1. \A c \in Call : at'[c] # "replace" /\ result'[c] = None
    BY <1>1, <1>2
  <2>. QED BY <1>1, <1>2, <2>1 DEF WriteInv, StillThere
<1>7. Based'
  <2>1. \A c \in Call : at'[c] # "staged"
    BY <1>2
  <2>. QED BY <1>1, <1>2, <2>1 DEF WriteInv, Based
<1>8. Logged'
  <2> SUFFICES ASSUME NEW p \in Path \ touched, Hidden(p)' = {}
      PROVE  /\ (\A c \in wrote : PathOf[c] = p => status'[c] \notin Open)
                   => disk[p] = IF snapshot[p].after = None THEN Before(p) ELSE snapshot[p].after
             /\ snapshot[p].source # None => snapshot[p].before = Before(p)
    BY <1>1 DEF Logged
  <2>1. wrote \subseteq Call
    BY DEF WriteInv, Typed
  <2>2. Hidden(p) = {}
    BY <1>1, <1>2, <2>1 DEF Hidden
  <2>. QED BY <1>2, <2>1, <2>2 DEF WriteInv, Logged
<1>9. Typed'
  <2>1. status' \in [Call -> Statuses]
    BY <1>1, <1>2
  <2>2. at' \in [Call -> Dispatched \union {"unborn", "prepared", "staged", "done"}]
    BY <1>1
  <2>3. queue' \in [Path -> Seq(Call)]
    <3>1. <<>> \in Seq(Call)
      OBVIOUS
    <3>. QED BY <1>1, <3>1
  <2>. QED BY <1>1, <2>1, <2>2, <2>3 DEF WriteInv, Typed
<1>10. InLine' /\ HasTicket' /\ MainIsAlone' /\ DirectoryIsKept'
  <2>1. \A p \in Path : Len(queue'[p]) = 0
    BY <1>1
  <2>2. \A c \in Call : at'[c] \notin Queued \union {"releasing"} /\ at'[c] # "temp"
    BY <1>2 DEF Queued, InTurn
  <2>3. InLine'
    BY <2>1 DEF InLine
  <2>4. HasTicket' /\ MainIsAlone' /\ DirectoryIsKept'
    BY <1>1, <2>2 DEF HasTicket, MainIsAlone, DirectoryIsKept
  <2>. QED BY <2>3, <2>4
<1>. QED BY <1>3, <1>4, <1>5, <1>6, <1>7, <1>8, <1>9, <1>10, Together DEF Facts

(* An editor leaves no version of a call, and the path is touched from then. *)
LEMMA EditKeeps ==
  ASSUME WriteInv, NEW p \in Path, NEW x \in Version \ Call,
         disk' = [disk EXCEPT ![p] = x], touched' = touched \union {p},
         directory => directory', directory' \in BOOLEAN,
         UNCHANGED <<at, local, coordinator, log, wrote, lost, main>>
  PROVE  WriteInv'
<1>1. /\ UNCHANGED <<expected, result, owns, queue, users, lost, status, snapshot, unreadable>>
      /\ disk'[p] = x /\ \A q \in Path : q # p => disk'[q] = disk[q]
  BY DEF local, coordinator, log, WriteInv, Typed
<1>2. Told'
  BY <1>1 DEF WriteInv, Told
<1>3. Provenanced'
  BY <1>1 DEF WriteInv, Provenanced
<1>4. Seen'
  BY <1>1 DEF WriteInv, Seen
<1>5. StillThere'
  <2> SUFFICES ASSUME NEW d \in Call
      PROVE  /\ at[d] = "replace" => \/ disk'[PathOf[d]] = expected[d]
                                     \/ PathOf[d] \in touched' /\ disk'[PathOf[d]] \notin Call
             /\ PathOf[d] \notin touched' =>
                  /\ d \in wrote /\ status[d] \in Open => disk'[PathOf[d]] = d
                  /\ result[d] # None => result[d] = d
    BY <1>1 DEF StillThere
  <2>1. CASE PathOf[d] = p
    BY <1>1, <2>1
  <2>2. CASE PathOf[d] # p
    BY <1>1, <2>2, Named DEF WriteInv, StillThere
  <2>. QED BY <2>1, <2>2
<1>6. Based'
  BY <1>1 DEF WriteInv, Based
<1>7. Logged'
  BY <1>1 DEF WriteInv, Logged, Hidden
<1>8. InLine' /\ HasTicket' /\ MainIsAlone'
  BY <1>1 DEF WriteInv, InLine, HasTicket, MainIsAlone, Executing
<1>9. DirectoryIsKept'
  BY <1>1 DEF WriteInv, DirectoryIsKept, HasParent
<1>10. Typed'
  BY <1>1 DEF WriteInv, Typed
<1>. QED BY <1>2, <1>3, <1>4, <1>5, <1>6, <1>7, <1>8, <1>9, <1>10, Together DEF Facts

LEMMA SaveKeeps ==
  ASSUME WriteInv, NEW p \in Path, Save(p) PROVE WriteInv'
<1>1. PICK e \in Edit : disk' = [disk EXCEPT ![p] = e]
  BY DEF Save
<1>2. e \in Version \ Call
  BY Named DEF Version
<1>3. /\ touched' = touched \union {p} /\ directory' = (directory \/ p \in Inside)
      /\ UNCHANGED <<at, local, coordinator, log, wrote, lost, main>>
  BY DEF Save
<1>4. (directory => directory') /\ directory' \in BOOLEAN
  BY <1>3 DEF WriteInv, Typed
<1>. QED BY <1>1, <1>2, <1>3, <1>4, EditKeeps

LEMMA RemoveKeeps ==
  ASSUME WriteInv, NEW p \in Path, Remove(p) PROVE WriteInv'
<1>1. Absent \in Version \ Call
  BY Named DEF Version
<1>2. /\ disk' = [disk EXCEPT ![p] = Absent] /\ touched' = touched \union {p} /\ directory' = directory
      /\ UNCHANGED <<at, local, coordinator, log, wrote, lost, main>>
  BY DEF Remove
<1>3. (directory => directory') /\ directory' \in BOOLEAN
  BY <1>2 DEF WriteInv, Typed
<1>. QED BY <1>1, <1>2, <1>3, EditKeeps

-----------------------------------------------------------------------------
(* What holds of every turn. *)

LEMMA InvInit == WriteInit => WriteInv
<1> SUFFICES ASSUME WriteInit PROVE WriteInv
  OBVIOUS
<1>1. Typed
  <2>1. disk \in [Path -> Version] /\ queue \in [Path -> Seq(Call)]
    BY Named DEF WriteInit
  <2>2. snapshot \in [Path -> [before : Version \union {None}, source : Call \union {None},
                              after : Version \union {None}, made : BOOLEAN]]
    BY DEF WriteInit, NoBaseline
  <2>. QED BY <2>1, <2>2 DEF WriteInit, Typed, Statuses
<1>2. InLine /\ HasTicket /\ MainIsAlone /\ DirectoryIsKept
  <2>1. \A p \in Path : Len(queue[p]) = 0
    BY DEF WriteInit
  <2>2. InLine
    BY <2>1 DEF InLine
  <2>. QED BY <2>2 DEF WriteInit, HasTicket, MainIsAlone, DirectoryIsKept, Queued, InTurn
<1>3. Told /\ Seen /\ StillThere
  BY Named DEF WriteInit, Told, Seen, StillThere, Dispatched
<1>4. Provenanced
  BY Named DEF WriteInit, Provenanced
<1>5. Based
  BY Named DEF WriteInit, Based, Open
<1>6. Logged
  BY DEF WriteInit, Logged, NoBaseline
<1>. QED BY <1>1, <1>2, <1>3, <1>4, <1>5, <1>6 DEF WriteInv

LEMMA InvStep == WriteInv /\ [WriteNext]_vars => WriteInv'
<1> SUFFICES ASSUME WriteInv, [WriteNext]_vars PROVE WriteInv'
  OBVIOUS
<1>1. ASSUME NEW c \in Call, Execute(c) PROVE WriteInv'
  BY <1>1, EnterKeeps, CheckKeeps, ParentsKeeps, TempKeeps, RecheckKeeps, ReplaceKeeps, CaptureKeeps,
     ProvenanceKeeps, CleanupKeeps, LeaveKeeps, ReleaseKeeps, FinishKeeps DEF Execute
<1>2. ASSUME NEW c \in Call, Prepare(c) \/ Stage(c) \/ Drop(c) \/ Begin(c) PROVE WriteInv'
  BY <1>2, PrepareKeeps, StageKeeps, DropKeeps, BeginKeeps
<1>3. ASSUME NEW c \in Call, Interrupt(c) \/ Confirm(c) \/ GiveUp(c) PROVE WriteInv'
  BY <1>3, InterruptKeeps, ConfirmKeeps, GiveUpKeeps
<1>4. ASSUME NEW p \in Path, Save(p) \/ Remove(p) PROVE WriteInv'
  BY <1>4, SaveKeeps, RemoveKeeps
<1>5. CASE UNCHANGED vars
  <2>1. /\ UNCHANGED <<disk, directory, at, expected, result, owns, queue, users, lost>>
        /\ UNCHANGED <<status, snapshot, unreadable, wrote, touched, main>>
    BY <1>5 DEF vars, local, coordinator, log, world, environment
  <2>2. Typed' /\ InLine' /\ HasTicket' /\ MainIsAlone' /\ DirectoryIsKept'
    BY <2>1 DEF WriteInv, Typed, InLine, HasTicket, MainIsAlone, Executing, DirectoryIsKept, HasParent
  <2>3. Told' /\ Provenanced' /\ Seen' /\ StillThere' /\ Based' /\ Logged'
    <3>1. Told' /\ Provenanced' /\ Seen'
      BY <2>1 DEF WriteInv, Told, Provenanced, Seen
    <3>2. StillThere' /\ Based'
      BY <2>1 DEF WriteInv, StillThere, Based
    <3>3. Logged'
      BY <2>1 DEF WriteInv, Logged, Hidden
    <3> QED BY <3>1, <3>2, <3>3
  <2>. QED BY <2>2, <2>3 DEF WriteInv
<1>. QED BY <1>1, <1>2, <1>3, <1>4, <1>5, CrashKeeps DEF WriteNext

(* Every state of a turn's writes satisfies the invariant.                   *)
THEOREM WriteInvariance == WriteSpec => []WriteInv
BY InvInit, InvStep, PTL DEF WriteSpec

(* The tickets of a path are served in turn, by calls that give them back,   *)
(* but for the ones that a Ctrl-C in _turn lost.                             *)
(* (FileMutationCoordinator._turn.)                                           *)
THEOREM TurnsAreServed == WriteSpec => []TicketsAreServed
<1>1. WriteInv => TicketsAreServed
  BY DEF WriteInv, InLine, TicketsAreServed, Holding, Queued, InTurn, Dispatched
<1>. QED BY <1>1, WriteInvariance, PTL

(* As long as no Ctrl-C has lost a ticket, whoever waits for its turn waits  *)
(* for a call that is in its turn and will leave it, or is the next itself.  *)
(* (FileMutationCoordinator._turn.)                                           *)
THEOREM NobodyWaitsInVain == WriteSpec => [](lost = {} => EveryoneIsServed)
<1>1. WriteInv => (lost = {} => EveryoneIsServed)
  <2> SUFFICES ASSUME WriteInv, lost = {}, NEW c \in Call, at[c] = "waiting"
               PROVE  at[Head(queue[PathOf[c]])] \in Holding
    BY DEF EveryoneIsServed
  <2>1. PICK i \in 1 .. Len(queue[PathOf[c]]) : queue[PathOf[c]][i] = c
    BY DEF WriteInv, HasTicket, Queued
  <2>2. PathOf[c] \in Path /\ queue[PathOf[c]] \in Seq(Call) /\ Len(queue[PathOf[c]]) \in Nat
    BY Named DEF WriteInv, Typed
  <2>3. 1 \in 1 .. Len(queue[PathOf[c]]) /\ Head(queue[PathOf[c]]) = queue[PathOf[c]][1]
    BY <2>1, <2>2
  <2>4. at[queue[PathOf[c]][1]] \in Queued
    BY <2>2, <2>3 DEF WriteInv, InLine
  <2>. QED BY <2>3, <2>4 DEF Queued, InTurn, Holding, Dispatched
<1>. QED BY <1>1, WriteInvariance, PTL

(* A write replaces another write only if it was prepared on it: the recheck *)
(* and the replacement are one turn. (PreparedFileChange._execute_locked.)    *)
THEOREM NoWriteIsUnseen == WriteSpec => WritesSeeEachOther
<1> DEFINE Sees == \A p \in Path : disk'[p] # disk[p] /\ disk'[p] \in Call /\ disk[p] \in Call
                                    => expected[disk'[p]] = disk[p]
<1>1. WriteInv /\ [WriteNext]_vars => [Sees]_vars
  <2> SUFFICES ASSUME WriteInv, WriteNext,
                      NEW p \in Path, disk'[p] # disk[p], disk'[p] \in Call, disk[p] \in Call
               PROVE  expected[disk'[p]] = disk[p]
    OBVIOUS
  <2>1. disk \in [Path -> Version]
    BY DEF WriteInv, Typed
  <2>2. \/ \E c \in Call : Replace(c)
        \/ \E q \in Path : Save(q) \/ Remove(q)
        \/ UNCHANGED disk
    BY DEF WriteNext, Execute, Prepare, Stage, Drop, Begin, Enter, Check, Parents, Temp, Recheck,
           Capture, Provenance, Cleanup, Leave, Release, Finish, Interrupt, Confirm, GiveUp, Crash, SameFiles
  <2>3. ASSUME NEW c \in Call, Replace(c) PROVE expected[disk'[p]] = disk[p]
    <3>1. at[c] = "replace" /\ disk' = [disk EXCEPT ![PathOf[c]] = c]
      BY <2>3 DEF Replace
    <3>2. p = PathOf[c] /\ disk'[p] = c
      BY <2>1, <3>1
    <3>. QED BY <3>1, <3>2 DEF WriteInv, StillThere
  <2>4. ASSUME NEW q \in Path, Save(q) PROVE FALSE
    BY <2>1, <2>4, Named DEF Save
  <2>5. ASSUME NEW q \in Path, Remove(q) PROVE FALSE
    BY <2>1, <2>5, Named DEF Remove
  <2>. QED BY <2>2, <2>3, <2>4, <2>5
<1>. QED BY <1>1, WriteInvariance, PTL DEF WriteSpec, WritesSeeEachOther

(* Once a turn is quiet the log alone says what is in each file the editor   *)
(* left alone. (after_version of the snapshots.)                              *)
THEOREM TheLogIsRight == WriteSpec => []LogKnowsTheFile
<1>1. WriteInv => LogKnowsTheFile
  <2> SUFFICES ASSUME WriteInv, Quiet, NEW p \in Path \ touched, Hidden(p) = {}
               PROVE  disk[p] = IF snapshot[p].after = None THEN Before(p) ELSE snapshot[p].after
    BY DEF LogKnowsTheFile
  <2>1. \A c \in Call : status[c] \notin Open
    BY DEF Quiet, WriteInv, Told, Executing, Blocked, Open
  <2>2. wrote \subseteq Call
    BY DEF WriteInv, Typed
  <2>. QED BY <2>1, <2>2 DEF WriteInv, Logged
<1>. QED BY <1>1, WriteInvariance, PTL

(* What undo will put back is what was there before the turn.                *)
(* (_apply_file_snapshot.)                                                    *)
THEOREM BaselinesAreRight == WriteSpec => []BaselineIsTheTurns
<1>1. WriteInv => BaselineIsTheTurns
  <2> SUFFICES ASSUME WriteInv, NEW p \in Path \ touched, snapshot[p].after # None, Hidden(p) = {}
               PROVE  snapshot[p].before = Before(p)
    BY DEF BaselineIsTheTurns
  <2>1. snapshot[p].source # None
    BY DEF WriteInv, Based, NoBaseline
  <2>. QED BY <2>1 DEF WriteInv, Logged
<1>. QED BY <1>1, WriteInvariance, PTL

(* No cleanup takes the directory from a write that found it there.          *)
(* (_cleanup_failed.)                                                         *)
THEOREM DirectoriesAreKept == WriteSpec => []DirectoryIsKept
<1>1. WriteInv => DirectoryIsKept
  BY DEF WriteInv
<1>. QED BY <1>1, WriteInvariance, PTL

-----------------------------------------------------------------------------
(* The directory of the turn: who accounts for it at each moment. *)

(* The writes of files in the directory, and those of them that replaced one.*)
Inner == {c \in Call : PathOf[c] \in Inside}
Unwritten == wrote \intersect Inner = {}

(* Where a call is counted as a user of the directory.                       *)
Riding == Queued \union {"releasing"}

(* An effect that will be denied: its result was thrown away.                *)
Denied(c) == c \in wrote /\ result[c] = None /\ at[c] \in {"leaving", "releasing", "finish"}

(* The premise of DirectoryIsAccountedFor, of a turn that may still run: once*)
(* it is broken it stays broken.                                             *)
Calm == /\ crashes = 0 /\ errors <= 1 /\ leaked = {} /\ touched \intersect Inside = {}
        /\ \A c \in Inner : ~Denied(c)
        /\ \A c \in wrote \intersect Inner : status[c] \notin {"no effect", "closed"}

(* Undo knows the directory, or will when a result is recorded.              *)
Marked == \E p \in Inside : snapshot[p].made
Owned == \E c \in Inner : owns[c] /\ at[c] \in {"leaving", "releasing", "finish"}
Known == Marked \/ Owned

LeaseTyped ==
  /\ crashes \in Nat /\ errors \in Nat
  /\ created \in [Call -> BOOLEAN] /\ unowned \in BOOLEAN /\ claimed \in BOOLEAN
  /\ stray \in BOOLEAN /\ leaked \subseteq Inner

(* The coordinator counts the calls from before their ticket until after it, *)
(* and forgets the directory with the last of them, unless one was leaked.   *)
Counted ==
  /\ \A c \in Writers : at[c] \in Riding \/ c \in leaked
  /\ leaked = {} =>
       /\ ~stray
       /\ Writers = {} => ~unowned /\ ~claimed
       /\ \A c \in Inner : main = c /\ at[c] \in {"started", "waiting", "parents"} => ~unowned

(* Whoever needs the directory finds it.                                     *)
Standing ==
  /\ \A p \in Inside : disk[p] # Absent => directory
  /\ \A c \in Inner : at[c] \in {"temp", "recheck", "replace"} => directory

(* What is recorded of the directory was done by a write that replaced.      *)
Earned ==
  /\ \A p \in Inside : snapshot[p].made =>
       snapshot[p].after # None /\ \E c \in wrote : PathOf[c] = p
  /\ \A c \in Call : /\ owns[c] => c \in wrote
                     /\ at[c] = "provenance" => c \in wrote

(* A directory is known to undo, or somebody is left to see to it.           *)
SeenTo ==
  /\ \A c \in wrote \intersect Inner : disk[PathOf[c]] \in Call
  /\ directory => Known \/ unowned
  /\ unowned => directory
  /\ claimed => Known
  /\ Unwritten \/ Known \/ \E c \in Inner : at[c] \in {"capture", "provenance"}
  /\ unowned => Known \/ \E c \in Writers : at[c] \notin {"leaving", "releasing"}

(* Before the first write is done at most one has failed.                    *)
Failing == {c \in Writers : at[c] \in {"cleanup", "leaving", "releasing"}}
OneFails ==
  Unwritten => /\ errors = 0 => \A c \in Failing : main = c
               /\ \A c, d \in Failing : c = d

LeaseInv == /\ LeaseTyped /\ Counted /\ Standing /\ Earned
            /\ Calm => SeenTo /\ OneFails

(* The calls that are counted are those from their ticket to their release,  *)
(* and the leaked ones.                                                      *)
LEMMA WritersWalk ==
  ASSUME WriteInv, LeaseInv
  PROVE  /\ Writers \subseteq Inner /\ \A c \in Inner : at[c] \in Riding => c \in Writers
         /\ leaked = {} => \A c \in Writers : at[c] \in Riding
         /\ \A c \in Inner : at[c] \in Riding /\ main # None => main = c
         /\ \A c \in Call : at[c] \in Riding => at[c] \in Dispatched
<1>1. Writers \subseteq Inner /\ \A c \in Inner : at[c] \in Riding => c \in Writers
  BY DEF WriteInv, Typed, HasTicket, Writers, Inner, Riding
<1>2. leaked = {} => \A c \in Writers : at[c] \in Riding
  BY DEF LeaseInv, Counted
<1>3. \A c \in Call : at[c] \in Riding => at[c] \in Dispatched
  BY DEF Riding, Queued, InTurn, Dispatched
<1>. QED BY <1>1, <1>2, <1>3, Named DEF WriteInv, MainIsAlone, Executing, Inner

LEMMA CalmWriters ==
  ASSUME WriteInv, LeaseInv, Calm
  PROVE  Writers = {c \in Inner : at[c] \in Riding}
BY WritersWalk DEF Calm

(* Before a write is done, what a call was prepared on is what is there.     *)
LEMMA UnwrittenIsUnchanged ==
  ASSUME WriteInv, NEW c \in Inner, Unwritten, touched \intersect Inside = {}, at[c] # "unborn"
  PROVE  Unchanged(c)
<1>1. c \in Call /\ PathOf[c] \in Path /\ PathOf[c] \in Inside /\ PathOf[c] \notin touched
  BY Named DEF Inner
<1>2. disk[PathOf[c]] \in Call => disk[PathOf[c]] \in wrote /\ PathOf[disk[PathOf[c]]] = PathOf[c]
  BY <1>1 DEF WriteInv, Provenanced
<1>3. disk[PathOf[c]] = Before(PathOf[c])
  BY <1>1, <1>2 DEF WriteInv, Provenanced, Unwritten, Inner
<1>4. expected[c] = Before(PathOf[c])
  BY <1>1 DEF WriteInv, Seen, Unwritten, Inner
<1>. QED BY <1>3, <1>4 DEF Unchanged

(* Files of the directory that are there were put there by its writes.       *)
LEMMA OccupiedIsWritten ==
  ASSUME WriteInv, touched \intersect Inside = {}, NEW p \in Inside, disk[p] # Absent
  PROVE  ~Unwritten
<1>1. p \in Path /\ p \notin touched /\ Before(p) = Absent
  BY WritesAreNamed DEF Before
<1>2. disk[p] \in wrote /\ PathOf[disk[p]] = p /\ disk[p] \in Call
  BY <1>1 DEF WriteInv, Provenanced
<1>. QED BY <1>2 DEF Unwritten, Inner

(* Once undo knows the directory it is there.                                *)
LEMMA KnownIsWritten ==
  ASSUME WriteInv, LeaseInv, Known PROVE ~Unwritten
<1>1. CASE Marked
  <2>1. PICK p \in Inside : snapshot[p].made
    BY <1>1 DEF Marked
  <2>2. PICK c \in wrote : PathOf[c] = p
    BY <2>1 DEF LeaseInv, Earned
  <2>. QED BY <2>2 DEF Unwritten, Inner, WriteInv, Typed
<1>2. CASE Owned
  BY <1>2 DEF LeaseInv, Earned, Owned, Unwritten, Inner
<1>. QED BY <1>1, <1>2 DEF Known

(* A step of a call that leaves the directory and the coordinator alone.     *)
LEMMA LookLeases ==
  ASSUME WriteInv, LeaseInv, NEW c \in Call, NEW s \in Riding, NEW v,
         at[c] \in Riding, at' = [at EXCEPT ![c] = s], result' = [result EXCEPT ![c] = v],
         UNCHANGED <<disk, directory, created, owns, users, unowned, claimed,
                     status, snapshot, wrote, touched, stray, leaked, crashes, main>>,
         errors' \in Nat, errors' >= errors,
         s \in {"temp", "recheck", "replace"} => at[c] \in {"temp", "recheck", "replace"},
         s = "provenance" => c \in wrote,
         s \in {"started", "waiting", "parents"} => at[c] \in {"started", "waiting", "parents"},
         s = "capture" => at[c] = "capture",
         at[c] \in {"leaving", "releasing"} => s \in {"leaving", "releasing"} /\ v \in {None, result[c]},
         Calm /\ Calm' /\ c \in Inner =>
            /\ s \in {"leaving", "releasing"} =>
                 \/ at[c] \in {"leaving", "releasing"} \/ ~unowned
                 \/ ~Unwritten /\ at[c] \notin {"capture", "provenance"}
            /\ at[c] \in {"capture", "provenance"} => s \in {"capture", "provenance"}
            /\ Unwritten /\ s \in {"cleanup", "leaving", "releasing"} =>
                  at[c] \in {"cleanup", "leaving", "releasing"} \/ main = c \/ (errors = 0 /\ errors' # 0)
  PROVE  LeaseInv'
<1>1. /\ at \in [Call -> Dispatched \union {"unborn", "prepared", "staged", "done"}]
      /\ result \in [Call -> Version \union {None}] /\ at'[c] = s
      /\ \A d \in Call : d # c => at'[d] = at[d] /\ result'[d] = result[d]
  BY DEF WriteInv, Typed
<1>2. Writers' = Writers /\ (\A d \in Call : at'[d] \in Riding <=> at[d] \in Riding)
  BY <1>1 DEF Writers
<1>3. LeaseTyped'
  BY DEF LeaseInv, LeaseTyped
<1>4. Counted'
  <2>1. \A d \in Writers' : at'[d] \in Riding \/ d \in leaked'
    BY <1>1, <1>2, WritersWalk DEF LeaseInv, Counted, Inner, Riding
  <2>2. leaked = {} => \A d \in Inner : main' = d /\ at'[d] \in {"started", "waiting", "parents"} => ~unowned'
    BY <1>1 DEF LeaseInv, Counted, Inner
  <2>. QED BY <1>2, <2>1, <2>2 DEF LeaseInv, Counted, Inner
<1>5. Standing'
  <2>1. \A d \in Inner : at'[d] \in {"temp", "recheck", "replace"} => directory
    BY <1>1 DEF LeaseInv, Standing, Inner
  <2>. QED BY <2>1 DEF LeaseInv, Standing, Inner
<1>6. Earned'
  BY <1>1 DEF LeaseInv, Earned
<1>7. ASSUME Calm' PROVE SeenTo' /\ OneFails'
  <2>1. Calm
    <3>1. errors <= 1
      <4>1. errors \in Nat
        BY DEF LeaseInv, LeaseTyped
      <4>2. errors' <= 1
        BY <1>7 DEF Calm
      <4>. QED BY <4>1, <4>2
    <3>2. ASSUME NEW d \in Inner, Denied(d) PROVE FALSE
      <4>1. d \in Call /\ ~Denied(d)'
        BY <1>7 DEF Calm, Inner
      <4>2. Denied(d)'
        <5>1. CASE d = c
          <6>1. {at[c], s} \subseteq {"leaving", "releasing"} /\ v = None
            BY <3>2, <5>1 DEF Denied, Riding, Queued, InTurn
          <6>. QED BY <1>1, <3>2, <5>1, <6>1 DEF Denied, WriteInv, Typed
        <5>2. CASE d # c
          BY <1>1, <3>2, <4>1, <5>2 DEF Denied
        <5>. QED BY <5>1, <5>2
      <4>. QED BY <4>1, <4>2
    <3>3. crashes = 0 /\ leaked = {} /\ touched \intersect Inside = {}
          /\ \A d \in wrote \intersect Inner : status[d] \notin {"no effect", "closed"}
      BY <1>7 DEF Calm, Inner
    <3>. QED BY <3>1, <3>2, <3>3 DEF Calm
  <2>2. SeenTo /\ OneFails
    BY <2>1 DEF LeaseInv
  <2>3. Marked' <=> Marked
    BY DEF Marked
  <2>4. Owned => Owned'
    BY <1>1 DEF Owned, Inner, Riding, Queued, InTurn
  <2>5. Known => Known'
    BY <2>3, <2>4 DEF Known
  <2>6. Unwritten \/ Known \/ \E d \in Inner : at'[d] \in {"capture", "provenance"}
    <3>1. ASSUME NEW d \in Inner, at[d] \in {"capture", "provenance"} PROVE at'[d] \in {"capture", "provenance"}
      BY <1>1, <1>7, <2>1, <3>1 DEF Inner
    <3>. QED BY <2>2, <3>1 DEF SeenTo
  <2>7. unowned => Known \/ \E d \in Writers : at'[d] \notin {"leaving", "releasing"}
    <3> SUFFICES ASSUME unowned, ~Known PROVE \E d \in Writers : at'[d] \notin {"leaving", "releasing"}
      OBVIOUS
    <3>1. PICK d \in Writers : at[d] \notin {"leaving", "releasing"}
      BY <2>2 DEF SeenTo
    <3>2. d \in Inner
      BY <3>1, WritersWalk, CalmWriters, <2>1
    <3>3. CASE d # c \/ s \notin {"leaving", "releasing"}
      BY <1>1, <3>1, <3>2, <3>3 DEF Inner
    <3>4. CASE d = c /\ s \in {"leaving", "releasing"}
      <4>1. ~Unwritten /\ at[c] \notin {"capture", "provenance"}
        BY <1>7, <2>1, <3>1, <3>2, <3>4
      <4>2. PICK w \in Inner : at[w] \in {"capture", "provenance"}
        BY <2>2, <4>1 DEF SeenTo
      <4>3. w # c /\ w \in Writers /\ at'[w] \notin {"leaving", "releasing"}
        BY <1>1, <4>1, <4>2, WritersWalk, CalmWriters, <2>1 DEF Riding, Queued, InTurn, Inner
      <4>. QED BY <4>3
    <3>. QED BY <3>3, <3>4
  <2>8. SeenTo'
    <3>1. Unwritten' <=> Unwritten
      BY DEF Unwritten, Inner
    <3>. QED BY <1>2, <2>2, <2>5, <2>6, <2>7, <3>1 DEF SeenTo, Inner
  <2>9. OneFails'
    <3> SUFFICES ASSUME Unwritten
                 PROVE  /\ errors' = 0 => \A d \in Failing' : main = d
                        /\ \A d, g \in Failing' : d = g
      BY DEF OneFails, Unwritten, Inner
    <3>1. errors' = 0 => errors = 0
      BY DEF LeaseInv, LeaseTyped
    <3>2. Failing' \subseteq Failing \union {c} /\ (c \in Failing' => c \in Inner /\ s \in {"cleanup", "leaving", "releasing"})
      BY <1>1, <1>2, WritersWalk, CalmWriters, <2>1 DEF Failing, Inner
    <3>3. c \in Failing' => c \in Failing \/ main = c \/ (errors = 0 /\ errors' # 0)
      BY <1>7, <2>1, <3>2, WritersWalk, CalmWriters, <2>1 DEF Failing
    <3>4. (errors = 0 => \A d \in Failing : main = d) /\ \A d, g \in Failing : d = g
      BY <2>2 DEF OneFails
    <3>5. ASSUME NEW d \in Failing, NEW g \in Inner, main = d \/ main = g, at[g] \in Riding PROVE d = g
      <4>1. d \in Inner /\ at[d] \in Riding
        BY WritersWalk, CalmWriters, <2>1 DEF Failing
      <4>2. main # None
        BY <3>5, <4>1, Named DEF Inner
      <4>. QED BY <3>5, <4>1, <4>2, WritersWalk, CalmWriters, <2>1
    <3>6. ASSUME NEW d \in Failing, c \in Failing' PROVE d = c
      <4>1. c \in Inner
        BY <3>2, <3>6
      <4>2. CASE c \in Failing
        BY <3>4, <4>2
      <4>3. CASE main = c
        BY <3>5, <4>1, <4>3
      <4>4. CASE errors = 0
        BY <3>4, <3>5, <4>1, <4>4
      <4>. QED BY <3>3, <3>6, <4>2, <4>3, <4>4
    <3>. QED BY <3>1, <3>2, <3>3, <3>4, <3>6
  <2>. QED BY <2>8, <2>9
<1>. QED BY <1>3, <1>4, <1>5, <1>6, <1>7 DEF LeaseInv

(* A step of a call that has no ticket, or one on the log only.              *)
LEMMA AsideLeases ==
  ASSUME WriteInv, LeaseInv, NEW c \in Call, NEW s, s \notin Riding, at[c] \notin Riding,
         at' = [at EXCEPT ![c] = s], at[c] = "finish" => s = "finish",
         UNCHANGED <<disk, directory, created, owns, unowned, claimed,
                     wrote, touched, stray, leaked, crashes, errors>>,
         Writers' = Writers, result' = result \/ result' = [result EXCEPT ![c] = None],
         main' = main \/ Executing = {},
         s = "started" => main' = None \/ Executing = {},
         \A x \in Inside : /\ snapshot'[x].made = snapshot[x].made
                           /\ snapshot[x].after # None => snapshot'[x].after # None,
         \A d \in wrote : status[d] \in {"no effect", "closed"} => status'[d] \in {"no effect", "closed"}
  PROVE  LeaseInv'
<1>1. /\ at \in [Call -> Dispatched \union {"unborn", "prepared", "staged", "done"}]
      /\ result \in [Call -> Version \union {None}] /\ at'[c] = s
      /\ \A d \in Call : d # c => at'[d] = at[d] /\ result'[d] = result[d]
      /\ \A d \in Call : result'[d] \in {None, result[d]}
  BY DEF WriteInv, Typed
<1>2. Writers' = Writers /\ (\A d \in Call : at'[d] \in Riding <=> at[d] \in Riding)
  BY <1>1 DEF Writers
<1>3. Executing = {} /\ leaked = {} => Writers = {}
  BY WritersWalk DEF Executing, Inner
<1>4. LeaseTyped'
  BY DEF LeaseInv, LeaseTyped
<1>5. Counted'
  <2>1. \A d \in Writers' : at'[d] \in Riding \/ d \in leaked'
    BY <1>1, <1>2, WritersWalk DEF LeaseInv, Counted, Inner, Riding
  <2>2. ASSUME leaked = {}, NEW d \in Inner, main' = d, at'[d] \in {"started", "waiting", "parents"} PROVE ~unowned
    <3>1. CASE Executing = {}
      BY <1>3, <2>2, <3>1 DEF LeaseInv, Counted
    <3>2. CASE main' = main /\ Executing # {}
      <4>1. d \in Call /\ d # None
        BY Named DEF Inner
      <4>2. d # c
        BY <1>1, <2>2, <3>2, <4>1 DEF Riding, Queued, InTurn
      <4>. QED BY <1>1, <2>2, <3>2, <4>1, <4>2 DEF LeaseInv, Counted
    <3>. QED BY <3>1, <3>2
  <2>. QED BY <1>2, <2>1, <2>2 DEF LeaseInv, Counted, Inner
<1>6. Standing'
  <2>1. \A d \in Inner : at'[d] \in {"temp", "recheck", "replace"} => directory
    BY <1>1 DEF LeaseInv, Standing, Inner, Riding, Queued, InTurn
  <2>. QED BY <2>1 DEF LeaseInv, Standing, Inner
<1>7. Earned'
  <2>1. \A d \in Call : at'[d] = "provenance" => at[d] = "provenance"
    BY <1>1 DEF Riding, Queued, InTurn
  <2>2. \A d \in Call : at[d] = "provenance" => d \in wrote
    BY DEF LeaseInv, Earned
  <2>. QED BY <2>1, <2>2 DEF LeaseInv, Earned
<1>8. ASSUME Calm' PROVE SeenTo' /\ OneFails'
  <2>1. Calm
    <3>1. ASSUME NEW d \in Inner, Denied(d) PROVE FALSE
      <4>1. d \in Call /\ ~Denied(d)'
        BY <1>8 DEF Calm, Inner
      <4>. QED BY <1>1, <3>1, <4>1 DEF Denied, Riding, Queued, InTurn
    <3>2. /\ crashes = 0 /\ leaked = {} /\ touched \intersect Inside = {} /\ errors <= 1
          /\ \A d \in wrote \intersect Inner : status'[d] \notin {"no effect", "closed"}
      BY <1>8 DEF Calm, Inner
    <3>. QED BY <3>1, <3>2 DEF Calm
  <2>2. SeenTo /\ OneFails
    BY <2>1 DEF LeaseInv
  <2>3. Marked' <=> Marked
    BY DEF Marked
  <2>4. Owned => Owned'
    BY <1>1 DEF Owned, Inner, Riding, Queued, InTurn
  <2>5. Known => Known'
    BY <2>3, <2>4 DEF Known
  <2>6. \A d \in Inner : at[d] \in Riding => at'[d] = at[d]
    BY <1>1 DEF Inner
  <2>7. Unwritten \/ Known \/ \E d \in Inner : at'[d] \in {"capture", "provenance"}
    BY <2>2, <2>6 DEF SeenTo, Riding, Queued, InTurn
  <2>8. unowned => Known \/ \E d \in Writers : at'[d] \notin {"leaving", "releasing"}
    BY <2>2, <2>6, WritersWalk, CalmWriters, <2>1 DEF SeenTo
  <2>9. SeenTo'
    <3>1. Unwritten' <=> Unwritten
      BY DEF Unwritten, Inner
    <3>. QED BY <1>2, <2>2, <2>5, <2>7, <2>8, <3>1 DEF SeenTo, Inner
  <2>10. OneFails'
    <3>1. Failing' = Failing
      BY <1>2, <2>6, WritersWalk, CalmWriters, <2>1 DEF Failing
    <3>2. Failing # {} => main' = main
      BY <1>3, <2>1 DEF Failing, Calm
    <3>3. Unwritten' <=> Unwritten
      BY DEF Unwritten, Inner
    <3>. QED BY <2>2, <3>1, <3>2, <3>3 DEF OneFails
  <2>. QED BY <2>9, <2>10
<1>. QED BY <1>4, <1>5, <1>6, <1>7, <1>8 DEF LeaseInv

LEMMA CheckLeases ==
  ASSUME WriteInv, LeaseInv, NEW c \in Call, Check(c) PROVE LeaseInv'
<1>1. /\ at[c] = "waiting" /\ at' = [at EXCEPT ![c] = IF Unchanged(c) THEN "parents" ELSE "leaving"]
      /\ UNCHANGED <<disk, directory, created, owns, users, unowned, claimed, result,
                     status, snapshot, wrote, touched, stray, leaked, crashes, errors, main>>
  BY DEF Check, Go, SameFiles, SameWorld, local, coordinator, log, world, environment
<1>2. PICK s \in {"parents", "leaving"} : at' = [at EXCEPT ![c] = s] /\ (s = "leaving" => ~Unchanged(c))
  BY <1>1
<1>3. result' = [result EXCEPT ![c] = result[c]] /\ at[c] \in Riding /\ s \in Riding
  BY <1>1, <1>2 DEF WriteInv, Typed, Riding, Queued, InTurn
<1>4. Calm /\ c \in Inner /\ s = "leaving" => ~Unwritten
  BY <1>1, <1>2, UnwrittenIsUnchanged DEF Calm
<1>5. errors' \in Nat /\ errors' >= errors
  BY <1>1 DEF LeaseInv, LeaseTyped
<1>. QED BY <1>1, <1>2, <1>3, <1>4, <1>5, LookLeases

LEMMA TempLeases ==
  ASSUME WriteInv, LeaseInv, NEW c \in Call, Temp(c) PROVE LeaseInv'
<1>1. /\ at[c] = "temp"
      /\ UNCHANGED <<disk, directory, created, owns, users, unowned, claimed, result,
                     status, snapshot, wrote, touched, stray, leaked, crashes, main>>
  BY DEF Temp, SameFiles, local, coordinator, log
<1>2. HasParent(PathOf[c])
  BY <1>1 DEF WriteInv, DirectoryIsKept
<1>3. errors \in Nat
  BY DEF LeaseInv, LeaseTyped
<1>4. PICK s \in {"recheck", "cleanup"} :
        /\ at' = [at EXCEPT ![c] = s]
        /\ errors' \in {errors, errors + 1} /\ (s = "cleanup" => errors' = errors + 1)
  BY <1>2 DEF Temp, Go
<1>5. result' = [result EXCEPT ![c] = result[c]] /\ at[c] \in Riding /\ s \in Riding
  BY <1>1, <1>4 DEF WriteInv, Typed, Riding, Queued, InTurn
<1>6. errors' \in Nat /\ errors' >= errors
  BY <1>3, <1>4
<1>7. Calm' /\ s = "cleanup" => errors = 0 /\ errors' # 0
  <2>1. Calm' => errors' <= 1
    BY DEF Calm
  <2>. QED BY <1>3, <1>4, <2>1
<1>. QED BY <1>1, <1>4, <1>5, <1>6, <1>7, LookLeases

LEMMA RecheckLeases ==
  ASSUME WriteInv, LeaseInv, NEW c \in Call, Recheck(c) PROVE LeaseInv'
<1>1. /\ at[c] = "recheck" /\ at' = [at EXCEPT ![c] = IF Unchanged(c) THEN "replace" ELSE "cleanup"]
      /\ UNCHANGED <<disk, directory, created, owns, users, unowned, claimed, result,
                     status, snapshot, wrote, touched, stray, leaked, crashes, errors, main>>
  BY DEF Recheck, Go, SameFiles, SameWorld, local, coordinator, log, world, environment
<1>2. PICK s \in {"replace", "cleanup"} : at' = [at EXCEPT ![c] = s] /\ (s = "cleanup" => ~Unchanged(c))
  BY <1>1
<1>3. result' = [result EXCEPT ![c] = result[c]] /\ at[c] \in Riding /\ s \in Riding
  BY <1>1, <1>2 DEF WriteInv, Typed, Riding, Queued, InTurn
<1>4. Calm /\ c \in Inner /\ s = "cleanup" => ~Unwritten
  BY <1>1, <1>2, UnwrittenIsUnchanged DEF Calm
<1>5. errors' \in Nat /\ errors' >= errors
  BY <1>1 DEF LeaseInv, LeaseTyped
<1>. QED BY <1>1, <1>2, <1>3, <1>4, <1>5, LookLeases

(* What a call of the directory captures in a calm turn is what it wrote.    *)
LEMMA CaptureLeases ==
  ASSUME WriteInv, LeaseInv, NEW c \in Call, Capture(c) PROVE LeaseInv'
<1>1. /\ at[c] = "capture"
      /\ UNCHANGED <<disk, directory, created, owns, users, unowned, claimed,
                     status, snapshot, wrote, touched, stray, leaked, crashes, errors, main>>
  BY DEF Capture, SameFiles, SameWorld, coordinator, log, world, environment
<1>2. /\ c \in wrote /\ status[c] = "started" /\ PathOf[c] \in Path
      /\ disk[PathOf[c]] \in Version
      /\ PathOf[c] \notin touched => disk[PathOf[c]] = c
  BY <1>1, Named, WritesAreNamed DEF WriteInv, Told, Typed, StillThere, Open, Dispatched, Version
<1>3. PICK s \in {"provenance", "leaving"}, v \in Version \union {None} :
        /\ at' = [at EXCEPT ![c] = s] /\ result' = [result EXCEPT ![c] = v]
        /\ s = "leaving" => disk[PathOf[c]] # c
  <2>1. CASE result' = [result EXCEPT ![c] = disk[PathOf[c]]] /\ Go(c, "provenance")
    BY <1>2, <2>1 DEF Go
  <2>2. CASE disk[PathOf[c]] # c /\ Go(c, "leaving") /\ UNCHANGED result
    <3>1. result' = [result EXCEPT ![c] = result[c]] /\ result[c] \in Version \union {None}
      BY <2>2 DEF WriteInv, Typed
    <3>. QED BY <2>2, <3>1 DEF Go
  <2>. QED BY <2>1, <2>2 DEF Capture
<1>4. at[c] \in Riding /\ s \in Riding
  BY <1>1, <1>3 DEF Riding, Queued, InTurn
<1>5. Calm /\ c \in Inner => s \notin {"leaving", "releasing"}
  BY <1>2, <1>3 DEF Calm, Inner
<1>6. errors' \in Nat /\ errors' >= errors
  BY <1>1 DEF LeaseInv, LeaseTyped
<1>. QED BY <1>1, <1>2, <1>3, <1>4, <1>5, <1>6, LookLeases

LEMMA CalmBefore ==
  ASSUME Calm', UNCHANGED <<crashes, errors, touched, leaked, status>>, wrote \subseteq wrote',
         \A d \in Inner : Denied(d) => Denied(d)'
  PROVE  Calm
<1>1. /\ crashes = 0 /\ errors <= 1 /\ leaked = {} /\ touched \intersect Inside = {}
      /\ \A d \in wrote \intersect Inner : status[d] \notin {"no effect", "closed"}
  BY DEF Calm, Inner
<1>2. ASSUME NEW d \in Inner PROVE ~Denied(d)
  <2>1. ~Denied(d)'
    BY DEF Calm, Inner
  <2>. QED BY <2>1
<1>. QED BY <1>1, <1>2 DEF Calm

LEMMA EnterLeases ==
  ASSUME WriteInv, LeaseInv, NEW c \in Call, Enter(c) PROVE LeaseInv'
<1>1. /\ at[c] = "started" /\ at' = [at EXCEPT ![c] = "waiting"] /\ users' = users \union {c}
      /\ UNCHANGED <<disk, directory, created, owns, unowned, claimed, result,
                     status, snapshot, wrote, touched, stray, leaked, crashes, errors, main>>
  BY DEF Enter, Go, SameFiles, SameWorld, local, log, world, environment
<1>2. /\ at'[c] = "waiting" /\ \A d \in Call : d # c => at'[d] = at[d]
      /\ \A d \in Call : at[d] \in Riding \union {"finish"} => d # c /\ at'[d] = at[d]
  BY <1>1 DEF WriteInv, Typed, Riding, Queued, InTurn
<1>3. Writers' = Writers \union ({c} \intersect Inner)
  BY <1>1 DEF Writers, Inner
<1>4. LeaseTyped'
  BY <1>1 DEF LeaseInv, LeaseTyped
<1>5. Counted'
  <2>1. \A d \in Writers' : at'[d] \in Riding \/ d \in leaked'
    BY <1>1, <1>2, <1>3, WritersWalk DEF LeaseInv, Counted, Inner, Riding, Queued
  <2>2. leaked = {} => \A d \in Inner : main' = d /\ at'[d] \in {"started", "waiting", "parents"} => ~unowned'
    BY <1>1, <1>2 DEF LeaseInv, Counted, Inner
  <2>. QED BY <1>1, <1>3, <2>1, <2>2 DEF LeaseInv, Counted, Inner
<1>6. Standing'
  <2>1. \A d \in Inner : at'[d] \in {"temp", "recheck", "replace"} => directory
    BY <1>2 DEF LeaseInv, Standing, Inner
  <2>. QED BY <1>1, <2>1 DEF LeaseInv, Standing, Inner
<1>7. Earned'
  BY <1>1, <1>2 DEF LeaseInv, Earned
<1>8. ASSUME Calm' PROVE SeenTo' /\ OneFails'
  <2>1. \A d \in Inner : Denied(d) => Denied(d)'
    BY <1>1, <1>2 DEF Denied, Inner, Riding, Queued, InTurn
  <2>2. Calm
    BY <1>1, <1>8, <2>1, CalmBefore
  <2>3. SeenTo /\ OneFails
    BY <2>2 DEF LeaseInv
  <2>4. Known => Known'
    BY <1>1, <1>2 DEF Known, Marked, Owned, Inner, Riding, Queued, InTurn
  <2>5. Unwritten' <=> Unwritten
    BY <1>1 DEF Unwritten, Inner
  <2>6. Unwritten \/ Known \/ \E d \in Inner : at'[d] \in {"capture", "provenance"}
    BY <1>2, <2>3 DEF SeenTo, Riding, Queued, InTurn, Inner
  <2>7. unowned => Known \/ \E d \in Writers : at'[d] \notin {"leaving", "releasing"}
    BY <1>2, <2>3, WritersWalk, CalmWriters, <2>2 DEF SeenTo, Inner
  <2>8. SeenTo'
    BY <1>1, <1>3, <2>3, <2>4, <2>5, <2>6, <2>7 DEF SeenTo, Inner
  <2>9. Failing' = Failing
    <3>1. \A d \in Writers : d \in Inner /\ at'[d] = at[d]
      BY <1>2, WritersWalk, CalmWriters, <2>2 DEF Inner
    <3>. QED BY <1>2, <1>3, <3>1 DEF Failing
  <2>. QED BY <1>1, <2>3, <2>5, <2>8, <2>9 DEF OneFails
<1>. QED BY <1>4, <1>5, <1>6, <1>7, <1>8 DEF LeaseInv

(* The one that makes the directory sees to it.                              *)
LEMMA MakesLeases ==
  ASSUME WriteInv, LeaseInv, NEW c \in Call, NEW s \in {"temp", "cleanup"}, NEW v,
         at[c] = "parents", at' = [at EXCEPT ![c] = s], s = "cleanup" => main = c,
         result' = [result EXCEPT ![c] = v], created' \in [Call -> BOOLEAN],
         unowned' = (unowned \/ ~HasParent(PathOf[c])),
         directory' = (directory \/ PathOf[c] \in Inside),
         UNCHANGED <<disk, owns, users, claimed, status, snapshot, wrote, touched, stray,
                     leaked, crashes, errors, main>>
  PROVE  LeaseInv'
<1>1. at[c] = "parents" /\ result' = [result EXCEPT ![c] = v]
  OBVIOUS
<1>2. /\ at'[c] = s /\ \A d \in Call : d # c => at'[d] = at[d]
      /\ at[c] \in Riding /\ \A d \in Call : at'[d] \in Riding <=> at[d] \in Riding
  BY <1>1 DEF WriteInv, Typed, Riding, Queued, InTurn
<1>3. Writers' = Writers /\ (c \in Inner => c \in Writers)
  BY <1>1, <1>2, WritersWalk DEF Writers
<1>4. /\ unowned' \in BOOLEAN /\ (unowned => unowned') /\ (unowned' => unowned \/ c \in Inner)
      /\ directory' \in BOOLEAN /\ (directory => directory') /\ (directory' => directory \/ unowned')
      /\ (c \in Inner => directory')
  BY <1>1 DEF HasParent, Inner, LeaseInv, LeaseTyped, WriteInv, Typed
<1>5. LeaseTyped'
  BY <1>1, <1>4 DEF LeaseInv, LeaseTyped, HasParent
<1>6. Counted'
  <2>1. \A d \in Writers' : at'[d] \in Riding \/ d \in leaked'
    BY <1>1, <1>2, <1>3, WritersWalk DEF LeaseInv, Counted, Inner, Riding
  <2>2. ASSUME leaked = {}, NEW d \in Inner, main' = d, at'[d] \in {"started", "waiting", "parents"} PROVE ~unowned'
    <3>1. d # c /\ at[d] = at'[d] /\ d \in Call
      BY <1>2, <2>2 DEF Inner
    <3>2. d \in Executing /\ c \in Executing
      BY <1>1, <2>2, <3>1 DEF Executing, Dispatched
    <3>. QED BY <1>1, <2>2, <3>1, <3>2, Named DEF WriteInv, MainIsAlone
  <2>3. leaked = {} => ~stray' /\ (Writers' = {} => ~unowned' /\ ~claimed')
    BY <1>1, <1>3, <1>4 DEF LeaseInv, Counted
  <2>. QED BY <1>1, <2>1, <2>2, <2>3 DEF Counted, Inner
<1>7. Standing'
  <2>1. \A d \in Inner : at'[d] \in {"temp", "recheck", "replace"} => directory'
    BY <1>2, <1>4 DEF LeaseInv, Standing, Inner
  <2>. QED BY <1>1, <1>4, <2>1 DEF LeaseInv, Standing, Inner
<1>8. Earned'
  BY <1>1, <1>2 DEF LeaseInv, Earned
<1>9. ASSUME Calm' PROVE SeenTo' /\ OneFails'
  <2>1. \A d \in Inner : Denied(d) => Denied(d)'
    BY <1>1, <1>2 DEF Denied, Inner, WriteInv, Typed
  <2>2. Calm
    BY <1>1, <1>9, <2>1, CalmBefore
  <2>3. SeenTo /\ OneFails
    BY <2>2 DEF LeaseInv
  <2>4. Known => Known'
    BY <1>1, <1>2 DEF Known, Marked, Owned, Inner
  <2>5. Unwritten' <=> Unwritten
    BY <1>1 DEF Unwritten, Inner
  <2>6. Unwritten \/ Known \/ \E d \in Inner : at'[d] \in {"capture", "provenance"}
    BY <1>1, <1>2, <2>3 DEF SeenTo, Inner
  <2>7. unowned' => Known \/ \E d \in Writers : at'[d] \notin {"leaving", "releasing"}
    <3>1. CASE c \in Inner
      BY <1>2, <1>3, <3>1
    <3>2. CASE unowned
      <4>1. \A d \in Writers : at[d] \notin {"leaving", "releasing"} => at'[d] \notin {"leaving", "releasing"}
        BY <1>2, WritersWalk, CalmWriters, <2>2 DEF Inner
      <4>. QED BY <2>3, <3>2, <4>1 DEF SeenTo
    <3>. QED BY <1>4, <3>1, <3>2
  <2>8. SeenTo'
    <3>1. directory' => Known' \/ unowned'
      BY <1>4, <2>3, <2>4 DEF SeenTo
    <3>2. unowned' => directory'
      BY <1>4, <2>3 DEF SeenTo
    <3>. QED BY <1>1, <1>3, <2>3, <2>4, <2>5, <2>6, <2>7, <3>1, <3>2 DEF SeenTo, Inner
  <2>9. /\ Failing' \subseteq Failing \union {c}
        /\ c \in Failing' => main = c /\ Failing = {}
    <3>1. \A d \in Writers : d \in Inner /\ (d # c => at'[d] = at[d])
      BY <1>2, WritersWalk DEF Inner
    <3>2. main = c => Failing = {}
      <4>1. ASSUME main = c, NEW d \in Failing PROVE FALSE
        <5>1. d \in Inner /\ at[d] \in Riding /\ main # None /\ d # c
          BY <4>1, <1>1, <2>2, WritersWalk, CalmWriters, Named DEF Failing
        <5>. QED BY <4>1, <5>1, WritersWalk
      <4>. QED BY <4>1
    <3>. QED BY <1>2, <1>3, <3>1, <3>2 DEF Failing
  <2>. QED BY <1>1, <2>3, <2>5, <2>8, <2>9 DEF OneFails
<1>. QED BY <1>5, <1>6, <1>7, <1>8, <1>9 DEF LeaseInv

LEMMA ParentsLeases ==
  ASSUME WriteInv, LeaseInv, NEW c \in Call, Parents(c) PROVE LeaseInv'
<1>1. /\ at[c] = "parents" /\ at' = [at EXCEPT ![c] = "temp"]
      /\ created' = [created EXCEPT ![c] = ~HasParent(PathOf[c])]
      /\ unowned' = (unowned \/ ~HasParent(PathOf[c]))
      /\ directory' = (directory \/ PathOf[c] \in Inside)
      /\ UNCHANGED <<disk, owns, users, claimed, result, status, snapshot, wrote, touched, stray, leaked, crashes, errors, main>>
  BY DEF Parents, Go, SameWorld, log, world, environment
<1>2. result' = [result EXCEPT ![c] = result[c]] /\ created' \in [Call -> BOOLEAN]
  BY <1>1 DEF WriteInv, Typed, LeaseInv, LeaseTyped, HasParent
<1>. QED BY <1>1, <1>2, MakesLeases

LEMMA ReplaceLeases ==
  ASSUME WriteInv, LeaseInv, NEW c \in Call, Replace(c) PROVE LeaseInv'
<1>1. /\ at[c] = "replace" /\ at' = [at EXCEPT ![c] = "capture"]
      /\ disk' = [disk EXCEPT ![PathOf[c]] = c] /\ wrote' = wrote \union {c}
      /\ UNCHANGED <<directory, created, owns, users, unowned, claimed, result,
                     status, snapshot, touched, stray, leaked, crashes, errors, main>>
  BY DEF Replace, Go, SameWorld, local, coordinator, log, world, environment
<1>2. /\ at'[c] = "capture" /\ \A d \in Call : d # c => at'[d] = at[d]
      /\ at[c] \in Riding /\ \A d \in Call : at'[d] \in Riding <=> at[d] \in Riding
  BY <1>1 DEF WriteInv, Typed, Riding, Queued, InTurn
<1>3. /\ \A q \in Path : q # PathOf[c] => disk'[q] = disk[q]
      /\ PathOf[c] \in Path /\ disk'[PathOf[c]] = c /\ c # Absent
  BY <1>1, Named DEF WriteInv, Typed
<1>4. Writers' = Writers
  BY <1>1 DEF Writers
<1>5. LeaseTyped'
  BY <1>1 DEF LeaseInv, LeaseTyped
<1>6. Counted'
  <2>1. \A d \in Writers' : at'[d] \in Riding \/ d \in leaked'
    BY <1>1, <1>2, <1>4, WritersWalk DEF LeaseInv, Counted, Inner, Riding
  <2>2. leaked = {} => \A d \in Inner : main' = d /\ at'[d] \in {"started", "waiting", "parents"} => ~unowned'
    BY <1>1, <1>2 DEF LeaseInv, Counted, Inner
  <2>. QED BY <1>1, <1>4, <2>1, <2>2 DEF LeaseInv, Counted, Inner
<1>7. Standing'
  <2>1. \A d \in Inner : at'[d] \in {"temp", "recheck", "replace"} => directory
    BY <1>2 DEF LeaseInv, Standing, Inner
  <2>2. ASSUME NEW p \in Inside, disk'[p] # Absent PROVE directory
    <3>1. CASE p = PathOf[c]
      BY <1>1, <3>1 DEF LeaseInv, Standing, Inner
    <3>2. CASE p # PathOf[c]
      BY <1>3, <2>2, <3>2, WritesAreNamed DEF LeaseInv, Standing
    <3>. QED BY <3>1, <3>2
  <2>. QED BY <1>1, <2>1, <2>2 DEF LeaseInv, Standing, Inner
<1>8. Earned'
  <2>1. \A d \in Call : at'[d] = "provenance" => at[d] = "provenance"
    BY <1>2
  <2>. QED BY <1>1, <2>1 DEF LeaseInv, Earned
<1>9. ASSUME Calm' PROVE SeenTo' /\ OneFails'
  <2>1. \A d \in Inner : Denied(d) => Denied(d)'
    BY <1>1, <1>2 DEF Denied, Inner
  <2>2. Calm
    BY <1>1, <1>9, <2>1, CalmBefore
  <2>3. SeenTo /\ OneFails
    BY <2>2 DEF LeaseInv
  <2>4. Known => Known'
    BY <1>1, <1>2 DEF Known, Marked, Owned, Inner
  <2>5. \A d \in wrote' \intersect Inner : disk'[PathOf[d]] \in Call
    BY <1>1, <1>3, <2>3, Named DEF SeenTo, Inner
  <2>6. Unwritten' \/ Known' \/ \E d \in Inner : at'[d] \in {"capture", "provenance"}
    <3>1. CASE c \in Inner
      BY <1>2, <3>1
    <3>2. CASE c \notin Inner
      <4>1. Unwritten => Unwritten'
        BY <1>1, <3>2 DEF Unwritten, Inner
      <4>. QED BY <1>2, <2>3, <2>4, <3>2, <4>1 DEF SeenTo, Inner
    <3>. QED BY <3>1, <3>2
  <2>7. unowned => Known \/ \E d \in Writers : at'[d] \notin {"leaving", "releasing"}
    <3>1. \A d \in Writers : at[d] \notin {"leaving", "releasing"} => at'[d] \notin {"leaving", "releasing"}
      BY <1>2, WritersWalk, CalmWriters, <2>2 DEF Inner
    <3>. QED BY <2>3, <3>1 DEF SeenTo
  <2>8. SeenTo'
    BY <1>1, <1>4, <2>3, <2>4, <2>5, <2>6, <2>7 DEF SeenTo, Inner
  <2>9. Failing' = Failing
    <3>1. \A d \in Writers : d \in Inner /\ (at'[d] \in {"cleanup", "leaving", "releasing"} <=> at[d] \in {"cleanup", "leaving", "releasing"})
      BY <1>1, <1>2, WritersWalk, CalmWriters, <2>2 DEF Inner
    <3>. QED BY <1>4, <3>1 DEF Failing
  <2>10. Unwritten' => Unwritten
    BY <1>1 DEF Unwritten, Inner
  <2>. QED BY <1>1, <2>3, <2>8, <2>9, <2>10 DEF OneFails
<1>. QED BY <1>5, <1>6, <1>7, <1>8, <1>9 DEF LeaseInv

(* Whoever wrote in the directory leaves it known: it takes the directory    *)
(* over, unless another has.                                                 *)
LEMMA ProvenanceLeases ==
  ASSUME WriteInv, LeaseInv, NEW c \in Call, Provenance(c) PROVE LeaseInv'
<1> DEFINE adopts == Adopts(c)
<1>1. /\ at[c] = "provenance" /\ at' = [at EXCEPT ![c] = "leaving"]
      /\ owns' = [owns EXCEPT ![c] = adopts]
      /\ claimed' = (claimed \/ adopts) /\ unowned' = (unowned /\ ~adopts)
      /\ UNCHANGED <<disk, directory, created, users, result, status, snapshot, wrote, touched, stray, leaked, crashes, errors, main>>
  BY DEF Provenance, Go, SameFiles, SameWorld, log, world, environment
<1>2. /\ at'[c] = "leaving" /\ \A d \in Call : d # c => at'[d] = at[d] /\ owns'[d] = owns[d]
      /\ owns'[c] = adopts /\ adopts \in BOOLEAN
      /\ (adopts <=> PathOf[c] \in Inside /\ unowned /\ ~claimed /\ directory)
      /\ at[c] \in Riding /\ \A d \in Call : at'[d] \in Riding <=> at[d] \in Riding
  BY <1>1 DEF WriteInv, Typed, Riding, Queued, InTurn, Adopts
<1>3. c \in wrote /\ (adopts => c \in Inner)
  BY <1>1, <1>2 DEF LeaseInv, Earned, Inner
<1>4. Writers' = Writers /\ (c \in Inner => c \in Writers)
  BY <1>1, <1>2, WritersWalk DEF Writers
<1> HIDE DEF adopts
<1>5. LeaseTyped'
  BY <1>1, <1>2 DEF LeaseInv, LeaseTyped
<1>6. Counted'
  <2>1. \A d \in Writers' : at'[d] \in Riding \/ d \in leaked'
    BY <1>1, <1>2, <1>4, WritersWalk DEF LeaseInv, Counted, Inner, Riding
  <2>2. leaked = {} => \A d \in Inner : main' = d /\ at'[d] \in {"started", "waiting", "parents"} => ~unowned'
    BY <1>1, <1>2 DEF LeaseInv, Counted, Inner
  <2>3. leaked = {} => ~stray' /\ (Writers' = {} => ~unowned' /\ ~claimed')
    BY <1>1, <1>3, <1>4 DEF LeaseInv, Counted
  <2>. QED BY <1>1, <2>1, <2>2, <2>3 DEF Counted, Inner
<1>7. Standing'
  <2>1. \A d \in Inner : at'[d] \in {"temp", "recheck", "replace"} => directory
    BY <1>2 DEF LeaseInv, Standing, Inner
  <2>. QED BY <1>1, <2>1 DEF LeaseInv, Standing, Inner
<1>8. Earned'
  <2>1. \A x \in Inside : snapshot[x].made => snapshot[x].after # None /\ \E d \in wrote : PathOf[d] = x
    BY DEF LeaseInv, Earned
  <2>2. \A d \in Call : /\ owns'[d] => d \in wrote
                        /\ at'[d] = "provenance" => d \in wrote
    BY <1>2, <1>3 DEF LeaseInv, Earned
  <2>. QED BY <1>1, <2>1, <2>2 DEF Earned
<1>9. ASSUME Calm' PROVE SeenTo' /\ OneFails'
  <2>1. \A d \in Inner : Denied(d) => Denied(d)'
    BY <1>1, <1>2 DEF Denied, Inner
  <2>2. Calm
    BY <1>1, <1>9, <2>1, CalmBefore
  <2>3. SeenTo /\ OneFails
    BY <2>2 DEF LeaseInv
  <2>4. Known => Known'
    BY <1>1, <1>2 DEF Known, Marked, Owned, Inner
  <2>5. c \in Inner => Known'
    <3>1. CASE adopts
      BY <1>2, <1>3, <3>1 DEF Known, Owned
    <3>2. CASE ~adopts /\ c \in Inner
      <4>1. PathOf[c] \in Inside /\ disk[PathOf[c]] \in Call
        BY <1>3, <2>3, <3>2 DEF SeenTo, Inner
      <4>2. directory
        BY <4>1, Named DEF LeaseInv, Standing
      <4>3. Known
        BY <1>2, <2>3, <3>2, <4>1, <4>2 DEF SeenTo
      <4>. QED BY <2>4, <4>3
    <3>. QED BY <3>1, <3>2
  <2>6. Unwritten' <=> Unwritten
    BY <1>1 DEF Unwritten, Inner
  <2>7. SeenTo'
    <3>1. CASE c \in Inner
      BY <1>1, <2>3, <2>5, <3>1 DEF SeenTo, Inner
    <3>2. CASE c \notin Inner
      <4>1. ~adopts /\ unowned' = unowned /\ claimed' = claimed
        BY <1>1, <1>3, <3>2 DEF LeaseInv, LeaseTyped
      <4>2. \A d \in Inner : at'[d] = at[d]
        BY <1>2, <3>2 DEF Inner
      <4>3. unowned => Known \/ \E d \in Writers : at'[d] \notin {"leaving", "releasing"}
        BY <2>3, <4>2, WritersWalk, CalmWriters, <2>2 DEF SeenTo
      <4>4. Unwritten \/ Known \/ \E d \in Inner : at'[d] \in {"capture", "provenance"}
        BY <2>3, <4>2 DEF SeenTo
      <4>. QED BY <1>1, <1>4, <2>3, <2>4, <2>6, <4>1, <4>3, <4>4 DEF SeenTo, Inner
    <3>. QED BY <3>1, <3>2
  <2>8. OneFails'
    <3> SUFFICES ASSUME Unwritten PROVE OneFails'
      BY <2>6 DEF OneFails
    <3>1. c \notin Inner
      BY <1>3 DEF Unwritten
    <3>2. \A d \in Writers : at'[d] = at[d]
      BY <1>2, <3>1, WritersWalk, CalmWriters, <2>2 DEF Inner
    <3>3. Failing' = Failing
      BY <1>4, <3>2 DEF Failing
    <3>. QED BY <1>1, <2>3, <2>6, <3>3 DEF OneFails
  <2>. QED BY <2>7, <2>8
<1>. QED BY <1>5, <1>6, <1>7, <1>8, <1>9 DEF LeaseInv

(* The last user removes the directory, unless a write has replaced a file   *)
(* there; and while one is left that will replace, nobody is the last.       *)
LEMMA CleanupLeases ==
  ASSUME WriteInv, LeaseInv, NEW c \in Call, Cleanup(c) PROVE LeaseInv'
<1> DEFINE removes == Removes(c)
<1>1. /\ at[c] = "cleanup" /\ at' = [at EXCEPT ![c] = "leaving"]
      /\ directory' = (directory /\ ~removes) /\ unowned' = (unowned /\ ~removes)
      /\ UNCHANGED <<disk, created, owns, users, claimed, result, status, snapshot, wrote, touched, stray, leaked, crashes, errors, main>>
  BY DEF Cleanup, Go, SameWorld, local, log, world, environment
<1>2. /\ at'[c] = "leaving" /\ \A d \in Call : d # c => at'[d] = at[d]
      /\ at[c] \in Riding /\ \A d \in Call : at'[d] \in Riding <=> at[d] \in Riding
  BY <1>1 DEF WriteInv, Typed, Riding, Queued, InTurn
<1>3. Writers' = Writers
  BY <1>1 DEF Writers
<1>4. removes => Writers = {c} /\ ~claimed /\ \A x \in Inside : disk[x] = Absent
  BY DEF Removes, Occupied
<1>5. /\ ~stray /\ PathOf[c] \in Inside /\ unowned /\ ~claimed /\ Writers = {c} /\ directory
         /\ (\A x \in Inside : disk[x] = Absent) => removes
  BY <1>1 DEF Removes, Occupied
<1>6. removes \in BOOLEAN
  BY DEF Removes
<1> HIDE DEF removes
<1>7. LeaseTyped'
  BY <1>1, <1>6 DEF LeaseInv, LeaseTyped
<1>8. Counted'
  <2>1. \A d \in Writers' : at'[d] \in Riding \/ d \in leaked'
    BY <1>1, <1>2, <1>3, WritersWalk DEF LeaseInv, Counted, Inner, Riding
  <2>2. leaked = {} => \A d \in Inner : main' = d /\ at'[d] \in {"started", "waiting", "parents"} => ~unowned'
    BY <1>1, <1>2 DEF LeaseInv, Counted, Inner
  <2>3. leaked = {} => ~stray' /\ (Writers' = {} => ~unowned' /\ ~claimed')
    BY <1>1, <1>3 DEF LeaseInv, Counted
  <2>. QED BY <1>1, <2>1, <2>2, <2>3 DEF Counted, Inner
<1>9. Standing'
  <2>1. ASSUME NEW d \in Inner, at'[d] \in {"temp", "recheck", "replace"} PROVE directory'
    <3>1. d # c /\ at[d] = at'[d] /\ directory
      BY <1>2, <2>1 DEF LeaseInv, Standing, Inner
    <3>2. d \in Writers
      BY <2>1, <3>1, WritersWalk DEF Riding, Queued, InTurn
    <3>. QED BY <1>1, <1>4, <3>1, <3>2
  <2>2. \A x \in Inside : disk'[x] # Absent => directory'
    BY <1>1, <1>4 DEF LeaseInv, Standing
  <2>. QED BY <2>1, <2>2 DEF Standing, Inner
<1>10. Earned'
  BY <1>1, <1>2 DEF LeaseInv, Earned
<1>11. ASSUME Calm' PROVE SeenTo' /\ OneFails'
  <2>1. \A d \in Inner : Denied(d) => Denied(d)'
    BY <1>1, <1>2 DEF Denied, Inner
  <2>2. Calm
    BY <1>1, <1>11, <2>1, CalmBefore
  <2>3. SeenTo /\ OneFails
    BY <2>2 DEF LeaseInv
  <2>4. Known => Known'
    BY <1>1, <1>2 DEF Known, Marked, Owned, Inner
  <2>5. Unwritten' <=> Unwritten
    BY <1>1 DEF Unwritten, Inner
  <2>6. Unwritten \/ Known \/ \E d \in Inner : at'[d] \in {"capture", "provenance"}
    BY <1>1, <1>2, <2>3 DEF SeenTo, Inner
  <2>7. ASSUME unowned, ~removes, ~Known PROVE \E d \in Writers : at'[d] \notin {"leaving", "releasing"}
    <3>1. PICK d \in Writers : at[d] \notin {"leaving", "releasing"}
      BY <2>3, <2>7 DEF SeenTo
    <3>2. Writers \subseteq Inner /\ \A g \in Writers : g # c => at'[g] = at[g]
      BY <1>2, WritersWalk, CalmWriters, <2>2 DEF Inner
    <3>3. CASE d # c
      BY <3>1, <3>2, <3>3
    <3>4. CASE d = c /\ ~Unwritten
      <4>1. PICK w \in Inner : at[w] \in {"capture", "provenance"}
        BY <2>3, <2>7, <3>4 DEF SeenTo
      <4>2. w \in Writers /\ w # c
        BY <1>1, <4>1, WritersWalk, CalmWriters, <2>2 DEF Riding, Queued, InTurn
      <4>. QED BY <3>2, <4>1, <4>2
    <3>5. CASE d = c /\ Unwritten
      <4>1. PathOf[c] \in Inside /\ directory /\ ~claimed
        BY <2>3, <2>7, <3>1, <3>2, <3>5 DEF Inner, SeenTo, LeaseInv, Standing
      <4>2. touched \intersect Inside = {}
        BY <2>2 DEF Calm
      <4>3. \A x \in Inside : disk[x] = Absent
        BY <3>5, <4>2, OccupiedIsWritten
      <4>4. Writers # {c}
        BY <1>5, <2>2, <2>7, <4>1, <4>3 DEF LeaseInv, Counted, Calm
      <4>5. PICK g \in Writers : g # c
        BY <3>1, <3>5, <4>4
      <4>6. at[g] \notin {"leaving", "releasing"}
        BY <1>1, <2>3, <3>1, <3>5, <4>5 DEF OneFails, Failing
      <4>. QED BY <3>2, <4>5, <4>6
    <3>. QED BY <3>3, <3>4, <3>5
  <2>8. SeenTo'
    <3>1. directory' => Known' \/ unowned'
      BY <1>1, <2>3, <2>4 DEF SeenTo
    <3>2. unowned' => Known' \/ \E d \in Writers : at'[d] \notin {"leaving", "releasing"}
      BY <1>1, <2>4, <2>7
    <3>. QED BY <1>1, <1>3, <2>3, <2>4, <2>5, <2>6, <3>1, <3>2 DEF SeenTo, Inner
  <2>9. Failing' = Failing
    <3>1. \A d \in Writers : d \in Inner /\ (at'[d] \in {"cleanup", "leaving", "releasing"} <=> at[d] \in {"cleanup", "leaving", "releasing"})
      BY <1>1, <1>2, WritersWalk, CalmWriters, <2>2 DEF Inner
    <3>. QED BY <1>3, <3>1 DEF Failing
  <2>. QED BY <1>1, <2>3, <2>5, <2>8, <2>9 DEF OneFails
<1>. QED BY <1>7, <1>8, <1>9, <1>10, <1>11 DEF LeaseInv

LEMMA LeaveLeases ==
  ASSUME WriteInv, LeaseInv, NEW c \in Call, Leave(c) PROVE LeaseInv'
<1>1. /\ at[c] = "leaving" /\ at' = [at EXCEPT ![c] = "releasing"]
      /\ UNCHANGED <<disk, directory, created, owns, users, unowned, claimed, result,
                     status, snapshot, wrote, touched, stray, leaked, crashes, errors, main>>
  BY DEF Leave, Go, SameFiles, SameWorld, local, log, world, environment
<1>2. result' = [result EXCEPT ![c] = result[c]] /\ {at[c], "releasing"} \subseteq Riding
  BY <1>1 DEF WriteInv, Typed, Riding, Queued, InTurn
<1>3. errors' \in Nat /\ errors' >= errors
  BY <1>1 DEF LeaseInv, LeaseTyped
<1>. QED BY <1>1, <1>2, <1>3, LookLeases

(* With the last user the directory is forgotten; it is known then.          *)
LEMMA ForgetLeases ==
  ASSUME WriteInv, LeaseInv, NEW c \in Call, NEW v \in {None, result[c]},
         at[c] = "releasing", at' = [at EXCEPT ![c] = "finish"], result' = [result EXCEPT ![c] = v],
         Writers' = Writers \ {c},
         unowned' = (unowned /\ Writers # {c}), claimed' = (claimed /\ Writers # {c}),
         UNCHANGED <<disk, directory, created, owns, status, snapshot, wrote, touched, stray,
                     leaked, crashes, errors, main>>
  PROVE  LeaseInv'
<1>1. at[c] = "releasing" /\ result' = [result EXCEPT ![c] = v] /\ Writers' = Writers \ {c}
  OBVIOUS
<1>2. at'[c] = "finish" /\ \A d \in Call : d # c => at'[d] = at[d]
  BY <1>1 DEF WriteInv, Typed
<1>3. Writers' = Writers \ {c} /\ Writers \subseteq Inner /\ Writers \subseteq Call
  BY <1>1, WritersWalk DEF Inner
<1>4. LeaseTyped'
  BY <1>1 DEF LeaseInv, LeaseTyped
<1>5. Counted'
  <2>1. \A d \in Writers' : at'[d] \in Riding \/ d \in leaked'
    BY <1>1, <1>2, <1>3, WritersWalk DEF LeaseInv, Counted, Inner, Riding
  <2>2. leaked = {} => \A d \in Inner : main' = d /\ at'[d] \in {"started", "waiting", "parents"} => ~unowned'
    BY <1>1, <1>2 DEF LeaseInv, Counted, Inner
  <2>3. leaked = {} => ~stray' /\ (Writers' = {} => ~unowned' /\ ~claimed')
    BY <1>1, <1>3 DEF LeaseInv, Counted
  <2>. QED BY <1>1, <2>1, <2>2, <2>3 DEF Counted, Inner
<1>6. Standing'
  <2>1. \A d \in Inner : at'[d] \in {"temp", "recheck", "replace"} => directory
    BY <1>2 DEF LeaseInv, Standing, Inner
  <2>. QED BY <1>1, <2>1 DEF LeaseInv, Standing, Inner
<1>7. Earned'
  BY <1>1, <1>2 DEF LeaseInv, Earned
<1>8. ASSUME Calm' PROVE SeenTo' /\ OneFails'
  <2>1. \A d \in Inner : Denied(d) => Denied(d)'
    BY <1>1, <1>2 DEF Denied, Inner, WriteInv, Typed
  <2>2. Calm
    BY <1>1, <1>8, <2>1, CalmBefore
  <2>3. SeenTo /\ OneFails
    BY <2>2 DEF LeaseInv
  <2>4. Known => Known'
    BY <1>1, <1>2 DEF Known, Marked, Owned, Inner
  <2>5. Unwritten' <=> Unwritten
    BY <1>1 DEF Unwritten, Inner
  <2>6. Unwritten \/ Known \/ \E d \in Inner : at'[d] \in {"capture", "provenance"}
    BY <1>1, <1>2, <2>3 DEF SeenTo, Inner
  <2>7. ASSUME unowned, ~Known PROVE \E d \in Writers \ {c} : at'[d] \notin {"leaving", "releasing"}
    <3>1. PICK d \in Writers : at[d] \notin {"leaving", "releasing"}
      BY <2>3, <2>7 DEF SeenTo
    <3>. QED BY <1>1, <1>2, <1>3, <3>1
  <2>8. SeenTo'
    <3>1. directory' => Known' \/ unowned'
      BY <1>1, <2>3, <2>4, <2>7 DEF SeenTo
    <3>2. unowned' => Known' \/ \E d \in Writers' : at'[d] \notin {"leaving", "releasing"}
      BY <1>1, <1>3, <2>4, <2>7
    <3>. QED BY <1>1, <2>3, <2>4, <2>5, <2>6, <3>1, <3>2 DEF SeenTo, Inner
  <2>9. Failing' \subseteq Failing
    BY <1>2, <1>3 DEF Failing
  <2>. QED BY <1>1, <2>3, <2>5, <2>8, <2>9 DEF OneFails
<1>. QED BY <1>4, <1>5, <1>6, <1>7, <1>8 DEF LeaseInv

LEMMA ReleaseLeases ==
  ASSUME WriteInv, LeaseInv, NEW c \in Call, Release(c) PROVE LeaseInv'
<1>1. /\ at[c] = "releasing" /\ at' = [at EXCEPT ![c] = "finish"] /\ users' = users \ {c}
      /\ unowned' = (unowned /\ Writers # {c}) /\ claimed' = (claimed /\ Writers # {c})
      /\ UNCHANGED <<disk, directory, created, owns, result, status, snapshot, wrote, touched, stray, leaked, crashes, errors, main>>
  BY DEF Release, Go, SameFiles, SameWorld, local, log, world, environment
<1>2. result' = [result EXCEPT ![c] = result[c]] /\ Writers' = Writers \ {c}
  BY <1>1 DEF WriteInv, Typed, Writers
<1>. QED BY <1>1, <1>2, ForgetLeases

(* What Ctrl-C leaves alone, and what it may: the part of the call.          *)
LEMMA InterruptAlone ==
  ASSUME WriteInv, LeaseInv, NEW c \in Call, Interrupt(c)
  PROVE  /\ main = c /\ result' = [result EXCEPT ![c] = None]
         /\ UNCHANGED <<disk, created, owns, status, snapshot, wrote, touched, crashes, errors, main>>
         /\ errors' \in Nat /\ errors' >= errors
         /\ c \in Inner /\ leaked = {} => (at[c] \in {"waiting", "parents"} => ~unowned)
<1>1. /\ main = c /\ result' = [result EXCEPT ![c] = None]
      /\ UNCHANGED <<disk, created, owns, status, snapshot, wrote, touched, crashes, errors, main>>
  BY DEF Interrupt, log
<1>2. errors' \in Nat /\ errors' >= errors
  BY <1>1 DEF LeaseInv, LeaseTyped
<1>3. c \in Inner /\ leaked = {} => (at[c] \in {"waiting", "parents"} => ~unowned)
  BY <1>1 DEF LeaseInv, Counted
<1>. QED BY <1>1, <1>2, <1>3

(* It finds a handler: the directory and the coordinator stay as they are.   *)
LEMMA HandledLeases ==
  ASSUME WriteInv, LeaseInv, NEW c \in Call, Interrupt(c), Handled(c) \/ LoseTicket(c)
  PROVE  LeaseInv'
<1>1. UNCHANGED <<directory, stray, users, unowned, claimed, leaked>>
  BY DEF Handled, LoseTicket, SameLease
<1>2. PICK s \in {"leaving", "cleanup", "releasing", "finish"} :
        /\ at' = [at EXCEPT ![c] = s]
        /\ \/ s = "finish" /\ at[c] \in {"started", "finish"}
           \/ s = "leaving" /\ at[c] \in {"waiting", "parents", "provenance"}
           \/ s = "cleanup" /\ at[c] \in {"temp", "recheck"}
           \/ s = "releasing" /\ at[c] \in {"waiting", "leaving", "releasing"}
  <2>1. at[c] \in Dispatched \ {"replace", "capture"}
    BY DEF Interrupt
  <2>2. CASE Handled(c)
    BY <2>1, <2>2 DEF Handled, Go, Dispatched
  <2>3. CASE LoseTicket(c)
    BY <2>3 DEF LoseTicket, Go
  <2>. QED BY <2>2, <2>3
<1>3. CASE s = "finish"
  <2>1. s \notin Riding /\ at[c] \notin Riding
    BY <1>2, <1>3 DEF Riding, Queued, InTurn
  <2>2. Writers' = Writers
    BY <1>1 DEF Writers
  <2>. QED BY <1>1, <1>2, <1>3, <2>1, <2>2, InterruptAlone, AsideLeases
<1>4. CASE s # "finish"
  <2>1. at[c] \in Riding /\ s \in Riding
    BY <1>2, <1>4 DEF Riding, Queued, InTurn
  <2>2. ASSUME Calm', c \in Inner PROVE at[c] # "provenance"
    <3>1. ~Denied(c)'
      BY <2>2 DEF Calm, Inner
    <3>2. ASSUME at[c] = "provenance" PROVE FALSE
      <4>1. s = "leaving" /\ c \in wrote
        BY <1>2, <1>4, <3>2 DEF LeaseInv, Earned
      <4>. QED BY <1>2, <3>1, <4>1, InterruptAlone DEF Denied, WriteInv, Typed
    <3>. QED BY <3>2
  <2>3. Calm /\ c \in Inner /\ s \in {"leaving", "releasing"} =>
          at[c] \in {"leaving", "releasing", "provenance"} \/ ~unowned
    BY <1>2, <1>4, InterruptAlone DEF Calm
  <2>. QED BY <1>1, <1>2, <2>1, <2>2, <2>3, InterruptAlone, LookLeases
<1>. QED BY <1>3, <1>4

(* It finds none, and the call has no part in the directory.                 *)
LEMMA OutsideLeases ==
  ASSUME WriteInv, LeaseInv, NEW c \in Call, Interrupt(c), c \notin Inner,
         LoseUser(c) \/ MakeAndStop(c) \/ LoseDirectory(c)
  PROVE  LeaseInv'
<1>1. PathOf[c] \notin Inside /\ HasParent(PathOf[c]) /\ c \notin Writers
  BY DEF Inner, HasParent, Writers
<1>2. /\ directory \in BOOLEAN /\ unowned \in BOOLEAN /\ claimed \in BOOLEAN /\ stray \in BOOLEAN
      /\ ~Removes(c) /\ ~Adopts(c) /\ leaked \subseteq Inner
  BY <1>1 DEF Removes, Adopts, LeaseInv, LeaseTyped, WriteInv, Typed
<1>3. /\ UNCHANGED <<directory, stray, unowned, claimed, leaked>>
      /\ users \ {c} = users' \ {c}
  <2>1. CASE LoseUser(c)
    BY <1>1, <1>2, <2>1 DEF LoseUser, Leaks
  <2>2. CASE LoseDirectory(c)
    BY <1>1, <1>2, <2>2 DEF LoseDirectory, Leaks
  <2>. QED BY <1>1, <2>1, <2>2 DEF MakeAndStop
<1>4. Writers' = Writers
  BY <1>1, <1>3 DEF Writers
<1>5. CASE LoseUser(c)
  <2>1. at[c] \in {"started", "releasing"} /\ at' = [at EXCEPT ![c] = "finish"]
    BY <1>5 DEF LoseUser, Go
  <2>2. CASE at[c] = "started"
    <3>1. "finish" \notin Riding /\ at[c] \notin Riding
      BY <2>2 DEF Riding, Queued, InTurn
    <3>. QED BY <1>3, <1>4, <2>1, <2>2, <3>1, InterruptAlone, AsideLeases
  <2>3. CASE at[c] = "releasing"
    <3>1. Writers' = Writers \ {c} /\ Writers # {c} /\ None \in {None, result[c]}
      BY <1>1, <1>4
    <3>2. unowned' = (unowned /\ Writers # {c}) /\ claimed' = (claimed /\ Writers # {c})
      BY <1>2, <1>3, <3>1
    <3>. QED BY <1>3, <2>1, <2>3, <3>1, <3>2, InterruptAlone, ForgetLeases
  <2>. QED BY <2>1, <2>2, <2>3
<1>6. CASE LoseDirectory(c)
  <2>1. PICK s \in {"leaving", "cleanup"} :
          /\ at' = [at EXCEPT ![c] = s] /\ at[c] \in {"temp", "cleanup", "provenance"}
    BY <1>6 DEF LoseDirectory, Go
  <2>2. at[c] \in Riding /\ s \in Riding /\ users' = users
    BY <1>6, <2>1 DEF LoseDirectory, Riding, Queued, InTurn
  <2>. QED BY <1>3, <2>1, <2>2, InterruptAlone, LookLeases
<1>. QED BY <1>1, <1>5, <1>6 DEF MakeAndStop

(* Once a part was leaked, nothing is promised but what a user needs.        *)
LEMMA LeakLeases ==
  ASSUME WriteInv, LeaseInv, NEW c \in Inner, Interrupt(c), leaked' = leaked \union {c},
         LoseUser(c) \/ MakeAndStop(c) \/ LoseDirectory(c)
  PROVE  LeaseInv'
<1>1. PICK s \in {"leaving", "cleanup", "finish"} : at' = [at EXCEPT ![c] = s]
  BY DEF LoseUser, MakeAndStop, LoseDirectory, Go
<1>2. /\ c \in Call /\ at'[c] = s /\ \A d \in Call : d # c => at'[d] = at[d]
  BY <1>1 DEF WriteInv, Typed, Inner
<1>3. /\ directory \in BOOLEAN /\ unowned \in BOOLEAN /\ claimed \in BOOLEAN /\ stray \in BOOLEAN
      /\ users \subseteq Call
  BY DEF LeaseInv, LeaseTyped, WriteInv, Typed
<1>4. /\ users' \subseteq users \union {c}
      /\ unowned' \in BOOLEAN /\ claimed' \in BOOLEAN /\ stray' \in BOOLEAN
      /\ directory => directory' \/ Removes(c)
  <2>1. CASE LoseUser(c)
    BY <1>2, <1>3, <2>1 DEF LoseUser
  <2>2. CASE MakeAndStop(c)
    BY <1>3, <2>2 DEF MakeAndStop
  <2>3. CASE LoseDirectory(c)
    <3>1. UNCHANGED <<users, unowned>> /\ claimed' \in {claimed, claimed \/ Adopts(c)}
      BY <2>3 DEF LoseDirectory
    <3>2. /\ stray' \in {stray, stray \/ PathOf[c] \in Inside, stray \/ (PathOf[c] \in Inside /\ directory)}
      BY <2>3 DEF LoseDirectory
    <3>3. directory' = directory \/ directory' = (directory /\ ~Removes(c))
      BY <2>3 DEF LoseDirectory
    <3>4. users' \subseteq users \union {c} /\ unowned' \in BOOLEAN
      BY <1>3, <3>1
    <3>5. claimed' \in BOOLEAN
      BY <1>3, <3>1
    <3>6. stray' \in BOOLEAN
      BY <1>3, <3>2
    <3>7. directory => directory' \/ Removes(c)
      BY <1>3, <3>3
    <3>. QED BY <3>4, <3>5, <3>6, <3>7
  <2>. QED BY <2>1, <2>2, <2>3
<1>5. LeaseTyped'
  BY <1>4, <1>2, InterruptAlone DEF LeaseInv, LeaseTyped, Inner
<1>6. Counted'
  <2>1. ASSUME NEW d \in Writers' PROVE at'[d] \in Riding \/ d \in leaked'
    <3>1. d = c \/ (d \in Writers /\ d \in Call)
      BY <1>3, <1>4 DEF Writers
    <3>. QED BY <1>2, <3>1 DEF LeaseInv, Counted
  <2>. QED BY <2>1 DEF Counted
<1>7. Standing'
  <2>1. ASSUME NEW d \in Inner, at'[d] \in {"temp", "recheck", "replace"} PROVE directory'
    <3>1. d # c /\ at[d] = at'[d] /\ directory
      BY <1>2, <2>1 DEF LeaseInv, Standing, Inner
    <3>2. d \in Writers
      BY <2>1, <3>1, WritersWalk DEF Riding, Queued, InTurn
    <3>. QED BY <1>4, <3>1, <3>2 DEF Removes
  <2>2. \A x \in Inside : disk'[x] # Absent => directory'
    BY <1>2, <1>4, InterruptAlone DEF LeaseInv, Standing, Removes, Occupied
  <2>. QED BY <2>1, <2>2 DEF Standing, Inner
<1>8. Earned'
  <2>1. \A d \in Call : at'[d] = "provenance" => at[d] = "provenance"
    BY <1>2
  <2>. QED BY <1>2, <2>1, InterruptAlone DEF LeaseInv, Earned
<1>9. ~Calm'
  BY DEF Calm
<1>. QED BY <1>5, <1>6, <1>7, <1>8, <1>9 DEF LeaseInv

LEMMA InterruptLeases ==
  ASSUME WriteInv, LeaseInv, NEW c \in Call, Interrupt(c) PROVE LeaseInv'
<1>1. CASE Handled(c) \/ LoseTicket(c)
  BY <1>1, HandledLeases
<1>2. CASE LoseUser(c) \/ MakeAndStop(c) \/ LoseDirectory(c)
  <2>1. CASE c \notin Inner
    BY <1>2, <2>1, OutsideLeases
  <2>2. CASE c \in Inner /\ leaked' = leaked \union {c}
    BY <1>2, <2>2, LeakLeases
  <2>3. CASE c \in Inner /\ leaked' # leaked \union {c}
    <3>1. PathOf[c] \in Inside
      BY <2>3 DEF Inner
    <3>2. /\ at[c] = "parents" /\ ~HasParent(PathOf[c])
          /\ directory' = TRUE /\ unowned' = TRUE /\ Go(c, "cleanup")
          /\ UNCHANGED <<leaked, stray, users, claimed>>
      BY <1>2, <2>3, <3>1 DEF LoseUser, MakeAndStop, LoseDirectory, Leaks
    <3>3. /\ at' = [at EXCEPT ![c] = "cleanup"] /\ created' \in [Call -> BOOLEAN]
          /\ unowned' = (unowned \/ ~HasParent(PathOf[c]))
          /\ directory' = (directory \/ PathOf[c] \in Inside)
      BY <3>1, <3>2, InterruptAlone DEF Go, LeaseInv, LeaseTyped
    <3>. QED BY <3>2, <3>3, InterruptAlone, MakesLeases
  <2>. QED BY <2>1, <2>2, <2>3
<1>. QED BY <1>1, <1>2 DEF Interrupt

(* A success is recorded with the directory its write took over.             *)
LEMMA FinishLeases ==
  ASSUME WriteInv, LeaseInv, NEW c \in Call, Finish(c) PROVE LeaseInv'
<1>1. /\ at[c] = "finish" /\ at' = [at EXCEPT ![c] = "done"] /\ main' = None
      /\ UNCHANGED <<disk, directory, created, owns, users, unowned, claimed, result, wrote, touched, stray, leaked, crashes, errors>>
  BY DEF Finish, Go, SameFiles, local, coordinator, environment
<1>2. /\ at'[c] = "done" /\ \A d \in Call : d # c => at'[d] = at[d]
      /\ \A d \in Call : at'[d] \in Riding <=> at[d] \in Riding
      /\ \A d \in Call : at[d] \in Riding => at'[d] = at[d]
  BY <1>1 DEF WriteInv, Typed, Riding, Queued, InTurn
<1>3. status[c] = "started" /\ c # None /\ PathOf[c] \in Path /\ (result[c] # None => c \in wrote)
  BY <1>1, Named DEF WriteInv, Told, Dispatched
<1>4. Writers' = Writers
  BY <1>1 DEF Writers
<1>5. /\ snapshot \in [Path -> [before : Version \union {None}, source : Call \union {None},
                               after : Version \union {None}, made : BOOLEAN]]
      /\ owns \in [Call -> BOOLEAN] /\ status \in [Call -> Statuses]
  BY DEF WriteInv, Typed
<1>6. ASSUME NEW x \in Path
      PROVE  /\ snapshot[x].made => snapshot'[x].made
             /\ snapshot'[x].made => (snapshot[x].made /\ snapshot'[x].after \in {c, snapshot[x].after})
                                     \/ (x = PathOf[c] /\ c \in wrote /\ snapshot'[x].after = c)
             /\ result[c] = c /\ x = PathOf[c] /\ owns[c] => snapshot'[x].made
  <2>1. CASE result[c] = c
    <3> DEFINE old == snapshot[PathOf[c]]
               new == [[old EXCEPT !.after = c] EXCEPT !.made = @ \/ owns[c]]
    <3>1. snapshot' = [snapshot EXCEPT ![PathOf[c]] = new]
      BY <1>3, <1>5, <2>1 DEF Finish
    <3>2. new.after = c /\ (new.made <=> old.made \/ owns[c])
      BY <1>3, <1>5
    <3> HIDE DEF old, new
    <3>3. x # PathOf[c] => snapshot'[x] = snapshot[x]
      BY <1>5, <3>1
    <3>4. x = PathOf[c] => snapshot'[x] = new /\ old = snapshot[x]
      BY <1>3, <1>5, <3>1 DEF old
    <3>. QED BY <1>3, <2>1, <3>2, <3>3, <3>4
  <2>2. CASE result[c] # c
    <3>1. snapshot' = snapshot
      BY <1>3, <2>2 DEF Finish
    <3>. QED BY <2>2, <3>1
  <2>. QED BY <2>1, <2>2
<1>7. /\ \A d \in Call : d # c => status'[d] = status[d]
      /\ result[c] = None => status'[c] = "no effect"
  <2>1. CASE result[c] = None
    BY <1>3, <1>5, <2>1 DEF Finish
  <2>2. CASE result[c] = c
    BY <1>3, <1>5, <2>2 DEF Finish
  <2>3. CASE result[c] \notin {None, c}
    BY <1>3, <1>5, <2>3 DEF Finish
  <2>. QED BY <2>1, <2>2, <2>3
<1>8. LeaseTyped'
  BY <1>1 DEF LeaseInv, LeaseTyped
<1>9. Counted'
  <2>1. \A d \in Writers' : at'[d] \in Riding \/ d \in leaked'
    BY <1>1, <1>2, <1>4, WritersWalk DEF LeaseInv, Counted, Inner, Riding
  <2>2. leaked = {} => \A d \in Inner : main' = d => FALSE
    BY <1>1, Named DEF Inner
  <2>. QED BY <1>1, <1>4, <2>1, <2>2 DEF LeaseInv, Counted, Inner
<1>10. Standing'
  <2>1. \A d \in Inner : at'[d] \in {"temp", "recheck", "replace"} => directory
    BY <1>2 DEF LeaseInv, Standing, Inner
  <2>. QED BY <1>1, <2>1 DEF LeaseInv, Standing, Inner
<1>11. Earned'
  <2>1. ASSUME NEW x \in Inside, snapshot'[x].made
        PROVE  snapshot'[x].after # None /\ \E d \in wrote : PathOf[d] = x
    <3>1. x \in Path
      BY WritesAreNamed
    <3>. QED BY <1>3, <1>6, <2>1, <3>1 DEF LeaseInv, Earned
  <2>2. \A d \in Call : /\ owns[d] => d \in wrote
                        /\ at'[d] = "provenance" => d \in wrote
    BY <1>2 DEF LeaseInv, Earned
  <2>. QED BY <1>1, <2>1, <2>2 DEF Earned
<1>12. ASSUME Calm' PROVE SeenTo' /\ OneFails'
  <2>1. /\ crashes = 0 /\ errors <= 1 /\ leaked = {} /\ touched \intersect Inside = {}
        /\ \A d \in wrote \intersect Inner : status'[d] \notin {"no effect", "closed"}
    BY <1>1, <1>12 DEF Calm, Inner
  <2>2. ~Denied(c) \/ c \notin Inner
    BY <1>1, <1>7, <2>1 DEF Denied
  <2>3. ASSUME NEW d \in Inner, d # c PROVE ~Denied(d)
    <3>1. ~Denied(d)'
      BY <1>12 DEF Calm, Inner
    <3>. QED BY <1>1, <1>2, <2>3, <3>1 DEF Denied, Inner
  <2>4. \A d \in wrote \intersect Inner : status[d] \notin {"no effect", "closed"}
    BY <1>3, <1>7, <2>1 DEF Inner
  <2>5. Calm
    BY <2>1, <2>2, <2>3, <2>4 DEF Calm
  <2>6. SeenTo /\ OneFails
    BY <2>5 DEF LeaseInv
  <2>7. Marked => Marked'
    BY <1>6, WritesAreNamed DEF Marked
  <2>8. ASSUME Owned PROVE Known'
    <3>1. PICK d \in Inner : owns[d] /\ at[d] \in {"leaving", "releasing", "finish"}
      BY <2>8 DEF Owned
    <3>2. CASE d # c
      BY <1>1, <1>2, <3>1, <3>2 DEF Known, Owned, Inner
    <3>3. CASE d = c
      <4>1. c \in wrote
        BY <3>1, <3>3 DEF LeaseInv, Earned
      <4>2. result[c] # None /\ PathOf[c] \notin touched /\ PathOf[c] \in Inside
        BY <1>1, <2>1, <2>2, <3>1, <3>3, <4>1 DEF Denied, Inner
      <4>3. result[c] = c
        BY <4>2 DEF WriteInv, StillThere
      <4>4. snapshot'[PathOf[c]].made
        BY <1>3, <1>6, <3>1, <3>3, <4>3
      <4>. QED BY <4>2, <4>4 DEF Known, Marked
    <3>. QED BY <3>2, <3>3
  <2>9. Known => Known'
    BY <2>7, <2>8 DEF Known
  <2>10. Unwritten' <=> Unwritten
    BY <1>1 DEF Unwritten, Inner
  <2>11. Unwritten \/ Known \/ \E d \in Inner : at'[d] \in {"capture", "provenance"}
    BY <1>1, <1>2, <2>6 DEF SeenTo, Inner
  <2>12. unowned => Known \/ \E d \in Writers : at'[d] \notin {"leaving", "releasing"}
    BY <1>2, <2>6, WritersWalk, CalmWriters, <2>5 DEF SeenTo, Inner
  <2>13. SeenTo'
    BY <1>1, <1>4, <2>6, <2>9, <2>10, <2>11, <2>12 DEF SeenTo, Inner
  <2>14. Failing' = Failing /\ (Failing # {} => main = None)
    <3>1. \A d \in Writers : d \in Inner /\ at'[d] = at[d]
      BY <1>2, WritersWalk, CalmWriters, <2>5 DEF Inner
    <3>2. ASSUME NEW d \in Failing, main # None PROVE FALSE
      <4>1. d \in Executing /\ c \in Executing /\ d # c
        BY <1>1, WritersWalk, CalmWriters, <2>5 DEF Failing, Executing, Dispatched, Inner
      <4>. QED BY <3>2, <4>1 DEF WriteInv, MainIsAlone
    <3>. QED BY <1>4, <3>1, <3>2 DEF Failing
  <2>15. OneFails'
    BY <1>1, <2>6, <2>10, <2>14 DEF OneFails
  <2>. QED BY <2>13, <2>15
<1>. QED BY <1>8, <1>9, <1>10, <1>11, <1>12 DEF LeaseInv

-----------------------------------------------------------------------------
(* The steps of the executor, of the operator and of the environment.        *)

LEMMA ExecutorLeases ==
  ASSUME WriteInv, LeaseInv, NEW c \in Call, Prepare(c) \/ Stage(c) \/ Drop(c) \/ Begin(c)
  PROVE  LeaseInv'
<1>1. /\ UNCHANGED <<disk, directory, created, owns, users, unowned, claimed, result, wrote, touched, stray, leaked, crashes, errors>>
      /\ at[c] \in {"unborn", "prepared", "staged"}
  BY DEF Prepare, Stage, Drop, Begin, SameFiles, SameWorld, local, coordinator, world, environment
<1>2. PICK s \in {"prepared", "staged", "done", "started"} :
        /\ at' = [at EXCEPT ![c] = s]
        /\ s = "started" => main' = None \/ Executing = {}
  BY DEF Prepare, Stage, Drop, Begin, Go
<1>3. main' = main \/ Executing = {}
  BY DEF Prepare, Stage, Drop, Begin, SameWorld, world
<1>4. c \notin wrote
  BY <1>1 DEF WriteInv, Told, Written
<1>5. \A d \in Call : d # c => status'[d] = status[d]
  BY DEF Prepare, Stage, Drop, Begin, WriteInv, Typed
<1>6. ASSUME NEW x \in Inside
      PROVE  /\ snapshot'[x].made = snapshot[x].made
             /\ snapshot[x].after # None => snapshot'[x].after # None
  <2>1. x \in Path /\ PathOf[c] \in Path
    BY Named, WritesAreNamed
  <2>2. CASE Stage(c)
    <3> DEFINE old == snapshot[PathOf[c]]
               new == [before |-> expected[c], source |-> c, after |-> None, made |-> FALSE]
    <3>1. snapshot' = [snapshot EXCEPT ![PathOf[c]] = Baseline(c)] /\ Baseline(c) \in {old, new}
      BY <2>2 DEF Stage, Baseline
    <3>2. Baseline(c) # old => old.after = None
      <4>1. old = NoBaseline => old.after = None
        BY DEF NoBaseline
      <4>2. Baseline(c) # old => old = NoBaseline \/ old.after = None
        BY DEF Baseline
      <4> HIDE DEF old
      <4>. QED BY <4>1, <4>2
    <3>3. x # PathOf[c] => snapshot'[x] = snapshot[x]
      BY <2>1, <3>1 DEF WriteInv, Typed
    <3>4. x = PathOf[c] => snapshot'[x] = Baseline(c)
      BY <2>1, <3>1 DEF WriteInv, Typed
    <3>5. x = PathOf[c] /\ old.after = None => old.made = FALSE
      <4>1. snapshot[x] \in [before : Version \union {None}, source : Call \union {None},
                             after : Version \union {None}, made : BOOLEAN]
        BY <2>1 DEF WriteInv, Typed
      <4>2. snapshot[x].made => snapshot[x].after # None
        BY DEF LeaseInv, Earned
      <4>. QED BY <4>1, <4>2
    <3>6. new.made = FALSE
      OBVIOUS
    <3> HIDE DEF new
    <3>. QED BY <3>1, <3>2, <3>3, <3>4, <3>5, <3>6
  <2>3. CASE Prepare(c) \/ Drop(c) \/ Begin(c)
    BY <2>3 DEF Prepare, Drop, Begin
  <2>. QED BY <2>2, <2>3
<1>7. s \notin Riding /\ at[c] \notin Riding /\ s # "finish" /\ at[c] # "finish"
  BY <1>1, <1>2 DEF Riding, Queued, InTurn
<1>8. \A d \in wrote : status'[d] = status[d]
  BY <1>4, <1>5 DEF WriteInv, Typed
<1>9. Writers' = Writers
  BY <1>1 DEF Writers
<1>. QED BY <1>1, <1>2, <1>3, <1>6, <1>7, <1>8, <1>9, AsideLeases

LEMMA ReconcileLeases ==
  ASSUME WriteInv, LeaseInv, NEW c \in Call, Confirm(c) \/ GiveUp(c) PROVE LeaseInv'
<1>1. /\ UNCHANGED <<at, disk, directory, created, owns, users, unowned, claimed, result, wrote, touched,
                     stray, leaked, crashes, errors, main>>
      /\ status[c] = "unknown"
  BY DEF Confirm, GiveUp, SameFiles, SameWorld, local, coordinator, world, environment
<1>2. at[c] \notin Dispatched /\ at' = [at EXCEPT ![c] = at[c]]
  BY <1>1 DEF WriteInv, Told, Typed
<1>3. at[c] \notin Riding /\ at[c] # "started"
  BY <1>2, WritersWalk DEF Dispatched
<1>4. ASSUME NEW x \in Inside
      PROVE  /\ snapshot'[x].made = snapshot[x].made
             /\ snapshot[x].after # None => snapshot'[x].after # None
  <2>1. x \in Path /\ PathOf[c] \in Path /\ c # None
    BY Named, WritesAreNamed
  <2>2. snapshot' = snapshot \/ snapshot' = [snapshot EXCEPT ![PathOf[c]].after = c]
    BY DEF Confirm, GiveUp
  <2>3. snapshot \in [Path -> [before : Version \union {None}, source : Call \union {None},
                              after : Version \union {None}, made : BOOLEAN]]
    BY DEF WriteInv, Typed
  <2>4. CASE snapshot' = [snapshot EXCEPT ![PathOf[c]].after = c]
    <3>1. snapshot'[x] = IF x = PathOf[c] THEN [snapshot[x] EXCEPT !.after = c] ELSE snapshot[x]
      BY <2>1, <2>3, <2>4
    <3>2. snapshot[x] \in [before : Version \union {None}, source : Call \union {None},
                           after : Version \union {None}, made : BOOLEAN]
      BY <2>1, <2>3
    <3>. QED BY <2>1, <3>1, <3>2
  <2>. QED BY <2>2, <2>4
<1>5. \A d \in Call : d # c => status'[d] = status[d]
  BY DEF Confirm, GiveUp, WriteInv, Typed
<1>6. \A d \in wrote : status[d] \in {"no effect", "closed"} => status'[d] \in {"no effect", "closed"}
  BY <1>1, <1>5 DEF WriteInv, Typed
<1>7. Writers' = Writers /\ (at[c] = "finish" => at[c] = "finish")
  BY <1>1 DEF Writers
<1>. QED BY <1>1, <1>2, <1>3, <1>4, <1>6, <1>7, AsideLeases

LEMMA CrashLeases ==
  ASSUME WriteInv, LeaseInv, Crash PROVE LeaseInv'
<1>1. /\ at' = [c \in Call |-> IF at[c] = "unborn" THEN "unborn" ELSE "done"]
      /\ created' = [c \in Call |-> FALSE] /\ owns' = [c \in Call |-> FALSE]
      /\ users' = {} /\ unowned' = FALSE /\ claimed' = FALSE /\ main' = None
      /\ crashes' = crashes + 1
      /\ UNCHANGED <<disk, directory, snapshot, wrote, stray, leaked, errors>>
  BY DEF Crash, SameFiles
<1>2. \A c \in Call : at'[c] \in {"unborn", "done"} /\ owns'[c] = FALSE
  BY <1>1
<1>3. LeaseTyped'
  <2>1. created' \in [Call -> BOOLEAN] /\ unowned' \in BOOLEAN /\ claimed' \in BOOLEAN
    BY <1>1
  <2>2. crashes' \in Nat /\ errors' \in Nat /\ stray' \in BOOLEAN /\ leaked' \subseteq Inner
    BY <1>1 DEF LeaseInv, LeaseTyped, Inner
  <2>. QED BY <2>1, <2>2 DEF LeaseTyped
<1>4. Counted'
  BY <1>1, Named DEF LeaseInv, Counted, Writers, Inner
<1>5. Standing'
  BY <1>1, <1>2 DEF LeaseInv, Standing, Inner
<1>6. Earned'
  BY <1>1, <1>2 DEF LeaseInv, Earned
<1>7. ~Calm'
  <2>1. crashes \in Nat /\ crashes' # 0
    BY <1>1 DEF LeaseInv, LeaseTyped
  <2>. QED BY <2>1 DEF Calm
<1>. QED BY <1>3, <1>4, <1>5, <1>6, <1>7 DEF LeaseInv

(* An edit in the directory ends the calm; one elsewhere does not matter.    *)
LEMMA EditLeases ==
  ASSUME WriteInv, LeaseInv, NEW p \in Path, Save(p) \/ Remove(p) PROVE LeaseInv'
<1>1. PICK x : disk' = [disk EXCEPT ![p] = x] /\ (x = Absent \/ Save(p))
  BY DEF Save, Remove
<1>2. /\ UNCHANGED <<at, created, owns, users, unowned, claimed, result, status, snapshot, wrote, stray, leaked, crashes, errors, main>>
      /\ touched' = touched \union {p}
      /\ directory => directory'
      /\ x # Absent /\ p \in Inside => directory'
      /\ p \notin Inside => directory' = directory
  BY <1>1 DEF Save, Remove, local, coordinator, log, WriteInv, Typed
<1>3. disk'[p] = x /\ \A q \in Path : q # p => disk'[q] = disk[q]
  BY <1>1 DEF WriteInv, Typed
<1>4. Writers' = Writers
  BY <1>2 DEF Writers
<1>5. LeaseTyped'
  BY <1>2 DEF LeaseInv, LeaseTyped
<1>6. Counted'
  BY <1>2, <1>4 DEF LeaseInv, Counted, Inner
<1>7. Standing'
  <2>1. ASSUME NEW q \in Inside, disk'[q] # Absent PROVE directory'
    <3>1. q \in Path
      BY WritesAreNamed
    <3>2. CASE q = p
      <4>1. p \in Inside /\ x # Absent
        BY <1>3, <2>1, <3>2
      <4>. QED BY <1>2, <4>1
    <3>3. CASE q # p
      <4>1. disk[q] # Absent
        BY <1>3, <2>1, <3>1, <3>3
      <4>. QED BY <1>2, <4>1 DEF LeaseInv, Standing
    <3>. QED BY <3>2, <3>3
  <2>. QED BY <1>2, <2>1 DEF LeaseInv, Standing, Inner
<1>8. Earned'
  BY <1>2 DEF LeaseInv, Earned
<1>9. ASSUME Calm' PROVE SeenTo' /\ OneFails'
  <2>1. touched' \intersect Inside = {}
    BY <1>9 DEF Calm
  <2>2. p \notin Inside /\ directory' = directory
    BY <1>2, <2>1
  <2>3. Calm
    <3>1. /\ crashes = 0 /\ errors <= 1 /\ leaked = {} /\ touched \intersect Inside = {}
          /\ \A d \in wrote \intersect Inner : status[d] \notin {"no effect", "closed"}
      BY <1>2, <1>9, <2>1 DEF Calm, Inner
    <3>2. ASSUME NEW d \in Inner PROVE ~Denied(d)
      <4>1. ~Denied(d)'
        BY <1>9 DEF Calm, Inner
      <4>. QED BY <1>2, <4>1 DEF Denied
    <3>. QED BY <3>1, <3>2 DEF Calm
  <2>4. SeenTo /\ OneFails
    BY <2>3 DEF LeaseInv
  <2>5. \A d \in wrote \intersect Inner : disk'[PathOf[d]] \in Call
    BY <1>3, <2>2, <2>4, Named DEF SeenTo, Inner
  <2>6. (Known' <=> Known) /\ (Unwritten' <=> Unwritten) /\ Failing' = Failing
    BY <1>2, <1>4 DEF Known, Marked, Owned, Unwritten, Failing, Inner
  <2>7. SeenTo'
    BY <1>2, <1>4, <2>2, <2>4, <2>5, <2>6 DEF SeenTo, Inner
  <2>8. OneFails'
    BY <1>2, <2>4, <2>6 DEF OneFails
  <2>. QED BY <2>7, <2>8
<1>. QED BY <1>5, <1>6, <1>7, <1>8, <1>9 DEF LeaseInv

LEMMA LeaseInit == WriteInit => LeaseInv
<1> SUFFICES ASSUME WriteInit PROVE LeaseInv
  OBVIOUS
<1>1. Writers = {} /\ wrote = {} /\ users = {}
  BY DEF WriteInit, Writers
<1>2. LeaseTyped /\ Counted
  BY <1>1 DEF WriteInit, LeaseTyped, Counted
<1>3. Standing
  BY WritesAreNamed DEF WriteInit, Standing, Inner, Before
<1>4. Earned
  BY WritesAreNamed DEF WriteInit, Earned, NoBaseline
<1>5. SeenTo /\ OneFails
  BY <1>1 DEF WriteInit, SeenTo, OneFails, Unwritten, Failing
<1>. QED BY <1>2, <1>3, <1>4, <1>5 DEF LeaseInv

LEMMA LeaseStep == WriteInv /\ LeaseInv /\ [WriteNext]_vars => LeaseInv'
<1> SUFFICES ASSUME WriteInv, LeaseInv, [WriteNext]_vars PROVE LeaseInv'
  OBVIOUS
<1>1. ASSUME NEW c \in Call, Execute(c) PROVE LeaseInv'
  BY <1>1, EnterLeases, CheckLeases, ParentsLeases, TempLeases, RecheckLeases, ReplaceLeases, CaptureLeases,
     ProvenanceLeases, CleanupLeases, LeaveLeases, ReleaseLeases, FinishLeases DEF Execute
<1>2. ASSUME NEW c \in Call, Prepare(c) \/ Stage(c) \/ Drop(c) \/ Begin(c) PROVE LeaseInv'
  BY <1>2, ExecutorLeases
<1>3. ASSUME NEW c \in Call, Interrupt(c) \/ Confirm(c) \/ GiveUp(c) PROVE LeaseInv'
  BY <1>3, InterruptLeases, ReconcileLeases
<1>4. ASSUME NEW p \in Path, Save(p) \/ Remove(p) PROVE LeaseInv'
  BY <1>4, EditLeases
<1>5. CASE UNCHANGED vars
  <2>1. UNCHANGED <<disk, directory, at, result, created, owns, users, unowned, claimed,
                    status, snapshot, wrote, touched, stray, leaked, crashes, errors, main>>
    BY <1>5 DEF vars, local, coordinator, log, world, environment
  <2>2. LeaseTyped' /\ Counted' /\ Standing' /\ Earned'
    BY <2>1 DEF LeaseInv, LeaseTyped, Counted, Standing, Earned, Writers, Inner
  <2>3. Calm' => Calm
    BY <2>1 DEF Calm, Denied, Inner
  <2>4. SeenTo /\ OneFails => SeenTo' /\ OneFails'
    BY <2>1 DEF SeenTo, OneFails, Known, Marked, Owned, Unwritten, Failing, Writers, Inner
  <2>. QED BY <2>2, <2>3, <2>4 DEF LeaseInv
<1>. QED BY <1>1, <1>2, <1>3, <1>4, <1>5, CrashLeases DEF WriteNext

(* At the end of a turn in which one write at most failed, and no Ctrl-C fell *)
(* outside the handlers of a write there, the directory its writes made is   *)
(* there exactly if undo will find it recorded with one of them.             *)
(* (FileMutationCoordinator: successful_provenance, cleanup_failed.)         *)
THEOREM DirectoriesAreAccountedFor == WriteSpec => []DirectoryIsAccountedFor
<1>1. WriteInv /\ LeaseInv => DirectoryIsAccountedFor
  <2> SUFFICES ASSUME WriteInv, LeaseInv, Quiet, crashes = 0, errors <= 1, leaked = {},
                      touched \intersect Inside = {},
                      \A p \in Inside : Hidden(p) = {}
               PROVE  directory <=> Marked
    BY DEF DirectoryIsAccountedFor, Marked
  <2>1. \A c \in Call : at[c] \notin Dispatched
    BY DEF Quiet, Executing
  <2>2. \A c \in wrote \intersect Inner : status[c] \notin {"no effect", "closed"}
    BY DEF Hidden, Inner
  <2>3. Calm
    BY <2>1, <2>2 DEF Calm, Denied, Inner, Dispatched
  <2>4. SeenTo
    BY <2>3 DEF LeaseInv
  <2>5. ~unowned /\ ~Owned
    BY <2>1, WritersWalk DEF LeaseInv, Counted, Owned, Inner, Dispatched
  <2>6. directory => Marked
    BY <2>4, <2>5 DEF SeenTo, Known
  <2>7. ASSUME Marked PROVE directory
    <3>1. PICK c \in wrote \intersect Inner : TRUE
      BY <2>7, KnownIsWritten DEF Known, Unwritten
    <3>2. PathOf[c] \in Inside /\ disk[PathOf[c]] \in Call
      BY <2>4, <3>1 DEF SeenTo, Inner
    <3>. QED BY <3>2, Named DEF LeaseInv, Standing
  <2>. QED BY <2>6, <2>7
<1>. QED BY <1>1, LeaseInit, LeaseStep, WriteInvariance, PTL DEF WriteSpec

(* A write that fails alone takes back the directory it made: with no write  *)
(* done and nobody else in it, it is gone, unless a second one failed or a   *)
(* Ctrl-C fell outside the handlers.                                         *)
(* (_cleanup_failed.)                                                         *)
THEOREM OneFailureRollsBack ==
  WriteSpec => [](crashes = 0 /\ errors <= 1 /\ leaked = {} => FailedWritesRollBack)
<1>1. /\ WriteInv /\ LeaseInv /\ DirectoryIsAccountedFor /\ crashes = 0 /\ errors <= 1 /\ leaked = {}
      => FailedWritesRollBack
  <2> SUFFICES ASSUME LeaseInv, DirectoryIsAccountedFor, crashes = 0, errors <= 1, leaked = {},
                      Quiet, wrote = {}, touched \intersect Inside = {}
               PROVE  ~directory
    BY DEF FailedWritesRollBack
  <2>1. \A p \in Inside : Hidden(p) = {}
    BY DEF Hidden
  <2>2. directory => \E p \in Inside : snapshot[p].made
    BY <2>1 DEF DirectoryIsAccountedFor
  <2>. QED BY <2>2 DEF LeaseInv, Earned
<1>2. WriteSpec => [](WriteInv /\ LeaseInv)
  BY LeaseInit, LeaseStep, WriteInvariance, PTL DEF WriteSpec
<1>. QED BY <1>1, <1>2, DirectoriesAreAccountedFor, PTL

(* Only an editor that saves between the replacement and the capture makes a *)
(* log that cannot be replayed: what a write captures is else what it wrote, *)
(* and its recorded success is never refused. (_apply_tool_finished.)         *)
THEOREM UndisturbedLogsReplay == WriteSpec => [](touched = {} => LogStaysReadable)
<1> DEFINE Readable == touched = {} => LogStaysReadable
<1>1. WriteInit => Readable
  BY DEF WriteInit, LogStaysReadable
<1>2. WriteInv /\ Readable /\ [WriteNext]_vars => Readable'
  <2> SUFFICES ASSUME WriteInv, Readable, [WriteNext]_vars, touched' = {} PROVE ~unreadable'
    BY DEF LogStaysReadable
  <2>1. ASSUME NEW p \in Path, Save(p) \/ Remove(p) PROVE FALSE
    BY <2>1 DEF Save, Remove
  <2>2. ASSUME UNCHANGED <<touched, unreadable>> PROVE ~unreadable'
    BY <2>2 DEF LogStaysReadable
  <2>3. ASSUME NEW c \in Call, Finish(c) PROVE ~unreadable'
    <3>1. touched = {} /\ ~unreadable
      BY <2>3 DEF Finish, environment, LogStaysReadable
    <3>2. result[c] = None \/ result[c] = c
      BY <3>1 DEF WriteInv, StillThere
    <3>3. unreadable' = unreadable
      BY <2>3, <3>2, Named DEF Finish
    <3>. QED BY <3>1, <3>3
  <2>4. ASSUME NEW c \in Call,
               \/ Prepare(c) \/ Stage(c) \/ Drop(c) \/ Begin(c) \/ Interrupt(c) \/ Confirm(c) \/ GiveUp(c)
               \/ Enter(c) \/ Check(c) \/ Parents(c) \/ Temp(c) \/ Recheck(c) \/ Replace(c)
               \/ Capture(c) \/ Provenance(c) \/ Cleanup(c) \/ Leave(c) \/ Release(c)
        PROVE  UNCHANGED <<touched, unreadable>>
    BY <2>4 DEF Prepare, Stage, Drop, Begin, Interrupt, Confirm, GiveUp, Enter, Check, Parents, Temp, Recheck,
                Replace, Capture, Provenance, Cleanup, Leave, Release, SameWorld, world, environment, log
  <2>5. Crash \/ UNCHANGED vars => UNCHANGED <<touched, unreadable>>
    BY DEF Crash, vars, world, environment, log
  <2>. QED BY <2>1, <2>2, <2>3, <2>4, <2>5 DEF WriteNext, Execute
<1>. QED BY <1>1, <1>2, WriteInvariance, PTL DEF WriteSpec

(* Every part of the state has its type; the tickets are those of the calls  *)
(* in or before their turn and the lost ones, whoever holds one is counted   *)
(* as a user, and a user of the directory that is gone was leaked.           *)
(* (FileMutationCoordinator, _turn and mutation.)                            *)
THEOREM WritesAreTyped == WriteSpec => []WriteTypeOK
<1> DEFINE Fresh == used \subseteq Edit
<1>1. WriteInit => Fresh
  BY DEF WriteInit
<1>2. Fresh /\ [WriteNext]_vars => Fresh'
  <2> SUFFICES ASSUME Fresh, [WriteNext]_vars PROVE Fresh'
    OBVIOUS
  <2>1. ASSUME NEW p \in Path, Save(p) \/ Remove(p) PROVE Fresh'
    BY <2>1 DEF Save, Remove
  <2>2. ASSUME NEW c \in Call,
               \/ Prepare(c) \/ Stage(c) \/ Drop(c) \/ Begin(c) \/ Interrupt(c) \/ Confirm(c) \/ GiveUp(c)
               \/ Enter(c) \/ Check(c) \/ Parents(c) \/ Temp(c) \/ Recheck(c) \/ Replace(c)
               \/ Capture(c) \/ Provenance(c) \/ Cleanup(c) \/ Leave(c) \/ Release(c) \/ Finish(c)
        PROVE  used' = used
    BY <2>2 DEF Prepare, Stage, Drop, Begin, Interrupt, Confirm, GiveUp, Enter, Check, Parents, Temp, Recheck,
                Replace, Capture, Provenance, Cleanup, Leave, Release, Finish, SameWorld, world, environment, log
  <2>3. Crash \/ UNCHANGED vars => used' = used
    BY DEF Crash, vars, world, environment, log
  <2>. QED BY <2>1, <2>2, <2>3 DEF WriteNext, Execute
<1>3. WriteInv /\ LeaseInv /\ Fresh => WriteTypeOK
  <2> SUFFICES ASSUME WriteInv, LeaseInv, Fresh PROVE WriteTypeOK
    OBVIOUS
  <2>. USE DEF WriteInv, LeaseInv
  <2>1. \A p \in Path : \A i \in 1 .. Len(queue[p]) : PathOf[queue[p][i]] = p
    BY DEF InLine
  <2>2. Queued = Holding
    BY DEF Queued, InTurn, Holding, Dispatched
  <2>3. ASSUME NEW c \in Call
        PROVE  /\ (\E i \in 1 .. Len(queue[PathOf[c]]) : queue[PathOf[c]][i] = c)
                     <=> at[c] \in Holding \/ c \in lost
               /\ at[c] \in Holding \union {"releasing"} => c \in users
               /\ c \in Writers => at[c] \in Holding \union {"releasing"} \/ c \in leaked
    <3>1. ASSUME NEW i \in 1 .. Len(queue[PathOf[c]]), queue[PathOf[c]][i] = c
          PROVE  at[c] \in Queued \/ c \in lost
      <4>1. PathOf[c] \in Path
        BY WritesAreNamed
      <4>. QED BY <3>1, <4>1 DEF InLine, Queued
    <3>. QED BY <2>2, <3>1 DEF HasTicket, Counted, Riding
  <2>4. \A p \in Path : snapshot[p].before \in Version \union {None} /\ snapshot[p].after \in Version \union {None}
    BY DEF Typed
  <2>. QED BY <2>1, <2>3, <2>4 DEF WriteTypeOK, Typed, LeaseTyped, Statuses, Inner
<1>. QED BY <1>1, <1>2, <1>3, LeaseInit, LeaseStep, WriteInvariance, PTL DEF WriteSpec
=============================================================================
