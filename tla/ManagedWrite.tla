---------------------------- MODULE ManagedWrite ----------------------------
(***************************************************************************)
(* write_file and edit_file of one turn: a write is prepared on the version *)
(* it read, planned and given a baseline in the rollout, and carried out in *)
(* a thread under the lock of its path, with two checks that the version is *)
(* still there.  Writers of one new directory share its creation.           *)
(* Meanwhile an editor saves and deletes the files, a call fails, Ctrl-C is *)
(* pressed, and the process dies and is recovered.                          *)
(*                                                                          *)
(* A version is named by who wrote it, as a FileVersion with its inode and  *)
(* times is met only once.  The paths are in one new directory, or in one   *)
(* that stays.  Left out: approval and scheduling, which are in Session,    *)
(* and paths and sizes that are refused.                                    *)
(***************************************************************************)
EXTENDS Naturals, Sequences, FiniteSets

CONSTANTS Call, Path, Edit,     \* the writes, the files, and what an editor saves
          PathOf,               \* the file of each write
          Inside,               \* the files of the new directory; the others exist
          MaxCrashes, MaxInterrupts, MaxErrors   \* bounds on the environment

CONSTANTS Absent, Original, None

Version == Call \union Edit \union {Absent, Original}

ASSUME WritesAreNamed ==
  /\ PathOf \in [Call -> Path] /\ Inside \subseteq Path
  /\ Call \intersect Edit = {}
  /\ {Absent, Original, None} \intersect (Call \union Edit) = {}
  /\ Cardinality({Absent, Original, None}) = 3
  /\ {MaxCrashes, MaxInterrupts, MaxErrors} \subseteq Nat

VARIABLES disk, directory,      \* the version at each path, and whether the directory is there
          at,                   \* where each call is
          expected,             \* the version it was prepared on
          result,               \* what it captured after its write, or None
          created, owns,        \* it made the directory; it is to be undone with it
          queue,                \* the tickets of each path
          users, unowned, claimed,   \* the coordinator on the directory
          status,               \* the rollout: the status of each call,
          snapshot,             \*   the baseline of each path,
          unreadable,           \*   and whether it holds an event replay refuses
          stray,                \* a temporary file was left in the new directory
          wrote, touched,       \* history: the effects, and the paths an editor touched,
          lost, leaked,         \*   and what Ctrl-C kept from being given back: the
                                \*   tickets, and the writes' parts in the new directory
          used, crashes, interrupts, errors,
          main                  \* the call that runs on the main thread, or None

log == <<status, snapshot, unreadable>>
coordinator == <<queue, users, unowned, claimed>>
local == <<expected, result, created, owns>>
environment == <<stray, touched, lost, leaked, used, crashes, interrupts, errors>>
world == <<environment, main>>
vars == <<disk, directory, at, local, coordinator, log, wrote, world>>

Before(p) == IF p \in Inside THEN Absent ELSE Original

NoBaseline == [before |-> None, source |-> None, after |-> None, made |-> FALSE]

WriteInit ==
  /\ disk = [p \in Path |-> Before(p)]
  /\ directory = FALSE
  /\ at = [c \in Call |-> "unborn"]
  /\ expected = [c \in Call |-> None] /\ result = [c \in Call |-> None]
  /\ created = [c \in Call |-> FALSE] /\ owns = [c \in Call |-> FALSE]
  /\ queue = [p \in Path |-> <<>>]
  /\ users = {} /\ unowned = FALSE /\ claimed = FALSE
  /\ status = [c \in Call |-> "none"]
  /\ snapshot = [p \in Path |-> NoBaseline]
  /\ unreadable = FALSE
  /\ stray = FALSE /\ lost = {} /\ leaked = {}
  /\ wrote = {} /\ touched = {} /\ used = {}
  /\ crashes = 0 /\ interrupts = 0 /\ errors = 0
  /\ main = None

Dispatched == {"started", "waiting", "parents", "temp", "recheck", "replace",
               "cleanup", "capture", "provenance", "leaving", "releasing", "finish"}
Executing == {c \in Call : at[c] \in Dispatched}
Blocked == \E c \in Call : status[c] = "unknown"

Go(c, step) == at' = [at EXCEPT ![c] = step]
SameFiles == UNCHANGED <<disk, directory, wrote>>
SameWorld == UNCHANGED world

-----------------------------------------------------------------------------
(* Preparation, by the executor on the main thread. *)

Prepare(c) ==
  /\ at[c] = "unborn" /\ Executing = {} /\ ~Blocked /\ ~unreadable
  /\ expected' = [expected EXCEPT ![c] = disk[PathOf[c]]]
  /\ status' = [status EXCEPT ![c] = "requested"]
  /\ Go(c, "prepared")
  /\ SameFiles /\ SameWorld
  /\ UNCHANGED <<result, created, owns, coordinator, snapshot, unreadable>>

(* Bug: every write takes a baseline of its own.                             *)
LatestBaseline(c) == [before |-> expected[c], source |-> c, after |-> None, made |-> FALSE]

(* _apply_file_snapshot: the first baseline stays, unless the call that took *)
(* it is known to have had no effect.                                        *)
Baseline(c) ==
  LET old == snapshot[PathOf[c]]
      new == [before |-> expected[c], source |-> c, after |-> None, made |-> FALSE]
  IN  IF old = NoBaseline THEN new
      ELSE IF old.after = None /\ status[old.source] = "no effect" THEN new
      ELSE old

(* It was approved: the plan and the baseline are recorded.                  *)
Stage(c) ==
  /\ at[c] = "prepared" /\ Executing = {} /\ ~unreadable
  /\ snapshot' = [snapshot EXCEPT ![PathOf[c]] = Baseline(c)]
  /\ Go(c, "staged")
  /\ SameFiles /\ SameWorld
  /\ UNCHANGED <<local, coordinator, status, unreadable>>

(* It was denied, or cancelled before it was started.                        *)
Drop(c) ==
  /\ at[c] \in {"prepared", "staged"} /\ ~unreadable
  /\ status' = [status EXCEPT ![c] = "no effect"]
  /\ Go(c, "done")
  /\ SameFiles /\ SameWorld
  /\ UNCHANGED <<local, coordinator, snapshot, unreadable>>

(* A serial call runs on the main thread, a wave of code nodes in workers.   *)
Begin(c) ==
  /\ at[c] = "staged" /\ ~unreadable /\ main = None
  /\ main' \in {None} \union (IF Executing = {} THEN {c} ELSE {})
  /\ status' = [status EXCEPT ![c] = "started"]
  /\ Go(c, "started")
  /\ SameFiles /\ UNCHANGED environment
  /\ UNCHANGED <<local, coordinator, snapshot, unreadable>>

-----------------------------------------------------------------------------
(* PreparedFileChange.execute, in a thread. *)

Enter(c) ==
  /\ at[c] = "started"
  /\ users' = users \union {c}
  /\ queue' = [queue EXCEPT ![PathOf[c]] = Append(@, c)]
  /\ Go(c, "waiting")
  /\ SameFiles /\ SameWorld /\ UNCHANGED <<local, unowned, claimed, log>>

HasParent(p) == p \in Inside => directory
Unchanged(c) == disk[PathOf[c]] = expected[c]

(* Bug: a write does not wait for the lock of its path.                      *)
CheckOutOfTurn(c) ==
  /\ at[c] = "waiting"
  /\ Go(c, IF Unchanged(c) THEN "parents" ELSE "leaving")
  /\ SameFiles /\ SameWorld /\ UNCHANGED <<local, coordinator, log>>

Check(c) ==
  /\ at[c] = "waiting" /\ Head(queue[PathOf[c]]) = c
  /\ Go(c, IF Unchanged(c) THEN "parents" ELSE "leaving")
  /\ SameFiles /\ SameWorld /\ UNCHANGED <<local, coordinator, log>>

Parents(c) ==
  /\ at[c] = "parents"
  /\ created' = [created EXCEPT ![c] = ~HasParent(PathOf[c])]
  /\ unowned' = (unowned \/ ~HasParent(PathOf[c]))
  /\ directory' = (directory \/ PathOf[c] \in Inside)
  /\ Go(c, "temp")
  /\ SameWorld
  /\ UNCHANGED <<disk, wrote, expected, result, owns, queue, users, claimed, log>>

(* The proposed bytes are written to a temporary file beside the target.     *)
Temp(c) ==
  /\ at[c] = "temp"
  /\ \/ HasParent(PathOf[c]) /\ Go(c, "recheck") /\ UNCHANGED errors
     \/ ~HasParent(PathOf[c]) /\ Go(c, "cleanup") /\ UNCHANGED errors
     \/ /\ errors < MaxErrors /\ errors' = errors + 1
        /\ Go(c, "cleanup")
  /\ SameFiles
  /\ UNCHANGED <<local, coordinator, log, stray, touched, lost, leaked, used,
                  crashes, interrupts, main>>

Recheck(c) ==
  /\ at[c] = "recheck"
  /\ Go(c, IF Unchanged(c) THEN "replace" ELSE "cleanup")
  /\ SameFiles /\ SameWorld /\ UNCHANGED <<local, coordinator, log>>

Replace(c) ==
  /\ at[c] = "replace"
  /\ disk' = [disk EXCEPT ![PathOf[c]] = c]
  /\ wrote' = wrote \union {c}
  /\ Go(c, "capture")
  /\ SameWorld /\ UNCHANGED <<directory, local, coordinator, log>>

(* What is there now is what the write is recorded to have left.  A change   *)
(* while it is read raises, and the write is reported failed.                *)
Capture(c) ==
  /\ at[c] = "capture"
  /\ \/ /\ result' = [result EXCEPT ![c] = disk[PathOf[c]]]
        /\ Go(c, "provenance")
     \/ /\ disk[PathOf[c]] # c
        /\ Go(c, "leaving") /\ UNCHANGED result
  /\ SameFiles /\ SameWorld /\ UNCHANGED <<expected, created, owns, coordinator, log>>

(* Bug: only the write that made the directory records it.                   *)
ProvenanceOfMaker(c) ==
  /\ at[c] = "provenance"
  /\ owns' = [owns EXCEPT ![c] = created[c]]
  /\ Go(c, "leaving")
  /\ SameFiles /\ SameWorld /\ UNCHANGED <<expected, result, created, coordinator, log>>

(* _successful_provenance: a directory nobody accounts for is taken over.    *)
Adopts(c) == PathOf[c] \in Inside /\ unowned /\ ~claimed /\ directory

Provenance(c) ==
  /\ at[c] = "provenance"
  /\ owns' = [owns EXCEPT ![c] = Adopts(c)]
  /\ claimed' = (claimed \/ Adopts(c))
  /\ unowned' = (unowned /\ ~Adopts(c))
  /\ Go(c, "leaving")
  /\ SameFiles /\ SameWorld /\ UNCHANGED <<expected, result, created, queue, users, log>>

Writers == {c \in users : PathOf[c] \in Inside}

Occupied == \/ stray
            \/ \E p \in Inside : disk[p] # Absent
            \/ \E c \in Writers : at[c] \in {"recheck", "replace"}

(* Bug: the other users of the directory are forgotten.                      *)
CleanupAlone(c) ==
  /\ at[c] = "cleanup"
  /\ LET removes == created[c] /\ ~claimed /\ directory /\ ~Occupied
     IN  /\ directory' = (directory /\ ~removes)
         /\ unowned' = (unowned /\ ~removes)
  /\ Go(c, "leaving")
  /\ SameWorld /\ UNCHANGED <<disk, wrote, local, queue, users, claimed, log>>

(* _cleanup_failed: the last user of a directory made in vain removes it.    *)
Removes(c) == /\ PathOf[c] \in Inside /\ (created[c] \/ unowned)
              /\ ~claimed /\ Writers = {c} /\ directory /\ ~Occupied

Cleanup(c) ==
  /\ at[c] = "cleanup"
  /\ directory' = (directory /\ ~Removes(c))
  /\ unowned' = (unowned /\ ~Removes(c))
  /\ Go(c, "leaving")
  /\ SameWorld /\ UNCHANGED <<disk, wrote, local, queue, users, claimed, log>>

(* Bug: the ticket is not given back.                                        *)
LeaveTicket(c) ==
  /\ at[c] = "leaving"
  /\ Go(c, "releasing")
  /\ SameFiles /\ SameWorld /\ UNCHANGED <<local, coordinator, log>>

(* The finally of _turn: the ticket is given back.                           *)
Leave(c) ==
  /\ at[c] = "leaving"
  /\ queue' = [queue EXCEPT ![PathOf[c]] = Tail(@)]
  /\ Go(c, "releasing")
  /\ SameFiles /\ SameWorld /\ UNCHANGED <<local, users, unowned, claimed, log>>

(* The finally of mutation: the last user takes the marks along.             *)
Release(c) ==
  /\ at[c] = "releasing"
  /\ users' = users \ {c}
  /\ unowned' = (unowned /\ Writers # {c})
  /\ claimed' = (claimed /\ Writers # {c})
  /\ Go(c, "finish")
  /\ SameFiles /\ SameWorld /\ UNCHANGED <<local, queue, log>>

-----------------------------------------------------------------------------
(* The result is recorded, on the main thread. *)

(* The reducer refuses a success whose hash is not the planned one, after    *)
(* the event is durable.                                                     *)
Finish(c) ==
  /\ at[c] = "finish" /\ ~unreadable
  /\ CASE result[c] = None ->
            /\ status' = [status EXCEPT ![c] = "no effect"]
            /\ UNCHANGED <<snapshot, unreadable>>
       [] result[c] = c ->
            /\ status' = [status EXCEPT ![c] = "succeeded"]
            /\ snapshot' = [snapshot EXCEPT ![PathOf[c]].after = c,
                                            ![PathOf[c]].made = @ \/ owns[c]]
            /\ UNCHANGED unreadable
       [] OTHER -> unreadable' = TRUE /\ UNCHANGED <<status, snapshot>>
  /\ main' = None
  /\ Go(c, "done")
  /\ SameFiles /\ UNCHANGED environment /\ UNCHANGED <<local, coordinator>>

-----------------------------------------------------------------------------
(* What comes from outside. *)

(* Ctrl-C while a call runs on the main thread, and nothing else does.  It is *)
(* held back from the replacement to the capture; later the effect is there  *)
(* and the call is recorded as interrupted or cancelled.                     *)

SameLease == UNCHANGED <<directory, stray, users, unowned, claimed, leaked>>
Leaks(c) == leaked' = leaked \union (IF PathOf[c] \in Inside THEN {c} ELSE {})

(* It is met where a handler gives back what the call has taken.             *)
Handled(c) ==
  /\ at[c] \notin {"cleanup", "leaving"}
  /\ at[c] = "waiting" => Head(queue[PathOf[c]]) = c
  /\ Go(c, CASE at[c] \in {"waiting", "parents", "provenance"} -> "leaving"
             [] at[c] \in {"temp", "recheck"} -> "cleanup"
             [] at[c] = "releasing" -> "releasing"
             [] OTHER -> "finish")
  /\ SameLease /\ UNCHANGED lost

(* _turn has a ticket, and is not inside its try or has not yet counted up.  *)
LoseTicket(c) ==
  /\ at[c] \in {"waiting", "leaving"}
  /\ lost' = lost \union {c}
  /\ Go(c, "releasing")
  /\ SameLease

(* mutation counts the call as a user, and does not or only partly undo it.  *)
LoseUser(c) ==
  /\ \/ at[c] = "started" /\ users' = users \union {c} /\ UNCHANGED <<unowned, claimed>>
     \/ /\ at[c] = "releasing"
        /\ \/ UNCHANGED <<users, unowned>>
           \/ users' = users \ {c} /\ unowned' \in {unowned, unowned /\ Writers # {c}}
        /\ UNCHANGED claimed
  /\ Leaks(c)
  /\ Go(c, "finish")
  /\ UNCHANGED <<directory, stray, lost>>

(* The directory is made: not yet marked, marked inside the try, or after it. *)
MakeAndStop(c) ==
  /\ at[c] = "parents" /\ ~HasParent(PathOf[c])
  /\ directory' = TRUE
  /\ \/ unowned' = TRUE /\ Go(c, "cleanup") /\ UNCHANGED leaked
     \/ unowned' \in {unowned, TRUE} /\ Go(c, "leaving") /\ Leaks(c)
  /\ UNCHANGED <<stray, users, claimed, lost>>

(* The call is between the handlers, or inside one: it leaves the directory, *)
(* a temporary file in it, or the marks as they are at that point.           *)
LoseDirectory(c) ==
  /\ \/ at[c] = "temp" /\ Go(c, "leaving") /\ UNCHANGED <<directory, stray, claimed>>
     \/ /\ at[c] = "temp" /\ HasParent(PathOf[c])
        /\ stray' = (stray \/ PathOf[c] \in Inside)
        /\ Go(c, "cleanup") /\ UNCHANGED <<directory, claimed>>
     \/ /\ at[c] = "cleanup"
        /\ stray' \in {stray, stray \/ (PathOf[c] \in Inside /\ directory)}
        /\ Go(c, "leaving") /\ UNCHANGED <<directory, claimed>>
     \/ /\ at[c] = "cleanup"
        /\ directory' = (directory /\ ~Removes(c))
        /\ Go(c, "leaving") /\ UNCHANGED <<stray, claimed>>
     \/ /\ at[c] = "provenance"
        /\ claimed' = (claimed \/ Adopts(c))
        /\ Go(c, "leaving") /\ UNCHANGED <<directory, stray>>
  /\ Leaks(c)
  /\ UNCHANGED <<users, unowned, lost>>

Interrupt(c) ==
  /\ main = c /\ interrupts < MaxInterrupts
  /\ at[c] \in Dispatched \ {"replace", "capture"}
  /\ interrupts' = interrupts + 1
  /\ result' = [result EXCEPT ![c] = None]
  /\ Handled(c) \/ LoseTicket(c) \/ LoseUser(c) \/ MakeAndStop(c) \/ LoseDirectory(c)
  /\ UNCHANGED <<disk, wrote, expected, created, owns, queue, log, touched, used,
                 crashes, errors, main>>

(* The process dies, and resume_session closes what it left.                 *)
Crash ==
  /\ crashes < MaxCrashes /\ ~unreadable
  /\ crashes' = crashes + 1
  /\ status' = [c \in Call |-> CASE status[c] = "requested" -> "no effect"
                               [] status[c] = "started" -> "unknown"
                               [] OTHER -> status[c]]
  /\ at' = [c \in Call |-> IF at[c] = "unborn" THEN "unborn" ELSE "done"]
  /\ result' = [c \in Call |-> None]
  /\ created' = [c \in Call |-> FALSE] /\ owns' = [c \in Call |-> FALSE]
  /\ queue' = [p \in Path |-> <<>>]
  /\ users' = {} /\ unowned' = FALSE /\ claimed' = FALSE /\ main' = None
  /\ lost' = {}
  /\ SameFiles
  /\ UNCHANGED <<expected, snapshot, unreadable, stray, touched, leaked, used, interrupts, errors>>

(* Bug: the file is not looked at.                                           *)
ConfirmUnseen(c) ==
  /\ status[c] = "unknown"
  /\ status' = [status EXCEPT ![c] = "succeeded"]
  /\ snapshot' = [snapshot EXCEPT ![PathOf[c]].after = c]
  /\ SameFiles /\ SameWorld
  /\ UNCHANGED <<at, local, coordinator, unreadable>>

(* reconcile_tool: success is taken only with the planned content in place.  *)
Confirm(c) ==
  /\ status[c] = "unknown" /\ disk[PathOf[c]] = c
  /\ status' = [status EXCEPT ![c] = "succeeded"]
  /\ snapshot' = [snapshot EXCEPT ![PathOf[c]].after = c]
  /\ SameFiles /\ SameWorld
  /\ UNCHANGED <<at, local, coordinator, unreadable>>

GiveUp(c) ==
  /\ status[c] = "unknown"
  /\ status' = [status EXCEPT ![c] = "closed"]
  /\ SameFiles /\ SameWorld
  /\ UNCHANGED <<at, local, coordinator, snapshot, unreadable>>

(* An editor saves a file, making the directory if it must.                  *)
Save(p) ==
  /\ \E e \in Edit \ used : used' = used \union {e} /\ disk' = [disk EXCEPT ![p] = e]
  /\ directory' = (directory \/ p \in Inside)
  /\ touched' = touched \union {p}
  /\ UNCHANGED <<at, local, coordinator, log, wrote, stray, lost, leaked,
                 crashes, interrupts, errors, main>>

(* It deletes a file, and counts it as an edit.                              *)
Remove(p) ==
  /\ disk[p] # Absent
  /\ \E e \in Edit \ used : used' = used \union {e}
  /\ disk' = [disk EXCEPT ![p] = Absent]
  /\ touched' = touched \union {p}
  /\ UNCHANGED <<directory, at, local, coordinator, log, wrote, stray, lost, leaked,
                 crashes, interrupts, errors, main>>

Execute(c) == \/ Enter(c) \/ Check(c) \/ Parents(c) \/ Temp(c) \/ Recheck(c) \/ Replace(c)
              \/ Capture(c) \/ Provenance(c) \/ Cleanup(c) \/ Leave(c) \/ Release(c)
              \/ Finish(c)

WriteNext ==
  \/ \E c \in Call : \/ Prepare(c) \/ Stage(c) \/ Drop(c) \/ Begin(c) \/ Execute(c)
                     \/ Interrupt(c) \/ Confirm(c) \/ GiveUp(c)
  \/ Crash
  \/ \E p \in Path : Save(p) \/ Remove(p)

WriteSpec == WriteInit /\ [][WriteNext]_vars

-----------------------------------------------------------------------------
(* Where a call holds a ticket of its path.                                  *)
Holding == Dispatched \ {"started", "releasing", "finish"}

WriteTypeOK ==
  /\ disk \in [Path -> Version] /\ directory \in BOOLEAN
  /\ at \in [Call -> Dispatched \union {"unborn", "prepared", "staged", "done"}]
  /\ expected \in [Call -> Version \union {None}] /\ result \in [Call -> Version \union {None}]
  /\ created \in [Call -> BOOLEAN] /\ owns \in [Call -> BOOLEAN]
  /\ \A p \in Path : \A i \in 1 .. Len(queue[p]) : PathOf[queue[p][i]] = p
  /\ \A c \in Call :
       /\ (\E i \in 1 .. Len(queue[PathOf[c]]) : queue[PathOf[c]][i] = c)
             <=> at[c] \in Holding \/ c \in lost
       /\ at[c] \in Holding \union {"releasing"} => c \in users
       /\ c \in Writers => at[c] \in Holding \union {"releasing"} \/ c \in leaked
  /\ unowned \in BOOLEAN /\ claimed \in BOOLEAN
  /\ status \in [Call -> {"none", "requested", "started", "succeeded", "no effect", "unknown", "closed"}]
  /\ \A p \in Path : /\ snapshot[p].before \in Version \union {None}
                      /\ snapshot[p].after \in Version \union {None}
  /\ wrote \subseteq Call /\ touched \subseteq Path /\ used \subseteq Edit
  /\ stray \in BOOLEAN /\ lost \subseteq Call
  /\ leaked \subseteq {c \in Call : PathOf[c] \in Inside}

Quiet == Executing = {} /\ ~Blocked /\ ~unreadable

(* The effects that the log denies: a Ctrl-C or a failed capture after the   *)
(* replacement, or a user who gave an unknown write up.                      *)
Hidden(p) == {c \in wrote : PathOf[c] = p /\ status[c] \in {"no effect", "closed"}}

(* A write never replaces the work of another write that it was not prepared *)
(* on, however the calls are staged and their threads interleave: the second *)
(* check and the replacement are one turn of the lock of the path.           *)
WritesSeeEachOther ==
  [][\A p \in Path : disk'[p] # disk[p] /\ disk'[p] \in Call /\ disk[p] \in Call
        => expected[disk'[p]] = disk[p]]_vars

(* Once nothing runs and nothing is unknown, the log alone says what is in   *)
(* each file that no editor touched: its last recorded write, or what was    *)
(* there before the turn; the conflict check of undo rests on it.            *)
LogKnowsTheFile ==
  Quiet => \A p \in Path \ touched :
    Hidden(p) = {} => disk[p] = IF snapshot[p].after = None THEN Before(p)
                                                             ELSE snapshot[p].after

(* The baseline an undo would restore is what was there before the first     *)
(* write of the turn, through denials, conflicts, crashes and reconciliation *)
(* (_apply_file_snapshot).                                                   *)
BaselineIsTheTurns ==
  \A p \in Path \ touched :
    snapshot[p].after # None /\ Hidden(p) = {} => snapshot[p].before = Before(p)

(* As long as one write at most fails, and no Ctrl-C falls outside the       *)
(* handlers of a write there, a directory that the writes of the turn made   *)
(* is there exactly if undo will find it recorded with one of them, whoever  *)
(* made it and in whatever order (FileMutationCoordinator).                  *)
(* FailedWritesRollBack is what becomes of it when two fail, or Ctrl-C does. *)
DirectoryIsAccountedFor ==
  Quiet /\ crashes = 0 /\ errors <= 1 /\ leaked = {} /\ touched \intersect Inside = {}
        /\ (\A p \in Inside : Hidden(p) = {})
    => (directory <=> \E p \in Inside : snapshot[p].made)

(* The cleanup of a failed write never removes the directory of a write that *)
(* found it there and goes on.                                               *)
DirectoryIsKept ==
  \A c \in Call : at[c] = "temp" => HasParent(PathOf[c])

(* A ticket of a path is that of a call that waits or is in its turn, the    *)
(* first of them in its turn, and each is held once: through conflicts,      *)
(* failures and crashes no ticket stays behind, but for the ones a Ctrl-C    *)
(* made _turn lose.  EveryoneIsServed is what becomes of the path then.      *)
TicketsAreServed ==
  \A p \in Path : \A i, j \in 1 .. Len(queue[p]) :
    /\ queue[p][i] \in lost \/ at[queue[p][i]] \in IF i = 1 THEN Holding ELSE {"waiting"}
    /\ queue[p][i] = queue[p][j] => i = j

-----------------------------------------------------------------------------
(* Failed writes take back the directory they made (cleanup_failed): with    *)
(* no write done and nobody else there, it is gone.  Two that fail together  *)
(* each leave it to the other: its users are counted until they leave, after *)
(* the cleanup.                                                              *)
FailedWritesRollBack ==
  Quiet /\ wrote = {} /\ touched \intersect Inside = {} => ~directory

(* The writes of a path run in the order they arrived (FileMutationCoordinator): *)
(* whoever waits, waits for a call that will give the lock back.                 *)
EveryoneIsServed ==
  \A c \in Call : at[c] = "waiting" => at[Head(queue[PathOf[c]])] \in Holding

(* A session is rebuilt by replaying its rollout from the start: no fact     *)
(* that was made durable is refused by the reducer.                          *)
LogStaysReadable == ~unreadable

(* /undo can take back what the managed tools completed in a turn: once no   *)
(* call of the turn is left to be carried out, every snapshot that undo will *)
(* check has a write that succeeded (_preflight).                            *)
SuccessCanBeUndone ==
  /\ Quiet /\ \A c \in Call : at[c] \in {"unborn", "done"}
  /\ \E c \in Call : status[c] = "succeeded"
  => \A p \in Path : snapshot[p] = NoBaseline \/ snapshot[p].after # None
=============================================================================
