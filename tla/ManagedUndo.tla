----------------------------- MODULE ManagedUndo -----------------------------
(***************************************************************************)
(* /undo of one turn: every managed file is checked, then moved to a        *)
(* quarantine name, checked again there, and replaced by its baseline or    *)
(* removed.  Between any two system calls an editor may write the file, the *)
(* process may die, and a call may fail; the undo is then asked for again.  *)
(*                                                                          *)
(* Contents stand for bytes and mode together.  The files are numbered in   *)
(* the order undo_turn sorts them, and those the turn created may be in one *)
(* directory that it created with them.  Left out: what makes a snapshot    *)
(* ineligible whatever is on disk (its size, a symbolic link, no write of   *)
(* it that succeeded, see ManagedWrite!SuccessCanBeUndone), and editors     *)
(* that keep a file open across the rename or know the quarantine name.     *)
(***************************************************************************)
EXTENDS Naturals, FiniteSets

CONSTANTS FileCount,     \* how many snapshots the turn has
          Existing,      \* the files that existed before the turn
          Inside,        \* the files in the directory the turn created
          EditContent,   \* what an editor writes that no tool wrote
          MaxEdits, MaxCrashes, MaxErrors   \* bounds on the environment

File == 1 .. FileCount

ASSUME FilesAreKnown == /\ FileCount \in Nat
                        /\ Existing \subseteq File
                        /\ Inside \subseteq File \ Existing
                        /\ {MaxEdits, MaxCrashes, MaxErrors} \subseteq Nat

CONSTANTS Absent, Baseline, Managed, Reserved

Content == EditContent \union {Baseline, Managed, Reserved}

ASSUME ContentsDiffer ==
  /\ Cardinality({Absent, Baseline, Managed, Reserved}) = 4
  /\ EditContent \intersect {Absent, Baseline, Managed, Reserved} = {}

VARIABLES target,      \* what is at each path
          quarantine,  \* what is at its quarantine name
          directory,   \* whether the created directory exists
          at,          \* where undo_turn is
          current,     \* the file it is at
          reused,      \* it resumed from a reservation
          swapped,     \* the target was replaced since it was read
          results,     \* status of each file in this run
          undone,      \* status of the last undo_finished
          edited,      \* the files an editor touched since this run began
          everEdited,  \* and since the turn
          saved,       \* what editors wrote and did not take back
          edits, crashes, errors

files == <<target, quarantine, directory>>
editor == <<edited, everEdited, saved, edits>>
vars == <<files, at, current, reused, swapped, results, undone, editor, crashes, errors>>

Undecided == "undecided"

UndoInit ==
  /\ target = [f \in File |-> Managed]
  /\ quarantine = [f \in File |-> Absent]
  /\ directory = (Inside # {})
  /\ at = "idle" /\ current = 1 /\ reused = FALSE /\ swapped = FALSE
  /\ results = [f \in File |-> Undecided]
  /\ undone = "none"
  /\ edited = {} /\ everEdited = {} /\ saved = [f \in File |-> {}]
  /\ edits = 0 /\ crashes = 0 /\ errors = 0

-----------------------------------------------------------------------------
(* What undo_turn decides. *)

HasParent(f) == f \in Inside => directory

(* _preflight of one file. *)
Preflight(f) ==
  CASE ~HasParent(f) -> "ineligible"
    [] HasParent(f) /\ quarantine[f] = Absent ->
         (CASE target[f] = Absent -> IF f \in Existing THEN "conflict" ELSE "already_deleted"
            [] target[f] = Baseline /\ f \in Existing -> "already_restored"
            [] target[f] = Managed -> "eligible"
            [] OTHER -> "conflict")
    [] OTHER ->
         IF \/ quarantine[f] = Reserved /\ target[f] = Managed
            \/ quarantine[f] = Managed /\ target[f] = Absent
            \/ quarantine[f] = Managed /\ target[f] = Baseline /\ f \in Existing
         THEN "eligible" ELSE "conflict"

Aborts == {"conflict", "ineligible"}

Normalized(rs) ==
  [f \in File |-> IF rs[f] \in Aborts THEN rs[f] ELSE "not_modified"]

(* Bug: only conflicts make a result that is not a success.                  *)
ReducedByConflicts(observed) ==
  IF observed \intersect Aborts # {} THEN "conflict" ELSE "succeeded"

(* reduce_undo_status. *)
Reduced(observed) ==
  CASE observed \subseteq {"restored", "deleted", "already_restored", "already_deleted"} -> "succeeded"
    [] /\ observed \subseteq Aborts \union {"not_modified"}
       /\ observed \intersect Aborts # {} -> "conflict"
    [] OTHER -> "partial"

Eligible == {f \in File : results[f] = "eligible"}
First(S) == CHOOSE f \in S : \A g \in S : f <= g

(* The file is done with this status; go on to the next eligible one.        *)
Done(status) ==
  /\ results' = [results EXCEPT ![current] = status]
  /\ LET rest == {f \in Eligible : f > current}
     IN  IF rest = {} THEN at' = "directories" /\ current' = current
                      ELSE at' = "begin" /\ current' = First(rest)
  /\ reused' = FALSE /\ swapped' = FALSE

GoTo(step) == at' = step /\ UNCHANGED <<current, reused, swapped, results>>

(* A step of undo_turn that neither ends the run nor counts as the world's.  *)
Running == UNCHANGED <<undone, editor, crashes>>
NoError == UNCHANGED errors
Failing == errors < MaxErrors /\ errors' = errors + 1

Put(f, content) == target' = [target EXCEPT ![f] = content]
Hide(f, content) == quarantine' = [quarantine EXCEPT ![f] = content]
SameTarget == UNCHANGED target
SameQuarantine == UNCHANGED quarantine

(* The quarantine is unlinked and the directory synced; either may fail.     *)
Unlink(status) ==
  \/ Hide(current, Absent) /\ Done(status) /\ NoError
  \/ (Hide(current, Absent) \/ SameQuarantine) /\ Done("failed") /\ Failing

-----------------------------------------------------------------------------
(* undo_turn up to its first change. *)

Start ==
  /\ at = "idle" /\ undone # "succeeded"
  /\ at' = "preflight" /\ current' = 1
  /\ results' = [f \in File |-> Undecided]
  /\ edited' = {}
  /\ UNCHANGED <<files, reused, swapped, undone, everEdited, saved, edits, crashes, errors>>

Check ==
  /\ at = "preflight"
  /\ results' = [results EXCEPT ![current] = Preflight(current)]
  /\ IF current < FileCount THEN at' = "preflight" /\ current' = current + 1
                            ELSE at' = "decide" /\ current' = current
  /\ UNCHANGED <<files, reused, swapped>> /\ Running /\ NoError

Decide ==
  /\ at = "decide"
  /\ IF \E f \in File : results[f] \in Aborts
     THEN /\ results' = Normalized(results)
          /\ at' = "record" /\ current' = current
     ELSE /\ results' = results
          /\ IF Eligible = {} THEN at' = "directories" /\ current' = current
                              ELSE at' = "begin" /\ current' = First(Eligible)
  /\ UNCHANGED <<files, reused, swapped>> /\ Running /\ NoError

-----------------------------------------------------------------------------
(* _atomic_restore and _verified_delete of the current file. *)

Begin ==
  /\ at = "begin"
  /\ IF ~HasParent(current) THEN Done("conflict")
     ELSE GoTo(IF quarantine[current] = Absent THEN "reserve" ELSE "inspect")
  /\ UNCHANGED files /\ Running /\ NoError

(* Bug: a reservation is taken for a quarantine.                             *)
InspectContent ==
  /\ at = "inspect"
  /\ IF quarantine[current] # Managed THEN Done("conflict") ELSE GoTo("resume")
  /\ UNCHANGED files /\ Running /\ NoError

(* A quarantine is there: a run that died left it.                           *)
Inspect ==
  /\ at = "inspect"
  /\ IF quarantine[current] = Reserved /\ target[current] = Managed
     THEN /\ at' = "reuse" /\ swapped' = FALSE
          /\ UNCHANGED <<current, reused, results>>
     ELSE IF quarantine[current] # Managed THEN Done("conflict")
     ELSE GoTo("resume")
  /\ UNCHANGED files /\ Running /\ NoError

(* _require_same_entry of the target, and the reservation is given up.  If   *)
(* the target is gone, os.stat raises, and as after a failed unlink the      *)
(* handler of _atomic_restore links the reservation itself to the path.      *)
Reuse ==
  /\ at = "reuse"
  /\ \/ /\ ~swapped
        /\ Hide(current, Absent)
        /\ \/ /\ at' = "reserve" /\ reused' = TRUE
              /\ UNCHANGED <<current, swapped, results>> /\ NoError
           \/ Done("failed") /\ Failing
     \/ /\ swapped /\ target[current] # Absent
        /\ Done("conflict") /\ SameQuarantine /\ NoError
     \/ /\ \/ target[current] = Absent /\ NoError
           \/ ~swapped /\ Failing
        /\ IF current \in Existing THEN GoTo("link back: failed") ELSE Done("failed")
        /\ SameQuarantine
  /\ SameTarget /\ UNCHANGED directory /\ Running

(* The managed content is in quarantine: is the baseline in place already?   *)
Resume ==
  /\ at = "resume"
  /\ CASE target[current] = Absent ->
            GoTo(IF current \in Existing THEN "create" ELSE "recreated") /\ SameQuarantine /\ NoError
       [] target[current] = Baseline /\ current \in Existing -> Unlink("already_restored")
       [] OTHER -> Done("conflict") /\ SameQuarantine /\ NoError
  /\ SameTarget /\ UNCHANGED directory /\ Running

(* _quarantine_target: the name is taken with O_EXCL, then renamed onto.     *)
Reserve ==
  /\ at = "reserve"
  /\ IF HasParent(current) THEN Hide(current, Reserved) /\ GoTo("rename")
                           ELSE SameQuarantine /\ Done("failed")
  /\ SameTarget /\ UNCHANGED directory /\ Running /\ NoError

Rename ==
  /\ at = "rename"
  /\ IF target[current] = Absent
     THEN Hide(current, Absent) /\ SameTarget /\ Done("failed")
     ELSE Hide(current, target[current]) /\ Put(current, Absent) /\ GoTo("verify")
  /\ UNCHANGED directory /\ Running /\ NoError

(* _require_current_state of what was moved.                                 *)
Verify ==
  /\ at = "verify"
  /\ CASE quarantine[current] = Managed ->
            GoTo(IF current \in Existing THEN "create" ELSE "recreated")
       [] quarantine[current] # Managed /\ reused -> Done("conflict")
       [] OTHER -> GoTo("link back: conflict")
  /\ UNCHANGED files /\ Running /\ NoError

LinkingBack == {"link back: conflict", "link back: failed"}
UnlinkingBack == {"unlink: conflict", "unlink: failed"}
Outcome == IF at \in {"link back: conflict", "unlink: conflict"} THEN "conflict" ELSE "failed"

(* _restore_quarantine: what was moved is linked to its path again.          *)
LinkBack ==
  /\ at \in LinkingBack
  /\ \/ /\ target[current] = Absent
        /\ Put(current, quarantine[current])
        /\ GoTo(IF at = "link back: conflict" THEN "unlink: conflict" ELSE "unlink: failed")
        /\ NoError
     \/ target[current] # Absent /\ SameTarget /\ Done(Outcome) /\ NoError
     \/ SameTarget /\ Done(Outcome) /\ Failing
  /\ SameQuarantine /\ UNCHANGED directory /\ Running

UnlinkBack ==
  /\ at \in UnlinkingBack
  /\ Unlink(Outcome)
  /\ SameTarget /\ UNCHANGED directory /\ Running

(* Bug: the quarantine goes before the baseline is in place.                 *)
CreateLast ==
  /\ at = "create"
  /\ Hide(current, Absent) /\ SameTarget
  /\ GoTo("install") /\ NoError
  /\ UNCHANGED directory /\ Running

(* The baseline is written to a temporary file.                              *)
Create ==
  /\ at = "create"
  /\ \/ GoTo("install") /\ NoError
     \/ GoTo("link back: failed") /\ Failing
  /\ UNCHANGED files /\ Running

(* Bug: the baseline is renamed onto the path.                               *)
InstallOver ==
  /\ at = "install"
  /\ Put(current, Baseline) /\ GoTo("discard") /\ NoError
  /\ SameQuarantine /\ UNCHANGED directory /\ Running

Install ==
  /\ at = "install"
  /\ \/ /\ target[current] = Absent
        /\ Put(current, Baseline) /\ GoTo("discard") /\ NoError
     \/ target[current] # Absent /\ SameTarget /\ Done("conflict") /\ NoError
     \/ SameTarget /\ GoTo("link back: failed") /\ Failing
  /\ SameQuarantine /\ UNCHANGED directory /\ Running

(* A created file: was it made again since it was moved?                     *)
Recreated ==
  /\ at = "recreated"
  /\ IF target[current] # Absent THEN Done("conflict") ELSE GoTo("discard")
  /\ UNCHANGED files /\ Running /\ NoError

Discard ==
  /\ at = "discard"
  /\ Unlink(IF current \in Existing THEN "restored" ELSE "deleted")
  /\ SameTarget /\ UNCHANGED directory /\ Running

-----------------------------------------------------------------------------
(* The end of undo_turn. *)

Empty == \A f \in Inside : target[f] = Absent /\ quarantine[f] = Absent

RemoveDirectories ==
  /\ at = "directories"
  /\ directory' = (directory /\ ~Empty)
  /\ GoTo("record")
  /\ SameTarget /\ SameQuarantine /\ Running /\ NoError

Record ==
  /\ at = "record"
  /\ undone' = Reduced({results[f] : f \in File})
  /\ GoTo("idle")
  /\ UNCHANGED <<files, editor, crashes>> /\ NoError

(* The process dies, or the append of undo_finished fails.                   *)
Crash ==
  /\ at # "idle" /\ crashes < MaxCrashes
  /\ crashes' = crashes + 1
  /\ at' = "idle" /\ current' = 1 /\ reused' = FALSE /\ swapped' = FALSE
  /\ results' = [f \in File |-> Undecided]
  /\ UNCHANGED <<files, undone, editor>> /\ NoError

-----------------------------------------------------------------------------
(* An editor. *)

Touch(f) ==
  /\ edits < MaxEdits /\ edits' = edits + 1
  /\ edited' = edited \union {f} /\ everEdited' = everEdited \union {f}
  /\ UNCHANGED <<quarantine, at, current, reused, results, undone, crashes, errors>>

(* It saves the file, in place or by renaming a new one onto it.             *)
Edit(f) ==
  /\ \E content \in EditContent \union {Baseline, Managed} :
       /\ Put(f, content)
       /\ saved' = [saved EXCEPT ![f] = (@ \ {target[f]}) \union ({content} \intersect EditContent)]
  /\ directory' = (directory \/ f \in Inside)
  /\ swapped' \in {swapped, swapped \/ f = current}
  /\ Touch(f)

Delete(f) ==
  /\ target[f] # Absent
  /\ Put(f, Absent)
  /\ saved' = [saved EXCEPT ![f] = @ \ {target[f]}]
  /\ swapped' = (swapped \/ f = current)
  /\ directory' \in {directory, directory /\ \E g \in Inside : target'[g] # Absent \/ quarantine[g] # Absent}
  /\ Touch(f)

Step == \/ Check \/ Decide \/ Begin \/ Inspect \/ Reuse \/ Resume \/ Reserve
        \/ Rename \/ Verify \/ LinkBack \/ UnlinkBack \/ Create \/ Install
        \/ Recreated \/ Discard \/ RemoveDirectories \/ Record

UndoNext == Start \/ Step \/ Crash \/ \E f \in File : Edit(f) \/ Delete(f)

(* The program goes on, and whoever wants the turn undone asks again.        *)
UndoSpec == UndoInit /\ [][UndoNext]_vars /\ WF_vars(Step) /\ WF_vars(Start)

-----------------------------------------------------------------------------
Steps == {"idle", "preflight", "decide", "begin", "inspect", "reuse", "resume", "reserve",
          "rename", "verify", "create", "install", "recreated", "discard", "directories",
          "record"} \union LinkingBack \union UnlinkingBack

UndoTypeOK ==
  /\ target \in [File -> Content \union {Absent}]
  /\ quarantine \in [File -> Content \union {Absent}]
  /\ directory \in BOOLEAN /\ reused \in BOOLEAN /\ swapped \in BOOLEAN
  /\ at \in Steps /\ current \in File \union {1}
  /\ results \in [File -> {Undecided, "eligible", "not_modified", "restored", "deleted",
                            "already_restored", "already_deleted", "failed"} \union Aborts]
  /\ undone \in {"none", "succeeded", "conflict", "partial"}
  /\ edited \subseteq everEdited /\ everEdited \subseteq File
  /\ saved \in [File -> SUBSET EditContent]
  /\ edits \in 0 .. MaxEdits /\ crashes \in 0 .. MaxCrashes /\ errors \in 0 .. MaxErrors

(* Whatever an editor saved while the undo ran, between any two of its calls *)
(* and through its crashes and retries, is at the path or in the quarantine  *)
(* of the file: the undo overwrites and removes only what tools wrote.       *)
NoEditIsLost == \A f \in File : saved[f] \subseteq {target[f], quarantine[f]}

(* At no moment, and so after no crash, does a file that existed before the  *)
(* turn exist neither at its path nor in quarantine, unless an editor        *)
(* touched it (the order of link and unlink in _atomic_restore).             *)
AFileIsSomewhere ==
  \A f \in Existing \ everEdited : target[f] # Absent \/ quarantine[f] # Absent

Restored(f) == /\ target[f] = (IF f \in Existing THEN Baseline ELSE Absent)
               /\ quarantine[f] = Absent

(* An undo that reports success left every file that no editor touched       *)
(* meanwhile at its baseline, with no quarantine, though earlier runs died   *)
(* half way (reduce_undo_status over the statuses of the files).             *)
SuccessIsRestored == undone = "succeeded" => \A f \in File \ edited : Restored(f)

(* On files no editor touched, an undo reports a conflict only if the        *)
(* created directory is gone already, or if a link back was cut short and    *)
(* left the file under both names (_preflight).                              *)
ConflictsHaveACause ==
  undone = "conflict" /\ everEdited = {} =>
    \/ Inside # {} /\ ~directory
    \/ \E f \in File : target[f] = Managed /\ quarantine[f] = Managed

(* Crashes alone cost nothing: without an editor and a failed call, an undo  *)
(* that reports anything but success has restored every file already, and    *)
(* lost only the record of the run that removed the directory.               *)
NothingIsLeftUndone ==
  undone \in {"conflict", "partial"} /\ everEdited = {} /\ errors = 0
    => \A f \in File : Restored(f)

StuckWithoutDirectory == at = "idle" /\ undone # "succeeded" /\ Inside # {} /\ ~directory

(* Crashes alone never get an undo stuck, wherever they fall: asked again    *)
(* until it runs through, it succeeds, on files that nobody else touched,    *)
(* unless it died between removing the directory and recording the result.   *)
RetriesConverge ==
  [](everEdited = {} /\ errors = 0 /\ ~StuckWithoutDirectory) => <>(undone = "succeeded")
=============================================================================
