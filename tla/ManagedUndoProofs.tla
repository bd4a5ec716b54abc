-------------------------- MODULE ManagedUndoProofs --------------------------
(***************************************************************************)
(* What /undo promises of every file, for any number of files and contents  *)
(* and however often an editor, a crash or a failed call comes between two  *)
(* of its steps: no edit is lost, no file is nowhere, and a success is one. *)
(***************************************************************************)
EXTENDS ManagedUndo, TLAPS, FiniteSetTheorems

(* Where undo_turn is at one of its files. *)
OnFile == {"begin", "inspect", "reuse", "resume", "reserve", "rename", "verify", "create",
           "install", "recreated", "discard"} \union LinkingBack \union UnlinkingBack

Succeeding == {"restored", "deleted", "already_restored", "already_deleted"}

-----------------------------------------------------------------------------
(* The inductive invariant. *)

Typed ==
  /\ target \in [File -> Content \union {Absent}]
  /\ quarantine \in [File -> Content \union {Absent}]
  /\ at \in Steps /\ current \in Nat
  /\ results \in [File -> {Undecided, "eligible", "not_modified", "failed"}
                            \union Succeeding \union Aborts]
  /\ saved \in [File -> SUBSET EditContent]
  /\ edited \subseteq everEdited
  /\ at \in OnFile => current \in File /\ results[current] = "eligible"

(* What is in quarantine while undo_turn is at a file: nobody else moves it. *)
Held ==
  /\ at = "reserve" => quarantine[current] = Absent
  /\ at \in {"reuse", "rename"} => quarantine[current] = Reserved
  /\ at \in {"resume", "create", "install", "recreated", "discard"} => quarantine[current] = Managed
  /\ at \in {"verify"} \union LinkingBack => quarantine[current] # Absent
  /\ at \in {"create", "install"} => current \in Existing
  /\ at = "recreated" => current \notin Existing

(* What must be at the path before a name in quarantine is given up.         *)
InPlace ==
  /\ at \in UnlinkingBack => saved[current] \subseteq {target[current]}
  /\ at \in {"reuse", "rename"} \union UnlinkingBack /\ current \in Existing \ everEdited
       => target[current] # Absent
  /\ at = "discard" /\ current \notin edited
       => target[current] = (IF current \in Existing THEN Baseline ELSE Absent)

(* A status that counts as a success is true of the file when it is given,   *)
(* and the undo does not come back to it.                                    *)
StatusIsTrue == \A f \in File \ edited : results[f] \in Succeeding => Restored(f)

SuccessIsLast == undone = "succeeded" => at = "idle"

UndoInv == /\ Typed /\ Held /\ InPlace /\ StatusIsTrue /\ SuccessIsLast
           /\ NoEditIsLost /\ AFileIsSomewhere /\ SuccessIsRestored

-----------------------------------------------------------------------------
(* The contents are told apart, and the first of some files is one of them.  *)

LEMMA OfThree ==
  ASSUME NEW a, NEW b, NEW c
  PROVE  IsFiniteSet({a, b, c}) /\ Cardinality({a, b, c}) \in 0 .. 3
<1>1. IsFiniteSet({a}) /\ Cardinality({a}) = 1
  BY FS_Singleton
<1>2. IsFiniteSet({a} \cup {b}) /\ Cardinality({a} \cup {b}) \in {1, 2}
  BY <1>1, FS_AddElement
<1>3. /\ IsFiniteSet(({a} \cup {b}) \cup {c})
      /\ Cardinality(({a} \cup {b}) \cup {c}) \in {1, 2, 3}
  BY <1>2, FS_AddElement
<1>4. ({a} \cup {b}) \cup {c} = {a, b, c}
  OBVIOUS
<1>. QED BY <1>3, <1>4

LEMMA Distinct ==
  /\ Absent # Baseline /\ Absent # Managed /\ Absent # Reserved
  /\ Baseline # Managed /\ Baseline # Reserved /\ Managed # Reserved
  /\ {Absent, Baseline, Managed, Reserved} \intersect EditContent = {}
<1> DEFINE S == {Absent, Baseline, Managed, Reserved}
<1>1. \A a, b, c : S # {a, b, c}
  <2> SUFFICES ASSUME NEW a, NEW b, NEW c, S = {a, b, c} PROVE FALSE
    OBVIOUS
  <2>1. Cardinality(S) \in 0 .. 3
    BY OfThree
  <2>2. Cardinality(S) = 4
    BY ContentsDiffer
  <2>. QED BY <2>1, <2>2
<1>2. Absent # Baseline
  BY <1>1
<1>3. Absent # Managed
  <2>1. ASSUME Absent = Managed PROVE S = {Absent, Baseline, Reserved}
    BY <2>1
  <2>. QED BY <1>1, <2>1
<1>4. Absent # Reserved
  <2>1. ASSUME Absent = Reserved PROVE S = {Absent, Baseline, Managed}
    BY <2>1
  <2>. QED BY <1>1, <2>1
<1>5. Baseline # Managed
  <2>1. ASSUME Baseline = Managed PROVE S = {Absent, Baseline, Reserved}
    BY <2>1
  <2>. QED BY <1>1, <2>1
<1>6. Baseline # Reserved
  <2>1. ASSUME Baseline = Reserved PROVE S = {Absent, Baseline, Managed}
    BY <2>1
  <2>. QED BY <1>1, <2>1
<1>7. Managed # Reserved
  <2>1. ASSUME Managed = Reserved PROVE S = {Absent, Baseline, Managed}
    BY <2>1
  <2>. QED BY <1>1, <2>1
<1>. QED BY <1>2, <1>3, <1>4, <1>5, <1>6, <1>7, ContentsDiffer

(* A non-empty set of naturals has a least element: of the intervals 0 .. n  *)
(* of its elements one has no other below it. *)
LEMMA LeastExists ==
  ASSUME NEW S \in SUBSET Nat, S # {}
  PROVE  \E x \in S : \A y \in S : x <= y
<1> DEFINE below == {0 .. n : n \in S}
<1>1. /\ below \subseteq FiniteSubsetsOf(Nat) /\ below # {}
  <2>1. \A n \in S : 0 .. n \subseteq Nat /\ IsFiniteSet(0 .. n)
    BY FS_Interval
  <2>. QED BY <2>1 DEF FiniteSubsetsOf
<1>2. PICK b \in below : \A c \in below : <<c, b>> \notin StrictSubsetOrdering(Nat)
  <2> HIDE DEF below
  <2>. QED BY <1>1, FS_StrictSubsetOrderingWellFounded, WFMin
<1>3. PICK x \in S : b = 0 .. x
  OBVIOUS
<1>4. ASSUME NEW y \in S, y < x PROVE FALSE
  <2> DEFINE by == 0 .. y
  <2>1. by \in below /\ by \subseteq b /\ by \subseteq Nat /\ b \subseteq Nat /\ by # b
    BY <1>3, <1>4
  <2> HIDE DEF by
  <2>2. <<by, b>> \in StrictSubsetOrdering(Nat)
    BY <2>1 DEF StrictSubsetOrdering
  <2> HIDE DEF below
  <2>. QED BY <1>2, <2>1, <2>2
<1>. QED BY <1>4

LEMMA FirstIsIn ==
  ASSUME NEW S \in SUBSET File, S # {}
  PROVE  First(S) \in S /\ \A g \in S : First(S) <= g
<1>1. S \in SUBSET Nat
  BY FilesAreKnown DEF File
<1>2. \E f \in S : \A g \in S : f <= g
  BY <1>1, LeastExists
<1>. QED BY <1>2 DEF First

-----------------------------------------------------------------------------
(* Steps at one file. *)

(* Only the current file is changed; what an editor saved of it, and the     *)
(* file, are still somewhere.                                                *)
KeepsTheFile ==
  /\ target' \in [File -> Content \union {Absent}]
  /\ quarantine' \in [File -> Content \union {Absent}]
  /\ \A f \in File \ {current} : target'[f] = target[f] /\ quarantine'[f] = quarantine[f]
  /\ saved[current] \subseteq {target'[current], quarantine'[current]}
  /\ current \in Existing \ everEdited
       => target'[current] # Absent \/ quarantine'[current] # Absent
  /\ UNCHANGED <<undone, editor>>

(* Where only the current file changes, what is said of all files holds of   *)
(* the others.                                                               *)
LEMMA OthersAreKept ==
  ASSUME UndoInv, at \in OnFile, KeepsTheFile
  PROVE  /\ NoEditIsLost' /\ AFileIsSomewhere' /\ SuccessIsRestored' /\ SuccessIsLast'
         /\ \A f \in File \ {current} : Restored(f)' <=> Restored(f)
<1>1. current \in File /\ undone' # "succeeded"
  BY DEF UndoInv, Typed, SuccessIsLast, OnFile, LinkingBack, UnlinkingBack, KeepsTheFile
<1>2. NoEditIsLost'
  BY DEF UndoInv, NoEditIsLost, KeepsTheFile, editor
<1>3. AFileIsSomewhere'
  BY FilesAreKnown DEF UndoInv, AFileIsSomewhere, KeepsTheFile, editor
<1>4. SuccessIsRestored' /\ SuccessIsLast'
  BY <1>1 DEF SuccessIsRestored, SuccessIsLast
<1>5. \A f \in File \ {current} : Restored(f)' <=> Restored(f)
  BY DEF KeepsTheFile, Restored
<1>. QED BY <1>2, <1>3, <1>4, <1>5

(* The file is done with a status that is true of it.                        *)
LEMMA DoneKeeps ==
  ASSUME UndoInv, at \in OnFile, KeepsTheFile,
         NEW status \in {"conflict", "failed"} \union Succeeding, Done(status),
         \A f \in File \ edited : f = current /\ status \in Succeeding => Restored(f)'
  PROVE  UndoInv'
<1> DEFINE rest == {f \in Eligible : f > current}
<1>1. current \in File /\ results \in [File -> {Undecided, "eligible", "not_modified", "failed"}
                            \union Succeeding \union Aborts]
  BY DEF UndoInv, Typed
<1>2. /\ results' = [results EXCEPT ![current] = status]
      /\ \/ at' = "directories" /\ current' = current
         \/ at' = "begin" /\ current' = First(rest) /\ rest # {}
  BY DEF Done
<1>3. at' = "begin" => current' \in rest
  BY <1>2, FirstIsIn DEF Eligible
<1>4. at' = "begin" => current' \in File /\ results'[current'] = "eligible"
  BY <1>1, <1>2, <1>3, FilesAreKnown DEF Eligible, File
<1> HIDE DEF rest
<1>5. Typed'
  <2>1. current' \in Nat
    BY <1>1, <1>2, <1>4, FilesAreKnown DEF File
  <2>2. at' \in Steps /\ (at' \in OnFile => at' = "begin")
    BY <1>2 DEF Steps, OnFile, LinkingBack, UnlinkingBack
  <2>3. results' \in [File -> {Undecided, "eligible", "not_modified", "failed"}
                            \union Succeeding \union Aborts]
    BY <1>1, <1>2 DEF Aborts
  <2>. QED
    BY <1>4, <2>1, <2>2, <2>3 DEF UndoInv, Typed, KeepsTheFile, editor
<1>6. Held' /\ InPlace'
  BY <1>2 DEF Held, InPlace, LinkingBack, UnlinkingBack
<1>7. StatusIsTrue'
  <2> SUFFICES ASSUME NEW f \in File \ edited', results'[f] \in Succeeding
               PROVE  Restored(f)'
    BY DEF StatusIsTrue
  <2>1. edited' = edited
    BY DEF KeepsTheFile, editor
  <2>2. CASE f = current
    BY <1>1, <1>2, <2>1, <2>2
  <2>3. CASE f # current
    BY <1>1, <1>2, <2>1, <2>3, OthersAreKept DEF UndoInv, StatusIsTrue
  <2>. QED BY <2>2, <2>3
<1>. QED BY <1>5, <1>6, <1>7, OthersAreKept DEF UndoInv

(* The file is not done yet: the next step finds what it needs.              *)
LEMMA GoToKeeps ==
  ASSUME UndoInv, at \in OnFile, KeepsTheFile,
         at' \in OnFile, UNCHANGED <<current, results>>, Held', InPlace'
  PROVE  UndoInv'
<1>1. current \in File /\ results[current] = "eligible"
  BY DEF UndoInv, Typed
<1>2. Typed'
  <2>1. at' \in Steps
    BY DEF OnFile, Steps, LinkingBack, UnlinkingBack
  <2>. QED BY <1>1, <2>1 DEF UndoInv, Typed, KeepsTheFile, editor
<1>3. StatusIsTrue'
  <2> SUFFICES ASSUME NEW f \in File \ edited', results'[f] \in Succeeding
               PROVE  Restored(f)'
    BY DEF StatusIsTrue
  <2>1. edited' = edited
    BY DEF KeepsTheFile, editor
  <2>2. f # current
    BY <1>1 DEF Succeeding
  <2>. QED BY <2>1, <2>2, OthersAreKept DEF UndoInv, StatusIsTrue
<1>. QED BY <1>2, <1>3, OthersAreKept DEF UndoInv

(* A step that changes no file keeps the file.                               *)
LEMMA LookingKeeps ==
  ASSUME UndoInv, at \in OnFile, UNCHANGED <<target, quarantine, undone, editor>>
  PROVE  KeepsTheFile
<1>1. current \in File
  BY DEF UndoInv, Typed
<1>. QED BY <1>1 DEF UndoInv, Typed, KeepsTheFile, NoEditIsLost, AFileIsSomewhere

-----------------------------------------------------------------------------
(* The steps of undo_turn at a file. *)

LEMMA BeginKeeps == UndoInv /\ Begin => UndoInv'
<1> SUFFICES ASSUME UndoInv, Begin PROVE UndoInv'
  OBVIOUS
<1>1. at = "begin" /\ at \in OnFile /\ UNCHANGED <<target, quarantine, undone, editor>>
  BY DEF Begin, OnFile, files, Running
<1>2. KeepsTheFile
  BY <1>1, LookingKeeps
<1>3. CASE ~HasParent(current)
  BY <1>1, <1>2, <1>3, DoneKeeps DEF Begin, Succeeding
<1>4. CASE HasParent(current)
  <2>1. /\ at' = IF quarantine[current] = Absent THEN "reserve" ELSE "inspect"
        /\ UNCHANGED <<current, results>>
    BY <1>4 DEF Begin, GoTo
  <2>2. Held' /\ InPlace'
    BY <1>1, <2>1 DEF Held, InPlace, LinkingBack, UnlinkingBack
  <2>. QED BY <1>1, <1>2, <2>1, <2>2, GoToKeeps DEF OnFile
<1>. QED BY <1>3, <1>4

LEMMA InspectKeeps == UndoInv /\ Inspect => UndoInv'
<1> SUFFICES ASSUME UndoInv, Inspect PROVE UndoInv'
  OBVIOUS
<1>1. at = "inspect" /\ at \in OnFile /\ UNCHANGED <<target, quarantine, undone, editor>>
  BY DEF Inspect, OnFile, files, Running
<1>2. KeepsTheFile
  BY <1>1, LookingKeeps
<1>3. CASE quarantine[current] = Reserved /\ target[current] = Managed
  <2>1. at' = "reuse" /\ UNCHANGED <<current, results>>
    BY <1>3 DEF Inspect
  <2>2. Held' /\ InPlace'
    BY <1>1, <1>3, <2>1, Distinct DEF Held, InPlace, LinkingBack, UnlinkingBack
  <2>. QED BY <1>1, <1>2, <2>1, <2>2, GoToKeeps DEF OnFile
<1>4. CASE quarantine[current] # Managed /\ ~(quarantine[current] = Reserved /\ target[current] = Managed)
  BY <1>1, <1>2, <1>4, DoneKeeps DEF Inspect, Succeeding
<1>5. CASE quarantine[current] = Managed
  <2>1. at' = "resume" /\ UNCHANGED <<current, results>>
    BY <1>5, Distinct DEF Inspect, GoTo
  <2>2. Held' /\ InPlace'
    BY <1>1, <1>5, <2>1 DEF Held, InPlace, LinkingBack, UnlinkingBack
  <2>. QED BY <1>1, <1>2, <2>1, <2>2, GoToKeeps DEF OnFile
<1>. QED BY <1>3, <1>4, <1>5

(* Giving up a name in quarantine, whether the unlink fails or not.          *)
LEMMA UnlinkKeeps ==
  ASSUME UndoInv, at \in OnFile, UNCHANGED <<target, undone, editor>>,
         NEW status \in {"conflict", "failed"} \union Succeeding, Unlink(status),
         saved[current] \subseteq {target[current]},
         current \in Existing \ everEdited => target[current] # Absent,
         status \in Succeeding /\ current \notin edited
           => target[current] = (IF current \in Existing THEN Baseline ELSE Absent)
  PROVE  UndoInv'
<1>1. /\ current \in File
      /\ target \in [File -> Content \union {Absent}]
      /\ quarantine \in [File -> Content \union {Absent}]
  BY DEF UndoInv, Typed
<1>2. CASE Hide(current, Absent)
  <2>1. KeepsTheFile
    BY <1>1, <1>2 DEF KeepsTheFile, Hide
  <2>2. \A f \in File \ edited : f = current /\ status \in Succeeding => Restored(f)'
    BY <1>1, <1>2 DEF Hide, Restored
  <2>3. \A f \in File \ edited : f = current /\ "failed" \in Succeeding => Restored(f)'
    BY DEF Succeeding
  <2>4. CASE Done(status)
    BY <2>1, <2>2, <2>4, DoneKeeps
  <2>5. CASE Done("failed")
    BY <2>1, <2>3, <2>5, DoneKeeps
  <2>. QED BY <2>4, <2>5 DEF Unlink
<1>3. CASE SameQuarantine /\ Done("failed")
  <2>1. KeepsTheFile
    BY <1>3, LookingKeeps DEF SameQuarantine
  <2>. QED BY <1>3, <2>1, DoneKeeps DEF Succeeding
<1>. QED BY <1>2, <1>3 DEF Unlink

LEMMA ReuseKeeps == UndoInv /\ Reuse => UndoInv'
<1> SUFFICES ASSUME UndoInv, Reuse PROVE UndoInv'
  OBVIOUS
<1>1. at = "reuse" /\ at \in OnFile /\ UNCHANGED <<target, undone, editor>>
  BY DEF Reuse, OnFile, SameTarget, Running
<1>2. /\ current \in File /\ quarantine[current] = Reserved
      /\ target \in [File -> Content \union {Absent}]
      /\ quarantine \in [File -> Content \union {Absent}]
      /\ saved[current] \subseteq EditContent
  BY <1>1 DEF UndoInv, Typed, Held
<1>3. saved[current] \subseteq {target[current]}
  BY <1>2, Distinct DEF UndoInv, NoEditIsLost
<1>4. current \in Existing \ everEdited => target[current] # Absent
  BY <1>1 DEF UndoInv, InPlace
<1>5. CASE Hide(current, Absent)
  <2>1. KeepsTheFile
    BY <1>1, <1>2, <1>3, <1>4, <1>5 DEF KeepsTheFile, Hide
  <2>2. CASE at' = "reserve" /\ UNCHANGED <<current, results>>
    <3>1. Held' /\ InPlace'
      BY <1>2, <1>5, <2>2 DEF Hide, Held, InPlace, LinkingBack, UnlinkingBack
    <3>. QED BY <1>1, <2>1, <2>2, <3>1, GoToKeeps DEF OnFile
  <2>3. CASE Done("failed")
    BY <1>1, <2>1, <2>3, DoneKeeps DEF Succeeding
  <2>4. CASE SameQuarantine
    BY <1>2, <1>5, <2>4, Distinct DEF Hide, SameQuarantine
  <2>. QED BY <2>2, <2>3, <2>4 DEF Reuse
<1>6. CASE SameQuarantine
  <2>1. KeepsTheFile
    BY <1>1, <1>6, LookingKeeps DEF SameQuarantine
  <2>2. CASE Done("conflict") \/ Done("failed")
    BY <1>1, <2>1, <2>2, DoneKeeps DEF Succeeding
  <2>3. CASE GoTo("link back: failed")
    <3>1. at' = "link back: failed" /\ UNCHANGED <<current, results>>
      BY <2>3 DEF GoTo
    <3>2. Held' /\ InPlace'
      BY <1>2, <1>6, <3>1, Distinct
      DEF SameQuarantine, Held, InPlace, LinkingBack, UnlinkingBack
    <3>. QED BY <1>1, <2>1, <3>1, <3>2, GoToKeeps DEF OnFile, LinkingBack
  <2>4. CASE Hide(current, Absent)
    BY <1>5, <2>4
  <2>. QED BY <2>2, <2>3, <2>4 DEF Reuse
<1>. QED BY <1>5, <1>6 DEF Reuse

LEMMA ResumeKeeps == UndoInv /\ Resume => UndoInv'
<1> SUFFICES ASSUME UndoInv, Resume PROVE UndoInv'
  OBVIOUS
<1>1. at = "resume" /\ at \in OnFile /\ UNCHANGED <<target, undone, editor>>
  BY DEF Resume, OnFile, SameTarget, Running
<1>2. /\ current \in File /\ quarantine[current] = Managed
      /\ saved[current] \subseteq EditContent
  BY <1>1 DEF UndoInv, Typed, Held
<1>3. saved[current] \subseteq {target[current]}
  BY <1>2, Distinct DEF UndoInv, NoEditIsLost
<1>4. CASE target[current] = Absent
  <2>1. /\ at' = IF current \in Existing THEN "create" ELSE "recreated"
        /\ UNCHANGED <<current, results, quarantine>>
    BY <1>4, Distinct DEF Resume, GoTo, SameQuarantine
  <2>2. KeepsTheFile
    BY <1>1, <2>1, LookingKeeps
  <2>3. Held' /\ InPlace'
    BY <1>2, <2>1 DEF Held, InPlace, LinkingBack, UnlinkingBack
  <2>. QED BY <1>1, <2>1, <2>2, <2>3, GoToKeeps DEF OnFile
<1>5. CASE target[current] = Baseline /\ current \in Existing
  <2>1. Unlink("already_restored")
    BY <1>5, Distinct DEF Resume
  <2>. QED BY <1>1, <1>3, <1>5, <2>1, UnlinkKeeps, Distinct DEF Succeeding
<1>6. CASE target[current] # Absent /\ ~(target[current] = Baseline /\ current \in Existing)
  <2>1. Done("conflict") /\ UNCHANGED quarantine
    BY <1>6 DEF Resume, SameQuarantine
  <2>2. KeepsTheFile
    BY <1>1, <2>1, LookingKeeps
  <2>. QED BY <1>1, <2>1, <2>2, DoneKeeps DEF Succeeding
<1>. QED BY <1>4, <1>5, <1>6

LEMMA ReserveKeeps == UndoInv /\ Reserve => UndoInv'
<1> SUFFICES ASSUME UndoInv, Reserve PROVE UndoInv'
  OBVIOUS
<1>1. at = "reserve" /\ at \in OnFile /\ UNCHANGED <<target, undone, editor>>
  BY DEF Reserve, OnFile, SameTarget, Running
<1>2. /\ current \in File /\ quarantine[current] = Absent
      /\ target \in [File -> Content \union {Absent}]
      /\ quarantine \in [File -> Content \union {Absent}]
      /\ saved[current] \subseteq EditContent
  BY <1>1 DEF UndoInv, Typed, Held
<1>3. saved[current] \subseteq {target[current]}
  BY <1>2, Distinct DEF UndoInv, NoEditIsLost
<1>4. current \in Existing \ everEdited => target[current] # Absent
  BY <1>2 DEF UndoInv, AFileIsSomewhere
<1>5. CASE HasParent(current)
  <2>1. Hide(current, Reserved) /\ at' = "rename" /\ UNCHANGED <<current, results>>
    BY <1>5 DEF Reserve, GoTo
  <2>2. KeepsTheFile
    BY <1>1, <1>2, <1>3, <1>4, <2>1 DEF KeepsTheFile, Hide, Content
  <2>3. Held' /\ InPlace'
    BY <1>1, <1>2, <1>4, <2>1 DEF Hide, Held, InPlace, LinkingBack, UnlinkingBack, editor
  <2>. QED BY <1>1, <2>1, <2>2, <2>3, GoToKeeps DEF OnFile
<1>6. CASE ~HasParent(current)
  <2>1. Done("failed") /\ UNCHANGED quarantine
    BY <1>6 DEF Reserve, SameQuarantine
  <2>2. KeepsTheFile
    BY <1>1, <2>1, LookingKeeps
  <2>. QED BY <1>1, <2>1, <2>2, DoneKeeps DEF Succeeding
<1>. QED BY <1>5, <1>6

LEMMA RenameKeeps == UndoInv /\ Rename => UndoInv'
<1> SUFFICES ASSUME UndoInv, Rename PROVE UndoInv'
  OBVIOUS
<1>1. at = "rename" /\ at \in OnFile /\ UNCHANGED <<undone, editor>>
  BY DEF Rename, OnFile, Running
<1>2. /\ current \in File /\ quarantine[current] = Reserved
      /\ target \in [File -> Content \union {Absent}]
      /\ quarantine \in [File -> Content \union {Absent}]
      /\ saved[current] \subseteq EditContent
  BY <1>1 DEF UndoInv, Typed, Held
<1>3. saved[current] \subseteq {target[current]}
  BY <1>2, Distinct DEF UndoInv, NoEditIsLost
<1>4. current \in Existing \ everEdited => target[current] # Absent
  BY <1>1 DEF UndoInv, InPlace
<1>5. CASE target[current] = Absent
  <2>1. Hide(current, Absent) /\ UNCHANGED target /\ Done("failed")
    BY <1>5 DEF Rename, SameTarget
  <2>2. KeepsTheFile
    BY <1>1, <1>2, <1>3, <1>4, <2>1 DEF KeepsTheFile, Hide
  <2>. QED BY <1>1, <2>1, <2>2, DoneKeeps DEF Succeeding
<1>6. CASE target[current] # Absent
  <2>1. /\ Hide(current, target[current]) /\ Put(current, Absent)
        /\ at' = "verify" /\ UNCHANGED <<current, results>>
    BY <1>6 DEF Rename, GoTo
  <2>2. KeepsTheFile
    BY <1>1, <1>2, <1>3, <1>6, <2>1 DEF KeepsTheFile, Hide, Put
  <2>3. Held' /\ InPlace'
    BY <1>2, <1>6, <2>1 DEF Hide, Held, InPlace, LinkingBack, UnlinkingBack
  <2>. QED BY <1>1, <2>1, <2>2, <2>3, GoToKeeps DEF OnFile
<1>. QED BY <1>5, <1>6

LEMMA VerifyKeeps == UndoInv /\ Verify => UndoInv'
<1> SUFFICES ASSUME UndoInv, Verify PROVE UndoInv'
  OBVIOUS
<1>1. at = "verify" /\ at \in OnFile /\ UNCHANGED <<target, quarantine, undone, editor>>
  BY DEF Verify, OnFile, files, Running
<1>2. KeepsTheFile
  BY <1>1, LookingKeeps
<1>3. quarantine[current] # Absent
  BY <1>1 DEF UndoInv, Held
<1>4. CASE quarantine[current] = Managed
  <2>1. /\ at' = IF current \in Existing THEN "create" ELSE "recreated"
        /\ UNCHANGED <<current, results>>
    BY <1>4 DEF Verify, GoTo
  <2>2. Held' /\ InPlace'
    BY <1>1, <1>4, <2>1 DEF Held, InPlace, LinkingBack, UnlinkingBack
  <2>. QED BY <1>1, <1>2, <2>1, <2>2, GoToKeeps DEF OnFile
<1>5. CASE quarantine[current] # Managed /\ reused
  BY <1>1, <1>2, <1>5, DoneKeeps DEF Verify, Succeeding
<1>6. CASE quarantine[current] # Managed /\ ~reused
  <2>1. at' = "link back: conflict" /\ UNCHANGED <<current, results>>
    BY <1>6 DEF Verify, GoTo
  <2>2. Held' /\ InPlace'
    BY <1>1, <1>3, <2>1 DEF Held, InPlace, LinkingBack, UnlinkingBack
  <2>. QED BY <1>1, <1>2, <2>1, <2>2, GoToKeeps DEF OnFile, LinkingBack
<1>. QED BY <1>4, <1>5, <1>6

LEMMA LinkBackKeeps == UndoInv /\ LinkBack => UndoInv'
<1> SUFFICES ASSUME UndoInv, LinkBack PROVE UndoInv'
  OBVIOUS
<1>1. at \in LinkingBack /\ at \in OnFile /\ UNCHANGED <<quarantine, undone, editor>>
  BY DEF LinkBack, OnFile, SameQuarantine, Running
<1>2. /\ current \in File /\ quarantine[current] # Absent
      /\ target \in [File -> Content \union {Absent}]
      /\ quarantine \in [File -> Content \union {Absent}]
      /\ saved[current] \subseteq EditContent
  BY <1>1 DEF UndoInv, Typed, Held
<1>3. CASE target[current] = Absent /\ Put(current, quarantine[current])
           /\ GoTo(IF at = "link back: conflict" THEN "unlink: conflict" ELSE "unlink: failed")
  <2>1. /\ at' \in UnlinkingBack /\ UNCHANGED <<current, results>>
        /\ target' = [target EXCEPT ![current] = quarantine[current]]
    BY <1>3 DEF GoTo, Put, UnlinkingBack
  <2>2. saved[current] \subseteq {quarantine[current]}
    BY <1>2, <1>3, Distinct DEF UndoInv, NoEditIsLost
  <2>3. KeepsTheFile
    BY <1>1, <1>2, <2>1, <2>2 DEF KeepsTheFile
  <2>4. Held' /\ InPlace'
    BY <1>1, <1>2, <2>1, <2>2 DEF Held, InPlace, LinkingBack, UnlinkingBack, editor
  <2>. QED BY <1>1, <2>1, <2>3, <2>4, GoToKeeps DEF OnFile
<1>4. CASE UNCHANGED target /\ Done(Outcome)
  <2>1. KeepsTheFile
    BY <1>1, <1>4, LookingKeeps
  <2>2. Outcome \in {"conflict", "failed"}
    BY DEF Outcome
  <2>. QED BY <1>1, <1>4, <2>1, <2>2, DoneKeeps DEF Succeeding
<1>. QED BY <1>3, <1>4 DEF LinkBack, SameTarget

LEMMA UnlinkBackKeeps == UndoInv /\ UnlinkBack => UndoInv'
<1> SUFFICES ASSUME UndoInv, UnlinkBack PROVE UndoInv'
  OBVIOUS
<1>1. /\ at \in UnlinkingBack /\ at \in OnFile /\ UNCHANGED <<target, undone, editor>>
      /\ Unlink(Outcome)
  BY DEF UnlinkBack, OnFile, SameTarget, Running
<1>2. /\ saved[current] \subseteq {target[current]}
      /\ current \in Existing \ everEdited => target[current] # Absent
  BY <1>1 DEF UndoInv, InPlace
<1>3. Outcome \in {"conflict", "failed"} \union Succeeding /\ Outcome \notin Succeeding
  BY DEF Outcome, Succeeding
<1>. QED BY <1>1, <1>2, <1>3, UnlinkKeeps

LEMMA CreateKeeps == UndoInv /\ Create => UndoInv'
<1> SUFFICES ASSUME UndoInv, Create PROVE UndoInv'
  OBVIOUS
<1>1. at = "create" /\ at \in OnFile /\ UNCHANGED <<target, quarantine, undone, editor>>
  BY DEF Create, OnFile, files, Running
<1>2. KeepsTheFile
  BY <1>1, LookingKeeps
<1>3. at' \in {"install", "link back: failed"} /\ UNCHANGED <<current, results>>
  BY DEF Create, GoTo
<1>4. quarantine[current] = Managed /\ current \in Existing
  BY <1>1 DEF UndoInv, Held
<1>5. Held' /\ InPlace'
  BY <1>1, <1>3, <1>4, Distinct DEF Held, InPlace, LinkingBack, UnlinkingBack
<1>. QED BY <1>1, <1>2, <1>3, <1>5, GoToKeeps DEF OnFile, LinkingBack

LEMMA InstallKeeps == UndoInv /\ Install => UndoInv'
<1> SUFFICES ASSUME UndoInv, Install PROVE UndoInv'
  OBVIOUS
<1>1. at = "install" /\ at \in OnFile /\ UNCHANGED <<quarantine, undone, editor>>
  BY DEF Install, OnFile, SameQuarantine, Running
<1>2. /\ current \in File /\ quarantine[current] = Managed /\ current \in Existing
      /\ target \in [File -> Content \union {Absent}]
      /\ quarantine \in [File -> Content \union {Absent}]
      /\ saved[current] \subseteq EditContent
  BY <1>1 DEF UndoInv, Typed, Held
<1>3. CASE target[current] = Absent /\ Put(current, Baseline) /\ GoTo("discard")
  <2>1. /\ at' = "discard" /\ UNCHANGED <<current, results>>
        /\ target' = [target EXCEPT ![current] = Baseline]
    BY <1>3 DEF GoTo, Put
  <2>2. saved[current] = {}
    BY <1>2, <1>3, Distinct DEF UndoInv, NoEditIsLost
  <2>3. KeepsTheFile
    BY <1>1, <1>2, <2>1, <2>2, Distinct DEF KeepsTheFile, Content
  <2>4. Held' /\ InPlace'
    BY <1>1, <1>2, <2>1 DEF Held, InPlace, LinkingBack, UnlinkingBack
  <2>. QED BY <1>1, <2>1, <2>3, <2>4, GoToKeeps DEF OnFile
<1>4. CASE UNCHANGED target /\ Done("conflict")
  <2>1. KeepsTheFile
    BY <1>1, <1>4, LookingKeeps
  <2>. QED BY <1>1, <1>4, <2>1, DoneKeeps DEF Succeeding
<1>5. CASE UNCHANGED target /\ GoTo("link back: failed")
  <2>1. KeepsTheFile
    BY <1>1, <1>5, LookingKeeps
  <2>2. at' = "link back: failed" /\ UNCHANGED <<current, results>>
    BY <1>5 DEF GoTo
  <2>3. Held' /\ InPlace'
    BY <1>1, <1>2, <2>2, Distinct DEF Held, InPlace, LinkingBack, UnlinkingBack
  <2>. QED BY <1>1, <2>1, <2>2, <2>3, GoToKeeps DEF OnFile, LinkingBack
<1>. QED BY <1>3, <1>4, <1>5 DEF Install, SameTarget

LEMMA RecreatedKeeps == UndoInv /\ Recreated => UndoInv'
<1> SUFFICES ASSUME UndoInv, Recreated PROVE UndoInv'
  OBVIOUS
<1>1. at = "recreated" /\ at \in OnFile /\ UNCHANGED <<target, quarantine, undone, editor>>
  BY DEF Recreated, OnFile, files, Running
<1>2. KeepsTheFile
  BY <1>1, LookingKeeps
<1>3. quarantine[current] = Managed /\ current \notin Existing
  BY <1>1 DEF UndoInv, Held
<1>4. CASE target[current] # Absent
  BY <1>1, <1>2, <1>4, DoneKeeps DEF Recreated, Succeeding
<1>5. CASE target[current] = Absent
  <2>1. at' = "discard" /\ UNCHANGED <<current, results>>
    BY <1>5 DEF Recreated, GoTo
  <2>2. Held' /\ InPlace'
    BY <1>1, <1>3, <1>5, <2>1 DEF Held, InPlace, LinkingBack, UnlinkingBack
  <2>. QED BY <1>1, <1>2, <2>1, <2>2, GoToKeeps DEF OnFile
<1>. QED BY <1>4, <1>5

LEMMA DiscardKeeps == UndoInv /\ Discard => UndoInv'
<1> SUFFICES ASSUME UndoInv, Discard PROVE UndoInv'
  OBVIOUS
<1> DEFINE status == IF current \in Existing THEN "restored" ELSE "deleted"
<1>1. /\ at = "discard" /\ at \in OnFile /\ UNCHANGED <<target, undone, editor>>
      /\ Unlink(status)
  BY DEF Discard, OnFile, SameTarget, Running
<1>2. /\ current \in File /\ quarantine[current] = Managed
      /\ saved[current] \subseteq EditContent /\ edited \subseteq everEdited
  BY <1>1 DEF UndoInv, Typed, Held
<1>3. saved[current] \subseteq {target[current]}
  BY <1>2, Distinct DEF UndoInv, NoEditIsLost
<1>4. current \notin edited
        => target[current] = (IF current \in Existing THEN Baseline ELSE Absent)
  BY <1>1 DEF UndoInv, InPlace
<1>5. current \in Existing \ everEdited => target[current] # Absent
  BY <1>2, <1>4, Distinct
<1>6. status \in {"conflict", "failed"} \union Succeeding
  BY DEF Succeeding
<1> HIDE DEF status
<1>. QED BY <1>1, <1>3, <1>4, <1>5, <1>6, UnlinkKeeps

-----------------------------------------------------------------------------
(* The steps before the first file and after the last one.                   *)

LEMMA PreflightIs ==
  ASSUME NEW f \in File
  PROVE  /\ Preflight(f) \in {"eligible", "already_restored", "already_deleted"} \union Aborts
         /\ Preflight(f) \in Succeeding => Restored(f)
<1>1. CASE ~HasParent(f)
  BY <1>1 DEF Preflight, Aborts, Succeeding
<1>2. CASE HasParent(f) /\ quarantine[f] = Absent
  <2>1. CASE target[f] = Absent
    BY <1>2, <2>1, Distinct DEF Preflight, Aborts, Succeeding, Restored
  <2>2. CASE target[f] = Baseline /\ f \in Existing
    BY <1>2, <2>2, Distinct DEF Preflight, Aborts, Succeeding, Restored
  <2>3. CASE target[f] = Managed
    BY <1>2, <2>3, Distinct DEF Preflight, Aborts, Succeeding
  <2>4. CASE target[f] # Absent /\ ~(target[f] = Baseline /\ f \in Existing) /\ target[f] # Managed
    BY <1>2, <2>4 DEF Preflight, Aborts, Succeeding
  <2>. QED BY <2>1, <2>2, <2>3, <2>4
<1>3. CASE HasParent(f) /\ quarantine[f] # Absent
  BY <1>3 DEF Preflight, Aborts, Succeeding
<1>. QED BY <1>1, <1>2, <1>3

(* A step that leaves the files and the editors alone, away from any file    *)
(* and before the result is recorded.                                        *)
LEMMA BetweenFilesKeeps ==
  ASSUME UndoInv, at # "idle", UNCHANGED <<target, quarantine, undone, editor>>,
         results' \in [File -> {Undecided, "eligible", "not_modified", "failed"}
                                \union Succeeding \union Aborts],
         at' \in {"preflight", "decide", "begin", "directories", "record"},
         current' \in Nat,
         at' = "begin" => current' \in File /\ results'[current'] = "eligible",
         StatusIsTrue'
  PROVE  UndoInv'
<1>1. Typed'
  BY DEF UndoInv, Typed, editor, Steps, OnFile, LinkingBack, UnlinkingBack
<1>2. Held' /\ InPlace'
  BY DEF Held, InPlace, LinkingBack, UnlinkingBack
<1>3. SuccessIsLast' /\ SuccessIsRestored'
  BY DEF UndoInv, SuccessIsLast, SuccessIsRestored
<1>4. NoEditIsLost' /\ AFileIsSomewhere'
  BY DEF UndoInv, NoEditIsLost, AFileIsSomewhere, editor
<1>. QED BY <1>1, <1>2, <1>3, <1>4 DEF UndoInv

LEMMA CheckKeeps == UndoInv /\ Check => UndoInv'
<1> SUFFICES ASSUME UndoInv, Check PROVE UndoInv'
  OBVIOUS
<1>1. /\ at = "preflight" /\ UNCHANGED <<target, quarantine, undone, editor>>
      /\ results' = [results EXCEPT ![current] = Preflight(current)]
      /\ at' \in {"preflight", "decide"} /\ current' \in {current, current + 1}
  BY DEF Check, files, Running
<1>2. /\ current \in Nat
      /\ results \in [File -> {Undecided, "eligible", "not_modified", "failed"}
                               \union Succeeding \union Aborts]
  BY DEF UndoInv, Typed
<1>3. current \in File
        => Preflight(current) \in {Undecided, "eligible", "not_modified", "failed"}
                                    \union Succeeding \union Aborts
  BY PreflightIs DEF Succeeding
<1>4. results' \in [File -> {Undecided, "eligible", "not_modified", "failed"}
                              \union Succeeding \union Aborts]
  BY <1>1, <1>2, <1>3
<1>5. StatusIsTrue'
  <2> SUFFICES ASSUME NEW f \in File \ edited', results'[f] \in Succeeding
               PROVE  Restored(f)'
    BY DEF StatusIsTrue
  <2>1. f \in File \ edited /\ (Restored(f)' <=> Restored(f))
    BY <1>1 DEF editor, Restored
  <2>2. CASE f = current
    BY <1>1, <1>2, <2>1, <2>2, PreflightIs
  <2>3. CASE f # current
    BY <1>1, <1>2, <2>1, <2>3 DEF UndoInv, StatusIsTrue
  <2>. QED BY <2>2, <2>3
<1>. QED BY <1>1, <1>2, <1>4, <1>5, BetweenFilesKeeps

LEMMA DecideKeeps == UndoInv /\ Decide => UndoInv'
<1> SUFFICES ASSUME UndoInv, Decide PROVE UndoInv'
  OBVIOUS
<1>1. at = "decide" /\ UNCHANGED <<target, quarantine, undone, editor>>
  BY DEF Decide, files, Running
<1>2. /\ current \in Nat
      /\ results \in [File -> {Undecided, "eligible", "not_modified", "failed"}
                               \union Succeeding \union Aborts]
  BY DEF UndoInv, Typed
<1>3. \A f \in File : Restored(f)' <=> Restored(f)
  BY <1>1 DEF Restored
<1>4. edited' = edited
  BY <1>1 DEF editor
<1>5. CASE \E f \in File : results[f] \in Aborts
  <2>1. results' = Normalized(results) /\ at' = "record" /\ current' = current
    BY <1>5 DEF Decide
  <2>2. \A f \in File : results'[f] \in Aborts \union {"not_modified"}
    BY <2>1 DEF Normalized
  <2>3. results' \in [File -> {Undecided, "eligible", "not_modified", "failed"}
                                \union Succeeding \union Aborts]
    BY <2>1, <2>2 DEF Normalized
  <2>4. StatusIsTrue'
    BY <2>2 DEF StatusIsTrue, Succeeding, Aborts
  <2>. QED BY <1>1, <1>2, <2>1, <2>3, <2>4, BetweenFilesKeeps
<1>6. CASE ~\E f \in File : results[f] \in Aborts
  <2>1. /\ results' = results
        /\ \/ at' = "directories" /\ current' = current
           \/ at' = "begin" /\ current' = First(Eligible) /\ Eligible # {}
    BY <1>6 DEF Decide
  <2>2. at' = "begin" => current' \in Eligible
    BY <2>1, FirstIsIn DEF Eligible
  <2>3. at' = "begin" => current' \in File /\ results'[current'] = "eligible"
    BY <2>1, <2>2 DEF Eligible
  <2>4. current' \in Nat
    BY <1>2, <2>1, <2>3, FilesAreKnown DEF File
  <2>5. StatusIsTrue'
    BY <1>3, <1>4, <2>1 DEF UndoInv, StatusIsTrue
  <2>. QED BY <1>1, <1>2, <2>1, <2>3, <2>4, <2>5, BetweenFilesKeeps
<1>. QED BY <1>5, <1>6

LEMMA RemoveDirectoriesKeeps == UndoInv /\ RemoveDirectories => UndoInv'
<1> SUFFICES ASSUME UndoInv, RemoveDirectories PROVE UndoInv'
  OBVIOUS
<1>1. /\ at = "directories" /\ UNCHANGED <<target, quarantine, undone, editor>>
      /\ at' = "record" /\ current' = current /\ results' = results
  BY DEF RemoveDirectories, SameTarget, SameQuarantine, Running, GoTo
<1>2. StatusIsTrue'
  BY <1>1 DEF UndoInv, StatusIsTrue, Restored, editor
<1>. QED BY <1>1, <1>2, BetweenFilesKeeps DEF UndoInv, Typed

(* reduce_undo_status: a success is one of every file.                       *)
LEMMA RecordKeeps == UndoInv /\ Record => UndoInv'
<1> SUFFICES ASSUME UndoInv, Record PROVE UndoInv'
  OBVIOUS
<1>1. /\ at' = "idle" /\ UNCHANGED <<target, quarantine, editor, current, results>>
      /\ undone' = Reduced({results[f] : f \in File})
  BY DEF Record, files, GoTo
<1>2. Typed'
  BY <1>1 DEF UndoInv, Typed, editor, Steps, OnFile, LinkingBack, UnlinkingBack
<1>3. Held' /\ InPlace' /\ SuccessIsLast'
  BY <1>1 DEF Held, InPlace, SuccessIsLast, LinkingBack, UnlinkingBack
<1>4. NoEditIsLost' /\ AFileIsSomewhere'
  BY <1>1 DEF UndoInv, NoEditIsLost, AFileIsSomewhere, editor
<1>5. StatusIsTrue'
  BY <1>1 DEF UndoInv, StatusIsTrue, Restored, editor
<1>6. SuccessIsRestored'
  <2> SUFFICES ASSUME undone' = "succeeded", NEW f \in File \ edited'
               PROVE  Restored(f)'
    BY DEF SuccessIsRestored
  <2>1. {results[g] : g \in File} \subseteq Succeeding
    BY <1>1 DEF Reduced, Succeeding
  <2>2. results'[f] \in Succeeding
    BY <1>1, <2>1
  <2>. QED BY <1>5, <2>2 DEF StatusIsTrue
<1>. QED BY <1>2, <1>3, <1>4, <1>5, <1>6 DEF UndoInv

(* A run begins, or dies: what it had found of the files is forgotten.       *)
LEMMA ForgettingKeeps ==
  ASSUME UndoInv, UNCHANGED <<target, quarantine, undone, everEdited, saved>>,
         undone # "succeeded",
         at' \in {"idle", "preflight"}, current' = 1,
         results' = [f \in File |-> Undecided], edited' \in {edited, {}}
  PROVE  UndoInv'
<1>1. Typed'
  BY DEF UndoInv, Typed, Steps, OnFile, LinkingBack, UnlinkingBack
<1>2. Held' /\ InPlace'
  BY DEF Held, InPlace, LinkingBack, UnlinkingBack
<1>3. NoEditIsLost' /\ AFileIsSomewhere'
  BY DEF UndoInv, NoEditIsLost, AFileIsSomewhere
<1>4. StatusIsTrue' /\ SuccessIsLast' /\ SuccessIsRestored'
  BY DEF StatusIsTrue, SuccessIsLast, SuccessIsRestored, Undecided, Succeeding
<1>. QED BY <1>1, <1>2, <1>3, <1>4 DEF UndoInv

-----------------------------------------------------------------------------
(* Editors. *)

(* Whatever an editor does to a file, what it saved of it before is either   *)
(* replaced by itself or in quarantine.                                      *)
LEMMA TouchKeeps ==
  ASSUME UndoInv, NEW f \in File, NEW content \in Content \union {Absent},
         Put(f, content), Touch(f),
         saved' = [saved EXCEPT ![f] = (@ \ {target[f]}) \union ({content} \intersect EditContent)]
  PROVE  UndoInv'
<1>1. /\ target \in [File -> Content \union {Absent}]
      /\ saved \in [File -> SUBSET EditContent]
      /\ edited \subseteq everEdited
      /\ UNCHANGED <<quarantine, at, current, results, undone>>
      /\ edited' = edited \union {f} /\ everEdited' = everEdited \union {f}
      /\ target' = [target EXCEPT ![f] = content]
  BY DEF UndoInv, Typed, Touch, Put
<1>2. /\ target'[f] = content
      /\ saved'[f] = (saved[f] \ {target[f]}) \union ({content} \intersect EditContent)
      /\ \A g \in File \ {f} : target'[g] = target[g] /\ saved'[g] = saved[g]
  BY <1>1
<1>3. Typed'
  <2>1. target' \in [File -> Content \union {Absent}] /\ saved' \in [File -> SUBSET EditContent]
    BY <1>1
  <2>. QED BY <1>1, <2>1 DEF UndoInv, Typed
<1>4. Held'
  BY <1>1 DEF UndoInv, Held
<1>5. InPlace'
  <2>1. at \in UnlinkingBack => saved'[current] \subseteq {target'[current]}
    <3>1. at \in UnlinkingBack => current \in File
      BY DEF UndoInv, Typed, OnFile
    <3>. QED BY <1>2, <3>1 DEF UndoInv, InPlace
  <2>2. \A g \in File \ everEdited' : g \in File \ everEdited /\ target'[g] = target[g]
    BY <1>1, <1>2
  <2>3. \A g \in File \ edited' : g \in File \ edited /\ target'[g] = target[g]
    BY <1>1, <1>2
  <2>4. at = "discard" => current \in File
    BY DEF UndoInv, Typed, OnFile
  <2>. QED BY <1>1, <2>1, <2>2, <2>3, <2>4, FilesAreKnown DEF UndoInv, InPlace
<1>6. NoEditIsLost'
  <2> SUFFICES ASSUME NEW g \in File
               PROVE  saved'[g] \subseteq {target'[g], quarantine'[g]}
    BY DEF NoEditIsLost
  <2>1. saved[g] \subseteq {target[g], quarantine[g]}
    BY DEF UndoInv, NoEditIsLost
  <2>2. CASE g = f
    BY <1>1, <1>2, <2>1, <2>2
  <2>3. CASE g # f
    BY <1>1, <1>2, <2>1, <2>3
  <2>. QED BY <2>2, <2>3
<1>7. AFileIsSomewhere'
  BY <1>1, <1>2, FilesAreKnown DEF UndoInv, AFileIsSomewhere
<1>8. StatusIsTrue' /\ SuccessIsRestored' /\ SuccessIsLast'
  <2>1. \A g \in File \ edited' : g \in File \ edited /\ (Restored(g)' <=> Restored(g))
    BY <1>1, <1>2 DEF Restored
  <2>. QED BY <1>1, <2>1 DEF UndoInv, StatusIsTrue, SuccessIsRestored, SuccessIsLast
<1>. QED BY <1>3, <1>4, <1>5, <1>6, <1>7, <1>8 DEF UndoInv

-----------------------------------------------------------------------------
(* The invariant holds initially, and every step keeps it.                   *)

LEMMA UndoStarts == UndoInit => UndoInv
<1> SUFFICES ASSUME UndoInit PROVE UndoInv
  OBVIOUS
<1> USE DEF UndoInit
<1>1. Typed
  BY DEF Typed, Content, Steps, OnFile, LinkingBack, UnlinkingBack
<1>2. Held /\ InPlace
  BY DEF Held, InPlace, LinkingBack, UnlinkingBack
<1>3. StatusIsTrue /\ SuccessIsLast /\ SuccessIsRestored
  BY DEF StatusIsTrue, SuccessIsLast, SuccessIsRestored, Undecided, Succeeding
<1>4. NoEditIsLost
  BY DEF NoEditIsLost
<1>5. AFileIsSomewhere
  BY Distinct, FilesAreKnown DEF AFileIsSomewhere
<1>. QED BY <1>1, <1>2, <1>3, <1>4, <1>5 DEF UndoInv

LEMMA UndoInvIsInductive == UndoInv /\ [UndoNext]_vars => UndoInv'
<1> SUFFICES ASSUME UndoInv, [UndoNext]_vars PROVE UndoInv'
  OBVIOUS
<1>1. CASE Start
  BY <1>1, ForgettingKeeps DEF Start, files
<1>2. CASE Crash
  <2>1. undone # "succeeded"
    BY <1>2 DEF Crash, UndoInv, SuccessIsLast
  <2>. QED BY <1>2, <2>1, ForgettingKeeps DEF Crash, files, editor
<1>3. ASSUME NEW f \in File, Edit(f) PROVE UndoInv'
  <2>1. PICK content \in EditContent \union {Baseline, Managed} :
           /\ Put(f, content)
           /\ saved' = [saved EXCEPT ![f] = (@ \ {target[f]}) \union ({content} \intersect EditContent)]
    BY <1>3 DEF Edit
  <2>2. content \in Content \union {Absent} /\ Touch(f)
    BY <1>3 DEF Edit, Content
  <2>. QED BY <2>1, <2>2, TouchKeeps
<1>4. ASSUME NEW f \in File, Delete(f) PROVE UndoInv'
  <2>1. Put(f, Absent) /\ Touch(f) /\ saved' = [saved EXCEPT ![f] = @ \ {target[f]}]
    BY <1>4 DEF Delete
  <2>2. {Absent} \intersect EditContent = {}
    BY Distinct
  <2>3. saved' = [saved EXCEPT ![f] = (@ \ {target[f]}) \union ({Absent} \intersect EditContent)]
    BY <2>1, <2>2
  <2>. QED BY <2>1, <2>3, TouchKeeps
<1>5. CASE Check \/ Decide \/ RemoveDirectories \/ Record
  BY <1>5, CheckKeeps, DecideKeeps, RemoveDirectoriesKeeps, RecordKeeps
<1>6. CASE Begin \/ Inspect \/ Reuse \/ Resume \/ Reserve \/ Rename
  BY <1>6, BeginKeeps, InspectKeeps, ReuseKeeps, ResumeKeeps, ReserveKeeps, RenameKeeps
<1>7. CASE \/ Verify \/ LinkBack \/ UnlinkBack \/ Create \/ Install \/ Recreated \/ Discard
  BY <1>7, VerifyKeeps, LinkBackKeeps, UnlinkBackKeeps, CreateKeeps, InstallKeeps,
     RecreatedKeeps, DiscardKeeps
<1>8. CASE UNCHANGED vars
  BY <1>8 DEF vars, files, editor, UndoInv, Typed, Held, InPlace, StatusIsTrue, SuccessIsLast,
              NoEditIsLost, AFileIsSomewhere, SuccessIsRestored, Restored
<1>. QED BY <1>1, <1>2, <1>3, <1>4, <1>5, <1>6, <1>7, <1>8 DEF UndoNext, Step

(* Through every edit, crash, failed call and retry the invariant holds.     *)
THEOREM UndoInvariance == UndoSpec => []UndoInv
BY UndoStarts, UndoInvIsInductive, PTL DEF UndoSpec

(* What an editor saved while the undo ran is never lost: it is at the path  *)
(* of its file or in quarantine (_atomic_restore, _verified_delete).         *)
THEOREM EditsAreKept == UndoSpec => []NoEditIsLost
<1>1. UndoInv => NoEditIsLost
  BY DEF UndoInv
<1>. QED BY <1>1, UndoInvariance, PTL

(* A file that was there before the turn is never nowhere, wherever the undo *)
(* dies (the order of link and unlink in _atomic_restore).                   *)
THEOREM FilesSurviveUndo == UndoSpec => []AFileIsSomewhere
<1>1. UndoInv => AFileIsSomewhere
  BY DEF UndoInv
<1>. QED BY <1>1, UndoInvariance, PTL

(* An undo that reports success restored every file that nobody touched      *)
(* meanwhile, after whatever runs died before it (reduce_undo_status).       *)
THEOREM SuccessesAreRestored == UndoSpec => []SuccessIsRestored
<1>1. UndoInv => SuccessIsRestored
  BY DEF UndoInv
<1>. QED BY <1>1, UndoInvariance, PTL

-----------------------------------------------------------------------------
(* An undo that no editor disturbs. *)

(* The file is under both names: a link back was cut short.                  *)
Twice(f) == target[f] = Managed /\ quarantine[f] = Managed

(* What undo_turn alone makes of a file, from step to step.                  *)
Usual(f) ==
  \/ target[f] = Managed /\ quarantine[f] \in {Absent, Reserved, Managed}
  \/ target[f] = Absent /\ quarantine[f] = Managed
  \/ target[f] = Baseline /\ quarantine[f] \in {Absent, Managed} /\ f \in Existing
  \/ target[f] = Absent /\ quarantine[f] = Absent /\ f \notin Existing

AllUsual == ~swapped /\ \A f \in File : Usual(f) /\ (Twice(f) => errors # 0)

(* Where undo_turn has changed nothing yet, or will change nothing any more. *)
Apart == {"idle", "preflight", "decide", "record"}

(* What the check of a file found is still so when its turn comes.           *)
AsFound ==
  /\ at = "preflight" => \A f \in File : f < current => results[f] = Preflight(f)
  /\ at = "decide" => \A f \in File : results[f] = Preflight(f)
  /\ at \in OnFile => \A f \in File : results[f] = "eligible" =>
       f >= current /\ (f # current \/ at = "begin" => Preflight(f) = "eligible")

(* What the step at a file finds of it.                                      *)
AtFile ==
  /\ at \notin {"link back: conflict", "unlink: conflict"}
  /\ at = "inspect" => quarantine[current] \in {Reserved, Managed}
  /\ at = "inspect" => ~Twice(current)
  /\ at \in {"reserve", "rename", "reuse"} => target[current] = Managed
  /\ at \in {"create", "install", "recreated", "verify"} => target[current] = Absent
  /\ at = "resume" => target[current] # Managed
  /\ at \in UnlinkingBack => Twice(current)
  /\ at \in LinkingBack \union UnlinkingBack => errors # 0

(* What is found of a file, and what is reported, has a reason.              *)
Reasons ==
  /\ \A f \in File : /\ results[f] \in Aborts => ~HasParent(f) \/ Twice(f)
                     /\ results[f] = "failed" => errors # 0
  /\ at \in OnFile \union {"directories"} /\ errors = 0
       => \A f \in File : results[f] \in Succeeding \/ (results[f] = "eligible" /\ at # "directories")
  /\ at = "record" /\ errors = 0
       => \/ \A f \in File : results[f] \in Succeeding
          \/ /\ \A f \in File : results[f] \in Aborts \union {"not_modified"}
             /\ \E f \in File : results[f] \in Aborts
  /\ undone = "conflict" => at \in Apart /\ \E f \in File : ~HasParent(f) \/ Twice(f)
  /\ undone = "partial" => errors # 0

(* Once the directory is gone, nothing is done any more.                     *)
Gone ==
  Inside # {} /\ ~directory =>
    /\ at \in Apart
    /\ errors = 0 => \A f \in File : Restored(f)

AloneInv == errors \in Nat /\ (everEdited = {} => AllUsual /\ AsFound /\ AtFile /\ Reasons /\ Gone)

LEMMA NoneIsAborted ==
  /\ Aborts \intersect (Succeeding \union {Undecided, "eligible", "not_modified", "failed"}) = {}
  /\ Succeeding \intersect {Undecided, "eligible", "not_modified", "failed"} = {}
BY DEF Aborts, Succeeding, Undecided

(* What the check of an undisturbed file finds.                              *)
LEMMA CheckedAlone ==
  ASSUME NEW f \in File, Usual(f)
  PROVE  /\ Preflight(f) \in Aborts <=> ~HasParent(f) \/ Twice(f)
         /\ Preflight(f) = "eligible" =>
              /\ HasParent(f) /\ ~Twice(f) /\ quarantine[f] \in {Absent, Reserved, Managed}
              /\ quarantine[f] = Absent => target[f] = Managed
<1>1. CASE ~HasParent(f)
  BY <1>1 DEF Preflight, Aborts
<1>2. CASE HasParent(f) /\ quarantine[f] = Absent
  <2>1. ~Twice(f)
    BY <1>2, Distinct DEF Twice
  <2>2. CASE target[f] = Managed
    BY <1>2, <2>1, <2>2, Distinct DEF Preflight, Aborts
  <2>3. CASE target[f] = Baseline /\ f \in Existing
    BY <1>2, <2>1, <2>3, Distinct DEF Preflight, Aborts
  <2>4. CASE target[f] = Absent /\ f \notin Existing
    BY <1>2, <2>1, <2>4, Distinct DEF Preflight, Aborts
  <2>. QED BY <1>2, <2>2, <2>3, <2>4, Distinct DEF Usual
<1>3. CASE HasParent(f) /\ quarantine[f] # Absent
  <2>1. quarantine[f] \in {Reserved, Managed}
    BY <1>3 DEF Usual
  <2>2. CASE Twice(f)
    BY <1>3, <2>2, Distinct DEF Preflight, Aborts, Twice
  <2>3. CASE ~Twice(f)
    <3>1. \/ quarantine[f] = Reserved /\ target[f] = Managed
          \/ quarantine[f] = Managed /\ target[f] = Absent
          \/ quarantine[f] = Managed /\ target[f] = Baseline /\ f \in Existing
      BY <1>3, <2>1, <2>3, Distinct DEF Usual, Twice
    <3>2. Preflight(f) = "eligible"
      BY <1>3, <3>1 DEF Preflight
    <3>. QED BY <1>3, <2>1, <2>3, <3>2 DEF Aborts
  <2>. QED BY <2>2, <2>3
<1>. QED BY <1>1, <1>2, <1>3

(* While undo_turn is at a file the directory is there.                      *)
LEMMA AtFileAlone ==
  ASSUME UndoInv, AloneInv, everEdited = {}, at \in OnFile
  PROVE  /\ directory \/ Inside = {}
         /\ undone \notin {"conflict", "succeeded"}
         /\ current \in File /\ Usual(current) /\ ~swapped /\ HasParent(current)
         /\ edited = {} /\ errors \in Nat
<1>1. at \notin Apart
  BY DEF Apart, OnFile, LinkingBack, UnlinkingBack
<1>2. (directory \/ Inside = {}) /\ undone # "conflict"
  BY <1>1 DEF AloneInv, Gone, Reasons
<1>3. undone # "succeeded" /\ current \in File /\ edited \subseteq everEdited
  BY <1>1 DEF UndoInv, SuccessIsLast, Typed, Apart
<1>. QED BY <1>2, <1>3 DEF AloneInv, AllUsual, HasParent

(* A step at a file changes that file at most.                               *)
Moves(c) ==
  /\ UNCHANGED <<directory, undone, editor>> /\ errors' \in {errors, errors + 1} /\ ~swapped'
  /\ \A f \in File \ {c} : target'[f] = target[f] /\ quarantine'[f] = quarantine[f]
  /\ Usual(c)' /\ (Twice(c)' => errors' # 0)

LEMMA MovedAlone ==
  ASSUME UndoInv, AloneInv, everEdited = {}, at \in OnFile, NEW c \in File, c = current, Moves(c)
  PROVE  /\ AllUsual' /\ errors' \in Nat /\ (errors # 0 => errors' # 0) /\ everEdited' = {}
         /\ Gone' /\ undone' # "conflict" /\ (undone' = "partial" => errors' # 0)
         /\ \A f \in File \ {c} : /\ Twice(f)' <=> Twice(f)
                                  /\ HasParent(f)' <=> HasParent(f)
                                  /\ Preflight(f)' = Preflight(f)
<1>1. errors \in Nat /\ (directory \/ Inside = {}) /\ undone # "conflict"
  BY AtFileAlone
<1>2. errors' \in Nat /\ (errors # 0 => errors' # 0) /\ everEdited' = {}
  BY <1>1 DEF Moves, editor
<1>3. \A f \in File \ {c} : /\ Twice(f)' <=> Twice(f)
                            /\ Usual(f)' <=> Usual(f)
                            /\ HasParent(f)' <=> HasParent(f)
                            /\ Preflight(f)' = Preflight(f)
  BY DEF Moves, Twice, Usual, HasParent, Preflight
<1>4. AllUsual'
  BY <1>2, <1>3 DEF AloneInv, AllUsual, Moves
<1>5. Gone'
  BY <1>1 DEF Gone, Moves
<1>6. undone' # "conflict" /\ (undone' = "partial" => errors' # 0)
  BY <1>1, <1>2 DEF AloneInv, Reasons, Moves
<1>. QED BY <1>2, <1>3, <1>4, <1>5, <1>6

(* The file is not done yet.                                                 *)
LEMMA GoToAlone ==
  ASSUME UndoInv, AloneInv, everEdited = {}, at \in OnFile, NEW c \in File, c = current, Moves(c),
         at' \in OnFile, at' # "begin", UNCHANGED <<current, results>>, AtFile'
  PROVE  AloneInv'
<1>1. results[c] = "eligible"
  BY DEF UndoInv, Typed
<1>2. AsFound'
  <2>1. at' \notin {"preflight", "decide"}
    BY DEF OnFile, LinkingBack, UnlinkingBack
  <2>. QED BY <2>1, MovedAlone DEF AloneInv, AsFound
<1>3. Reasons'
  <2>1. at' \notin {"directories", "record"}
    BY DEF OnFile, LinkingBack, UnlinkingBack
  <2>2. \A f \in File : /\ results[f] \in Aborts => ~HasParent(f)' \/ Twice(f)'
                        /\ results[f] = "failed" => errors' # 0
    BY <1>1, MovedAlone, NoneIsAborted DEF AloneInv, Reasons
  <2>3. errors' = 0 => \A f \in File : results[f] \in Succeeding \/ results[f] = "eligible"
    BY MovedAlone DEF AloneInv, Reasons
  <2>. QED BY <2>1, <2>2, <2>3, MovedAlone DEF Reasons
<1>. QED BY <1>2, <1>3, MovedAlone DEF AloneInv

(* The file is done.                                                         *)
LEMMA DoneAlone ==
  ASSUME UndoInv, AloneInv, everEdited = {}, at \in OnFile, NEW c \in File, c = current, Moves(c),
         NEW status \in {"failed"} \union Succeeding, Done(status),
         status = "failed" => errors' # 0
  PROVE  AloneInv'
<1> DEFINE rest == {f \in Eligible : f > current}
<1>1. /\ results' = [results EXCEPT ![c] = status]
      /\ \/ at' = "directories" /\ current' = current /\ rest = {}
         \/ at' = "begin" /\ current' = First(rest) /\ rest # {}
  BY DEF Done
<1>2. at' = "begin" => current' \in rest /\ \A g \in rest : current' <= g
  BY <1>1, FirstIsIn DEF Eligible
<1>3. /\ results'[c] = status
      /\ \A f \in File \ {c} : results'[f] = results[f]
  BY <1>1 DEF UndoInv, Typed
<1>4. status # "eligible" /\ status \notin Aborts
  BY NoneIsAborted DEF Succeeding
<1>5. \A f \in File : results'[f] = "eligible" => f \in rest /\ f # c
  <2> SUFFICES ASSUME NEW f \in File, results'[f] = "eligible" PROVE f \in rest /\ f # c
    OBVIOUS
  <2>1. f # c /\ results[f] = "eligible"
    BY <1>3, <1>4
  <2>2. f >= c /\ f \in Nat /\ c \in Nat
    BY <2>1, FilesAreKnown DEF AloneInv, AsFound, File
  <2>. QED BY <2>1, <2>2 DEF Eligible
<1>6. \A f \in rest : Preflight(f) = "eligible"
  <2> SUFFICES ASSUME NEW f \in rest PROVE Preflight(f) = "eligible"
    OBVIOUS
  <2>1. f \in File /\ results[f] = "eligible" /\ f # current
    BY FilesAreKnown DEF Eligible, File
  <2>. QED BY <2>1 DEF AloneInv, AsFound
<1> HIDE DEF rest
<1>7. AsFound'
  <2>1. \A f \in File : results'[f] = "eligible" => Preflight(f)' = "eligible"
    BY <1>5, <1>6, MovedAlone
  <2>2. at' = "begin" => \A f \in File : results'[f] = "eligible" => f >= current'
    <3> SUFFICES ASSUME at' = "begin", NEW f \in File, results'[f] = "eligible" PROVE f >= current'
      OBVIOUS
    <3>1. current' <= f
      BY <1>2, <1>5
    <3>. QED BY <3>1
  <2>3. at' = "begin" \/ at' \notin {"preflight", "decide"} \union OnFile
    BY <1>1 DEF OnFile, LinkingBack, UnlinkingBack
  <2>. QED BY <2>1, <2>2, <2>3 DEF AsFound
<1>8. AtFile'
  BY <1>1 DEF AtFile, LinkingBack, UnlinkingBack
<1>9. Reasons'
  <2>1. \A f \in File : /\ results'[f] \in Aborts => ~HasParent(f)' \/ Twice(f)'
                        /\ results'[f] = "failed" => errors' # 0
    BY <1>3, <1>4, MovedAlone DEF AloneInv, Reasons
  <2>2. errors' = 0 => \A f \in File : results'[f] \in Succeeding \/ results'[f] = "eligible"
    BY <1>3, MovedAlone DEF AloneInv, Reasons
  <2>3. at' = "directories" => \A f \in File : results'[f] # "eligible"
    BY <1>1, <1>5
  <2>. QED BY <1>1, <2>1, <2>2, <2>3, MovedAlone DEF Reasons
<1>. QED BY <1>7, <1>8, <1>9, MovedAlone DEF AloneInv
(* The quarantine is given up, or the unlink fails.                          *)
LEMMA UnlinkAlone ==
  ASSUME UndoInv, AloneInv, everEdited = {}, at \in OnFile,
         UNCHANGED <<target, directory, undone, editor>>,
         NEW status \in {"failed"} \union Succeeding, Unlink(status),
         status = "failed" => errors # 0,
         \/ target[current] = Managed
         \/ target[current] = (IF current \in Existing THEN Baseline ELSE Absent)
  PROVE  AloneInv'
<1>1. PICK c \in File : c = current
  BY AtFileAlone
<1>2. /\ quarantine \in [File -> Content \union {Absent}] /\ errors \in Nat
      /\ Usual(c) /\ (Twice(c) => errors # 0)
  BY <1>1 DEF UndoInv, Typed, AloneInv, AllUsual
<1>3. errors' \in {errors, errors + 1} /\ (errors # 0 => errors' # 0)
  BY <1>2 DEF Unlink, NoError, Failing
<1>4. ~swapped'
  BY DEF Unlink, Done
<1>5. CASE Hide(current, Absent)
  <2>1. quarantine'[c] = Absent /\ \A f \in File \ {c} : quarantine'[f] = quarantine[f]
    BY <1>1, <1>2, <1>5 DEF Hide
  <2>2. Usual(c)' /\ ~Twice(c)'
    BY <1>1, <2>1, Distinct DEF Usual, Twice
  <2>3. Moves(c)
    BY <1>3, <1>4, <2>1, <2>2 DEF Moves
  <2>4. CASE Done(status)
    BY <1>1, <1>3, <2>3, <2>4, DoneAlone
  <2>5. CASE Done("failed") /\ Failing
    <3>1. errors' # 0
      BY <1>2, <2>5 DEF Failing
    <3>. QED BY <1>1, <2>3, <2>5, <3>1, DoneAlone
  <2>. QED BY <2>4, <2>5 DEF Unlink
<1>6. CASE SameQuarantine /\ Done("failed") /\ Failing
  <2>1. errors' # 0
    BY <1>2, <1>6 DEF Failing
  <2>2. Usual(c)'
    BY <1>2, <1>6 DEF Usual, SameQuarantine
  <2>3. Moves(c)
    BY <1>3, <1>4, <1>6, <2>1, <2>2 DEF Moves, SameQuarantine
  <2>. QED BY <1>1, <1>6, <2>1, <2>3, DoneAlone
<1>. QED BY <1>5, <1>6 DEF Unlink

(* A look at the file, or a call that fails, changes nothing of it.          *)
LEMMA LooksAlone ==
  ASSUME UndoInv, AloneInv, everEdited = {}, at \in OnFile,
         UNCHANGED <<target, quarantine, directory, undone, editor>>,
         ~swapped', errors' \in {errors, errors + 1}
  PROVE  \A c \in File : c = current => Moves(c)
<1>1. current \in File /\ Usual(current) /\ errors \in Nat
  BY AtFileAlone
<1>2. Twice(current) => errors # 0
  BY <1>1 DEF AloneInv, AllUsual
<1>. QED BY <1>1, <1>2 DEF Moves, Usual, Twice

LEMMA BeginAlone == UndoInv /\ AloneInv /\ everEdited = {} /\ Begin => AloneInv'
<1> SUFFICES ASSUME UndoInv, AloneInv, everEdited = {}, Begin PROVE AloneInv'
  OBVIOUS
<1>1. /\ at = "begin" /\ at \in OnFile /\ UNCHANGED <<target, quarantine, directory, undone, editor, errors>>
  BY DEF Begin, OnFile, files, Running, NoError
<1>2. /\ current \in File /\ Usual(current) /\ HasParent(current) /\ ~swapped
      /\ results[current] = "eligible"
  BY <1>1, AtFileAlone DEF UndoInv, Typed
<1>3. /\ at' = IF quarantine[current] = Absent THEN "reserve" ELSE "inspect"
      /\ UNCHANGED <<current, results, swapped>>
  BY <1>2 DEF Begin, GoTo
<1>4. Preflight(current) = "eligible"
  BY <1>1, <1>2 DEF AloneInv, AsFound
<1>5. /\ ~Twice(current) /\ quarantine[current] \in {Absent, Reserved, Managed}
      /\ quarantine[current] = Absent => target[current] = Managed
  BY <1>2, <1>4, CheckedAlone
<1>6. AtFile'
  BY <1>1, <1>3, <1>5 DEF AtFile, Twice, LinkingBack, UnlinkingBack
<1>7. \A c \in File : c = current => Moves(c)
  BY <1>1, <1>2, <1>3, LooksAlone
<1>. QED BY <1>1, <1>2, <1>3, <1>6, <1>7, GoToAlone DEF OnFile

LEMMA InspectAlone == UndoInv /\ AloneInv /\ everEdited = {} /\ Inspect => AloneInv'
<1> SUFFICES ASSUME UndoInv, AloneInv, everEdited = {}, Inspect PROVE AloneInv'
  OBVIOUS
<1>1. at = "inspect" /\ at \in OnFile /\ UNCHANGED <<target, quarantine, directory, undone, editor, errors>>
  BY DEF Inspect, OnFile, files, Running, NoError
<1>2. current \in File /\ Usual(current) /\ ~swapped
  BY <1>1, AtFileAlone
<1>3. quarantine[current] \in {Reserved, Managed} /\ ~Twice(current)
  BY <1>1 DEF AloneInv, AtFile
<1>4. CASE quarantine[current] = Reserved
  <2>1. target[current] = Managed
    BY <1>2, <1>4, Distinct DEF Usual
  <2>2. at' = "reuse" /\ ~swapped' /\ UNCHANGED <<current, results>>
    BY <1>4, <2>1 DEF Inspect
  <2>3. AtFile'
    BY <1>1, <2>1, <2>2 DEF AtFile, LinkingBack, UnlinkingBack
  <2>. QED BY <1>1, <1>2, <2>2, <2>3, LooksAlone, GoToAlone DEF OnFile
<1>5. CASE quarantine[current] = Managed
  <2>1. at' = "resume" /\ UNCHANGED <<current, swapped, results>>
    BY <1>5, Distinct DEF Inspect, GoTo
  <2>2. AtFile'
    BY <1>1, <1>3, <1>5, <2>1 DEF AtFile, Twice, LinkingBack, UnlinkingBack
  <2>. QED BY <1>1, <1>2, <2>1, <2>2, LooksAlone, GoToAlone DEF OnFile
<1>. QED BY <1>3, <1>4, <1>5

LEMMA ReuseAlone == UndoInv /\ AloneInv /\ everEdited = {} /\ Reuse => AloneInv'
<1> SUFFICES ASSUME UndoInv, AloneInv, everEdited = {}, Reuse PROVE AloneInv'
  OBVIOUS
<1>1. at = "reuse" /\ at \in OnFile /\ UNCHANGED <<target, directory, undone, editor>>
  BY DEF Reuse, OnFile, SameTarget, Running
<1>2. /\ current \in File /\ Usual(current) /\ ~swapped /\ errors \in Nat
      /\ quarantine \in [File -> Content \union {Absent}]
  BY <1>1, AtFileAlone DEF UndoInv, Typed
<1>3. target[current] = Managed /\ target[current] # Absent
  BY <1>1, Distinct DEF AloneInv, AtFile
<1>4. CASE Hide(current, Absent)
  <2>1. quarantine'[current] = Absent /\ \A f \in File \ {current} : quarantine'[f] = quarantine[f]
    BY <1>2, <1>4 DEF Hide
  <2>2. target'[current] = Managed /\ quarantine'[current] = Absent
    BY <1>1, <1>3, <2>1
  <2>3. \A c \in File : c = current => Usual(c)' /\ ~Twice(c)'
    BY <1>1, <1>3, <2>1, Distinct DEF Usual, Twice
  <2>4. CASE at' = "reserve" /\ UNCHANGED <<current, swapped, results>> /\ NoError
    <3>1. AtFile'
      BY <2>2, <2>4 DEF AtFile, LinkingBack, UnlinkingBack
    <3>2. \A c \in File : c = current => Moves(c)
      BY <1>1, <1>2, <2>1, <2>3, <2>4 DEF Moves, NoError
    <3>. QED BY <1>1, <1>2, <2>4, <3>1, <3>2, GoToAlone DEF OnFile
  <2>5. CASE Done("failed") /\ Failing
    <3>1. errors' = errors + 1 /\ ~swapped'
      BY <2>5 DEF Failing, Done
    <3>2. \A c \in File : c = current => Moves(c)
      BY <1>1, <1>2, <2>1, <2>3, <3>1 DEF Moves
    <3>. QED BY <1>1, <1>2, <2>5, <3>1, <3>2, DoneAlone
  <2>6. CASE SameQuarantine
    <3>1. quarantine[current] = Reserved
      BY <1>1 DEF UndoInv, Held
    <3>. QED BY <2>1, <2>6, <3>1, Distinct DEF SameQuarantine
  <2>. QED BY <1>2, <2>4, <2>5, <2>6 DEF Reuse
<1>5. ASSUME SameQuarantine, Failing PROVE errors' = errors + 1 /\ errors' # 0 /\ UNCHANGED quarantine
  BY <1>2, <1>5 DEF Failing, SameQuarantine
<1>6. CASE SameQuarantine /\ Failing /\ GoTo("link back: failed")
  <2>1. at' = "link back: failed" /\ ~swapped' /\ UNCHANGED <<current, results>>
    BY <1>2, <1>6 DEF GoTo
  <2>2. AtFile'
    BY <1>5, <1>6, <2>1 DEF AtFile, LinkingBack, UnlinkingBack
  <2>3. \A c \in File : c = current => Moves(c)
    BY <1>1, <1>5, <1>6, <2>1, LooksAlone
  <2>. QED BY <1>1, <1>2, <2>1, <2>2, <2>3, GoToAlone DEF OnFile, LinkingBack
<1>7. CASE SameQuarantine /\ Failing /\ Done("failed")
  <2>1. ~swapped'
    BY <1>7 DEF Done
  <2>2. \A c \in File : c = current => Moves(c)
    BY <1>1, <1>5, <1>7, <2>1, LooksAlone
  <2>. QED BY <1>1, <1>2, <1>5, <1>7, <2>2, DoneAlone
<1>. QED BY <1>2, <1>3, <1>4, <1>6, <1>7 DEF Reuse

LEMMA ResumeAlone == UndoInv /\ AloneInv /\ everEdited = {} /\ Resume => AloneInv'
<1> SUFFICES ASSUME UndoInv, AloneInv, everEdited = {}, Resume PROVE AloneInv'
  OBVIOUS
<1>1. at = "resume" /\ at \in OnFile /\ UNCHANGED <<target, directory, undone, editor>>
  BY DEF Resume, OnFile, SameTarget, Running
<1>2. current \in File /\ Usual(current) /\ ~swapped
  BY <1>1, AtFileAlone
<1>3. target[current] # Managed /\ quarantine[current] = Managed
  BY <1>1 DEF AloneInv, AtFile, UndoInv, Held
<1>4. CASE target[current] = Absent
  <2>1. /\ at' = IF current \in Existing THEN "create" ELSE "recreated"
        /\ UNCHANGED <<current, swapped, results, quarantine, errors>>
    BY <1>4, Distinct DEF Resume, GoTo, SameQuarantine, NoError
  <2>2. AtFile'
    BY <1>1, <1>4, <2>1 DEF AtFile, LinkingBack, UnlinkingBack
  <2>. QED BY <1>1, <1>2, <2>1, <2>2, LooksAlone, GoToAlone DEF OnFile
<1>5. CASE target[current] = Baseline /\ current \in Existing
  <2>1. Unlink("already_restored")
    BY <1>5, Distinct DEF Resume
  <2>. QED BY <1>1, <1>5, <2>1, UnlinkAlone DEF Succeeding
<1>6. target[current] = Absent \/ (target[current] = Baseline /\ current \in Existing)
  BY <1>2, <1>3 DEF Usual
<1>. QED BY <1>4, <1>5, <1>6
LEMMA ReserveAlone == UndoInv /\ AloneInv /\ everEdited = {} /\ Reserve => AloneInv'
<1> SUFFICES ASSUME UndoInv, AloneInv, everEdited = {}, Reserve PROVE AloneInv'
  OBVIOUS
<1>1. at = "reserve" /\ at \in OnFile /\ UNCHANGED <<target, directory, undone, editor, errors>>
  BY DEF Reserve, OnFile, SameTarget, Running, NoError
<1>2. /\ current \in File /\ ~swapped /\ HasParent(current)
      /\ quarantine \in [File -> Content \union {Absent}]
  BY <1>1, AtFileAlone DEF UndoInv, Typed
<1>3. target[current] = Managed
  BY <1>1 DEF AloneInv, AtFile
<1>4. Hide(current, Reserved) /\ at' = "rename" /\ UNCHANGED <<current, swapped, results>>
  BY <1>2 DEF Reserve, GoTo
<1>5. quarantine'[current] = Reserved /\ \A f \in File \ {current} : quarantine'[f] = quarantine[f]
  BY <1>2, <1>4 DEF Hide
<1>6. \A c \in File : c = current => Moves(c)
  BY <1>1, <1>2, <1>3, <1>4, <1>5, Distinct DEF Moves, Usual, Twice
<1>7. AtFile'
  BY <1>1, <1>3, <1>4 DEF AtFile, LinkingBack, UnlinkingBack
<1>. QED BY <1>1, <1>2, <1>4, <1>6, <1>7, GoToAlone DEF OnFile

LEMMA RenameAlone == UndoInv /\ AloneInv /\ everEdited = {} /\ Rename => AloneInv'
<1> SUFFICES ASSUME UndoInv, AloneInv, everEdited = {}, Rename PROVE AloneInv'
  OBVIOUS
<1>1. at = "rename" /\ at \in OnFile /\ UNCHANGED <<directory, undone, editor, errors>>
  BY DEF Rename, OnFile, Running, NoError
<1>2. /\ current \in File /\ ~swapped
      /\ target \in [File -> Content \union {Absent}]
      /\ quarantine \in [File -> Content \union {Absent}]
  BY <1>1, AtFileAlone DEF UndoInv, Typed
<1>3. target[current] = Managed /\ target[current] # Absent
  BY <1>1, Distinct DEF AloneInv, AtFile
<1>4. /\ Hide(current, target[current]) /\ Put(current, Absent) /\ at' = "verify"
      /\ UNCHANGED <<current, swapped, results>>
  BY <1>3 DEF Rename, GoTo
<1>5. /\ target'[current] = Absent /\ quarantine'[current] = Managed
      /\ \A f \in File \ {current} : target'[f] = target[f] /\ quarantine'[f] = quarantine[f]
  BY <1>2, <1>3, <1>4 DEF Hide, Put
<1>6. \A c \in File : c = current => Moves(c)
  BY <1>1, <1>2, <1>4, <1>5, Distinct DEF Moves, Usual, Twice
<1>7. AtFile'
  BY <1>4, <1>5 DEF AtFile, LinkingBack, UnlinkingBack
<1>. QED BY <1>1, <1>2, <1>4, <1>6, <1>7, GoToAlone DEF OnFile

LEMMA VerifyAlone == UndoInv /\ AloneInv /\ everEdited = {} /\ Verify => AloneInv'
<1> SUFFICES ASSUME UndoInv, AloneInv, everEdited = {}, Verify PROVE AloneInv'
  OBVIOUS
<1>1. at = "verify" /\ at \in OnFile /\ UNCHANGED <<target, quarantine, directory, undone, editor, errors>>
  BY DEF Verify, OnFile, files, Running, NoError
<1>2. current \in File /\ Usual(current) /\ ~swapped
  BY <1>1, AtFileAlone
<1>3. target[current] = Absent /\ quarantine[current] # Absent
  BY <1>1 DEF AloneInv, AtFile, UndoInv, Held
<1>4. quarantine[current] = Managed
  BY <1>2, <1>3, Distinct DEF Usual
<1>5. /\ at' = IF current \in Existing THEN "create" ELSE "recreated"
      /\ UNCHANGED <<current, swapped, results>>
  BY <1>4 DEF Verify, GoTo
<1>6. AtFile'
  BY <1>1, <1>3, <1>5 DEF AtFile, LinkingBack, UnlinkingBack
<1>. QED BY <1>1, <1>2, <1>5, <1>6, LooksAlone, GoToAlone DEF OnFile

LEMMA LinkBackAlone == UndoInv /\ AloneInv /\ everEdited = {} /\ LinkBack => AloneInv'
<1> SUFFICES ASSUME UndoInv, AloneInv, everEdited = {}, LinkBack PROVE AloneInv'
  OBVIOUS
<1>1. /\ at = "link back: failed" /\ at \in LinkingBack /\ at \in OnFile
      /\ UNCHANGED <<quarantine, directory, undone, editor>>
  BY DEF LinkBack, LinkingBack, OnFile, SameQuarantine, Running, AloneInv, AtFile
<1>2. /\ current \in File /\ Usual(current) /\ ~swapped /\ errors \in Nat
      /\ target \in [File -> Content \union {Absent}]
  BY <1>1, AtFileAlone DEF UndoInv, Typed
<1>3. quarantine[current] # Absent /\ errors # 0 /\ Outcome = "failed"
  BY <1>1 DEF AloneInv, AtFile, UndoInv, Held, Outcome
<1>4. errors' \in {errors, errors + 1} /\ errors' # 0
  <2>1. errors' = errors \/ errors' = errors + 1
    BY DEF LinkBack, NoError, Failing
  <2>. QED BY <1>2, <1>3, <2>1
<1>5. CASE target[current] = Absent /\ Put(current, quarantine[current])
           /\ GoTo(IF at = "link back: conflict" THEN "unlink: conflict" ELSE "unlink: failed")
  <2>1. quarantine[current] = Managed
    BY <1>2, <1>3, <1>5, Distinct DEF Usual
  <2>2. at' = "unlink: failed" /\ UNCHANGED <<current, swapped, results>>
    BY <1>1, <1>5 DEF GoTo
  <2>3. /\ target'[current] = Managed
        /\ \A f \in File \ {current} : target'[f] = target[f]
    BY <1>2, <1>5, <2>1 DEF Put
  <2>4. \A c \in File : c = current => Moves(c)
    BY <1>1, <1>2, <1>4, <2>1, <2>2, <2>3 DEF Moves, Usual
  <2>5. AtFile'
    BY <1>1, <1>4, <2>1, <2>2, <2>3 DEF AtFile, Twice, LinkingBack, UnlinkingBack
  <2>. QED BY <1>1, <1>2, <2>2, <2>4, <2>5, GoToAlone DEF OnFile, UnlinkingBack
<1>6. CASE SameTarget /\ Done(Outcome)
  <2>1. UNCHANGED target /\ ~swapped' /\ Done("failed")
    BY <1>3, <1>6 DEF SameTarget, Done
  <2>2. \A c \in File : c = current => Moves(c)
    BY <1>1, <1>4, <2>1, LooksAlone
  <2>. QED BY <1>1, <1>2, <1>4, <2>1, <2>2, DoneAlone
<1>. QED BY <1>5, <1>6 DEF LinkBack

LEMMA UnlinkBackAlone == UndoInv /\ AloneInv /\ everEdited = {} /\ UnlinkBack => AloneInv'
<1> SUFFICES ASSUME UndoInv, AloneInv, everEdited = {}, UnlinkBack PROVE AloneInv'
  OBVIOUS
<1>1. /\ at = "unlink: failed" /\ at \in OnFile /\ Unlink(Outcome)
      /\ UNCHANGED <<target, directory, undone, editor>>
  BY DEF UnlinkBack, UnlinkingBack, OnFile, SameTarget, Running, AloneInv, AtFile
<1>2. target[current] = Managed /\ errors # 0 /\ Outcome = "failed"
  BY <1>1 DEF AloneInv, AtFile, Twice, UnlinkingBack, Outcome
<1>. QED BY <1>1, <1>2, UnlinkAlone

LEMMA CreateAlone == UndoInv /\ AloneInv /\ everEdited = {} /\ Create => AloneInv'
<1> SUFFICES ASSUME UndoInv, AloneInv, everEdited = {}, Create PROVE AloneInv'
  OBVIOUS
<1>1. /\ at = "create" /\ at \in OnFile /\ UNCHANGED <<target, quarantine, directory, undone, editor>>
      /\ UNCHANGED <<current, swapped, results>>
  BY DEF Create, OnFile, files, Running, GoTo
<1>2. current \in File /\ ~swapped /\ errors \in Nat /\ target[current] = Absent
  BY <1>1, AtFileAlone DEF AloneInv, AtFile
<1>3. \/ at' = "install" /\ errors' = errors
      \/ at' = "link back: failed" /\ errors' = errors + 1
  BY DEF Create, GoTo, NoError, Failing
<1>4. errors' = errors + 1 => errors' # 0
  BY <1>2
<1>5. AtFile'
  BY <1>1, <1>2, <1>3, <1>4 DEF AtFile, LinkingBack, UnlinkingBack
<1>. QED BY <1>1, <1>2, <1>3, <1>5, LooksAlone, GoToAlone DEF OnFile, LinkingBack

LEMMA InstallAlone == UndoInv /\ AloneInv /\ everEdited = {} /\ Install => AloneInv'
<1> SUFFICES ASSUME UndoInv, AloneInv, everEdited = {}, Install PROVE AloneInv'
  OBVIOUS
<1>1. at = "install" /\ at \in OnFile /\ UNCHANGED <<quarantine, directory, undone, editor>>
  BY DEF Install, OnFile, SameQuarantine, Running
<1>2. /\ current \in File /\ ~swapped /\ errors \in Nat /\ target[current] = Absent
      /\ quarantine[current] = Managed /\ current \in Existing
      /\ target \in [File -> Content \union {Absent}]
  BY <1>1, AtFileAlone DEF AloneInv, AtFile, UndoInv, Held, Typed
<1>3. CASE Put(current, Baseline) /\ GoTo("discard") /\ NoError
  <2>1. at' = "discard" /\ UNCHANGED <<current, swapped, results, errors>>
    BY <1>3 DEF GoTo, NoError
  <2>2. /\ target'[current] = Baseline
        /\ \A f \in File \ {current} : target'[f] = target[f]
    BY <1>2, <1>3 DEF Put
  <2>3. \A c \in File : c = current => Moves(c)
    BY <1>1, <1>2, <2>1, <2>2, Distinct DEF Moves, Usual, Twice
  <2>4. AtFile'
    BY <2>1 DEF AtFile, LinkingBack, UnlinkingBack
  <2>. QED BY <1>1, <1>2, <2>1, <2>3, <2>4, GoToAlone DEF OnFile
<1>4. CASE SameTarget /\ GoTo("link back: failed") /\ Failing
  <2>1. /\ at' = "link back: failed" /\ UNCHANGED <<target, current, swapped, results>>
        /\ errors' = errors + 1
    BY <1>4 DEF SameTarget, GoTo, Failing
  <2>2. errors' = errors + 1 => errors' # 0
    BY <1>2
  <2>3. AtFile'
    BY <2>1, <2>2 DEF AtFile, LinkingBack, UnlinkingBack
  <2>. QED BY <1>1, <1>2, <2>1, <2>3, LooksAlone, GoToAlone DEF OnFile, LinkingBack
<1>. QED BY <1>2, <1>3, <1>4 DEF Install

LEMMA RecreatedAlone == UndoInv /\ AloneInv /\ everEdited = {} /\ Recreated => AloneInv'
<1> SUFFICES ASSUME UndoInv, AloneInv, everEdited = {}, Recreated PROVE AloneInv'
  OBVIOUS
<1>1. at = "recreated" /\ at \in OnFile /\ UNCHANGED <<target, quarantine, directory, undone, editor, errors>>
  BY DEF Recreated, OnFile, files, Running, NoError
<1>2. current \in File /\ ~swapped /\ target[current] = Absent
  BY <1>1, AtFileAlone DEF AloneInv, AtFile
<1>3. at' = "discard" /\ UNCHANGED <<current, swapped, results>>
  BY <1>2 DEF Recreated, GoTo
<1>4. AtFile'
  BY <1>3 DEF AtFile, LinkingBack, UnlinkingBack
<1>. QED BY <1>1, <1>2, <1>3, <1>4, LooksAlone, GoToAlone DEF OnFile

LEMMA DiscardAlone == UndoInv /\ AloneInv /\ everEdited = {} /\ Discard => AloneInv'
<1> SUFFICES ASSUME UndoInv, AloneInv, everEdited = {}, Discard PROVE AloneInv'
  OBVIOUS
<1> DEFINE status == IF current \in Existing THEN "restored" ELSE "deleted"
<1>1. /\ at = "discard" /\ at \in OnFile /\ UNCHANGED <<target, directory, undone, editor>>
      /\ Unlink(status)
  BY DEF Discard, OnFile, SameTarget, Running
<1>2. status \in {"failed"} \union Succeeding /\ status # "failed"
  BY DEF Succeeding
<1>3. target[current] = (IF current \in Existing THEN Baseline ELSE Absent)
  BY <1>1, AtFileAlone DEF UndoInv, InPlace
<1> HIDE DEF status
<1>. QED BY <1>1, <1>2, <1>3, UnlinkAlone
-----------------------------------------------------------------------------
(* Before the first file and after the last one. *)

(* Away from the files an undisturbed undo changes none of them.             *)
LEMMA SameAlone ==
  ASSUME AloneInv, everEdited = {}, UNCHANGED <<target, quarantine, directory, everEdited, errors>>, ~swapped',
         at' \notin OnFile \/ at' = "begin", Inside # {} /\ ~directory => at' \in Apart
  PROVE  /\ AllUsual' /\ AtFile' /\ Gone' /\ errors' \in Nat /\ everEdited' = {}
         /\ \A f \in File : /\ Twice(f)' <=> Twice(f)
                            /\ HasParent(f)' <=> HasParent(f)
                            /\ Preflight(f)' = Preflight(f)
<1>1. \A f \in File : /\ Twice(f)' <=> Twice(f)
                      /\ Usual(f)' <=> Usual(f)
                      /\ HasParent(f)' <=> HasParent(f)
                      /\ Restored(f)' <=> Restored(f)
                      /\ Preflight(f)' = Preflight(f)
  BY DEF Twice, Usual, HasParent, Restored, Preflight
<1>2. AllUsual' /\ errors' \in Nat
  BY <1>1 DEF AloneInv, AllUsual
<1>3. AtFile'
  BY DEF AtFile, OnFile, LinkingBack, UnlinkingBack
<1>4. Gone'
  BY <1>1 DEF AloneInv, Gone
<1>. QED BY <1>1, <1>2, <1>3, <1>4

(* A run begins, or dies.                                                    *)
LEMMA ForgetsAlone ==
  ASSUME AloneInv, everEdited = {}, UNCHANGED <<target, quarantine, directory, undone, everEdited, errors>>,
         ~swapped', at' = "idle" \/ (at' = "preflight" /\ current' = 1),
         results' = [f \in File |-> Undecided]
  PROVE  AloneInv'
<1>1. /\ AllUsual' /\ AtFile' /\ Gone' /\ errors' \in Nat
      /\ \A f \in File : (Twice(f)' <=> Twice(f)) /\ (HasParent(f)' <=> HasParent(f))
  <2>1. at' \notin OnFile /\ at' \in Apart
    BY DEF Apart, OnFile, LinkingBack, UnlinkingBack
  <2>. QED BY <2>1, SameAlone
<1>2. \A f \in File : ~(f < 1)
  BY FilesAreKnown DEF File
<1>3. AsFound'
  BY <1>2 DEF AsFound, OnFile, LinkingBack, UnlinkingBack
<1>4. \A f \in File : results'[f] \notin Aborts /\ results'[f] # "failed"
  BY DEF Aborts, Undecided
<1>5. Reasons'
  <2>1. at' \in Apart /\ at' \notin OnFile \union {"directories", "record"}
    BY DEF Apart, OnFile, LinkingBack, UnlinkingBack
  <2>. QED BY <1>1, <1>4, <2>1 DEF AloneInv, Reasons
<1>. QED BY <1>1, <1>3, <1>5 DEF AloneInv

LEMMA CheckAlone == UndoInv /\ AloneInv /\ everEdited = {} /\ Check => AloneInv'
<1> SUFFICES ASSUME UndoInv, AloneInv, everEdited = {}, Check PROVE AloneInv'
  OBVIOUS
<1>1. /\ at = "preflight" /\ UNCHANGED <<target, quarantine, directory, undone, everEdited, errors, swapped>>
      /\ results' = [results EXCEPT ![current] = Preflight(current)]
      /\ \/ current < FileCount /\ at' = "preflight" /\ current' = current + 1
         \/ ~(current < FileCount) /\ at' = "decide"
  BY DEF Check, files, editor, Running, NoError
<1>2. current \in Nat /\ (\A f \in File : f \in Nat /\ f <= FileCount) /\ FileCount \in Nat
  BY FilesAreKnown DEF UndoInv, Typed, File
<1>3. /\ AllUsual' /\ AtFile' /\ Gone' /\ errors' \in Nat
      /\ \A f \in File : /\ Twice(f)' <=> Twice(f)
                         /\ HasParent(f)' <=> HasParent(f)
                         /\ Preflight(f)' = Preflight(f)
  <2>1. at' \notin OnFile /\ at' \in Apart
    BY <1>1 DEF Apart, OnFile, LinkingBack, UnlinkingBack
  <2>. QED BY <1>1, <2>1, SameAlone DEF AloneInv, AllUsual
<1>4. \A f \in File : results'[f] = IF f = current THEN Preflight(f) ELSE results[f]
  BY <1>1 DEF UndoInv, Typed
<1>5. AsFound'
  <2>1. \A f \in File : f < current => results'[f] = Preflight(f)
    BY <1>1, <1>4 DEF AloneInv, AsFound
  <2>2. CASE at' = "preflight" /\ current' = current + 1
    <3>1. \A f \in File : f < current' => f < current \/ f = current
      BY <1>2, <2>2
    <3>. QED BY <1>3, <1>4, <2>1, <2>2, <3>1 DEF AsFound, OnFile, LinkingBack, UnlinkingBack
  <2>3. CASE at' = "decide" /\ ~(current < FileCount)
    <3>1. \A f \in File : f < current \/ f = current
      BY <1>2, <2>3
    <3>. QED BY <1>3, <1>4, <2>1, <2>3, <3>1 DEF AsFound, OnFile, LinkingBack, UnlinkingBack
  <2>. QED BY <1>1, <2>2, <2>3
<1>6. \A f \in File : /\ results'[f] \in Aborts => ~HasParent(f) \/ Twice(f)
                      /\ results'[f] = "failed" => errors # 0
  <2> SUFFICES ASSUME NEW f \in File
               PROVE  /\ results'[f] \in Aborts => ~HasParent(f) \/ Twice(f)
                      /\ results'[f] = "failed" => errors # 0
    OBVIOUS
  <2>1. Usual(f)
    BY DEF AloneInv, AllUsual
  <2>2. Preflight(f) # "failed"
    BY PreflightIs, NoneIsAborted DEF Succeeding
  <2>. QED BY <1>4, <2>1, <2>2, CheckedAlone DEF AloneInv, Reasons
<1>7. Reasons'
  <2>1. at' \in Apart /\ at' \notin OnFile \union {"directories", "record"}
    BY <1>1 DEF Apart, OnFile, LinkingBack, UnlinkingBack
  <2>. QED BY <1>1, <1>3, <1>6, <2>1 DEF AloneInv, Reasons
<1>. QED BY <1>3, <1>5, <1>7 DEF AloneInv

LEMMA DecideAlone == UndoInv /\ AloneInv /\ everEdited = {} /\ Decide => AloneInv'
<1> SUFFICES ASSUME UndoInv, AloneInv, everEdited = {}, Decide PROVE AloneInv'
  OBVIOUS
<1>1. at = "decide" /\ UNCHANGED <<target, quarantine, directory, undone, everEdited, errors, swapped>>
  BY DEF Decide, files, editor, Running, NoError
<1>2. \A f \in File : Usual(f) /\ results[f] = Preflight(f)
  BY <1>1 DEF AloneInv, AllUsual, AsFound
<1>3. \A f \in File : results[f] \in Aborts <=> ~HasParent(f) \/ Twice(f)
  BY <1>2, CheckedAlone
<1>4. CASE \E f \in File : results[f] \in Aborts
  <2>1. results' = Normalized(results) /\ at' = "record"
    BY <1>4 DEF Decide
  <2>2. \A f \in File : /\ results[f] \in Aborts => results'[f] = results[f]
                        /\ results[f] \notin Aborts => results'[f] = "not_modified"
    BY <2>1 DEF Normalized
  <2>3. /\ AllUsual' /\ AtFile' /\ Gone' /\ errors' \in Nat
        /\ \A f \in File : (Twice(f)' <=> Twice(f)) /\ (HasParent(f)' <=> HasParent(f))
    <3>1. at' \notin OnFile /\ at' \in Apart
      BY <2>1 DEF Apart, OnFile, LinkingBack, UnlinkingBack
    <3>. QED BY <1>1, <3>1, SameAlone DEF AloneInv, AllUsual
  <2>4. AsFound'
    BY <2>1 DEF AsFound, OnFile, LinkingBack, UnlinkingBack
  <2>5. /\ \A f \in File : /\ results'[f] \in Aborts => ~HasParent(f) \/ Twice(f)
                           /\ results'[f] # "failed"
                           /\ results'[f] \in Aborts \union {"not_modified"}
        /\ \E f \in File : results'[f] \in Aborts
    BY <1>3, <1>4, <2>2, NoneIsAborted DEF Aborts
  <2>6. Reasons'
    <3>1. at' \in Apart /\ at' \notin OnFile \union {"directories"}
      BY <2>1 DEF Apart, OnFile, LinkingBack, UnlinkingBack
    <3>. QED BY <1>1, <2>3, <2>5, <3>1 DEF AloneInv, Reasons
  <2>. QED BY <2>3, <2>4, <2>6 DEF AloneInv
<1>5. CASE ~\E f \in File : results[f] \in Aborts
  <2>1. /\ results' = results
        /\ \/ at' = "directories" /\ Eligible = {}
           \/ at' = "begin" /\ current' = First(Eligible) /\ Eligible # {}
    BY <1>5 DEF Decide
  <2>2. at' = "begin" => \A f \in Eligible : current' <= f
    BY <2>1, FirstIsIn DEF Eligible
  <2>3. \A f \in File : HasParent(f) /\ ~Twice(f)
    BY <1>3, <1>5
  <2>4. Inside = {} \/ directory
    BY <2>3, FilesAreKnown DEF HasParent
  <2>5. /\ AllUsual' /\ AtFile' /\ Gone' /\ errors' \in Nat
        /\ \A f \in File : /\ Twice(f)' <=> Twice(f)
                           /\ HasParent(f)' <=> HasParent(f)
                           /\ Preflight(f)' = Preflight(f)
    <3>1. at' \notin OnFile \/ at' = "begin"
      BY <2>1 DEF OnFile, LinkingBack, UnlinkingBack
    <3>. QED BY <1>1, <2>4, <3>1, SameAlone DEF AloneInv, AllUsual
  <2>6. AsFound'
    <3>1. \A f \in File : results'[f] = "eligible" => f \in Eligible /\ Preflight(f)' = "eligible"
      BY <1>2, <2>1, <2>5 DEF Eligible
    <3>2. at' = "begin" => \A f \in File : results'[f] = "eligible" => f >= current'
      <4> SUFFICES ASSUME at' = "begin", NEW f \in File, results'[f] = "eligible" PROVE f >= current'
        OBVIOUS
      <4>1. current' <= f
        BY <2>2, <3>1
      <4>. QED BY <4>1
    <3>3. at' \notin {"preflight", "decide"} /\ (at' \in OnFile => at' = "begin")
      BY <2>1 DEF OnFile, LinkingBack, UnlinkingBack
    <3>. QED BY <3>1, <3>2, <3>3 DEF AsFound
  <2>7. \A f \in File : results'[f] \in Succeeding \union {"eligible"}
    BY <1>2, <1>5, <2>1, PreflightIs, NoneIsAborted DEF Succeeding
  <2>8. at' = "directories" => \A f \in File : results'[f] # "eligible"
    BY <2>1 DEF Eligible
  <2>9. Reasons'
    <3>1. \A f \in File : results'[f] \notin Aborts /\ results'[f] # "failed"
      BY <2>7, NoneIsAborted
    <3>2. undone' # "conflict" /\ (undone' = "partial" => errors' # 0)
      BY <1>1, <2>3 DEF AloneInv, Reasons
    <3>3. at' # "record"
      BY <2>1
    <3>. QED BY <2>7, <2>8, <3>1, <3>2, <3>3 DEF Reasons
  <2>. QED BY <2>5, <2>6, <2>9 DEF AloneInv
<1>. QED BY <1>4, <1>5

(* The directory goes when all that was in it is restored.                   *)
LEMMA RemoveDirectoriesAlone == UndoInv /\ AloneInv /\ everEdited = {} /\ RemoveDirectories => AloneInv'
<1> SUFFICES ASSUME UndoInv, AloneInv, everEdited = {}, RemoveDirectories PROVE AloneInv'
  OBVIOUS
<1>1. /\ at = "directories" /\ at' = "record" /\ directory' = (directory /\ ~Empty)
      /\ UNCHANGED <<target, quarantine, undone, everEdited, errors, swapped, results>>
  BY DEF RemoveDirectories, SameTarget, SameQuarantine, GoTo, editor, Running, NoError
<1>2. \A f \in File : /\ Twice(f)' <=> Twice(f)
                      /\ Usual(f)' <=> Usual(f)
                      /\ Restored(f)' <=> Restored(f)
                      /\ HasParent(f)' => HasParent(f)
  BY <1>1 DEF Twice, Usual, Restored, HasParent
<1>3. AllUsual' /\ errors' \in Nat
  BY <1>1, <1>2 DEF AloneInv, AllUsual
<1>4. AtFile' /\ AsFound'
  BY <1>1 DEF AtFile, AsFound, OnFile, LinkingBack, UnlinkingBack
<1>5. errors = 0 => \A f \in File : results[f] \in Succeeding
  BY <1>1 DEF AloneInv, Reasons
<1>6. Gone'
  <2>1. errors = 0 => \A f \in File : Restored(f)
    BY <1>5 DEF UndoInv, StatusIsTrue, Typed
  <2>. QED BY <1>1, <1>2, <2>1 DEF Gone, Apart
<1>7. Reasons'
  <2>1. undone # "conflict"
    BY <1>1 DEF AloneInv, Reasons, Apart
  <2>2. at' \notin OnFile \union {"directories"}
    BY <1>1 DEF OnFile, LinkingBack, UnlinkingBack
  <2>. QED BY <1>1, <1>2, <1>5, <2>1, <2>2 DEF AloneInv, Reasons
<1>. QED BY <1>3, <1>4, <1>6, <1>7 DEF AloneInv

LEMMA RecordAlone == UndoInv /\ AloneInv /\ everEdited = {} /\ Record => AloneInv'
<1> SUFFICES ASSUME UndoInv, AloneInv, everEdited = {}, Record PROVE AloneInv'
  OBVIOUS
<1> DEFINE observed == {results[f] : f \in File}
<1>1. /\ at = "record" /\ at' = "idle" /\ undone' = Reduced(observed)
      /\ UNCHANGED <<target, quarantine, directory, everEdited, errors, swapped, results>>
  BY DEF Record, files, GoTo, editor, NoError
<1>2. /\ AllUsual' /\ AtFile' /\ Gone' /\ errors' \in Nat
      /\ \A f \in File : (Twice(f)' <=> Twice(f)) /\ (HasParent(f)' <=> HasParent(f))
  <2>1. at' \notin OnFile /\ at' \in Apart
    BY <1>1 DEF Apart, OnFile, LinkingBack, UnlinkingBack
  <2>. QED BY <1>1, <2>1, SameAlone DEF AloneInv, AllUsual
<1>3. AsFound'
  BY <1>1 DEF AsFound, OnFile, LinkingBack, UnlinkingBack
<1>4. undone' = "conflict" => \E f \in File : ~HasParent(f) \/ Twice(f)
  <2> SUFFICES ASSUME undone' = "conflict" PROVE \E f \in File : ~HasParent(f) \/ Twice(f)
    OBVIOUS
  <2>1. observed \intersect Aborts # {}
    BY <1>1 DEF Reduced
  <2>2. PICK f \in File : results[f] \in Aborts
    BY <2>1
  <2>. QED BY <2>2 DEF AloneInv, Reasons
<1>5. undone' = "partial" => errors # 0
  <2> SUFFICES ASSUME undone' = "partial", errors = 0 PROVE FALSE
    OBVIOUS
  <2>1. CASE \A f \in File : results[f] \in Succeeding
    <3>1. observed \subseteq Succeeding
      BY <2>1
    <3>. QED BY <1>1, <3>1 DEF Reduced, Succeeding
  <2>2. CASE /\ \A f \in File : results[f] \in Aborts \union {"not_modified"}
             /\ \E f \in File : results[f] \in Aborts
    <3>1. observed \subseteq Aborts \union {"not_modified"} /\ observed \intersect Aborts # {}
      BY <2>2
    <3> HIDE DEF observed
    <3>. QED BY <1>1, <3>1 DEF Reduced
  <2>. QED BY <1>1, <2>1, <2>2 DEF AloneInv, Reasons
<1>6. Reasons'
  <2>1. at' \in Apart /\ at' \notin OnFile \union {"directories", "record"}
    BY <1>1 DEF Apart, OnFile, LinkingBack, UnlinkingBack
  <2> HIDE DEF observed
  <2>2. \A f \in File : /\ results'[f] \in Aborts => ~HasParent(f)' \/ Twice(f)'
                        /\ results'[f] = "failed" => errors' # 0
    BY <1>1, <1>2 DEF AloneInv, Reasons
  <2>. QED BY <1>1, <1>2, <1>4, <1>5, <2>1, <2>2 DEF Reasons
<1>. QED BY <1>2, <1>3, <1>6 DEF AloneInv

LEMMA AloneStarts == UndoInit => AloneInv
<1> SUFFICES ASSUME UndoInit PROVE AloneInv
  OBVIOUS
<1> USE DEF UndoInit
<1>1. errors = 0 /\ at = "idle" /\ undone = "none" /\ ~swapped
  OBVIOUS
<1>2. \A f \in File : target[f] = Managed /\ quarantine[f] = Absent /\ results[f] = Undecided
  OBVIOUS
<1>3. AllUsual
  BY <1>1, <1>2, Distinct DEF AllUsual, Usual, Twice
<1>4. AsFound /\ AtFile
  BY <1>1 DEF AsFound, AtFile, OnFile, LinkingBack, UnlinkingBack
<1>5. Reasons
  <2>1. \A f \in File : results[f] \notin Aborts /\ results[f] # "failed"
    BY <1>2, NoneIsAborted DEF Undecided
  <2>. QED BY <1>1, <2>1 DEF Reasons, OnFile, LinkingBack, UnlinkingBack
<1>6. Gone
  BY DEF Gone
<1>. QED BY <1>1, <1>3, <1>4, <1>5, <1>6 DEF AloneInv

LEMMA AloneIsInductive == UndoInv /\ AloneInv /\ [UndoNext]_vars => AloneInv'
<1> SUFFICES ASSUME UndoInv, AloneInv, [UndoNext]_vars PROVE AloneInv'
  OBVIOUS
<1>1. errors' \in Nat
  <2>1. errors \in Nat
    BY DEF AloneInv
  <2>2. Step => NoError \/ Failing
    BY DEF Step, Unlink, Check, Decide, Begin, Inspect, Reuse, Resume, Reserve, Rename, Verify, LinkBack,
           UnlinkBack, Create, Install, Recreated, Discard, RemoveDirectories, Record
  <2>3. Start \/ Crash \/ (\E f \in File : Edit(f) \/ Delete(f)) => errors' = errors
    BY DEF Start, Crash, NoError, Edit, Delete, Touch
  <2>4. NoError \/ Failing => errors' \in Nat
    BY <2>1 DEF NoError, Failing
  <2>. QED BY <2>1, <2>2, <2>3, <2>4 DEF UndoNext, vars
<1>2. CASE everEdited # {}
  <2>1. everEdited' # {}
    BY <1>2 DEF UndoNext, Step, vars, Start, Crash, Edit, Delete, Touch, editor, Running,
         Check, Decide, Begin, Inspect, Reuse, Resume, Reserve, Rename, Verify, LinkBack, UnlinkBack,
         Create, Install, Recreated, Discard, RemoveDirectories, Record
  <2>. QED BY <1>1, <2>1 DEF AloneInv
<1>3. CASE everEdited = {} /\ UndoNext
  <2>1. CASE Start
    BY <1>3, <2>1, ForgetsAlone DEF Start, files, AloneInv, AllUsual
  <2>2. CASE Crash
    BY <1>3, <2>2, ForgetsAlone DEF Crash, files, editor, NoError
  <2>3. ASSUME NEW f \in File, Edit(f) \/ Delete(f) PROVE AloneInv'
    <3>1. everEdited' # {}
      BY <2>3 DEF Edit, Delete, Touch
    <3>. QED BY <1>1, <3>1 DEF AloneInv
  <2>4. CASE Check \/ Decide \/ RemoveDirectories \/ Record
    BY <1>3, <2>4, CheckAlone, DecideAlone, RemoveDirectoriesAlone, RecordAlone
  <2>5. CASE Begin \/ Inspect \/ Reuse \/ Resume \/ Reserve \/ Rename
    BY <1>3, <2>5, BeginAlone, InspectAlone, ReuseAlone, ResumeAlone, ReserveAlone, RenameAlone
  <2>6. CASE Verify \/ LinkBack \/ UnlinkBack \/ Create \/ Install \/ Recreated \/ Discard
    BY <1>3, <2>6, VerifyAlone, LinkBackAlone, UnlinkBackAlone, CreateAlone, InstallAlone,
       RecreatedAlone, DiscardAlone
  <2>. QED BY <1>3, <2>1, <2>2, <2>3, <2>4, <2>5, <2>6 DEF UndoNext, Step
<1>4. CASE UNCHANGED vars
  <2> USE <1>4 DEF vars, files, editor
  <2>1. AllUsual' <=> AllUsual
    BY DEF AllUsual, Usual, Twice
  <2>2. AsFound' <=> AsFound
    BY DEF AsFound, Preflight, HasParent
  <2>3. AtFile' <=> AtFile
    BY DEF AtFile, Twice
  <2>4. Reasons' <=> Reasons
    BY DEF Reasons, HasParent, Twice
  <2>5. Gone' <=> Gone
    BY DEF Gone, Restored
  <2>6. everEdited' = everEdited
    OBVIOUS
  <2>. QED BY <1>1, <2>1, <2>2, <2>3, <2>4, <2>5, <2>6 DEF AloneInv
<1>. QED BY <1>2, <1>3, <1>4

LEMMA AloneInvariance == UndoSpec => [](UndoInv /\ AloneInv)
<1>1. UndoInit => UndoInv /\ AloneInv
  BY UndoStarts, AloneStarts
<1>2. UndoInv /\ AloneInv /\ [UndoNext]_vars => (UndoInv /\ AloneInv)'
  BY UndoInvIsInductive, AloneIsInductive
<1>. QED BY <1>1, <1>2, PTL DEF UndoSpec

(* On files that no editor touched an undo conflicts only with itself: an    *)
(* earlier run removed the directory, or left a file under both its names    *)
(* (_preflight).                                                             *)
THEOREM ConflictsAreExplained == UndoSpec => []ConflictsHaveACause
<1>1. AloneInv => ConflictsHaveACause
  <2> SUFFICES ASSUME AloneInv, undone = "conflict", everEdited = {}
               PROVE  \/ Inside # {} /\ ~directory
                      \/ \E f \in File : target[f] = Managed /\ quarantine[f] = Managed
    BY DEF ConflictsHaveACause
  <2>. QED BY DEF AloneInv, Reasons, HasParent, Twice
<1>. QED BY <1>1, AloneInvariance, PTL

(* Crashes alone cost nothing: without an editor and a failed call, an undo  *)
(* that reports anything but success has restored every file already.        *)
(* (reduce_undo_status, and the directories undo_turn removes before it       *)
(* records its success.)                                                      *)
THEOREM CrashesLeaveNothingUndone == UndoSpec => []NothingIsLeftUndone
<1>1. AloneInv => NothingIsLeftUndone
  <2> SUFFICES ASSUME AloneInv, undone \in {"conflict", "partial"}, everEdited = {}, errors = 0
               PROVE  \A f \in File : Restored(f)
    BY DEF NothingIsLeftUndone
  <2>1. PICK f \in File : ~HasParent(f)
    BY DEF AloneInv, Reasons, AllUsual
  <2>2. Inside # {} /\ ~directory
    BY <2>1 DEF HasParent
  <2>. QED BY <2>2 DEF AloneInv, Gone
<1>. QED BY <1>1, AloneInvariance, PTL

(* What the invariant does not say of types: the flags, the position among   *)
(* the files, and the counts of what the world may still do.                 *)
Rest ==
  /\ directory \in BOOLEAN /\ reused \in BOOLEAN /\ swapped \in BOOLEAN
  /\ current \in File \union {1}
  /\ undone \in {"none", "succeeded", "conflict", "partial"}
  /\ everEdited \subseteq File
  /\ edits \in 0 .. MaxEdits /\ crashes \in 0 .. MaxCrashes /\ errors \in 0 .. MaxErrors

LEMMA DoneKeepsRest ==
  ASSUME Typed, Rest, NEW status, Done(status)
  PROVE  /\ reused' \in BOOLEAN /\ swapped' \in BOOLEAN
         /\ current' \in File \union {1}
<1> DEFINE rest == {f \in Eligible : f > current}
<1>1. rest # {} => First(rest) \in File
  BY FirstIsIn DEF Eligible
<1>. QED BY <1>1 DEF Done, Rest

LEMMA RestIsKept ==
  ASSUME Typed, Rest, [UndoNext]_vars
  PROVE  Rest'
<1> DEFINE Onward == reused' \in BOOLEAN /\ swapped' \in BOOLEAN /\ current' \in File \union {1}
           Spent == errors' = errors \/ Failing
<1>1. {MaxEdits, MaxCrashes, MaxErrors} \subseteq Nat
  BY FilesAreKnown
<1>2. ASSUME UNCHANGED directory, Running, Spent, Onward PROVE Rest'
  <2>1. errors' \in 0 .. MaxErrors
    BY <1>1, <1>2 DEF Rest, Failing
  <2>. QED BY <1>2, <2>1 DEF Rest, Running, editor
<1>3. CASE Start
  <2>1. UNCHANGED <<directory, reused, swapped, undone, everEdited, edits, crashes, errors>> /\ current' = 1
    BY <1>3 DEF Start, files
  <2>. QED BY <2>1 DEF Rest
<1>4. CASE Check
  <2>1. UNCHANGED <<directory, reused, swapped, undone, everEdited, edits, crashes, errors>>
    BY <1>4 DEF Check, files, editor, Running, NoError
  <2>2. current' \in File \union {1}
    BY <1>4, FilesAreKnown DEF Check, Rest, File
  <2>. QED BY <2>1, <2>2 DEF Rest
<1>5. CASE Decide
  <2>1. UNCHANGED <<directory, reused, swapped, undone, everEdited, edits, crashes, errors>>
    BY <1>5 DEF Decide, files, editor, Running, NoError
  <2>2. Eligible # {} => First(Eligible) \in File
    BY FirstIsIn DEF Eligible
  <2>3. current' \in File \union {1}
    BY <1>5, <2>2 DEF Decide, Rest
  <2>. QED BY <2>1, <2>3 DEF Rest
<1>6. CASE RemoveDirectories
  BY <1>6 DEF RemoveDirectories, Rest, GoTo, Running, editor, NoError
<1>7. CASE Record
  <2>1. UNCHANGED <<directory, reused, swapped, current, everEdited, edits, crashes, errors>>
    BY <1>7 DEF Record, files, editor, GoTo, NoError
  <2>2. undone' \in {"none", "succeeded", "conflict", "partial"}
    BY <1>7 DEF Record, Reduced
  <2>. QED BY <2>1, <2>2 DEF Rest
<1>8. CASE Crash
  <2>1. UNCHANGED <<directory, undone, everEdited, edits, errors>> /\ current' = 1
        /\ reused' = FALSE /\ swapped' = FALSE /\ crashes' = crashes + 1 /\ crashes < MaxCrashes
    BY <1>8 DEF Crash, files, editor, NoError
  <2>2. crashes' \in 0 .. MaxCrashes
    BY <1>1, <2>1 DEF Rest
  <2>3. current' \in File \union {1} /\ reused' \in BOOLEAN /\ swapped' \in BOOLEAN
    BY <2>1
  <2>. QED BY <2>1, <2>2, <2>3 DEF Rest
<1>9. ASSUME NEW f \in File, Edit(f) \/ Delete(f) PROVE Rest'
  <2>1. UNCHANGED <<current, reused, undone, crashes, errors>> /\ edits < MaxEdits /\ edits' = edits + 1
        /\ everEdited' = everEdited \union {f}
    BY <1>9 DEF Edit, Delete, Touch
  <2>2. directory' \in BOOLEAN
    BY <1>9 DEF Edit, Delete, Rest
  <2>3. swapped' \in BOOLEAN
    <3>1. CASE Edit(f)
      <4>1. swapped' = swapped \/ swapped' = (swapped \/ f = current)
        BY <3>1 DEF Edit
      <4>. QED BY <4>1 DEF Rest
    <3>2. CASE Delete(f)
      BY <3>2 DEF Delete
    <3>. QED BY <1>9, <3>1, <3>2
  <2>. QED BY <1>1, <2>1, <2>2, <2>3 DEF Rest
<1>10. \A status : Done(status) => Onward
  BY DoneKeepsRest
<1>11. \A step : GoTo(step) => Onward
  BY DEF GoTo, Rest
<1>12. \A status : Unlink(status) => Onward /\ Spent
  BY <1>10 DEF Unlink, NoError
<1>13. reused' = reused /\ current' = current /\ swapped' = FALSE => Onward
  BY DEF Rest
<1>14. current' = current /\ reused' = TRUE /\ swapped' = swapped => Onward
  BY DEF Rest
<1>15. (NoError => Spent) /\ (Failing => Spent)
  BY DEF NoError
<1> HIDE DEF Onward, Spent
<1>16. CASE Begin \/ Recreated \/ Verify \/ Reserve \/ Rename
  <2>1. UNCHANGED directory /\ Running
    BY <1>16 DEF Begin, Recreated, Verify, Reserve, Rename, files
  <2>2. Onward /\ Spent
    BY <1>16, <1>10, <1>11, <1>12, <1>15 DEF Begin, Recreated, Verify, Reserve, Rename
  <2>. QED BY <1>2, <2>1, <2>2
<1>17. CASE Inspect \/ Reuse
  <2>1. UNCHANGED directory /\ Running
    BY <1>17 DEF Inspect, Reuse, files
  <2>2. Onward /\ Spent
    BY <1>17, <1>13, <1>14, <1>10, <1>11, <1>12, <1>15 DEF Inspect, Reuse
  <2>. QED BY <1>2, <2>1, <2>2
<1>18. CASE Resume \/ Discard
  <2>1. UNCHANGED directory /\ Running
    BY <1>18 DEF Resume, Discard, files
  <2>2. Onward /\ Spent
    BY <1>18, <1>10, <1>11, <1>12, <1>15 DEF Resume, Discard
  <2>. QED BY <1>2, <2>1, <2>2
<1>19. CASE LinkBack \/ UnlinkBack
  <2>1. UNCHANGED directory /\ Running
    BY <1>19 DEF LinkBack, UnlinkBack, files
  <2>2. Onward /\ Spent
    BY <1>19, <1>10, <1>11, <1>12, <1>15 DEF LinkBack, UnlinkBack
  <2>. QED BY <1>2, <2>1, <2>2
<1>20. CASE Create \/ Install
  <2>1. UNCHANGED directory /\ Running
    BY <1>20 DEF Create, Install, files
  <2>2. Onward /\ Spent
    BY <1>20, <1>10, <1>11, <1>12, <1>15 DEF Create, Install
  <2>. QED BY <1>2, <2>1, <2>2
<1>21. CASE UNCHANGED vars
  BY <1>21 DEF vars, files, editor, Rest
<1>. QED BY <1>3, <1>4, <1>5, <1>6, <1>7, <1>8, <1>9, <1>16, <1>17, <1>18, <1>19, <1>20, <1>21
     DEF UndoNext, Step

(* Every part of the state has its type: the position is among the files of  *)
(* the turn, and each has one of the statuses of the report. (undo_turn.)     *)
THEOREM UndosAreTyped == UndoSpec => []UndoTypeOK
<1>1. UndoInit => Rest
  <2>1. edits = 0 /\ crashes = 0 /\ errors = 0 => edits \in 0 .. MaxEdits /\ crashes \in 0 .. MaxCrashes /\ errors \in 0 .. MaxErrors
    BY FilesAreKnown
  <2>. QED BY <2>1 DEF UndoInit, Rest
<1>2. UndoInv /\ Rest /\ [UndoNext]_vars => Rest'
  BY RestIsKept DEF UndoInv
<1>3. UndoInv /\ Rest => UndoTypeOK
  BY DEF UndoInv, Typed, Rest, UndoTypeOK, Succeeding
<1>. QED BY <1>1, <1>2, <1>3, UndoInvariance, PTL DEF UndoSpec
=============================================================================
