---------------------------- MODULE RolloutStore ----------------------------
(***************************************************************************)
(* The rollout file: a record is written by several write() calls and is    *)
(* promised to the caller only after fsync.  Processes may be killed, lose  *)
(* power or fail a write between any two of those calls; the next one to    *)
(* take the lock repairs the tail and goes on, while readers of --list and  *)
(* --show read the same file without the lock, in chunks.                   *)
(*                                                                          *)
(* A record is three pieces: the beginning of its JSON, the end of it, and  *)
(* the newline.  Its id stands for its content.  Left out: the creation of  *)
(* the file, and damage that no write of this program leaves.               *)
(***************************************************************************)
EXTENDS Naturals, Sequences

CONSTANTS Process, NoProcess,
          MaxAppends     \* bound: how many appends are begun

ASSUME ProcessesAreNamed == NoProcess \notin Process /\ MaxAppends \in Nat

VARIABLES file,      \* the pieces a read of the file sees
          disk,      \* the pieces that were in the file at the last fsync
          lock,      \* who holds the flock
          at,        \* where each process is with its store
          events,    \* _events of each store: the ids of its records
          written,   \* how many pieces of the record being appended are in the file
          begun,     \* how many appends were begun: the id of the latest
          promised,  \* the log when an append last returned
          reading, buffer, floor   \* a reader, what it has read, and promised when it began

vars == <<file, disk, lock, at, events, written, begun, promised, reading, buffer, floor>>
reader == <<reading, buffer, floor>>

Pieces == 3
Piece(seq, id, part) == [seq |-> seq, id |-> id, part |-> part]
Newline(p) == p.part = Pieces

-----------------------------------------------------------------------------
(* _parse_rollout: how many records are committed, and what the tail is. *)

IsLine(f, i) ==
  /\ i * Pieces <= Len(f)
  /\ \E id \in 1 .. MaxAppends : \A part \in 1 .. Pieces :
        f[(i - 1) * Pieces + part] = Piece(i, id, part)

Committed(f) ==
  CHOOSE n \in 0 .. Len(f) : /\ \A i \in 1 .. n : IsLine(f, i)
                             /\ ~IsLine(f, n + 1)

Rest(f) == SubSeq(f, Committed(f) * Pieces + 1, Len(f))

(* A line of JSON without its newline. *)
IsDocument(t) == /\ Len(t) = Pieces - 1
                 /\ \A part \in 1 .. Len(t) : t[part] = Piece(t[1].seq, t[1].id, part)

Corrupt(f) ==
  LET t == Rest(f)
  IN  \/ \E i \in 1 .. Len(t) : Newline(t[i])
      \/ IsDocument(t) /\ t[1].seq # Committed(f) + 1

NeedsNewline(f) == ~Corrupt(f) /\ IsDocument(Rest(f))
DroppedPartial(f) == ~Corrupt(f) /\ ~IsDocument(Rest(f)) /\ Rest(f) # <<>>

Log(f) ==
  LET n == Committed(f) + (IF NeedsNewline(f) THEN 1 ELSE 0)
  IN  [i \in 1 .. n |-> f[(i - 1) * Pieces + 1].id]

StoreInit ==
  /\ file = <<>> /\ disk = <<>> /\ lock = NoProcess
  /\ at = [p \in Process |-> "closed"]
  /\ events = [p \in Process |-> <<>>]
  /\ written = [p \in Process |-> 0]
  /\ begun = 0 /\ promised = <<>>
  /\ reading = FALSE /\ buffer = <<>> /\ floor = <<>>

-----------------------------------------------------------------------------
(* Opening. *)

(* Bug: the file is opened although another process holds the lock. *)
OpenUnlocked(p) ==
  /\ at[p] = "closed"
  /\ lock' = p
  /\ at' = [at EXCEPT ![p] = "locked"]
  /\ UNCHANGED <<file, disk, events, written, begun, promised, reader>>

Open(p) ==
  /\ at[p] = "closed" /\ lock = NoProcess
  /\ lock' = p
  /\ at' = [at EXCEPT ![p] = "locked"]
  /\ UNCHANGED <<file, disk, events, written, begun, promised, reader>>

Leave(p) ==
  /\ at' = [at EXCEPT ![p] = "closed"]
  /\ written' = [written EXCEPT ![p] = 0]
  /\ events' = [events EXCEPT ![p] = <<>>]
  /\ lock' = IF lock = p THEN NoProcess ELSE lock

(* Bug: the last committed record is cut off with the partial one. *)
ReadCuttingOne(p) ==
  /\ at[p] = "locked" /\ ~Corrupt(file)
  /\ events' = [events EXCEPT ![p] = Log(file)]
  /\ file' = CASE DroppedPartial(file) -> SubSeq(file, 1, (Committed(file) - 1) * Pieces)
               [] NeedsNewline(file) ->
                    Append(file, Piece(Committed(file) + 1, Log(file)[Len(Log(file))], Pieces))
               [] OTHER -> file
  /\ at' = [at EXCEPT ![p] = IF file' = file THEN "open" ELSE "repaired"]
  /\ UNCHANGED <<disk, lock, written, begun, promised, reader>>

(* A corrupt file would be refused; NeverCorrupt says that there is none.    *)
Read(p) ==
  /\ at[p] = "locked" /\ ~Corrupt(file)
  /\ events' = [events EXCEPT ![p] = Log(file)]
  /\ file' = CASE DroppedPartial(file) -> SubSeq(file, 1, Committed(file) * Pieces)
               [] NeedsNewline(file) ->
                    Append(file, Piece(Committed(file) + 1, Log(file)[Len(Log(file))], Pieces))
               [] OTHER -> file
  /\ at' = [at EXCEPT ![p] = IF file' = file THEN "open" ELSE "repaired"]
  /\ UNCHANGED <<disk, lock, written, begun, promised, reader>>

SyncRepair(p) ==
  /\ at[p] = "repaired"
  /\ disk' = file
  /\ at' = [at EXCEPT ![p] = "open"]
  /\ UNCHANGED <<file, lock, events, written, begun, promised, reader>>

-----------------------------------------------------------------------------
(* Appending. *)

NextSeq(p) == Len(events[p]) + 1

Write(p) ==
  /\ at[p] = "open" /\ written[p] < Pieces
  /\ written[p] = 0 => begun < MaxAppends
  /\ begun' = IF written[p] = 0 THEN begun + 1 ELSE begun
  /\ written' = [written EXCEPT ![p] = @ + 1]
  /\ file' = Append(file, Piece(NextSeq(p), begun', written'[p]))
  /\ UNCHANGED <<disk, lock, at, events, promised, reader>>

(* Bug: append returns without fsync. *)
ReturnUnsynced(p) ==
  /\ at[p] = "open" /\ written[p] = Pieces
  /\ events' = [events EXCEPT ![p] = Append(@, begun)]
  /\ promised' = events'[p]
  /\ written' = [written EXCEPT ![p] = 0]
  /\ UNCHANGED <<file, disk, lock, at, begun, reader>>

(* fsync, and append returns. *)
Sync(p) ==
  /\ at[p] = "open" /\ written[p] = Pieces
  /\ disk' = file
  /\ events' = [events EXCEPT ![p] = Append(@, begun)]
  /\ promised' = events'[p]
  /\ written' = [written EXCEPT ![p] = 0]
  /\ UNCHANGED <<file, lock, at, begun, reader>>

(* Bug: the store is not poisoned. *)
FailAndGoOn(p) ==
  /\ at[p] = "open" /\ written[p] > 0
  /\ disk' \in {disk, file}
  /\ written' = [written EXCEPT ![p] = 0]
  /\ UNCHANGED <<file, lock, at, events, begun, promised, reader>>

(* An error or a Ctrl-C in write or in fsync: the store is poisoned.         *)
FailAppend(p) ==
  /\ at[p] = "open" /\ written[p] > 0
  /\ disk' \in {disk} \union (IF written[p] = Pieces THEN {file} ELSE {})
  /\ Leave(p)
  /\ UNCHANGED <<file, begun, promised, reader>>

-----------------------------------------------------------------------------
(* Processes end, and the machine may. *)

Exit(p) ==
  /\ at[p] # "closed"
  /\ Leave(p)
  /\ UNCHANGED <<file, disk, begun, promised, reader>>

(* What the disk may hold: the last fsync, or some of what followed it.      *)
Common(f, g) == {k \in 0 .. Len(f) : k <= Len(g) /\ SubSeq(f, 1, k) = SubSeq(g, 1, k)}
Survivors == {disk} \union {SubSeq(file, 1, k) : k \in {k \in 0 .. Len(file) :
                                                  \A j \in Common(file, disk) : j <= k}}

LosePower ==
  /\ file' \in Survivors
  /\ disk' = file'
  /\ lock' = NoProcess
  /\ at' = [p \in Process |-> "closed"]
  /\ events' = [p \in Process |-> <<>>]
  /\ written' = [p \in Process |-> 0]
  /\ reading' = FALSE /\ buffer' = <<>> /\ floor' = <<>>
  /\ UNCHANGED <<begun, promised>>

-----------------------------------------------------------------------------
(* read_session_snapshot, for --list and --show. *)

StartReading ==
  /\ ~reading
  /\ reading' = TRUE /\ buffer' = <<>> /\ floor' = promised
  /\ UNCHANGED <<file, disk, lock, at, events, written, begun, promised>>

ReadChunk ==
  /\ reading /\ Len(buffer) < Len(file)
  /\ \E end \in Len(buffer) + 1 .. Len(file) :
       buffer' = buffer \o SubSeq(file, Len(buffer) + 1, end)
  /\ UNCHANGED <<file, disk, lock, at, events, written, begun, promised, reading, floor>>

AtEndOfFile == reading /\ Len(buffer) >= Len(file)

StopReading ==
  /\ AtEndOfFile
  /\ reading' = FALSE /\ buffer' = <<>> /\ floor' = <<>>
  /\ UNCHANGED <<file, disk, lock, at, events, written, begun, promised>>

StoreNext ==
  \/ \E p \in Process : \/ Open(p) \/ Read(p) \/ SyncRepair(p)
                        \/ Write(p) \/ Sync(p) \/ FailAppend(p) \/ Exit(p)
  \/ LosePower
  \/ StartReading \/ ReadChunk \/ StopReading

StoreSpec == StoreInit /\ [][StoreNext]_vars

-----------------------------------------------------------------------------
StoreTypeOK ==
  /\ begun \in 0 .. MaxAppends
  /\ \A f \in {file, disk, buffer} : \A i \in 1 .. Len(f) :
        f[i] \in [seq : 1 .. MaxAppends, id : 1 .. MaxAppends, part : 1 .. Pieces]
  /\ lock \in Process \union {NoProcess}
  /\ at \in [Process -> {"closed", "locked", "repaired", "open"}]
  /\ written \in [Process -> 0 .. Pieces]
  /\ reading \in BOOLEAN

(* The session can always be opened again: whatever a kill, a failed write,  *)
(* a Ctrl-C or a power loss left of the file, and whatever repair was cut    *)
(* short, no committed record is broken, repeated or out of sequence         *)
(* (_parse_rollout, _read_and_repair_tail).                                  *)
NeverCorrupt == \A f \in Survivors : ~Corrupt(f)

(* An event whose append returned is in the log after every crash, at the    *)
(* place it was given (append returns after fsync).                          *)
PromiseIsKept ==
  \A f \in Survivors : /\ Len(promised) <= Len(Log(f))
                       /\ promised = SubSeq(Log(f), 1, Len(promised))

(* A store that is not appending holds in memory exactly what the file says, *)
(* so that the next sequence number is right: nobody else writes, and no     *)
(* failed append is forgotten (_acquire_lock, _poisoned).                    *)
MemoryIsTheFile ==
  \A p \in Process :
    at[p] = "open" /\ written[p] = 0 => /\ events[p] = Log(file)
                                        /\ Rest(file) = <<>>

(* A snapshot that a reader accepts has every event that was promised when   *)
(* it began to read, though writers and repairs run beside it.               *)
SnapshotHasThePromise ==
  AtEndOfFile /\ ~Corrupt(buffer) => /\ Len(floor) <= Len(Log(buffer))
                                     /\ floor = SubSeq(Log(buffer), 1, Len(floor))

-----------------------------------------------------------------------------
(* A reader that only interprets the committed prefix is safe even while     *)
(* another process writes: it is never told that the session is corrupt      *)
(* (read_session_snapshot).                                                  *)
SnapshotIsSafe == AtEndOfFile => ~Corrupt(buffer)
=============================================================================
