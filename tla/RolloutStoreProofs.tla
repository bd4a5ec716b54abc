------------------------- MODULE RolloutStoreProofs -------------------------
(***************************************************************************)
(* The rollout file, for any number of processes and appends: it can always *)
(* be opened again, no promised record is lost, what a store remembers is   *)
(* what the file says, and a reader without the lock is shown what was      *)
(* promised when it began.                                                  *)
(***************************************************************************)
EXTENDS RolloutStore, TLAPS, FiniteSetTheorems, SequenceTheorems

Record == [seq : Nat, id : Nat, part : Nat]

(* The id of the i-th record of a file, and a file that holds records in     *)
(* sequence, the last perhaps in part: every piece belongs where it stands.  *)
IdOf(f, i) == f[(i - 1) * Pieces + 1].id

Good(f) ==
  \A i \in 1 .. Len(f), part \in 1 .. Pieces :
    (i - 1) * Pieces + part <= Len(f) =>
       /\ IdOf(f, i) \in 1 .. MaxAppends
       /\ f[(i - 1) * Pieces + part] = Piece(i, IdOf(f, i), part)

(* The file f has all records of the log, in whole. *)
Holds(f, log) == /\ Len(log) * Pieces <= Len(f)
                 /\ \A i \in 1 .. Len(log) : log[i] = IdOf(f, i)

-----------------------------------------------------------------------------
(* The inductive invariant. *)

Typed ==
  /\ begun \in 0 .. MaxAppends
  /\ file \in Seq(Record) /\ disk \in Seq(Record) /\ buffer \in Seq(Record)
  /\ lock \in Process \union {NoProcess}
  /\ at \in [Process -> {"closed", "locked", "repaired", "open"}]
  /\ events \in [Process -> Seq(Nat)]
  /\ written \in [Process -> 0 .. Pieces]
  /\ promised \in Seq(Nat) /\ floor \in Seq(Nat)
  /\ reading \in BOOLEAN

(* The file and what is left of it after a power loss are in sequence. *)
InSequence == Good(file) /\ Good(disk)

(* Who has the store open holds the lock. *)
Exclusive == \A p \in Process : at[p] # "closed" => lock = p

(* What an open store remembers, and what it has begun to write, is the file.*)
Remembers(p) ==
  /\ Len(file) = Len(events[p]) * Pieces + written[p]
  /\ \A i \in 1 .. Len(events[p]) : events[p][i] = IdOf(file, i)
  /\ written[p] > 0 => begun > 0 /\ IdOf(file, Len(events[p]) + 1) = begun

Memory == \A p \in Process :
  /\ at[p] # "open" => written[p] = 0
  /\ at[p] \in {"repaired", "open"} => Remembers(p)

(* What was promised is in the file, and would survive. *)
Kept == Holds(file, promised) /\ Holds(disk, promised)

(* What was promised when a reader began stays in the file, and as much of   *)
(* it as the reader has read, it has read as it is.                          *)
Shown == reading =>
  /\ Holds(file, floor)
  /\ \A j \in 1 .. Len(buffer) : j <= Len(floor) * Pieces => buffer[j] = file[j]

StoreInv == Typed /\ InSequence /\ Exclusive /\ Memory /\ Kept /\ Shown

-----------------------------------------------------------------------------
(* Files that hold records in sequence. *)

(* A piece of a file in sequence belongs to the record at its place. *)
LEMMA PieceAt ==
  ASSUME NEW f \in Seq(Record), Good(f),
         NEW i \in Nat \ {0}, NEW part \in 1 .. Pieces,
         (i - 1) * Pieces + part <= Len(f)
  PROVE  /\ IdOf(f, i) \in 1 .. MaxAppends
         /\ f[(i - 1) * Pieces + part] = Piece(i, IdOf(f, i), part)
<1>1. i \in 1 .. Len(f)
  BY DEF Pieces
<1>. QED BY <1>1 DEF Good

(* In such a file the lines are the records that are there in whole. *)
LEMMA LinesOfGood ==
  ASSUME NEW f \in Seq(Record), Good(f), NEW i \in Nat \ {0}
  PROVE  IsLine(f, i) <=> i * Pieces <= Len(f)
<1>1. ASSUME i * Pieces <= Len(f) PROVE IsLine(f, i)
  <2>1. \A part \in 1 .. Pieces : (i - 1) * Pieces + part <= Len(f)
    BY <1>1 DEF Pieces
  <2>2. 1 \in 1 .. Pieces
    BY DEF Pieces
  <2>3. IdOf(f, i) \in 1 .. MaxAppends
    BY <2>1, <2>2, PieceAt
  <2>4. \A part \in 1 .. Pieces :
           f[(i - 1) * Pieces + part] = Piece(i, IdOf(f, i), part)
    BY <2>1, PieceAt
  <2>. QED BY <1>1, <2>3, <2>4 DEF IsLine
<1>. QED BY <1>1 DEF IsLine

(* A non-empty set of naturals has a least element: of the intervals 0 .. n  *)
(* of its elements one has no other below it. *)
LEMMA LeastExists ==
  ASSUME NEW S \in SUBSET Nat, S # {}
  PROVE  \E x \in S : \A y \in S : x <= y
<1> DEFINE below == {0 .. n : n \in S}
<1>1. /\ below \subseteq FiniteSubsetsOf(Nat) /\ below # {}
  <2>1. \A n \in S : 0 .. n \subseteq Nat /\ IsFiniteSet(0 .. n)
    BY FS_Interval
  <2>. QED BY <2>1 DEF FiniteSubsetsOf
<1>2. PICK b \in below : \A c \in below : <<c, b>> \notin StrictSubsetOrdering(Nat)
  <2> HIDE DEF below
  <2>. QED BY <1>1, FS_StrictSubsetOrderingWellFounded, WFMin
<1>3. PICK x \in S : b = 0 .. x
  OBVIOUS
<1>4. ASSUME NEW y \in S, y < x PROVE FALSE
  <2> DEFINE by == 0 .. y
  <2>1. by \in below /\ by \subseteq b /\ by \subseteq Nat /\ b \subseteq Nat /\ by # b
    BY <1>3, <1>4
  <2> HIDE DEF by
  <2>2. <<by, b>> \in StrictSubsetOrdering(Nat)
    BY <2>1 DEF StrictSubsetOrdering
  <2> HIDE DEF below
  <2>. QED BY <1>2, <2>1, <2>2
<1>. QED BY <1>4

(* Every file has as many lines as are there in whole and in sequence from   *)
(* its beginning: the number that _parse_rollout counts exists.              *)
LEMMA CommittedIs ==
  ASSUME NEW f \in Seq(Record)
  PROVE  /\ Committed(f) \in Nat
         /\ \A i \in 1 .. Committed(f) : IsLine(f, i)
         /\ ~IsLine(f, Committed(f) + 1)
<1> DEFINE S == {n \in Nat : ~IsLine(f, n + 1)}
<1>1. Len(f) \in S
  BY DEF IsLine, Pieces
<1>2. PICK n \in S : \A m \in S : n <= m
  BY <1>1, LeastExists
<1>3. ASSUME NEW i \in 1 .. n PROVE IsLine(f, i)
  <2>1. i - 1 \in Nat /\ i - 1 < n /\ (i - 1) + 1 = i
    OBVIOUS
  <2>. QED BY <1>2, <2>1
<1>4. n \in 0 .. Len(f)
  BY <1>1, <1>2
<1>5. \E m \in 0 .. Len(f) : /\ \A i \in 1 .. m : IsLine(f, i)
                             /\ ~IsLine(f, m + 1)
  BY <1>2, <1>3, <1>4
<1>. QED BY <1>5 DEF Committed

(* Opening a file in sequence: it is not corrupt, its log is the records     *)
(* that are there but for their newline, and the repair knows which case it  *)
(* is in.                                                                    *)
LEMMA Parsed ==
  ASSUME NEW f \in Seq(Record), Good(f)
  PROVE  /\ Committed(f) \in Nat
         /\ Committed(f) * Pieces <= Len(f)
         /\ Len(f) < Committed(f) * Pieces + Pieces
         /\ ~Corrupt(f)
         /\ NeedsNewline(f) <=> Len(f) = Committed(f) * Pieces + 2
         /\ DroppedPartial(f) <=> Len(f) = Committed(f) * Pieces + 1
         /\ Rest(f) = <<>> <=> Len(f) = Committed(f) * Pieces
         /\ Log(f) \in Seq(Nat)
         /\ Len(Log(f)) = Committed(f) + (IF NeedsNewline(f) THEN 1 ELSE 0)
         /\ \A i \in 1 .. Len(Log(f)) : Log(f)[i] = IdOf(f, i)
<1> DEFINE n == Committed(f)
           t == Rest(f)
<1>1. n \in Nat /\ n * Pieces <= Len(f) /\ Len(f) < n * Pieces + Pieces
  <2>1. n \in Nat
    BY CommittedIs
  <2>2. n * Pieces <= Len(f)
    <3>1. CASE n = 0
      BY <3>1 DEF Pieces
    <3>2. CASE n # 0
      BY <2>1, <3>2, CommittedIs DEF IsLine
    <3>. QED BY <3>1, <3>2
  <2>3. Len(f) < (n + 1) * Pieces
    <3>1. n + 1 \in Nat \ {0} /\ ~IsLine(f, n + 1)
      BY <2>1, CommittedIs
    <3>2. ~((n + 1) * Pieces <= Len(f))
      BY <3>1, LinesOfGood
    <3> HIDE DEF n
    <3>. QED BY <2>1, <3>2 DEF Pieces
  <2> HIDE DEF n
  <2>. QED BY <2>1, <2>2, <2>3 DEF Pieces
<1>2. /\ t \in Seq(Record) /\ Len(t) = Len(f) - n * Pieces
      /\ \A i \in 1 .. Len(t) : t[i] = f[n * Pieces + i]
  BY SMTT(30), <1>1 DEF Rest, Pieces
<1> HIDE DEF n, t
<1>3. \A i \in 1 .. Len(t) : t[i] = Piece(n + 1, IdOf(f, n + 1), i)
  <2> TAKE i \in 1 .. Len(t)
  <2>1. /\ n + 1 \in Nat \ {0} /\ i \in 1 .. Pieces
        /\ n * Pieces + i = ((n + 1) - 1) * Pieces + i
        /\ ((n + 1) - 1) * Pieces + i <= Len(f)
    BY <1>1, <1>2 DEF Pieces
  <2>. QED BY <1>2, <2>1, PieceAt
<1>4. IsDocument(t) <=> Len(t) = 2
  BY <1>2, <1>3 DEF IsDocument, Pieces, Piece
<1>5. ~Corrupt(f)
  <2>1. \A i \in 1 .. Len(t) : ~Newline(t[i])
    <3> TAKE i \in 1 .. Len(t)
    <3>1. t[i].part = i
      BY <1>2, <1>3 DEF Piece, Record
    <3>. QED BY <1>1, <1>2, <3>1 DEF Newline, Pieces
  <2>2. IsDocument(t) => t[1].seq = n + 1
    <3>1. Len(t) = 2 => 1 \in 1 .. Len(t)
      OBVIOUS
    <3>. QED BY <1>2, <1>3, <1>4, <3>1 DEF Piece, Record
  <2>. QED BY <2>1, <2>2 DEF Corrupt, n, t
<1>6. /\ NeedsNewline(f) <=> Len(f) = n * Pieces + 2
      /\ DroppedPartial(f) <=> Len(f) = n * Pieces + 1
      /\ Rest(f) = <<>> <=> Len(f) = n * Pieces
  <2>1. NeedsNewline(f) <=> Len(t) = 2
    BY <1>4, <1>5 DEF NeedsNewline, t
  <2>2. t = <<>> <=> Len(t) = 0
    BY <1>2
  <2>3. DroppedPartial(f) <=> Len(t) # 2 /\ Len(t) # 0
    BY <1>4, <1>5, <2>2 DEF DroppedPartial, t
  <2>4. Rest(f) = t
    BY DEF t
  <2>5. /\ Len(t) = 2 <=> Len(f) = n * Pieces + 2
        /\ (Len(t) # 2 /\ Len(t) # 0) <=> Len(f) = n * Pieces + 1
        /\ Len(t) = 0 <=> Len(f) = n * Pieces
    <3> DEFINE k == n * Pieces
    <3>1. k \in Nat /\ Len(f) \in Nat
      BY <1>1 DEF Pieces
    <3>3. k <= Len(f) /\ Len(f) < k + 3 /\ Len(t) = Len(f) - k
      BY <1>1, <1>2 DEF Pieces
    <3> HIDE DEF k
    <3>2. /\ Len(t) = 2 <=> Len(f) = k + 2
          /\ (Len(t) # 2 /\ Len(t) # 0) <=> Len(f) = k + 1
          /\ Len(t) = 0 <=> Len(f) = k
      BY <3>1, <3>3
    <3>. QED BY <3>2 DEF k
  <2>. QED BY <2>1, <2>2, <2>3, <2>4, <2>5
<1> DEFINE m == n + (IF NeedsNewline(f) THEN 1 ELSE 0)
<1>7. m \in Nat /\ \A i \in 1 .. m : (i - 1) * Pieces + 1 \in 1 .. Len(f)
  BY <1>1, <1>6 DEF Pieces
<1>8. Log(f) = [i \in 1 .. m |-> IdOf(f, i)]
  BY DEF Log, IdOf, n
<1> HIDE DEF m
<1>9. \A i \in 1 .. m : IdOf(f, i) \in Nat
  <2> TAKE i \in 1 .. m
  <2>1. f[(i - 1) * Pieces + 1] \in Record
    BY <1>7
  <2>. QED BY <2>1 DEF IdOf, Record
<1>10. Log(f) \in Seq(Nat) /\ Len(Log(f)) = m
  BY <1>7, <1>8, <1>9
<1>. QED
  BY <1>1, <1>5, <1>6, <1>8, <1>10 DEF n, m

-----------------------------------------------------------------------------
(* What the steps do to a file in sequence. *)

(* Every piece has its place in a record. *)
LEMMA PlaceOf ==
  ASSUME NEW j \in Nat \ {0}
  PROVE  \E i \in Nat \ {0}, part \in 1 .. Pieces : j = (i - 1) * Pieces + part
<1> DEFINE S == {i \in Nat : j <= i * Pieces}
<1>1. j \in S
  BY DEF Pieces
<1>2. PICK i \in S : \A k \in S : i <= k
  BY <1>1, LeastExists
<1>3. i \in Nat /\ i # 0 /\ j <= i * Pieces
  BY DEF Pieces
<1>4. i - 1 \in Nat /\ i - 1 \notin S
  BY <1>2, <1>3
<1>5. (i - 1) * Pieces < j
  BY <1>4 DEF Pieces
<1>6. j - (i - 1) * Pieces \in 1 .. Pieces
  BY <1>3, <1>5 DEF Pieces
<1>7. j = (i - 1) * Pieces + (j - (i - 1) * Pieces)
  BY <1>3 DEF Pieces
<1>. QED BY <1>3, <1>6, <1>7

(* What is left of a file in sequence when its end is cut off is in          *)
(* sequence, and has the records that were not cut.                          *)
LEMMA CutIsGood ==
  ASSUME NEW f \in Seq(Record), Good(f), NEW k \in 0 .. Len(f)
  PROVE  /\ SubSeq(f, 1, k) \in Seq(Record)
         /\ Len(SubSeq(f, 1, k)) = k
         /\ Good(SubSeq(f, 1, k))
         /\ \A i \in Nat \ {0} : (i - 1) * Pieces + 1 <= k =>
                 IdOf(SubSeq(f, 1, k), i) = IdOf(f, i)
         /\ \A log \in Seq(Nat) : Holds(f, log) /\ Len(log) * Pieces <= k =>
                 Holds(SubSeq(f, 1, k), log)
<1> DEFINE g == SubSeq(f, 1, k)
<1>1. /\ g \in Seq(Record) /\ Len(g) = k /\ k \in Nat /\ k <= Len(f)
      /\ \A j \in 1 .. k : g[j] = f[j]
  OBVIOUS
<1> HIDE DEF g
<1>2. \A i \in Nat \ {0} : (i - 1) * Pieces + 1 <= k => IdOf(g, i) = IdOf(f, i)
  BY <1>1 DEF IdOf, Pieces
<1>3. Good(g)
  <2> SUFFICES ASSUME NEW i \in 1 .. Len(g), NEW part \in 1 .. Pieces,
                      (i - 1) * Pieces + part <= Len(g)
               PROVE  /\ IdOf(g, i) \in 1 .. MaxAppends
                      /\ g[(i - 1) * Pieces + part] = Piece(i, IdOf(g, i), part)
    BY DEF Good
  <2>1. /\ i \in Nat \ {0} /\ (i - 1) * Pieces + 1 <= k
        /\ (i - 1) * Pieces + part \in 1 .. k
        /\ (i - 1) * Pieces + part <= Len(f)
    BY <1>1 DEF Pieces
  <2>2. IdOf(g, i) = IdOf(f, i)
    BY <1>2, <2>1
  <2>3. g[(i - 1) * Pieces + part] = f[(i - 1) * Pieces + part]
    BY <1>1, <2>1
  <2>. QED BY <2>1, <2>2, <2>3, PieceAt
<1>4. ASSUME NEW log \in Seq(Nat), Holds(f, log), Len(log) * Pieces <= k
      PROVE  Holds(g, log)
  <2>1. ASSUME NEW i \in 1 .. Len(log) PROVE log[i] = IdOf(g, i)
    <3>1. i \in Nat \ {0} /\ (i - 1) * Pieces + 1 <= k
      BY <1>1, <1>4 DEF Pieces
    <3>. QED BY <1>2, <1>4, <3>1 DEF Holds
  <2>. QED BY <1>1, <1>4, <2>1 DEF Holds
<1>. QED BY <1>1, <1>2, <1>3, <1>4 DEF g

Extended(f, i, part, id) == Append(f, Piece(i, id, part))

(* A file in sequence to which the next piece is written is in sequence, and *)
(* has the records it had.                                                   *)
LEMMA ExtendedIsGood ==
  ASSUME NEW f \in Seq(Record), Good(f),
         NEW i \in Nat \ {0}, NEW part \in 1 .. Pieces, NEW id \in 1 .. MaxAppends,
         Len(f) = (i - 1) * Pieces + part - 1,
         part > 1 => IdOf(f, i) = id
  PROVE  LET g == Extended(f, i, part, id) IN
         /\ g \in Seq(Record) /\ Len(g) = Len(f) + 1
         /\ \A j \in 1 .. Len(f) : g[j] = f[j]
         /\ Good(g)
         /\ IdOf(g, i) = id
         /\ \A j \in Nat \ {0} : (j - 1) * Pieces + 1 <= Len(f) =>
                 IdOf(g, j) = IdOf(f, j)
         /\ \A log \in Seq(Nat) : Holds(f, log) => Holds(g, log)
<1> DEFINE g == Extended(f, i, part, id)
<1>1. Piece(i, id, part) \in Record
  BY ProcessesAreNamed DEF Piece, Record, Pieces
<1>2. /\ g \in Seq(Record) /\ Len(g) = Len(f) + 1
      /\ \A j \in 1 .. Len(f) : g[j] = f[j]
      /\ g[Len(f) + 1] = Piece(i, id, part)
  BY <1>1 DEF Extended
<1> HIDE DEF g
<1>3. \A j \in Nat \ {0} : (j - 1) * Pieces + 1 <= Len(f) => IdOf(g, j) = IdOf(f, j)
  <2>1. ASSUME NEW j \in Nat \ {0}, (j - 1) * Pieces + 1 <= Len(f)
        PROVE  (j - 1) * Pieces + 1 \in 1 .. Len(f)
    BY <2>1 DEF Pieces
  <2>. QED BY <1>2, <2>1 DEF IdOf
<1>4. IdOf(g, i) = id
  <2>1. CASE part = 1
    <3>1. (i - 1) * Pieces + 1 = Len(f) + 1
      BY <2>1 DEF Pieces
    <3>2. IdOf(g, i) = Piece(i, id, part).id
      BY <1>2, <3>1 DEF IdOf
    <3>. QED BY <3>2 DEF Piece
  <2>2. CASE part > 1
    <3>1. (i - 1) * Pieces + 1 <= Len(f)
      BY <2>2 DEF Pieces
    <3>. QED BY <1>3, <2>2, <3>1
  <2>. QED BY <2>1, <2>2 DEF Pieces
<1>5. Good(g)
  <2> SUFFICES ASSUME NEW j \in 1 .. Len(g), NEW q \in 1 .. Pieces,
                      (j - 1) * Pieces + q <= Len(g)
               PROVE  /\ IdOf(g, j) \in 1 .. MaxAppends
                      /\ g[(j - 1) * Pieces + q] = Piece(j, IdOf(g, j), q)
    BY DEF Good
  <2>1. CASE (j - 1) * Pieces + q = Len(g)
    <3>1. j = i /\ q = part
      BY <1>2, <2>1 DEF Pieces
    <3>. QED BY <1>2, <1>4, <2>1, <3>1
  <2>2. CASE (j - 1) * Pieces + q < Len(g)
    <3>1. /\ j \in Nat \ {0} /\ (j - 1) * Pieces + 1 <= Len(f)
          /\ (j - 1) * Pieces + q \in 1 .. Len(f)
          /\ (j - 1) * Pieces + q <= Len(f)
      BY <1>2, <2>2 DEF Pieces
    <3>. QED BY <1>2, <1>3, <3>1, PieceAt
  <2>. QED BY <1>2, <2>1, <2>2 DEF Pieces
<1>6. ASSUME NEW log \in Seq(Nat), Holds(f, log) PROVE Holds(g, log)
  <2>1. ASSUME NEW j \in 1 .. Len(log) PROVE log[j] = IdOf(g, j)
    <3>1. j \in Nat \ {0} /\ (j - 1) * Pieces + 1 <= Len(f)
      BY <1>6 DEF Holds, Pieces
    <3>. QED BY <1>3, <1>6, <3>1 DEF Holds
  <2>2. Len(log) * Pieces <= Len(g)
    BY <1>2, <1>6 DEF Holds, Pieces
  <2>. QED BY <2>1, <2>2 DEF Holds
<1>. QED BY <1>2, <1>3, <1>4, <1>5, <1>6 DEF g

(* Two files in sequence that hold the same log agree on it, piece by piece. *)
LEMMA SameLog ==
  ASSUME NEW f \in Seq(Record), Good(f), NEW g \in Seq(Record), Good(g),
         NEW log \in Seq(Nat), Holds(f, log), Holds(g, log),
         NEW j \in Nat \ {0}, j <= Len(log) * Pieces
  PROVE  f[j] = g[j]
<1>1. PICK i \in Nat \ {0}, part \in 1 .. Pieces : j = (i - 1) * Pieces + part
  BY PlaceOf
<1>2. i \in 1 .. Len(log) /\ (i - 1) * Pieces + part <= Len(log) * Pieces
  BY <1>1 DEF Pieces
<1>3. (i - 1) * Pieces + part <= Len(f) /\ (i - 1) * Pieces + part <= Len(g)
  BY <1>2 DEF Holds, Pieces
<1>4. IdOf(f, i) = log[i] /\ IdOf(g, i) = log[i]
  BY <1>2 DEF Holds
<1>. QED BY <1>1, <1>3, <1>4, PieceAt

(* What a power loss leaves of the file is in sequence, and has all that was *)
(* promised.                                                                 *)
LEMMA SurvivorsAreGood ==
  ASSUME Typed, InSequence, Kept, NEW f \in Survivors
  PROVE  f \in Seq(Record) /\ Good(f) /\ Holds(f, promised)
<1>1. CASE f = disk
  BY <1>1 DEF Typed, InSequence, Kept
<1>2. ASSUME NEW k \in 0 .. Len(file), \A j \in Common(file, disk) : j <= k,
             f = SubSeq(file, 1, k)
      PROVE  f \in Seq(Record) /\ Good(f) /\ Holds(f, promised)
  <2> DEFINE n == Len(promised) * Pieces
  <2>1. /\ file \in Seq(Record) /\ disk \in Seq(Record) /\ promised \in Seq(Nat)
        /\ Good(file) /\ Good(disk) /\ Holds(file, promised) /\ Holds(disk, promised)
    BY DEF Typed, InSequence, Kept
  <2>2. n \in 0 .. Len(file) /\ n <= Len(disk)
    BY <2>1 DEF Holds, Pieces
  <2>3. \A j \in 1 .. n : file[j] = disk[j]
    BY <2>1, SameLog
  <2> HIDE DEF n
  <2>4. SubSeq(file, 1, n) = SubSeq(disk, 1, n)
    BY <2>1, <2>2, <2>3
  <2>5. n <= k
    BY <1>2, <2>2, <2>4 DEF Common
  <2>. QED BY <1>2, <2>1, <2>5, CutIsGood DEF n
<1>. QED BY <1>1, <1>2 DEF Survivors

-----------------------------------------------------------------------------
(* The invariant holds initially and is kept by every step. *)

LEMMA StoreStarts == StoreInit => StoreInv
<1> SUFFICES ASSUME StoreInit PROVE StoreInv
  OBVIOUS
<1> USE DEF StoreInit
<1>1. Typed
  <2>1. /\ begun \in 0 .. MaxAppends /\ lock \in Process \union {NoProcess}
        /\ reading \in BOOLEAN
    <3>1. begun \in 0 .. MaxAppends
      BY ProcessesAreNamed
    <3>2. lock \in Process \union {NoProcess} /\ reading \in BOOLEAN
      BY Zenon
    <3>. QED BY <3>1, <3>2
  <2>2. /\ at \in [Process -> {"closed", "locked", "repaired", "open"}]
        /\ written \in [Process -> 0 .. Pieces]
    BY DEF Pieces
  <2>3. \A S : <<>> \in Seq(S)
    OBVIOUS
  <2>4. events \in [Process -> Seq(Nat)]
    BY <2>3
  <2>. QED BY <2>1, <2>2, <2>3, <2>4 DEF Typed
<1>2. InSequence
  BY DEF InSequence, Good
<1>3. Exclusive /\ Memory /\ Shown
  BY DEF Exclusive, Memory, Shown
<1>4. Kept
  BY DEF Kept, Holds, Pieces
<1>. QED BY <1>1, <1>2, <1>3, <1>4 DEF StoreInv

(* Where one process moves and the others are outside, only its own memory   *)
(* is to be shown again.                                                     *)
LEMMA AloneInside ==
  ASSUME Typed, Exclusive, NEW p \in Process, at[p] # "closed", NEW q \in Process, q # p
  PROVE  at[q] = "closed"
BY DEF Typed, Exclusive

(* Opening and repairing: the log is what is in the file, whatever the       *)
(* repair has to cut off or to complete.                                     *)
LEMMA ReadKeeps ==
  ASSUME StoreInv, NEW p \in Process, Read(p)
  PROVE  StoreInv'
<1> DEFINE n == Committed(file)
           log == Log(file)
<1>1. /\ file \in Seq(Record) /\ Good(file) /\ promised \in Seq(Nat) /\ floor \in Seq(Nat)
      /\ Holds(file, promised) /\ (reading => Holds(file, floor))
      /\ written[p] = 0 /\ at[p] = "locked"
  BY DEF StoreInv, Typed, InSequence, Kept, Shown, Memory, Read
<1>2. /\ n \in Nat /\ n * Pieces <= Len(file) /\ Len(file) < n * Pieces + Pieces
      /\ NeedsNewline(file) <=> Len(file) = n * Pieces + 2
      /\ DroppedPartial(file) <=> Len(file) = n * Pieces + 1
      /\ log \in Seq(Nat)
      /\ Len(log) = n + (IF NeedsNewline(file) THEN 1 ELSE 0)
      /\ \A i \in 1 .. Len(log) : log[i] = IdOf(file, i)
  BY <1>1, Parsed
<1>3. /\ file' = CASE DroppedPartial(file) -> SubSeq(file, 1, n * Pieces)
                   [] NeedsNewline(file) ->
                        Append(file, Piece(n + 1, log[Len(log)], Pieces))
                   [] OTHER -> file
      /\ events' = [events EXCEPT ![p] = log]
      /\ at' = [at EXCEPT ![p] = IF file' = file THEN "open" ELSE "repaired"]
      /\ UNCHANGED <<disk, lock, written, begun, promised, reader>>
  BY DEF Read
<1> HIDE DEF n, log
<1>4. /\ file' \in Seq(Record) /\ Good(file')
      /\ Len(file') = Len(log) * Pieces
      /\ \A i \in 1 .. Len(log) : log[i] = IdOf(file', i)
      /\ \A l \in Seq(Nat) : Holds(file, l) =>
            /\ Holds(file', l)
            /\ \A j \in 1 .. Len(l) * Pieces : file'[j] = file[j]
  <2>1. CASE Len(file) = n * Pieces + 1
    <3>1. /\ file' = SubSeq(file, 1, n * Pieces) /\ Len(log) = n
          /\ n * Pieces \in 0 .. Len(file)
      BY <1>2, <1>3, <2>1 DEF Pieces
    <3>2. /\ file' \in Seq(Record) /\ Good(file') /\ Len(file') = n * Pieces
          /\ \A i \in Nat \ {0} : (i - 1) * Pieces + 1 <= n * Pieces =>
               IdOf(file', i) = IdOf(file, i)
          /\ \A l \in Seq(Nat) : Holds(file, l) /\ Len(l) * Pieces <= n * Pieces =>
               Holds(file', l)
      BY <1>1, <3>1, CutIsGood
    <3>3. \A i \in 1 .. Len(log) : log[i] = IdOf(file', i)
      <4> TAKE i \in 1 .. Len(log)
      <4>1. i \in Nat \ {0} /\ (i - 1) * Pieces + 1 <= n * Pieces
        BY <1>2, <3>1 DEF Pieces
      <4>. QED BY <1>2, <3>2, <4>1
    <3>4. ASSUME NEW l \in Seq(Nat), Holds(file, l)
          PROVE  /\ Holds(file', l)
                 /\ \A j \in 1 .. Len(l) * Pieces : file'[j] = file[j]
      <4>1. Len(l) * Pieces <= n * Pieces
        BY <1>2, <2>1, <3>4 DEF Holds, Pieces
      <4>2. \A j \in 1 .. n * Pieces : file'[j] = file[j]
        BY <1>1, <3>1
      <4>3. \A j \in 1 .. Len(l) * Pieces : j \in 1 .. n * Pieces
        BY <1>2, <4>1 DEF Pieces
      <4>. QED BY <3>2, <3>4, <4>1, <4>2, <4>3
    <3>. QED BY <3>1, <3>2, <3>3, <3>4
  <2>2. CASE Len(file) = n * Pieces + 2
    <3>1. /\ n + 1 \in Nat \ {0} /\ Pieces \in 1 .. Pieces
          /\ Len(file) = ((n + 1) - 1) * Pieces + Pieces - 1
          /\ ((n + 1) - 1) * Pieces + 1 <= Len(file)
          /\ 1 \in 1 .. Pieces
      BY <1>2, <2>2 DEF Pieces
    <3>2. IdOf(file, n + 1) \in 1 .. MaxAppends
      BY <1>1, <3>1, PieceAt
    <3>3. Len(log) = n + 1 /\ log[n + 1] = IdOf(file, n + 1)
      BY <1>2, <2>2
    <3>4. file' = Append(file, Piece(n + 1, IdOf(file, n + 1), Pieces))
      BY <1>2, <1>3, <2>2, <3>3
    <3>5. /\ file' \in Seq(Record) /\ Good(file') /\ Len(file') = Len(file) + 1
          /\ \A j \in 1 .. Len(file) : file'[j] = file[j]
          /\ \A j \in Nat \ {0} : (j - 1) * Pieces + 1 <= Len(file) =>
               IdOf(file', j) = IdOf(file, j)
          /\ \A l \in Seq(Nat) : Holds(file, l) => Holds(file', l)
      <4> DEFINE i == n + 1
                 id == IdOf(file, n + 1)
      <4>1. /\ i \in Nat \ {0} /\ id \in 1 .. MaxAppends
            /\ Len(file) = (i - 1) * Pieces + Pieces - 1
            /\ IdOf(file, i) = id
            /\ file' = Extended(file, i, Pieces, id)
        BY <3>1, <3>2, <3>4 DEF Extended
      <4> DEFINE g == Extended(file, i, Pieces, id)
      <4> HIDE DEF i, id
      <4>2. /\ g \in Seq(Record) /\ Len(g) = Len(file) + 1
            /\ \A j \in 1 .. Len(file) : g[j] = file[j]
            /\ Good(g)
            /\ \A j \in Nat \ {0} : (j - 1) * Pieces + 1 <= Len(file) =>
                 IdOf(g, j) = IdOf(file, j)
            /\ \A l \in Seq(Nat) : Holds(file, l) => Holds(g, l)
        BY SMTT(30), <1>1, <3>1, <4>1, ExtendedIsGood DEF Pieces
      <4>. QED BY <4>1, <4>2
    <3>6. \A i \in 1 .. Len(log) : log[i] = IdOf(file', i)
      <4> TAKE i \in 1 .. Len(log)
      <4>1. i \in Nat \ {0} /\ (i - 1) * Pieces + 1 <= Len(file)
        BY <1>2, <2>2, <3>3 DEF Pieces
      <4>. QED BY <1>2, <3>5, <4>1
    <3>7. ASSUME NEW l \in Seq(Nat), Holds(file, l)
          PROVE  \A j \in 1 .. Len(l) * Pieces : file'[j] = file[j]
      <4>1. \A j \in 1 .. Len(l) * Pieces : j \in 1 .. Len(file)
        BY <1>1, <3>7 DEF Holds, Pieces
      <4>. QED BY <3>5, <4>1
    <3>8. Len(file') = Len(log) * Pieces
      BY <1>2, <2>2, <3>3, <3>5 DEF Pieces
    <3>. QED BY <3>5, <3>6, <3>7, <3>8
  <2>3. CASE Len(file) = n * Pieces
    <3>1. file' = file /\ Len(log) = n
      BY <1>2, <1>3, <2>3
    <3>. QED BY <1>1, <1>2, <2>3, <3>1
  <2>. QED BY <1>1, <1>2, <2>1, <2>2, <2>3 DEF Pieces
<1>5. Typed'
  BY <1>2, <1>3, <1>4 DEF StoreInv, Typed, reader
<1>6. InSequence' /\ Kept' /\ Exclusive'
  BY <1>1, <1>3, <1>4 DEF StoreInv, Typed, InSequence, Kept, Exclusive
<1>7. Memory'
  <2> SUFFICES ASSUME NEW q \in Process
               PROVE  /\ at'[q] # "open" => written'[q] = 0
                      /\ at'[q] \in {"repaired", "open"} => Remembers(q)'
    BY DEF Memory
  <2>1. CASE q = p
    <3>1. events'[p] = log /\ written'[p] = 0
      BY <1>1, <1>3 DEF StoreInv, Typed
    <3>2. Len(log) \in Nat
      BY <1>2
    <3>. QED BY <1>4, <2>1, <3>1, <3>2 DEF Remembers, Pieces
  <2>2. CASE q # p
    <3>1. at[q] = "closed" /\ at'[q] = "closed"
      BY <1>1, <1>3, <2>2, AloneInside DEF StoreInv, Typed
    <3>. QED BY <1>3, <3>1 DEF StoreInv, Memory
  <2>. QED BY <2>1, <2>2
<1>8. Shown'
  <2> SUFFICES ASSUME reading
               PROVE  /\ Holds(file', floor)
                      /\ \A j \in 1 .. Len(buffer) : j <= Len(floor) * Pieces =>
                            buffer[j] = file'[j]
    BY <1>3 DEF Shown, reader
  <2>1. \A j \in 1 .. Len(buffer) : j <= Len(floor) * Pieces =>
           j \in 1 .. Len(floor) * Pieces /\ buffer[j] = file[j]
    BY <1>1 DEF StoreInv, Typed, Shown, Pieces
  <2>. QED BY <1>1, <1>4, <2>1
<1>. QED BY <1>5, <1>6, <1>7, <1>8 DEF StoreInv

(* A piece of a record is written where the store believes the end of the    *)
(* file to be, and that is where it is.                                      *)
LEMMA WriteKeeps ==
  ASSUME StoreInv, NEW p \in Process, Write(p)
  PROVE  StoreInv'
<1> DEFINE i == NextSeq(p)
           part == written[p] + 1
           id == begun'
<1>1. /\ file \in Seq(Record) /\ Good(file) /\ promised \in Seq(Nat) /\ floor \in Seq(Nat)
      /\ Holds(file, promised) /\ (reading => Holds(file, floor))
      /\ events[p] \in Seq(Nat) /\ written[p] \in 0 .. Pieces /\ begun \in 0 .. MaxAppends
      /\ at[p] = "open" /\ Remembers(p)
  BY DEF StoreInv, Typed, InSequence, Kept, Shown, Memory, Write
<1>2. /\ written[p] < Pieces
      /\ written[p] = 0 => begun < MaxAppends
      /\ id = IF written[p] = 0 THEN begun + 1 ELSE begun
      /\ written' = [written EXCEPT ![p] = part]
      /\ UNCHANGED <<disk, lock, at, events, promised, reader>>
  BY DEF Write
<1>3. written'[p] = part
  BY <1>2 DEF StoreInv, Typed
<1>4. /\ i \in Nat \ {0} /\ part \in 1 .. Pieces /\ id \in 1 .. MaxAppends
      /\ Len(file) = (i - 1) * Pieces + part - 1
      /\ part > 1 => IdOf(file, i) = id
  BY <1>1, <1>2, ProcessesAreNamed DEF Pieces, NextSeq, Remembers
<1>5. file' = Extended(file, i, part, id)
  BY <1>3 DEF Write, Extended
<1>6. i = Len(events[p]) + 1
  BY DEF NextSeq
<1> HIDE DEF i, part, id
<1> DEFINE g == Extended(file, i, part, id)
<1>7. /\ g \in Seq(Record) /\ Len(g) = Len(file) + 1
      /\ \A j \in 1 .. Len(file) : g[j] = file[j]
      /\ Good(g)
      /\ IdOf(g, i) = id
      /\ \A j \in Nat \ {0} : (j - 1) * Pieces + 1 <= Len(file) =>
           IdOf(g, j) = IdOf(file, j)
      /\ \A l \in Seq(Nat) : Holds(file, l) => Holds(g, l)
  BY <1>1, <1>4, ExtendedIsGood DEF Pieces
<1>8. file' = g
  BY <1>5
<1> HIDE DEF g
<1>9. Typed'
  <2>1. id \in 0 .. MaxAppends /\ part \in 0 .. Pieces
    BY <1>4, ProcessesAreNamed DEF Pieces
  <2>. QED BY <1>2, <1>7, <1>8, <2>1 DEF StoreInv, Typed, reader, id
<1>10. InSequence' /\ Kept' /\ Exclusive'
  BY <1>1, <1>2, <1>7, <1>8 DEF StoreInv, InSequence, Kept, Exclusive
<1>11. Memory'
  <2> SUFFICES ASSUME NEW q \in Process
               PROVE  /\ at'[q] # "open" => written'[q] = 0
                      /\ at'[q] \in {"repaired", "open"} => Remembers(q)'
    BY DEF Memory
  <2>1. CASE q = p
    <3>1. at'[p] = "open" /\ events'[p] = events[p]
      BY <1>1, <1>2
    <3>2. Len(file') = Len(events'[p]) * Pieces + written'[p]
      <4>1. Len(events[p]) \in Nat /\ Len(file) \in Nat
        BY <1>1
      <4>2. Len(file') = Len(events[p]) * Pieces + part
        <5>1. Len(file') = Len(file) + 1
          BY <1>7, <1>8
        <5>2. Len(file) = (i - 1) * Pieces + part - 1 /\ part \in 1 .. Pieces
          BY <1>4
        <5>. QED BY <1>6, <4>1, <5>1, <5>2 DEF Pieces
      <4>. QED BY <1>3, <3>1, <4>2
    <3>3. \A j \in 1 .. Len(events[p]) : events[p][j] = IdOf(file', j)
      <4> TAKE j \in 1 .. Len(events[p])
      <4>1. j \in Nat \ {0} /\ (j - 1) * Pieces + 1 <= Len(file)
        <5>1. Len(events[p]) \in Nat /\ written[p] \in 0 .. Pieces
          BY <1>1
        <5>2. Len(file) = Len(events[p]) * Pieces + written[p]
          BY <1>1 DEF Remembers
        <5>. QED BY <5>1, <5>2 DEF Pieces
      <4>. QED BY <1>1, <1>7, <1>8, <4>1 DEF Remembers
    <3>4. begun' > 0 /\ IdOf(file', Len(events[p]) + 1) = begun'
      BY <1>4, <1>6, <1>7, <1>8 DEF id
    <3>. QED BY <2>1, <3>1, <3>2, <3>3, <3>4 DEF Remembers
  <2>2. CASE q # p
    <3>1. at[q] = "closed" /\ at'[q] = "closed" /\ written'[q] = written[q]
      BY <1>1, <1>2, <2>2, AloneInside DEF StoreInv, Typed
    <3>. QED BY <3>1 DEF StoreInv, Memory
  <2>. QED BY <2>1, <2>2
<1>12. Shown'
  <2> SUFFICES ASSUME reading
               PROVE  /\ Holds(file', floor)
                      /\ \A j \in 1 .. Len(buffer) : j <= Len(floor) * Pieces =>
                            buffer[j] = file'[j]
    BY <1>2 DEF Shown, reader
  <2>1. \A j \in 1 .. Len(buffer) : j <= Len(floor) * Pieces =>
           j \in 1 .. Len(file) /\ buffer[j] = file[j]
    BY <1>1 DEF StoreInv, Typed, Shown, Holds, Pieces
  <2>. QED BY <1>1, <1>7, <1>8, <2>1
<1>. QED BY <1>9, <1>10, <1>11, <1>12 DEF StoreInv

(* fsync, and append returns: what the store remembers is then promised.     *)
LEMMA SyncKeeps ==
  ASSUME StoreInv, NEW p \in Process, Sync(p)
  PROVE  StoreInv'
<1> DEFINE log == Append(events[p], begun)
<1>1. /\ file \in Seq(Record) /\ Good(file)
      /\ events[p] \in Seq(Nat) /\ begun \in Nat
      /\ at[p] = "open" /\ written[p] = Pieces /\ Remembers(p)
  BY ProcessesAreNamed DEF StoreInv, Typed, InSequence, Memory, Sync
<1>2. /\ disk' = file
      /\ events' = [events EXCEPT ![p] = log]
      /\ promised' = log
      /\ written' = [written EXCEPT ![p] = 0]
      /\ UNCHANGED <<file, lock, at, begun, reader>>
  BY DEF Sync, StoreInv, Typed
<1>3. /\ log \in Seq(Nat) /\ Len(log) = Len(events[p]) + 1
      /\ \A i \in 1 .. Len(events[p]) : log[i] = events[p][i]
      /\ log[Len(events[p]) + 1] = begun
  BY <1>1
<1> HIDE DEF log
<1>4. Len(file) = Len(log) * Pieces
  BY <1>1, <1>3 DEF Remembers, Pieces
<1>5. \A i \in 1 .. Len(log) : log[i] = IdOf(file, i)
  <2> TAKE i \in 1 .. Len(log)
  <2>1. CASE i \in 1 .. Len(events[p])
    BY <1>1, <1>3, <2>1 DEF Remembers
  <2>2. CASE i = Len(events[p]) + 1
    BY <1>1, <1>3, <2>2 DEF Remembers, Pieces
  <2>. QED BY <1>1, <1>3, <2>1, <2>2
<1>6. Holds(file, log)
  BY <1>1, <1>4, <1>5 DEF Holds
<1>7. Typed'
  BY <1>2, <1>3 DEF StoreInv, Typed, reader, Pieces
<1>8. InSequence' /\ Kept' /\ Exclusive' /\ Shown'
  BY <1>1, <1>2, <1>6 DEF StoreInv, InSequence, Kept, Exclusive, Shown, reader
<1>9. Memory'
  <2> SUFFICES ASSUME NEW q \in Process
               PROVE  /\ at'[q] # "open" => written'[q] = 0
                      /\ at'[q] \in {"repaired", "open"} => Remembers(q)'
    BY DEF Memory
  <2>1. CASE q = p
    <3>1. events'[p] = log /\ written'[p] = 0
      BY <1>2 DEF StoreInv, Typed
    <3>2. Len(log) * Pieces = Len(log) * Pieces + 0
      BY <1>3 DEF Pieces
    <3>3. Len(file') = Len(events'[p]) * Pieces + written'[p]
      BY <1>2, <1>4, <3>1, <3>2
    <3>4. \A i \in 1 .. Len(events'[p]) : events'[p][i] = IdOf(file', i)
      BY <1>2, <1>5, <3>1
    <3>5. at'[p] = "open" /\ ~(written'[p] > 0)
      BY <1>1, <1>2, <3>1
    <3>. QED BY <2>1, <3>3, <3>4, <3>5 DEF Remembers
  <2>2. CASE q # p
    <3>1. at[q] = "closed" /\ at'[q] = "closed" /\ written'[q] = written[q]
      BY <1>1, <1>2, <2>2, AloneInside DEF StoreInv, Typed
    <3>. QED BY <3>1 DEF StoreInv, Memory
  <2>. QED BY <2>1, <2>2
<1>. QED BY <1>7, <1>8, <1>9 DEF StoreInv

(* A store that is left, after an error or at the end, remembers nothing.    *)
LEMMA LeaveKeeps ==
  ASSUME StoreInv, NEW p \in Process, at[p] # "closed", Leave(p),
         disk' \in {disk, file},
         UNCHANGED <<file, begun, promised, reader>>
  PROVE  StoreInv'
<1>1. Typed'
  BY DEF StoreInv, Typed, Leave, reader, Pieces
<1>2. InSequence' /\ Kept' /\ Shown'
  BY DEF StoreInv, InSequence, Kept, Shown, reader
<1>3. \A q \in Process : at'[q] = "closed" /\ written'[q] = 0
  <2> TAKE q \in Process
  <2>1. CASE q = p
    BY <2>1 DEF StoreInv, Typed, Leave
  <2>2. CASE q # p
    <3>1. at[q] = "closed" /\ written[q] = 0
      BY <2>2, AloneInside DEF StoreInv, Memory
    <3>. QED BY <2>2, <3>1 DEF StoreInv, Typed, Leave
  <2>. QED BY <2>1, <2>2
<1>4. Exclusive' /\ Memory'
  BY <1>3 DEF Exclusive, Memory
<1>. QED BY <1>1, <1>2, <1>4 DEF StoreInv

(* After a power loss one of the survivors is the file.                      *)
LEMMA LosePowerKeeps ==
  ASSUME StoreInv, LosePower
  PROVE  StoreInv'
<1>1. file' \in Seq(Record) /\ Good(file') /\ Holds(file', promised) /\ disk' = file'
  BY SurvivorsAreGood DEF StoreInv, LosePower
<1>2. Typed'
  <2>1. \A S : <<>> \in Seq(S)
    OBVIOUS
  <2>2. events' \in [Process -> Seq(Nat)] /\ written' \in [Process -> 0 .. Pieces]
    BY <2>1 DEF LosePower, Pieces
  <2>3. /\ lock' \in Process \union {NoProcess} /\ reading' \in BOOLEAN
        /\ at' \in [Process -> {"closed", "locked", "repaired", "open"}]
    BY Zenon DEF LosePower
  <2>4. begun' = begun /\ promised' = promised /\ buffer' = <<>> /\ floor' = <<>>
    BY DEF LosePower
  <2>. QED BY <1>1, <2>1, <2>2, <2>3, <2>4 DEF StoreInv, Typed
<1>3. InSequence' /\ Kept'
  BY <1>1 DEF LosePower, InSequence, Kept
<1>4. Exclusive' /\ Memory' /\ Shown'
  BY DEF LosePower, Exclusive, Memory, Shown
<1>. QED BY <1>2, <1>3, <1>4 DEF StoreInv

(* A reader reads on from where it is: of what was promised when it began,   *)
(* it reads what is there still.                                             *)
LEMMA ReadingKeeps ==
  ASSUME StoreInv, StartReading \/ ReadChunk \/ StopReading
  PROVE  StoreInv'
<1>1. UNCHANGED <<file, disk, lock, at, events, written, begun, promised>>
  BY DEF StartReading, ReadChunk, StopReading
<1>2. InSequence' /\ Kept' /\ Exclusive' /\ Memory'
  BY <1>1 DEF StoreInv, InSequence, Kept, Exclusive, Memory, Remembers
<1>3. \A S : <<>> \in Seq(S)
  OBVIOUS
<1>4. CASE StartReading
  <2>1. Typed'
    BY <1>1, <1>3, <1>4 DEF StartReading, StoreInv, Typed
  <2>2. Shown'
    BY <1>1, <1>4 DEF StartReading, StoreInv, Shown, Kept
  <2>. QED BY <1>2, <2>1, <2>2 DEF StoreInv
<1>5. CASE StopReading
  <2>1. Typed'
    BY <1>1, <1>3, <1>5 DEF StopReading, StoreInv, Typed
  <2>2. Shown'
    BY <1>5 DEF StopReading, Shown
  <2>. QED BY <1>2, <2>1, <2>2 DEF StoreInv
<1>6. CASE ReadChunk
  <2>1. PICK end \in Len(buffer) + 1 .. Len(file) :
           buffer' = buffer \o SubSeq(file, Len(buffer) + 1, end)
    BY <1>6 DEF ReadChunk
  <2>2. reading /\ UNCHANGED <<reading, floor>>
    BY <1>6 DEF ReadChunk
  <2>3. file \in Seq(Record) /\ buffer \in Seq(Record) /\ floor \in Seq(Nat)
    BY DEF StoreInv, Typed
  <2> DEFINE chunk == SubSeq(file, Len(buffer) + 1, end)
  <2>4. /\ chunk \in Seq(Record) /\ Len(chunk) = end - Len(buffer)
        /\ \A j \in 1 .. Len(chunk) : chunk[j] = file[Len(buffer) + j]
    BY <2>3
  <2> HIDE DEF chunk
  <2>5. /\ buffer' \in Seq(Record) /\ Len(buffer') = end
        /\ \A j \in 1 .. Len(buffer) : buffer'[j] = buffer[j]
        /\ \A j \in Len(buffer) + 1 .. end : buffer'[j] = chunk[j - Len(buffer)]
    <3>1. buffer' = buffer \o chunk
      BY <2>1 DEF chunk
    <3>2. buffer' \in Seq(Record)
      BY <2>3, <2>4, <3>1
    <3>3. /\ Len(buffer) \in Nat /\ Len(chunk) \in Nat /\ end \in Nat
          /\ Len(buffer) + Len(chunk) = end
      BY <2>1, <2>3, <2>4
    <3>4. Len(buffer') = end
      BY <2>3, <2>4, <3>1, <3>3
    <3>5. \A j \in 1 .. Len(buffer) : buffer'[j] = buffer[j]
      BY <2>3, <2>4, <3>1
    <3>6. \A j \in Len(buffer) + 1 .. Len(buffer) + Len(chunk) :
             buffer'[j] = chunk[j - Len(buffer)]
      BY <2>3, <2>4, <3>1
    <3>. QED BY <3>2, <3>3, <3>4, <3>5, <3>6
  <2>6. \A j \in Len(buffer) + 1 .. end : buffer'[j] = file[j]
    <3> TAKE j \in Len(buffer) + 1 .. end
    <3>1. j - Len(buffer) \in 1 .. Len(chunk) /\ Len(buffer) + (j - Len(buffer)) = j
      BY <2>3, <2>4
    <3>. QED BY <2>4, <2>5, <3>1
  <2>7. Typed'
    BY <1>1, <2>2, <2>5 DEF StoreInv, Typed
  <2>8. Shown'
    <3>1. \A j \in 1 .. Len(buffer') : j \in 1 .. Len(buffer) \/ j \in Len(buffer) + 1 .. end
      BY <2>1, <2>3, <2>5
    <3>. QED BY <1>1, <2>2, <2>5, <2>6, <3>1 DEF StoreInv, Shown
  <2>. QED BY <1>2, <2>7, <2>8 DEF StoreInv
<1>. QED BY <1>4, <1>5, <1>6

LEMMA StoreInvIsInductive == StoreInv /\ [StoreNext]_vars => StoreInv'
<1> SUFFICES ASSUME StoreInv, [StoreNext]_vars PROVE StoreInv'
  OBVIOUS
<1>1. ASSUME NEW p \in Process, Open(p) PROVE StoreInv'
  <2>1. \A q \in Process : at[q] = "closed"
    BY <1>1, ProcessesAreNamed DEF Open, StoreInv, Typed, Exclusive
  <2>2. /\ at' = [at EXCEPT ![p] = "locked"] /\ lock' = p
        /\ UNCHANGED <<file, disk, events, written, begun, promised, reader>>
    BY <1>1 DEF Open
  <2>3. \A q \in Process : at'[q] \notin {"repaired", "open"} /\ (q # p => at'[q] = "closed")
    BY <2>1, <2>2 DEF StoreInv, Typed
  <2>4. Typed'
    BY <2>2 DEF StoreInv, Typed, reader
  <2>5. InSequence' /\ Kept' /\ Shown'
    BY <2>2 DEF StoreInv, InSequence, Kept, Shown, reader
  <2>6. \A q \in Process : written'[q] = 0
    BY <2>1, <2>2 DEF StoreInv, Memory
  <2>7. Exclusive' /\ Memory'
    BY <2>2, <2>3, <2>6 DEF Exclusive, Memory
  <2>. QED BY <2>4, <2>5, <2>7 DEF StoreInv
<1>2. ASSUME NEW p \in Process, Read(p) PROVE StoreInv'
  BY <1>2, ReadKeeps
<1>3. ASSUME NEW p \in Process, SyncRepair(p) PROVE StoreInv'
  <2>1. /\ at' = [at EXCEPT ![p] = "open"] /\ disk' = file /\ at[p] = "repaired"
        /\ UNCHANGED <<file, lock, events, written, begun, promised, reader>>
    BY <1>3 DEF SyncRepair
  <2>2. Typed'
    BY <2>1 DEF StoreInv, Typed, reader
  <2>3. InSequence' /\ Kept' /\ Shown'
    BY <2>1 DEF StoreInv, InSequence, Kept, Shown, reader
  <2>4. \A q \in Process : at'[q] = IF q = p THEN "open" ELSE at[q]
    BY <2>1 DEF StoreInv, Typed
  <2>5. Exclusive'
    BY <2>1, <2>4 DEF StoreInv, Exclusive
  <2>6. \A q \in Process : Remembers(q)' <=> Remembers(q)
    BY <2>1 DEF Remembers
  <2>7. Memory'
    BY <2>1, <2>4, <2>6 DEF StoreInv, Memory
  <2>. QED BY <2>2, <2>3, <2>5, <2>7 DEF StoreInv
<1>4. ASSUME NEW p \in Process, Write(p) PROVE StoreInv'
  BY <1>4, WriteKeeps
<1>5. ASSUME NEW p \in Process, Sync(p) PROVE StoreInv'
  BY <1>5, SyncKeeps
<1>6. ASSUME NEW p \in Process, FailAppend(p) PROVE StoreInv'
  BY <1>6, LeaveKeeps DEF FailAppend
<1>7. ASSUME NEW p \in Process, Exit(p) PROVE StoreInv'
  BY <1>7, LeaveKeeps DEF Exit
<1>8. CASE LosePower
  BY <1>8, LosePowerKeeps
<1>9. CASE StartReading \/ ReadChunk \/ StopReading
  BY <1>9, ReadingKeeps
<1>10. CASE UNCHANGED vars
  BY <1>10 DEF vars, StoreInv, Typed, InSequence, Exclusive, Memory, Remembers, Kept, Shown
<1>. QED
  BY <1>1, <1>2, <1>3, <1>4, <1>5, <1>6, <1>7, <1>8, <1>9, <1>10 DEF StoreNext

(* Whatever processes do, and wherever they are stopped, the invariant       *)
(* holds.                                                                    *)
THEOREM StoreInvariance == StoreSpec => []StoreInv
BY StoreStarts, StoreInvIsInductive, PTL DEF StoreSpec

-----------------------------------------------------------------------------
(* What follows from it. *)

(* A log that is held in whole is the beginning of what is read of the file. *)
LEMMA HeldIsRead ==
  ASSUME NEW f \in Seq(Record), NEW log \in Seq(Nat), Holds(f, log),
         \A i \in 1 .. Len(log) : IsLine(f, i)
  PROVE  Len(log) <= Len(Log(f)) /\ log = SubSeq(Log(f), 1, Len(log))
<1> DEFINE n == Committed(f)
           m == n + (IF NeedsNewline(f) THEN 1 ELSE 0)
<1>1. n \in Nat /\ m \in Nat /\ n <= m
  BY CommittedIs
<1>2. ~IsLine(f, n + 1)
  BY CommittedIs
<1>3. Log(f) = [i \in 1 .. m |-> IdOf(f, i)]
  BY DEF Log, IdOf
<1> HIDE DEF n, m
<1>4. Len(log) <= n
  <2> SUFFICES ASSUME n < Len(log) PROVE FALSE
    BY <1>1
  <2>1. n + 1 \in 1 .. Len(log)
    BY <1>1
  <2>. QED BY <1>2, <2>1
<1>5. Len(Log(f)) = m /\ \A i \in 1 .. m : Log(f)[i] = IdOf(f, i)
  BY <1>1, <1>3
<1>6. \A i \in 1 .. Len(log) : log[i] = Log(f)[i]
  BY <1>1, <1>4, <1>5 DEF Holds
<1>7. Len(SubSeq(Log(f), 1, Len(log))) = Len(log)
  BY <1>1, <1>3, <1>4, <1>5
<1>8. log = SubSeq(Log(f), 1, Len(log))
  <2> DEFINE S == Nat \union {IdOf(f, i) : i \in 1 .. m}
             l == Log(f)
             k == Len(log)
  <2>1. k \in Nat /\ k <= m /\ log \in Seq(S) /\ l \in Seq(S) /\ Len(l) = m
    <3>1. k \in Nat /\ k <= m
      BY <1>1, <1>4
    <3>2. log \in Seq(S)
      <4>1. Nat \subseteq S
        OBVIOUS
      <4> HIDE DEF S
      <4> QED BY <4>1, SeqMonotonic
    <3>3. l = [i \in 1 .. m |-> IdOf(f, i)] /\ \A i \in 1 .. m : IdOf(f, i) \in S
      BY <1>3
    <3>4. l \in Seq(S) /\ Len(l) = m
      <4> HIDE DEF S, l
      <4> QED BY <1>1, <3>3
    <3> QED BY <3>1, <3>2, <3>4
  <2> HIDE DEF S, l
  <2>2. SubSeq(l, 1, k) \in Seq(S) /\ Len(SubSeq(l, 1, k)) = k /\ \A i \in 1 .. k : SubSeq(l, 1, k)[i] = l[i]
    <3>1. 1 \in Int /\ k \in Int /\ \A i \in 1 .. k : l[i] \in S
      BY <1>1, <2>1
    <3>2. /\ SubSeq(l, 1, k) \in Seq(S)
          /\ Len(SubSeq(l, 1, k)) = IF 1 <= k THEN k - 1 + 1 ELSE 0
          /\ \A i \in 1 .. k - 1 + 1 : SubSeq(l, 1, k)[i] = l[1 + i - 1]
      BY <3>1, SubSeqProperties
    <3>3. k - 1 + 1 = k /\ (\A i \in 1 .. k : 1 + i - 1 = i) /\ (~(1 <= k) => k = 0)
      BY <2>1
    <3> HIDE DEF k
    <3> QED BY <3>2, <3>3
  <2>3. \A i \in 1 .. k : log[i] = l[i]
    BY <1>6 DEF l
  <2>4. log = SubSeq(l, 1, k)
    BY <2>1, <2>2, <2>3, SeqEqual
  <2> QED BY <2>4 DEF l
<1>. QED BY <1>1, <1>4, <1>5, <1>8

(* The session can always be opened again, whatever was cut short            *)
(* (_parse_rollout, _read_and_repair_tail).                                  *)
THEOREM SessionsOpenAgain == StoreSpec => []NeverCorrupt
<1>1. StoreInv => NeverCorrupt
  BY SurvivorsAreGood, Parsed DEF StoreInv, NeverCorrupt
<1>. QED BY <1>1, StoreInvariance, PTL

(* An event whose append returned is in the log after every crash, where it  *)
(* was (append returns after fsync).                                         *)
THEOREM PromisesAreKept == StoreSpec => []PromiseIsKept
<1>1. StoreInv => PromiseIsKept
  <2> SUFFICES ASSUME StoreInv, NEW f \in Survivors
               PROVE  /\ Len(promised) <= Len(Log(f))
                      /\ promised = SubSeq(Log(f), 1, Len(promised))
    BY DEF PromiseIsKept
  <2>1. f \in Seq(Record) /\ Good(f) /\ Holds(f, promised) /\ promised \in Seq(Nat)
    BY SurvivorsAreGood DEF StoreInv, Typed
  <2>2. \A i \in 1 .. Len(promised) : i \in Nat \ {0} /\ i * Pieces <= Len(f)
    BY <2>1 DEF Holds, Pieces
  <2>3. \A i \in 1 .. Len(promised) : IsLine(f, i)
    BY <2>1, <2>2, LinesOfGood
  <2>. QED BY <2>1, <2>3, HeldIsRead
<1>. QED BY <1>1, StoreInvariance, PTL

(* A store that is not appending remembers exactly what is in the file       *)
(* (_acquire_lock, _poisoned).                                               *)
THEOREM MemoryIsRight == StoreSpec => []MemoryIsTheFile
<1>1. StoreInv => MemoryIsTheFile
  <2> SUFFICES ASSUME StoreInv, NEW p \in Process, at[p] = "open", written[p] = 0
               PROVE  events[p] = Log(file) /\ Rest(file) = <<>>
    BY DEF MemoryIsTheFile
  <2>1. /\ file \in Seq(Record) /\ Good(file) /\ events[p] \in Seq(Nat)
        /\ Len(file) = Len(events[p]) * Pieces
        /\ \A i \in 1 .. Len(events[p]) : events[p][i] = IdOf(file, i)
    BY DEF StoreInv, Typed, InSequence, Memory, Remembers, Pieces
  <2> DEFINE n == Committed(file)
  <2>2. /\ n \in Nat /\ n * Pieces <= Len(file) /\ Len(file) < n * Pieces + Pieces
        /\ NeedsNewline(file) <=> Len(file) = n * Pieces + 2
        /\ Rest(file) = <<>> <=> Len(file) = n * Pieces
        /\ Log(file) \in Seq(Nat)
        /\ Len(Log(file)) = n + (IF NeedsNewline(file) THEN 1 ELSE 0)
        /\ \A i \in 1 .. Len(Log(file)) : Log(file)[i] = IdOf(file, i)
    BY <2>1, Parsed
  <2> HIDE DEF n
  <2>3. Len(events[p]) \in Nat
    BY <2>1
  <2>4. n = Len(events[p]) /\ Len(file) = n * Pieces /\ Len(file) # n * Pieces + 2
    BY SMTT(30), <2>1, <2>2, <2>3 DEF Pieces
  <2>5. ~NeedsNewline(file)
    BY <2>2, <2>4
  <2>6. Len(Log(file)) = n + 0
    BY <2>2, <2>5
  <2> DEFINE log == Log(file)
  <2>7. /\ log \in Seq(Nat) /\ Len(log) = Len(events[p])
        /\ \A i \in 1 .. Len(log) : log[i] = events[p][i]
    <3>1. Len(Log(file)) = Len(events[p])
      BY <2>3, <2>4, <2>6
    <3>2. \A i \in 1 .. Len(Log(file)) : Log(file)[i] = IdOf(file, i)
      BY <2>2
    <3>3. \A i \in 1 .. Len(Log(file)) : Log(file)[i] = events[p][i]
      BY <2>1, <3>1, <3>2
    <3>. QED BY <2>2, <3>1, <3>3
  <2> HIDE DEF log
  <2>8. log = events[p]
    BY <2>1, <2>7, SeqEqual
  <2>. QED BY <2>2, <2>4, <2>8 DEF log
<1>. QED BY <1>1, StoreInvariance, PTL

(* A snapshot that a reader accepts has all that was promised when it began, *)
(* though others write and repair beside it (read_session_snapshot).         *)
THEOREM SnapshotsAreCurrent == StoreSpec => []SnapshotHasThePromise
<1>1. StoreInv => SnapshotHasThePromise
  <2> SUFFICES ASSUME StoreInv, AtEndOfFile
               PROVE  /\ Len(floor) <= Len(Log(buffer))
                      /\ floor = SubSeq(Log(buffer), 1, Len(floor))
    BY DEF SnapshotHasThePromise
  <2>1. /\ file \in Seq(Record) /\ Good(file) /\ buffer \in Seq(Record)
        /\ floor \in Seq(Nat) /\ Holds(file, floor) /\ Len(file) <= Len(buffer)
        /\ \A j \in 1 .. Len(buffer) : j <= Len(floor) * Pieces => buffer[j] = file[j]
    BY DEF StoreInv, Typed, InSequence, Shown, AtEndOfFile
  <2>2. Len(floor) \in Nat /\ Len(floor) * Pieces <= Len(file) /\ Len(floor) * Pieces <= Len(buffer)
    BY <2>1 DEF Holds, Pieces
  <2>3. \A i \in 1 .. Len(floor), part \in 1 .. Pieces :
           buffer[(i - 1) * Pieces + part] = file[(i - 1) * Pieces + part]
    <3> TAKE i \in 1 .. Len(floor), part \in 1 .. Pieces
    <3>1. /\ (i - 1) * Pieces + part \in 1 .. Len(buffer)
          /\ (i - 1) * Pieces + part <= Len(floor) * Pieces
      BY <2>1, <2>2 DEF Pieces
    <3>. QED BY <2>1, <3>1
  <2>4. Holds(buffer, floor)
    <3>1. ASSUME NEW i \in 1 .. Len(floor) PROVE IdOf(buffer, i) = IdOf(file, i)
      <4>1. 1 \in 1 .. Pieces
        BY DEF Pieces
      <4>. QED BY <2>3, <4>1 DEF IdOf
    <3>. QED BY <2>1, <2>2, <3>1 DEF Holds
  <2>5. \A i \in 1 .. Len(floor) : IsLine(buffer, i)
    <3> TAKE i \in 1 .. Len(floor)
    <3>1. i \in Nat \ {0} /\ i * Pieces <= Len(file) /\ i * Pieces <= Len(buffer)
      BY <2>2 DEF Pieces
    <3>2. PICK id \in 1 .. MaxAppends : \A part \in 1 .. Pieces :
             file[(i - 1) * Pieces + part] = Piece(i, id, part)
      BY <2>1, <3>1, LinesOfGood DEF IsLine
    <3>3. \A part \in 1 .. Pieces : buffer[(i - 1) * Pieces + part] = Piece(i, id, part)
      BY <2>3, <3>2
    <3>. QED BY <3>1, <3>3 DEF IsLine
  <2>. QED BY <2>1, <2>4, <2>5, HeldIsRead
<1>. QED BY <1>1, StoreInvariance, PTL
=============================================================================
