---------------------------- MODULE TaskLogProofs ----------------------------
(* Theorems about the logs of the tasks, for any number of days, lines,     *)
(* files and failures: nothing is lost, doubled or misdated by a rotation,  *)
(* and a follower misses nothing.                                           *)
EXTENDS TaskLogProps, FiniteSetTheorems, SequenceTheorems, WellFoundedInduction, TLAPS

OneWriter == \A v, w \in Writers : v = w

-------------------------------------------------------------------------------
(* Types, for any number of writers.                                        *)

Entries == [day : Days, size : Nat]

WriterState ==
  [pc : WriterLabels, file : Inodes \union {Nil}, day : 0..MaxDay, bol : BOOLEAN,
   time : 0..MaxDay, piece : Piece \union {Nil}, blocks : [Days -> Seq(Piece)],
   stays : Seq(Piece), done : Seq(Entries)]

FollowerState ==
  [pc : {"off", "stat", "read"}, inode : Inodes \union {Nil}, offset : Nat, from : Nat,
   size : Nat, pending : Seq(Piece), emitted : SUBSET Seq(Piece)]

LogTyped ==
  /\ today \in Days /\ nextLine \in 1..(MaxLine + 1) /\ nextInode \in 1..(MaxInode + 1)
  /\ current \in Inodes \union {Nil}
  /\ inode \in [Inodes -> Seq(Piece)] /\ archive \in [Days -> Seq(Piece)]
  /\ gone \in [lines : SUBSET Nat, inodes : SUBSET Inodes]
  /\ written \in SUBSET Nat /\ torn \in BOOLEAN
  /\ writer \in [Writers -> WriterState]
  /\ follower \in FollowerState

(* What a writer has got hold of.                                           *)
WriterHolds(s) ==
  /\ s.file # Nil => s.file < nextInode
  /\ s.pc \in {"append", "ready"} => s.file # Nil
  /\ s.pc = "append" => s.piece \in Piece
  /\ s.pc \in {"rotate", "commit", "reopen"} => s.time \in Days
  /\ s.pc # "commit" => s.done = <<>>

(* An inode is not used again.                                              *)
InodesAreFresh ==
  /\ current # Nil => current < nextInode
  /\ \A i \in gone.inodes : i < nextInode
  /\ follower.inode # Nil => follower.inode < nextInode
  /\ \A i \in Inodes : i >= nextInode => inode[i] = <<>>

LogInv == LogTyped /\ InodesAreFresh /\ \A w \in Writers : WriterHolds(writer[w])

-------------------------------------------------------------------------------
(* The follower.                                                            *)

Followed == SubSeq(inode[current], follower.from + 1, follower.offset)

FollowerInv ==
  follower.pc # "off" /\ follower.inode = current /\ current # Nil =>
    /\ follower.from <= follower.offset /\ follower.offset <= Len(inode[current])
    /\ LinesAndTail(Followed).lines \subseteq follower.emitted
    /\ follower.pending = LinesAndTail(Followed).tail
    /\ follower.pc = "read" => follower.offset < follower.size /\ follower.size <= Len(inode[current])

-------------------------------------------------------------------------------
(* The writer, when there is one at a time.                                 *)

(* The file a writer has open is the log until somebody deletes it.         *)
Holding(s) ==
  /\ s.pc \in {"append", "ready"} =>
       s.file = current \/ (current = Nil /\ s.file \in gone.inodes)
  /\ s.pc \in {"rotate", "commit", "reopen"} => s.piece = Nil \/ s.piece.line # 0
  /\ s.pc = "append" => s.piece.line # 0

InBlocks(blocks) == UNION {LineIDs(blocks[d]) : d \in Days}
Before(w) == [d \in Days |-> RolledBack(w, d)]

(* A rotation has the whole log in hand, and can be undone.                 *)
Rotating(w) ==
  LET s == writer[w]
  IN  s.pc = "commit" =>
        /\ \A i \in DOMAIN s.done : s.blocks[s.done[i].day] = <<>>
        /\ current # Nil =>
             LineIDs(Contents) \subseteq
               LineIDs(s.stays) \union InBlocks(s.blocks) \union Archived \union gone.lines
        /\ written \subseteq LineIDs(Contents) \union InBlocks(Before(w)) \union Removed

KeepingInv ==
  /\ \A w \in Writers : Holding(writer[w]) /\ Rotating(w)
  /\ LinesAreKept

(* Stamped lines begin where one has ended.                                 *)
Orderly(log) == \A j \in DOMAIN log : j > 1 /\ log[j].day > 0 => log[j - 1].ends

Only(log, day) == \A j \in DOMAIN log : log[j].day \in {0, day}
Closing(log) == log # <<>> => Last(log).ends

DatedPiece(s) == s.piece # Nil => s.piece.day = s.time /\ s.piece.line \in 1..(nextLine - 1)

WriterIsDated(s) ==
  /\ s.time <= today /\ s.day <= today
  /\ s.pc \in {"rotate", "commit"} => DatedPiece(s)
  /\ s.pc = "commit" => Orderly(s.stays) /\ ~Rotates(s.stays, s.time)
  /\ s.pc = "reopen" => ~Rotates(Contents, s.time) /\ DatedPiece(s)
  /\ s.pc = "append" => s.bol /\ s.day = s.time /\ s.time \in Days /\ DatedPiece(s)
  /\ s.pc \in {"append", "ready"} /\ s.file = current =>
       /\ ~Rotates(Contents, s.day)
       /\ IF s.bol THEN Closing(Contents) ELSE Contents # <<>> /\ ~Last(Contents).ends

DayInv ==
  /\ Orderly(Contents)
  /\ \A w \in Writers : WriterIsDated(writer[w])

(* No line twice.                                                           *)
Once(log, archives) ==
  \A l \in Nat \ {0} :
    /\ \A i, j \in Heads(log, l) : i = j
    /\ \A d \in Days : \A i, j \in Heads(archives[d], l) : i = j
    /\ \A d \in Days : Heads(log, l) # {} => Heads(archives[d], l) = {}
    /\ \A d, e \in Days : Heads(archives[d], l) # {} /\ Heads(archives[e], l) # {} => d = e

Dated(archives) == \A d \in Days : Only(archives[d], d)
(* A new line has a number no file has; nothing else has it either.         *)
Below(log, n) == \A j \in DOMAIN log : log[j].line < n
Newest(s) == IF s.piece = Nil THEN nextLine ELSE s.piece.line

After(s) == [d \in Days |-> archive[d] \o s.blocks[d]]

Exactly(w) ==
  LET s == writer[w]
  IN  /\ s.pc \in {"closed", "ready"} => s.piece = Nil
      /\ Below(Contents, Newest(s)) /\ \A d \in Days : Below(archive[d], Newest(s))
      /\ s.pc = "commit" =>
           /\ Once(Contents, Before(w)) /\ Dated(Before(w))
           /\ Once(s.stays, After(s)) /\ Dated(After(s))
           /\ Below(s.stays, Newest(s)) /\ \A d \in Days : Below(After(s)[d], Newest(s))

ExactInv ==
  ~torn =>
    /\ ~Committing => Once(Contents, archive) /\ Dated(archive)
    /\ \A w \in Writers : Exactly(w)

-------------------------------------------------------------------------------
(* The operators of the model.                                              *)

(* The greatest and the least of a bounded set of numbers.                  *)
LEMMA LeastOf ==
  ASSUME NEW T, T \subseteq Nat, T # {}
  PROVE  Min(T) \in T /\ \A y \in T : Min(T) <= y
<1>. DEFINE Initials == {1..n : n \in T}
<1>1. Initials \subseteq FiniteSubsetsOf(Nat)
  <2>. SUFFICES ASSUME NEW n \in T PROVE 1..n \in FiniteSubsetsOf(Nat)
    OBVIOUS
  <2>1. 1..n \subseteq Nat /\ n \in Nat
    OBVIOUS
  <2>2. IsFiniteSet(1..n)
    BY <2>1, FS_Interval
  <2>. QED
    BY <2>1, <2>2 DEF FiniteSubsetsOf
<1>2. Initials # {}
  OBVIOUS
<1>3. IsWellFoundedOn(StrictSubsetOrdering(Nat), FiniteSubsetsOf(Nat))
  BY FS_StrictSubsetOrderingWellFounded
<1>4. \E X \in Initials : \A Y \in Initials : ~(<<Y, X>> \in StrictSubsetOrdering(Nat))
  <2>. HIDE DEF Initials
  <2>. QED
    BY <1>1, <1>2, <1>3, WFMin
<1>5. PICK x \in T : \A y \in T : ~(<<1..y, 1..x>> \in StrictSubsetOrdering(Nat))
  BY <1>4
<1>6. \A y \in T : x <= y
  <2>. SUFFICES ASSUME NEW y \in T, y < x PROVE FALSE
    OBVIOUS
  <2>1. x \in 1..x /\ x \notin 1..y /\ 1..y \subseteq 1..x /\ 1..y \in SUBSET Nat
        /\ 1..x \in SUBSET Nat
    OBVIOUS
  <2>. QED
    BY <2>1, <1>5 DEF StrictSubsetOrdering
<1>. QED
  BY <1>6 DEF Min

LEMMA GreatestOf ==
  ASSUME NEW T, NEW n \in Nat, T \subseteq 0..n, T # {}
  PROVE  Max(T) \in T /\ \A y \in T : Max(T) >= y
<1>. DEFINE U == {n - y : y \in T}
<1>1. U \subseteq Nat /\ U # {}
  <2>1. \A y \in T : n - y \in Nat
    OBVIOUS
  <2>2. PICK y \in T : TRUE
    OBVIOUS
  <2>3. n - y \in U
    OBVIOUS
  <2>. QED
    BY <2>1, <2>3
<1>2. Min(U) \in U /\ \A y \in U : Min(U) <= y
  BY <1>1, LeastOf
<1>3. PICK x \in T : Min(U) = n - x
  BY <1>2
<1>4. \A y \in T : x >= y
  <2>. SUFFICES ASSUME NEW y \in T PROVE x >= y
    OBVIOUS
  <2>1. n - y \in U
    OBVIOUS
  <2>2. n - x <= n - y
    BY <2>1, <1>2, <1>3
  <2>. QED
    BY <2>2
<1>. QED
  BY <1>4 DEF Max

(* Pieces picks the pieces at those places, each of them once.              *)
LEMMA PiecesPick ==
  ASSUME NEW S, NEW log \in Seq(S), NEW places, places \subseteq DOMAIN log
  PROVE  /\ Pieces(log, places) \in Seq(S)
         /\ \E p \in [DOMAIN Pieces(log, places) -> places] :
              /\ \A n \in DOMAIN Pieces(log, places) : Pieces(log, places)[n] = log[p[n]]
              /\ \A m, n \in DOMAIN Pieces(log, places) : p[m] = p[n] => m = n
              /\ \A i \in places : \E n \in DOMAIN Pieces(log, places) : p[n] = i
<1>. DEFINE N == Cardinality(places)
            upTo(i) == {j \in places : j <= i}
            r == [i \in places |-> Cardinality(upTo(i))]
            p == [n \in 1..N |-> CHOOSE i \in places : Cardinality(upTo(i)) = n]
<1>1. places \subseteq Nat /\ IsFiniteSet(places) /\ N \in Nat
  <2>1. DOMAIN log = 1..Len(log) /\ Len(log) \in Nat
    OBVIOUS
  <2>2. IsFiniteSet(1..Len(log))
    BY <2>1, FS_Interval
  <2>. QED
    BY <2>1, <2>2, FS_Subset, FS_CardinalityType
<1>2. \A i \in places : IsFiniteSet(upTo(i)) /\ upTo(i) \subseteq places
  BY <1>1, FS_Subset
<1>3. \A i \in places : Cardinality(upTo(i)) \in 1..N
  <2>. SUFFICES ASSUME NEW i \in places PROVE Cardinality(upTo(i)) \in 1..N
    OBVIOUS
  <2>1. Cardinality(upTo(i)) \in Nat
    BY <1>2, FS_CardinalityType
  <2>2. Cardinality(upTo(i)) <= N
    BY <1>1, <1>2, FS_Subset
  <2>3. i \in upTo(i)
    BY <1>1
  <2>4. Cardinality(upTo(i)) # 0
    BY <2>3, <1>2, FS_EmptySet
  <2>. QED
    BY <1>1, <2>1, <2>2, <2>4
<1>4. \A i, k \in places : i < k => Cardinality(upTo(i)) # Cardinality(upTo(k))
  <2>. SUFFICES ASSUME NEW i \in places, NEW k \in places, i < k,
                       Cardinality(upTo(i)) = Cardinality(upTo(k))
                PROVE  FALSE
    OBVIOUS
  <2>1. upTo(i) \in SUBSET upTo(k)
    BY <1>1
  <2>2. upTo(k) = upTo(i)
    <3>. HIDE DEF upTo
    <3>. QED
      BY <2>1, <1>2, FS_Subset
  <2>3. k \in upTo(k) /\ k \notin upTo(i)
    BY <1>1
  <2>. QED
    BY <2>2, <2>3
<1>5. \A i, k \in places : Cardinality(upTo(i)) = Cardinality(upTo(k)) => i = k
  <2>. HIDE DEF upTo
  <2>. QED
    BY <1>4, <1>1
<1>6. r \in Injection(places, 1..N)
  <2>. HIDE DEF upTo, N
  <2>. QED
    BY <1>3, <1>5 DEF Injection, IsInjective
<1>7. Cardinality(1..N) = N /\ IsFiniteSet(1..N)
  BY <1>1, FS_Interval
<1>8. r \in Surjection(places, 1..N)
  <2>. HIDE DEF r
  <2>. QED
    BY <1>6, <1>7, FS_Injection
<1>9. \A n \in 1..N : \E i \in places : Cardinality(upTo(i)) = n
  <2>. HIDE DEF upTo, N
  <2>. QED
    BY <1>8 DEF Surjection
<1>10. \A n \in 1..N : p[n] \in places /\ Cardinality(upTo(p[n])) = n
  <2>. HIDE DEF upTo, N
  <2>. QED
    BY <1>9
<1>11. Pieces(log, places) = [n \in 1..N |-> log[p[n]]]
  BY DEF Pieces
<1>12. DOMAIN Pieces(log, places) = 1..N
  BY <1>11
<1>13. \A n \in 1..N : log[p[n]] \in S
  <2>1. \A i \in places : log[i] \in S
    BY ElementOfSeq
  <2>. HIDE DEF p, N
  <2>. QED
    BY <1>10, <2>1
<1>14. Pieces(log, places) \in Seq(S)
  <2>. HIDE DEF p, N
  <2>. QED
    BY <1>11, <1>13, <1>1, IsASeq
<1>15. p \in [1..N -> places]
  BY <1>10
<1>16. \A i \in places : \E n \in 1..N : p[n] = i
  <2>. SUFFICES ASSUME NEW i \in places PROVE \E n \in 1..N : p[n] = i
    OBVIOUS
  <2>1. Cardinality(upTo(i)) \in 1..N
    BY <1>3
  <2>2. p[Cardinality(upTo(i))] = i
    <3>. HIDE DEF upTo, N, p
    <3>. QED
      BY <1>5, <1>10, <2>1
  <2>. QED
    BY <2>1, <2>2
<1>17. \A m, n \in 1..N : p[m] = p[n] => m = n
  <2>. HIDE DEF upTo, N, p
  <2>. QED
    BY <1>10
<1>18. \A n \in 1..N : Pieces(log, places)[n] = log[p[n]]
  <2>. HIDE DEF p, N
  <2>. QED
    BY <1>11
<1>19. \E q \in [1..N -> places] :
         /\ \A n \in 1..N : Pieces(log, places)[n] = log[q[n]]
         /\ \A m, n \in 1..N : q[m] = q[n] => m = n
         /\ \A i \in places : \E n \in 1..N : q[n] = i
  <2>. HIDE DEF p, N
  <2>. QED
    BY <1>15, <1>16, <1>17, <1>18
<1>. DEFINE D == DOMAIN Pieces(log, places)
<1>20. D = 1..N
  BY <1>12
<1>21. \E q \in [D -> places] :
         /\ \A n \in D : Pieces(log, places)[n] = log[q[n]]
         /\ \A m, n \in D : q[m] = q[n] => m = n
         /\ \A i \in places : \E n \in D : q[n] = i
  <2>. HIDE DEF D, N
  <2>. QED
    BY <1>19, <1>20, Zenon
<1>. QED
  BY <1>14, <1>21, Zenon

(* What leaves a log is a part at its front, every block of it under a day, *)
(* and what stays begins with a line of the day or later.                   *)
Leaving(log, time) == {i \in DOMAIN log : Leaves(log, time, i)}

LEMMA SplitOf ==
  ASSUME NEW log \in Seq(Piece), NEW time \in Days, Rotates(log, time)
  PROVE  \E n \in 1..Len(log) :
           /\ Leaving(log, time) = 1..n
           /\ Split(log, time).rest = SubSeq(log, n + 1, Len(log))
           /\ \A i \in 1..n : Active(log, i) \in Days
           /\ \A i \in 1..n : Stamped(log, i) => Active(log, i) = log[i].day
           /\ n < Len(log) => Stamped(log, n + 1) /\ log[n + 1].day >= time
<1>. DEFINE L == Leaving(log, time)
            n == Max({0} \union L)
<1>1. DOMAIN log = 1..Len(log) /\ Len(log) \in Nat /\ time \in Nat
  BY DEF Days
<1>2. \A i \in 1..Len(log) : log[i] \in Piece
  BY ElementOfSeq
<1>3. \A i \in 1..Len(log) : log[i].day \in 0..MaxDay
  BY <1>2 DEF Piece
<1>4. 1 \in DOMAIN log /\ log[1].day \in 1..(time - 1)
  BY <1>1 DEF Rotates
<1>5. Stamped(log, 1)
  BY <1>4 DEF Stamped
<1>6. 1 \in L
  <2>1. \A j \in 1..1 : j = 1
    OBVIOUS
  <2>. QED
    BY <1>1, <1>4, <2>1 DEF Leaving, Leaves
<1>7. \A i \in L : i \in 1..Len(log) /\ \A j \in 1..i : j \in L
  <2>. SUFFICES ASSUME NEW i \in L, NEW j \in 1..i
                PROVE  i \in 1..Len(log) /\ j \in L
    BY <1>1 DEF Leaving
  <2>1. i \in 1..Len(log) /\ Leaves(log, time, i)
    BY <1>1 DEF Leaving
  <2>2. j \in 1..Len(log) /\ 1..j \subseteq 1..i
    BY <2>1, <1>1
  <2>3. Leaves(log, time, j)
    BY <2>1, <2>2 DEF Leaves
  <2>. QED
    BY <2>1, <2>2, <2>3, <1>1 DEF Leaving
<1>8. n \in {0} \union L /\ \A y \in {0} \union L : n >= y
  <2>. HIDE DEF L
  <2>1. {0} \union L \subseteq 0..Len(log)
    BY <1>1, <1>7
  <2>. QED
    BY <1>1, <2>1, GreatestOf
<1>9. n \in L /\ n \in 1..Len(log)
  <2>. HIDE DEF L, n
  <2>. QED
    BY <1>6, <1>7, <1>8, <1>1
<1>10. L = 1..n
  <2>. HIDE DEF L, n
  <2>1. 1..n \subseteq L
    BY <1>7, <1>9
  <2>2. ASSUME NEW i \in L PROVE i \in 1..n
    <3>1. i \in 1..Len(log) /\ n >= i
      BY <1>7, <1>8
    <3>. QED
      BY <3>1, <1>9, <1>1
  <2>. QED
    BY <2>1, <2>2
<1>11. \A i \in 1..n : Active(log, i) \in Days /\ (Stamped(log, i) => Active(log, i) = log[i].day)
  <2>. HIDE DEF n
  <2>. SUFFICES ASSUME NEW i \in 1..n
                PROVE  Active(log, i) \in Days /\ (Stamped(log, i) => Active(log, i) = log[i].day)
    OBVIOUS
  <2>. DEFINE T == {j \in 1..i : Stamped(log, j)}
  <2>1. i \in Nat /\ i \in 1..Len(log) /\ T \subseteq 0..i /\ 1 \in T
    BY <1>5, <1>9, <1>1
  <2>2. Max(T) \in T /\ \A y \in T : Max(T) >= y
    <3>. HIDE DEF T
    <3>. QED
      BY <2>1, GreatestOf
  <2>3. Active(log, i) = log[Max(T)].day
    BY DEF Active
  <2>4. Max(T) \in 1..i /\ Stamped(log, Max(T))
    BY <2>2
  <2>5. log[Max(T)].day \in Days
    <3>. HIDE DEF T
    <3>. QED
      BY <2>4, <1>3, <2>1, <1>1 DEF Stamped, Days
  <2>6. Stamped(log, i) => Max(T) = i
    <3>1. Stamped(log, i) => i \in T
      BY <2>1
    <3>. HIDE DEF T
    <3>. QED
      BY <3>1, <2>2, <2>4, <2>1
  <2>. QED
    BY <2>3, <2>5, <2>6
<1>12. n < Len(log) => Stamped(log, n + 1) /\ log[n + 1].day >= time
  <2>. HIDE DEF L, n
  <2>. SUFFICES ASSUME n < Len(log) PROVE Stamped(log, n + 1) /\ log[n + 1].day >= time
    OBVIOUS
  <2>1. n + 1 \in 1..Len(log) /\ n + 1 \notin L
    BY <1>9, <1>10, <1>1
  <2>2. ~Leaves(log, time, n + 1) /\ Leaves(log, time, n)
    BY <2>1, <1>9, <1>1 DEF L, Leaving
  <2>3. PICK j \in 1..(n + 1) : Stamped(log, j) /\ ~(log[j].day < time)
    BY <2>2 DEF Leaves
  <2>4. j \notin 1..n
    BY <2>2, <2>3 DEF Leaves
  <2>5. j = n + 1
    BY <2>3, <2>4, <1>9
  <2>. QED
    BY <2>3, <2>5, <2>1, <1>3, <1>1
<1>13. Split(log, time).rest = SubSeq(log, n + 1, Len(log))
  BY DEF Split, Leaving
<1>. HIDE DEF L, n
<1>. QED
  BY <1>9, <1>10, <1>11, <1>12, <1>13 DEF L

(* No piece of a log is lost by a split, and none is doubled.               *)
BlockOf(log, time, d) == {i \in Leaving(log, time) : Active(log, i) = d}

LEMMA SplitTyped ==
  ASSUME NEW log \in Seq(Piece), NEW time \in Days, Rotates(log, time)
  PROVE  /\ Split(log, time).blocks \in [Days -> Seq(Piece)]
         /\ Split(log, time).rest \in Seq(Piece)
         /\ \A d \in Days : /\ Split(log, time).blocks[d] = Pieces(log, BlockOf(log, time, d))
                            /\ BlockOf(log, time, d) \subseteq DOMAIN log
<1>1. \A d \in Days : BlockOf(log, time, d) \subseteq DOMAIN log
  BY DEF BlockOf, Leaving
<1>2. Split(log, time).blocks = [d \in Days |-> Pieces(log, BlockOf(log, time, d))]
  BY DEF Split, BlockOf, Leaving
<1>3. \A d \in Days : Pieces(log, BlockOf(log, time, d)) \in Seq(Piece)
  BY <1>1, PiecesPick
<1>4. PICK n \in 1..Len(log) : Split(log, time).rest = SubSeq(log, n + 1, Len(log))
  BY SplitOf
<1>5. Split(log, time).rest \in Seq(Piece)
  BY <1>4, SubSeqProperties, ElementOfSeq
<1>. QED
  BY <1>1, <1>2, <1>3, <1>5

LEMMA SplitKeeps ==
  ASSUME NEW log \in Seq(Piece), NEW time \in Days, Rotates(log, time)
  PROVE  LineIDs(log) \subseteq
           LineIDs(Split(log, time).rest) \union InBlocks(Split(log, time).blocks)
<1>. SUFFICES ASSUME NEW l \in LineIDs(log)
              PROVE  l \in LineIDs(Split(log, time).rest) \union InBlocks(Split(log, time).blocks)
  OBVIOUS
<1>1. l # 0
  BY DEF LineIDs
<1>2. PICK i \in DOMAIN log : log[i].line = l
  BY DEF LineIDs
<1>3. PICK n \in 1..Len(log) :
        /\ Leaving(log, time) = 1..n
        /\ Split(log, time).rest = SubSeq(log, n + 1, Len(log))
        /\ \A k \in 1..n : Active(log, k) \in Days
  BY SplitOf
<1>4. DOMAIN log = 1..Len(log) /\ Len(log) \in Nat /\ i \in Nat
  OBVIOUS
<1>5. CASE i \in 1..n
  <2>1. PICK d \in Days : Active(log, i) = d
    BY <1>3, <1>5
  <2>2. i \in BlockOf(log, time, d)
    BY <1>3, <1>5, <2>1 DEF BlockOf
  <2>. DEFINE B == Pieces(log, BlockOf(log, time, d))
  <2>3. Split(log, time).blocks[d] = B /\ BlockOf(log, time, d) \subseteq DOMAIN log
    BY SplitTyped
  <2>4. PICK m \in DOMAIN B : B[m] = log[i]
    <3>1. PICK p \in [DOMAIN B -> BlockOf(log, time, d)] :
            /\ \A m \in DOMAIN B : B[m] = log[p[m]]
            /\ \A k \in BlockOf(log, time, d) : \E m \in DOMAIN B : p[m] = k
      BY <2>3, PiecesPick
    <3>. HIDE DEF B
    <3>. QED
      BY <3>1, <2>2
  <2>5. l \in LineIDs(B)
    <3>. HIDE DEF B
    <3>. QED
      BY <1>1, <1>2, <2>4 DEF LineIDs
  <2>. QED
    BY <2>3, <2>5 DEF InBlocks
<1>6. CASE i \notin 1..n
  <2>1. i \in (n + 1)..Len(log)
    BY <1>4, <1>6
  <2>2. n + 1 \in Int /\ Len(log) \in Int /\ \A k \in (n + 1)..Len(log) : log[k] \in Piece
    BY <1>4, ElementOfSeq
  <2>3. PICK s : s = SubSeq(log, n + 1, Len(log))
    OBVIOUS
  <2>4. /\ s \in Seq(Piece)
        /\ Len(s) = IF n + 1 <= Len(log) THEN Len(log) - (n + 1) + 1 ELSE 0
        /\ \A k \in 1..(Len(log) - (n + 1) + 1) : s[k] = log[(n + 1) + k - 1]
    BY <2>2, <2>3, SubSeqProperties
  <2>5. i - n \in 1..(Len(log) - (n + 1) + 1) /\ (n + 1) + (i - n) - 1 = i
    BY <2>1, <1>4
  <2>6. s[i - n] = log[i]
    BY <2>4, <2>5
  <2>7. i - n \in DOMAIN s
    <3>1. DOMAIN s = 1..Len(s)
      BY <2>4, LenProperties
    <3>2. n + 1 <= Len(log)
      BY <2>1, <1>4
    <3>. QED
      BY <3>1, <3>2, <2>4, <2>5
  <2>. QED
    BY <2>3, <2>6, <2>7, <1>1, <1>2, <1>3 DEF LineIDs
<1>. QED
  BY <1>5, <1>6

-------------------------------------------------------------------------------
(* Well formed, for any number of writers.                                  *)

LEMMA NilIsNothing == Nil \notin Inodes /\ Nil \notin Nat /\ \A i \in Inodes : i # Nil
BY LogAssumption DEF Inodes

LEMMA Become_ ==
  ASSUME NEW w \in Writers, NEW s \in WriterState, writer \in [Writers -> WriterState],
         Become(w, s)
  PROVE  /\ writer' \in [Writers -> WriterState]
         /\ writer'[w] = s
         /\ \A v \in Writers \ {w} : writer'[v] = writer[v]
BY DEF Become

LEMMA ClosedTyped ==
  /\ Closed \in WriterState /\ Closed.pc = "closed" /\ Closed.file = Nil
  /\ Closed.done = <<>> /\ Closed.piece = Nil
<1>1. NoBlocks \in [Days -> Seq(Piece)]
  BY DEF NoBlocks
<1>2. MaxDay \in Nat
  BY LogAssumption
<1>. QED
  BY <1>1, <1>2 DEF Closed, WriterState, WriterLabels

LEMMA NotFollowingTyped ==
  NotFollowing \in FollowerState /\ NotFollowing.inode = Nil /\ NotFollowing.pc = "off"
BY DEF NotFollowing, FollowerState

(* What a daemon that did not rotate left has complete lines, two of them   *)
(* with a number.                                                           *)
LEMMA OldLogs ==
  ASSUME NEW log \in {Old, Legacy, Ahead}
  PROVE  /\ log \in Seq(Piece)
         /\ \A j \in DOMAIN log : log[j].ends
         /\ \E i, k \in DOMAIN log :
              /\ log[i].line = 1 /\ log[k].line = 2
              /\ \A j \in DOMAIN log \ {i, k} : log[j].line = 0
<1>1. PICK n, a, b, c, d : /\ n = Newline /\ a = WholeLine(1, 1) /\ b = WholeLine(2, 2)
                           /\ c = WholeLine(1, 2) /\ d = WholeLine(2, 1)
  OBVIOUS
<1>2. /\ n \in Piece /\ a \in Piece /\ b \in Piece /\ c \in Piece /\ d \in Piece
      /\ n.ends /\ a.ends /\ b.ends /\ c.ends /\ d.ends
      /\ n.line = 0 /\ a.line = 1 /\ b.line = 2 /\ c.line = 1 /\ d.line = 2
  BY <1>1, LogAssumption DEF Newline, WholeLine, Piece
<1>3. Old = <<a, n, b>> /\ Ahead = <<c, d>>
  BY <1>1 DEF Old, Ahead
<1>4. Legacy = <<n, a, n, b>>
  <2>1. PICK one, old, more : one = <<n>> /\ old = <<a, n, b>> /\ more = one \o old
    OBVIOUS
  <2>2. one \in Seq(Piece) /\ old \in Seq(Piece) /\ Len(one) = 1 /\ Len(old) = 3
    BY <1>2, <2>1
  <2>3. /\ more \in Seq(Piece) /\ Len(more) = 4
        /\ \A i \in 1..4 : more[i] = IF i <= 1 THEN one[i] ELSE old[i - 1]
    BY <2>1, <2>2, ConcatProperties
  <2>4. more[1] = n /\ more[2] = a /\ more[3] = n /\ more[4] = b
    BY <2>1, <2>3
  <2>5. PICK four : four = <<n, a, n, b>>
    OBVIOUS
  <2>6. /\ four \in Seq(Piece) /\ Len(four) = 4
        /\ four[1] = n /\ four[2] = a /\ four[3] = n /\ four[4] = b
    BY <1>2, <2>5
  <2>7. \A i \in 1..4 : i = 1 \/ i = 2 \/ i = 3 \/ i = 4
    OBVIOUS
  <2>8. \A i \in 1..4 : more[i] = four[i]
    BY <2>4, <2>6, <2>7
  <2>9. more = four
    BY <2>3, <2>6, <2>8, SeqEqual
  <2>. QED
    BY <1>1, <1>3, <2>1, <2>5, <2>9 DEF Legacy
<1>5. CASE log = Old
  <2>1. DOMAIN log = 1..3 /\ log[1] = a /\ log[2] = n /\ log[3] = b /\ log \in Seq(Piece)
    BY <1>2, <1>3, <1>5
  <2>2. \A j \in DOMAIN log : j = 1 \/ j = 2 \/ j = 3
    BY <2>1
  <2>. QED
    BY <1>2, <2>1, <2>2
<1>6. CASE log = Legacy
  <2>1. /\ DOMAIN log = 1..4 /\ log[1] = n /\ log[2] = a /\ log[3] = n /\ log[4] = b
        /\ log \in Seq(Piece)
    BY <1>2, <1>4, <1>6
  <2>2. \A j \in DOMAIN log : j = 1 \/ j = 2 \/ j = 3 \/ j = 4
    BY <2>1
  <2>. QED
    BY <1>2, <2>1, <2>2
<1>7. CASE log = Ahead
  <2>1. DOMAIN log = 1..2 /\ log[1] = c /\ log[2] = d /\ log \in Seq(Piece)
    BY <1>2, <1>3, <1>7
  <2>2. \A j \in DOMAIN log : j = 1 \/ j = 2
    BY <2>1
  <2>. QED
    BY <1>2, <2>1, <2>2
<1>. QED
  BY <1>5, <1>6, <1>7

LEMMA LogInit_ == LogInit => LogInv
<1>. SUFFICES ASSUME LogInit PROVE LogInv
  OBVIOUS
<1>. USE LogAssumption
<1>2. NoBlocks \in [Days -> Seq(Piece)]
  BY DEF NoBlocks
<1>3. /\ today \in Days /\ nextLine \in 1..(MaxLine + 1) /\ nextInode \in 1..(MaxInode + 1)
      /\ current \in Inodes \union {Nil} /\ inode \in [Inodes -> Seq(Piece)]
      /\ written \in SUBSET Nat
  <2>1. CASE /\ today = 1 /\ inode = [i \in Inodes |-> <<>>]
             /\ current = Nil /\ nextInode = 1 /\ nextLine = 1 /\ written = {}
    BY <2>1 DEF Days
  <2>2. CASE /\ \E log \in {Old, Legacy, Ahead} :
                  /\ inode = [i \in Inodes |-> IF i = 1 THEN log ELSE <<>>]
                  /\ today = IF log = Ahead THEN 1 ELSE MaxDay
             /\ current = 1 /\ nextInode = 2 /\ nextLine = 3 /\ written = {1, 2}
    <3>1. PICK log \in {Old, Legacy, Ahead} :
                 /\ inode = [i \in Inodes |-> IF i = 1 THEN log ELSE <<>>]
                 /\ today \in {1, MaxDay}
      BY <2>2
    <3>2. log \in Seq(Piece)
      BY OldLogs
    <3>3. inode \in [Inodes -> Seq(Piece)] /\ today \in Days
      BY <3>1, <3>2 DEF Days
    <3>. QED
      BY <2>2, <3>3 DEF Inodes
  <2>. QED
    BY <2>1, <2>2 DEF LogInit
<1>4. writer \in [Writers -> WriterState] /\ follower \in FollowerState
  BY ClosedTyped, NotFollowingTyped DEF LogInit
<1>5. LogTyped
  BY <1>2, <1>3, <1>4 DEF LogInit, LogTyped
<1>6. InodesAreFresh
  <2>1. current # Nil => current < nextInode
    BY NilIsNothing DEF LogInit
  <2>2. \A i \in Inodes : i >= nextInode => inode[i] = <<>>
    BY DEF LogInit, Inodes
  <2>. QED
    BY <2>1, <2>2, NotFollowingTyped DEF InodesAreFresh, LogInit
<1>7. \A w \in Writers : WriterHolds(writer[w])
  BY ClosedTyped DEF LogInit, WriterHolds
<1>. QED
  BY <1>5, <1>6, <1>7 DEF LogInv

(* A step of a writer that leaves files and follower alone.                 *)
LEMMA WriterMoves ==
  ASSUME LogInv, NEW w \in Writers, NEW s \in WriterState, Become(w, s), WriterHolds(s),
         UNCHANGED disk, UNCHANGED <<today, follower, torn>>,
         nextLine' \in 1..(MaxLine + 1), written' = written
  PROVE  LogInv'
<1>1. /\ writer' \in [Writers -> WriterState] /\ writer'[w] = s
      /\ \A v \in Writers \ {w} : writer'[v] = writer[v]
  BY Become_ DEF LogInv, LogTyped
<1>2. LogTyped'
  BY <1>1 DEF LogInv, LogTyped, disk
<1>3. InodesAreFresh'
  BY DEF LogInv, InodesAreFresh, disk
<1>4. nextInode' = nextInode
  BY DEF disk
<1>5. ASSUME NEW v \in Writers PROVE WriterHolds(writer[v])'
  <2>1. writer'[v] = s \/ writer'[v] = writer[v]
    BY <1>1
  <2>2. PICK t : t = writer'[v] /\ WriterHolds(t)
    BY <2>1 DEF LogInv
  <2>. QED
    BY <1>4, <2>2 DEF WriterHolds
<1>. QED
  BY <1>2, <1>3, <1>5 DEF LogInv

LEMMA FailsHolds == WriterHolds(Closed)
BY ClosedTyped DEF WriterHolds

(* A step of a writer that changes the files it has open or makes one.      *)
LEMMA WriterWrites ==
  ASSUME LogInv, NEW w \in Writers, NEW s \in WriterState, Become(w, s),
         current' \in Inodes \union {Nil}, nextInode' \in 1..(MaxInode + 1),
         nextInode' >= nextInode, inode' \in [Inodes -> Seq(Piece)],
         archive' \in [Days -> Seq(Piece)], written' \in SUBSET Nat,
         UNCHANGED <<today, gone, nextLine, follower>>, torn' \in BOOLEAN,
         current' # Nil => current' < nextInode',
         \A i \in Inodes : i >= nextInode' => inode'[i] = inode[i],
         WriterHolds(s)', s.file # Nil => s.file < nextInode'
  PROVE  LogInv'
<1>1. /\ writer' \in [Writers -> WriterState] /\ writer'[w] = s
      /\ \A v \in Writers \ {w} : writer'[v] = writer[v]
  BY Become_ DEF LogInv, LogTyped
<1>2. LogTyped'
  BY <1>1 DEF LogInv, LogTyped
<1>3. nextInode \in Nat /\ nextInode' \in Nat /\ Inodes \subseteq Nat
  BY LogAssumption DEF LogInv, LogTyped, Inodes
<1>4. gone.inodes \subseteq Nat /\ (follower.inode # Nil => follower.inode \in Nat)
  BY <1>3 DEF LogInv, LogTyped, FollowerState
<1>5. InodesAreFresh'
  <2>1. \A i \in gone'.inodes : i < nextInode'
    BY <1>3, <1>4 DEF LogInv, InodesAreFresh
  <2>2. follower'.inode # Nil => follower'.inode < nextInode'
    BY <1>3, <1>4 DEF LogInv, InodesAreFresh
  <2>3. \A i \in Inodes : i >= nextInode' => inode'[i] = <<>>
    BY <1>3 DEF LogInv, InodesAreFresh
  <2>. QED
    BY <2>1, <2>2, <2>3 DEF InodesAreFresh
<1>6. ASSUME NEW v \in Writers PROVE WriterHolds(writer[v])'
  <2>1. CASE v = w
    BY <2>1, <1>1 DEF WriterHolds
  <2>2. CASE v # w
    <3>1. writer'[v] = writer[v]
      BY <2>2, <1>1
    <3>2. PICK t : t = writer[v]
      OBVIOUS
    <3>3. WriterHolds(t) /\ t \in WriterState
      BY <3>2 DEF LogInv, LogTyped
    <3>4. t.file # Nil => t.file \in Nat
      BY <3>3, <1>3 DEF WriterState
    <3>5. t = writer'[v]
      BY <3>1, <3>2
    <3>6. t.file # Nil => t.file < nextInode'
      BY <3>3, <3>4, <1>3 DEF WriterHolds
    <3>. QED
      BY <3>3, <3>5, <3>6 DEF WriterHolds
  <2>. QED
    BY <2>1, <2>2
<1>. QED
  BY <1>2, <1>5, <1>6 DEF LogInv

LEMMA Me ==
  ASSUME LogInv, NEW w \in Writers
  PROVE  writer[w] \in WriterState /\ WriterHolds(writer[w])
BY DEF LogInv, LogTyped

LEMMA Failing ==
  ASSUME LogInv, NEW w \in Writers, Fails(w), UNCHANGED disk,
         UNCHANGED <<today, follower, torn, nextLine, written>>
  PROVE  LogInv'
<1>1. Become(w, Closed) /\ nextLine' \in 1..(MaxLine + 1)
  BY DEF Fails, LogInv, LogTyped
<1>2. PICK s : s = Closed
  OBVIOUS
<1>. QED
  BY <1>1, <1>2, ClosedTyped, FailsHolds, WriterMoves

LEMMA Open_ ==
  ASSUME LogInv, NEW w \in Writers, Open(w)
  PROVE  LogInv'
<1>1. PICK s : s = [Closed EXCEPT !.pc = "rotate", !.time = today]
  OBVIOUS
<1>2. today \in Days /\ today \in 0..MaxDay
  BY LogAssumption DEF LogInv, LogTyped, Days
<1>3. s \in WriterState /\ WriterHolds(s)
  BY <1>1, <1>2, ClosedTyped DEF WriterState, WriterHolds, WriterLabels
<1>4. Become(w, s) /\ nextLine' \in 1..(MaxLine + 1)
  BY <1>1 DEF Open, LogInv, LogTyped
<1>. QED
  BY <1>3, <1>4, WriterMoves DEF Open, rest

LEMMA Close_ ==
  ASSUME LogInv, NEW w \in Writers, Close(w)
  PROVE  LogInv'
<1>1. PICK s : s = Closed
  OBVIOUS
<1>2. Become(w, s) /\ nextLine' \in 1..(MaxLine + 1)
  BY <1>1 DEF Close, LogInv, LogTyped
<1>. QED
  BY <1>1, <1>2, ClosedTyped, FailsHolds, WriterMoves DEF Close, rest

LEMMA WriteHead_ ==
  ASSUME LogInv, NEW w \in Writers, WriteHead(w)
  PROVE  LogInv'
<1>. DEFINE me == writer[w]
<1>1. me \in WriterState /\ WriterHolds(me) /\ me.pc = "ready"
  BY Me DEF WriteHead
<1>2. PICK ends \in BOOLEAN :
        LET piece == [line |-> nextLine, day |-> today, ends |-> ends]
            state == [me EXCEPT !.time = today, !.piece = piece]
        IN  IF today # me.day
            THEN Become(w, [state EXCEPT !.pc = "rotate", !.file = Nil])
            ELSE IF current # me.file
              THEN Become(w, [state EXCEPT !.pc = "reopen", !.file = Nil])
            ELSE Become(w, [state EXCEPT !.pc = "append"])
  BY DEF WriteHead
<1>3. PICK piece : piece = [line |-> nextLine, day |-> today, ends |-> ends]
  OBVIOUS
<1>4. PICK s :
        /\ Become(w, s)
        /\ \/ s = [me EXCEPT !.time = today, !.piece = piece, !.pc = "rotate", !.file = Nil]
           \/ s = [me EXCEPT !.time = today, !.piece = piece, !.pc = "reopen", !.file = Nil]
           \/ s = [me EXCEPT !.time = today, !.piece = piece, !.pc = "append"]
  BY <1>2, <1>3
<1>5. today \in Days /\ today \in 0..MaxDay /\ nextLine \in 0..MaxLine
      /\ nextLine' \in 1..(MaxLine + 1)
  BY LogAssumption DEF WriteHead, LogInv, LogTyped, Days
<1>6. piece \in Piece
  BY <1>3, <1>5 DEF Piece
<1>7. s \in WriterState
  <2>1. \A pc \in {"rotate", "reopen", "append"} :
          pc \in WriterLabels /\ [me EXCEPT !.time = today, !.piece = piece, !.pc = pc] \in WriterState
    BY <1>1, <1>5, <1>6 DEF WriterState, WriterLabels
  <2>2. \A pc \in {"rotate", "reopen"} :
          [me EXCEPT !.time = today, !.piece = piece, !.pc = pc, !.file = Nil] \in WriterState
    BY <1>1, <1>5, <1>6 DEF WriterState, WriterLabels
  <2>. QED
    BY <1>4, <2>1, <2>2
<1>8. WriterHolds(s)
  BY <1>1, <1>4, <1>5, <1>6 DEF WriterState, WriterHolds
<1>. QED
  BY <1>4, <1>5, <1>7, <1>8, WriterMoves DEF WriteHead, rest

(* What a file that somebody has open holds, with something behind it.      *)
LEMMA Extended ==
  ASSUME LogInv, NEW i \in Inodes, NEW pieces \in Seq(Piece), Extend(i, pieces)
  PROVE  /\ inode' \in [Inodes -> Seq(Piece)]
         /\ inode'[i] = inode[i] \o pieces
         /\ \A j \in Inodes \ {i} : inode'[j] = inode[j]
<1>1. inode \in [Inodes -> Seq(Piece)]
  BY DEF LogInv, LogTyped
<1>2. inode[i] \o pieces \in Seq(Piece)
  BY <1>1, ConcatProperties
<1>. QED
  BY <1>1, <1>2 DEF Extend

(* What a write that fails may leave behind a file.                         *)
LEMMA Fragments ==
  ASSUME NEW w \in Writers, NEW day \in 0..MaxDay, FailsShort(w, day)
  PROVE  Become(w, Closed) /\ \E part \in Seq(Piece) : Extend(writer[w].file, part)
<1>1. Fragment(0) \in Piece /\ Fragment(day) \in Piece
  BY LogAssumption DEF Fragment, Piece
<1>2. {<<>>, <<Fragment(0)>>, <<Fragment(day)>>} \subseteq Seq(Piece)
  BY <1>1
<1>. QED
  BY <1>2 DEF FailsShort, Fails

LEMMA FailsShort_ ==
  ASSUME LogInv, NEW w \in Writers, NEW day \in 0..MaxDay, FailsShort(w, day),
         writer[w].file \in Inodes, writer[w].file < nextInode,
         UNCHANGED <<current, nextInode, archive, gone>>,
         UNCHANGED <<today, nextLine, written, follower, torn>>
  PROVE  LogInv'
<1>1. PICK part \in Seq(Piece) : Extend(writer[w].file, part)
  BY Fragments
<1>2. PICK s, i : s = Closed /\ i = writer[w].file
  OBVIOUS
<1>3. s \in WriterState /\ WriterHolds(s) /\ s.file = Nil /\ Become(w, s)
  BY <1>2, ClosedTyped, FailsHolds, Fragments
<1>4. inode' \in [Inodes -> Seq(Piece)] /\ \A j \in Inodes \ {i} : inode'[j] = inode[j]
  BY <1>1, <1>2, Extended
<1>5. nextInode \in Nat /\ Inodes \subseteq Nat
  BY LogAssumption DEF LogInv, LogTyped, Inodes
<1>6. \A j \in Inodes : j >= nextInode' => inode'[j] = inode[j]
  BY <1>2, <1>4, <1>5
<1>7. /\ current' \in Inodes \union {Nil} /\ nextInode' \in 1..(MaxInode + 1)
      /\ nextInode' >= nextInode /\ archive' \in [Days -> Seq(Piece)]
      /\ written' \in SUBSET Nat /\ (current' # Nil => current' < nextInode')
      /\ torn' \in BOOLEAN
  BY <1>5 DEF LogInv, LogTyped, InodesAreFresh
<1>8. WriterHolds(s)'
  BY <1>3 DEF WriterHolds
<1>. QED
  BY <1>3, <1>4, <1>6, <1>7, <1>8, WriterWrites

LEMMA WriteRest_ ==
  ASSUME LogInv, NEW w \in Writers, WriteRest(w)
  PROVE  LogInv'
<1>. DEFINE me == writer[w]
<1>1. me \in WriterState /\ WriterHolds(me) /\ me.pc = "ready"
  BY Me DEF WriteRest
<1>2. me.file \in Inodes /\ me.file < nextInode
  BY <1>1 DEF WriterHolds, WriterState
<1>3. CASE FailsShort(w, 0)
  <2>1. 0 \in 0..MaxDay
    BY LogAssumption
  <2>. QED
    BY <1>2, <1>3, <2>1, FailsShort_ DEF WriteRest, rest
<1>4. CASE /\ Extend(me.file, <<[line |-> nextLine - 1, day |-> 0, ends |-> TRUE]>>)
           /\ Become(w, [me EXCEPT !.bol = TRUE])
  <2>1. [line |-> nextLine - 1, day |-> 0, ends |-> TRUE] \in Piece
    BY LogAssumption DEF LogInv, LogTyped, Piece
  <2>2. PICK more : more = <<[line |-> nextLine - 1, day |-> 0, ends |-> TRUE]>>
    OBVIOUS
  <2>3. more \in Seq(Piece)
    BY <2>1, <2>2
  <2>4. PICK f : f = me.file
    OBVIOUS
  <2>5. /\ inode' \in [Inodes -> Seq(Piece)]
        /\ \A j \in Inodes \ {f} : inode'[j] = inode[j]
    BY <1>2, <1>4, <2>2, <2>3, <2>4, Extended
  <2>6. PICK s : s = [me EXCEPT !.bol = TRUE]
    OBVIOUS
  <2>7. s \in WriterState /\ s.file = f
    BY <1>1, <2>4, <2>6 DEF WriterState
  <2>8. nextInode' = nextInode /\ archive' = archive /\ written' = written
        /\ current' = current
    BY DEF WriteRest
  <2>9. WriterHolds(s)'
    BY <1>1, <2>6, <2>8 DEF WriterState, WriterHolds
  <2>10. nextInode \in Nat /\ Inodes \subseteq Nat
    BY LogAssumption DEF LogInv, LogTyped, Inodes
  <2>11. \A i \in Inodes : i >= nextInode' => inode'[i] = inode[i]
    BY <2>5, <2>8, <2>10, <1>2, <2>4
  <2>12. /\ current' \in Inodes \union {Nil} /\ nextInode' \in 1..(MaxInode + 1)
         /\ nextInode' >= nextInode /\ archive' \in [Days -> Seq(Piece)]
         /\ written' \in SUBSET Nat /\ (current' # Nil => current' < nextInode')
         /\ torn' \in BOOLEAN
    BY <2>8, <2>10 DEF LogInv, LogTyped, InodesAreFresh, WriteRest, rest
  <2>13. Become(w, s) /\ (s.file # Nil => s.file < nextInode')
    BY <1>2, <1>4, <2>6, <2>4, <2>7, <2>8
  <2>. QED
    BY <2>5, <2>7, <2>9, <2>11, <2>12, <2>13, WriterWrites DEF WriteRest, rest
<1>. QED
  BY <1>3, <1>4 DEF WriteRest

LEMMA AppendLine_ ==
  ASSUME LogInv, NEW w \in Writers, AppendLine(w)
  PROVE  LogInv'
<1>. DEFINE me == writer[w]
<1>1. me \in WriterState /\ WriterHolds(me) /\ me.pc = "append"
  BY Me DEF AppendLine
<1>2. me.file \in Inodes /\ me.file < nextInode /\ me.piece \in Piece
  BY <1>1 DEF WriterHolds, WriterState
<1>3. CASE FailsShort(w, me.piece.day) /\ UNCHANGED written
  <2>1. me.piece.day \in 0..MaxDay
    BY <1>2 DEF Piece
  <2>. QED
    BY <1>2, <1>3, <2>1, FailsShort_ DEF AppendLine, rest
<1>4. CASE /\ Extend(me.file, <<me.piece>>)
           /\ written' = written \union {me.piece.line}
           /\ Become(w, [me EXCEPT !.pc = "ready", !.bol = me.piece.ends, !.piece = Nil])
  <2>1. me.piece.line \in Nat /\ me.piece.ends \in BOOLEAN
    BY <1>2, LogAssumption DEF Piece
  <2>2. PICK more : more = <<me.piece>>
    OBVIOUS
  <2>3. more \in Seq(Piece)
    BY <1>2, <2>2
  <2>4. PICK f : f = me.file
    OBVIOUS
  <2>5. /\ inode' \in [Inodes -> Seq(Piece)]
        /\ \A j \in Inodes \ {f} : inode'[j] = inode[j]
    BY <1>2, <1>4, <2>2, <2>3, <2>4, Extended
  <2>6. PICK s : s = [me EXCEPT !.pc = "ready", !.bol = me.piece.ends, !.piece = Nil]
    OBVIOUS
  <2>7. s \in WriterState /\ s.file = f
    BY <1>1, <2>1, <2>4, <2>6 DEF WriterState, WriterLabels
  <2>8. nextInode' = nextInode /\ archive' = archive /\ current' = current
    BY DEF AppendLine
  <2>9. WriterHolds(s)'
    BY <1>1, <2>6, <2>8 DEF WriterState, WriterHolds
  <2>10. nextInode \in Nat /\ Inodes \subseteq Nat
    BY LogAssumption DEF LogInv, LogTyped, Inodes
  <2>11. \A i \in Inodes : i >= nextInode' => inode'[i] = inode[i]
    BY <2>5, <2>8, <2>10, <1>2, <2>4
  <2>12. /\ current' \in Inodes \union {Nil} /\ nextInode' \in 1..(MaxInode + 1)
         /\ nextInode' >= nextInode /\ archive' \in [Days -> Seq(Piece)]
         /\ (current' # Nil => current' < nextInode') /\ torn' \in BOOLEAN
    BY <2>8, <2>10 DEF LogInv, LogTyped, InodesAreFresh, AppendLine, rest
  <2>13. Become(w, s) /\ (s.file # Nil => s.file < nextInode') /\ written' \in SUBSET Nat
    BY <1>2, <1>4, <2>1, <2>6, <2>4, <2>7, <2>8 DEF LogInv, LogTyped
  <2>. QED
    BY <2>5, <2>7, <2>9, <2>11, <2>12, <2>13, WriterWrites DEF AppendLine, rest
<1>. QED
  BY <1>3, <1>4 DEF AppendLine

LEMMA ContentsTyped ==
  ASSUME LogInv
  PROVE  Contents \in Seq(Piece) /\ (current # Nil => Contents = inode[current])
BY NilIsNothing DEF LogInv, LogTyped, Contents

LEMMA Stage_ ==
  ASSUME LogInv, NEW w \in Writers, Stage(w)
  PROVE  LogInv'
<1>. DEFINE me == writer[w]
            split == Split(Contents, me.time)
<1>1. me \in WriterState /\ WriterHolds(me) /\ me.pc = "rotate" /\ me.time \in Days
  BY Me DEF Stage, WriterHolds
<1>2. UNCHANGED disk /\ UNCHANGED <<today, follower, torn>> /\ written' = written
      /\ nextLine' \in 1..(MaxLine + 1) /\ nextLine' = nextLine
  BY DEF Stage, rest, LogInv, LogTyped
<1>3. CASE Fails(w)
  BY <1>2, <1>3, Failing
<1>4. CASE Become(w, [me EXCEPT !.pc = "reopen"])
  <2>1. PICK s : s = [me EXCEPT !.pc = "reopen"]
    OBVIOUS
  <2>2. s \in WriterState /\ WriterHolds(s)
    BY <1>1, <2>1 DEF WriterState, WriterHolds, WriterLabels
  <2>. QED
    BY <1>2, <1>4, <2>1, <2>2, WriterMoves
<1>5. CASE /\ Rotates(Contents, me.time)
           /\ Become(w, [me EXCEPT !.pc = "commit", !.blocks = split.blocks,
                                   !.stays = split.rest])
  <2>1. PICK s : s = [me EXCEPT !.pc = "commit", !.blocks = split.blocks, !.stays = split.rest]
    OBVIOUS
  <2>2. PICK log, time : log = Contents /\ time = me.time
    OBVIOUS
  <2>3. log \in Seq(Piece) /\ time \in Days /\ Rotates(log, time)
    BY <2>2, <1>1, <1>5, ContentsTyped
  <2>4. Split(log, time).blocks \in [Days -> Seq(Piece)] /\ Split(log, time).rest \in Seq(Piece)
    BY <2>3, SplitTyped
  <2>5. split = Split(log, time)
    BY <2>2
  <2>6. split.blocks \in [Days -> Seq(Piece)] /\ split.rest \in Seq(Piece)
    BY <2>4, <2>5
  <2>7. s \in WriterState /\ WriterHolds(s)
    <3>. HIDE DEF split
    <3>. QED
      BY <1>1, <2>1, <2>6 DEF WriterState, WriterHolds, WriterLabels
  <2>. QED
    BY <1>2, <1>5, <2>1, <2>7, WriterMoves
<1>. QED
  BY <1>3, <1>4, <1>5 DEF Stage

(* What the roll-back leaves is the front of an archive.                    *)
LEMMA RolledBackIsFront ==
  ASSUME LogInv, NEW w \in Writers, NEW d \in Days
  PROVE  \E n \in 0..Len(archive[d]) :
           /\ RolledBack(w, d) = SubSeq(archive[d], 1, n)
           /\ \A i \in DOMAIN writer[w].done : writer[w].done[i].day = d => n <= writer[w].done[i].size
           /\ \/ n = Len(archive[d])
              \/ \E i \in DOMAIN writer[w].done :
                   writer[w].done[i].day = d /\ n = writer[w].done[i].size
<1>. DEFINE done == writer[w].done
            sizes == {done[i].size : i \in {i \in DOMAIN done : done[i].day = d}}
            T == {Len(archive[d])} \union sizes
<1>1. archive[d] \in Seq(Piece) /\ Len(archive[d]) \in Nat /\ done \in Seq(Entries)
  BY Me DEF LogInv, LogTyped, WriterState
<1>2. \A i \in DOMAIN done : done[i] \in Entries
  BY <1>1, ElementOfSeq
<1>3. T \subseteq Nat /\ T # {} /\ Len(archive[d]) \in T
  BY <1>1, <1>2 DEF Entries
<1>4. Min(T) \in T /\ \A y \in T : Min(T) <= y
  <2>. HIDE DEF T
  <2>. QED
    BY <1>3, LeastOf
<1>5. RolledBack(w, d) = SubSeq(archive[d], 1, Min(T))
  BY DEF RolledBack
<1>6. PICK n : n = Min(T)
  OBVIOUS
<1>7. n \in 0..Len(archive[d])
  <2>. HIDE DEF T
  <2>1. n \in Nat
    BY <1>3, <1>4, <1>6
  <2>2. n <= Len(archive[d])
    BY <1>3, <1>4, <1>6
  <2>. QED
    BY <1>1, <2>1, <2>2
<1>8. \A i \in DOMAIN done : done[i].day = d => n <= done[i].size
  BY <1>4, <1>6
<1>9. n = Len(archive[d]) \/ \E i \in DOMAIN done : done[i].day = d /\ n = done[i].size
  BY <1>4, <1>6
<1>10. RolledBack(w, d) = SubSeq(archive[d], 1, n)
  BY <1>5, <1>6
<1>. HIDE DEF T
<1>. QED
  BY <1>7, <1>8, <1>9, <1>10

LEMMA RolledBackTyped ==
  ASSUME LogInv, NEW w \in Writers, NEW d \in Days
  PROVE  RolledBack(w, d) \in Seq(Piece)
<1>1. PICK n \in 0..Len(archive[d]) : RolledBack(w, d) = SubSeq(archive[d], 1, n)
  BY RolledBackIsFront
<1>2. archive[d] \in Seq(Piece)
  BY DEF LogInv, LogTyped
<1>3. \A i \in 1..n : archive[d][i] \in Piece
  BY <1>2, ElementOfSeq
<1>. QED
  BY <1>1, <1>3, SubSeqProperties

(* Rolling back and committing: archives alone.                             *)
LEMMA ArchivesMove ==
  ASSUME LogInv, NEW w \in Writers, NEW s \in WriterState, Become(w, s), WriterHolds(s),
         archive' \in [Days -> Seq(Piece)],
         UNCHANGED <<inode, current, nextInode, gone>>,
         UNCHANGED <<today, follower, nextLine, written>>, torn' \in BOOLEAN
  PROVE  LogInv'
<1>1. /\ current' \in Inodes \union {Nil} /\ nextInode' \in 1..(MaxInode + 1)
      /\ inode' \in [Inodes -> Seq(Piece)] /\ written' \in SUBSET Nat
      /\ (current' # Nil => current' < nextInode')
      /\ \A i \in Inodes : i >= nextInode' => inode'[i] = inode[i]
  BY DEF LogInv, LogTyped, InodesAreFresh
<1>2. nextInode' >= nextInode
  BY DEF LogInv, LogTyped
<1>3. WriterHolds(s)' /\ (s.file # Nil => s.file < nextInode')
  BY DEF WriterHolds
<1>. QED
  BY <1>1, <1>2, <1>3, WriterWrites

(* Archives as a failed append leaves them.                                 *)
Found(d, block, n) == [archive EXCEPT ![d] = @ \o SubSeq(block, 1, n)]

LEMMA FoundTyped ==
  ASSUME LogInv, NEW d \in Days, NEW block \in Seq(Piece), NEW n \in 0..Len(block)
  PROVE  /\ SubSeq(block, 1, n) \in Seq(Piece)
         /\ Found(d, block, n) \in [Days -> Seq(Piece)]
         /\ Found(d, block, n)[d] = archive[d] \o SubSeq(block, 1, n)
         /\ \A e \in Days \ {d} : Found(d, block, n)[e] = archive[e]
<1>1. archive \in [Days -> Seq(Piece)]
  BY DEF LogInv, LogTyped
<1>2. \A i \in 1..n : block[i] \in Piece
  BY ElementOfSeq
<1>3. SubSeq(block, 1, n) \in Seq(Piece)
  BY <1>2, SubSeqProperties
<1>4. archive[d] \o SubSeq(block, 1, n) \in Seq(Piece)
  BY <1>1, <1>3, ConcatProperties
<1>. QED
  BY <1>1, <1>3, <1>4 DEF Found

LEMMA RollBack_ ==
  ASSUME LogInv, NEW w \in Writers, NEW found \in [Days -> Seq(Piece)], RollBack(w, found),
         UNCHANGED <<inode, current, nextInode, gone>>,
         UNCHANGED <<today, follower, nextLine, written>>
  PROVE  LogInv'
<1>1. PICK s : s = Closed
  OBVIOUS
<1>2. s \in WriterState /\ WriterHolds(s) /\ Become(w, s)
  BY <1>1, ClosedTyped, FailsHolds DEF RollBack, Fails
<1>3. archive' \in [Days -> Seq(Piece)] /\ torn' \in BOOLEAN
  BY RolledBackTyped DEF RollBack
<1>. QED
  BY <1>2, <1>3, ArchivesMove

(* The archive a commit appends to next is one that is staged.              *)
LEMMA NextStaged ==
  ASSUME LogInv, NEW w \in Writers, Staged(writer[w]) # {}
  PROVE  LET d == CHOOSE e \in Staged(writer[w]) : \A f \in Staged(writer[w]) : e <= f
         IN  d \in Days /\ writer[w].blocks[d] # <<>> /\ writer[w].blocks[d] \in Seq(Piece)
<1>. DEFINE T == Staged(writer[w])
<1>1. T \subseteq Days /\ T \subseteq Nat
  BY DEF Staged, Days
<1>2. Min(T) \in T /\ \A y \in T : Min(T) <= y
  <2>. HIDE DEF T
  <2>1. T # {}
    BY DEF T
  <2>. QED
    BY <1>1, <2>1, LeastOf
<1>3. \E e \in T : \A f \in T : e <= f
  <2>. HIDE DEF T
  <2>. QED
    BY <1>2
<1>4. PICK d : d = CHOOSE e \in T : \A f \in T : e <= f
  OBVIOUS
<1>5. d \in T
  <2>. HIDE DEF T
  <2>. QED
    BY <1>3, <1>4
<1>6. d \in Days /\ writer[w].blocks[d] # <<>>
  BY <1>5 DEF Staged
<1>7. writer[w].blocks[d] \in Seq(Piece)
  BY <1>6, Me DEF WriterState
<1>. QED
  BY <1>4, <1>6, <1>7

LEMMA CommitArchive_ ==
  ASSUME LogInv, NEW w \in Writers, CommitArchive(w)
  PROVE  LogInv'
<1>. DEFINE me == writer[w]
<1>1. me \in WriterState /\ WriterHolds(me) /\ me.pc = "commit"
  BY Me DEF CommitArchive
<1>2. PICK d : d = CHOOSE e \in Staged(me) : \A f \in Staged(me) : e <= f
  OBVIOUS
<1>3. d \in Days /\ me.blocks[d] \in Seq(Piece)
  BY <1>2, NextStaged DEF CommitArchive
<1>4. UNCHANGED <<inode, current, nextInode, gone>>
      /\ UNCHANGED <<today, follower, nextLine, written>>
  BY DEF CommitArchive
<1>5. CASE \E n \in 0..Len(me.blocks[d]) : RollBack(w, Found(d, me.blocks[d], n))
  BY <1>3, <1>4, <1>5, FoundTyped, RollBack_
<1>6. CASE /\ archive' = [archive EXCEPT ![d] = @ \o me.blocks[d]]
           /\ Become(w, [me EXCEPT !.blocks[d] = <<>>,
                                   !.done = Append(@, [day |-> d, size |-> Len(archive[d])])])
           /\ UNCHANGED torn
  <2>1. archive \in [Days -> Seq(Piece)] /\ torn' \in BOOLEAN
    BY <1>6 DEF LogInv, LogTyped
  <2>2. archive[d] \o me.blocks[d] \in Seq(Piece)
    BY <2>1, <1>3, ConcatProperties
  <2>3. archive' \in [Days -> Seq(Piece)]
    BY <1>6, <2>1, <2>2
  <2>4. PICK e : e = [day |-> d, size |-> Len(archive[d])]
    OBVIOUS
  <2>5. e \in Entries
    BY <2>1, <2>4, <1>3 DEF Entries
  <2>6. me.done \in Seq(Entries) /\ me.blocks \in [Days -> Seq(Piece)]
    BY <1>1 DEF WriterState
  <2>7. PICK more : more = Append(me.done, e)
    OBVIOUS
  <2>8. more \in Seq(Entries)
    BY <2>5, <2>6, <2>7, AppendProperties
  <2>9. PICK fewer : fewer = [me.blocks EXCEPT ![d] = <<>>]
    OBVIOUS
  <2>10. fewer \in [Days -> Seq(Piece)]
    BY <2>6, <2>9, EmptySeq
  <2>11. PICK s : s = [me EXCEPT !.blocks = fewer, !.done = more]
    OBVIOUS
  <2>12. s \in WriterState /\ WriterHolds(s)
    BY <1>1, <2>8, <2>10, <2>11 DEF WriterState, WriterHolds
  <2>13. Become(w, s)
    BY <1>6, <2>4, <2>7, <2>9, <2>11
  <2>. QED
    BY <1>4, <2>1, <2>3, <2>12, <2>13, ArchivesMove
<1>. QED
  BY <1>2, <1>5, <1>6 DEF CommitArchive, Found

LEMMA Replace_ ==
  ASSUME LogInv, NEW w \in Writers, Replace(w)
  PROVE  LogInv'
<1>. DEFINE me == writer[w]
<1>1. me \in WriterState /\ WriterHolds(me) /\ me.pc = "commit" /\ me.stays \in Seq(Piece)
  BY Me DEF Replace, WriterState
<1>2. UNCHANGED <<gone, today, follower, nextLine, written>>
  BY DEF Replace
<1>3. CASE RollBack(w, archive) /\ UNCHANGED <<inode, current, nextInode>>
  <2>1. archive \in [Days -> Seq(Piece)]
    BY DEF LogInv, LogTyped
  <2>. QED
    BY <1>2, <1>3, <2>1, RollBack_
<1>4. CASE /\ current' = nextInode /\ nextInode' = nextInode + 1
           /\ inode' = [inode EXCEPT ![nextInode] = me.stays]
           /\ Become(w, [me EXCEPT !.pc = "reopen", !.stays = <<>>, !.done = <<>>])
           /\ UNCHANGED <<archive, torn>>
  <2>1. nextInode \in Inodes /\ Inodes \subseteq Nat /\ MaxInode \in Nat
    BY LogAssumption DEF Replace, Inodes
  <2>2. inode \in [Inodes -> Seq(Piece)] /\ archive \in [Days -> Seq(Piece)]
        /\ written \in SUBSET Nat /\ torn' \in BOOLEAN
    BY <1>4 DEF LogInv, LogTyped
  <2>3. inode' \in [Inodes -> Seq(Piece)]
        /\ \A i \in Inodes : i >= nextInode' => inode'[i] = inode[i]
    BY <1>1, <1>4, <2>1, <2>2
  <2>4. PICK s : s = [me EXCEPT !.pc = "reopen", !.stays = <<>>, !.done = <<>>]
    OBVIOUS
  <2>5. s \in WriterState /\ s.file = me.file /\ s.pc = "reopen" /\ s.time = me.time
        /\ s.done = <<>>
    BY <1>1, <2>4, EmptySeq DEF WriterState, WriterLabels
  <2>6. s.file # Nil => s.file \in Nat /\ s.file < nextInode
    BY <1>1, <2>1, <2>5 DEF WriterHolds, WriterState
  <2>7. s.file # Nil => s.file < nextInode'
    BY <1>4, <2>1, <2>6
  <2>8. WriterHolds(s)'
    BY <1>1, <2>5, <2>7 DEF WriterHolds
  <2>9. nextInode' \in 1..(MaxInode + 1) /\ nextInode' >= nextInode /\ current' < nextInode'
        /\ current' \in Inodes \union {Nil}
    BY <1>4, <2>1 DEF Inodes
  <2>. QED
    BY <1>2, <1>4, <2>2, <2>3, <2>4, <2>5, <2>7, <2>8, <2>9, WriterWrites
<1>. QED
  BY <1>3, <1>4 DEF Replace

LEMMA BoundaryTyped == \A log \in Seq(Piece) : Boundary(log) \in Seq(Piece)
<1>1. Newline \in Piece
  BY LogAssumption DEF Newline, Piece
<1>. QED
  BY <1>1 DEF Boundary

LEMMA Reopen_ ==
  ASSUME LogInv, NEW w \in Writers, Reopen(w)
  PROVE  LogInv'
<1>. DEFINE me == writer[w]
<1>1. me \in WriterState /\ WriterHolds(me) /\ me.pc = "reopen" /\ me.time \in Days
  BY Me DEF Reopen, WriterHolds
<1>2. UNCHANGED <<archive, gone, today, follower, torn, nextLine, written>>
  BY DEF Reopen, rest
<1>0. torn' \in BOOLEAN
  BY <1>2 DEF LogInv, LogTyped
<1>3. CASE Fails(w) /\ UNCHANGED <<inode, current, nextInode>>
  BY <1>2, <1>3, Failing DEF disk
<1>4. CASE ~(Fails(w) /\ UNCHANGED <<inode, current, nextInode>>)
  <2>1. PICK file : file = IF current = Nil THEN nextInode ELSE current
    OBVIOUS
  <2>2. /\ file \in Inodes /\ current' = file
        /\ nextInode' = IF current = Nil THEN nextInode + 1 ELSE nextInode
        /\ Extend(file, Boundary(inode[file]))
        /\ Become(w, [me EXCEPT !.file = file, !.day = me.time, !.bol = TRUE,
                                !.pc = IF me.piece = Nil THEN "ready" ELSE "append"])
    BY <1>4, <2>1 DEF Reopen
  <2>3. inode[file] \in Seq(Piece) /\ Inodes \subseteq Nat /\ MaxInode \in Nat
    BY <2>2, LogAssumption DEF LogInv, LogTyped, Inodes
  <2>4. PICK more : more = Boundary(inode[file])
    OBVIOUS
  <2>5. more \in Seq(Piece)
    BY <2>3, <2>4, BoundaryTyped
  <2>6. /\ inode' \in [Inodes -> Seq(Piece)]
        /\ \A j \in Inodes \ {file} : inode'[j] = inode[j]
    BY <2>2, <2>4, <2>5, Extended
  <2>7. PICK s : s = [me EXCEPT !.file = file, !.day = me.time, !.bol = TRUE,
                        !.pc = IF me.piece = Nil THEN "ready" ELSE "append"]
    OBVIOUS
  <2>8. s \in WriterState /\ s.file = file /\ s.done = me.done /\ s.piece = me.piece
        /\ s.pc = IF me.piece = Nil THEN "ready" ELSE "append"
    BY <1>1, <2>2, <2>7 DEF WriterState, WriterLabels, Days
  <2>9. nextInode' \in 1..(MaxInode + 1) /\ nextInode' >= nextInode /\ file < nextInode'
    BY <2>1, <2>2, <2>3 DEF LogInv, LogTyped, InodesAreFresh, Inodes
  <2>10. WriterHolds(s)'
    BY <1>1, <2>2, <2>8, <2>9, NilIsNothing DEF WriterHolds, WriterState
  <2>11. \A i \in Inodes : i >= nextInode' => inode'[i] = inode[i]
    BY <2>2, <2>3, <2>6, <2>9 DEF LogInv, LogTyped
  <2>12. archive' \in [Days -> Seq(Piece)] /\ written' \in SUBSET Nat
    BY <1>2 DEF LogInv, LogTyped
  <2>. QED
    BY <1>0, <1>2, <2>2, <2>6, <2>7, <2>8, <2>9, <2>10, <2>11, <2>12, WriterWrites
<1>. QED
  BY <1>3, <1>4

(* The world around it, and the follower.                                   *)

LEMMA LogDayPasses_ ==
  ASSUME LogInv, LogDayPasses
  PROVE  LogInv'
<1>1. today' \in Days
  BY LogAssumption DEF LogDayPasses, LogInv, LogTyped, Days
<1>2. LogTyped'
  BY <1>1 DEF LogDayPasses, LogInv, LogTyped, disk, rest
<1>. QED
  BY <1>2 DEF LogDayPasses, LogInv, InodesAreFresh, WriterHolds, disk, rest

LEMMA RemoveCurrent_ ==
  ASSUME LogInv, RemoveCurrent
  PROVE  LogInv'
<1>1. /\ gone' \in [lines : SUBSET Nat, inodes : SUBSET Inodes]
      /\ gone'.inodes = gone.inodes \union {current} /\ current \in Inodes
      /\ current < nextInode
  BY DEF RemoveCurrent, LogInv, LogTyped, InodesAreFresh
<1>2. LogTyped'
  BY <1>1 DEF RemoveCurrent, LogInv, LogTyped, rest
<1>3. InodesAreFresh'
  BY <1>1 DEF RemoveCurrent, LogInv, InodesAreFresh, rest
<1>. QED
  BY <1>2, <1>3 DEF RemoveCurrent, LogInv, WriterHolds

LEMMA LinesAreNumbers == \A log \in Seq(Piece) : LineIDs(log) \subseteq Nat
<1>. SUFFICES ASSUME NEW log \in Seq(Piece), NEW i \in DOMAIN log PROVE log[i].line \in Nat
  BY DEF LineIDs
<1>1. log[i] \in Piece
  BY ElementOfSeq
<1>. QED
  BY <1>1, LogAssumption DEF Piece

LEMMA RemoveArchive_ ==
  ASSUME LogInv, NEW d \in Days, RemoveArchive(d)
  PROVE  LogInv'
<1>1. archive \in [Days -> Seq(Piece)]
  BY DEF LogInv, LogTyped
<1>2. LineIDs(archive[d]) \subseteq Nat
  BY <1>1, LinesAreNumbers
<1>3. gone' \in [lines : SUBSET Nat, inodes : SUBSET Inodes] /\ gone'.inodes = gone.inodes
  BY <1>2 DEF RemoveArchive, LogInv, LogTyped
<1>4. archive' \in [Days -> Seq(Piece)]
  BY <1>1, EmptySeq DEF RemoveArchive
<1>5. LogTyped'
  BY <1>3, <1>4 DEF RemoveArchive, LogInv, LogTyped, rest
<1>6. InodesAreFresh'
  BY <1>3 DEF RemoveArchive, LogInv, InodesAreFresh, rest
<1>. QED
  BY <1>5, <1>6 DEF RemoveArchive, LogInv, WriterHolds

LEMMA Crash_ ==
  ASSUME LogInv, Crash
  PROVE  LogInv'
<1>1. writer' = [w \in Writers |-> Closed] /\ torn' \in BOOLEAN
  BY DEF Crash, LogInv, LogTyped
<1>2. LogTyped'
  BY <1>1, ClosedTyped DEF Crash, LogInv, LogTyped, disk
<1>3. InodesAreFresh'
  BY DEF Crash, LogInv, InodesAreFresh, disk
<1>4. \A w \in Writers : writer'[w] = Closed
  BY <1>1
<1>5. nextInode' = nextInode
  BY DEF Crash, disk
<1>6. \A w \in Writers : WriterHolds(writer[w])'
  BY <1>4, <1>5, ClosedTyped DEF WriterHolds
<1>. QED
  BY <1>2, <1>3, <1>6 DEF LogInv

(* A step of the follower.                                                  *)
LEMMA FollowerMoves ==
  ASSUME LogInv, NEW f \in FollowerState, follower' = f, f.inode # Nil => f.inode < nextInode,
         UNCHANGED <<today, disk, writer, nextLine, written, environment, torn>>
  PROVE  LogInv'
<1>1. LogTyped'
  BY DEF LogInv, LogTyped, disk
<1>2. InodesAreFresh'
  BY DEF LogInv, InodesAreFresh, disk
<1>. QED
  BY <1>1, <1>2 DEF LogInv, WriterHolds, disk

LEMMA Follow_ ==
  ASSUME LogInv, Follow
  PROVE  LogInv'
<1>1. PICK f : f = [NotFollowing EXCEPT !.pc = "stat", !.inode = current,
                      !.offset = Len(Contents), !.from = Len(Contents)]
  OBVIOUS
<1>2. current \in Inodes \union {Nil} /\ Len(Contents) \in Nat
  BY ContentsTyped DEF LogInv, LogTyped
<1>3. f \in FollowerState /\ f.inode = current
  BY <1>1, <1>2, NotFollowingTyped DEF FollowerState
<1>4. follower' = f /\ (f.inode # Nil => f.inode < nextInode)
  BY <1>1, <1>3 DEF Follow, LogInv, InodesAreFresh
<1>. QED
  BY <1>3, <1>4, FollowerMoves DEF Follow

LEMMA PollStat_ ==
  ASSUME LogInv, PollStat
  PROVE  LogInv'
<1>. DEFINE f == follower
<1>1. f \in FollowerState /\ current \in Inodes \union {Nil} /\ Len(Contents) \in Nat
  BY ContentsTyped DEF LogInv, LogTyped
<1>2. PICK r : r = Restarted(f)
  OBVIOUS
<1>3. r \in FollowerState
  BY <1>1, <1>2, EmptySeq DEF Restarted, FollowerState
<1>4. PICK kept : kept = IF f.inode # current \/ Len(Contents) < f.offset THEN r ELSE f
  OBVIOUS
<1>5. kept \in FollowerState
  BY <1>1, <1>3, <1>4
<1>6. PICK g : g = IF current = Nil THEN [r EXCEPT !.inode = Nil]
                   ELSE [kept EXCEPT !.inode = current, !.size = Len(Contents),
                           !.pc = IF Len(Contents) = kept.offset THEN "stat" ELSE "read"]
  OBVIOUS
<1>7. g \in FollowerState /\ g.inode = current
  BY <1>1, <1>3, <1>5, <1>6 DEF FollowerState
<1>8. follower' = g
  BY <1>2, <1>4, <1>6 DEF PollStat
<1>9. g.inode # Nil => g.inode < nextInode
  BY <1>7 DEF LogInv, InodesAreFresh
<1>. QED
  BY <1>7, <1>8, <1>9, FollowerMoves DEF PollStat

(* The end of the last line is among the places where one ends.             *)
LEMMA LastEnd ==
  ASSUME NEW log \in Seq(Piece)
  PROVE  /\ Max(Ends(log)) \in Ends(log) /\ Ends(log) \subseteq 0..Len(log)
         /\ \A i \in Ends(log) : i <= Max(Ends(log))
<1>1. Ends(log) \subseteq 0..Len(log) /\ Ends(log) # {} /\ Len(log) \in Nat
  BY LenProperties DEF Ends
<1>2. Max(Ends(log)) \in Ends(log) /\ \A y \in Ends(log) : Max(Ends(log)) >= y
  BY <1>1, GreatestOf
<1>3. \A y \in Ends(log) : y <= Max(Ends(log))
  BY <1>1, <1>2
<1>. QED
  BY <1>1, <1>2, <1>3

(* A line begins behind the end of another.                                 *)
LineStart(log, j) == Max({i \in Ends(log) : i < j})

LEMMA StartOf ==
  ASSUME NEW log \in Seq(Piece), NEW j \in Ends(log) \ {0}
  PROVE  /\ LineStart(log, j) \in Ends(log) /\ LineStart(log, j) \in 0..(j - 1)
         /\ \A i \in Ends(log) : i < j => i <= LineStart(log, j)
         /\ j \in 1..Len(log)
<1>. DEFINE T == {i \in Ends(log) : i < j}
<1>1. Ends(log) \subseteq 0..Len(log) /\ Len(log) \in Nat
  BY LastEnd, LenProperties
<1>2. j \in 1..Len(log)
  BY <1>1
<1>3. T \subseteq 0..Len(log) /\ 0 \in T
  BY <1>1, <1>2 DEF Ends
<1>4. Max(T) \in T /\ \A y \in T : Max(T) >= y
  <2>. HIDE DEF T
  <2>. QED
    BY <1>1, <1>3, GreatestOf
<1>5. LineStart(log, j) = Max(T)
  BY DEF LineStart
<1>6. PICK m : m = Max(T)
  OBVIOUS
<1>7. m \in Ends(log) /\ m < j /\ m \in Nat
  BY <1>4, <1>6, <1>1
<1>8. \A i \in Ends(log) : i < j => i <= m
  <2>1. \A i \in T : i \in Nat /\ m >= i
    BY <1>4, <1>6, <1>1
  <2>. QED
    BY <2>1, <1>7
<1>. HIDE DEF T
<1>. QED
  BY <1>2, <1>5, <1>6, <1>7, <1>8

LEMMA LinesAndTailTyped ==
  ASSUME NEW log \in Seq(Piece)
  PROVE  /\ LinesAndTail(log).lines \subseteq Seq(Piece)
         /\ LinesAndTail(log).lines = {SubSeq(log, LineStart(log, j) + 1, j) : j \in Ends(log) \ {0}}
         /\ LinesAndTail(log).tail \in Seq(Piece)
         /\ LinesAndTail(log).tail = SubSeq(log, Max(Ends(log)) + 1, Len(log))
<1>1. Len(log) \in Nat /\ \A k \in 1..Len(log) : log[k] \in Piece
  BY LenProperties, ElementOfSeq
<1>2. LinesAndTail(log).lines = {SubSeq(log, LineStart(log, j) + 1, j) : j \in Ends(log) \ {0}}
  BY DEF LinesAndTail, LineStart
<1>3. LinesAndTail(log).tail = SubSeq(log, Max(Ends(log)) + 1, Len(log))
  BY DEF LinesAndTail
<1>4. ASSUME NEW j \in Ends(log) \ {0}
      PROVE  SubSeq(log, LineStart(log, j) + 1, j) \in Seq(Piece)
  <2>1. LineStart(log, j) \in 0..(j - 1) /\ j \in 1..Len(log)
    BY StartOf
  <2>2. PICK a : a = LineStart(log, j) + 1
    OBVIOUS
  <2>3. a \in Int /\ j \in Int /\ \A k \in a..j : log[k] \in Piece
    BY <1>1, <2>1, <2>2
  <2>4. SubSeq(log, a, j) \in Seq(Piece)
    BY <2>3, SubSeqProperties
  <2>. QED
    BY <2>2, <2>4
<1>5. SubSeq(log, Max(Ends(log)) + 1, Len(log)) \in Seq(Piece)
  <2>1. Max(Ends(log)) \in 0..Len(log)
    BY LastEnd
  <2>2. PICK a : a = Max(Ends(log)) + 1
    OBVIOUS
  <2>3. a \in Int /\ Len(log) \in Int /\ \A k \in a..Len(log) : log[k] \in Piece
    BY <1>1, <2>1, <2>2
  <2>4. SubSeq(log, a, Len(log)) \in Seq(Piece)
    BY <2>3, SubSeqProperties
  <2>. QED
    BY <2>2, <2>4
<1>. QED
  BY <1>2, <1>3, <1>4, <1>5

LEMMA LineIn ==
  ASSUME NEW log \in Seq(Piece), NEW j \in Ends(log) \ {0}, NEW a, a = LineStart(log, j)
  PROVE  SubSeq(log, a + 1, j) \in LinesAndTail(log).lines
<1>1. SubSeq(log, a + 1, j) \in {SubSeq(log, LineStart(log, k) + 1, k) : k \in Ends(log) \ {0}}
  OBVIOUS
<1>. QED
  BY <1>1, LinesAndTailTyped, Zenon

(* What a poll reads.                                                       *)
Data ==
  SubSeq(Contents, follower.offset + 1,
         IF follower.size < Len(Contents) THEN follower.size ELSE Len(Contents))

LEMMA DataTyped ==
  ASSUME LogInv
  PROVE  Data \in Seq(Piece)
<1>1. Contents \in Seq(Piece) /\ Len(Contents) \in Nat
  BY ContentsTyped, LenProperties
<1>2. follower.offset \in Nat /\ follower.size \in Nat
  BY DEF LogInv, LogTyped, FollowerState
<1>3. PICK log : log = Contents
  OBVIOUS
<1>4. PICK a, b : a = follower.offset + 1
                  /\ b = IF follower.size < Len(Contents) THEN follower.size ELSE Len(Contents)
  OBVIOUS
<1>5. a \in Int /\ b \in Int /\ \A k \in a..b : k \in 1..Len(log)
  BY <1>1, <1>2, <1>3, <1>4
<1>6. \A k \in a..b : log[k] \in Piece
  BY <1>1, <1>3, <1>5, ElementOfSeq
<1>7. SubSeq(log, a, b) \in Seq(Piece)
  BY <1>5, <1>6, SubSeqProperties
<1>. QED
  BY <1>3, <1>4, <1>7 DEF Data

LEMMA PollRead_ ==
  ASSUME LogInv, PollRead
  PROVE  LogInv'
<1>. DEFINE f == follower
<1>1. f \in FollowerState /\ Data \in Seq(Piece) /\ Len(Data) \in Nat
  BY DataTyped, LenProperties DEF LogInv, LogTyped
<1>2. PICK both : both = f.pending \o Data
  OBVIOUS
<1>3. both \in Seq(Piece)
  BY <1>1, <1>2, ConcatProperties DEF FollowerState
<1>4. PICK lines, tail : lines = LinesAndTail(both).lines /\ tail = LinesAndTail(both).tail
  OBVIOUS
<1>5. lines \subseteq Seq(Piece) /\ tail \in Seq(Piece)
  BY <1>3, <1>4, LinesAndTailTyped
<1>6. PICK g : g = [f EXCEPT !.pc = "stat", !.size = 0, !.offset = f.offset + Len(Data),
                      !.pending = tail, !.emitted = f.emitted \union lines]
  OBVIOUS
<1>7. g \in FollowerState /\ g.inode = f.inode
  <2>1. PICK offset, emitted : offset = f.offset + Len(Data) /\ emitted = f.emitted \union lines
    OBVIOUS
  <2>2. offset \in Nat /\ emitted \in SUBSET Seq(Piece)
    BY <1>1, <1>5, <2>1 DEF FollowerState
  <2>. QED
    BY <1>1, <1>5, <1>6, <2>1, <2>2 DEF FollowerState
<1>8. follower' = g
  BY <1>2, <1>4, <1>6 DEF PollRead, Data
<1>. QED
  BY <1>7, <1>8, FollowerMoves DEF PollRead, LogInv, InodesAreFresh

LEMMA LogStep == LogInv /\ [LogNext]_logVars => LogInv'
<1>. SUFFICES ASSUME LogInv, [LogNext]_logVars PROVE LogInv'
  OBVIOUS
<1>1. ASSUME NEW w \in Writers,
             \/ Open(w) \/ Close(w) \/ WriteHead(w) \/ WriteRest(w) \/ AppendLine(w)
             \/ Stage(w) \/ CommitArchive(w) \/ Replace(w) \/ Reopen(w)
      PROVE  LogInv'
  BY <1>1, Open_, Close_, WriteHead_, WriteRest_, AppendLine_, Stage_, CommitArchive_,
     Replace_, Reopen_
<1>2. ASSUME NEW d \in Days, RemoveArchive(d) PROVE LogInv'
  BY <1>2, RemoveArchive_
<1>3. CASE LogDayPasses \/ RemoveCurrent \/ Crash \/ Follow \/ PollStat \/ PollRead
  BY <1>3, LogDayPasses_, RemoveCurrent_, Crash_, Follow_, PollStat_, PollRead_
<1>4. CASE UNCHANGED logVars
  <2>1. UNCHANGED <<today, disk, writer, nextLine, written, follower, torn>>
    BY <1>4 DEF logVars, rest
  <2>2. LogTyped'
    BY <2>1 DEF LogInv, LogTyped, disk
  <2>3. InodesAreFresh'
    BY <2>1 DEF LogInv, InodesAreFresh, disk
  <2>. QED
    BY <2>1, <2>2, <2>3 DEF LogInv, WriterHolds, disk
<1>. QED
  BY <1>1, <1>2, <1>3, <1>4 DEF LogNext

(* Files, archives, writers and the follower are always well formed, and no *)
(* file that was used is used again for another.                            *)
THEOREM LogsAreTyped == LogSpec => []LogInv
<1>. QED
  BY LogInit_, LogStep, PTL DEF LogSpec

-------------------------------------------------------------------------------
(* The follower, beside any number of writers.                              *)

LEMMA MaxIs ==
  ASSUME NEW T, T \subseteq Nat, NEW x \in T, \A y \in T : y <= x
  PROVE  Max(T) = x
<1>1. x \in T /\ \A y \in T : x >= y
  OBVIOUS
<1>2. PICK z : z = Max(T)
  OBVIOUS
<1>3. z \in T /\ \A y \in T : z >= y
  BY <1>1, <1>2 DEF Max
<1>4. z >= x /\ z <= x /\ z \in Nat /\ x \in Nat
  BY <1>1, <1>3
<1>. QED
  BY <1>2, <1>4

(* Equal parts of two sequences.                                            *)
LEMMA SamePart ==
  ASSUME NEW S, NEW s \in Seq(S), NEW t \in Seq(S), NEW a \in Nat \ {0}, NEW b \in Nat,
         NEW k \in Nat, b <= Len(t), b + k <= Len(s), \A i \in a..b : s[i + k] = t[i]
  PROVE  SubSeq(s, a + k, b + k) = SubSeq(t, a, b)
<1>1. Len(s) \in Nat /\ Len(t) \in Nat
  BY LenProperties
<1>2. \A i \in a..b : t[i] \in S
  BY <1>1, ElementOfSeq
<1>3. \A i \in (a + k)..(b + k) : s[i] \in S
  BY <1>1, ElementOfSeq
<1>4. PICK u, v : u = SubSeq(s, a + k, b + k) /\ v = SubSeq(t, a, b)
  OBVIOUS
<1>5. PICK c, d : c = a + k /\ d = b + k
  OBVIOUS
<1>6. /\ v \in Seq(S) /\ Len(v) = IF a <= b THEN b - a + 1 ELSE 0
      /\ \A i \in 1..(b - a + 1) : v[i] = t[a + i - 1]
  BY <1>2, <1>4, SubSeqProperties
<1>7. /\ u \in Seq(S) /\ Len(u) = IF c <= d THEN d - c + 1 ELSE 0
      /\ \A i \in 1..(d - c + 1) : u[i] = s[c + i - 1]
  BY <1>3, <1>4, <1>5, SubSeqProperties
<1>8. Len(u) = Len(v) /\ Len(v) \in Nat
  BY <1>5, <1>6, <1>7
<1>9. ASSUME NEW i \in 1..Len(v) PROVE u[i] = v[i]
  <2>1. i \in 1..(b - a + 1) /\ i \in 1..(d - c + 1) /\ a + i - 1 \in a..b
        /\ c + i - 1 = (a + i - 1) + k
    BY <1>5, <1>6
  <2>2. s[(a + i - 1) + k] = t[a + i - 1]
    BY <2>1
  <2>. QED
    BY <2>1, <2>2, <1>6, <1>7
<1>. QED
  BY <1>4, <1>6, <1>7, <1>8, <1>9, SeqEqual

(* What is read behind a front of a log changes no line of it, and          *)
(* continues what follows its last newline.                                 *)
LEMMA LinesOfMore ==
  ASSUME NEW x \in Seq(Piece), NEW y \in Seq(Piece), NEW p, p = LinesAndTail(x).tail
  PROVE  /\ LinesAndTail(x \o y).lines \subseteq LinesAndTail(x).lines \union LinesAndTail(p \o y).lines
         /\ LinesAndTail(x \o y).tail = LinesAndTail(p \o y).tail
<1>1. PICK m : m = Max(Ends(x))
  OBVIOUS
<1>2. m \in Ends(x) /\ m \in 0..Len(x) /\ \A i \in Ends(x) : i <= m /\ i \in 0..Len(x)
  BY <1>1, LastEnd
<1>3. Len(x) \in Nat /\ Len(y) \in Nat
  BY LenProperties
<1>4. p \in Seq(Piece) /\ Len(p) = Len(x) - m /\ \A k \in 1..(Len(x) - m) : p[k] = x[m + k]
  <2>1. p = SubSeq(x, m + 1, Len(x))
    BY <1>1, LinesAndTailTyped
  <2>2. PICK a : a = m + 1
    OBVIOUS
  <2>3. a \in Int /\ Len(x) \in Int /\ \A k \in a..Len(x) : x[k] \in Piece
    BY <1>2, <1>3, <2>2, ElementOfSeq
  <2>4. /\ p \in Seq(Piece) /\ Len(p) = IF a <= Len(x) THEN Len(x) - a + 1 ELSE 0
        /\ \A k \in 1..(Len(x) - a + 1) : p[k] = x[a + k - 1]
    BY <2>1, <2>2, <2>3, SubSeqProperties
  <2>5. Len(p) = Len(x) - m
    BY <2>2, <2>4, <1>2, <1>3
  <2>6. ASSUME NEW k \in 1..(Len(x) - m) PROVE p[k] = x[m + k]
    <3>1. k \in 1..(Len(x) - a + 1) /\ a + k - 1 = m + k
      BY <2>2, <1>2, <1>3
    <3>. QED
      BY <2>4, <3>1
  <2>. QED
    BY <2>4, <2>5, <2>6
<1>5. PICK z, q : z = x \o y /\ q = p \o y
  OBVIOUS
<1>6. /\ z \in Seq(Piece) /\ Len(z) = Len(x) + Len(y)
      /\ \A i \in 1..(Len(x) + Len(y)) : z[i] = IF i <= Len(x) THEN x[i] ELSE y[i - Len(x)]
  BY <1>5, ConcatProperties
<1>7. /\ q \in Seq(Piece) /\ Len(q) = Len(p) + Len(y)
      /\ \A i \in 1..(Len(p) + Len(y)) : q[i] = IF i <= Len(p) THEN p[i] ELSE y[i - Len(p)]
  BY <1>4, <1>5, ConcatProperties
<1>8. Len(z) = Len(q) + m /\ Len(q) \in Nat /\ Len(z) \in Nat
  BY <1>2, <1>3, <1>4, <1>6, <1>7
<1>9. ASSUME NEW k \in 1..Len(q) PROVE z[k + m] = q[k] /\ k + m \in 1..Len(z)
  <2>1. k + m \in 1..(Len(x) + Len(y)) /\ k \in 1..(Len(p) + Len(y)) /\ k + m \in 1..Len(z)
    BY <1>2, <1>3, <1>4, <1>6, <1>7
  <2>2. CASE k <= Len(p)
    <3>1. k + m <= Len(x) /\ k \in 1..(Len(x) - m) /\ m + k = k + m
      BY <2>1, <2>2, <1>2, <1>3, <1>4
    <3>. QED
      BY <2>1, <2>2, <3>1, <1>4, <1>6, <1>7
  <2>3. CASE ~(k <= Len(p))
    <3>1. PICK i : i = k + m
      OBVIOUS
    <3>2. i \in 1..(Len(x) + Len(y)) /\ ~(i <= Len(x)) /\ i - Len(x) = k - Len(p)
      BY <2>1, <2>3, <3>1, <1>2, <1>3, <1>4
    <3>3. z[i] = y[i - Len(x)]
      BY <3>2, <1>6
    <3>4. q[k] = y[k - Len(p)]
      BY <2>1, <2>3, <1>7
    <3>5. z[i] = q[k]
      BY <3>2, <3>3, <3>4
    <3>. QED
      BY <2>1, <3>1, <3>5
  <2>. QED
    BY <2>2, <2>3
<1>10. \A i \in 1..Len(x) : z[i] = x[i] /\ i \in 1..Len(z)
  BY <1>3, <1>6
<1>11. DOMAIN x = 1..Len(x) /\ DOMAIN z = 1..Len(z) /\ DOMAIN q = 1..Len(q)
  BY <1>6, <1>7, LenProperties
<1>12. \A i \in 0..Len(x) : i \in Ends(z) <=> i \in Ends(x)
  BY <1>10, <1>11, <1>3 DEF Ends
<1>13. \A k \in 0..Len(q) : k + m \in Ends(z) <=> k \in Ends(q)
  <2>. SUFFICES ASSUME NEW k \in 0..Len(q) PROVE k + m \in Ends(z) <=> k \in Ends(q)
    OBVIOUS
  <2>1. CASE k = 0
    <3>1. k + m = m /\ 0 \in Ends(q)
      BY <2>1, <1>2 DEF Ends
    <3>. QED
      BY <2>1, <3>1, <1>2, <1>12
  <2>2. CASE k # 0
    <3>1. k \in 1..Len(q) /\ k + m # 0
      BY <2>2, <1>2, <1>8
    <3>2. z[k + m] = q[k] /\ k + m \in 1..Len(z)
      BY <3>1, <1>9
    <3>. QED
      BY <2>2, <3>1, <3>2, <1>11 DEF Ends
  <2>. QED
    BY <2>1, <2>2
<1>14. Ends(z) \subseteq 0..Len(z) /\ Ends(q) \subseteq 0..Len(q)
  BY <1>6, <1>7, LastEnd
<1>15. ASSUME NEW a \in Nat, NEW b \in Nat, b <= Len(q)
       PROVE  SubSeq(z, a + m + 1, b + m) = SubSeq(q, a + 1, b)
  <2>1. PICK c : c = a + 1
    OBVIOUS
  <2>2. c \in Nat \ {0} /\ c + m = a + m + 1 /\ m \in Nat /\ b + m <= Len(z)
    BY <2>1, <1>2, <1>8, <1>15
  <2>3. \A i \in c..b : z[i + m] = q[i]
    <3>. SUFFICES ASSUME NEW i \in c..b PROVE z[i + m] = q[i]
      OBVIOUS
    <3>1. i \in 1..Len(q)
      BY <2>2, <1>8, <1>15
    <3>. QED
      BY <3>1, <1>9
  <2>4. SubSeq(z, c + m, b + m) = SubSeq(q, c, b)
    BY <2>2, <2>3, <1>6, <1>7, <1>15, SamePart
  <2>. QED
    BY <2>1, <2>2, <2>4
<1>16. LinesAndTail(z).tail = LinesAndTail(q).tail
  <2>1. PICK e : e = Max(Ends(q))
    OBVIOUS
  <2>2. e \in Ends(q) /\ e \in 0..Len(q) /\ \A i \in Ends(q) : i <= e
    BY <2>1, <1>7, LastEnd
  <2>3. e + m \in Ends(z)
    BY <2>2, <1>13
  <2>4. ASSUME NEW i \in Ends(z) PROVE i <= e + m
    <3>1. i \in 0..Len(z)
      BY <1>14
    <3>2. CASE i <= m
      BY <3>1, <3>2, <2>2, <1>2, <1>8
    <3>3. CASE ~(i <= m)
      <4>1. i - m \in 0..Len(q) /\ (i - m) + m = i
        BY <3>1, <3>3, <1>2, <1>8
      <4>2. i - m \in Ends(q)
        BY <4>1, <1>13
      <4>. QED
        BY <4>1, <4>2, <2>2, <1>2, <1>8, <3>1
    <3>. QED
      BY <3>2, <3>3
  <2>5. Max(Ends(z)) = e + m
    <3>1. Ends(z) \subseteq Nat
      BY <1>14, <1>8
    <3>. QED
      BY <2>3, <2>4, <3>1, MaxIs
  <2>6. LinesAndTail(z).tail = SubSeq(z, e + m + 1, Len(z))
        /\ LinesAndTail(q).tail = SubSeq(q, e + 1, Len(q))
    BY <2>1, <2>5, <1>6, <1>7, LinesAndTailTyped
  <2>7. SubSeq(z, e + m + 1, Len(q) + m) = SubSeq(q, e + 1, Len(q))
    <3>1. e \in Nat /\ Len(q) \in Nat /\ Len(q) <= Len(q)
      BY <2>2, <1>8
    <3>. QED
      BY <3>1, <1>15
  <2>. QED
    BY <2>6, <2>7, <1>8
<1>17. ASSUME NEW j \in Ends(z) \ {0}
       PROVE  SubSeq(z, LineStart(z, j) + 1, j) \in
                LinesAndTail(x).lines \union LinesAndTail(q).lines
  <2>1. PICK a : a = LineStart(z, j)
    OBVIOUS
  <2>2. /\ a \in Ends(z) /\ a \in 0..(j - 1) /\ j \in 1..Len(z)
        /\ \A i \in Ends(z) : i < j => i <= a
    BY <2>1, <1>6, StartOf
  <2>3. CASE j <= m
    <3>1. j \in Ends(x) \ {0} /\ a \in Ends(x)
      BY <2>2, <2>3, <1>2, <1>3, <1>12
    <3>2. PICK b : b = LineStart(x, j)
      OBVIOUS
    <3>3. /\ b \in Ends(x) /\ b \in 0..(j - 1) /\ j \in 1..Len(x)
          /\ \A i \in Ends(x) : i < j => i <= b
      BY <3>1, <3>2, StartOf
    <3>4. b \in Ends(z)
      BY <3>3, <1>2, <1>12
    <3>5. a = b
      <4>1. a <= b
        BY <2>2, <3>1, <3>3
      <4>2. b <= a
        BY <2>2, <3>3, <3>4
      <4>. QED
        BY <4>1, <4>2, <2>2, <3>3
    <3>6. SubSeq(z, a + 1, j) = SubSeq(x, a + 1, j)
      <4>1. PICK c : c = a + 1
        OBVIOUS
      <4>2. c \in Nat \ {0} /\ j \in Nat /\ 0 \in Nat /\ j <= Len(x) /\ j + 0 <= Len(z)
            /\ c + 0 = c /\ j + 0 = j
        BY <2>2, <3>3, <4>1, <1>3, <1>8
      <4>3. \A i \in c..j : z[i + 0] = x[i]
        <5>. SUFFICES ASSUME NEW i \in c..j PROVE z[i + 0] = x[i]
          OBVIOUS
        <5>1. i \in 1..Len(x) /\ i + 0 = i
          BY <4>2, <3>3, <1>3
        <5>. QED
          BY <5>1, <1>10
      <4>4. SubSeq(z, c + 0, j + 0) = SubSeq(x, c, j)
        BY <4>2, <4>3, <1>6, SamePart
      <4>. QED
        BY <4>1, <4>2, <4>4
    <3>7. SubSeq(x, b + 1, j) \in LinesAndTail(x).lines
      BY <3>1, <3>2, LineIn
    <3>. QED
      BY <2>1, <3>5, <3>6, <3>7
  <2>4. CASE ~(j <= m)
    <3>1. PICK k : k = j - m
      OBVIOUS
    <3>2. k \in 0..Len(q) /\ k # 0 /\ k + m = j
      BY <2>2, <2>4, <3>1, <1>2, <1>8
    <3>3. k \in Ends(q) \ {0}
      BY <3>2, <1>13
    <3>4. PICK b : b = LineStart(q, k)
      OBVIOUS
    <3>5. /\ b \in Ends(q) /\ b \in 0..(k - 1) /\ k \in 1..Len(q)
          /\ \A i \in Ends(q) : i < k => i <= b
      BY <3>3, <3>4, <1>7, StartOf
    <3>6. a = b + m
      <4>1. b \in 0..Len(q) /\ b + m \in Ends(z) /\ b + m < j
        BY <3>2, <3>5, <1>2, <1>8, <1>13
      <4>2. b + m <= a
        BY <4>1, <2>2
      <4>3. a - m \in 0..Len(q) /\ (a - m) + m = a
        BY <4>1, <4>2, <2>2, <1>2, <1>8
      <4>4. a - m \in Ends(q)
        BY <4>3, <2>2, <1>13
      <4>5. a - m <= b
        BY <4>3, <4>4, <3>2, <3>5, <2>2, <1>2
      <4>. QED
        BY <4>2, <4>3, <4>5, <3>5, <1>2, <2>2
    <3>7. SubSeq(z, b + m + 1, k + m) = SubSeq(q, b + 1, k)
      <4>1. b \in Nat /\ k \in Nat /\ k <= Len(q)
        BY <3>5, <1>8
      <4>. QED
        BY <4>1, <1>15
    <3>8. SubSeq(q, b + 1, k) \in LinesAndTail(q).lines
      BY <3>3, <3>4, <1>7, LineIn
    <3>. QED
      BY <2>1, <3>2, <3>6, <3>7, <3>8
  <2>. QED
    BY <2>3, <2>4
<1>18. LinesAndTail(z).lines \subseteq LinesAndTail(x).lines \union LinesAndTail(q).lines
  <2>1. LinesAndTail(z).lines = {SubSeq(z, LineStart(z, j) + 1, j) : j \in Ends(z) \ {0}}
    BY <1>6, LinesAndTailTyped
  <2>. QED
    BY <2>1, <1>17
<1>. QED
  BY <1>5, <1>16, <1>18

(* Files grow, and the log becomes another file only when it is a new one.  *)
FilesGrow ==
  /\ current' = current \/ current' = Nil
     \/ (nextInode \in Inodes /\ current' = nextInode)
  /\ \A i \in Inodes : i < nextInode =>
       /\ Len(inode'[i]) >= Len(inode[i])
       /\ \A k \in 1..Len(inode[i]) : inode'[i][k] = inode[i][k]

LEMMA ExtendGrows ==
  ASSUME LogInv, NEW i \in Inodes, NEW pieces \in Seq(Piece), Extend(i, pieces),
         NEW j \in Inodes
  PROVE  /\ Len(inode'[j]) >= Len(inode[j])
         /\ \A k \in 1..Len(inode[j]) : inode'[j][k] = inode[j][k]
<1>1. inode[i] \in Seq(Piece) /\ inode[j] \in Seq(Piece)
  BY DEF LogInv, LogTyped
<1>2. inode'[i] = inode[i] \o pieces /\ \A k \in Inodes \ {i} : inode'[k] = inode[k]
  BY Extended
<1>3. Len(inode[i]) \in Nat /\ Len(pieces) \in Nat /\ Len(inode[j]) \in Nat
  BY <1>1, LenProperties
<1>4. CASE j = i
  <2>1. /\ Len(inode'[i]) = Len(inode[i]) + Len(pieces)
        /\ \A k \in 1..(Len(inode[i]) + Len(pieces)) : inode'[i][k] =
             IF k <= Len(inode[i]) THEN inode[i][k] ELSE pieces[k - Len(inode[i])]
    BY <1>1, <1>2, ConcatProperties
  <2>2. \A k \in 1..Len(inode[i]) : inode'[i][k] = inode[i][k]
    BY <1>3, <2>1
  <2>. QED
    BY <1>3, <1>4, <2>1, <2>2
<1>5. CASE j # i
  BY <1>2, <1>3, <1>5
<1>. QED
  BY <1>4, <1>5

LEMMA FilesGrow_ == LogInv /\ [LogNext]_logVars => FilesGrow
<1>. SUFFICES ASSUME LogInv, [LogNext]_logVars PROVE FilesGrow
  OBVIOUS
<1>0. /\ \A i \in Inodes : inode[i] \in Seq(Piece) /\ Len(inode[i]) \in Nat
      /\ nextInode \in Nat /\ Inodes \subseteq Nat
  BY LenProperties, LogAssumption DEF LogInv, LogTyped, Inodes
<1>1. ASSUME UNCHANGED inode, current' = current \/ current' = Nil
      PROVE  FilesGrow
  BY <1>0, <1>1 DEF FilesGrow
<1>2. ASSUME NEW w \in Writers, WriteRest(w) PROVE FilesGrow
  <2>1. CASE FailsShort(w, 0)
    <3>1. PICK i, part : i = writer[w].file /\ part \in Seq(Piece) /\ Extend(i, part)
      BY <2>1, LogAssumption, Fragments
    <3>2. i \in Inodes
      BY <1>2, <3>1, Me DEF WriteRest, WriterHolds, WriterState
    <3>. QED
      BY <1>2, <3>1, <3>2, ExtendGrows DEF WriteRest, FilesGrow
  <2>2. CASE Extend(writer[w].file, <<[line |-> nextLine - 1, day |-> 0, ends |-> TRUE]>>)
    <3>1. PICK i, more : i = writer[w].file
                         /\ more = <<[line |-> nextLine - 1, day |-> 0, ends |-> TRUE]>>
      OBVIOUS
    <3>2. i \in Inodes
      BY <1>2, <3>1, Me DEF WriteRest, WriterHolds, WriterState
    <3>3. [line |-> nextLine - 1, day |-> 0, ends |-> TRUE] \in Piece
      BY LogAssumption DEF LogInv, LogTyped, Piece
    <3>4. more \in Seq(Piece) /\ Extend(i, more)
      BY <2>2, <3>1, <3>3
    <3>. QED
      BY <1>2, <3>2, <3>4, ExtendGrows DEF WriteRest, FilesGrow
  <2>. QED
    BY <1>2, <2>1, <2>2 DEF WriteRest
<1>3. ASSUME NEW w \in Writers, AppendLine(w) PROVE FilesGrow
  <2>1. CASE FailsShort(w, writer[w].piece.day)
    <3>1. writer[w].piece \in Piece /\ writer[w].file \in Inodes
      BY <1>3, Me DEF AppendLine, WriterHolds, WriterState
    <3>2. writer[w].piece.day \in 0..MaxDay
      BY <3>1 DEF Piece
    <3>3. PICK i, part : i = writer[w].file /\ part \in Seq(Piece) /\ Extend(i, part)
      BY <2>1, <3>2, Fragments
    <3>. QED
      BY <1>3, <3>1, <3>3, ExtendGrows DEF AppendLine, FilesGrow
  <2>2. CASE Extend(writer[w].file, <<writer[w].piece>>)
    <3>1. PICK i, more : i = writer[w].file /\ more = <<writer[w].piece>>
      OBVIOUS
    <3>2. i \in Inodes /\ writer[w].piece \in Piece
      BY <1>3, <3>1, Me DEF AppendLine, WriterHolds, WriterState
    <3>3. more \in Seq(Piece) /\ Extend(i, more)
      BY <2>2, <3>1, <3>2
    <3>. QED
      BY <1>3, <3>2, <3>3, ExtendGrows DEF AppendLine, FilesGrow
  <2>. QED
    BY <1>3, <2>1, <2>2 DEF AppendLine
<1>4. ASSUME NEW w \in Writers, Replace(w) PROVE FilesGrow
  <2>1. CASE UNCHANGED <<inode, current, nextInode>>
    BY <1>1, <2>1
  <2>2. CASE inode' = [inode EXCEPT ![nextInode] = writer[w].stays] /\ current' = nextInode
    <3>1. nextInode \in Inodes /\ inode \in [Inodes -> Seq(Piece)]
      BY <1>4 DEF Replace, LogInv, LogTyped
    <3>2. \A i \in Inodes : i < nextInode => inode'[i] = inode[i]
      BY <2>2, <3>1, <1>0
    <3>. QED
      BY <2>2, <3>1, <3>2, <1>0 DEF FilesGrow
  <2>. QED
    BY <1>4, <2>1, <2>2 DEF Replace
<1>5. ASSUME NEW w \in Writers, Reopen(w) PROVE FilesGrow
  <2>1. CASE UNCHANGED <<inode, current, nextInode>>
    BY <1>1, <2>1
  <2>2. CASE ~UNCHANGED <<inode, current, nextInode>>
    <3>1. PICK file : file = IF current = Nil THEN nextInode ELSE current
      OBVIOUS
    <3>2. file \in Inodes /\ current' = file /\ Extend(file, Boundary(inode[file]))
      BY <1>5, <2>2, <3>1 DEF Reopen
    <3>3. PICK more : more = Boundary(inode[file])
      OBVIOUS
    <3>4. more \in Seq(Piece) /\ Extend(file, more)
      BY <1>0, <3>2, <3>3, BoundaryTyped
    <3>5. \A j \in Inodes :
            /\ Len(inode'[j]) >= Len(inode[j])
            /\ \A k \in 1..Len(inode[j]) : inode'[j][k] = inode[j][k]
      BY <3>2, <3>4, ExtendGrows
    <3>6. current' = current \/ (nextInode \in Inodes /\ current' = nextInode)
      BY <3>1, <3>2
    <3>. QED
      BY <3>5, <3>6 DEF FilesGrow
  <2>. QED
    BY <2>1, <2>2
<1>6. ASSUME NEW w \in Writers,
             Open(w) \/ Close(w) \/ WriteHead(w) \/ Stage(w) \/ CommitArchive(w)
      PROVE  FilesGrow
  BY <1>1, <1>6 DEF Open, Close, WriteHead, Stage, CommitArchive, disk
<1>7. ASSUME NEW d \in Days, RemoveArchive(d) PROVE FilesGrow
  BY <1>1, <1>7 DEF RemoveArchive
<1>8. CASE LogDayPasses \/ RemoveCurrent \/ Crash \/ Follow \/ PollStat \/ PollRead
  BY <1>1, <1>8 DEF LogDayPasses, RemoveCurrent, Crash, Follow, PollStat, PollRead, disk
<1>9. CASE UNCHANGED logVars
  BY <1>1, <1>9 DEF logVars, disk
<1>. QED
  BY <1>2, <1>3, <1>4, <1>5, <1>6, <1>7, <1>8, <1>9 DEF LogNext

LEMMA NothingRead ==
  /\ \A log : SubSeq(log, 1, 0) = <<>>
  /\ LinesAndTail(<<>>).lines = {} /\ LinesAndTail(<<>>).tail = <<>>
<1>1. \A log : SubSeq(log, 1, 0) = <<>>
  BY SubSeqEmpty
<1>2. <<>> \in Seq(Piece) /\ Len(<<>>) = 0
  BY EmptySeq
<1>3. Ends(<<>>) \subseteq 0..0
  BY <1>2, LastEnd
<1>4. Ends(<<>>) = {0}
  BY <1>3 DEF Ends
<1>5. LinesAndTail(<<>>).lines = {}
  BY <1>2, <1>4, LinesAndTailTyped
<1>6. Max(Ends(<<>>)) = 0
  BY <1>4, MaxIs
<1>7. LinesAndTail(<<>>).tail = SubSeq(<<>>, 0 + 1, Len(<<>>))
  BY <1>2, <1>6, LinesAndTailTyped
<1>8. LinesAndTail(<<>>).tail = SubSeq(<<>>, 1, 0)
  BY <1>2, <1>7
<1>. QED
  BY <1>1, <1>5, <1>8

(* The files may grow under a follower.                                     *)
LEMMA FollowedStays ==
  ASSUME LogInv, LogInv', FollowerInv, FilesGrow, UNCHANGED follower
  PROVE  FollowerInv'
<1>. SUFFICES ASSUME follower.pc # "off", follower.inode = current', current' # Nil
              PROVE  FollowerInv'
  BY DEF FollowerInv
<1>. DEFINE f == follower
<1>1. f \in FollowerState /\ nextInode \in Nat /\ Inodes \subseteq Nat
      /\ inode \in [Inodes -> Seq(Piece)] /\ inode' \in [Inodes -> Seq(Piece)]
  BY LogAssumption DEF LogInv, LogTyped, Inodes
<1>2. f.inode \in Inodes /\ f.inode < nextInode
  BY <1>1 DEF FollowerState, LogInv, InodesAreFresh
<1>3. current' = current
  BY <1>1, <1>2 DEF FilesGrow
<1>4. current \in Inodes /\ f.inode = current /\ current # Nil
  BY <1>2, <1>3
<1>5. PICK s, t : s = inode'[current] /\ t = inode[current]
  OBVIOUS
<1>6. t \in Seq(Piece) /\ Len(t) \in Nat /\ s \in Seq(Piece) /\ Len(s) \in Nat
  BY <1>1, <1>4, <1>5, LenProperties
<1>7. Len(s) >= Len(t) /\ \A k \in 1..Len(t) : s[k] = t[k]
  BY <1>2, <1>4, <1>5 DEF FilesGrow
<1>8. /\ f.from <= f.offset /\ f.offset <= Len(t)
      /\ LinesAndTail(Followed).lines \subseteq f.emitted
      /\ f.pending = LinesAndTail(Followed).tail
      /\ f.pc = "read" => f.offset < f.size /\ f.size <= Len(t)
  BY <1>4, <1>5 DEF FollowerInv
<1>9. SubSeq(s, f.from + 1, f.offset) = SubSeq(t, f.from + 1, f.offset)
  <2>1. PICK a, b : a = f.from + 1 /\ b = f.offset
    OBVIOUS
  <2>2. a \in Nat \ {0} /\ b \in Nat /\ b <= Len(t) /\ b + 0 <= Len(s) /\ a + 0 = a /\ b + 0 = b
    BY <1>1, <1>6, <1>7, <1>8, <2>1 DEF FollowerState
  <2>3. \A i \in a..b : s[i + 0] = t[i]
    <3>. SUFFICES ASSUME NEW i \in a..b PROVE s[i + 0] = t[i]
      OBVIOUS
    <3>1. i + 0 = i /\ i \in 1..Len(t)
      BY <2>2, <1>6
    <3>. QED
      BY <3>1, <1>7
  <2>4. SubSeq(s, a + 0, b + 0) = SubSeq(t, a, b)
    BY <2>2, <2>3, <1>6, SamePart
  <2>. QED
    BY <2>1, <2>2, <2>4
<1>10. Followed' = Followed
  BY <1>3, <1>5, <1>9 DEF Followed
<1>11. f.pc = "read" => f.size <= Len(s)
  BY <1>1, <1>6, <1>7, <1>8 DEF FollowerState
<1>12. f.offset <= Len(s)
  BY <1>1, <1>6, <1>7, <1>8 DEF FollowerState
<1>. QED
  BY <1>3, <1>5, <1>8, <1>10, <1>11, <1>12 DEF FollowerInv

LEMMA FollowFollows ==
  ASSUME LogInv, Follow
  PROVE  FollowerInv'
<1>1. Contents \in Seq(Piece) /\ Len(Contents) \in Nat /\ (current # Nil => Contents = inode[current])
  BY ContentsTyped, LenProperties
<1>2. /\ follower'.pc = "stat" /\ follower'.offset = Len(Contents)
      /\ follower'.from = Len(Contents) /\ follower'.pending = <<>>
  BY DEF Follow, NotFollowing
<1>3. inode' = inode /\ current' = current
  BY DEF Follow, disk
<1>4. current # Nil => Followed' = SubSeq(inode[current], Len(Contents) + 1, Len(Contents))
  BY <1>2, <1>3 DEF Followed
<1>5. \A log : SubSeq(log, Len(Contents) + 1, Len(Contents)) = <<>>
  BY <1>1, SubSeqEmpty
<1>6. current # Nil => Followed' = <<>>
  BY <1>4, <1>5
<1>. QED
  BY <1>1, <1>2, <1>3, <1>6, NothingRead DEF FollowerInv

LEMMA PollStatFollows ==
  ASSUME LogInv, FollowerInv, PollStat
  PROVE  FollowerInv'
<1>. DEFINE f == follower
<1>1. inode' = inode /\ current' = current /\ f.pc = "stat" /\ f \in FollowerState
  BY DEF PollStat, disk, LogInv, LogTyped
<1>. SUFFICES ASSUME current # Nil PROVE FollowerInv'
  BY <1>1 DEF FollowerInv
<1>2. Contents \in Seq(Piece) /\ Len(Contents) \in Nat /\ Contents = inode[current]
  BY ContentsTyped, LenProperties
<1>3. PICK kept : kept = IF f.inode # current \/ Len(Contents) < f.offset THEN Restarted(f) ELSE f
  OBVIOUS
<1>4. follower' = [kept EXCEPT !.inode = current, !.size = Len(Contents),
                     !.pc = IF Len(Contents) = kept.offset THEN "stat" ELSE "read"]
  BY <1>3 DEF PollStat
<1>5. kept \in FollowerState
  <2>1. Restarted(f) \in FollowerState
    BY <1>1, EmptySeq DEF Restarted, FollowerState
  <2>. QED
    BY <1>1, <1>3, <2>1
<1>6. /\ kept.from <= kept.offset /\ kept.offset <= Len(Contents)
      /\ LinesAndTail(SubSeq(Contents, kept.from + 1, kept.offset)).lines \subseteq kept.emitted
      /\ kept.pending = LinesAndTail(SubSeq(Contents, kept.from + 1, kept.offset)).tail
  <2>1. CASE f.inode # current \/ Len(Contents) < f.offset
    <3>1. kept.from = 0 /\ kept.offset = 0 /\ kept.pending = <<>>
      BY <1>1, <1>3, <2>1 DEF Restarted, FollowerState
    <3>2. SubSeq(Contents, kept.from + 1, kept.offset) = <<>>
      BY <3>1, NothingRead
    <3>3. LinesAndTail(SubSeq(Contents, kept.from + 1, kept.offset)) = LinesAndTail(<<>>)
      BY <3>2
    <3>4. LinesAndTail(SubSeq(Contents, kept.from + 1, kept.offset)).lines = {}
          /\ LinesAndTail(SubSeq(Contents, kept.from + 1, kept.offset)).tail = <<>>
      BY <3>3, NothingRead
    <3>. QED
      BY <1>2, <3>1, <3>4
  <2>2. CASE ~(f.inode # current \/ Len(Contents) < f.offset)
    <3>1. kept = f /\ f.inode = current
      BY <1>3, <2>2
    <3>2. SubSeq(Contents, kept.from + 1, kept.offset) = Followed
      BY <1>2, <3>1 DEF Followed
    <3>. QED
      BY <1>1, <1>2, <3>1, <3>2 DEF FollowerInv
  <2>. QED
    BY <2>1, <2>2
<1>7. /\ follower'.from = kept.from /\ follower'.offset = kept.offset
      /\ follower'.emitted = kept.emitted /\ follower'.pending = kept.pending
      /\ follower'.size = Len(Contents)
      /\ follower'.pc = IF Len(Contents) = kept.offset THEN "stat" ELSE "read"
  BY <1>4, <1>5 DEF FollowerState
<1>8. Followed' = SubSeq(Contents, kept.from + 1, kept.offset)
  BY <1>1, <1>2, <1>7 DEF Followed
<1>9. follower'.pc = "read" => follower'.offset < Len(Contents)
  BY <1>2, <1>5, <1>6, <1>7 DEF FollowerState
<1>. QED
  BY <1>1, <1>2, <1>6, <1>7, <1>8, <1>9 DEF FollowerInv

LEMMA PollReadFollows ==
  ASSUME LogInv, FollowerInv, PollRead
  PROVE  FollowerInv'
<1>. DEFINE f == follower
<1>1. inode' = inode /\ current' = current /\ f.pc = "read" /\ f \in FollowerState
  BY DEF PollRead, disk, LogInv, LogTyped
<1>2. Data \in Seq(Piece) /\ Len(Data) \in Nat
  BY DataTyped, LenProperties
<1>3. PICK both : both = f.pending \o Data
  OBVIOUS
<1>4. follower' = [f EXCEPT !.pc = "stat", !.size = 0, !.offset = f.offset + Len(Data),
                     !.pending = LinesAndTail(both).tail,
                     !.emitted = f.emitted \union LinesAndTail(both).lines]
  BY <1>3 DEF PollRead, Data
<1>5. /\ follower'.pc = "stat" /\ follower'.inode = f.inode /\ follower'.from = f.from
      /\ follower'.offset = f.offset + Len(Data)
      /\ follower'.pending = LinesAndTail(both).tail
      /\ follower'.emitted = f.emitted \union LinesAndTail(both).lines
  BY <1>1, <1>4 DEF FollowerState
<1>. SUFFICES ASSUME f.inode = current, current # Nil PROVE FollowerInv'
  BY <1>1, <1>5 DEF FollowerInv
<1>6. Contents \in Seq(Piece) /\ Len(Contents) \in Nat /\ Contents = inode[current]
  BY ContentsTyped, LenProperties
<1>7. /\ f.from <= f.offset /\ f.offset < f.size /\ f.size <= Len(Contents)
      /\ LinesAndTail(Followed).lines \subseteq f.emitted
      /\ f.pending = LinesAndTail(Followed).tail
      /\ f.from \in Nat /\ f.offset \in Nat /\ f.size \in Nat
  BY <1>1, <1>6 DEF FollowerInv, FollowerState
<1>8. PICK log, a, b, n : log = Contents /\ a = f.from + 1 /\ b = f.offset /\ n = f.size
  OBVIOUS
<1>9. PICK x, y : x = SubSeq(log, a, b) /\ y = SubSeq(log, b + 1, n)
  OBVIOUS
<1>10. log \in Seq(Piece) /\ Len(log) \in Nat
  BY <1>6, <1>8
<1>11. Followed = x
  BY <1>6, <1>8, <1>9 DEF Followed
<1>12. Data = y
  <2>1. (IF f.size < Len(Contents) THEN f.size ELSE Len(Contents)) = n
    BY <1>6, <1>7, <1>8
  <2>. QED
    BY <1>8, <1>9, <2>1 DEF Data
<1>13. Len(y) = n - b
  <2>1. PICK c : c = b + 1
    OBVIOUS
  <2>2. c \in Int /\ n \in Int /\ \A k \in c..n : log[k] \in Piece
    BY <1>7, <1>8, <1>10, <2>1, ElementOfSeq
  <2>3. Len(SubSeq(log, c, n)) = IF c <= n THEN n - c + 1 ELSE 0
    BY <2>2, SubSeqProperties
  <2>. QED
    BY <2>1, <2>3, <1>7, <1>8, <1>9
<1>14. x \in Seq(Piece) /\ y \in Seq(Piece)
  <2>1. a \in Int /\ b \in Int /\ \A k \in a..b : log[k] \in Piece
    BY <1>7, <1>8, <1>10, ElementOfSeq
  <2>. QED
    BY <2>1, <1>2, <1>9, <1>12, SubSeqProperties
<1>15. SubSeq(log, a, n) = x \o y
  <2>1. a \in 1..(Len(log) + 1) /\ b \in (a - 1)..Len(log) /\ n \in b..Len(log)
    BY <1>7, <1>8, <1>10
  <2>. QED
    BY <2>1, <1>9, <1>10, ConcatAdjacentSubSeq
<1>16. f.offset + Len(Data) = n
  BY <1>7, <1>8, <1>12, <1>13
<1>17. Followed' = x \o y
  BY <1>1, <1>5, <1>6, <1>8, <1>15, <1>16 DEF Followed
<1>18. PICK p : p = LinesAndTail(x).tail
  OBVIOUS
<1>19. /\ LinesAndTail(x \o y).lines \subseteq LinesAndTail(x).lines \union LinesAndTail(p \o y).lines
       /\ LinesAndTail(x \o y).tail = LinesAndTail(p \o y).tail
  BY <1>14, <1>18, LinesOfMore
<1>20. both = p \o y
  BY <1>3, <1>7, <1>11, <1>12, <1>18
<1>21. f.from <= n /\ n <= Len(Contents)
  BY <1>7, <1>8
<1>22. /\ LinesAndTail(Followed').lines \subseteq follower'.emitted
       /\ follower'.pending = LinesAndTail(Followed').tail
  BY <1>5, <1>7, <1>11, <1>17, <1>19, <1>20
<1>. QED
  BY <1>1, <1>5, <1>6, <1>16, <1>21, <1>22 DEF FollowerInv

LEMMA FollowerStep == LogInv /\ FollowerInv /\ [LogNext]_logVars => FollowerInv'
<1>. SUFFICES ASSUME LogInv, FollowerInv, [LogNext]_logVars PROVE FollowerInv'
  OBVIOUS
<1>1. FilesGrow /\ LogInv'
  BY FilesGrow_, LogStep
<1>2. CASE Follow
  BY <1>2, FollowFollows
<1>3. CASE PollStat
  BY <1>3, PollStatFollows
<1>4. CASE PollRead
  BY <1>4, PollReadFollows
<1>5. CASE UNCHANGED follower
  BY <1>1, <1>5, FollowedStays
<1>6. UNCHANGED follower \/ Follow \/ PollStat \/ PollRead
  BY DEF LogNext, logVars, rest, Open, Close, WriteHead, WriteRest, AppendLine, Stage,
         CommitArchive, Replace, Reopen, LogDayPasses, RemoveCurrent, RemoveArchive, Crash
<1>. QED
  BY <1>2, <1>3, <1>4, <1>5, <1>6

(* Whoever follows a log is told every complete line of the file at its     *)
(* path, whole, and holds the rest of the last one, however many writers    *)
(* append to it, rotate it or lose it, and whoever deletes it (follow,      *)
(* pollFollowState, completeEntries).                                       *)
THEOREM FollowersMissNothing == LogSpec => []FollowerIsComplete
<1>1. LogInit => FollowerInv
  BY NotFollowingTyped DEF LogInit, FollowerInv
<1>2. LogInv /\ FollowerInv => FollowerIsComplete
  <2>. SUFFICES ASSUME LogInv, FollowerInv, follower.pc = "stat", follower.inode = current,
                       current # Nil, follower.offset = Len(Contents)
                PROVE  /\ LinesAndTail(SubSeq(Contents, follower.from + 1, Len(Contents))).lines
                            \subseteq follower.emitted
                       /\ follower.pending
                            = LinesAndTail(SubSeq(Contents, follower.from + 1, Len(Contents))).tail
    BY DEF FollowerIsComplete
  <2>1. Followed = SubSeq(Contents, follower.from + 1, Len(Contents))
    BY ContentsTyped DEF Followed
  <2>2. LinesAndTail(Followed).lines \subseteq follower.emitted
        /\ follower.pending = LinesAndTail(Followed).tail
    BY DEF FollowerInv
  <2>. QED
    BY <2>1, <2>2
<1>. QED
  BY <1>1, <1>2, LogInit_, LogStep, FollowerStep, PTL DEF LogSpec

-------------------------------------------------------------------------------
(* Nothing is lost, when there is one writer at a time.                     *)

LEMMA IDsOfConcat ==
  ASSUME NEW a \in Seq(Piece), NEW b \in Seq(Piece)
  PROVE  LineIDs(a \o b) = LineIDs(a) \union LineIDs(b)
<1>1. PICK c : c = a \o b
  OBVIOUS
<1>2. /\ c \in Seq(Piece) /\ Len(c) = Len(a) + Len(b)
      /\ \A i \in 1..(Len(a) + Len(b)) : c[i] = IF i <= Len(a) THEN a[i] ELSE b[i - Len(a)]
  BY <1>1, ConcatProperties
<1>3. /\ DOMAIN a = 1..Len(a) /\ DOMAIN b = 1..Len(b) /\ DOMAIN c = 1..Len(c)
      /\ Len(a) \in Nat /\ Len(b) \in Nat
  BY <1>2, LenProperties
<1>4. ASSUME NEW i \in DOMAIN c
      PROVE  (\E j \in DOMAIN a : a[j] = c[i]) \/ (\E j \in DOMAIN b : b[j] = c[i])
  <2>1. i \in 1..(Len(a) + Len(b))
    BY <1>2, <1>3
  <2>2. CASE i <= Len(a)
    BY <2>1, <2>2, <1>2, <1>3
  <2>3. CASE ~(i <= Len(a))
    <3>1. i - Len(a) \in DOMAIN b /\ c[i] = b[i - Len(a)]
      BY <2>1, <2>3, <1>2, <1>3
    <3>. QED
      BY <3>1
  <2>. QED
    BY <2>2, <2>3
<1>5. ASSUME NEW j \in DOMAIN a PROVE \E i \in DOMAIN c : c[i] = a[j]
  BY <1>2, <1>3
<1>6. ASSUME NEW j \in DOMAIN b PROVE \E i \in DOMAIN c : c[i] = b[j]
  <2>1. PICK i : i = j + Len(a)
    OBVIOUS
  <2>2. i \in 1..(Len(a) + Len(b)) /\ ~(i <= Len(a)) /\ i - Len(a) = j
    BY <2>1, <1>3
  <2>3. c[i] = b[i - Len(a)] /\ i \in DOMAIN c
    BY <2>2, <1>2, <1>3
  <2>. QED
    BY <2>2, <2>3
<1>7. LineIDs(c) \subseteq LineIDs(a) \union LineIDs(b)
  BY <1>4 DEF LineIDs
<1>8. LineIDs(a) \subseteq LineIDs(c) /\ LineIDs(b) \subseteq LineIDs(c)
  BY <1>5, <1>6 DEF LineIDs
<1>. QED
  BY <1>1, <1>7, <1>8

LEMMA IDsOfFront ==
  ASSUME NEW log \in Seq(Piece), NEW n \in 0..Len(log)
  PROVE  LineIDs(SubSeq(log, 1, n)) \subseteq LineIDs(log)
<1>1. Len(log) \in Nat /\ DOMAIN log = 1..Len(log)
  BY LenProperties
<1>2. PICK s : s = SubSeq(log, 1, n)
  OBVIOUS
<1>3. \A k \in 1..n : log[k] \in Piece
  BY <1>1, ElementOfSeq
<1>4. /\ s \in Seq(Piece) /\ Len(s) = IF 1 <= n THEN n - 1 + 1 ELSE 0
      /\ \A i \in 1..(n - 1 + 1) : s[i] = log[1 + i - 1]
  BY <1>2, <1>3, SubSeqProperties
<1>5. DOMAIN s = 1..n
  BY <1>1, <1>4, LenProperties
<1>6. \A i \in DOMAIN s : i \in DOMAIN log /\ s[i] = log[i]
  BY <1>1, <1>4, <1>5
<1>. QED
  BY <1>2, <1>6 DEF LineIDs

LEMMA NoIDs == LineIDs(<<>>) = {}
BY EmptySeq, LenProperties DEF LineIDs

(* What the roll-back makes of an archive.                                  *)
SizesOf(done, d) == {done[i].size : i \in {i \in DOMAIN done : done[i].day = d}}
Cut(log, done, d) == SubSeq(log, 1, Min({Len(log)} \union SizesOf(done, d)))

LEMMA MinIs ==
  ASSUME NEW T, T \subseteq Nat, NEW x \in T, \A y \in T : x <= y
  PROVE  Min(T) = x
<1>1. PICK z : z = Min(T)
  OBVIOUS
<1>2. z \in T /\ \A y \in T : z <= y
  BY <1>1 DEF Min
<1>3. z >= x /\ z <= x /\ z \in Nat /\ x \in Nat
  BY <1>2
<1>. QED
  BY <1>1, <1>3

LEMMA CutNone ==
  ASSUME NEW log \in Seq(Piece), NEW done, NEW d, \A i \in DOMAIN done : done[i].day # d
  PROVE  Cut(log, done, d) = log
<1>1. SizesOf(done, d) = {}
  BY DEF SizesOf
<1>2. Len(log) \in Nat
  BY LenProperties
<1>3. Min({Len(log)}) = Len(log)
  <2>1. PICK T : T = {Len(log)}
    OBVIOUS
  <2>2. T \subseteq Nat /\ Len(log) \in T /\ \A y \in T : Len(log) <= y
    BY <1>2, <2>1
  <2>. QED
    BY <2>1, <2>2, MinIs
<1>. QED
  BY <1>1, <1>3, SubSeqFull DEF Cut

FirstOf(done, d, old) ==
  /\ \E k \in DOMAIN done : done[k].day = d
  /\ \A i \in DOMAIN done : done[i].day = d => done[i].size = Len(old)

LEMMA CutFirst ==
  ASSUME NEW old \in Seq(Piece), NEW more \in Seq(Piece), NEW done, NEW d, FirstOf(done, d, old)
  PROVE  Cut(old \o more, done, d) = old
<1>1. SizesOf(done, d) = {Len(old)}
  BY DEF SizesOf, FirstOf
<1>2. PICK log : log = old \o more
  OBVIOUS
<1>3. /\ log \in Seq(Piece) /\ Len(log) = Len(old) + Len(more)
      /\ \A i \in 1..(Len(old) + Len(more)) : log[i] = IF i <= Len(old) THEN old[i]
                                                      ELSE more[i - Len(old)]
  BY <1>2, ConcatProperties
<1>4. Len(old) \in Nat /\ Len(more) \in Nat
  BY LenProperties
<1>5. Min({Len(log)} \union SizesOf(done, d)) = Len(old)
  <2>1. PICK T : T = {Len(log)} \union SizesOf(done, d)
    OBVIOUS
  <2>2. T \subseteq Nat /\ Len(old) \in T /\ \A y \in T : Len(old) <= y
    BY <2>1, <1>1, <1>3, <1>4
  <2>. QED
    BY <2>1, <2>2, MinIs
<1>6. SubSeq(log, 1, Len(old)) = SubSeq(old, 1, Len(old))
  <2>1. /\ 1 \in Nat \ {0} /\ Len(old) \in Nat /\ 0 \in Nat /\ Len(old) <= Len(old)
        /\ Len(old) + 0 <= Len(log) /\ 1 + 0 = 1 /\ Len(old) + 0 = Len(old)
    BY <1>3, <1>4
  <2>2. \A i \in 1..Len(old) : log[i + 0] = old[i]
    BY <1>3, <1>4
  <2>3. SubSeq(log, 1 + 0, Len(old) + 0) = SubSeq(old, 1, Len(old))
    BY <2>1, <2>2, <1>3, SamePart
  <2>. QED
    BY <2>1, <2>3
<1>. QED
  BY <1>2, <1>5, <1>6, SubSeqFull DEF Cut

(* The commit of an archive is undone by the roll-back.                     *)
LEMMA CommitIsUndone ==
  ASSUME LogInv, NEW w \in Writers, NEW d \in Days, NEW more \in Seq(Piece),
         \A i \in DOMAIN writer[w].done : writer[w].done[i].day # d,
         archive' = [archive EXCEPT ![d] = @ \o more],
         writer'[w].done = Append(writer[w].done, [day |-> d, size |-> Len(archive[d])])
  PROVE  \A e \in Days : RolledBack(w, e)' = RolledBack(w, e)
<1>. DEFINE done == writer[w].done
<1>1. archive \in [Days -> Seq(Piece)] /\ done \in Seq(Entries)
  BY Me DEF LogInv, LogTyped, WriterState
<1>2. PICK x : x = [day |-> d, size |-> Len(archive[d])]
  OBVIOUS
<1>3. x \in Entries /\ x.day = d /\ x.size = Len(archive[d])
  BY <1>1, <1>2, LenProperties DEF Entries
<1>4. PICK l : l = Append(done, x)
  OBVIOUS
<1>5. /\ l \in Seq(Entries) /\ Len(l) = Len(done) + 1
      /\ \A i \in 1..Len(done) : l[i] = done[i]
      /\ l[Len(done) + 1] = x
  BY <1>1, <1>3, <1>4, AppendProperties
<1>6. DOMAIN l = 1..(Len(done) + 1) /\ DOMAIN done = 1..Len(done) /\ Len(done) \in Nat
  BY <1>1, <1>5, LenProperties
<1>. SUFFICES ASSUME NEW e \in Days PROVE RolledBack(w, e)' = RolledBack(w, e)
  OBVIOUS
<1>7. RolledBack(w, e) = Cut(archive[e], done, e)
  BY DEF RolledBack, Cut, SizesOf
<1>8. RolledBack(w, e)' = Cut(archive'[e], l, e)
  BY <1>2, <1>4 DEF RolledBack, Cut, SizesOf
<1>9. CASE e = d
  <2>1. archive'[e] = archive[d] \o more
    BY <1>1, <1>9
  <2>2. \A i \in DOMAIN l : l[i].day = d => l[i].size = Len(archive[d])
    <3>. SUFFICES ASSUME NEW i \in DOMAIN l, l[i].day = d PROVE l[i].size = Len(archive[d])
      OBVIOUS
    <3>1. i = Len(done) + 1 \/ i \in DOMAIN done
      BY <1>6
    <3>. QED
      BY <3>1, <1>3, <1>5, <1>6
  <2>3. Len(done) + 1 \in DOMAIN l
    BY <1>6
  <2>4. PICK k : k = Len(done) + 1
    OBVIOUS
  <2>5. Cut(archive[d] \o more, l, d) = archive[d]
    <3>1. k \in DOMAIN l /\ l[k].day = d
      BY <2>3, <2>4, <1>3, <1>5
    <3>2. PICK old : old = archive[d]
      OBVIOUS
    <3>3. old \in Seq(Piece)
      BY <3>2, <1>1
    <3>4. \A i \in DOMAIN l : l[i].day = d => l[i].size = Len(old)
      BY <3>2, <2>2
    <3>5. FirstOf(l, d, old)
      BY <3>1, <3>4 DEF FirstOf
    <3>6. Cut(old \o more, l, d) = old
      BY <3>3, <3>5, CutFirst
    <3>. QED
      BY <3>2, <3>6
  <2>6. Cut(archive[d], done, d) = archive[d]
    <3>1. PICK old, h : old = archive[d] /\ h = done
      OBVIOUS
    <3>2. old \in Seq(Piece) /\ \A i \in DOMAIN h : h[i].day # d
      BY <3>1, <1>1
    <3>. QED
      BY <3>1, <3>2, CutNone
  <2>. QED
    BY <1>7, <1>8, <1>9, <2>1, <2>5, <2>6
<1>10. CASE e # d
  <2>1. archive'[e] = archive[e]
    BY <1>1, <1>10
  <2>2. SizesOf(l, e) = SizesOf(done, e)
    <3>1. \A i \in DOMAIN l : l[i].day = e => i \in DOMAIN done /\ l[i] = done[i]
      <4>. SUFFICES ASSUME NEW i \in DOMAIN l, l[i].day = e
                    PROVE  i \in DOMAIN done /\ l[i] = done[i]
        OBVIOUS
      <4>1. i = Len(done) + 1 \/ i \in DOMAIN done
        BY <1>6
      <4>. QED
        BY <4>1, <1>3, <1>5, <1>6, <1>10
    <3>2. \A i \in DOMAIN done : i \in DOMAIN l /\ l[i] = done[i]
      BY <1>5, <1>6
    <3>. QED
      BY <3>1, <3>2 DEF SizesOf
  <2>. QED
    BY <1>7, <1>8, <2>1, <2>2 DEF Cut
<1>. QED
  BY <1>9, <1>10

LEMMA IDsGrow ==
  ASSUME LogInv, LogInv', FilesGrow
  PROVE  /\ \A i \in Inodes : i < nextInode => LineIDs(inode[i]) \subseteq LineIDs(inode'[i])
         /\ current' = current => LineIDs(Contents) \subseteq LineIDs(Contents')
         /\ gone' = gone => Removed \subseteq Removed'
<1>1. ASSUME NEW i \in Inodes, i < nextInode PROVE LineIDs(inode[i]) \subseteq LineIDs(inode'[i])
  <2>1. PICK s, t : s = inode[i] /\ t = inode'[i]
    OBVIOUS
  <2>2. s \in Seq(Piece) /\ t \in Seq(Piece)
    BY <2>1 DEF LogInv, LogTyped
  <2>3. Len(t) >= Len(s) /\ \A k \in 1..Len(s) : t[k] = s[k]
    BY <2>1, <1>1 DEF FilesGrow
  <2>4. DOMAIN s = 1..Len(s) /\ DOMAIN t = 1..Len(t) /\ Len(s) \in Nat /\ Len(t) \in Nat
    BY <2>2, LenProperties
  <2>5. \A k \in DOMAIN s : k \in DOMAIN t /\ t[k] = s[k]
    BY <2>3, <2>4
  <2>6. LineIDs(s) \subseteq LineIDs(t)
    BY <2>5 DEF LineIDs
  <2>. QED
    BY <2>1, <2>6
<1>2. current' = current => LineIDs(Contents) \subseteq LineIDs(Contents')
  <2>1. current # Nil => current \in Inodes /\ current < nextInode
    BY DEF LogInv, LogTyped, InodesAreFresh
  <2>. QED
    BY <1>1, <2>1 DEF Contents
<1>3. gone' = gone => Removed \subseteq Removed'
  <2>1. \A i \in gone.inodes : i \in Inodes /\ i < nextInode
    BY DEF LogInv, LogTyped, InodesAreFresh
  <2>. QED
    BY <1>1, <2>1 DEF Removed
<1>. QED
  BY <1>1, <1>2, <1>3

(* With one writer, what it has got hold of is all there is to keep.        *)
LEMMA KeepsOne ==
  ASSUME OneWriter, NEW w \in Writers, Holding(writer[w])', Rotating(w)', LinesAreKept'
  PROVE  KeepingInv'
BY DEF OneWriter, KeepingInv

(* A step that leaves the files alone, of a writer that is not committing.  *)
LEMMA KeepsQuietly ==
  ASSUME LogInv, KeepingInv, OneWriter, NEW w \in Writers,
         UNCHANGED disk, written' = written,
         Holding(writer[w])', writer'[w].pc # "commit"
  PROVE  KeepingInv'
<1>1. LinesAreKept'
  BY DEF KeepingInv, LinesAreKept, Contents, Archived, Removed, disk
<1>2. Rotating(w)'
  BY DEF Rotating
<1>. QED
  BY <1>1, <1>2, KeepsOne

LEMMA KeepsClosed ==
  ASSUME LogInv, KeepingInv, OneWriter, NEW w \in Writers, Become(w, Closed),
         UNCHANGED disk, written' = written
  PROVE  KeepingInv'
<1>1. PICK s : s = Closed
  OBVIOUS
<1>2. writer'[w] = s /\ s.pc = "closed"
  BY <1>1, ClosedTyped, Become_ DEF LogInv, LogTyped
<1>3. Holding(writer[w])' /\ writer'[w].pc # "commit"
  BY <1>2 DEF Holding
<1>. QED
  BY <1>3, KeepsQuietly

LEMMA OpenKeeps ==
  ASSUME LogInv, KeepingInv, OneWriter, NEW w \in Writers, Open(w)
  PROVE  KeepingInv'
<1>1. PICK s : s = [Closed EXCEPT !.pc = "rotate", !.time = today]
  OBVIOUS
<1>2. s.pc = "rotate" /\ s.piece = Nil
  BY <1>1 DEF Closed
<1>3. writer'[w] = s
  BY <1>1 DEF Open, Become, LogInv, LogTyped
<1>4. Holding(writer[w])' /\ writer'[w].pc # "commit"
  BY <1>2, <1>3 DEF Holding
<1>. QED
  BY <1>4, KeepsQuietly DEF Open

LEMMA CloseKeeps ==
  ASSUME LogInv, KeepingInv, OneWriter, NEW w \in Writers, Close(w)
  PROVE  KeepingInv'
BY KeepsClosed DEF Close

LEMMA WriteHeadKeeps ==
  ASSUME LogInv, KeepingInv, OneWriter, NEW w \in Writers, WriteHead(w)
  PROVE  KeepingInv'
<1>. DEFINE me == writer[w]
<1>1. me \in WriterState /\ me.pc = "ready" /\ Holding(me)
  BY Me DEF WriteHead, KeepingInv
<1>2. PICK piece, s :
        /\ piece.line = nextLine
        /\ Become(w, s)
        /\ \/ s = [me EXCEPT !.time = today, !.piece = piece, !.pc = "rotate", !.file = Nil]
           \/ s = [me EXCEPT !.time = today, !.piece = piece, !.pc = "reopen", !.file = Nil]
           \/ s = [me EXCEPT !.time = today, !.piece = piece, !.pc = "append"]
              /\ current = me.file
  <2>1. PICK ends \in BOOLEAN :
          LET piece == [line |-> nextLine, day |-> today, ends |-> ends]
              state == [me EXCEPT !.time = today, !.piece = piece]
          IN  IF today # me.day
              THEN Become(w, [state EXCEPT !.pc = "rotate", !.file = Nil])
              ELSE IF current # me.file
                THEN Become(w, [state EXCEPT !.pc = "reopen", !.file = Nil])
              ELSE Become(w, [state EXCEPT !.pc = "append"])
    BY DEF WriteHead
  <2>2. PICK piece : piece = [line |-> nextLine, day |-> today, ends |-> ends]
    OBVIOUS
  <2>3. piece.line = nextLine
    BY <2>2
  <2>. QED
    BY <2>1, <2>2, <2>3
<1>3. writer'[w] = s
  BY <1>2 DEF Become, LogInv, LogTyped
<1>4. nextLine # 0
  BY DEF LogInv, LogTyped
<1>5. /\ s.pc \in {"rotate", "reopen", "append"} /\ s.piece = piece
      /\ s.pc = "append" => s.file = current
  BY <1>1, <1>2 DEF WriterState
<1>6. current' = current
  BY DEF WriteHead, disk
<1>7. Holding(writer[w])' /\ writer'[w].pc # "commit"
  BY <1>2, <1>3, <1>4, <1>5, <1>6 DEF Holding
<1>. QED
  BY <1>7, KeepsQuietly DEF WriteHead

LEMMA StageKeeps ==
  ASSUME LogInv, KeepingInv, OneWriter, NEW w \in Writers, Stage(w)
  PROVE  KeepingInv'
<1>. DEFINE me == writer[w]
            split == Split(Contents, me.time)
<1>1. /\ me \in WriterState /\ WriterHolds(me) /\ me.pc = "rotate" /\ me.time \in Days
      /\ Holding(me) /\ me.done = <<>>
  BY Me DEF Stage, KeepingInv, WriterHolds
<1>2. UNCHANGED disk /\ written' = written
  BY DEF Stage
<1>3. CASE Fails(w)
  BY <1>2, <1>3, KeepsClosed DEF Fails
<1>4. CASE Become(w, [me EXCEPT !.pc = "reopen"])
  <2>1. PICK s : s = [me EXCEPT !.pc = "reopen"]
    OBVIOUS
  <2>2. s.pc = "reopen" /\ s.piece = me.piece /\ writer'[w] = s
    BY <1>1, <1>4, <2>1 DEF WriterState, Become, LogInv, LogTyped
  <2>3. Holding(writer[w])' /\ writer'[w].pc # "commit"
    BY <1>1, <2>2 DEF Holding
  <2>. QED
    BY <1>2, <2>3, KeepsQuietly
<1>5. CASE /\ Rotates(Contents, me.time)
           /\ Become(w, [me EXCEPT !.pc = "commit", !.blocks = split.blocks,
                                   !.stays = split.rest])
  <2>1. PICK s : s = [me EXCEPT !.pc = "commit", !.blocks = split.blocks, !.stays = split.rest]
    OBVIOUS
  <2>2. /\ s.pc = "commit" /\ s.piece = me.piece /\ writer'[w] = s /\ s.done = <<>>
        /\ s.blocks = split.blocks /\ s.stays = split.rest
    <3>. HIDE DEF split
    <3>. QED
      BY <1>1, <1>5, <2>1 DEF WriterState, Become, LogInv, LogTyped
  <2>3. Holding(writer[w])'
    BY <1>1, <2>2 DEF Holding
  <2>4. /\ current' = current /\ inode' = inode /\ archive' = archive /\ gone' = gone
        /\ Contents' = Contents
    BY <1>2 DEF disk, Contents
  <2>5. LineIDs(Contents) \subseteq LineIDs(s.stays) \union InBlocks(s.blocks)
    <3>1. PICK log, time : log = Contents /\ time = me.time
      OBVIOUS
    <3>2. log \in Seq(Piece) /\ time \in Days /\ Rotates(log, time)
      BY <3>1, <1>1, <1>5, ContentsTyped
    <3>3. LineIDs(log) \subseteq LineIDs(Split(log, time).rest) \union InBlocks(Split(log, time).blocks)
      BY <3>2, SplitKeeps
    <3>. QED
      BY <3>1, <3>3, <2>2
  <2>6. \A d \in Days : RolledBack(w, d)' = archive[d]
    <3>. SUFFICES ASSUME NEW d \in Days PROVE RolledBack(w, d)' = archive[d]
      OBVIOUS
    <3>1. PICK log, h : log = archive[d] /\ h = s.done
      OBVIOUS
    <3>2. log \in Seq(Piece) /\ \A i \in DOMAIN h : h[i].day # d
      BY <3>1, <2>2, EmptySeq, LenProperties DEF LogInv, LogTyped
    <3>3. Cut(log, h, d) = log
      BY <3>2, CutNone
    <3>. QED
      BY <2>2, <2>4, <3>1, <3>3 DEF RolledBack, Cut, SizesOf
  <2>7. InBlocks(Before(w))' = Archived
    BY <2>6 DEF InBlocks, Before, Archived
  <2>8. LinesAreKept /\ LinesAreKept' /\ Removed' = Removed
    BY <1>2, <2>4 DEF KeepingInv, LinesAreKept, Archived, Removed
  <2>9. Rotating(w)'
    <3>1. \A i \in DOMAIN s.done : s.blocks[s.done[i].day] = <<>>
      BY <2>2, EmptySeq, LenProperties
    <3>2. written' \subseteq LineIDs(Contents') \union InBlocks(Before(w))' \union Removed'
      BY <1>2, <2>4, <2>7, <2>8 DEF LinesAreKept
    <3>. QED
      BY <2>2, <2>4, <2>5, <3>1, <3>2 DEF Rotating
  <2>. QED
    BY <2>3, <2>8, <2>9, KeepsOne
<1>. QED
  BY <1>3, <1>4, <1>5 DEF Stage

LEMMA WriteRestKeeps ==
  ASSUME LogInv, LogInv', FilesGrow, KeepingInv, OneWriter, NEW w \in Writers, WriteRest(w)
  PROVE  KeepingInv'
<1>. DEFINE me == writer[w]
<1>1. me \in WriterState /\ me.pc = "ready" /\ Holding(me) /\ LinesAreKept
  BY Me DEF WriteRest, KeepingInv
<1>2. /\ current' = current /\ gone' = gone /\ archive' = archive /\ written' = written
  BY DEF WriteRest
<1>3. LinesAreKept'
  BY <1>1, <1>2, IDsGrow DEF LinesAreKept, Archived
<1>4. CASE Fails(w)
  <2>1. PICK s : s = Closed
    OBVIOUS
  <2>2. writer'[w] = s /\ s.pc = "closed"
    BY <1>4, <2>1, ClosedTyped, Become_ DEF LogInv, LogTyped, Fails
  <2>3. Holding(writer[w])' /\ Rotating(w)'
    BY <2>2 DEF Holding, Rotating
  <2>. QED
    BY <1>3, <2>3, KeepsOne
<1>5. CASE Become(w, [me EXCEPT !.bol = TRUE])
  <2>1. PICK s : s = [me EXCEPT !.bol = TRUE]
    OBVIOUS
  <2>2. writer'[w] = s /\ s.pc = "ready" /\ s.file = me.file
    BY <1>1, <1>5, <2>1 DEF Become, LogInv, LogTyped, WriterState
  <2>3. Holding(writer[w])' /\ Rotating(w)'
    BY <1>1, <1>2, <2>2 DEF Holding, Rotating
  <2>. QED
    BY <1>3, <2>3, KeepsOne
<1>. QED
  BY <1>4, <1>5 DEF WriteRest, FailsShort

LEMMA AppendLineKeeps ==
  ASSUME LogInv, LogInv', FilesGrow, KeepingInv, OneWriter, NEW w \in Writers, AppendLine(w)
  PROVE  KeepingInv'
<1>. DEFINE me == writer[w]
<1>1. /\ me \in WriterState /\ me.pc = "append" /\ Holding(me) /\ LinesAreKept
      /\ me.file \in Inodes /\ me.piece \in Piece /\ me.piece.line # 0
  BY Me DEF AppendLine, KeepingInv, WriterHolds, WriterState, Holding
<1>2. current' = current /\ gone' = gone /\ archive' = archive
  BY DEF AppendLine
<1>3. LineIDs(Contents) \subseteq LineIDs(Contents') /\ Removed \subseteq Removed'
      /\ Archived' = Archived
  BY <1>2, IDsGrow DEF Archived
<1>4. CASE Fails(w) /\ UNCHANGED written
  <2>1. PICK s : s = Closed
    OBVIOUS
  <2>2. writer'[w] = s /\ s.pc = "closed"
    BY <1>4, <2>1, ClosedTyped, Become_ DEF LogInv, LogTyped, Fails
  <2>3. Holding(writer[w])' /\ Rotating(w)'
    BY <2>2 DEF Holding, Rotating
  <2>4. LinesAreKept'
    BY <1>1, <1>3, <1>4 DEF LinesAreKept
  <2>. QED
    BY <2>3, <2>4, KeepsOne
<1>5. CASE /\ Extend(me.file, <<me.piece>>)
           /\ written' = written \union {me.piece.line}
           /\ Become(w, [me EXCEPT !.pc = "ready", !.bol = me.piece.ends, !.piece = Nil])
  <2>1. PICK s : s = [me EXCEPT !.pc = "ready", !.bol = me.piece.ends, !.piece = Nil]
    OBVIOUS
  <2>2. writer'[w] = s /\ s.pc = "ready" /\ s.file = me.file
    BY <1>1, <1>5, <2>1 DEF Become, LogInv, LogTyped, WriterState
  <2>3. Holding(writer[w])' /\ Rotating(w)'
    BY <1>1, <1>2, <2>2 DEF Holding, Rotating
  <2>4. me.piece.line \in LineIDs(inode'[me.file])
    <3>1. PICK i, old, more : i = me.file /\ old = inode[i] /\ more = <<me.piece>>
      OBVIOUS
    <3>2. i \in Inodes /\ old \in Seq(Piece) /\ more \in Seq(Piece) /\ Extend(i, more)
      BY <1>1, <1>5, <3>1 DEF LogInv, LogTyped
    <3>3. inode'[i] = old \o more
      BY <3>1, <3>2, Extended
    <3>4. me.piece.line \in LineIDs(more)
      <4>1. 1 \in DOMAIN more /\ more[1] = me.piece
        BY <3>1
      <4>. QED
        BY <4>1, <1>1 DEF LineIDs
    <3>5. LineIDs(old \o more) = LineIDs(old) \union LineIDs(more)
      BY <3>2, IDsOfConcat
    <3>6. me.piece.line \in LineIDs(inode'[i])
      BY <3>3, <3>4, <3>5
    <3>. QED
      BY <3>1, <3>6
  <2>5. me.piece.line \in LineIDs(Contents') \union Removed'
    <3>1. CASE me.file = current
      BY <3>1, <2>4, <1>1, <1>2, NilIsNothing DEF Contents
    <3>2. CASE me.file \in gone.inodes
      BY <3>2, <2>4, <1>2 DEF Removed
    <3>. QED
      BY <1>1, <3>1, <3>2 DEF Holding
  <2>6. LinesAreKept'
    BY <1>1, <1>3, <1>5, <2>5 DEF LinesAreKept
  <2>. QED
    BY <2>3, <2>6, KeepsOne
<1>. QED
  BY <1>4, <1>5 DEF AppendLine, FailsShort

(* What a failed append left in an archive is more than was in it.          *)
LEMMA FoundKeeps ==
  ASSUME LogInv, NEW d \in Days, NEW block \in Seq(Piece), NEW n \in 0..Len(block), NEW e \in Days
  PROVE  LineIDs(archive[e]) \subseteq LineIDs(Found(d, block, n)[e])
<1>1. archive[d] \in Seq(Piece)
  BY DEF LogInv, LogTyped
<1>2. PICK a, b : a = archive[d] /\ b = SubSeq(block, 1, n)
  OBVIOUS
<1>3. b \in Seq(Piece) /\ Found(d, block, n)[d] = a \o b
  BY <1>2, FoundTyped
<1>4. LineIDs(a) \subseteq LineIDs(a \o b)
  BY <1>1, <1>2, <1>3, IDsOfConcat
<1>5. \A x \in Days \ {d} : Found(d, block, n)[x] = archive[x]
  <2>1. archive \in [Days -> Seq(Piece)]
    BY DEF LogInv, LogTyped
  <2>. QED
    BY <2>1 DEF Found
<1>6. CASE e = d
  BY <1>2, <1>3, <1>4, <1>6
<1>7. CASE e # d
  BY <1>5, <1>7
<1>. QED
  BY <1>6, <1>7

(* What a roll-back takes out of an archive is a front of it.               *)
LEMMA RolledBackIDs ==
  ASSUME LogInv, NEW w \in Writers, NEW d \in Days
  PROVE  /\ LineIDs(RolledBack(w, d)) \subseteq LineIDs(archive[d])
         /\ archive[d] = <<>> => RolledBack(w, d) = <<>>
<1>1. archive[d] \in Seq(Piece)
  BY DEF LogInv, LogTyped
<1>2. PICK n \in 0..Len(archive[d]) : RolledBack(w, d) = SubSeq(archive[d], 1, n)
  BY RolledBackIsFront
<1>3. LineIDs(RolledBack(w, d)) \subseteq LineIDs(archive[d])
  BY <1>1, <1>2, IDsOfFront
<1>4. ASSUME archive[d] = <<>> PROVE RolledBack(w, d) = <<>>
  <2>1. Len(archive[d]) = 0
    BY <1>4, EmptySeq
  <2>2. n = 0
    BY <2>1
  <2>. QED
    BY <1>1, <1>2, <2>2
<1>. QED
  BY <1>3, <1>4

(* A roll-back in the middle of a commit.                                   *)
LEMMA RollBackKeeps ==
  ASSUME LogInv, KeepingInv, OneWriter, NEW w \in Writers, writer[w].pc = "commit",
         NEW found, \A e \in Days : LineIDs(archive[e]) \subseteq LineIDs(found[e]),
         RollBack(w, found), UNCHANGED <<inode, current, gone, written>>
  PROVE  KeepingInv'
<1>1. PICK s : s = Closed
  OBVIOUS
<1>2. writer'[w] = s /\ s.pc = "closed"
  BY <1>1, ClosedTyped, Become_ DEF LogInv, LogTyped, RollBack, Fails
<1>3. Holding(writer[w])' /\ Rotating(w)'
  BY <1>2 DEF Holding, Rotating
<1>4. InBlocks(Before(w)) \subseteq Archived'
  <2>. SUFFICES ASSUME NEW e \in Days
                PROVE  LineIDs(RolledBack(w, e)) \subseteq LineIDs(archive'[e])
    BY DEF Archived, InBlocks, Before
  <2>1. archive'[e] = found[e] \/ archive'[e] = RolledBack(w, e)
    BY DEF RollBack
  <2>2. LineIDs(RolledBack(w, e)) \subseteq LineIDs(found[e])
    BY RolledBackIDs
  <2>. QED
    BY <2>1, <2>2
<1>5. written \subseteq LineIDs(Contents) \union InBlocks(Before(w)) \union Removed
  BY DEF KeepingInv, Rotating
<1>6. LinesAreKept'
  BY <1>4, <1>5 DEF LinesAreKept, Contents, Removed
<1>. QED
  BY <1>3, <1>6, KeepsOne

LEMMA CommitArchiveKeeps ==
  ASSUME LogInv, KeepingInv, OneWriter, NEW w \in Writers, CommitArchive(w)
  PROVE  KeepingInv'
<1>. DEFINE me == writer[w]
<1>1. /\ me \in WriterState /\ me.pc = "commit" /\ Holding(me) /\ Rotating(w) /\ LinesAreKept
  BY Me DEF CommitArchive, KeepingInv
<1>2. PICK d : d = CHOOSE e \in Staged(me) : \A f \in Staged(me) : e <= f
  OBVIOUS
<1>3. d \in Days /\ me.blocks[d] # <<>> /\ me.blocks[d] \in Seq(Piece)
  BY <1>2, NextStaged DEF CommitArchive
<1>4. UNCHANGED <<inode, current, gone, written>>
  BY DEF CommitArchive
<1>5. CASE \E n \in 0..Len(me.blocks[d]) : RollBack(w, Found(d, me.blocks[d], n))
  <2>1. PICK n \in 0..Len(me.blocks[d]) : RollBack(w, Found(d, me.blocks[d], n))
    BY <1>5
  <2>2. \A e \in Days : LineIDs(archive[e]) \subseteq LineIDs(Found(d, me.blocks[d], n)[e])
    BY <1>3, FoundKeeps
  <2>. QED
    BY <1>1, <1>4, <2>1, <2>2, RollBackKeeps
<1>6. CASE /\ archive' = [archive EXCEPT ![d] = @ \o me.blocks[d]]
           /\ Become(w, [me EXCEPT !.blocks[d] = <<>>,
                                   !.done = Append(@, [day |-> d, size |-> Len(archive[d])])])
  <2>1. archive \in [Days -> Seq(Piece)] /\ writer \in [Writers -> WriterState]
    BY DEF LogInv, LogTyped
  <2>2. PICK more, x, h : /\ more = me.blocks[d] /\ x = [day |-> d, size |-> Len(archive[d])]
                          /\ h = Append(me.done, x)
    OBVIOUS
  <2>3. PICK fewer : fewer = [me.blocks EXCEPT ![d] = <<>>]
    OBVIOUS
  <2>4. PICK s : s = [me EXCEPT !.blocks = fewer, !.done = h]
    OBVIOUS
  <2>5. Become(w, s)
    BY <1>6, <2>2, <2>3, <2>4
  <2>6. /\ writer'[w] = s /\ s.pc = "commit" /\ s.piece = me.piece /\ s.stays = me.stays
        /\ s.blocks = fewer /\ s.done = h
    BY <1>1, <2>1, <2>4, <2>5 DEF Become, WriterState
  <2>7. Holding(writer[w])'
    BY <1>1, <2>6 DEF Holding
  <2>8. /\ \A i \in DOMAIN me.done : me.blocks[me.done[i].day] = <<>>
        /\ current # Nil => LineIDs(Contents) \subseteq
             LineIDs(me.stays) \union InBlocks(me.blocks) \union Archived \union gone.lines
        /\ written \subseteq LineIDs(Contents) \union InBlocks(Before(w)) \union Removed
    BY <1>1 DEF Rotating
  <2>9. \A i \in DOMAIN me.done : me.done[i].day # d
    BY <1>3, <2>8
  <2>10. \A e \in Days : RolledBack(w, e)' = RolledBack(w, e)
    <3>1. more \in Seq(Piece) /\ archive' = [archive EXCEPT ![d] = @ \o more]
      BY <1>3, <1>6, <2>2
    <3>2. writer'[w].done = Append(writer[w].done, [day |-> d, size |-> Len(archive[d])])
      BY <2>2, <2>6
    <3>. QED
      BY <1>3, <2>9, <3>1, <3>2, CommitIsUndone
  <2>11. me.blocks \in [Days -> Seq(Piece)] /\ me.done \in Seq(Entries)
    BY <1>1 DEF WriterState
  <2>12. /\ \A e \in Days \ {d} : archive'[e] = archive[e] /\ fewer[e] = me.blocks[e]
         /\ fewer[d] = <<>> /\ archive'[d] = archive[d] \o more
    BY <1>3, <1>6, <2>1, <2>2, <2>3, <2>11
  <2>13. LineIDs(archive'[d]) = LineIDs(archive[d]) \union LineIDs(me.blocks[d])
    BY <1>3, <2>1, <2>2, <2>12, IDsOfConcat
  <2>14. Archived \subseteq Archived'
    BY <2>12, <2>13 DEF Archived
  <2>15. InBlocks(me.blocks) \subseteq InBlocks(fewer) \union Archived'
    <3>. SUFFICES ASSUME NEW e \in Days
                  PROVE  LineIDs(me.blocks[e]) \subseteq InBlocks(fewer) \union Archived'
      BY DEF InBlocks
    <3>1. CASE e = d
      BY <1>3, <3>1, <2>13 DEF Archived
    <3>2. CASE e # d
      BY <3>2, <2>12 DEF InBlocks
    <3>. QED
      BY <3>1, <3>2
  <2>16. \A i \in DOMAIN h : fewer[h[i].day] = <<>>
    <3>1. x \in Entries /\ x.day = d
      BY <1>3, <2>1, <2>2, LenProperties DEF Entries
    <3>2. /\ h \in Seq(Entries) /\ Len(h) = Len(me.done) + 1
          /\ \A i \in 1..Len(me.done) : h[i] = me.done[i]
          /\ h[Len(me.done) + 1] = x
      BY <2>2, <2>11, <3>1, AppendProperties
    <3>3. DOMAIN h = 1..(Len(me.done) + 1) /\ DOMAIN me.done = 1..Len(me.done)
          /\ Len(me.done) \in Nat
      BY <2>11, <3>2, LenProperties
    <3>. SUFFICES ASSUME NEW i \in DOMAIN h PROVE fewer[h[i].day] = <<>>
      OBVIOUS
    <3>4. CASE i = Len(me.done) + 1
      BY <3>1, <3>2, <3>4, <2>12
    <3>5. CASE i \in DOMAIN me.done
      <4>1. h[i] = me.done[i] /\ me.blocks[h[i].day] = <<>> /\ h[i].day # d
        BY <3>2, <3>3, <3>5, <2>8, <2>9
      <4>2. h[i].day \in Days
        <5>1. h[i] \in Entries
          BY <3>2, ElementOfSeq, <3>3
        <5>. QED
          BY <5>1 DEF Entries
      <4>. QED
        BY <4>1, <4>2, <2>12
    <3>. QED
      BY <3>3, <3>4, <3>5
  <2>17. LinesAreKept'
    BY <1>1, <1>4, <2>14 DEF LinesAreKept, Contents, Removed
  <2>18. InBlocks(Before(w))' = InBlocks(Before(w))
    BY <2>10 DEF InBlocks, Before
  <2>19. Contents' = Contents /\ Removed' = Removed
    BY <1>4 DEF Contents, Removed
  <2>20. /\ current' # Nil => LineIDs(Contents') \subseteq
              LineIDs(s.stays) \union InBlocks(s.blocks) \union Archived' \union gone'.lines
         /\ written' \subseteq LineIDs(Contents') \union InBlocks(Before(w))' \union Removed'
    BY <1>4, <2>6, <2>8, <2>14, <2>15, <2>18, <2>19
  <2>21. Rotating(w)'
    BY <2>6, <2>16, <2>20 DEF Rotating
  <2>. QED
    BY <2>7, <2>17, <2>21, KeepsOne
<1>. QED
  BY <1>2, <1>5, <1>6 DEF CommitArchive, Found

LEMMA ReplaceKeeps ==
  ASSUME LogInv, KeepingInv, OneWriter, NEW w \in Writers, Replace(w)
  PROVE  KeepingInv'
<1>. DEFINE me == writer[w]
<1>1. me \in WriterState /\ me.pc = "commit" /\ Holding(me) /\ Rotating(w)
      /\ Staged(me) = {} /\ nextInode \in Inodes
  BY Me DEF Replace, KeepingInv
<1>2. gone' = gone /\ written' = written
  BY DEF Replace
<1>3. CASE RollBack(w, archive) /\ UNCHANGED <<inode, current, nextInode>>
  BY <1>1, <1>2, <1>3, RollBackKeeps
<1>4. CASE /\ current' = nextInode /\ nextInode' = nextInode + 1
           /\ inode' = [inode EXCEPT ![nextInode] = me.stays]
           /\ Become(w, [me EXCEPT !.pc = "reopen", !.stays = <<>>, !.done = <<>>])
           /\ UNCHANGED archive
  <2>1. PICK s : s = [me EXCEPT !.pc = "reopen", !.stays = <<>>, !.done = <<>>]
    OBVIOUS
  <2>2. writer'[w] = s /\ s.pc = "reopen" /\ s.piece = me.piece
    BY <1>1, <1>4, <2>1 DEF Become, LogInv, LogTyped, WriterState
  <2>3. Holding(writer[w])' /\ Rotating(w)'
    BY <1>1, <2>2 DEF Holding, Rotating
  <2>4. inode \in [Inodes -> Seq(Piece)] /\ nextInode # Nil
    BY <1>1, NilIsNothing DEF LogInv, LogTyped
  <2>5. Contents' = me.stays
    BY <1>1, <1>4, <2>4 DEF Contents
  <2>6. Archived' = Archived
    BY <1>4 DEF Archived
  <2>7. Removed' = Removed
    <3>1. \A i \in gone.inodes : i \in Inodes /\ i < nextInode /\ i # nextInode
      BY <1>1, LogAssumption DEF LogInv, LogTyped, InodesAreFresh, Inodes
    <3>2. \A i \in gone.inodes : inode'[i] = inode[i]
      BY <1>4, <2>4, <3>1
    <3>. QED
      BY <1>2, <3>2 DEF Removed
  <2>8. InBlocks(me.blocks) = {}
    <3>1. \A d \in Days : me.blocks[d] = <<>>
      BY <1>1 DEF Staged
    <3>. QED
      BY <3>1, NoIDs DEF InBlocks
  <2>9. InBlocks(Before(w)) \subseteq Archived
    <3>1. ASSUME NEW d \in Days PROVE LineIDs(RolledBack(w, d)) \subseteq LineIDs(archive[d])
      <4>1. PICK n \in 0..Len(archive[d]) : RolledBack(w, d) = SubSeq(archive[d], 1, n)
        BY RolledBackIsFront
      <4>2. archive[d] \in Seq(Piece)
        BY DEF LogInv, LogTyped
      <4>. QED
        BY <4>1, <4>2, IDsOfFront
    <3>. QED
      BY <3>1 DEF InBlocks, Before, Archived
  <2>10. LineIDs(Contents) \subseteq LineIDs(me.stays) \union Archived \union Removed
    <3>1. CASE current # Nil
      BY <1>1, <3>1, <2>8 DEF Rotating, Removed
    <3>2. CASE current = Nil
      BY <3>2, NoIDs DEF Contents
    <3>. QED
      BY <3>1, <3>2
  <2>11. written \subseteq LineIDs(Contents) \union InBlocks(Before(w)) \union Removed
    BY <1>1 DEF Rotating
  <2>12. LinesAreKept'
    BY <1>2, <2>5, <2>6, <2>7, <2>9, <2>10, <2>11 DEF LinesAreKept
  <2>. QED
    BY <2>3, <2>12, KeepsOne
<1>. QED
  BY <1>3, <1>4 DEF Replace

LEMMA ReopenKeeps ==
  ASSUME LogInv, LogInv', FilesGrow, KeepingInv, OneWriter, NEW w \in Writers, Reopen(w)
  PROVE  KeepingInv'
<1>. DEFINE me == writer[w]
<1>1. me \in WriterState /\ me.pc = "reopen" /\ Holding(me) /\ LinesAreKept
  BY Me DEF Reopen, KeepingInv
<1>2. gone' = gone /\ archive' = archive /\ written' = written
  BY DEF Reopen
<1>3. Removed \subseteq Removed' /\ Archived' = Archived
  BY <1>2, IDsGrow DEF Archived
<1>4. CASE Fails(w) /\ UNCHANGED <<inode, current, nextInode>>
  BY <1>2, <1>4, KeepsClosed DEF Fails, disk
<1>5. CASE ~(Fails(w) /\ UNCHANGED <<inode, current, nextInode>>)
  <2>1. PICK file : file = IF current = Nil THEN nextInode ELSE current
    OBVIOUS
  <2>2. PICK s : s = [me EXCEPT !.file = file, !.day = me.time, !.bol = TRUE,
                        !.pc = IF me.piece = Nil THEN "ready" ELSE "append"]
    OBVIOUS
  <2>3. current' = file /\ Become(w, s)
    BY <1>5, <2>1, <2>2 DEF Reopen
  <2>4. /\ writer'[w] = s /\ s.file = file /\ s.piece = me.piece
        /\ s.pc = IF me.piece = Nil THEN "ready" ELSE "append"
    BY <1>1, <2>2, <2>3 DEF Become, LogInv, LogTyped, WriterState
  <2>5. Holding(writer[w])' /\ Rotating(w)'
    BY <1>1, <2>3, <2>4 DEF Holding, Rotating
  <2>6. LineIDs(Contents) \subseteq LineIDs(Contents')
    <3>1. CASE current = Nil
      BY <3>1, NoIDs DEF Contents
    <3>2. CASE current # Nil
      BY <3>2, <2>1, <2>3, IDsGrow
    <3>. QED
      BY <3>1, <3>2
  <2>7. LinesAreKept'
    BY <1>1, <1>2, <1>3, <2>6 DEF LinesAreKept
  <2>. QED
    BY <2>5, <2>7, KeepsOne
<1>. QED
  BY <1>4, <1>5

LEMMA CrashKeeps ==
  ASSUME LogInv, KeepingInv, Crash
  PROVE  KeepingInv'
<1>1. LinesAreKept'
  BY DEF Crash, KeepingInv, LinesAreKept, Contents, Archived, Removed, disk
<1>2. ASSUME NEW w \in Writers PROVE Holding(writer[w])' /\ Rotating(w)'
  <2>1. PICK s : s = Closed
    OBVIOUS
  <2>2. writer'[w] = s /\ s.pc = "closed"
    BY <2>1, ClosedTyped DEF Crash
  <2>. QED
    BY <2>2 DEF Holding, Rotating
<1>. QED
  BY <1>1, <1>2 DEF KeepingInv

(* Nobody but the writers moved.                                            *)
LEMMA UnmovedKeeps ==
  ASSUME KeepingInv, UNCHANGED <<disk, writer, written>>
  PROVE  KeepingInv'
<1>1. LinesAreKept'
  BY DEF KeepingInv, LinesAreKept, Contents, Archived, Removed, disk
<1>2. ASSUME NEW w \in Writers PROVE Holding(writer[w])' /\ Rotating(w)'
  <2>1. \A d \in Days : RolledBack(w, d)' = RolledBack(w, d)
    BY DEF RolledBack, disk
  <2>2. Before(w)' = Before(w)
    BY <2>1 DEF Before
  <2>3. /\ Contents' = Contents /\ Archived' = Archived /\ Removed' = Removed
        /\ current' = current /\ gone' = gone /\ writer' = writer /\ written' = written
    BY DEF Contents, Archived, Removed, disk
  <2>4. Holding(writer[w]) /\ Rotating(w)
    BY DEF KeepingInv
  <2>. QED
    BY <2>2, <2>3, <2>4 DEF Holding, Rotating, InBlocks
<1>. QED
  BY <1>1, <1>2 DEF KeepingInv

LEMMA RemoveCurrentKeeps ==
  ASSUME LogInv, KeepingInv, RemoveCurrent
  PROVE  KeepingInv'
<1>1. /\ current' = Nil /\ current # Nil /\ UNCHANGED <<inode, archive, writer, written>>
      /\ gone'.lines = gone.lines /\ gone'.inodes = gone.inodes \union {current}
  BY DEF RemoveCurrent, LogInv, LogTyped
<1>2. Contents = inode[current] /\ LineIDs(Contents') = {} /\ Archived' = Archived
  BY <1>1, NoIDs DEF Contents, Archived
<1>3. Removed' = Removed \union LineIDs(Contents)
  BY <1>1, <1>2 DEF Removed
<1>4. LinesAreKept'
  BY <1>1, <1>2, <1>3 DEF KeepingInv, LinesAreKept
<1>5. ASSUME NEW w \in Writers PROVE Holding(writer[w])' /\ Rotating(w)'
  <2>1. \A d \in Days : RolledBack(w, d)' = RolledBack(w, d)
    BY <1>1 DEF RolledBack
  <2>2. Before(w)' = Before(w)
    BY <2>1 DEF Before
  <2>3. PICK s : s = writer[w]
    OBVIOUS
  <2>4. Holding(s) /\ Rotating(w) /\ writer'[w] = s
    BY <1>1, <2>3 DEF KeepingInv
  <2>5. Holding(s)'
    BY <1>1, <2>4 DEF Holding
  <2>6. Rotating(w)'
    BY <1>1, <1>2, <1>3, <2>2, <2>3, <2>4 DEF Rotating, InBlocks
  <2>. QED
    BY <2>4, <2>5, <2>6 DEF Holding
<1>. QED
  BY <1>4, <1>5 DEF KeepingInv

LEMMA RemoveArchiveKeeps ==
  ASSUME LogInv, LogInv', KeepingInv, NEW d \in Days, RemoveArchive(d)
  PROVE  KeepingInv'
<1>1. /\ UNCHANGED <<inode, current, writer, written>>
      /\ gone'.lines = gone.lines \union LineIDs(archive[d]) /\ gone'.inodes = gone.inodes
      /\ archive'[d] = <<>> /\ \A e \in Days \ {d} : archive'[e] = archive[e]
  BY DEF RemoveArchive, LogInv, LogTyped
<1>2. Contents' = Contents
  BY <1>1 DEF Contents
<1>3. Removed' = Removed \union LineIDs(archive[d])
  BY <1>1 DEF Removed
<1>4. Archived \subseteq Archived' \union LineIDs(archive[d])
  BY <1>1 DEF Archived
<1>5. LinesAreKept'
  BY <1>1, <1>2, <1>3, <1>4 DEF KeepingInv, LinesAreKept
<1>6. ASSUME NEW w \in Writers PROVE Holding(writer[w])' /\ Rotating(w)'
  <2>1. \A e \in Days \ {d} : RolledBack(w, e)' = RolledBack(w, e)
    BY <1>1 DEF RolledBack
  <2>2. LineIDs(RolledBack(w, d)) \subseteq LineIDs(archive[d])
    BY RolledBackIDs
  <2>3. InBlocks(Before(w)) \subseteq InBlocks(Before(w))' \union LineIDs(archive[d])
    BY <2>1, <2>2 DEF InBlocks, Before
  <2>4. Holding(writer[w]) /\ Rotating(w)
    BY DEF KeepingInv
  <2>5. Holding(writer[w])'
    BY <1>1, <2>4 DEF Holding
  <2>6. Rotating(w)'
    BY <1>1, <1>2, <1>3, <1>4, <2>3, <2>4 DEF Rotating
  <2>. QED
    BY <2>5, <2>6
<1>. QED
  BY <1>5, <1>6 DEF KeepingInv

LEMMA KeepingStep == LogInv /\ KeepingInv /\ OneWriter /\ [LogNext]_logVars => KeepingInv'
<1>. SUFFICES ASSUME LogInv, KeepingInv, OneWriter, [LogNext]_logVars PROVE KeepingInv'
  OBVIOUS
<1>1. FilesGrow /\ LogInv'
  BY FilesGrow_, LogStep
<1>2. ASSUME NEW w \in Writers,
             \/ Open(w) \/ Close(w) \/ WriteHead(w) \/ WriteRest(w) \/ AppendLine(w)
             \/ Stage(w) \/ CommitArchive(w) \/ Replace(w) \/ Reopen(w)
      PROVE  KeepingInv'
  BY <1>1, <1>2, OpenKeeps, CloseKeeps, WriteHeadKeeps, WriteRestKeeps, AppendLineKeeps,
     StageKeeps, CommitArchiveKeeps, ReplaceKeeps, ReopenKeeps
<1>3. ASSUME NEW d \in Days, RemoveArchive(d) PROVE KeepingInv'
  BY <1>1, <1>3, RemoveArchiveKeeps
<1>4. CASE RemoveCurrent \/ Crash
  BY <1>4, RemoveCurrentKeeps, CrashKeeps
<1>5. CASE LogDayPasses \/ Follow \/ PollStat \/ PollRead \/ UNCHANGED logVars
  <2>1. UNCHANGED <<disk, writer, written>>
    BY <1>5 DEF LogDayPasses, Follow, PollStat, PollRead, logVars
  <2>. QED
    BY <2>1, UnmovedKeeps
<1>. QED
  BY <1>2, <1>3, <1>4, <1>5 DEF LogNext

LEMMA KeepingStarts == LogInit => KeepingInv
<1>. SUFFICES ASSUME LogInit PROVE KeepingInv
  OBVIOUS
<1>1. ASSUME NEW w \in Writers PROVE Holding(writer[w]) /\ Rotating(w)
  <2>1. writer[w].pc = "closed"
    BY ClosedTyped DEF LogInit
  <2>. QED
    BY <2>1 DEF Holding, Rotating
<1>2. LinesAreKept
  <2>1. CASE written = {}
    BY <2>1 DEF LinesAreKept
  <2>2. CASE /\ \E log \in {Old, Legacy, Ahead} :
                  inode = [i \in Inodes |-> IF i = 1 THEN log ELSE <<>>]
             /\ current = 1 /\ written = {1, 2}
    <3>1. PICK log \in {Old, Legacy, Ahead} : inode = [i \in Inodes |-> IF i = 1 THEN log ELSE <<>>]
      BY <2>2
    <3>2. Contents = log
      <4>1. 1 \in Inodes
        BY LogAssumption DEF Inodes
      <4>. QED
        BY <2>2, <3>1, <4>1, NilIsNothing DEF Contents
    <3>3. PICK i, k \in DOMAIN log : log[i].line = 1 /\ log[k].line = 2
      BY OldLogs
    <3>4. 1 \in LineIDs(log) /\ 2 \in LineIDs(log)
      BY <3>3 DEF LineIDs
    <3>. QED
      BY <2>2, <3>2, <3>4 DEF LinesAreKept
  <2>. QED
    BY <2>1, <2>2 DEF LogInit
<1>. QED
  BY <1>1, <1>2 DEF KeepingInv

(* With one writer at a time on a path, a line that was written is in the   *)
(* log or in an archive unless somebody deleted the file it was in, whatever *)
(* fails or crashes in the middle of a rotation (Rotate, commit,            *)
(* rollbackArchives).                                                       *)
THEOREM LinesKept == OneWriter => (LogSpec => []LinesAreKept)
<1>. SUFFICES ASSUME OneWriter PROVE LogSpec => []LinesAreKept
  OBVIOUS
<1>1. KeepingInv => LinesAreKept
  BY DEF KeepingInv
<1>2. LogInv /\ KeepingInv /\ [LogNext]_logVars => KeepingInv'
  BY KeepingStep
<1>. QED
  BY <1>1, <1>2, LogInit_, LogStep, KeepingStarts, PTL DEF LogSpec

-------------------------------------------------------------------------------
(* What leads a log, when there is one writer at a time.                    *)

LEMMA PieceAdded ==
  ASSUME NEW log \in Seq(Piece), NEW p \in Piece
  PROVE  /\ log \o <<p>> \in Seq(Piece) /\ Len(log) \in Nat
         /\ DOMAIN log = 1..Len(log) /\ DOMAIN (log \o <<p>>) = 1..(Len(log) + 1)
         /\ \A k \in 1..Len(log) : (log \o <<p>>)[k] = log[k]
         /\ (log \o <<p>>)[Len(log) + 1] = p
         /\ log \o <<p>> # <<>> /\ Last(log \o <<p>>) = p
<1>1. PICK one, more : one = <<p>> /\ more = log \o one
  OBVIOUS
<1>2. one \in Seq(Piece) /\ Len(one) = 1 /\ one[1] = p
  BY <1>1
<1>3. Len(log) \in Nat /\ DOMAIN log = 1..Len(log)
  BY LenProperties
<1>4. /\ more \in Seq(Piece) /\ Len(more) = Len(log) + 1
      /\ \A k \in 1..(Len(log) + 1) :
           more[k] = IF k <= Len(log) THEN log[k] ELSE one[k - Len(log)]
  BY <1>1, <1>2, ConcatProperties
<1>5. DOMAIN more = 1..(Len(log) + 1) /\ more # <<>>
  BY <1>3, <1>4, LenProperties, EmptySeq
<1>6. \A k \in 1..Len(log) : more[k] = log[k]
  BY <1>3, <1>4
<1>7. more[Len(log) + 1] = p
  BY <1>2, <1>3, <1>4
<1>8. Last(more) = p
  BY <1>4, <1>7 DEF Last
<1>. QED
  BY <1>1, <1>3, <1>4, <1>5, <1>6, <1>7, <1>8

LEMMA DaysOf ==
  ASSUME NEW log \in Seq(Piece)
  PROVE  /\ Len(log) \in Nat /\ DOMAIN log = 1..Len(log)
         /\ \A j \in DOMAIN log : log[j] \in Piece /\ log[j].day \in Nat /\ log[j].ends \in BOOLEAN
<1>1. Len(log) \in Nat /\ DOMAIN log = 1..Len(log)
  BY LenProperties
<1>2. \A j \in 1..Len(log) : log[j] \in Piece
  BY ElementOfSeq
<1>. QED
  BY <1>1, <1>2, LogAssumption DEF Piece

(* A dated piece may follow the end of a line, one without a date anything. *)
LEMMA OrderlyMore ==
  ASSUME NEW log \in Seq(Piece), NEW p \in Piece, Orderly(log), p.day > 0 => Closing(log)
  PROVE  Orderly(log \o <<p>>)
<1>1. PICK more : more = log \o <<p>>
  OBVIOUS
<1>2. /\ Len(log) \in Nat /\ DOMAIN log = 1..Len(log) /\ DOMAIN more = 1..(Len(log) + 1)
      /\ \A k \in 1..Len(log) : more[k] = log[k]
      /\ more[Len(log) + 1] = p
  BY <1>1, PieceAdded
<1>4. log = <<>> <=> Len(log) = 0
  BY EmptySeq
<1>6. ASSUME NEW j \in DOMAIN more, j > 1, more[j].day > 0 PROVE more[j - 1].ends
  <2>1. CASE j = Len(log) + 1
    <3>1. log # <<>> /\ more[j - 1] = log[Len(log)] /\ p.day > 0
      BY <1>2, <1>4, <1>6, <2>1
    <3>. QED
      BY <3>1 DEF Closing, Last
  <2>2. CASE j \in 1..Len(log)
    <3>1. more[j] = log[j] /\ more[j - 1] = log[j - 1]
      BY <1>2, <1>6, <2>2
    <3>. QED
      BY <1>2, <1>6, <2>2, <3>1 DEF Orderly
  <2>. QED
    BY <1>2, <2>1, <2>2
<1>. QED
  BY <1>1, <1>6 DEF Orderly

(* What leads a log goes on leading it.                                     *)
LEMMA LedMore ==
  ASSUME NEW log \in Seq(Piece), NEW p \in Piece, NEW time, ~Rotates(log, time),
         log # <<>> \/ p.day \notin 1..(time - 1)
  PROVE  ~Rotates(log \o <<p>>, time)
<1>1. PICK more : more = log \o <<p>>
  OBVIOUS
<1>2. /\ Len(log) \in Nat /\ \A k \in 1..Len(log) : more[k] = log[k]
      /\ more[Len(log) + 1] = p
  BY <1>1, PieceAdded
<1>3. log = <<>> <=> Len(log) = 0
  BY EmptySeq
<1>4. IF log = <<>> THEN more[1] = p ELSE more[1] = log[1]
  BY <1>2, <1>3
<1>. QED
  BY <1>1, <1>4 DEF Rotates

(* What stays of a log that is rotated need not be rotated again.           *)
LEMMA RestIsLed ==
  ASSUME NEW log \in Seq(Piece), NEW time \in Days, Rotates(log, time), Orderly(log)
  PROVE  Orderly(Split(log, time).rest) /\ ~Rotates(Split(log, time).rest, time)
<1>1. PICK n \in 1..Len(log) :
        /\ Split(log, time).rest = SubSeq(log, n + 1, Len(log))
        /\ n < Len(log) => Stamped(log, n + 1) /\ log[n + 1].day >= time
  BY SplitOf
<1>2. PICK r : r = SubSeq(log, n + 1, Len(log))
  OBVIOUS
<1>3. /\ Len(log) \in Nat /\ DOMAIN log = 1..Len(log) /\ time \in Nat
      /\ \A j \in DOMAIN log : log[j] \in Piece /\ log[j].day \in Nat
  BY DaysOf DEF Days
<1>4. /\ r \in Seq(Piece) /\ Len(r) = IF n + 1 <= Len(log) THEN Len(log) - (n + 1) + 1 ELSE 0
      /\ \A i \in 1..(Len(log) - (n + 1) + 1) : r[i] = log[n + 1 + i - 1]
  <2>1. \A k \in (n + 1)..Len(log) : log[k] \in Piece
    BY <1>3
  <2>2. n + 1 \in Int /\ Len(log) \in Int
    BY <1>3
  <2>. QED
    BY <1>2, <2>1, <2>2, SubSeqProperties
<1>5. DOMAIN r = 1..(Len(log) - n) /\ \A i \in DOMAIN r : r[i] = log[n + i] /\ n + i \in DOMAIN log
  <2>1. DOMAIN r = 1..Len(r)
    BY <1>4, LenProperties
  <2>0. n \in Nat /\ n <= Len(log) /\ Len(log) - (n + 1) + 1 = Len(log) - n
    BY <1>3
  <2>2. Len(r) = Len(log) - n
    <3>1. CASE n + 1 <= Len(log)
      BY <1>4, <2>0, <3>1
    <3>2. CASE ~(n + 1 <= Len(log))
      <4>1. Len(r) = 0
        BY <1>4, <3>2
      <4>2. n = Len(log)
        <5>1. \A m, k \in Nat : m <= k /\ ~(m + 1 <= k) => m = k
          OBVIOUS
        <5>. QED
          BY <1>3, <2>0, <3>2, <5>1
      <4>. QED
        BY <1>3, <4>1, <4>2
    <3>. QED
      BY <3>1, <3>2
  <2>3. \A i \in 1..(Len(log) - n) : r[i] = log[n + 1 + i - 1] /\ n + 1 + i - 1 = n + i
    <3>1. \A i \in 1..(Len(log) - n) : r[i] = log[n + 1 + i - 1]
      BY <1>4, <2>0
    <3>2. \A i \in 1..(Len(log) - n) : n + 1 + i - 1 = n + i
      BY <1>3, <2>0
    <3>. QED
      BY <3>1, <3>2
  <2>4. \A i \in 1..(Len(log) - n) : n + i \in 1..Len(log)
    BY <1>3
  <2>. QED
    BY <1>3, <2>1, <2>2, <2>3, <2>4
<1>6. r # <<>> => r[1].day >= time
  <2>. SUFFICES ASSUME r # <<>> PROVE r[1].day >= time
    OBVIOUS
  <2>1. Len(r) # 0 /\ Len(r) \in Nat
    BY <1>4, EmptySeq, LenProperties
  <2>2. 1 \in DOMAIN r
    BY <1>4, <2>1, LenProperties
  <2>3. r[1] = log[n + 1] /\ n < Len(log)
    BY <1>3, <1>5, <2>2
  <2>. QED
    BY <1>1, <2>3
<1>7. ~Rotates(r, time)
  BY <1>3, <1>6 DEF Rotates
<1>9. ASSUME NEW j \in DOMAIN r, j > 1, r[j].day > 0 PROVE r[j - 1].ends
  <2>1. /\ r[j] = log[n + j] /\ n + j \in DOMAIN log /\ n + j > 1
        /\ j - 1 \in DOMAIN r /\ r[j - 1] = log[n + (j - 1)] /\ n + (j - 1) = (n + j) - 1
    BY <1>3, <1>5, <1>9
  <2>. QED
    BY <1>9, <2>1 DEF Orderly
<1>11. Orderly(r)
  BY <1>9 DEF Orderly
<1>. QED
  BY <1>1, <1>2, <1>7, <1>11

LEMMA DaysOne ==
  ASSUME OneWriter, NEW w \in Writers, Orderly(Contents)', WriterIsDated(writer[w])'
  PROVE  DayInv'
BY DEF OneWriter, DayInv

(* A step that leaves the log alone.                                        *)
LEMMA DaysQuietly ==
  ASSUME DayInv, OneWriter, NEW w \in Writers, UNCHANGED <<today, inode, current>>,
         WriterIsDated(writer[w])'
  PROVE  DayInv'
<1>1. Orderly(Contents)'
  BY DEF DayInv, Orderly, Contents
<1>. QED
  BY <1>1, DaysOne

LEMMA DayOfToday ==
  ASSUME LogInv
  PROVE  /\ today \in Days /\ today \in Nat /\ Days \subseteq Nat /\ Contents \in Seq(Piece)
         /\ nextLine \in Nat /\ \A d \in Days : d > 0 /\ d # 0
BY ContentsTyped, LogAssumption DEF LogInv, LogTyped, Days

LEMMA DaysClosed ==
  ASSUME LogInv, DayInv, OneWriter, NEW w \in Writers, Become(w, Closed),
         UNCHANGED <<today, inode, current>>
  PROVE  DayInv'
<1>1. PICK s : s = Closed
  OBVIOUS
<1>2. writer'[w] = s /\ s.pc = "closed" /\ s.time = 0 /\ s.day = 0
  BY <1>1, ClosedTyped, Become_ DEF LogInv, LogTyped, Closed
<1>3. WriterIsDated(writer[w])'
  BY <1>2, DayOfToday DEF WriterIsDated
<1>. QED
  BY <1>3, DaysQuietly

LEMMA OpenDays ==
  ASSUME LogInv, DayInv, OneWriter, NEW w \in Writers, Open(w)
  PROVE  DayInv'
<1>1. PICK s : s = [Closed EXCEPT !.pc = "rotate", !.time = today]
  OBVIOUS
<1>2. s.pc = "rotate" /\ s.piece = Nil /\ s.time = today /\ s.day = 0
  BY <1>1 DEF Closed
<1>3. writer'[w] = s /\ UNCHANGED <<today, inode, current>>
  BY <1>1 DEF Open, Become, LogInv, LogTyped, disk
<1>5. WriterIsDated(writer[w])'
  BY <1>2, <1>3, DayOfToday DEF WriterIsDated, DatedPiece
<1>. QED
  BY <1>3, <1>5, DaysQuietly

LEMMA CloseDays ==
  ASSUME LogInv, DayInv, OneWriter, NEW w \in Writers, Close(w)
  PROVE  DayInv'
BY DaysClosed DEF Close, disk

LEMMA NothingIsOfADay ==
  ASSUME NEW day PROVE Only(<<>>, day) /\ ~Rotates(<<>>, day) /\ Orderly(<<>>)
<1>1. DOMAIN <<>> = {}
  OBVIOUS
<1>. QED
  BY <1>1 DEF Only, Rotates, Orderly

(* What a writer that begins a line makes of itself.                        *)
LEMMA HeadWritten ==
  ASSUME LogInv, NEW w \in Writers, WriteHead(w)
  PROVE  \E piece, s :
           /\ piece.line = nextLine /\ piece.day = today
           /\ s.time = today /\ s.piece = piece /\ s.day = writer[w].day /\ s.bol = writer[w].bol
           /\ writer'[w] = s
           /\ \/ today # writer[w].day /\ s.pc = "rotate" /\ s.file = Nil
              \/ today = writer[w].day /\ current # writer[w].file /\ s.pc = "reopen" /\ s.file = Nil
              \/ today = writer[w].day /\ current = writer[w].file /\ s.pc = "append" /\ s.file = writer[w].file
<1>. DEFINE me == writer[w]
<1>0. me \in WriterState
  BY Me
<1>1. PICK ends \in BOOLEAN :
        LET piece == [line |-> nextLine, day |-> today, ends |-> ends]
            state == [me EXCEPT !.time = today, !.piece = piece]
        IN  IF today # me.day
            THEN Become(w, [state EXCEPT !.pc = "rotate", !.file = Nil])
            ELSE IF current # me.file
              THEN Become(w, [state EXCEPT !.pc = "reopen", !.file = Nil])
            ELSE Become(w, [state EXCEPT !.pc = "append"])
  BY DEF WriteHead
<1>2. PICK piece : piece = [line |-> nextLine, day |-> today, ends |-> ends]
  OBVIOUS
<1>3. CASE today # me.day
  <2>1. PICK s : s = [me EXCEPT !.time = today, !.piece = piece, !.pc = "rotate", !.file = Nil]
    OBVIOUS
  <2>2. Become(w, s)
    BY <1>1, <1>2, <1>3, <2>1
  <2>3. writer'[w] = s
    BY <2>2 DEF Become, LogInv, LogTyped
  <2>4. /\ s.time = today /\ s.piece = piece /\ s.day = me.day /\ s.bol = me.bol
        /\ s.pc = "rotate" /\ s.file = Nil
    BY <1>0, <2>1 DEF WriterState
  <2>5. piece.line = nextLine /\ piece.day = today
    BY <1>2
  <2>. QED
    BY <1>3, <2>3, <2>4, <2>5
<1>4. CASE today = me.day /\ current # me.file
  <2>1. PICK s : s = [me EXCEPT !.time = today, !.piece = piece, !.pc = "reopen", !.file = Nil]
    OBVIOUS
  <2>2. Become(w, s)
    BY <1>1, <1>2, <1>4, <2>1
  <2>3. writer'[w] = s
    BY <2>2 DEF Become, LogInv, LogTyped
  <2>4. /\ s.time = today /\ s.piece = piece /\ s.day = me.day /\ s.bol = me.bol
        /\ s.pc = "reopen" /\ s.file = Nil
    BY <1>0, <2>1 DEF WriterState
  <2>5. piece.line = nextLine /\ piece.day = today
    BY <1>2
  <2>. QED
    BY <1>4, <2>3, <2>4, <2>5
<1>5. CASE today = me.day /\ current = me.file
  <2>1. PICK s : s = [me EXCEPT !.time = today, !.piece = piece, !.pc = "append"]
    OBVIOUS
  <2>2. Become(w, s)
    BY <1>1, <1>2, <1>5, <2>1
  <2>3. writer'[w] = s
    BY <2>2 DEF Become, LogInv, LogTyped
  <2>4. /\ s.time = today /\ s.piece = piece /\ s.day = me.day /\ s.bol = me.bol
        /\ s.pc = "append" /\ s.file = me.file
    BY <1>0, <2>1 DEF WriterState
  <2>5. piece.line = nextLine /\ piece.day = today
    BY <1>2
  <2>. QED
    BY <1>5, <2>3, <2>4, <2>5
<1>. QED
  BY <1>3, <1>4, <1>5

LEMMA WriteHeadDays ==
  ASSUME LogInv, DayInv, KeepingInv, OneWriter, NEW w \in Writers, WriteHead(w)
  PROVE  DayInv'
<1>. DEFINE me == writer[w]
<1>1. /\ me \in WriterState /\ me.pc = "ready" /\ me.bol /\ Holding(me) /\ WriterIsDated(me)
      /\ me.file # Nil
  BY Me DEF WriteHead, KeepingInv, DayInv, WriterHolds
<1>2. PICK piece, s :
        /\ piece.line = nextLine /\ piece.day = today
        /\ s.time = today /\ s.piece = piece /\ s.day = me.day /\ s.bol = me.bol
        /\ writer'[w] = s
        /\ \/ today # me.day /\ s.pc = "rotate" /\ s.file = Nil
           \/ today = me.day /\ current # me.file /\ s.pc = "reopen" /\ s.file = Nil
           \/ today = me.day /\ current = me.file /\ s.pc = "append" /\ s.file = me.file
  BY HeadWritten
<1>3. /\ UNCHANGED <<today, inode, current>> /\ nextLine' = nextLine + 1 /\ Contents' = Contents
      /\ nextLine \in 1..(nextLine' - 1)
  <2>1. UNCHANGED <<today, inode, current>> /\ nextLine' = nextLine + 1
    BY DEF WriteHead, disk
  <2>2. nextLine \in 1..(nextLine' - 1)
    BY <2>1 DEF LogInv, LogTyped
  <2>. QED
    BY <2>1, <2>2 DEF Contents
<1>5. me.day <= today
  BY <1>1 DEF WriterIsDated
<1>6. DatedPiece(s)'
  <2>1. s.piece.line \in 1..(nextLine' - 1) /\ s.piece.day = s.time
    <3>1. s.piece.line = nextLine /\ s.piece.day = today /\ s.time = today
      BY <1>2
    <3>2. nextLine \in 1..(nextLine' - 1)
      BY <1>3
    <3>. QED
      BY <3>1, <3>2
  <2>. QED
    BY <2>1 DEF DatedPiece
<1>7. CASE s.pc = "rotate"
  <2>1. s.file # current' \/ s.pc = "rotate"
    BY <1>7
  <2>. QED
    BY <1>2, <1>3, <1>5, <1>6, <1>7, DayOfToday, DaysQuietly DEF WriterIsDated
<1>8. CASE today = me.day /\ current # me.file /\ s.pc = "reopen"
  <2>1. Contents = <<>>
    BY <1>1, <1>8 DEF Holding, Contents
  <2>2. ~Rotates(Contents, today)
    BY <2>1, NothingIsOfADay
  <2>. QED
    BY <1>2, <1>3, <1>5, <1>6, <1>8, <2>2, DayOfToday, DaysQuietly DEF WriterIsDated
<1>9. CASE today = me.day /\ current = me.file /\ s.pc = "append" /\ s.file = me.file
  <2>1. ~Rotates(Contents, me.day) /\ Closing(Contents)
    BY <1>1, <1>9 DEF WriterIsDated
  <2>. QED
    BY <1>1, <1>2, <1>3, <1>5, <1>6, <1>9, <2>1, DayOfToday, DaysQuietly DEF WriterIsDated
<1>. QED
  BY <1>2, <1>7, <1>8, <1>9

LEMMA StageDays ==
  ASSUME LogInv, DayInv, OneWriter, NEW w \in Writers, Stage(w)
  PROVE  DayInv'
<1>. DEFINE me == writer[w]
<1>1. /\ me \in WriterState /\ me.pc = "rotate" /\ WriterIsDated(me) /\ me.time \in Days
      /\ DatedPiece(me) /\ Orderly(Contents)
  BY Me DEF Stage, DayInv, WriterHolds, WriterIsDated
<1>2. UNCHANGED <<today, inode, current, nextLine>> /\ Contents' = Contents
  BY DEF Stage, disk, Contents
<1>3. CASE ~Rotates(Contents, me.time) /\ Become(w, [me EXCEPT !.pc = "reopen"])
  <2>1. PICK s : s = [me EXCEPT !.pc = "reopen"]
    OBVIOUS
  <2>2. writer'[w] = s /\ s.pc = "reopen" /\ s.time = me.time /\ s.day = me.day /\ s.piece = me.piece
    BY <1>1, <1>3, <2>1 DEF Become, LogInv, LogTyped, WriterState
  <2>4. WriterIsDated(writer[w])'
    BY <1>1, <1>2, <1>3, <2>2 DEF WriterIsDated, DatedPiece
  <2>. QED
    BY <1>2, <2>4, DaysQuietly
<1>4. CASE /\ Rotates(Contents, me.time)
           /\ Become(w, [me EXCEPT !.pc = "commit", !.blocks = Split(Contents, me.time).blocks,
                                    !.stays = Split(Contents, me.time).rest])
  <2>1. PICK s : s = [me EXCEPT !.pc = "commit", !.blocks = Split(Contents, me.time).blocks,
                                 !.stays = Split(Contents, me.time).rest]
    OBVIOUS
  <2>2. /\ writer'[w] = s /\ s.pc = "commit" /\ s.time = me.time /\ s.day = me.day
        /\ s.piece = me.piece /\ s.stays = Split(Contents, me.time).rest
    BY <1>1, <1>4, <2>1 DEF Become, LogInv, LogTyped, WriterState
  <2>3. Orderly(s.stays) /\ ~Rotates(s.stays, s.time)
    BY <1>1, <1>4, <2>2, DayOfToday, RestIsLed
  <2>4. WriterIsDated(writer[w])'
    BY <1>1, <1>2, <2>2, <2>3 DEF WriterIsDated, DatedPiece
  <2>. QED
    BY <1>2, <2>4, DaysQuietly
<1>5. CASE Rotates(Contents, me.time) /\ Fails(w)
  BY <1>2, <1>5, DaysClosed DEF Fails
<1>. QED
  BY <1>3, <1>4, <1>5 DEF Stage

(* What a writer's append makes of the log.                                 *)
LEMMA LogGetsPiece ==
  ASSUME LogInv, NEW i \in Inodes, NEW p \in Piece, Extend(i, <<p>>), current' = current
  PROVE  /\ i = current => Contents' = Contents \o <<p>>
         /\ i # current => Contents' = Contents
<1>1. PICK more : more = <<p>>
  OBVIOUS
<1>2. more \in Seq(Piece) /\ Extend(i, more)
  BY <1>1
<1>3. inode'[i] = inode[i] \o more /\ \A j \in Inodes \ {i} : inode'[j] = inode[j]
  BY <1>2, Extended
<1>4. current \in Inodes \union {Nil} /\ i # Nil
  BY NilIsNothing DEF LogInv, LogTyped
<1>. QED
  BY <1>1, <1>3, <1>4 DEF Contents

LEMMA NewlineIsPiece == Newline \in Piece /\ Newline.day = 0 /\ Newline.ends = TRUE
BY LogAssumption DEF Newline, Piece

(* What a write that fails leaves behind the log it had open.               *)
LEMMA LogGetsFragment ==
  ASSUME LogInv, NEW w \in Writers, writer[w].file \in Inodes, NEW day \in 0..MaxDay,
         FailsShort(w, day), current' = current
  PROVE  /\ Fails(w)
         /\ \/ Contents' = Contents
            \/ /\ writer[w].file = current
               /\ \E p \in {Fragment(0), Fragment(day)} : Contents' = Contents \o <<p>>
<1>. DEFINE i == writer[w].file
<1>1. PICK part \in {<<>>, <<Fragment(0)>>, <<Fragment(day)>>} : Extend(i, part)
  BY DEF FailsShort
<1>2. Fragment(0) \in Piece /\ Fragment(day) \in Piece
  BY LogAssumption DEF Fragment, Piece
<1>3. CASE part = <<>>
  <2>1. \A k \in Inodes : inode'[k] = inode[k] \o (IF k = i THEN <<>> ELSE <<>>)
    <3>1. part \in Seq(Piece) /\ \A k \in Inodes : inode[k] \in Seq(Piece)
      BY <1>3 DEF LogInv, LogTyped
    <3>2. inode'[i] = inode[i] \o part /\ \A k \in Inodes \ {i} : inode'[k] = inode[k]
      BY <1>1, <3>1, Extended
    <3>. QED
      BY <1>3, <3>1, <3>2, ConcatEmptySeq
  <2>2. \A k \in Inodes : inode'[k] = inode[k]
    BY <2>1, ConcatEmptySeq DEF LogInv, LogTyped
  <2>3. current \in Inodes \union {Nil}
    BY DEF LogInv, LogTyped
  <2>. QED
    BY <2>2, <2>3 DEF Contents, FailsShort
<1>4. CASE part # <<>>
  <2>1. PICK p \in {Fragment(0), Fragment(day)} : part = <<p>>
    BY <1>1, <1>4
  <2>2. /\ i = current => Contents' = Contents \o <<p>>
        /\ i # current => Contents' = Contents
    BY <1>1, <1>2, <2>1, LogGetsPiece
  <2>. QED
    BY <2>1, <2>2 DEF FailsShort
<1>. QED
  BY <1>3, <1>4

LEMMA FailsShortDays ==
  ASSUME LogInv, DayInv, OneWriter, NEW w \in Writers, writer[w].file \in Inodes,
         NEW day \in 0..MaxDay, FailsShort(w, day), UNCHANGED <<today, current>>,
         day > 0 /\ writer[w].file = current => Closing(Contents)
  PROVE  DayInv'
<1>1. Orderly(Contents)'
  <2>1. CASE Contents' = Contents
    BY <2>1 DEF DayInv, Orderly
  <2>2. CASE Contents' # Contents
    <3>1. PICK p \in {Fragment(0), Fragment(day)} :
            writer[w].file = current /\ Contents' = Contents \o <<p>>
      BY <2>2, LogGetsFragment
    <3>2. p \in Piece /\ (p.day > 0 => day > 0)
      <4>1. Fragment(0) \in Piece /\ Fragment(day) \in Piece
        BY LogAssumption DEF Fragment, Piece
      <4>2. Fragment(0).day = 0 /\ Fragment(day).day = day
        BY DEF Fragment
      <4>. QED
        BY <3>1, <4>1, <4>2
    <3>3. Contents \in Seq(Piece) /\ Orderly(Contents)
      BY DayOfToday DEF DayInv
    <3>4. Orderly(Contents \o <<p>>)
      BY <3>1, <3>2, <3>3, OrderlyMore
    <3>. QED
      BY <3>1, <3>4
  <2>. QED
    BY <2>1, <2>2
<1>2. PICK s : s = Closed
  OBVIOUS
<1>3. Become(w, Closed)
  BY DEF FailsShort, Fails
<1>4. writer'[w] = s /\ s.pc = "closed" /\ s.time = 0 /\ s.day = 0
  BY <1>2, <1>3, ClosedTyped, Become_ DEF LogInv, LogTyped, Closed
<1>5. WriterIsDated(writer[w])'
  BY <1>4, DayOfToday DEF WriterIsDated
<1>. QED
  BY <1>1, <1>5, DaysOne

LEMMA WriteRestDays ==
  ASSUME LogInv, DayInv, KeepingInv, OneWriter, NEW w \in Writers, WriteRest(w)
  PROVE  DayInv'
<1>. DEFINE me == writer[w]
<1>1. /\ me \in WriterState /\ me.pc = "ready" /\ ~me.bol /\ WriterIsDated(me) /\ Holding(me)
      /\ me.file \in Inodes /\ Orderly(Contents)
  BY Me DEF WriteRest, DayInv, KeepingInv, WriterHolds, WriterState
<1>2. UNCHANGED <<today, current, nextLine>>
  BY DEF WriteRest
<1>3. CASE FailsShort(w, 0)
  <2>1. 0 \in 0..MaxDay
    BY LogAssumption
  <2>. QED
    BY <1>1, <1>2, <1>3, <2>1, FailsShortDays
<1>4. CASE /\ Extend(me.file, <<[line |-> nextLine - 1, day |-> 0, ends |-> TRUE]>>)
           /\ Become(w, [me EXCEPT !.bol = TRUE])
  <2>1. PICK p : p = [line |-> nextLine - 1, day |-> 0, ends |-> TRUE]
    OBVIOUS
  <2>2. p \in Piece /\ p.day = 0 /\ p.ends
    BY <2>1, LogAssumption DEF Piece, LogInv, LogTyped
  <2>3. PICK s : s = [me EXCEPT !.bol = TRUE]
    OBVIOUS
  <2>4. /\ writer'[w] = s /\ s.pc = "ready" /\ s.file = me.file /\ s.day = me.day
        /\ s.time = me.time /\ s.bol
    BY <1>1, <1>4, <2>3 DEF Become, LogInv, LogTyped, WriterState
  <2>5. /\ me.file = current => Contents' = Contents \o <<p>>
        /\ me.file # current => Contents' = Contents
    BY <1>1, <1>2, <1>4, <2>1, <2>2, LogGetsPiece
  <2>6. me.time <= today /\ me.day <= today /\ me.day \in Nat
    BY <1>1, LogAssumption DEF WriterIsDated, WriterState
  <2>7. CASE me.file # current
    <3>1. Contents' = Contents
      BY <2>5, <2>7
    <3>2. WriterIsDated(writer[w])'
      BY <1>2, <2>4, <2>6, <2>7 DEF WriterIsDated
    <3>3. Orderly(Contents)'
      BY <1>1, <1>2, <3>1 DEF Orderly
    <3>. QED
      BY <3>2, <3>3, DaysOne
  <2>8. CASE me.file = current
    <3>1. PICK log, more : log = Contents /\ more = log \o <<p>>
      OBVIOUS
    <3>2. log \in Seq(Piece) /\ Contents' = more
      BY <2>5, <2>8, <3>1, DayOfToday
    <3>3. ~Rotates(log, me.day) /\ log # <<>>
      BY <1>1, <2>8, <3>1 DEF WriterIsDated
    <3>4. Orderly(more)
      BY <1>1, <2>2, <3>1, <3>2, <3>3, OrderlyMore
    <3>5. ~Rotates(more, me.day)
      BY <2>2, <3>1, <3>2, <3>3, LedMore
    <3>6. Closing(more)
      BY <2>2, <3>1, <3>2, PieceAdded DEF Closing
    <3>7. WriterIsDated(writer[w])'
      BY <1>2, <2>4, <2>6, <3>2, <3>5, <3>6 DEF WriterIsDated
    <3>8. Orderly(Contents)'
      BY <1>2, <3>2, <3>4
    <3>. QED
      BY <3>7, <3>8, DaysOne
  <2>. QED
    BY <2>7, <2>8
<1>. QED
  BY <1>3, <1>4 DEF WriteRest

LEMMA AppendLineDays ==
  ASSUME LogInv, DayInv, KeepingInv, OneWriter, NEW w \in Writers, AppendLine(w)
  PROVE  DayInv'
<1>. DEFINE me == writer[w]
<1>1. /\ me \in WriterState /\ me.pc = "append" /\ WriterIsDated(me) /\ Holding(me)
      /\ me.file \in Inodes /\ me.piece \in Piece /\ Orderly(Contents)
  BY Me DEF AppendLine, DayInv, KeepingInv, WriterHolds, WriterState
<1>2. UNCHANGED <<today, current, nextLine>>
  BY DEF AppendLine
<1>3. CASE FailsShort(w, me.piece.day)
  <2>1. me.piece.day \in 0..MaxDay
    BY <1>1 DEF Piece
  <2>2. me.file = current => Closing(Contents)
    BY <1>1 DEF WriterIsDated
  <2>. QED
    BY <1>1, <1>2, <1>3, <2>1, <2>2, FailsShortDays
<1>4. CASE /\ Extend(me.file, <<me.piece>>)
           /\ written' = written \union {me.piece.line}
           /\ Become(w, [me EXCEPT !.pc = "ready", !.bol = me.piece.ends, !.piece = Nil])
  <2>1. PICK p : p = me.piece
    OBVIOUS
  <2>2. p \in Piece /\ p.day = me.day /\ me.day = me.time /\ me.day \in Days /\ me.bol
        /\ p.ends \in BOOLEAN
    <3>1. me.bol /\ me.day = me.time /\ me.time \in Days /\ DatedPiece(me)
      BY <1>1 DEF WriterIsDated
    <3>2. me.piece # Nil
      BY <1>1, LogAssumption
    <3>3. p.ends \in BOOLEAN /\ p \in Piece
      BY <1>1, <2>1 DEF Piece
    <3>. QED
      BY <2>1, <3>1, <3>2, <3>3 DEF DatedPiece
  <2>3. PICK s : s = [me EXCEPT !.pc = "ready", !.bol = p.ends, !.piece = Nil]
    OBVIOUS
  <2>4. /\ writer'[w] = s /\ s.pc = "ready" /\ s.file = me.file /\ s.day = me.day
        /\ s.time = me.time /\ s.bol = p.ends
    BY <1>1, <1>4, <2>1, <2>3 DEF Become, LogInv, LogTyped, WriterState
  <2>5. /\ me.file = current => Contents' = Contents \o <<p>>
        /\ me.file # current => Contents' = Contents
    BY <1>1, <1>2, <1>4, <2>1, <2>2, LogGetsPiece
  <2>6. me.time <= today /\ me.day <= today /\ me.day \in Nat /\ me.day > 0
    BY <1>1, <2>2, DayOfToday DEF WriterIsDated
  <2>7. CASE me.file # current
    <3>1. Contents' = Contents
      BY <2>5, <2>7
    <3>2. WriterIsDated(writer[w])'
      BY <1>2, <2>4, <2>6, <2>7 DEF WriterIsDated
    <3>3. Orderly(Contents)'
      BY <1>1, <1>2, <3>1 DEF Orderly
    <3>. QED
      BY <3>2, <3>3, DaysOne
  <2>8. CASE me.file = current
    <3>1. PICK log, more : log = Contents /\ more = log \o <<p>>
      OBVIOUS
    <3>2. log \in Seq(Piece) /\ Contents' = more
      BY <2>5, <2>8, <3>1, DayOfToday
    <3>3. ~Rotates(log, me.day) /\ Closing(log)
      BY <1>1, <2>2, <2>8, <3>1 DEF WriterIsDated
    <3>4. Orderly(more)
      <4>1. p.day # 0 /\ Orderly(log)
        BY <1>1, <2>2, <2>6, <3>1
      <4>. QED
        BY <2>2, <3>1, <3>2, <3>3, <4>1, OrderlyMore
    <3>5. ~Rotates(more, me.day)
      <4>1. p.day \notin 1..(me.day - 1)
        BY <2>2, <2>6
      <4>. QED
        BY <2>2, <3>1, <3>2, <3>3, <4>1, LedMore
    <3>6. more # <<>> /\ Last(more) = p
      BY <2>2, <3>1, <3>2, PieceAdded
    <3>7. WriterIsDated(writer[w])'
      BY <1>2, <2>2, <2>4, <2>6, <3>2, <3>5, <3>6 DEF WriterIsDated, Closing
    <3>8. Orderly(Contents)'
      BY <1>2, <3>2, <3>4
    <3>. QED
      BY <3>7, <3>8, DaysOne
  <2>. QED
    BY <2>7, <2>8
<1>. QED
  BY <1>3, <1>4 DEF AppendLine

LEMMA CommitArchiveDays ==
  ASSUME LogInv, DayInv, OneWriter, NEW w \in Writers, CommitArchive(w)
  PROVE  DayInv'
<1>. DEFINE me == writer[w]
<1>1. me \in WriterState /\ me.pc = "commit" /\ WriterIsDated(me) /\ Orderly(Contents)
  BY Me DEF CommitArchive, DayInv
<1>2. UNCHANGED <<today, inode, current, nextLine>> /\ Contents' = Contents
  BY DEF CommitArchive, Contents
<1>3. CASE Fails(w)
  BY <1>2, <1>3, DaysClosed DEF Fails
<1>4. CASE ~Fails(w)
  <2>1. PICK d : d = CHOOSE e \in Staged(me) : \A f \in Staged(me) : e <= f
    OBVIOUS
  <2>2. PICK s : s = [me EXCEPT !.blocks[d] = <<>>,
                                !.done = Append(@, [day |-> d, size |-> Len(archive[d])])]
    OBVIOUS
  <2>3. Become(w, s)
    BY <1>4, <2>1, <2>2 DEF CommitArchive, RollBack
  <2>4. /\ writer'[w] = s /\ s.pc = "commit" /\ s.time = me.time /\ s.day = me.day
        /\ s.piece = me.piece /\ s.stays = me.stays
    BY <1>1, <2>2, <2>3 DEF Become, LogInv, LogTyped, WriterState
  <2>5. WriterIsDated(writer[w])'
    BY <1>1, <1>2, <2>4 DEF WriterIsDated, DatedPiece
  <2>. QED
    BY <1>2, <2>5, DaysQuietly
<1>. QED
  BY <1>3, <1>4

LEMMA ReplaceDays ==
  ASSUME LogInv, DayInv, OneWriter, NEW w \in Writers, Replace(w)
  PROVE  DayInv'
<1>. DEFINE me == writer[w]
<1>1. /\ me \in WriterState /\ me.pc = "commit" /\ WriterIsDated(me) /\ nextInode \in Inodes
      /\ Orderly(me.stays) /\ ~Rotates(me.stays, me.time) /\ me.time \in Days
  BY Me DEF Replace, DayInv, WriterHolds, WriterIsDated
<1>2. UNCHANGED <<today, nextLine>>
  BY DEF Replace
<1>3. CASE RollBack(w, archive) /\ UNCHANGED <<inode, current, nextInode>>
  BY <1>2, <1>3, DaysClosed DEF RollBack, Fails
<1>4. CASE /\ current' = nextInode /\ nextInode' = nextInode + 1
           /\ inode' = [inode EXCEPT ![nextInode] = me.stays]
           /\ Become(w, [me EXCEPT !.pc = "reopen", !.stays = <<>>, !.done = <<>>])
           /\ UNCHANGED <<archive, torn>>
  <2>1. PICK s : s = [me EXCEPT !.pc = "reopen", !.stays = <<>>, !.done = <<>>]
    OBVIOUS
  <2>2. writer'[w] = s /\ s.pc = "reopen" /\ s.time = me.time /\ s.day = me.day /\ s.piece = me.piece
    BY <1>1, <1>4, <2>1 DEF Become, LogInv, LogTyped, WriterState
  <2>3. Contents' = me.stays
    BY <1>1, <1>4, NilIsNothing DEF Contents, LogInv, LogTyped
  <2>4. me.time <= today /\ me.time \in Nat /\ today \in Nat /\ me.time > 0
    BY <1>1, DayOfToday DEF WriterIsDated
  <2>6. WriterIsDated(writer[w])'
    BY <1>1, <1>2, <2>2, <2>3 DEF WriterIsDated, DatedPiece
  <2>7. Orderly(Contents)'
    BY <1>1, <1>2, <2>3
  <2>. QED
    BY <2>6, <2>7, DaysOne
<1>. QED
  BY <1>3, <1>4 DEF Replace

(* Whatever an unfinished line was, the next one begins behind a newline.   *)
LEMMA BoundaryCloses ==
  ASSUME NEW log \in Seq(Piece)
  PROVE  /\ log \o Boundary(log) = log \/ log \o Boundary(log) = log \o <<Newline>>
         /\ log \o Boundary(log) = log => Closing(log)
         /\ log \o Boundary(log) # log => log # <<>>
         /\ log \o <<Newline>> # log
<1>1. PICK one : one = <<Newline>>
  OBVIOUS
<1>2. one \in Seq(Piece) /\ Len(one) = 1
  BY <1>1, NewlineIsPiece
<1>3. log \o one # log
  <2>1. Len(log \o one) = Len(log) + 1 /\ Len(log) \in Nat
    BY <1>2, ConcatProperties, LenProperties
  <2>. QED
    BY <2>1
<1>4. CASE log # <<>> /\ ~Last(log).ends
  BY <1>1, <1>3, <1>4 DEF Boundary
<1>5. CASE ~(log # <<>> /\ ~Last(log).ends)
  <2>1. Boundary(log) = <<>>
    BY <1>5 DEF Boundary
  <2>2. log \o <<>> = log
    BY ConcatEmptySeq
  <2>3. Closing(log)
    BY <1>5 DEF Closing
  <2>. QED
    BY <1>1, <1>3, <2>1, <2>2, <2>3
<1>. QED
  BY <1>4, <1>5

(* What a writer that opens the log finds in it and adds to it.              *)
LEMMA LogReopened ==
  ASSUME LogInv, NEW w \in Writers, Reopen(w), ~(Fails(w) /\ UNCHANGED <<inode, current, nextInode>>)
  PROVE  /\ Contents' = Contents \o Boundary(Contents)
         /\ \E s : /\ writer'[w] = s /\ s.file = current' /\ s.piece = writer[w].piece
                  /\ s.day = writer[w].time /\ s.time = writer[w].time /\ s.bol
                  /\ s.pc = IF writer[w].piece = Nil THEN "ready" ELSE "append"
<1>. DEFINE me == writer[w]
<1>0. me \in WriterState
  BY Me
<1>1. PICK file : file = IF current = Nil THEN nextInode ELSE current
  OBVIOUS
<1>2. PICK s : s = [me EXCEPT !.file = file, !.day = me.time, !.bol = TRUE,
                      !.pc = IF me.piece = Nil THEN "ready" ELSE "append"]
  OBVIOUS
<1>3. current' = file /\ Become(w, s) /\ file \in Inodes /\ Extend(file, Boundary(inode[file]))
  BY <1>1, <1>2 DEF Reopen
<1>4. /\ writer'[w] = s /\ s.file = file /\ s.piece = me.piece /\ s.day = me.time
      /\ s.time = me.time /\ s.bol
      /\ s.pc = IF me.piece = Nil THEN "ready" ELSE "append"
  BY <1>0, <1>2, <1>3 DEF Become, LogInv, LogTyped, WriterState
<1>5. PICK log : log = inode[file]
  OBVIOUS
<1>6. log \in Seq(Piece) /\ log = Contents
  <2>1. log \in Seq(Piece)
    BY <1>3, <1>5 DEF LogInv, LogTyped
  <2>2. CASE current = Nil
    <3>1. file = nextInode
      BY <1>1, <2>2
    <3>2. inode[file] = <<>>
      BY <1>3, <3>1, LogAssumption DEF LogInv, InodesAreFresh, Inodes
    <3>. QED
      BY <1>5, <2>1, <2>2, <3>2 DEF Contents
  <2>3. CASE current # Nil
    BY <1>1, <1>5, <2>1, <2>3 DEF Contents
  <2>. QED
    BY <2>2, <2>3
<1>7. Contents' = log \o Boundary(log)
  <2>1. PICK b : b = Boundary(log)
    OBVIOUS
  <2>2. b \in Seq(Piece) /\ Extend(file, b)
    BY <1>3, <1>5, <1>6, <2>1, BoundaryTyped
  <2>3. inode'[file] = inode[file] \o b
    BY <1>3, <2>2, Extended
  <2>. QED
    BY <1>3, <1>5, <2>1, <2>3, NilIsNothing DEF Contents
<1>. QED
  BY <1>3, <1>4, <1>6, <1>7

LEMMA ReopenDays ==
  ASSUME LogInv, DayInv, OneWriter, NEW w \in Writers, Reopen(w)
  PROVE  DayInv'
<1>. DEFINE me == writer[w]
<1>1. /\ me \in WriterState /\ me.pc = "reopen" /\ WriterIsDated(me) /\ me.time \in Days
      /\ Orderly(Contents) /\ ~Rotates(Contents, me.time) /\ DatedPiece(me)
  BY Me DEF Reopen, DayInv, WriterHolds, WriterIsDated
<1>2. UNCHANGED <<today, nextLine>>
  BY DEF Reopen
<1>3. CASE Fails(w) /\ UNCHANGED <<inode, current, nextInode>>
  BY <1>2, <1>3, DaysClosed DEF Fails
<1>4. CASE ~(Fails(w) /\ UNCHANGED <<inode, current, nextInode>>)
  <2>1. PICK s : /\ writer'[w] = s /\ s.file = current' /\ s.piece = me.piece
                 /\ s.day = me.time /\ s.time = me.time /\ s.bol
                 /\ s.pc = IF me.piece = Nil THEN "ready" ELSE "append"
    BY <1>4, LogReopened
  <2>4. /\ writer'[w] = s /\ s.file = current' /\ s.piece = me.piece /\ s.day = me.time
        /\ s.time = me.time /\ s.bol
        /\ s.pc = IF me.piece = Nil THEN "ready" ELSE "append"
    BY <2>1
  <2>6. PICK log : log \in Seq(Piece) /\ log = Contents
    BY DayOfToday
  <2>7. PICK new : new = Contents'
    OBVIOUS
  <2>8. new = log \o Boundary(log)
    BY <1>4, <2>6, <2>7, LogReopened
  <2>9. Orderly(log) /\ ~Rotates(log, me.time)
    BY <1>1, <2>6
  <2>10. Orderly(new) /\ ~Rotates(new, me.time) /\ Closing(new)
    <3>1. PICK nl : nl = Newline
      OBVIOUS
    <3>2. nl \in Piece /\ nl.day = 0 /\ nl.ends
      BY <3>1, NewlineIsPiece
    <3>3. CASE new = log
      BY <2>6, <2>8, <2>9, <3>3, BoundaryCloses
    <3>4. CASE new = log \o <<nl>> /\ log # <<>>
      <4>1. Orderly(log \o <<nl>>)
        BY <2>6, <2>9, <3>2, <3>4, OrderlyMore
      <4>3. ~Rotates(log \o <<nl>>, me.time)
        BY <2>6, <2>9, <3>2, <3>4, LedMore
      <4>4. Closing(log \o <<nl>>)
        BY <2>6, <3>2, PieceAdded DEF Closing
      <4>. QED
        BY <3>4, <4>1, <4>3, <4>4
    <3>. QED
      BY <2>6, <2>8, <3>1, <3>3, <3>4, BoundaryCloses
  <2>11. DatedPiece(s)'
    BY <1>1, <1>2, <2>4 DEF DatedPiece
  <2>12. WriterIsDated(writer[w])'
    <3>1. me.time <= today' /\ s.pc \in {"ready", "append"}
      BY <1>1, <1>2, <2>4 DEF WriterIsDated
    <3>. QED
      BY <1>1, <2>4, <2>7, <2>10, <2>11, <3>1 DEF WriterIsDated
  <2>13. Orderly(Contents)'
    BY <1>2, <2>7, <2>10
  <2>. QED
    BY <2>12, <2>13, DaysOne
<1>. QED
  BY <1>3, <1>4

LEMMA LogDayPassesDays ==
  ASSUME LogInv, DayInv, LogDayPasses
  PROVE  DayInv'
<1>1. /\ UNCHANGED <<inode, current, writer, nextLine>> /\ today' = today + 1
      /\ Contents' = Contents
  BY DEF LogDayPasses, disk, Contents
<1>2. today \in Nat
  BY DayOfToday
<1>3. Orderly(Contents)'
  BY <1>1 DEF DayInv
<1>4. ASSUME NEW w \in Writers PROVE WriterIsDated(writer[w])'
  <2>1. PICK s : s = writer[w]
    OBVIOUS
  <2>2. s \in WriterState /\ WriterIsDated(s) /\ writer'[w] = s
    BY <1>1, <2>1, Me DEF DayInv
  <2>3. s.time \in Nat /\ s.day \in Nat
    BY <2>2, LogAssumption DEF WriterState
  <2>4. s.time <= today' /\ s.day <= today'
    BY <1>1, <1>2, <2>2, <2>3 DEF WriterIsDated
  <2>5. WriterIsDated(s)'
    BY <1>1, <2>2, <2>4 DEF WriterIsDated, DatedPiece
  <2>. QED
    BY <2>2, <2>5
<1>. QED
  BY <1>3, <1>4 DEF DayInv

LEMMA RemoveCurrentDays ==
  ASSUME LogInv, DayInv, RemoveCurrent
  PROVE  DayInv'
<1>1. UNCHANGED <<today, writer, nextLine>> /\ current' = Nil /\ Contents' = <<>>
  BY DEF RemoveCurrent, Contents
<1>2. Orderly(Contents)'
  BY <1>1, NothingIsOfADay
<1>3. ASSUME NEW w \in Writers PROVE WriterIsDated(writer[w])'
  <2>1. PICK s : s = writer[w]
    OBVIOUS
  <2>2. s \in WriterState /\ WriterHolds(s) /\ WriterIsDated(s) /\ writer'[w] = s
    BY <1>1, <2>1, Me DEF DayInv
  <2>3. s.pc \in {"append", "ready"} => s.file # Nil
    BY <2>2 DEF WriterHolds
  <2>4. ~Rotates(<<>>, s.time)
    BY NothingIsOfADay
  <2>5. WriterIsDated(s)'
    BY <1>1, <2>2, <2>3, <2>4 DEF WriterIsDated, DatedPiece
  <2>. QED
    BY <2>2, <2>5
<1>. QED
  BY <1>2, <1>3 DEF DayInv

LEMMA CrashDays ==
  ASSUME LogInv, DayInv, Crash
  PROVE  DayInv'
<1>1. UNCHANGED <<today, inode, current>> /\ Contents' = Contents
  BY DEF Crash, disk, Contents
<1>2. ASSUME NEW w \in Writers PROVE WriterIsDated(writer[w])'
  <2>1. PICK s : s = Closed
    OBVIOUS
  <2>2. writer'[w] = s /\ s.pc = "closed" /\ s.time = 0 /\ s.day = 0
    BY <2>1, ClosedTyped DEF Crash, Closed
  <2>. QED
    BY <1>1, <2>2, DayOfToday DEF WriterIsDated
<1>. QED
  BY <1>1, <1>2 DEF DayInv

LEMMA UnmovedDays ==
  ASSUME DayInv, UNCHANGED <<today, inode, current, writer, nextLine>>
  PROVE  DayInv'
<1>1. Contents' = Contents
  BY DEF Contents
<1>2. ASSUME NEW w \in Writers PROVE WriterIsDated(writer[w])'
  BY <1>1 DEF DayInv, WriterIsDated, DatedPiece
<1>. QED
  BY <1>1, <1>2 DEF DayInv

LEMMA DayStep == LogInv /\ KeepingInv /\ DayInv /\ OneWriter /\ [LogNext]_logVars => DayInv'
<1>. SUFFICES ASSUME LogInv, KeepingInv, DayInv, OneWriter, [LogNext]_logVars PROVE DayInv'
  OBVIOUS
<1>1. ASSUME NEW w \in Writers,
             \/ Open(w) \/ Close(w) \/ WriteHead(w) \/ WriteRest(w) \/ AppendLine(w)
             \/ Stage(w) \/ CommitArchive(w) \/ Replace(w) \/ Reopen(w)
      PROVE  DayInv'
  BY <1>1, OpenDays, CloseDays, WriteHeadDays, WriteRestDays, AppendLineDays,
     StageDays, CommitArchiveDays, ReplaceDays, ReopenDays
<1>2. CASE LogDayPasses \/ RemoveCurrent \/ Crash
  BY <1>2, LogDayPassesDays, RemoveCurrentDays, CrashDays
<1>3. CASE (\E d \in Days : RemoveArchive(d)) \/ Follow \/ PollStat \/ PollRead \/ UNCHANGED logVars
  <2>1. UNCHANGED <<today, inode, current, writer, nextLine>>
    BY <1>3 DEF RemoveArchive, Follow, PollStat, PollRead, logVars, disk
  <2>. QED
    BY <2>1, UnmovedDays
<1>. QED
  BY <1>1, <1>2, <1>3 DEF LogNext

LEMMA DayStarts == LogInit => DayInv
<1>. SUFFICES ASSUME LogInit PROVE DayInv
  OBVIOUS
<1>0. LogInv
  BY LogInit_
<1>1. ASSUME NEW w \in Writers PROVE WriterIsDated(writer[w])
  <2>1. PICK s : s = Closed
    OBVIOUS
  <2>2. writer[w] = s /\ s.pc = "closed" /\ s.time = 0 /\ s.day = 0
    BY <2>1, ClosedTyped DEF LogInit, Closed
  <2>. QED
    BY <1>0, <2>2, DayOfToday DEF WriterIsDated
<1>2. Orderly(Contents)
  <2>1. CASE current = Nil
    BY <2>1, NothingIsOfADay DEF Contents
  <2>2. CASE \E log \in {Old, Legacy, Ahead} :
               inode = [i \in Inodes |-> IF i = 1 THEN log ELSE <<>>] /\ current = 1
    <3>1. PICK log \in {Old, Legacy, Ahead} :
                 inode = [i \in Inodes |-> IF i = 1 THEN log ELSE <<>>] /\ current = 1
      BY <2>2
    <3>2. Contents = log
      <4>1. 1 \in Inodes
        BY LogAssumption DEF Inodes
      <4>. QED
        BY <3>1, <4>1, NilIsNothing DEF Contents
    <3>3. \A j \in DOMAIN log : log[j].ends
      BY OldLogs
    <3>4. \A j \in DOMAIN log : j > 1 => j - 1 \in DOMAIN log
      <4>1. log \in Seq(Piece)
        BY <1>0, <3>2, DayOfToday
      <4>2. DOMAIN log = 1..Len(log) /\ Len(log) \in Nat
        BY <4>1, LenProperties
      <4>. QED
        BY <4>2
    <3>. QED
      BY <3>2, <3>3, <3>4 DEF Orderly
  <2>. QED
    BY <2>1, <2>2 DEF LogInit
<1>. QED
  BY <1>1, <1>2 DEF DayInv

(* With one writer at a time on a path, a writer that is ready adds to a    *)
(* log that is not led by an earlier day - whatever logs daemons without    *)
(* rotation or with another clock, failed rotations and half-written lines  *)
(* left -, and every stamped line in it begins where one has ended          *)
(* (ensureCurrent, Rotate, ensureAppendBoundary).                           *)
THEOREM LeadingBlocksAreArchived == OneWriter => (LogSpec => []LeadingBlockIsArchived)
<1>. SUFFICES ASSUME OneWriter PROVE LogSpec => []LeadingBlockIsArchived
  OBVIOUS
<1>1. LogInv /\ DayInv => LeadingBlockIsArchived
  <2>. SUFFICES ASSUME LogInv, DayInv, NEW w \in Writers, writer[w].pc = "ready",
                       writer[w].file = current, NEW j \in DOMAIN Contents
                PROVE  /\ j = 1 => Contents[j].day \notin 1..(writer[w].day - 1)
                       /\ j > 1 /\ Contents[j].day > 0 => Contents[j - 1].ends
    BY DEF LeadingBlockIsArchived
  <2>1. ~Rotates(Contents, writer[w].day) /\ Orderly(Contents) /\ Contents # <<>>
    BY DEF DayInv, WriterIsDated
  <2>. QED
    BY <2>1 DEF Rotates, Orderly
<1>2. LogInv /\ KeepingInv /\ DayInv /\ [LogNext]_logVars => KeepingInv' /\ DayInv'
  BY KeepingStep, DayStep
<1>. QED
  BY <1>1, <1>2, LogInit_, LogStep, KeepingStarts, DayStarts, PTL DEF LogSpec

-------------------------------------------------------------------------------
(* A rotation moves a line, it does not copy it, when there is one writer   *)
(* at a time.                                                               *)

(* new has some of the pieces of old, none of them twice.                   *)
Picked(new, old) ==
  \E p \in [DOMAIN new -> DOMAIN old] :
    /\ \A m, n \in DOMAIN new : p[m] = p[n] => m = n
    /\ \A n \in DOMAIN new : new[n] = old[p[n]]

LEMMA PickedLess ==
  ASSUME NEW new, NEW old, Picked(new, old)
  PROVE  /\ \A l : (\A i, j \in Heads(old, l) : i = j) => (\A i, j \in Heads(new, l) : i = j)
         /\ \A l : Heads(old, l) = {} => Heads(new, l) = {}
         /\ \A n : Below(old, n) => Below(new, n)
         /\ \A d : Only(old, d) => Only(new, d)
<1>1. PICK p \in [DOMAIN new -> DOMAIN old] :
        /\ \A m, n \in DOMAIN new : p[m] = p[n] => m = n
        /\ \A n \in DOMAIN new : new[n] = old[p[n]]
  BY DEF Picked
<1>2. ASSUME NEW l, NEW i \in Heads(new, l) PROVE i \in DOMAIN new /\ p[i] \in Heads(old, l)
  BY <1>1 DEF Heads
<1>3. ASSUME NEW l, \A i, j \in Heads(old, l) : i = j,
             NEW i \in Heads(new, l), NEW j \in Heads(new, l)
      PROVE  i = j
  <2>1. p[i] \in Heads(old, l) /\ p[j] \in Heads(old, l) /\ i \in DOMAIN new /\ j \in DOMAIN new
    BY <1>2
  <2>2. p[i] = p[j]
    BY <1>3, <2>1
  <2>. QED
    BY <1>1, <2>1, <2>2
<1>4. ASSUME NEW l, Heads(old, l) = {} PROVE Heads(new, l) = {}
  BY <1>2, <1>4
<1>5. ASSUME NEW n, Below(old, n) PROVE Below(new, n)
  BY <1>1, <1>5 DEF Below
<1>6. ASSUME NEW d, Only(old, d) PROVE Only(new, d)
  BY <1>1, <1>6 DEF Only
<1>. QED
  BY <1>3, <1>4, <1>5, <1>6

LEMMA OnceLess ==
  ASSUME NEW log, NEW archives, Once(log, archives),
         NEW less, NEW fewer, Picked(less, log), \A d \in Days : Picked(fewer[d], archives[d])
  PROVE  Once(less, fewer)
<1>. SUFFICES ASSUME NEW l \in Nat \ {0}
              PROVE  /\ \A i, j \in Heads(less, l) : i = j
                     /\ \A d \in Days : \A i, j \in Heads(fewer[d], l) : i = j
                     /\ \A d \in Days : Heads(less, l) # {} => Heads(fewer[d], l) = {}
                     /\ \A d, e \in Days :
                          Heads(fewer[d], l) # {} /\ Heads(fewer[e], l) # {} => d = e
  BY DEF Once
<1>1. /\ \A i, j \in Heads(log, l) : i = j
      /\ \A d \in Days : \A i, j \in Heads(archives[d], l) : i = j
      /\ \A d \in Days : Heads(log, l) # {} => Heads(archives[d], l) = {}
      /\ \A d, e \in Days : Heads(archives[d], l) # {} /\ Heads(archives[e], l) # {} => d = e
  BY DEF Once
<1>2. /\ \A i, j \in Heads(less, l) : i = j
      /\ Heads(log, l) = {} => Heads(less, l) = {}
  BY <1>1, PickedLess
<1>3. ASSUME NEW d \in Days
      PROVE  /\ \A i, j \in Heads(fewer[d], l) : i = j
             /\ Heads(archives[d], l) = {} => Heads(fewer[d], l) = {}
  <2>1. PICK new, old : new = fewer[d] /\ old = archives[d]
    OBVIOUS
  <2>2. Picked(new, old) /\ \A i, j \in Heads(old, l) : i = j
    BY <1>1, <2>1
  <2>. QED
    BY <2>1, <2>2, PickedLess
<1>. QED
  BY <1>1, <1>2, <1>3

LEMMA PickedAll == ASSUME NEW old PROVE Picked(old, old)
<1>1. [n \in DOMAIN old |-> n] \in [DOMAIN old -> DOMAIN old]
  OBVIOUS
<1>. QED
  BY <1>1 DEF Picked

LEMMA PickedNone == ASSUME NEW old PROVE Picked(<<>>, old)
<1>1. PICK new : new = <<>>
  OBVIOUS
<1>2. DOMAIN new = {}
  BY <1>1
<1>3. [n \in DOMAIN new |-> n] \in [DOMAIN new -> DOMAIN old]
  BY <1>2
<1>4. Picked(new, old)
  BY <1>2, <1>3 DEF Picked
<1>. QED
  BY <1>1, <1>4

LEMMA PickedPart ==
  ASSUME NEW old \in Seq(Piece), NEW m \in 0..Len(old), NEW n \in m..Len(old)
  PROVE  Picked(SubSeq(old, m + 1, n), old)
<1>1. PICK new : new = SubSeq(old, m + 1, n)
  OBVIOUS
<1>2. Len(old) \in Nat /\ DOMAIN old = 1..Len(old) /\ \A k \in 1..Len(old) : old[k] \in Piece
  BY LenProperties, ElementOfSeq
<1>3. m \in Nat /\ n \in Nat /\ m <= n /\ n <= Len(old)
  BY <1>2
<1>4. DOMAIN new = 1..(n - m) /\ \A k \in 1..(n - m) : new[k] = old[m + k]
  <2>1. \A k \in (m + 1)..n : old[k] \in Piece
    BY <1>2, <1>3
  <2>2. /\ new \in Seq(Piece) /\ Len(new) = IF m + 1 <= n THEN n - (m + 1) + 1 ELSE 0
        /\ \A k \in 1..(n - (m + 1) + 1) : new[k] = old[m + 1 + k - 1]
    BY <1>1, <1>3, <2>1, SubSeqProperties
  <2>3. Len(new) = n - m
    <3>1. CASE m + 1 <= n
      BY <1>3, <2>2, <3>1
    <3>2. CASE ~(m + 1 <= n)
      <4>1. Len(new) = 0 /\ n - m = 0
        BY <1>3, <2>2, <3>2
      <4>. QED
        BY <4>1
    <3>. QED
      BY <3>1, <3>2
  <2>4. DOMAIN new = 1..Len(new)
    BY <2>2, LenProperties
  <2>5. n - (m + 1) + 1 = n - m /\ \A k \in Nat : m + 1 + k - 1 = m + k
    BY <1>3
  <2>. QED
    BY <2>2, <2>3, <2>4, <2>5
<1>5. PICK p : p = [k \in DOMAIN new |-> m + k]
  OBVIOUS
<1>6. p \in [DOMAIN new -> DOMAIN old]
  BY <1>2, <1>3, <1>4, <1>5
<1>7. \A j, k \in DOMAIN new : p[j] = p[k] => j = k
  BY <1>3, <1>4, <1>5
<1>8. \A k \in DOMAIN new : new[k] = old[p[k]]
  BY <1>4, <1>5
<1>. QED
  BY <1>1, <1>6, <1>7, <1>8 DEF Picked

LEMMA PiecesPicked ==
  ASSUME NEW log \in Seq(Piece), NEW places, places \subseteq DOMAIN log
  PROVE  Picked(Pieces(log, places), log)
<1>1. PICK new : new = Pieces(log, places)
  OBVIOUS
<1>2. PICK p \in [DOMAIN new -> places] :
        /\ \A n \in DOMAIN new : new[n] = log[p[n]]
        /\ \A m, n \in DOMAIN new : p[m] = p[n] => m = n
  BY <1>1, PiecesPick
<1>3. p \in [DOMAIN new -> DOMAIN log]
  BY <1>2
<1>. QED
  BY <1>1, <1>2, <1>3 DEF Picked

LEMMA PiecesFrom ==
  ASSUME NEW log \in Seq(Piece), NEW places, places \subseteq DOMAIN log,
         NEW k \in DOMAIN Pieces(log, places)
  PROVE  \E i \in places : Pieces(log, places)[k] = log[i]
<1>1. PICK new : new = Pieces(log, places)
  OBVIOUS
<1>2. PICK p \in [DOMAIN new -> places] :
        /\ \A n \in DOMAIN new : new[n] = log[p[n]]
        /\ \A m, n \in DOMAIN new : p[m] = p[n] => m = n
  BY <1>1, PiecesPick
<1>. QED
  BY <1>1, <1>2

(* The places of two files put together.                                    *)
LEMMA ConcatPlaces ==
  ASSUME NEW a \in Seq(Piece), NEW b \in Seq(Piece), NEW k \in DOMAIN (a \o b)
  PROVE  /\ Len(a) \in Nat /\ k \in Nat
         /\ \/ k \in DOMAIN a /\ k <= Len(a) /\ (a \o b)[k] = a[k]
            \/ k > Len(a) /\ k - Len(a) \in DOMAIN b /\ (a \o b)[k] = b[k - Len(a)]
<1>1. /\ Len(a) \in Nat /\ Len(b) \in Nat /\ DOMAIN a = 1..Len(a) /\ DOMAIN b = 1..Len(b)
  BY LenProperties
<1>2. PICK c : c = a \o b
  OBVIOUS
<1>3. /\ c \in Seq(Piece) /\ Len(c) = Len(a) + Len(b)
      /\ \A i \in 1..(Len(a) + Len(b)) : c[i] = IF i <= Len(a) THEN a[i] ELSE b[i - Len(a)]
  BY <1>2, ConcatProperties
<1>4. DOMAIN c = 1..(Len(a) + Len(b))
  BY <1>3, LenProperties
<1>5. k \in 1..(Len(a) + Len(b))
  BY <1>2, <1>4
<1>6. CASE k <= Len(a)
  BY <1>1, <1>2, <1>3, <1>5, <1>6
<1>7. CASE ~(k <= Len(a))
  BY <1>1, <1>2, <1>3, <1>5, <1>7
<1>. QED
  BY <1>6, <1>7

LEMMA PickedRight ==
  ASSUME NEW a \in Seq(Piece), NEW b \in Seq(Piece)
  PROVE  Picked(b, a \o b)
<1>1. /\ Len(a) \in Nat /\ Len(b) \in Nat /\ DOMAIN b = 1..Len(b)
  BY LenProperties
<1>2. PICK c : c = a \o b
  OBVIOUS
<1>3. /\ c \in Seq(Piece) /\ Len(c) = Len(a) + Len(b)
      /\ \A i \in 1..(Len(a) + Len(b)) : c[i] = IF i <= Len(a) THEN a[i] ELSE b[i - Len(a)]
  BY <1>2, ConcatProperties
<1>4. DOMAIN c = 1..(Len(a) + Len(b))
  BY <1>3, LenProperties
<1>5. PICK p : p = [k \in DOMAIN b |-> Len(a) + k]
  OBVIOUS
<1>6. p \in [DOMAIN b -> DOMAIN c]
  BY <1>1, <1>4, <1>5
<1>7. \A j, k \in DOMAIN b : p[j] = p[k] => j = k
  BY <1>1, <1>5
<1>8. ASSUME NEW k \in DOMAIN b PROVE b[k] = c[p[k]]
  <2>1. p[k] = Len(a) + k /\ p[k] \in 1..(Len(a) + Len(b)) /\ ~(p[k] <= Len(a))
        /\ p[k] - Len(a) = k
    BY <1>1, <1>5
  <2>. QED
    BY <1>3, <2>1
<1>. QED
  BY <1>2, <1>6, <1>7, <1>8 DEF Picked

LEMMA BoundsConcat ==
  ASSUME NEW a \in Seq(Piece), NEW b \in Seq(Piece)
  PROVE  /\ \A n : Below(a, n) /\ Below(b, n) => Below(a \o b, n)
         /\ \A d : Only(a, d) /\ Only(b, d) => Only(a \o b, d)
<1>1. \A k \in DOMAIN (a \o b) :
        \/ k \in DOMAIN a /\ (a \o b)[k] = a[k]
        \/ k - Len(a) \in DOMAIN b /\ (a \o b)[k] = b[k - Len(a)]
  BY ConcatPlaces
<1>. QED
  BY <1>1 DEF Below, Only

(* A piece without a date, or without a number, heads no line.              *)
LEMMA HeadsSame ==
  ASSUME NEW log \in Seq(Piece), NEW p \in Piece, p.day = 0 \/ p.line = 0, NEW l \in Nat \ {0}
  PROVE  Heads(log \o <<p>>, l) = Heads(log, l)
<1>1. PICK more : more = log \o <<p>>
  OBVIOUS
<1>2. /\ Len(log) \in Nat /\ DOMAIN log = 1..Len(log) /\ DOMAIN more = 1..(Len(log) + 1)
      /\ \A k \in 1..Len(log) : more[k] = log[k]
      /\ more[Len(log) + 1] = p
  BY <1>1, PieceAdded
<1>3. \A k \in DOMAIN more :
        k \in DOMAIN log \/ (k = Len(log) + 1 /\ ~(more[k].day > 0 /\ more[k].line = l))
  BY <1>2
<1>. QED
  BY <1>1, <1>2, <1>3 DEF Heads

LEMMA OnceSame ==
  ASSUME NEW log \in Seq(Piece), NEW p \in Piece, p.day = 0 \/ p.line = 0,
         NEW archives, Once(log, archives)
  PROVE  Once(log \o <<p>>, archives)
<1>1. \A l \in Nat \ {0} : Heads(log \o <<p>>, l) = Heads(log, l)
  BY HeadsSame
<1>. QED
  BY <1>1 DEF Once

(* A line whose number nobody has is added to the log.                      *)
LEMMA OnceMore ==
  ASSUME NEW log \in Seq(Piece), NEW p \in Piece, NEW archives, Once(log, archives),
         Below(log, p.line), \A d \in Days : Below(archives[d], p.line)
  PROVE  Once(log \o <<p>>, archives)
<1>1. PICK more : more = log \o <<p>>
  OBVIOUS
<1>2. /\ Len(log) \in Nat /\ DOMAIN log = 1..Len(log) /\ DOMAIN more = 1..(Len(log) + 1)
      /\ \A k \in 1..Len(log) : more[k] = log[k]
      /\ more[Len(log) + 1] = p
  BY <1>1, PieceAdded
<1>3. p.line \in Nat
  BY LogAssumption DEF Piece
<1>4. Heads(log, p.line) = {} /\ \A d \in Days : Heads(archives[d], p.line) = {}
  BY <1>3 DEF Below, Heads
<1>5. Heads(more, p.line) \subseteq {Len(log) + 1}
  <2>1. ASSUME NEW k \in Heads(more, p.line) PROVE k = Len(log) + 1
    <3>1. k \in DOMAIN more /\ more[k].line = p.line /\ more[k].day > 0
      BY <2>1 DEF Heads
    <3>2. CASE k \in 1..Len(log)
      <4>1. k \in Heads(log, p.line)
        BY <1>2, <3>1, <3>2 DEF Heads
      <4>. QED
        BY <1>4, <4>1
    <3>. QED
      BY <1>2, <3>1, <3>2
  <2>. QED
    BY <2>1
<1>6. ASSUME NEW l, l # p.line PROVE Heads(more, l) = Heads(log, l)
  <2>1. \A k \in DOMAIN more : k \in DOMAIN log \/ more[k].line # l
    BY <1>2, <1>6
  <2>. QED
    BY <1>2, <2>1 DEF Heads
<1>7. Once(more, archives)
  <2>. SUFFICES ASSUME NEW l \in Nat \ {0}
                PROVE  /\ \A i, j \in Heads(more, l) : i = j
                       /\ \A d \in Days : \A i, j \in Heads(archives[d], l) : i = j
                       /\ \A d \in Days : Heads(more, l) # {} => Heads(archives[d], l) = {}
                       /\ \A d, e \in Days :
                            Heads(archives[d], l) # {} /\ Heads(archives[e], l) # {} => d = e
    BY DEF Once
  <2>1. /\ \A i, j \in Heads(log, l) : i = j
        /\ \A d \in Days : \A i, j \in Heads(archives[d], l) : i = j
        /\ \A d \in Days : Heads(log, l) # {} => Heads(archives[d], l) = {}
        /\ \A d, e \in Days : Heads(archives[d], l) # {} /\ Heads(archives[e], l) # {} => d = e
    BY DEF Once
  <2>2. CASE l = p.line
    BY <1>4, <1>5, <2>1, <2>2
  <2>3. CASE l # p.line
    BY <1>6, <2>1, <2>3
  <2>. QED
    BY <2>2, <2>3
<1>. QED
  BY <1>1, <1>7

(* What is staged is what was there, in one place each.                     *)
LEMMA StagedOnce ==
  ASSUME NEW log \in Seq(Piece), NEW time \in Days, Rotates(log, time), Orderly(log),
         NEW archives \in [Days -> Seq(Piece)], Once(log, archives), Dated(archives)
  PROVE  LET staged == [d \in Days |-> archives[d] \o Split(log, time).blocks[d]]
         IN  Once(Split(log, time).rest, staged) /\ Dated(staged)
<1>1. PICK n \in 1..Len(log) :
        /\ Leaving(log, time) = 1..n
        /\ Split(log, time).rest = SubSeq(log, n + 1, Len(log))
        /\ \A i \in 1..n : Active(log, i) \in Days
        /\ \A i \in 1..n : Stamped(log, i) => Active(log, i) = log[i].day
  BY SplitOf
<1>2. PICK blocks, rest_ : blocks = Split(log, time).blocks /\ rest_ = Split(log, time).rest
  OBVIOUS
<1>3. PICK staged : staged = [d \in Days |-> archives[d] \o blocks[d]]
  OBVIOUS
<1>4. /\ Len(log) \in Nat /\ DOMAIN log = 1..Len(log)
      /\ \A j \in DOMAIN log : log[j] \in Piece /\ log[j].day \in Nat
  BY DaysOf
<1>5. \A d \in Days : /\ blocks[d] \in Seq(Piece) /\ archives[d] \in Seq(Piece)
                      /\ blocks[d] = Pieces(log, BlockOf(log, time, d))
                      /\ staged[d] = archives[d] \o blocks[d]
  BY <1>2, <1>3, SplitTyped
(* Where a block has its pieces from.                                       *)
<1>6. ASSUME NEW d \in Days, NEW k \in DOMAIN blocks[d]
      PROVE  \E i \in 1..n : blocks[d][k] = log[i] /\ Active(log, i) = d
  <2>1. PICK b, places : b = blocks[d] /\ places = BlockOf(log, time, d)
    OBVIOUS
  <2>2. places \subseteq DOMAIN log /\ b = Pieces(log, places)
        /\ \A i \in places : i \in 1..n /\ Active(log, i) = d
    BY <1>1, <1>5, <2>1, SplitTyped DEF BlockOf
  <2>3. PICK i \in places : Pieces(log, places)[k] = log[i]
    <3>1. places \subseteq DOMAIN log /\ k \in DOMAIN Pieces(log, places)
      BY <1>6, <2>1, <2>2
    <3>. QED
      BY <3>1, PiecesFrom
  <2>. QED
    BY <2>1, <2>2, <2>3
<1>7. \A i \in 1..n : log[i].day \in {0, Active(log, i)}
  <2>. SUFFICES ASSUME NEW i \in 1..n, log[i].day # 0 PROVE log[i].day = Active(log, i)
    OBVIOUS
  <2>1. i \in DOMAIN log /\ log[i].day > 0
    BY <1>4
  <2>2. Stamped(log, i)
    BY <2>1, <1>4 DEF Orderly, Stamped
  <2>. QED
    BY <1>1, <2>2
<1>8. Dated(staged)
  <2>. SUFFICES ASSUME NEW d \in Days PROVE Only(staged[d], d)
    BY DEF Dated
  <2>1. Only(blocks[d], d)
    BY <1>6, <1>7 DEF Only
  <2>2. Only(archives[d], d)
    BY DEF Dated
  <2>3. PICK a, b : a = archives[d] /\ b = blocks[d]
    OBVIOUS
  <2>4. Only(a \o b, d)
    BY <1>5, <2>1, <2>2, <2>3, BoundsConcat
  <2>. QED
    BY <1>5, <2>3, <2>4
<1>9. Picked(rest_, log) /\ \A i \in DOMAIN rest_ : \E j \in DOMAIN log : j > n /\ rest_[i] = log[j]
  <2>1. n \in 0..Len(log) /\ Len(log) \in n..Len(log) /\ n \in Nat
    BY <1>4
  <2>2. Picked(rest_, log)
    BY <1>1, <1>2, <2>1, PickedPart
  <2>3. ASSUME NEW i \in DOMAIN rest_ PROVE \E j \in DOMAIN log : j > n /\ rest_[i] = log[j]
    <3>1. \A k \in (n + 1)..Len(log) : log[k] \in Piece
      BY <1>4, <2>1
    <3>2. /\ rest_ \in Seq(Piece)
          /\ Len(rest_) = IF n + 1 <= Len(log) THEN Len(log) - (n + 1) + 1 ELSE 0
          /\ \A k \in 1..(Len(log) - (n + 1) + 1) : rest_[k] = log[n + 1 + k - 1]
      BY <1>1, <1>2, <1>4, <2>1, <3>1, SubSeqProperties
    <3>3. i \in 1..Len(rest_) /\ Len(rest_) # 0
      BY <2>3, <3>2, LenProperties
    <3>4. n + 1 <= Len(log) /\ Len(rest_) = Len(log) - (n + 1) + 1
      BY <3>2, <3>3
    <3>5. rest_[i] = log[n + 1 + i - 1]
      BY <3>2, <3>3, <3>4
    <3>6. n + 1 + i - 1 \in DOMAIN log /\ n + 1 + i - 1 > n
      <4>1. \A m, k \in Nat : m + 1 <= k => k - (m + 1) + 1 = k - m
        OBVIOUS
      <4>2. Len(rest_) = Len(log) - n /\ i \in 1..(Len(log) - n)
        BY <1>4, <2>1, <3>3, <3>4, <4>1
      <4>3. n + 1 + i - 1 = n + i /\ n + i \in 1..Len(log) /\ n + i > n
        BY <1>4, <2>1, <4>2
      <4>. QED
        BY <1>4, <4>3
    <3>. QED
      BY <3>5, <3>6
  <2>. QED
    BY <2>2, <2>3
<1>10. Once(rest_, staged)
  <2>. SUFFICES ASSUME NEW l \in Nat \ {0}
                PROVE  /\ \A i, j \in Heads(rest_, l) : i = j
                       /\ \A d \in Days : \A i, j \in Heads(staged[d], l) : i = j
                       /\ \A d \in Days : Heads(rest_, l) # {} => Heads(staged[d], l) = {}
                       /\ \A d, e \in Days :
                            Heads(staged[d], l) # {} /\ Heads(staged[e], l) # {} => d = e
    BY DEF Once
  <2>1. /\ \A i, j \in Heads(log, l) : i = j
        /\ \A d \in Days : \A i, j \in Heads(archives[d], l) : i = j
        /\ \A d \in Days : Heads(log, l) # {} => Heads(archives[d], l) = {}
        /\ \A d, e \in Days : Heads(archives[d], l) # {} /\ Heads(archives[e], l) # {} => d = e
    BY DEF Once
  <2>2. \A i, j \in Heads(rest_, l) : i = j
    BY <1>9, <2>1, PickedLess
  <2>3. ASSUME NEW d \in Days, NEW k \in Heads(blocks[d], l)
        PROVE  \E i \in Heads(log, l) : i \in 1..n /\ Active(log, i) = d
    <3>1. k \in DOMAIN blocks[d] /\ blocks[d][k].line = l /\ blocks[d][k].day > 0
      BY <2>3 DEF Heads
    <3>2. PICK i \in 1..n : blocks[d][k] = log[i] /\ Active(log, i) = d
      BY <1>6, <3>1
    <3>3. i \in DOMAIN log
      BY <1>4
    <3>. QED
      BY <3>1, <3>2, <3>3 DEF Heads
  <2>4. ASSUME NEW k \in Heads(rest_, l) PROVE \E j \in Heads(log, l) : j > n
    BY <1>9, <2>4 DEF Heads
  <2>5. ASSUME NEW d \in Days, NEW k \in Heads(staged[d], l)
        PROVE  /\ Len(archives[d]) \in Nat /\ k \in Nat
               /\ \/ k \in Heads(archives[d], l) /\ k <= Len(archives[d])
                  \/ k > Len(archives[d]) /\ k - Len(archives[d]) \in Heads(blocks[d], l)
    <3>1. PICK a, b : a = archives[d] /\ b = blocks[d]
      OBVIOUS
    <3>2. a \in Seq(Piece) /\ b \in Seq(Piece) /\ staged[d] = a \o b
      BY <1>5, <3>1
    <3>3. k \in DOMAIN (a \o b) /\ (a \o b)[k].line = l /\ (a \o b)[k].day > 0
      BY <2>5, <3>2 DEF Heads
    <3>4. /\ Len(a) \in Nat /\ k \in Nat
          /\ \/ k \in DOMAIN a /\ k <= Len(a) /\ (a \o b)[k] = a[k]
             \/ k > Len(a) /\ k - Len(a) \in DOMAIN b /\ (a \o b)[k] = b[k - Len(a)]
      BY <3>2, <3>3, ConcatPlaces
    <3>. QED
      BY <3>1, <3>3, <3>4 DEF Heads
  <2>6. ASSUME NEW d \in Days PROVE \A i, j \in Heads(blocks[d], l) : i = j
    <3>1. PICK b : b = blocks[d]
      OBVIOUS
    <3>2. Picked(b, log)
      BY <1>5, <3>1, SplitTyped, PiecesPicked
    <3>. QED
      BY <2>1, <3>1, <3>2, PickedLess
  <2>7. ASSUME NEW d \in Days, NEW i \in Heads(staged[d], l), NEW j \in Heads(staged[d], l)
        PROVE  i = j
    <3>1. PICK m : m = Len(archives[d])
      OBVIOUS
    <3>2. /\ m \in Nat /\ i \in Nat /\ j \in Nat
          /\ i \in Heads(archives[d], l) \/ i - m \in Heads(blocks[d], l)
          /\ j \in Heads(archives[d], l) \/ j - m \in Heads(blocks[d], l)
      BY <2>5, <2>7, <3>1
    <3>3. Heads(archives[d], l) = {} \/ Heads(blocks[d], l) = {}
      BY <2>1, <2>3
    <3>4. CASE i \in Heads(archives[d], l) /\ j \in Heads(archives[d], l)
      BY <2>1, <3>4
    <3>5. CASE i - m \in Heads(blocks[d], l) /\ j - m \in Heads(blocks[d], l)
      <4>1. i - m = j - m
        BY <2>6, <3>5
      <4>. QED
        BY <3>2, <4>1
    <3>. QED
      BY <3>2, <3>3, <3>4, <3>5
  <2>8. ASSUME NEW d \in Days, Heads(rest_, l) # {} PROVE Heads(staged[d], l) = {}
    <3>1. PICK j \in Heads(log, l) : j > n
      BY <2>4, <2>8
    <3>2. Heads(archives[d], l) = {}
      BY <2>1, <3>1
    <3>3. Heads(blocks[d], l) = {}
      <4>. SUFFICES ASSUME NEW k \in Heads(blocks[d], l) PROVE FALSE
        OBVIOUS
      <4>1. PICK i \in Heads(log, l) : i \in 1..n
        BY <2>3
      <4>2. i = j
        BY <2>1, <3>1, <4>1
      <4>. QED
        BY <3>1, <4>1, <4>2
    <3>. QED
      BY <2>5, <3>2, <3>3
  <2>9. ASSUME NEW d \in Days, NEW e \in Days, Heads(staged[d], l) # {}, Heads(staged[e], l) # {}
        PROVE  d = e
    <3>1. /\ Heads(archives[d], l) # {} \/ Heads(blocks[d], l) # {}
          /\ Heads(archives[e], l) # {} \/ Heads(blocks[e], l) # {}
      BY <2>5, <2>9
    <3>2. CASE Heads(archives[d], l) # {} /\ Heads(archives[e], l) # {}
      BY <2>1, <3>2
    <3>3. CASE Heads(blocks[d], l) # {} /\ Heads(blocks[e], l) # {}
      <4>1. PICK i \in Heads(log, l) : Active(log, i) = d
        BY <2>3, <3>3
      <4>2. PICK j \in Heads(log, l) : Active(log, j) = e
        BY <2>3, <3>3
      <4>3. i = j
        BY <2>1, <4>1, <4>2
      <4>. QED
        BY <4>1, <4>2, <4>3
    <3>4. \A f, g \in Days : Heads(blocks[f], l) # {} => Heads(archives[g], l) = {}
      BY <2>1, <2>3
    <3>. QED
      BY <3>1, <3>2, <3>3, <3>4
  <2>. QED
    BY <2>2, <2>7, <2>8, <2>9
<1>. QED
  BY <1>2, <1>3, <1>8, <1>10

LEMMA NewestIs ==
  ASSUME LogInv, DayInv, NEW w \in Writers, Exactly(w)
  PROVE  /\ Newest(writer[w]) \in Nat /\ nextLine \in Nat
         /\ 1 <= Newest(writer[w]) /\ Newest(writer[w]) <= nextLine
<1>. DEFINE me == writer[w]
<1>1. nextLine \in Nat /\ nextLine >= 1
  BY LogAssumption DEF LogInv, LogTyped
<1>2. CASE me.piece = Nil
  BY <1>1, <1>2 DEF Newest
<1>3. CASE me.piece # Nil
  <2>1. me.pc \in {"rotate", "commit", "reopen", "append"}
    BY <1>3, Me DEF Exactly, WriterState, WriterLabels
  <2>2. DatedPiece(me)
    BY <2>1 DEF DayInv, WriterIsDated
  <2>3. me.piece.line \in 1..(nextLine - 1)
    BY <1>3, <2>2 DEF DatedPiece
  <2>. QED
    BY <1>1, <1>3, <2>3 DEF Newest
<1>. QED
  BY <1>2, <1>3

LEMMA BelowMore ==
  ASSUME NEW log \in Seq(Piece), NEW m \in Nat, NEW n \in Nat, m <= n, Below(log, m)
  PROVE  Below(log, n)
<1>1. \A j \in DOMAIN log : log[j].line \in Nat
  <2>1. \A j \in DOMAIN log : log[j] \in Piece
    BY DaysOf
  <2>. QED
    BY <2>1, LogAssumption DEF Piece
<1>. QED
  BY <1>1 DEF Below

LEMMA BelowPiece ==
  ASSUME NEW log \in Seq(Piece), NEW p \in Piece, NEW n, Below(log, n), p.line < n
  PROVE  Below(log \o <<p>>, n)
<1>1. PICK more : more = log \o <<p>>
  OBVIOUS
<1>2. /\ Len(log) \in Nat /\ DOMAIN log = 1..Len(log) /\ DOMAIN more = 1..(Len(log) + 1)
      /\ \A k \in 1..Len(log) : more[k] = log[k]
      /\ more[Len(log) + 1] = p
  BY <1>1, PieceAdded
<1>3. \A j \in DOMAIN more : (j \in DOMAIN log /\ more[j] = log[j]) \/ more[j] = p
  BY <1>2
<1>4. Below(more, n)
  BY <1>3 DEF Below
<1>. QED
  BY <1>1, <1>4

(* With one writer, all there is to keep apart is in its hands.             *)
LEMMA ExactMine ==
  ASSUME ExactInv, OneWriter, NEW w \in Writers, ~torn
  PROVE  /\ Exactly(w)
         /\ writer[w].pc # "commit" => Once(Contents, archive) /\ Dated(archive)
BY DEF ExactInv, OneWriter, Committing

LEMMA ExactOne ==
  ASSUME OneWriter, NEW w \in Writers,
         ~torn' => /\ Exactly(w)'
                   /\ writer'[w].pc # "commit" => Once(Contents, archive)' /\ Dated(archive)'
  PROVE  ExactInv'
BY DEF ExactInv, OneWriter, Committing

LEMMA FilesTyped ==
  ASSUME LogInv
  PROVE  /\ Contents \in Seq(Piece) /\ archive \in [Days -> Seq(Piece)]
         /\ \A d \in Days : archive[d] \in Seq(Piece)
         /\ \A w \in Writers : \A d \in Days : RolledBack(w, d) \in Seq(Piece)
<1>1. archive \in [Days -> Seq(Piece)]
  BY DEF LogInv, LogTyped
<1>. QED
  BY <1>1, ContentsTyped, RolledBackTyped

(* A step of the writer that leaves the files alone.                        *)
LEMMA ExactQuietly ==
  ASSUME LogInv, DayInv, ExactInv, OneWriter, NEW w \in Writers,
         writer[w].pc # "commit", writer'[w].pc # "commit",
         UNCHANGED <<inode, current, archive, torn>>,
         writer'[w].pc \in {"closed", "ready"} => writer'[w].piece = Nil,
         ~torn /\ Exactly(w) => Newest(writer[w])' \in Nat /\ Newest(writer[w]) <= Newest(writer[w])'
  PROVE  ExactInv'
<1>1. Contents' = Contents
  BY DEF Contents
<1>. SUFFICES ASSUME ~torn
              PROVE  /\ Exactly(w)'
                     /\ Once(Contents, archive)' /\ Dated(archive)'
  BY ExactOne
<1>2. Exactly(w) /\ Once(Contents, archive) /\ Dated(archive)
  BY ExactMine
<1>3. PICK m, n : m = Newest(writer[w]) /\ n = Newest(writer[w])'
  OBVIOUS
<1>4. m \in Nat /\ n \in Nat /\ m <= n
  BY <1>2, <1>3, NewestIs
<1>5. Below(Contents, m) /\ \A d \in Days : Below(archive[d], m)
  BY <1>2, <1>3 DEF Exactly
<1>6. Below(Contents, n) /\ \A d \in Days : Below(archive[d], n)
  BY <1>4, <1>5, FilesTyped, BelowMore
<1>7. Exactly(w)'
  BY <1>1, <1>3, <1>6 DEF Exactly
<1>8. Once(Contents, archive)' /\ Dated(archive)'
  BY <1>1, <1>2 DEF Once, Dated
<1>. QED
  BY <1>7, <1>8

LEMMA ExactClosed ==
  ASSUME LogInv, DayInv, ExactInv, OneWriter, NEW w \in Writers, writer[w].pc # "commit",
         Become(w, Closed), UNCHANGED <<inode, current, archive, torn, nextLine>>
  PROVE  ExactInv'
<1>1. PICK s : s = Closed
  OBVIOUS
<1>2. writer'[w] = s /\ s.pc = "closed" /\ s.piece = Nil
  BY <1>1, ClosedTyped, Become_ DEF LogInv, LogTyped
<1>3. Newest(writer[w])' = nextLine
  BY <1>2 DEF Newest
<1>4. Exactly(w) => Newest(writer[w])' \in Nat /\ Newest(writer[w]) <= Newest(writer[w])'
  BY <1>3, NewestIs
<1>. QED
  BY <1>2, <1>4, ExactQuietly

LEMMA OpenExact ==
  ASSUME LogInv, DayInv, ExactInv, OneWriter, NEW w \in Writers, Open(w)
  PROVE  ExactInv'
<1>1. PICK s : s = [Closed EXCEPT !.pc = "rotate", !.time = today]
  OBVIOUS
<1>2. s.pc = "rotate" /\ s.piece = Nil
  BY <1>1 DEF Closed
<1>3. writer'[w] = s /\ UNCHANGED <<inode, current, archive, torn, nextLine>> /\ writer[w].pc = "closed"
  BY <1>1 DEF Open, Become, LogInv, LogTyped, disk, rest
<1>4. Newest(writer[w])' = nextLine
  BY <1>2, <1>3 DEF Newest
<1>5. Exactly(w) => Newest(writer[w])' \in Nat /\ Newest(writer[w]) <= Newest(writer[w])'
  BY <1>4, NewestIs
<1>. QED
  BY <1>2, <1>3, <1>5, ExactQuietly

LEMMA CloseExact ==
  ASSUME LogInv, DayInv, ExactInv, OneWriter, NEW w \in Writers, Close(w)
  PROVE  ExactInv'
<1>1. /\ Become(w, Closed) /\ UNCHANGED <<inode, current, archive, torn, nextLine>>
      /\ writer[w].pc # "commit"
  BY DEF Close, disk, rest
<1>. QED
  BY <1>1, ExactClosed

LEMMA WriteHeadExact ==
  ASSUME LogInv, DayInv, ExactInv, OneWriter, NEW w \in Writers, WriteHead(w)
  PROVE  ExactInv'
<1>1. PICK piece, s :
        /\ piece.line = nextLine /\ s.piece = piece /\ writer'[w] = s
        /\ s.pc \in {"rotate", "reopen", "append"}
  BY HeadWritten
<1>2. /\ UNCHANGED <<inode, current, archive, torn>> /\ nextLine' = nextLine + 1
      /\ writer[w].pc = "ready"
  BY DEF WriteHead, disk, rest
<1>3. ASSUME Exactly(w)
      PROVE  Newest(writer[w])' \in Nat /\ Newest(writer[w]) <= Newest(writer[w])'
  <2>1. nextLine \in Nat /\ Newest(writer[w]) \in Nat /\ Newest(writer[w]) <= nextLine
    BY <1>3, NewestIs
  <2>2. Newest(writer[w])' = nextLine \/ Newest(writer[w])' = nextLine + 1
    BY <1>1, <1>2 DEF Newest
  <2>. QED
    BY <2>1, <2>2
<1>. QED
  BY <1>1, <1>2, <1>3, ExactQuietly

LEMMA StageExact ==
  ASSUME LogInv, DayInv, ExactInv, OneWriter, NEW w \in Writers, Stage(w)
  PROVE  ExactInv'
<1>. DEFINE me == writer[w]
<1>1. me \in WriterState /\ me.pc = "rotate" /\ me.time \in Days /\ me.done = <<>> /\ Orderly(Contents)
  BY Me DEF Stage, DayInv, WriterHolds
<1>2. UNCHANGED <<inode, current, archive, torn, nextLine>> /\ Contents' = Contents
  BY DEF Stage, disk, rest, Contents
<1>3. CASE Become(w, [me EXCEPT !.pc = "reopen"])
  <2>1. PICK s : s = [me EXCEPT !.pc = "reopen"]
    OBVIOUS
  <2>2. writer'[w] = s /\ s.pc = "reopen" /\ s.piece = me.piece
    BY <1>1, <1>3, <2>1 DEF Become, LogInv, LogTyped, WriterState
  <2>3. Newest(writer[w])' = Newest(writer[w])
    BY <1>2, <2>2 DEF Newest
  <2>4. Exactly(w) => Newest(writer[w])' \in Nat /\ Newest(writer[w]) <= Newest(writer[w])'
    BY <2>3, NewestIs
  <2>. QED
    BY <1>1, <1>2, <2>2, <2>4, ExactQuietly
<1>4. CASE /\ Rotates(Contents, me.time)
           /\ Become(w, [me EXCEPT !.pc = "commit", !.blocks = Split(Contents, me.time).blocks,
                                    !.stays = Split(Contents, me.time).rest])
  <2>1. PICK s, log : s = [me EXCEPT !.pc = "commit", !.blocks = Split(Contents, me.time).blocks,
                                      !.stays = Split(Contents, me.time).rest]
                      /\ log = Contents
    OBVIOUS
  <2>2. /\ writer'[w] = s /\ s.pc = "commit" /\ s.piece = me.piece /\ s.done = <<>>
        /\ s.stays = Split(log, me.time).rest /\ s.blocks = Split(log, me.time).blocks
    BY <1>1, <1>4, <2>1 DEF Become, LogInv, LogTyped, WriterState
  <2>. SUFFICES ASSUME ~torn PROVE Exactly(w)'
    BY <1>2, <2>2, ExactOne
  <2>3. Exactly(w) /\ Once(log, archive) /\ Dated(archive)
    BY <1>1, <2>1, ExactMine
  <2>4. PICK staged : staged = [d \in Days |-> archive[d] \o Split(log, me.time).blocks[d]]
    OBVIOUS
  <2>5. log \in Seq(Piece) /\ archive \in [Days -> Seq(Piece)] /\ Rotates(log, me.time) /\ Orderly(log)
    BY <1>1, <1>4, <2>1, FilesTyped
  <2>6. Once(s.stays, staged) /\ Dated(staged)
    BY <1>1, <2>2, <2>3, <2>4, <2>5, StagedOnce
  <2>7. After(writer[w])' = staged
    BY <1>2, <2>2, <2>4 DEF After
  <2>8. Before(w)' = archive
    <3>1. ASSUME NEW d \in Days PROVE RolledBack(w, d)' = archive[d]
      <4>1. PICK done, a : done = s.done /\ a = archive[d]
        OBVIOUS
      <4>2. DOMAIN done = {} /\ a \in Seq(Piece)
        BY <2>2, <2>5, <4>1
      <4>3. Cut(a, done, d) = a
        BY <4>2, CutNone
      <4>. QED
        BY <1>2, <2>2, <4>1, <4>3 DEF RolledBack, Cut, SizesOf
    <3>. QED
      BY <2>5, <3>1 DEF Before
  <2>9. PICK m : m = Newest(writer[w])
    OBVIOUS
  <2>10. Below(log, m) /\ \A d \in Days : Below(archive[d], m)
    BY <2>1, <2>3, <2>9 DEF Exactly
  <2>11. Newest(writer[w])' = m
    BY <1>2, <2>2, <2>9 DEF Newest
  <2>12. Below(s.stays, m)
    <3>1. PICK n \in 1..Len(log) : s.stays = SubSeq(log, n + 1, Len(log))
      BY <1>1, <2>2, <2>5, SplitOf
    <3>2. n \in 0..Len(log) /\ Len(log) \in n..Len(log)
      BY <2>5, LenProperties
    <3>3. Picked(s.stays, log)
      BY <2>5, <3>1, <3>2, PickedPart
    <3>. QED
      BY <2>10, <3>3, PickedLess
  <2>13. ASSUME NEW d \in Days PROVE Below(staged[d], m)
    <3>1. PICK a, b : a = archive[d] /\ b = Split(log, me.time).blocks[d]
      OBVIOUS
    <3>2. a \in Seq(Piece) /\ b \in Seq(Piece) /\ Picked(b, log)
      BY <1>1, <2>5, <3>1, SplitTyped, PiecesPicked
    <3>3. Below(a, m) /\ Below(b, m)
      BY <2>10, <3>1, <3>2, PickedLess
    <3>4. Below(a \o b, m)
      BY <3>2, <3>3, BoundsConcat
    <3>. QED
      BY <2>4, <3>1, <3>4
  <2>14. Once(Contents, Before(w))' /\ Dated(Before(w))'
    BY <1>2, <2>1, <2>3, <2>8
  <2>15. Once(writer[w].stays, After(writer[w]))' /\ Dated(After(writer[w]))'
    <3>1. PICK t : t = After(writer[w])'
      OBVIOUS
    <3>2. t = staged
      BY <2>7, <3>1
    <3>3. Once(writer'[w].stays, t) /\ Dated(t)
      BY <2>2, <2>6, <3>2
    <3>. QED
      BY <3>1, <3>3 DEF Once, Dated
  <2>16. /\ Below(Contents, Newest(writer[w]))'
         /\ (\A d \in Days : Below(archive[d], Newest(writer[w])))'
         /\ Below(writer[w].stays, Newest(writer[w]))'
         /\ (\A d \in Days : Below(After(writer[w])[d], Newest(writer[w])))'
    BY <1>2, <2>1, <2>2, <2>7, <2>10, <2>11, <2>12, <2>13
  <2>. QED
    BY <2>2, <2>14, <2>15, <2>16 DEF Exactly
<1>5. CASE Fails(w)
  BY <1>1, <1>2, <1>5, ExactClosed DEF Fails
<1>. QED
  BY <1>3, <1>4, <1>5 DEF Stage

LEMMA FailsShortExact ==
  ASSUME LogInv, DayInv, ExactInv, OneWriter, NEW w \in Writers, writer[w].pc # "commit",
         writer[w].file \in Inodes, NEW day \in 0..MaxDay, FailsShort(w, day),
         UNCHANGED <<current, archive, torn, nextLine>>
  PROVE  ExactInv'
<1>1. PICK s : s = Closed
  OBVIOUS
<1>2. Become(w, s)
  BY <1>1, Fragments
<1>3. writer'[w] = s /\ s.pc = "closed" /\ s.piece = Nil
  BY <1>1, <1>2, ClosedTyped, Become_ DEF LogInv, LogTyped
<1>. SUFFICES ASSUME ~torn PROVE Exactly(w)' /\ Once(Contents, archive)' /\ Dated(archive)'
  BY ExactOne
<1>4. Exactly(w) /\ Once(Contents, archive) /\ Dated(archive)
  BY ExactMine
<1>5. PICK m, log, new : m = Newest(writer[w]) /\ log = Contents /\ new = Contents'
  OBVIOUS
<1>6. m \in Nat /\ nextLine \in Nat /\ m <= nextLine /\ 1 <= m
  BY <1>4, <1>5, NewestIs
<1>7. Newest(writer[w])' = nextLine
  BY <1>3 DEF Newest
<1>8. Below(log, nextLine) /\ \A d \in Days : Below(archive[d], nextLine)
  BY <1>4, <1>5, <1>6, FilesTyped, BelowMore DEF Exactly
<1>9. Below(new, nextLine) /\ Once(new, archive)
  <2>1. CASE new = log
    BY <1>4, <1>5, <1>8, <2>1
  <2>2. CASE new # log
    <3>1. PICK p \in {Fragment(0), Fragment(day)} : new = log \o <<p>>
      BY <1>5, <2>2, LogGetsFragment
    <3>2. p \in Piece /\ p.line = 0
      <4>1. Fragment(0) \in Piece /\ Fragment(day) \in Piece
        BY LogAssumption DEF Fragment, Piece
      <4>2. Fragment(0).line = 0 /\ Fragment(day).line = 0
        BY DEF Fragment
      <4>. QED
        BY <3>1, <4>1, <4>2
    <3>3. log \in Seq(Piece)
      BY <1>5, FilesTyped
    <3>4. Below(log \o <<p>>, nextLine)
      BY <1>6, <1>8, <3>2, <3>3, BelowPiece
    <3>5. Once(log \o <<p>>, archive)
      BY <1>4, <1>5, <3>2, <3>3, OnceSame
    <3>. QED
      BY <3>1, <3>4, <3>5
  <2>. QED
    BY <2>1, <2>2
<1>10. Exactly(w)'
  BY <1>3, <1>5, <1>7, <1>8, <1>9 DEF Exactly
<1>11. Once(Contents, archive)' /\ Dated(archive)'
  BY <1>4, <1>5, <1>9 DEF Dated
<1>. QED
  BY <1>10, <1>11

LEMMA WriteRestExact ==
  ASSUME LogInv, DayInv, ExactInv, OneWriter, NEW w \in Writers, WriteRest(w)
  PROVE  ExactInv'
<1>. DEFINE me == writer[w]
<1>1. me \in WriterState /\ me.pc = "ready" /\ me.file \in Inodes
  BY Me DEF WriteRest, WriterHolds, WriterState
<1>2. UNCHANGED <<current, archive, torn, nextLine>>
  BY DEF WriteRest, rest
<1>3. CASE FailsShort(w, 0)
  <2>1. 0 \in 0..MaxDay
    BY LogAssumption
  <2>. QED
    BY <1>1, <1>2, <1>3, <2>1, FailsShortExact
<1>4. CASE /\ Extend(me.file, <<[line |-> nextLine - 1, day |-> 0, ends |-> TRUE]>>)
           /\ Become(w, [me EXCEPT !.bol = TRUE])
  <2>1. PICK p : p = [line |-> nextLine - 1, day |-> 0, ends |-> TRUE]
    OBVIOUS
  <2>2. p \in Piece /\ p.day = 0 /\ p.line < nextLine /\ nextLine \in Nat
    BY <2>1, LogAssumption DEF Piece, LogInv, LogTyped
  <2>3. PICK s : s = [me EXCEPT !.bol = TRUE]
    OBVIOUS
  <2>4. writer'[w] = s /\ s.pc = "ready" /\ s.piece = me.piece
    BY <1>1, <1>4, <2>3 DEF Become, LogInv, LogTyped, WriterState
  <2>5. /\ me.file = current => Contents' = Contents \o <<p>>
        /\ me.file # current => Contents' = Contents
    BY <1>1, <1>2, <1>4, <2>1, <2>2, LogGetsPiece
  <2>. SUFFICES ASSUME ~torn PROVE Exactly(w)' /\ Once(Contents, archive)' /\ Dated(archive)'
    BY <1>2, ExactOne
  <2>6. Exactly(w) /\ Once(Contents, archive) /\ Dated(archive)
    BY <1>1, ExactMine
  <2>7. me.piece = Nil /\ Newest(me) = nextLine /\ Newest(writer[w])' = nextLine
    BY <1>1, <1>2, <2>4, <2>6 DEF Exactly, Newest
  <2>8. Below(Contents, nextLine) /\ \A d \in Days : Below(archive[d], nextLine)
    BY <2>6, <2>7 DEF Exactly
  <2>9. PICK log, new : log = Contents /\ new = Contents'
    OBVIOUS
  <2>10. log \in Seq(Piece) /\ (new = log \/ new = log \o <<p>>)
    BY <2>5, <2>9, FilesTyped
  <2>11. Below(new, nextLine)
    BY <2>2, <2>8, <2>9, <2>10, BelowPiece
  <2>12. Once(new, archive)
    BY <2>2, <2>6, <2>9, <2>10, OnceSame
  <2>13. Exactly(w)'
    BY <1>2, <2>4, <2>7, <2>8, <2>9, <2>11 DEF Exactly
  <2>14. Once(Contents, archive)' /\ Dated(archive)'
    BY <1>2, <2>6, <2>9, <2>12
  <2>. QED
    BY <2>13, <2>14
<1>. QED
  BY <1>3, <1>4 DEF WriteRest

LEMMA AppendLineExact ==
  ASSUME LogInv, DayInv, ExactInv, OneWriter, NEW w \in Writers, AppendLine(w)
  PROVE  ExactInv'
<1>. DEFINE me == writer[w]
<1>1. /\ me \in WriterState /\ me.pc = "append" /\ me.file \in Inodes /\ me.piece \in Piece
      /\ DatedPiece(me) /\ me.piece # Nil
  BY Me, LogAssumption DEF AppendLine, WriterHolds, WriterState, DayInv, WriterIsDated
<1>2. UNCHANGED <<current, archive, torn, nextLine>>
  BY DEF AppendLine, rest
<1>3. CASE FailsShort(w, me.piece.day)
  <2>1. me.piece.day \in 0..MaxDay
    BY <1>1 DEF Piece
  <2>. QED
    BY <1>1, <1>2, <1>3, <2>1, FailsShortExact
<1>4. CASE /\ Extend(me.file, <<me.piece>>)
           /\ written' = written \union {me.piece.line}
           /\ Become(w, [me EXCEPT !.pc = "ready", !.bol = me.piece.ends, !.piece = Nil])
  <2>1. PICK p : p = me.piece
    OBVIOUS
  <2>2. p \in Piece /\ p.line \in Nat /\ nextLine \in Nat /\ p.line < nextLine
    BY <1>1, <2>1, LogAssumption DEF DatedPiece, LogInv, LogTyped
  <2>3. PICK s : s = [me EXCEPT !.pc = "ready", !.bol = p.ends, !.piece = Nil]
    OBVIOUS
  <2>4. writer'[w] = s /\ s.pc = "ready" /\ s.piece = Nil
    BY <1>1, <1>4, <2>1, <2>3 DEF Become, LogInv, LogTyped, WriterState
  <2>5. /\ me.file = current => Contents' = Contents \o <<p>>
        /\ me.file # current => Contents' = Contents
    BY <1>1, <1>2, <1>4, <2>1, <2>2, LogGetsPiece
  <2>. SUFFICES ASSUME ~torn PROVE Exactly(w)' /\ Once(Contents, archive)' /\ Dated(archive)'
    BY <1>2, ExactOne
  <2>6. Exactly(w) /\ Once(Contents, archive) /\ Dated(archive)
    BY <1>1, ExactMine
  <2>7. Newest(me) = p.line /\ Newest(writer[w])' = nextLine
    BY <1>1, <1>2, <2>1, <2>4 DEF Newest
  <2>8. Below(Contents, p.line) /\ \A d \in Days : Below(archive[d], p.line)
    BY <2>6, <2>7 DEF Exactly
  <2>9. PICK log, new : log = Contents /\ new = Contents'
    OBVIOUS
  <2>10. log \in Seq(Piece) /\ (new = log \/ new = log \o <<p>>)
    BY <2>5, <2>9, FilesTyped
  <2>11. Below(log, nextLine) /\ \A d \in Days : Below(archive[d], nextLine)
    BY <2>2, <2>8, <2>9, <2>10, FilesTyped, BelowMore
  <2>12. Below(new, nextLine)
    BY <2>2, <2>10, <2>11, BelowPiece
  <2>13. Once(new, archive)
    BY <2>2, <2>6, <2>8, <2>9, <2>10, OnceMore
  <2>14. Exactly(w)'
    BY <1>2, <2>4, <2>7, <2>9, <2>11, <2>12 DEF Exactly
  <2>15. Once(Contents, archive)' /\ Dated(archive)'
    BY <1>2, <2>6, <2>9, <2>13
  <2>. QED
    BY <2>14, <2>15
<1>. QED
  BY <1>3, <1>4 DEF AppendLine

(* A roll-back puts the archives back to what they were.                    *)
LEMMA RollBackExact ==
  ASSUME LogInv, DayInv, ExactInv, OneWriter, NEW w \in Writers, writer[w].pc = "commit",
         NEW found, RollBack(w, found), UNCHANGED <<inode, current, nextLine>>
  PROVE  ExactInv'
<1>1. PICK s : s = Closed
  OBVIOUS
<1>2. writer'[w] = s /\ s.pc = "closed" /\ s.piece = Nil
  BY <1>1, ClosedTyped, Become_ DEF LogInv, LogTyped, RollBack, Fails
<1>. SUFFICES ASSUME ~torn' PROVE Exactly(w)' /\ Once(Contents, archive)' /\ Dated(archive)'
  BY ExactOne
<1>3. ~torn /\ archive' = Before(w) /\ Contents' = Contents
  <2>1. PICK stuck \in SUBSET Days :
          /\ archive' = [d \in Days |-> IF d \in stuck THEN found[d] ELSE RolledBack(w, d)]
          /\ torn' = (torn \/ stuck # {})
    BY DEF RollBack
  <2>2. ~torn /\ stuck = {}
    BY <2>1
  <2>. QED
    BY <2>1, <2>2 DEF Before, Contents
<1>4. Exactly(w)
  BY <1>3, ExactMine
<1>5. Once(Contents, Before(w)) /\ Dated(Before(w))
  BY <1>4 DEF Exactly
<1>6. PICK m : m = Newest(writer[w])
  OBVIOUS
<1>7. m \in Nat /\ nextLine \in Nat /\ m <= nextLine
  BY <1>4, <1>6, NewestIs
<1>8. Newest(writer[w])' = nextLine
  BY <1>2 DEF Newest
<1>9. Below(Contents, nextLine)
  BY <1>4, <1>6, <1>7, FilesTyped, BelowMore DEF Exactly
<1>10. ASSUME NEW d \in Days PROVE Below(archive'[d], nextLine)
  <2>1. PICK a, b : a = archive[d] /\ b = RolledBack(w, d)
    OBVIOUS
  <2>2. a \in Seq(Piece) /\ Below(a, m)
    BY <1>4, <1>6, <2>1, FilesTyped DEF Exactly
  <2>3. Below(a, nextLine)
    BY <1>7, <2>2, BelowMore
  <2>4. PICK n \in 0..Len(a) : b = SubSeq(a, 1, n)
    BY <2>1, RolledBackIsFront
  <2>5. 0 \in 0..Len(a) /\ n \in 0..Len(a) /\ b = SubSeq(a, 0 + 1, n)
    BY <2>2, <2>4, LenProperties
  <2>6. Picked(b, a)
    BY <2>2, <2>5, PickedPart
  <2>7. archive'[d] = b
    BY <1>3, <2>1 DEF Before
  <2>. QED
    BY <2>3, <2>6, <2>7, PickedLess
<1>11. Exactly(w)'
  BY <1>2, <1>3, <1>8, <1>9, <1>10 DEF Exactly
<1>12. Once(Contents, archive)' /\ Dated(archive)'
  BY <1>3, <1>5 DEF Once, Dated
<1>. QED
  BY <1>11, <1>12

LEMMA CommitArchiveExact ==
  ASSUME LogInv, DayInv, KeepingInv, ExactInv, OneWriter, NEW w \in Writers, CommitArchive(w)
  PROVE  ExactInv'
<1>. DEFINE me == writer[w]
<1>1. me \in WriterState /\ me.pc = "commit" /\ Rotating(w)
  BY Me DEF CommitArchive, KeepingInv
<1>2. PICK d : d = CHOOSE e \in Staged(me) : \A f \in Staged(me) : e <= f
  OBVIOUS
<1>3. d \in Days /\ me.blocks[d] # <<>> /\ me.blocks[d] \in Seq(Piece)
  BY <1>2, NextStaged DEF CommitArchive
<1>4. UNCHANGED <<inode, current, nextLine>> /\ Contents' = Contents
  BY DEF CommitArchive, Contents
<1>5. CASE \E n \in 0..Len(me.blocks[d]) : RollBack(w, Found(d, me.blocks[d], n))
  BY <1>1, <1>4, <1>5, RollBackExact
<1>6. CASE /\ archive' = [archive EXCEPT ![d] = @ \o me.blocks[d]]
           /\ Become(w, [me EXCEPT !.blocks[d] = <<>>,
                                   !.done = Append(@, [day |-> d, size |-> Len(archive[d])])])
           /\ UNCHANGED torn
  <2>1. archive \in [Days -> Seq(Piece)] /\ writer \in [Writers -> WriterState]
    BY DEF LogInv, LogTyped
  <2>2. PICK more, x, h : /\ more = me.blocks[d] /\ x = [day |-> d, size |-> Len(archive[d])]
                          /\ h = Append(me.done, x)
    OBVIOUS
  <2>3. PICK fewer : fewer = [me.blocks EXCEPT ![d] = <<>>]
    OBVIOUS
  <2>4. PICK s : s = [me EXCEPT !.blocks = fewer, !.done = h]
    OBVIOUS
  <2>5. Become(w, s)
    BY <1>6, <2>2, <2>3, <2>4
  <2>6. /\ writer'[w] = s /\ s.pc = "commit" /\ s.piece = me.piece /\ s.stays = me.stays
        /\ s.blocks = fewer /\ s.done = h
    BY <1>1, <2>1, <2>4, <2>5 DEF Become, WriterState
  <2>7. \A i \in DOMAIN me.done : me.done[i].day # d
    BY <1>1, <1>3 DEF Rotating
  <2>8. \A e \in Days : RolledBack(w, e)' = RolledBack(w, e)
    <3>1. more \in Seq(Piece) /\ archive' = [archive EXCEPT ![d] = @ \o more]
      BY <1>3, <1>6, <2>2
    <3>2. writer'[w].done = Append(writer[w].done, [day |-> d, size |-> Len(archive[d])])
      BY <2>2, <2>6
    <3>. QED
      BY <1>3, <2>7, <3>1, <3>2, CommitIsUndone
  <2>9. Before(w)' = Before(w)
    BY <2>8 DEF Before
  <2>10. me.blocks \in [Days -> Seq(Piece)]
    BY <1>1 DEF WriterState
  <2>11. /\ \A e \in Days \ {d} : archive'[e] = archive[e] /\ fewer[e] = me.blocks[e]
         /\ fewer[d] = <<>> /\ archive'[d] = archive[d] \o more
    BY <1>3, <1>6, <2>1, <2>2, <2>3, <2>10
  <2>12. PICK after : after = After(me)
    OBVIOUS
  <2>13. ASSUME NEW e \in Days
         PROVE  archive'[e] \o fewer[e] = after[e] /\ (e = d => archive'[e] = after[e])
    <3>1. after[e] = archive[e] \o me.blocks[e]
      BY <2>12 DEF After
    <3>2. CASE e = d
      <4>1. PICK a, b : a = archive[d] /\ b = more
        OBVIOUS
      <4>2. a \o b \in Seq(Piece) /\ archive'[d] = a \o b /\ after[d] = a \o b
        BY <1>3, <2>1, <2>2, <2>11, <3>1, <3>2, <4>1, ConcatProperties
      <4>3. (a \o b) \o <<>> = a \o b
        BY <4>2, ConcatEmptySeq
      <4>. QED
        BY <2>11, <3>2, <4>2, <4>3
    <3>3. CASE e # d
      BY <2>11, <3>1, <3>3
    <3>. QED
      BY <3>2, <3>3
  <2>14. After(writer[w])' = after
    <3>1. After(writer[w])' = [e \in Days |-> archive'[e] \o fewer[e]]
      BY <2>6 DEF After
    <3>2. after = [e \in Days |-> after[e]]
      BY <2>12 DEF After
    <3>. QED
      BY <2>13, <3>1, <3>2
  <2>. SUFFICES ASSUME ~torn PROVE Exactly(w)'
    BY <1>6, <2>6, ExactOne
  <2>15. PICK m : m = Newest(me)
    OBVIOUS
  <2>16. /\ Below(Contents, m) /\ \A e \in Days : Below(archive[e], m)
         /\ Once(Contents, Before(w)) /\ Dated(Before(w))
         /\ Once(me.stays, after) /\ Dated(after)
         /\ Below(me.stays, m) /\ \A e \in Days : Below(after[e], m)
    BY <1>1, <2>12, <2>15, ExactMine DEF Exactly
  <2>17. Newest(writer[w])' = m
    BY <1>4, <2>6, <2>15 DEF Newest
  <2>18. \A e \in Days : Below(archive'[e], m)
    BY <2>11, <2>13, <2>16
  <2>19. Once(Contents, Before(w))' /\ Dated(Before(w))'
    BY <1>4, <2>9, <2>16 DEF Once, Dated
  <2>20. Once(writer[w].stays, After(writer[w]))' /\ Dated(After(writer[w]))'
    <3>1. PICK t : t = After(writer[w])'
      OBVIOUS
    <3>2. Once(writer'[w].stays, t) /\ Dated(t)
      BY <2>6, <2>14, <2>16, <3>1
    <3>. QED
      BY <3>1, <3>2 DEF Once, Dated
  <2>21. /\ Below(Contents, Newest(writer[w]))'
         /\ (\A e \in Days : Below(archive[e], Newest(writer[w])))'
         /\ Below(writer[w].stays, Newest(writer[w]))'
         /\ (\A e \in Days : Below(After(writer[w])[e], Newest(writer[w])))'
    BY <1>4, <2>6, <2>14, <2>16, <2>17, <2>18
  <2>. QED
    BY <2>6, <2>19, <2>20, <2>21 DEF Exactly
<1>. QED
  BY <1>2, <1>5, <1>6 DEF CommitArchive, Found

LEMMA ReplaceExact ==
  ASSUME LogInv, DayInv, ExactInv, OneWriter, NEW w \in Writers, Replace(w)
  PROVE  ExactInv'
<1>. DEFINE me == writer[w]
<1>1. me \in WriterState /\ me.pc = "commit" /\ nextInode \in Inodes /\ Staged(me) = {}
  BY Me DEF Replace
<1>2. nextLine' = nextLine
  BY DEF Replace
<1>3. CASE RollBack(w, archive) /\ UNCHANGED <<inode, current, nextInode>>
  BY <1>1, <1>2, <1>3, RollBackExact
<1>4. CASE /\ current' = nextInode /\ nextInode' = nextInode + 1
           /\ inode' = [inode EXCEPT ![nextInode] = me.stays]
           /\ Become(w, [me EXCEPT !.pc = "reopen", !.stays = <<>>, !.done = <<>>])
           /\ UNCHANGED <<archive, torn>>
  <2>1. PICK s : s = [me EXCEPT !.pc = "reopen", !.stays = <<>>, !.done = <<>>]
    OBVIOUS
  <2>2. writer'[w] = s /\ s.pc = "reopen" /\ s.piece = me.piece
    BY <1>1, <1>4, <2>1 DEF Become, LogInv, LogTyped, WriterState
  <2>3. Contents' = me.stays
    BY <1>1, <1>4, NilIsNothing DEF Contents, LogInv, LogTyped
  <2>. SUFFICES ASSUME ~torn PROVE Exactly(w)' /\ Once(Contents, archive)' /\ Dated(archive)'
    BY <1>4, ExactOne
  <2>4. PICK m : m = Newest(me)
    OBVIOUS
  <2>5. /\ \A e \in Days : Below(archive[e], m)
        /\ Once(me.stays, After(me)) /\ Dated(After(me)) /\ Below(me.stays, m)
    BY <1>1, <2>4, ExactMine DEF Exactly
  <2>6. After(me) = archive
    <3>1. archive \in [Days -> Seq(Piece)]
      BY FilesTyped
    <3>2. ASSUME NEW d \in Days PROVE archive[d] \o me.blocks[d] = archive[d]
      <4>1. me.blocks[d] = <<>> /\ archive[d] \in Seq(Piece)
        BY <1>1, <3>1 DEF Staged
      <4>. QED
        BY <4>1, ConcatEmptySeq
    <3>. QED
      BY <3>1, <3>2 DEF After
  <2>7. Newest(writer[w])' = m
    BY <1>2, <2>2, <2>4 DEF Newest
  <2>8. Exactly(w)'
    BY <1>4, <2>2, <2>3, <2>5, <2>7 DEF Exactly
  <2>9. Once(Contents, archive)' /\ Dated(archive)'
    BY <1>4, <2>3, <2>5, <2>6 DEF Once, Dated
  <2>. QED
    BY <2>8, <2>9
<1>. QED
  BY <1>3, <1>4 DEF Replace

LEMMA ReopenExact ==
  ASSUME LogInv, DayInv, ExactInv, OneWriter, NEW w \in Writers, Reopen(w)
  PROVE  ExactInv'
<1>. DEFINE me == writer[w]
<1>1. me \in WriterState /\ me.pc = "reopen"
  BY Me DEF Reopen
<1>2. UNCHANGED <<archive, torn, nextLine>>
  BY DEF Reopen, rest
<1>3. CASE Fails(w) /\ UNCHANGED <<inode, current, nextInode>>
  BY <1>1, <1>2, <1>3, ExactClosed DEF Fails
<1>4. CASE ~(Fails(w) /\ UNCHANGED <<inode, current, nextInode>>)
  <2>1. PICK s : /\ writer'[w] = s /\ s.piece = me.piece
                 /\ s.pc = IF me.piece = Nil THEN "ready" ELSE "append"
    BY <1>4, LogReopened
  <2>. SUFFICES ASSUME ~torn PROVE Exactly(w)' /\ Once(Contents, archive)' /\ Dated(archive)'
    BY <1>2, ExactOne
  <2>2. PICK m, log, new, nl : m = Newest(me) /\ log = Contents /\ new = Contents' /\ nl = Newline
    OBVIOUS
  <2>3. Exactly(w) /\ Once(log, archive) /\ Dated(archive)
    BY <1>1, <2>2, ExactMine
  <2>4. Below(log, m) /\ \A e \in Days : Below(archive[e], m)
    BY <2>2, <2>3 DEF Exactly
  <2>5. m \in Nat /\ 1 <= m
    BY <2>2, <2>3, NewestIs
  <2>6. nl \in Piece /\ nl.day = 0 /\ nl.line = 0
    BY <2>2, NewlineIsPiece DEF Newline
  <2>7. log \in Seq(Piece) /\ (new = log \/ new = log \o <<nl>>)
    BY <1>4, <2>2, FilesTyped, LogReopened, BoundaryCloses
  <2>8. Below(new, m)
    <3>1. nl.line < m
      BY <2>5, <2>6
    <3>. QED
      BY <2>4, <2>6, <2>7, <3>1, BelowPiece
  <2>9. Once(new, archive)
    BY <2>3, <2>6, <2>7, OnceSame
  <2>10. Newest(writer[w])' = m
    BY <1>2, <2>1, <2>2 DEF Newest
  <2>11. Exactly(w)'
    BY <1>2, <2>1, <2>2, <2>4, <2>8, <2>10 DEF Exactly
  <2>12. Once(Contents, archive)' /\ Dated(archive)'
    <3>1. Contents' = new /\ archive' = archive
      BY <1>2, <2>2
    <3>. QED
      BY <2>3, <2>9, <3>1 DEF Once, Dated
  <2>. QED
    BY <2>11, <2>12
<1>. QED
  BY <1>3, <1>4

LEMMA CrashExact ==
  ASSUME LogInv, DayInv, ExactInv, Crash
  PROVE  ExactInv'
<1>1. /\ UNCHANGED <<inode, current, archive, nextLine>> /\ Contents' = Contents
      /\ torn' = (torn \/ \E w \in Writers : writer[w].done # <<>>)
  BY DEF Crash, disk, Contents
<1>2. ~Committing'
  <2>1. \A w \in Writers : writer'[w] = Closed
    BY DEF Crash
  <2>. QED
    BY <2>1, ClosedTyped DEF Committing
<1>. SUFFICES ASSUME ~torn'
              PROVE  /\ Once(Contents, archive)' /\ Dated(archive)'
                     /\ \A w \in Writers : Exactly(w)'
  BY <1>2 DEF ExactInv
<1>3. ~torn /\ \A w \in Writers : writer[w].done = <<>>
  BY <1>1
<1>4. \A w \in Writers : Exactly(w)
  BY <1>3 DEF ExactInv
<1>5. Once(Contents, archive) /\ Dated(archive)
  <2>1. CASE ~Committing
    BY <1>3, <2>1 DEF ExactInv
  <2>2. CASE Committing
    <3>1. PICK w \in Writers : writer[w].pc = "commit"
      BY <2>2 DEF Committing
    <3>2. ASSUME NEW d \in Days PROVE RolledBack(w, d) = archive[d]
      <4>1. PICK done, a : done = writer[w].done /\ a = archive[d]
        OBVIOUS
      <4>2. DOMAIN done = {} /\ a \in Seq(Piece)
        BY <1>3, <4>1, FilesTyped
      <4>3. Cut(a, done, d) = a
        BY <4>2, CutNone
      <4>. QED
        BY <4>1, <4>3 DEF RolledBack, Cut, SizesOf
    <3>3. Before(w) = archive
      BY <3>2, FilesTyped DEF Before
    <3>4. Once(Contents, Before(w)) /\ Dated(Before(w))
      BY <1>4, <3>1 DEF Exactly
    <3>. QED
      BY <3>3, <3>4
  <2>. QED
    BY <2>1, <2>2
<1>6. ASSUME NEW w \in Writers PROVE Exactly(w)'
  <2>1. PICK s : s = Closed
    OBVIOUS
  <2>2. writer'[w] = s /\ s.pc = "closed" /\ s.piece = Nil
    BY <2>1, ClosedTyped DEF Crash
  <2>3. Newest(writer[w])' = nextLine
    BY <1>1, <2>2 DEF Newest
  <2>4. PICK m : m = Newest(writer[w])
    OBVIOUS
  <2>5. m \in Nat /\ nextLine \in Nat /\ m <= nextLine
    BY <1>4, <2>4, NewestIs
  <2>6. Below(Contents, m) /\ \A d \in Days : Below(archive[d], m)
    BY <1>4, <2>4 DEF Exactly
  <2>7. Below(Contents, nextLine) /\ \A d \in Days : Below(archive[d], nextLine)
    BY <2>5, <2>6, FilesTyped, BelowMore
  <2>. QED
    BY <1>1, <2>2, <2>3, <2>7 DEF Exactly
<1>7. Once(Contents, archive)' /\ Dated(archive)'
  BY <1>1, <1>5 DEF Once, Dated
<1>. QED
  BY <1>6, <1>7

LEMMA OnceThen ==
  ASSUME NEW w, NEW r, NEW t, Once(r, t), r = writer'[w].stays, t = After(writer[w])'
  PROVE  Once(writer[w].stays, After(writer[w]))'
  OBVIOUS

(* Somebody takes pieces away, the writers have what they had.              *)
LEMMA LessExact ==
  ASSUME LogInv, ExactInv, UNCHANGED <<writer, nextLine, torn>>, Picked(Contents', Contents),
         \A d \in Days : Picked(archive'[d], archive[d]),
         \A w \in Writers : \A d \in Days :
           /\ Picked(Before(w)'[d], Before(w)[d])
           /\ Picked(After(writer[w])'[d], After(writer[w])[d])
  PROVE  ExactInv'
<1>. SUFFICES ASSUME ~torn
              PROVE  /\ ~Committing => Once(Contents, archive)' /\ Dated(archive)'
                     /\ \A w \in Writers : Exactly(w)'
  BY DEF ExactInv, Committing
<1>1. PICK log, arch : log = Contents' /\ arch = archive'
  OBVIOUS
<1>2. Picked(log, Contents) /\ \A d \in Days : Picked(arch[d], archive[d])
  BY <1>1
<1>3. ASSUME ~Committing PROVE Once(Contents, archive)' /\ Dated(archive)'
  <2>1. Once(Contents, archive) /\ Dated(archive)
    BY <1>3 DEF ExactInv
  <2>2. Once(log, arch)
    BY <1>2, <2>1, OnceLess
  <2>3. Dated(arch)
    BY <1>2, <2>1, PickedLess DEF Dated
  <2>. QED
    BY <1>1, <2>2, <2>3
<1>4. ASSUME NEW w \in Writers PROVE Exactly(w)'
  <2>1. PICK s, m, bef, aft, bef1, aft1 :
          /\ s = writer[w] /\ m = Newest(writer[w])
          /\ bef = Before(w) /\ aft = After(writer[w])
          /\ bef1 = Before(w)' /\ aft1 = After(writer[w])'
    OBVIOUS
  <2>2. Exactly(w)
    BY DEF ExactInv
  <2>3. /\ s.pc \in {"closed", "ready"} => s.piece = Nil
        /\ Below(Contents, m) /\ \A d \in Days : Below(archive[d], m)
        /\ s.pc = "commit" =>
             /\ Once(Contents, bef) /\ Dated(bef) /\ Once(s.stays, aft) /\ Dated(aft)
             /\ Below(s.stays, m) /\ \A d \in Days : Below(aft[d], m)
    BY <2>1, <2>2 DEF Exactly
  <2>4. writer'[w] = s /\ Newest(writer[w])' = m
    BY <2>1 DEF Newest
  <2>5. Below(log, m) /\ \A d \in Days : Below(arch[d], m)
    BY <1>2, <2>3, PickedLess
  <2>6. \A d \in Days : Picked(bef1[d], bef[d]) /\ Picked(aft1[d], aft[d])
    BY <2>1
  <2>7. ASSUME s.pc = "commit"
        PROVE  /\ Once(log, bef1) /\ Dated(bef1) /\ Once(s.stays, aft1) /\ Dated(aft1)
               /\ \A d \in Days : Below(aft1[d], m)
    <3>1. Once(log, bef1)
      BY <1>2, <2>3, <2>6, <2>7, OnceLess
    <3>2. Once(s.stays, aft1)
      <4>1. Picked(s.stays, s.stays)
        BY PickedAll
      <4>. QED
        BY <2>3, <2>6, <2>7, <4>1, OnceLess
    <3>3. Dated(bef1) /\ Dated(aft1)
      BY <2>3, <2>6, <2>7, PickedLess DEF Dated
    <3>4. \A d \in Days : Below(aft1[d], m)
      BY <2>3, <2>6, <2>7, PickedLess
    <3>. QED
      BY <3>1, <3>2, <3>3, <3>4
  <2>8. s.pc = "commit" => /\ Once(Contents, Before(w))' /\ Dated(Before(w))'
                           /\ Once(writer[w].stays, After(writer[w]))' /\ Dated(After(writer[w]))'
    <3>. SUFFICES ASSUME s.pc = "commit"
                  PROVE  /\ Once(Contents, Before(w))' /\ Dated(Before(w))'
                         /\ Once(writer[w].stays, After(writer[w]))' /\ Dated(After(writer[w]))'
      OBVIOUS
    <3>1. Once(log, bef1) /\ Dated(bef1) /\ Once(s.stays, aft1) /\ Dated(aft1)
      BY <2>7
    <3>2. log = Contents' /\ bef1 = Before(w)' /\ aft1 = After(writer[w])' /\ s = writer'[w]
      BY <1>1, <2>1, <2>4
    <3>3. Once(log, bef1) /\ log = Contents' /\ bef1 = Before(w)'
      BY <3>1, <3>2
    <3>4. Once(Contents, Before(w))'
      BY <3>3
    <3>5. Dated(bef1) /\ bef1 = Before(w)'
      BY <3>1, <3>2
    <3>6. Dated(Before(w))'
      BY <3>5 DEF Dated
    <3>7. PICK r, t : r = s.stays /\ t = aft1
      OBVIOUS
    <3>8. Once(writer[w].stays, After(writer[w]))'
      <4>1. Once(r, t)
        BY <3>1, <3>7
      <4>2. r = writer'[w].stays /\ t = After(writer[w])'
        BY <3>2, <3>7
      <4>. QED
        BY <4>1, <4>2, OnceThen
    <3>9. Dated(aft1) /\ aft1 = After(writer[w])'
      BY <3>1, <3>2
    <3>10. Dated(After(writer[w]))'
      BY <3>9 DEF Dated
    <3>. QED
      BY <3>4, <3>6, <3>8, <3>10
  <2>9. /\ Below(Contents, Newest(writer[w]))'
        /\ (\A d \in Days : Below(archive[d], Newest(writer[w])))'
        /\ s.pc = "commit" => /\ Below(writer[w].stays, Newest(writer[w]))'
                              /\ (\A d \in Days : Below(After(writer[w])[d], Newest(writer[w])))'
    BY <1>1, <2>1, <2>3, <2>4, <2>5, <2>7
  <2>. QED
    BY <2>3, <2>4, <2>8, <2>9 DEF Exactly
<1>. QED
  BY <1>3, <1>4

LEMMA RemoveCurrentExact ==
  ASSUME LogInv, ExactInv, RemoveCurrent
  PROVE  ExactInv'
<1>1. UNCHANGED <<archive, writer, nextLine, torn>> /\ Contents' = <<>>
  BY DEF RemoveCurrent, rest, Contents
<1>2. ASSUME NEW w \in Writers PROVE Before(w)' = Before(w) /\ After(writer[w])' = After(writer[w])
  <2>1. \A d \in Days : RolledBack(w, d)' = RolledBack(w, d)
    BY <1>1 DEF RolledBack
  <2>. QED
    BY <1>1, <2>1 DEF Before, After
<1>3. Picked(Contents', Contents)
  <2>1. Picked(<<>>, Contents)
    BY PickedNone
  <2>. QED
    BY <1>1, <2>1
<1>4. \A d \in Days : Picked(archive'[d], archive[d])
  BY <1>1, PickedAll
<1>5. \A w \in Writers : \A d \in Days :
        /\ Picked(Before(w)'[d], Before(w)[d])
        /\ Picked(After(writer[w])'[d], After(writer[w])[d])
  BY <1>2, PickedAll
<1>. QED
  BY <1>1, <1>3, <1>4, <1>5, LessExact

LEMMA CutOfNothing ==
  ASSUME NEW done \in Seq(Entries), NEW d
  PROVE  Cut(<<>>, done, d) = <<>>
<1>1. PICK T, none : none = <<>> /\ T = {Len(none)} \union SizesOf(done, d)
  OBVIOUS
<1>2. Len(none) = 0 /\ none \in Seq(Piece)
  BY <1>1, EmptySeq
<1>3. SizesOf(done, d) \subseteq Nat
  <2>1. \A i \in DOMAIN done : done[i] \in Entries
    BY LenProperties, ElementOfSeq
  <2>. QED
    BY <2>1 DEF SizesOf, Entries
<1>4. T \subseteq Nat /\ 0 \in T /\ \A y \in T : 0 <= y
  BY <1>1, <1>2, <1>3
<1>5. Min(T) = 0
  BY <1>4, MinIs
<1>6. SubSeq(none, 1, 0) = none
  BY <1>1
<1>. QED
  BY <1>1, <1>5, <1>6 DEF Cut

LEMMA RemoveArchiveExact ==
  ASSUME LogInv, ExactInv, NEW d \in Days, RemoveArchive(d)
  PROVE  ExactInv'
<1>1. /\ UNCHANGED <<inode, current, writer, nextLine, torn>> /\ Contents' = Contents
      /\ archive'[d] = <<>> /\ \A e \in Days \ {d} : archive'[e] = archive[e]
  BY DEF RemoveArchive, rest, Contents, LogInv, LogTyped
<1>2. Picked(Contents', Contents)
  BY <1>1, PickedAll
<1>3. ASSUME NEW e \in Days PROVE Picked(archive'[e], archive[e])
  BY <1>1, PickedAll, PickedNone
<1>4. ASSUME NEW w \in Writers, NEW e \in Days
      PROVE  /\ Picked(Before(w)'[e], Before(w)[e])
             /\ Picked(After(writer[w])'[e], After(writer[w])[e])
  <2>1. PICK s : s = writer[w]
    OBVIOUS
  <2>2. s \in WriterState /\ writer'[w] = s
    BY <1>1, <2>1, Me
  <2>3. s.done \in Seq(Entries) /\ s.blocks[e] \in Seq(Piece) /\ archive[e] \in Seq(Piece)
    BY <2>2, FilesTyped DEF WriterState
  <2>4. /\ Before(w)[e] = Cut(archive[e], s.done, e) /\ Before(w)'[e] = Cut(archive'[e], s.done, e)
        /\ After(writer[w])[e] = archive[e] \o s.blocks[e]
        /\ After(writer[w])'[e] = archive'[e] \o s.blocks[e]
    BY <2>1, <2>2 DEF Before, RolledBack, Cut, SizesOf, After
  <2>5. CASE e = d
    <3>1. Before(w)'[e] = <<>>
      BY <1>1, <2>3, <2>4, <2>5, CutOfNothing
    <3>2. After(writer[w])'[e] = s.blocks[e]
      BY <1>1, <2>3, <2>4, <2>5, ConcatEmptySeq
    <3>3. PICK a, b : a = archive[e] /\ b = s.blocks[e]
      OBVIOUS
    <3>4. Picked(b, a \o b)
      BY <2>3, <3>3, PickedRight
    <3>5. Picked(<<>>, Before(w)[e])
      BY PickedNone
    <3>. QED
      BY <2>4, <3>1, <3>2, <3>3, <3>4, <3>5
  <2>6. CASE e # d
    <3>1. Before(w)'[e] = Before(w)[e] /\ After(writer[w])'[e] = After(writer[w])[e]
      BY <1>1, <2>4, <2>6
    <3>. QED
      BY <3>1, PickedAll
  <2>. QED
    BY <2>5, <2>6
<1>. QED
  BY <1>1, <1>2, <1>3, <1>4, LessExact

LEMMA UnmovedExact ==
  ASSUME LogInv, ExactInv, UNCHANGED <<disk, writer, nextLine, torn>>
  PROVE  ExactInv'
<1>1. archive' = archive /\ writer' = writer /\ Contents' = Contents
  BY DEF disk, Contents
<1>2. ASSUME NEW w \in Writers PROVE Before(w)' = Before(w) /\ After(writer[w])' = After(writer[w])
  <2>1. \A d \in Days : RolledBack(w, d)' = RolledBack(w, d)
    BY <1>1 DEF RolledBack
  <2>. QED
    BY <1>1, <2>1 DEF Before, After
<1>3. /\ Picked(Contents', Contents) /\ \A d \in Days : Picked(archive'[d], archive[d])
      /\ \A w \in Writers : \A d \in Days :
           /\ Picked(Before(w)'[d], Before(w)[d])
           /\ Picked(After(writer[w])'[d], After(writer[w])[d])
  BY <1>1, <1>2, PickedAll
<1>. QED
  BY <1>3, LessExact

LEMMA ExactStep ==
  LogInv /\ KeepingInv /\ DayInv /\ ExactInv /\ OneWriter /\ [LogNext]_logVars => ExactInv'
<1>. SUFFICES ASSUME LogInv, KeepingInv, DayInv, ExactInv, OneWriter, [LogNext]_logVars
              PROVE  ExactInv'
  OBVIOUS
<1>1. ASSUME NEW w \in Writers,
             \/ Open(w) \/ Close(w) \/ WriteHead(w) \/ WriteRest(w) \/ AppendLine(w)
             \/ Stage(w) \/ CommitArchive(w) \/ Replace(w) \/ Reopen(w)
      PROVE  ExactInv'
  BY <1>1, OpenExact, CloseExact, WriteHeadExact, WriteRestExact, AppendLineExact,
     StageExact, CommitArchiveExact, ReplaceExact, ReopenExact
<1>2. ASSUME NEW d \in Days, RemoveArchive(d) PROVE ExactInv'
  BY <1>2, RemoveArchiveExact
<1>3. CASE RemoveCurrent \/ Crash
  BY <1>3, RemoveCurrentExact, CrashExact
<1>4. CASE LogDayPasses \/ Follow \/ PollStat \/ PollRead \/ UNCHANGED logVars
  <2>1. UNCHANGED <<disk, writer, nextLine, torn>>
    BY <1>4 DEF LogDayPasses, Follow, PollStat, PollRead, logVars, rest
  <2>. QED
    BY <2>1, UnmovedExact
<1>. QED
  BY <1>1, <1>2, <1>3, <1>4 DEF LogNext

LEMMA ExactStarts == LogInit => ExactInv
<1>. SUFFICES ASSUME LogInit PROVE ExactInv
  OBVIOUS
<1>1. archive = NoBlocks /\ (\A d \in Days : archive[d] = <<>>) /\ Nil \notin Inodes
  BY NilIsNothing DEF LogInit, NoBlocks
<1>2. DOMAIN <<>> = {} /\ \A l : Heads(<<>>, l) = {}
  BY DEF Heads
<1>3. /\ \A l \in Nat \ {0} : \A i, j \in Heads(Contents, l) : i = j
      /\ Below(Contents, nextLine)
  <2>1. CASE current = Nil
    BY <1>2, <2>1 DEF Contents, Below
  <2>2. CASE /\ \E log \in {Old, Legacy, Ahead} :
                  inode = [i \in Inodes |-> IF i = 1 THEN log ELSE <<>>]
             /\ current = 1 /\ nextLine = 3
    <3>1. PICK log \in {Old, Legacy, Ahead} : inode = [i \in Inodes |-> IF i = 1 THEN log ELSE <<>>]
      BY <2>2
    <3>2. Contents = log
      <4>1. 1 \in Inodes
        BY LogAssumption DEF Inodes
      <4>. QED
        BY <2>2, <3>1, <4>1, NilIsNothing DEF Contents
    <3>3. PICK a, b \in DOMAIN log : /\ log[a].line = 1 /\ log[b].line = 2
                                     /\ \A j \in DOMAIN log \ {a, b} : log[j].line = 0
      BY OldLogs
    <3>4. ASSUME NEW l \in Nat \ {0}, NEW i \in Heads(log, l), NEW j \in Heads(log, l) PROVE i = j
      <4>1. i \in {a, b} /\ j \in {a, b} /\ log[i].line = log[j].line
        BY <3>3, <3>4 DEF Heads
      <4>. QED
        BY <3>3, <4>1
    <3>5. Below(log, nextLine)
      BY <2>2, <3>3 DEF Below
    <3>. QED
      BY <3>2, <3>4, <3>5
  <2>. QED
    BY <2>1, <2>2 DEF LogInit
<1>4. Once(Contents, archive) /\ Dated(archive)
  <2>1. \A d \in Days : \A l : Heads(archive[d], l) = {}
    BY <1>1, <1>2
  <2>2. Once(Contents, archive)
    BY <1>3, <2>1 DEF Once
  <2>3. \A d \in Days : Only(archive[d], d)
    BY <1>1, NothingIsOfADay
  <2>. QED
    BY <2>2, <2>3 DEF Dated
<1>5. ASSUME NEW w \in Writers PROVE Exactly(w)
  <2>1. PICK s : s = Closed
    OBVIOUS
  <2>2. writer[w] = s /\ s.pc = "closed" /\ s.piece = Nil
    BY <2>1, ClosedTyped DEF LogInit
  <2>3. Newest(writer[w]) = nextLine
    BY <2>2 DEF Newest
  <2>4. \A d \in Days : Below(archive[d], nextLine)
    BY <1>1, <1>2 DEF Below
  <2>. QED
    BY <1>3, <2>2, <2>3, <2>4 DEF Exactly
<1>. QED
  BY <1>4, <1>5 DEF ExactInv

LEMMA AtMostOne ==
  ASSUME NEW S, \A x, y \in S : x = y
  PROVE  /\ Cardinality(S) \in 0..1
         /\ S = {} => Cardinality(S) = 0
<1>1. CASE S = {}
  BY <1>1, FS_EmptySet
<1>2. CASE S # {}
  <2>1. PICK x : x \in S
    BY <1>2
  <2>2. S = {x}
    BY <2>1
  <2>. QED
    BY <1>2, <2>2, FS_Singleton
<1>. QED
  BY <1>1, <1>2

(* With one writer at a time on a path, and unless the daemon died in the   *)
(* middle of a rotation, a line is in one place, once, and an archived line *)
(* in the archive of its own day, whatever was rolled back before (Rotate,  *)
(* commit, rollbackArchives).                                               *)
THEOREM RotationsAreExact == OneWriter => (LogSpec => []RotationIsExact)
<1>. SUFFICES ASSUME OneWriter PROVE LogSpec => []RotationIsExact
  OBVIOUS
<1>1. LogInv /\ ExactInv => RotationIsExact
  <2>. SUFFICES ASSUME LogInv, ExactInv, ~torn, ~Committing, NEW l \in 1..(nextLine - 1)
                PROVE  /\ Cardinality(Heads(Contents, l))
                            + Cardinality(UNION {{d} \X Heads(archive[d], l) : d \in Days}) <= 1
                       /\ \A d \in Days : \A j \in Heads(archive[d], l) : archive[d][j].day = d
    BY DEF RotationIsExact
  <2>1. Once(Contents, archive) /\ Dated(archive) /\ l \in Nat \ {0}
    BY LogAssumption DEF ExactInv, LogInv, LogTyped
  <2>2. /\ \A i, j \in Heads(Contents, l) : i = j
        /\ \A d \in Days : \A i, j \in Heads(archive[d], l) : i = j
        /\ \A d \in Days : Heads(Contents, l) # {} => Heads(archive[d], l) = {}
        /\ \A d, e \in Days : Heads(archive[d], l) # {} /\ Heads(archive[e], l) # {} => d = e
    BY <2>1 DEF Once
  <2>3. PICK here, there : /\ here = Heads(Contents, l)
                           /\ there = UNION {{d} \X Heads(archive[d], l) : d \in Days}
    OBVIOUS
  <2>4. ASSUME NEW x \in there
        PROVE  \E d \in Days : \E j \in Heads(archive[d], l) : x = <<d, j>>
    BY <2>3, <2>4
  <2>5. \A x, y \in there : x = y
    <3>. SUFFICES ASSUME NEW x \in there, NEW y \in there PROVE x = y
      OBVIOUS
    <3>1. PICK d \in Days : \E j \in Heads(archive[d], l) : x = <<d, j>>
      BY <2>4
    <3>2. PICK e \in Days : \E j \in Heads(archive[e], l) : y = <<e, j>>
      BY <2>4
    <3>3. d = e
      BY <2>2, <3>1, <3>2
    <3>. QED
      BY <2>2, <3>1, <3>2, <3>3
  <2>6. Cardinality(here) \in 0..1 /\ (here = {} => Cardinality(here) = 0)
    BY <2>2, <2>3, AtMostOne
  <2>7. Cardinality(there) \in 0..1 /\ (there = {} => Cardinality(there) = 0)
    BY <2>5, AtMostOne
  <2>8. here = {} \/ there = {}
    BY <2>2, <2>3, <2>4
  <2>9. Cardinality(here) + Cardinality(there) <= 1
    BY <2>6, <2>7, <2>8
  <2>10. ASSUME NEW d \in Days, NEW j \in Heads(archive[d], l) PROVE archive[d][j].day = d
    <3>1. j \in DOMAIN archive[d] /\ archive[d][j].day > 0 /\ Only(archive[d], d)
      BY <2>1 DEF Heads, Dated
    <3>2. archive[d][j].day \in {0, d}
      BY <3>1 DEF Only
    <3>. QED
      BY <3>1, <3>2
  <2>. QED
    BY <2>3, <2>9, <2>10
<1>2. LogInv /\ KeepingInv /\ DayInv /\ ExactInv /\ [LogNext]_logVars
        => KeepingInv' /\ DayInv' /\ ExactInv'
  BY KeepingStep, DayStep, ExactStep
<1>. QED
  BY <1>1, <1>2, LogInit_, LogStep, KeepingStarts, DayStarts, ExactStarts, PTL DEF LogSpec

================================================================================
