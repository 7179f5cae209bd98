----------------------------- MODULE TaskLogProps -----------------------------
(* What a task's log promises, for a path that has one writer at a time.   *)
EXTENDS TaskLog

LogTypeOK ==
  /\ today \in Days /\ nextLine \in 1..(MaxLine + 1)
  /\ nextInode \in 1..(MaxInode + 1) /\ current \in Inodes \union {Nil}
  /\ \A i \in Inodes : \A j \in DOMAIN inode[i] : inode[i][j] \in Piece
  /\ \A d \in Days : \A j \in DOMAIN archive[d] : archive[d][j] \in Piece
  /\ \A w \in Writers :
       /\ writer[w].pc \in WriterLabels
       /\ writer[w].file \in Inodes \union {Nil} /\ writer[w].day \in 0..MaxDay
       /\ writer[w].pc \in {"append", "ready"} => writer[w].file # Nil

Archived == UNION {LineIDs(archive[d]) : d \in Days}
Removed == gone.lines \union UNION {LineIDs(inode[i]) : i \in gone.inodes}

\* Where the head of a line stands, by archive and position.
Heads(log, l) == {j \in DOMAIN log : log[j].line = l /\ log[j].day > 0}
Committing == \E w \in Writers : writer[w].pc = "commit"

(* Rotation loses no line: whatever fails or crashes in the middle of one, *)
(* a line that was written is in the log or in an archive unless somebody  *)
(* deleted the file it was in (Rotate, commit, rollbackArchives).          *)
LinesAreKept == written \subseteq LineIDs(Contents) \union Archived \union Removed

(* Rotation moves a line, it does not copy it: unless the daemon died in   *)
(* the middle of one, or the rollback of a failed one could not truncate   *)
(* an archive, a line is in one place, once, and an archived line is in    *)
(* the archive of its own day (commit, rollbackArchives).                  *)
RotationIsExact ==
  ~torn /\ ~Committing =>
    \A l \in 1..(nextLine - 1) :
      /\ Cardinality(Heads(Contents, l))
         + Cardinality(UNION {{d} \X Heads(archive[d], l) : d \in Days}) <= 1
      /\ \A d \in Days : \A j \in Heads(archive[d], l) : archive[d][j].day = d

(* A writer that is ready writes to a log that is not led by an earlier    *)
(* day: what earlier days, daemons and failed rotations left there has     *)
(* been archived by the time the first line is added, unless the log       *)
(* begins with a line that is undated or of a day ahead, behind which all  *)
(* of it stays.  And no line is stamped in the middle of another, however  *)
(* a write failed (ensureCurrent, Rotate, ensureAppendBoundary).           *)
LeadingBlockIsArchived ==
  \A w \in Writers :
    writer[w].pc = "ready" /\ writer[w].file = current =>
      \A j \in DOMAIN Contents :
        /\ j = 1 => Contents[j].day \notin 1..(writer[w].day - 1)
        /\ j > 1 /\ Contents[j].day > 0 => Contents[j - 1].ends

(* A follower that has read to the end has emitted every complete line of  *)
(* the file it follows, whole, and holds exactly the unfinished rest, even *)
(* when the log was rotated or deleted between its stat and its read.      *)
FollowerIsComplete ==
  follower.pc = "stat" /\ follower.inode = current /\ current # Nil
  /\ follower.offset = Len(Contents) =>
    LET read == SubSeq(Contents, follower.from + 1, Len(Contents))
    IN  /\ LinesAndTail(read).lines \subseteq follower.emitted
        /\ follower.pending = LinesAndTail(read).tail
=============================================================================
