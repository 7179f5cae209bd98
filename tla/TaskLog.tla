------------------------------- MODULE TaskLog -------------------------------
(* One log file of a task: the writer that stamps, rotates and reopens it, *)
(* its daily archives, and a follower that tails it (logfile/).            *)
(*                                                                         *)
(* A file is a sequence of pieces.  A piece is what one write appends: the *)
(* stamped head of a line or a continuation (day 0), with or without the   *)
(* newline.  Escaping never lets a newline of the child through, so a line *)
(* ends where a piece says so.  current is the inode the path names; an    *)
(* inode that was unlinked or replaced lives on for whoever has it open.   *)
EXTENDS Integers, FiniteSets, Sequences, SequencesExt

CONSTANTS
  Writers,       \* logfile.Writer values opened on the path
  MaxDay,        \* bound: days
  MaxLine,       \* bound: lines the tasks print
  MaxInode,      \* bound: files created at the path
  Environments,  \* what may happen around the writer, one set per behaviour
  Nil

Days == 1..MaxDay
Inodes == 1..MaxInode
Piece == [line : 0..MaxLine, day : 0..MaxDay, ends : BOOLEAN]

ASSUME LogAssumption ==
  /\ Environments \subseteq SUBSET {"disk", "crash", "remove", "once", "follow"}
  /\ MaxDay \in Nat \ (0..2) /\ MaxLine \in Nat \ {0, 1} /\ MaxInode \in Nat \ {0}
  /\ Nil \notin Nat /\ Nil \notin Piece

VARIABLES
  today,
  inode,       \* what each inode holds
  current,     \* the inode at the path
  nextInode,
  archive,     \* <stem>.<date><ext>, by date
  writer,
  nextLine,
  follower,
  gone,        \* lines whose archive was deleted, and inodes that were
  written,     \* lines whose head was appended
  environment, \* disk: writes fail; crash; remove: the log browser deletes
               \* files; follow: a follower is running; once: the log is
               \* deleted once, between the stat of a poll and its read
  torn         \* a crash hit a rotation half committed, or its rollback failed

disk == <<inode, current, nextInode, archive, gone>>
rest == <<follower, environment, torn>>
logVars == <<today, disk, writer, nextLine, written, rest>>

\* "rotate": about to read the log; "commit": archives staged, being appended.
WriterLabels == {"closed", "rotate", "commit", "reopen", "append", "ready"}
NoBlocks == [d \in Days |-> <<>>]
Closed == [pc |-> "closed", file |-> Nil, day |-> 0, bol |-> TRUE, time |-> 0,
           piece |-> Nil, blocks |-> NoBlocks, stays |-> <<>>, done |-> <<>>]
NotFollowing == [pc |-> "off", inode |-> Nil, offset |-> 0, from |-> 0, size |-> 0,
                 pending |-> <<>>, emitted |-> {}]

\* Nothing yet, or what a daemon that did not rotate left: two days, one
\* line with a continuation that carries no stamp; the same behind a line
\* written before lines were stamped; or a line stamped by a clock that was
\* a day ahead, and one after it was set right.
Newline == [line |-> 0, day |-> 0, ends |-> TRUE]
WholeLine(l, d) == [line |-> l, day |-> d, ends |-> TRUE]
Old == <<WholeLine(1, 1), Newline, WholeLine(2, 2)>>
Legacy == <<Newline>> \o Old
Ahead == <<WholeLine(1, 2), WholeLine(2, 1)>>

LogInit ==
  /\ \/ /\ today = 1 /\ inode = [i \in Inodes |-> <<>>]
        /\ current = Nil /\ nextInode = 1 /\ nextLine = 1 /\ written = {}
     \/ /\ \E log \in {Old, Legacy, Ahead} :
             /\ inode = [i \in Inodes |-> IF i = 1 THEN log ELSE <<>>]
             /\ today = IF log = Ahead THEN 1 ELSE MaxDay
        /\ current = 1 /\ nextInode = 2 /\ nextLine = 3 /\ written = {1, 2}
  /\ archive = NoBlocks
  /\ writer = [w \in Writers |-> Closed]
  /\ follower = NotFollowing
  /\ gone = [lines |-> {}, inodes |-> {}]
  /\ torn = FALSE
  /\ environment \in Environments

-----------------------------------------------------------------------------
(* The loop of Rotate: leading lines dated before today go to the archive  *)
(* of the last date seen, the first line dated today ends the rotation.    *)

Rotates(log, time) == log # <<>> /\ log[1].day \in 1..(time - 1)

\* Whether a stamped line begins at piece i.
Stamped(log, i) == log[i].day > 0 /\ (i > 1 => log[i - 1].ends)

\* rotating, after piece i.
Leaves(log, time, i) == \A j \in 1..i : Stamped(log, j) => log[j].day < time

\* activeDate, at piece i.
Active(log, i) == log[Max({j \in 1..i : Stamped(log, j)})].day

\* The pieces at some places of a log, in their order.
Pieces(log, places) ==
  [n \in 1..Cardinality(places) |->
     log[CHOOSE i \in places : Cardinality({j \in places : j <= i}) = n]]

Split(log, time) ==
  LET leaving == {i \in DOMAIN log : Leaves(log, time, i)}
  IN  [blocks |-> [d \in Days |-> Pieces(log, {i \in leaving : Active(log, i) = d})],
       rest |-> SubSeq(log, Max({0} \union leaving) + 1, Len(log))]

\* Where a line has ended.
Ends(log) == {0} \union {i \in DOMAIN log : log[i].ends}

\* Physical lines, and what follows the last newline.
LinesAndTail(log) ==
  LET begins(j) == Max({i \in Ends(log) : i < j}) + 1
  IN  [lines |-> {SubSeq(log, begins(j), j) : j \in Ends(log) \ {0}},
       tail |-> SubSeq(log, Max(Ends(log)) + 1, Len(log))]

Become(w, state) == writer' = [writer EXCEPT ![w] = state]
Contents == IF current = Nil THEN <<>> ELSE inode[current]
Extend(i, pieces) == inode' = [inode EXCEPT ![i] = @ \o pieces]

\* Fails, with a writer that stays open without a file.
Fails_goes_on(w) == "disk" \in environment /\ Become(w, [Closed EXCEPT !.pc = "ready"])

\* An error ends the copy of the child's output; its writer is closed later.
Fails(w) == "disk" \in environment /\ Become(w, Closed)

-----------------------------------------------------------------------------
(* The writer.                                                             *)

Open(w) ==
  /\ writer[w].pc = "closed"
  /\ Become(w, [Closed EXCEPT !.pc = "rotate", !.time = today])
  /\ UNCHANGED <<today, disk, nextLine, written, rest>>

Close(w) ==
  /\ writer[w].pc = "ready"
  /\ Become(w, Closed)
  /\ UNCHANGED <<today, disk, nextLine, written, rest>>

\* Write at the start of a line: ensureCurrent looks at the date, then at
\* what the path names, before the stamp is written.
WriteHead(w) ==
  LET me == writer[w]
  IN  /\ me.pc = "ready" /\ me.bol /\ nextLine <= MaxLine
      /\ \E ends \in BOOLEAN :
           LET piece == [line |-> nextLine, day |-> today, ends |-> ends]
               state == [me EXCEPT !.time = today, !.piece = piece]
           IN  IF today # me.day
               THEN Become(w, [state EXCEPT !.pc = "rotate", !.file = Nil])
               ELSE IF current # me.file
                 THEN Become(w, [state EXCEPT !.pc = "reopen", !.file = Nil])
               ELSE Become(w, [state EXCEPT !.pc = "append"])
      /\ nextLine' = nextLine + 1
      /\ UNCHANGED <<today, disk, written, rest>>

\* A write that fails may have appended some bytes: of a stamp too few to
\* be one, the stamp without the line, or a part of the rest of a line.
Fragment(day) == [line |-> 0, day |-> day, ends |-> FALSE]
FailsShort(w, day) ==
  Fails(w) /\ \E part \in {<<>>, <<Fragment(0)>>, <<Fragment(day)>>} : Extend(writer[w].file, part)

\* The rest of a line goes to the open file, wherever that is by now.
WriteRest(w) ==
  LET me == writer[w]
  IN  /\ me.pc = "ready" /\ ~me.bol
      /\ \/ /\ Extend(me.file, <<[line |-> nextLine - 1, day |-> 0, ends |-> TRUE]>>)
            /\ Become(w, [me EXCEPT !.bol = TRUE])
         \/ FailsShort(w, 0)
      /\ UNCHANGED <<today, current, nextInode, archive, gone, nextLine, written, rest>>

AppendLine(w) ==
  LET me == writer[w]
  IN  /\ me.pc = "append"
      /\ \/ /\ Extend(me.file, <<me.piece>>)
            /\ written' = written \union {me.piece.line}
            /\ Become(w, [me EXCEPT !.pc = "ready", !.bol = me.piece.ends, !.piece = Nil])
         \/ FailsShort(w, me.piece.day) /\ UNCHANGED written
      /\ UNCHANGED <<today, current, nextInode, archive, gone, nextLine, rest>>

\* Rotate reads the log and stages the archives and what stays.
Stage(w) ==
  LET me == writer[w]
      split == Split(Contents, me.time)
      rotates == Rotates(Contents, me.time)
  IN  /\ me.pc = "rotate"
      /\ \/ ~rotates /\ Become(w, [me EXCEPT !.pc = "reopen"])
         \/ /\ rotates
            /\ Become(w, [me EXCEPT !.pc = "commit", !.blocks = split.blocks,
                                    !.stays = split.rest])
         \/ rotates /\ Fails(w)
      /\ UNCHANGED <<today, disk, nextLine, written, rest>>

\* Staged, for one archive a rotation.
Staged_one(me) == {d \in Days : me.blocks[d] # <<>> /\ me.done = <<>>}

Staged(me) == {d \in Days : me.blocks[d] # <<>>}

\* RollBack, with nothing truncated.
RollBack_not(w, found) == Fails(w) /\ archive' = found /\ UNCHANGED torn

\* rollbackArchives: what was appended so far is truncated away again.
RolledBack(w, d) ==
  LET done == writer[w].done
      sizes == {done[i].size : i \in {i \in DOMAIN done : done[i].day = d}}
  IN  SubSeq(archive[d], 1, Min({Len(archive[d])} \union sizes))

\* A truncation that fails is ignored (bound: in one rollback): the archive
\* stays as the failed commit left it.
RollBack(w, found) ==
  /\ Fails(w)
  /\ \E stuck \in IF torn THEN {{}} ELSE SUBSET Days :
       /\ archive' = [d \in Days |-> IF d \in stuck THEN found[d] ELSE RolledBack(w, d)]
       /\ torn' = (torn \/ stuck # {})

\* commit, one archive after the other, oldest first.
CommitArchive(w) ==
  LET me == writer[w]
      d == CHOOSE e \in Staged(me) : \A f \in Staged(me) : e <= f
  IN  /\ me.pc = "commit" /\ Staged(me) # {}
      /\ \/ /\ archive' = [archive EXCEPT ![d] = @ \o me.blocks[d]]
            /\ Become(w, [me EXCEPT !.blocks[d] = <<>>,
                                    !.done = Append(@, [day |-> d, size |-> Len(archive[d])])])
            /\ UNCHANGED torn
         \/ \E n \in 0..Len(me.blocks[d]) :
              RollBack(w, [archive EXCEPT ![d] = @ \o SubSeq(me.blocks[d], 1, n)])
      /\ UNCHANGED <<today, inode, current, nextInode, gone, nextLine, written, follower, environment>>

\* The staged rest is renamed over the log.
Replace(w) ==
  LET me == writer[w]
  IN  /\ me.pc = "commit" /\ Staged(me) = {} /\ nextInode \in Inodes
      /\ \/ /\ current' = nextInode /\ nextInode' = nextInode + 1
            /\ inode' = [inode EXCEPT ![nextInode] = me.stays]
            /\ Become(w, [me EXCEPT !.pc = "reopen", !.stays = <<>>, !.done = <<>>])
            /\ UNCHANGED <<archive, torn>>
         \/ RollBack(w, archive) /\ UNCHANGED <<inode, current, nextInode>>
      /\ UNCHANGED <<today, gone, nextLine, written, follower, environment>>

\* Boundary, without a look at the last byte.
Boundary_none(log) == <<>>

Boundary(log) == IF log # <<>> /\ ~Last(log).ends THEN <<Newline>> ELSE <<>>

\* openAppendFile and ensureAppendBoundary, for Open and for Write.
Reopen(w) ==
  LET me == writer[w]
      fresh == current = Nil
      file == IF fresh THEN nextInode ELSE current
      opened == [me EXCEPT !.file = file, !.day = me.time, !.bol = TRUE,
                           !.pc = IF me.piece = Nil THEN "ready" ELSE "append"]
  IN  /\ me.pc = "reopen" /\ file \in Inodes
      /\ \/ /\ current' = file
            /\ nextInode' = IF fresh THEN nextInode + 1 ELSE nextInode
            /\ Extend(file, Boundary(inode[file]))
            /\ Become(w, opened)
         \/ Fails(w) /\ UNCHANGED <<inode, current, nextInode>>
      /\ UNCHANGED <<today, archive, gone, nextLine, written, rest>>

-----------------------------------------------------------------------------
(* The world around it.                                                    *)

LogDayPasses ==
  /\ today < MaxDay /\ today' = today + 1
  /\ UNCHANGED <<disk, writer, nextLine, written, rest>>

RemoveCurrent ==
  /\ current # Nil
  /\ "remove" \in environment \/ ("once" \in environment /\ follower.pc = "read")
  /\ environment' = environment \ {"once"}
  /\ current' = Nil /\ gone' = [gone EXCEPT !.inodes = @ \union {current}]
  /\ UNCHANGED <<today, inode, nextInode, archive, writer, nextLine, written, follower, torn>>

LineIDs(log) == {log[i].line : i \in DOMAIN log} \ {0}

RemoveArchive(d) ==
  /\ "remove" \in environment /\ archive[d] # <<>>
  /\ archive' = [archive EXCEPT ![d] = <<>>]
  /\ gone' = [gone EXCEPT !.lines = @ \union LineIDs(archive[d])]
  /\ UNCHANGED <<today, inode, current, nextInode, writer, nextLine, written, rest>>

\* The daemon dies with all its writers (bound: once).
Crash ==
  /\ "crash" \in environment /\ \E w \in Writers : writer[w].pc # "closed"
  /\ writer' = [w \in Writers |-> Closed]
  /\ torn' = (torn \/ \E w \in Writers : writer[w].done # <<>>)
  /\ environment' = environment \ {"crash"}
  /\ UNCHANGED <<today, disk, nextLine, written, follower>>

-----------------------------------------------------------------------------
(* Follow: starts at the end, then polls.                                  *)

Follow ==
  /\ "follow" \in environment /\ follower.pc = "off"
  /\ follower' = [NotFollowing EXCEPT !.pc = "stat", !.inode = current,
                    !.offset = Len(Contents), !.from = Len(Contents)]
  /\ UNCHANGED <<today, disk, writer, nextLine, written, environment, torn>>

\* Restarted, with the unfinished line of the file before.
Restarted_keeps(f) == [f EXCEPT !.offset = 0, !.from = 0]

\* A path that is new, replaced or shorter is followed from its start.
Restarted(f) == [f EXCEPT !.offset = 0, !.from = 0, !.pending = <<>>]

PollStat ==
  LET f == follower
      kept == IF f.inode # current \/ Len(Contents) < f.offset THEN Restarted(f) ELSE f
  IN  /\ f.pc = "stat"
      /\ follower' = IF current = Nil THEN [Restarted(f) EXCEPT !.inode = Nil]
                     ELSE [kept EXCEPT !.inode = current, !.size = Len(Contents),
                             !.pc = IF Len(Contents) = kept.offset THEN "stat" ELSE "read"]
      /\ UNCHANGED <<today, disk, writer, nextLine, written, environment, torn>>

\* The path is opened again to be read, so it may be another file by now.
PollRead ==
  LET f == follower
      data == SubSeq(Contents, f.offset + 1,
                     IF f.size < Len(Contents) THEN f.size ELSE Len(Contents))
      complete == LinesAndTail(f.pending \o data)
  IN  /\ f.pc = "read"
      /\ follower' = [f EXCEPT !.pc = "stat", !.size = 0, !.offset = @ + Len(data),
                        !.pending = complete.tail,
                        !.emitted = @ \union complete.lines]
      /\ UNCHANGED <<today, disk, writer, nextLine, written, environment, torn>>

LogNext ==
  \/ \E w \in Writers :
       \/ Open(w) \/ Close(w) \/ WriteHead(w) \/ WriteRest(w) \/ AppendLine(w)
       \/ Stage(w) \/ CommitArchive(w) \/ Replace(w) \/ Reopen(w)
  \/ LogDayPasses \/ RemoveCurrent \/ (\E d \in Days : RemoveArchive(d)) \/ Crash
  \/ Follow \/ PollStat \/ PollRead

LogSpec == LogInit /\ [][LogNext]_logVars
=============================================================================
