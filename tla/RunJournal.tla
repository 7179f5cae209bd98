------------------------------ MODULE RunJournal ------------------------------
(* One journal of finished runs (runhistory/): day files that are appended *)
(* to, pruned and read, by goroutines that stamp a record before they get  *)
(* the store's lock, and by readers that take no lock at all.              *)
(*                                                                         *)
(* A day file is a sequence of lines: the number of a record, Malformed,   *)
(* or Torn for a record whose write was cut short and has no newline.      *)
EXTENDS Integers, FiniteSets, Sequences, SequencesExt

CONSTANTS
  Appenders,     \* goroutines that journal a run
  Names,
  MaxDate, MaxRecord,
  KeepDays,      \* DefaultKeepDays
  MaxTail,       \* maxScanBytes, in lines
  Limits,        \* what a query asks for
  DiskMayFail

Dates == 1..MaxDate
Ids == 1..MaxRecord
Malformed == 0
Torn == -1

ASSUME JournalAssumption ==
  /\ MaxDate \in Nat \ {0} /\ MaxRecord \in Nat /\ KeepDays \in Nat /\ MaxTail \in Nat
  /\ Limits \subseteq Nat \ {0} /\ DiskMayFail \in BOOLEAN

VARIABLES
  now,           \* the day
  record,        \* what was stamped for each number
  nextRecord,
  files,         \* the day files that exist
  opened,        \* journal.day with journal.file open, or 0
  appender,      \* the record a goroutine is about to append, or 0
  acked,         \* appends that returned no error
  glued,         \* of these, the ones written behind a torn line
  reader

store == <<record, nextRecord, files, opened, appender, acked, glued>>
journalVars == <<now, store, reader>>

NoRecord == [started |-> 0, day |-> 0, name |-> ""]
NoReader == [pc |-> "idle", name |-> "", limit |-> 0, todo |-> {}, out |-> <<>>,
             sure |-> {}]

JournalInit ==
  /\ now = 1
  /\ record = [i \in Ids |-> NoRecord] /\ nextRecord = 1
  /\ files = [d \in {} |-> <<>>] /\ opened = 0
  /\ appender = [a \in Appenders |-> 0]
  /\ acked = {} /\ glued = {}
  /\ reader = NoReader

DateChanges ==
  /\ now < MaxDate /\ now' = now + 1
  /\ UNCHANGED <<store, reader>>

\* A run ends: its record is dated with the moment its goroutine looks at.
Stamp(a) ==
  /\ appender[a] = 0 /\ nextRecord \in Ids
  /\ \E name \in Names, started \in {1, now} :
       record' = [record EXCEPT ![nextRecord] =
                    [started |-> started, day |-> now, name |-> name]]
  /\ appender' = [appender EXCEPT ![a] = nextRecord]
  /\ nextRecord' = nextRecord + 1
  /\ UNCHANGED <<now, files, opened, acked, glued, reader>>

\* pruneDir: what lies more than KeepDays before the record goes.
Pruned(fs, day) == Restrict(fs, {d \in DOMAIN fs : KeepDays = 0 \/ d >= day - KeepDays + 1})

Content(day) == IF day \in DOMAIN files THEN files[day] ELSE <<>>
With(day, lines) ==
  [d \in DOMAIN files \union {day} |-> IF d = day THEN lines ELSE files[d]]

\* What one write makes of a file: behind a torn line the record is lost.
LineOf(old, id) == IF old # <<>> /\ Last(old) = Torn THEN Append(Front(old), Malformed)
                 ELSE Append(old, id)
TornLine(old) == IF old # <<>> /\ Last(old) = Torn THEN old ELSE Append(old, Torn)

\* append: ensureDay, one write, and a prune when another day was left.
AppendRecord(a) ==
  LET id == appender[a]
      day == record[id].day
      old == Content(day)
      rotated == opened \notin {0, day}
  IN  /\ id # 0
      /\ \/ /\ files' = IF rotated THEN Pruned(With(day, LineOf(old, id)), day)
                        ELSE With(day, LineOf(old, id))
            /\ opened' = day /\ acked' = acked \union {id}
            /\ glued' = IF LineOf(old, id) = Append(old, id) THEN glued ELSE glued \union {id}
         \/ /\ DiskMayFail /\ opened # day
            /\ opened' = 0 /\ UNCHANGED <<files, acked, glued>>
         \/ /\ DiskMayFail
            /\ files' = With(day, TornLine(old))
            /\ opened' = day /\ UNCHANGED <<acked, glued>>
      /\ appender' = [appender EXCEPT ![a] = 0]
      /\ UNCHANGED <<now, record, nextRecord, reader>>

\* The daemon is started again, maybe days later: pruneHistory.
Restart ==
  /\ opened' = 0 /\ files' = Pruned(files, now)
  /\ appender' = [a \in Appenders |-> 0]
  /\ UNCHANGED <<now, record, nextRecord, acked, glued, reader>>

-----------------------------------------------------------------------------
(* Reading.                                                                *)

\* matchName, over all records.
Matching(name) == {id \in Ids : name \in {"", record[id].name}}

\* Where the lines stand, in the tail of a day file, that parse and are kept.
Places(day, keep) ==
  LET lines == Content(day)
  IN  {day} \X {i \in DOMAIN lines : i > Len(lines) - MaxTail /\ lines[i] \in keep}

\* The lines at some places: newest day first, last line first, up to a limit.
NewestFirst(places, limit) ==
  LET until(p) == {q \in places : q[1] > p[1] \/ (q[1] = p[1] /\ q[2] >= p[2])}
      nth(n) == CHOOSE p \in places : Cardinality(until(p)) = n
  IN  [n \in 1..Min({limit, Cardinality(places)}) |-> Content(nth(n)[1])[nth(n)[2]]]

ScanFile(day, keep, limit) == NewestFirst(Places(day, keep), limit)

\* dayFiles, newest first, one file after the other.
Scan(keep, limit) == NewestFirst(UNION {Places(d, keep) : d \in DOMAIN files}, limit)

\* FindRun, without the scan of the other days.
FindRun_dated(id) == ScanFile(record[id].started, {id}, 1) # <<>>

\* WorkflowRun: first the file of the day in the run's ID, then all of them.
FindRun(id) == ScanFile(record[id].started, {id}, 1) # <<>> \/ Scan({id}, 1) # <<>>

\* Records whose line is intact and whose day will not be pruned.
Readable == {id \in acked \ glued : record[id].day > now - KeepDays}

Query ==
  /\ reader.pc = "idle"
  /\ \E name \in Names \union {""}, limit \in Limits :
       reader' = [pc |-> "scan", name |-> name, limit |-> limit, out |-> <<>>,
                  todo |-> DOMAIN files, sure |-> Readable \intersect Matching(name)]
  /\ UNCHANGED <<now, store>>

\* QueryFile, oldest file first.
QueryFile_oldest ==
  LET r == reader
      d == CHOOSE e \in r.todo : \A f \in r.todo : e <= f
  IN  /\ r.pc = "scan" /\ r.todo # {} /\ Len(r.out) < r.limit
      /\ reader' = [r EXCEPT !.todo = @ \ {d},
                             !.out = @ \o ScanFile(d, Matching(r.name), r.limit - Len(@))]
      /\ UNCHANGED <<now, store>>

QueryFile ==
  LET r == reader
      d == CHOOSE e \in r.todo : \A f \in r.todo : e >= f
  IN  /\ r.pc = "scan" /\ r.todo # {} /\ Len(r.out) < r.limit
      /\ reader' = [r EXCEPT !.todo = @ \ {d},
                             !.out = @ \o ScanFile(d, Matching(r.name), r.limit - Len(@))]
      /\ UNCHANGED <<now, store>>

Answer ==
  /\ reader.pc = "scan" /\ (reader.todo = {} \/ Len(reader.out) >= reader.limit)
  /\ reader' = [reader EXCEPT !.pc = "answered"]
  /\ UNCHANGED <<now, store>>

JournalNext ==
  \/ DateChanges \/ Restart
  \/ \E a \in Appenders : Stamp(a) \/ AppendRecord(a)
  \/ Query \/ QueryFile \/ Answer

JournalSpec == JournalInit /\ [][JournalNext]_journalVars
=============================================================================
