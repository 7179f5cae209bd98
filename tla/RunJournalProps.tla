--------------------------- MODULE RunJournalProps ---------------------------
(* What the run journal promises to whoever appends to it and reads it.    *)
EXTENDS RunJournal

JournalTypeOK ==
  /\ now \in Dates /\ nextRecord \in 1..(MaxRecord + 1)
  /\ \A i \in Ids : record[i].day \in 0..now /\ record[i].started <= record[i].day
  /\ DOMAIN files \subseteq Dates
  /\ \A d \in DOMAIN files : files[d] \in Seq(Ids \union {Malformed, Torn})
  /\ opened \in {0} \union DOMAIN files
  /\ appender \in [Appenders -> 0..MaxRecord]
  /\ glued \subseteq acked /\ acked \subseteq Ids

Seen(out, id) == \E i \in DOMAIN out : out[i] = id

(* A record of the last KeepDays days is found, by a scan and by its run   *)
(* ID, in whatever order goroutines that straddle midnight appended, and   *)
(* however often the daemon was started again - unless the line before it  *)
(* was torn: the record is then glued to that line and lost although its   *)
(* append succeeded, against store_test.go:222-223, where a half-written   *)
(* line `must cost that one record'.  What does hold of those is that each *)
(* is paid for by an append that failed or was cut off (append, ensureDay, *)
(* pruneDir, WorkflowRun).                                                 *)
RecordsAreFound ==
  /\ \A id \in Readable :
       /\ Seen(Scan(Ids, MaxRecord), id) \/ Len(Content(record[id].day)) > MaxTail
       /\ FindRun(id) \/ Len(Content(record[id].day)) > MaxTail
       /\ Cardinality({i \in DOMAIN Content(record[id].day) :
                         Content(record[id].day)[i] = id}) = 1
  /\ Cardinality(glued) <= Cardinality({i \in 1..(nextRecord - 1) : i \notin acked})

(* A query that took no lock still answers with what was there when it     *)
(* began, newest day first, nothing twice and no more than it was asked    *)
(* for, while records are appended and files pruned.  Nothing is said of   *)
(* the order within a day, which is that of the appends and not, as        *)
(* query.go:39 has it, `newest first' (scan, scanFile).                    *)
AnswerIsSound ==
  reader.pc = "answered" =>
    LET out == reader.out
        kept == {id \in reader.sure \intersect Readable :
                   Len(Content(record[id].day)) <= MaxTail}
    IN  /\ Len(out) <= reader.limit
        /\ \A i, j \in DOMAIN out : i < j =>
             out[i] # out[j] /\ record[out[i]].day >= record[out[j]].day
        /\ Len(out) < reader.limit => \A id \in kept : Seen(out, id)
=============================================================================
