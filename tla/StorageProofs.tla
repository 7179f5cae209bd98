---------------------------- MODULE StorageProofs ----------------------------
(* Theorems about what the daemon keeps on disk: the run journal, for any   *)
(* number of goroutines, days, records and lines, and with the logs of the  *)
(* tasks the types of it all.                                               *)
EXTENDS TaskLogProofs, StorageMC

-----------------------------------------------------------------------------
(* The first of some places.                                                *)

LEMMA LesserOf ==
  ASSUME NEW a \in Nat, NEW b \in Nat
  PROVE  /\ Min({a, b}) \in Nat /\ Min({a, b}) <= a /\ Min({a, b}) <= b
         /\ Min({a, b}) = a \/ Min({a, b}) = b
<1>1. {a, b} \subseteq Nat /\ {a, b} # {}
  OBVIOUS
<1> QED
  BY <1>1, LeastOf

Until(places, p) == {q \in places : q[1] > p[1] \/ (q[1] = p[1] /\ q[2] >= p[2])}
Rank(places, p) == Cardinality(Until(places, p))

LEMMA Ranked ==
  ASSUME NEW places, IsFiniteSet(places), places \subseteq Nat \X Nat
  PROVE  /\ Cardinality(places) \in Nat
         /\ \A p \in places : Rank(places, p) \in 1..Cardinality(places)
         /\ \A p, q \in places : Rank(places, p) = Rank(places, q) => p = q
         /\ \A n \in 1..Cardinality(places) : \E p \in places : Rank(places, p) = n
<1> DEFINE N == Cardinality(places)
           r == [p \in places |-> Rank(places, p)]
<1>1. N \in Nat
  BY FS_CardinalityType
<1>2. \A p \in places : Until(places, p) \in SUBSET places /\ IsFiniteSet(Until(places, p))
  BY FS_Subset DEF Until
<1>3. \A p \in places : p[1] \in Nat /\ p[2] \in Nat /\ p = <<p[1], p[2]>>
  OBVIOUS
<1>4. \A p \in places : p \in Until(places, p)
  BY <1>3 DEF Until
<1>5. \A p \in places : Rank(places, p) \in 1..N
  <2> SUFFICES ASSUME NEW p \in places PROVE Rank(places, p) \in 1..N
    OBVIOUS
  <2>1. Rank(places, p) \in Nat /\ Rank(places, p) <= N
    BY <1>2, FS_CardinalityType, FS_Subset DEF Rank
  <2>2. Rank(places, p) # 0
    BY <1>2, <1>4, FS_EmptySet DEF Rank
  <2> QED
    BY <1>1, <2>1, <2>2
<1>6. \A p, q \in places : Rank(places, p) = Rank(places, q) => p = q
  <2> SUFFICES ASSUME NEW p \in places, NEW q \in places, Rank(places, p) = Rank(places, q)
               PROVE  p = q
    OBVIOUS
  <2>1. Until(places, p) \subseteq Until(places, q) \/ Until(places, q) \subseteq Until(places, p)
    BY <1>3 DEF Until
  <2>2. Until(places, p) = Until(places, q)
    BY <1>2, <2>1, FS_Subset DEF Rank
  <2>3. p \in Until(places, q) /\ q \in Until(places, p)
    BY <1>4, <2>2
  <2>4. p[1] = q[1] /\ p[2] = q[2]
    BY <1>3, <2>3 DEF Until
  <2> QED
    BY <1>3, <2>4
<1>7. r \in Injection(places, 1..N)
  BY <1>5, <1>6 DEF Injection, IsInjective
<1>8. Cardinality(1..N) = N /\ IsFiniteSet(1..N)
  BY <1>1, FS_Interval
<1>9. r \in Surjection(places, 1..N)
  <2> HIDE DEF r
  <2> QED
    BY <1>7, <1>8, FS_Injection
<1>10. \A n \in 1..N : \E p \in places : Rank(places, p) = n
  BY <1>9 DEF Surjection
<1> QED
  BY <1>1, <1>5, <1>6, <1>10

Lines(places, p, s) == \A n \in DOMAIN s : p[n] \in places /\ s[n] = Content(p[n][1])[p[n][2]]

(* All lines at the places, each once, unless there are more than the limit. *)
Picks(s, places, limit) ==
  /\ \E n \in Nat : n <= limit /\ DOMAIN s = 1..n /\ s = [i \in 1..n |-> s[i]]
                    /\ (n < limit => Cardinality(places) <= limit)
  /\ \E p : /\ Lines(places, p, s)
            /\ \A m, n \in DOMAIN s : p[m] = p[n] => m = n
            /\ Cardinality(places) <= limit => \A q \in places : \E n \in DOMAIN s : p[n] = q

LEMMA NewestPick ==
  ASSUME NEW places, IsFiniteSet(places), places \subseteq Nat \X Nat, NEW limit \in Nat
  PROVE  Picks(NewestFirst(places, limit), places, limit)
<1>0. PICK s : s = NewestFirst(places, limit)
  OBVIOUS
<1> DEFINE N == Cardinality(places)
           M == Min({limit, N})
           p == [n \in 1..N |-> CHOOSE q \in places : Rank(places, q) = n]
<1>1. /\ N \in Nat
      /\ \A q \in places : Rank(places, q) \in 1..N
      /\ \A q, t \in places : Rank(places, q) = Rank(places, t) => q = t
      /\ \A n \in 1..N : \E q \in places : Rank(places, q) = n
  BY Ranked
<1>2. M \in Nat /\ M <= limit /\ M <= N /\ (M = limit \/ M = N)
  BY <1>1, LesserOf
<1>3. \A n \in 1..N : p[n] \in places /\ Rank(places, p[n]) = n
  BY <1>1
<1>4. s = [n \in 1..M |-> Content(p[n][1])[p[n][2]]]
  <2>1. s = [n \in 1..M |->
               Content((CHOOSE q \in places : Rank(places, q) = n)[1])
                 [(CHOOSE q \in places : Rank(places, q) = n)[2]]]
    BY <1>0 DEF NewestFirst, Rank, Until
  <2>2. \A n \in 1..M : n \in 1..N
    BY <1>1, <1>2
  <2>3. \A n \in 1..M : p[n] = CHOOSE q \in places : Rank(places, q) = n
    BY <2>2
  <2> HIDE DEF p, M, N
  <2> QED
    BY <2>1, <2>3
<1>5. DOMAIN s = 1..M /\ s = [i \in 1..M |-> s[i]]
  BY <1>4
<1>6. \A n \in 1..M : n \in 1..N /\ p[n] \in places /\ s[n] = Content(p[n][1])[p[n][2]]
  <2> HIDE DEF M, p, N
  <2>1. \A n \in 1..M : n \in 1..N
    BY <1>1, <1>2
  <2>2. \A n \in 1..M : s[n] = Content(p[n][1])[p[n][2]]
    BY <1>4
  <2> QED
    BY <1>3, <2>1, <2>2
<1>7. \A m, n \in 1..M : p[m] = p[n] => m = n
  <2> HIDE DEF p, M
  <2> QED
    BY <1>3, <1>6
<1>8. N <= limit => \A q \in places : \E n \in 1..M : p[n] = q
  <2> SUFFICES ASSUME N <= limit, NEW q \in places PROVE \E n \in 1..M : p[n] = q
    OBVIOUS
  <2>1. M = N
    BY <1>1, <1>2
  <2>2. Rank(places, q) \in 1..N
    BY <1>1
  <2>3. p[Rank(places, q)] = q
    <3> HIDE DEF p
    <3> QED
      BY <1>1, <1>3, <2>2
  <2> QED
    BY <2>1, <2>2, <2>3
<1>9. M < limit => N <= limit
  BY <1>1, <1>2
<1> HIDE DEF N, M, p
<1>10. Lines(places, p, s)
  BY <1>5, <1>6 DEF Lines
<1>11. \E n \in Nat : n <= limit /\ DOMAIN s = 1..n /\ s = [i \in 1..n |-> s[i]]
                      /\ (n < limit => N <= limit)
  BY <1>2, <1>5, <1>9
<1>12. \E t : /\ Lines(places, t, s)
              /\ \A m, n \in DOMAIN s : t[m] = t[n] => m = n
              /\ N <= limit => \A q \in places : \E n \in DOMAIN s : t[n] = q
  BY <1>5, <1>7, <1>8, <1>10
<1>13. Picks(s, places, limit)
  BY <1>11, <1>12 DEF N, Picks
<1> QED
  BY <1>0, <1>13

-----------------------------------------------------------------------------
(* The inductive invariant of the journal.                                  *)

Line == Ids \union {Malformed, Torn}
RecordState == [started : 0..MaxDate, day : 0..MaxDate, name : Names \union {""}]

StoreTyped ==
  /\ now \in Dates /\ nextRecord \in 1..(MaxRecord + 1)
  /\ record \in [Ids -> RecordState]
  /\ \A i \in Ids : record[i].day <= now /\ record[i].started <= record[i].day
  /\ \A i \in Ids : i < nextRecord => record[i].day \in Dates
  /\ DOMAIN files \subseteq Dates /\ files = [d \in DOMAIN files |-> files[d]]
  /\ \A d \in DOMAIN files : files[d] \in Seq(Line)
  /\ opened \in {0} \union DOMAIN files
  /\ appender \in [Appenders -> 0..MaxRecord]
  /\ acked \subseteq 1..(nextRecord - 1) /\ glued \subseteq acked

(* What a goroutine is about to append is its own and not yet appended.     *)
InHand ==
  \A a \in Appenders : appender[a] # 0 =>
    /\ appender[a] < nextRecord /\ appender[a] \notin acked
    /\ \A b \in Appenders : appender[b] = appender[a] => b = a

(* A day file holds records of its day that were acknowledged, each once.   *)
Holds(log, d) ==
  \A j \in DOMAIN log : log[j] \in Ids =>
    /\ log[j] \in acked \ glued /\ record[log[j]].day = d
    /\ \A i \in DOMAIN log : log[i] = log[j] => i = j
Filed == \A d \in Dates : Holds(Content(d), d)

(* What can be read is in the file of its day.                              *)
Kept == \A id \in Readable : Seen(Content(record[id].day), id)

(* A record is glued to a torn line, and every torn line is of a record     *)
(* whose append failed.                                                     *)
Failed == {i \in 1..(nextRecord - 1) : i \notin acked /\ \A a \in Appenders : appender[a] # i}
IsTorn(log) == log # <<>> /\ Last(log) = Torn
TornDays == {d \in Dates : IsTorn(Content(d))}
Counted == Cardinality(glued) + Cardinality(TornDays) <= Cardinality(Failed)

StoreInv == StoreTyped /\ InHand /\ Filed /\ Kept /\ Counted

ReaderState ==
  [pc : {"idle", "scan", "answered"}, name : Names \union {""}, limit : Nat,
   out : Seq(Ids), todo : SUBSET Dates, sure : SUBSET Ids]

(* What a query has read is of the days it has done; what was there when it *)
(* began is in the answer, of a day ahead, or beyond the limit.             *)
ReaderInv ==
  /\ reader \in ReaderState
  /\ reader.pc # "idle" =>
       /\ Len(reader.out) <= reader.limit
       /\ \A i \in DOMAIN reader.out :
            /\ reader.out[i] \in acked
            /\ \A d \in reader.todo : record[reader.out[i]].day > d
       /\ \A i, j \in DOMAIN reader.out : i < j =>
            /\ reader.out[i] # reader.out[j]
            /\ record[reader.out[i]].day >= record[reader.out[j]].day
       /\ reader.sure \subseteq (acked \ glued) \intersect Matching(reader.name)
       /\ Len(reader.out) < reader.limit =>
            \A id \in reader.sure \intersect Readable :
              Len(Content(record[id].day)) <= MaxTail =>
                record[id].day \in reader.todo \/ Seen(reader.out, id)
       /\ reader.pc = "answered" => reader.todo = {} \/ Len(reader.out) >= reader.limit

JournalInv == StoreInv /\ ReaderInv

-----------------------------------------------------------------------------
(* What the steps do to the files.                                          *)

LEMMA Numbers ==
  /\ MaxDate \in Nat /\ MaxDate # 0 /\ MaxRecord \in Nat /\ KeepDays \in Nat /\ MaxTail \in Nat
  /\ Dates = 1..MaxDate /\ Ids = 1..MaxRecord /\ Limits \subseteq Nat
  /\ Malformed \notin Ids /\ Torn \notin Ids /\ Malformed # Torn
  BY JournalAssumption DEF Dates, Ids, Malformed, Torn

LEMMA ContentTyped ==
  ASSUME StoreTyped
  PROVE  /\ \A d : Content(d) \in Seq(Line)
         /\ \A d : d \notin Dates => Content(d) = <<>>
  BY EmptySeq DEF StoreTyped, Content

DaysTyped(fs) ==
  /\ DOMAIN fs \subseteq Dates /\ fs = [d \in DOMAIN fs |-> fs[d]]
  /\ \A d \in DOMAIN fs : fs[d] \in Seq(Line)

At(fs, d) == IF d \in DOMAIN fs THEN fs[d] ELSE <<>>

LEMMA WithDay ==
  ASSUME StoreTyped, NEW day \in Dates, NEW lines \in Seq(Line)
  PROVE  /\ DaysTyped(With(day, lines)) /\ day \in DOMAIN With(day, lines)
         /\ At(With(day, lines), day) = lines
         /\ \A d \in Dates : d # day => At(With(day, lines), d) = Content(d)
  BY DEF StoreTyped, DaysTyped, With, At, Content

LEMMA PrunedDays ==
  ASSUME NEW fs, DaysTyped(fs), NEW day \in Dates
  PROVE  /\ DaysTyped(Pruned(fs, day)) /\ DOMAIN Pruned(fs, day) \subseteq DOMAIN fs
         /\ \A d \in Dates : At(Pruned(fs, day), d) \in {At(fs, d), <<>>}
         /\ \A d \in Dates : KeepDays = 0 \/ d > day - KeepDays =>
              /\ At(Pruned(fs, day), d) = At(fs, d)
              /\ d \in DOMAIN fs => d \in DOMAIN Pruned(fs, day)
<1> DEFINE S == {d \in DOMAIN fs : KeepDays = 0 \/ d >= day - KeepDays + 1}
<1>1. Pruned(fs, day) = [d \in S |-> fs[d]]
  BY DEF Pruned, Restrict
<1>2. S \subseteq DOMAIN fs
  OBVIOUS
<1>3. \A d \in Dates : KeepDays = 0 \/ d > day - KeepDays => (d \in DOMAIN fs => d \in S)
  BY Numbers
<1> HIDE DEF S
<1> QED
  BY <1>1, <1>2, <1>3 DEF DaysTyped, At

LEMMA RestartFiles ==
  ASSUME StoreInv, Restart
  PROVE  /\ DaysTyped(files')
         /\ \A d \in Dates : Content(d)' \in {Content(d), <<>>}
         /\ \A d \in Dates : KeepDays = 0 \/ d > now - KeepDays => Content(d)' = Content(d)
<1>1. DaysTyped(files) /\ now \in Dates
  BY DEF StoreInv, StoreTyped, DaysTyped
<1>2. files' = Pruned(files, now)
  BY DEF Restart
<1>3. \A d : Content(d) = At(files, d) /\ Content(d)' = At(files', d)
  BY DEF Content, At
<1> QED
  BY <1>1, <1>2, <1>3, PrunedDays

(* The files after a write to one day.                                      *)
Writes(day, lines) ==
  /\ DaysTyped(files') /\ day \in DOMAIN files' /\ At(files', day) = lines
  /\ \A d \in Dates : d # day => At(files', d) \in {At(files, d), <<>>}
  /\ \A d \in Dates : d # day /\ (KeepDays = 0 \/ d > day - KeepDays) =>
       At(files', d) = At(files, d)

LEMMA ContentAt == \A d : Content(d) = At(files, d) /\ Content(d)' = At(files', d)
  BY DEF Content, At

LEMMA FilesWritten ==
  ASSUME StoreInv, NEW day \in Dates, NEW lines \in Seq(Line),
         files' = With(day, lines) \/ files' = Pruned(With(day, lines), day)
  PROVE  Writes(day, lines)
<1> DEFINE fs == With(day, lines)
<1>1. /\ DaysTyped(fs) /\ day \in DOMAIN fs /\ At(fs, day) = lines
      /\ \A d \in Dates : d # day => At(fs, d) = Content(d)
  BY WithDay DEF StoreInv
<1>2. \A d : Content(d) = At(files, d)
  BY DEF Content, At
<1>3. KeepDays = 0 \/ day > day - KeepDays
  BY Numbers
<1> HIDE DEF fs
<1>4. CASE files' = fs
  BY <1>1, <1>2, <1>4 DEF Writes
<1>5. CASE files' = Pruned(fs, day)
  BY <1>1, <1>2, <1>3, <1>5, PrunedDays DEF Writes
<1> QED
  BY <1>4, <1>5 DEF fs

(* The two lines an append can leave, at the end of a file.                 *)
LEMMA LinesWritten ==
  ASSUME NEW old \in Seq(Line), NEW id \in Ids
  PROVE  /\ LineOf(old, id) \in Seq(Line) /\ TornLine(old) \in Seq(Line)
         /\ Len(LineOf(old, id)) >= Len(old) /\ Len(TornLine(old)) >= Len(old)
         /\ IsTorn(TornLine(old)) /\ ~IsTorn(LineOf(old, id))
         /\ \A j \in DOMAIN TornLine(old) : TornLine(old)[j] \in Ids =>
              j \in DOMAIN old /\ TornLine(old)[j] = old[j]
         /\ \A j \in DOMAIN LineOf(old, id) : LineOf(old, id)[j] \in Ids =>
              (j \in DOMAIN old /\ LineOf(old, id)[j] = old[j])
              \/ (~IsTorn(old) /\ j = Len(old) + 1 /\ LineOf(old, id)[j] = id)
         /\ \A j \in DOMAIN old : old[j] \in Ids =>
              /\ j \in DOMAIN TornLine(old) /\ TornLine(old)[j] = old[j]
              /\ j \in DOMAIN LineOf(old, id) /\ LineOf(old, id)[j] = old[j]
         /\ ~IsTorn(old) => Seen(LineOf(old, id), id)
         /\ LineOf(old, id) = Append(old, id) <=> ~IsTorn(old)
<1>1. Len(old) \in Nat /\ DOMAIN old = 1..Len(old) /\ \A j \in DOMAIN old : old[j] \in Line
  BY ElementOfSeq
<1>2. CASE IsTorn(old)
  <2>1. old # <<>> /\ old[Len(old)] = Torn /\ Len(old) >= 1
    BY <1>1, <1>2, EmptySeq DEF IsTorn, Last
  <2> DEFINE f == SubSeq(old, 1, Len(old) - 1)
             g == LineOf(old, id)
  <2>2. g = Append(f, Malformed) /\ TornLine(old) = old
    BY <1>2 DEF IsTorn, LineOf, TornLine, Front
  <2>3. f \in Seq(Line) /\ Len(f) = Len(old) - 1 /\ \A j \in 1..(Len(old) - 1) : f[j] = old[j]
    BY <1>1, <2>1, SubSeqProperties
  <2>4. /\ g \in Seq(Line) /\ Len(g) = Len(old) /\ DOMAIN g = 1..Len(old)
        /\ \A j \in 1..(Len(old) - 1) : g[j] = old[j]
        /\ g[Len(old)] = Malformed
    <3> HIDE DEF f, g
    <3>1. Malformed \in Line
      BY DEF Line
    <3>2. /\ g \in Seq(Line) /\ Len(g) = Len(f) + 1
          /\ \A j \in 1..Len(f) : g[j] = f[j]
          /\ g[Len(f) + 1] = Malformed
      BY <2>2, <2>3, <3>1, AppendProperties
    <3>3. Len(f) + 1 = Len(old) /\ DOMAIN g = 1..Len(g)
      BY <1>1, <2>3, <3>2
    <3> QED
      BY <2>3, <3>2, <3>3
  <2>5. g # <<>> /\ Last(g) = Malformed
    BY <1>1, <2>1, <2>4 DEF Last
  <2>6. ~IsTorn(g) /\ g # Append(old, id)
    <3> HIDE DEF g, f
    <3>1. Len(Append(old, id)) = Len(old) + 1
      BY <1>1, AppendProperties DEF Line
    <3>2. g # Append(old, id)
      <4>1. \A n \in Nat : n + 1 # n
        OBVIOUS
      <4> QED
        BY <1>1, <2>4, <3>1, <4>1
    <3>3. ~IsTorn(g)
      BY <2>5, Numbers DEF IsTorn
    <3> QED
      BY <3>2, <3>3
  <2>7. LineOf(old, id) = g
    OBVIOUS
  <2>8. \A j \in 1..Len(old) : j \in 1..(Len(old) - 1) \/ j = Len(old)
    <3>1. \A n \in Nat : \A j \in 1..n : j \in 1..(n - 1) \/ j = n
      OBVIOUS
    <3> QED
      BY <1>1, <3>1
  <2>9. \A j \in DOMAIN g : g[j] \in Ids => j \in DOMAIN old /\ g[j] = old[j]
    <3> HIDE DEF g, f
    <3> QED
      BY <1>1, <2>4, <2>8, Numbers
  <2>10. \A j \in DOMAIN old : old[j] \in Ids => j \in DOMAIN g /\ g[j] = old[j]
    <3> HIDE DEF g, f
    <3> QED
      BY <1>1, <2>1, <2>4, <2>8, Numbers
  <2>11. Len(g) >= Len(old) /\ Len(TornLine(old)) >= Len(old)
    <3>1. \A n \in Nat : n >= n
      OBVIOUS
    <3> HIDE DEF g, f
    <3> QED
      BY <1>1, <2>2, <2>4, <3>1
  <2>12. /\ IsTorn(TornLine(old)) /\ TornLine(old) \in Seq(Line)
         /\ \A j \in DOMAIN TornLine(old) : j \in DOMAIN old /\ TornLine(old)[j] = old[j]
         /\ \A j \in DOMAIN old : j \in DOMAIN TornLine(old)
    BY <1>2, <2>2
  <2> HIDE DEF g, f
  <2> QED
    BY <1>2, <2>4, <2>6, <2>7, <2>9, <2>10, <2>11, <2>12
<1>3. CASE ~IsTorn(old)
  <2>1. LineOf(old, id) = Append(old, id) /\ TornLine(old) = Append(old, Torn)
    BY <1>3 DEF IsTorn, LineOf, TornLine
  <2>2. id \in Line /\ Torn \in Line
    BY DEF Line
  <2>3. \A x \in Line : /\ Append(old, x) \in Seq(Line) /\ Len(Append(old, x)) = Len(old) + 1
                        /\ DOMAIN Append(old, x) = 1..(Len(old) + 1)
                        /\ \A j \in 1..Len(old) : Append(old, x)[j] = old[j]
                        /\ Append(old, x)[Len(old) + 1] = x
    BY <1>1, AppendProperties
  <2>4. \A x \in Line : Append(old, x) # <<>> /\ Last(Append(old, x)) = x
    BY <1>1, <2>3 DEF Last
  <2>5. IsTorn(TornLine(old)) /\ ~IsTorn(LineOf(old, id))
    BY <2>1, <2>2, <2>4, Numbers DEF IsTorn
  <2>6. Seen(LineOf(old, id), id)
    BY <1>1, <2>1, <2>2, <2>3 DEF Seen
  <2> QED
    BY <1>1, <1>3, <2>1, <2>2, <2>3, <2>5, <2>6, Numbers
<1> QED
  BY <1>2, <1>3

(* A file that is left as it is still holds what it should.                 *)
LEMMA StillHolds ==
  ASSUME StoreInv, \A i \in acked : record'[i] = record[i],
         acked \ glued \subseteq acked' \ glued',
         NEW d, NEW log, Holds(log, d)
  PROVE  Holds(log, d)'
  BY DEF Holds, Ids

LEMMA NothingHeld == ASSUME NEW d PROVE Holds(<<>>, d)' /\ ~IsTorn(<<>>)
  BY DEF Holds, IsTorn

LEMMA HeldTorn ==
  ASSUME NEW old \in Seq(Line), NEW id \in Ids, NEW d, NEW new, new = TornLine(old), Holds(old, d)'
  PROVE  Holds(new, d)'
<1>1. \A j \in DOMAIN new : new[j] \in Ids => j \in DOMAIN old /\ new[j] = old[j]
  BY LinesWritten
<1> QED
  BY <1>1 DEF Holds, Ids

LEMMA HeldLine ==
  ASSUME NEW old \in Seq(Line), NEW id \in Ids, NEW d, NEW new, new = LineOf(old, id), Holds(old, d)',
         \A j \in DOMAIN old : old[j] # id,
         ~IsTorn(old) => id \in acked' \ glued' /\ record'[id].day = d
  PROVE  Holds(new, d)'
<1>1. \A j \in DOMAIN LineOf(old, id) : LineOf(old, id)[j] \in Ids =>
        \/ j \in DOMAIN old /\ LineOf(old, id)[j] = old[j]
        \/ ~IsTorn(old) /\ j = Len(old) + 1 /\ LineOf(old, id)[j] = id
  BY LinesWritten
<1> QED
  BY <1>1 DEF Holds, Ids

(* Of the records and of what was acknowledged, an append changes nothing   *)
(* but for its own record.                                                  *)
LEMMA AppendFacts ==
  ASSUME StoreInv, NEW a \in Appenders, AppendRecord(a)
  PROVE  LET id == appender[a]  day == record[id].day
         IN  /\ id \in Ids /\ id < nextRecord /\ id \notin acked /\ day \in Dates /\ day <= now
             /\ \A b \in Appenders : appender[b] = id => b = a
             /\ appender' \in [Appenders -> 0..MaxRecord]
             /\ \A b \in Appenders : appender'[b] = IF b = a THEN 0 ELSE appender[b]
             /\ UNCHANGED <<now, record, nextRecord, reader>>
<1>1. /\ appender \in [Appenders -> 0..MaxRecord] /\ appender[a] # 0
      /\ appender' = [appender EXCEPT ![a] = 0]
      /\ UNCHANGED <<now, record, nextRecord, reader>>
  BY DEF StoreInv, StoreTyped, AppendRecord
<1>2. appender[a] \in Ids
  BY <1>1, Numbers
<1>3. appender[a] < nextRecord /\ appender[a] \notin acked
      /\ \A b \in Appenders : appender[b] = appender[a] => b = a
  BY <1>1 DEF StoreInv, InHand
<1>4. record[appender[a]].day \in Dates /\ record[appender[a]].day <= now
  BY <1>2, <1>3 DEF StoreInv, StoreTyped
<1>5. appender' \in [Appenders -> 0..MaxRecord]
  BY <1>1, Numbers
<1> QED
  BY <1>1, <1>2, <1>3, <1>4, <1>5

(* How an append can end.                                                   *)
Written(a) ==
  LET id == appender[a]
      day == record[id].day
      old == Content(day)
  IN  /\ Writes(day, LineOf(old, id)) /\ opened' = day /\ acked' = acked \union {id}
      /\ glued' = IF IsTorn(old) THEN glued \union {id} ELSE glued
Refused == UNCHANGED <<files, acked, glued>> /\ opened' = 0
CutShort(a) ==
  LET day == record[appender[a]].day
  IN  Writes(day, TornLine(Content(day))) /\ opened' = day /\ UNCHANGED <<acked, glued>>

LEMMA AppendEnds ==
  ASSUME StoreInv, NEW a \in Appenders, AppendRecord(a)
  PROVE  Written(a) \/ Refused \/ CutShort(a)
<1> DEFINE id == appender[a]
           day == record[id].day
           old == Content(day)
           rotated == opened \notin {0, day}
<1>1. id \in Ids /\ day \in Dates
  BY AppendFacts
<1>2. old \in Seq(Line)
  BY ContentTyped DEF StoreInv
<1>3. LineOf(old, id) \in Seq(Line) /\ TornLine(old) \in Seq(Line)
      /\ (LineOf(old, id) = Append(old, id) <=> ~IsTorn(old))
  BY <1>1, <1>2, LinesWritten
<1>4. \/ /\ files' = IF rotated THEN Pruned(With(day, LineOf(old, id)), day)
                     ELSE With(day, LineOf(old, id))
         /\ opened' = day /\ acked' = acked \union {id}
         /\ glued' = IF LineOf(old, id) = Append(old, id) THEN glued ELSE glued \union {id}
      \/ opened' = 0 /\ UNCHANGED <<files, acked, glued>>
      \/ files' = With(day, TornLine(old)) /\ opened' = day /\ UNCHANGED <<acked, glued>>
  BY DEF AppendRecord
<1> HIDE DEF id, day, old, rotated
<1>5. CASE /\ files' = IF rotated THEN Pruned(With(day, LineOf(old, id)), day)
                       ELSE With(day, LineOf(old, id))
           /\ opened' = day /\ acked' = acked \union {id}
           /\ glued' = IF LineOf(old, id) = Append(old, id) THEN glued ELSE glued \union {id}
  <2>1. Writes(day, LineOf(old, id))
    BY <1>1, <1>3, <1>5, FilesWritten
  <2> QED
    BY <1>3, <1>5, <2>1 DEF Written, id, day, old
<1>6. CASE files' = With(day, TornLine(old)) /\ opened' = day /\ UNCHANGED <<acked, glued>>
  <2>1. Writes(day, TornLine(old))
    BY <1>1, <1>3, <1>6, FilesWritten
  <2> QED
    BY <1>6, <2>1 DEF CutShort, id, day, old
<1> QED
  BY <1>4, <1>5, <1>6 DEF Refused

LEMMA AppendTyped ==
  ASSUME StoreInv, NEW a \in Appenders, AppendRecord(a)
  PROVE  StoreTyped' /\ InHand' /\ acked \ glued \subseteq acked' \ glued'
<1> DEFINE id == appender[a]
           day == record[id].day
<1>1. /\ id \in Ids /\ id < nextRecord /\ id \notin acked /\ day \in Dates /\ day <= now
      /\ \A b \in Appenders : appender[b] = id => b = a
      /\ appender' \in [Appenders -> 0..MaxRecord]
      /\ \A b \in Appenders : appender'[b] = IF b = a THEN 0 ELSE appender[b]
      /\ UNCHANGED <<now, record, nextRecord, reader>>
  BY AppendFacts
<1>2. StoreTyped /\ InHand
  BY DEF StoreInv
<1>3. /\ DaysTyped(files') /\ opened' \in {0} \union DOMAIN files'
      /\ acked' = acked \/ acked' = acked \union {id}
      /\ glued' = glued \/ (glued' = glued \union {id} /\ acked' = acked \union {id})
      /\ acked \ glued \subseteq acked' \ glued'
  <2>1. CASE Written(a)
    BY <1>1, <2>1 DEF Written, Writes
  <2>2. CASE Refused
    BY <1>2, <2>2 DEF Refused, StoreTyped, DaysTyped
  <2>3. CASE CutShort(a)
    BY <2>3 DEF CutShort, Writes
  <2> QED
    BY <2>1, <2>2, <2>3, AppendEnds
<1>4. id \in 1..(nextRecord - 1) /\ nextRecord \in Nat
  BY <1>1, <1>2, Numbers DEF StoreTyped
<1> HIDE DEF id, day
<1>5. acked' \subseteq 1..(nextRecord' - 1) /\ glued' \subseteq acked'
  BY <1>1, <1>2, <1>3, <1>4 DEF StoreTyped
<1>6. StoreTyped'
  BY <1>1, <1>2, <1>3, <1>5 DEF StoreTyped, DaysTyped, RecordState
<1>7. InHand'
  BY <1>1, <1>2, <1>3 DEF InHand, id
<1> QED
  BY <1>3, <1>6, <1>7

LEMMA AppendFiled ==
  ASSUME StoreInv, NEW a \in Appenders, AppendRecord(a)
  PROVE  Filed'
<1> SUFFICES ASSUME NEW d \in Dates PROVE Holds(Content(d), d)'
  BY DEF Filed
<1>1. PICK id, day, old : id = appender[a] /\ day = record[id].day /\ old = Content(day)
  OBVIOUS
<1>2. /\ id \in Ids /\ id \notin acked /\ day \in Dates
      /\ UNCHANGED record
  BY <1>1, AppendFacts
<1>3. /\ \A e \in Dates : Holds(Content(e), e)
      /\ acked \ glued \subseteq acked' \ glued' /\ \A i \in acked : record'[i] = record[i]
      /\ old \in Seq(Line)
  BY <1>1, <1>2, AppendTyped, ContentTyped DEF StoreInv, Filed
<1>4. PICK was, is : was = Content(d) /\ is = Content(d)'
  OBVIOUS
<1>5. Holds(was, d)' /\ Holds(<<>>, d)' /\ Holds(old, day)'
  <2>1. Holds(was, d) /\ Holds(old, day)
    BY <1>1, <1>2, <1>3, <1>4
  <2> QED
    BY <1>3, <2>1, StillHolds, NothingHeld
<1>6. Holds(is, d)'
  <2>1. CASE Written(a)
    <3>1. \A j \in DOMAIN old : old[j] # id
      BY <1>1, <1>2, <1>3 DEF Holds
    <3>2. /\ Writes(day, LineOf(old, id)) /\ acked' = acked \union {id}
          /\ glued' = IF IsTorn(old) THEN glued \union {id} ELSE glued
      BY <1>1, <2>1 DEF Written
    <3>3. ~IsTorn(old) => id \in acked' \ glued' /\ record'[id].day = day
      BY <1>1, <1>2, <3>2 DEF StoreInv, StoreTyped
    <3>4. PICK new : new = LineOf(old, id)
      OBVIOUS
    <3>5. Holds(new, day)'
      BY <1>2, <1>3, <1>5, <3>1, <3>3, <3>4, HeldLine
    <3>6. (is = new /\ d = day) \/ is \in {was, <<>>}
      BY <1>4, <3>2, <3>4, ContentAt DEF Writes
    <3> QED
      BY <1>5, <3>5, <3>6
  <2>2. CASE Refused
    <3>1. is = was
      BY <1>4, <2>2 DEF Refused, Content
    <3> QED
      BY <1>5, <3>1
  <2>3. CASE CutShort(a)
    <3>1. Writes(day, TornLine(old))
      BY <1>1, <2>3 DEF CutShort
    <3>2. PICK new : new = TornLine(old)
      OBVIOUS
    <3>3. Holds(new, day)'
      BY <1>2, <1>3, <1>5, <3>2, HeldTorn
    <3>4. (is = new /\ d = day) \/ is \in {was, <<>>}
      BY <1>4, <3>1, <3>2, ContentAt DEF Writes
    <3> QED
      BY <1>5, <3>3, <3>4
  <2> QED
    BY <2>1, <2>2, <2>3, AppendEnds
<1> QED
  BY <1>4, <1>6 DEF Holds

(* What was readable stays where it is, and its file does not shrink.       *)
LEMMA AppendLeaves ==
  ASSUME StoreInv, NEW a \in Appenders, AppendRecord(a), NEW id \in Readable' \intersect (acked \ glued)
  PROVE  /\ id \in Readable /\ record'[id] = record[id]
         /\ Seen(Content(record[id].day)', id)
         /\ Len(Content(record[id].day)) <= Len(Content(record[id].day)')
<1>1. PICK own, day, old : own = appender[a] /\ day = record[own].day /\ old = Content(day)
  OBVIOUS
<1>2. /\ own \in Ids /\ own \notin acked /\ day \in Dates /\ day <= now
      /\ UNCHANGED <<record, now>> /\ old \in Seq(Line)
  BY <1>1, AppendFacts, ContentTyped DEF StoreInv
<1>3. id \in Ids /\ record[id].day \in Dates /\ record[id].day <= now /\ now \in Nat
  BY Numbers DEF StoreInv, StoreTyped
<1>4. id \in Readable /\ record[id].day > now - KeepDays
  BY <1>2 DEF Readable
<1>5. PICK d, was, is : d = record[id].day /\ was = Content(d) /\ is = Content(d)'
  OBVIOUS
<1>6. d \in Dates /\ Seen(was, id) /\ was \in Seq(Line)
  BY <1>3, <1>4, <1>5, ContentTyped DEF StoreInv, Kept
<1>7. KeepDays = 0 \/ d > day - KeepDays
  BY <1>2, <1>3, <1>4, <1>5, Numbers
<1>8. PICK j \in DOMAIN was : was[j] = id
  BY <1>6 DEF Seen
<1>9. old = was => /\ Seen(LineOf(old, own), id) /\ Len(was) <= Len(LineOf(old, own))
                   /\ Seen(TornLine(old), id) /\ Len(was) <= Len(TornLine(old))
  <2>1. /\ Len(LineOf(old, own)) >= Len(old) /\ Len(TornLine(old)) >= Len(old)
        /\ LineOf(old, own) \in Seq(Line) /\ TornLine(old) \in Seq(Line)
        /\ \A i \in DOMAIN old : old[i] \in Ids =>
             /\ i \in DOMAIN TornLine(old) /\ TornLine(old)[i] = old[i]
             /\ i \in DOMAIN LineOf(old, own) /\ LineOf(old, own)[i] = old[i]
    BY <1>2, LinesWritten
  <2> QED
    BY <1>2, <1>3, <1>8, <2>1 DEF Seen
<1>10. Seen(was, id) /\ Len(was) <= Len(was)
  BY <1>6
<1>11. Seen(is, id) /\ Len(was) <= Len(is)
  <2>1. CASE Written(a)
    <3>1. Writes(day, LineOf(old, own))
      BY <1>1, <2>1 DEF Written
    <3>2. is = was \/ (is = LineOf(old, own) /\ old = was)
      BY <1>1, <1>5, <1>6, <1>7, <3>1, ContentAt DEF Writes
    <3> QED
      BY <1>9, <1>10, <3>2
  <2>2. CASE Refused
    <3>1. is = was
      BY <1>5, <2>2 DEF Refused, Content
    <3> QED
      BY <1>10, <3>1
  <2>3. CASE CutShort(a)
    <3>1. Writes(day, TornLine(old))
      BY <1>1, <2>3 DEF CutShort
    <3>2. is = was \/ (is = TornLine(old) /\ old = was)
      BY <1>1, <1>5, <1>6, <1>7, <3>1, ContentAt DEF Writes
    <3> QED
      BY <1>9, <1>10, <3>2
  <2> QED
    BY <2>1, <2>2, <2>3, AppendEnds
<1> QED
  BY <1>2, <1>4, <1>5, <1>11 DEF Seen

LEMMA AppendKept ==
  ASSUME StoreInv, NEW a \in Appenders, AppendRecord(a)
  PROVE  Kept'
<1> SUFFICES ASSUME NEW id \in Readable' PROVE Seen(Content(record[id].day), id)'
  BY DEF Kept
<1>1. PICK own, day, old : own = appender[a] /\ day = record[own].day /\ old = Content(day)
  OBVIOUS
<1>2. /\ own \in Ids /\ day \in Dates /\ UNCHANGED <<record, now>> /\ old \in Seq(Line)
  BY <1>1, AppendFacts, ContentTyped DEF StoreInv
<1>3. id \in acked' \ glued'
  BY DEF Readable
<1>4. CASE id \in acked \ glued
  <2>1. Seen(Content(record[id].day)', id) /\ record'[id] = record[id]
    BY <1>4, AppendLeaves
  <2> QED
    BY <1>2, <2>1 DEF Seen
<1>5. CASE id \notin acked \ glued
  <2>1. Written(a) /\ id = own /\ ~IsTorn(old)
    BY <1>1, <1>2, <1>3, <1>5, AppendEnds DEF Written, Refused, CutShort
  <2>2. Content(day)' = LineOf(old, own)
    BY <1>1, <2>1, ContentAt DEF Written, Writes
  <2>3. Seen(LineOf(old, own), own)
    BY <1>2, <2>1, LinesWritten
  <2> QED
    BY <1>1, <1>2, <2>1, <2>2, <2>3 DEF Seen
<1> QED
  BY <1>4, <1>5

LEMMA Counts ==
  /\ StoreTyped => IsFiniteSet(glued) /\ IsFiniteSet(TornDays) /\ IsFiniteSet(Failed)
  /\ StoreTyped' => IsFiniteSet(TornDays') /\ IsFiniteSet(Failed')
<1>1. IsFiniteSet(Dates) /\ \A n \in Nat : IsFiniteSet(1..(n - 1))
  <2>1. \A n \in Nat : IsFiniteSet(1..(n - 1))
    <3> SUFFICES ASSUME NEW n \in Nat PROVE IsFiniteSet(1..(n - 1))
      OBVIOUS
    <3>1. 1 \in Int /\ n - 1 \in Int
      OBVIOUS
    <3> QED
      BY <3>1, FS_Interval
  <2>2. 1 \in Int /\ MaxDate \in Int
    BY Numbers
  <2> QED
    BY <2>1, <2>2, FS_Interval, Numbers
<1>2. ASSUME StoreTyped
      PROVE  IsFiniteSet(glued) /\ IsFiniteSet(TornDays) /\ IsFiniteSet(Failed)
  <2>1. nextRecord \in Nat /\ glued \subseteq 1..(nextRecord - 1)
        /\ TornDays \subseteq Dates /\ Failed \subseteq 1..(nextRecord - 1)
    BY <1>2 DEF StoreTyped, TornDays, Failed
  <2> QED
    BY <1>1, <2>1, FS_Subset
<1>3. ASSUME StoreTyped'
      PROVE  IsFiniteSet(TornDays') /\ IsFiniteSet(Failed')
  <2>1. nextRecord' \in Nat /\ TornDays' \subseteq Dates /\ Failed' \subseteq 1..(nextRecord' - 1)
    BY <1>3 DEF StoreTyped, TornDays, Failed
  <2> QED
    BY <1>1, <2>1, FS_Subset
<1> QED
  BY <1>2, <1>3

LEMMA CountsLess ==
  ASSUME NEW g, NEW h, NEW t, NEW u, NEW f, NEW k,
         IsFiniteSet(g), IsFiniteSet(t), IsFiniteSet(k),
         h = g, u \subseteq t, f \subseteq k,
         Cardinality(g) + Cardinality(t) <= Cardinality(f)
  PROVE  Cardinality(h) + Cardinality(u) <= Cardinality(k)
<1>1. IsFiniteSet(f) /\ IsFiniteSet(u) /\ Cardinality(u) <= Cardinality(t) /\ Cardinality(f) <= Cardinality(k)
  BY FS_Subset
<1>2. /\ Cardinality(g) \in Nat /\ Cardinality(t) \in Nat /\ Cardinality(u) \in Nat
      /\ Cardinality(f) \in Nat /\ Cardinality(k) \in Nat
  BY <1>1, FS_CardinalityType
<1> QED
  BY <1>1, <1>2

LEMMA CountsTorn ==
  ASSUME NEW g, NEW t, NEW u, NEW f, NEW d, NEW i,
         IsFiniteSet(g), IsFiniteSet(t), IsFiniteSet(f), IsFiniteSet(u),
         u \subseteq t \union {d}, i \notin f,
         Cardinality(g) + Cardinality(t) <= Cardinality(f)
  PROVE  Cardinality(g) + Cardinality(u) <= Cardinality(f \union {i})
<1>1. IsFiniteSet(t \union {d}) /\ Cardinality(t \union {d}) <= Cardinality(t) + 1
  <2>1. IsFiniteSet(t \union {d})
        /\ Cardinality(t \union {d}) = IF d \in t THEN Cardinality(t) ELSE Cardinality(t) + 1
    BY FS_AddElement
  <2>2. Cardinality(t) \in Nat
    BY FS_CardinalityType
  <2> QED
    BY <2>1, <2>2
<1>2. Cardinality(u) <= Cardinality(t \union {d})
  BY <1>1, FS_Subset
<1>3. Cardinality(f \union {i}) = Cardinality(f) + 1
  BY FS_AddElement
<1>4. /\ Cardinality(g) \in Nat /\ Cardinality(t) \in Nat /\ Cardinality(u) \in Nat
      /\ Cardinality(f) \in Nat /\ Cardinality(t \union {d}) \in Nat
  BY <1>1, FS_CardinalityType
<1> QED
  BY <1>1, <1>2, <1>3, <1>4

LEMMA CountsGlued ==
  ASSUME NEW g, NEW t, NEW u, NEW f, NEW k, NEW d \in t, NEW i,
         IsFiniteSet(g), IsFiniteSet(t), IsFiniteSet(k), i \notin g,
         u \subseteq t \ {d}, f \subseteq k,
         Cardinality(g) + Cardinality(t) <= Cardinality(f)
  PROVE  Cardinality(g \union {i}) + Cardinality(u) <= Cardinality(k)
<1>1. Cardinality(g \union {i}) = Cardinality(g) + 1
  BY FS_AddElement
<1>2. IsFiniteSet(t \ {d}) /\ Cardinality(t \ {d}) = Cardinality(t) - 1
  BY FS_RemoveElement
<1>3. IsFiniteSet(u) /\ Cardinality(u) <= Cardinality(t \ {d}) /\ Cardinality(f) <= Cardinality(k) /\ IsFiniteSet(f)
  BY <1>2, FS_Subset
<1>4. /\ Cardinality(g) \in Nat /\ Cardinality(t) \in Nat /\ Cardinality(u) \in Nat
      /\ Cardinality(f) \in Nat /\ Cardinality(k) \in Nat
  BY <1>2, <1>3, FS_CardinalityType
<1> QED
  BY <1>1, <1>2, <1>3, <1>4

LEMMA AppendCounted ==
  ASSUME StoreInv, NEW a \in Appenders, AppendRecord(a)
  PROVE  Counted'
<1>1. PICK own, day, old : own = appender[a] /\ day = record[own].day /\ old = Content(day)
  OBVIOUS
<1>2. /\ own \in Ids /\ own < nextRecord /\ own \notin acked /\ day \in Dates
      /\ \A b \in Appenders : appender[b] = own => b = a
      /\ \A b \in Appenders : appender'[b] = IF b = a THEN 0 ELSE appender[b]
      /\ UNCHANGED <<record, now, nextRecord>> /\ old \in Seq(Line)
  BY <1>1, AppendFacts, ContentTyped DEF StoreInv
<1>3. own \in 1..(nextRecord - 1) /\ own # 0
  BY <1>2, Numbers DEF StoreInv, StoreTyped
<1>4. own \notin Failed /\ own \notin glued
  BY <1>1, <1>2 DEF Failed, StoreInv, StoreTyped
<1>5. StoreTyped' /\ StoreTyped
  BY AppendTyped DEF StoreInv
<1>6. PICK g, t, f, u, k : g = glued /\ t = TornDays /\ f = Failed /\ u = TornDays' /\ k = Failed'
  OBVIOUS
<1>7. /\ IsFiniteSet(g) /\ IsFiniteSet(t) /\ IsFiniteSet(f) /\ IsFiniteSet(u) /\ IsFiniteSet(k)
  <2>1. IsFiniteSet(glued) /\ IsFiniteSet(TornDays) /\ IsFiniteSet(Failed)
    BY <1>5, Counts
  <2>2. IsFiniteSet(TornDays') /\ IsFiniteSet(Failed')
    BY <1>5, Counts
  <2> QED
    BY <1>6, <2>1, <2>2
<1>8. Cardinality(g) + Cardinality(t) <= Cardinality(f)
  BY <1>6 DEF StoreInv, Counted
<1>9. PICK h : h = glued'
  OBVIOUS
<1>10. /\ IsTorn(TornLine(old)) /\ ~IsTorn(LineOf(old, own)) /\ ~IsTorn(<<>>)
  BY <1>2, LinesWritten DEF IsTorn
<1>11. Cardinality(h) + Cardinality(u) <= Cardinality(k)
  <2>1. CASE Written(a)
    <3>1. /\ Writes(day, LineOf(old, own)) /\ acked' = acked \union {own}
          /\ h = IF IsTorn(old) THEN g \union {own} ELSE g
      BY <1>1, <1>6, <1>9, <2>1 DEF Written
    <3>2. k = f
      BY <1>1, <1>2, <1>3, <1>4, <1>6, <3>1 DEF Failed
    <3>3. u \subseteq t \ {day}
      BY <1>1, <1>6, <1>10, <3>1, ContentAt DEF TornDays, Writes
    <3>4. IsTorn(old) => day \in t
      BY <1>1, <1>2, <1>6 DEF TornDays
    <3>5. CASE IsTorn(old)
      BY <1>4, <1>6, <1>7, <1>8, <3>1, <3>2, <3>3, <3>4, <3>5, CountsGlued
    <3>6. CASE ~IsTorn(old)
      BY <1>7, <1>8, <3>1, <3>2, <3>3, <3>6, CountsLess
    <3> QED
      BY <3>5, <3>6
  <2>2. CASE Refused
    <3>1. h = g /\ u = t
      BY <1>6, <1>9, <2>2 DEF Refused, TornDays, Content
    <3>2. f \subseteq k
      BY <1>2, <1>3, <1>6, <2>2 DEF Refused, Failed
    <3> QED
      BY <1>7, <1>8, <3>1, <3>2, CountsLess
  <2>3. CASE CutShort(a)
    <3>1. Writes(day, TornLine(old)) /\ UNCHANGED <<acked, glued>>
      BY <1>1, <2>3 DEF CutShort
    <3>2. h = g /\ u \subseteq t \union {day}
      BY <1>1, <1>6, <1>9, <1>10, <3>1, ContentAt DEF TornDays, Writes
    <3>3. k = f \union {own} /\ own \notin f
      BY <1>1, <1>2, <1>3, <1>4, <1>6, <3>1 DEF Failed
    <3>4. Cardinality(g) + Cardinality(u) <= Cardinality(f \union {own})
      BY <1>7, <1>8, <3>2, <3>3, CountsTorn
    <3> QED
      BY <3>2, <3>3, <3>4
  <2> QED
    BY <2>1, <2>2, <2>3, AppendEnds
<1> QED
  BY <1>6, <1>9, <1>11 DEF Counted

LEMMA AppendStored ==
  ASSUME StoreInv, NEW a \in Appenders, AppendRecord(a)
  PROVE  StoreInv'
  BY AppendTyped, AppendFiled, AppendKept, AppendCounted DEF StoreInv

LEMMA JournalStarts == JournalInit => StoreInv /\ ReaderInv
<1> SUFFICES ASSUME JournalInit PROVE StoreInv /\ ReaderInv
  OBVIOUS
<1>1. /\ now = 1 /\ record = [i \in Ids |-> NoRecord] /\ nextRecord = 1
      /\ files = [d \in {} |-> <<>>] /\ opened = 0 /\ appender = [a \in Appenders |-> 0]
      /\ acked = {} /\ glued = {} /\ reader = NoReader
  BY DEF JournalInit
<1>2. NoRecord \in RecordState /\ NoRecord.day = 0 /\ NoRecord.started = 0
  BY Numbers DEF NoRecord, RecordState
<1>3. \A d : Content(d) = <<>>
  BY <1>1 DEF Content
<1>4. StoreTyped
  BY <1>1, <1>2, Numbers DEF StoreTyped
<1>5. InHand /\ Filed /\ Kept
  BY <1>1, <1>3 DEF InHand, Filed, Holds, Kept, Readable
<1>6. glued = {} /\ TornDays = {} /\ Failed = {}
  BY <1>1, <1>3 DEF TornDays, IsTorn, Failed
<1>7. Counted
  BY <1>6, FS_EmptySet DEF Counted
<1>8. ReaderInv
  BY <1>1, EmptySeq DEF ReaderInv, NoReader, ReaderState
<1> QED
  BY <1>4, <1>5, <1>7, <1>8 DEF StoreInv

LEMMA DateStored ==
  ASSUME StoreInv, DateChanges
  PROVE  StoreInv'
<1>1. /\ now < MaxDate /\ now' = now + 1
      /\ UNCHANGED <<record, nextRecord, files, opened, appender, acked, glued>>
  BY DEF DateChanges, store
<1>2. now \in Nat /\ now' \in Dates /\ \A i \in Ids : record[i].day \in Nat /\ record[i].day <= now
  <2>1. now \in 1..MaxDate /\ MaxDate \in Nat
    BY Numbers DEF StoreInv, StoreTyped
  <2>2. now' \in Dates
    BY <1>1, <2>1, Numbers
  <2>3. \A i \in Ids : record[i].day \in 0..MaxDate /\ record[i].day <= now
    BY DEF StoreInv, StoreTyped, RecordState
  <2> QED
    BY <2>1, <2>2, <2>3
<1>3. \A i \in Ids : record[i].day <= now'
  BY <1>1, <1>2
<1>4. StoreTyped'
  BY <1>1, <1>2, <1>3 DEF StoreInv, StoreTyped
<1>5. InHand' /\ Filed'
  BY <1>1 DEF StoreInv, InHand, Filed, Holds, Content
<1>6. Counted'
  <2>1. TornDays' = TornDays /\ Failed' = Failed
    BY <1>1 DEF TornDays, Content, Failed
  <2> QED
    BY <1>1, <2>1 DEF StoreInv, Counted
<1>7. Kept'
  <2>1. Readable' \subseteq Readable
    <3>1. acked \subseteq Ids
      BY Numbers DEF StoreInv, StoreTyped
    <3>2. \A x, n \in Nat : x > (n + 1) - KeepDays => x > n - KeepDays
      BY Numbers
    <3> QED
      BY <1>1, <1>2, <3>1, <3>2 DEF Readable
  <2> QED
    BY <1>1, <2>1 DEF StoreInv, Kept, Content, Seen
<1> QED
  BY <1>4, <1>5, <1>6, <1>7 DEF StoreInv

LEMMA StampFacts ==
  ASSUME StoreInv, NEW a \in Appenders, Stamp(a)
  PROVE  /\ nextRecord \in Ids /\ nextRecord' = nextRecord + 1
         /\ record' \in [Ids -> RecordState] /\ record'[nextRecord].day = now
         /\ record'[nextRecord].started <= now
         /\ \A i \in Ids : i # nextRecord => record'[i] = record[i]
         /\ appender[a] = 0 /\ appender' = [appender EXCEPT ![a] = nextRecord]
         /\ UNCHANGED <<now, files, opened, acked, glued, reader>>
<1>1. /\ nextRecord \in Ids /\ nextRecord' = nextRecord + 1 /\ appender[a] = 0
      /\ appender' = [appender EXCEPT ![a] = nextRecord]
      /\ UNCHANGED <<now, files, opened, acked, glued, reader>>
  BY DEF Stamp
<1>2. PICK name \in Names, started \in {1, now} :
        record' = [record EXCEPT ![nextRecord] = [started |-> started, day |-> now, name |-> name]]
  BY DEF Stamp
<1>3. now \in Dates /\ record \in [Ids -> RecordState]
  BY DEF StoreInv, StoreTyped
<1>4. started \in 0..MaxDate /\ now \in 0..MaxDate /\ started <= now
  BY <1>3, Numbers
<1>5. [started |-> started, day |-> now, name |-> name] \in RecordState
  BY <1>4 DEF RecordState
<1> QED
  BY <1>1, <1>2, <1>3, <1>4, <1>5

LEMMA StampStored ==
  ASSUME StoreInv, NEW a \in Appenders, Stamp(a)
  PROVE  StoreInv'
<1>1. /\ nextRecord \in Ids /\ nextRecord' = nextRecord + 1
      /\ record' \in [Ids -> RecordState] /\ record'[nextRecord].day = now
      /\ record'[nextRecord].started <= now
      /\ \A i \in Ids : i # nextRecord => record'[i] = record[i]
      /\ appender[a] = 0 /\ appender' = [appender EXCEPT ![a] = nextRecord]
      /\ UNCHANGED <<now, files, opened, acked, glued>>
  BY StampFacts
<1>2. StoreTyped /\ InHand
  BY DEF StoreInv
<1>3. /\ nextRecord \in Nat /\ nextRecord <= MaxRecord /\ now \in Dates /\ now \in Nat
      /\ \A i \in acked : i \in Ids /\ i # nextRecord /\ i < nextRecord
      /\ \A b \in Appenders : appender[b] \in Nat /\ appender[b] <= MaxRecord
      /\ \A b \in Appenders : appender'[b] = IF b = a THEN nextRecord ELSE appender[b]
  BY <1>1, <1>2, Numbers DEF StoreTyped
<1>4. \A i \in acked : record'[i] = record[i]
  BY <1>1, <1>3
<1>5. StoreTyped'
  <2>1. nextRecord' \in 1..(MaxRecord + 1) /\ acked' \subseteq 1..(nextRecord' - 1) /\ glued' \subseteq acked'
    BY <1>1, <1>2, <1>3, Numbers DEF StoreTyped
  <2>2. \A i \in Ids : record'[i].day <= now' /\ record'[i].started <= record'[i].day
    BY <1>1, <1>2, <1>3, Numbers DEF StoreTyped
  <2>3. \A i \in Ids : i < nextRecord' => record'[i].day \in Dates
    BY <1>1, <1>2, <1>3, Numbers DEF StoreTyped
  <2>4. appender' \in [Appenders -> 0..MaxRecord]
    BY <1>1, <1>2, <1>3, Numbers DEF StoreTyped
  <2> QED
    BY <1>1, <1>2, <2>1, <2>2, <2>3, <2>4 DEF StoreTyped
<1>6. InHand'
  BY <1>1, <1>2, <1>3 DEF InHand
<1>7. Filed'
  BY <1>1, <1>4 DEF StoreInv, Filed, Holds, Content
<1>8. Kept'
  <2>1. Readable' \subseteq Readable /\ Readable' \subseteq acked
    BY <1>1, <1>4 DEF Readable
  <2> QED
    BY <1>1, <1>4, <2>1 DEF StoreInv, Kept, Content, Seen
<1>9. Counted'
  <2>1. PICK g, t, f, k : g = glued /\ t = TornDays /\ f = Failed /\ k = Failed'
    OBVIOUS
  <2>2. glued' = g /\ TornDays' = t
    BY <1>1, <2>1 DEF TornDays, Content
  <2>3. f \subseteq k
    BY <1>1, <1>3, <2>1 DEF Failed
  <2>4. IsFiniteSet(g) /\ IsFiniteSet(t) /\ IsFiniteSet(k)
    BY <1>2, <1>5, <2>1, Counts
  <2>5. Cardinality(g) + Cardinality(t) <= Cardinality(f)
    BY <2>1 DEF StoreInv, Counted
  <2>6. Cardinality(g) + Cardinality(t) <= Cardinality(k)
    BY <2>3, <2>4, <2>5, CountsLess
  <2> QED
    BY <2>1, <2>2, <2>6 DEF Counted
<1> QED
  BY <1>5, <1>6, <1>7, <1>8, <1>9 DEF StoreInv

LEMMA RestartStored ==
  ASSUME StoreInv, Restart
  PROVE  StoreInv'
<1>1. /\ opened' = 0 /\ appender' = [a \in Appenders |-> 0]
      /\ UNCHANGED <<now, record, nextRecord, acked, glued, reader>>
  BY DEF Restart
<1>2. /\ DaysTyped(files')
      /\ \A d \in Dates : Content(d)' \in {Content(d), <<>>}
      /\ \A d \in Dates : KeepDays = 0 \/ d > now - KeepDays => Content(d)' = Content(d)
  BY RestartFiles
<1>3. StoreTyped'
  BY <1>1, <1>2, Numbers DEF StoreInv, StoreTyped, DaysTyped
<1>4. InHand'
  BY <1>1 DEF InHand
<1>5. Filed'
  BY <1>1, <1>2 DEF StoreInv, Filed, Holds
<1>6. Kept'
  <2> SUFFICES ASSUME NEW id \in Readable' PROVE Seen(Content(record[id].day), id)'
    BY DEF Kept
  <2>1. id \in Readable /\ record[id].day > now - KeepDays /\ id \in acked
    BY <1>1 DEF Readable
  <2>2. PICK d : d = record[id].day
    OBVIOUS
  <2>3. d \in Dates
    BY <2>1, <2>2, Numbers DEF StoreInv, StoreTyped
  <2>4. Content(d)' = Content(d) /\ Seen(Content(d), id)
    BY <1>2, <2>1, <2>2, <2>3 DEF StoreInv, Kept
  <2> QED
    BY <1>1, <2>2, <2>4 DEF Seen
<1>7. Counted'
  <2>1. PICK g, t, f, u, k : g = glued /\ t = TornDays /\ f = Failed /\ u = TornDays' /\ k = Failed'
    OBVIOUS
  <2>2. glued' = g /\ u \subseteq t
    BY <1>1, <1>2, <2>1, NothingHeld DEF TornDays
  <2>3. f \subseteq k
    BY <1>1, <2>1, Numbers DEF Failed
  <2>4. IsFiniteSet(g) /\ IsFiniteSet(t) /\ IsFiniteSet(k)
    BY <1>3, <2>1, Counts DEF StoreInv
  <2>5. Cardinality(g) + Cardinality(t) <= Cardinality(f)
    BY <2>1 DEF StoreInv, Counted
  <2>6. Cardinality(g) + Cardinality(u) <= Cardinality(k)
    BY <2>2, <2>3, <2>4, <2>5, CountsLess
  <2> QED
    BY <2>1, <2>2, <2>6 DEF Counted
<1> QED
  BY <1>3, <1>4, <1>5, <1>6, <1>7 DEF StoreInv

LEMMA ReadingStored ==
  ASSUME StoreInv, UNCHANGED <<now, store>>
  PROVE  StoreInv'
  BY DEF StoreInv, store, StoreTyped, InHand, Filed, Holds, Content, Kept, Readable, Seen,
         Counted, TornDays, Failed

-----------------------------------------------------------------------------
(* What a query reads.                                                      *)

LEMMA PlacesAre ==
  ASSUME NEW d, NEW keep
  PROVE  \A q \in Places(d, keep) :
           /\ q[1] = d /\ q[2] \in DOMAIN Content(d) /\ Content(d)[q[2]] \in keep
           /\ q = <<d, q[2]>>
  BY DEF Places

LEMMA PlacesFinite ==
  ASSUME StoreInv, NEW d \in Dates, NEW keep
  PROVE  IsFiniteSet(Places(d, keep)) /\ Places(d, keep) \subseteq Nat \X Nat
<1>1. Content(d) \in Seq(Line) /\ d \in Nat
  BY ContentTyped, Numbers DEF StoreInv
<1>2. PICK S : S = {i \in DOMAIN Content(d) : i > Len(Content(d)) - MaxTail /\ Content(d)[i] \in keep}
  OBVIOUS
<1>3. Len(Content(d)) \in Nat /\ DOMAIN Content(d) = 1..Len(Content(d))
  BY <1>1
<1>4. S \subseteq 1..Len(Content(d)) /\ S \subseteq Nat
  BY <1>2, <1>3
<1>5. IsFiniteSet(S) /\ IsFiniteSet({d})
  <2>1. 1 \in Int /\ Len(Content(d)) \in Int
    BY <1>3
  <2>2. IsFiniteSet(1..Len(Content(d)))
    BY <2>1, FS_Interval
  <2> QED
    BY <1>4, <2>2, FS_Subset, FS_Singleton
<1>6. Places(d, keep) = {d} \X S
  BY <1>2 DEF Places
<1>7. IsFiniteSet({d} \X S)
  BY <1>5, FS_Product
<1> QED
  BY <1>1, <1>4, <1>6, <1>7

(* Records of one day that are kept, each once, up to a limit, and unless   *)
(* there are that many, all that a file read to its end has.                *)
Answers(s, d, keep, limit) ==
  /\ s \in Seq(Ids) /\ Len(s) <= limit /\ DOMAIN s = 1..Len(s) /\ Len(s) \in Nat
  /\ \A i \in DOMAIN s : s[i] \in keep /\ s[i] \in acked /\ record[s[i]].day = d
  /\ \A i, j \in DOMAIN s : s[i] = s[j] => i = j
  /\ Len(s) < limit /\ Len(Content(d)) <= MaxTail =>
       \A id \in keep : Seen(Content(d), id) => Seen(s, id)

LEMMA ScanFileReads ==
  ASSUME StoreInv, NEW d \in Dates, NEW keep \in SUBSET Ids, NEW limit \in Nat
  PROVE  Answers(ScanFile(d, keep, limit), d, keep, limit)
<1>0. PICK s : s = ScanFile(d, keep, limit)
  OBVIOUS
<1>1. PICK places : places = Places(d, keep)
  OBVIOUS
<1>2. IsFiniteSet(places) /\ places \subseteq Nat \X Nat /\ s = NewestFirst(places, limit)
  BY <1>0, <1>1, PlacesFinite DEF ScanFile
<1>3. Picks(s, places, limit)
  <2>1. Picks(NewestFirst(places, limit), places, limit)
    BY <1>2, NewestPick
  <2> QED
    BY <1>2, <2>1
<1>4. PICK n \in Nat : n <= limit /\ DOMAIN s = 1..n /\ s = [i \in 1..n |-> s[i]]
                       /\ (n < limit => Cardinality(places) <= limit)
  BY <1>3 DEF Picks
<1>5. PICK p : /\ Lines(places, p, s)
               /\ \A m, k \in DOMAIN s : p[m] = p[k] => m = k
               /\ Cardinality(places) <= limit => \A q \in places : \E k \in DOMAIN s : p[k] = q
  BY <1>3 DEF Picks
<1>6. PICK lines : lines = Content(d)
  OBVIOUS
<1>7. \A i \in DOMAIN s : /\ p[i] \in places /\ p[i] = <<d, p[i][2]>>
                          /\ p[i][2] \in DOMAIN lines /\ s[i] = lines[p[i][2]] /\ s[i] \in keep
  BY <1>1, <1>5, <1>6, PlacesAre DEF Lines
<1>8. \A j \in DOMAIN lines : lines[j] \in Ids =>
        /\ lines[j] \in acked \ glued /\ record[lines[j]].day = d
        /\ \A i \in DOMAIN lines : lines[i] = lines[j] => i = j
  BY <1>6 DEF StoreInv, Filed, Holds
<1>9. s \in Seq(Ids) /\ Len(s) = n
  <2>1. \A i \in 1..n : s[i] \in Ids
    BY <1>4, <1>7
  <2> QED
    BY <1>4, <2>1, IsASeq
<1>10. \A i \in DOMAIN s : s[i] \in keep /\ s[i] \in acked /\ record[s[i]].day = d
  BY <1>7, <1>8
<1>11. \A i, j \in DOMAIN s : s[i] = s[j] => i = j
  <2> SUFFICES ASSUME NEW i \in DOMAIN s, NEW j \in DOMAIN s, s[i] = s[j] PROVE i = j
    OBVIOUS
  <2>1. p[i][2] = p[j][2]
    BY <1>7, <1>8
  <2>2. p[i] = p[j]
    BY <1>7, <2>1
  <2> QED
    BY <1>5, <2>2
<1>12. ASSUME Len(s) < limit, Len(lines) <= MaxTail, NEW id \in keep, Seen(lines, id)
       PROVE  Seen(s, id)
  <2>1. PICK j \in DOMAIN lines : lines[j] = id
    BY <1>12 DEF Seen
  <2>2. lines \in Seq(Line)
    BY <1>6, ContentTyped DEF StoreInv
  <2>3. Len(lines) \in Nat /\ j \in Nat /\ j >= 1
    BY <2>1, <2>2
  <2>4. j > Len(lines) - MaxTail
    BY <1>12, <2>3, Numbers
  <2>5. <<d, j>> \in places
    BY <1>1, <1>6, <2>1, <2>4, <1>12 DEF Places
  <2>6. PICK k \in DOMAIN s : p[k] = <<d, j>>
    BY <1>4, <1>5, <1>9, <1>12, <2>5
  <2>7. s[k] = id
    BY <1>7, <2>1, <2>6
  <2> QED
    BY <2>7 DEF Seen
<1>13. Answers(s, d, keep, limit)
  BY <1>4, <1>6, <1>9, <1>10, <1>11, <1>12 DEF Answers
<1> QED
  BY <1>0, <1>13

(* The world moves on under a reader that does not.                         *)
World ==
  /\ UNCHANGED reader
  /\ \A id \in acked : id \in Ids /\ record'[id] = record[id] /\ record[id].day \in Dates
  /\ acked \subseteq acked' /\ acked \ glued \subseteq acked' \ glued'
  /\ \A id \in Readable' \intersect (acked \ glued) :
       /\ id \in Readable
       /\ \A d \in Dates : d = record[id].day => Len(Content(d)) <= Len(Content(d)')

LEMMA WorldReads ==
  ASSUME StoreInv, StoreInv', ReaderInv, World
  PROVE  ReaderInv'
<1>1. PICK r : r = reader
  OBVIOUS
<1>2. reader' = r /\ r \in ReaderState
  BY <1>1 DEF World, ReaderInv
<1> SUFFICES ASSUME r.pc # "idle" PROVE ReaderInv'
  BY <1>2 DEF ReaderInv
<1>3. /\ Len(r.out) <= r.limit
      /\ \A i \in DOMAIN r.out : r.out[i] \in acked /\ \A d \in r.todo : record[r.out[i]].day > d
      /\ \A i, j \in DOMAIN r.out : i < j =>
           r.out[i] # r.out[j] /\ record[r.out[i]].day >= record[r.out[j]].day
      /\ r.sure \subseteq (acked \ glued) \intersect Matching(r.name)
      /\ r.pc = "answered" => r.todo = {} \/ Len(r.out) >= r.limit
  BY <1>1 DEF ReaderInv
<1>4. /\ \A i \in DOMAIN r.out : /\ r.out[i] \in acked'
                                 /\ \A d \in r.todo : record'[r.out[i]].day > d
      /\ \A i, j \in DOMAIN r.out : i < j =>
           r.out[i] # r.out[j] /\ record'[r.out[i]].day >= record'[r.out[j]].day
  BY <1>3 DEF World
<1>5. r.sure \subseteq (acked' \ glued') \intersect Matching(r.name)'
  BY <1>3 DEF World, Matching
<1>6. ASSUME Len(r.out) < r.limit, NEW id \in r.sure \intersect Readable', NEW d \in Dates,
             d = record'[id].day, Len(Content(d)') <= MaxTail
      PROVE  d \in r.todo \/ Seen(r.out, id)
  <2>1. id \in acked \ glued
    BY <1>3
  <2>2. id \in Readable /\ d = record[id].day /\ Len(Content(d)) <= Len(Content(d)')
    BY <1>6, <2>1 DEF World
  <2>3. Content(d) \in Seq(Line)
    BY ContentTyped DEF StoreInv
  <2>4. Content(d)' \in Seq(Line)
    BY EmptySeq DEF StoreInv, StoreTyped, Content, Line
  <2>5. Len(Content(d)) <= MaxTail
    BY <1>6, <2>2, <2>3, <2>4, Numbers
  <2> QED
    BY <1>1, <1>6, <2>2, <2>5 DEF ReaderInv
<1>7. \A id \in r.sure : record'[id].day \in Dates
  BY <1>3 DEF World
<1>8. Len(r.out) < r.limit =>
        \A id \in r.sure \intersect Readable' :
          Len(Content(record[id].day)') <= MaxTail => record'[id].day \in r.todo \/ Seen(r.out, id)
  <2> SUFFICES ASSUME Len(r.out) < r.limit, NEW id \in r.sure \intersect Readable',
                      Len(Content(record[id].day)') <= MaxTail
               PROVE  record'[id].day \in r.todo \/ Seen(r.out, id)
    OBVIOUS
  <2>1. PICK d \in Dates : d = record'[id].day
    BY <1>7
  <2>2. Len(Content(d)') <= MaxTail
    BY <2>1
  <2> QED
    BY <1>6, <2>1, <2>2
<1> QED
  BY <1>2, <1>3, <1>4, <1>5, <1>8 DEF ReaderInv, Seen

LEMMA AckedTyped ==
  ASSUME StoreInv
  PROVE  \A id \in acked : id \in Ids /\ id < nextRecord /\ record[id].day \in Dates
<1>1. \A id \in acked : id \in 1..(nextRecord - 1) /\ nextRecord \in 1..(MaxRecord + 1)
  BY DEF StoreInv, StoreTyped
<1>2. \A id \in acked : id \in Ids /\ id < nextRecord
  BY <1>1, Numbers
<1> QED
  BY <1>2 DEF StoreInv, StoreTyped

LEMMA SameLength == ASSUME StoreInv PROVE \A d : Len(Content(d)) <= Len(Content(d))
<1>1. \A d : Len(Content(d)) \in Nat
  BY ContentTyped DEF StoreInv
<1>2. \A n \in Nat : n <= n
  OBVIOUS
<1> QED
  BY <1>1, <1>2

LEMMA WorldMoves ==
  ASSUME StoreInv, \/ DateChanges \/ Restart \/ \E a \in Appenders : Stamp(a) \/ AppendRecord(a)
  PROVE  World
<1>1. CASE DateChanges
  <2>1. UNCHANGED <<record, acked, glued, files, reader>> /\ now' = now + 1
    BY <1>1 DEF DateChanges, store
  <2>2. \A x, n \in Nat : x > (n + 1) - KeepDays => x > n - KeepDays
    BY Numbers
  <2>3. now \in Nat /\ \A id \in acked : record[id].day \in Nat
    BY AckedTyped, Numbers DEF StoreInv, StoreTyped
  <2>4. Readable' \subseteq Readable
    BY <2>1, <2>2, <2>3 DEF Readable
  <2>5. \A d : Content(d)' = Content(d)
    BY <2>1 DEF Content
  <2> QED
    BY <2>1, <2>4, <2>5, AckedTyped, SameLength DEF World
<1>2. CASE Restart
  <2>1. UNCHANGED <<record, now, acked, glued, reader>>
    BY <1>2 DEF Restart
  <2>2. Readable' = Readable /\ \A id \in Readable : record[id].day > now - KeepDays
    BY <2>1 DEF Readable
  <2>3. \A d \in Dates : KeepDays = 0 \/ d > now - KeepDays => Content(d)' = Content(d)
    BY <1>2, RestartFiles
  <2>4. \A id \in Readable : \A d \in Dates : d = record[id].day => Len(Content(d)) <= Len(Content(d)')
    BY <2>2, <2>3, SameLength
  <2> QED
    BY <2>1, <2>2, <2>4, AckedTyped DEF World
<1>3. ASSUME NEW a \in Appenders, Stamp(a) PROVE World
  <2>1. /\ UNCHANGED <<now, files, acked, glued, reader>>
        /\ \A i \in Ids : i # nextRecord => record'[i] = record[i]
    BY <1>3, StampFacts
  <2>2. \A id \in acked : id \in Ids /\ record[id].day \in Dates /\ record'[id] = record[id]
    <3>1. nextRecord \in Nat
      BY DEF StoreInv, StoreTyped
    <3>2. \A id \in acked : id \in Nat /\ id < nextRecord
      BY AckedTyped, Numbers
    <3>3. \A id \in acked : id # nextRecord
      BY <3>1, <3>2
    <3> QED
      BY <2>1, <3>3, AckedTyped
  <2>3. Readable' \subseteq Readable
    BY <2>1, <2>2 DEF Readable
  <2>4. \A d : Content(d)' = Content(d)
    BY <2>1 DEF Content
  <2> QED
    BY <2>1, <2>2, <2>3, <2>4, SameLength DEF World
<1>4. ASSUME NEW a \in Appenders, AppendRecord(a) PROVE World
  <2>1. UNCHANGED <<record, now, reader>>
    BY <1>4, AppendFacts
  <2>2. acked \subseteq acked' /\ acked \ glued \subseteq acked' \ glued'
    <3>1. acked \ glued \subseteq acked' \ glued'
      BY <1>4, AppendTyped
    <3>2. acked \subseteq acked'
      BY <1>4, AppendEnds DEF Written, Refused, CutShort
    <3> QED
      BY <3>1, <3>2
  <2>3. ASSUME NEW id \in Readable' \intersect (acked \ glued)
        PROVE  /\ id \in Readable
               /\ \A d \in Dates : d = record[id].day => Len(Content(d)) <= Len(Content(d)')
    <3>1. id \in Readable /\ Len(Content(record[id].day)) <= Len(Content(record[id].day)')
      BY <1>4, <2>3, AppendLeaves
    <3>2. PICK d : d = record[id].day
      OBVIOUS
    <3>3. record'[id].day = d
      BY <2>1, <3>2
    <3>4. Len(Content(d)) <= Len(Content(d)')
      BY <3>1, <3>2, <3>3
    <3> QED
      BY <3>1, <3>2, <3>4
  <2> QED
    BY <2>1, <2>2, <2>3, AckedTyped DEF World
<1> QED
  BY <1>1, <1>2, <1>3, <1>4

(* What the invariant of a reader says of any reader state.                 *)
Reads(r) ==
  /\ Len(r.out) <= r.limit
  /\ \A i \in DOMAIN r.out :
       /\ r.out[i] \in acked
       /\ \A d \in r.todo : record[r.out[i]].day > d
  /\ \A i, j \in DOMAIN r.out : i < j =>
       r.out[i] # r.out[j] /\ record[r.out[i]].day >= record[r.out[j]].day
  /\ r.sure \subseteq (acked \ glued) \intersect Matching(r.name)
  /\ Len(r.out) < r.limit =>
       \A id \in r.sure \intersect Readable :
         Len(Content(record[id].day)) <= MaxTail =>
           record[id].day \in r.todo \/ Seen(r.out, id)
  /\ r.pc = "answered" => r.todo = {} \/ Len(r.out) >= r.limit

LEMMA ReaderMoves ==
  ASSUME UNCHANGED <<now, store>>, NEW r \in ReaderState, reader' = r, Reads(r)
  PROVE  ReaderInv'
  BY DEF ReaderInv, Reads, store, Readable, Matching, Content

LEMMA NothingSeen ==
  Len(<<>>) = 0 /\ DOMAIN <<>> = {} /\ (\A n \in Nat : Len(<<>>) <= n) /\ \A id : ~Seen(<<>>, id)
<1>1. Len(<<>>) = 0 /\ DOMAIN <<>> = {}
  OBVIOUS
<1>2. \A n \in Nat : 0 <= n
  OBVIOUS
<1>3. \A id : ~Seen(<<>>, id)
  BY <1>1 DEF Seen
<1> QED
  BY <1>1, <1>2, <1>3

LEMMA QueryReads ==
  ASSUME StoreInv, Query
  PROVE  ReaderInv'
<1>1. PICK name \in Names \union {""}, limit \in Limits :
        reader' = [pc |-> "scan", name |-> name, limit |-> limit, out |-> <<>>,
                   todo |-> DOMAIN files, sure |-> Readable \intersect Matching(name)]
  BY DEF Query
<1>2. PICK r : r = [pc |-> "scan", name |-> name, limit |-> limit, out |-> <<>>,
                    todo |-> DOMAIN files, sure |-> Readable \intersect Matching(name)]
  OBVIOUS
<1>3. /\ DOMAIN files \subseteq Dates /\ Matching(name) \subseteq Ids /\ limit \in Nat
      /\ Readable \subseteq acked \ glued
  BY Numbers DEF StoreInv, StoreTyped, Matching, Readable
<1>4. r \in ReaderState
  BY <1>2, <1>3, EmptySeq DEF ReaderState
<1>5. \A id \in Readable : record[id].day \in DOMAIN files
  <2> SUFFICES ASSUME NEW id \in Readable, record[id].day \notin DOMAIN files PROVE FALSE
    OBVIOUS
  <2>1. Seen(Content(record[id].day), id)
    BY DEF StoreInv, Kept
  <2>2. Content(record[id].day) = <<>>
    BY DEF Content
  <2> QED
    BY <2>1, <2>2, NothingSeen
<1>6. Len(<<>>) = 0 /\ DOMAIN <<>> = {} /\ Len(<<>>) <= limit
  BY <1>3, NothingSeen
<1>7. Reads(r)
  BY <1>2, <1>3, <1>5, <1>6 DEF Reads
<1> QED
  BY <1>1, <1>2, <1>4, <1>7, ReaderMoves DEF Query

LEMMA AnswerReads ==
  ASSUME StoreInv, ReaderInv, Answer
  PROVE  ReaderInv'
<1>1. PICK r : r = [reader EXCEPT !.pc = "answered"]
  OBVIOUS
<1>2. reader.pc # "idle" /\ reader \in ReaderState /\ (reader.todo = {} \/ Len(reader.out) >= reader.limit)
  BY DEF ReaderInv, Answer
<1>3. /\ r \in ReaderState /\ r.out = reader.out /\ r.limit = reader.limit /\ r.todo = reader.todo
      /\ r.sure = reader.sure /\ r.name = reader.name
  BY <1>1, <1>2 DEF ReaderState
<1>4. Reads(r)
  BY <1>2, <1>3 DEF ReaderInv, Reads
<1> QED
  BY <1>1, <1>3, <1>4, ReaderMoves DEF Answer

LEMMA QueryFileReads ==
  ASSUME StoreInv, ReaderInv, QueryFile
  PROVE  ReaderInv'
<1>1. PICK r, d, keep, s : /\ r = reader /\ d = CHOOSE e \in r.todo : \A f \in r.todo : e >= f
                           /\ keep = Matching(r.name) /\ s = ScanFile(d, keep, r.limit - Len(r.out))
  OBVIOUS
<1>2. /\ r \in ReaderState /\ Reads(r) /\ r.pc = "scan" /\ r.todo # {} /\ Len(r.out) < r.limit
      /\ reader' = [r EXCEPT !.todo = @ \ {d}, !.out = @ \o s]
  BY <1>1 DEF QueryFile, ReaderInv, Reads
<1>3. /\ r.todo \subseteq Dates /\ r.out \in Seq(Ids) /\ r.limit \in Nat /\ r.sure \subseteq Ids
  BY <1>2 DEF ReaderState
<1>4. d \in r.todo /\ \A f \in r.todo : d >= f
  <2>1. r.todo \subseteq 0..MaxDate /\ MaxDate \in Nat
    BY <1>3, Numbers
  <2>2. \E e \in r.todo : \A f \in r.todo : e >= f
    BY <1>2, <2>1, GreatestOf
  <2> QED
    BY <1>1, <2>2
<1>5. /\ d \in Dates /\ keep \in SUBSET Ids /\ Len(r.out) \in Nat /\ r.limit - Len(r.out) \in Nat
      /\ DOMAIN r.out = 1..Len(r.out)
  <2>1. Len(r.out) \in Nat /\ DOMAIN r.out = 1..Len(r.out)
    BY <1>3
  <2>2. r.limit - Len(r.out) \in Nat
    BY <1>2, <1>3, <2>1
  <2> QED
    BY <1>1, <1>3, <1>4, <2>1, <2>2 DEF Matching
<1>6. PICK m \in Nat : m = r.limit - Len(r.out)
  BY <1>5
<1>7. /\ s \in Seq(Ids) /\ Len(s) <= m /\ DOMAIN s = 1..Len(s) /\ Len(s) \in Nat
      /\ \A i \in DOMAIN s : s[i] \in keep /\ s[i] \in acked /\ record[s[i]].day = d
      /\ \A i, j \in DOMAIN s : s[i] = s[j] => i = j
      /\ Len(s) < m /\ Len(Content(d)) <= MaxTail =>
           \A id \in keep : Seen(Content(d), id) => Seen(s, id)
  <2>1. Answers(s, d, keep, m)
    <3>1. d \in Dates /\ keep \in SUBSET Ids /\ m \in Nat
      BY <1>5
    <3>2. Answers(ScanFile(d, keep, m), d, keep, m)
      BY <3>1, ScanFileReads
    <3>3. s = ScanFile(d, keep, m)
      BY <1>1, <1>6
    <3> QED
      BY <3>2, <3>3
  <2> QED
    BY <2>1 DEF Answers
<1>8. PICK out : out = r.out \o s
  OBVIOUS
<1>9. /\ out \in Seq(Ids) /\ Len(out) = Len(r.out) + Len(s) /\ DOMAIN out = 1..(Len(r.out) + Len(s))
      /\ \A i \in 1..Len(r.out) : out[i] = r.out[i]
      /\ \A i \in 1..Len(s) : out[Len(r.out) + i] = s[i]
  BY <1>3, <1>7, <1>8, ConcatProperties
<1>10. \A i \in DOMAIN out : \/ i \in DOMAIN r.out /\ out[i] = r.out[i]
                             \/ \E k \in DOMAIN s : i = Len(r.out) + k /\ out[i] = s[k]
  <2> SUFFICES ASSUME NEW i \in DOMAIN out, i \notin DOMAIN r.out
               PROVE  \E k \in DOMAIN s : i = Len(r.out) + k /\ out[i] = s[k]
    BY <1>5, <1>9
  <2>1. i - Len(r.out) \in 1..Len(s) /\ i = Len(r.out) + (i - Len(r.out))
    BY <1>5, <1>7, <1>9
  <2> QED
    BY <1>7, <1>9, <2>1
<1>11. PICK q : q = [r EXCEPT !.todo = @ \ {d}, !.out = @ \o s]
  OBVIOUS
<1>12. /\ q \in ReaderState /\ q.out = out /\ q.todo = r.todo \ {d} /\ q.limit = r.limit
       /\ q.name = r.name /\ q.sure = r.sure /\ q.pc = "scan" /\ reader' = q
  BY <1>2, <1>8, <1>9, <1>11 DEF ReaderState
<1>13. Len(out) <= r.limit /\ (Len(out) < r.limit => Len(s) < m)
  BY <1>3, <1>5, <1>6, <1>7, <1>9
<1>14. \A i \in DOMAIN out :
         /\ out[i] \in acked
         /\ \A e \in r.todo \ {d} : record[out[i]].day > e
  <2>1. \A e \in r.todo \ {d} : d > e
    BY <1>3, <1>4, Numbers
  <2> QED
    BY <1>2, <1>7, <1>10, <2>1 DEF Reads
<1>15. \A i, j \in DOMAIN out : i < j =>
         out[i] # out[j] /\ record[out[i]].day >= record[out[j]].day
  <2> SUFFICES ASSUME NEW i \in DOMAIN out, NEW j \in DOMAIN out, i < j
               PROVE  out[i] # out[j] /\ record[out[i]].day >= record[out[j]].day
    OBVIOUS
  <2>1. CASE i \in DOMAIN r.out /\ j \in DOMAIN r.out
    BY <1>2, <1>5, <1>9, <2>1 DEF Reads
  <2>2. CASE i \in DOMAIN r.out /\ j \notin DOMAIN r.out
    <3>1. record[out[i]].day > d /\ record[out[j]].day = d
      BY <1>2, <1>4, <1>5, <1>7, <1>9, <1>10, <2>2 DEF Reads
    <3>2. record[out[i]].day \in Nat /\ d \in Nat
      BY <1>5, <1>14, AckedTyped, Numbers
    <3> QED
      BY <3>1, <3>2
  <2>3. CASE i \notin DOMAIN r.out
    <3>1. PICK k \in DOMAIN s : i = Len(r.out) + k /\ out[i] = s[k]
      BY <1>10, <2>3
    <3>2. j \notin DOMAIN r.out
      BY <1>5, <1>9, <2>3
    <3>3. PICK l \in DOMAIN s : j = Len(r.out) + l /\ out[j] = s[l]
      BY <1>10, <3>2
    <3>4. k # l
      <4>1. i # j
        BY <1>9
      <4> QED
        BY <3>1, <3>3, <4>1
    <3>5. out[i] # out[j] /\ record[out[i]].day = d /\ record[out[j]].day = d
      BY <1>7, <3>1, <3>3, <3>4
    <3>6. d >= d
      BY <1>5, Numbers
    <3> QED
      BY <3>5, <3>6
  <2> QED
    BY <2>1, <2>2, <2>3
<1>16. ASSUME Len(out) < r.limit, NEW id \in r.sure \intersect Readable,
              Len(Content(record[id].day)) <= MaxTail
       PROVE  record[id].day \in r.todo \ {d} \/ Seen(out, id)
  <2>1. record[id].day \in r.todo \/ Seen(r.out, id)
    <3>1. Len(r.out) < r.limit
      BY <1>2
    <3> QED
      BY <1>2, <1>16, <3>1 DEF Reads
  <2>2. CASE Seen(r.out, id)
    BY <1>5, <1>7, <1>9, <2>2 DEF Seen
  <2>3. CASE record[id].day = d
    <3>1. Seen(Content(d), id) /\ id \in keep
      BY <1>1, <1>2, <2>3 DEF StoreInv, Kept, Reads
    <3>2. Seen(s, id)
      BY <1>7, <1>13, <1>16, <2>3, <3>1
    <3>3. PICK k \in DOMAIN s : s[k] = id
      BY <3>2 DEF Seen
    <3>4. Len(r.out) + k \in DOMAIN out
      BY <1>5, <1>7, <1>9
    <3> QED
      BY <1>7, <1>9, <3>3, <3>4 DEF Seen
  <2> QED
    BY <2>1, <2>2, <2>3
<1>17. Reads(q)
  <2>1. r.sure \subseteq (acked \ glued) \intersect Matching(r.name)
    BY <1>2 DEF Reads
  <2> QED
    BY <1>12, <1>13, <1>14, <1>15, <1>16, <2>1 DEF Reads
<1> QED
  BY <1>12, <1>17, ReaderMoves DEF QueryFile

-----------------------------------------------------------------------------
(* The invariant of the journal, and what follows from it.                  *)

LEMMA JournalStep == JournalInv /\ [JournalNext]_journalVars => JournalInv'
<1> SUFFICES ASSUME StoreInv, ReaderInv, [JournalNext]_journalVars PROVE StoreInv' /\ ReaderInv'
  BY DEF JournalInv
<1>1. CASE \/ DateChanges \/ Restart \/ \E a \in Appenders : Stamp(a) \/ AppendRecord(a)
  <2>1. StoreInv'
    BY <1>1, DateStored, RestartStored, StampStored, AppendStored
  <2>2. World
    BY <1>1, WorldMoves
  <2> QED
    BY <2>1, <2>2, WorldReads
<1>2. CASE Query
  BY <1>2, ReadingStored, QueryReads DEF Query
<1>3. CASE QueryFile
  BY <1>3, ReadingStored, QueryFileReads DEF QueryFile
<1>4. CASE Answer
  BY <1>4, ReadingStored, AnswerReads DEF Answer
<1>5. CASE UNCHANGED journalVars
  <2>1. UNCHANGED <<now, store, reader>>
    BY <1>5 DEF journalVars
  <2>2. StoreInv'
    BY <2>1, ReadingStored
  <2>3. ReaderInv'
    BY <2>1 DEF ReaderInv, store, Readable, Matching, Content, Seen
  <2> QED
    BY <2>2, <2>3
<1> QED
  BY <1>1, <1>2, <1>3, <1>4, <1>5 DEF JournalNext

(* However goroutines that straddle midnight append, and disks fail, the    *)
(* files, the acknowledged records and what a query has read stay together. *)
THEOREM JournalKeepsTogether == JournalSpec => []JournalInv
<1>1. JournalInit => JournalInv
  BY JournalStarts DEF JournalInv
<1> QED
  BY <1>1, JournalStep, PTL DEF JournalSpec

(* A query takes no lock and still answers with what was there when it      *)
(* began, newest day first, nothing twice (scan, scanFile).                 *)
THEOREM AnswersAreSound == JournalSpec => []AnswerIsSound
<1>1. JournalInv => AnswerIsSound
  <2> SUFFICES ASSUME JournalInv, reader.pc = "answered"
               PROVE  /\ Len(reader.out) <= reader.limit
                      /\ \A i, j \in DOMAIN reader.out : i < j =>
                           /\ reader.out[i] # reader.out[j]
                           /\ record[reader.out[i]].day >= record[reader.out[j]].day
                      /\ Len(reader.out) < reader.limit =>
                           \A id \in reader.sure \intersect Readable :
                             Len(Content(record[id].day)) <= MaxTail => Seen(reader.out, id)
    BY DEF AnswerIsSound
  <2>1. reader.pc # "idle" /\ reader \in ReaderState
    BY DEF JournalInv, ReaderInv
  <2>2. /\ Len(reader.out) <= reader.limit
        /\ \A i, j \in DOMAIN reader.out : i < j =>
             /\ reader.out[i] # reader.out[j]
             /\ record[reader.out[i]].day >= record[reader.out[j]].day
        /\ Len(reader.out) < reader.limit =>
             \A id \in reader.sure \intersect Readable :
               Len(Content(record[id].day)) <= MaxTail =>
                 record[id].day \in reader.todo \/ Seen(reader.out, id)
        /\ reader.todo = {} \/ Len(reader.out) >= reader.limit
    BY <2>1 DEF JournalInv, ReaderInv
  <2>3. Len(reader.out) \in Nat /\ reader.limit \in Nat
    <3>1. reader.out \in Seq(Ids) /\ reader.limit \in Nat
      BY <2>1 DEF ReaderState
    <3> QED
      BY <3>1
  <2>4. Len(reader.out) < reader.limit => reader.todo = {}
    BY <2>2, <2>3
  <2> QED
    BY <2>2, <2>4
<1> QED
  BY <1>1, JournalKeepsTogether, PTL

(* The scan of all files has at most one place for each record.             *)
LEMMA AllPlaces ==
  ASSUME StoreInv
  PROVE  LET places == UNION {Places(d, Ids) : d \in DOMAIN files}
         IN  /\ IsFiniteSet(places) /\ places \subseteq Nat \X Nat
             /\ Cardinality(places) <= MaxRecord
<1> DEFINE places == UNION {Places(d, Ids) : d \in DOMAIN files}
           at == [q \in places |-> Content(q[1])[q[2]]]
<1>1. DOMAIN files \subseteq Dates
  BY DEF StoreInv, StoreTyped
<1>2. \A q \in places : /\ q[1] \in Dates /\ q[2] \in DOMAIN Content(q[1])
                        /\ Content(q[1])[q[2]] \in Ids /\ q = <<q[1], q[2]>>
  BY <1>1, PlacesAre
<1>3. places \subseteq Nat \X Nat
  BY <1>1, PlacesFinite
<1>4. \A q, t \in places : Content(q[1])[q[2]] = Content(t[1])[t[2]] => q = t
  <2> SUFFICES ASSUME NEW q \in places, NEW t \in places, NEW d, NEW e, NEW i, NEW j,
                      q = <<d, i>>, t = <<e, j>>, Content(d)[i] = Content(e)[j]
               PROVE  q = t
    BY <1>2
  <2>1. /\ d \in Dates /\ i \in DOMAIN Content(d) /\ Content(d)[i] \in Ids
        /\ e \in Dates /\ j \in DOMAIN Content(e) /\ Content(e)[j] \in Ids
    <3> HIDE DEF places
    <3> QED
      BY <1>2
  <2>2. Holds(Content(d), d) /\ Holds(Content(e), e)
    BY <2>1 DEF StoreInv, Filed
  <2>3. d = record[Content(d)[i]].day /\ e = record[Content(e)[j]].day
    BY <2>1, <2>2 DEF Holds
  <2>4. d = e
    BY <2>3
  <2>5. i = j
    BY <2>1, <2>2, <2>4 DEF Holds
  <2> QED
    BY <2>4, <2>5
<1>5. at \in Injection(places, Ids)
  <2>1. at \in [places -> Ids]
    BY <1>2
  <2>2. IsInjective(at)
    BY <1>4 DEF IsInjective
  <2> QED
    BY <2>1, <2>2 DEF Injection
<1>6. Cardinality(Ids) = MaxRecord /\ IsFiniteSet(Ids)
  BY Numbers, FS_Interval
<1>7. IsFiniteSet(places) /\ Cardinality(places) <= MaxRecord
  <2> HIDE DEF at, places
  <2> QED
    BY <1>5, <1>6, FS_Injection
<1> QED
  BY <1>3, <1>7

(* What stands in the tail of a file is found by the scan of all files.     *)
LEMMA ScanFinds ==
  ASSUME StoreInv, NEW d \in Dates, NEW j \in DOMAIN Content(d), NEW id \in Ids,
         Content(d)[j] = id, j > Len(Content(d)) - MaxTail
  PROVE  Seen(Scan(Ids, MaxRecord), id)
<1>1. PICK places : places = UNION {Places(e, Ids) : e \in DOMAIN files}
  OBVIOUS
<1>2. IsFiniteSet(places) /\ places \subseteq Nat \X Nat /\ Cardinality(places) <= MaxRecord
  BY <1>1, AllPlaces
<1>3. PICK s : s = NewestFirst(places, MaxRecord)
  OBVIOUS
<1>4. Picks(s, places, MaxRecord)
  BY <1>2, <1>3, NewestPick, Numbers
<1>5. PICK p : /\ Lines(places, p, s)
               /\ \A q \in places : \E k \in DOMAIN s : p[k] = q
  BY <1>2, <1>4 DEF Picks
<1>6. d \in DOMAIN files
  BY NothingSeen DEF Content
<1>7. <<d, j>> \in places
  BY <1>1, <1>6 DEF Places
<1>8. PICK k \in DOMAIN s : p[k] = <<d, j>>
  BY <1>5, <1>7
<1>9. s[k] = id
  BY <1>5, <1>8 DEF Lines
<1>10. Scan(Ids, MaxRecord) = s
  BY <1>1, <1>3 DEF Scan
<1> QED
  BY <1>8, <1>9, <1>10 DEF Seen

(* And by the scan for a run's ID, one line being enough.                   *)
LEMMA FindRunFinds ==
  ASSUME StoreInv, NEW d \in Dates, NEW j \in DOMAIN Content(d), NEW id \in Ids,
         Content(d)[j] = id, j > Len(Content(d)) - MaxTail
  PROVE  FindRun(id)
<1>1. PICK places : places = UNION {Places(e, {id}) : e \in DOMAIN files}
  OBVIOUS
<1>2. DOMAIN files \subseteq Dates
  BY DEF StoreInv, StoreTyped
<1>3. <<d, j>> \in places
  <2>1. d \in DOMAIN files
    BY NothingSeen DEF Content
  <2> QED
    BY <1>1, <2>1 DEF Places
<1>4. IsFiniteSet(places) /\ places \subseteq Nat \X Nat
  <2>1. PICK all : all = UNION {Places(e, Ids) : e \in DOMAIN files}
    OBVIOUS
  <2>2. IsFiniteSet(all) /\ all \subseteq Nat \X Nat
    BY <2>1, AllPlaces
  <2>3. \A e : Places(e, {id}) \subseteq Places(e, Ids)
    BY DEF Places
  <2>4. places \subseteq all
    BY <1>1, <2>1, <2>3
  <2> QED
    BY <2>2, <2>4, FS_Subset
<1>5. PICK s : s = NewestFirst(places, 1)
  OBVIOUS
<1>6. Picks(s, places, 1)
  BY <1>4, <1>5, NewestPick
<1>7. PICK n \in Nat : DOMAIN s = 1..n /\ (n < 1 => Cardinality(places) <= 1)
  BY <1>6 DEF Picks
<1>8. n # 0
  <2> SUFFICES ASSUME n = 0 PROVE FALSE
    OBVIOUS
  <2>1. Cardinality(places) <= 1 /\ DOMAIN s = {}
    BY <1>7
  <2>2. \E k \in DOMAIN s : TRUE
    BY <1>3, <1>6, <2>1 DEF Picks
  <2> QED
    BY <2>1, <2>2
<1>9. s # <<>>
  BY <1>7, <1>8, NothingSeen
<1>10. Scan({id}, 1) = s
  BY <1>1, <1>5 DEF Scan
<1> QED
  BY <1>9, <1>10 DEF FindRun

(* A record of the last KeepDays days is found, by a scan and by its run    *)
(* ID, however appends, midnights, full disks and restarts interleave,      *)
(* unless it is glued to the torn line before it; each such loss is paid    *)
(* for by an append that failed (append, pruneDir, WorkflowRun).            *)
THEOREM RecordsFound == JournalSpec => []RecordsAreFound
<1>1. JournalInv => RecordsAreFound
  <2> SUFFICES ASSUME StoreInv PROVE RecordsAreFound
    BY DEF JournalInv
  <2>1. ASSUME NEW id \in Readable, NEW d, d = record[id].day
        PROVE  /\ Seen(Scan(Ids, MaxRecord), id) \/ Len(Content(d)) > MaxTail
               /\ FindRun(id) \/ Len(Content(d)) > MaxTail
               /\ Cardinality({i \in DOMAIN Content(d) : Content(d)[i] = id}) = 1
    <3>1. id \in Ids /\ d \in Dates
      BY <2>1, AckedTyped DEF Readable
    <3>2. PICK j \in DOMAIN Content(d) : Content(d)[j] = id
      BY <2>1 DEF StoreInv, Kept, Seen
    <3>3. \A i \in DOMAIN Content(d) : Content(d)[i] = id => i = j
      BY <3>1, <3>2 DEF StoreInv, Filed, Holds
    <3>4. {i \in DOMAIN Content(d) : Content(d)[i] = id} = {j}
      BY <3>2, <3>3
    <3>5. Cardinality({j}) = 1
      BY FS_Singleton
    <3>6. Len(Content(d)) \in Nat /\ j \in Nat /\ j >= 1
      <4>1. Content(d) \in Seq(Line)
        BY ContentTyped DEF StoreInv
      <4> QED
        BY <3>2, <4>1
    <3>7. Len(Content(d)) > MaxTail \/ j > Len(Content(d)) - MaxTail
      BY <3>6, Numbers
    <3>8. CASE j > Len(Content(d)) - MaxTail
      BY <3>1, <3>2, <3>4, <3>5, <3>8, ScanFinds, FindRunFinds
    <3> QED
      BY <3>4, <3>5, <3>7, <3>8
  <2>2. Cardinality(glued) <= Cardinality({i \in 1..(nextRecord - 1) : i \notin acked})
    <3> DEFINE lost == {i \in 1..(nextRecord - 1) : i \notin acked}
    <3>1. nextRecord \in Nat /\ nextRecord - 1 \in Int /\ acked \subseteq 1..(nextRecord - 1)
          /\ glued \subseteq acked
      BY Numbers DEF StoreInv, StoreTyped
    <3>2. IsFiniteSet(1..(nextRecord - 1)) /\ IsFiniteSet(Dates)
      BY <3>1, Numbers, FS_Interval
    <3>3. IsFiniteSet(lost) /\ IsFiniteSet(glued) /\ IsFiniteSet(TornDays)
      <4>1. lost \subseteq 1..(nextRecord - 1) /\ glued \subseteq 1..(nextRecord - 1)
            /\ TornDays \subseteq Dates
        BY <3>1 DEF TornDays
      <4> QED
        BY <3>2, <4>1, FS_Subset
    <3>4. Failed \subseteq lost
      BY DEF Failed
    <3> HIDE DEF lost
    <3>5. Cardinality(Failed) <= Cardinality(lost) /\ IsFiniteSet(Failed)
      BY <3>3, <3>4, FS_Subset
    <3>6. /\ Cardinality(lost) \in Nat /\ Cardinality(Failed) \in Nat /\ Cardinality(glued) \in Nat
          /\ Cardinality(TornDays) \in Nat
      BY <3>3, <3>5, FS_CardinalityType
    <3>7. Cardinality(glued) + Cardinality(TornDays) <= Cardinality(Failed)
      BY DEF StoreInv, Counted
    <3>8. Cardinality(glued) <= Cardinality(lost)
      BY <3>5, <3>6, <3>7
    <3> QED
      BY <3>8 DEF lost
  <2> QED
    BY <2>1, <2>2 DEF RecordsAreFound
<1> QED
  BY <1>1, JournalKeepsTogether, PTL

(* The two stores side by side: what is on disk, and in the hands of those  *)
(* who write and read it, is well formed.                                   *)
THEOREM StorageTypes == Spec => []TypeOK
<1>1. Init => LogInv /\ JournalInv
  BY LogInit_, JournalStarts DEF Init, JournalInv
<1>2. LogInv /\ JournalInv /\ [Next]_vars => LogInv' /\ JournalInv'
  <2> SUFFICES ASSUME LogInv, JournalInv, [Next]_vars PROVE LogInv' /\ JournalInv'
    OBVIOUS
  <2>1. [LogNext]_logVars /\ [JournalNext]_journalVars
    BY DEF Next, vars
  <2> QED
    BY <2>1, LogStep, JournalStep
<1>3. LogInv => LogTypeOK
  <2> SUFFICES ASSUME LogTyped, \A w \in Writers : WriterHolds(writer[w]) PROVE LogTypeOK
    BY DEF LogInv
  <2>1. \A q \in Seq(Piece) : \A j \in DOMAIN q : q[j] \in Piece
    OBVIOUS
  <2>2. /\ \A i \in Inodes : \A j \in DOMAIN inode[i] : inode[i][j] \in Piece
        /\ \A d \in Days : \A j \in DOMAIN archive[d] : archive[d][j] \in Piece
    BY <2>1 DEF LogTyped
  <2>3. \A w \in Writers :
          /\ writer[w].pc \in WriterLabels
          /\ writer[w].file \in Inodes \union {Nil} /\ writer[w].day \in 0..MaxDay
          /\ writer[w].pc \in {"append", "ready"} => writer[w].file # Nil
    BY DEF LogTyped, WriterState, WriterHolds
  <2> QED
    BY <2>2, <2>3 DEF LogTyped, LogTypeOK
<1>4. JournalInv => JournalTypeOK
  <2> SUFFICES ASSUME StoreTyped PROVE JournalTypeOK
    BY DEF JournalInv, StoreInv
  <2>1. \A i \in Ids : record[i].day \in 0..now /\ record[i].started <= record[i].day
    <3>1. \A i \in Ids : record[i].day \in 0..MaxDate /\ record[i].day <= now
      BY DEF StoreTyped, RecordState
    <3>2. now \in Nat
      BY Numbers DEF StoreTyped
    <3> QED
      BY <3>1, <3>2, Numbers DEF StoreTyped
  <2>2. acked \subseteq Ids
    <3>1. acked \subseteq 1..(nextRecord - 1) /\ nextRecord \in 1..(MaxRecord + 1)
      BY DEF StoreTyped
    <3> QED
      BY <3>1, Numbers
  <2>3. \A d \in DOMAIN files : files[d] \in Seq(Ids \union {Malformed, Torn})
    BY DEF StoreTyped, Line
  <2> QED
    BY <2>1, <2>2, <2>3 DEF StoreTyped, JournalTypeOK
<1> QED
  BY <1>1, <1>2, <1>3, <1>4, PTL DEF Spec, TypeOK

================================================================================
