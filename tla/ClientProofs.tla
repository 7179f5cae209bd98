----------------------------- MODULE ClientProofs -----------------------------
(* What holds of the programs beside the daemon for every number of tasks,  *)
(* processes, log files, devices and readings.  Each screen and sampler has *)
(* an inductive invariant of its own; ClientMC runs them side by side, so a *)
(* step of the whole is a step of one of them or leaves it alone.           *)
EXTENDS ClientMC, FiniteSetTheorems, SequenceTheorems, WellFoundedInduction, TLAPS
-------------------------------------------------------------------------------
(* Sets, numbers and sequences.                                             *)

LEMMA LeastNumber ==
  ASSUME NEW T \in SUBSET Nat, T # {}
  PROVE  \E x \in T : \A y \in T : x <= y
<1>. DEFINE Initials == {1..n : n \in T}
<1>1. Initials \subseteq FiniteSubsetsOf(Nat)
  <2>. SUFFICES ASSUME NEW n \in T PROVE 1..n \in FiniteSubsetsOf(Nat)
    OBVIOUS
  <2>1. 1..n \subseteq Nat /\ n \in Nat
    OBVIOUS
  <2>2. IsFiniteSet(1..n)
    BY <2>1, FS_Interval
  <2>. QED
    BY <2>1, <2>2 DEF FiniteSubsetsOf
<1>2. Initials # {}
  OBVIOUS
<1>3. IsWellFoundedOn(StrictSubsetOrdering(Nat), FiniteSubsetsOf(Nat))
  BY FS_StrictSubsetOrderingWellFounded
<1>4. \E X \in Initials : \A Y \in Initials : ~(<<Y, X>> \in StrictSubsetOrdering(Nat))
  <2>. HIDE DEF Initials
  <2>. QED
    BY <1>1, <1>2, <1>3, WFMin
<1>5. PICK x \in T : \A y \in T : ~(<<1..y, 1..x>> \in StrictSubsetOrdering(Nat))
  BY <1>4
<1>6. \A y \in T : x <= y
  <2>. SUFFICES ASSUME NEW y \in T, y < x PROVE FALSE
    OBVIOUS
  <2>1. x \in 1..x /\ x \notin 1..y /\ 1..y \subseteq 1..x /\ 1..y \in SUBSET Nat
        /\ 1..x \in SUBSET Nat
    OBVIOUS
  <2>. QED
    BY <2>1, <1>5 DEF StrictSubsetOrdering
<1>. QED
  BY <1>6

(* The image of a finite set under a function.                              *)
LEMMA ImageIsFinite ==
  ASSUME NEW S, IsFiniteSet(S), NEW T, NEW f \in [S -> T], \A t \in T : \E x \in S : f[x] = t
  PROVE  IsFiniteSet(T) /\ Cardinality(T) <= Cardinality(S)
<1>1. f \in Surjection(S, T)
  BY DEF Surjection
<1> QED
  BY <1>1, FS_Surjection

LEMMA MembersTyped ==
  ASSUME NEW R, NEW s \in Seq(R)
  PROVE  /\ ToSet(s) \in SUBSET R /\ IsFiniteSet(ToSet(s))
         /\ Cardinality(ToSet(s)) <= Len(s)
<1>1. ToSet(s) \in SUBSET R
  BY DEF ToSet
<1>2. DOMAIN s = 1..Len(s) /\ Len(s) \in Nat
  OBVIOUS
<1>3. IsFiniteSet(DOMAIN s) /\ Cardinality(DOMAIN s) = Len(s)
  BY <1>2, FS_Interval
<1>4. s \in [DOMAIN s -> ToSet(s)] /\ \A t \in ToSet(s) : \E x \in DOMAIN s : s[x] = t
  BY DEF ToSet
<1>5. IsFiniteSet(ToSet(s)) /\ Cardinality(ToSet(s)) <= Cardinality(DOMAIN s)
  BY <1>3, <1>4, ImageIsFinite
<1> QED
  BY <1>1, <1>3, <1>5

(* A sequence that lists a finite set lists all of it, once.                *)
LEMMA ListsAll ==
  ASSUME NEW X, IsFiniteSet(X), NEW s \in SetToSeqs(X)
  PROVE  s \in Seq(X) /\ ToSet(s) = X /\ Len(s) = Cardinality(X)
<1>1. Cardinality(X) \in Nat
  BY FS_CardinalityType
<1>2. s \in [1..Cardinality(X) -> X] /\ \A i, j \in 1..Cardinality(X) : i # j => s[i] # s[j]
  BY DEF SetToSeqs
<1>3. s \in Injection(1..Cardinality(X), X)
  BY <1>2 DEF Injection, IsInjective
<1>4. Cardinality(1..Cardinality(X)) = Cardinality(X)
  BY <1>1, FS_Interval
<1>5. s \in Surjection(1..Cardinality(X), X)
  BY <1>3, <1>4, FS_Injection
<1>6. DOMAIN s = 1..Cardinality(X)
  BY <1>2
<1> QED
  BY <1>1, <1>2, <1>5, <1>6 DEF ToSet, Surjection

(* A finite set can be listed in the order of a numbering of its members.   *)
Listed(S, f) ==
  \E s \in SetToSeqs(S) : \A i, j \in DOMAIN s : i < j => f[s[i]] <= f[s[j]]

LEMMA Arranged ==
  ASSUME NEW X, IsFiniteSet(X), NEW f \in [X -> Nat]
  PROVE  Listed(X, f)
<1> DEFINE T == {n \in Nat : \E S \in SUBSET X : Cardinality(S) = n /\ ~Listed(S, f)}
<1> SUFFICES ASSUME ~Listed(X, f) PROVE FALSE
  OBVIOUS
<1>1. Cardinality(X) \in T
  BY FS_CardinalityType
<1>2. PICK n \in T : \A m \in T : n <= m
  BY <1>1, LeastNumber
<1>3. PICK S \in SUBSET X : Cardinality(S) = n /\ ~Listed(S, f)
  BY <1>2
<1>4. IsFiniteSet(S) /\ n \in Nat
  BY <1>2, FS_Subset
<1>5. CASE S = {}
  <2>1. Cardinality(S) = 0
    BY <1>5, FS_EmptySet
  <2>2. <<>> \in SetToSeqs(S)
    BY <2>1 DEF SetToSeqs
  <2>3. Listed(S, f)
    BY <2>2 DEF Listed
  <2> QED
    BY <2>3, <1>3
<1>6. CASE S # {}
  <2> DEFINE K == {f[x] : x \in S}
  <2>1. K \in SUBSET Nat /\ K # {}
    BY <1>6
  <2>2. PICK k \in K : \A l \in K : k <= l
    BY <2>1, LeastNumber
  <2>3. PICK r \in S : \A x \in S : f[r] <= f[x]
    BY <2>2
  <2> HIDE DEF K
  <2>4. IsFiniteSet(S \ {r}) /\ Cardinality(S \ {r}) = n - 1
    BY <1>3, <1>4, FS_RemoveElement
  <2>5. n - 1 \in Nat
    BY <2>4, FS_CardinalityType
  <2>6. n - 1 \notin T
    BY <1>2, <1>4, <2>5
  <2>7. Listed(S \ {r}, f)
    BY <2>4, <2>5, <2>6
  <2>8. PICK s \in SetToSeqs(S \ {r}) : \A i, j \in DOMAIN s : i < j => f[s[i]] <= f[s[j]]
    BY <2>7 DEF Listed
  <2>9. /\ s \in [1..(n - 1) -> S \ {r}] /\ \A i, j \in 1..(n - 1) : i # j => s[i] # s[j]
    BY <2>4, <2>8 DEF SetToSeqs
  <2> DEFINE t == [i \in 1..n |-> IF i = 1 THEN r ELSE s[i - 1]]
  <2>10. \A i \in 1..n : i # 1 => i - 1 \in 1..(n - 1) /\ t[i] = s[i - 1]
                                   /\ t[i] \in S /\ t[i] # r
    BY <1>4, <2>5, <2>9
  <2>11. t \in [1..n -> S] /\ (1 \in 1..n => t[1] = r)
    BY <2>10
  <2> HIDE DEF t
  <2>12. \A i, j \in 1..n : i # j => t[i] # t[j]
    BY <1>4, <2>5, <2>9, <2>10, <2>11
  <2>13. t \in SetToSeqs(S)
    BY <1>3, <2>11, <2>12 DEF SetToSeqs
  <2>14. \A i, j \in 1..n : i < j => f[t[i]] <= f[t[j]]
    <3> SUFFICES ASSUME NEW i \in 1..n, NEW j \in 1..n, i < j PROVE f[t[i]] <= f[t[j]]
      OBVIOUS
    <3>1. CASE i = 1
      BY <3>1, <2>3, <2>11
    <3>2. CASE i # 1
      <4>1. t[i] = s[i - 1] /\ t[j] = s[j - 1] /\ i - 1 \in 1..(n - 1) /\ j - 1 \in 1..(n - 1)
        BY <3>2, <2>10, <1>4
      <4>2. DOMAIN s = 1..(n - 1)
        BY <2>9
      <4> QED
        BY <4>1, <4>2, <2>8, <1>4
    <3> QED
      BY <3>1, <3>2
  <2>15. Listed(S, f)
    BY <2>11, <2>13, <2>14 DEF Listed
  <2> QED
    BY <2>15, <1>3
<1> QED
  BY <1>5, <1>6

(* Induction, on a set of numbers.                                          *)
LEMMA Inducted ==
  ASSUME NEW S \in SUBSET Nat, 0 \in S, \A n \in S : n + 1 \in S
  PROVE  S = Nat
<1> SUFFICES ASSUME S # Nat PROVE FALSE
  OBVIOUS
<1>1. Nat \ S \in SUBSET Nat /\ Nat \ S # {}
  OBVIOUS
<1>2. PICK n \in Nat \ S : \A m \in Nat \ S : n <= m
  BY <1>1, LeastNumber
<1>3. n - 1 \in Nat /\ n - 1 \notin Nat \ S
  BY <1>2
<1> QED
  BY <1>2, <1>3

(* A sequence of values each of which follows from the one before it.       *)
Steps(step, Y) == step \in [Nat -> [Y -> Y]]
Begun(g, n, Y, a, step) ==
  /\ g \in [0..n -> Y] /\ g[0] = a
  /\ \A i \in 0..(n - 1) : g[i + 1] = step[i][g[i]]

LEMMA BegunOnce ==
  ASSUME NEW Y, NEW a \in Y, NEW step, Steps(step, Y), NEW m \in Nat, NEW n \in Nat, m <= n,
         NEW g, Begun(g, m, Y, a, step), NEW h, Begun(h, n, Y, a, step)
  PROVE  \A i \in 0..m : g[i] = h[i]
<1> DEFINE S == {i \in Nat : i <= m => g[i] = h[i]}
<1>1. 0 \in S
  BY DEF Begun
<1>2. ASSUME NEW i \in S PROVE i + 1 \in S
  <2> SUFFICES ASSUME i + 1 <= m PROVE g[i + 1] = h[i + 1]
    OBVIOUS
  <2>1. i \in 0..(m - 1) /\ i \in 0..(n - 1) /\ g[i] = h[i]
    BY <1>2
  <2> QED
    BY <2>1 DEF Begun
<1>3. S = Nat
  <2>1. S \in SUBSET Nat
    OBVIOUS
  <2> HIDE DEF S
  <2> QED
    BY <1>1, <1>2, <2>1, Inducted
<1> QED
  BY <1>3

LEMMA BegunAll ==
  ASSUME NEW Y, NEW a \in Y, NEW step, Steps(step, Y)
  PROVE  \A n \in Nat : \E g : Begun(g, n, Y, a, step)
<1> DEFINE S == {n \in Nat : \E g : Begun(g, n, Y, a, step)}
<1>1. 0 \in S
  <2> DEFINE g == [i \in 0..0 |-> a]
  <2>1. g \in [0..0 -> Y] /\ g[0] = a
    OBVIOUS
  <2> HIDE DEF g
  <2>2. Begun(g, 0, Y, a, step)
    BY <2>1 DEF Begun
  <2> QED
    BY <2>2
<1>2. ASSUME NEW n \in S PROVE n + 1 \in S
  <2>1. n \in Nat
    OBVIOUS
  <2>2. PICK g : Begun(g, n, Y, a, step)
    OBVIOUS
  <2> DEFINE h == [i \in 0..(n + 1) |-> IF i <= n THEN g[i] ELSE step[n][g[n]]]
  <2>3. h \in [0..(n + 1) -> Y]
    <3>1. step[n][g[n]] \in Y
      BY <2>1, <2>2 DEF Begun, Steps
    <3>2. \A i \in 0..(n + 1) : i <= n => g[i] \in Y
      BY <2>1, <2>2 DEF Begun
    <3> QED
      BY <3>1, <3>2
  <2>4. /\ \A i \in 0..n : h[i] = g[i]
        /\ h[n + 1] = step[n][g[n]]
    BY <2>1
  <2> HIDE DEF h
  <2>5. \A i \in 0..n : h[i + 1] = step[i][h[i]]
    <3> SUFFICES ASSUME NEW i \in 0..n PROVE h[i + 1] = step[i][h[i]]
      OBVIOUS
    <3>1. CASE i = n
      BY <3>1, <2>1, <2>4
    <3>2. CASE i # n
      <4>1. i \in 0..(n - 1) /\ i + 1 \in 0..n
        BY <3>2, <2>1
      <4> QED
        BY <4>1, <2>2, <2>4 DEF Begun
    <3> QED
      BY <3>1, <3>2
  <2>6. Begun(h, n + 1, Y, a, step)
    <3>1. (n + 1) - 1 = n /\ 0 \in 0..n
      BY <2>1
    <3>2. h[0] = a
      BY <3>1, <2>2, <2>4 DEF Begun
    <3> QED
      BY <3>1, <3>2, <2>3, <2>5 DEF Begun
  <2> QED
    BY <2>1, <2>6
<1>3. S = Nat
  <2>1. S \in SUBSET Nat
    OBVIOUS
  <2> HIDE DEF S
  <2> QED
    BY <1>1, <1>2, <2>1, Inducted
<1> QED
  BY <1>3

Recursion(g, Y, a, step) ==
  g \in [Nat -> Y] /\ g[0] = a /\ \A n \in Nat : g[n + 1] = step[n][g[n]]

LEMMA Recursed ==
  ASSUME NEW Y, NEW a \in Y, NEW step, Steps(step, Y)
  PROVE  \E g : Recursion(g, Y, a, step)
<1> DEFINE F(n) == CHOOSE g : Begun(g, n, Y, a, step)
           G == [n \in Nat |-> F(n)[n]]
<1>1. \A n \in Nat : Begun(F(n), n, Y, a, step)
  BY BegunAll
<1> HIDE DEF F
<1>2. \A n \in Nat : F(n)[n] \in Y
  BY <1>1 DEF Begun
<1>3. F(0)[0] = a
  BY <1>1 DEF Begun
<1>4. ASSUME NEW n \in Nat PROVE F(n + 1)[n + 1] = step[n][F(n)[n]]
  <2>1. n + 1 \in Nat /\ n <= n + 1 /\ n \in 0..n /\ n \in 0..((n + 1) - 1)
    OBVIOUS
  <2>2. F(n)[n] = F(n + 1)[n]
    <3>1. PICK g : g = F(n)
      OBVIOUS
    <3>2. PICK p \in Nat : p = n + 1
      BY <2>1
    <3>3. PICK h : h = F(p)
      OBVIOUS
    <3>4. Begun(g, n, Y, a, step)
      BY <1>1, <3>1
    <3>5. Begun(h, p, Y, a, step)
      BY <1>1, <3>3
    <3>6. n <= p
      BY <3>2
    <3>7. \A i \in 0..n : g[i] = h[i]
      BY <3>4, <3>5, <3>6, BegunOnce
    <3> QED
      BY <2>1, <3>1, <3>2, <3>3, <3>7
  <2> QED
    BY <1>1, <2>1, <2>2 DEF Begun
<1>5. Recursion(G, Y, a, step)
  BY <1>2, <1>3, <1>4 DEF Recursion
<1> QED
  BY <1>5

(* Two sequences joined.                                                    *)
Joins(c, a, b) == c = a \o b
LEMMA Appended ==
  ASSUME NEW X, NEW a \in Seq(X), NEW b \in Seq(X), NEW c, Joins(c, a, b)
  PROVE  /\ c \in Seq(X) /\ Len(a) \in Nat /\ Len(b) \in Nat /\ Len(c) = Len(a) + Len(b)
         /\ \A i \in 1..Len(a) : c[i] = a[i]
         /\ \A i \in 1..Len(b) : c[Len(a) + i] = b[i]
         /\ \A k \in 1..Len(c) : k \in 1..Len(a) \/ \E i \in 1..Len(b) : k = Len(a) + i
<1>1. /\ c \in Seq(X) /\ Len(a) \in Nat /\ Len(b) \in Nat /\ Len(c) = Len(a) + Len(b)
      /\ \A i \in 1..Len(a) : c[i] = a[i]
      /\ \A i \in 1..Len(b) : c[Len(a) + i] = b[i]
  BY DEF Joins
<1>2. ASSUME NEW k \in 1..Len(c), k \notin 1..Len(a)
      PROVE  \E i \in 1..Len(b) : k = Len(a) + i
  <2>1. PICK la, lb, lc : la = Len(a) /\ lb = Len(b) /\ lc = Len(c)
    OBVIOUS
  <2>2. la \in Nat /\ lb \in Nat /\ lc = la + lb /\ k \in 1..lc /\ k \notin 1..la
    BY <1>1, <1>2, <2>1
  <2>3. k - la \in 1..lb /\ k = la + (k - la)
    BY <2>2
  <2> QED
    BY <2>1, <2>3
<1> QED
  BY <1>1, <1>2

-------------------------------------------------------------------------------
(* The dashboard: however the lists are ranked, a row stands for the        *)
(* process or the task it names, and the cursor stays on the anchored one.  *)

TaskNames == {Managed[id] : id \in TaskIDs}
ProcRow == {r \in [subject : Processes, name : Processes, pid : Processes, load : Int] :
              r.name = r.pid}
TaskRow == [subject : TaskIDs, name : TaskNames, pid : Int, load : Int]
BoardTarget == [system : BOOLEAN, subject : Int, pid : Int]
BoardRecord ==
  [procs : Seq(ProcRow), tasks : Seq(TaskRow), scope : {"tasks", "system"}, sort : 1..3,
   selected : Int, anchorPID : Processes \union {0}, anchorTask : TaskNames \union {0},
   confirm : BoardTarget]

MachineOK(m) ==
  /\ m \in [procs : SUBSET ProcRow, tasks : SUBSET TaskRow]
  /\ IsFiniteSet(m.procs) /\ IsFiniteSet(m.tasks)

(* What the prompt names may be signalled.                                  *)
Allowed(k) == k.system => k.pid \notin {0, 1, Self}

(* The cursor is on a row, and on the subject it was put on.                *)
CursorOK(b) ==
  /\ Rows(b) # <<>> => b.selected \in DOMAIN Rows(b)
  /\ Anchored(b) # {} => Rows(b)[b.selected].name = Anchor(b)

BoardOK(b) == b \in BoardRecord /\ CursorOK(b) /\ Allowed(b.confirm)

BoardIInv ==
  /\ MachineOK(machine) /\ BoardOK(board)
  /\ chain \in [{1} -> {"collect", "timer"}]
  /\ sent \subseteq BoardTarget /\ \A k \in sent : Allowed(k)
  /\ prompted = [subject |-> board.confirm, agreed |-> sent]

-------------------------------------------------------------------------------
LEMMA ProcessesNumbered ==
  /\ Processes \subseteq Int /\ TaskIDs \subseteq Int
  /\ IsFiniteSet(Processes) /\ IsFiniteSet(TaskIDs)
BY DashboardAssumption DEF TaskIDs

(* A ranking of a set is a sequence of its members.                         *)
LEMMA RankedTyped ==
  ASSUME NEW R, NEW rows \in SUBSET R, IsFiniteSet(rows), NEW by, NEW s \in Ranked(rows, by)
  PROVE  s \in Seq(R)
<1>1. Cardinality(rows) \in Nat
  BY FS_CardinalityType
<1>2. s \in [1..Cardinality(rows) -> rows]
  BY DEF Ranked, SetToSeqs
<1> QED
  BY <1>1, <1>2

LEMMA BoardRowsTyped ==
  ASSUME NEW b \in BoardRecord
  PROVE  /\ b.scope = "system" => Rows(b) = b.procs /\ Rows(b) \in Seq(ProcRow)
         /\ b.scope # "system" => Rows(b) = b.tasks /\ Rows(b) \in Seq(TaskRow)
         /\ Len(Rows(b)) \in Nat /\ DOMAIN Rows(b) = 1..Len(Rows(b))
         /\ Rows(b) # <<>> <=> Len(Rows(b)) > 0
BY DEF BoardRecord, Rows

LEMMA ClampedTyped ==
  ASSUME NEW b \in BoardRecord
  PROVE  ClampedRow(b) \in Int /\ (Rows(b) # <<>> => ClampedRow(b) \in DOMAIN Rows(b))
<1>1. b.selected \in Int
  BY DEF BoardRecord
<1>2. /\ Len(Rows(b)) \in Nat /\ DOMAIN Rows(b) = 1..Len(Rows(b))
      /\ Rows(b) # <<>> <=> Len(Rows(b)) > 0
  BY BoardRowsTyped
<1> QED
  BY <1>1, <1>2 DEF ClampedRow

(* A board that is re-ranked and then restored has its cursor in place.     *)
LEMMA RestoredHolds ==
  ASSUME NEW b \in BoardRecord, Allowed(b.confirm)
  PROVE  BoardOK(Restored(b)) /\ Restored(b).confirm = b.confirm
<1> DEFINE i == IF Anchored(b) = {} THEN ClampedRow(b)
                ELSE CHOOSE i \in Anchored(b) : \A j \in Anchored(b) : i <= j
<1>1. /\ Len(Rows(b)) \in Nat /\ DOMAIN Rows(b) = 1..Len(Rows(b))
  BY BoardRowsTyped
<1>2. Anchored(b) \subseteq DOMAIN Rows(b)
  BY DEF Anchored
<1>3. Anchored(b) # {} => i \in Anchored(b)
  <2>1. Anchored(b) \in SUBSET Nat
    BY <1>1, <1>2
  <2> QED
    BY <2>1, LeastNumber
<1>4. i \in Int /\ (Rows(b) # <<>> => i \in DOMAIN Rows(b))
  <2>1. CASE Anchored(b) = {}
    BY <2>1, ClampedTyped
  <2>2. CASE Anchored(b) # {}
    BY <2>2, <1>1, <1>2, <1>3
  <2> QED
    BY <2>1, <2>2
<1>5. Restored(b) = [b EXCEPT !.selected = i]
  BY DEF Restored
<1> HIDE DEF i
<1>6. PICK r : r = [b EXCEPT !.selected = i]
  OBVIOUS
<1>7. r \in BoardRecord /\ r.selected = i /\ r.confirm = b.confirm
  BY <1>4, <1>6 DEF BoardRecord
<1>8. Rows(r) = Rows(b) /\ Anchor(r) = Anchor(b)
  BY <1>6 DEF Rows, Anchor, BoardRecord
<1>9. Anchored(r) = Anchored(b)
  BY <1>8 DEF Anchored
<1>10. Anchored(b) # {} => Rows(b)[i].name = Anchor(b)
  BY <1>3 DEF Anchored
<1>11. CursorOK(r)
  BY <1>4, <1>7, <1>8, <1>9, <1>10 DEF CursorOK
<1> QED
  BY <1>5, <1>6, <1>7, <1>11 DEF BoardOK

(* Remembering where the cursor is puts the anchor under it.                *)
LEMMA RememberedHolds ==
  ASSUME NEW b \in BoardRecord, Allowed(b.confirm),
         Rows(b) # <<>> => b.selected \in DOMAIN Rows(b)
  PROVE  BoardOK(Remembered(b)) /\ Remembered(b).confirm = b.confirm
<1> DEFINE row == IF b.selected \in DOMAIN Rows(b) THEN Rows(b)[b.selected] ELSE Proc(0, 0)
<1>1. /\ Len(Rows(b)) \in Nat /\ DOMAIN Rows(b) = 1..Len(Rows(b))
      /\ Rows(b) # <<>> <=> Len(Rows(b)) > 0
  BY BoardRowsTyped
<1>2. /\ b.scope = "system" => row.pid \in Processes \union {0} /\ row.name = row.pid
      /\ b.scope # "system" => row.name \in TaskNames \union {0}
  <2>1. CASE b.selected \in DOMAIN Rows(b)
    <3>1. /\ b.scope = "system" => Rows(b) \in Seq(ProcRow)
          /\ b.scope # "system" => Rows(b) \in Seq(TaskRow)
      BY BoardRowsTyped
    <3>2. /\ b.scope = "system" => Rows(b)[b.selected] \in ProcRow
          /\ b.scope # "system" => Rows(b)[b.selected] \in TaskRow
      BY <2>1, <3>1, <1>1
    <3> QED
      BY <2>1, <3>2 DEF ProcRow, TaskRow
  <2>2. CASE b.selected \notin DOMAIN Rows(b)
    BY <2>2 DEF Proc
  <2> QED
    BY <2>1, <2>2
<1>3. PICK r : r = Remembered(b)
  OBVIOUS
<1>4. /\ r \in BoardRecord /\ r.confirm = b.confirm /\ r.selected = b.selected
      /\ r.procs = b.procs /\ r.tasks = b.tasks /\ r.scope = b.scope
      /\ Anchor(r) = row.name
  <2> HIDE DEF row
  <2>1. CASE b.scope = "system"
    <3>1. r = [b EXCEPT !.anchorPID = row.pid, !.anchorTask = 0]
      BY <2>1, <1>3 DEF Remembered, row
    <3> QED
      BY <2>1, <3>1, <1>2 DEF BoardRecord, Anchor
  <2>2. CASE b.scope # "system"
    <3>1. r = [b EXCEPT !.anchorPID = 0, !.anchorTask = row.name]
      BY <2>2, <1>3 DEF Remembered, row
    <3> QED
      BY <2>2, <3>1, <1>2 DEF BoardRecord, Anchor
  <2> QED
    BY <2>1, <2>2
<1>5. Rows(r) = Rows(b)
  BY <1>4 DEF Rows
<1>6. Anchored(r) # {} => Rows(r)[r.selected].name = Anchor(r)
  <2>1. CASE Rows(b) = <<>>
    BY <2>1, <1>1, <1>5 DEF Anchored
  <2>2. CASE Rows(b) # <<>>
    BY <2>2, <1>4, <1>5
  <2> QED
    BY <2>1, <2>2
<1> QED
  BY <1>3, <1>4, <1>5, <1>6 DEF BoardOK, CursorOK

LEMMA ResortedTyped ==
  ASSUME NEW b \in BoardRecord, NEW procs \in SUBSET ProcRow, IsFiniteSet(procs),
         NEW known \in SUBSET TaskRow, IsFiniteSet(known), NEW r \in Resorted(b, procs, known)
  PROVE  r \in BoardRecord /\ r.confirm = b.confirm
<1>1. PICK p \in Ranked(procs, Rankings[b.sort]), t \in Ranked(known, Rankings[b.sort]) :
        r = [b EXCEPT !.procs = p, !.tasks = t]
  <2> DEFINE P == Ranked(procs, Rankings[b.sort])
             T == Ranked(known, Rankings[b.sort])
  <2>1. r \in UNION {{[b EXCEPT !.procs = p, !.tasks = t] : p \in P} : t \in T}
    BY DEF Resorted
  <2> HIDE DEF P, T
  <2>2. PICK t \in T : r \in {[b EXCEPT !.procs = p, !.tasks = t] : p \in P}
    BY <2>1
  <2>3. PICK p \in P : r = [b EXCEPT !.procs = p, !.tasks = t]
    BY <2>2
  <2> QED
    BY <2>3 DEF P, T
<1>2. p \in Seq(ProcRow) /\ t \in Seq(TaskRow)
  BY RankedTyped
<1> QED
  BY <1>1, <1>2 DEF BoardRecord

(* What the prompt names changes, and nothing else: the cursor stays.       *)
LEMMA PromptHolds ==
  ASSUME NEW b, BoardOK(b), NEW k \in BoardTarget, Allowed(k), NEW r, r = [b EXCEPT !.confirm = k]
  PROVE  BoardOK(r)
<1>1. b \in BoardRecord
  BY DEF BoardOK
<1>2. /\ r \in BoardRecord /\ r.confirm = k /\ r.selected = b.selected
      /\ Rows(r) = Rows(b) /\ Anchor(r) = Anchor(b)
  BY <1>1 DEF BoardRecord, Rows, Anchor
<1>3. Anchored(r) = Anchored(b)
  BY <1>2 DEF Anchored
<1> QED
  BY <1>2, <1>3 DEF BoardOK, CursorOK

-------------------------------------------------------------------------------
LEMMA BoardStarts == BoardInit => BoardIInv
<1> SUFFICES ASSUME BoardInit PROVE BoardIInv
  OBVIOUS
<1> USE ProcessesNumbered
<1>1. MachineOK(machine)
  <2>1. IsFiniteSet(machine.procs)
    <3> DEFINE f == [p \in Processes |-> Proc(p, 0)]
               P == machine.procs
    <3>1. P = {Proc(p, 0) : p \in Processes}
      BY DEF BoardInit
    <3>2. f \in [Processes -> P] /\ \A t \in P : \E p \in Processes : f[p] = t
      BY <3>1
    <3>3. IsFiniteSet(Processes)
      BY ProcessesNumbered
    <3> HIDE DEF f, P
    <3>4. IsFiniteSet(P)
      BY <3>2, <3>3, ImageIsFinite
    <3> QED
      BY <3>4 DEF P
  <2>2. IsFiniteSet(machine.tasks)
    <3> DEFINE f == [p \in TaskIDs |-> Task(p, 0)]
               T == machine.tasks
    <3>1. T = {Task(p, 0) : p \in TaskIDs}
      BY DEF BoardInit
    <3>2. f \in [TaskIDs -> T] /\ \A t \in T : \E p \in TaskIDs : f[p] = t
      BY <3>1
    <3>3. IsFiniteSet(TaskIDs)
      BY ProcessesNumbered
    <3> HIDE DEF f, T
    <3>4. IsFiniteSet(T)
      BY <3>2, <3>3, ImageIsFinite
    <3> QED
      BY <3>4 DEF T
  <2>3. \A p \in Processes : Proc(p, 0) \in ProcRow
    BY DEF Proc, ProcRow
  <2>4. \A id \in TaskIDs : Task(id, 0) \in TaskRow
    BY DEF Task, TaskRow, TaskNames, TaskIDs
  <2> QED
    BY <2>1, <2>2, <2>3, <2>4 DEF BoardInit, MachineOK
<1>2. BoardOK(board)
  <2>1. board \in BoardRecord
    BY DEF BoardInit, BoardRecord, NoTarget, BoardTarget
  <2>2. Rows(board) = <<>> /\ Anchored(board) = {}
    BY DEF BoardInit, Rows, Anchored
  <2> QED
    BY <2>1, <2>2 DEF BoardOK, CursorOK, Allowed, BoardInit, NoTarget
<1>3. chain \in [{1} -> {"collect", "timer"}] /\ sent = {}
      /\ prompted = [subject |-> board.confirm, agreed |-> sent]
  BY DEF BoardInit
<1> QED
  BY <1>1, <1>2, <1>3 DEF BoardIInv

LEMMA HappensKeeps == BoardIInv /\ Happens => MachineOK(machine')
<1> SUFFICES ASSUME BoardIInv, Happens PROVE MachineOK(machine')
  OBVIOUS
<1>1. /\ machine.procs \in SUBSET ProcRow /\ machine.tasks \in SUBSET TaskRow
      /\ IsFiniteSet(machine.procs) /\ IsFiniteSet(machine.tasks)
      /\ machine \in [procs : SUBSET ProcRow, tasks : SUBSET TaskRow]
  BY DEF BoardIInv, MachineOK
<1>2. \A S \in SUBSET ProcRow : IsFiniteSet(S) =>
        MachineOK([machine EXCEPT !.procs = S])
  BY <1>1 DEF MachineOK
<1>3. \A S \in SUBSET TaskRow : IsFiniteSet(S) =>
        MachineOK([machine EXCEPT !.tasks = S])
  BY <1>1 DEF MachineOK
<1>4. ASSUME NEW p \in machine.procs, machine' = [machine EXCEPT !.procs = @ \ {p}]
      PROVE  MachineOK(machine')
  <2>1. IsFiniteSet(machine.procs \ {p})
    BY <1>1, FS_RemoveElement
  <2> QED
    BY <1>1, <1>2, <1>4, <2>1
<1>5. ASSUME NEW p \in machine.procs,
             machine' = [machine EXCEPT !.procs = (@ \ {p}) \union {[p EXCEPT !.load = 1 - @]}]
      PROVE  MachineOK(machine')
  <2>1. [p EXCEPT !.load = 1 - @] \in ProcRow
    BY <1>1 DEF ProcRow
  <2>2. PICK S : S = machine.procs \ {p}
    OBVIOUS
  <2>3. IsFiniteSet(S)
    BY <1>1, <2>2, FS_RemoveElement
  <2>4. \A q : IsFiniteSet(S \union {q})
    BY <2>3, FS_AddElement
  <2>5. IsFiniteSet((machine.procs \ {p}) \union {[p EXCEPT !.load = 1 - @]})
    BY <2>2, <2>4
  <2> QED
    BY <1>1, <1>2, <1>5, <2>1, <2>5
<1>6. ASSUME NEW t \in machine.tasks, NEW pid \in {0, 100},
             machine' = [machine EXCEPT !.tasks = (@ \ {t}) \union
               {[t EXCEPT !.load = 1 - @, !.pid = IF pid = 0 THEN 0 ELSE pid + t.subject]}]
      PROVE  MachineOK(machine')
  <2> DEFINE u == [t EXCEPT !.load = 1 - @, !.pid = IF pid = 0 THEN 0 ELSE pid + t.subject]
  <2>1. u \in TaskRow
    <3>1. t \in TaskRow /\ t.load \in Int /\ t.subject \in TaskIDs
      BY <1>1 DEF TaskRow
    <3>2. PICK v : v = IF pid = 0 THEN 0 ELSE pid + t.subject
      OBVIOUS
    <3>3. v \in Int
      <4>1. \A id \in TaskIDs : id \in Int
        BY ProcessesNumbered
      <4>2. t.subject \in Int
        BY <3>1, <4>1
      <4> QED
        BY <4>2, <3>2
    <3>4. PICK w : w = [t EXCEPT !.load = 1 - @, !.pid = v]
      OBVIOUS
    <3>5. w = [subject |-> t.subject, name |-> t.name, pid |-> v, load |-> 1 - t.load]
      BY <3>1, <3>4 DEF TaskRow
    <3>6. w \in TaskRow
      BY <3>1, <3>3, <3>5 DEF TaskRow
    <3> QED
      BY <3>2, <3>4, <3>6
  <2> HIDE DEF u
  <2>2. IsFiniteSet((machine.tasks \ {t}) \union {u})
    <3>1. IsFiniteSet(machine.tasks \ {t})
      BY <1>1, FS_RemoveElement
    <3> QED
      BY <3>1, FS_AddElement
  <2>3. (machine.tasks \ {t}) \union {u} \in SUBSET TaskRow
    BY <1>1, <2>1
  <2>4. machine' = [machine EXCEPT !.tasks = (machine.tasks \ {t}) \union {u}]
    BY <1>6 DEF u
  <2> QED
    BY <1>3, <2>2, <2>3, <2>4
<1>7. ASSUME NEW t \in machine.tasks, machine' = [machine EXCEPT !.tasks = @ \ {t}]
      PROVE  MachineOK(machine')
  <2>1. IsFiniteSet(machine.tasks \ {t})
    BY <1>1, FS_RemoveElement
  <2> QED
    BY <1>1, <1>3, <1>7, <2>1
<1> QED
  <2>1. CASE \E p \in machine.procs : machine' = [machine EXCEPT !.procs = @ \ {p}]
    BY <2>1, <1>4
  <2>2. CASE \E p \in machine.procs : machine' = [machine EXCEPT !.procs =
               (@ \ {p}) \union {[p EXCEPT !.load = 1 - @]}]
    BY <2>2, <1>5
  <2>3. CASE \E t \in machine.tasks, pid \in {0, 100} : machine' = [machine EXCEPT !.tasks =
               (@ \ {t}) \union
               {[t EXCEPT !.load = 1 - @, !.pid = IF pid = 0 THEN 0 ELSE pid + t.subject]}]
    BY <2>3, <1>6
  <2>4. CASE \E t \in machine.tasks : machine' = [machine EXCEPT !.tasks = @ \ {t}]
    BY <2>4, <1>7
  <2> QED
    BY <2>1, <2>2, <2>3, <2>4 DEF Happens

LEMMA KillResultKeeps ==
  ASSUME BoardIInv, NEW k \in sent, KillResult(k)
  PROVE  MachineOK(machine')
<1> DEFINE P == {p \in machine.procs : ~(k.system /\ p.pid = k.pid)}
           after(t) == IF ~k.system /\ t.subject = k.subject THEN [t EXCEPT !.pid = 0] ELSE t
           T == {after(t) : t \in machine.tasks}
           f == [t \in machine.tasks |-> after(t)]
<1>1. /\ machine.procs \in SUBSET ProcRow /\ machine.tasks \in SUBSET TaskRow
      /\ IsFiniteSet(machine.procs) /\ IsFiniteSet(machine.tasks)
      /\ machine \in [procs : SUBSET ProcRow, tasks : SUBSET TaskRow]
  BY DEF BoardIInv, MachineOK
<1>2. machine' = [machine EXCEPT !.procs = P, !.tasks = T]
  BY DEF KillResult
<1>3. P \in SUBSET ProcRow /\ IsFiniteSet(P)
  BY <1>1, FS_Subset
<1>4. T \in SUBSET TaskRow
  BY <1>1 DEF TaskRow
<1>5. f \in [machine.tasks -> T] /\ \A t \in T : \E u \in machine.tasks : f[u] = t
  OBVIOUS
<1>6. IsFiniteSet(T)
  <2> HIDE DEF f, T
  <2> QED
    BY <1>1, <1>5, ImageIsFinite
<1> HIDE DEF P, T
<1> QED
  BY <1>1, <1>2, <1>3, <1>4, <1>6 DEF MachineOK

LEMMA BoardStep == BoardIInv /\ [BoardNext]_boardVars => BoardIInv'
<1> SUFFICES ASSUME BoardIInv, [BoardNext]_boardVars PROVE BoardIInv'
  OBVIOUS
<1>1. /\ MachineOK(machine) /\ BoardOK(board)
      /\ chain \in [{1} -> {"collect", "timer"}]
      /\ sent \subseteq BoardTarget /\ \A k \in sent : Allowed(k)
      /\ prompted = [subject |-> board.confirm, agreed |-> sent]
  BY DEF BoardIInv
<1>2. /\ board \in BoardRecord /\ Allowed(board.confirm)
      /\ Rows(board) # <<>> => board.selected \in DOMAIN Rows(board)
      /\ Len(Rows(board)) \in Nat /\ DOMAIN Rows(board) = 1..Len(Rows(board))
      /\ Rows(board) # <<>> <=> Len(Rows(board)) > 0
      /\ board.selected \in Int /\ board.confirm \in BoardTarget
  BY <1>1, BoardRowsTyped DEF BoardOK, CursorOK, BoardRecord
<1>3. CASE UNCHANGED boardVars
  BY <1>3, <1>1 DEF boardVars, BoardIInv, MachineOK
<1>4. CASE Observe
  <2>1. /\ chain' \in [{1} -> {"collect", "timer"}]
        /\ UNCHANGED <<machine, sent, prompted>>
    BY <1>4, <1>1 DEF Observe
  <2>2. PICK reached \in BOOLEAN :
          \E b \in Resorted(board, machine.procs, IF reached THEN machine.tasks ELSE {}) :
            board' = Restored(b)
    BY <1>4 DEF Observe
  <2> DEFINE known == IF reached THEN machine.tasks ELSE {}
  <2>3. known \in SUBSET TaskRow /\ IsFiniteSet(known)
    BY <1>1, FS_EmptySet DEF MachineOK
  <2>4. machine.procs \in SUBSET ProcRow /\ IsFiniteSet(machine.procs)
    BY <1>1 DEF MachineOK
  <2>5. PICK b \in Resorted(board, machine.procs, known) : board' = Restored(b)
    BY <2>2
  <2>6. BoardOK(board') /\ board'.confirm = board.confirm
    BY <1>2, <2>3, <2>4, <2>5, ResortedTyped, RestoredHolds
  <2> QED
    BY <1>1, <2>1, <2>6 DEF BoardIInv
<1>5. CASE TimerFires
  <2>1. /\ chain' \in [{1} -> {"collect", "timer"}]
        /\ UNCHANGED <<machine, board, sent, prompted>>
    BY <1>5, <1>1 DEF TimerFires
  <2> QED
    BY <1>1, <2>1 DEF BoardIInv
<1>6. CASE Jump
  <2>1. PICK i \in {1, IF Rows(board) = <<>> THEN 1 ELSE Len(Rows(board))} :
          board' = Remembered([board EXCEPT !.selected = i])
    BY <1>6 DEF Jump
  <2>2. PICK b : b = [board EXCEPT !.selected = i]
    OBVIOUS
  <2>3. b \in BoardRecord /\ b.confirm = board.confirm /\ Rows(b) = Rows(board) /\ b.selected = i
    BY <1>2, <2>1, <2>2 DEF BoardRecord, Rows
  <2>4. Rows(b) # <<>> => b.selected \in DOMAIN Rows(b)
    BY <1>2, <2>1, <2>3
  <2>5. BoardOK(board') /\ board'.confirm = board.confirm
    BY <1>2, <2>1, <2>2, <2>3, <2>4, RememberedHolds
  <2> QED
    BY <1>6, <1>1, <2>5 DEF BoardIInv, Jump, Browse, Free, Stroke
<1>7. CASE ToggleScope
  <2>1. PICK b : b = [board EXCEPT !.scope = IF @ = "tasks" THEN "system" ELSE "tasks",
                                   !.selected = 1]
    OBVIOUS
  <2>2. b \in BoardRecord /\ b.confirm = board.confirm /\ b.selected = 1
    <3>1. PICK sc : sc = IF board.scope = "tasks" THEN "system" ELSE "tasks"
      OBVIOUS
    <3>2. b = [board EXCEPT !.scope = sc, !.selected = 1] /\ sc \in {"tasks", "system"}
      BY <2>1, <3>1
    <3>3. board \in BoardRecord
      BY <1>2
    <3>4. /\ b.scope = sc /\ b.selected = 1 /\ b.confirm = board.confirm
          /\ b.procs = board.procs /\ b.tasks = board.tasks /\ b.sort = board.sort
          /\ b.anchorPID = board.anchorPID /\ b.anchorTask = board.anchorTask
      BY <3>2, <3>3 DEF BoardRecord
    <3>5. b = [procs |-> board.procs, tasks |-> board.tasks, scope |-> sc, sort |-> board.sort,
               selected |-> 1, anchorPID |-> board.anchorPID, anchorTask |-> board.anchorTask,
               confirm |-> board.confirm]
      BY <3>2, <3>3 DEF BoardRecord
    <3>6. b \in BoardRecord
      BY <3>2, <3>3, <3>5 DEF BoardRecord
    <3> QED
      BY <3>4, <3>6
  <2>3. Rows(b) # <<>> => b.selected \in DOMAIN Rows(b)
    BY <2>2, BoardRowsTyped
  <2>4. board' = Remembered(b)
    BY <1>7, <2>1 DEF ToggleScope
  <2>5. BoardOK(board') /\ board'.confirm = board.confirm
    BY <1>2, <2>2, <2>3, <2>4, RememberedHolds
  <2> QED
    BY <1>7, <1>1, <2>5 DEF BoardIInv, ToggleScope, Browse, Free, Stroke
<1>8. CASE CycleSort
  <2>1. PICK c : c = [board EXCEPT !.sort = (@ % 3) + 1]
    OBVIOUS
  <2>2. c \in BoardRecord /\ c.confirm = board.confirm
    <3>1. (board.sort % 3) + 1 \in 1..3
      BY <1>2 DEF BoardRecord
    <3> QED
      BY <3>1, <1>2, <2>1 DEF BoardRecord
  <2>3. /\ ToSet(board.procs) \in SUBSET ProcRow /\ IsFiniteSet(ToSet(board.procs))
        /\ ToSet(board.tasks) \in SUBSET TaskRow /\ IsFiniteSet(ToSet(board.tasks))
    <3>1. board.procs \in Seq(ProcRow) /\ board.tasks \in Seq(TaskRow)
      BY <1>2 DEF BoardRecord
    <3> QED
      BY <3>1, MembersTyped
  <2>4. PICK b \in Resorted(c, ToSet(board.procs), ToSet(board.tasks)) : board' = Restored(b)
    BY <1>8, <2>1 DEF CycleSort
  <2>5. BoardOK(board') /\ board'.confirm = board.confirm
    BY <1>2, <2>2, <2>3, <2>4, ResortedTyped, RestoredHolds
  <2> QED
    BY <1>8, <1>1, <2>5 DEF BoardIInv, CycleSort, Browse, Free, Stroke
<1>9. CASE ArmKill
  <2>1. PICK row : row = Rows(board)[board.selected]
    OBVIOUS
  <2>2. PICK k : k = [system |-> board.scope = "system", subject |-> row.subject, pid |-> row.pid]
    OBVIOUS
  <2>3. ~Refused(row) /\ board' = [board EXCEPT !.confirm = k] /\ board.selected \in DOMAIN Rows(board)
    BY <1>9, <2>1, <2>2 DEF ArmKill
  <2>4. row.subject \in Int /\ row.pid \in Int
    <3>1. CASE board.scope = "system"
      <4>1. Rows(board) \in Seq(ProcRow)
        BY <1>2, <3>1, BoardRowsTyped
      <4>2. row \in ProcRow
        BY <2>1, <2>3, <4>1
      <4>3. row.subject \in Processes /\ row.pid \in Processes
        BY <4>2 DEF ProcRow
      <4> QED
        BY <4>3, ProcessesNumbered
    <3>2. CASE board.scope # "system"
      <4>1. Rows(board) \in Seq(TaskRow)
        BY <1>2, <3>2, BoardRowsTyped
      <4>2. row \in TaskRow
        BY <2>1, <2>3, <4>1
      <4> QED
        BY <4>2, ProcessesNumbered DEF TaskRow
    <3> QED
      BY <3>1, <3>2
  <2>5. k \in BoardTarget /\ Allowed(k)
    BY <2>2, <2>3, <2>4 DEF BoardTarget, Allowed, Refused
  <2>6. BoardOK(board') /\ board'.confirm = k
    BY <1>1, <1>2, <2>3, <2>5, PromptHolds DEF BoardRecord
  <2>7. prompted' = [subject |-> board'.confirm, agreed |-> sent']
    BY <1>9, <1>1, <2>1, <2>2, <2>6 DEF ArmKill, Free
  <2> QED
    BY <1>9, <1>1, <2>6, <2>7 DEF BoardIInv, ArmKill, Free, Stroke
<1>10. NoTarget \in BoardTarget /\ Allowed(NoTarget)
  BY DEF NoTarget, BoardTarget, Allowed
<1>11. CASE Confirm \/ Cancel
  <2>1. /\ board' = [board EXCEPT !.confirm = NoTarget] /\ UNCHANGED <<machine, chain>>
        /\ sent' \subseteq sent \union {board.confirm}
    BY <1>11 DEF Confirm, Cancel, Stroke
  <2>2. BoardOK(board') /\ board'.confirm = NoTarget
    BY <1>1, <1>2, <1>10, <2>1, PromptHolds DEF BoardRecord
  <2>3. prompted' = [subject |-> board'.confirm, agreed |-> sent']
    BY <1>11, <1>1, <2>2 DEF Confirm, Cancel, Agreed, Dismissed
  <2> QED
    BY <1>1, <1>2, <2>1, <2>2, <2>3 DEF BoardIInv
<1>12. CASE Happens
  <2>1. MachineOK(machine')
    BY <1>12, HappensKeeps
  <2> QED
    BY <1>12, <1>1, <2>1 DEF BoardIInv, Happens
<1>13. ASSUME NEW delta \in {-10, -1, 1, 10}, Move(delta)
       PROVE  BoardIInv'
  <2>1. PICK shifted : shifted = [board EXCEPT !.selected = @ + delta]
    OBVIOUS
  <2>2. shifted \in BoardRecord /\ shifted.confirm = board.confirm
    <3>1. board \in BoardRecord /\ delta \in Int
      BY <1>2
    <3>2. board.selected + delta \in Int
      BY <3>1 DEF BoardRecord
    <3>3. PICK v : v = board.selected + delta
      OBVIOUS
    <3>4. shifted = [board EXCEPT !.selected = v] /\ v \in Int
      BY <2>1, <3>2, <3>3
    <3> QED
      BY <3>1, <3>4 DEF BoardRecord
  <2>3. PICK b : b = [shifted EXCEPT !.selected = ClampedRow(shifted)]
    OBVIOUS
  <2>4. ClampedRow(shifted) \in Int /\ (Rows(shifted) # <<>> => ClampedRow(shifted) \in DOMAIN Rows(shifted))
    BY <2>2, ClampedTyped
  <2>5. b \in BoardRecord /\ b.confirm = board.confirm /\ Rows(b) = Rows(shifted)
        /\ b.selected = ClampedRow(shifted)
    BY <2>2, <2>3, <2>4 DEF BoardRecord, Rows
  <2>6. board' = Remembered(b)
    BY <1>13, <2>1, <2>3 DEF Move
  <2>7. BoardOK(board') /\ board'.confirm = board.confirm
    BY <1>2, <2>4, <2>5, <2>6, RememberedHolds
  <2> QED
    BY <1>13, <1>1, <2>7 DEF BoardIInv, Move, Browse, Free, Stroke
<1>14. ASSUME NEW k \in sent, KillResult(k)
       PROVE  BoardIInv'
  <2>1. MachineOK(machine')
    BY <1>14, KillResultKeeps
  <2> QED
    BY <1>14, <1>1, <2>1 DEF BoardIInv, KillResult
<1> QED
  BY <1>3, <1>4, <1>5, <1>6, <1>7, <1>8, <1>9, <1>11, <1>12, <1>13, <1>14 DEF BoardNext

LEMMA BoardHoldsThen == BoardIInv => BoardHolds
<1> SUFFICES ASSUME BoardIInv PROVE BoardHolds
  OBVIOUS
<1>1. Len(chain) = 1
  BY DEF BoardIInv
<1> QED
  BY <1>1 DEF BoardIInv, BoardOK, CursorOK, Allowed, BoardHolds

-------------------------------------------------------------------------------
(* The samplers: a counter that was not taken back is ahead of its baseline *)
(* by what was spent since, and no device by more than it moved since.      *)

Counter == [total : 0..MaxCounter, idle : 0..MaxCounter]
CPURecord == [total : 0..MaxCounter, idle : 0..MaxCounter, warmed : BOOLEAN]
SpentRecord == [total : Nat, idle : Nat, steady : BOOLEAN]
BaseRecord == [value : Nat, at : Nat \union {-1}]

CPUMeasured(j, base, s) ==
  base.warmed /\ s.steady =>
    j.total - base.total = s.total /\ j.idle - base.idle = s.idle
Measured(byte, base, moves) ==
  (base # NoBase /\ byte # Gone) => byte - base.value <= moves

SamplerTypes ==
  /\ now \in Nat /\ jiffies \in Counter /\ cpuBase \in CPURecord /\ spent \in SpentRecord
  /\ bytes \in [Devices -> Nat \union {Gone}] /\ rateBase \in [Devices -> BaseRecord]
  /\ moved \in [Devices -> Nat]

SamplerIInv ==
  /\ SamplerTypes /\ jiffies.idle <= jiffies.total
  /\ CPUMeasured(jiffies, cpuBase, spent)
  /\ \A d \in Devices : Measured(bytes[d], rateBase[d], moved[d])
  /\ SamplesHold

LEMMA SamplerStarts == SamplerInit => SamplerIInv
<1> SUFFICES ASSUME SamplerInit PROVE SamplerIInv
  OBVIOUS
<1>1. SamplerTypes /\ jiffies.idle <= jiffies.total
  BY SamplerAssumption DEF SamplerInit, SamplerTypes, Counter, CPURecord, SpentRecord, BaseRecord,
     NoBase, Gone
<1>2. /\ ~cpuBase.warmed /\ \A d \in Devices : rateBase[d] = NoBase
      /\ shown.cpu = shown.truth
      /\ \A d \in Devices : shown.rate[d].change = 0 /\ shown.moved[d] = 0
  BY DEF SamplerInit, NoRate
<1> QED
  BY <1>1, <1>2 DEF SamplerIInv, CPUMeasured, Measured, SamplesHold

LEMMA WorksKeeps == SamplerIInv /\ Works => SamplerIInv'
<1> SUFFICES ASSUME SamplerIInv, Works PROVE SamplerIInv'
  OBVIOUS
<1>1. PICK t \in 0..2, b \in [Devices -> 0..1] : \E i \in 0..t :
        /\ jiffies.total + t <= MaxCounter
        /\ jiffies' = [total |-> jiffies.total + t, idle |-> jiffies.idle + i]
        /\ spent' = [spent EXCEPT !.total = @ + t, !.idle = @ + i]
        /\ \A d \in Devices : bytes[d] + b[d] <= MaxCounter
        /\ bytes' = [d \in Devices |-> IF bytes[d] = Gone THEN Gone ELSE bytes[d] + b[d]]
        /\ moved' = [d \in Devices |-> moved[d] + IF bytes[d] = Gone THEN 0 ELSE b[d]]
  BY DEF Works
<1>2. PICK i \in 0..t :
        /\ jiffies.total + t <= MaxCounter
        /\ jiffies' = [total |-> jiffies.total + t, idle |-> jiffies.idle + i]
        /\ spent' = [spent EXCEPT !.total = @ + t, !.idle = @ + i]
        /\ bytes' = [d \in Devices |-> IF bytes[d] = Gone THEN Gone ELSE bytes[d] + b[d]]
        /\ moved' = [d \in Devices |-> moved[d] + IF bytes[d] = Gone THEN 0 ELSE b[d]]
  BY <1>1
<1>3. now' = now + 1 /\ UNCHANGED <<cpuBase, rateBase, shown>>
  BY DEF Works
<1>4. /\ SamplerTypes /\ jiffies.idle <= jiffies.total
      /\ CPUMeasured(jiffies, cpuBase, spent)
      /\ \A d \in Devices : Measured(bytes[d], rateBase[d], moved[d])
      /\ SamplesHold
  BY DEF SamplerIInv
<1>5. /\ spent.total \in Nat /\ spent.idle \in Nat
      /\ jiffies.total \in Nat /\ jiffies.idle \in Nat
  BY <1>4 DEF SamplerTypes, SpentRecord, Counter
<1>6. /\ spent' = [total |-> spent.total + t, idle |-> spent.idle + i, steady |-> spent.steady]
      /\ spent.steady \in BOOLEAN
  BY <1>2, <1>4 DEF SamplerTypes, SpentRecord
<1>7. /\ jiffies' \in Counter /\ jiffies'.idle <= jiffies'.total
      /\ jiffies'.total = jiffies.total + t /\ jiffies'.idle = jiffies.idle + i
  BY <1>2, <1>4, <1>5, SamplerAssumption DEF Counter
<1>8. spent' \in SpentRecord
  BY <1>5, <1>6, <1>2 DEF SpentRecord
<1>9. CPUMeasured(jiffies', cpuBase', spent')
  <2>1. cpuBase.total \in Int /\ cpuBase.idle \in Int
    BY <1>4, SamplerAssumption DEF SamplerTypes, CPURecord
  <2> QED
    BY <1>3, <1>4, <1>5, <1>6, <1>7, <2>1 DEF CPUMeasured
<1>10. \A d \in Devices : bytes[d] \in Nat \union {Gone} /\ moved[d] \in Nat /\ b[d] \in 0..1
                          /\ rateBase[d].value \in Nat
  BY <1>4 DEF SamplerTypes, BaseRecord
<1>11. \A d \in Devices : /\ bytes'[d] = IF bytes[d] = Gone THEN Gone ELSE bytes[d] + b[d]
                          /\ moved'[d] = moved[d] + IF bytes[d] = Gone THEN 0 ELSE b[d]
  BY <1>2
<1>12. /\ bytes' \in [Devices -> Nat \union {Gone}] /\ moved' \in [Devices -> Nat]
  BY <1>2, <1>10 DEF Gone
<1>13. \A d \in Devices : Measured(bytes'[d], rateBase'[d], moved'[d])
  BY <1>3, <1>4, <1>10, <1>11 DEF Measured, Gone
<1>14. SamplerTypes'
  BY <1>3, <1>4, <1>7, <1>8, <1>12 DEF SamplerTypes
<1>15. SamplesHold'
  BY <1>3, <1>4 DEF SamplesHold
<1> QED
  BY <1>7, <1>9, <1>13, <1>14, <1>15 DEF SamplerIInv

LEMMA MigratesKeeps == SamplerIInv /\ Migrates => SamplerIInv'
<1> SUFFICES ASSUME SamplerIInv, Migrates PROVE SamplerIInv'
  OBVIOUS
<1>1. /\ jiffies' \in Counter /\ jiffies'.idle <= jiffies'.total
  BY SamplerAssumption DEF Migrates, Counter
<1>2. spent' \in SpentRecord /\ ~spent'.steady
  BY DEF Migrates, SpentRecord, SamplerIInv, SamplerTypes
<1> QED
  BY <1>1, <1>2 DEF SamplerIInv, SamplerTypes, Migrates, CPUMeasured, SamplesHold

LEMMA ReplugsKeeps ==
  ASSUME SamplerIInv, NEW d \in Devices, Replugs(d)
  PROVE  SamplerIInv'
<1>1. bytes' = [bytes EXCEPT ![d] = IF @ = Gone THEN 0 ELSE Gone]
  BY DEF Replugs
<1>2. bytes \in [Devices -> Nat \union {Gone}]
  BY DEF SamplerIInv, SamplerTypes
<1>3. bytes' \in [Devices -> Nat \union {Gone}]
  BY <1>1, <1>2
<1>4. \A e \in Devices : bytes'[e] = bytes[e] \/ bytes'[e] = 0 \/ bytes'[e] = Gone
  BY <1>1, <1>2
<1>5. \A e \in Devices : rateBase[e].value \in Nat /\ moved[e] \in Nat
  BY DEF SamplerIInv, SamplerTypes, BaseRecord
<1>6. \A e \in Devices : Measured(bytes'[e], rateBase[e], moved[e])
  BY <1>4, <1>5 DEF SamplerIInv, Measured
<1> QED
  BY <1>3, <1>6 DEF SamplerIInv, SamplerTypes, Replugs, SamplesHold

LEMMA SampleKeeps == SamplerIInv /\ Sample => SamplerIInv'
<1> SUFFICES ASSUME SamplerIInv, Sample PROVE SamplerIInv'
  OBVIOUS
<1>1. PICK stat \in BOOLEAN, devices \in BOOLEAN :
        LET listed == {d \in Devices : devices /\ bytes[d] # Gone}
        IN  /\ cpuBase' = IF stat THEN NextCPUBase ELSE cpuBase
            /\ rateBase' = [d \in Devices |->
                 IF d \in listed THEN [value |-> bytes[d], at |-> now] ELSE rateBase[d]]
            /\ spent' = IF stat THEN [total |-> 0, idle |-> 0, steady |-> TRUE] ELSE spent
            /\ moved' = [d \in Devices |-> IF d \in listed THEN 0 ELSE moved[d]]
            /\ shown' = [cpu |-> IF stat THEN CPU ELSE NoCPU,
                         truth |-> IF stat /\ cpuBase.warmed /\ spent.total > 0
                                   THEN [idle |-> spent.idle, of |-> spent.total] ELSE NoCPU,
                         steady |-> spent.steady,
                         rate |-> [d \in Devices |-> IF d \in listed THEN Rate(d) ELSE NoRate],
                         moved |-> [d \in Devices |-> IF d \in listed THEN moved[d] ELSE 0]]
            /\ UNCHANGED <<now, breaks, jiffies, bytes>>
  BY DEF Sample
<1> DEFINE listed == {d \in Devices : devices /\ bytes[d] # Gone}
<1>2. /\ cpuBase' = IF stat THEN NextCPUBase ELSE cpuBase
      /\ rateBase' = [d \in Devices |->
           IF d \in listed THEN [value |-> bytes[d], at |-> now] ELSE rateBase[d]]
      /\ spent' = IF stat THEN [total |-> 0, idle |-> 0, steady |-> TRUE] ELSE spent
      /\ moved' = [d \in Devices |-> IF d \in listed THEN 0 ELSE moved[d]]
      /\ UNCHANGED <<now, jiffies, bytes>>
  BY <1>1
<1>3. /\ shown'.cpu = IF stat THEN CPU ELSE NoCPU
      /\ shown'.truth = IF stat /\ cpuBase.warmed /\ spent.total > 0
                        THEN [idle |-> spent.idle, of |-> spent.total] ELSE NoCPU
      /\ shown'.steady = spent.steady
      /\ \A d \in Devices : shown'.rate[d] = IF d \in listed THEN Rate(d) ELSE NoRate
      /\ \A d \in Devices : shown'.moved[d] = IF d \in listed THEN moved[d] ELSE 0
  BY <1>1
<1>4. \A d \in listed : d \in Devices /\ bytes[d] # Gone
  OBVIOUS
<1> HIDE DEF listed
<1>5. /\ SamplerTypes /\ jiffies.idle <= jiffies.total
      /\ CPUMeasured(jiffies, cpuBase, spent)
      /\ \A d \in Devices : Measured(bytes[d], rateBase[d], moved[d])
  BY DEF SamplerIInv
<1>6. /\ jiffies.total \in 0..MaxCounter /\ jiffies.idle \in 0..MaxCounter
      /\ cpuBase.total \in 0..MaxCounter /\ cpuBase.idle \in 0..MaxCounter
      /\ spent.total \in Nat /\ spent.idle \in Nat /\ cpuBase.warmed \in BOOLEAN
  BY <1>5 DEF SamplerTypes, Counter, CPURecord, SpentRecord
<1>7. CPUMeasured(jiffies', cpuBase', spent') /\ cpuBase' \in CPURecord /\ spent' \in SpentRecord
  <2>1. CASE stat
    <3>1. cpuBase' = [total |-> jiffies.total, idle |-> jiffies.idle, warmed |-> TRUE]
      BY <2>1, <1>2 DEF NextCPUBase
    <3>2. spent' = [total |-> 0, idle |-> 0, steady |-> TRUE] /\ jiffies' = jiffies
      BY <2>1, <1>2
    <3> QED
      BY <3>1, <3>2, <1>6, SamplerAssumption DEF CPUMeasured, CPURecord, SpentRecord
  <2>2. CASE ~stat
    BY <2>2, <1>2, <1>5 DEF SamplerTypes
  <2> QED
    BY <2>1, <2>2
<1>8. \A d \in Devices :
        bytes[d] \in Nat \union {Gone} /\ moved[d] \in Nat /\ rateBase[d] \in BaseRecord
        /\ now \in Nat /\ rateBase[d].value \in Nat
  BY <1>5 DEF SamplerTypes, BaseRecord
<1>9. rateBase' \in [Devices -> BaseRecord]
  BY <1>2, <1>4, <1>8 DEF BaseRecord
<1>10. moved' \in [Devices -> Nat]
  BY <1>2, <1>8
<1>11. \A d \in Devices : Measured(bytes'[d], rateBase'[d], moved'[d])
  <2> SUFFICES ASSUME NEW d \in Devices PROVE Measured(bytes[d], rateBase'[d], moved'[d])
    BY <1>2
  <2>1. CASE d \in listed
    <3>1. rateBase'[d] = [value |-> bytes[d], at |-> now] /\ moved'[d] = 0
      BY <2>1, <1>2
    <3> QED
      BY <3>1, <2>1, <1>4, <1>8 DEF Measured
  <2>2. CASE d \notin listed
    BY <2>2, <1>2, <1>5
  <2> QED
    BY <2>1, <2>2
<1>12. shown'.steady => shown'.cpu = shown'.truth
  <2> SUFFICES ASSUME spent.steady, stat PROVE shown'.cpu = shown'.truth
    BY <1>3
  <2>1. CASE ~cpuBase.warmed
    BY <2>1, <1>3 DEF CPU
  <2>2. CASE cpuBase.warmed
    <3>1. jiffies.total - cpuBase.total = spent.total /\ jiffies.idle - cpuBase.idle = spent.idle
      BY <2>2, <1>5 DEF CPUMeasured
    <3>2. (jiffies.idle - cpuBase.idle) % CounterSpan = spent.idle
      <4>1. spent.idle <= MaxCounter
        BY <3>1, <1>6, SamplerAssumption
      <4> QED
        BY <4>1, <3>1, <1>6, SamplerAssumption
    <3>3. jiffies.total <= cpuBase.total <=> ~(spent.total > 0)
      BY <3>1, <1>6, SamplerAssumption
    <3> QED
      BY <2>2, <3>1, <3>2, <3>3, <1>3 DEF CPU
  <2> QED
    BY <2>1, <2>2
<1>13. \A d \in Devices : shown'.rate[d].change <= shown'.moved[d]
  <2> SUFFICES ASSUME NEW d \in Devices PROVE shown'.rate[d].change <= shown'.moved[d]
    OBVIOUS
  <2>1. CASE d \in listed
    <3>1. Rate(d).change <= moved[d]
      <4>1. CASE Rate(d) = NoRate
        BY <4>1, <1>8 DEF NoRate
      <4>2. CASE Rate(d) # NoRate
        <5>1. Rate(d).change = bytes[d] - rateBase[d].value /\ rateBase[d] # NoBase
          BY <4>2 DEF Rate
        <5> QED
          BY <5>1, <2>1, <1>4, <1>5 DEF Measured
      <4> QED
        BY <4>1, <4>2
    <3> QED
      BY <2>1, <3>1, <1>3
  <2>2. CASE d \notin listed
    BY <2>2, <1>3 DEF NoRate
  <2> QED
    BY <2>1, <2>2
<1>14. SamplesHold'
  BY <1>12, <1>13 DEF SamplesHold
<1>15. SamplerTypes'
  BY <1>2, <1>5, <1>7, <1>9, <1>10 DEF SamplerTypes
<1> QED
  BY <1>2, <1>5, <1>7, <1>11, <1>14, <1>15 DEF SamplerIInv

LEMMA SamplerStep == SamplerIInv /\ [SamplerNext]_samplerVars => SamplerIInv'
<1>1. SamplerIInv /\ UNCHANGED samplerVars => SamplerIInv'
  BY DEF samplerVars, SamplerIInv, SamplerTypes, CPUMeasured, Measured, SamplesHold
<1> QED
  BY <1>1, WorksKeeps, MigratesKeeps, ReplugsKeeps, SampleKeeps DEF SamplerNext

-------------------------------------------------------------------------------
(* The monitor: the list is the scope's, in the order asked for, and every  *)
(* row in it is a task's.                                                   *)

TaskList ==
  [id : IDs, name : {TaskName[id] : id \in IDs}, ns : Nat, paused : BOOLEAN, load : Int]
Commands == {"list", "restart", "pause", "resume", "delete"}
AskedCalls == [n : Nat, cmd : Commands, id : IDs \union {0}, stage : {"ask", "act"}]
AnsweredCalls ==
  {a \in [n : Nat, cmd : Commands, id : IDs \union {0}, stage : {"answered"}, ok : BOOLEAN,
          list : SUBSET TaskList, workflows : Nat] : IsFiniteSet(a.list)}
ScreenRecord ==
  [all : SUBSET TaskList, procs : Seq(TaskList), workflows : Nat, chips : Seq(Int), chip : Nat,
   selected : Nat \ {0}, wfSelected : Nat \ {0}, sort : 1..5]

(* The list is that of the chip, once and whole.                            *)
ListOK(s) ==
  /\ s.chip \in DOMAIN s.chips
  /\ ToSet(s.procs) = Filtered(s)
  /\ Len(s.procs) = Cardinality(Filtered(s))
  /\ InOrder(s.procs, Fields[s.sort])
  /\ \A row \in s.all : \E i \in DOMAIN s.chips : s.chips[i] = Chip(row)

ScreenOK(s) ==
  /\ s \in ScreenRecord /\ IsFiniteSet(s.all)
  /\ s.procs # <<>> => s.selected \in DOMAIN s.procs
  /\ s.workflows # 0 => s.wfSelected \in 1..s.workflows
  /\ s.chips # <<>> => ListOK(s)
  /\ s.chips = <<>> => s.procs = <<>>

MonitorIInv ==
  /\ tasks \in SUBSET TaskList /\ IsFiniteSet(tasks)
  /\ calls \subseteq AskedCalls \union AnsweredCalls
  /\ ScreenOK(screen)

-------------------------------------------------------------------------------
(* What is filtered, ordered and sorted is the same set of rows.            *)

LEMMA ChipTyped == \A row \in TaskList : Chip(row) \in Nat
BY DEF TaskList, Chip, Default

LEMMA ByIDLists ==
  ASSUME NEW rows \in SUBSET TaskList, IsFiniteSet(rows)
  PROVE  ByID(rows) \in Seq(rows) /\ ToSet(ByID(rows)) = rows
         /\ Len(ByID(rows)) = Cardinality(rows)
<1> DEFINE f == [r \in rows |-> r.id]
           In(s) == \A i, j \in DOMAIN s : i < j => s[i].id <= s[j].id
<1>1. f \in [rows -> Nat]
  BY MonitorAssumption DEF TaskList, IDs
<1>2. \A r \in rows : f[r] = r.id
  OBVIOUS
<1> HIDE DEF f
<1>3. PICK s \in SetToSeqs(rows) : \A i, j \in DOMAIN s : i < j => f[s[i]] <= f[s[j]]
  BY <1>1, Arranged DEF Listed
<1>4. s \in Seq(rows)
  BY ListsAll
<1>5. In(s)
  BY <1>2, <1>3, <1>4
<1>6. ByID(rows) = CHOOSE o \in SetToSeqs(rows) : In(o)
  BY DEF ByID
<1> HIDE DEF In
<1>7. ByID(rows) \in SetToSeqs(rows)
  BY <1>5, <1>6
<1> QED
  BY <1>7, ListsAll

LEMMA SpacesList ==
  ASSUME NEW rows \in SUBSET TaskList, IsFiniteSet(rows)
  PROVE  /\ Spaces(rows) \in Seq(Nat)
         /\ \A row \in rows : \E i \in DOMAIN Spaces(rows) : Spaces(rows)[i] = Chip(row)
<1> DEFINE X == {Chip(row) : row \in rows}
           g == [r \in rows |-> Chip(r)]
           f == [x \in X |-> x]
           In(s) == \A i, j \in DOMAIN s : i < j => s[i] <= s[j]
<1>1. X \in SUBSET Nat
  BY ChipTyped
<1>2. g \in [rows -> X] /\ \A x \in X : \E r \in rows : g[r] = x
  OBVIOUS
<1>3. \A row \in rows : Chip(row) \in X
  OBVIOUS
<1>4. f \in [X -> Nat] /\ \A x \in X : f[x] = x
  BY <1>1
<1>5. Spaces(rows) = CHOOSE o \in SetToSeqs(X) : In(o)
  BY DEF Spaces
<1> HIDE DEF f, g, X
<1>6. IsFiniteSet(X)
  BY <1>2, ImageIsFinite
<1>7. PICK s \in SetToSeqs(X) : \A i, j \in DOMAIN s : i < j => f[s[i]] <= f[s[j]]
  BY <1>4, <1>6, Arranged DEF Listed
<1>8. s \in Seq(X)
  BY <1>6, ListsAll
<1>9. In(s)
  BY <1>4, <1>7, <1>8
<1> HIDE DEF In
<1>10. Spaces(rows) \in SetToSeqs(X)
  BY <1>5, <1>9
<1>11. Spaces(rows) \in Seq(X) /\ ToSet(Spaces(rows)) = X
  BY <1>6, <1>10, ListsAll
<1>12. \A x \in X : \E i \in DOMAIN Spaces(rows) : Spaces(rows)[i] = x
  BY <1>11 DEF ToSet
<1>13. Spaces(rows) \in Seq(Nat)
  <2>1. PICK sp : sp = Spaces(rows)
    OBVIOUS
  <2>2. sp \in Seq(X)
    BY <1>11, <2>1
  <2>3. Len(sp) \in Nat /\ DOMAIN sp = 1..Len(sp) /\ \A i \in 1..Len(sp) : sp[i] \in Nat
    <3>1. Len(sp) \in Nat /\ DOMAIN sp = 1..Len(sp)
      BY <2>2
    <3>2. \A i \in 1..Len(sp) : sp[i] \in X
      BY <2>2
    <3>3. \A x \in X : x \in Nat
      BY <1>1
    <3> QED
      BY <3>1, <3>2, <3>3
  <2>4. sp = [i \in 1..Len(sp) |-> sp[i]]
    BY <2>2
  <2>5. sp \in Seq(Nat)
    BY <2>3, <2>4
  <2> QED
    BY <2>1, <2>5
<1> QED
  BY <1>3, <1>12, <1>13

LEMMA FilteredTyped ==
  ASSUME NEW s \in ScreenRecord, IsFiniteSet(s.all)
  PROVE  Filtered(s) \in SUBSET TaskList /\ IsFiniteSet(Filtered(s))
<1>1. Filtered(s) \in SUBSET s.all
  BY DEF Filtered
<1>2. IsFiniteSet(Filtered(s))
  BY <1>1, FS_Subset
<1> QED
  BY <1>1, <1>2 DEF ScreenRecord

(* What decides the filter.                                                 *)
LEMMA SameFilter ==
  ASSUME NEW s \in ScreenRecord, NEW r \in ScreenRecord, r.all = s.all, r.chips = s.chips,
         r.chip = s.chip
  PROVE  Filtered(r) = Filtered(s) /\ InWorkflowScope(r) = InWorkflowScope(s)
BY DEF Filtered, InWorkflowScope

(* The order of a set of rows.                                              *)
LEMMA OrdersList ==
  ASSUME NEW rows \in SUBSET TaskList, IsFiniteSet(rows), NEW field, NEW o \in Orders(rows, field)
  PROVE  o \in Seq(TaskList) /\ ToSet(o) = rows /\ Len(o) = Cardinality(rows) /\ InOrder(o, field)
<1>1. o \in SetToSeqs(rows) /\ InOrder(o, field)
  BY DEF Orders
<1>2. o \in Seq(rows) /\ ToSet(o) = rows /\ Len(o) = Cardinality(rows)
  BY <1>1, ListsAll
<1> QED
  BY <1>1, <1>2

(* Where the cursor was and where it goes.                                  *)
Stays(held, r) == Cursor(r) = held \/ \A row \in ToSet(r.procs) : row.id # held

(* Sorting a list that is whole keeps it whole, and the cursor where asked. *)
Entire(s) ==
  /\ s \in ScreenRecord /\ IsFiniteSet(s.all)
  /\ s.procs # <<>> => s.selected \in DOMAIN s.procs
  /\ s.workflows # 0 => s.wfSelected \in 1..s.workflows
  /\ s.chips # <<>> =>
       /\ s.chip \in DOMAIN s.chips
       /\ ToSet(s.procs) = Filtered(s) /\ Len(s.procs) = Cardinality(Filtered(s))
       /\ \A row \in s.all : \E i \in DOMAIN s.chips : s.chips[i] = Chip(row)
  /\ s.chips = <<>> => s.procs = <<>>

LEMMA ScreenIsWhole == \A s : ScreenOK(s) => Entire(s)
BY DEF ScreenOK, Entire, ListOK

LEMMA SortedHolds ==
  ASSUME NEW s, Entire(s), NEW id, NEW r \in Sorted(s, id)
  PROVE  ScreenOK(r) /\ Stays(IF id = 0 THEN Cursor(s) ELSE id, r)
<1> DEFINE held == IF id = 0 THEN Cursor(s) ELSE id
           At(o) == {i \in DOMAIN o : o[i].id = held}
           Sel(o) == IF At(o) = {} THEN s.selected ELSE CHOOSE i \in At(o) : TRUE
<1>1. s \in ScreenRecord /\ s.procs \in Seq(TaskList) /\ s.selected \in Nat \ {0}
  BY DEF Entire, ScreenRecord
<1>2. /\ ToSet(s.procs) \in SUBSET TaskList /\ IsFiniteSet(ToSet(s.procs))
      /\ Len(s.procs) = Cardinality(ToSet(s.procs))
  <2>1. ToSet(s.procs) \in SUBSET TaskList /\ IsFiniteSet(ToSet(s.procs))
    BY <1>1, MembersTyped
  <2>2. CASE s.chips = <<>>
    <3>1. s.procs = <<>>
      BY <2>2 DEF Entire
    <3>2. ToSet(s.procs) = {} /\ Len(s.procs) = 0
      BY <3>1 DEF ToSet
    <3> QED
      BY <2>1, <3>2, FS_EmptySet
  <2>3. CASE s.chips # <<>>
    BY <2>1, <2>3 DEF Entire
  <2> QED
    BY <2>1, <2>2, <2>3
<1>3. PICK o \in Orders(ToSet(s.procs), Fields[s.sort]) :
        r = [s EXCEPT !.procs = o, !.selected = Sel(o)]
  BY DEF Sorted
<1>4. /\ o \in Seq(TaskList) /\ ToSet(o) = ToSet(s.procs) /\ Len(o) = Len(s.procs)
      /\ InOrder(o, Fields[s.sort])
  BY <1>2, OrdersList
<1>5. At(o) \subseteq DOMAIN o /\ (At(o) # {} => Sel(o) \in At(o))
  OBVIOUS
<1>6. \A i \in At(o) : o[i].id = held
  OBVIOUS
<1>7. At(o) = {} => \A i \in DOMAIN o : o[i].id # held
  OBVIOUS
<1>8. At(o) = {} => Sel(o) = s.selected
  OBVIOUS
<1> DEFINE sel == Sel(o)
           at == At(o)
<1>9. r = [s EXCEPT !.procs = o, !.selected = sel]
  BY <1>3
<1>10. at \subseteq DOMAIN o /\ (at # {} => sel \in at) /\ (at = {} => sel = s.selected)
  BY <1>5, <1>8
<1>11. (\A i \in at : o[i].id = held) /\ (at = {} => \A i \in DOMAIN o : o[i].id # held)
  BY <1>6, <1>7
<1> HIDE DEF At, Sel, at, sel
<1>12. DOMAIN o = DOMAIN s.procs /\ DOMAIN o = 1..Len(o) /\ Len(o) \in Nat
  BY <1>1, <1>4
<1>13. sel \in Nat \ {0} /\ (o # <<>> => sel \in DOMAIN o)
  <2>1. CASE at = {}
    <3>1. o # <<>> => s.procs # <<>>
      BY <1>1, <1>4
    <3> QED
      BY <2>1, <3>1, <1>1, <1>10, <1>12 DEF Entire
  <2>2. CASE at # {}
    BY <2>2, <1>10, <1>12
  <2> QED
    BY <2>1, <2>2
<1>14. /\ r \in ScreenRecord /\ r.procs = o /\ r.selected = sel /\ r.all = s.all
       /\ r.chips = s.chips /\ r.chip = s.chip /\ r.workflows = s.workflows
       /\ r.wfSelected = s.wfSelected /\ r.sort = s.sort
  BY <1>1, <1>4, <1>9, <1>13 DEF ScreenRecord
<1>15. Filtered(r) = Filtered(s)
  BY <1>1, <1>14, SameFilter
<1>16. s.chips # <<>> => ListOK(r)
  BY <1>4, <1>14, <1>15 DEF ListOK, Entire
<1>17. s.chips = <<>> => o = <<>>
  BY <1>1, <1>4 DEF Entire
<1>18. ScreenOK(r)
  BY <1>13, <1>14, <1>16, <1>17 DEF ScreenOK, Entire
<1>19. Stays(held, r)
  <2>1. CASE at = {}
    <3>1. \A row \in ToSet(o) : row.id # held
      BY <2>1, <1>11 DEF ToSet
    <3> QED
      BY <3>1, <1>14 DEF Stays
  <2>2. CASE at # {}
    <3>1. sel \in DOMAIN o /\ o[sel].id = held
      BY <2>2, <1>10, <1>11
    <3>2. Cursor(r) = held
      BY <3>1, <1>14 DEF Cursor
    <3> QED
      BY <3>2 DEF Stays
  <2> QED
    BY <2>1, <2>2
<1> QED
  BY <1>18, <1>19

(* Filtering fills the list with the rows of the chip.                      *)
LEMMA FilterHolds ==
  ASSUME NEW s \in ScreenRecord, IsFiniteSet(s.all), s.chips # <<>>, s.chip \in DOMAIN s.chips,
         s.workflows # 0 => s.wfSelected \in 1..s.workflows,
         \A row \in s.all : \E i \in DOMAIN s.chips : s.chips[i] = Chip(row)
  PROVE  Entire(ApplyFilter(s))
<1> DEFINE rows == ByID(Filtered(s))
           sel == IF InWorkflowScope(s) THEN s.selected ELSE Clamped(s.selected, Len(rows))
<1>1. Filtered(s) \in SUBSET TaskList /\ IsFiniteSet(Filtered(s))
  BY FilteredTyped
<1>2. /\ rows \in Seq(Filtered(s)) /\ ToSet(rows) = Filtered(s)
      /\ Len(rows) = Cardinality(Filtered(s))
  BY <1>1, ByIDLists
<1>3. rows \in Seq(TaskList) /\ Len(rows) \in Nat /\ DOMAIN rows = 1..Len(rows)
      /\ (rows # <<>> => Len(rows) > 0)
  BY <1>1, <1>2
<1>4. InWorkflowScope(s) => rows = <<>>
  <2>1. InWorkflowScope(s) => Filtered(s) = {}
    BY DEF Filtered
  <2> QED
    BY <2>1, <1>2, <1>3
<1>5. s.selected \in Nat \ {0}
  BY DEF ScreenRecord
<1>6. sel \in Nat \ {0} /\ (rows # <<>> => sel \in DOMAIN rows)
  BY <1>3, <1>4, <1>5 DEF Clamped
<1>7. PICK r : r = ApplyFilter(s)
  OBVIOUS
<1>8. r = [s EXCEPT !.procs = rows, !.selected = sel]
  BY <1>7 DEF ApplyFilter
<1> HIDE DEF rows, sel
<1>9. /\ r \in ScreenRecord /\ r.procs = rows /\ r.selected = sel /\ r.all = s.all
      /\ r.chips = s.chips /\ r.chip = s.chip /\ r.workflows = s.workflows
      /\ r.wfSelected = s.wfSelected
  BY <1>3, <1>6, <1>8 DEF ScreenRecord
<1>10. Filtered(r) = Filtered(s)
  BY <1>9, SameFilter
<1> QED
  BY <1>2, <1>6, <1>7, <1>9, <1>10 DEF Entire

LEMMA RecomputeHolds ==
  ASSUME NEW s \in ScreenRecord, IsFiniteSet(s.all)
  PROVE  /\ Recompute(s) \in ScreenRecord /\ Recompute(s).all = s.all
         /\ Recompute(s).chips # <<>> /\ Recompute(s).chip \in DOMAIN Recompute(s).chips
         /\ Recompute(s).workflows = s.workflows /\ Recompute(s).wfSelected = s.wfSelected
         /\ \A row \in s.all :
              \E i \in DOMAIN Recompute(s).chips : Recompute(s).chips[i] = Chip(row)
<1> DEFINE sp == Spaces(s.all)
           chips == <<All>> \o sp \o <<Tab>>
           kept == {i \in 1..(Len(chips) - 1) : s.chips # <<>> /\ chips[i] = s.chips[s.chip]}
           chip == IF InWorkflowScope(s) THEN Len(chips)
                   ELSE IF kept = {} THEN 1 ELSE CHOOSE i \in kept : TRUE
<1>1. s.all \in SUBSET TaskList
  BY DEF ScreenRecord
<1>2. sp \in Seq(Nat) /\ \A row \in s.all : \E i \in DOMAIN sp : sp[i] = Chip(row)
  BY <1>1, SpacesList
<1>3. PICK r : r = Recompute(s)
  OBVIOUS
<1>4. r = [s EXCEPT !.chips = chips, !.chip = chip]
  BY <1>3 DEF Recompute
<1> HIDE DEF sp
<1>5. /\ chips \in Seq(Int) /\ Len(chips) = Len(sp) + 2 /\ DOMAIN chips = 1..Len(chips)
      /\ \A i \in DOMAIN sp : chips[i + 1] = sp[i] /\ i + 1 \in DOMAIN chips
      /\ Len(sp) \in Nat
  BY <1>2 DEF All, Tab
<1> HIDE DEF chips
<1>6. kept \subseteq DOMAIN chips /\ (kept # {} => (CHOOSE i \in kept : TRUE) \in kept)
  BY <1>5
<1> HIDE DEF kept
<1>7. chip \in DOMAIN chips
  BY <1>5, <1>6
<1> HIDE DEF chip
<1>8. /\ r \in ScreenRecord /\ r.all = s.all /\ r.chips = chips /\ r.chip = chip
      /\ r.workflows = s.workflows /\ r.wfSelected = s.wfSelected
  <2>1. chip \in Nat /\ chips \in Seq(Int)
    BY <1>5, <1>7
  <2>2. r = [all |-> s.all, procs |-> s.procs, workflows |-> s.workflows, chips |-> chips,
             chip |-> chip, selected |-> s.selected, wfSelected |-> s.wfSelected, sort |-> s.sort]
    BY <1>4 DEF ScreenRecord
  <2> QED
    BY <2>1, <2>2 DEF ScreenRecord
<1>9. \A row \in s.all : \E i \in DOMAIN chips : chips[i] = Chip(row)
  BY <1>2, <1>5
<1>10. chips # <<>>
  BY <1>5
<1> QED
  BY <1>3, <1>7, <1>8, <1>9, <1>10

-------------------------------------------------------------------------------
LEMMA MonitorStarts == MonitorInit => MonitorIInv
<1> SUFFICES ASSUME MonitorInit PROVE MonitorIInv
  OBVIOUS
<1>1. IsFiniteSet(tasks)
  <2> DEFINE f == [id \in IDs |-> Row(id)]
             T == tasks
  <2>1. T = {Row(id) : id \in IDs}
    BY DEF MonitorInit
  <2>2. f \in [IDs -> T] /\ \A t \in T : \E id \in IDs : f[id] = t
    BY <2>1
  <2>3. IsFiniteSet(IDs)
    BY MonitorAssumption DEF IDs
  <2> HIDE DEF f, T
  <2>4. IsFiniteSet(T)
    BY <2>2, <2>3, ImageIsFinite
  <2> QED
    BY <2>4 DEF T
<1>2. \A id \in IDs : Row(id) \in TaskList
  BY MonitorAssumption DEF Row, TaskList, IDs
<1>3. tasks \in SUBSET TaskList
  BY <1>2 DEF MonitorInit
<1>4. calls \subseteq AskedCalls
  BY DEF MonitorInit, AskedCalls, Commands
<1>5. screen \in ScreenRecord /\ IsFiniteSet(screen.all) /\ screen.procs = <<>>
      /\ screen.chips = <<>> /\ screen.workflows = 0
  <2>1. screen = [all |-> {}, procs |-> <<>>, workflows |-> 0, chips |-> <<>>, chip |-> 1,
               selected |-> 1, wfSelected |-> 1, sort |-> 1]
    BY DEF MonitorInit
  <2>2. <<>> \in Seq(TaskList) /\ <<>> \in Seq(Int)
    OBVIOUS
  <2>3. screen \in ScreenRecord
    BY <2>1, <2>2 DEF ScreenRecord
  <2> QED
    BY <2>1, <2>3, FS_EmptySet
<1> QED
  BY <1>1, <1>3, <1>4, <1>5 DEF MonitorIInv, ScreenOK

LEMMA FreeCallIs == FreeCall # {} => (CHOOSE n \in FreeCall : TRUE) \in Nat
BY DEF FreeCall

LEMMA CallTyped ==
  ASSUME calls \subseteq AskedCalls \union AnsweredCalls, NEW cmd \in Commands, NEW id \in IDs \union {0},
         Call(cmd, id)
  PROVE  calls' \subseteq AskedCalls \union AnsweredCalls
<1>1. PICK n : n = CHOOSE m \in FreeCall : TRUE
  OBVIOUS
<1>2. n \in Nat
  BY <1>1, FreeCallIs DEF Call
<1>3. PICK stage : stage = IF cmd = "list" THEN "ask" ELSE "act"
  OBVIOUS
<1>4. calls' = calls \union {[n |-> n, cmd |-> cmd, id |-> id, stage |-> stage]}
  BY <1>1, <1>3 DEF Call
<1>5. [n |-> n, cmd |-> cmd, id |-> id, stage |-> stage] \in AskedCalls
  BY <1>2, <1>3 DEF AskedCalls
<1> QED
  BY <1>4, <1>5

LEMMA CallStages ==
  \A c \in AskedCalls \union AnsweredCalls :
    /\ c.stage = "answered" => c \in AnsweredCalls
    /\ c.stage # "answered" => c \in AskedCalls
BY DEF AskedCalls, AnsweredCalls

LEMMA ServeKeeps ==
  ASSUME MonitorIInv, NEW c \in calls, Serve(c)
  PROVE  MonitorIInv'
<1> DEFINE P == {r \in tasks : ~(r.id = c.id /\ c.cmd = "delete")}
           after(row) == [row EXCEPT !.paused =
                            IF row.id = c.id /\ c.cmd \in {"pause", "resume"}
                            THEN c.cmd = "pause" ELSE @]
           T == {after(row) : row \in P}
           f == [row \in P |-> after(row)]
<1>1. c \in AskedCalls
  BY CallStages DEF MonitorIInv, Serve
<1>2. tasks \in SUBSET TaskList /\ IsFiniteSet(tasks)
  BY DEF MonitorIInv
<1>3. P \in SUBSET tasks /\ IsFiniteSet(P)
  <2>1. P \in SUBSET tasks
    OBVIOUS
  <2> HIDE DEF P
  <2> QED
    BY <1>2, <2>1, FS_Subset
<1>4. \A row \in TaskList : after(row) \in TaskList
  <2> SUFFICES ASSUME NEW row \in TaskList PROVE after(row) \in TaskList
    OBVIOUS
  <2>1. PICK p : p = IF row.id = c.id /\ c.cmd \in {"pause", "resume"}
                     THEN c.cmd = "pause" ELSE row.paused
    OBVIOUS
  <2>2. p \in BOOLEAN
    BY <2>1 DEF TaskList
  <2>3. PICK q : q = [row EXCEPT !.paused = p]
    OBVIOUS
  <2>4. q \in TaskList
    BY <2>2, <2>3 DEF TaskList
  <2> QED
    BY <2>1, <2>3, <2>4
<1>5. T \in SUBSET TaskList
  BY <1>2, <1>4
<1>6. f \in [P -> T] /\ \A t \in T : \E row \in P : f[row] = t
  OBVIOUS
<1>7. tasks' = tasks \/ tasks' = T
  BY DEF Serve
<1> HIDE DEF P, T, f
<1>8. IsFiniteSet(T)
  BY <1>3, <1>6, ImageIsFinite
<1>9. PICK d : d = [c EXCEPT !.stage = "ask"]
  OBVIOUS
<1>10. d \in AskedCalls /\ calls' = (calls \ {c}) \union {d}
  BY <1>1, <1>9 DEF Serve, AskedCalls
<1>11. calls' \subseteq AskedCalls \union AnsweredCalls
  BY <1>10 DEF MonitorIInv
<1> QED
  BY <1>2, <1>5, <1>7, <1>8, <1>11 DEF MonitorIInv, Serve

LEMMA AnswerKeeps ==
  ASSUME MonitorIInv, NEW c \in calls, Answer(c)
  PROVE  MonitorIInv'
<1>1. c \in AskedCalls
  BY CallStages DEF MonitorIInv, Answer
<1>2. PICK reached \in BOOLEAN, w \in {0, WorkflowRows} :
        calls' = (calls \ {c}) \union
         {[n |-> c.n, cmd |-> c.cmd, id |-> c.id, stage |-> "answered",
           ok |-> reached, list |-> IF reached THEN tasks ELSE {},
           workflows |-> IF reached THEN w ELSE 0]}
  BY DEF Answer
<1>3. PICK l, v : l = (IF reached THEN tasks ELSE {}) /\ v = IF reached THEN w ELSE 0
  OBVIOUS
<1>4. l \in SUBSET TaskList /\ IsFiniteSet(l) /\ v \in Nat
  BY <1>3, FS_EmptySet, MonitorAssumption DEF MonitorIInv
<1>5. PICK a : a = [n |-> c.n, cmd |-> c.cmd, id |-> c.id, stage |-> "answered",
                    ok |-> reached, list |-> l, workflows |-> v]
  OBVIOUS
<1>6. a \in AnsweredCalls
  BY <1>1, <1>4, <1>5 DEF AskedCalls, AnsweredCalls
<1>7. calls' = (calls \ {c}) \union {a}
  BY <1>2, <1>3, <1>5
<1>8. calls' \subseteq AskedCalls \union AnsweredCalls
  BY <1>6, <1>7 DEF MonitorIInv
<1> QED
  BY <1>8 DEF MonitorIInv, Answer

LEMMA DeliverKeeps ==
  ASSUME MonitorIInv, NEW c \in calls, Deliver(c)
  PROVE  MonitorIInv' /\ (Stays(Cursor(screen), screen') \/ Cursor(screen) = 0)
<1>1. c \in AnsweredCalls /\ c.list \in SUBSET TaskList /\ IsFiniteSet(c.list) /\ c.workflows \in Nat
  <2>1. c \in AnsweredCalls
    BY CallStages DEF MonitorIInv, Deliver
  <2> QED
    BY <2>1 DEF AnsweredCalls
<1>2. /\ tasks \in SUBSET TaskList /\ IsFiniteSet(tasks) /\ ScreenOK(screen)
      /\ calls' \subseteq AskedCalls \union AnsweredCalls /\ tasks' = tasks
  BY DEF MonitorIInv, Deliver
<1>3. CASE ~c.ok
  <2>1. screen' = screen
    BY <1>3 DEF Deliver
  <2> QED
    BY <1>2, <2>1 DEF MonitorIInv, Stays
<1>4. CASE c.ok
  <2>1. PICK l : l = [screen EXCEPT !.all = c.list, !.workflows = c.workflows,
                                    !.wfSelected = Clamped(@, c.workflows)]
    OBVIOUS
  <2>2. screen \in ScreenRecord
    BY <1>2 DEF ScreenOK
  <2>3. PICK w : w = Clamped(screen.wfSelected, c.workflows)
    OBVIOUS
  <2>4. w \in Nat \ {0} /\ (c.workflows # 0 => w \in 1..c.workflows)
    BY <1>1, <2>2, <2>3 DEF Clamped, ScreenRecord
  <2>5. l = [screen EXCEPT !.all = c.list, !.workflows = c.workflows, !.wfSelected = w]
    BY <2>1, <2>3
  <2>6. /\ l \in ScreenRecord /\ l.all = c.list /\ l.workflows = c.workflows /\ l.wfSelected = w
    BY <1>1, <2>2, <2>4, <2>5 DEF ScreenRecord
  <2>7. PICK m : m = Recompute(l)
    OBVIOUS
  <2>8. /\ m \in ScreenRecord /\ m.all = c.list /\ m.chips # <<>> /\ m.chip \in DOMAIN m.chips
        /\ m.workflows = c.workflows /\ m.wfSelected = w
        /\ \A row \in m.all : \E i \in DOMAIN m.chips : m.chips[i] = Chip(row)
    BY <1>1, <2>6, <2>7, RecomputeHolds
  <2>9. Entire(ApplyFilter(m))
    BY <1>1, <2>4, <2>8, FilterHolds
  <2>10. screen' \in Sorted(ApplyFilter(m), Cursor(screen))
    BY <1>4, <2>1, <2>7 DEF Deliver
  <2>11. ScreenOK(screen')
         /\ Stays(IF Cursor(screen) = 0 THEN Cursor(ApplyFilter(m)) ELSE Cursor(screen), screen')
    BY <2>9, <2>10, SortedHolds
  <2> QED
    BY <1>2, <2>11 DEF MonitorIInv
<1> QED
  BY <1>3, <1>4

LEMMA KeySortKeeps ==
  ASSUME MonitorIInv, KeySort
  PROVE  MonitorIInv' /\ Stays(Cursor(screen), screen')
<1>1. ScreenOK(screen) /\ Entire(screen)
  BY ScreenIsWhole DEF MonitorIInv
<1>2. PICK k : k = (screen.sort % Len(Fields)) + 1
  OBVIOUS
<1>3. screen \in ScreenRecord /\ k \in 1..5
  <2>1. screen \in ScreenRecord /\ screen.sort \in 1..5
    BY <1>1 DEF ScreenOK, ScreenRecord
  <2>2. Len(Fields) = 5
    BY DEF Fields
  <2> QED
    BY <1>2, <2>1, <2>2
<1>4. PICK s : s = [screen EXCEPT !.sort = k]
  OBVIOUS
<1>5. /\ s \in ScreenRecord /\ s.all = screen.all /\ s.procs = screen.procs
      /\ s.selected = screen.selected /\ s.workflows = screen.workflows
      /\ s.wfSelected = screen.wfSelected /\ s.chips = screen.chips /\ s.chip = screen.chip
  BY <1>3, <1>4 DEF ScreenRecord
<1>6. Filtered(s) = Filtered(screen)
  BY <1>3, <1>5, SameFilter
<1>7. Entire(s)
  BY <1>1, <1>5, <1>6 DEF Entire
<1>8. Cursor(s) = Cursor(screen)
  BY <1>5 DEF Cursor
<1>9. screen' \in Sorted(s, 0)
  BY <1>2, <1>4 DEF KeySort
<1>10. ScreenOK(screen') /\ Stays(Cursor(screen), screen')
  BY <1>7, <1>8, <1>9, SortedHolds
<1> QED
  BY <1>10 DEF KeySort, Pressed, MonitorIInv

(* A cursor that is clamped to the list is on a row of it.                  *)
LEMMA RowClamped ==
  ASSUME NEW t, ScreenOK(t), NEW r, r = [t EXCEPT !.selected = Clamped(@, Len(t.procs))]
  PROVE  ScreenOK(r)
<1>1. /\ t \in ScreenRecord /\ t.selected \in Nat \ {0} /\ Len(t.procs) \in Nat
      /\ DOMAIN t.procs = 1..Len(t.procs) /\ (t.procs # <<>> => Len(t.procs) > 0)
  BY DEF ScreenOK, ScreenRecord
<1>2. PICK i : i = Clamped(t.selected, Len(t.procs))
  OBVIOUS
<1>3. i \in Nat \ {0} /\ (t.procs # <<>> => i \in DOMAIN t.procs)
  BY <1>1, <1>2 DEF Clamped
<1>4. /\ r \in ScreenRecord /\ r.procs = t.procs /\ r.selected = i /\ r.all = t.all
      /\ r.chips = t.chips /\ r.chip = t.chip /\ r.workflows = t.workflows
      /\ r.wfSelected = t.wfSelected /\ r.sort = t.sort
  BY <1>1, <1>2, <1>3 DEF ScreenRecord
<1>5. Filtered(r) = Filtered(t)
  BY <1>1, <1>4, SameFilter
<1> QED
  BY <1>3, <1>4, <1>5 DEF ScreenOK, ListOK

LEMMA KeyChipKeeps ==
  ASSUME MonitorIInv, NEW delta \in {-1, 1}, KeyChip(delta)
  PROVE  MonitorIInv'
<1>1. ScreenOK(screen) /\ ListOK(screen) /\ screen \in ScreenRecord /\ screen.chips # <<>>
  BY DEF MonitorIInv, KeyChip, ScreenOK
<1>2. PICK k : k = ((screen.chip - 1 + delta) % Len(screen.chips)) + 1
  OBVIOUS
<1>3. k \in DOMAIN screen.chips /\ k \in Nat
  <2>1. screen.chips \in Seq(Int) /\ screen.chip \in Nat
    BY <1>1 DEF ScreenRecord
  <2>2. PICK n : n = Len(screen.chips)
    OBVIOUS
  <2>3. n \in Nat /\ n > 0 /\ DOMAIN screen.chips = 1..n
    BY <1>1, <2>1, <2>2
  <2>4. PICK x : x = screen.chip - 1 + delta
    OBVIOUS
  <2>5. x \in Int
    BY <2>1, <2>4
  <2>6. x % n \in 0..(n - 1)
    BY <2>3, <2>5
  <2> QED
    BY <1>2, <2>2, <2>3, <2>4, <2>6
<1>4. PICK s : s = [screen EXCEPT !.chip = k]
  OBVIOUS
<1>5. /\ s \in ScreenRecord /\ s.all = screen.all /\ s.chips = screen.chips /\ s.chip = k
      /\ s.workflows = screen.workflows /\ s.wfSelected = screen.wfSelected
  BY <1>1, <1>3, <1>4 DEF ScreenRecord
<1>6. Entire(ApplyFilter(s))
  BY <1>1, <1>3, <1>5, FilterHolds DEF ScreenOK, ListOK
<1>7. PICK t \in Sorted(ApplyFilter(s), 0) :
        screen' = [t EXCEPT !.selected = Clamped(@, Len(t.procs))]
  BY <1>2, <1>4 DEF KeyChip
<1>8. ScreenOK(t)
  BY <1>6, <1>7, SortedHolds
<1>9. ScreenOK(screen')
  BY <1>7, <1>8, RowClamped
<1> QED
  BY <1>9 DEF KeyChip, Pressed, MonitorIInv

(* The keys that move one of the two cursors.                               *)
LEMMA KeyWorkflowKeeps ==
  ASSUME MonitorIInv, NEW delta \in {-1, 1}, KeyWorkflow(delta)
  PROVE  MonitorIInv'
<1>1. ScreenOK(screen) /\ screen \in ScreenRecord
  BY DEF MonitorIInv, ScreenOK
<1>2. PICK k : k = screen.wfSelected + delta
  OBVIOUS
<1>3. screen' = [screen EXCEPT !.wfSelected = k] /\ k \in 1..screen.workflows
  BY <1>2 DEF KeyWorkflow
<1>4. k \in Nat \ {0}
  BY <1>1, <1>3 DEF ScreenRecord
<1>5. PICK s : s = screen'
  OBVIOUS
<1>6. /\ s \in ScreenRecord /\ s.all = screen.all /\ s.procs = screen.procs
      /\ s.selected = screen.selected /\ s.workflows = screen.workflows
      /\ s.wfSelected = k /\ s.chips = screen.chips /\ s.chip = screen.chip
      /\ s.sort = screen.sort
  BY <1>1, <1>3, <1>4, <1>5 DEF ScreenRecord
<1>7. Filtered(s) = Filtered(screen)
  BY <1>1, <1>6, SameFilter
<1>8. ScreenOK(s)
  BY <1>1, <1>3, <1>6, <1>7 DEF ScreenOK, ListOK
<1> QED
  BY <1>5, <1>8 DEF MonitorIInv, KeyWorkflow, Pressed

LEMMA KeyMoveKeeps ==
  ASSUME MonitorIInv, NEW delta \in {-1, 1}, KeyMove(delta)
  PROVE  MonitorIInv'
<1>1. ScreenOK(screen) /\ screen \in ScreenRecord
  BY DEF MonitorIInv, ScreenOK
<1>2. PICK k : k = screen.selected + delta
  OBVIOUS
<1>3. screen' = [screen EXCEPT !.selected = k] /\ k \in DOMAIN screen.procs
  BY <1>2 DEF KeyMove
<1>4. k \in Nat \ {0}
  BY <1>1, <1>3 DEF ScreenRecord
<1>5. PICK s : s = screen'
  OBVIOUS
<1>6. /\ s \in ScreenRecord /\ s.all = screen.all /\ s.procs = screen.procs
      /\ s.selected = k /\ s.workflows = screen.workflows
      /\ s.wfSelected = screen.wfSelected /\ s.chips = screen.chips /\ s.chip = screen.chip
      /\ s.sort = screen.sort
  BY <1>1, <1>3, <1>4, <1>5 DEF ScreenRecord
<1>7. Filtered(s) = Filtered(screen)
  BY <1>1, <1>6, SameFilter
<1>8. ScreenOK(s)
  BY <1>1, <1>3, <1>6, <1>7 DEF ScreenOK, ListOK
<1> QED
  BY <1>5, <1>8 DEF MonitorIInv, KeyMove, Pressed

LEMMA KeyActionKeeps ==
  ASSUME MonitorIInv, NEW cmd \in {"restart", "pause", "resume", "delete"}, KeyAction(cmd)
  PROVE  MonitorIInv'
<1>1. ScreenOK(screen) /\ screen.procs \in Seq(TaskList)
  BY DEF MonitorIInv, ScreenOK, ScreenRecord
<1>2. PICK row : row = screen.procs[screen.selected]
  OBVIOUS
<1>3. row \in TaskList
  BY <1>1, <1>2 DEF ScreenOK, KeyAction
<1>4. Call(cmd, row.id) /\ row.id \in IDs /\ cmd \in Commands
  BY <1>2, <1>3 DEF KeyAction, TaskList, Commands
<1>5. calls' \subseteq AskedCalls \union AnsweredCalls
  BY <1>4, CallTyped DEF MonitorIInv
<1> QED
  BY <1>5 DEF MonitorIInv, KeyAction, Pressed

LEMMA ChangeKeeps ==
  ASSUME MonitorIInv, Change
  PROVE  MonitorIInv'
<1>1. tasks \in SUBSET TaskList /\ IsFiniteSet(tasks)
  BY DEF MonitorIInv
<1>2. PICK id \in IDs :
        \/ tasks' = {row \in tasks : row.id # id}
        \/ tasks' = tasks \union {Row(id)}
        \/ tasks' = {IF row.id = id THEN [row EXCEPT !.load = 1 - @] ELSE row : row \in tasks}
  BY DEF Change
<1>3. tasks' \in SUBSET TaskList /\ IsFiniteSet(tasks')
  <2>1. CASE tasks' = {row \in tasks : row.id # id}
    <3>1. tasks' \in SUBSET tasks
      BY <2>1
    <3> QED
      BY <1>1, <3>1, FS_Subset
  <2>2. CASE tasks' = tasks \union {Row(id)}
    <3>1. Row(id) \in TaskList
      BY MonitorAssumption DEF Row, TaskList, IDs
    <3>2. IsFiniteSet(tasks \union {Row(id)})
      BY <1>1, FS_AddElement
    <3> QED
      BY <1>1, <2>2, <3>1, <3>2
  <2>3. CASE tasks' = {IF row.id = id THEN [row EXCEPT !.load = 1 - @] ELSE row : row \in tasks}
    <3> DEFINE after(row) == IF row.id = id THEN [row EXCEPT !.load = 1 - @] ELSE row
               T == tasks'
               f == [row \in tasks |-> after(row)]
    <3>1. \A row \in TaskList : after(row) \in TaskList
      BY DEF TaskList
    <3>2. T = {after(row) : row \in tasks}
      BY <2>3
    <3>3. T \in SUBSET TaskList
      BY <1>1, <3>1, <3>2
    <3>4. f \in [tasks -> T] /\ \A t \in T : \E row \in tasks : f[row] = t
      BY <3>2
    <3> HIDE DEF T, f
    <3>5. IsFiniteSet(T)
      BY <1>1, <3>4, ImageIsFinite
    <3> QED
      BY <3>3, <3>5 DEF T
  <2> QED
    BY <1>2, <2>1, <2>2, <2>3
<1> QED
  BY <1>3 DEF MonitorIInv, Change

LEMMA MonitorStep == MonitorIInv /\ [MonitorNext]_monitorVars => MonitorIInv'
<1> SUFFICES ASSUME MonitorIInv, [MonitorNext]_monitorVars PROVE MonitorIInv'
  OBVIOUS
<1>1. CASE UNCHANGED monitorVars
  BY <1>1 DEF monitorVars, MonitorIInv
<1>2. CASE Refresh
  <2>1. calls' \subseteq AskedCalls \union AnsweredCalls
    BY <1>2, CallTyped DEF Refresh, MonitorIInv, Commands
  <2> QED
    BY <1>2, <2>1 DEF Refresh, MonitorIInv
<1>3. ASSUME NEW c \in calls, Serve(c) \/ Answer(c) \/ Deliver(c) PROVE MonitorIInv'
  BY <1>3, ServeKeeps, AnswerKeeps, DeliverKeeps
<1>4. ASSUME NEW delta \in {-1, 1}, KeyChip(delta) \/ KeyWorkflow(delta) \/ KeyMove(delta)
      PROVE  MonitorIInv'
  BY <1>4, KeyChipKeeps, KeyWorkflowKeeps, KeyMoveKeeps
<1>5. CASE KeySort
  BY <1>5, KeySortKeeps
<1>6. CASE Change
  BY <1>6, ChangeKeeps
<1>7. ASSUME NEW cmd \in {"restart", "pause", "resume", "delete"}, KeyAction(cmd)
      PROVE  MonitorIInv'
  BY <1>7, KeyActionKeeps
<1> QED
  BY <1>1, <1>2, <1>3, <1>4, <1>5, <1>6, <1>7 DEF MonitorNext

LEMMA MonitorHoldsThen == MonitorIInv => MonitorHolds
BY DEF MonitorIInv, ScreenOK, ListOK, MonitorHolds

LEMMA CursorStep ==
  ASSUME MonitorIInv, MonitorIInv', KeySort \/ \E c \in calls : Deliver(c)
  PROVE  \/ Cursor(screen') = Cursor(screen)
         \/ \A row \in ToSet(screen'.procs) : row.id # Cursor(screen)
<1>1. Stays(Cursor(screen), screen') \/ Cursor(screen) = 0
  BY KeySortKeeps, DeliverKeeps
<1>2. CASE Cursor(screen) = 0
  <2>1. screen'.procs \in Seq(TaskList)
    BY DEF MonitorIInv, ScreenOK, ScreenRecord
  <2>2. ToSet(screen'.procs) \in SUBSET TaskList
    BY <2>1, MembersTyped
  <2>3. \A row \in TaskList : row.id # 0
    BY MonitorAssumption DEF TaskList, IDs
  <2> QED
    BY <1>2, <2>2, <2>3
<1> QED
  BY <1>1, <1>2 DEF Stays

-------------------------------------------------------------------------------
(* Sequences of blocks laid one after the other.                            *)

(* g[i] is what the first i blocks make.                                    *)
Laid(ss, X, g) ==
  /\ ss \in Seq(Seq(X)) /\ g \in [0..Len(ss) -> Seq(X)] /\ g[0] = <<>>
  /\ \A i \in 1..Len(ss) : Joins(g[i], g[i - 1], ss[i])

LEMMA Flattened ==
  ASSUME NEW X, NEW ss \in Seq(Seq(X))
  PROVE  \E g : Laid(ss, X, g) /\ FlattenSeq(ss) = g[Len(ss)]
<1> DEFINE L == Len(ss)
           step == [n \in Nat |-> [y \in Seq(X) |-> IF n + 1 \in 1..L THEN y \o ss[n + 1] ELSE y]]
           flat(f) == [i \in 1..L |-> IF i = 1 THEN ss[i] ELSE f[i - 1] \o ss[i]]
<1>1. L \in Nat /\ \A i \in 1..L : ss[i] \in Seq(X)
  OBVIOUS
<1>2. step \in [Nat -> [Seq(X) -> Seq(X)]]
  BY <1>1
<1>3. <<>> \in Seq(X)
  OBVIOUS
<1>4. \A n \in Nat, y \in Seq(X) : n + 1 \in 1..L => step[n][y] = y \o ss[n + 1]
  OBVIOUS
<1> HIDE DEF step
<1>5. PICK h \in [Nat -> Seq(X)] : h[0] = <<>> /\ \A n \in Nat : h[n + 1] = step[n][h[n]]
  <2>1. PICK Y, e : Y = Seq(X) /\ e = <<>>
    OBVIOUS
  <2>2. Steps(step, Y) /\ e \in Y
    BY <1>2, <1>3, <2>1 DEF Steps
  <2>3. \E g : Recursion(g, Y, e, step)
    BY <2>2, Recursed
  <2> QED
    BY <2>1, <2>3 DEF Recursion
<1>6. \A i \in 1..L : h[i] = h[i - 1] \o ss[i]
  <2> SUFFICES ASSUME NEW i \in 1..L PROVE h[i] = h[i - 1] \o ss[i]
    OBVIOUS
  <2>1. PICK k \in Nat : k + 1 = i /\ i - 1 = k
    <3>1. i - 1 \in Nat /\ (i - 1) + 1 = i
      BY <1>1
    <3> QED
      BY <3>1
  <2>2. h[k] \in Seq(X) /\ h[k + 1] = step[k][h[k]]
    BY <1>5
  <2>3. step[k][h[k]] = h[k] \o ss[k + 1]
    BY <1>4, <2>1, <2>2
  <2> QED
    BY <2>1, <2>2, <2>3
<1>10. 1 \in 1..L => h[1] = ss[1]
  <2> SUFFICES ASSUME 1 \in 1..L PROVE h[1] = ss[1]
    OBVIOUS
  <2>1. h[1] = h[0] \o ss[1]
    <3>1. 1 - 1 = 0
      OBVIOUS
    <3> QED
      BY <3>1, <1>6
  <2>2. h[0] = <<>> /\ ss[1] \in Seq(X)
    BY <1>1, <1>5
  <2>3. \A t \in Seq(X) : <<>> \o t = t
    OBVIOUS
  <2> QED
    BY <2>1, <2>2, <2>3
<1> DEFINE g == [i \in 0..L |-> h[i]]
<1>7. Laid(ss, X, g)
  <2>1. \A i \in 0..L : g[i] = h[i]
    OBVIOUS
  <2>2. g \in [0..L -> Seq(X)]
    BY <1>1, <1>5
  <2> HIDE DEF g
  <2>3. g[0] = <<>>
    BY <1>1, <1>5, <2>1
  <2>4. \A i \in 1..L : g[i] = g[i - 1] \o ss[i]
    <3> SUFFICES ASSUME NEW i \in 1..L PROVE g[i] = g[i - 1] \o ss[i]
      OBVIOUS
    <3>1. i \in 0..L /\ i - 1 \in 0..L
      BY <1>1
    <3> QED
      BY <3>1, <2>1, <1>6
  <2> QED
    BY <2>2, <2>3, <2>4 DEF Laid, Joins
<1>8. FlattenSeq(ss) = h[L]
  <2>1. CASE L = 0
    BY <2>1, <1>5 DEF FlattenSeq
  <2>2. CASE L # 0
    <3> DEFINE f == CHOOSE f : f = flat(f)
    <3>1. FlattenSeq(ss) = f[L]
      BY <2>2 DEF FlattenSeq
    <3> DEFINE k == [i \in 1..L |-> h[i]]
    <3>2. k = flat(k)
      <4>1. \A i \in 1..L : k[i] = IF i = 1 THEN ss[i] ELSE k[i - 1] \o ss[i]
        <5> SUFFICES ASSUME NEW i \in 1..L PROVE k[i] = IF i = 1 THEN ss[i] ELSE k[i - 1] \o ss[i]
          OBVIOUS
        <5>1. CASE i = 1
          BY <5>1, <1>10
        <5>2. CASE i # 1
          <6>1. i - 1 \in 1..L
            BY <5>2, <1>1
          <6> QED
            BY <5>2, <6>1, <1>6
        <5> QED
          BY <5>1, <5>2
      <4> QED
        BY <4>1
    <3>3. f = flat(f)
      <4> HIDE DEF k, flat
      <4> QED
        BY <3>2
    <3> HIDE DEF f, k
    <3> DEFINE S == {n \in Nat : n + 1 \in 1..L => f[n + 1] = h[n + 1]}
    <3>4. 0 \in S
      <4>1. 1 \in 1..L
        BY <2>2, <1>1
      <4>2. f[1] = ss[1]
        BY <3>3, <4>1
      <4>3. h[1] = ss[1]
        BY <4>1, <1>10
      <4> QED
        BY <4>2, <4>3
    <3>5. ASSUME NEW n \in S PROVE n + 1 \in S
      <4> SUFFICES ASSUME n + 2 \in 1..L PROVE f[n + 2] = h[n + 2]
        OBVIOUS
      <4>1. n + 1 \in 1..L /\ n \in Nat
        BY <1>1
      <4>2. f[n + 1] = h[n + 1]
        BY <4>1
      <4>3. f[n + 2] = f[n + 1] \o ss[n + 2]
        <5>1. n + 2 # 1 /\ (n + 2) - 1 = n + 1
          BY <4>1
        <5> QED
          BY <3>3, <4>1, <5>1
      <4>4. h[n + 2] = h[n + 1] \o ss[n + 2]
        <5>1. (n + 2) - 1 = n + 1
          BY <4>1
        <5> QED
          BY <1>6, <5>1
      <4> QED
        BY <4>2, <4>3, <4>4
    <3>6. S = Nat
      <4>1. S \in SUBSET Nat
        OBVIOUS
      <4> HIDE DEF S
      <4> QED
        BY <3>4, <3>5, <4>1, Inducted
    <3>7. f[L] = h[L]
      <4>1. L - 1 \in Nat /\ (L - 1) + 1 = L /\ L \in 1..L
        BY <2>2, <1>1
      <4>2. L - 1 \in S
        BY <3>6, <4>1
      <4> QED
        BY <4>1, <4>2
    <3> QED
      BY <3>1, <3>7
  <2> QED
    BY <2>1, <2>2
<1>9. g[L] = h[L]
  BY <1>1
<1> HIDE DEF g
<1> QED
  BY <1>7, <1>8, <1>9

(* Every row of a block is one of the whole, and every row of the whole is  *)
(* one of a block.                                                          *)
Size(ss, i) == Len(ss[i])
At(ss, i, j) == ss[i][j]
Placed(ss, g, n) ==
  /\ \A i \in 1..n : \A j \in 1..Size(ss, i) :
       /\ Size(g, i - 1) + j \in 1..Size(g, n)
       /\ At(g, n, Size(g, i - 1) + j) = At(ss, i, j)
  /\ \A k \in 1..Size(g, n) : \E i \in 1..n : \E j \in 1..Size(ss, i) : k = Size(g, i - 1) + j

LEMMA Joined ==
  ASSUME NEW X, NEW a \in Seq(X), NEW b \in Seq(X), NEW c, Joins(c, a, b)
  PROVE  /\ Len(a) \in Nat /\ Len(b) \in Nat /\ Len(c) = Len(a) + Len(b)
         /\ \A k \in 1..Len(a) : c[k] = a[k]
         /\ \A k \in 1..Len(b) : c[Len(a) + k] = b[k]
BY DEF Joins

LEMMA LaidTyped ==
  ASSUME NEW X, NEW ss, NEW g, Laid(ss, X, g)
  PROVE  /\ Len(ss) \in Nat
         /\ \A n \in 0..Len(ss) : g[n] \in Seq(X)
         /\ \A p \in 1..Len(ss) : ss[p] \in Seq(X) /\ Joins(g[p], g[p - 1], ss[p])
<1>1. ss \in Seq(Seq(X)) /\ g \in [0..Len(ss) -> Seq(X)]
  BY DEF Laid
<1>2. Len(ss) \in Nat /\ \A p \in 1..Len(ss) : ss[p] \in Seq(X)
  BY <1>1
<1>3. \A p \in 1..Len(ss) : Joins(g[p], g[p - 1], ss[p])
  BY DEF Laid
<1> QED
  BY <1>1, <1>2, <1>3

LEMMA LaidAt ==
  ASSUME NEW X, NEW ss, NEW g, Laid(ss, X, g), NEW n \in Nat, NEW p \in Nat, p = n + 1,
         p <= Len(ss)
  PROVE  /\ p - 1 = n /\ g[n] \in Seq(X) /\ ss[p] \in Seq(X)
         /\ Size(g, n) \in Nat /\ Size(ss, p) \in Nat /\ Size(g, p) = Size(g, n) + Size(ss, p)
         /\ \A k \in 1..Size(g, n) : At(g, p, k) = At(g, n, k)
         /\ \A k \in 1..Size(ss, p) : At(g, p, Size(g, n) + k) = At(ss, p, k)
<1>1. p - 1 = n
  OBVIOUS
<1>2. Len(ss) \in Nat
  BY LaidTyped
<1>3. n \in 0..Len(ss) /\ p \in 1..Len(ss)
  BY <1>2
<1>4. g[n] \in Seq(X)
  BY <1>3, LaidTyped
<1>5. ss[p] \in Seq(X) /\ Joins(g[p], g[p - 1], ss[p])
  BY <1>3, LaidTyped
<1>6. Joins(g[p], g[n], ss[p])
  BY <1>1, <1>5
<1>7. PICK a, b, c : a = g[n] /\ b = ss[p] /\ c = g[p]
  OBVIOUS
<1>8. /\ Len(a) \in Nat /\ Len(b) \in Nat /\ Len(c) = Len(a) + Len(b)
      /\ \A k \in 1..Len(a) : c[k] = a[k]
      /\ \A k \in 1..Len(b) : c[Len(a) + k] = b[k]
  <2>1. a \in Seq(X) /\ b \in Seq(X) /\ Joins(c, a, b)
    BY <1>4, <1>5, <1>6, <1>7
  <2> QED
    BY <2>1, Joined
<1> QED
  BY <1>1, <1>4, <1>5, <1>7, <1>8 DEF Size, At

LEMMA PlacedNext ==
  ASSUME NEW X, NEW ss, NEW g, Laid(ss, X, g), NEW n \in Nat, NEW p \in Nat, p = n + 1,
         p <= Len(ss), Placed(ss, g, n)
  PROVE  Placed(ss, g, p)
<1>2. p - 1 = n
  OBVIOUS
<1>3. /\ Size(g, p) = Size(g, n) + Size(ss, p) /\ Size(g, n) \in Nat /\ Size(ss, p) \in Nat
      /\ \A k \in 1..Size(g, n) : At(g, p, k) = At(g, n, k)
      /\ \A k \in 1..Size(ss, p) : At(g, p, Size(g, n) + k) = At(ss, p, k)
  BY LaidAt
<1>4. ASSUME NEW i \in 1..p, NEW j \in 1..Size(ss, i)
      PROVE  Size(g, i - 1) + j \in 1..Size(g, p) /\ At(g, p, Size(g, i - 1) + j) = At(ss, i, j)
  <2>1. CASE i = p
    BY <2>1, <1>2, <1>3
  <2>2. CASE i # p
    <3>1. i \in 1..n
      BY <2>2
    <3>2. PICK k : k = Size(g, i - 1) + j
      OBVIOUS
    <3>3. k \in 1..Size(g, n) /\ At(g, n, k) = At(ss, i, j)
      BY <3>1, <3>2 DEF Placed
    <3>4. k \in 1..Size(g, p) /\ At(g, p, k) = At(g, n, k)
      BY <3>3, <1>3
    <3> QED
      BY <3>2, <3>3, <3>4
  <2> QED
    BY <2>1, <2>2
<1>5. ASSUME NEW k \in 1..Size(g, p)
      PROVE  \E i \in 1..p : \E j \in 1..Size(ss, i) : k = Size(g, i - 1) + j
  <2>1. CASE k <= Size(g, n)
    <3>1. k \in 1..Size(g, n)
      BY <2>1, <1>3
    <3>2. PICK i \in 1..n : \E j \in 1..Size(ss, i) : k = Size(g, i - 1) + j
      BY <3>1 DEF Placed
    <3>3. i \in 1..p
      OBVIOUS
    <3> QED
      BY <3>2, <3>3
  <2>2. CASE ~(k <= Size(g, n))
    <3>1. PICK j : j = k - Size(g, n)
      OBVIOUS
    <3>2. j \in 1..Size(ss, p) /\ k = Size(g, p - 1) + j
      BY <3>1, <2>2, <1>2, <1>3
    <3> QED
      BY <3>2
  <2> QED
    BY <2>1, <2>2
<1> QED
  BY <1>4, <1>5 DEF Placed

LEMMA Offsets ==
  ASSUME NEW X, NEW ss, NEW g, Laid(ss, X, g)
  PROVE  Placed(ss, g, Len(ss))
<1>5. Len(ss) \in Nat
  BY LaidTyped
<1> DEFINE S == {n \in Nat : n <= Len(ss) => Placed(ss, g, n)}
<1>1. 0 \in S
  <2>1. g[0] = <<>>
    BY DEF Laid
  <2>2. Placed(ss, g, 0)
    BY <2>1 DEF Placed, Size, At
  <2> QED
    BY <2>2
<1>2. ASSUME NEW n \in S PROVE n + 1 \in S
  <2>1. n \in Nat /\ n + 1 \in Nat
    OBVIOUS
  <2> SUFFICES ASSUME n + 1 <= Len(ss) PROVE Placed(ss, g, n + 1)
    BY <2>1
  <2>2. PICK p : p = n + 1
    OBVIOUS
  <2>3. p \in Nat /\ p <= Len(ss) /\ n <= Len(ss)
    BY <2>1, <2>2, <1>5
  <2>4. Placed(ss, g, n)
    BY <2>3
  <2>5. Placed(ss, g, p)
    BY <2>1, <2>2, <2>3, <2>4, PlacedNext
  <2> QED
    BY <2>2, <2>5
<1>3. S = Nat
  <2>1. S \in SUBSET Nat
    OBVIOUS
  <2> HIDE DEF S
  <2> QED
    BY <1>1, <1>2, <2>1, Inducted
<1>4. Len(ss) \in S
  BY <1>3, <1>5
<1> QED
  BY <1>4

(* Shorter blocks make a shorter whole, and the same blocks the same front. *)
LEMMA Shorter ==
  ASSUME NEW X, NEW ss, NEW tt, Len(ss) = Len(tt),
         \A i \in 1..Len(ss) : Size(ss, i) <= Size(tt, i),
         NEW g, Laid(ss, X, g), NEW h, Laid(tt, X, h)
  PROVE  Size(g, Len(ss)) <= Size(h, Len(ss))
<1>5. Len(ss) \in Nat
  BY LaidTyped
<1> DEFINE S == {n \in Nat : n <= Len(ss) => Size(g, n) <= Size(h, n)}
<1>1. 0 \in S
  BY DEF Laid, Size
<1>2. ASSUME NEW n \in S PROVE n + 1 \in S
  <2>1. n \in Nat /\ n + 1 \in Nat
    OBVIOUS
  <2> SUFFICES ASSUME n + 1 <= Len(ss) PROVE Size(g, n + 1) <= Size(h, n + 1)
    BY <2>1
  <2>2. PICK p : p = n + 1
    OBVIOUS
  <2>3. p \in 1..Len(ss) /\ n <= Len(ss) /\ p - 1 = n /\ n \in 0..Len(ss)
    BY <2>1, <2>2, <1>5
  <2>4. Size(g, n) <= Size(h, n)
    BY <2>3
  <2>6. /\ Size(g, n) \in Nat /\ Size(ss, p) \in Nat /\ Size(g, p) = Size(g, n) + Size(ss, p)
        /\ Size(h, n) \in Nat /\ Size(tt, p) \in Nat /\ Size(h, p) = Size(h, n) + Size(tt, p)
    <3>1. p \in Nat /\ p <= Len(ss) /\ p <= Len(tt)
      BY <2>3
    <3>2. Size(g, n) \in Nat /\ Size(ss, p) \in Nat /\ Size(g, p) = Size(g, n) + Size(ss, p)
      BY <2>1, <2>2, <3>1, LaidAt
    <3>3. Size(h, n) \in Nat /\ Size(tt, p) \in Nat /\ Size(h, p) = Size(h, n) + Size(tt, p)
      BY <2>1, <2>2, <3>1, LaidAt
    <3> QED
      BY <3>2, <3>3
  <2>7. Size(ss, p) <= Size(tt, p)
    BY <2>3
  <2>8. Size(g, p) <= Size(h, p)
    BY <2>4, <2>6, <2>7
  <2> QED
    BY <2>2, <2>8
<1>3. S = Nat
  <2>1. S \in SUBSET Nat
    OBVIOUS
  <2> HIDE DEF S
  <2> QED
    BY <1>1, <1>2, <2>1, Inducted
<1>4. Len(ss) \in S
  BY <1>3, <1>5
<1> QED
  BY <1>4

Alike(ss, tt, m) == \A i \in 1..m : ss[i] = tt[i]
LEMMA SameFront ==
  ASSUME NEW X, NEW ss, NEW tt, Len(ss) = Len(tt), NEW m \in 0..Len(ss), Alike(ss, tt, m),
         NEW g, Laid(ss, X, g), NEW h, Laid(tt, X, h)
  PROVE  g[m] = h[m]
<1>5. Len(ss) \in Nat
  BY LaidTyped
<1> DEFINE S == {n \in Nat : n <= m => g[n] = h[n]}
<1>1. 0 \in S
  BY DEF Laid
<1>2. ASSUME NEW n \in S PROVE n + 1 \in S
  <2>1. n \in Nat /\ n + 1 \in Nat
    OBVIOUS
  <2> SUFFICES ASSUME n + 1 <= m PROVE g[n + 1] = h[n + 1]
    BY <2>1
  <2>2. PICK p : p = n + 1
    OBVIOUS
  <2>3. p \in 1..Len(ss) /\ p - 1 = n /\ g[n] = h[n] /\ p \in 1..m
    BY <2>1, <2>2, <1>5
  <2>4. p \in 1..Len(tt)
    BY <2>3
  <2>5. Joins(g[p], g[p - 1], ss[p]) /\ Joins(h[p], h[p - 1], tt[p])
    BY <2>3, <2>4 DEF Laid
  <2>6. ss[p] = tt[p] /\ g[p - 1] = h[p - 1]
    BY <2>3 DEF Alike
  <2>7. g[p] = h[p]
    BY <2>5, <2>6 DEF Joins
  <2> QED
    BY <2>2, <2>7
<1>3. S = Nat
  <2>1. S \in SUBSET Nat
    OBVIOUS
  <2> HIDE DEF S
  <2> QED
    BY <1>1, <1>2, <2>1, Inducted
<1>4. m \in S
  BY <1>3, <1>5
<1> QED
  BY <1>4

-------------------------------------------------------------------------------
(* The log browser.                                                         *)

PathSet == (Logs \union {0}) \X (Files \union {0})
LogEntry == [log : Logs, files : Seq(Files)]
Trees ==
  {t \in Seq(LogEntry) : /\ \A i \in 1..Len(t) : t[i].files # <<>>
                      /\ \A i, j \in 1..Len(t) : i # j => t[i].log # t[j].log}
WorkKinds == {"scan", "read", "delete"}
WorkNumbers == 1..MaxWork \union {1}
StartedWork == [n : WorkNumbers, kind : WorkKinds, path : PathSet, stage : {"started"}]
DoneWork ==
  [n : WorkNumbers, kind : WorkKinds, path : PathSet, stage : {"done"}, ok : BOOLEAN, tasks : Trees,
   count : Nat]
BrowserRecord ==
  [screen : {"tree", "viewer", "confirm"}, tasks : Trees, expanded : SUBSET Nat, target : Nat,
   cursor : Nat, viewer : PathSet, lines : [path : PathSet, count : Nat], line : Nat,
   loading : BOOLEAN]

BrowserIInv ==
  /\ disk \in [DOMAIN disk -> Nat] /\ work \subseteq StartedWork \union DoneWork
  /\ browser \in BrowserRecord /\ BrowserHolds

(* The blocks of the tree, and the rows they make.                          *)
Blocks(known, expanded) ==
  [i \in DOMAIN known |->
     <<Path(known[i].log, 0)>> \o
       (IF known[i].log \in expanded
        THEN [j \in DOMAIN known[i].files |-> Path(known[i].log, known[i].files[j])] ELSE <<>>)]
RowsOf(known, expanded) == FlattenSeq(Blocks(known, expanded))

LEMMA TreeRowsAre == \A b : TreeRows(b) = RowsOf(b.tasks, b.expanded)
BY DEF TreeRows, RowsOf, Blocks

LEMMA FilesNumbered ==
  /\ Logs \in SUBSET Nat /\ 0 \notin Logs /\ IsFiniteSet(Logs)
  /\ Files \in SUBSET Nat /\ 0 \notin Files /\ IsFiniteSet(Files)
  /\ InitialTarget \in Nat /\ PageLines \in Nat
BY BrowserAssumption

LEMMA Clamping ==
  ASSUME NEW l \in Nat, NEW i \in Int
  PROVE  /\ ClampIndex(i, l) \in Nat /\ ClampIndex(ClampIndex(i, l), l) = ClampIndex(i, l)
         /\ i \in 1..l => ClampIndex(i, l) = i
         /\ (l # 0 /\ i = ClampIndex(i, l)) => i \in 1..l
BY DEF ClampIndex

(* One block: the task's row, then its files'.                              *)
LEMMA BlockTyped ==
  ASSUME NEW known \in Trees, NEW expanded, NEW i \in 1..Len(known)
  PROVE  /\ Blocks(known, expanded)[i] \in Seq(PathSet)
         /\ known[i].log \in Logs
         /\ Size(Blocks(known, expanded), i) \in Nat
         /\ Size(Blocks(known, expanded), i) >= 1
         /\ known[i].log \in expanded => Size(Blocks(known, expanded), i) >= 2
         /\ known[i].log \notin expanded => Size(Blocks(known, expanded), i) = 1
         /\ At(Blocks(known, expanded), i, 1) = Path(known[i].log, 0)
         /\ \A j \in 1..Size(Blocks(known, expanded), i) :
              /\ At(Blocks(known, expanded), i, j)[1] = known[i].log
              /\ At(Blocks(known, expanded), i, j)[2] = 0 => j = 1
<1>1. known \in Seq(LogEntry) /\ i \in DOMAIN known /\ known[i] \in LogEntry /\ known[i].files # <<>>
  BY DEF Trees
<1>2. PICK log, files : log = known[i].log /\ files = known[i].files
  OBVIOUS
<1>3. log \in Logs /\ files \in Seq(Files) /\ files # <<>>
  BY <1>1, <1>2 DEF LogEntry
<1>4. Len(files) \in Nat /\ Len(files) >= 1 /\ DOMAIN files = 1..Len(files)
      /\ \A j \in DOMAIN files : files[j] \in Files /\ files[j] # 0
  BY <1>3, FilesNumbered
<1> DEFINE below == [j \in DOMAIN files |-> Path(log, files[j])]
<1>5. PICK rest : rest = IF log \in expanded THEN below ELSE <<>>
  OBVIOUS
<1>6. PICK blk : blk = Blocks(known, expanded)[i]
  OBVIOUS
<1>7. blk = <<Path(log, 0)>> \o rest
  BY <1>1, <1>2, <1>5, <1>6 DEF Blocks
<1>8. Path(log, 0) \in PathSet /\ \A j \in DOMAIN files : Path(log, files[j]) \in PathSet
  BY <1>3, <1>4 DEF Path, PathSet
<1>9. below \in Seq(PathSet) /\ Len(below) = Len(files)
      /\ \A j \in 1..Len(files) : below[j] = Path(log, files[j])
  BY <1>4, <1>8
<1> HIDE DEF below
<1>10. rest \in Seq(PathSet) /\ Len(rest) \in Nat
       /\ \A j \in 1..Len(rest) : log \in expanded /\ j \in DOMAIN files /\ rest[j] = Path(log, files[j])
  BY <1>4, <1>5, <1>9
<1>11. (log \in expanded => Len(rest) >= 1) /\ (log \notin expanded => Len(rest) = 0)
  BY <1>4, <1>5, <1>9
<1>12. PICK e : e = Path(log, 0)
  OBVIOUS
<1>13. e \in PathSet /\ blk = <<e>> \o rest
  BY <1>7, <1>8, <1>12
<1>14. /\ blk \in Seq(PathSet) /\ Len(blk) = 1 + Len(rest) /\ blk[1] = e
       /\ \A j \in 1..Len(rest) : blk[1 + j] = rest[j]
  BY <1>10, <1>13
<1>15. ASSUME NEW j \in 1..Len(blk) PROVE blk[j][1] = log /\ (blk[j][2] = 0 => j = 1)
  <2>1. CASE j = 1
    BY <2>1, <1>12, <1>14 DEF Path
  <2>2. CASE j # 1
    <3>1. PICK k \in 1..Len(rest) : j = 1 + k
      <4>1. j - 1 \in 1..Len(rest) /\ j = 1 + (j - 1)
        BY <2>2, <1>10, <1>14
      <4> QED
        BY <4>1
    <3>2. blk[j] = Path(log, files[k]) /\ files[k] # 0
      BY <3>1, <1>4, <1>10, <1>14
    <3> QED
      BY <3>2 DEF Path
  <2> QED
    BY <2>1, <2>2
<1>16. Len(blk) \in Nat /\ Len(blk) >= 1 /\ (log \in expanded => Len(blk) >= 2)
       /\ (log \notin expanded => Len(blk) = 1)
  BY <1>10, <1>11, <1>14
<1> QED
  BY <1>2, <1>3, <1>6, <1>12, <1>14, <1>15, <1>16 DEF Size, At

LEMMA BlocksTyped ==
  ASSUME NEW known \in Trees, NEW expanded
  PROVE  /\ Blocks(known, expanded) \in Seq(Seq(PathSet))
         /\ Len(Blocks(known, expanded)) = Len(known) /\ Len(known) \in Nat
<1>1. known \in Seq(LogEntry) /\ Len(known) \in Nat /\ DOMAIN known = 1..Len(known)
  BY DEF Trees
<1>2. PICK ss : ss = Blocks(known, expanded)
  OBVIOUS
<1>3. \A i \in 1..Len(known) : ss[i] \in Seq(PathSet)
  BY <1>2, BlockTyped
<1>4. ss = [i \in 1..Len(known) |-> ss[i]]
  BY <1>1, <1>2 DEF Blocks
<1>5. ss \in [1..Len(known) -> Seq(PathSet)]
  BY <1>3, <1>4
<1>6. ss \in Seq(Seq(PathSet)) /\ Len(ss) = Len(known)
  BY <1>1, <1>5
<1> QED
  BY <1>1, <1>2, <1>6

Arrayed(ss, g, known, expanded) ==
  /\ Laid(ss, PathSet, g) /\ Placed(ss, g, Len(known))
  /\ ss = Blocks(known, expanded) /\ Len(ss) = Len(known)
  /\ RowsOf(known, expanded) = g[Len(known)]

LEMMA Array ==
  ASSUME NEW known \in Trees, NEW expanded
  PROVE  \E ss, g : Arrayed(ss, g, known, expanded)
<1>1. PICK ss : ss = Blocks(known, expanded)
  OBVIOUS
<1>2. ss \in Seq(Seq(PathSet)) /\ Len(ss) = Len(known)
  BY <1>1, BlocksTyped
<1>3. PICK P : P = PathSet
  OBVIOUS
<1>4. ss \in Seq(Seq(P))
  BY <1>2, <1>3
<1>5. PICK g : Laid(ss, P, g) /\ FlattenSeq(ss) = g[Len(ss)]
  BY <1>4, Flattened
<1>6. Placed(ss, g, Len(ss))
  BY <1>5, Offsets
<1>7. RowsOf(known, expanded) = g[Len(known)]
  BY <1>1, <1>2, <1>5 DEF RowsOf
<1> QED
  BY <1>1, <1>2, <1>3, <1>5, <1>6, <1>7 DEF Arrayed

(* What the rows are, in numbers.                                           *)
LEMMA TreeRowsTyped ==
  ASSUME NEW known \in Trees, NEW expanded
  PROVE  /\ RowsOf(known, expanded) \in Seq(PathSet) /\ Len(RowsOf(known, expanded)) \in Nat
         /\ DOMAIN RowsOf(known, expanded) = 1..Len(RowsOf(known, expanded))
<1>1. PICK ss, g : Arrayed(ss, g, known, expanded)
  BY Array
<1>2. Laid(ss, PathSet, g) /\ Len(ss) = Len(known) /\ RowsOf(known, expanded) = g[Len(known)]
  BY <1>1 DEF Arrayed
<1>3. Len(known) \in Nat
  BY BlocksTyped
<1>4. \A n \in 0..Len(ss) : g[n] \in Seq(PathSet)
  BY <1>2, LaidTyped
<1>5. Len(known) \in 0..Len(ss)
  BY <1>2, <1>3
<1>6. PICK r : r = RowsOf(known, expanded)
  OBVIOUS
<1>7. r \in Seq(PathSet)
  BY <1>2, <1>4, <1>5, <1>6
<1>8. Len(r) \in Nat /\ DOMAIN r = 1..Len(r)
  BY <1>7
<1> QED
  BY <1>6, <1>7, <1>8

(* The place of a task's row, and what follows it.                          *)
LEMMA HeadRow ==
  ASSUME NEW known \in Trees, NEW expanded, NEW ss, NEW g, Arrayed(ss, g, known, expanded),
         NEW i \in 1..Len(known)
  PROVE  /\ Size(g, i - 1) + 1 \in 1..Len(RowsOf(known, expanded))
         /\ RowsOf(known, expanded)[Size(g, i - 1) + 1] = Path(known[i].log, 0)
         /\ known[i].log \in expanded => Size(g, i - 1) + 2 \in 1..Len(RowsOf(known, expanded))
<1>1. /\ Placed(ss, g, Len(known)) /\ RowsOf(known, expanded) = g[Len(known)]
      /\ ss = Blocks(known, expanded)
  BY DEF Arrayed
<1>2. /\ Size(ss, i) \in Nat /\ Size(ss, i) >= 1 /\ At(ss, i, 1) = Path(known[i].log, 0)
      /\ known[i].log \in expanded => Size(ss, i) >= 2
  BY <1>1, BlockTyped
<1>3. 1 \in 1..Size(ss, i) /\ (known[i].log \in expanded => 2 \in 1..Size(ss, i))
  BY <1>2
<1>4. /\ Size(g, i - 1) + 1 \in 1..Size(g, Len(known))
      /\ At(g, Len(known), Size(g, i - 1) + 1) = At(ss, i, 1)
  BY <1>1, <1>3 DEF Placed
<1>5. known[i].log \in expanded => Size(g, i - 1) + 2 \in 1..Size(g, Len(known))
  BY <1>1, <1>3 DEF Placed
<1> QED
  BY <1>1, <1>2, <1>4, <1>5 DEF Size, At

LEMMA AnyRow ==
  ASSUME NEW known \in Trees, NEW expanded, NEW ss, NEW g, Arrayed(ss, g, known, expanded),
         NEW k \in 1..Len(RowsOf(known, expanded))
  PROVE  \E i \in 1..Len(known) :
           /\ RowsOf(known, expanded)[k][1] = known[i].log
           /\ RowsOf(known, expanded)[k][2] = 0 => k = Size(g, i - 1) + 1
<1>1. /\ Placed(ss, g, Len(known)) /\ RowsOf(known, expanded) = g[Len(known)]
      /\ ss = Blocks(known, expanded)
  BY DEF Arrayed
<1>2. k \in 1..Size(g, Len(known))
  BY <1>1 DEF Size
<1>3. PICK i \in 1..Len(known) : \E j \in 1..Size(ss, i) : k = Size(g, i - 1) + j
  BY <1>1, <1>2 DEF Placed
<1>4. PICK j \in 1..Size(ss, i) : k = Size(g, i - 1) + j
  BY <1>3
<1>5. At(g, Len(known), k) = At(ss, i, j)
  BY <1>1, <1>4 DEF Placed
<1>6. At(ss, i, j)[1] = known[i].log /\ (At(ss, i, j)[2] = 0 => j = 1)
  BY <1>1, BlockTyped
<1>7. RowsOf(known, expanded)[k] = At(ss, i, j)
  BY <1>1, <1>5 DEF At
<1> QED
  BY <1>4, <1>6, <1>7

(* A task that is listed has its row.                                       *)
LEMMA RowThere ==
  ASSUME NEW known \in Trees, NEW expanded, NEW i \in 1..Len(known)
  PROVE  \E k \in DOMAIN RowsOf(known, expanded) :
           RowsOf(known, expanded)[k] = Path(known[i].log, 0)
<1>1. PICK ss, g : Arrayed(ss, g, known, expanded)
  BY Array
<1>2. PICK k : k = Size(g, i - 1) + 1
  OBVIOUS
<1>3. k \in 1..Len(RowsOf(known, expanded)) /\ RowsOf(known, expanded)[k] = Path(known[i].log, 0)
  BY <1>1, <1>2, HeadRow
<1> QED
  BY <1>3, TreeRowsTyped

(* An expanded task's row is not the last.                                  *)
LEMMA RowBelow ==
  ASSUME NEW known \in Trees, NEW expanded, NEW k \in 1..Len(RowsOf(known, expanded)),
         RowsOf(known, expanded)[k][1] \in expanded, RowsOf(known, expanded)[k][2] = 0
  PROVE  k + 1 \in 1..Len(RowsOf(known, expanded))
<1>1. PICK ss, g : Arrayed(ss, g, known, expanded)
  BY Array
<1>2. PICK i \in 1..Len(known) :
        /\ RowsOf(known, expanded)[k][1] = known[i].log
        /\ RowsOf(known, expanded)[k][2] = 0 => k = Size(g, i - 1) + 1
  BY <1>1, AnyRow
<1>3. known[i].log \in expanded /\ k = Size(g, i - 1) + 1
  BY <1>2
<1>4. Size(g, i - 1) + 2 \in 1..Len(RowsOf(known, expanded))
  BY <1>1, <1>3, HeadRow
<1>5. Size(g, i - 1) \in Nat
  <2>1. Laid(ss, PathSet, g) /\ Len(ss) = Len(known)
    BY <1>1 DEF Arrayed
  <2>2. i - 1 \in 0..Len(ss)
    BY <2>1, BlocksTyped
  <2>3. \A n \in 0..Len(ss) : g[n] \in Seq(PathSet)
    BY <2>1, LaidTyped
  <2>4. PICK s : s = g[i - 1]
    OBVIOUS
  <2>5. s \in Seq(PathSet)
    BY <2>2, <2>3, <2>4
  <2>6. Len(s) \in Nat
    BY <2>5
  <2> QED
    BY <2>4, <2>6 DEF Size
<1> QED
  BY <1>3, <1>4, <1>5

(* Expanding a task makes no fewer rows.                                    *)
LEMMA MoreRows ==
  ASSUME NEW known \in Trees, NEW expanded, NEW log
  PROVE  Len(RowsOf(known, expanded)) <= Len(RowsOf(known, expanded \union {log}))
<1>1. PICK ss, g : Arrayed(ss, g, known, expanded)
  BY Array
<1>2. PICK more : more = expanded \union {log}
  OBVIOUS
<1>3. PICK tt, h : Arrayed(tt, h, known, more)
  BY Array
<1>4. /\ Laid(ss, PathSet, g) /\ Laid(tt, PathSet, h) /\ Len(ss) = Len(known)
      /\ Len(tt) = Len(known) /\ ss = Blocks(known, expanded) /\ tt = Blocks(known, more)
      /\ RowsOf(known, expanded) = g[Len(known)] /\ RowsOf(known, more) = h[Len(known)]
  BY <1>1, <1>3 DEF Arrayed
<1>5. \A i \in 1..Len(ss) : Size(ss, i) <= Size(tt, i)
  <2> SUFFICES ASSUME NEW i \in 1..Len(ss) PROVE Size(ss, i) <= Size(tt, i)
    OBVIOUS
  <2>0. i \in 1..Len(known)
    BY <1>4
  <2>1. CASE known[i].log \notin expanded
    <3>1. Size(ss, i) = 1
      BY <2>0, <2>1, <1>4, BlockTyped
    <3>2. Size(tt, i) \in Nat /\ Size(tt, i) >= 1
      BY <2>0, <1>4, BlockTyped
    <3> QED
      BY <3>1, <3>2
  <2>2. CASE known[i].log \in expanded
    <3>1. known[i].log \in more
      BY <2>2, <1>2
    <3>2. i \in DOMAIN known
      BY <2>0 DEF Trees
    <3>3. ss[i] = tt[i]
      BY <3>1, <3>2, <2>2, <1>4 DEF Blocks
    <3>4. Size(ss, i) = Size(tt, i) /\ Size(ss, i) \in Nat
      BY <2>0, <3>3, <1>4, BlockTyped DEF Size
    <3> QED
      BY <3>4
  <2> QED
    BY <2>1, <2>2
<1>6. Size(g, Len(ss)) <= Size(h, Len(ss))
  BY <1>4, <1>5, Shorter
<1> QED
  BY <1>2, <1>4, <1>6 DEF Size

(* Collapsing a task leaves its own row where it is.                        *)
LEMMA RowStays ==
  ASSUME NEW known \in Trees, NEW expanded, NEW log,
         NEW k \in DOMAIN RowsOf(known, expanded), RowsOf(known, expanded)[k] = Path(log, 0)
  PROVE  k \in 1..Len(RowsOf(known, expanded \ {log}))
<1>1. PICK ss, g : Arrayed(ss, g, known, expanded)
  BY Array
<1>2. PICK less : less = expanded \ {log}
  OBVIOUS
<1>3. PICK tt, h : Arrayed(tt, h, known, less)
  BY Array
<1>4. /\ Laid(ss, PathSet, g) /\ Laid(tt, PathSet, h) /\ Len(ss) = Len(known)
      /\ Len(tt) = Len(known) /\ ss = Blocks(known, expanded) /\ tt = Blocks(known, less)
  BY <1>1, <1>3 DEF Arrayed
<1>5. k \in 1..Len(RowsOf(known, expanded))
  BY TreeRowsTyped
<1>6. RowsOf(known, expanded)[k][1] = log /\ RowsOf(known, expanded)[k][2] = 0
  BY DEF Path
<1>7. PICK i \in 1..Len(known) :
        /\ RowsOf(known, expanded)[k][1] = known[i].log
        /\ RowsOf(known, expanded)[k][2] = 0 => k = Size(g, i - 1) + 1
  BY <1>1, <1>5, AnyRow
<1>8. known[i].log = log /\ k = Size(g, i - 1) + 1
  BY <1>6, <1>7
<1>9. Len(known) \in Nat
  BY BlocksTyped
<1>10. PICK m : m = i - 1
  OBVIOUS
<1>11. m \in 0..Len(ss)
  BY <1>4, <1>9, <1>10
<1>12. \A q \in 1..m : ss[q] = tt[q]
  <2> SUFFICES ASSUME NEW q \in 1..m PROVE ss[q] = tt[q]
    OBVIOUS
  <2>1. q \in 1..Len(known) /\ q # i
    BY <1>9, <1>10
  <2>2. known[q].log # log /\ q \in DOMAIN known
    BY <2>1, <1>8 DEF Trees
  <2>3. known[q].log \in expanded <=> known[q].log \in less
    BY <2>2, <1>2
  <2> QED
    BY <2>2, <2>3, <1>4 DEF Blocks
<1>13. g[m] = h[m]
  <2>1. Laid(ss, PathSet, g) /\ Laid(tt, PathSet, h) /\ Len(ss) = Len(tt)
    BY <1>4
  <2>2. PICK X : X = PathSet
    OBVIOUS
  <2>3. Laid(ss, X, g) /\ Laid(tt, X, h)
    BY <2>1, <2>2
  <2>4. Alike(ss, tt, m)
    BY <1>12 DEF Alike
  <2> QED
    BY <2>1, <2>3, <2>4, <1>11, SameFront
<1>14. Size(h, m) + 1 \in 1..Len(RowsOf(known, less))
  BY <1>3, <1>10, HeadRow
<1> QED
  BY <1>2, <1>8, <1>10, <1>13, <1>14 DEF Size

-------------------------------------------------------------------------------
(* A scan's answer is a tree.                                               *)
LEMMA OrderLists ==
  ASSUME NEW S \in SUBSET Nat, IsFiniteSet(S)
  PROVE  /\ Ascending(S) \in Seq(S)
         /\ \A i, j \in DOMAIN Ascending(S) : i # j => Ascending(S)[i] # Ascending(S)[j]
<1> DEFINE f == [x \in S |-> x]
           In(s) == \A i, j \in DOMAIN s : i < j => s[i] <= s[j]
<1>1. f \in [S -> Nat] /\ \A x \in S : f[x] = x
  OBVIOUS
<1>2. Ascending(S) = CHOOSE s \in SetToSeqs(S) : In(s)
  BY DEF Ascending
<1> HIDE DEF f
<1>3. PICK s \in SetToSeqs(S) : \A i, j \in DOMAIN s : i < j => f[s[i]] <= f[s[j]]
  BY <1>1, Arranged DEF Listed
<1>4. s \in Seq(S)
  BY ListsAll
<1>5. In(s)
  <2> SUFFICES ASSUME NEW i \in DOMAIN s, NEW j \in DOMAIN s, i < j PROVE s[i] <= s[j]
    OBVIOUS
  <2>1. s[i] \in S /\ s[j] \in S
    BY <1>4
  <2>2. f[s[i]] <= f[s[j]]
    BY <1>3
  <2> QED
    BY <1>1, <2>1, <2>2
<1> HIDE DEF In
<1>6. Ascending(S) \in SetToSeqs(S)
  BY <1>2, <1>5
<1>7. Ascending(S) \in Seq(S)
  BY <1>6, ListsAll
<1>8. \A i, j \in DOMAIN Ascending(S) : i # j => Ascending(S)[i] # Ascending(S)[j]
  <2>1. PICK o : o = Ascending(S)
    OBVIOUS
  <2>2. o \in [1..Cardinality(S) -> S] /\ \A i, j \in 1..Cardinality(S) : i # j => o[i] # o[j]
    BY <1>6, <2>1 DEF SetToSeqs
  <2> QED
    BY <2>1, <2>2
<1> QED
  BY <1>7, <1>8

LEMMA ListingTyped == \A d : Listing(d) \in Trees
<1> SUFFICES ASSUME NEW d PROVE Listing(d) \in Trees
  OBVIOUS
<1> DEFINE found == {l \in Logs : FilesOf(d, l) # <<>>}
           order == Ascending(found)
<1>1. \A l : FilesOf(d, l) \in Seq(Files)
  <2> SUFFICES ASSUME NEW l PROVE FilesOf(d, l) \in Seq(Files)
    OBVIOUS
  <2>1. PICK S : S = {f \in Files : Path(l, f) \in DOMAIN d}
    OBVIOUS
  <2>2. S \in SUBSET Files /\ S \in SUBSET Nat /\ IsFiniteSet(S)
    BY <2>1, FilesNumbered, FS_Subset
  <2>3. Ascending(S) \in Seq(S)
    BY <2>2, OrderLists
  <2>4. PICK o : o = Ascending(S)
    OBVIOUS
  <2>5. o \in Seq(Files)
    <3>1. o \in Seq(S)
      BY <2>3, <2>4
    <3>2. Len(o) \in Nat /\ \A i \in 1..Len(o) : o[i] \in Files
      <4>1. Len(o) \in Nat /\ \A i \in 1..Len(o) : o[i] \in S
        BY <3>1
      <4>2. \A x \in S : x \in Files
        BY <2>2
      <4> QED
        BY <4>1, <4>2
    <3>3. o \in [1..Len(o) -> Files]
      BY <3>1, <3>2
    <3> QED
      BY <3>2, <3>3
  <2> QED
    BY <2>1, <2>4, <2>5 DEF FilesOf
<1>2. found \in SUBSET Logs /\ found \in SUBSET Nat /\ IsFiniteSet(found)
  BY FilesNumbered, FS_Subset
<1>3. order \in Seq(found) /\ \A i, j \in DOMAIN order : i # j => order[i] # order[j]
  BY <1>2, OrderLists
<1>4. Listing(d) = [i \in DOMAIN order |-> [log |-> order[i], files |-> FilesOf(d, order[i])]]
  BY DEF Listing
<1>5. \A l \in found : l \in Logs /\ FilesOf(d, l) # <<>>
  OBVIOUS
<1> HIDE DEF order, found
<1>6. DOMAIN order = 1..Len(order) /\ Len(order) \in Nat
      /\ \A i \in DOMAIN order : order[i] \in found
  BY <1>3
<1>7. PICK t : t = Listing(d)
  OBVIOUS
<1>8. /\ DOMAIN t = 1..Len(order)
      /\ \A i \in 1..Len(order) : t[i] = [log |-> order[i], files |-> FilesOf(d, order[i])]
  BY <1>4, <1>6, <1>7
<1>9. \A i \in 1..Len(order) : [log |-> order[i], files |-> FilesOf(d, order[i])] \in LogEntry
  BY <1>1, <1>5, <1>6 DEF LogEntry
<1>10. t \in Seq(LogEntry) /\ Len(t) = Len(order)
  <2>1. t = [i \in 1..Len(order) |-> [log |-> order[i], files |-> FilesOf(d, order[i])]]
    BY <1>4, <1>6, <1>7
  <2>2. t \in [1..Len(order) -> LogEntry]
    BY <2>1, <1>9
  <2> QED
    BY <2>2, <1>6
<1>11. \A i \in 1..Len(order) : t[i].log = order[i] /\ t[i].files # <<>>
  BY <1>5, <1>6, <1>8
<1> QED
  BY <1>3, <1>6, <1>7, <1>10, <1>11 DEF Trees

-------------------------------------------------------------------------------
(* What a browser that holds is, and the cursor after each change.          *)
CursorIn(b) == b.cursor = ClampIndex(b.cursor, Len(RowsOf(b.tasks, b.expanded)))

LEMMA InRangeHolds ==
  ASSUME NEW b \in BrowserRecord
  PROVE  /\ InRange(b) \in BrowserRecord /\ CursorIn(InRange(b))
         /\ InRange(b) = [b EXCEPT !.cursor = InRange(b).cursor]
<1>1. b.tasks \in Trees /\ b.cursor \in Nat
  BY DEF BrowserRecord
<1>2. PICK n : n = Len(RowsOf(b.tasks, b.expanded))
  OBVIOUS
<1>3. n \in Nat
  BY <1>1, <1>2, TreeRowsTyped
<1>4. PICK k : k = ClampIndex(b.cursor, n)
  OBVIOUS
<1>5. k \in Nat /\ ClampIndex(k, n) = k
  <2>1. PICK c : c = b.cursor
    OBVIOUS
  <2>2. c \in Int /\ k = ClampIndex(c, n)
    BY <2>1, <1>1, <1>4
  <2> QED
    BY <2>2, <1>3, Clamping
<1>6. PICK q : q = [b EXCEPT !.cursor = k]
  OBVIOUS
<1>7. InRange(b) = q
  BY <1>2, <1>4, <1>6, TreeRowsAre DEF InRange
<1>8. /\ q \in BrowserRecord /\ q.cursor = k /\ q.tasks = b.tasks /\ q.expanded = b.expanded
  BY <1>5, <1>6 DEF BrowserRecord
<1> QED
  BY <1>2, <1>5, <1>6, <1>7, <1>8 DEF CursorIn

LEMMA RowOfIs ==
  ASSUME NEW b, b.tasks \in Trees, NEW i \in 1..Len(b.tasks), NEW log, b.tasks[i].log = log
  PROVE  /\ RowOf(b, log) \in DOMAIN RowsOf(b.tasks, b.expanded)
         /\ RowsOf(b.tasks, b.expanded)[RowOf(b, log)] = Path(log, 0)
         /\ RowOf(b, log) \in Nat
<1>1. PICK r : r = RowsOf(b.tasks, b.expanded)
  OBVIOUS
<1>2. \E k \in DOMAIN r : r[k] = Path(log, 0)
  BY <1>1, RowThere
<1>3. RowOf(b, log) = CHOOSE k \in DOMAIN r : r[k] = Path(log, 0)
  BY <1>1, TreeRowsAre DEF RowOf
<1>4. PICK m : m = RowOf(b, log)
  OBVIOUS
<1>5. m \in DOMAIN r /\ r[m] = Path(log, 0)
  BY <1>2, <1>3, <1>4
<1>6. DOMAIN r = 1..Len(r) /\ Len(r) \in Nat
  BY <1>1, TreeRowsTyped
<1> QED
  BY <1>1, <1>4, <1>5, <1>6

LEMMA TargetedHolds ==
  ASSUME NEW b \in BrowserRecord
  PROVE  /\ Targeted(b) \in BrowserRecord
         /\ Targeted(b).screen = b.screen /\ Targeted(b).viewer = b.viewer
         /\ Targeted(b).lines = b.lines /\ Targeted(b).line = b.line
         /\ Targeted(b).loading = b.loading
<1>1. PICK o : o = [b EXCEPT !.target = 0, !.expanded = @ \union {b.target}]
  OBVIOUS
<1>2. /\ o \in BrowserRecord /\ o.tasks = b.tasks /\ b.tasks \in Trees /\ o.screen = b.screen
      /\ o.viewer = b.viewer /\ o.lines = b.lines /\ o.line = b.line /\ o.loading = b.loading
  BY <1>1 DEF BrowserRecord
<1>3. CASE b.target = 0
  BY <1>3 DEF Targeted
<1>4. CASE b.target # 0 /\ \A i \in DOMAIN b.tasks : b.tasks[i].log # b.target
  <2>1. PICK q : q = [b EXCEPT !.target = 0]
    OBVIOUS
  <2>2. Targeted(b) = q
    BY <2>1, <1>4 DEF Targeted
  <2>3. /\ q \in BrowserRecord /\ q.screen = b.screen /\ q.viewer = b.viewer
        /\ q.lines = b.lines /\ q.line = b.line /\ q.loading = b.loading
    BY <2>1 DEF BrowserRecord
  <2> QED
    BY <2>2, <2>3
<1>5. CASE b.target # 0 /\ ~(\A i \in DOMAIN b.tasks : b.tasks[i].log # b.target)
  <2>1. PICK i \in DOMAIN b.tasks : b.tasks[i].log = b.target
    BY <1>5
  <2>2. i \in 1..Len(o.tasks) /\ o.tasks[i].log = b.target /\ o.tasks \in Trees
    BY <2>1, <1>2 DEF Trees
  <2>3. PICK k : k = RowOf(o, b.target)
    OBVIOUS
  <2>4. k \in Nat
    BY <2>2, <2>3, RowOfIs
  <2>5. PICK q : q = [o EXCEPT !.cursor = k]
    OBVIOUS
  <2>6. Targeted(b) = q
    BY <2>3, <2>5, <1>1, <1>5 DEF Targeted
  <2>7. /\ q \in BrowserRecord /\ q.screen = o.screen /\ q.viewer = o.viewer
        /\ q.lines = o.lines /\ q.line = o.line /\ q.loading = o.loading
    BY <2>4, <2>5, <1>2 DEF BrowserRecord
  <2> QED
    BY <2>6, <2>7, <1>2
<1> QED
  BY <1>3, <1>4, <1>5

-------------------------------------------------------------------------------
Viewing(b) ==
  /\ b.lines.path \in {NoPath, b.viewer} /\ b.line = ClampIndex(b.line, b.lines.count)
  /\ b.screen = "viewer" => b.viewer # NoPath
AnswersViewer(w, viewer) == w.kind \in {"scan", "delete"} \/ w.path = viewer
Busy(b, ws) == b.loading => \E w \in ws : AnswersViewer(w, b.viewer)

LEMMA BrowserParts ==
  BrowserHolds <=> CursorIn(browser) /\ Viewing(browser) /\ Busy(browser, work)
BY TreeRowsAre DEF BrowserHolds, CursorIn, Viewing, Busy, AnswersViewer

LEMMA BrowserPartsThen ==
  BrowserHolds' <=> CursorIn(browser') /\ Viewing(browser') /\ Busy(browser', work')
BY TreeRowsAre DEF BrowserHolds, CursorIn, Viewing, Busy, AnswersViewer

LEMMA NoPathTyped == NoPath \in PathSet /\ NoLines \in [path : PathSet, count : Nat]
                     /\ NoLines.path = NoPath /\ NoLines.count = 0
BY DEF NoPath, NoLines, PathSet

LEMMA BrowserStarts == BrowserInit => BrowserIInv
<1> SUFFICES ASSUME BrowserInit PROVE BrowserIInv
  OBVIOUS
<1>1. disk \in [DOMAIN disk -> Nat]
  BY DEF BrowserInit
<1>2. PICK w : w = [n |-> 1, kind |-> "scan", path |-> NoPath, stage |-> "started"]
  OBVIOUS
<1>3. work = {w} /\ w \in StartedWork /\ AnswersViewer(w, browser.viewer)
  BY <1>2, NoPathTyped DEF BrowserInit, StartedWork, WorkKinds, WorkNumbers, AnswersViewer
<1>4. <<>> \in Trees
  <2>1. <<>> \in Seq(LogEntry) /\ Len(<<>>) = 0
    OBVIOUS
  <2> QED
    BY <2>1 DEF Trees
<1>5. browser \in BrowserRecord
  BY <1>4, NoPathTyped, FilesNumbered DEF BrowserInit, BrowserRecord
<1>6. /\ browser.tasks = <<>> /\ browser.cursor = 1 /\ browser.lines = NoLines
      /\ browser.line = 1 /\ browser.screen = "tree"
  BY DEF BrowserInit
<1>7. RowsOf(browser.tasks, browser.expanded) = <<>>
  <2>1. PICK ss : ss = Blocks(<<>>, browser.expanded)
    OBVIOUS
  <2>2. ss = <<>>
    BY <2>1 DEF Blocks
  <2> QED
    BY <1>6, <2>1, <2>2 DEF RowsOf, FlattenSeq
<1>8. CursorIn(browser)
  BY <1>6, <1>7 DEF CursorIn, ClampIndex
<1>9. Viewing(browser)
  BY <1>6, NoPathTyped DEF Viewing, ClampIndex
<1>10. Busy(browser, work)
  BY <1>3 DEF Busy
<1> QED
  BY <1>1, <1>3, <1>5, <1>8, <1>9, <1>10, BrowserParts DEF BrowserIInv

(* The selected row.                                                        *)
LEMMA SelectedIs ==
  ASSUME NEW b \in BrowserRecord, CursorIn(b)
  PROVE  /\ Selected(b) \in PathSet /\ SelectedFile(b) \in PathSet
         /\ Selected(b) # NoPath =>
              /\ b.cursor \in 1..Len(RowsOf(b.tasks, b.expanded))
              /\ RowsOf(b.tasks, b.expanded)[b.cursor] = Selected(b)
              /\ SelectedFile(b) = NoPath => Selected(b)[2] = 0
<1>1. b.tasks \in Trees /\ b.cursor \in Nat
  BY DEF BrowserRecord
<1>2. PICK r : r = RowsOf(b.tasks, b.expanded)
  OBVIOUS
<1>3. r \in Seq(PathSet) /\ Len(r) \in Nat /\ DOMAIN r = 1..Len(r)
  BY <1>1, <1>2, TreeRowsTyped
<1>4. PICK c : c = b.cursor
  OBVIOUS
<1>5. c = ClampIndex(c, Len(r))
  BY <1>2, <1>4 DEF CursorIn
<1>6. Selected(b) = IF r = <<>> THEN NoPath ELSE r[c]
  <2>1. TreeRows(b) = r
    BY <1>2, TreeRowsAre
  <2>2. ClampIndex(b.cursor, Len(r)) = c
    BY <1>4, <1>5
  <2> QED
    BY <2>1, <2>2 DEF Selected
<1>7. r # <<>> => c \in 1..Len(r)
  <2>1. r # <<>> => Len(r) # 0
    BY <1>3
  <2>2. c \in Int
    BY <1>1, <1>4
  <2> QED
    BY <2>1, <2>2, <1>3, <1>5, Clamping
<1>8. r # <<>> => r[c] \in PathSet
  BY <1>3, <1>7
<1>9. Selected(b) \in PathSet /\ (Selected(b) # NoPath => r # <<>>)
  BY <1>6, <1>8, NoPathTyped
<1>10. SelectedFile(b) \in PathSet /\ (Selected(b) # NoPath /\ SelectedFile(b) = NoPath => Selected(b)[2] = 0)
  BY <1>9, NoPathTyped DEF SelectedFile
<1> QED
  BY <1>2, <1>4, <1>6, <1>7, <1>9, <1>10

LEMMA FreeWorkIs == FreeWork # {} => (CHOOSE n \in FreeWork : TRUE) \in WorkNumbers
BY DEF FreeWork, WorkNumbers

(* What is under way, after one more has begun.                             *)
LEMMA BeginKeeps ==
  ASSUME work \subseteq StartedWork \union DoneWork, NEW kind \in WorkKinds, NEW path \in PathSet,
         Begin(kind, path)
  PROVE  /\ work' \subseteq StartedWork \union DoneWork
         /\ \E w \in work' : w.kind = kind /\ w.path = path
<1>1. FreeWork # {} /\ work' = work \union {Started(kind, path)}
  BY DEF Begin
<1>2. PICK n : n = CHOOSE m \in FreeWork : TRUE
  OBVIOUS
<1>3. n \in WorkNumbers
  BY <1>1, <1>2, FreeWorkIs
<1>4. PICK w : w = Started(kind, path)
  OBVIOUS
<1>5. w = [n |-> n, kind |-> kind, path |-> path, stage |-> "started"]
  BY <1>2, <1>4 DEF Started
<1>6. w \in StartedWork /\ w.kind = kind /\ w.path = path
  BY <1>3, <1>5 DEF StartedWork
<1> QED
  BY <1>1, <1>4, <1>6

LEMMA PerformKeeps ==
  ASSUME BrowserIInv, NEW w \in work, Perform(w)
  PROVE  BrowserIInv'
<1>1. /\ disk \in [DOMAIN disk -> Nat] /\ work \subseteq StartedWork \union DoneWork
      /\ browser \in BrowserRecord /\ BrowserHolds
  BY DEF BrowserIInv
<1>2. w \in StartedWork
  BY <1>1 DEF Perform, DoneWork
<1>3. w.n \in WorkNumbers /\ w.kind \in WorkKinds /\ w.path \in PathSet
  BY <1>2 DEF StartedWork
<1>4. PICK ok \in BOOLEAN :
        LET done == ok /\ (w.kind = "scan" \/ w.path \in DOMAIN disk)
        IN  /\ disk' = IF done /\ w.kind = "delete" THEN Without(w.path) ELSE disk
            /\ work' = (work \ {w}) \union
                 {[n |-> w.n, kind |-> w.kind, path |-> w.path, stage |-> "done", ok |-> done,
                   tasks |-> IF done /\ w.kind = "scan" THEN Listing(disk) ELSE <<>>,
                   count |-> IF done /\ w.kind = "read" THEN disk[w.path] ELSE 0]}
  BY DEF Perform
<1>5. PICK done : done = (ok /\ (w.kind = "scan" \/ w.path \in DOMAIN disk))
  OBVIOUS
<1>6. PICK known : known = IF done /\ w.kind = "scan" THEN Listing(disk) ELSE <<>>
  OBVIOUS
<1>7. PICK count : count = IF done /\ w.kind = "read" THEN disk[w.path] ELSE 0
  OBVIOUS
<1>8. PICK v : v = [n |-> w.n, kind |-> w.kind, path |-> w.path, stage |-> "done", ok |-> done,
                    tasks |-> known, count |-> count]
  OBVIOUS
<1>9. work' = (work \ {w}) \union {v}
  BY <1>4, <1>5, <1>6, <1>7, <1>8
<1>10. disk' = IF done /\ w.kind = "delete" THEN Without(w.path) ELSE disk
  BY <1>4, <1>5
<1>11. done \in BOOLEAN
  BY <1>5
<1>12. known \in Trees
  <2>1. <<>> \in Seq(LogEntry) /\ Len(<<>>) = 0
    OBVIOUS
  <2>2. <<>> \in Trees
    BY <2>1 DEF Trees
  <2> QED
    BY <2>2, <1>6, ListingTyped
<1>13. count \in Nat
  BY <1>1, <1>3, <1>5, <1>7
<1>14. v \in DoneWork /\ v.kind = w.kind /\ v.path = w.path
  BY <1>3, <1>8, <1>11, <1>12, <1>13 DEF DoneWork
<1>15. work' \subseteq StartedWork \union DoneWork
  BY <1>1, <1>9, <1>14
<1>16. disk' \in [DOMAIN disk' -> Nat]
  <2>1. Without(w.path) \in [DOMAIN Without(w.path) -> Nat]
    BY <1>1 DEF Without
  <2> QED
    BY <2>1, <1>1, <1>10
<1>17. browser' = browser
  BY DEF Perform
<1>18. Busy(browser', work')
  BY <1>1, <1>9, <1>14, <1>17, BrowserParts DEF Busy, AnswersViewer
<1> QED
  BY <1>1, <1>15, <1>16, <1>17, <1>18, BrowserParts, BrowserPartsThen DEF BrowserIInv

(* The answers.                                                             *)
LEMMA ScannedKeeps ==
  ASSUME BrowserIInv, NEW w \in work, Scanned(w)
  PROVE  BrowserIInv'
<1>1. /\ disk \in [DOMAIN disk -> Nat] /\ work \subseteq StartedWork \union DoneWork
      /\ browser \in BrowserRecord /\ CursorIn(browser) /\ Viewing(browser)
  BY BrowserParts DEF BrowserIInv
<1>2. w \in DoneWork
  BY <1>1 DEF Scanned, StartedWork
<1>3. w.tasks \in Trees
  BY <1>2 DEF DoneWork
<1>4. PICK b : b = [browser EXCEPT !.loading = FALSE]
  OBVIOUS
<1>5. /\ b \in BrowserRecord /\ CursorIn(b) /\ Viewing(b) /\ b.loading = FALSE
  BY <1>1, <1>4 DEF BrowserRecord, CursorIn, Viewing
<1>6. PICK c : c = [b EXCEPT !.tasks = w.tasks]
  OBVIOUS
<1>7. c \in BrowserRecord /\ Viewing(c) /\ c.loading = FALSE
  BY <1>3, <1>5, <1>6 DEF BrowserRecord, Viewing
<1>8. PICK t : t = Targeted(c)
  OBVIOUS
<1>9. t \in BrowserRecord /\ Viewing(t) /\ t.loading = FALSE
  BY <1>7, <1>8, TargetedHolds DEF Viewing
<1>10. PICK r : r = InRange(t)
  OBVIOUS
<1>11. r \in BrowserRecord /\ CursorIn(r)
  BY <1>9, <1>10, InRangeHolds
<1>12. PICK k : r = [t EXCEPT !.cursor = k]
  BY <1>9, <1>10, InRangeHolds
<1>13. Viewing(r) /\ r.loading = FALSE
  BY <1>9, <1>12 DEF Viewing, BrowserRecord
<1>14. browser' = IF w.ok THEN r ELSE b
  BY <1>4, <1>6, <1>8, <1>10 DEF Scanned
<1>15. /\ browser' \in BrowserRecord /\ CursorIn(browser') /\ Viewing(browser')
       /\ Busy(browser', work')
  BY <1>5, <1>11, <1>13, <1>14 DEF Busy
<1>16. disk' = disk /\ work' \subseteq StartedWork \union DoneWork
  BY <1>1 DEF Scanned
<1> QED
  BY <1>1, <1>15, <1>16, BrowserPartsThen DEF BrowserIInv

LEMMA ReadKeeps ==
  ASSUME BrowserIInv, NEW w \in work, Read(w)
  PROVE  BrowserIInv'
<1>1. /\ disk \in [DOMAIN disk -> Nat] /\ work \subseteq StartedWork \union DoneWork
      /\ browser \in BrowserRecord /\ CursorIn(browser) /\ Viewing(browser)
      /\ Busy(browser, work)
  BY BrowserParts DEF BrowserIInv
<1>2. w \in DoneWork
  BY <1>1 DEF Read, StartedWork
<1>3. w.path \in PathSet /\ w.count \in Nat
  BY <1>2 DEF DoneWork
<1>4. PICK b : b = [browser EXCEPT !.loading = FALSE]
  OBVIOUS
<1>5. /\ b \in BrowserRecord /\ CursorIn(b) /\ Viewing(b) /\ b.loading = FALSE
      /\ b.viewer = browser.viewer
  BY <1>1, <1>4 DEF BrowserRecord, CursorIn, Viewing
<1>6. PICK k : k = ClampIndex(w.count, w.count)
  OBVIOUS
<1>7. k \in Nat /\ ClampIndex(k, w.count) = k
  <2>1. PICK n : n = w.count
    OBVIOUS
  <2>2. n \in Nat /\ n \in Int
    BY <2>1, <1>3
  <2> QED
    BY <2>1, <2>2, <1>6, Clamping
<1>8. PICK c : c = [b EXCEPT !.lines = [path |-> w.path, count |-> w.count], !.line = k]
  OBVIOUS
<1>9. PICK ls : ls = [path |-> w.path, count |-> w.count]
  OBVIOUS
<1>10. ls \in [path : PathSet, count : Nat] /\ ls.path = w.path /\ ls.count = w.count
  BY <1>3, <1>9
<1>11. c = [b EXCEPT !.lines = ls, !.line = k]
  BY <1>8, <1>9
<1>12. /\ c \in BrowserRecord /\ c.lines = ls /\ c.line = k /\ c.viewer = b.viewer
       /\ c.loading = FALSE /\ c.screen = b.screen /\ c.cursor = b.cursor
       /\ c.tasks = b.tasks /\ c.expanded = b.expanded
  BY <1>5, <1>7, <1>10, <1>11 DEF BrowserRecord
<1>13. CursorIn(c)
  BY <1>5, <1>12 DEF CursorIn
<1>14. w.path = browser.viewer => Viewing(c)
  BY <1>5, <1>7, <1>10, <1>12 DEF Viewing
<1>15. browser' = IF w.path # browser.viewer THEN browser ELSE IF ~w.ok THEN b ELSE c
  BY <1>4, <1>6, <1>8 DEF Read
<1>16. browser' \in BrowserRecord /\ CursorIn(browser') /\ Viewing(browser')
  BY <1>1, <1>5, <1>12, <1>13, <1>14, <1>15
<1>17. disk' = disk /\ work' = work \ {w} /\ w.kind = "read"
  BY DEF Read
<1>18. Busy(browser', work')
  <2>1. CASE w.path # browser.viewer
    <3>1. browser' = browser
      BY <2>1, <1>15
    <3>2. ~AnswersViewer(w, browser.viewer)
      BY <2>1, <1>17 DEF AnswersViewer
    <3>3. browser.loading => \E v \in work' : AnswersViewer(v, browser.viewer)
      BY <3>2, <1>1, <1>17 DEF Busy
    <3> QED
      BY <3>1, <3>3 DEF Busy
  <2>2. CASE w.path = browser.viewer
    BY <2>2, <1>5, <1>12, <1>15 DEF Busy
  <2> QED
    BY <2>1, <2>2
<1> QED
  BY <1>1, <1>16, <1>17, <1>18, BrowserPartsThen DEF BrowserIInv

LEMMA DeletedKeeps ==
  ASSUME BrowserIInv, NEW w \in work, Deleted(w)
  PROVE  BrowserIInv'
<1>1. /\ disk \in [DOMAIN disk -> Nat] /\ work \subseteq StartedWork \union DoneWork
      /\ browser \in BrowserRecord /\ CursorIn(browser) /\ Viewing(browser)
  BY BrowserParts DEF BrowserIInv
<1>2. w \in DoneWork /\ w.n \in WorkNumbers /\ w.ok \in BOOLEAN
  BY <1>1 DEF Deleted, StartedWork, DoneWork
<1>3. PICK b : b = [browser EXCEPT !.screen = "tree", !.loading = w.ok]
  OBVIOUS
<1>4. /\ b \in BrowserRecord /\ CursorIn(b) /\ Viewing(b) /\ b.loading = w.ok
  BY <1>1, <1>2, <1>3 DEF BrowserRecord, CursorIn, Viewing
<1>5. PICK c : c = [b EXCEPT !.viewer = NoPath, !.lines = NoLines, !.line = 1]
  OBVIOUS
<1>6. b.screen = "tree"
  BY <1>1, <1>3 DEF BrowserRecord
<1>7. /\ c \in BrowserRecord /\ c.viewer = NoPath /\ c.lines = NoLines /\ c.line = 1
      /\ c.screen = "tree" /\ c.cursor = b.cursor /\ c.tasks = b.tasks
      /\ c.expanded = b.expanded
  BY <1>4, <1>5, <1>6, NoPathTyped DEF BrowserRecord
<1>8. CursorIn(c) /\ Viewing(c)
  BY <1>4, <1>7, NoPathTyped DEF CursorIn, Viewing, ClampIndex
<1>9. PICK d : d = DeletedClears(b, w.path)
  OBVIOUS
<1>10. d = b \/ d = c
  BY <1>5, <1>9 DEF DeletedClears
<1>11. d \in BrowserRecord /\ CursorIn(d) /\ Viewing(d)
  BY <1>4, <1>7, <1>8, <1>10
<1>12. PICK v : v = [n |-> w.n, kind |-> "scan", path |-> NoPath, stage |-> "started"]
  OBVIOUS
<1>13. v \in StartedWork /\ v.kind = "scan"
  BY <1>2, <1>12, NoPathTyped DEF StartedWork, WorkKinds
<1>14. disk' = disk
  BY DEF Deleted
<1>15. CASE w.ok
  <2>1. browser' = d /\ work' = (work \ {w}) \union {v}
    BY <1>15, <1>3, <1>9, <1>12 DEF Deleted
  <2>2. Busy(browser', work')
    BY <2>1, <1>13 DEF Busy, AnswersViewer
  <2>3. work' \subseteq StartedWork \union DoneWork
    BY <2>1, <1>1, <1>13
  <2> QED
    BY <2>1, <2>2, <2>3, <1>1, <1>11, <1>14, BrowserPartsThen DEF BrowserIInv
<1>16. CASE ~w.ok
  <2>1. browser' = b /\ work' = work \ {w}
    BY <1>16, <1>3 DEF Deleted
  <2>2. Busy(browser', work')
    BY <2>1, <1>4, <1>16 DEF Busy
  <2> QED
    BY <2>1, <2>2, <1>1, <1>4, <1>14, BrowserPartsThen DEF BrowserIInv
<1> QED
  BY <1>15, <1>16

-------------------------------------------------------------------------------
(* The keys.                                                                *)
LEMMA MoveRowKeeps ==
  ASSUME BrowserIInv, MoveRow
  PROVE  BrowserIInv'
<1>1. /\ disk \in [DOMAIN disk -> Nat] /\ work \subseteq StartedWork \union DoneWork
      /\ browser \in BrowserRecord /\ CursorIn(browser) /\ Viewing(browser)
      /\ Busy(browser, work)
  BY BrowserParts DEF BrowserIInv
<1>2. browser.tasks \in Trees /\ browser.cursor \in Nat
  BY <1>1 DEF BrowserRecord
<1>3. PICK n : n = Len(RowsOf(browser.tasks, browser.expanded))
  OBVIOUS
<1>4. n \in Nat /\ n = Len(TreeRows(browser))
  BY <1>2, <1>3, TreeRowsTyped, TreeRowsAre
<1>5. PICK i \in {browser.cursor - 1, browser.cursor + 1, 1, n} :
        browser' = [browser EXCEPT !.cursor = ClampIndex(i, n)]
  BY <1>4 DEF MoveRow
<1>6. i \in Int
  BY <1>2, <1>4
<1>7. PICK k : k = ClampIndex(i, n)
  OBVIOUS
<1>8. k \in Nat /\ ClampIndex(k, n) = k
  BY <1>4, <1>6, <1>7, Clamping
<1>9. browser' = [browser EXCEPT !.cursor = k]
  BY <1>5, <1>7
<1>10. browser' \in BrowserRecord /\ CursorIn(browser') /\ Viewing(browser')
  BY <1>1, <1>3, <1>8, <1>9 DEF BrowserRecord, CursorIn, Viewing
<1>11. disk' = disk /\ work' = work
  BY DEF MoveRow, Silent, Press
<1>12. Busy(browser', work')
  BY <1>1, <1>9, <1>11 DEF Busy, BrowserRecord
<1> QED
  BY <1>1, <1>10, <1>11, <1>12, BrowserPartsThen DEF BrowserIInv

LEMMA MoveLineKeeps ==
  ASSUME BrowserIInv, MoveLine
  PROVE  BrowserIInv'
<1>1. /\ disk \in [DOMAIN disk -> Nat] /\ work \subseteq StartedWork \union DoneWork
      /\ browser \in BrowserRecord /\ CursorIn(browser) /\ Viewing(browser)
      /\ Busy(browser, work)
  BY BrowserParts DEF BrowserIInv
<1>2. browser.line \in Nat /\ browser.lines.count \in Nat
  BY <1>1 DEF BrowserRecord
<1>3. PICK i \in {browser.line + d : d \in {-1, 1, -PageLines, PageLines}}
                 \union {1, browser.lines.count} :
        browser' = [browser EXCEPT !.line = ClampIndex(i, browser.lines.count)]
  BY DEF MoveLine
<1>4. i \in Int
  <2>1. {-1, 1, -PageLines, PageLines} \subseteq Int
    BY FilesNumbered
  <2> QED
    BY <2>1, <1>2, <1>3
<1>5. PICK n : n = browser.lines.count
  OBVIOUS
<1>6. PICK k : k = ClampIndex(i, n)
  OBVIOUS
<1>7. k \in Nat /\ ClampIndex(k, n) = k
  BY <1>2, <1>4, <1>5, <1>6, Clamping
<1>8. browser' = [browser EXCEPT !.line = k]
  BY <1>3, <1>5, <1>6
<1>9. browser' \in BrowserRecord /\ CursorIn(browser') /\ Viewing(browser')
  BY <1>1, <1>5, <1>7, <1>8 DEF BrowserRecord, CursorIn, Viewing
<1>10. disk' = disk /\ work' = work
  BY DEF MoveLine, Silent, Press
<1>11. Busy(browser', work')
  BY <1>1, <1>8, <1>10 DEF Busy, BrowserRecord
<1> QED
  BY <1>1, <1>9, <1>10, <1>11, BrowserPartsThen DEF BrowserIInv

LEMMA ExpandKeeps ==
  ASSUME BrowserIInv, Expand
  PROVE  BrowserIInv'
<1>1. /\ disk \in [DOMAIN disk -> Nat] /\ work \subseteq StartedWork \union DoneWork
      /\ browser \in BrowserRecord /\ CursorIn(browser) /\ Viewing(browser)
      /\ Busy(browser, work)
  BY BrowserParts DEF BrowserIInv
<1>2. PICK known, expanded, cursor :
        known = browser.tasks /\ expanded = browser.expanded /\ cursor = browser.cursor
  OBVIOUS
<1>3. PICK sel : sel = Selected(browser)
  OBVIOUS
<1>4. known \in Trees /\ cursor \in Nat /\ expanded \in SUBSET Nat
  BY <1>1, <1>2 DEF BrowserRecord
<1>5. sel # NoPath /\ SelectedFile(browser) = NoPath
  BY <1>3 DEF Expand
<1>6. /\ cursor \in 1..Len(RowsOf(known, expanded)) /\ RowsOf(known, expanded)[cursor] = sel
      /\ sel[2] = 0 /\ sel \in PathSet
  BY <1>1, <1>2, <1>3, <1>5, SelectedIs
<1>7. sel[1] \in Nat
  <2>1. sel[1] \in Logs \union {0}
    BY <1>6 DEF PathSet
  <2>2. PICK l : l = sel[1]
    OBVIOUS
  <2>3. l \in Logs \/ l = 0
    BY <2>1, <2>2
  <2>4. \A x \in Logs : x \in Nat
    BY FilesNumbered
  <2> QED
    BY <2>2, <2>3, <2>4
<1>8. disk' = disk /\ work' = work
  BY DEF Expand, Silent, Press
<1>9. CASE sel[1] \in expanded
  <2>1. PICK k : k = cursor + 1
    OBVIOUS
  <2>2. k \in 1..Len(RowsOf(known, expanded)) /\ k \in Nat
    BY <2>1, <1>4, <1>6, <1>9, RowBelow
  <2>3. k = ClampIndex(k, Len(RowsOf(known, expanded)))
    <3>1. Len(RowsOf(known, expanded)) \in Nat
      BY <1>4, TreeRowsTyped
    <3>2. k \in Int
      BY <2>2
    <3> QED
      BY <3>1, <3>2, <2>2, Clamping
  <2>4. browser' = [browser EXCEPT !.cursor = k]
    BY <2>1, <1>2, <1>3, <1>9 DEF Expand
  <2>5. browser' \in BrowserRecord /\ CursorIn(browser') /\ Viewing(browser')
    BY <2>2, <2>3, <2>4, <1>1, <1>2 DEF BrowserRecord, CursorIn, Viewing
  <2>6. Busy(browser', work')
    BY <2>4, <1>1, <1>8 DEF Busy, BrowserRecord
  <2> QED
    BY <2>5, <2>6, <1>1, <1>8, BrowserPartsThen DEF BrowserIInv
<1>10. CASE sel[1] \notin expanded
  <2>1. PICK more : more = expanded \union {sel[1]}
    OBVIOUS
  <2>2. more \in SUBSET Nat
    BY <2>1, <1>4, <1>7
  <2>3. Len(RowsOf(known, expanded)) <= Len(RowsOf(known, more))
    BY <2>1, <1>4, MoreRows
  <2>4. Len(RowsOf(known, expanded)) \in Nat /\ Len(RowsOf(known, more)) \in Nat
    BY <1>4, TreeRowsTyped
  <2>5. cursor \in 1..Len(RowsOf(known, more))
    BY <2>3, <2>4, <1>6
  <2>6. cursor = ClampIndex(cursor, Len(RowsOf(known, more)))
    <3>1. cursor \in Int
      BY <1>4
    <3> QED
      BY <3>1, <2>4, <2>5, Clamping
  <2>7. browser' = [browser EXCEPT !.expanded = more]
    BY <2>1, <1>2, <1>3, <1>10 DEF Expand
  <2>8. browser' \in BrowserRecord /\ CursorIn(browser') /\ Viewing(browser')
    BY <2>2, <2>6, <2>7, <1>1, <1>2 DEF BrowserRecord, CursorIn, Viewing
  <2>9. Busy(browser', work')
    BY <2>7, <1>1, <1>8 DEF Busy, BrowserRecord
  <2> QED
    BY <2>8, <2>9, <1>1, <1>8, BrowserPartsThen DEF BrowserIInv
<1> QED
  BY <1>9, <1>10

LEMMA CollapseKeeps ==
  ASSUME BrowserIInv, Collapse
  PROVE  BrowserIInv'
<1>1. /\ disk \in [DOMAIN disk -> Nat] /\ work \subseteq StartedWork \union DoneWork
      /\ browser \in BrowserRecord /\ CursorIn(browser) /\ Viewing(browser)
      /\ Busy(browser, work)
  BY BrowserParts DEF BrowserIInv
<1>2. PICK known, expanded, cursor :
        known = browser.tasks /\ expanded = browser.expanded /\ cursor = browser.cursor
  OBVIOUS
<1>3. PICK log : log = Selected(browser)[1]
  OBVIOUS
<1>4. known \in Trees /\ cursor \in Nat /\ expanded \in SUBSET Nat
  BY <1>1, <1>2 DEF BrowserRecord
<1>5. /\ cursor \in 1..Len(RowsOf(known, expanded))
      /\ RowsOf(known, expanded)[cursor] = Selected(browser)
  BY <1>1, <1>2, SelectedIs DEF Collapse
<1>6. PICK i \in 1..Len(known) : log = known[i].log
  <2>1. PICK ss, g : Arrayed(ss, g, known, expanded)
    BY <1>4, Array
  <2>2. \E i \in 1..Len(known) :
          /\ RowsOf(known, expanded)[cursor][1] = known[i].log
          /\ RowsOf(known, expanded)[cursor][2] = 0 => cursor = Size(g, i - 1) + 1
    BY <2>1, <1>4, <1>5, AnyRow
  <2>3. PICK i \in 1..Len(known) : RowsOf(known, expanded)[cursor][1] = known[i].log
    BY <2>2
  <2> QED
    BY <2>3, <1>3, <1>5
<1>7. PICK k : k = RowOf(browser, log)
  OBVIOUS
<1>8. /\ k \in DOMAIN RowsOf(known, expanded) /\ RowsOf(known, expanded)[k] = Path(log, 0)
      /\ k \in Nat
  BY <1>2, <1>4, <1>6, <1>7, RowOfIs
<1>9. PICK less : less = expanded \ {log}
  OBVIOUS
<1>10. k \in 1..Len(RowsOf(known, less))
  BY <1>4, <1>8, <1>9, RowStays
<1>11. k = ClampIndex(k, Len(RowsOf(known, less)))
  <2>1. Len(RowsOf(known, less)) \in Nat
    BY <1>4, TreeRowsTyped
  <2>2. k \in Int
    BY <1>8
  <2> QED
    BY <2>1, <2>2, <1>10, Clamping
<1>12. browser' = [browser EXCEPT !.expanded = less, !.cursor = k]
  BY <1>2, <1>3, <1>7, <1>9 DEF Collapse
<1>13. less \in SUBSET Nat
  BY <1>4, <1>9
<1>14. browser' \in BrowserRecord /\ CursorIn(browser') /\ Viewing(browser')
  BY <1>1, <1>2, <1>8, <1>11, <1>12, <1>13 DEF BrowserRecord, CursorIn, Viewing
<1>15. disk' = disk /\ work' = work
  BY DEF Collapse, Silent, Press
<1>16. Busy(browser', work')
  BY <1>1, <1>12, <1>15 DEF Busy, BrowserRecord
<1> QED
  BY <1>1, <1>14, <1>15, <1>16, BrowserPartsThen DEF BrowserIInv

LEMMA ScreenKeeps ==
  ASSUME BrowserIInv, CloseViewer \/ AskDelete \/ CancelDelete
  PROVE  BrowserIInv'
<1>1. /\ disk \in [DOMAIN disk -> Nat] /\ work \subseteq StartedWork \union DoneWork
      /\ browser \in BrowserRecord /\ CursorIn(browser) /\ Viewing(browser)
      /\ Busy(browser, work)
  BY BrowserParts DEF BrowserIInv
<1>2. PICK s \in {"tree", "confirm"} : browser' = [browser EXCEPT !.screen = s]
  BY DEF CloseViewer, AskDelete, CancelDelete
<1>3. browser' \in BrowserRecord /\ CursorIn(browser') /\ Viewing(browser')
  BY <1>1, <1>2 DEF BrowserRecord, CursorIn, Viewing
<1>4. disk' = disk /\ work' = work
  BY DEF CloseViewer, AskDelete, CancelDelete, Silent, Press
<1>5. Busy(browser', work')
  BY <1>1, <1>2, <1>4 DEF Busy, BrowserRecord
<1> QED
  BY <1>1, <1>3, <1>4, <1>5, BrowserPartsThen DEF BrowserIInv

LEMMA OpenFileKeeps ==
  ASSUME BrowserIInv, OpenFile
  PROVE  BrowserIInv'
<1>1. /\ disk \in [DOMAIN disk -> Nat] /\ work \subseteq StartedWork \union DoneWork
      /\ browser \in BrowserRecord /\ CursorIn(browser) /\ Viewing(browser)
  BY BrowserParts DEF BrowserIInv
<1>2. PICK p : p = SelectedFile(browser)
  OBVIOUS
<1>3. p \in PathSet /\ p # NoPath
  BY <1>1, <1>2, SelectedIs DEF OpenFile
<1>4. /\ browser' = [browser EXCEPT !.screen = "viewer", !.viewer = p, !.lines = NoLines,
                                    !.line = 1, !.loading = TRUE]
      /\ Begin("read", p) /\ disk' = disk
  BY <1>2 DEF OpenFile, Press
<1>5. /\ work' \subseteq StartedWork \union DoneWork
      /\ \E w \in work' : w.kind = "read" /\ w.path = p
  BY <1>1, <1>3, <1>4, BeginKeeps DEF WorkKinds
<1>6. /\ browser' \in BrowserRecord /\ browser'.viewer = p /\ browser'.lines = NoLines
      /\ browser'.line = 1 /\ browser'.cursor = browser.cursor
      /\ browser'.tasks = browser.tasks /\ browser'.expanded = browser.expanded
  BY <1>1, <1>3, <1>4, NoPathTyped DEF BrowserRecord
<1>7. CursorIn(browser') /\ Viewing(browser')
  BY <1>1, <1>3, <1>6, NoPathTyped DEF CursorIn, Viewing, ClampIndex
<1>8. Busy(browser', work')
  BY <1>5, <1>6 DEF Busy, AnswersViewer
<1> QED
  BY <1>1, <1>4, <1>5, <1>6, <1>7, <1>8, BrowserPartsThen DEF BrowserIInv

LEMMA ConfirmDeleteKeeps ==
  ASSUME BrowserIInv, ConfirmDelete
  PROVE  BrowserIInv'
<1>1. /\ disk \in [DOMAIN disk -> Nat] /\ work \subseteq StartedWork \union DoneWork
      /\ browser \in BrowserRecord /\ CursorIn(browser) /\ Viewing(browser)
      /\ Busy(browser, work)
  BY BrowserParts DEF BrowserIInv
<1>2. PICK p : p = SelectedFile(browser)
  OBVIOUS
<1>3. p \in PathSet
  BY <1>1, <1>2, SelectedIs
<1>4. disk' = disk
  BY DEF ConfirmDelete, Press
<1>5. CASE p = NoPath
  <2>1. browser' = [browser EXCEPT !.screen = "tree"] /\ work' = work
    BY <1>2, <1>5 DEF ConfirmDelete
  <2>2. browser' \in BrowserRecord /\ CursorIn(browser') /\ Viewing(browser')
    BY <2>1, <1>1 DEF BrowserRecord, CursorIn, Viewing
  <2>3. Busy(browser', work')
    BY <2>1, <1>1 DEF Busy, BrowserRecord
  <2> QED
    BY <2>1, <2>2, <2>3, <1>1, <1>4, BrowserPartsThen DEF BrowserIInv
<1>6. CASE p # NoPath
  <2>1. browser' = [browser EXCEPT !.loading = TRUE] /\ Begin("delete", p)
    BY <1>2, <1>6 DEF ConfirmDelete
  <2>2. browser' \in BrowserRecord /\ CursorIn(browser') /\ Viewing(browser')
    BY <2>1, <1>1 DEF BrowserRecord, CursorIn, Viewing
  <2>3. /\ work' \subseteq StartedWork \union DoneWork
        /\ \E w \in work' : w.kind = "delete" /\ w.path = p
    BY <2>1, <1>1, <1>3, BeginKeeps DEF WorkKinds
  <2>4. Busy(browser', work')
    BY <2>3 DEF Busy, AnswersViewer
  <2> QED
    BY <2>2, <2>3, <2>4, <1>1, <1>4, BrowserPartsThen DEF BrowserIInv
<1> QED
  BY <1>5, <1>6

LEMMA DiskChangesKeep ==
  ASSUME BrowserIInv, DiskChanges
  PROVE  BrowserIInv'
<1>1. disk \in [DOMAIN disk -> Nat]
  BY DEF BrowserIInv
<1>2. PICK p \in DOMAIN disk :
        disk' = Without(p) \/ (disk[p] < MaxLines /\ disk' = [disk EXCEPT ![p] = @ + 1])
  BY DEF DiskChanges
<1>3. disk' \in [DOMAIN disk' -> Nat]
  <2>1. Without(p) \in [DOMAIN Without(p) -> Nat]
    BY <1>1 DEF Without
  <2>2. [disk EXCEPT ![p] = @ + 1] \in [DOMAIN disk -> Nat]
    BY <1>1
  <2>3. DOMAIN [disk EXCEPT ![p] = @ + 1] = DOMAIN disk
    OBVIOUS
  <2> QED
    BY <2>1, <2>2, <2>3, <1>2
<1>4. work' = work /\ browser' = browser
  BY DEF DiskChanges
<1> QED
  BY <1>3, <1>4, BrowserParts, BrowserPartsThen DEF BrowserIInv

LEMMA BrowserStep == BrowserIInv /\ [BrowserNext]_browserVars => BrowserIInv'
<1> SUFFICES ASSUME BrowserIInv, [BrowserNext]_browserVars PROVE BrowserIInv'
  OBVIOUS
<1>1. CASE UNCHANGED browserVars
  <2>1. disk' = disk /\ work' = work /\ browser' = browser
    BY <1>1 DEF browserVars
  <2> QED
    BY <2>1, BrowserParts, BrowserPartsThen DEF BrowserIInv
<1>2. ASSUME NEW w \in work, Perform(w) PROVE BrowserIInv'
  BY <1>2, PerformKeeps
<1>3. ASSUME NEW w \in work, Scanned(w) PROVE BrowserIInv'
  BY <1>3, ScannedKeeps
<1>4. ASSUME NEW w \in work, Read(w) PROVE BrowserIInv'
  BY <1>4, ReadKeeps
<1>5. ASSUME NEW w \in work, Deleted(w) PROVE BrowserIInv'
  BY <1>5, DeletedKeeps
<1> QED
  BY <1>1, <1>2, <1>3, <1>4, <1>5, MoveRowKeeps, MoveLineKeeps, ExpandKeeps, CollapseKeeps,
     ScreenKeeps, OpenFileKeeps, ConfirmDeleteKeeps, DiskChangesKeep DEF BrowserNext

LEMMA BrowserHoldsThen == BrowserIInv => BrowserHolds
BY DEF BrowserIInv

-------------------------------------------------------------------------------
(* The GPU agent: the tree of a task.                                       *)

LEMMA Rooted == IsFiniteSet(Pids) /\ Root \in Pids /\ Loads \in SUBSET (SUBSET Pids) /\ StaleAfter \in Nat
BY AgentAssumption

(* A set made a sequence has its members, once each.                        *)
LEMMA MadeSequence ==
  ASSUME NEW S, IsFiniteSet(S)
  PROVE  /\ SetToSeq(S) \in Seq(S) /\ ToSet(SetToSeq(S)) = S
         /\ \A i, j \in 1..Len(SetToSeq(S)) : i # j => SetToSeq(S)[i] # SetToSeq(S)[j]
<1>1. Cardinality(S) \in Nat
  BY FS_CardinalityType
<1>2. PICK f : f \in Bijection(1..Cardinality(S), S)
  BY FS_CardinalityType DEF ExistsBijection
<1>3. f \in [1..Cardinality(S) -> S] /\ IsInjective(f)
  BY <1>2 DEF Bijection, Injection
<1>4. PICK s : s = SetToSeq(S)
  OBVIOUS
<1>5. s \in [1..Cardinality(S) -> S] /\ IsInjective(s)
  BY <1>3, <1>4 DEF SetToSeq
<1>6. \A i, j \in 1..Cardinality(S) : i # j => s[i] # s[j]
  BY <1>5 DEF IsInjective
<1>7. s \in SetToSeqs(S)
  BY <1>5, <1>6 DEF SetToSeqs
<1>8. s \in Seq(S) /\ ToSet(s) = S /\ Len(s) = Cardinality(S)
  BY <1>7, ListsAll
<1> QED
  BY <1>4, <1>6, <1>8

(* The first `n' processes of the queue have been visited.                  *)
Once(s) == \A i, j \in 1..Len(s) : i # j => s[i] # s[j]
Visited(parent, s, n) ==
  \A i \in 1..Len(s) : i <= n => \A q \in Pids : parent[q] = s[i] => q \in ToSet(s)
Queued(parent, s, n) ==
  /\ s \in Seq(Pids) /\ s # <<>> /\ s[1] = Root /\ Once(s)
  /\ ToSet(s) \subseteq Below(parent) /\ Visited(parent, s, n)

LEMMA BelowClosed ==
  ASSUME NEW parent, NEW p \in Below(parent), NEW q \in Pids, parent[q] = p
  PROVE  q \in Below(parent)
BY DEF Below

LEMMA RootBelow == \A parent : Root \in Below(parent)
BY Rooted DEF Below

LEMMA VisitKeeps ==
  ASSUME NEW parent, NEW s, NEW n \in Nat, NEW m, m = n + 1, Queued(parent, s, n)
  PROVE  Queued(parent, Visit(parent, s, m), m)
<1>1. /\ s \in Seq(Pids) /\ s # <<>> /\ s[1] = Root /\ Once(s)
      /\ ToSet(s) \subseteq Below(parent) /\ Visited(parent, s, n)
  BY DEF Queued
<1>2. Len(s) \in Nat /\ Len(s) >= 1 /\ m \in Nat /\ DOMAIN s = 1..Len(s)
  BY <1>1
<1>3. CASE m > Len(s)
  <2>1. Visited(parent, s, m)
    <3> SUFFICES ASSUME NEW i \in 1..Len(s), i <= m, NEW q \in Pids, parent[q] = s[i]
                 PROVE  q \in ToSet(s)
      BY DEF Visited
    <3>1. i <= n
      BY <1>2, <1>3
    <3> QED
      BY <3>1, <1>1 DEF Visited
  <2>2. Visit(parent, s, m) = s
    BY <1>3 DEF Visit
  <2> QED
    BY <2>1, <2>2, <1>1 DEF Queued
<1>4. CASE ~(m > Len(s))
  <2>1. m \in 1..Len(s)
    BY <1>2, <1>4
  <2>2. PICK pid : pid = s[m]
    OBVIOUS
  <2>3. pid \in Pids /\ pid \in ToSet(s)
    BY <2>1, <2>2, <1>1, <1>2 DEF ToSet
  <2>4. PICK new : new = Children(parent, pid, ToSet(s))
    OBVIOUS
  <2>5. new = {p \in Pids : parent[p] = pid} \ ToSet(s)
    BY <2>4 DEF Children
  <2>6. new \in SUBSET Pids /\ IsFiniteSet(new)
    BY <2>5, Rooted, FS_Subset
  <2>7. PICK b : b = SetToSeq(new)
    OBVIOUS
  <2>8. b \in Seq(new) /\ ToSet(b) = new /\ Once(b)
    BY <2>6, <2>7, MadeSequence DEF Once
  <2>9. b \in Seq(Pids) /\ DOMAIN b = 1..Len(b) /\ Len(b) \in Nat
    <3>1. DOMAIN b = 1..Len(b) /\ Len(b) \in Nat /\ \A i \in 1..Len(b) : b[i] \in new
      BY <2>8
    <3>2. \A i \in 1..Len(b) : b[i] \in Pids
      BY <3>1, <2>6
    <3>3. b \in [1..Len(b) -> Pids]
      BY <3>1, <3>2, <2>8
    <3> QED
      BY <3>1, <3>3
  <2>10. PICK c : c = s \o b
    OBVIOUS
  <2>11. Visit(parent, s, m) = c
    BY <1>4, <2>2, <2>4, <2>7, <2>10 DEF Visit
  <2>12. /\ c \in Seq(Pids) /\ Len(c) = Len(s) + Len(b)
         /\ \A i \in 1..Len(s) : c[i] = s[i]
         /\ \A i \in 1..Len(b) : c[Len(s) + i] = b[i]
         /\ \A k \in 1..Len(c) : k \in 1..Len(s) \/ \E i \in 1..Len(b) : k = Len(s) + i
    <3>1. PICK X : X = Pids
      OBVIOUS
    <3>2. s \in Seq(X) /\ b \in Seq(X) /\ Joins(c, s, b)
      BY <3>1, <1>1, <2>9, <2>10 DEF Joins
    <3>3. /\ c \in Seq(X) /\ Len(c) = Len(s) + Len(b)
          /\ \A i \in 1..Len(s) : c[i] = s[i]
          /\ \A i \in 1..Len(b) : c[Len(s) + i] = b[i]
          /\ \A k \in 1..Len(c) : k \in 1..Len(s) \/ \E i \in 1..Len(b) : k = Len(s) + i
      BY <3>2, Appended
    <3> QED
      BY <3>1, <3>3
  <2>13. DOMAIN c = 1..Len(c)
    BY <2>12
  <2>14. ToSet(c) = ToSet(s) \union new
    <3>1. \A x \in ToSet(c) : x \in ToSet(s) \/ x \in ToSet(b)
      <4> SUFFICES ASSUME NEW k \in 1..Len(c) PROVE c[k] \in ToSet(s) \/ c[k] \in ToSet(b)
        BY <2>13 DEF ToSet
      <4>1. CASE k \in 1..Len(s)
        BY <4>1, <2>12, <1>2 DEF ToSet
      <4>2. ASSUME NEW i \in 1..Len(b), k = Len(s) + i PROVE c[k] \in ToSet(b)
        <5>1. c[k] = b[i]
          BY <4>2, <2>12
        <5> QED
          BY <5>1, <2>9 DEF ToSet
      <4> QED
        BY <4>1, <4>2, <2>12
    <3>2. \A x \in ToSet(s) : x \in ToSet(c)
      <4> SUFFICES ASSUME NEW i \in 1..Len(s) PROVE s[i] \in ToSet(c)
        BY <1>2 DEF ToSet
      <4>1. i \in 1..Len(c) /\ c[i] = s[i]
        BY <2>12, <2>9, <1>2
      <4> QED
        BY <4>1, <2>13 DEF ToSet
    <3>3. \A x \in ToSet(b) : x \in ToSet(c)
      <4> SUFFICES ASSUME NEW i \in 1..Len(b) PROVE b[i] \in ToSet(c)
        BY <2>9 DEF ToSet
      <4>1. PICK k : k = Len(s) + i
        OBVIOUS
      <4>2. k \in 1..Len(c) /\ c[k] = b[i]
        BY <4>1, <2>12, <2>9, <1>2
      <4> QED
        BY <4>2, <2>13 DEF ToSet
    <3> QED
      BY <3>1, <3>2, <3>3, <2>8
  <2>15. Once(c)
    <3> SUFFICES ASSUME NEW i \in 1..Len(c), NEW j \in 1..Len(c), i # j PROVE c[i] # c[j]
      BY DEF Once
    <3>1. ASSUME NEW k \in 1..Len(s), NEW l \in 1..Len(b) PROVE s[k] # b[l]
      <4>1. s[k] \in ToSet(s) /\ b[l] \in ToSet(b)
        BY <1>2, <2>9 DEF ToSet
      <4> QED
        BY <4>1, <2>5, <2>8
    <3>2. CASE i \in 1..Len(s) /\ j \in 1..Len(s)
      BY <3>2, <1>1, <2>12 DEF Once
    <3>3. CASE i \in 1..Len(s) /\ j \notin 1..Len(s)
      BY <3>1, <3>3, <2>12
    <3>4. CASE i \notin 1..Len(s) /\ j \in 1..Len(s)
      BY <3>1, <3>4, <2>12
    <3>5. CASE i \notin 1..Len(s) /\ j \notin 1..Len(s)
      <4>1. PICK k \in 1..Len(b) : i = Len(s) + k
        BY <3>5, <2>12
      <4>2. PICK l \in 1..Len(b) : j = Len(s) + l
        BY <3>5, <2>12
      <4>3. k # l
        BY <4>1, <4>2
      <4>4. b[k] # b[l]
        BY <4>3, <2>8 DEF Once
      <4> QED
        BY <4>1, <4>2, <4>4, <2>12
    <3> QED
      BY <3>2, <3>3, <3>4, <3>5
  <2>16. ToSet(c) \subseteq Below(parent)
    <3>1. pid \in Below(parent)
      BY <2>3, <1>1
    <3>2. \A q \in new : q \in Below(parent)
      BY <3>1, <2>5, BelowClosed
    <3> QED
      BY <3>2, <2>14, <1>1
  <2>17. Visited(parent, c, m)
    <3> SUFFICES ASSUME NEW i \in 1..Len(c), i <= m, NEW q \in Pids, parent[q] = c[i]
                 PROVE  q \in ToSet(c)
      BY DEF Visited
    <3>1. i \in 1..Len(s) /\ c[i] = s[i]
      BY <2>1, <2>12, <1>2
    <3>2. CASE i = m
      <4>1. parent[q] = pid
        BY <3>1, <3>2, <2>2
      <4>2. q \in new \/ q \in ToSet(s)
        BY <4>1, <2>5
      <4> QED
        BY <4>2, <2>14
    <3>3. CASE i # m
      <4>1. i <= n
        BY <3>3
      <4>2. q \in ToSet(s)
        BY <4>1, <3>1, <1>1 DEF Visited
      <4> QED
        BY <4>2, <2>14
    <3> QED
      BY <3>2, <3>3
  <2>18. c # <<>> /\ c[1] = Root
    <3>1. 1 \in 1..Len(s) /\ Len(c) # 0
      BY <1>2, <2>9, <2>12
    <3> QED
      BY <3>1, <1>1, <2>12
  <2> QED
    BY <2>11, <2>12, <2>15, <2>16, <2>17, <2>18 DEF Queued
<1> QED
  BY <1>3, <1>4

LEMMA QueueBegins == \A parent : Queued(parent, <<Root>>, 0)
<1> SUFFICES ASSUME NEW parent PROVE Queued(parent, <<Root>>, 0)
  OBVIOUS
<1>1. PICK s : s = <<Root>>
  OBVIOUS
<1>2. s \in Seq(Pids) /\ Len(s) = 1 /\ s[1] = Root /\ s # <<>> /\ DOMAIN s = 1..1
  BY <1>1, Rooted
<1>3. Once(s) /\ ToSet(s) = {Root}
  BY <1>2 DEF Once, ToSet
<1>4. Visited(parent, s, 0)
  BY <1>2 DEF Visited
<1> QED
  BY <1>1, <1>2, <1>3, <1>4, RootBelow DEF Queued

(* Every process that is queued is visited.                                 *)
LEMMA AllVisited ==
  ASSUME NEW parent, NEW s, Queued(parent, s, Cardinality(Pids))
  PROVE  ToSet(s) = Below(parent)
<1>1. /\ s \in Seq(Pids) /\ s # <<>> /\ s[1] = Root /\ Once(s)
      /\ ToSet(s) \subseteq Below(parent) /\ Visited(parent, s, Cardinality(Pids))
  BY DEF Queued
<1>2. Len(s) \in Nat /\ DOMAIN s = 1..Len(s) /\ 1 \in DOMAIN s /\ s \in [1..Len(s) -> Pids]
  BY <1>1
<1>3. Len(s) <= Cardinality(Pids)
  <2>1. s \in Injection(1..Len(s), Pids)
    BY <1>1, <1>2 DEF Injection, IsInjective, Once
  <2>2. Cardinality(1..Len(s)) <= Cardinality(Pids)
    BY <2>1, Rooted, FS_Injection
  <2>3. Cardinality(1..Len(s)) = Len(s)
    BY <1>2, FS_Interval
  <2> QED
    BY <2>2, <2>3
<1>4. \A q \in Pids : parent[q] \in ToSet(s) => q \in ToSet(s)
  <2> SUFFICES ASSUME NEW q \in Pids, parent[q] \in ToSet(s) PROVE q \in ToSet(s)
    OBVIOUS
  <2>1. PICK i \in 1..Len(s) : parent[q] = s[i]
    BY <1>2 DEF ToSet
  <2>2. i <= Cardinality(Pids)
    <3>1. Cardinality(Pids) \in Nat
      BY Rooted, FS_CardinalityType
    <3> QED
      BY <3>1, <1>2, <1>3
  <2> QED
    BY <2>1, <2>2, <1>1 DEF Visited
<1>5. Root \in ToSet(s) /\ ToSet(s) \in SUBSET Pids
  BY <1>1, <1>2 DEF ToSet
<1>6. Below(parent) \subseteq ToSet(s)
  BY <1>4, <1>5 DEF Below
<1> QED
  BY <1>1, <1>6

(* The queue, step by step.                                                 *)
LEMMA QueueKeeps ==
  ASSUME NEW parent, NEW N \in Nat, NEW f, f[0] = <<Root>>,
         \A n \in 0..N : n # 0 => f[n] = Visit(parent, f[n - 1], n)
  PROVE  Queued(parent, f[N], N)
<1> DEFINE S == {n \in Nat : n <= N => Queued(parent, f[n], n)}
<1>1. 0 \in S
  BY QueueBegins
<1>2. ASSUME NEW n \in S PROVE n + 1 \in S
  <2>1. n \in Nat /\ n + 1 \in Nat
    OBVIOUS
  <2> SUFFICES ASSUME n + 1 <= N PROVE Queued(parent, f[n + 1], n + 1)
    BY <2>1
  <2>2. PICK m : m = n + 1
    OBVIOUS
  <2>3. m \in 0..N /\ m # 0 /\ m - 1 = n /\ n <= N
    BY <2>1, <2>2
  <2>4. Queued(parent, f[n], n)
    BY <2>3
  <2>5. f[m] = Visit(parent, f[n], m)
    BY <2>3
  <2>6. Queued(parent, f[m], m)
    BY <2>1, <2>2, <2>4, <2>5, VisitKeeps
  <2> QED
    BY <2>2, <2>6
<1>3. S = Nat
  <2>1. S \in SUBSET Nat
    OBVIOUS
  <2> HIDE DEF S
  <2> QED
    BY <1>1, <1>2, <2>1, Inducted
<1> QED
  BY <1>3

(* There is such a queue.                                                   *)
LEMMA VisitTyped ==
  ASSUME NEW parent, NEW s \in Seq(Pids), NEW n \in Nat
  PROVE  Visit(parent, s, n) \in Seq(Pids)
<1>1. CASE n > Len(s)
  BY <1>1 DEF Visit
<1>2. CASE ~(n > Len(s))
  <2>1. PICK new : new = Children(parent, s[n], ToSet(s))
    OBVIOUS
  <2>2. new \in SUBSET Pids /\ IsFiniteSet(new)
    BY <2>1, Rooted, FS_Subset DEF Children
  <2>3. PICK b : b = SetToSeq(new)
    OBVIOUS
  <2>4. b \in Seq(new)
    BY <2>2, <2>3, MadeSequence
  <2>5. DOMAIN b = 1..Len(b) /\ Len(b) \in Nat /\ \A i \in 1..Len(b) : b[i] \in new
    BY <2>4
  <2>6. b \in [1..Len(b) -> Pids]
    BY <2>2, <2>4, <2>5
  <2>7. b \in Seq(Pids)
    BY <2>5, <2>6
  <2>8. s \o b \in Seq(Pids)
    BY <2>7
  <2> QED
    BY <1>2, <2>1, <2>3, <2>8 DEF Visit
<1> QED
  BY <1>1, <1>2

LEMMA QueueExists ==
  ASSUME NEW parent, NEW N \in Nat
  PROVE  \E f : f = [n \in 0..N |-> IF n = 0 THEN <<Root>> ELSE Visit(parent, f[n - 1], n)]
<1>1. PICK Y, e : Y = Seq(Pids) /\ e = <<Root>>
  OBVIOUS
<1>2. e \in Y
  BY <1>1, Rooted
<1> DEFINE step == [n \in Nat |-> [y \in Y |-> Visit(parent, y, n + 1)]]
<1>3. \A n \in Nat, y \in Y : Visit(parent, y, n + 1) \in Y
  <2> SUFFICES ASSUME NEW n \in Nat, NEW y \in Y PROVE Visit(parent, y, n + 1) \in Y
    OBVIOUS
  <2>1. PICK m : m = n + 1
    OBVIOUS
  <2>2. m \in Nat /\ y \in Seq(Pids)
    BY <2>1, <1>1
  <2> QED
    BY <2>1, <2>2, <1>1, VisitTyped
<1>4. step \in [Nat -> [Y -> Y]]
  BY <1>3
<1>5. \A n \in Nat, y \in Y : step[n][y] = Visit(parent, y, n + 1)
  OBVIOUS
<1> HIDE DEF step
<1>6. Steps(step, Y)
  BY <1>4 DEF Steps
<1>7. PICK g : Recursion(g, Y, e, step)
  BY <1>2, <1>6, Recursed
<1>8. g \in [Nat -> Y] /\ g[0] = e /\ \A n \in Nat : g[n + 1] = step[n][g[n]]
  BY <1>7 DEF Recursion
<1>9. PICK f : f = [n \in 0..N |-> g[n]]
  OBVIOUS
<1>10. \A n \in 0..N : f[n] = IF n = 0 THEN <<Root>> ELSE Visit(parent, f[n - 1], n)
  <2> SUFFICES ASSUME NEW n \in 0..N
               PROVE  f[n] = IF n = 0 THEN <<Root>> ELSE Visit(parent, f[n - 1], n)
    OBVIOUS
  <2>1. CASE n = 0
    BY <2>1, <1>1, <1>8, <1>9
  <2>2. CASE n # 0
    <3>1. PICK m : m = n - 1
      OBVIOUS
    <3>2. m \in Nat /\ m \in 0..N /\ n = m + 1
      BY <3>1, <2>2
    <3>3. g[m] \in Y /\ g[m + 1] = step[m][g[m]]
      BY <3>2, <1>8
    <3>4. g[m + 1] = Visit(parent, g[m], m + 1)
      BY <3>2, <3>3, <1>5
    <3>5. f[n] = g[m + 1] /\ f[m] = g[m]
      BY <3>2, <1>9
    <3> QED
      BY <3>1, <3>2, <3>4, <3>5, <2>2
  <2> QED
    BY <2>1, <2>2
<1>11. f = [n \in 0..N |-> f[n]]
  BY <1>9
<1>12. f = [n \in 0..N |-> IF n = 0 THEN <<Root>> ELSE Visit(parent, f[n - 1], n)]
  BY <1>10, <1>11
<1> QED
  BY <1>12

(* The tree: every process below the root, once.                            *)
LEMMA TreeIs ==
  ASSUME NEW parent, NEW tree, tree = Descendants(parent, Root)
  PROVE  /\ tree \in Seq(Pids) /\ Once(tree) /\ ToSet(tree) = Below(parent) \ {Root}
<1>1. PICK N : N = Cardinality(Pids)
  OBVIOUS
<1>2. N \in Nat
  BY <1>1, Rooted, FS_CardinalityType
<1> DEFINE Is(f) == f = [n \in 0..N |-> IF n = 0 THEN <<Root>> ELSE Visit(parent, f[n - 1], n)]
<1>3. PICK f : f = CHOOSE q : Is(q)
  OBVIOUS
<1>4. tree = Tail(f[N])
  BY <1>1, <1>3 DEF Descendants
<1>5. Is(f)
  <2>1. \E q : Is(q)
    BY <1>2, QueueExists
  <2> HIDE DEF Is
  <2> QED
    BY <2>1, <1>3
<1>6. \A n \in 0..N : f[n] = IF n = 0 THEN <<Root>> ELSE Visit(parent, f[n - 1], n)
  BY <1>5
<1> HIDE DEF Is
<1>7. f[0] = <<Root>> /\ \A n \in 0..N : n # 0 => f[n] = Visit(parent, f[n - 1], n)
  BY <1>2, <1>6
<1>8. PICK s : s = f[N]
  OBVIOUS
<1>9. Queued(parent, s, N)
  BY <1>2, <1>7, <1>8, QueueKeeps
<1>10. ToSet(s) = Below(parent)
  BY <1>1, <1>9, AllVisited
<1>11. s \in Seq(Pids) /\ s # <<>> /\ s[1] = Root /\ Once(s) /\ tree = Tail(s)
  BY <1>4, <1>8, <1>9 DEF Queued
<1>12. /\ tree \in Seq(Pids) /\ Len(s) \in Nat /\ Len(tree) = Len(s) - 1 /\ Len(tree) \in Nat
       /\ \A i \in 1..Len(tree) : tree[i] = s[i + 1]
       /\ DOMAIN tree = 1..Len(tree) /\ DOMAIN s = 1..Len(s)
  BY <1>11
<1>13. \A i \in 1..Len(tree) : i + 1 \in 1..Len(s) /\ i + 1 # 1
  BY <1>12
<1>14. Once(tree)
  <2> SUFFICES ASSUME NEW i \in 1..Len(tree), NEW j \in 1..Len(tree), i # j
               PROVE  tree[i] # tree[j]
    BY DEF Once
  <2>1. PICK a, b : a = i + 1 /\ b = j + 1
    OBVIOUS
  <2>2. a # b /\ a \in 1..Len(s) /\ b \in 1..Len(s)
    BY <2>1, <1>13
  <2>3. s[a] # s[b]
    BY <2>2, <1>11 DEF Once
  <2> QED
    BY <2>1, <2>3, <1>12
<1>15. ASSUME NEW x \in ToSet(tree) PROVE x \in Below(parent) \ {Root}
  <2>1. PICK i \in 1..Len(tree) : x = tree[i]
    BY <1>12 DEF ToSet
  <2>2. PICK a : a = i + 1
    OBVIOUS
  <2>3. a \in 1..Len(s) /\ a # 1 /\ x = s[a] /\ 1 \in 1..Len(s)
    BY <2>1, <2>2, <1>12, <1>13
  <2>4. s[a] # s[1]
    BY <2>3, <1>11 DEF Once
  <2>5. x \in ToSet(s)
    BY <2>3, <1>12 DEF ToSet
  <2> QED
    BY <2>3, <2>4, <2>5, <1>10, <1>11
<1>16. ASSUME NEW x \in Below(parent), x # Root PROVE x \in ToSet(tree)
  <2>1. PICK a \in 1..Len(s) : x = s[a]
    BY <1>10, <1>12 DEF ToSet
  <2>2. a # 1
    BY <2>1, <1>11, <1>16
  <2>3. PICK i : i = a - 1
    OBVIOUS
  <2>4. i \in 1..Len(tree) /\ a = i + 1
    BY <2>2, <2>3, <1>12
  <2>5. x = tree[i]
    BY <2>1, <2>4, <1>12
  <2> QED
    BY <2>4, <2>5, <1>12 DEF ToSet
<1> QED
  BY <1>12, <1>14, <1>15, <1>16

(* A tree's processes, each counted once.                                   *)
LEMMA CountedOnce ==
  ASSUME NEW tree \in Seq(Pids), Once(tree), NEW rows
  PROVE  /\ Cardinality({i \in DOMAIN tree : tree[i] \in rows}) = Cardinality(rows \intersect ToSet(tree))
         /\ Len(tree) = Cardinality(ToSet(tree))
         /\ IsFiniteSet(rows \intersect ToSet(tree))
<1>1. DOMAIN tree = 1..Len(tree) /\ Len(tree) \in Nat
  OBVIOUS
<1>2. IsFiniteSet(1..Len(tree)) /\ Cardinality(1..Len(tree)) = Len(tree)
  BY <1>1, FS_Interval
<1>3. ASSUME NEW R
      PROVE  /\ IsFiniteSet(R \intersect ToSet(tree))
             /\ Cardinality({i \in DOMAIN tree : tree[i] \in R}) = Cardinality(R \intersect ToSet(tree))
  <2>1. PICK D : D = {i \in DOMAIN tree : tree[i] \in R}
    OBVIOUS
  <2>2. PICK T : T = R \intersect ToSet(tree)
    OBVIOUS
  <2>3. IsFiniteSet(D)
    BY <2>1, <1>1, <1>2, FS_Subset
  <2>4. PICK f : f = [i \in D |-> tree[i]]
    OBVIOUS
  <2>5. f \in [D -> T]
    BY <2>1, <2>2, <2>4 DEF ToSet
  <2>6. \A t \in T : \E i \in D : f[i] = t
    BY <2>1, <2>2, <2>4 DEF ToSet
  <2>7. \A i, j \in D : f[i] = f[j] => i = j
    BY <2>1, <2>4, <1>1 DEF Once
  <2>8. f \in Bijection(D, T)
    BY <2>5, <2>6, <2>7 DEF Bijection, Injection, Surjection, IsInjective
  <2>9. IsFiniteSet(T) /\ Cardinality(T) = Cardinality(D)
    BY <2>3, <2>8, FS_Bijection DEF ExistsBijection
  <2> QED
    BY <2>1, <2>2, <2>9
<1>4. Len(tree) = Cardinality(ToSet(tree))
  <2>1. PICK R : R = ToSet(tree)
    OBVIOUS
  <2>2. {i \in DOMAIN tree : tree[i] \in R} = 1..Len(tree) /\ R \intersect ToSet(tree) = R
    BY <2>1, <1>1 DEF ToSet
  <2> QED
    BY <2>1, <2>2, <1>2, <1>3
<1> QED
  BY <1>3, <1>4

-------------------------------------------------------------------------------
(* The GPU agent: what is read, published and shown.                        *)
ParserRecord == [gpu : Nat, rows : SUBSET Pids, columns : BOOLEAN, supported : BOOLEAN]
Exported == [sample : Nat, at : Nat, rows : SUBSET Pids, supported : BOOLEAN]

\* The sample being read: its rows are its users' and complete when it is.
ParserOK ==
  /\ parser.gpu \in {0, time} /\ (print \in {"nothing", "boundary"} => parser.gpu = 0)
  /\ parser.columns => parser.supported
  /\ print \in {"nothing", "boundary", "machine"} => parser.rows = {}
  /\ print # "nothing" => time \in 1..Len(users)
  /\ parser.rows # {} => parser.columns /\ parser.rows \subseteq users[time]
  /\ print = "complete" => parser.rows \in {{}, users[time]}

ReadingOK(r, us) ==
  r # NoReading =>
    /\ r.sample \in 1..Len(us) /\ r.rows \subseteq us[r.sample]
    /\ (r.supported /\ r.at > r.sample) => r.rows \in {{}, us[r.sample]}
    /\ r.at <= r.sample + 1
    /\ ~r.supported => r.rows = {}

AgentIInv ==
  /\ time \in Nat /\ users \in Seq(SUBSET Pids) /\ Len(users) = time
  /\ parser \in ParserRecord /\ export \in Exported
  /\ agent = "up" => ParserOK
  /\ ReadingOK(export, users) /\ ReadingsHold

LEMMA NoReadingIs ==
  /\ NoReading \in Exported /\ NewParser \in ParserRecord
  /\ NoReading.rows = {}
BY DEF NoReading, NewParser, Exported, ParserRecord

LEMMA NothingShown == look = NoLook => ReadingsHold
BY DEF ReadingsHold, NoLook

LEMMA NothingShownThen == look' = NoLook => ReadingsHold'
BY DEF ReadingsHold, NoLook, NoReading

LEMMA AgentStarts == AgentInit => AgentIInv
<1> SUFFICES ASSUME AgentInit PROVE AgentIInv
  OBVIOUS
<1>1. /\ time = 0 /\ users = <<>> /\ agent = "off" /\ parser = NewParser
      /\ export = NoReading /\ look = NoLook
  BY DEF AgentInit
<1>2. users \in Seq(SUBSET Pids) /\ Len(users) = 0
  BY <1>1
<1> QED
  BY <1>1, <1>2, NoReadingIs, NothingShown DEF AgentIInv, ReadingOK

(* One more sample: what is known of those before it stays.                 *)
LEMMA OneMore ==
  ASSUME users \in Seq(SUBSET Pids), Len(users) = time, time \in Nat, NEW load \in SUBSET Pids,
         NEW us, us = Append(users, load)
  PROVE  /\ us \in Seq(SUBSET Pids) /\ Len(us) = time + 1
         /\ \A i \in 1..time : us[i] = users[i]
OBVIOUS

LEMMA StillOK ==
  ASSUME NEW r \in Exported, NEW us, ReadingOK(r, users), Len(users) \in Nat,
         Len(us) \in Nat, Len(users) <= Len(us), \A i \in 1..Len(users) : us[i] = users[i]
  PROVE  ReadingOK(r, us)
<1>1. CASE r = NoReading
  BY <1>1 DEF ReadingOK
<1>2. CASE r # NoReading
  <2>1. PICK k : k = r.sample
    OBVIOUS
  <2>2. k \in 1..Len(users)
    BY <1>2, <2>1 DEF ReadingOK
  <2>3. us[k] = users[k] /\ k \in 1..Len(us)
    BY <2>2
  <2> QED
    BY <2>1, <2>3, <1>2 DEF ReadingOK
<1> QED
  BY <1>1, <1>2

(* What is published: the reading there was, or the sample read.            *)
LEMMA PublishedOK ==
  ASSUME time \in Nat, users \in Seq(SUBSET Pids), Len(users) = time, parser \in ParserRecord,
         export \in Exported, ReadingOK(export, users), ParserOK, NEW at \in Nat,
         Published(parser, at),
         at <= time + 1, at > time => print \in {"nothing", "complete"}
  PROVE  export' \in Exported /\ ReadingOK(export', users)
<1>1. CASE export' = export
  BY <1>1
<1>2. CASE export' # export
  <2>1. PICK r : r = [sample |-> parser.gpu, at |-> at, rows |-> parser.rows,
                      supported |-> parser.supported]
    OBVIOUS
  <2>2. parser.gpu # 0 /\ export' = r
    BY <1>2, <2>1 DEF Published
  <2>3. /\ r \in Exported /\ r.sample = parser.gpu /\ r.at = at /\ r.rows = parser.rows
        /\ r.supported = parser.supported
    BY <2>1 DEF Exported, ParserRecord
  <2>4. parser.gpu = time /\ print \notin {"nothing", "boundary"} /\ time \in 1..Len(users)
    BY <2>2 DEF ParserOK
  <2>5. parser.rows \subseteq users[time] /\ (~parser.supported => parser.rows = {})
    BY DEF ParserOK
  <2>6. at > time => parser.rows \in {{}, users[time]}
    BY <2>4 DEF ParserOK
  <2>7. ReadingOK(r, users)
    BY <2>3, <2>4, <2>5, <2>6 DEF ReadingOK
  <2> QED
    BY <2>2, <2>3, <2>7
<1> QED
  BY <1>1, <1>2

-------------------------------------------------------------------------------
LEMMA BoundaryKeeps ==
  ASSUME AgentIInv, Boundary, look' = NoLook
  PROVE  AgentIInv'
<1>1. /\ time \in Nat /\ users \in Seq(SUBSET Pids) /\ Len(users) = time
      /\ parser \in ParserRecord /\ export \in Exported /\ ParserOK
      /\ ReadingOK(export, users)
  BY DEF AgentIInv, Boundary
<1>2. PICK load \in Loads : users' = Append(users, load)
  BY DEF Boundary
<1>3. load \in SUBSET Pids
  BY Rooted
<1>4. PICK us : us = users'
  OBVIOUS
<1>5. /\ us \in Seq(SUBSET Pids) /\ Len(us) = time + 1 /\ \A i \in 1..time : us[i] = users[i]
  BY <1>1, <1>2, <1>3, <1>4, OneMore
<1>6. /\ time' = time + 1 /\ print' = "boundary" /\ Published(parser, time + 1)
      /\ parser' = [parser EXCEPT !.gpu = 0, !.rows = {}] /\ print \in {"nothing", "complete"}
  BY DEF Boundary
<1>7. export' \in Exported /\ ReadingOK(export', users)
  <2>1. PICK at : at = time + 1
    OBVIOUS
  <2>2. at \in Nat /\ at <= time + 1 /\ Published(parser, at)
    BY <2>1, <1>1, <1>6
  <2> QED
    BY <2>2, <1>1, <1>6, PublishedOK
<1>8. ReadingOK(export', us)
  BY <1>1, <1>5, <1>7, StillOK
<1>9. /\ parser' \in ParserRecord /\ parser'.gpu = 0 /\ parser'.rows = {}
      /\ parser'.columns = parser.columns /\ parser'.supported = parser.supported
  BY <1>1, <1>6 DEF ParserRecord
<1>10. ParserOK'
  BY <1>1, <1>4, <1>5, <1>6, <1>9 DEF ParserOK
<1> QED
  BY <1>1, <1>4, <1>5, <1>6, <1>7, <1>8, <1>9, <1>10, NothingShownThen DEF AgentIInv

(* A line that changes only the parser and what is printed next.            *)
LEMMA LineKeeps ==
  ASSUME AgentIInv, look' = NoLook, agent' = agent, export' = export, time' = time,
         users' = users, parser' \in ParserRecord, agent = "up" => ParserOK'
  PROVE  AgentIInv'
BY NothingShownThen DEF AgentIInv

LEMMA MachineLineKeeps ==
  ASSUME AgentIInv, MachineLine, look' = NoLook
  PROVE  AgentIInv'
<1>1. /\ time \in Nat /\ Len(users) = time /\ parser \in ParserRecord /\ ParserOK
  BY DEF AgentIInv, MachineLine
<1>2. /\ print = "boundary" /\ print' = "machine" /\ parser' = [parser EXCEPT !.gpu = time]
      /\ UNCHANGED <<time, users, agent, export>>
  BY DEF MachineLine
<1>3. /\ parser' \in ParserRecord /\ parser'.gpu = time /\ parser'.rows = parser.rows
      /\ parser'.columns = parser.columns /\ parser'.supported = parser.supported
  BY <1>1, <1>2 DEF ParserRecord
<1>4. ParserOK'
  BY <1>1, <1>2, <1>3 DEF ParserOK
<1> QED
  BY <1>2, <1>3, <1>4, LineKeeps

LEMMA HeaderKeeps ==
  ASSUME AgentIInv, NEW hasGPU \in BOOLEAN, Header(hasGPU), look' = NoLook
  PROVE  AgentIInv'
<1>1. /\ time \in Nat /\ Len(users) = time /\ parser \in ParserRecord /\ ParserOK
  BY DEF AgentIInv, Header
<1>2. /\ print = "machine" /\ print' = "table"
      /\ parser' = [parser EXCEPT !.columns = hasGPU, !.supported = @ \/ hasGPU]
      /\ UNCHANGED <<time, users, agent, export>>
  BY DEF Header
<1>3. PICK sup \in BOOLEAN : sup = (parser.supported \/ hasGPU)
  OBVIOUS
<1>4. parser' = [parser EXCEPT !.columns = hasGPU, !.supported = sup]
  BY <1>2, <1>3
<1>5. /\ parser' \in ParserRecord /\ parser'.gpu = parser.gpu /\ parser'.rows = parser.rows
      /\ parser'.columns = hasGPU /\ parser'.supported = sup
  BY <1>1, <1>4 DEF ParserRecord
<1>6. ParserOK'
  BY <1>1, <1>2, <1>3, <1>5 DEF ParserOK
<1> QED
  BY <1>2, <1>5, <1>6, LineKeeps

LEMMA SameHeaderKeeps ==
  ASSUME AgentIInv, SameHeader, look' = NoLook
  PROVE  AgentIInv'
<1>1. /\ parser \in ParserRecord /\ ParserOK
  BY DEF AgentIInv, SameHeader
<1>2. /\ print = "machine" /\ print' = "table"
      /\ UNCHANGED <<time, users, agent, parser, export>>
  BY DEF SameHeader
<1>3. ParserOK'
  BY <1>1, <1>2 DEF ParserOK
<1> QED
  BY <1>1, <1>2, <1>3, LineKeeps

LEMMA AppendRowKeeps ==
  ASSUME AgentIInv, NEW pid \in Pids, AppendRow(pid), look' = NoLook
  PROVE  AgentIInv'
<1>1. /\ time \in Nat /\ Len(users) = time /\ parser \in ParserRecord /\ ParserOK
  BY DEF AgentIInv, AppendRow
<1>2. /\ print = "table" /\ parser.columns /\ pid \in users[time]
      /\ parser' = [parser EXCEPT !.rows = @ \union {pid}]
      /\ UNCHANGED <<time, users, print, agent, export>>
  BY DEF AppendRow
<1>3. PICK rows : rows = parser.rows \union {pid}
  OBVIOUS
<1>4. rows \in SUBSET Pids
  BY <1>1, <1>3 DEF ParserRecord
<1>5. parser' = [parser EXCEPT !.rows = rows]
  BY <1>2, <1>3
<1>6. /\ parser' \in ParserRecord /\ parser'.gpu = parser.gpu /\ parser'.rows = rows
      /\ parser'.columns = parser.columns /\ parser'.supported = parser.supported
  BY <1>1, <1>4, <1>5 DEF ParserRecord
<1>7. rows \subseteq users[time]
  BY <1>1, <1>2, <1>3 DEF ParserOK
<1>8. ParserOK'
  BY <1>1, <1>2, <1>6, <1>7 DEF ParserOK
<1> QED
  BY <1>2, <1>6, <1>8, LineKeeps

LEMMA TableEndsKeeps ==
  ASSUME AgentIInv, TableEnds, look' = NoLook
  PROVE  AgentIInv'
<1>1. parser \in ParserRecord /\ (agent = "up" => ParserOK)
  BY DEF AgentIInv
<1>2. /\ print = "table" /\ (parser.columns => users[time] \subseteq parser.rows)
      /\ print' = "complete" /\ UNCHANGED <<time, users, agent, parser, export>>
  BY DEF TableEnds
<1>3. ParserOK => parser.rows \in {{}, users[time]}
  BY <1>2 DEF ParserOK
<1>4. agent = "up" => ParserOK'
  BY <1>1, <1>2, <1>3 DEF ParserOK
<1> QED
  BY <1>1, <1>2, <1>4, LineKeeps

LEMMA StreamEndsKeeps ==
  ASSUME AgentIInv, StreamEnds, look' = NoLook
  PROVE  AgentIInv'
<1>1. /\ time \in Nat /\ users \in Seq(SUBSET Pids) /\ Len(users) = time
      /\ parser \in ParserRecord /\ export \in Exported /\ ParserOK
      /\ ReadingOK(export, users)
  BY DEF AgentIInv, StreamEnds
<1>2. /\ agent' = "ending" /\ Published(parser, time)
      /\ UNCHANGED <<time, users, print, parser>>
  BY DEF StreamEnds
<1>3. export' \in Exported /\ ReadingOK(export', users)
  <2>1. time <= time + 1 /\ ~(time > time)
    BY <1>1
  <2> QED
    BY <2>1, <1>1, <1>2, PublishedOK
<1> QED
  BY <1>1, <1>2, <1>3, NothingShownThen DEF AgentIInv

LEMMA WaitsKeeps ==
  ASSUME AgentIInv, Waits, look' = NoLook
  PROVE  AgentIInv'
<1>1. /\ time \in Nat /\ users \in Seq(SUBSET Pids) /\ Len(users) = time
      /\ parser \in ParserRecord /\ export \in Exported /\ ReadingOK(export, users)
  BY DEF AgentIInv
<1>2. /\ agent = "off" /\ time' = time + 1 /\ users' = Append(users, {})
      /\ UNCHANGED <<print, agent, parser, export>>
  BY DEF Waits
<1>3. PICK us : us = users'
  OBVIOUS
<1>4. /\ us \in Seq(SUBSET Pids) /\ Len(us) = time + 1 /\ \A i \in 1..time : us[i] = users[i]
  <2>1. PICK load : load = {}
    OBVIOUS
  <2>2. load \in SUBSET Pids /\ us = Append(users, load)
    BY <2>1, <1>2, <1>3
  <2> QED
    BY <2>2, <1>1, OneMore
<1>5. ReadingOK(export, us)
  BY <1>1, <1>4, StillOK
<1> QED
  BY <1>1, <1>2, <1>3, <1>4, <1>5, NothingShownThen DEF AgentIInv

LEMMA OnOffKeeps ==
  ASSUME AgentIInv, Start \/ Removed \/ AgentDies, look' = NoLook
  PROVE  AgentIInv'
<1>1. /\ time \in Nat /\ users \in Seq(SUBSET Pids) /\ Len(users) = time
      /\ parser \in ParserRecord /\ export \in Exported /\ ReadingOK(export, users)
  BY DEF AgentIInv
<1>2. CASE Start
  <2>1. /\ agent' = "up" /\ parser' = NewParser /\ print' = "nothing"
        /\ UNCHANGED <<time, users, export>>
    BY <1>2 DEF Start
  <2>2. ParserOK'
    BY <2>1 DEF ParserOK, NewParser
  <2> QED
    BY <2>1, <2>2, <1>1, NoReadingIs, NothingShownThen DEF AgentIInv
<1>3. CASE Removed
  <2>1. agent' = "off" /\ export' = NoReading /\ UNCHANGED <<time, users, print, parser>>
    BY <1>3 DEF Removed
  <2> QED
    BY <2>1, <1>1, NoReadingIs, NothingShownThen DEF AgentIInv, ReadingOK
<1>4. CASE AgentDies
  <2>1. agent' = "off" /\ UNCHANGED <<time, users, print, parser, export>>
    BY <1>4 DEF AgentDies
  <2> QED
    BY <2>1, <1>1, NothingShownThen DEF AgentIInv
<1> QED
  BY <1>2, <1>3, <1>4

-------------------------------------------------------------------------------
(* A reader's figures.                                                      *)
LEMMA SumIs ==
  ASSUME NEW parent, NEW tree, tree = Descendants(parent, Root), NEW rows
  PROVE  Cardinality({i \in DOMAIN tree : tree[i] \in rows}) + (IF Root \in rows THEN 1 ELSE 0)
           = Cardinality(rows \intersect Below(parent))
<1>1. tree \in Seq(Pids) /\ Once(tree) /\ ToSet(tree) = Below(parent) \ {Root}
  BY TreeIs
<1>2. PICK D : D = {i \in DOMAIN tree : tree[i] \in rows}
  OBVIOUS
<1>3. PICK T : T = rows \intersect ToSet(tree)
  OBVIOUS
<1>4. Cardinality(D) = Cardinality(T) /\ IsFiniteSet(T)
  BY <1>1, <1>2, <1>3, CountedOnce
<1>5. Cardinality(T) \in Nat
  BY <1>4, FS_CardinalityType
<1>6. Root \notin T
  BY <1>1, <1>3
<1>7. CASE Root \in rows
  <2>1. rows \intersect Below(parent) = T \union {Root}
    BY <1>1, <1>3, <1>7, RootBelow
  <2>2. Cardinality(T \union {Root}) = Cardinality(T) + 1
    BY <1>4, <1>6, FS_AddElement
  <2> QED
    BY <2>1, <2>2, <1>2, <1>4, <1>7
<1>8. CASE Root \notin rows
  <2>1. rows \intersect Below(parent) = T
    BY <1>1, <1>3, <1>8
  <2>2. (IF Root \in rows THEN 1 ELSE 0) = 0
    BY <1>8
  <2>3. Cardinality(D) + 0 = Cardinality(T)
    BY <1>4, <1>5
  <2> QED
    BY <2>1, <2>2, <2>3, <1>2
<1> QED
  BY <1>7, <1>8

LEMMA LookKeeps ==
  ASSUME AgentIInv, Look
  PROVE  AgentIInv'
<1>1. /\ time \in Nat /\ users \in Seq(SUBSET Pids) /\ Len(users) = time
      /\ parser \in ParserRecord /\ export \in Exported /\ ReadingOK(export, users)
  BY DEF AgentIInv
<1>2. PICK parent \in Tables :
        LET reading == IF Fresh(export) THEN export ELSE NoReading
            tree == Descendants(parent, Root)
            counted == {i \in DOMAIN tree : tree[i] \in reading.rows}
        IN  /\ look' = [reading |-> reading, at |-> time, parent |-> parent, tree |-> tree,
                        sum |-> Cardinality(counted) + IF Root \in reading.rows THEN 1 ELSE 0]
            /\ UNCHANGED <<time, users, print, agent, parser, export>>
  BY DEF Look
<1>3. PICK seen : seen = IF Fresh(export) THEN export ELSE NoReading
  OBVIOUS
<1>4. PICK tree : tree = Descendants(parent, Root)
  OBVIOUS
<1>5. PICK sum : sum = Cardinality({i \in DOMAIN tree : tree[i] \in seen.rows})
                       + (IF Root \in seen.rows THEN 1 ELSE 0)
  OBVIOUS
<1>6. /\ look' = [reading |-> seen, at |-> time, parent |-> parent, tree |-> tree, sum |-> sum]
      /\ UNCHANGED <<time, users, print, agent, parser, export>>
  BY <1>2, <1>3, <1>4, <1>5
<1>7. /\ look'.reading = seen /\ look'.at = time /\ look'.parent = parent
      /\ look'.tree = tree /\ look'.sum = sum
  BY <1>6
<1>8. seen # NoReading =>
        /\ seen.rows \subseteq users[seen.sample]
        /\ (seen.supported /\ seen.at > seen.sample) => seen.rows \in {{}, users[seen.sample]}
        /\ seen.at <= seen.sample + 1
        /\ ~seen.supported => seen.rows = {}
  BY <1>1, <1>3 DEF ReadingOK
<1>9. sum = Cardinality(seen.rows \intersect Below(parent))
  BY <1>4, <1>5, SumIs
<1>10. tree \in Seq(Pids) /\ Once(tree) /\ ToSet(tree) = Below(parent) \ {Root}
  BY <1>4, TreeIs
<1>11. Len(tree) = Cardinality(ToSet(tree))
  BY <1>10, CountedOnce
<1>12. ReadingsHold'
  BY <1>6, <1>7, <1>8, <1>9, <1>10, <1>11 DEF ReadingsHold, Below
<1>13. ParserOK' <=> ParserOK
  BY <1>6 DEF ParserOK
<1> QED
  BY <1>1, <1>6, <1>12, <1>13 DEF AgentIInv

LEMMA AgentStep == AgentIInv /\ [AgentNext]_agentVars => AgentIInv'
<1> SUFFICES ASSUME AgentIInv, [AgentNext]_agentVars PROVE AgentIInv'
  OBVIOUS
<1>1. CASE UNCHANGED agentVars
  <2>1. UNCHANGED <<time, users, print, agent, parser, export, look>>
    BY <1>1 DEF agentVars
  <2>2. (ParserOK' <=> ParserOK) /\ (ReadingsHold' <=> ReadingsHold)
    BY <2>1 DEF ParserOK, ReadingsHold
  <2> QED
    BY <2>1, <2>2 DEF AgentIInv
<1>2. ASSUME NEW hasGPU \in BOOLEAN, Header(hasGPU), look' = NoLook PROVE AgentIInv'
  BY <1>2, HeaderKeeps
<1>3. ASSUME NEW pid \in Pids, AppendRow(pid), look' = NoLook PROVE AgentIInv'
  BY <1>3, AppendRowKeeps
<1>4. CASE AgentSteps /\ look' = NoLook
  BY <1>2, <1>3, <1>4, BoundaryKeeps, MachineLineKeeps, SameHeaderKeeps, TableEndsKeeps,
     StreamEndsKeeps, WaitsKeeps, OnOffKeeps DEF AgentSteps
<1>5. CASE Look
  BY <1>5, LookKeeps
<1> QED
  BY <1>1, <1>4, <1>5 DEF AgentNext

LEMMA ReadingsHoldThen == AgentIInv => ReadingsHold
BY DEF AgentIInv

-------------------------------------------------------------------------------
(* The wizard: what it writes is what it read, and the answers behind it.   *)

Docs == [apps : Seq(Apps), flows : Seq(Flows)]
EcosystemFiles == [state : {"missing", "cut", "whole"}, doc : Docs]
Stations == {"idle", "app", "offer", "flow", "stage", "merge", "confirm", "truncate",
             "write", "written", "failed", "left"}
WizardRecord ==
  [pc : Stations, yes : BOOLEAN, force : BOOLEAN, merge : BOOLEAN, doc : Docs,
   flow : Flows \union {NoDoc}, out : Docs, seen : EcosystemFiles,
   before : EcosystemFiles, others : Nat]

\* What is known of a document that was merged from one that was there.
Kept(old, out) ==
  /\ IsPrefix(Names(old.apps), Names(out.apps))
  /\ IsPrefix(Keys(old.flows), Keys(out.flows))
  /\ IsPrefix(StagesOf(old.flows), StagesOf(out.flows))
  /\ \A i \in (Len(old.apps) + 1)..Len(out.apps) : \A j \in 1..(i - 1) :
       out.apps[i].name # out.apps[j].name
  /\ Loadable(Whole(Normal(out)))

WizardIInv ==
  /\ ecosystem \in EcosystemFiles /\ wizard \in WizardRecord
  /\ wizard.pc = "stage" => wizard.flow \in Flows
  /\ (wizard.pc \in Asking \union {"merge", "truncate", "left"} /\ wizard.others = 0) =>
       ecosystem = wizard.before
  /\ (/\ wizard.pc \in {"confirm", "truncate", "write", "written"}
      /\ ~wizard.force /\ wizard.seen.state = "whole") =>
         Kept(wizard.seen.doc, wizard.out)

LEMMA WizardHoldsThen == WizardIInv => WizardHolds
BY DEF WizardIInv, WizardHolds, Kept

LEMMA Answered ==
  /\ \A a \in NewApps : a.ns \in Nat /\ a.name \in STRING
  /\ \A d \in Declared : d \in Docs
  /\ MaxStages \in Nat
BY WizardAssumption DEF Docs

LEMMA NoDocTyped == NoDoc \in Docs /\ Missing \in EcosystemFiles /\ Cut \in EcosystemFiles
<1>1. <<>> \in Seq(Apps) /\ <<>> \in Seq(Flows)
  OBVIOUS
<1>2. NoDoc \in Docs
  BY <1>1 DEF NoDoc, Docs
<1> QED
  BY <1>2 DEF Missing, Cut, EcosystemFiles

LEMMA WholeTyped == ASSUME NEW d \in Docs PROVE Whole(d) \in EcosystemFiles /\ Whole(d).doc = d
BY DEF Whole, EcosystemFiles

(* A workflow that is normal stays as it is.                                *)
NormalFlows == {f \in Flows : f.category # "" /\ \A i \in DOMAIN f.stages : f.stages[i].name # 0}

LEMMA NormalStages ==
  ASSUME NEW s \in Seq(Stages), NEW t,
         t = [i \in DOMAIN s |-> StageNamed(s[i], i)]
  PROVE  /\ t \in Seq(Stages) /\ \A i \in DOMAIN t : t[i].name # 0
         /\ (\A i \in DOMAIN s : s[i].name # 0) => t = s
<1>1. DOMAIN s = 1..Len(s) /\ Len(s) \in Nat /\ DOMAIN t = DOMAIN s
  OBVIOUS
<1>2. ASSUME NEW i \in DOMAIN s
      PROVE  t[i] \in Stages /\ t[i].name # 0 /\ (s[i].name # 0 => t[i] = s[i])
  <2>1. PICK e : e = s[i]
    OBVIOUS
  <2>2. e \in Stages /\ i \in Nat /\ i # 0
    BY <2>1, <1>1
  <2>3. t[i] = [e EXCEPT !.name = IF @ = 0 THEN i ELSE @]
    BY <2>1 DEF StageNamed
  <2>4. PICK n : n = IF e.name = 0 THEN i ELSE e.name
    OBVIOUS
  <2>5. n \in Nat /\ n # 0 /\ (e.name # 0 => n = e.name)
    BY <2>2, <2>4 DEF Stages
  <2>6. t[i] = [e EXCEPT !.name = n]
    BY <2>3, <2>4, <2>2 DEF Stages
  <2> QED
    BY <2>1, <2>2, <2>5, <2>6 DEF Stages
<1>3. t = [i \in 1..Len(s) |-> t[i]] /\ \A i \in 1..Len(s) : t[i] \in Stages
  BY <1>1, <1>2
<1>4. t \in [1..Len(s) -> Stages]
  BY <1>3
<1>5. t \in Seq(Stages)
  BY <1>1, <1>4
<1>6. (\A i \in DOMAIN s : s[i].name # 0) => t = s
  <2> SUFFICES ASSUME \A i \in DOMAIN s : s[i].name # 0 PROVE t = s
    OBVIOUS
  <2>1. \A i \in 1..Len(s) : t[i] = s[i]
    BY <1>1, <1>2
  <2>2. Len(t) = Len(s)
    BY <1>1, <1>3, <1>5
  <2> QED
    BY <1>1, <1>5, <2>1, <2>2
<1> QED
  BY <1>2, <1>1, <1>5, <1>6

LEMMA NormalFlowTyped ==
  ASSUME NEW f \in Flows
  PROVE  /\ NormalFlow(f) \in NormalFlows
         /\ f \in NormalFlows => NormalFlow(f) = f
         /\ FlowKey(NormalFlow(f)) = FlowKey(f)
         /\ NormalFlow(NormalFlow(f)) = NormalFlow(f)
         /\ NormalFlow(f).name = f.name /\ NormalFlow(f).pinned = f.pinned
<1>1. PICK s : s = f.stages
  OBVIOUS
<1>2. s \in Seq(Stages)
  BY <1>1 DEF Flows
<1>3. PICK t : t = [i \in DOMAIN s |-> StageNamed(s[i], i)]
  OBVIOUS
<1>4. /\ t \in Seq(Stages) /\ \A i \in DOMAIN t : t[i].name # 0
      /\ (\A i \in DOMAIN s : s[i].name # 0) => t = s
  BY <1>2, <1>3, NormalStages
<1>5. PICK c : c = Category(f)
  OBVIOUS
<1>6. c = "default" /\ (f.category # "" => c = f.category)
  BY <1>5 DEF Category, Flows
<1>7. PICK g : g = [f EXCEPT !.category = c, !.stages = t]
  OBVIOUS
<1>8. NormalFlow(f) = g
  <2>1. NormalFlow(f) = [f EXCEPT !.category = c, !.stages = t]
    <3>1. [f EXCEPT !.category = c].stages = s
      BY <1>1 DEF Flows
    <3> QED
      BY <3>1, <1>1, <1>3, <1>5 DEF NormalFlow
  <2> QED
    BY <2>1, <1>7
<1>9. /\ g \in Flows /\ g.category = c /\ g.stages = t /\ g.name = f.name
      /\ g.pinned = f.pinned
  BY <1>4, <1>6, <1>7 DEF Flows
<1>10. g \in NormalFlows
  BY <1>4, <1>6, <1>9 DEF NormalFlows
<1>11. f \in NormalFlows => g = f
  <2> SUFFICES ASSUME f \in NormalFlows PROVE g = f
    OBVIOUS
  <2>1. c = f.category /\ t = f.stages
    BY <1>1, <1>4, <1>6 DEF NormalFlows
  <2> QED
    BY <2>1, <1>7 DEF Flows
<1>12. FlowKey(g) = FlowKey(f)
  BY <1>5, <1>6, <1>9 DEF FlowKey, Category
<1>13. NormalFlow(g) = g
  <2>1. PICK u : u = [i \in DOMAIN t |-> StageNamed(t[i], i)]
    OBVIOUS
  <2>2. u = t
    BY <2>1, <1>4, NormalStages
  <2>3. NormalFlow(g) = [g EXCEPT !.category = Category(g), !.stages = u]
    <3>1. [g EXCEPT !.category = Category(g)].stages = t
      BY <1>9 DEF Flows
    <3> QED
      BY <3>1, <2>1, <1>9 DEF NormalFlow
  <2>4. Category(g) = g.category
    BY <1>6, <1>9 DEF Category
  <2>5. NormalFlow(g) = [g EXCEPT !.category = g.category, !.stages = g.stages]
    BY <2>2, <2>3, <2>4, <1>9
  <2>6. [g EXCEPT !.category = g.category, !.stages = g.stages] = g
    <3>1. g \in Flows
      BY <1>9
    <3> HIDE <1>7
    <3> QED
      BY <3>1 DEF Flows
  <2> QED
    BY <2>5, <2>6
<1> QED
  BY <1>8, <1>9, <1>10, <1>11, <1>12, <1>13

(* The entries of one sequence behind those of another.                     *)
Continues(E, old, all) ==
  /\ all \in Seq(E) /\ Len(old) <= Len(all)
  /\ \A i \in 1..Len(old) : all[i] = old[i]
  /\ \A i \in (Len(old) + 1)..Len(all) : \A j \in 1..(i - 1) : Label(all[i]) # Label(all[j])

LEMMA AddedKeeps ==
  ASSUME NEW E, NEW old \in Seq(E), NEW all, Continues(E, old, all), NEW entry \in E
  PROVE  Continues(E, old, Added(all, entry))
<1>1. all \in Seq(E) /\ Len(old) \in Nat /\ Len(all) \in Nat /\ DOMAIN all = 1..Len(all)
  BY DEF Continues
<1>2. CASE \E i \in DOMAIN all : Label(all[i]) = Label(entry)
  BY <1>2 DEF Added
<1>3. CASE ~\E i \in DOMAIN all : Label(all[i]) = Label(entry)
  <2>1. PICK l, b, r : l = Len(all) /\ b = Len(old) /\ r = Append(all, entry)
    OBVIOUS
  <2>2. Added(all, entry) = r
    BY <1>3, <2>1 DEF Added
  <2>3. /\ r \in Seq(E) /\ Len(r) = l + 1 /\ r[l + 1] = entry
        /\ \A i \in 1..l : r[i] = all[i]
    BY <1>1, <2>1
  <2>4. /\ l \in Nat /\ b \in Nat /\ b <= l
        /\ \A i \in 1..b : all[i] = old[i]
        /\ \A i \in (b + 1)..l : \A j \in 1..(i - 1) : Label(all[i]) # Label(all[j])
    BY <1>1, <2>1 DEF Continues
  <2>5. ASSUME NEW i \in (b + 1)..(l + 1), NEW j \in 1..(i - 1)
        PROVE  Label(r[i]) # Label(r[j])
    <3>1. j \in 1..l /\ r[j] = all[j]
      BY <2>3, <2>4
    <3>2. CASE i = l + 1
      BY <3>1, <3>2, <2>3, <1>3, <1>1, <2>1
    <3>3. CASE i # l + 1
      <4>1. i \in (b + 1)..l /\ i \in 1..l
        <5>1. i \in Int /\ b + 1 <= i /\ i <= l + 1 /\ i # l + 1
          BY <2>4, <3>3
        <5> QED
          BY <5>1, <2>4
      <4> QED
        BY <4>1, <3>1, <2>3, <2>4
    <3> QED
      BY <3>2, <3>3
  <2>6. \A i \in 1..b : r[i] = old[i]
    BY <2>3, <2>4
  <2> QED
    BY <2>1, <2>2, <2>3, <2>4, <2>5, <2>6 DEF Continues
<1> QED
  BY <1>2, <1>3

Builds(f, old, new, N) ==
  f = [n \in 0..N |-> IF n = 0 THEN old ELSE Added(f[n - 1], new[n])]

LEMMA BehindExists ==
  ASSUME NEW E, NEW old \in Seq(E), NEW new \in Seq(E), NEW N \in Nat, N = Len(new)
  PROVE  \E f : Builds(f, old, new, N)
<1>1. PICK Y : Y = {all \in Seq(E) : Continues(E, old, all)}
  OBVIOUS
<1>2. old \in Y
  BY <1>1 DEF Continues
<1> DEFINE step == [n \in Nat |-> [y \in Y |-> IF n + 1 <= N THEN Added(y, new[n + 1]) ELSE y]]
<1>3. \A n \in Nat, y \in Y : (IF n + 1 <= N THEN Added(y, new[n + 1]) ELSE y) \in Y
  <2> SUFFICES ASSUME NEW n \in Nat, NEW y \in Y, n + 1 <= N
               PROVE  Added(y, new[n + 1]) \in Y
    OBVIOUS
  <2>1. PICK e : e = new[n + 1]
    OBVIOUS
  <2>2. e \in E
    BY <2>1
  <2>3. Continues(E, old, y)
    BY <1>1
  <2>4. Continues(E, old, Added(y, e))
    BY <2>2, <2>3, AddedKeeps
  <2>5. Added(y, e) \in Seq(E)
    BY <2>4 DEF Continues
  <2> QED
    BY <2>1, <2>4, <2>5, <1>1
<1>4. step \in [Nat -> [Y -> Y]]
  BY <1>3
<1>5. \A n \in Nat, y \in Y : step[n][y] = IF n + 1 <= N THEN Added(y, new[n + 1]) ELSE y
  OBVIOUS
<1> HIDE DEF step
<1>6. Steps(step, Y)
  BY <1>4 DEF Steps
<1>7. PICK g : Recursion(g, Y, old, step)
  BY <1>2, <1>6, Recursed
<1>8. g \in [Nat -> Y] /\ g[0] = old /\ \A n \in Nat : g[n + 1] = step[n][g[n]]
  BY <1>7 DEF Recursion
<1>9. PICK f : f = [n \in 0..N |-> g[n]]
  OBVIOUS
<1>10. \A n \in 0..N : f[n] = IF n = 0 THEN old ELSE Added(f[n - 1], new[n])
  <2> SUFFICES ASSUME NEW n \in 0..N
               PROVE  f[n] = IF n = 0 THEN old ELSE Added(f[n - 1], new[n])
    OBVIOUS
  <2>1. CASE n = 0
    BY <2>1, <1>8, <1>9
  <2>2. CASE n # 0
    <3>1. PICK m : m = n - 1
      OBVIOUS
    <3>2. m \in Nat /\ m \in 0..N /\ n = m + 1 /\ m + 1 <= N
      BY <3>1, <2>2
    <3>3. g[m] \in Y /\ g[m + 1] = step[m][g[m]]
      BY <3>2, <1>8
    <3>4. g[m + 1] = Added(g[m], new[m + 1])
      BY <3>2, <3>3, <1>5
    <3>5. f[n] = g[m + 1] /\ f[m] = g[m]
      BY <3>2, <1>9
    <3> QED
      BY <3>1, <3>2, <3>4, <3>5, <2>2
  <2> QED
    BY <2>1, <2>2
<1>11. f = [n \in 0..N |-> f[n]]
  BY <1>9
<1>12. f = [n \in 0..N |-> IF n = 0 THEN old ELSE Added(f[n - 1], new[n])]
  BY <1>10, <1>11
<1>13. Builds(f, old, new, N)
  BY <1>12 DEF Builds
<1> QED
  BY <1>13

LEMMA BehindContinues ==
  ASSUME NEW E, NEW old \in Seq(E), NEW new \in Seq(E)
  PROVE  Continues(E, old, Behind(old, new))
<1>1. PICK N : N = Len(new)
  OBVIOUS
<1>2. N \in Nat
  BY <1>1
<1>3. PICK f : f = CHOOSE q : Builds(q, old, new, N)
  OBVIOUS
<1>4. Behind(old, new) = f[N]
  BY <1>1, <1>3 DEF Behind, Builds
<1>5. Builds(f, old, new, N)
  BY <1>1, <1>2, <1>3, BehindExists
<1>6. \A n \in 0..N : f[n] = IF n = 0 THEN old ELSE Added(f[n - 1], new[n])
  BY <1>5 DEF Builds
<1>7. f[0] = old /\ \A n \in 0..N : n # 0 => f[n] = Added(f[n - 1], new[n])
  BY <1>2, <1>6
<1> DEFINE T == {n \in Nat : n <= N => Continues(E, old, f[n])}
<1>8. 0 \in T
  BY <1>7 DEF Continues
<1>9. ASSUME NEW n \in T PROVE n + 1 \in T
  <2> SUFFICES ASSUME n + 1 <= N PROVE Continues(E, old, f[n + 1])
    OBVIOUS
  <2>1. PICK m, e : m = n + 1 /\ e = new[n + 1]
    OBVIOUS
  <2>2. m \in 0..N /\ m # 0 /\ n = m - 1 /\ e \in E /\ e = new[m]
    BY <2>1, <1>1, <1>2
  <2>3. f[m] = Added(f[n], e)
    BY <2>2, <1>7
  <2>4. Continues(E, old, f[n])
    <3>1. n \in Nat /\ n <= N /\ (n <= N => Continues(E, old, f[n]))
      BY <2>2, <1>2
    <3> QED
      BY <3>1
  <2> QED
    BY <2>1, <2>2, <2>3, <2>4, AddedKeeps
<1>10. T \in SUBSET Nat
  OBVIOUS
<1> HIDE DEF T
<1>11. T = Nat
  BY <1>8, <1>9, <1>10, Inducted
<1> QED
  BY <1>11, <1>2, <1>4 DEF T

(* What is known of the merged documents.                                   *)
LEMMA PrefixIs ==
  ASSUME NEW X, NEW s \in Seq(X), NEW t \in Seq(X), Len(s) <= Len(t),
         \A i \in 1..Len(s) : s[i] = t[i]
  PROVE  IsPrefix(s, t)
<1>1. Len(s) \in Nat /\ Len(t) \in Nat
  OBVIOUS
<1>2. PICK l : l = Len(s)
  OBVIOUS
<1>3. SubSeq(s, 1, l) = SubSeq(t, 1, l)
  <2>1. PICK a, b : a = SubSeq(s, 1, l) /\ b = SubSeq(t, 1, l)
    OBVIOUS
  <2>2. /\ a \in Seq(X) /\ Len(a) = l /\ \A i \in 1..l : a[i] = s[i]
        /\ b \in Seq(X) /\ Len(b) = l /\ \A i \in 1..l : b[i] = t[i]
    BY <2>1, <1>1, <1>2
  <2>3. \A i \in 1..l : a[i] = b[i]
    BY <2>2, <1>2
  <2> QED
    BY <2>1, <2>2, <2>3
<1> QED
  BY <1>1, <1>2, <1>3 DEF IsPrefix

LEMMA LoadedTyped ==
  ASSUME NEW d \in Docs, NEW p, p = LoadedDoc(d)
  PROVE  /\ p.apps \in Seq(Apps) /\ p.flows \in Seq(NormalFlows)
         /\ Len(p.apps) = Len(d.apps) /\ Len(p.flows) = Len(d.flows)
         /\ \A i \in 1..Len(d.apps) : p.apps[i].ns = d.apps[i].ns /\ p.apps[i].name = d.apps[i].name
         /\ \A i \in 1..Len(d.flows) :
              /\ FlowKey(p.flows[i]) = FlowKey(d.flows[i])
              /\ NormalFlow(p.flows[i]).stages = NormalFlow(d.flows[i]).stages
<1>1. PICK a, f : a = d.apps /\ f = d.flows
  OBVIOUS
<1>2. a \in Seq(Apps) /\ f \in Seq(Flows)
  BY <1>1 DEF Docs
<1>3. PICK n : n = [i \in DOMAIN f |-> NormalFlow(f[i])]
  OBVIOUS
<1>4. Normal(d).apps = a /\ Normal(d).flows = n
  BY <1>1, <1>3 DEF Normal, Docs
<1>5. PICK pa, pf : pa = [i \in DOMAIN a |-> [a[i] EXCEPT !.pinned = TRUE]]
                 /\ pf = [i \in DOMAIN n |-> [n[i] EXCEPT !.pinned = TRUE]]
  OBVIOUS
<1>6. p.apps = pa /\ p.flows = pf
  BY <1>4, <1>5 DEF LoadedDoc
<1>7. /\ DOMAIN a = 1..Len(a) /\ Len(a) \in Nat /\ DOMAIN pa = 1..Len(a)
      /\ DOMAIN f = 1..Len(f) /\ Len(f) \in Nat /\ DOMAIN n = 1..Len(f) /\ DOMAIN pf = 1..Len(f)
  BY <1>2, <1>3, <1>5
<1>8. ASSUME NEW i \in 1..Len(a)
      PROVE  pa[i] \in Apps /\ pa[i].ns = a[i].ns /\ pa[i].name = a[i].name
  <2>1. PICK e : e = a[i]
    OBVIOUS
  <2>2. e \in Apps
    BY <2>1, <1>2
  <2>3. pa[i] = [e EXCEPT !.pinned = TRUE]
    BY <2>1, <1>5, <1>7
  <2> QED
    BY <2>1, <2>2, <2>3 DEF Apps
<1>9. ASSUME NEW i \in 1..Len(f)
      PROVE  /\ pf[i] \in NormalFlows /\ FlowKey(pf[i]) = FlowKey(f[i])
             /\ NormalFlow(pf[i]).stages = NormalFlow(f[i]).stages
  <2>1. PICK e, g, h : e = f[i] /\ g = NormalFlow(e) /\ h = [g EXCEPT !.pinned = TRUE]
    OBVIOUS
  <2>2. e \in Flows
    BY <2>1, <1>2
  <2>3. g \in NormalFlows /\ FlowKey(g) = FlowKey(e)
    BY <2>1, <2>2, NormalFlowTyped
  <2>4. g \in Flows
    BY <2>3 DEF NormalFlows
  <2>5. /\ h \in Flows /\ h.category = g.category /\ h.name = g.name /\ h.stages = g.stages
    BY <2>1, <2>4 DEF Flows
  <2>6. h \in NormalFlows /\ FlowKey(h) = FlowKey(g)
    BY <2>3, <2>5 DEF NormalFlows, FlowKey, Category
  <2>7. NormalFlow(h) = h
    BY <2>5, <2>6, NormalFlowTyped
  <2>8. pf[i] = h
    BY <2>1, <1>3, <1>5, <1>7
  <2> QED
    BY <2>1, <2>3, <2>5, <2>6, <2>7, <2>8
<1>10. pa \in Seq(Apps) /\ Len(pa) = Len(a)
  <2>1. pa = [i \in 1..Len(a) |-> pa[i]]
    BY <1>5, <1>7
  <2> QED
    BY <2>1, <1>7, <1>8
<1>11. pf \in Seq(NormalFlows) /\ Len(pf) = Len(f)
  <2>1. pf = [i \in 1..Len(f) |-> pf[i]]
    BY <1>5, <1>7
  <2> QED
    BY <2>1, <1>7, <1>9
<1> QED
  BY <1>1, <1>6, <1>8, <1>9, <1>10, <1>11

LEMMA NormalListed == ASSUME NEW f \in Seq(NormalFlows) PROVE f \in Seq(Flows)
<1>1. f \in [1..Len(f) -> NormalFlows] /\ Len(f) \in Nat
  OBVIOUS
<1>2. NormalFlows \subseteq Flows
  BY DEF NormalFlows
<1>3. f \in [1..Len(f) -> Flows]
  BY <1>1, <1>2
<1> QED
  BY <1>1, <1>3

LEMMA NormalTyped ==
  ASSUME NEW d \in Docs
  PROVE  /\ Normal(d) \in Docs /\ Normal(d).flows \in Seq(NormalFlows)
         /\ Normal(d).apps = d.apps
         /\ d.flows \in Seq(NormalFlows) => Normal(d).flows = d.flows
<1>1. PICK a, f : a = d.apps /\ f = d.flows
  OBVIOUS
<1>2. a \in Seq(Apps) /\ f \in Seq(Flows)
  BY <1>1 DEF Docs
<1>3. PICK n : n = [i \in DOMAIN f |-> NormalFlow(f[i])]
  OBVIOUS
<1>4. PICK q : q = [d EXCEPT !.flows = n]
  OBVIOUS
<1>5. Normal(d) = q
  BY <1>1, <1>3, <1>4 DEF Normal, Docs
<1>6. q.apps = a /\ q.flows = n
  BY <1>1, <1>4 DEF Docs
<1>7. DOMAIN f = 1..Len(f) /\ Len(f) \in Nat
  BY <1>2
<1>8. n = [i \in 1..Len(f) |-> n[i]] /\ \A i \in 1..Len(f) : n[i] \in NormalFlows
  BY <1>2, <1>3, <1>7, NormalFlowTyped
<1>9. n \in Seq(NormalFlows) /\ Len(n) = Len(f)
  BY <1>7, <1>8
<1>10. n \in Seq(Flows)
  BY <1>9, NormalListed
<1>11. q \in Docs
  BY <1>1, <1>2, <1>4, <1>10 DEF Docs
<1>12. ASSUME f \in Seq(NormalFlows) PROVE n = f
  <2>1. \A i \in 1..Len(f) : f[i] \in NormalFlows /\ f[i] \in Flows
    BY <1>12, <1>2, <1>7
  <2>2. \A i \in 1..Len(f) : n[i] = f[i]
    BY <2>1, <1>3, <1>7, NormalFlowTyped
  <2> QED
    BY <2>2, <1>2, <1>9, <1>10
<1> QED
  BY <1>1, <1>5, <1>6, <1>9, <1>11, <1>12

LEMMA NamesKept ==
  ASSUME NEW a \in Seq(Apps), NEW p \in Seq(Apps), NEW c, Continues(Apps, p, c),
         Len(p) = Len(a), \A i \in 1..Len(a) : p[i].ns = a[i].ns /\ p[i].name = a[i].name
  PROVE  /\ IsPrefix(Names(a), Names(c))
         /\ \A i \in (Len(a) + 1)..Len(c) : \A j \in 1..(i - 1) : c[i].name # c[j].name
<1>1. PICK l, m : l = Len(a) /\ m = Len(c)
  OBVIOUS
<1>2. /\ c \in Seq(Apps) /\ l \in Nat /\ m \in Nat /\ l <= m /\ \A i \in 1..l : c[i] = p[i]
      /\ \A i \in (l + 1)..m : \A j \in 1..(i - 1) : Label(c[i]) # Label(c[j])
  BY <1>1 DEF Continues
<1>3. PICK s, t : s = Names(a) /\ t = Names(c)
  OBVIOUS
<1>4. /\ DOMAIN a = 1..l /\ DOMAIN c = 1..m
      /\ \A i \in 1..l : a[i] \in Apps
      /\ \A i \in 1..m : c[i] \in Apps
  BY <1>1, <1>2
<1>5. /\ s = [i \in 1..l |-> <<a[i].ns, a[i].name>>]
      /\ t = [i \in 1..m |-> <<c[i].ns, c[i].name>>]
  BY <1>3, <1>4 DEF Names
<1>6. \A e \in Apps : <<e.ns, e.name>> \in Nat \X STRING
  BY DEF Apps
<1>7. s \in [1..l -> Nat \X STRING] /\ t \in [1..m -> Nat \X STRING]
  BY <1>4, <1>5, <1>6
<1>8. /\ s \in Seq(Nat \X STRING) /\ t \in Seq(Nat \X STRING) /\ Len(s) = l /\ Len(t) = m
  BY <1>2, <1>7
<1>9. \A i \in 1..l : s[i] = t[i]
  <2> SUFFICES ASSUME NEW i \in 1..l PROVE s[i] = t[i]
    OBVIOUS
  <2>1. i \in 1..m /\ c[i].ns = a[i].ns /\ c[i].name = a[i].name
    BY <1>1, <1>2
  <2> QED
    BY <2>1, <1>5
<1>10. IsPrefix(s, t)
  BY <1>2, <1>8, <1>9, PrefixIs
<1>11. \A e \in Apps : Label(e) = e.name
  <2> SUFFICES ASSUME NEW e \in Apps PROVE "stages" \notin DOMAIN e
    BY DEF Label
  <2> QED
    BY DEF Apps
<1>12. ASSUME NEW i \in (l + 1)..m, NEW j \in 1..(i - 1) PROVE c[i].name # c[j].name
  <2>1. i \in 1..m /\ j \in 1..m
    BY <1>2
  <2> QED
    BY <2>1, <1>2, <1>4, <1>11
<1> QED
  BY <1>1, <1>3, <1>10, <1>12

LEMMA FlowsKept ==
  ASSUME NEW f \in Seq(Flows), NEW p \in Seq(NormalFlows), NEW c, Continues(NormalFlows, p, c),
         Len(p) = Len(f),
         \A i \in 1..Len(f) : /\ FlowKey(p[i]) = FlowKey(f[i])
                              /\ NormalFlow(p[i]).stages = NormalFlow(f[i]).stages
  PROVE  IsPrefix(Keys(f), Keys(c)) /\ IsPrefix(StagesOf(f), StagesOf(c))
<1>1. PICK l, m : l = Len(f) /\ m = Len(c)
  OBVIOUS
<1>2. c \in Seq(NormalFlows) /\ l \in Nat /\ m \in Nat /\ l <= m /\ \A i \in 1..l : c[i] = p[i]
  BY <1>1 DEF Continues
<1>3. /\ DOMAIN f = 1..l /\ DOMAIN c = 1..m
      /\ \A i \in 1..l : f[i] \in Flows
      /\ \A i \in 1..m : c[i] \in Flows
  BY <1>1, <1>2, NormalListed
<1>4. PICK KS : KS = [category : {"", "default"}, name : FlowNames]
  OBVIOUS
<1>5. \A e \in Flows : FlowKey(e) \in KS /\ NormalFlow(e).stages \in Seq(Stages)
  <2> SUFFICES ASSUME NEW e \in Flows
               PROVE  FlowKey(e) \in KS /\ NormalFlow(e).stages \in Seq(Stages)
    OBVIOUS
  <2>1. e.category \in {"", "default"} /\ e.name \in FlowNames
    BY DEF Flows
  <2>2. FlowKey(e) \in KS
    BY <2>1, <1>4 DEF FlowKey, Category
  <2>3. PICK g : g = NormalFlow(e)
    OBVIOUS
  <2>4. g \in Flows
    BY <2>3, NormalFlowTyped DEF NormalFlows
  <2>5. g.stages \in Seq(Stages)
    BY <2>4 DEF Flows
  <2> QED
    BY <2>2, <2>3, <2>5
<1>6. PICK s, t : s = Keys(f) /\ t = Keys(c)
  OBVIOUS
<1>7. /\ s = [i \in 1..l |-> FlowKey(f[i])] /\ t = [i \in 1..m |-> FlowKey(c[i])]
  BY <1>6, <1>3 DEF Keys
<1>8. s \in [1..l -> KS] /\ t \in [1..m -> KS]
  BY <1>3, <1>5, <1>7
<1>9. /\ s \in Seq(KS) /\ t \in Seq(KS) /\ Len(s) = l /\ Len(t) = m
  BY <1>2, <1>8
<1>10. \A i \in 1..l : i \in 1..m
  BY <1>2
<1>11. \A i \in 1..l : s[i] = t[i]
  BY <1>1, <1>2, <1>7, <1>10
<1>12. IsPrefix(s, t)
  BY <1>2, <1>9, <1>11, PrefixIs
<1>13. PICK u, v : u = StagesOf(f) /\ v = StagesOf(c)
  OBVIOUS
<1>14. /\ u = [i \in 1..l |-> NormalFlow(f[i]).stages]
       /\ v = [i \in 1..m |-> NormalFlow(c[i]).stages]
  BY <1>13, <1>3 DEF StagesOf
<1>15. u \in [1..l -> Seq(Stages)] /\ v \in [1..m -> Seq(Stages)]
  BY <1>3, <1>5, <1>14
<1>16. PICK SS : SS = Seq(Stages)
  OBVIOUS
<1>17. /\ u \in Seq(SS) /\ v \in Seq(SS) /\ Len(u) = l /\ Len(v) = m
  BY <1>2, <1>15, <1>16
<1>18. \A i \in 1..l : u[i] = v[i]
  BY <1>1, <1>2, <1>14, <1>10
<1>19. IsPrefix(u, v)
  BY <1>2, <1>17, <1>18, PrefixIs
<1> QED
  BY <1>6, <1>12, <1>13, <1>19

LEMMA MergeKept ==
  ASSUME NEW old \in Docs, NEW new \in Docs, NEW out, out = Merge(LoadedDoc(old), new)
  PROVE  out \in Docs /\ (Valid(out.flows) => Kept(old, out))
<1>1. PICK p, n : p = LoadedDoc(old) /\ n = Normal(new)
  OBVIOUS
<1>2. /\ p.apps \in Seq(Apps) /\ p.flows \in Seq(NormalFlows)
      /\ Len(p.apps) = Len(old.apps) /\ Len(p.flows) = Len(old.flows)
      /\ \A i \in 1..Len(old.apps) :
           p.apps[i].ns = old.apps[i].ns /\ p.apps[i].name = old.apps[i].name
      /\ \A i \in 1..Len(old.flows) :
           /\ FlowKey(p.flows[i]) = FlowKey(old.flows[i])
           /\ NormalFlow(p.flows[i]).stages = NormalFlow(old.flows[i]).stages
  BY <1>1, LoadedTyped
<1>3. n.flows \in Seq(NormalFlows) /\ new.apps \in Seq(Apps)
  BY <1>1, NormalTyped DEF Docs
<1>4. PICK a, f : a = Behind(p.apps, new.apps) /\ f = Behind(p.flows, n.flows)
  OBVIOUS
<1>5. out = [apps |-> a, flows |-> f]
  BY <1>1, <1>4 DEF Merge
<1>6. Continues(Apps, p.apps, a) /\ Continues(NormalFlows, p.flows, f)
  BY <1>2, <1>3, <1>4, BehindContinues
<1>7. a \in Seq(Apps) /\ f \in Seq(NormalFlows)
  BY <1>6 DEF Continues
<1>8. f \in Seq(Flows)
  BY <1>7, NormalListed
<1>9. out \in Docs
  BY <1>5, <1>7, <1>8 DEF Docs
<1>10. out.apps = a /\ out.flows = f
  BY <1>5
<1>11. old.apps \in Seq(Apps) /\ old.flows \in Seq(Flows)
  BY DEF Docs
<1>12. /\ IsPrefix(Names(old.apps), Names(a))
       /\ \A i \in (Len(old.apps) + 1)..Len(a) : \A j \in 1..(i - 1) : a[i].name # a[j].name
  <2>1. PICK b, q : b = old.apps /\ q = p.apps
    OBVIOUS
  <2>2. /\ b \in Seq(Apps) /\ q \in Seq(Apps) /\ Continues(Apps, q, a) /\ Len(q) = Len(b)
        /\ \A i \in 1..Len(b) : q[i].ns = b[i].ns /\ q[i].name = b[i].name
    BY <2>1, <1>2, <1>6, <1>11
  <2>3. /\ IsPrefix(Names(b), Names(a))
        /\ \A i \in (Len(b) + 1)..Len(a) : \A j \in 1..(i - 1) : a[i].name # a[j].name
    BY <2>2, NamesKept
  <2> QED
    BY <2>1, <2>3
<1>13. IsPrefix(Keys(old.flows), Keys(f)) /\ IsPrefix(StagesOf(old.flows), StagesOf(f))
  BY <1>2, <1>6, <1>11, FlowsKept
<1>14. ASSUME Valid(f) PROVE Loadable(Whole(Normal(out)))
  <2>1. PICK w : w = Normal(out)
    OBVIOUS
  <2>2. w \in Docs /\ w.flows = f
    BY <2>1, <1>7, <1>9, <1>10, NormalTyped
  <2>3. Normal(w).flows = f
    BY <2>2, <1>7, NormalTyped
  <2>4. Whole(w).state = "whole" /\ Whole(w).doc = w
    BY DEF Whole
  <2> QED
    BY <2>1, <2>3, <2>4, <1>14 DEF Loadable
<1> QED
  BY <1>9, <1>10, <1>12, <1>13, <1>14 DEF Kept

(* The steps.  What the invariant says of a record, by itself.              *)
AsItWas(w, eco) ==
  (w.pc \in Asking \union {"merge", "truncate", "left"} /\ w.others = 0) => eco = w.before
AsMerged(w) ==
  (/\ w.pc \in {"confirm", "truncate", "write", "written"}
   /\ ~w.force /\ w.seen.state = "whole") => Kept(w.seen.doc, w.out)
WizardOK(w, eco) ==
  /\ w \in WizardRecord /\ (w.pc = "stage" => w.flow \in Flows)
  /\ AsItWas(w, eco) /\ AsMerged(w)

LEMMA WizardParts == WizardIInv <=> ecosystem \in EcosystemFiles /\ WizardOK(wizard, ecosystem)
BY DEF WizardIInv, WizardOK, AsItWas, AsMerged

LEMMA WizardPartsThen ==
  ecosystem' \in EcosystemFiles /\ WizardOK(wizard', ecosystem') => WizardIInv'
BY DEF WizardIInv, WizardOK, AsItWas, AsMerged

LEMMA WizardStarts == WizardInit => WizardIInv
<1> SUFFICES ASSUME WizardInit PROVE WizardIInv
  OBVIOUS
<1>1. ecosystem \in EcosystemFiles
  <2>1. CASE ecosystem \in {Missing, Cut}
    BY <2>1, NoDocTyped
  <2>2. ASSUME NEW d \in Declared, ecosystem = Whole(d) PROVE ecosystem \in EcosystemFiles
    BY <2>2, Answered, WholeTyped
  <2> QED
    BY <2>1, <2>2 DEF WizardInit
<1>2. wizard \in WizardRecord /\ wizard.pc = "idle"
  BY NoDocTyped DEF WizardInit, Ready, WizardRecord, Stations
<1> QED
  BY <1>1, <1>2 DEF WizardIInv, Asking

LEMMA TurnTyped ==
  ASSUME WizardIInv, NEW pc \in Stations, Turn(pc)
  PROVE  /\ wizard' \in WizardRecord /\ ecosystem' = ecosystem /\ wizard'.pc = pc
         /\ wizard'.force = wizard.force /\ wizard'.flow = wizard.flow
         /\ wizard'.seen = wizard.seen /\ wizard'.out = wizard.out
         /\ wizard'.before = wizard.before /\ wizard'.others = wizard.others
<1>1. wizard \in WizardRecord
  BY DEF WizardIInv
<1> QED
  BY <1>1 DEF Turn, WizardRecord

LEMMA TurnsKeep ==
  ASSUME WizardIInv, OfferFlow \/ GiveUpDialog \/ ConfirmWrite \/ (wizard.pc = "truncate" /\ Turn("left"))
  PROVE  WizardIInv'
<1>1. PICK pc \in {"flow", "merge", "left", "truncate"} :
        /\ Turn(pc) /\ wizard.pc \in Asking \union {"truncate"}
        /\ pc = "truncate" => wizard.pc = "confirm"
  BY DEF OfferFlow, GiveUpDialog, ConfirmWrite, Asking
<1>2. /\ wizard' \in WizardRecord /\ ecosystem' = ecosystem /\ wizard'.pc = pc
      /\ wizard'.force = wizard.force /\ wizard'.flow = wizard.flow
      /\ wizard'.seen = wizard.seen /\ wizard'.out = wizard.out
      /\ wizard'.before = wizard.before /\ wizard'.others = wizard.others
  <2>1. pc \in Stations
    BY <1>1 DEF Stations
  <2> QED
    BY <2>1, <1>1, TurnTyped
<1>3. AsItWas(wizard, ecosystem) /\ AsMerged(wizard) /\ ecosystem \in EcosystemFiles
  BY WizardParts DEF WizardOK
<1>4. AsItWas(wizard', ecosystem')
  BY <1>1, <1>2, <1>3 DEF AsItWas
<1>5. AsMerged(wizard')
  BY <1>1, <1>2, <1>3 DEF AsMerged
<1>6. wizard'.pc # "stage"
  BY <1>1, <1>2
<1> QED
  BY <1>2, <1>3, <1>4, <1>5, <1>6, WizardPartsThen DEF WizardOK

LEMMA NewAppTyped == ASSUME NEW a \in NewApps PROVE NewApp(a) \in Apps
BY Answered DEF NewApp, Apps

LEMMA StartWizardKeeps == ASSUME WizardIInv, StartWizard PROVE WizardIInv'
<1>1. PICK force \in BOOLEAN, merge \in BOOLEAN :
        LET begun == [Ready EXCEPT !.force = force, !.merge = merge, !.before = ecosystem]
        IN  \/ wizard' = [begun EXCEPT !.pc = "app"]
            \/ \E app \in NewApps :
                 wizard' = [begun EXCEPT !.pc = "merge", !.yes = TRUE,
                                         !.doc.apps = <<NewApp(app)>>]
  BY DEF StartWizard
<1>2. ecosystem \in EcosystemFiles /\ ecosystem' = ecosystem
  BY DEF StartWizard, WizardIInv
<1>3. PICK b : b = [Ready EXCEPT !.force = force, !.merge = merge, !.before = ecosystem]
  OBVIOUS
<1>4. /\ b \in WizardRecord /\ b.doc = NoDoc /\ b.before = ecosystem
  BY <1>2, <1>3, NoDocTyped DEF Ready, WizardRecord, Stations
<1>5. wizard' \in WizardRecord /\ wizard'.pc \in {"app", "merge"} /\ wizard'.before = ecosystem
  <2>1. CASE wizard' = [b EXCEPT !.pc = "app"]
    BY <2>1, <1>4 DEF WizardRecord, Stations
  <2>2. ASSUME NEW app \in NewApps,
               wizard' = [b EXCEPT !.pc = "merge", !.yes = TRUE, !.doc.apps = <<NewApp(app)>>]
        PROVE  wizard' \in WizardRecord /\ wizard'.pc \in {"app", "merge"} /\ wizard'.before = ecosystem
    <3>1. PICK d : d = [NoDoc EXCEPT !.apps = <<NewApp(app)>>]
      OBVIOUS
    <3>2. d \in Docs
      <4>1. PICK x : x = <<NewApp(app)>>
        OBVIOUS
      <4>2. x \in Seq(Apps)
        BY <4>1, NewAppTyped
      <4>3. d = [apps |-> x, flows |-> <<>>] /\ <<>> \in Seq(Flows)
        BY <3>1, <4>1, EmptySeq DEF NoDoc
      <4> QED
        BY <4>2, <4>3 DEF Docs
    <3>3. wizard' = [b EXCEPT !.pc = "merge", !.yes = TRUE, !.doc = d]
      BY <2>2, <3>1, <1>4 DEF WizardRecord, Stations
    <3> QED
      BY <3>2, <3>3, <1>4 DEF WizardRecord, Stations
  <2> QED
    BY <1>1, <1>3, <2>1, <2>2
<1>6. AsItWas(wizard', ecosystem') /\ AsMerged(wizard')
  BY <1>2, <1>5 DEF AsItWas, AsMerged
<1> QED
  BY <1>2, <1>5, <1>6, WizardPartsThen DEF WizardOK

LEMMA AskAppKeeps == ASSUME WizardIInv, AskApp PROVE WizardIInv'
<1>1. PICK app \in NewApps, more \in BOOLEAN :
        LET apps == Append(wizard.doc.apps, NewApp(app))
        IN  wizard' = [wizard EXCEPT !.doc.apps = apps,
              !.pc = IF more /\ Len(apps) < MaxApps THEN "app" ELSE "offer"]
  BY DEF AskApp
<1>2. /\ wizard \in WizardRecord /\ ecosystem' = ecosystem /\ ecosystem \in EcosystemFiles
      /\ wizard.pc = "app" /\ AsItWas(wizard, ecosystem)
  BY WizardParts DEF AskApp, WizardOK
<1>3. PICK d : d = wizard.doc
  OBVIOUS
<1>4. d \in Docs
  BY <1>2, <1>3 DEF WizardRecord, Stations
<1>5. PICK a : a = Append(d.apps, NewApp(app))
  OBVIOUS
<1>6. a \in Seq(Apps)
  BY <1>4, <1>5, NewAppTyped DEF Docs
<1>7. PICK pc : pc = IF more /\ Len(a) < MaxApps THEN "app" ELSE "offer"
  OBVIOUS
<1>8. PICK e : e = [d EXCEPT !.apps = a]
  OBVIOUS
<1>9. e \in Docs /\ pc \in {"app", "offer"}
  BY <1>4, <1>6, <1>7, <1>8 DEF Docs
<1>10. wizard' = [wizard EXCEPT !.doc = e, !.pc = pc]
  BY <1>1, <1>2, <1>3, <1>5, <1>7, <1>8 DEF WizardRecord, Stations
<1>11. /\ wizard' \in WizardRecord /\ wizard'.pc = pc /\ wizard'.before = wizard.before
       /\ wizard'.others = wizard.others
  BY <1>2, <1>9, <1>10 DEF WizardRecord, Stations
<1>12. AsItWas(wizard', ecosystem') /\ AsMerged(wizard')
  BY <1>2, <1>9, <1>11 DEF AsItWas, AsMerged, Asking
<1>13. wizard'.pc # "stage"
  BY <1>9, <1>11
<1> QED
  BY <1>2, <1>11, <1>12, <1>13, WizardPartsThen DEF WizardOK

LEMMA AskFlowKeeps == ASSUME WizardIInv, AskFlow PROVE WizardIInv'
<1>1. PICK name \in FlowNames, category \in {"", "default"} :
        wizard' = [wizard EXCEPT !.pc = "stage",
          !.flow = [category |-> category, name |-> name, stages |-> <<>>, pinned |-> FALSE]]
  BY DEF AskFlow
<1>2. /\ wizard \in WizardRecord /\ ecosystem' = ecosystem /\ ecosystem \in EcosystemFiles
      /\ wizard.pc = "flow" /\ AsItWas(wizard, ecosystem)
  BY WizardParts DEF AskFlow, WizardOK
<1>3. PICK f : f = [category |-> category, name |-> name, stages |-> <<>>, pinned |-> FALSE]
  OBVIOUS
<1>4. f \in Flows
  <2>1. <<>> \in Seq(Stages)
    BY EmptySeq
  <2> QED
    BY <1>3, <2>1 DEF Flows
<1>5. wizard' = [wizard EXCEPT !.pc = "stage", !.flow = f]
  BY <1>1, <1>3
<1>6. /\ wizard' \in WizardRecord /\ wizard'.pc = "stage" /\ wizard'.before = wizard.before
      /\ wizard'.others = wizard.others /\ wizard'.flow = f
  BY <1>2, <1>4, <1>5 DEF WizardRecord, Stations
<1>7. AsItWas(wizard', ecosystem') /\ AsMerged(wizard')
  BY <1>2, <1>6 DEF AsItWas, AsMerged, Asking
<1> QED
  BY <1>2, <1>4, <1>6, <1>7, WizardPartsThen DEF WizardOK

LEMMA AnswersTyped ==
  ASSUME wizard.doc \in Docs, NEW stage \in Answers
  PROVE  stage \in Stages
<1>1. PICK f : f = wizard.doc.flows
  OBVIOUS
<1>2. f \in Seq(Flows)
  BY <1>1 DEF Docs
<1>3. \A e \in Flows : FlowKey(e) \in Refs
  BY DEF FlowKey, Category, Flows, Refs
<1>4. \A r \in Pickable : r \in Refs
  <2> SUFFICES ASSUME NEW r \in Pickable PROVE r \in Refs
    OBVIOUS
  <2>1. CASE \E i \in DOMAIN f : r = FlowKey(f[i])
    BY <2>1, <1>2, <1>3
  <2>2. CASE \E n \in FlowNames : r = [category |-> "bare", name |-> n]
    BY <2>2 DEF Refs
  <2> QED
    BY <2>1, <2>2, <1>1 DEF Pickable
<1>5. Graph!NoRef \in Refs
  BY DEF Graph!NoRef, Refs
<1>6. PICK n \in {0, MaxStages} : \/ stage = [name |-> n, kind |-> "script", ref |-> Graph!NoRef]
                                 \/ \E r \in Pickable : stage = [name |-> n, kind |-> "workflow", ref |-> r]
  BY DEF Answers
<1>7. n \in Nat
  BY Answered
<1> QED
  BY <1>4, <1>5, <1>6, <1>7 DEF Stages

LEMMA AskStageKeeps == ASSUME WizardIInv, AskStage PROVE WizardIInv'
<1>1. PICK stage \in Answers, more \in {"stage", "flow", "merge"} :
        LET flow == [wizard.flow EXCEPT !.stages = Append(@, stage)]
            flows == Append(wizard.doc.flows, flow)
        IN  IF more = "stage"
            THEN /\ Len(flow.stages) < MaxStages
                 /\ wizard' = [wizard EXCEPT !.flow = flow]
            ELSE /\ more = "flow" => Len(flows) < MaxFlows
                 /\ wizard' = [wizard EXCEPT !.flow = NoDoc, !.doc.flows = flows, !.pc = more]
  BY DEF AskStage
<1>2. /\ wizard \in WizardRecord /\ ecosystem' = ecosystem /\ ecosystem \in EcosystemFiles
      /\ wizard.pc = "stage" /\ wizard.flow \in Flows /\ AsItWas(wizard, ecosystem)
  BY WizardParts DEF AskStage, WizardOK
<1>3. PICK d, g : d = wizard.doc /\ g = wizard.flow
  OBVIOUS
<1>4. d \in Docs /\ g \in Flows
  BY <1>2, <1>3 DEF WizardRecord
<1>5. PICK f : f = [g EXCEPT !.stages = Append(@, stage)]
  OBVIOUS
<1>6. f \in Flows
  <2>1. PICK t : t = Append(g.stages, stage)
    OBVIOUS
  <2>2. stage \in Stages /\ g.stages \in Seq(Stages)
    BY <1>3, <1>4, AnswersTyped DEF Flows
  <2>3. t \in Seq(Stages)
    BY <2>1, <2>2
  <2>4. f = [g EXCEPT !.stages = t]
    BY <1>4, <1>5, <2>1 DEF Flows
  <2> QED
    BY <1>4, <2>3, <2>4 DEF Flows
<1>7. PICK a : a = Append(d.flows, f)
  OBVIOUS
<1>8. a \in Seq(Flows)
  BY <1>4, <1>6, <1>7 DEF Docs
<1>9. PICK e : e = [d EXCEPT !.flows = a]
  OBVIOUS
<1>10. e \in Docs
  BY <1>4, <1>8, <1>9 DEF Docs
<1>11. /\ wizard' \in WizardRecord /\ wizard'.before = wizard.before
       /\ wizard'.others = wizard.others /\ wizard'.pc \in {"stage", "flow", "merge"}
       /\ wizard'.pc = "stage" => wizard'.flow \in Flows
  <2>1. CASE more = "stage"
    <3>1. wizard' = [wizard EXCEPT !.flow = f]
      BY <1>1, <1>3, <1>5, <2>1
    <3> QED
      BY <3>1, <1>2, <1>6 DEF WizardRecord, Stations
  <2>2. CASE more # "stage"
    <3>1. wizard' = [wizard EXCEPT !.flow = NoDoc, !.doc = e, !.pc = more]
      BY <1>1, <1>2, <1>3, <1>5, <1>7, <1>9, <2>2 DEF WizardRecord
    <3> QED
      BY <3>1, <1>2, <1>10, <2>2 DEF WizardRecord, Stations
  <2> QED
    BY <2>1, <2>2
<1>12. AsItWas(wizard', ecosystem') /\ AsMerged(wizard')
  BY <1>2, <1>11 DEF AsItWas, AsMerged, Asking
<1> QED
  BY <1>2, <1>11, <1>12, WizardPartsThen DEF WizardOK

LEMMA MergeIntoFileKeeps == ASSUME WizardIInv, MergeIntoFile PROVE WizardIInv'
<1>1. /\ wizard \in WizardRecord /\ ecosystem' = ecosystem /\ ecosystem \in EcosystemFiles
      /\ wizard.pc = "merge" /\ AsItWas(wizard, ecosystem)
  BY WizardParts DEF MergeIntoFile, WizardOK
<1>2. PICK exists, out :
        /\ exists = (ecosystem.state # "missing")
        /\ out = IF exists /\ ~wizard.force THEN Merge(LoadedDoc(ecosystem.doc), wizard.doc)
                 ELSE wizard.doc
        /\ IF /\ exists /\ ~wizard.force => wizard.merge /\ Loadable(ecosystem)
              /\ Valid(out.flows)
           THEN wizard' = [wizard EXCEPT !.pc = IF wizard.yes THEN "truncate" ELSE "confirm",
                                         !.out = out, !.seen = ecosystem]
           ELSE wizard' = [wizard EXCEPT !.pc = "left"]
  BY DEF MergeIntoFile
<1>3. PICK old, new : old = ecosystem.doc /\ new = wizard.doc
  OBVIOUS
<1>4. old \in Docs /\ new \in Docs
  BY <1>1, <1>3 DEF EcosystemFiles, WizardRecord
<1>5. CASE wizard' = [wizard EXCEPT !.pc = "left"]
  <2>1. /\ wizard' \in WizardRecord /\ wizard'.pc = "left"
        /\ wizard'.before = wizard.before /\ wizard'.others = wizard.others
    BY <1>1, <1>5 DEF WizardRecord, Stations
  <2>2. AsItWas(wizard', ecosystem') /\ AsMerged(wizard')
    BY <1>1, <2>1 DEF AsItWas, AsMerged
  <2> QED
    BY <1>1, <2>1, <2>2, WizardPartsThen DEF WizardOK
<1>6. CASE /\ Valid(out.flows)
           /\ wizard' = [wizard EXCEPT !.pc = IF wizard.yes THEN "truncate" ELSE "confirm",
                                       !.out = out, !.seen = ecosystem]
  <2>1. exists /\ ~wizard.force => out = Merge(LoadedDoc(old), new)
    BY <1>2, <1>3
  <2>2. out \in Docs /\ (exists /\ ~wizard.force => Kept(old, out))
    <3>1. CASE exists /\ ~wizard.force
      BY <3>1, <2>1, <1>4, <1>6, MergeKept
    <3>2. CASE ~(exists /\ ~wizard.force)
      BY <3>2, <1>2, <1>3, <1>4
    <3> QED
      BY <3>1, <3>2
  <2>3. PICK pc : pc = IF wizard.yes THEN "truncate" ELSE "confirm"
    OBVIOUS
  <2>4. wizard' = [wizard EXCEPT !.pc = pc, !.out = out, !.seen = ecosystem]
    BY <1>6, <2>3
  <2>5. pc \in {"truncate", "confirm"}
    BY <2>3
  <2>6. /\ wizard' \in WizardRecord /\ wizard'.pc = pc /\ wizard'.force = wizard.force
        /\ wizard'.before = wizard.before /\ wizard'.others = wizard.others
        /\ wizard'.out = out /\ wizard'.seen = ecosystem
    BY <1>1, <2>2, <2>4, <2>5 DEF WizardRecord, Stations
  <2>7. AsItWas(wizard', ecosystem')
    BY <1>1, <2>5, <2>6 DEF AsItWas
  <2>8. AsMerged(wizard')
    <3>1. ecosystem.state = "whole" => exists
      BY <1>2
    <3> QED
      BY <3>1, <2>2, <2>6, <1>3 DEF AsMerged
  <2>9. wizard'.pc # "stage"
    BY <2>5, <2>6
  <2> QED
    BY <1>1, <2>6, <2>7, <2>8, <2>9, WizardPartsThen DEF WizardOK
<1> QED
  BY <1>2, <1>5, <1>6

LEMMA WritesKeep ==
  ASSUME WizardIInv, EmptyFile \/ FillFile, NEW pc \in {"write", "written", "failed"},
         wizard' = [wizard EXCEPT !.pc = pc], ecosystem' \in EcosystemFiles
  PROVE  WizardIInv'
<1>1. /\ wizard \in WizardRecord /\ wizard.pc \in {"truncate", "write"} /\ AsMerged(wizard)
  BY WizardParts DEF EmptyFile, FillFile, WizardOK
<1>2. /\ wizard' \in WizardRecord /\ wizard'.pc = pc /\ wizard'.force = wizard.force
      /\ wizard'.out = wizard.out /\ wizard'.seen = wizard.seen
  BY <1>1 DEF WizardRecord, Stations
<1>3. AsItWas(wizard', ecosystem') /\ AsMerged(wizard')
  BY <1>1, <1>2 DEF AsItWas, AsMerged, Asking
<1>4. wizard'.pc # "stage"
  BY <1>2
<1> QED
  BY <1>2, <1>3, <1>4, WizardPartsThen DEF WizardOK

LEMMA SavedByOtherKeeps == ASSUME WizardIInv, SavedByOther PROVE WizardIInv'
<1>1. /\ wizard \in WizardRecord /\ (wizard.pc = "stage" => wizard.flow \in Flows)
      /\ AsMerged(wizard)
  BY WizardParts DEF WizardOK
<1>2. PICK d \in Declared : ecosystem' = Whole(d)
  BY DEF SavedByOther
<1>3. ecosystem' \in EcosystemFiles
  BY <1>2, Answered, WholeTyped
<1>4. wizard' = [wizard EXCEPT !.others = @ + 1]
  BY DEF SavedByOther
<1>5. /\ wizard' \in WizardRecord /\ wizard'.pc = wizard.pc /\ wizard'.force = wizard.force
      /\ wizard'.out = wizard.out /\ wizard'.seen = wizard.seen /\ wizard'.flow = wizard.flow
      /\ wizard'.others # 0
  BY <1>1, <1>4 DEF WizardRecord
<1>6. AsItWas(wizard', ecosystem') /\ AsMerged(wizard')
  BY <1>1, <1>5 DEF AsItWas, AsMerged
<1> QED
  BY <1>1, <1>3, <1>5, <1>6, WizardPartsThen DEF WizardOK

LEMMA WizardStep == WizardIInv /\ [WizardNext]_wizardVars => WizardIInv'
<1> SUFFICES ASSUME WizardIInv, [WizardNext]_wizardVars PROVE WizardIInv'
  OBVIOUS
<1>1. CASE UNCHANGED wizardVars
  <2>1. ecosystem' = ecosystem /\ wizard' = wizard
    BY <1>1 DEF wizardVars
  <2> QED
    BY <2>1, WizardParts, WizardPartsThen
<1>2. CASE EmptyFile
  <2>1. CASE Turn("left")
    BY <2>1, <1>2, TurnsKeep DEF EmptyFile
  <2>2. CASE ecosystem' = Cut /\ wizard' = [wizard EXCEPT !.pc = "write"]
    BY <2>2, <1>2, NoDocTyped, WritesKeep
  <2> QED
    BY <2>1, <2>2, <1>2 DEF EmptyFile
<1>3. CASE FillFile
  <2>1. CASE ecosystem' = Whole(Normal(wizard.out)) /\ wizard' = [wizard EXCEPT !.pc = "written"]
    <3>1. wizard.out \in Docs
      BY DEF WizardIInv, WizardRecord
    <3>2. ecosystem' \in EcosystemFiles
      BY <3>1, <2>1, NormalTyped, WholeTyped
    <3> QED
      BY <3>2, <2>1, <1>3, WritesKeep
  <2>2. CASE ecosystem' = ecosystem /\ wizard' = [wizard EXCEPT !.pc = "failed"]
    <3>1. ecosystem' \in EcosystemFiles
      BY <2>2 DEF WizardIInv
    <3> QED
      BY <3>1, <2>2, <1>3, WritesKeep
  <2> QED
    BY <2>1, <2>2, <1>3 DEF FillFile
<1> QED
  BY <1>1, <1>2, <1>3, StartWizardKeeps, AskAppKeeps, AskFlowKeeps, AskStageKeeps, TurnsKeep,
     MergeIntoFileKeeps, SavedByOtherKeeps DEF WizardNext

-------------------------------------------------------------------------------
(* Applying a file: what has been sent is done, what other files own stays. *)

AppRecord == [ns : Nat, name : STRING, n : Nat \ {0}, optional : BOOLEAN]
Item == [app : AppRecord, paused : BOOLEAN]
TaskRecord == [id : Nat \ {0}, ns : Nat, name : STRING \X Nat, ours : BOOLEAN, paused : BOOLEAN]
ApplyRecord ==
  [pc : {"idle", "resolve", "load", "start", "forget", "sweep", "ended"}, remote : BOOLEAN,
   delete : BOOLEAN, all : BOOLEAN, with : SUBSET Words, single : BOOLEAN, attempt : Nat,
   queue : Seq(Item), again : BOOLEAN, error : BOOLEAN, deleted : Nat, before : SUBSET TaskRecord]

Differ(t, u) == t.id # u.id /\ <<t.ns, t.name>> # <<u.ns, u.name>>
RegistryOK(reg) ==
  reg \subseteq TaskRecord /\ IsFiniteSet(reg) /\ \A t, u \in reg : t # u => Differ(t, u)

Mine(t, app) == t.ours /\ t.ns = app.ns /\ t.name \in Instances(app)
Suspended(a, app) == app.optional /\ ~a.all /\ ~Named(app, a.with)

\* Every instance is there, paused or not; an app of one instance is gone.
StartedIn(reg, app, paused) ==
  /\ \A name \in Instances(app) : \E t \in reg : Mine(t, app) /\ t.name = name
  /\ \A t \in reg : Mine(t, app) => t.paused = paused
StartedAll(a, reg, k) ==
  \A i \in 1..k : Unique(Normalized[i]) =>
    StartedIn(reg, Normalized[i], Suspended(a, Normalized[i]))
GoneAll(reg, k) ==
  \A i \in 1..k : Normalized[i].n = 1 => \A t \in reg : ~Mine(t, Normalized[i])

\* The apps the requests sent so far were for.
Sent(a) == Len(Normalized) - Len(a.queue)
StartOK(a, reg) ==
  a.pc = "start" =>
    /\ ~a.delete
    /\ ~a.single =>
         /\ Len(a.queue) <= Len(Normalized) /\ StartedAll(a, reg, Sent(a))
         /\ \A j \in 1..Len(a.queue) : a.queue[j] = Chosen(a.all, a.with)[Sent(a) + j]
SweepOK(a, reg) ==
  /\ a.pc = "forget" => a.delete
  /\ a.pc = "sweep" =>
       /\ a.delete /\ Len(a.queue) <= Len(Normalized) /\ GoneAll(reg, Sent(a))
       /\ \A j \in 1..Len(a.queue) : a.queue[j].app = Normalized[Sent(a) + j]
EndOK(a, reg) ==
  (a.pc = "ended" /\ ~a.error) =>
    /\ (~a.delete /\ ~a.single) => StartedAll(a, reg, Len(Normalized))
    /\ a.delete => GoneAll(reg, Len(Normalized))
OthersOK(a, reg) ==
  a.pc # "idle" =>
    \A t \in a.before :
      t \in reg \/ t.ours \/ (a.delete /\ \E i \in DOMAIN Normalized : Reached(Normalized[i], t))
ApplyOK(a, reg) ==
  a \in ApplyRecord /\ StartOK(a, reg) /\ SweepOK(a, reg) /\ EndOK(a, reg) /\ OthersOK(a, reg)

ApplyIInv == RegistryOK(registered) /\ ApplyOK(apply, registered)

LEMMA NormalizedTyped ==
  /\ Normalized \in Seq(AppRecord) /\ Len(Normalized) \in Nat
  /\ DOMAIN Normalized = 1..Len(Normalized)
  /\ \A i \in 1..Len(Normalized) : Normalized[i] \in AppRecord
<1>1. PICK e : e = Ecosystem
  OBVIOUS
<1>2. e \in Seq(AppRecord)
  BY <1>1, ApplyAssumption DEF AppRecord
<1>3. DOMAIN e = 1..Len(e) /\ Len(e) \in Nat
  BY <1>2
<1>4. PICK s : s = Normalized
  OBVIOUS
<1>5. s = [i \in 1..Len(e) |-> [e[i] EXCEPT !.ns = IF @ = 0 THEN DefaultSpace ELSE @]]
  BY <1>1, <1>3, <1>4 DEF Normalized
<1>6. ASSUME NEW i \in 1..Len(e) PROVE s[i] \in AppRecord
  <2>1. PICK x : x = e[i]
    OBVIOUS
  <2>2. x \in AppRecord
    BY <2>1, <1>2
  <2>3. PICK n : n = IF x.ns = 0 THEN DefaultSpace ELSE x.ns
    OBVIOUS
  <2>4. n \in Nat
    BY <2>2, <2>3 DEF AppRecord, DefaultSpace
  <2>5. s[i] = [x EXCEPT !.ns = n]
    BY <2>1, <2>2, <2>3, <1>5 DEF AppRecord
  <2> QED
    BY <2>2, <2>4, <2>5 DEF AppRecord
<1>7. s \in [1..Len(e) -> AppRecord]
  BY <1>5, <1>6
<1>8. s \in Seq(AppRecord) /\ Len(s) = Len(e)
  BY <1>3, <1>7
<1> QED
  BY <1>3, <1>4, <1>6, <1>7, <1>8

LEMMA ApplyHoldsThen == ApplyIInv => ApplyHolds
<1> SUFFICES ASSUME ApplyIInv PROVE ApplyHolds
  OBVIOUS
<1>1. ApplyOK(apply, registered) /\ RegistryOK(registered) /\ apply \in ApplyRecord
  BY DEF ApplyIInv, ApplyOK
<1>2. ASSUME ~apply.delete, ~apply.single, apply.pc = "ended" => ~apply.error,
             apply.pc \in {"start", "ended"}, apply.queue = <<>>, NEW i \in DOMAIN Normalized,
             Unique(Normalized[i])
      PROVE  /\ {t.name : t \in Ours(Normalized[i])} = Instances(Normalized[i])
             /\ \A t \in Ours(Normalized[i]) : t.paused = Suspended(apply, Normalized[i])
  <2>1. Sent(apply) = Len(Normalized)
    BY <1>2, NormalizedTyped DEF Sent
  <2>2. StartedAll(apply, registered, Len(Normalized))
    BY <1>1, <1>2, <2>1 DEF ApplyOK, StartOK, EndOK
  <2>3. PICK app : app = Normalized[i]
    OBVIOUS
  <2>4. StartedIn(registered, app, Suspended(apply, app))
    BY <2>2, <2>3, <1>2, NormalizedTyped DEF StartedAll
  <2>5. \A t \in registered : t \in Ours(app) <=> Mine(t, app)
    BY DEF Ours, Mine
  <2>6. Ours(app) \subseteq registered
    BY DEF Ours
  <2> QED
    BY <2>3, <2>4, <2>5, <2>6 DEF StartedIn, Mine
<1>3. ASSUME apply.delete, apply.pc = "ended", ~apply.error, NEW i \in DOMAIN Normalized,
             Normalized[i].n = 1
      PROVE  Ours(Normalized[i]) = {}
  <2>1. GoneAll(registered, Len(Normalized))
    BY <1>1, <1>3 DEF ApplyOK, EndOK
  <2> QED
    BY <2>1, <1>3, NormalizedTyped DEF GoneAll, Ours, Mine
<1>4. apply.pc # "idle" =>
        \A t \in apply.before :
          \/ t \in registered
          \/ t.ours
          \/ apply.delete /\ \E i \in DOMAIN Normalized : Reached(Normalized[i], t)
  BY <1>1 DEF ApplyOK, OthersOK
<1>5. \A t, u \in registered : t # u => t.id # u.id /\ <<t.ns, t.name>> # <<u.ns, u.name>>
  BY <1>1 DEF RegistryOK, Differ
<1> QED
  BY <1>2, <1>3, <1>4, <1>5 DEF ApplyHolds, Suspended

(* Numbers.                                                                 *)
LEMMA Highest ==
  ASSUME NEW T \in SUBSET Nat, IsFiniteSet(T), T # {}
  PROVE  \E x \in T : \A y \in T : y <= x
<1>1. PICK f : f = [t \in T |-> t]
  OBVIOUS
<1>2. f \in [T -> Nat]
  BY <1>1
<1>3. Listed(T, f)
  BY <1>2, Arranged
<1>4. PICK s \in SetToSeqs(T) : \A i, j \in DOMAIN s : i < j => f[s[i]] <= f[s[j]]
  BY <1>3 DEF Listed
<1>5. s \in Seq(T) /\ ToSet(s) = T
  BY <1>4, ListsAll
<1>6. PICK l : l = Len(s)
  OBVIOUS
<1>7. DOMAIN s = 1..l /\ l \in Nat /\ \A i \in 1..l : s[i] \in T
  BY <1>5, <1>6
<1>8. \A y \in T : \E i \in 1..l : y = s[i]
  BY <1>5, <1>7 DEF ToSet
<1>9. l \in 1..l
  <2>1. PICK y \in T : TRUE
    OBVIOUS
  <2>2. PICK i \in 1..l : y = s[i]
    BY <2>1, <1>8
  <2> QED
    BY <2>2, <1>7
<1>10. ASSUME NEW y \in T PROVE y <= s[l]
  <2>1. PICK i \in 1..l : y = s[i]
    BY <1>8
  <2>2. CASE i = l
    BY <2>1, <2>2
  <2>3. CASE i # l
    <3>1. i < l
      BY <2>3, <1>7
    <3>2. f[s[i]] <= f[s[l]]
      BY <3>1, <1>4, <1>7, <1>9
    <3> QED
      BY <3>2, <2>1, <1>1, <1>7, <1>9
  <2> QED
    BY <2>2, <2>3
<1> QED
  BY <1>7, <1>9, <1>10

LEMMA Numbering ==
  ASSUME RegistryOK(registered)
  PROVE  LastTaken \in Nat /\ \A t \in registered : t.id <= LastTaken
<1>1. registered \subseteq TaskRecord /\ IsFiniteSet(registered)
  BY DEF RegistryOK
<1>2. PICK I : I = {t.id : t \in registered}
  OBVIOUS
<1>3. \A t \in registered : t.id \in Nat
  BY <1>1 DEF TaskRecord
<1>4. PICK f : f = [t \in registered |-> t.id]
  OBVIOUS
<1>5. f \in [registered -> I] /\ \A i \in I : \E t \in registered : f[t] = i
  BY <1>2, <1>4
<1>6. IsFiniteSet(I)
  BY <1>1, <1>5, ImageIsFinite
<1>7. PICK T : T = {0} \union I
  OBVIOUS
<1>8. IsFiniteSet({0})
  BY FS_Singleton
<1>9. IsFiniteSet(T)
  BY <1>6, <1>7, <1>8, FS_Union
<1>10. T \in SUBSET Nat
  BY <1>2, <1>3, <1>7
<1>11. T # {}
  BY <1>7
<1>12. \E x \in T : \A y \in T : y <= x
  BY <1>9, <1>10, <1>11, Highest
<1>13. Taken = T
  BY <1>2, <1>7 DEF Taken
<1>14. LastTaken \in T /\ \A y \in T : y <= LastTaken
  BY <1>12, <1>13 DEF LastTaken
<1> QED
  BY <1>2, <1>7, <1>10, <1>14

(* One request: the tasks it leaves are those it did not touch and its own. *)
Replaced(item, names) == UNION {Existing(item.app, name) : name \in names}
Launched(item, name) ==
  [id |-> Number(item.app, name), ns |-> item.app.ns, name |-> name, ours |-> TRUE,
   paused |-> item.paused]

LEMMA InstancesTyped ==
  ASSUME NEW app \in AppRecord
  PROVE  /\ IsFiniteSet(Instances(app))
         /\ \A name \in Instances(app) : name \in STRING \X Nat /\ name[1] = app.name
         /\ \A a, b \in Instances(app) : a # b => a[2] # b[2]
<1>1. app.n \in Nat /\ app.name \in STRING
  BY DEF AppRecord
<1>2. CASE app.n = 1
  <2>1. Instances(app) = {<<app.name, 0>>}
    BY <1>2 DEF Instances
  <2>2. IsFiniteSet({<<app.name, 0>>})
    BY FS_Singleton
  <2> QED
    BY <2>1, <2>2, <1>1
<1>3. CASE app.n # 1
  <2>1. PICK I : I = Instances(app)
    OBVIOUS
  <2>2. I = {<<app.name, k>> : k \in 1..app.n}
    BY <1>3, <2>1 DEF Instances
  <2>3. PICK f : f = [k \in 1..app.n |-> <<app.name, k>>]
    OBVIOUS
  <2>4. f \in [1..app.n -> I] /\ \A name \in I : \E k \in 1..app.n : f[k] = name
    BY <2>2, <2>3
  <2>5. IsFiniteSet(1..app.n)
    BY <1>1, FS_Interval
  <2>6. IsFiniteSet(I)
    BY <2>4, <2>5, ImageIsFinite
  <2> QED
    BY <2>1, <2>2, <2>6, <1>1
<1> QED
  BY <1>2, <1>3

LEMMA NumberTyped ==
  ASSUME RegistryOK(registered), NEW app, NEW name, name[2] \in Nat
  PROVE  /\ Number(app, name) \in Nat \ {0}
         /\ Existing(app, name) # {} =>
              \E t \in Existing(app, name) : t \in registered /\ Number(app, name) = t.id
         /\ Existing(app, name) = {} => Number(app, name) = LastTaken + 1 + name[2]
<1>1. CASE Existing(app, name) # {}
  <2>1. PICK t : t = CHOOSE u \in Existing(app, name) : TRUE
    OBVIOUS
  <2>2. t \in Existing(app, name)
    BY <1>1, <2>1
  <2>3. t \in registered
    BY <2>2 DEF Existing
  <2>4. t.id \in Nat \ {0}
    BY <2>3 DEF RegistryOK, TaskRecord
  <2>5. Number(app, name) = t.id
    BY <1>1, <2>1 DEF Number
  <2> QED
    BY <1>1, <2>2, <2>3, <2>4, <2>5
<1>2. CASE Existing(app, name) = {}
  <2>1. Number(app, name) = LastTaken + 1 + name[2]
    BY <1>2 DEF Number
  <2>2. LastTaken \in Nat
    BY Numbering
  <2> QED
    BY <1>2, <2>1, <2>2
<1> QED
  BY <1>1, <1>2

LEMMA ExistingIs ==
  ASSUME NEW app, NEW name
  PROVE  /\ \A t \in Existing(app, name) : t \in registered /\ t.name = name
         /\ \A t \in registered : (t.ns = app.ns /\ t.name = name) => t \in Existing(app, name)
BY DEF Existing

LEMMA AfterStartIs ==
  ASSUME RegistryOK(registered), NEW item \in Item, NEW names \in SUBSET Instances(item.app),
         NEW after, after = AfterStart(item, names)
  PROVE  /\ \A t \in after : \/ t \in registered /\ t \notin Replaced(item, names)
                             \/ \E name \in names : t = Launched(item, name)
         /\ \A t \in registered : t \in after \/ t \in Replaced(item, names)
         /\ \A name \in names : Launched(item, name) \in after
         /\ IsFiniteSet(after)
<1>1. PICK new : new = {Launched(item, name) : name \in names}
  OBVIOUS
<1>2. after = (registered \ Replaced(item, names)) \union new
  BY <1>1 DEF AfterStart, Replaced, Launched
<1>3. item.app \in AppRecord
  BY DEF Item
<1>4. IsFiniteSet(names)
  BY <1>3, InstancesTyped, FS_Subset
<1>5. PICK f : f = [name \in names |-> Launched(item, name)]
  OBVIOUS
<1>6. f \in [names -> new] /\ \A t \in new : \E name \in names : f[name] = t
  BY <1>1, <1>5
<1>7. IsFiniteSet(new)
  BY <1>4, <1>6, ImageIsFinite
<1>8. IsFiniteSet(registered \ Replaced(item, names))
  BY FS_Subset DEF RegistryOK
<1>9. IsFiniteSet(after)
  BY <1>2, <1>7, <1>8, FS_Union
<1> QED
  BY <1>1, <1>2, <1>9

LEMMA LaunchedDiffer ==
  ASSUME RegistryOK(registered), NEW item \in Item, NEW names \in SUBSET Instances(item.app),
         NEW a \in names
  PROVE  /\ Launched(item, a) \in TaskRecord
         /\ \A b \in names : a # b => Differ(Launched(item, a), Launched(item, b))
         /\ \A t \in registered \ Replaced(item, names) : Differ(Launched(item, a), t)
<1>1. PICK app : app = item.app
  OBVIOUS
<1>2. app \in AppRecord /\ item.paused \in BOOLEAN
  BY <1>1 DEF Item
<1>3. \A b \in names : b \in STRING \X Nat /\ b[2] \in Nat
  BY <1>1, <1>2, InstancesTyped
<1>4. \A b \in names : a # b => a[2] # b[2]
  BY <1>1, <1>2, InstancesTyped
<1>5. PICK g : g = [b \in names |-> Number(app, b)]
  OBVIOUS
<1>6. \A b \in names : /\ g[b] \in Nat \ {0}
                       /\ Existing(app, b) # {} => \E t \in Existing(app, b) : t \in registered /\ g[b] = t.id
                       /\ Existing(app, b) = {} => g[b] = LastTaken + 1 + b[2]
  BY <1>3, <1>5, NumberTyped
<1>7. \A b \in names : Launched(item, b) =
        [id |-> g[b], ns |-> app.ns, name |-> b, ours |-> TRUE, paused |-> item.paused]
  BY <1>1, <1>5 DEF Launched
<1>8. LastTaken \in Nat /\ \A t \in registered : t.id <= LastTaken /\ t.id \in Nat
  BY Numbering DEF RegistryOK, TaskRecord
<1>9. Launched(item, a) \in TaskRecord
  <2>1. g[a] \in Nat \ {0} /\ app.ns \in Nat /\ a \in STRING \X Nat
    BY <1>2, <1>3, <1>6 DEF AppRecord
  <2>2. PICK n, p, r : n = g[a] /\ p = item.paused /\ r = Launched(item, a)
    OBVIOUS
  <2>3. r = [id |-> n, ns |-> app.ns, name |-> a, ours |-> TRUE, paused |-> p]
    BY <2>2, <1>7
  <2>4. n \in Nat \ {0} /\ p \in BOOLEAN
    BY <2>1, <2>2, <1>2
  <2>5. r \in TaskRecord
    BY <2>1, <2>3, <2>4 DEF TaskRecord
  <2> QED
    BY <2>2, <2>5
<1>10. \A t, u \in registered : t # u => t.id # u.id
  BY DEF RegistryOK, Differ
<1>11. ASSUME NEW b \in names, a # b PROVE Differ(Launched(item, a), Launched(item, b))
  <2>1. g[a] # g[b]
    <3>1. CASE Existing(app, a) # {} /\ Existing(app, b) # {}
      <4>1. PICK t \in Existing(app, a), u \in Existing(app, b) :
              t \in registered /\ u \in registered /\ g[a] = t.id /\ g[b] = u.id
        BY <3>1, <1>6
      <4>2. t.name = a /\ u.name = b
        BY <4>1, ExistingIs
      <4> QED
        BY <4>1, <4>2, <1>10, <1>11
    <3>2. CASE Existing(app, a) # {} /\ Existing(app, b) = {}
      <4>1. PICK t \in registered : g[a] = t.id
        BY <3>2, <1>6
      <4>2. g[b] = LastTaken + 1 + b[2] /\ b[2] \in Nat
        BY <3>2, <1>6, <1>3
      <4> QED
        BY <4>1, <4>2, <1>8
    <3>3. CASE Existing(app, a) = {} /\ Existing(app, b) # {}
      <4>1. PICK t \in registered : g[b] = t.id
        BY <3>3, <1>6
      <4>2. g[a] = LastTaken + 1 + a[2] /\ a[2] \in Nat
        BY <3>3, <1>6, <1>3
      <4> QED
        BY <4>1, <4>2, <1>8
    <3>4. CASE Existing(app, a) = {} /\ Existing(app, b) = {}
      <4>1. /\ g[a] = LastTaken + 1 + a[2] /\ g[b] = LastTaken + 1 + b[2]
            /\ a[2] \in Nat /\ b[2] \in Nat /\ a[2] # b[2]
        BY <3>4, <1>3, <1>4, <1>6, <1>11
      <4> QED
        BY <4>1, <1>8
    <3> QED
      BY <3>1, <3>2, <3>3, <3>4
  <2> QED
    BY <2>1, <1>7, <1>11 DEF Differ
<1>12. ASSUME NEW t \in registered, t \notin Replaced(item, names)
       PROVE  Differ(Launched(item, a), t)
  <2>1. t \notin Existing(app, a)
    BY <1>1, <1>12 DEF Replaced
  <2>2. ~(t.ns = app.ns /\ t.name = a)
    BY <2>1, ExistingIs
  <2>3. g[a] # t.id
    <3>1. CASE Existing(app, a) # {}
      <4>1. PICK u \in Existing(app, a) : u \in registered /\ g[a] = u.id
        BY <3>1, <1>6
      <4> QED
        BY <4>1, <2>1, <1>10
    <3>2. CASE Existing(app, a) = {}
      <4>1. g[a] = LastTaken + 1 + a[2] /\ a[2] \in Nat
        BY <3>2, <1>6, <1>3
      <4> QED
        BY <4>1, <1>8
    <3> QED
      BY <3>1, <3>2
  <2> QED
    BY <2>2, <2>3, <1>7 DEF Differ
<1> QED
  BY <1>9, <1>11, <1>12

LEMMA StartKeepsRegistry ==
  ASSUME RegistryOK(registered), NEW item \in Item, NEW names \in SUBSET Instances(item.app),
         NEW after, after = AfterStart(item, names)
  PROVE  RegistryOK(after)
<1>1. /\ \A t \in after : \/ t \in registered /\ t \notin Replaced(item, names)
                          \/ \E name \in names : t = Launched(item, name)
      /\ IsFiniteSet(after)
  BY AfterStartIs
<1>2. after \subseteq TaskRecord
  BY <1>1, LaunchedDiffer DEF RegistryOK
<1>3. \A t, u : Differ(t, u) => Differ(u, t)
  BY DEF Differ
<1>4. ASSUME NEW t \in after, NEW u \in after, t # u PROVE Differ(t, u)
  <2>1. CASE t \in registered \ Replaced(item, names) /\ u \in registered \ Replaced(item, names)
    BY <2>1, <1>4 DEF RegistryOK
  <2>2. ASSUME NEW a \in names, t = Launched(item, a), u \in registered \ Replaced(item, names)
        PROVE  Differ(t, u)
    BY <2>2, LaunchedDiffer
  <2>3. ASSUME NEW a \in names, u = Launched(item, a), t \in registered \ Replaced(item, names)
        PROVE  Differ(t, u)
    BY <2>3, LaunchedDiffer, <1>3
  <2>4. ASSUME NEW a \in names, NEW b \in names, t = Launched(item, a), u = Launched(item, b)
        PROVE  Differ(t, u)
    BY <2>4, <1>4, LaunchedDiffer
  <2> QED
    BY <1>1, <1>4, <2>1, <2>2, <2>3, <2>4
<1> QED
  BY <1>1, <1>2, <1>4 DEF RegistryOK

LEMMA StartsApp ==
  ASSUME RegistryOK(registered), NEW item \in Item, NEW after,
         after = AfterStart(item, Instances(item.app))
  PROVE  StartedIn(after, item.app, item.paused)
<1>1. PICK names : names = Instances(item.app)
  OBVIOUS
<1>2. names \in SUBSET Instances(item.app) /\ after = AfterStart(item, names)
  BY <1>1
<1>3. /\ \A t \in after : \/ t \in registered /\ t \notin Replaced(item, names)
                          \/ \E name \in names : t = Launched(item, name)
      /\ \A name \in names : Launched(item, name) \in after
  BY <1>2, AfterStartIs
<1>4. \A name \in names : /\ Launched(item, name).ours /\ Launched(item, name).ns = item.app.ns
                          /\ Launched(item, name).name = name
                          /\ Launched(item, name).paused = item.paused
  BY DEF Launched
<1>5. ASSUME NEW name \in names PROVE \E t \in after : Mine(t, item.app) /\ t.name = name
  BY <1>1, <1>3, <1>4 DEF Mine
<1>6. ASSUME NEW t \in after, Mine(t, item.app) PROVE t.paused = item.paused
  <2>1. CASE t \in registered /\ t \notin Replaced(item, names)
    <3>1. t.ns = item.app.ns /\ t.name \in names
      BY <1>6, <1>1 DEF Mine
    <3>2. t \in Existing(item.app, t.name)
      BY <3>1, <2>1, ExistingIs
    <3> QED
      BY <3>1, <3>2, <2>1 DEF Replaced
  <2>2. CASE \E name \in names : t = Launched(item, name)
    BY <2>2, <1>4
  <2> QED
    BY <2>1, <2>2, <1>3
<1> QED
  BY <1>1, <1>5, <1>6 DEF StartedIn

LEMMA ReplacedAre ==
  ASSUME NEW item \in Item, NEW names \in SUBSET Instances(item.app),
         NEW t \in Replaced(item, names)
  PROVE  t.name \in Instances(item.app) /\ t.name[1] = item.app.name
<1>1. PICK name \in names : t \in Existing(item.app, name)
  BY DEF Replaced
<1>2. t.name = name
  BY <1>1, ExistingIs
<1>3. item.app \in AppRecord
  BY DEF Item
<1> QED
  BY <1>2, <1>3, InstancesTyped

LEMMA StartKeepsApp ==
  ASSUME RegistryOK(registered), NEW item \in Item, NEW names \in SUBSET Instances(item.app),
         NEW after, after = AfterStart(item, names), NEW app \in AppRecord,
         app.name # item.app.name, NEW paused, StartedIn(registered, app, paused)
  PROVE  StartedIn(after, app, paused)
<1>1. /\ \A t \in after : \/ t \in registered /\ t \notin Replaced(item, names)
                          \/ \E name \in names : t = Launched(item, name)
      /\ \A t \in registered : t \in after \/ t \in Replaced(item, names)
  BY AfterStartIs
<1>2. \A name \in Instances(app) : name[1] # item.app.name
  BY InstancesTyped
<1>3. \A name \in names : Launched(item, name).name = name /\ name[1] = item.app.name
  BY InstancesTyped DEF Launched, Item
<1>4. ASSUME NEW name \in Instances(app)
      PROVE  \E t \in after : Mine(t, app) /\ t.name = name
  <2>1. PICK t \in registered : Mine(t, app) /\ t.name = name
    BY DEF StartedIn
  <2>2. t \notin Replaced(item, names)
    BY <2>1, <1>2, ReplacedAre
  <2> QED
    BY <2>1, <2>2, <1>1
<1>5. ASSUME NEW t \in after, Mine(t, app) PROVE t.paused = paused
  <2>1. t.name \in Instances(app)
    BY <1>5 DEF Mine
  <2>2. t \in registered
    BY <2>1, <1>1, <1>2, <1>3
  <2> QED
    BY <2>2, <1>5 DEF StartedIn
<1> QED
  BY <1>4, <1>5 DEF StartedIn

LEMMA StartKeepsOthers ==
  ASSUME RegistryOK(registered), NEW item \in Item, NEW names \in SUBSET Instances(item.app),
         NEW after, after = AfterStart(item, names), ~RefusedStart(item.app, names), NEW a,
         a.pc # "idle", OthersOK(a, registered)
  PROVE  OthersOK(a, after)
<1>1. \A t \in registered : t \in after \/ t \in Replaced(item, names)
  BY AfterStartIs
<1>2. \A t \in Replaced(item, names) : t.ours
  BY DEF Replaced, RefusedStart
<1> QED
  BY <1>1, <1>2 DEF OthersOK

(* What a request leaves done.                                              *)
LEMMA ChosenTyped ==
  ASSUME NEW a \in ApplyRecord
  PROVE  /\ Chosen(a.all, a.with) \in Seq(Item) /\ Len(Chosen(a.all, a.with)) = Len(Normalized)
         /\ \A i \in 1..Len(Normalized) :
              Chosen(a.all, a.with)[i] = [app |-> Normalized[i], paused |-> Suspended(a, Normalized[i])]
<1>1. PICK c : c = Chosen(a.all, a.with)
  OBVIOUS
<1>2. PICK n : n = Len(Normalized)
  OBVIOUS
<1>3. n \in Nat /\ DOMAIN Normalized = 1..n /\ \A i \in 1..n : Normalized[i] \in AppRecord
  BY <1>2, NormalizedTyped
<1>4. c = [i \in 1..n |-> [app |-> Normalized[i], paused |-> Suspended(a, Normalized[i])]]
  BY <1>1, <1>3 DEF Chosen, Suspended
<1>5. \A app : Suspended(a, app) \in BOOLEAN
  BY DEF Suspended
<1>6. \A i \in 1..n : c[i] = [app |-> Normalized[i], paused |-> Suspended(a, Normalized[i])]
  BY <1>4
<1>7. \A i \in 1..n : c[i] \in Item
  <2> SUFFICES ASSUME NEW i \in 1..n PROVE c[i] \in Item
    OBVIOUS
  <2>1. PICK b \in BOOLEAN : b = Suspended(a, Normalized[i])
    BY <1>5
  <2>2. PICK app : app = Normalized[i]
    OBVIOUS
  <2>3. c[i] = [app |-> app, paused |-> b]
    BY <2>1, <2>2, <1>6
  <2>4. app \in AppRecord
    BY <2>2, <1>3
  <2> QED
    BY <2>1, <2>3, <2>4 DEF Item
<1>8. c \in [1..n -> Item]
  BY <1>4, <1>7
<1>9. c \in Seq(Item) /\ Len(c) = n
  BY <1>3, <1>8
<1> QED
  BY <1>1, <1>2, <1>6, <1>9

LEMMA StartsNext ==
  ASSUME RegistryOK(registered), NEW a \in ApplyRecord, NEW k \in Nat, k < Len(Normalized),
         StartedAll(a, registered, k), NEW item \in Item,
         item = Chosen(a.all, a.with)[k + 1], NEW after,
         after = AfterStart(item, Instances(item.app))
  PROVE  StartedAll(a, after, k) /\ StartedAll(a, after, k + 1)
<1>1. PICK m, app : m = k + 1 /\ app = Normalized[m]
  OBVIOUS
<1>2. m \in 1..Len(Normalized) /\ k = m - 1 /\ app \in AppRecord
  BY <1>1, NormalizedTyped
<1>3. item = [app |-> app, paused |-> Suspended(a, app)]
  BY <1>1, <1>2, ChosenTyped
<1>4. item.app = app /\ item.paused = Suspended(a, app)
  BY <1>3
<1>5. StartedIn(after, app, Suspended(a, app))
  BY <1>4, StartsApp
<1>6. PICK names : names = Instances(item.app)
  OBVIOUS
<1>7. names \in SUBSET Instances(item.app) /\ after = AfterStart(item, names)
  BY <1>6
<1>8. ASSUME NEW i \in 1..m, Unique(Normalized[i])
      PROVE  StartedIn(after, Normalized[i], Suspended(a, Normalized[i]))
  <2>1. PICK own : own = Normalized[i]
    OBVIOUS
  <2>2. own \in AppRecord /\ i \in 1..Len(Normalized) /\ m \in DOMAIN Normalized
    BY <2>1, <1>2, NormalizedTyped
  <2>3. CASE own.name = app.name
    <3>1. app = own
      BY <2>1, <2>2, <2>3, <1>1, <1>8 DEF Unique
    <3> QED
      BY <3>1, <2>1, <1>5
  <2>4. CASE own.name # app.name
    <3>1. i \in 1..k
      <4>1. i # m
        BY <2>4, <2>1, <1>1
      <4> QED
        BY <4>1, <1>2
    <3>2. StartedIn(registered, own, Suspended(a, own))
      BY <3>1, <2>1, <1>8 DEF StartedAll
    <3>3. StartedIn(after, own, Suspended(a, own))
      BY <3>2, <2>2, <2>4, <1>4, <1>7, StartKeepsApp
    <3> QED
      BY <3>3, <2>1
  <2> QED
    BY <2>3, <2>4
<1>9. StartedAll(a, after, m)
  BY <1>8 DEF StartedAll
<1>10. \A i \in 1..k : i \in 1..m
  BY <1>2
<1>11. StartedAll(a, after, k)
  BY <1>8, <1>10 DEF StartedAll
<1> QED
  BY <1>1, <1>9, <1>11

(* The steps.                                                               *)
LEMMA IdleOK == ASSUME NEW reg PROVE ApplyOK(Idle, reg)
<1>1. Idle \in ApplyRecord
  <2>1. <<>> \in Seq(Item)
    BY EmptySeq
  <2> QED
    BY <2>1 DEF Idle, ApplyRecord
<1>2. Idle.pc = "idle"
  BY DEF Idle
<1> QED
  BY <1>1, <1>2 DEF ApplyOK, StartOK, SweepOK, EndOK, OthersOK

LEMMA ApplyStarts == ApplyInit => ApplyIInv
<1> SUFFICES ASSUME ApplyInit PROVE ApplyIInv
  OBVIOUS
<1>1. PICK order \in UNION {SetToSeqs(others) : others \in SUBSET Others} :
        registered = {[id |-> i, ns |-> order[i].ns, name |-> <<order[i].name, 0>>,
                       ours |-> FALSE, paused |-> FALSE] : i \in DOMAIN order}
  BY DEF ApplyInit
<1> PICK others \in SUBSET Others : order \in SetToSeqs(others)
  BY <1>1
<1>2. IsFiniteSet(others)
  BY ApplyAssumption, FS_Subset
<1>3. order \in Seq(others) /\ DOMAIN order = 1..Len(order) /\ Len(order) \in Nat
  BY <1>2, ListsAll
<1>4. \A i, j \in DOMAIN order : i # j => order[i] # order[j]
  BY <1>2, <1>3 DEF SetToSeqs
<1>5. PICK R : R = [ns : Nat, name : STRING]
  OBVIOUS
<1>6. \A i \in DOMAIN order : order[i] \in R
  BY <1>3, <1>5, ApplyAssumption
<1>7. PICK f : f = [i \in DOMAIN order |->
        [id |-> i, ns |-> order[i].ns, name |-> <<order[i].name, 0>>, ours |-> FALSE,
         paused |-> FALSE]]
  OBVIOUS
<1>8. registered = {f[i] : i \in DOMAIN order}
  BY <1>1, <1>7
<1>9. ASSUME NEW i \in DOMAIN order
      PROVE  /\ f[i] \in TaskRecord /\ f[i].id = i /\ f[i].ns = order[i].ns
             /\ f[i].name = <<order[i].name, 0>>
  <2>1. PICK o : o = order[i]
    OBVIOUS
  <2>2. o.ns \in Nat /\ o.name \in STRING /\ i \in Nat \ {0}
    BY <2>1, <1>3, <1>5, <1>6
  <2>3. PICK s, n : s = o.ns /\ n = <<o.name, 0>>
    OBVIOUS
  <2>4. s \in Nat /\ n \in STRING \X Nat
    BY <2>2, <2>3
  <2>5. PICK t : t = f[i]
    OBVIOUS
  <2>6. t = [id |-> i, ns |-> s, name |-> n, ours |-> FALSE, paused |-> FALSE]
    BY <2>1, <2>3, <2>5, <1>7
  <2>7. t \in TaskRecord
    BY <2>2, <2>4, <2>6 DEF TaskRecord
  <2> QED
    BY <2>1, <2>3, <2>5, <2>6, <2>7
<1>10. ASSUME NEW i \in DOMAIN order, NEW j \in DOMAIN order, i # j PROVE Differ(f[i], f[j])
  <2>1. PICK p, q : p = order[i] /\ q = order[j]
    OBVIOUS
  <2>2. p \in R /\ q \in R /\ p # q
    BY <2>1, <1>4, <1>6, <1>10
  <2>3. p.ns # q.ns \/ p.name # q.name
    BY <2>2, <1>5
  <2> QED
    BY <2>1, <2>3, <1>9, <1>10 DEF Differ
<1>11. IsFiniteSet(DOMAIN order)
  BY <1>3, FS_Interval
<1>12. IsFiniteSet(registered)
  <2>1. f \in [DOMAIN order -> registered] /\ \A t \in registered : \E i \in DOMAIN order : f[i] = t
    BY <1>7, <1>8
  <2> QED
    BY <2>1, <1>11, ImageIsFinite
<1>13. RegistryOK(registered)
  BY <1>8, <1>9, <1>10, <1>12 DEF RegistryOK
<1>14. apply = Idle
  BY DEF ApplyInit
<1>15. ApplyOK(apply, registered)
  BY <1>14, IdleOK
<1> QED
  BY <1>13, <1>15 DEF ApplyIInv

LEMMA ApplyIInvThen == RegistryOK(registered') /\ ApplyOK(apply', registered') => ApplyIInv'
BY DEF ApplyIInv

\* An invocation that goes on somewhere else.
LEMMA Going ==
  ASSUME NEW a \in ApplyRecord, NEW pc \in {"resolve", "load", "start", "forget", "sweep", "ended"},
         NEW q \in Seq(Item), NEW error \in BOOLEAN, NEW b,
         b = [a EXCEPT !.pc = pc, !.error = error, !.queue = q]
  PROVE  /\ b \in ApplyRecord /\ b.pc = pc /\ b.error = error /\ b.queue = q
         /\ b.delete = a.delete /\ b.all = a.all /\ b.with = a.with /\ b.single = a.single
         /\ b.before = a.before
BY DEF ApplyRecord

LEMMA OthersCarry ==
  ASSUME NEW a, NEW b, a.pc # "idle", b.before = a.before, b.delete = a.delete, NEW reg,
         OthersOK(a, reg)
  PROVE  OthersOK(b, reg)
BY DEF OthersOK

LEMMA Failing ==
  ASSUME NEW a \in ApplyRecord, a.pc # "idle", NEW reg, OthersOK(a, reg), NEW b,
         b = [a EXCEPT !.pc = "ended", !.error = TRUE, !.queue = <<>>]
  PROVE  ApplyOK(b, reg)
<1>1. <<>> \in Seq(Item)
  BY EmptySeq
<1>2. /\ b \in ApplyRecord /\ b.pc = "ended" /\ b.error /\ b.before = a.before
      /\ b.delete = a.delete
  BY <1>1 DEF ApplyRecord
<1> QED
  BY <1>2, OthersCarry DEF ApplyOK, StartOK, SweepOK, EndOK

LEMMA EndsFails ==
  ASSUME ApplyIInv, apply.pc # "idle", Ends(TRUE), RegistryOK(registered'),
         OthersOK(apply, registered')
  PROVE  ApplyIInv'
<1>1. apply \in ApplyRecord /\ apply' = [apply EXCEPT !.pc = "ended", !.error = TRUE, !.queue = <<>>]
  BY DEF ApplyIInv, ApplyOK, Ends
<1> QED
  BY <1>1, Failing, ApplyIInvThen

LEMMA BeforeKeeps ==
  ASSUME ApplyIInv, Invoke \/ Cached \/ Download \/ Killed
  PROVE  ApplyIInv'
<1>1. /\ RegistryOK(registered) /\ apply \in ApplyRecord /\ OthersOK(apply, registered)
      /\ registered' = registered
  BY DEF ApplyIInv, ApplyOK, Invoke, Cached, Download, Killed
<1>2. CASE Killed
  BY <1>1, <1>2, IdleOK, ApplyIInvThen DEF Killed
<1>3. CASE Invoke
  <2>1. PICK remote \in BOOLEAN, delete \in BOOLEAN, all \in BOOLEAN, single \in BOOLEAN,
             with \in {{}} \union {{w} : w \in Words} :
          apply' = [Idle EXCEPT !.pc = IF remote THEN "resolve" ELSE "load", !.remote = remote,
                                !.delete = delete, !.all = all, !.single = single, !.with = with,
                                !.before = registered]
    BY <1>3 DEF Invoke
  <2>2. PICK pc : pc = IF remote THEN "resolve" ELSE "load"
    OBVIOUS
  <2>3. Idle \in ApplyRecord
    BY IdleOK DEF ApplyOK
  <2>4. registered \in SUBSET TaskRecord /\ with \in SUBSET Words /\ pc \in {"resolve", "load"}
    BY <1>1, <2>2 DEF RegistryOK
  <2>5. apply' = [Idle EXCEPT !.pc = pc, !.remote = remote, !.delete = delete, !.all = all,
                    !.single = single, !.with = with, !.before = registered]
    BY <2>1, <2>2
  <2>6. apply' \in ApplyRecord /\ apply'.pc = pc /\ apply'.before = registered
    <3>1. PICK z, r, b : z = Idle /\ r = registered /\ b = apply'
      OBVIOUS
    <3>2. b = [z EXCEPT !.pc = pc, !.remote = remote, !.delete = delete, !.all = all,
                        !.single = single, !.with = with, !.before = r]
      BY <2>5, <3>1
    <3>3. z \in ApplyRecord
      BY <2>3, <3>1
    <3>4. b = [pc |-> pc, remote |-> remote, delete |-> delete, all |-> all, with |-> with,
               single |-> single, attempt |-> z.attempt, queue |-> z.queue, again |-> z.again,
               error |-> z.error, deleted |-> z.deleted, before |-> r]
      BY <3>2, <3>3 DEF ApplyRecord
    <3>5. /\ z.attempt \in Nat /\ z.queue \in Seq(Item) /\ z.again \in BOOLEAN
          /\ z.error \in BOOLEAN /\ z.deleted \in Nat
      BY <3>3 DEF ApplyRecord
    <3>6. r \in SUBSET TaskRecord
      BY <2>4, <3>1
    <3>7. b \in ApplyRecord
      BY <3>4, <3>5, <3>6, <2>4 DEF ApplyRecord
    <3>8. b.pc = pc /\ b.before = r
      BY <3>4
    <3> QED
      BY <3>1, <3>7, <3>8
  <2>7. ApplyOK(apply', registered)
    BY <2>4, <2>6 DEF ApplyOK, StartOK, SweepOK, EndOK, OthersOK
  <2> QED
    BY <1>1, <2>7, ApplyIInvThen
<1>4. CASE (Cached \/ Download) /\ apply' = [apply EXCEPT !.pc = "load"]
  <2>1. /\ apply' \in ApplyRecord /\ apply'.pc = "load" /\ apply'.before = apply.before
        /\ apply'.delete = apply.delete
    BY <1>1, <1>4 DEF ApplyRecord
  <2>2. apply.pc # "idle"
    BY <1>4 DEF Cached, Download
  <2>3. ApplyOK(apply', registered)
    BY <1>1, <2>1, <2>2, OthersCarry DEF ApplyOK, StartOK, SweepOK, EndOK
  <2> QED
    BY <1>1, <2>3, ApplyIInvThen
<1>5. CASE Download /\ Ends(TRUE)
  <2>1. apply.pc # "idle"
    BY <1>5 DEF Download
  <2> QED
    BY <2>1, <1>1, <1>5, EndsFails
<1>6. CASE Download /\ apply' = [apply EXCEPT !.attempt = @ + 1]
  <2>1. /\ apply' \in ApplyRecord /\ apply'.pc = apply.pc /\ apply'.before = apply.before
        /\ apply'.delete = apply.delete
    BY <1>1, <1>6 DEF ApplyRecord
  <2>2. apply.pc = "resolve"
    BY <1>6 DEF Download
  <2>3. ApplyOK(apply', registered)
    BY <1>1, <2>1, <2>2, OthersCarry DEF ApplyOK, StartOK, SweepOK, EndOK
  <2> QED
    BY <1>1, <2>3, ApplyIInvThen
<1> QED
  BY <1>2, <1>3, <1>4, <1>5, <1>6 DEF Cached, Download

LEMMA LoadKeeps == ASSUME ApplyIInv, Load PROVE ApplyIInv'
<1>1. /\ RegistryOK(registered) /\ apply \in ApplyRecord /\ OthersOK(apply, registered)
      /\ registered' = registered /\ apply.pc = "load"
  BY DEF ApplyIInv, ApplyOK, Load
<1>2. CASE Ends(TRUE)
  BY <1>1, <1>2, EndsFails
<1>3. CASE apply.delete /\ Goes("forget", <<>>)
  <2>1. PICK q : q = <<>>
    OBVIOUS
  <2>2. q \in Seq(Item)
    BY <2>1, EmptySeq
  <2>3. apply' = [apply EXCEPT !.pc = "forget", !.queue = q]
    BY <1>3, <2>1 DEF Goes
  <2>4. /\ apply' \in ApplyRecord /\ apply'.pc = "forget" /\ apply'.before = apply.before
        /\ apply'.delete = apply.delete
    BY <1>1, <2>2, <2>3 DEF ApplyRecord
  <2>5. ApplyOK(apply', registered)
    BY <1>1, <1>3, <2>4, OthersCarry DEF ApplyOK, StartOK, SweepOK, EndOK
  <2> QED
    BY <1>1, <2>5, ApplyIInvThen
<1>4. ASSUME ~apply.delete, NEW q \in Seq(Item), Goes("start", q),
             apply.single \/ q = Chosen(apply.all, apply.with)
      PROVE  ApplyIInv'
  <2>1. apply' = [apply EXCEPT !.pc = "start", !.queue = q]
    BY <1>4 DEF Goes
  <2>2. /\ apply' \in ApplyRecord /\ apply'.pc = "start" /\ apply'.before = apply.before
        /\ apply'.delete = apply.delete /\ apply'.queue = q /\ apply'.single = apply.single
        /\ apply'.all = apply.all /\ apply'.with = apply.with
    BY <1>1, <1>4, <2>1 DEF ApplyRecord
  <2>3. ASSUME ~apply'.single
        PROVE  /\ Len(apply'.queue) <= Len(Normalized) /\ StartedAll(apply', registered, Sent(apply'))
               /\ \A j \in 1..Len(apply'.queue) :
                    apply'.queue[j] = Chosen(apply'.all, apply'.with)[Sent(apply') + j]
    <3>1. q = Chosen(apply'.all, apply'.with)
      BY <1>4, <2>2, <2>3
    <3>2. PICK n : n = Len(Normalized)
      OBVIOUS
    <3>3. Len(q) = n /\ n \in Nat
      BY <1>1, <1>4, <2>2, <2>3, <3>2, ChosenTyped, NormalizedTyped
    <3>4. Sent(apply') = 0
      BY <2>2, <3>2, <3>3 DEF Sent
    <3>5. StartedAll(apply', registered, 0)
      BY DEF StartedAll
    <3>6. \A j \in 1..n : q[j] = Chosen(apply'.all, apply'.with)[0 + j]
      BY <3>1
    <3> QED
      BY <2>2, <3>2, <3>3, <3>4, <3>5, <3>6
  <2>4. StartOK(apply', registered)
    BY <1>4, <2>2, <2>3 DEF StartOK
  <2>5. ApplyOK(apply', registered)
    BY <1>1, <2>2, <2>4, OthersCarry DEF ApplyOK, SweepOK, EndOK
  <2> QED
    BY <1>1, <2>5, ApplyIInvThen
<1>5. ASSUME NEW app \in SingleChoices, ~apply.delete, apply.single,
             Goes("start", <<[app |-> app, paused |-> FALSE]>>)
      PROVE  ApplyIInv'
  <2>1. app \in AppRecord
    BY NormalizedTyped DEF SingleChoices, ToSet
  <2>2. [app |-> app, paused |-> FALSE] \in Item
    BY <2>1 DEF Item
  <2>3. <<[app |-> app, paused |-> FALSE]>> \in Seq(Item)
    BY <2>2
  <2> QED
    BY <2>3, <1>4, <1>5
<1>6. CASE ~apply.delete /\ Goes("start", Chosen(apply.all, apply.with))
  BY <1>1, <1>4, <1>6, ChosenTyped
<1> QED
  BY <1>2, <1>3, <1>5, <1>6 DEF Load

LEMMA FirstOfTyped ==
  ASSUME NEW app, NEW names \in FirstOf(app) PROVE names \in SUBSET Instances(app)
BY DEF FirstOf

LEMMA SendStartKeeps == ASSUME ApplyIInv, SendStart PROVE ApplyIInv'
<1>1. /\ RegistryOK(registered) /\ apply \in ApplyRecord /\ OthersOK(apply, registered)
      /\ apply.pc = "start" /\ apply.queue # <<>> /\ StartOK(apply, registered)
  BY DEF ApplyIInv, ApplyOK, SendStart
<1>2. PICK item, q : item = Head(apply.queue) /\ q = apply.queue
  OBVIOUS
<1>3. q \in Seq(Item) /\ q # <<>>
  BY <1>1, <1>2 DEF ApplyRecord
<1>4. /\ item \in Item /\ item = q[1] /\ Len(q) \in Nat /\ Len(q) >= 1
      /\ Tail(q) \in Seq(Item) /\ Len(Tail(q)) = Len(q) - 1
      /\ \A j \in 1..Len(Tail(q)) : Tail(q)[j] = q[j + 1]
  BY <1>2, <1>3
<1>5. CASE UNCHANGED registered /\ Ends(TRUE)
  BY <1>1, <1>5, EndsFails
<1>6. ASSUME NEW names \in FirstOf(item.app), ~RefusedStart(item.app, names),
             registered' = AfterStart(item, names), Ends(TRUE)
      PROVE  ApplyIInv'
  <2>1. names \in SUBSET Instances(item.app)
    BY FirstOfTyped
  <2>2. RegistryOK(registered')
    BY <1>1, <1>4, <1>6, <2>1, StartKeepsRegistry
  <2>3. OthersOK(apply, registered')
    BY <1>1, <1>4, <1>6, <2>1, StartKeepsOthers
  <2> QED
    BY <1>1, <1>6, <2>2, <2>3, EndsFails
<1>7. ASSUME ~RefusedStart(item.app, Instances(item.app)),
             registered' = AfterStart(item, Instances(item.app)),
             apply' = [apply EXCEPT !.again = ~@, !.queue = IF apply.again THEN Tail(@) ELSE @]
      PROVE  ApplyIInv'
  <2>1. PICK names : names = Instances(item.app)
    OBVIOUS
  <2>2. /\ names \in SUBSET Instances(item.app) /\ registered' = AfterStart(item, names)
        /\ ~RefusedStart(item.app, names)
    BY <2>1, <1>7
  <2>3. RegistryOK(registered')
    BY <1>1, <1>4, <2>2, StartKeepsRegistry
  <2>4. OthersOK(apply, registered')
    BY <1>1, <1>4, <2>2, StartKeepsOthers
  <2>5. PICK rest, again : rest = (IF apply.again THEN Tail(q) ELSE q) /\ again = ~apply.again
    OBVIOUS
  <2>6. rest \in Seq(Item) /\ again \in BOOLEAN
    BY <1>3, <1>4, <2>5
  <2>7. apply' = [apply EXCEPT !.again = again, !.queue = rest]
    BY <1>7, <1>2, <1>1, <2>5 DEF ApplyRecord
  <2>8. /\ apply' \in ApplyRecord /\ apply'.pc = "start" /\ apply'.queue = rest
        /\ apply'.delete = apply.delete /\ apply'.all = apply.all /\ apply'.with = apply.with
        /\ apply'.single = apply.single /\ apply'.before = apply.before
    BY <1>1, <2>6, <2>7 DEF ApplyRecord
  <2>9. ASSUME ~apply.single
        PROVE  /\ Len(apply'.queue) <= Len(Normalized)
               /\ StartedAll(apply', registered', Sent(apply'))
               /\ \A j \in 1..Len(apply'.queue) :
                    apply'.queue[j] = Chosen(apply'.all, apply'.with)[Sent(apply') + j]
    <3>1. PICK n, m, k, c : /\ n = Len(Normalized) /\ m = Len(q) /\ k = n - m
                           /\ c = Chosen(apply.all, apply.with)
      OBVIOUS
    <3>2. /\ n \in Nat /\ m \in Nat /\ m >= 1 /\ m <= n /\ k \in Nat /\ k < n
      BY <1>1, <1>2, <1>4, <2>9, <3>1, NormalizedTyped DEF StartOK
    <3>3. StartedAll(apply, registered, k) /\ \A j \in 1..m : q[j] = c[k + j]
      BY <1>1, <1>2, <2>9, <3>1 DEF StartOK, Sent
    <3>4. item = c[k + 1]
      BY <3>2, <3>3, <1>4
    <3>5. StartedAll(apply, registered', k) /\ StartedAll(apply, registered', k + 1)
      BY <1>1, <1>4, <1>7, <3>1, <3>2, <3>3, <3>4, StartsNext
    <3>6. \A i : StartedAll(apply', registered', i) <=> StartedAll(apply, registered', i)
      BY <2>8 DEF StartedAll, Suspended
    <3>7. CASE apply.again
      <4>1. PICK p : p = k + 1
        OBVIOUS
      <4>2. Len(rest) = m - 1 /\ Sent(apply') = p /\ \A j \in 1..(m - 1) : rest[j] = q[j + 1]
        BY <3>1, <3>2, <3>7, <4>1, <1>4, <2>5, <2>8 DEF Sent
      <4>3. \A j \in 1..(m - 1) : rest[j] = c[p + j]
        <5> SUFFICES ASSUME NEW j \in 1..(m - 1) PROVE rest[j] = c[p + j]
          OBVIOUS
        <5>1. PICK i : i = j + 1
          OBVIOUS
        <5>2. i \in 1..m /\ k + i = p + j
          BY <3>2, <4>1, <5>1
        <5>3. rest[j] = q[i]
          BY <4>2, <5>1
        <5> QED
          BY <3>3, <5>2, <5>3
      <4>4. StartedAll(apply', registered', p)
        BY <3>5, <3>6, <4>1
      <4> QED
        BY <2>8, <3>1, <3>2, <4>2, <4>3, <4>4
    <3>8. CASE ~apply.again
      <4>1. Len(rest) = m /\ Sent(apply') = k /\ rest = q
        BY <3>1, <3>8, <2>5, <2>8 DEF Sent
      <4> QED
        BY <2>8, <3>1, <3>2, <3>3, <3>5, <3>6, <4>1
    <3> QED
      BY <3>7, <3>8
  <2>10. ~apply.delete
    BY <1>1 DEF StartOK
  <2>11. StartOK(apply', registered')
    BY <2>8, <2>9, <2>10 DEF StartOK
  <2>12. ApplyOK(apply', registered')
    BY <1>1, <2>4, <2>8, <2>11, OthersCarry DEF ApplyOK, SweepOK, EndOK
  <2> QED
    BY <2>3, <2>12, ApplyIInvThen
<1> QED
  BY <1>2, <1>5, <1>6, <1>7 DEF SendStart

LEMMA RegisterWorkflowsKeeps == ASSUME ApplyIInv, RegisterWorkflows PROVE ApplyIInv'
<1>1. /\ RegistryOK(registered) /\ apply \in ApplyRecord /\ OthersOK(apply, registered)
      /\ apply.pc = "start" /\ apply.queue = <<>> /\ StartOK(apply, registered)
      /\ registered' = registered
  BY DEF ApplyIInv, ApplyOK, RegisterWorkflows
<1>2. CASE Ends(TRUE)
  BY <1>1, <1>2, EndsFails
<1>3. CASE Ends(FALSE)
  <2>1. PICK q : q = <<>>
    OBVIOUS
  <2>2. q \in Seq(Item)
    BY <2>1, EmptySeq
  <2>3. apply' = [apply EXCEPT !.pc = "ended", !.error = FALSE, !.queue = q]
    BY <1>3, <2>1 DEF Ends
  <2>4. /\ apply' \in ApplyRecord /\ apply'.pc = "ended" /\ apply'.before = apply.before
        /\ apply'.delete = apply.delete /\ apply'.single = apply.single
        /\ apply'.all = apply.all /\ apply'.with = apply.with
    BY <1>1, <2>2, <2>3 DEF ApplyRecord
  <2>5. ASSUME ~apply.single PROVE StartedAll(apply, registered, Len(Normalized))
    <3>1. Sent(apply) = Len(Normalized)
      BY <1>1, NormalizedTyped DEF Sent
    <3> QED
      BY <3>1, <1>1, <2>5 DEF StartOK
  <2>6. \A i : StartedAll(apply', registered, i) <=> StartedAll(apply, registered, i)
    BY <2>4 DEF StartedAll, Suspended
  <2>7. ~apply.delete
    BY <1>1 DEF StartOK
  <2>8. EndOK(apply', registered)
    BY <2>4, <2>5, <2>6, <2>7 DEF EndOK
  <2>9. ApplyOK(apply', registered)
    BY <1>1, <2>4, <2>8, OthersCarry DEF ApplyOK, StartOK, SweepOK
  <2> QED
    BY <1>1, <2>9, ApplyIInvThen
<1> QED
  BY <1>2, <1>3 DEF RegisterWorkflows

LEMMA ForgetWorkflowsKeeps == ASSUME ApplyIInv, ForgetWorkflows PROVE ApplyIInv'
<1>1. /\ RegistryOK(registered) /\ apply \in ApplyRecord /\ OthersOK(apply, registered)
      /\ apply.pc = "forget" /\ apply.delete /\ registered' = registered
  BY DEF ApplyIInv, ApplyOK, SweepOK, ForgetWorkflows
<1>2. PICK n, s : n = Len(Normalized) /\ s = Normalized
  OBVIOUS
<1>3. n \in Nat /\ DOMAIN s = 1..n /\ \A i \in 1..n : s[i] \in AppRecord
  BY <1>2, NormalizedTyped
<1>4. PICK q : q = [i \in 1..n |-> [app |-> s[i], paused |-> FALSE]]
  OBVIOUS
<1>5. \A i \in 1..n : q[i] \in Item /\ q[i].app = s[i]
  BY <1>3, <1>4 DEF Item
<1>6. q \in [1..n -> Item]
  BY <1>4, <1>5
<1>7. q \in Seq(Item) /\ Len(q) = n
  BY <1>3, <1>6
<1>8. apply' = [apply EXCEPT !.pc = "sweep", !.queue = q]
  BY <1>2, <1>3, <1>4 DEF ForgetWorkflows
<1>9. /\ apply' \in ApplyRecord /\ apply'.pc = "sweep" /\ apply'.before = apply.before
      /\ apply'.delete = apply.delete /\ apply'.queue = q
  BY <1>1, <1>7, <1>8 DEF ApplyRecord
<1>10. Sent(apply') = 0
  BY <1>2, <1>3, <1>7, <1>9 DEF Sent
<1>11. GoneAll(registered, 0)
  BY DEF GoneAll
<1>12. \A j \in 1..n : q[j].app = s[0 + j]
  BY <1>5
<1>13. SweepOK(apply', registered)
  BY <1>1, <1>2, <1>3, <1>7, <1>9, <1>10, <1>11, <1>12 DEF SweepOK
<1>14. ApplyOK(apply', registered)
  BY <1>1, <1>9, <1>13, OthersCarry DEF ApplyOK, StartOK, EndOK
<1> QED
  BY <1>1, <1>14, ApplyIInvThen

(* What a sweep removes.                                                    *)
LEMMA FewerOK == ASSUME NEW reg, RegistryOK(reg), NEW S PROVE RegistryOK(reg \ S)
BY FS_Subset DEF RegistryOK

LEMMA AddressedIs ==
  ASSUME NEW app
  PROVE  /\ \A t \in Addressed(app) : Reached(app, t)
         /\ \A t \in registered :
              (t.ns = app.ns /\ t.name = <<app.name, 0>>) => t \in Addressed(app)
BY DEF Addressed, Reached

LEMMA NextPlace ==
  ASSUME NEW k \in Nat, NEW m \in Nat, NEW j \in 1..(m - 1)
  PROVE  j + 1 \in 1..m /\ k + (j + 1) = (k + 1) + j
OBVIOUS

LEMMA SweepKeeps == ASSUME ApplyIInv, Sweep PROVE ApplyIInv'
<1>1. /\ RegistryOK(registered) /\ apply \in ApplyRecord /\ OthersOK(apply, registered)
      /\ apply.pc = "sweep" /\ apply.delete /\ SweepOK(apply, registered)
  BY DEF ApplyIInv, ApplyOK, SweepOK, Sweep
<1>2. PICK n, q, m : n = Len(Normalized) /\ q = apply.queue /\ m = Len(q)
  OBVIOUS
<1>3. q \in Seq(Item) /\ n \in Nat /\ m \in Nat /\ m <= n
  BY <1>1, <1>2, NormalizedTyped DEF ApplyRecord, SweepOK
<1>4. PICK k : k = n - m
  OBVIOUS
<1>5. k \in Nat /\ k <= n /\ Sent(apply) = k
  BY <1>2, <1>3, <1>4 DEF Sent
<1>6. GoneAll(registered, k) /\ \A j \in 1..m : q[j].app = Normalized[k + j]
  BY <1>1, <1>2, <1>5 DEF SweepOK
<1>7. CASE q = <<>> /\ Ends(apply.deleted = 0) /\ UNCHANGED registered
  <2>1. PICK error \in BOOLEAN : error = (apply.deleted = 0)
    OBVIOUS
  <2>2. apply' = [apply EXCEPT !.pc = "ended", !.error = error, !.queue = q]
    BY <1>7, <2>1 DEF Ends
  <2>3. /\ apply' \in ApplyRecord /\ apply'.pc = "ended" /\ apply'.before = apply.before
        /\ apply'.delete = apply.delete
    BY <1>1, <1>3, <2>1, <2>2 DEF ApplyRecord
  <2>4. k = n
    BY <1>2, <1>3, <1>4, <1>7
  <2>5. GoneAll(registered, Len(Normalized))
    BY <1>2, <1>6, <2>4
  <2>6. EndOK(apply', registered)
    BY <1>1, <2>3, <2>5 DEF EndOK
  <2>7. ApplyOK(apply', registered)
    BY <1>1, <2>3, <2>6, OthersCarry DEF ApplyOK, StartOK, SweepOK
  <2> QED
    BY <1>1, <1>7, <2>7, ApplyIInvThen
<1>8. CASE q # <<>>
  <2>1. PICK p, app, found : p = k + 1 /\ app = Normalized[p] /\ found = Addressed(Head(q).app)
    OBVIOUS
  <2>2. /\ m >= 1 /\ Head(q) = q[1] /\ Tail(q) \in Seq(Item) /\ Len(Tail(q)) = m - 1
        /\ \A j \in 1..(m - 1) : Tail(q)[j] = q[j + 1]
    BY <1>2, <1>3, <1>8
  <2>3. p \in 1..n /\ p \in DOMAIN Normalized /\ found = Addressed(app)
    <3>1. p \in 1..n
      BY <1>3, <1>4, <2>1, <2>2
    <3>2. p \in DOMAIN Normalized
      BY <3>1, <1>2, NormalizedTyped
    <3>3. 1 \in 1..m
      BY <1>3, <2>2
    <3>4. q[1].app = app
      BY <3>3, <1>6, <2>1
    <3> QED
      BY <3>1, <3>2, <3>4, <2>1, <2>2
  <2>4. /\ \A t \in found : Reached(app, t)
        /\ \A t \in registered : (t.ns = app.ns /\ t.name = <<app.name, 0>>) => t \in found
    BY <2>3, AddressedIs
  <2>5. PICK fewer : fewer = registered \ found
    OBVIOUS
  <2>6. RegistryOK(fewer)
    BY <1>1, <2>5, FewerOK
  <2>7. OthersOK(apply, fewer)
    BY <1>1, <2>1, <2>3, <2>4, <2>5 DEF OthersOK
  <2>8. CASE registered' \in {registered, registered \ found} /\ Ends(TRUE)
    BY <1>1, <2>5, <2>6, <2>7, <2>8, EndsFails
  <2>9. CASE /\ registered' = registered \ found
             /\ apply' = [apply EXCEPT !.queue = Tail(@),
                                       !.deleted = @ + IF found = {} THEN 0 ELSE 1]
    <3>1. PICK rest, d : rest = Tail(q) /\ d = apply.deleted + IF found = {} THEN 0 ELSE 1
      OBVIOUS
    <3>2. d \in Nat /\ rest \in Seq(Item)
      BY <1>1, <2>2, <3>1 DEF ApplyRecord
    <3>3. apply' = [apply EXCEPT !.queue = rest, !.deleted = d]
      BY <1>1, <1>2, <2>9, <3>1 DEF ApplyRecord
    <3>4. /\ apply' \in ApplyRecord /\ apply'.pc = "sweep" /\ apply'.before = apply.before
          /\ apply'.delete = apply.delete /\ apply'.queue = rest
      BY <1>1, <3>2, <3>3 DEF ApplyRecord
    <3>5. Len(rest) = m - 1 /\ Len(rest) <= n /\ Sent(apply') = p
      <4>1. Len(rest) = m - 1
        BY <2>2, <3>1
      <4>2. Sent(apply') = n - (m - 1)
        BY <4>1, <1>2, <3>4 DEF Sent
      <4>3. m - 1 <= n /\ n - (m - 1) = p
        BY <1>3, <1>4, <2>1
      <4> QED
        BY <4>1, <4>2, <4>3
    <3>6. \A j \in 1..(m - 1) : rest[j].app = Normalized[p + j]
      <4> SUFFICES ASSUME NEW j \in 1..(m - 1) PROVE rest[j].app = Normalized[p + j]
        OBVIOUS
      <4>1. PICK i : i = j + 1
        OBVIOUS
      <4>2. k \in Nat /\ m \in Nat
        BY <1>3, <1>5
      <4>3. i \in 1..m /\ k + i = p + j
        BY <2>1, <4>1, <4>2, NextPlace
      <4>4. rest[j] = q[i]
        BY <2>2, <3>1, <4>1
      <4> QED
        BY <4>2, <4>3, <4>4, <1>6
    <3>7. GoneAll(fewer, p)
      <4> SUFFICES ASSUME NEW i \in 1..p, Normalized[i].n = 1, NEW t \in fewer
                   PROVE  ~Mine(t, Normalized[i])
        BY DEF GoneAll
      <4>1. CASE i = p
        <5>1. Instances(app) = {<<app.name, 0>>}
          BY <2>1, <4>1 DEF Instances
        <5>2. ~(t.ns = app.ns /\ t.name = <<app.name, 0>>)
          BY <2>4, <2>5
        <5> QED
          BY <5>1, <5>2, <2>1, <4>1 DEF Mine
      <4>2. CASE i # p
        <5>1. i \in 1..k /\ t \in registered
          BY <1>5, <2>1, <2>5, <4>2
        <5> QED
          BY <5>1, <1>6 DEF GoneAll
      <4> QED
        BY <4>1, <4>2
    <3>8. SweepOK(apply', fewer)
      BY <1>1, <1>2, <3>4, <3>5, <3>6, <3>7 DEF SweepOK
    <3>9. ApplyOK(apply', fewer)
      BY <1>1, <2>7, <3>4, <3>8, OthersCarry DEF ApplyOK, StartOK, EndOK
    <3> QED
      BY <2>5, <2>6, <2>9, <3>9, ApplyIInvThen
  <2> QED
    BY <1>2, <1>8, <2>1, <2>8, <2>9 DEF Sweep
<1> QED
  BY <1>2, <1>7, <1>8 DEF Sweep

LEMMA DoneKeeps == ASSUME ApplyIInv, Done PROVE ApplyIInv'
<1>1. RegistryOK(registered) /\ apply' = Idle
  BY DEF ApplyIInv, Done
<1>2. ASSUME NEW t \in registered, registered' = (registered \ {t}) \union {[t EXCEPT !.paused = ~@]}
      PROVE  RegistryOK(registered')
  <2>1. PICK b, u : b = ~t.paused /\ u = [t EXCEPT !.paused = b]
    OBVIOUS
  <2>2. t \in TaskRecord /\ b \in BOOLEAN
    BY <1>1, <2>1 DEF RegistryOK
  <2>3. u \in TaskRecord /\ u.id = t.id /\ u.ns = t.ns /\ u.name = t.name
    BY <2>1, <2>2 DEF TaskRecord
  <2>4. [t EXCEPT !.paused = ~@] = u
    BY <2>1, <2>2 DEF TaskRecord
  <2>5. PICK rest : rest = registered \ {t}
    OBVIOUS
  <2>6. RegistryOK(rest)
    BY <1>1, <2>5, FewerOK
  <2>7. registered' = rest \union {u} /\ IsFiniteSet({u})
    BY <1>2, <2>4, <2>5, FS_Singleton
  <2>8. IsFiniteSet(registered')
    BY <2>6, <2>7, FS_Union DEF RegistryOK
  <2>9. \A v \in rest : Differ(v, u) /\ Differ(u, v)
    <3>1. \A v \in rest : Differ(v, t)
      BY <1>1, <2>5 DEF RegistryOK
    <3> QED
      BY <3>1, <2>3 DEF Differ
  <2>10. registered' \subseteq TaskRecord
    BY <2>3, <2>6, <2>7 DEF RegistryOK
  <2>11. \A v, w \in registered' : v # w => Differ(v, w)
    BY <2>6, <2>7, <2>9 DEF RegistryOK
  <2> QED
    BY <2>8, <2>10, <2>11 DEF RegistryOK
<1>3. RegistryOK(registered')
  BY <1>1, <1>2 DEF Done
<1> QED
  BY <1>1, <1>3, IdleOK, ApplyIInvThen

LEMMA ApplyStep == ApplyIInv /\ [ApplyNext]_applyVars => ApplyIInv'
<1> SUFFICES ASSUME ApplyIInv, [ApplyNext]_applyVars PROVE ApplyIInv'
  OBVIOUS
<1>1. CASE UNCHANGED applyVars
  <2>1. apply' = apply /\ registered' = registered
    BY <1>1 DEF applyVars
  <2> QED
    BY <2>1, ApplyIInvThen DEF ApplyIInv
<1> QED
  BY <1>1, BeforeKeeps, LoadKeeps, SendStartKeeps, RegisterWorkflowsKeeps,
     ForgetWorkflowsKeeps, SweepKeeps, DoneKeeps DEF ApplyNext

-------------------------------------------------------------------------------
(* The programs side by side.                                               *)

LEMMA PartsStart ==
  Init => /\ MonitorIInv /\ BoardIInv /\ BrowserIInv /\ SamplerIInv /\ AgentIInv
          /\ ApplyIInv /\ WizardIInv
BY MonitorStarts, BoardStarts, BrowserStarts, SamplerStarts, AgentStarts, ApplyStarts,
   WizardStarts DEF Init

LEMMA PartsStep ==
  ASSUME [Next]_vars
  PROVE  /\ [MonitorNext]_monitorVars /\ [BoardNext]_boardVars /\ [BrowserNext]_browserVars
         /\ [SamplerNext]_samplerVars /\ [AgentNext]_agentVars
         /\ [ApplyNext]_applyVars /\ [WizardNext]_wizardVars
<1>1. CASE UNCHANGED vars
  BY <1>1 DEF vars
<1>2. CASE Screens /\ UNCHANGED <<applyVars, wizardVars, samplerVars, agentVars>>
  BY <1>2 DEF Screens
<1>3. CASE Tools /\ UNCHANGED <<monitorVars, boardVars, browserVars>>
  BY <1>3 DEF Tools
<1> QED
  BY <1>1, <1>2, <1>3 DEF Next

(* Of any number of tasks, processes and files, and any answers that arrive *)
(* late or out of order: cursors are on rows that are there, the lists show *)
(* what was asked for, one chain of refreshes runs, nothing but the         *)
(* confirmed subject is killed, and no line of one log stands under the     *)
(* name of another (the three Update methods).                              *)
THEOREM ScreensAreUsable == Spec => []ScreensHold
<1> DEFINE Screened == MonitorIInv /\ BoardIInv /\ BrowserIInv
<1>1. Init => Screened
  BY PartsStart
<1>2. Screened /\ [Next]_vars => Screened'
  BY PartsStep, MonitorStep, BoardStep, BrowserStep
<1>3. Screened => ScreensHold
  BY MonitorHoldsThen, BoardHoldsThen, BrowserHoldsThen DEF ScreensHold
<1> QED
  BY <1>1, <1>2, <1>3, PTL DEF Spec

(* Neither a new order nor a refreshed list moves the monitor's cursor to   *)
(* another task than the one it was on, unless that task is gone            *)
(* (sortProcs, restoreCursor).                                              *)
THEOREM CursorKeepsItsTask == Spec => MonitorCursorStays
<1>1. Init => MonitorIInv
  BY PartsStart
<1>2. MonitorIInv /\ [Next]_vars => MonitorIInv'
  BY PartsStep, MonitorStep
<1> QED
  BY <1>1, <1>2, CursorStep, PTL DEF Spec, MonitorCursorStays

(* An `apply' that succeeds has registered every instance of every app with *)
(* a name of its own, the optional ones nobody asked for paused and the     *)
(* others not; a sweep that succeeds has left none of the file's apps of    *)
(* one instance, and deletes nothing but the tasks that have an app's key   *)
(* or the number an app's namespace begins with; whatever else fails, the   *)
(* tasks of other files stay as they were, and no two tasks share an ID or  *)
(* a key.  A dialog that is left leaves the ecosystem file as it was, and   *)
(* what is merged into a file keeps what was there and loads.  (RunTasks,   *)
(* deleteEcosystemApps, FindByTarget, WriteEcosystemFile)                   *)
THEOREM CommandsDoAsAsked == Spec => []CommandsHold
<1> DEFINE Commanded == ApplyIInv /\ WizardIInv
<1>1. Init => Commanded
  BY PartsStart
<1>2. Commanded /\ [Next]_vars => Commanded'
  BY PartsStep, ApplyStep, WizardStep
<1>3. Commanded => CommandsHold
  BY ApplyHoldsThen, WizardHoldsThen DEF CommandsHold
<1> QED
  BY <1>1, <1>2, <1>3, PTL DEF Spec

(* While no CPU counter is taken back the CPU figure is the machine's; no   *)
(* device is shown moving more than it moved, whatever happens to its       *)
(* counter; and a GPU reading mixes no two samples, is whole unless it was  *)
(* published at the end of powermetrics' output, and is counted once for a  *)
(* task, whatever order its processes are listed in and whatever cycle a    *)
(* table read mid-way holds (cpuFromDelta, rate, publish, BuildTasks).      *)
THEOREM FiguresAreMeasured == Spec => []FiguresHold
<1>1. Init => SamplerIInv /\ AgentIInv
  BY PartsStart
<1>2. SamplerIInv /\ AgentIInv /\ [Next]_vars => SamplerIInv' /\ AgentIInv'
  BY PartsStep, SamplerStep, AgentStep
<1>3. SamplerIInv /\ AgentIInv => FiguresHold
  BY ReadingsHoldThen DEF SamplerIInv, FiguresHold
<1> QED
  BY <1>1, <1>2, <1>3, PTL DEF Spec
===============================================================================
