---------------------- MODULE FileFanoutJournalProofs ----------------------
(***************************************************************************)
(* What the journal on file keeps, for every set of keys and marks, every  *)
(* threshold, any number of lines, deaths and torn lines, reads and writes *)
(* the disk refuses, and questions asked at any time.                      *)
(***************************************************************************)
EXTENDS FileFanoutJournal, FiniteSetTheorems, WellFoundedInduction, TLAPS

-----------------------------------------------------------------------------
(* The inductive invariant.                                                *)

RealLine == Line \ {Garbled}
Marks == Snapshots \cup {0}

\* What a mutation and a question remember at each point.
OpShape ==
  op \in {Rest} \cup [at : {"read", "change", "append"}, line : RealLine]
         \cup [at : {"fold"}, line : RealLine, raw : Seq(Line)]
         \cup [at : {"rename"}, line : RealLine, body : Seq(Line)]

AskerShape ==
  asker \in {Rest} \cup [at : {"read"}] \cup [at : {"fold"}, raw : Seq(Line)]

\* Nothing that has been acknowledged is about what the line changes.
InDoubt(l, p, f, b) ==
  IF l.op = "commit" THEN b = -1 ELSE l.key \notin p /\ l.key \notin f

Doubted == op # Rest => InDoubt(op.line, promised, forgiven, blessed)

\* A mutation that has not appended its line has been counted room for it.
Room == op.at \in {"read", "fold", "change", "append"} => appended < MaxLines

TypeInv == TypeOK /\ OpShape /\ AskerShape /\ Doubted /\ Room

\* A set of entries and a mark are as the line leaves them.
Agrees(l, es, m) ==
  CASE l.op = "record" -> l.key \in es
    [] l.op = "resolve" -> l.key \notin es
    [] OTHER -> m = l.mark

\* What a set of entries and a mark have wrong of what has been acknowledged.
WrongOf(p, f, b, es, m) ==
  Cardinality(p \ es) + Cardinality(f \cap es) + (IF b \in {-1, m} THEN 0 ELSE 1)

FileEntries == FoldedEntries({}, file)
FileMark == FoldedMark(0, file)

\* A line without its end will cost the next one.
Tearing == IF partial THEN 1 ELSE 0

FileWrong == WrongOf(promised, forgiven, blessed, FileEntries, FileMark)
MemoryWrong == WrongOf(promised, forgiven, blessed, entries, mark)

\* Nobody changes memory while a question reads the file, and what has been read is the
\* file as it is.
Turns ==
  /\ op = Rest \/ asker = Rest
  /\ op.at = "fold" => op.raw = ReadFile
  /\ asker.at = "fold" => asker.raw = ReadFile

\* Until the file has been read, memory is that of a new process.
Fresh == ~loaded \/ Loading => entries = {} /\ mark = 0 /\ lines = 0

\* A mutation is made in memory before it is in the file.
Mutating ==
  /\ op.at \in {"append", "rename"} => Agrees(op.line, entries, mark)
  /\ op.at = "rename" => op.body = Kept /\ ~partial

\* A memory that has been read is wrong about no more than the torn lines, and counts no
\* fewer lines than there are.
MemoryKept ==
  loaded /\ ~Loading => MemoryWrong + Tearing <= tears /\ Len(file) <= lines

\* The file is wrong about no more than the torn lines, whatever memory says; memory
\* answers for the file as long as the process is not blind, and only one that has read
\* the file can be.
JournalInv ==
  /\ TypeInv
  /\ FileWrong + Tearing <= tears
  /\ blind => loaded
  /\ ~blind => Turns /\ Fresh /\ Mutating /\ MemoryKept

-----------------------------------------------------------------------------
(* What folding lines does.                                                *)

\* A set of numbers with a bound has a greatest member.
LEMMA Greatest ==
  ASSUME NEW T \in SUBSET Nat, T # {}, NEW m \in Nat, \A x \in T : x <= m
  PROVE  \E x \in T : \A y \in T : y <= x
<1> DEFINE D == {m - x : x \in T}
<1>1. D \in SUBSET Nat /\ D # {}
  <2>1. \A x \in T : m - x \in Nat
    OBVIOUS
  <2> QED
    BY <2>1
<1>2. PICK d \in D : \A e \in D : ~ (<<e, d>> \in OpToRel(<, Nat))
  <2> HIDE DEF D
  <2> QED BY <1>1, NatLessThanWellFounded, WFMin
<1>3. PICK x \in T : d = m - x
  OBVIOUS
<1>4. ASSUME NEW y \in T PROVE y <= x
  <2>1. m - y \in D /\ m - y \in Nat /\ d \in Nat
    BY <1>1
  <2>2. ~ (m - y < d)
    BY <1>2, <2>1 DEF OpToRel
  <2> QED
    BY <2>2, <1>3
<1> QED
  BY <1>4

\* A line that parses records a key, resolves one, or moves the mark.
LEMMA LineCases ==
  /\ \A l \in RealLine :
       /\ l \in Line
       /\ \/ l.op = "record" /\ l.key \in Keys
          \/ l.op = "resolve" /\ l.key \in Keys
          \/ l.op = "commit" /\ l.mark \in Snapshots
  /\ Garbled \in Line /\ Garbled.op = "garbled"
BY DEF RealLine, Line, Garbled

\* Entries are keys, and the mark is one that was written.
LEMMA FoldType ==
  ASSUME NEW ls \in Seq(Line), NEW es \in SUBSET Keys, NEW m \in Marks
  PROVE  /\ FoldedEntries(es, ls) \in SUBSET Keys
         /\ FoldedMark(m, ls) \in Marks
<1>1. FoldedEntries(es, ls) \in SUBSET Keys
  BY DEF FoldedEntries
<1> DEFINE commits == {i \in DOMAIN ls : ls[i].op = "commit"}
<1>2. CASE commits = {}
  BY <1>1, <1>2 DEF FoldedMark, Marks
<1>3. CASE commits # {}
  <2>1. commits \in SUBSET Nat /\ Len(ls) \in Nat /\ \A i \in commits : i <= Len(ls)
    OBVIOUS
  <2>2. \E i \in commits : \A j \in commits : j <= i
    <3> HIDE DEF commits
    <3> QED BY <2>1, <1>3, Greatest
  <2>3. (CHOOSE i \in commits : \A j \in commits : j <= i) \in commits
    BY <2>2
  <2>4. \A i \in commits : ls[i] \in RealLine
    BY LineCases DEF RealLine
  <2>5. \A i \in commits : ls[i].mark \in Snapshots
    BY <2>4, LineCases
  <2> QED
    BY <1>1, <1>3, <2>3, <2>5 DEF FoldedMark, Marks
<1> QED
  BY <1>2, <1>3

\* One more line does to the entries what it does to memory.
LEMMA FoldEntry ==
  ASSUME NEW ls \in Seq(Line), NEW l \in Line
  PROVE  FoldedEntries({}, Append(ls, l)) = Keeping(FoldedEntries({}, ls), l)
<1> DEFINE more == Append(ls, l)
           About0(k) == {i \in DOMAIN ls : About(k, ls[i])}
           About1(k) == {i \in DOMAIN more : About(k, more[i])}
<1>1. /\ Len(ls) \in Nat /\ DOMAIN ls = 1 .. Len(ls)
      /\ DOMAIN more = 1 .. Len(ls) + 1
      /\ \A i \in 1 .. Len(ls) : more[i] = ls[i]
      /\ more[Len(ls) + 1] = l
  OBVIOUS
<1> HIDE DEF more
<1>2. ASSUME NEW k \in Keys, About(k, l)
      PROVE  k \in FoldedEntries({}, more) <=> l.op = "record"
  <2>1. Len(ls) + 1 \in About1(k) /\ \A j \in About1(k) : j <= Len(ls) + 1
    BY <1>1, <1>2
  <2>2. ASSUME NEW i \in About1(k), \A j \in About1(k) : j <= i
        PROVE  i = Len(ls) + 1
    BY <2>1, <2>2, <1>1
  <2>3. k \in FoldedEntries({}, more) <=>
          \E i \in About1(k) : more[i].op = "record" /\ \A j \in About1(k) : j <= i
    BY <2>1 DEF FoldedEntries
  <2> QED
    BY <2>1, <2>2, <2>3, <1>1
<1>3. ASSUME NEW k \in Keys, ~About(k, l)
      PROVE  k \in FoldedEntries({}, more) <=> k \in FoldedEntries({}, ls)
  <2>1. About1(k) = About0(k)
    BY <1>1, <1>3
  <2>2. k \in FoldedEntries({}, more) <=>
          /\ About1(k) # {}
          /\ \E i \in About1(k) : more[i].op = "record" /\ \A j \in About1(k) : j <= i
    BY DEF FoldedEntries
  <2>3. k \in FoldedEntries({}, ls) <=>
          /\ About0(k) # {}
          /\ \E i \in About0(k) : ls[i].op = "record" /\ \A j \in About0(k) : j <= i
    BY DEF FoldedEntries
  <2>4. \A i \in About0(k) : more[i] = ls[i]
    BY <1>1
  <2> QED
    BY <2>1, <2>2, <2>3, <2>4
<1>4. FoldedEntries({}, more) \subseteq Keys /\ FoldedEntries({}, ls) \subseteq Keys
  BY DEF FoldedEntries
<1>5. CASE l.op = "record"
  <2>1. l.key \in Keys /\ \A k \in Keys : About(k, l) <=> k = l.key
    BY <1>5, LineCases DEF About, RealLine
  <2>2. Keeping(FoldedEntries({}, ls), l) = FoldedEntries({}, ls) \cup {l.key}
    BY <1>5 DEF Keeping
  <2> QED
    BY <1>2, <1>3, <1>4, <1>5, <2>1, <2>2 DEF more
<1>6. CASE l.op = "resolve"
  <2>1. l.key \in Keys /\ \A k \in Keys : About(k, l) <=> k = l.key
    BY <1>6, LineCases DEF About, RealLine
  <2>2. Keeping(FoldedEntries({}, ls), l) = FoldedEntries({}, ls) \ {l.key}
    BY <1>6 DEF Keeping
  <2> QED
    BY <1>2, <1>3, <1>4, <1>6, <2>1, <2>2 DEF more
<1>7. CASE l.op \notin {"record", "resolve"}
  <2>1. \A k \in Keys : ~About(k, l)
    BY <1>7 DEF About
  <2>2. Keeping(FoldedEntries({}, ls), l) = FoldedEntries({}, ls)
    BY <1>7 DEF Keeping
  <2> QED
    BY <1>3, <1>4, <2>1, <2>2 DEF more
<1> QED
  BY <1>5, <1>6, <1>7

\* One more line moves the mark if it is a commit.
LEMMA FoldMark ==
  ASSUME NEW ls \in Seq(Line), NEW l \in Line
  PROVE  FoldedMark(0, Append(ls, l)) = IF l.op = "commit" THEN l.mark ELSE FoldedMark(0, ls)
<1> DEFINE more == Append(ls, l)
           commits0 == {i \in DOMAIN ls : ls[i].op = "commit"}
           commits1 == {i \in DOMAIN more : more[i].op = "commit"}
<1>1. /\ Len(ls) \in Nat /\ DOMAIN ls = 1 .. Len(ls)
      /\ DOMAIN more = 1 .. Len(ls) + 1
      /\ \A i \in 1 .. Len(ls) : more[i] = ls[i]
      /\ more[Len(ls) + 1] = l
  OBVIOUS
<1> HIDE DEF more
<1>2. CASE l.op = "commit"
  <2>1. Len(ls) + 1 \in commits1 /\ \A j \in commits1 : j <= Len(ls) + 1
    BY <1>1, <1>2
  <2>2. (CHOOSE i \in commits1 : \A j \in commits1 : j <= i) = Len(ls) + 1
    <3>1. \A i \in commits1 : (\A j \in commits1 : j <= i) => i = Len(ls) + 1
      BY <2>1, <1>1
    <3> HIDE DEF commits1
    <3> QED
      BY <3>1, <2>1
  <2>3. FoldedMark(0, more) = more[CHOOSE i \in commits1 : \A j \in commits1 : j <= i].mark
    BY <2>1 DEF FoldedMark
  <2> QED
    BY <1>1, <1>2, <2>2, <2>3 DEF more
<1>3. CASE l.op # "commit"
  <2>1. commits1 = commits0
    BY <1>1, <1>3
  <2>2. CASE commits0 = {}
    BY <2>1, <2>2, <1>3 DEF FoldedMark, more
  <2>3. CASE commits0 # {}
    <3>1. Len(ls) \in Nat /\ commits0 \in SUBSET Nat /\ \A i \in commits0 : i <= Len(ls)
      BY <1>1
    <3>2. \E i \in commits0 : \A j \in commits0 : j <= i
      <4> HIDE DEF commits0
      <4> QED BY <3>1, <2>3, Greatest
    <3> DEFINE last == CHOOSE i \in commits0 : \A j \in commits0 : j <= i
    <3>3. last \in commits0
      BY <3>2
    <3>4. more[last] = ls[last]
      BY <3>3, <1>1
    <3>5. FoldedMark(0, ls) = ls[last].mark
      BY <2>3 DEF FoldedMark
    <3>6. FoldedMark(0, more) = more[last].mark
      BY <2>1, <2>3 DEF FoldedMark
    <3> QED
      BY <1>3, <3>4, <3>5, <3>6 DEF more
  <2> QED
    BY <2>2, <2>3
<1> QED
  BY <1>2, <1>3

\* A set laid out as a sequence: each member once.
LEMMA LaidOut ==
  ASSUME NEW S, IsFiniteSet(S)
  PROVE  /\ SetToSeq(S) \in Seq(S)
         /\ Len(SetToSeq(S)) = Cardinality(S)
         /\ \A x \in S : \E i \in DOMAIN SetToSeq(S) : SetToSeq(S)[i] = x
<1> DEFINE n == Cardinality(S)
<1>1. n \in Nat
  BY FS_CardinalityType
<1>2. PICK f \in Bijection(1 .. n, S) : TRUE
  BY FS_CardinalityType DEF ExistsBijection
<1>3. f \in [1 .. n -> S] /\ IsInjective(f)
  BY <1>2 DEF Bijection, Injection, IsInjective
<1> DEFINE g == SetToSeq(S)
<1>4. g \in [1 .. n -> S] /\ IsInjective(g)
  BY <1>3 DEF SetToSeq
<1>5. g \in Injection(1 .. n, S)
  BY <1>4 DEF Injection, IsInjective
<1>6. Cardinality(1 .. n) = Cardinality(S)
  BY <1>1, FS_Interval
<1>7. g \in Surjection(1 .. n, S)
  <2> HIDE DEF g
  <2> QED BY <1>5, <1>6, FS_Injection
<1>8. g \in Seq(S) /\ Len(g) = n
  <2> HIDE DEF g, n
  <2> QED BY <1>1, <1>4
<1> QED
  BY <1>4, <1>7, <1>8 DEF Surjection

Records == [op : {"record"}, key : entries]

\* The rewritten file folds into what memory holds, and has a line for each of it.
LEMMA KeptFolds ==
  ASSUME entries \in SUBSET Keys, mark \in Snapshots \cup {0}
  PROVE  /\ Kept \in Seq(Line)
         /\ Len(Kept) = Live
         /\ FoldedEntries({}, Kept) = entries
         /\ FoldedMark(0, Kept) = mark
<1>1. IsFiniteSet(entries)
  BY JournalAssumption, FS_Subset
<1>2. IsFiniteSet(Records) /\ Cardinality(Records) = Cardinality(entries)
  <2> DEFINE f == [x \in entries |-> [op |-> "record", key |-> x]]
  <2>1. f \in Bijection(entries, Records)
    <3>1. f \in [entries -> Records]
      BY DEF Records
    <3>2. \A x, y \in entries : f[x] = f[y] => x = y
      OBVIOUS
    <3>3. \A r \in Records : \E x \in entries : f[x] = r
      <4> TAKE r \in Records
      <4>1. r.key \in entries /\ r = [op |-> "record", key |-> r.key]
        BY DEF Records
      <4> QED
        BY <4>1
    <3> HIDE DEF f
    <3> QED
      BY <3>1, <3>2, <3>3 DEF Bijection, Injection, Surjection, IsInjective
  <2>2. ExistsBijection(entries, Records)
    BY <2>1 DEF ExistsBijection
  <2> QED
    BY <1>1, <2>2, FS_Bijection
<1> DEFINE front == SetToSeq(Records)
           n == Cardinality(entries)
<1>3. /\ front \in Seq(Records) /\ Len(front) = n /\ n \in Nat
      /\ \A x \in Records : \E i \in DOMAIN front : front[i] = x
  BY <1>1, <1>2, LaidOut, FS_CardinalityType
<1>4. Records \subseteq Line
  BY DEF Records, Line
<1>5. Kept = front \o (IF mark = 0 THEN <<>> ELSE <<[op |-> "commit", mark |-> mark]>>)
  BY DEF Kept, Records
<1> HIDE DEF front, n
<1>6. front \in Seq(Line) /\ DOMAIN front = 1 .. n
  BY <1>3, <1>4
<1>7. /\ FoldedEntries({}, front) = entries
      /\ FoldedMark(0, front) = 0
  <2>1. \A i \in 1 .. n : front[i].op = "record" /\ front[i].key \in entries
    <3>1. \A i \in 1 .. n : front[i] \in Records
      BY <1>3, <1>6
    <3> QED
      BY <3>1 DEF Records
  <2>2. ASSUME NEW k \in Keys PROVE k \in FoldedEntries({}, front) <=> k \in entries
    <3> DEFINE about == {i \in DOMAIN front : About(k, front[i])}
    <3>1. k \in FoldedEntries({}, front) <=>
            about # {} /\ \E i \in about : front[i].op = "record" /\ \A j \in about : j <= i
      BY DEF FoldedEntries
    <3>2. CASE k \in entries
      <4>1. [op |-> "record", key |-> k] \in Records
        BY <3>2 DEF Records
      <4>2. about # {}
        BY <4>1, <1>3 DEF About
      <4>3. about \in SUBSET Nat /\ \A i \in about : i <= n
        BY <1>6, <1>3
      <4>4. \E i \in about : \A j \in about : j <= i
        <5> HIDE DEF about
        <5> QED BY <4>2, <4>3, <1>3, Greatest
      <4> QED
        BY <3>1, <3>2, <4>2, <4>4, <2>1, <1>6
    <3>3. CASE k \notin entries
      <4>1. about = {}
        BY <3>3, <2>1, <1>6 DEF About
      <4> QED
        BY <3>1, <3>3, <4>1
    <3> QED
      BY <3>2, <3>3
  <2>3. {i \in DOMAIN front : front[i].op = "commit"} = {}
    BY <2>1, <1>6
  <2>4. FoldedEntries({}, front) \subseteq Keys
    BY DEF FoldedEntries
  <2>5. FoldedMark(0, front) = 0
    BY <2>3 DEF FoldedMark
  <2> QED
    BY <2>2, <2>4, <2>5
<1>8. CASE mark = 0
  <2>1. Kept = front
    BY <1>5, <1>6, <1>8
  <2> QED
    BY <1>3, <1>6, <1>7, <1>8, <2>1 DEF Live, n
<1>9. CASE mark # 0
  <2> DEFINE l == [op |-> "commit", mark |-> mark]
  <2>1. l \in Line /\ l.op = "commit" /\ l.mark = mark
    BY <1>9 DEF Line
  <2>2. Kept = Append(front, l)
    <3>1. Kept = front \o <<l>>
      BY <1>5, <1>9
    <3> QED
      BY <3>1, <1>6, <2>1
  <2> HIDE DEF l
  <2>3. FoldedEntries({}, Kept) = Keeping(entries, l)
    BY <2>1, <2>2, <1>6, <1>7, FoldEntry
  <2>4. FoldedMark(0, Kept) = mark
    BY <2>1, <2>2, <1>6, FoldMark
  <2>5. Keeping(entries, l) = entries
    BY <2>1 DEF Keeping
  <2>6. Kept \in Seq(Line) /\ Len(Kept) = n + 1
    BY <2>1, <2>2, <1>3, <1>6
  <2> QED
    BY <2>3, <2>4, <2>5, <2>6, <1>9 DEF Live, n
<1> QED
  BY <1>8, <1>9

-----------------------------------------------------------------------------
(* Counting what is wrong.                                                 *)

LEMMA WrongType ==
  ASSUME NEW p \in SUBSET Keys, NEW f \in SUBSET Keys, NEW b, NEW es, NEW m
  PROVE  WrongOf(p, f, b, es, m) \in Nat
<1>1. IsFiniteSet(p \ es) /\ IsFiniteSet(f \cap es)
  BY JournalAssumption, FS_Subset
<1> QED
  BY <1>1, FS_CardinalityType DEF WrongOf

\* Doubting what was acknowledged makes nothing more wrong.
LEMMA DoubtingHelps ==
  ASSUME NEW p \in SUBSET Keys, NEW f \in SUBSET Keys, NEW b, NEW es, NEW m,
         NEW p2 \in SUBSET p, NEW f2 \in SUBSET f, NEW b2 \in {b, -1}
  PROVE  WrongOf(p2, f2, b2, es, m) <= WrongOf(p, f, b, es, m)
<1>1. IsFiniteSet(p \ es) /\ IsFiniteSet(f \cap es)
  BY JournalAssumption, FS_Subset
<1>2. /\ Cardinality(p2 \ es) <= Cardinality(p \ es)
      /\ Cardinality(f2 \cap es) <= Cardinality(f \cap es)
  <2>1. p2 \ es \in SUBSET (p \ es) /\ f2 \cap es \in SUBSET (f \cap es)
    OBVIOUS
  <2> QED
    BY <1>1, <2>1, FS_Subset
<1>3. IsFiniteSet(p2 \ es) /\ IsFiniteSet(f2 \cap es)
  BY JournalAssumption, FS_Subset
<1> QED
  BY <1>1, <1>2, <1>3, FS_CardinalityType DEF WrongOf

\* A change in doubt is not wrong, whatever it does.
LEMMA ChangeInDoubt ==
  ASSUME NEW l \in RealLine, NEW p \in SUBSET Keys, NEW f \in SUBSET Keys, NEW b,
         NEW es \in SUBSET Keys, NEW m, InDoubt(l, p, f, b)
  PROVE  WrongOf(p, f, b, Keeping(es, l), IF l.op = "commit" THEN l.mark ELSE m)
           = WrongOf(p, f, b, es, m)
<1>1. CASE l.op = "record"
  <2>1. p \ Keeping(es, l) = p \ es /\ f \cap Keeping(es, l) = f \cap es
    BY <1>1 DEF Keeping, InDoubt
  <2> QED
    BY <1>1, <2>1 DEF WrongOf
<1>2. CASE l.op = "resolve"
  <2>1. p \ Keeping(es, l) = p \ es /\ f \cap Keeping(es, l) = f \cap es
    BY <1>2 DEF Keeping, InDoubt
  <2> QED
    BY <1>2, <2>1 DEF WrongOf
<1>3. CASE l.op = "commit"
  <2>1. Keeping(es, l) = es /\ b = -1
    BY <1>3 DEF Keeping, InDoubt
  <2> QED
    BY <1>3, <2>1 DEF WrongOf
<1> QED
  BY <1>1, <1>2, <1>3, LineCases

\* What a mutation that returns acknowledges.
NowPromised(l, p) == IF l.op = "record" THEN p \cup {l.key} ELSE p
NowForgiven(l, f) == IF l.op = "resolve" THEN f \cup {l.key} ELSE f
NowBlessed(l, b) == IF l.op = "commit" THEN l.mark ELSE b

\* Acknowledging what agrees makes nothing wrong, acknowledging anything else one thing.
LEMMA Acknowledging ==
  ASSUME NEW l \in RealLine, NEW p \in SUBSET Keys, NEW f \in SUBSET Keys, NEW b,
         NEW es \in SUBSET Keys, NEW m, InDoubt(l, p, f, b)
  PROVE  /\ Agrees(l, es, m) =>
              WrongOf(NowPromised(l, p), NowForgiven(l, f), NowBlessed(l, b), es, m)
                = WrongOf(p, f, b, es, m)
         /\ WrongOf(NowPromised(l, p), NowForgiven(l, f), NowBlessed(l, b), es, m)
              <= WrongOf(p, f, b, es, m) + 1
<1>0. /\ IsFiniteSet(p \ es) /\ IsFiniteSet(f \cap es)
      /\ Cardinality(p \ es) \in Nat /\ Cardinality(f \cap es) \in Nat
  <2>1. IsFiniteSet(p \ es) /\ IsFiniteSet(f \cap es)
    BY JournalAssumption, FS_Subset
  <2> QED
    BY <2>1, FS_CardinalityType
<1>1. CASE l.op = "record"
  <2> DEFINE q == p \cup {l.key}
  <2>1. NowPromised(l, p) = q /\ NowForgiven(l, f) = f /\ NowBlessed(l, b) = b
    BY <1>1 DEF NowPromised, NowForgiven, NowBlessed
  <2>2. CASE l.key \in es
    <3>1. q \ es = p \ es
      BY <2>2
    <3>2. WrongOf(p, f, b, es, m) \in Nat
      BY WrongType
    <3>3. WrongOf(NowPromised(l, p), NowForgiven(l, f), NowBlessed(l, b), es, m)
            = WrongOf(p, f, b, es, m)
      BY <2>1, <3>1 DEF WrongOf
    <3> QED
      BY <3>2, <3>3
  <2>3. CASE l.key \notin es
    <3>1. q \ es = (p \ es) \cup {l.key}
      BY <2>3
    <3>2. Cardinality(q \ es) <= Cardinality(p \ es) + 1 /\ Cardinality(q \ es) \in Nat
      <4> DEFINE T == p \ es
      <4>1. IsFiniteSet(T) /\ Cardinality(T) \in Nat
        BY <1>0
      <4> HIDE DEF T
      <4>2. Cardinality(T \cup {l.key}) \in {Cardinality(T), Cardinality(T) + 1}
        BY <4>1, FS_AddElement
      <4>3. q \ es = T \cup {l.key}
        BY <3>1 DEF T
      <4>4. Cardinality(q \ es) = Cardinality(T \cup {l.key})
        BY <4>3, Zenon
      <4>5. Cardinality(q \ es) <= Cardinality(T) + 1 /\ Cardinality(q \ es) \in Nat
        BY <4>1, <4>2, <4>4
      <4> QED
        BY <4>5 DEF T
    <3>3. WrongOf(NowPromised(l, p), NowForgiven(l, f), NowBlessed(l, b), es, m)
            <= WrongOf(p, f, b, es, m) + 1
      BY <2>1, <3>2, <1>0 DEF WrongOf
    <3>4. ~Agrees(l, es, m)
      BY <2>3, <1>1 DEF Agrees
    <3> QED
      BY <3>3, <3>4
  <2> QED
    BY <2>2, <2>3
<1>2. CASE l.op = "resolve"
  <2> DEFINE q == f \cup {l.key}
  <2>1. NowPromised(l, p) = p /\ NowForgiven(l, f) = q /\ NowBlessed(l, b) = b
    BY <1>2 DEF NowPromised, NowForgiven, NowBlessed
  <2>2. CASE l.key \notin es
    <3>1. q \cap es = f \cap es
      BY <2>2
    <3>2. WrongOf(p, f, b, es, m) \in Nat
      BY WrongType
    <3>3. WrongOf(NowPromised(l, p), NowForgiven(l, f), NowBlessed(l, b), es, m)
            = WrongOf(p, f, b, es, m)
      BY <2>1, <3>1 DEF WrongOf
    <3> QED
      BY <3>2, <3>3
  <2>3. CASE l.key \in es
    <3>1. q \cap es = (f \cap es) \cup {l.key}
      BY <2>3
    <3>2. Cardinality(q \cap es) <= Cardinality(f \cap es) + 1 /\ Cardinality(q \cap es) \in Nat
      <4> DEFINE T == f \cap es
      <4>1. IsFiniteSet(T) /\ Cardinality(T) \in Nat
        BY <1>0
      <4> HIDE DEF T
      <4>2. Cardinality(T \cup {l.key}) \in {Cardinality(T), Cardinality(T) + 1}
        BY <4>1, FS_AddElement
      <4>3. q \cap es = T \cup {l.key}
        BY <3>1 DEF T
      <4>4. Cardinality(q \cap es) = Cardinality(T \cup {l.key})
        BY <4>3, Zenon
      <4>5. Cardinality(q \cap es) <= Cardinality(T) + 1 /\ Cardinality(q \cap es) \in Nat
        BY <4>1, <4>2, <4>4
      <4> QED
        BY <4>5 DEF T
    <3>3. WrongOf(NowPromised(l, p), NowForgiven(l, f), NowBlessed(l, b), es, m)
            <= WrongOf(p, f, b, es, m) + 1
      BY <2>1, <3>2, <1>0 DEF WrongOf
    <3>4. ~Agrees(l, es, m)
      BY <2>3, <1>2 DEF Agrees
    <3> QED
      BY <3>3, <3>4
  <2> QED
    BY <2>2, <2>3
<1>3. CASE l.op = "commit"
  <2>1. NowPromised(l, p) = p /\ NowForgiven(l, f) = f /\ NowBlessed(l, b) = l.mark /\ b = -1
    BY <1>3 DEF NowPromised, NowForgiven, NowBlessed, InDoubt
  <2>2. Agrees(l, es, m) <=> m = l.mark
    BY <1>3 DEF Agrees
  <2> QED
    BY <2>1, <2>2, <1>0 DEF WrongOf
<1> QED
  BY <1>1, <1>2, <1>3, LineCases

-----------------------------------------------------------------------------
(* Type correctness.                                                       *)

LEMMA OpCases ==
  ASSUME OpShape
  PROVE  /\ op.at = "rest" <=> op = Rest
         /\ op # Rest => op.line \in RealLine
         /\ op.at = "fold" => op.raw \in Seq(Line)
         /\ op.at = "rename" => op.body \in Seq(Line)
         /\ op.at = "change" =>
              [op EXCEPT !.at = "append"] = [at |-> "append", line |-> op.line]
<1>1. CASE op = Rest
  BY <1>1 DEF Rest
<1>2. CASE op \in [at : {"read", "change", "append"}, line : RealLine]
  BY <1>2 DEF Rest
<1>3. CASE op \in [at : {"fold"}, line : RealLine, raw : Seq(Line)]
  BY <1>3 DEF Rest
<1>4. CASE op \in [at : {"rename"}, line : RealLine, body : Seq(Line)]
  BY <1>4 DEF Rest
<1> QED
  BY <1>1, <1>2, <1>3, <1>4 DEF OpShape

LEMMA AskerCases ==
  ASSUME AskerShape
  PROVE  /\ asker.at = "rest" <=> asker = Rest
         /\ asker.at = "fold" => asker.raw \in Seq(Line)
<1>1. CASE asker = Rest
  BY <1>1 DEF Rest
<1>2. CASE asker \in [at : {"read"}]
  BY <1>2 DEF Rest
<1>3. CASE asker \in [at : {"fold"}, raw : Seq(Line)]
  BY <1>3 DEF Rest
<1> QED
  BY <1>1, <1>2, <1>3 DEF AskerShape

LEMMA KeepingType ==
  ASSUME NEW es \in SUBSET Keys, NEW l \in RealLine
  PROVE  Keeping(es, l) \in SUBSET Keys
<1>1. CASE l.op = "record"
  <2>1. Keeping(es, l) = es \cup {l.key} /\ l.key \in Keys
    BY <1>1, LineCases DEF Keeping
  <2> QED
    BY <2>1
<1>2. CASE l.op = "resolve"
  <2>1. Keeping(es, l) = es \ {l.key}
    BY <1>2 DEF Keeping
  <2> QED
    BY <2>1
<1>3. CASE l.op = "commit"
  <2>1. Keeping(es, l) = es
    BY <1>3 DEF Keeping
  <2> QED
    BY <2>1
<1> QED
  BY <1>1, <1>2, <1>3, LineCases

\* What a mutation does to what has been acknowledged, as it starts and as it returns.
LEMMA DoubtfulType ==
  ASSUME TypeOK, NEW l \in RealLine, Doubtful(l)
  PROVE  /\ promised' \subseteq promised /\ forgiven' \subseteq forgiven
         /\ blessed' \in {blessed, -1}
         /\ promised' \subseteq Keys /\ forgiven' \subseteq Keys \ promised'
         /\ blessed' \in Snapshots \cup {-1, 0}
         /\ InDoubt(l, promised', forgiven', blessed')
BY LineCases DEF TypeOK, Doubtful, InDoubt

LEMMA ReturnedType ==
  ASSUME TypeOK, NEW l \in RealLine, InDoubt(l, promised, forgiven, blessed), Returned(l)
  PROVE  /\ promised' = NowPromised(l, promised)
         /\ forgiven' = NowForgiven(l, forgiven)
         /\ blessed' = NowBlessed(l, blessed)
         /\ promised' \subseteq Keys /\ forgiven' \subseteq Keys \ promised'
         /\ blessed' \in Snapshots \cup {-1, 0}
<1>1. /\ promised' = NowPromised(l, promised)
      /\ forgiven' = NowForgiven(l, forgiven)
      /\ blessed' = NowBlessed(l, blessed)
  BY DEF Returned, NowPromised, NowForgiven, NowBlessed
<1>2. CASE l.op = "record"
  BY <1>2, LineCases DEF TypeOK, Returned, InDoubt, NowPromised, NowForgiven, NowBlessed
<1>3. CASE l.op = "resolve"
  BY <1>3, LineCases DEF TypeOK, Returned, InDoubt, NowPromised, NowForgiven, NowBlessed
<1>4. CASE l.op = "commit"
  BY <1>4, LineCases DEF TypeOK, Returned, InDoubt, NowPromised, NowForgiven, NowBlessed
<1> QED
  BY <1>1, <1>2, <1>3, <1>4, LineCases

\* What a mutation that has the file rewritten does to it.
LEMMA RewrittenType ==
  ASSUME TypeOK, NEW l \in RealLine, InDoubt(l, promised, forgiven, blessed),
         NEW body, Rewritten(l, body)
  PROVE  /\ promised' \subseteq Keys /\ forgiven' \subseteq Keys \ promised'
         /\ blessed' \in Snapshots \cup {-1, 0}
<1>1. CASE ~blind
  BY <1>1, ReturnedType DEF Rewritten
<1>2. CASE blind
  <2> DEFINE es == FoldedEntries({}, body)
             m == FoldedMark(0, body)
  <2>1. /\ promised' = promised \cap es /\ forgiven' = forgiven \ es
        /\ blessed' = IF blessed = m THEN m ELSE -1
    BY <1>2 DEF Rewritten
  <2> HIDE DEF es, m
  <2> QED
    BY <2>1 DEF TypeOK
<1> QED
  BY <1>1, <1>2

LEMMA ReadType ==
  ASSUME TypeOK
  PROVE  ReadFile \in Seq(Line) /\ Reads \subseteq Seq(Line)
BY LineCases DEF TypeOK, ReadFile, Reads

LEMMA AppendedType ==
  ASSUME TypeOK, NEW l \in RealLine
  PROVE  Appended(l) \in Seq(Line)
BY LineCases DEF TypeOK, Appended

LEMMA FoldStep ==
  ASSUME TypeOK, NEW raw \in Seq(Line), Fold(raw)
  PROVE  entries' \subseteq Keys /\ mark' \in Snapshots \cup {0} /\ lines' \in Nat
<1>1. Len(raw) \in Nat
  OBVIOUS
<1> QED
  BY <1>1, FoldType DEF TypeOK, Fold, Marks

LEMMA TypeInit == Init => TypeInv
<1> SUFFICES ASSUME Init PROVE TypeInv
  OBVIOUS
<1>1. MaxTears \in Nat /\ MaxCrashes \in Nat /\ MaxLines \in Nat
  BY JournalAssumption
<1>2. file \in Seq(Line) /\ tears = 0 /\ crashes = 0 /\ appended = 0 /\ lines = 0
  BY DEF Init
<1>3. partial \in BOOLEAN /\ loaded \in BOOLEAN
  BY DEF Init
<1>4. /\ entries \subseteq Keys /\ mark \in Snapshots \cup {0}
      /\ op = Rest /\ asker = Rest /\ op.at = "rest" /\ asker.at = "rest"
      /\ promised \subseteq Keys /\ forgiven \subseteq Keys \ promised
      /\ blessed \in Snapshots \cup {-1, 0}
  BY DEF Init, Rest
<1>b. blind \in BOOLEAN
  BY DEF Init
<1>5. TypeOK
  BY <1>1, <1>2, <1>3, <1>4, <1>b DEF TypeOK
<1>6. OpShape /\ AskerShape /\ Doubted /\ Room
  BY <1>4 DEF OpShape, AskerShape, Doubted, Room
<1> QED
  BY <1>5, <1>6 DEF TypeInv

LEMMA TypeStep == TypeInv /\ [Next]_vars => TypeInv'
<1> SUFFICES ASSUME TypeInv, [Next]_vars
             PROVE  TypeInv'
  OBVIOUS
<1> USE DEF memory, ghosts, counts
<1>0. /\ TypeOK /\ OpShape /\ AskerShape /\ Doubted /\ Room
      /\ MaxTears \in Nat /\ MaxCrashes \in Nat /\ MaxLines \in Nat
  BY JournalAssumption DEF TypeInv
<1>1. ASSUME Mutate PROVE TypeInv'
  <2>1. PICK l \in RealLine :
          /\ op' = [at |-> IF loaded THEN "change" ELSE "read", line |-> l]
          /\ Doubtful(l)
    BY <1>1 DEF Mutate, RealLine
  <2>2. l \in Line \ {Garbled} /\ op' # Rest /\ op'.line = l
        /\ op'.at \in {"read", "change"}
    BY <2>1 DEF RealLine, Rest
  <2>3. TypeOK'
    BY <1>0, <1>1, <2>1, <2>2, DoubtfulType DEF TypeOK, Mutate
  <2>4. OpShape' /\ AskerShape'
    BY <1>0, <1>1, <2>1 DEF Mutate, OpShape, AskerShape
  <2>5. Doubted' /\ Room'
    BY <1>0, <1>1, <2>1, <2>2, DoubtfulType DEF Doubted, Room, Mutate
  <2> QED
    BY <2>3, <2>4, <2>5 DEF TypeInv
<1>2. ASSUME LoadRead PROVE TypeInv'
  <2>1. op # Rest /\ op.line \in RealLine /\ op.line \in Line \ {Garbled}
    BY <1>0, <1>2, OpCases DEF LoadRead, Rest, RealLine
  <2>2. PICK raw \in Seq(Line) : op' = [at |-> "fold", line |-> op.line, raw |-> raw]
    BY <1>0, <1>2, ReadType DEF LoadRead
  <2>b. blind' \in BOOLEAN
    BY <1>0, <1>2 DEF LoadRead, TypeOK
  <2>3. TypeOK'
    BY <1>0, <1>2, <2>1, <2>2, <2>b DEF TypeOK, LoadRead
  <2>4. OpShape' /\ AskerShape'
    BY <1>0, <1>2, <2>1, <2>2 DEF LoadRead, OpShape, AskerShape
  <2>5. Doubted' /\ Room'
    BY <1>0, <1>2, <2>1, <2>2 DEF LoadRead, Doubted, Room, Rest
  <2> QED
    BY <2>3, <2>4, <2>5 DEF TypeInv
<1>3. ASSUME LoadFold PROVE TypeInv'
  <2>1. op # Rest /\ op.line \in RealLine /\ op.line \in Line \ {Garbled}
        /\ op.raw \in Seq(Line)
    BY <1>0, <1>3, OpCases DEF LoadFold, Rest, RealLine
  <2>2. op' = [at |-> "change", line |-> op.line]
        /\ entries' \subseteq Keys /\ mark' \in Snapshots \cup {0} /\ lines' \in Nat
    BY <1>0, <1>3, <2>1, FoldStep DEF LoadFold
  <2>3. TypeOK'
    BY <1>0, <1>3, <2>1, <2>2 DEF TypeOK, LoadFold
  <2>4. OpShape' /\ AskerShape'
    BY <1>0, <1>3, <2>1, <2>2 DEF LoadFold, OpShape, AskerShape
  <2>5. Doubted' /\ Room'
    BY <1>0, <1>3, <2>1, <2>2 DEF LoadFold, Doubted, Room, Rest
  <2> QED
    BY <2>3, <2>4, <2>5 DEF TypeInv
<1>4. ASSUME Change PROVE TypeInv'
  <2>1. op # Rest /\ op.line \in RealLine /\ op.line \in Line \ {Garbled}
    BY <1>0, <1>4, OpCases DEF Change, Rest, RealLine
  <2>2. op' = [at |-> "append", line |-> op.line]
    BY <1>0, <1>4, OpCases DEF Change
  <2>3. entries' \subseteq Keys
    BY <1>0, <1>4, <2>1, KeepingType DEF Change, TypeOK
  <2>4. mark' \in Snapshots \cup {0}
    BY <1>0, <1>4, <2>1, LineCases DEF Change, TypeOK
  <2>5. TypeOK'
    BY <1>0, <1>4, <2>1, <2>2, <2>3, <2>4 DEF TypeOK, Change
  <2>6. OpShape' /\ AskerShape'
    BY <1>0, <1>4, <2>1, <2>2 DEF Change, OpShape, AskerShape
  <2>7. Doubted' /\ Room'
    BY <1>0, <1>4, <2>1, <2>2 DEF Change, Doubted, Room, Rest
  <2> QED
    BY <2>5, <2>6, <2>7 DEF TypeInv
<1>5. ASSUME AppendLine PROVE TypeInv'
  <2>1. op # Rest /\ op.line \in RealLine /\ op.line \in Line \ {Garbled}
        /\ InDoubt(op.line, promised, forgiven, blessed)
    BY <1>0, <1>5, OpCases DEF AppendLine, Rest, RealLine, Doubted
  <2>2. file' \in Seq(Line)
    BY <1>0, <1>5, <2>1, AppendedType DEF AppendLine
  <2>20. /\ partial' \in BOOLEAN /\ UNCHANGED <<entries, mark, loaded, asker, blind, tears, crashes>>
         /\ op.at = "append" /\ lines' = lines + 1 /\ appended' = appended + 1
    BY <1>5 DEF AppendLine
  <2>3. Kept \in Seq(Line)
    BY <1>0, KeptFolds DEF TypeOK
  <2>4. CASE DueForCompaction
    <3>1. op' = [at |-> "rename", line |-> op.line, body |-> Kept] /\ UNCHANGED ghosts
      BY <1>5, <2>4 DEF AppendLine
    <3>2. TypeOK'
      BY <1>0, <2>1, <2>2, <2>20, <3>1 DEF TypeOK, Room
    <3>3. OpShape' /\ AskerShape'
      BY <1>0, <1>5, <2>1, <2>3, <3>1 DEF AppendLine, OpShape, AskerShape
    <3>4. Doubted' /\ Room'
      BY <2>1, <3>1 DEF Doubted, Room
    <3> QED
      BY <3>2, <3>3, <3>4 DEF TypeInv
  <2>5. CASE ~DueForCompaction
    <3>1. op' = Rest /\ Returned(op.line)
      BY <1>5, <2>5 DEF AppendLine
    <3>2. TypeOK'
      <4>1. op' = Rest /\ op'.at = "rest"
        BY <3>1 DEF Rest
      <4>2. /\ promised' \subseteq Keys /\ forgiven' \subseteq Keys \ promised'
            /\ blessed' \in Snapshots \cup {-1, 0}
        BY <1>0, <2>1, <3>1, ReturnedType
      <4> QED
        BY <1>0, <2>2, <2>20, <4>1, <4>2 DEF TypeOK, Room
    <3>3. OpShape' /\ AskerShape' /\ Doubted' /\ Room'
      BY <1>0, <2>20, <3>1 DEF OpShape, AskerShape, Doubted, Room, Rest
    <3> QED
      BY <3>2, <3>3 DEF TypeInv
  <2> QED
    BY <2>4, <2>5
<1>6. ASSUME Rename PROVE TypeInv'
  <2>1. op # Rest /\ op.line \in RealLine /\ op.body \in Seq(Line)
        /\ InDoubt(op.line, promised, forgiven, blessed)
    BY <1>0, <1>6, OpCases DEF Rename, Rest, Doubted
  <2>2. op' = Rest /\ Rewritten(op.line, op.body) /\ Len(op.body) \in Nat
    BY <1>6, <2>1 DEF Rename
  <2>3. TypeOK'
    <3>1. /\ partial' \in BOOLEAN /\ file' \in Seq(Line) /\ lines' \in Nat
          /\ UNCHANGED <<entries, mark, loaded, asker, blind, counts>>
      BY <1>6, <2>1, <2>2 DEF Rename
    <3>2. op' = Rest /\ op'.at = "rest"
      BY <2>2 DEF Rest
    <3>3. /\ promised' \subseteq Keys /\ forgiven' \subseteq Keys \ promised'
          /\ blessed' \in Snapshots \cup {-1, 0}
      BY <1>0, <2>1, <2>2, RewrittenType
    <3> QED
      BY <1>0, <3>1, <3>2, <3>3 DEF TypeOK
  <2>4. OpShape' /\ AskerShape' /\ Doubted' /\ Room'
    BY <1>0, <1>6, <2>2 DEF Rename, OpShape, AskerShape, Doubted, Room, Rest
  <2> QED
    BY <2>3, <2>4 DEF TypeInv
<1>7. ASSUME Ask \/ AskRead \/ AskFold PROVE TypeInv'
  <2>1. OpShape' /\ Doubted' /\ Room'
    BY <1>0, <1>7 DEF Ask, AskRead, AskFold, OpShape, Doubted, Room
  <2>2. CASE Ask
    <3>1. asker' = [at |-> "read"] /\ loaded'
      BY <2>2 DEF Ask
    <3>2. TypeOK' /\ AskerShape'
      BY <1>0, <2>2, <3>1 DEF Ask, TypeOK, AskerShape
    <3> QED
      BY <2>1, <3>2 DEF TypeInv
  <2>3. CASE AskRead
    <3>1. PICK raw \in Seq(Line) : asker' = [at |-> "fold", raw |-> raw]
      BY <1>0, <2>3, ReadType DEF AskRead
    <3>2. asker # Rest /\ blind' \in BOOLEAN
      BY <1>0, <2>3 DEF AskRead, Rest, TypeOK
    <3>3. TypeOK' /\ AskerShape'
      BY <1>0, <2>3, <3>1, <3>2 DEF AskRead, TypeOK, AskerShape
    <3> QED
      BY <2>1, <3>3 DEF TypeInv
  <2>4. CASE AskFold
    <3>1. asker' = Rest /\ asker'.at = "rest" /\ asker # Rest
      BY <2>4 DEF AskFold, Rest
    <3>2. entries' \subseteq Keys /\ mark' \in Snapshots \cup {0} /\ lines' \in Nat
      BY <1>0, <2>4, AskerCases, FoldStep DEF AskFold
    <3>3. TypeOK' /\ AskerShape'
      BY <1>0, <2>4, <3>1, <3>2 DEF AskFold, TypeOK, AskerShape
    <3> QED
      BY <2>1, <3>3 DEF TypeInv
  <2> QED
    BY <1>7, <2>2, <2>3, <2>4
<1>8. ASSUME Crash PROVE TypeInv'
  <2>1. file' \in Seq(Line) /\ partial' \in BOOLEAN
    <3>1. CASE UNCHANGED <<file, partial>>
      BY <1>0, <3>1 DEF TypeOK
    <3>2. CASE op.at = "append" /\ file' = Appended(op.line) /\ partial' = FALSE
      BY <1>0, <3>2, OpCases, AppendedType DEF Rest
    <3>3. CASE op.at = "rename" /\ file' = op.body /\ partial' = FALSE
      BY <1>0, <3>3, OpCases
    <3> QED
      BY <1>8, <3>1, <3>2, <3>3 DEF Crash
  <2>2. TypeOK'
    <3>1. /\ entries' \subseteq Keys /\ mark' \in Snapshots \cup {0} /\ lines' \in Nat
          /\ op' = Rest /\ asker' = Rest /\ op'.at = "rest" /\ asker'.at = "rest"
      BY <1>8 DEF Crash, Forgotten, Rest
    <3>2. loaded' \in BOOLEAN
      BY <1>8 DEF Crash, Forgotten
    <3>3. tears' \in 0 .. MaxTears /\ crashes' \in 0 .. MaxCrashes
          /\ UNCHANGED appended
      BY <1>0, <1>8 DEF Crash, TypeOK
    <3>b. blind' \in BOOLEAN
      BY <1>8 DEF Crash, Forgotten
    <3>4. /\ promised' \subseteq Keys /\ forgiven' \subseteq Keys \ promised'
          /\ blessed' \in Snapshots \cup {-1, 0}
      <4>1. CASE UNCHANGED ghosts
        BY <1>0, <4>1 DEF TypeOK
      <4>2. CASE op.at = "rename" /\ Rewritten(op.line, op.body)
        <5>1. op.line \in RealLine /\ InDoubt(op.line, promised, forgiven, blessed)
          BY <1>0, <4>2, OpCases DEF Rest, Doubted
        <5> QED
          BY <1>0, <4>2, <5>1, RewrittenType
      <4> QED
        BY <1>8, <4>1, <4>2 DEF Crash
    <3> QED
      BY <1>0, <2>1, <3>1, <3>2, <3>3, <3>4, <3>b DEF TypeOK
  <2>3. OpShape' /\ AskerShape' /\ Doubted' /\ Room'
    BY <1>8 DEF Crash, Forgotten, OpShape, AskerShape, Doubted, Room, Rest
  <2> QED
    BY <2>2, <2>3 DEF TypeInv
<1>9. ASSUME Tear PROVE TypeInv'
  <2>1. TypeOK'
    <3>1. /\ entries' \subseteq Keys /\ mark' \in Snapshots \cup {0} /\ lines' \in Nat
          /\ op' = Rest /\ asker' = Rest /\ op'.at = "rest" /\ asker'.at = "rest"
      BY <1>9 DEF Tear, Forgotten, Rest
    <3>2. loaded' \in BOOLEAN /\ partial' \in BOOLEAN /\ UNCHANGED file
      BY <1>9 DEF Tear, Forgotten
    <3>3. tears' \in 0 .. MaxTears /\ crashes' \in 0 .. MaxCrashes
          /\ UNCHANGED ghosts /\ UNCHANGED appended
      BY <1>0, <1>9 DEF Tear, TypeOK
    <3>b. blind' \in BOOLEAN
      BY <1>9 DEF Tear, Forgotten
    <3> QED
      BY <1>0, <3>1, <3>2, <3>3, <3>b DEF TypeOK
  <2>2. OpShape' /\ AskerShape' /\ Doubted' /\ Room'
    BY <1>9 DEF Tear, Forgotten, OpShape, AskerShape, Doubted, Room, Rest
  <2> QED
    BY <2>1, <2>2 DEF TypeInv
<1>10. ASSUME Refused PROVE TypeInv'
  <2>1. TypeOK'
    <3>1. op' = Rest /\ op'.at = "rest" /\ UNCHANGED <<file, memory, asker, ghosts, blind,
                                                    crashes, appended>>
      BY <1>10 DEF Refused, Rest
    <3>2. partial' \in BOOLEAN
      <4>1. CASE UNCHANGED partial
        BY <1>0, <4>1 DEF TypeOK
      <4>2. CASE partial' = TRUE
        BY <4>2
      <4> QED
        BY <1>10, <4>1, <4>2 DEF Refused
    <3>3. tears' \in 0 .. MaxTears
      <4>1. tears \in 0 .. MaxTears
        BY <1>0 DEF TypeOK
      <4>2. tears' = tears \/ (tears < MaxTears /\ tears' = tears + 1)
        BY <1>10 DEF Refused
      <4> QED
        BY <1>0, <4>1, <4>2
    <3> QED
      BY <1>0, <3>1, <3>2, <3>3 DEF TypeOK
  <2>2. OpShape' /\ AskerShape' /\ Doubted' /\ Room'
    BY <1>0, <1>10 DEF Refused, OpShape, AskerShape, Doubted, Room, Rest
  <2> QED
    BY <2>1, <2>2 DEF TypeInv
<1>11. ASSUME UNCHANGED vars PROVE TypeInv'
  BY <1>0, <1>11 DEF vars, TypeInv, TypeOK, OpShape, AskerShape, Doubted, Room
<1> QED
  BY <1>1, <1>2, <1>3, <1>4, <1>5, <1>6, <1>7, <1>8, <1>9, <1>10, <1>11 DEF Next

\* The journal's memory and file have the shape the code gives them, however questions,
\* mutations, refusals of the disk and deaths fall together.
THEOREM TypeCorrect == Spec => []TypeOK
<1>1. TypeInv => TypeOK
  BY DEF TypeInv
<1> QED
  BY <1>1, TypeInit, TypeStep, PTL DEF Spec

-----------------------------------------------------------------------------
(* The file and memory.                                                    *)

\* After a line of its own a file agrees with it, and a garbled line does nothing.
LEMMA OneMore ==
  ASSUME NEW ls \in Seq(Line), NEW l \in RealLine
  PROVE  /\ FoldedEntries({}, Append(ls, l)) = Keeping(FoldedEntries({}, ls), l)
         /\ FoldedMark(0, Append(ls, l)) = IF l.op = "commit" THEN l.mark
                                           ELSE FoldedMark(0, ls)
         /\ FoldedEntries({}, Append(ls, Garbled)) = FoldedEntries({}, ls)
         /\ FoldedMark(0, Append(ls, Garbled)) = FoldedMark(0, ls)
<1>1. l \in Line /\ Garbled \in Line /\ Garbled.op = "garbled"
  BY LineCases
<1>2. Keeping(FoldedEntries({}, ls), Garbled) = FoldedEntries({}, ls)
  BY <1>1 DEF Keeping
<1>3. FoldedEntries({}, Append(ls, Garbled)) = FoldedEntries({}, ls)
  BY <1>1, <1>2, FoldEntry
<1>4. FoldedMark(0, Append(ls, Garbled)) = FoldedMark(0, ls)
  BY <1>1, FoldMark
<1> QED
  BY <1>1, <1>3, <1>4, FoldEntry, FoldMark

LEMMA MadeAgrees ==
  ASSUME NEW l \in RealLine, NEW es \in SUBSET Keys, NEW m
  PROVE  Agrees(l, Keeping(es, l), IF l.op = "commit" THEN l.mark ELSE m)
<1>1. CASE l.op = "record"
  BY <1>1 DEF Agrees, Keeping
<1>2. CASE l.op = "resolve"
  BY <1>2 DEF Agrees, Keeping
<1>3. CASE l.op = "commit"
  BY <1>3 DEF Agrees
<1> QED
  BY <1>1, <1>2, <1>3, LineCases

\* What a file read as it is folds into.
LEMMA ReadFolds ==
  ASSUME TypeInv
  PROVE  /\ FoldedEntries({}, ReadFile) = FileEntries
         /\ FoldedMark(0, ReadFile) = FileMark
         /\ Len(file) <= Len(ReadFile)
<1>1. file \in Seq(Line) /\ Keys # {}
  BY JournalAssumption DEF TypeInv, TypeOK
<1>2. PICK k \in Keys : TRUE
  BY <1>1
<1>3. [op |-> "record", key |-> k] \in RealLine
  BY <1>2 DEF RealLine, Line, Garbled
<1>4. CASE partial
  <2>1. ReadFile = Append(file, Garbled)
    BY <1>4 DEF ReadFile
  <2>2. Len(ReadFile) = Len(file) + 1 /\ Len(file) \in Nat
    BY <1>1, <2>1
  <2> QED
    BY <1>1, <1>3, <2>1, <2>2, OneMore DEF FileEntries, FileMark
<1>5. CASE ~partial
  <2>1. ReadFile = file /\ Len(file) \in Nat
    BY <1>1, <1>5 DEF ReadFile
  <2> QED
    BY <2>1 DEF FileEntries, FileMark
<1> QED
  BY <1>4, <1>5

\* Appending a line in doubt makes nothing wrong, garbled or not, and the file then
\* agrees with a line that is not garbled.
LEMMA AppendFolds ==
  ASSUME TypeInv, NEW l \in RealLine, file' = Appended(l),
         NEW p \in SUBSET Keys, NEW f \in SUBSET Keys, NEW b, InDoubt(l, p, f, b)
  PROVE  /\ WrongOf(p, f, b, FileEntries', FileMark') = WrongOf(p, f, b, FileEntries, FileMark)
         /\ FileEntries' \in SUBSET Keys
         /\ ~partial => Agrees(l, FileEntries', FileMark')
         /\ Len(file') = Len(file) + 1
<1>1. file \in Seq(Line) /\ FileEntries \in SUBSET Keys
  BY FoldType DEF TypeInv, TypeOK, FileEntries, FoldedEntries
<1>2. CASE partial
  <2>1. file' = Append(file, Garbled)
    BY <1>2 DEF Appended
  <2>2. FileEntries' = FileEntries /\ FileMark' = FileMark
    BY <1>1, <2>1, OneMore DEF FileEntries, FileMark
  <2>3. Len(file') = Len(file) + 1
    BY <1>1, <2>1, LineCases
  <2> QED
    BY <1>1, <1>2, <2>2, <2>3
<1>3. CASE ~partial
  <2>1. file' = Append(file, l) /\ l \in Line
    BY <1>3, LineCases DEF Appended
  <2>2. /\ FileEntries' = Keeping(FileEntries, l)
        /\ FileMark' = IF l.op = "commit" THEN l.mark ELSE FileMark
    BY <1>1, <2>1, OneMore DEF FileEntries, FileMark
  <2>3. WrongOf(p, f, b, FileEntries', FileMark') = WrongOf(p, f, b, FileEntries, FileMark)
    BY <1>1, <2>2, ChangeInDoubt
  <2>4. Agrees(l, FileEntries', FileMark')
    BY <1>1, <2>2, MadeAgrees
  <2>5. Len(file') = Len(file) + 1
    BY <1>1, <2>1
  <2>6. FileEntries' \in SUBSET Keys
    BY <1>1, <2>2, KeepingType
  <2> QED
    BY <2>3, <2>4, <2>5, <2>6
<1> QED
  BY <1>2, <1>3

LEMMA Numbers ==
  ASSUME TypeInv
  PROVE  /\ FileWrong \in Nat /\ MemoryWrong \in Nat /\ Tearing \in Nat /\ tears \in Nat
         /\ Len(file) \in Nat /\ lines \in Nat
         /\ promised \in SUBSET Keys /\ forgiven \in SUBSET Keys
         /\ entries \in SUBSET Keys /\ FileEntries \in SUBSET Keys
<1>1. /\ promised \in SUBSET Keys /\ forgiven \in SUBSET Keys /\ entries \in SUBSET Keys
      /\ file \in Seq(Line) /\ lines \in Nat /\ tears \in Nat
  BY JournalAssumption DEF TypeInv, TypeOK
<1>2. FileEntries \in SUBSET Keys
  BY DEF FileEntries, FoldedEntries
<1>3. FileWrong \in Nat /\ MemoryWrong \in Nat
  BY <1>1, WrongType DEF FileWrong, MemoryWrong
<1>4. Len(file) \in Nat /\ Tearing \in Nat
  BY <1>1 DEF Tearing
<1> QED
  BY <1>1, <1>2, <1>3, <1>4

\* Less in the place of more keeps within a limit.
LEMMA Less ==
  ASSUME NEW more \in Nat, NEW less \in Nat, NEW d \in Nat, NEW limit \in Nat,
         less <= more, more + d <= limit
  PROVE  less + d <= limit
OBVIOUS

LEMMA JournalInit == Init => JournalInv
<1> SUFFICES ASSUME Init PROVE JournalInv
  OBVIOUS
<1>1. TypeInv
  BY TypeInit
<1>2. op = Rest /\ asker = Rest /\ op.at = "rest" /\ asker.at = "rest" /\ ~loaded
      /\ entries = {} /\ mark = 0 /\ lines = 0
  BY DEF Init, Rest
<1>3. Turns /\ Fresh /\ Mutating
  BY <1>2 DEF Turns, Fresh, Mutating
<1>4. FileEntries = {} /\ FileMark = 0
  BY DEF Init, FileEntries, FileMark, FoldedEntries, FoldedMark
<1>5. promised \ {} = {} /\ forgiven \cap {} = {} /\ blessed = 0 /\ tears = 0
  BY DEF Init
<1>6. WrongOf(promised, forgiven, blessed, {}, 0) = 0
  <2>1. Cardinality(promised \ {}) = 0 /\ Cardinality(forgiven \cap {}) = 0
    BY <1>5, FS_EmptySet, Zenon
  <2> QED
    BY <2>1, <1>5 DEF WrongOf
<1>7. Tearing = 0
  BY DEF Tearing, Init
<1>8. FileWrong + Tearing <= tears /\ MemoryKept /\ ~blind
  <2>1. ~blind
    BY DEF Init
  <2> QED
    BY <1>2, <1>4, <1>5, <1>6, <1>7, <2>1 DEF MemoryKept, FileWrong
<1> QED
  BY <1>1, <1>3, <1>8 DEF JournalInv

\* What a rewritten file still says is all that is then held to be kept.
LEMMA RewrittenBlind ==
  ASSUME TypeInv, TypeInv', blind, NEW l, NEW body, Rewritten(l, body), file' = body
  PROVE  FileWrong' = 0
<1>1. FileEntries' = FoldedEntries({}, body) /\ FileMark' = FoldedMark(0, body)
  BY DEF FileEntries, FileMark
<1>2. /\ promised' = promised \cap FileEntries' /\ forgiven' = forgiven \ FileEntries'
      /\ blessed' \in {-1, FileMark'}
  BY <1>1 DEF Rewritten
<1>3. promised' \ FileEntries' = {} /\ forgiven' \cap FileEntries' = {}
  BY <1>2
<1>4. Cardinality(promised' \ FileEntries') = 0 /\ Cardinality(forgiven' \cap FileEntries') = 0
  BY <1>3, FS_EmptySet, Zenon
<1>5. FileWrong' = Cardinality(promised' \ FileEntries')
                     + Cardinality(forgiven' \cap FileEntries')
                     + (IF blessed' \in {-1, FileMark'} THEN 0 ELSE 1)
  BY DEF FileWrong, WrongOf
<1> QED
  BY <1>2, <1>4, <1>5

\* An append leaves the file wrong about nothing more, but for the line it completes.
LEMMA AppendStep ==
  ASSUME TypeInv, TypeInv', FileWrong + Tearing <= tears, AppendLine
  PROVE  FileWrong' + Tearing' <= tears'
<1> USE DEF memory, ghosts, counts
<1>0. /\ TypeOK /\ OpShape /\ Doubted
      /\ FileWrong \in Nat /\ Tearing \in Nat /\ tears \in Nat
      /\ promised \in SUBSET Keys /\ forgiven \in SUBSET Keys /\ FileEntries \in SUBSET Keys
  BY Numbers DEF TypeInv
<1>m. FileWrong' \in Nat
  <2>1. promised' \in SUBSET Keys /\ forgiven' \in SUBSET Keys
    BY DEF TypeInv, TypeOK
  <2> QED
    BY <2>1, WrongType DEF FileWrong
<1>1. op.line \in RealLine /\ InDoubt(op.line, promised, forgiven, blessed)
  BY <1>0, OpCases DEF AppendLine, Rest, Doubted
<1>2. file' = Appended(op.line) /\ ~partial' /\ tears' = tears
  BY DEF AppendLine
<1>3. Tearing' = 0 /\ Tearing = IF partial THEN 1 ELSE 0
  BY <1>2 DEF Tearing
<1> DEFINE es == FileEntries'
           m == FileMark'
<1>4. /\ WrongOf(promised, forgiven, blessed, es, m) = FileWrong
      /\ es \in SUBSET Keys
      /\ ~partial => Agrees(op.line, es, m)
  BY <1>0, <1>1, <1>2, AppendFolds DEF FileWrong
<1>5. (~partial => FileWrong' = FileWrong) /\ FileWrong' <= FileWrong + 1
  <2>1. CASE UNCHANGED ghosts
    <3>1. FileWrong' = FileWrong
      BY <1>4, <2>1 DEF FileWrong
    <3> QED
      BY <1>0, <3>1
  <2>2. CASE Returned(op.line)
    <3>1. /\ promised' = NowPromised(op.line, promised)
          /\ forgiven' = NowForgiven(op.line, forgiven)
          /\ blessed' = NowBlessed(op.line, blessed)
      BY <1>0, <1>1, <2>2, ReturnedType
    <3>2. FileWrong' = WrongOf(NowPromised(op.line, promised), NowForgiven(op.line, forgiven),
                               NowBlessed(op.line, blessed), es, m)
      BY <3>1 DEF FileWrong
    <3> HIDE DEF es, m
    <3> QED
      BY <1>0, <1>1, <1>4, <3>2, Acknowledging
  <2> QED
    BY <2>1, <2>2 DEF AppendLine
<1>6. CASE partial
  <2>1. Tearing = 1
    BY <1>3, <1>6
  <2>2. FileWrong + 1 \in Nat /\ 0 \in Nat /\ FileWrong + 1 + 0 <= tears
    BY <1>0, <2>1
  <2>3. FileWrong' + 0 <= tears
    BY <1>0, <1>m, <1>5, <2>2, Less, Zenon
  <2> QED
    BY <1>2, <1>3, <2>3, Zenon
<1>7. CASE ~partial
  BY <1>0, <1>2, <1>3, <1>5, <1>7
<1> QED
  BY <1>6, <1>7

\* A process that dies once its line is appended has lost nothing.
LEMMA DiedAppending ==
  ASSUME TypeInv, FileWrong + Tearing <= tears, op.at = "append",
         file' = Appended(op.line), partial' = FALSE, UNCHANGED ghosts, tears' = tears
  PROVE  FileWrong' + Tearing' <= tears'
<1> USE DEF ghosts
<1>1. op.line \in RealLine /\ InDoubt(op.line, promised, forgiven, blessed)
  BY OpCases DEF TypeInv, Doubted, Rest
<1>2. FileWrong' = FileWrong
  BY <1>1, Numbers, AppendFolds DEF FileWrong
<1>3. Tearing' = 0
  BY DEF Tearing
<1> QED
  BY <1>2, <1>3, Numbers

\* A line left without its end costs nothing yet.
LEMMA TornStep ==
  ASSUME TypeInv, FileWrong + Tearing <= tears, Tear
  PROVE  FileWrong' + Tearing' <= tears'
<1>1. UNCHANGED <<file, promised, forgiven, blessed>> /\ tears' = tears + 1 /\ partial'
  BY DEF Tear, ghosts
<1>2. FileWrong' = FileWrong /\ Tearing' = 1
  BY <1>1 DEF FileWrong, FileEntries, FileMark, Tearing
<1> QED
  BY <1>1, <1>2, Numbers

LEMMA RefusedStep ==
  ASSUME TypeInv, FileWrong + Tearing <= tears, Refused
  PROVE  FileWrong' + Tearing' <= tears'
<1>1. UNCHANGED <<file, promised, forgiven, blessed>>
  BY DEF Refused, ghosts
<1>2. FileWrong' = FileWrong
  BY <1>1 DEF FileWrong, FileEntries, FileMark
<1>3. CASE UNCHANGED <<partial, tears>>
  <2>1. Tearing' = Tearing
    BY <1>3 DEF Tearing
  <2> QED
    BY <1>2, <1>3, <2>1
<1>4. CASE partial' = TRUE /\ tears' = tears + 1
  <2>1. Tearing' = 1
    BY <1>4 DEF Tearing
  <2> QED
    BY <1>2, <1>4, <2>1, Numbers
<1> QED
  BY <1>3, <1>4 DEF Refused

\* While the process is blind the file is as good as it was.
LEMMA BlindStep ==
  ASSUME JournalInv, Next, TypeInv', blind'
  PROVE  FileWrong' + Tearing' <= tears'
<1> USE DEF memory, ghosts, counts
<1>0. /\ TypeInv /\ TypeOK /\ OpShape /\ Doubted
      /\ FileWrong \in Nat /\ Tearing \in Nat /\ tears \in Nat /\ Len(file) \in Nat
      /\ promised \in SUBSET Keys /\ forgiven \in SUBSET Keys /\ FileEntries \in SUBSET Keys
      /\ FileWrong + Tearing <= tears
  BY Numbers DEF JournalInv, TypeInv
<1>m. FileWrong' \in Nat
  <2>1. promised' \in SUBSET Keys /\ forgiven' \in SUBSET Keys
    BY DEF TypeInv, TypeOK
  <2> QED
    BY <2>1, WrongType DEF FileWrong
<1>1. CASE Mutate
  <2>1. PICK l \in RealLine : Doubtful(l)
    BY <1>1 DEF Mutate, RealLine
  <2>2. UNCHANGED <<file, partial, tears>>
    BY <1>1 DEF Mutate
  <2>3. FileEntries' = FileEntries /\ FileMark' = FileMark /\ Tearing' = Tearing
    BY <2>2 DEF FileEntries, FileMark, Tearing
  <2>4. FileWrong' <= FileWrong
    <3>1. /\ promised' \in SUBSET promised /\ forgiven' \in SUBSET forgiven
          /\ blessed' \in {blessed, -1}
      BY <1>0, <2>1, DoubtfulType
    <3> QED
      BY <1>0, <3>1, <2>3, DoubtingHelps DEF FileWrong
  <2>5. FileWrong' + Tearing <= tears
    BY <1>0, <1>m, <2>4, Less, Zenon
  <2> QED
    BY <2>2, <2>3, <2>5, Zenon
<1>2. CASE AppendLine
  BY <1>0, <1>2, AppendStep
<1>3. CASE Rename
  <2>1. op.at = "rename" /\ file' = op.body /\ ~partial' /\ tears' = tears
        /\ Rewritten(op.line, op.body) /\ blind
    BY <1>3 DEF Rename
  <2>2. FileWrong' = 0
    BY <1>0, <2>1, RewrittenBlind
  <2>3. Tearing' = 0
    BY <2>1 DEF Tearing
  <2> QED
    BY <1>0, <2>1, <2>2, <2>3
<1>4. CASE Refused
  BY <1>0, <1>4, RefusedStep
<1>5. CASE LoadRead \/ LoadFold \/ Change \/ Ask \/ AskRead \/ AskFold
  <2>1. UNCHANGED <<file, partial, promised, forgiven, blessed, tears>>
    BY <1>5 DEF LoadRead, LoadFold, Change, Ask, AskRead, AskFold
  <2>2. FileWrong' = FileWrong /\ Tearing' = Tearing
    BY <2>1 DEF FileWrong, FileEntries, FileMark, Tearing
  <2> QED
    BY <1>0, <2>1, <2>2
<1>6. ~(Crash \/ Tear)
  BY DEF Crash, Tear, Forgotten
<1> QED
  BY <1>1, <1>2, <1>3, <1>4, <1>5, <1>6 DEF Next

\* A process that was blind dies with the file as good as it was.
LEMMA BlindDeath ==
  ASSUME JournalInv, Next, TypeInv', blind, ~blind'
  PROVE  /\ FileWrong' + Tearing' <= tears'
         /\ Turns' /\ Fresh' /\ Mutating' /\ MemoryKept'
<1> USE DEF memory, ghosts, counts
<1>0. /\ TypeInv /\ TypeOK /\ OpShape /\ Doubted
      /\ FileWrong \in Nat /\ Tearing \in Nat /\ tears \in Nat
      /\ promised \in SUBSET Keys /\ forgiven \in SUBSET Keys
      /\ FileWrong + Tearing <= tears
  BY Numbers DEF JournalInv, TypeInv
<1>1. Crash \/ Tear
  BY DEF Next, Mutate, LoadRead, LoadFold, Change, AppendLine, Rename, Refused, Ask,
         AskRead, AskFold
<1>2. /\ entries' = {} /\ mark' = 0 /\ lines' = 0 /\ op' = Rest /\ asker' = Rest
      /\ op'.at = "rest" /\ asker'.at = "rest" /\ ~loaded'
  BY <1>1 DEF Crash, Tear, Forgotten, Rest
<1>3. Turns' /\ Fresh' /\ Mutating' /\ MemoryKept'
  BY <1>2 DEF Turns, Fresh, Mutating, MemoryKept
<1>4. CASE Crash
  <2>0. tears' = tears
    BY <1>4 DEF Crash
  <2>1. CASE UNCHANGED <<file, partial, ghosts>>
    <3>1. FileWrong' = FileWrong /\ Tearing' = Tearing
      BY <2>1 DEF FileWrong, FileEntries, FileMark, Tearing
    <3> QED
      BY <1>0, <1>3, <2>0, <3>1
  <2>2. CASE op.at = "append" /\ file' = Appended(op.line) /\ partial' = FALSE
             /\ UNCHANGED ghosts
    BY <1>0, <1>3, <2>0, <2>2, DiedAppending
  <2>3. CASE op.at = "rename" /\ file' = op.body /\ partial' = FALSE
             /\ Rewritten(op.line, op.body)
    <3>1. FileWrong' = 0
      BY <1>0, <2>3, RewrittenBlind
    <3>2. Tearing' = 0
      BY <2>3 DEF Tearing
    <3> QED
      BY <1>0, <1>3, <2>0, <3>1, <3>2
  <2> QED
    BY <1>4, <2>1, <2>2, <2>3 DEF Crash
<1>5. CASE Tear
  BY <1>0, <1>3, <1>5, TornStep
<1> QED
  BY <1>1, <1>4, <1>5

\* A process that is not blind: the file and memory are as good as they were.
LEMMA SightedStep ==
  ASSUME JournalInv, Next, TypeInv', ~blind, ~blind'
  PROVE  /\ FileWrong' + Tearing' <= tears'
         /\ Turns' /\ Fresh' /\ Mutating' /\ MemoryKept'
<1> USE DEF memory, ghosts, counts
<1>0. /\ TypeInv /\ TypeInv' /\ TypeOK /\ OpShape /\ AskerShape /\ Doubted
      /\ Turns /\ Fresh /\ Mutating /\ MemoryKept
      /\ FileWrong + Tearing <= tears
  BY DEF JournalInv, TypeInv
<1>n. /\ FileWrong \in Nat /\ MemoryWrong \in Nat /\ Tearing \in Nat /\ tears \in Nat
      /\ Len(file) \in Nat /\ lines \in Nat
  BY <1>0, Numbers
<1>s. /\ promised \in SUBSET Keys /\ forgiven \in SUBSET Keys
      /\ entries \in SUBSET Keys /\ FileEntries \in SUBSET Keys
  BY <1>0, Numbers
<1>m. FileWrong' \in Nat /\ MemoryWrong' \in Nat
  <2>1. promised' \in SUBSET Keys /\ forgiven' \in SUBSET Keys
    BY <1>0 DEF TypeInv, TypeOK
  <2> QED
    BY <2>1, WrongType DEF FileWrong, MemoryWrong
<1>k. /\ FileWrong + Tearing <= tears
      /\ loaded /\ ~Loading => MemoryWrong + Tearing <= tears /\ Len(file) <= lines
  BY <1>0 DEF MemoryKept
<1>c. SUFFICES /\ Turns' /\ Fresh' /\ Mutating'
               /\ FileWrong' + Tearing' <= tears'
               /\ loaded' /\ ~Loading' =>
                    MemoryWrong' + Tearing' <= tears' /\ Len(file') <= lines'
  BY DEF MemoryKept
<1>1. CASE Mutate
  <2>1. PICK l \in RealLine :
          /\ op' = [at |-> IF loaded THEN "change" ELSE "read", line |-> l]
          /\ Doubtful(l)
    BY <1>1 DEF Mutate, RealLine
  <2>0. asker.at = "rest" /\ asker = Rest
    BY <1>0, <1>1, AskerCases DEF Mutate, Loading, TypeOK
  <2>2. /\ op = Rest /\ asker = Rest /\ op.at = "rest" /\ asker.at = "rest"
        /\ asker' = Rest /\ asker'.at = "rest" /\ loaded'
        /\ UNCHANGED <<file, partial, entries, mark, lines, tears>>
    BY <1>1, <2>0 DEF Mutate, Rest
  <2>3. op'.at = (IF loaded THEN "change" ELSE "read")
    BY <2>1
  <2>4. Turns' /\ Fresh' /\ Mutating'
    BY <1>0, <2>2, <2>3 DEF Turns, Fresh, Mutating, Loading
  <2>5. FileEntries' = FileEntries /\ FileMark' = FileMark /\ Tearing' = Tearing
    BY <2>2 DEF FileEntries, FileMark, Tearing
  <2>6. FileWrong' <= FileWrong /\ MemoryWrong' <= MemoryWrong
    <3>1. /\ promised' \in SUBSET promised /\ forgiven' \in SUBSET forgiven
          /\ blessed' \in {blessed, -1}
      BY <1>0, <2>1, DoubtfulType
    <3> QED
      BY <1>s, <3>1, <2>2, <2>5, DoubtingHelps DEF FileWrong, MemoryWrong
  <2>7. loaded' /\ ~Loading' => loaded /\ ~Loading
    BY <2>2, <2>3 DEF Loading
  <2>8. Tearing' = Tearing /\ tears' = tears /\ lines' = lines /\ Len(file') = Len(file)
    BY <2>2, <2>5
  <2>9. FileWrong' + Tearing' <= tears'
    <3>1. FileWrong' + Tearing <= tears
      <4>1. FileWrong' <= FileWrong
        BY <2>6, Zenon
      <4>2. FileWrong \in Nat /\ FileWrong' \in Nat /\ Tearing \in Nat /\ tears \in Nat
        BY <1>n, <1>m, Zenon
      <4> QED
        BY <4>1, <4>2, <1>k, Less, Zenon
    <3> QED
      BY <2>8, <3>1, Zenon
  <2>10. ASSUME loaded', ~Loading'
         PROVE  MemoryWrong' + Tearing' <= tears' /\ Len(file') <= lines'
    <3>1. MemoryWrong + Tearing <= tears /\ Len(file) <= lines
      BY <1>k, <2>7, <2>10
    <3>2. MemoryWrong' + Tearing <= tears
      BY <1>n, <1>m, <2>6, <3>1, Less, Zenon
    <3> QED
      BY <2>8, <3>1, <3>2, Zenon
  <2> QED
    BY <2>4, <2>9, <2>10
<1>2. CASE LoadRead
  <2>0. PICK raw \in Reads : /\ op' = [at |-> "fold", line |-> op.line, raw |-> raw]
                             /\ blind' = (blind \/ raw # ReadFile)
    BY <1>2 DEF LoadRead
  <2>r. raw = ReadFile
    BY <2>0, Zenon
  <2>1. /\ op' = [at |-> "fold", line |-> op.line, raw |-> ReadFile]
        /\ UNCHANGED <<file, partial, memory, asker, ghosts, counts>>
        /\ op.at = "read" /\ op # Rest /\ asker = Rest
    BY <1>0, <1>2, <2>0, <2>r DEF LoadRead, Rest, Turns
  <2>2. op'.at = "fold" /\ op'.raw = ReadFile /\ ReadFile' = ReadFile
    BY <2>1 DEF ReadFile
  <2>3. Turns' /\ Fresh' /\ Mutating' /\ Loading'
    BY <1>0, <2>1, <2>2 DEF Turns, Fresh, Mutating, Loading
  <2>4. FileWrong' = FileWrong /\ Tearing' = Tearing
    BY <2>1 DEF FileWrong, FileEntries, FileMark, Tearing
  <2> QED
    BY <1>k, <2>1, <2>3, <2>4
<1>3. CASE LoadFold
  <2>1. /\ op' = [at |-> "change", line |-> op.line] /\ op.at = "fold"
        /\ Fold(op.raw) /\ op.raw = ReadFile /\ asker = Rest /\ asker.at = "rest"
        /\ UNCHANGED <<file, partial, loaded, asker, ghosts, counts>>
    BY <1>0, <1>3 DEF LoadFold, Rest, Turns
  <2>2. op'.at = "change" /\ ~Loading' /\ entries = {} /\ mark = 0 /\ lines = 0
    BY <1>0, <2>1 DEF Fresh, Loading
  <2>3. entries' = FileEntries /\ mark' = FileMark /\ Len(file) <= lines'
    BY <1>0, <1>n, <2>1, <2>2, ReadFolds DEF Fold
  <2>4. Turns' /\ Fresh' /\ Mutating'
    <3>1. op # Rest
      BY <2>1 DEF Rest
    <3>2. loaded
      BY <1>0, <3>1 DEF TypeOK
    <3> QED
      BY <1>0, <2>1, <2>2, <3>2 DEF Turns, Fresh, Mutating
  <2>5. FileWrong' = FileWrong /\ Tearing' = Tearing /\ MemoryWrong' = FileWrong
    BY <2>1, <2>3 DEF FileWrong, MemoryWrong, FileEntries, FileMark, Tearing
  <2> QED
    BY <1>k, <2>1, <2>3, <2>4, <2>5
<1>4. CASE Change
  <2>1. /\ op.at = "change" /\ op # Rest /\ asker = Rest /\ asker.at = "rest"
        /\ op.line \in RealLine /\ op' = [at |-> "append", line |-> op.line]
        /\ InDoubt(op.line, promised, forgiven, blessed) /\ loaded /\ ~Loading
    BY <1>0, <1>4, OpCases DEF Change, Rest, Turns, Doubted, TypeOK, Loading
  <2>2. /\ UNCHANGED <<file, partial, loaded, lines, asker, ghosts, counts>>
        /\ entries' = Keeping(entries, op.line)
        /\ mark' = IF op.line.op = "commit" THEN op.line.mark ELSE mark
    BY <1>4 DEF Change
  <2>3. MemoryWrong' = MemoryWrong
    BY <1>s, <2>1, <2>2, ChangeInDoubt DEF MemoryWrong
  <2>4. Agrees(op.line, entries', mark')
    BY <1>s, <2>1, <2>2, MadeAgrees
  <2>5. op'.at = "append" /\ op'.line = op.line /\ asker'.at = "rest"
    BY <2>1, <2>2
  <2>6. Turns' /\ Fresh' /\ Mutating'
    BY <2>1, <2>2, <2>4, <2>5 DEF Turns, Fresh, Mutating, Loading
  <2>7. FileWrong' = FileWrong /\ Tearing' = Tearing
    BY <2>2 DEF FileWrong, FileEntries, FileMark, Tearing
  <2> QED
    BY <1>k, <2>1, <2>2, <2>3, <2>6, <2>7
<1>5. CASE AppendLine
  <2>1. /\ op.at = "append" /\ op # Rest /\ asker = Rest /\ asker.at = "rest"
        /\ op.line \in RealLine /\ InDoubt(op.line, promised, forgiven, blessed)
        /\ Agrees(op.line, entries, mark) /\ loaded /\ ~Loading
    BY <1>0, <1>5, OpCases DEF AppendLine, Rest, Turns, Doubted, TypeOK, Loading, Mutating
  <2>2. /\ UNCHANGED <<entries, mark, loaded, asker, tears, crashes>>
        /\ file' = Appended(op.line) /\ lines' = lines + 1
    BY <1>5 DEF AppendLine
  <2>3. ~partial'
    BY <1>5 DEF AppendLine
  <2>4. Tearing' = 0 /\ Tearing = IF partial THEN 1 ELSE 0
    BY <2>3 DEF Tearing
  <2>5. /\ WrongOf(promised, forgiven, blessed, FileEntries', FileMark') = FileWrong
        /\ FileEntries' \in SUBSET Keys
        /\ ~partial => Agrees(op.line, FileEntries', FileMark')
        /\ Len(file') = Len(file) + 1
    BY <1>0, <1>s, <2>1, <2>2, AppendFolds DEF FileWrong
  <2>6. CASE DueForCompaction
    <3>1. op' = [at |-> "rename", line |-> op.line, body |-> Kept] /\ UNCHANGED ghosts
      BY <1>5, <2>6 DEF AppendLine
    <3>2. op'.at = "rename" /\ op'.line = op.line /\ op'.body = Kept /\ Kept' = Kept
      BY <3>1, <2>2 DEF Kept
    <3>3. Turns' /\ Fresh' /\ Mutating'
      BY <2>1, <2>2, <2>3, <3>2 DEF Turns, Fresh, Mutating, Loading
    <3>4. FileWrong' = FileWrong /\ MemoryWrong' = MemoryWrong
      BY <2>2, <2>5, <3>1 DEF FileWrong, MemoryWrong
    <3> QED
      BY <1>n, <1>k, <2>1, <2>2, <2>4, <2>5, <3>3, <3>4
  <2>7. CASE ~DueForCompaction
    <3>1. op' = Rest /\ Returned(op.line)
      BY <1>5, <2>7 DEF AppendLine
    <3>2. op' = Rest /\ op'.at = "rest"
      BY <3>1 DEF Rest
    <3>3. Turns' /\ Fresh' /\ Mutating'
      BY <2>1, <2>2, <3>2 DEF Turns, Fresh, Mutating, Loading
    <3>4. /\ promised' = NowPromised(op.line, promised)
          /\ forgiven' = NowForgiven(op.line, forgiven)
          /\ blessed' = NowBlessed(op.line, blessed)
      BY <1>0, <2>1, <3>1, ReturnedType
    <3>5. MemoryWrong' = MemoryWrong
      BY <1>s, <2>1, <2>2, <3>4, Acknowledging DEF MemoryWrong
    <3>7. FileWrong' + Tearing' <= tears'
      BY <1>0, <1>5, AppendStep
    <3>8. MemoryWrong' + Tearing' <= tears' /\ Len(file') <= lines'
      <4>1. MemoryWrong + Tearing <= tears /\ Len(file) <= lines
        BY <1>k, <2>1
      <4>2. tears' = tears /\ lines' = lines + 1
        BY <2>2
      <4> QED
        BY <1>n, <2>4, <2>5, <3>5, <4>1, <4>2
    <3> QED
      BY <3>3, <3>7, <3>8
  <2> QED
    BY <2>6, <2>7
<1>6. CASE Rename
  <2>1. /\ op.at = "rename" /\ op # Rest /\ asker = Rest /\ asker.at = "rest"
        /\ op.line \in RealLine /\ InDoubt(op.line, promised, forgiven, blessed)
        /\ Agrees(op.line, entries, mark) /\ op.body = Kept /\ loaded /\ ~Loading
    BY <1>0, <1>6, OpCases DEF Rename, Rest, Turns, Doubted, TypeOK, Loading, Mutating
  <2>2. /\ UNCHANGED <<entries, mark, loaded, asker, counts>>
        /\ file' = Kept /\ lines' = Len(Kept) /\ op' = Rest /\ Returned(op.line)
    BY <1>6, <2>1 DEF Rename, Rewritten
  <2>3. ~partial'
    BY <1>6 DEF Rename
  <2>4. FileEntries' = entries /\ FileMark' = mark /\ Tearing' = 0 /\ Len(Kept) \in Nat
    <3>1. mark \in Marks
      BY <1>0 DEF TypeOK, Marks
    <3>2. /\ FoldedEntries({}, Kept) = entries /\ FoldedMark(0, Kept) = mark
          /\ Kept \in Seq(Line)
      BY <1>s, <3>1, KeptFolds DEF Marks
    <3> QED
      BY <2>2, <2>3, <3>2 DEF FileEntries, FileMark, Tearing
  <2>5. op'.at = "rest" /\ op' = Rest
    BY <2>2 DEF Rest
  <2>6. Turns' /\ Fresh' /\ Mutating'
    BY <2>1, <2>2, <2>5 DEF Turns, Fresh, Mutating, Loading
  <2>7. /\ promised' = NowPromised(op.line, promised)
        /\ forgiven' = NowForgiven(op.line, forgiven)
        /\ blessed' = NowBlessed(op.line, blessed)
    BY <1>0, <2>1, <2>2, ReturnedType
  <2>8. MemoryWrong' = MemoryWrong
    BY <1>s, <2>1, <2>2, <2>7, Acknowledging DEF MemoryWrong
  <2>9. FileWrong' = MemoryWrong'
    BY <2>2, <2>4 DEF FileWrong, MemoryWrong
  <2> QED
    BY <1>n, <1>k, <2>1, <2>2, <2>4, <2>6, <2>8, <2>9
<1>7. CASE Ask
  <2>1. /\ asker' = [at |-> "read"] /\ ~loaded /\ loaded'
        /\ UNCHANGED <<file, partial, entries, mark, lines, op, ghosts, counts>>
    BY <1>7 DEF Ask
  <2>2. /\ op = Rest /\ op.at = "rest" /\ op' = Rest /\ op'.at = "rest"
        /\ asker'.at = "read" /\ entries = {} /\ mark = 0 /\ lines = 0
    BY <1>0, <2>1 DEF TypeOK, Fresh, Rest
  <2>3. Turns' /\ Fresh' /\ Mutating' /\ Loading'
    BY <2>1, <2>2 DEF Turns, Fresh, Mutating, Loading
  <2>4. FileWrong' = FileWrong /\ Tearing' = Tearing
    BY <2>1 DEF FileWrong, FileEntries, FileMark, Tearing
  <2> QED
    BY <1>k, <2>1, <2>3, <2>4
<1>8. CASE AskRead
  <2>0. PICK raw \in Reads : /\ asker' = [at |-> "fold", raw |-> raw]
                             /\ blind' = (blind \/ raw # ReadFile)
    BY <1>8 DEF AskRead
  <2>r. raw = ReadFile
    BY <2>0, Zenon
  <2>1. /\ asker' = [at |-> "fold", raw |-> ReadFile] /\ asker.at = "read" /\ asker # Rest
        /\ op = Rest /\ op.at = "rest" /\ op' = Rest
        /\ UNCHANGED <<file, partial, memory, op, ghosts, counts>>
    BY <1>0, <1>8, <2>0, <2>r DEF AskRead, Rest, Turns
  <2>2. asker'.at = "fold" /\ asker'.raw = ReadFile /\ ReadFile' = ReadFile
    BY <2>1 DEF ReadFile
  <2>3. Turns' /\ Fresh' /\ Mutating' /\ Loading'
    BY <1>0, <2>1, <2>2 DEF Turns, Fresh, Mutating, Loading
  <2>4. FileWrong' = FileWrong /\ Tearing' = Tearing
    BY <2>1 DEF FileWrong, FileEntries, FileMark, Tearing
  <2> QED
    BY <1>k, <2>1, <2>3, <2>4
<1>9. CASE AskFold
  <2>1. /\ asker' = Rest /\ asker.at = "fold" /\ asker # Rest
        /\ Fold(asker.raw) /\ asker.raw = ReadFile /\ op = Rest /\ op.at = "rest"
        /\ UNCHANGED <<file, partial, loaded, op, ghosts, counts>>
    BY <1>0, <1>9 DEF AskFold, Rest, Turns
  <2>2. /\ asker'.at = "rest" /\ ~Loading' /\ entries = {} /\ mark = 0 /\ lines = 0
        /\ loaded
    BY <1>0, <2>1 DEF Fresh, Loading, TypeOK
  <2>3. entries' = FileEntries /\ mark' = FileMark /\ Len(file) <= lines'
    BY <1>0, <1>n, <2>1, <2>2, ReadFolds DEF Fold
  <2>4. Turns' /\ Fresh' /\ Mutating'
    BY <1>0, <2>1, <2>2 DEF Turns, Fresh, Mutating
  <2>5. FileWrong' = FileWrong /\ Tearing' = Tearing /\ MemoryWrong' = FileWrong
    BY <2>1, <2>3 DEF FileWrong, MemoryWrong, FileEntries, FileMark, Tearing
  <2> QED
    BY <1>k, <2>1, <2>3, <2>4, <2>5
<1>10. CASE Refused
  <2>1. /\ op.at \in {"append", "rename"} /\ op # Rest /\ asker = Rest /\ asker.at = "rest"
        /\ op' = Rest /\ op'.at = "rest" /\ loaded /\ ~Loading
        /\ UNCHANGED <<file, memory, asker, ghosts>>
    BY <1>0, <1>10 DEF Refused, Rest, Turns, TypeOK, Loading
  <2>2. Turns' /\ Fresh' /\ Mutating'
    BY <2>1 DEF Turns, Fresh, Mutating, Loading
  <2>3. FileWrong' = FileWrong /\ MemoryWrong' = MemoryWrong
    BY <2>1 DEF FileWrong, MemoryWrong, FileEntries, FileMark
  <2>4. FileWrong' + Tearing' <= tears'
    BY <1>0, <1>10, RefusedStep
  <2>5. MemoryWrong + Tearing' <= tears'
    <3>1. CASE UNCHANGED <<partial, tears>>
      BY <1>k, <2>1, <3>1 DEF Tearing
    <3>2. CASE partial' = TRUE /\ tears' = tears + 1
      <4>1. Tearing' = 1
        BY <3>2 DEF Tearing
      <4> QED
        BY <1>n, <1>k, <2>1, <3>2, <4>1
    <3> QED
      BY <1>10, <3>1, <3>2 DEF Refused
  <2> QED
    BY <1>k, <2>1, <2>2, <2>3, <2>4, <2>5
<1>11. CASE Crash
  <2>1. /\ entries' = {} /\ mark' = 0 /\ lines' = 0 /\ op' = Rest /\ asker' = Rest
        /\ op'.at = "rest" /\ asker'.at = "rest" /\ ~loaded' /\ loaded /\ tears' = tears
    BY <1>11 DEF Crash, Forgotten, Rest
  <2>2. Turns' /\ Fresh' /\ Mutating'
    BY <2>1 DEF Turns, Fresh, Mutating
  <2>3. CASE UNCHANGED <<file, partial, ghosts>>
    <3>1. FileWrong' = FileWrong /\ Tearing' = Tearing
      BY <2>3 DEF FileWrong, FileEntries, FileMark, Tearing
    <3> QED
      BY <1>k, <2>1, <2>2, <3>1
  <2>4. CASE op.at = "append" /\ file' = Appended(op.line) /\ partial' = FALSE
             /\ UNCHANGED ghosts
    BY <1>0, <2>1, <2>2, <2>4, DiedAppending
  <2>5. CASE op.at = "rename" /\ file' = op.body /\ partial' = FALSE /\ UNCHANGED ghosts
    <3>1. op.body = Kept /\ asker.at = "rest" /\ ~Loading
      BY <1>0, <2>5 DEF Mutating, Turns, Loading, Rest
    <3>2. mark \in Marks
      BY <1>0 DEF TypeOK, Marks
    <3>3. FileEntries' = entries /\ FileMark' = mark
      BY <1>s, <2>5, <3>1, <3>2, KeptFolds DEF FileEntries, FileMark, Marks
    <3>4. FileWrong' = MemoryWrong
      BY <2>5, <3>3 DEF FileWrong, MemoryWrong
    <3>5. Tearing' = 0
      BY <2>5 DEF Tearing
    <3> QED
      BY <1>n, <1>k, <2>1, <2>2, <3>1, <3>4, <3>5
  <2> QED
    BY <1>11, <2>3, <2>4, <2>5 DEF Crash
<1>12. CASE Tear
  <2>1. /\ entries' = {} /\ mark' = 0 /\ lines' = 0 /\ op' = Rest /\ asker' = Rest
        /\ op'.at = "rest" /\ asker'.at = "rest" /\ ~loaded'
    BY <1>12 DEF Tear, Forgotten, Rest
  <2>2. Turns' /\ Fresh' /\ Mutating'
    BY <2>1 DEF Turns, Fresh, Mutating
  <2> QED
    BY <1>0, <1>12, <2>1, <2>2, TornStep
<1> QED
  BY <1>1, <1>2, <1>3, <1>4, <1>5, <1>6, <1>7, <1>8, <1>9, <1>10, <1>11, <1>12 DEF Next

\* No step makes the file wrong about more than the torn lines, nor the memory of a
\* process that is not blind.
LEMMA JournalStep == JournalInv /\ [Next]_vars => JournalInv'
<1> SUFFICES ASSUME JournalInv, [Next]_vars
             PROVE  JournalInv'
  OBVIOUS
<1>0. TypeInv'
  BY TypeStep DEF JournalInv
<1>1. CASE Next
  <2>1. blind' => loaded'
    <3>0. /\ blind => loaded
          /\ op # Rest \/ asker # Rest => loaded
      BY DEF JournalInv, TypeInv, TypeOK
    <3>1. CASE Crash \/ Tear
      BY <3>1 DEF Crash, Tear, Forgotten
    <3>2. CASE Mutate \/ Ask
      BY <3>2 DEF Mutate, Ask
    <3>3. CASE LoadRead \/ AskRead
      <4>1. loaded' = loaded /\ (op # Rest \/ asker # Rest)
        BY <3>3 DEF LoadRead, AskRead, memory, Rest
      <4> QED
        BY <3>0, <4>1
    <3>4. CASE LoadFold \/ Change \/ AppendLine \/ Rename \/ Refused \/ AskFold
      <4>1. UNCHANGED <<blind, loaded>>
        BY <3>4 DEF LoadFold, Change, AppendLine, Rename, Refused, AskFold, memory
      <4> QED
        BY <3>0, <4>1
    <3> QED
      BY <1>1, <3>1, <3>2, <3>3, <3>4 DEF Next
  <2> QED
    BY <1>0, <1>1, <2>1, BlindStep, BlindDeath, SightedStep DEF JournalInv
<1>2. CASE UNCHANGED vars
  BY <1>0, <1>2 DEF vars, JournalInv, FileWrong, MemoryWrong, FileEntries, FileMark,
     Tearing, Turns, Fresh, Mutating, MemoryKept, Loading, ReadFile, Kept
<1> QED
  BY <1>1, <1>2

-----------------------------------------------------------------------------
(* The theorems.                                                           *)

LEMMA JournalInvariant == Spec => []JournalInv
BY JournalInit, JournalStep, PTL DEF Spec

\* What was acknowledged stays in the file over refusals and deaths, whoever asks
\* meanwhile: a death between two awaits costs nothing, a line left without its end at
\* most the next one, and rewriting the file nothing unless memory is not the file's.
THEOREM AcknowledgedIsKept == Spec => []KeepsWhatReturned
<1>1. JournalInv => KeepsWhatReturned
  <2> SUFFICES ASSUME JournalInv PROVE KeepsWhatReturned
    OBVIOUS
  <2>1. /\ FileWrong \in Nat /\ MemoryWrong \in Nat /\ Tearing \in Nat /\ tears \in Nat
        /\ FileWrong + Tearing <= tears
        /\ loaded /\ ~Loading /\ ~blind => MemoryWrong + Tearing <= tears
    BY Numbers DEF JournalInv, MemoryKept
  <2>2. /\ Wrong(FoldedEntries({}, file), FoldedMark(0, file)) = FileWrong
        /\ Wrong(entries, mark) = MemoryWrong
    BY DEF Wrong, WrongOf, FileWrong, MemoryWrong, FileEntries, FileMark
  <2> QED
    BY <2>1, <2>2 DEF KeepsWhatReturned
<1> QED
  BY <1>1, JournalInvariant, PTL

\* A mutation returns with a file shorter than the threshold, or than four times what
\* is owed, however often the disk has refused or the process has died.
THEOREM FileStaysBounded == Spec => FileIsBounded
<1>1. JournalInv /\ [Next]_vars =>
        [op # Rest /\ op' = Rest /\ file' # file /\ loaded' /\ ~blind =>
           Len(file') < CompactAt \/ Len(file') < 4 * Live']_vars
  <2> SUFFICES ASSUME JournalInv, Next, op # Rest, op' = Rest, file' # file, loaded', ~blind
               PROVE  Len(file') < CompactAt \/ Len(file') < 4 * Live'
    OBVIOUS
  <2>0. /\ TypeInv /\ TypeOK /\ OpShape /\ Doubted /\ Turns /\ Mutating /\ MemoryKept
        /\ Len(file) \in Nat /\ lines \in Nat /\ CompactAt \in Nat \ {0}
        /\ entries \in SUBSET Keys /\ mark \in Marks
    BY Numbers, JournalAssumption DEF JournalInv, TypeInv, TypeOK, Marks
  <2>1. AppendLine \/ Rename
    BY DEF Next, Mutate, LoadRead, LoadFold, Change, Refused, Ask, AskRead, AskFold,
           Crash, Tear, Forgotten, Rest
  <2>2. Live' = Live
    BY <2>1 DEF AppendLine, Rename, Live
  <2>3. Live \in Nat
    <3>1. IsFiniteSet(entries)
      BY <2>0, JournalAssumption, FS_Subset
    <3> QED
      BY <3>1, FS_CardinalityType DEF Live
  <2>4. CASE AppendLine
    <3>1. ~DueForCompaction
      BY <2>4 DEF AppendLine, Rest
    <3>2. /\ op.at = "append" /\ asker.at = "rest" /\ loaded /\ ~Loading
          /\ op.line \in RealLine
      BY <2>0, <2>4, OpCases DEF AppendLine, Turns, TypeOK, Loading, Rest
    <3>3. Len(file) <= lines
      BY <2>0, <3>2 DEF MemoryKept
    <3>4. file' = Appended(op.line) /\ Len(file') = Len(file) + 1
      BY <2>0, <2>4, <3>2, AppendFolds DEF AppendLine, Doubted, TypeOK
    <3> QED
      BY <2>0, <2>2, <2>3, <3>1, <3>3, <3>4 DEF DueForCompaction
  <2>5. CASE Rename
    <3>1. file' = Kept
      BY <2>0, <2>5 DEF Rename, Mutating
    <3>2. Len(file') = Live
      BY <2>0, <3>1, KeptFolds DEF Marks
    <3> QED
      BY <2>0, <2>2, <2>3, <3>2
  <2> QED
    BY <2>1, <2>4, <2>5
<1> QED
  BY <1>1, JournalInvariant, PTL DEF Spec, FileIsBounded
=============================================================================
