------------------------- MODULE OperStatsLedgerProofs -------------------------
(***************************************************************************)
(* OperStats implements StatLedger for any number of parsers, files, keys  *)
(* and records: a COMMIT posts its file, whole and once, and no other step *)
(* changes what OPER_STAT says.                                            *)
(***************************************************************************)
EXTENDS OperStatsProofs, FunctionTheorems, WellFoundedInduction

-------------------------------------------------------------------------------
(* Sums as numbers of pairs *)

\* A pair <<x, i>> for each i from 1 to n[x]: as many as n adds up to over S.
Pairs(S, n) == UNION {{x} \X (1 .. n[x]) : x \in S}

LEMMA PairsElement ==
  ASSUME NEW S, NEW n, NEW u
  PROVE  u \in Pairs(S, n) <=> \E x \in S : \E i \in 1 .. n[x] : u = <<x, i>>
BY DEF Pairs

LEMMA PairsFinite ==
  ASSUME NEW S, IsFiniteSet(S), NEW n, \A x \in S : n[x] \in Nat
  PROVE  IsFiniteSet(Pairs(S, n)) /\ Cardinality(Pairs(S, n)) \in Nat
<1> DEFINE part == [x \in S |-> {x} \X (1 .. n[x])]
           parts == {part[x] : x \in S}
<1>1. part \in Surjection(S, parts)
  BY DEF Surjection
<1>2. ASSUME NEW x \in S PROVE IsFiniteSet(part[x])
  <2>1. IsFiniteSet({x})
    BY FS_Singleton
  <2>2. IsFiniteSet(1 .. n[x])
    BY FS_Interval
  <2> QED  BY <2>1, <2>2, FS_Product
<1>3. Pairs(S, n) = UNION parts
  BY DEF Pairs
<1> HIDE DEF part
<1>4. \A T \in parts : IsFiniteSet(T)
  BY <1>2
<1> HIDE DEF parts
<1>5. IsFiniteSet(parts)
  BY <1>1, FS_Surjection
<1> QED  BY <1>3, <1>4, <1>5, FS_UNION, FS_CardinalityType

\* One more for one element that is there, or the first one for a new one.
OneMore(S, n, T, m, y) ==
  /\ IsFiniteSet(S) /\ \A x \in S : n[x] \in Nat
  /\ T = S \union {y} /\ m[y] \in Nat
  /\ y \in S => m[y] = n[y] + 1
  /\ y \notin S => m[y] = 1
  /\ \A x \in S : x # y => m[x] = n[x]

LEMMA PairsAdd ==
  ASSUME NEW S, NEW n, NEW T, NEW m, NEW y, OneMore(S, n, T, m, y)
  PROVE  Cardinality(Pairs(T, m)) = Cardinality(Pairs(S, n)) + 1
<1> USE DEF OneMore
<1>1. Pairs(T, m) = Pairs(S, n) \union {<<y, m[y]>>}
  <2>1. ASSUME NEW u \in Pairs(T, m) PROVE u \in Pairs(S, n) \union {<<y, m[y]>>}
    <3>1. PICK x \in T : \E i \in 1 .. m[x] : u = <<x, i>>
      BY <2>1, PairsElement
    <3>2. CASE x # y
      BY <3>1, <3>2, PairsElement
    <3>3. CASE x = y
      <4>1. PICK i \in 1 .. m[y] : u = <<y, i>>
        BY <3>1, <3>3
      <4>2. i # m[y] => i \in 1 .. n[y] /\ y \in S
        BY <4>1
      <4> QED  BY <4>1, <4>2, PairsElement
    <3> QED  BY <3>1, <3>2, <3>3
  <2>2. ASSUME NEW u \in Pairs(S, n) PROVE u \in Pairs(T, m)
    <3>1. PICK x \in S : \E i \in 1 .. n[x] : u = <<x, i>>
      BY <2>2, PairsElement
    <3>2. x \in T /\ (x # y => m[x] = n[x])
      OBVIOUS
    <3> QED  BY <3>1, <3>2, PairsElement
  <2>3. <<y, m[y]>> \in Pairs(T, m)
    <3>1. y \in T /\ m[y] \in 1 .. m[y]
      OBVIOUS
    <3> QED  BY <3>1, PairsElement
  <2> QED  BY <2>1, <2>2, <2>3
<1>2. <<y, m[y]>> \notin Pairs(S, n)
  <2> SUFFICES ASSUME <<y, m[y]>> \in Pairs(S, n) PROVE FALSE
    OBVIOUS
  <2>1. PICK x \in S : \E i \in 1 .. n[x] : <<y, m[y]>> = <<x, i>>
    BY PairsElement
  <2> QED  BY <2>1
<1> QED  BY <1>1, <1>2, PairsFinite, FS_AddElement

LEMMA PairsSame ==
  ASSUME NEW S, NEW n, NEW m, \A x \in S : m[x] = n[x]
  PROVE  Pairs(S, m) = Pairs(S, n)
BY DEF Pairs

\* A set of natural numbers has a smallest one.
LEMMA Smallest ==
  ASSUME NEW S, S \in SUBSET Nat, S # {}
  PROVE  \E i \in S : \A j \in S : i <= j
<1>1. PICK i \in S : \A j \in S : ~(<<j, i>> \in OpToRel(<, Nat))
  BY NatLessThanWellFounded, WFMin
<1>2. \A j \in S : ~(j < i)
  BY <1>1 DEF OpToRel
<1> QED  BY <1>2

-------------------------------------------------------------------------------
(* What an entry's difference stands for *)

Hits(es, k) == {i \in 1 .. Len(es) : es[i].key = k}

DiffOf(es) == [i \in 1 .. Len(es) |-> es[i].diff]

\* The records that a vector of statistics adds to a key.
Added(es, k) == Pairs(Hits(es, k), DiffOf(es))

LEMMA HitsFinite ==
  ASSUME NEW es \in Seq(Entry), NEW k
  PROVE  /\ IsFiniteSet(Hits(es, k)) /\ \A i \in Hits(es, k) : DiffOf(es)[i] \in Nat
         /\ Len(es) \in Nat /\ \A i \in 1 .. Len(es) : es[i].diff \in Nat
<1>1. Hits(es, k) \in SUBSET (1 .. Len(es)) /\ Len(es) \in Nat
  BY LenProperties DEF Hits
<1>2. IsFiniteSet(1 .. Len(es))
  BY <1>1, FS_Interval
<1>3. ASSUME NEW i \in 1 .. Len(es) PROVE es[i].diff \in Nat
  <2>1. es[i] \in Entry
    BY ElementOfSeq
  <2> QED  BY <2>1 DEF Entry
<1>4. \A i \in Hits(es, k) : DiffOf(es)[i] \in Nat
  BY <1>1, <1>3 DEF DiffOf
<1>5. IsFiniteSet(Hits(es, k))
  BY <1>1, <1>2, FS_Subset
<1> QED  BY <1>1, <1>3, <1>4, <1>5

\* Counting a record appends an entry for its key or adds one to one entry of it.
Hit(es, new, key) ==
  \E i \in 1 .. Len(es) :
    /\ es[i].key = key /\ SameButDiffs(es, new) /\ new[i].diff = es[i].diff + 1
    /\ \A j \in 1 .. Len(es) : j # i => new[j] = es[j]

\* An appended entry is the last one, the others stay.
LEMMA EntryAppended ==
  ASSUME NEW es \in Seq(Entry), NEW e \in Entry
  PROVE  /\ Len(Append(es, e)) = Len(es) + 1 /\ Len(es) \in Nat
         /\ \A j \in 1 .. Len(es) : Append(es, e)[j] = es[j]
         /\ Append(es, e)[Len(es) + 1] = e
BY AppendProperties, LenProperties

LEMMA CountingHits ==
  ASSUME NEW es \in Seq(Entry), NEW key \in Keys
  PROVE  \/ /\ AddFileOperStat(es, key) = Append(es, NewEntry(key))
            /\ \A i \in 1 .. Len(es) : es[i].key # key
         \/ Hit(es, AddFileOperStat(es, key), key)
<1> DEFINE hits == {i \in DOMAIN es : es[i].key = key}
           first == CHOOSE i \in hits : \A j \in hits : i <= j
           counted == [es EXCEPT ![first].diff = @ + 1]
<1>1. DOMAIN es = 1 .. Len(es) /\ \A i \in 1 .. Len(es) : es[i] \in Entry
  BY LenProperties, ElementOfSeq
<1>2. CASE hits = {}
  BY <1>1, <1>2 DEF AddFileOperStat, NewEntry
<1>3. CASE hits # {}
  <2>1. AddFileOperStat(es, key) = counted
    BY <1>3 DEF AddFileOperStat
  <2>2. first \in hits
    <3>1. hits \in SUBSET Nat
      BY <1>1
    <3> HIDE DEF hits
    <3> QED  BY <1>3, <3>1, Smallest
  <2>3. first \in 1 .. Len(es) /\ es[first].key = key
    BY <1>1, <2>2
  <2> DEFINE more == [es[first] EXCEPT !.diff = @ + 1]
  <2> HIDE DEF first
  <2>4. /\ more \in Entry /\ more.diff = es[first].diff + 1
        /\ more.row = es[first].row /\ more.key = es[first].key
        /\ more.from_db = es[first].from_db
    <3>1. es[first] \in Entry
      BY <1>1, <2>3
    <3>2. es[first].diff + 1 \in Nat
      BY <3>1 DEF Entry
    <3> QED  BY <3>1, <3>2 DEF Entry
  <2>5. counted = [es EXCEPT ![first] = more]
    OBVIOUS
  <2> HIDE DEF more
  <2>6. /\ counted \in Seq(Entry) /\ Len(counted) = Len(es)
        /\ \A j \in 1 .. Len(es) : counted[j] = IF j = first THEN more ELSE es[j]
    BY <2>3, <2>4, <2>5, ExceptSeq
  <2> HIDE DEF counted
  <2> QED  BY <2>1, <2>3, <2>4, <2>6 DEF SameButDiffs, Hit
<1> QED  BY <1>2, <1>3

LEMMA HitDiffs ==
  ASSUME NEW es \in Seq(Entry), NEW new, NEW key, Hit(es, new, key)
  PROVE  /\ SameButDiffs(es, new)
         /\ \A j \in 1 .. Len(es) : es[j].diff > 0 => new[j].diff > 0
<1>1. PICK i \in 1 .. Len(es) :
        /\ SameButDiffs(es, new) /\ new[i].diff = es[i].diff + 1
        /\ \A j \in 1 .. Len(es) : j # i => new[j] = es[j]
  BY DEF Hit
<1>2. es[i].diff \in Nat
  BY HitsFinite
<1> QED  BY <1>1, <1>2

\* So it adds one record to its key and none to another.
LEMMA CountingAdds ==
  ASSUME NEW es \in Seq(Entry), NEW key \in Keys, NEW k \in Keys
  PROVE  Cardinality(Added(AddFileOperStat(es, key), k))
           = Cardinality(Added(es, k)) + (IF k = key THEN 1 ELSE 0)
<1> DEFINE new == AddFileOperStat(es, key)
<1>1. /\ IsFiniteSet(Hits(es, k)) /\ \A i \in Hits(es, k) : DiffOf(es)[i] \in Nat
      /\ Len(es) \in Nat /\ \A i \in 1 .. Len(es) : es[i].diff \in Nat
  BY HitsFinite
<1>2. Cardinality(Added(es, k)) \in Nat
  BY <1>1, PairsFinite DEF Added
<1>3. CASE /\ new = Append(es, NewEntry(key)) /\ \A i \in 1 .. Len(es) : es[i].key # key
  <2>1. NewEntry(key) \in Entry /\ NewEntry(key).key = key /\ NewEntry(key).diff = 1
    BY DEF NewEntry, Entry
  <2>2. /\ Len(new) = Len(es) + 1 /\ new[Len(es) + 1] = NewEntry(key)
        /\ \A i \in 1 .. Len(es) : new[i] = es[i]
    BY <1>3, <2>1, EntryAppended
  <2> HIDE DEF new
  <2>3. CASE k = key
    <3>1. /\ Hits(new, k) = Hits(es, k) \union {Len(es) + 1}
          /\ Len(es) + 1 \notin Hits(es, k)
      BY <1>1, <2>1, <2>2, <2>3 DEF Hits
    <3>2. /\ DiffOf(new)[Len(es) + 1] = 1
          /\ \A i \in Hits(es, k) : DiffOf(new)[i] = DiffOf(es)[i]
      BY <1>1, <2>1, <2>2 DEF DiffOf, Hits
    <3>3. Cardinality(Pairs(Hits(new, k), DiffOf(new))) = Cardinality(Pairs(Hits(es, k), DiffOf(es))) + 1
      <4>1. OneMore(Hits(es, k), DiffOf(es), Hits(new, k), DiffOf(new), Len(es) + 1)
        BY <1>1, <3>1, <3>2 DEF OneMore
      <4> QED  BY <4>1, PairsAdd
    <3> QED  BY <2>3, <3>3 DEF Added, new
  <2>4. CASE k # key
    <3>1. Hits(new, k) = Hits(es, k)
      BY <1>1, <2>1, <2>2, <2>4 DEF Hits
    <3>2. \A i \in Hits(es, k) : DiffOf(new)[i] = DiffOf(es)[i]
      BY <1>1, <2>2 DEF DiffOf, Hits
    <3>3. Added(new, k) = Added(es, k)
      BY <3>1, <3>2, PairsSame DEF Added
    <3> QED  BY <1>2, <2>4, <3>3 DEF new
  <2> QED  BY <2>3, <2>4
<1>4. CASE Hit(es, new, key)
  <2> HIDE DEF new
  <2>1. PICK y \in 1 .. Len(es) :
          /\ es[y].key = key /\ SameButDiffs(es, new) /\ new[y].diff = es[y].diff + 1
          /\ \A i \in 1 .. Len(es) : i # y => new[i] = es[i]
    BY <1>4 DEF Hit
  <2>2. Hits(new, k) = Hits(es, k) /\ (k = key => y \in Hits(es, k)) /\ (k # key => y \notin Hits(es, k))
    BY <2>1 DEF Hits, SameButDiffs
  <2>3. /\ DiffOf(new)[y] = DiffOf(es)[y] + 1 /\ DiffOf(es)[y] \in Nat
        /\ \A i \in Hits(es, k) : i # y => DiffOf(new)[i] = DiffOf(es)[i]
    BY <1>1, <2>1 DEF DiffOf, Hits, SameButDiffs
  <2>4. CASE k = key
    <3>1. Hits(new, k) = Hits(es, k) \union {y}
      BY <2>2, <2>4
    <3>2. Cardinality(Pairs(Hits(new, k), DiffOf(new))) = Cardinality(Pairs(Hits(es, k), DiffOf(es))) + 1
      <4>1. OneMore(Hits(es, k), DiffOf(es), Hits(new, k), DiffOf(new), y)
        BY <1>1, <2>2, <2>3, <2>4, <3>1 DEF OneMore
      <4> QED  BY <4>1, PairsAdd
    <3> QED  BY <2>4, <3>2 DEF Added, new
  <2>5. CASE k # key
    <3>1. Added(new, k) = Added(es, k)
      BY <2>2, <2>3, <2>5, PairsSame DEF Added
    <3> QED  BY <1>2, <2>5, <3>1 DEF new
  <2> QED  BY <2>4, <2>5
<1> QED  BY <1>3, <1>4, CountingHits

\* The counted records of a key among the first n of a file.
Taken(f, n, k) == {i \in 1 .. n : Records[f][i].key = k /\ Records[f][i].counted}

LEMMA TakenAll ==
  ASSUME NEW f \in Files, NEW k
  PROVE  CountedIn(f, k) = Taken(f, Len(Records[f]), k)
<1>1. Records[f] \in Seq([key : Keys, counted : BOOLEAN])
  BY StatsAssumption
<1> QED  BY <1>1, LenProperties DEF CountedIn, Taken

LEMMA TakenStep ==
  ASSUME NEW f, NEW n \in Nat, NEW k
  PROVE  /\ Cardinality(Taken(f, n, k)) \in Nat
         /\ Cardinality(Taken(f, n + 1, k))
              = Cardinality(Taken(f, n, k))
                + (IF Records[f][n + 1].key = k /\ Records[f][n + 1].counted THEN 1 ELSE 0)
<1>1. IsFiniteSet(Taken(f, n, k)) /\ Cardinality(Taken(f, n, k)) \in Nat
  <2>1. Taken(f, n, k) \in SUBSET (1 .. n)
    BY DEF Taken
  <2>2. IsFiniteSet(1 .. n)
    BY FS_Interval
  <2> QED  BY <2>1, <2>2, FS_Subset, FS_CardinalityType
<1>2. n + 1 \notin Taken(f, n, k)
  BY DEF Taken
<1>3. Taken(f, n + 1, k) = IF Records[f][n + 1].key = k /\ Records[f][n + 1].counted
                             THEN Taken(f, n, k) \union {n + 1} ELSE Taken(f, n, k)
  BY DEF Taken
<1>4. Cardinality(Taken(f, n, k) \union {n + 1}) = Cardinality(Taken(f, n, k)) + 1
  BY <1>1, <1>2, FS_AddElement
<1> QED  BY <1>1, <1>3, <1>4

-------------------------------------------------------------------------------
(* The invariant *)

\* How many of its file's records p's entries stand for.
Covered(p) == IF pc[p] = "count" THEN at[p] - 1 ELSE Len(Records[file[p]])

\* The differences of a key's entries are the counted records seen so far.
Balanced(p) ==
  /\ pc[p] \in {"idle", "stats"} => at[p] = 1
  /\ pc[p] = "count" => at[p] <= Len(Records[file[p]]) + 1
  /\ pc[p] \in {"count", "write"} =>
       \A k \in Keys :
         Cardinality(Added(stats[p], k)) = Cardinality(Taken(file[p], Covered(p), k))

\* Entries whose rows p's transaction has inserted.
Inserted(p) ==
  {i \in 1 .. Len(stats[p]) : pc[p] = "write" /\ i < at[p] /\ ~stats[p][i].from_db}

\* An entry that was not read has records and no id before its INSERT; entries
\* that were read are of different rows.
EntriesApart(p) ==
  pc[p] \in {"count", "write"} =>
    \A i \in 1 .. Len(stats[p]) :
      /\ ~stats[p][i].from_db =>
           stats[p][i].diff > 0 /\ (i \notin Inserted(p) => stats[p][i].row = 0)
      /\ stats[p][i].from_db =>
           \A j \in 1 .. Len(stats[p]) :
             stats[p][j].from_db /\ stats[p][j].row = stats[p][i].row => j = i

\* Inserted rows that are not committed are of nobody else.
RowsApart ==
  \A p, q \in Parsers : \A i \in Inserted(p) :
    /\ stats[p][i].row \notin DOMAIN table
    /\ \A j \in Inserted(q) : stats[p][i].row = stats[q][j].row => p = q /\ i = j

\* No two parsers have one file, and none has one that is loaded.
FilesApart ==
  \A p \in Parsers :
    pc[p] # "idle" =>
      /\ file[p] \notin loaded
      /\ \A q \in Parsers : q # p /\ pc[q] # "idle" => file[q] # file[p]

Books ==
  /\ FilesApart /\ RowsApart
  /\ \A p \in Parsers : Balanced(p) /\ EntriesApart(p)

-------------------------------------------------------------------------------
(* What a step leaves of it *)

\* A parser that does not move keeps what is its own.
LEMMA UnmovedBalanced ==
  ASSUME NEW q \in Parsers, Unmoved(q), Balanced(q) /\ EntriesApart(q)
  PROVE  Balanced(q)' /\ EntriesApart(q)'
<1>1. Covered(q)' = Covered(q) /\ Inserted(q)' = Inserted(q)
  BY DEF Unmoved, Covered, Inserted
<1>2. Balanced(q)'
  BY <1>1 DEF Unmoved, Balanced
<1>3. EntriesApart(q)'
  BY <1>1 DEF Unmoved, EntriesApart
<1> QED  BY <1>2, <1>3

\* The parser that moves has no other inserted rows than before.
LEMMA RowsStayApart ==
  ASSUME RowsApart, NEW p \in Parsers, \A q \in Parsers : q # p => Unmoved(q),
         UNCHANGED table,
         \A i \in Inserted(p)' : i \in Inserted(p) /\ stats'[p][i].row = stats[p][i].row
  PROVE  RowsApart'
<1>1. \A q \in Parsers : \A i \in Inserted(q)' :
        i \in Inserted(q) /\ stats'[q][i].row = stats[q][i].row
  BY DEF Unmoved, Inserted
<1> QED  BY <1>1 DEF RowsApart

LEMMA FilesStayApart ==
  ASSUME FilesApart, UNCHANGED loaded,
         \A q \in Parsers : pc'[q] # "idle" => pc[q] # "idle" /\ file'[q] = file[q]
  PROVE  FilesApart'
BY DEF FilesApart

\* The books are kept when the parser that moves keeps its own and the rows and
\* files stay apart.
LEMMA BooksKept ==
  ASSUME Books, NEW p \in Parsers, \A q \in Parsers : q # p => Unmoved(q),
         Balanced(p)', EntriesApart(p)', RowsApart', FilesApart'
  PROVE  Books'
BY UnmovedBalanced DEF Books

LEMMA StartBooks ==
  ASSUME Ind, Books, NEW p \in Parsers, Start(p)
  PROVE  Books'
<1>1. \A q \in Parsers : q # p => Unmoved(q)
  BY StartGood DEF GoodStep
<1>2. PICK f \in Files \ loaded : (\A q \in Parsers : file[q] # f) /\ file' = [file EXCEPT ![p] = f]
  BY DEF Start
<1>3. /\ pc[p] = "idle" /\ pc'[p] = "stats" /\ file'[p] = f
      /\ UNCHANGED <<stats, at, table, nextId, loaded>>
  BY <1>2 DEF Start, Ind, TypeOK
<1>4. Balanced(p)' /\ EntriesApart(p)'
  BY <1>3 DEF Books, Balanced, EntriesApart
<1>5. RowsApart'
  <2>1. Inserted(p)' = {}
    BY <1>3 DEF Inserted
  <2> QED  BY <1>1, <1>3, <2>1, RowsStayApart DEF Books
<1>6. FilesApart'
  <2>1. \A q \in Parsers : q # p => pc'[q] = pc[q] /\ file'[q] = file[q]
    BY <1>1 DEF Unmoved
  <2> QED  BY <1>2, <1>3, <2>1 DEF Books, FilesApart
<1> QED  BY <1>1, <1>4, <1>5, <1>6, BooksKept

LEMMA FillBooks ==
  ASSUME Ind, Books, NEW p \in Parsers, FillOperStats(p)
  PROVE  Books'
<1>1. \A q \in Parsers : q # p => Unmoved(q)
  BY FillGood DEF GoodStep
<1>2. pc[p] = "stats" /\ pc'[p] = "count" /\ UNCHANGED <<file, at, table, loaded>>
  BY FillStep DEF FillOperStats
<1>3. /\ stats'[p] \in Seq(Entry)
      /\ \A i \in 1 .. Len(stats'[p]) :
           /\ stats'[p][i].from_db /\ stats'[p][i].diff = 0
           /\ \A j \in 1 .. Len(stats'[p]) : stats'[p][j].row = stats'[p][i].row => j = i
  BY FillStep
<1>4. Balanced(p)'
  <2>1. at'[p] = 1 /\ file[p] \in Files
    BY <1>2 DEF Books, Balanced, Ind, ParserOK
  <2>2. Len(Records[file[p]]) \in Nat
    BY <2>1, RecordsType
  <2>3. ASSUME NEW k PROVE Added(stats'[p], k) = {}
    BY <1>3, PairsElement DEF Added, Hits, DiffOf
  <2>4. ASSUME NEW k PROVE Taken(file[p], 0, k) = {}
    BY DEF Taken
  <2>5. Covered(p)' = 0
    BY <1>2, <2>1 DEF Covered
  <2>6. ASSUME NEW k \in Keys
        PROVE  Cardinality(Added(stats'[p], k)) = Cardinality(Taken(file'[p], Covered(p)', k))
    BY <1>2, <2>3, <2>4, <2>5
  <2> QED  BY <1>2, <2>1, <2>2, <2>6 DEF Balanced
<1>5. EntriesApart(p)'
  BY <1>3 DEF EntriesApart
<1>6. RowsApart'
  <2>1. Inserted(p)' = {}
    BY <1>2 DEF Inserted
  <2> QED  BY <1>1, <1>2, <2>1, RowsStayApart DEF Books
<1>7. FilesApart'
  <2>1. \A q \in Parsers : pc'[q] # "idle" => pc[q] # "idle" /\ file'[q] = file[q]
    BY <1>1, <1>2 DEF Unmoved
  <2> QED  BY <1>2, <2>1, FilesStayApart DEF Books
<1> QED  BY <1>1, <1>4, <1>5, <1>6, <1>7, BooksKept

LEMMA CountBooks ==
  ASSUME Ind, Books, NEW p \in Parsers, CountRecord(p)
  PROVE  Books'
<1> DEFINE f == file[p]
           n == at[p] - 1
           record == Records[file[p]][at[p]]
<1>1. \A q \in Parsers : q # p => Unmoved(q)
  BY CountGood DEF GoodStep
<1>2. /\ pc[p] = "count" /\ UNCHANGED <<pc, file, table, loaded>>
      /\ at[p] <= Len(Records[file[p]]) /\ at'[p] = at[p] + 1
      /\ at[p] \in Nat \ {0} /\ f \in Files /\ stats[p] \in Seq(Entry)
      /\ stats'[p] = IF record.counted THEN AddFileOperStat(stats[p], record.key) ELSE stats[p]
  BY DEF CountRecord, Advance, Ind, TypeOK, ParserOK
<1>3. Len(Records[f]) \in Nat /\ record.key \in Keys
  <2>1. at[p] \in 1 .. Len(Records[f])
    BY <1>2, RecordsType
  <2> QED  BY <1>2, <2>1, RecordsType
<1>4. Covered(p) = n /\ Covered(p)' = n + 1 /\ n \in Nat /\ n + 1 = at[p]
  BY <1>2 DEF Covered
<1>5. ASSUME NEW k \in Keys
      PROVE  Cardinality(Added(stats'[p], k)) = Cardinality(Taken(f, n + 1, k))
  <2>1. Cardinality(Added(stats[p], k)) = Cardinality(Taken(f, n, k))
    BY <1>2, <1>4 DEF Books, Balanced
  <2>2. /\ Cardinality(Taken(f, n, k)) \in Nat
        /\ Cardinality(Taken(f, n + 1, k))
             = Cardinality(Taken(f, n, k)) + (IF record.key = k /\ record.counted THEN 1 ELSE 0)
    <3> HIDE DEF f, n, record
    <3>1. record = Records[f][n + 1]
      BY <1>4 DEF record, f
    <3> QED  BY <1>4, <3>1, TakenStep
  <2>3. Cardinality(Added(stats'[p], k))
          = Cardinality(Added(stats[p], k)) + (IF record.key = k /\ record.counted THEN 1 ELSE 0)
    <3>1. CASE record.counted
      <4> HIDE DEF record
      <4> QED  BY <1>2, <1>3, <3>1, CountingAdds
    <3>2. CASE ~record.counted
      BY <1>2, <2>1, <2>2, <3>2
    <3> QED  BY <3>1, <3>2
  <2> QED  BY <2>1, <2>2, <2>3
<1>6. Balanced(p)'
  BY <1>2, <1>3, <1>4, <1>5 DEF Balanced
<1>7. EntriesApart(p)'
  <2>1. \A i \in 1 .. Len(stats[p]) :
          /\ ~stats[p][i].from_db => stats[p][i].diff > 0 /\ stats[p][i].row = 0
          /\ stats[p][i].from_db =>
               \A j \in 1 .. Len(stats[p]) :
                 stats[p][j].from_db /\ stats[p][j].row = stats[p][i].row => j = i
    BY <1>2 DEF Books, EntriesApart, Inserted
  <2> SUFFICES \A i \in 1 .. Len(stats'[p]) :
                 /\ ~stats'[p][i].from_db => stats'[p][i].diff > 0 /\ stats'[p][i].row = 0
                 /\ stats'[p][i].from_db =>
                      \A j \in 1 .. Len(stats'[p]) :
                        stats'[p][j].from_db /\ stats'[p][j].row = stats'[p][i].row => j = i
    BY DEF EntriesApart
  <2>2. CASE stats'[p] = stats[p]
    BY <2>1, <2>2
  <2>3. CASE stats'[p] = Append(stats[p], NewEntry(record.key))
    <3>1. /\ NewEntry(record.key) \in Entry
          /\ NewEntry(record.key).row = 0 /\ ~NewEntry(record.key).from_db
          /\ NewEntry(record.key).diff = 1
      BY <1>3 DEF NewEntry, Entry
    <3> HIDE DEF record
    <3>2. /\ Len(stats'[p]) = Len(stats[p]) + 1 /\ Len(stats[p]) \in Nat
          /\ \A j \in 1 .. Len(stats[p]) : stats'[p][j] = stats[p][j]
          /\ stats'[p][Len(stats[p]) + 1] = NewEntry(record.key)
      <4>1. stats[p] \in Seq(Entry)
        BY <1>2
      <4> QED  BY <2>3, <3>1, <4>1, EntryAppended
    <3>3. \A j \in 1 .. Len(stats'[p]) : j \in 1 .. Len(stats[p]) \/ j = Len(stats[p]) + 1
      BY <3>2
    <3> SUFFICES ASSUME NEW i \in 1 .. Len(stats'[p])
                 PROVE  /\ ~stats'[p][i].from_db => stats'[p][i].diff > 0 /\ stats'[p][i].row = 0
                        /\ stats'[p][i].from_db =>
                             \A j \in 1 .. Len(stats'[p]) :
                               stats'[p][j].from_db /\ stats'[p][j].row = stats'[p][i].row => j = i
      OBVIOUS
    <3>4. CASE i \in 1 .. Len(stats[p])
      <4>1. stats'[p][i] = stats[p][i]
        BY <3>2, <3>4
      <4>2. ~stats'[p][i].from_db => stats'[p][i].diff > 0 /\ stats'[p][i].row = 0
        BY <2>1, <3>4, <4>1
      <4>3. ASSUME stats'[p][i].from_db, NEW j \in 1 .. Len(stats'[p]),
                   stats'[p][j].from_db, stats'[p][j].row = stats'[p][i].row
            PROVE  j = i
        <5>1. j \in 1 .. Len(stats[p])
          BY <3>1, <3>2, <3>3, <4>3
        <5>2. stats'[p][j] = stats[p][j]
          BY <3>2, <5>1
        <5> QED  BY <2>1, <3>4, <4>1, <4>3, <5>1, <5>2
      <4> QED  BY <4>2, <4>3
    <3>5. CASE i = Len(stats[p]) + 1
      BY <3>1, <3>2, <3>5
    <3> QED  BY <3>3, <3>4, <3>5
  <2>4. CASE Hit(stats[p], stats'[p], record.key)
    <3>1. /\ SameButDiffs(stats[p], stats'[p])
          /\ \A j \in 1 .. Len(stats[p]) : stats[p][j].diff > 0 => stats'[p][j].diff > 0
      BY <1>2, <2>4, HitDiffs
    <3> QED  BY <2>1, <3>1 DEF SameButDiffs
  <2>5. \/ stats'[p] = stats[p]
        \/ stats'[p] = Append(stats[p], NewEntry(record.key))
        \/ Hit(stats[p], stats'[p], record.key)
    <3> HIDE DEF record
    <3> QED  BY <1>2, <1>3, CountingHits
  <2> QED  BY <2>2, <2>3, <2>4, <2>5
<1>8. RowsApart'
  <2>1. Inserted(p)' = {}
    BY <1>2 DEF Inserted
  <2> QED  BY <1>1, <1>2, <2>1, RowsStayApart DEF Books
<1>9. FilesApart'
  BY <1>2, FilesStayApart DEF Books
<1> QED  BY <1>1, <1>6, <1>7, <1>8, <1>9, BooksKept

LEMMA StartTransactionBooks ==
  ASSUME Ind, Books, NEW p \in Parsers, StartTransaction(p)
  PROVE  Books'
<1>1. \A q \in Parsers : q # p => Unmoved(q)
  BY StartTransactionGood DEF GoodStep
<1>2. /\ pc[p] = "count" /\ pc'[p] = "write" /\ at'[p] = 1
      /\ at[p] = Len(Records[file[p]]) + 1
      /\ UNCHANGED <<file, stats, table, loaded>> /\ file[p] \in Files
  BY DEF StartTransaction, Ind, TypeOK, ParserOK
<1>3. Inserted(p) = {} /\ Inserted(p)' = {}
  <2>1. \A i \in 1 .. Len(stats[p]) : ~(i < 1)
    BY EntryType DEF Ind
  <2> QED  BY <1>2, <2>1 DEF Inserted
<1>4. Balanced(p)'
  <2>1. Covered(p)' = Covered(p)
    BY <1>2, RecordsType DEF Covered
  <2> QED  BY <1>2, <2>1 DEF Books, Balanced
<1>5. EntriesApart(p)'
  BY <1>2, <1>3 DEF Books, EntriesApart
<1>6. RowsApart'
  BY <1>1, <1>2, <1>3, RowsStayApart DEF Books
<1>7. FilesApart'
  <2>1. \A q \in Parsers : pc'[q] # "idle" => pc[q] # "idle" /\ file'[q] = file[q]
    BY <1>1, <1>2 DEF Unmoved
  <2> QED  BY <1>2, <2>1, FilesStayApart DEF Books
<1> QED  BY <1>1, <1>4, <1>5, <1>6, <1>7, BooksKept

\* An UPDATE's entry and those passed over are no inserted ones.
LEMMA UpdateBooks ==
  ASSUME Ind, Books, NEW p \in Parsers, UpdateRow(p)
  PROVE  Books'
<1>1. \A q \in Parsers : q # p => Unmoved(q)
  BY UpdateGood DEF GoodStep
<1>2. PICK i \in NextDue(p) : stats[p][i].from_db /\ at' = [at EXCEPT ![p] = i + 1]
  BY DEF UpdateRow
<1>3. /\ UNCHANGED <<pc, file, stats, table, loaded>> /\ at'[p] = i + 1
      /\ at[p] \in Nat
  BY <1>2 DEF UpdateRow, Ind, TypeOK
<1>4. EntriesApart(p) /\ Balanced(p)
  BY DEF Books
<1>5. Inserted(p)' = Inserted(p)
  <2>1. ASSUME NEW j \in 1 .. Len(stats[p]), ~stats[p][j].from_db
        PROVE  j < i + 1 <=> j < at[p]
    <3>1. stats[p][j].diff > 0
      BY <1>2, <1>4, <2>1, NextEntry DEF EntriesApart
    <3> QED  BY <1>2, <1>3, <2>1, <3>1, NextEntry
  <2> QED  BY <1>3, <2>1 DEF Inserted
<1>6. Balanced(p)' /\ EntriesApart(p)'
  <2>1. pc[p] = "write"
    BY <1>2, NextEntry
  <2> QED  BY <1>3, <1>4, <1>5, <2>1 DEF Balanced, EntriesApart, Covered
<1>7. RowsApart'
  BY <1>1, <1>3, <1>5, RowsStayApart DEF Books
<1>8. FilesApart'
  BY <1>3, FilesStayApart DEF Books
<1> QED  BY <1>1, <1>6, <1>7, <1>8, BooksKept

\* A new id is nobody's yet: neither committed nor inserted by another.
LEMMA InsertBooks ==
  ASSUME Ind, Books, NEW p \in Parsers, InsertRow(p)
  PROVE  Books'
<1>1. \A q \in Parsers : q # p => Unmoved(q)
  BY InsertGood DEF GoodStep
<1>2. PICK i \in NextDue(p) :
        /\ ~stats[p][i].from_db
        /\ SameButIds(stats[p], stats'[p])
        /\ stats'[p][i].row = nextId
        /\ \A j \in 1 .. Len(stats[p]) : j # i => stats'[p][j] = stats[p][j]
        /\ at' = [at EXCEPT ![p] = i + 1]
        /\ UNCHANGED <<pc, file, table, loaded>>
  BY InsertStep
<1>3. /\ pc[p] = "write" /\ i \in 1 .. Len(stats[p]) /\ i >= at[p] /\ at'[p] = i + 1
      /\ at[p] \in Nat /\ nextId \in Nat /\ nextId >= 1
      /\ DOMAIN table \subseteq 1 .. nextId - 1
  BY <1>2, NextEntry DEF Ind, TypeOK
<1>4. EntriesApart(p) /\ Balanced(p)
  BY DEF Books
<1>5. Inserted(p)' = Inserted(p) \union {i} /\ i \notin Inserted(p)
  <2>1. ASSUME NEW j \in 1 .. Len(stats[p]), ~stats[p][j].from_db
        PROVE  j < i + 1 <=> j < at[p] \/ j = i
    <3>1. stats[p][j].diff > 0
      BY <1>3, <1>4, <2>1 DEF EntriesApart
    <3> QED  BY <1>2, <1>3, <2>1, <3>1, NextEntry
  <2> QED  BY <1>2, <1>3, <2>1 DEF Inserted, SameButIds
<1>6. Balanced(p)'
  <2>1. ASSUME NEW k \in Keys PROVE Added(stats'[p], k) = Added(stats[p], k)
    <3>1. Hits(stats'[p], k) = Hits(stats[p], k)
      BY <1>2 DEF SameButIds, Hits
    <3>2. \A j \in Hits(stats[p], k) : DiffOf(stats'[p])[j] = DiffOf(stats[p])[j]
      BY <1>2 DEF SameButIds, Hits, DiffOf
    <3> QED  BY <3>1, <3>2, PairsSame DEF Added
  <2>2. Covered(p)' = Covered(p)
    BY <1>2, <1>3 DEF Covered
  <2> QED  BY <1>2, <1>3, <1>4, <2>1, <2>2 DEF Balanced
<1>7. EntriesApart(p)'
  <2> SUFFICES ASSUME NEW j \in 1 .. Len(stats[p])
               PROVE  /\ ~stats'[p][j].from_db =>
                           stats'[p][j].diff > 0 /\ (j \notin Inserted(p)' => stats'[p][j].row = 0)
                      /\ stats'[p][j].from_db =>
                           \A m \in 1 .. Len(stats[p]) :
                             stats'[p][m].from_db /\ stats'[p][m].row = stats'[p][j].row => m = j
    BY <1>2 DEF EntriesApart, SameButIds
  <2>1. CASE j = i
    BY <1>2, <1>3, <1>4, <1>5, <2>1 DEF EntriesApart, SameButIds
  <2>2. CASE j # i
    BY <1>2, <1>3, <1>4, <1>5, <2>2 DEF EntriesApart, SameButIds
  <2> QED  BY <2>1, <2>2
<1>8. RowsApart'
  <2>1. ASSUME NEW q \in Parsers, NEW j \in Inserted(q)
        PROVE  stats[q][j].row \in 1 .. nextId - 1
    <3>1. pc[q] = "write" /\ j \in 1 .. Len(stats[q]) /\ j < at[q] /\ ~stats[q][j].from_db
      BY DEF Inserted
    <3>2. stats[q][j].diff > 0
      BY <3>1 DEF Books, EntriesApart
    <3>3. EntryOK(q, j)
      BY <3>1 DEF Ind, ParserOK, EntriesOK
    <3> QED  BY <3>1, <3>2, <3>3 DEF EntryOK
  <2>2. ASSUME NEW q \in Parsers, NEW j \in Inserted(q)'
        PROVE  \/ j \in Inserted(q) /\ stats'[q][j].row = stats[q][j].row
               \/ q = p /\ j = i /\ stats'[q][j].row = nextId
    <3>1. CASE q = p
      <4>1. j \in Inserted(p) => j \in 1 .. Len(stats[p]) /\ j # i
        BY <1>5 DEF Inserted
      <4> QED  BY <1>2, <1>5, <2>2, <3>1, <4>1
    <3>2. CASE q # p
      BY <1>1, <2>2, <3>2 DEF Unmoved, Inserted
    <3> QED  BY <3>1, <3>2
  <2>3. ASSUME NEW q \in Parsers, NEW j \in Inserted(q)'
        PROVE  stats'[q][j].row \notin DOMAIN table
    BY <1>3, <2>2, <2>3 DEF Books, RowsApart
  <2>4. ASSUME NEW q \in Parsers, NEW r \in Parsers,
               NEW j \in Inserted(q)', NEW m \in Inserted(r)',
               stats'[q][j].row = stats'[r][m].row
        PROVE  q = r /\ j = m
    <3>1. CASE j \in Inserted(q) /\ m \in Inserted(r)
                 /\ stats'[q][j].row = stats[q][j].row /\ stats'[r][m].row = stats[r][m].row
      <4>1. RowsApart /\ stats[q][j].row = stats[r][m].row
        BY <2>4, <3>1 DEF Books
      <4>2. \A y \in Inserted(r) : stats[q][j].row = stats[r][y].row => q = r /\ j = y
        BY <3>1, <4>1 DEF RowsApart
      <4> QED  BY <3>1, <4>1, <4>2
    <3>2. CASE stats'[q][j].row = nextId /\ stats'[r][m].row = nextId
      BY <1>3, <2>1, <2>2, <2>4, <3>2
    <3>3. \A n \in 1 .. nextId - 1 : n # nextId
      BY <1>3
    <3> QED  BY <2>1, <2>2, <2>4, <3>1, <3>2, <3>3
  <2> QED  BY <1>2, <2>3, <2>4 DEF RowsApart
<1>9. FilesApart'
  BY <1>2, FilesStayApart DEF Books
<1> QED  BY <1>1, <1>6, <1>7, <1>8, <1>9, BooksKept

LEMMA EndBooks ==
  ASSUME Ind, Books, NEW p \in Parsers, End(p), UNCHANGED <<table, nextId, loaded>>
  PROVE  Books'
<1>1. /\ \A q \in Parsers : q # p => Unmoved(q)
      /\ pc'[p] = "idle" /\ at'[p] = 1
  BY EndStep DEF End, Ind, TypeOK
<1>2. Balanced(p)' /\ EntriesApart(p)'
  BY <1>1 DEF Balanced, EntriesApart
<1>3. RowsApart'
  <2>1. Inserted(p)' = {}
    BY <1>1 DEF Inserted
  <2> QED  BY <1>1, <2>1, RowsStayApart DEF Books
<1>4. FilesApart'
  <2>1. \A q \in Parsers : pc'[q] # "idle" => pc[q] # "idle" /\ file'[q] = file[q]
    BY <1>1 DEF Unmoved
  <2> QED  BY <2>1, FilesStayApart DEF Books
<1> QED  BY <1>1, <1>2, <1>3, <1>4, BooksKept

-------------------------------------------------------------------------------
(* COMMIT *)

\* At COMMIT every entry with a difference has been written, and no other entry
\* has its row: Diff and KeyOf find it.
LEMMA CommitEntry ==
  ASSUME Ind, Books, NEW p \in Parsers, CommitTransaction(p),
         NEW j \in 1 .. Len(stats[p]), stats[p][j].diff > 0
  PROVE  /\ stats[p][j].row \in Locks(p)
         /\ stats[p][j].from_db \/ j \in Inserted(p)
         /\ stats[p][j].row \in DOMAIN table => table[stats[p][j].row].key = stats[p][j].key
         /\ Diff(p, stats[p][j].row) = stats[p][j].diff
         /\ KeyOf(p, stats[p][j].row) = stats[p][j].key
<1>1. /\ pc[p] = "write" /\ Due(p) = {} /\ at[p] \in Nat /\ Len(stats[p]) \in Nat
      /\ DOMAIN stats[p] = 1 .. Len(stats[p])
      /\ DOMAIN table \subseteq 1 .. nextId - 1
      /\ stats[p][j].from_db \in BOOLEAN
  BY EntryType DEF CommitTransaction, Ind, TypeOK, Entry
<1>2. j < at[p]
  BY <1>1 DEF Due
<1>3. /\ EntriesApart(p) /\ RowsApart
      /\ \A m \in 1 .. Len(stats[p]) : EntryOK(p, m)
  BY <1>1 DEF Books, Ind, ParserOK, EntriesOK
<1>4. stats[p][j].row \in Locks(p)
  BY <1>1, <1>2 DEF Locks
<1>5. ~stats[p][j].from_db => j \in Inserted(p)
  BY <1>1, <1>2 DEF Inserted
<1>6. \A m \in 1 .. Len(stats[p]) :
         \/ stats[p][m].from_db /\ stats[p][m].row \in DOMAIN table
         \/ ~stats[p][m].from_db /\ m \in Inserted(p) /\ stats[p][m].row \notin DOMAIN table
         \/ ~stats[p][m].from_db /\ m \notin Inserted(p) /\ stats[p][m].row = 0
  BY <1>1, <1>3 DEF EntriesApart, RowsApart, EntryOK
<1>7. stats[p][j].row # 0
  BY <1>1, <1>2, <1>3 DEF EntryOK
<1>8. ASSUME NEW m \in 1 .. Len(stats[p]), stats[p][m].row = stats[p][j].row PROVE m = j
  <2>1. CASE stats[p][j].from_db
    <3>1. stats[p][m].from_db
      BY <1>1, <1>6, <1>8, <2>1
    <3> QED  BY <1>1, <1>3, <1>8, <2>1, <3>1 DEF EntriesApart
  <2>2. CASE ~stats[p][j].from_db
    <3>1. j \in Inserted(p) /\ m \in Inserted(p)
      BY <1>5, <1>6, <1>7, <1>8, <2>2
    <3> QED  BY <1>3, <1>8, <3>1 DEF RowsApart
  <2> QED  BY <2>1, <2>2
<1>9. stats[p][j].row \in DOMAIN table => table[stats[p][j].row].key = stats[p][j].key
  BY <1>1, <1>3, <1>5 DEF EntryOK, RowsApart
<1>10. j = CHOOSE m \in DOMAIN stats[p] : stats[p][m].row = stats[p][j].row
  BY <1>1, <1>8
<1> QED  BY <1>1, <1>4, <1>5, <1>9, <1>10 DEF Diff, KeyOf

\* What a row counted before, none if it is new.
Before(r) == IF r \in DOMAIN table THEN table[r].cnt ELSE 0

\* COMMIT adds each entry's difference to its row and leaves the other rows.
LEMMA CommitTable ==
  ASSUME Ind, Books, NEW p \in Parsers, CommitTransaction(p)
  PROVE  /\ \A j \in 1 .. Len(stats[p]) :
              stats[p][j].diff > 0 =>
                LET r == stats[p][j].row
                IN  /\ r \in DOMAIN table' /\ table'[r].key = stats[p][j].key
                    /\ table'[r].cnt = Before(r) + stats[p][j].diff
         /\ \A r \in DOMAIN table' :
              \/ r \in DOMAIN table /\ table'[r] = table[r]
              \/ \E j \in 1 .. Len(stats[p]) : stats[p][j].diff > 0 /\ stats[p][j].row = r
         /\ DOMAIN table \subseteq DOMAIN table'
<1>1. /\ DOMAIN table' = DOMAIN table \union Locks(p)
      /\ \A r \in DOMAIN table \union Locks(p) :
           table'[r] = IF r \notin DOMAIN table THEN [key |-> KeyOf(p, r), cnt |-> Diff(p, r)]
                       ELSE IF r \in Locks(p) THEN [table[r] EXCEPT !.cnt = @ + Diff(p, r)]
                       ELSE table[r]
  BY DEF CommitTransaction
<1>2. \A r \in DOMAIN table : table[r] \in [key : Keys, cnt : Nat]
  BY DEF Ind, TypeOK
<1>3. ASSUME NEW j \in 1 .. Len(stats[p]), stats[p][j].diff > 0
      PROVE  LET r == stats[p][j].row
             IN  /\ r \in DOMAIN table' /\ table'[r].key = stats[p][j].key
                 /\ table'[r].cnt = Before(r) + stats[p][j].diff
  <2> DEFINE r == stats[p][j].row
  <2>1. /\ r \in Locks(p) /\ Diff(p, r) = stats[p][j].diff /\ KeyOf(p, r) = stats[p][j].key
        /\ r \in DOMAIN table => table[r].key = stats[p][j].key
    BY <1>3, CommitEntry
  <2>2. stats[p][j].diff \in Nat
    BY EntryType DEF Ind, Entry
  <2> HIDE DEF r
  <2>3. CASE r \notin DOMAIN table
    <3>1. table'[r] = [key |-> stats[p][j].key, cnt |-> stats[p][j].diff]
      BY <1>1, <2>1, <2>3
    <3> QED  BY <1>1, <2>1, <2>2, <2>3, <3>1 DEF Before, r
  <2>4. CASE r \in DOMAIN table
    <3>1. table'[r] = [table[r] EXCEPT !.cnt = @ + stats[p][j].diff]
      BY <1>1, <2>1, <2>4
    <3>2. table[r] \in [key : Keys, cnt : Nat]
      BY <1>2, <2>4
    <3>3. table'[r].key = table[r].key /\ table'[r].cnt = table[r].cnt + stats[p][j].diff
      BY <2>2, <3>1, <3>2
    <3> QED  BY <1>1, <2>1, <2>4, <3>3 DEF Before, r
  <2> QED  BY <2>3, <2>4
<1>4. ASSUME NEW r \in Locks(p)
      PROVE  \E j \in 1 .. Len(stats[p]) : stats[p][j].diff > 0 /\ stats[p][j].row = r
  <2>1. at[p] \in Nat /\ at[p] \in 1 .. Len(stats[p]) + 1 /\ Len(stats[p]) \in Nat
    BY EntryType DEF CommitTransaction, Ind, TypeOK
  <2> QED  BY <1>4, <2>1 DEF Locks
<1>5. ASSUME NEW r \in DOMAIN table', r \notin Locks(p)
      PROVE  r \in DOMAIN table /\ table'[r] = table[r]
  BY <1>1, <1>5
<1> QED  BY <1>1, <1>3, <1>4, <1>5

LEMMA UnitsElement ==
  ASSUME NEW k, NEW u
  PROVE  u \in Units(k) <=> \E r \in RowsOf(k) : \E n \in 1 .. table[r].cnt : u = <<r, n>>
BY DEF Units

LEMMA UnitsFinite ==
  ASSUME Ind, NEW k \in Keys
  PROVE  IsFiniteSet(Units(k)) /\ Cardinality(Units(k)) \in Nat
<1> DEFINE count == [r \in RowsOf(k) |-> table[r].cnt]
<1>1. IsFiniteSet(RowsOf(k))
  BY RowsFinite
<1>2. \A r \in RowsOf(k) : count[r] \in Nat
  BY DEF Ind, TypeOK, RowsOf
<1>3. Units(k) = Pairs(RowsOf(k), count)
  BY DEF Units, Pairs
<1> HIDE DEF count
<1> QED  BY <1>1, <1>2, <1>3, PairsFinite

\* The units that COMMIT adds: each entry's, behind those that its row had.
LEMMA CommitUnits ==
  ASSUME Ind, Books, NEW p \in Parsers, CommitTransaction(p), NEW k \in Keys
  PROVE  Cardinality(Units(k)') = Cardinality(Units(k)) + Cardinality(Added(stats[p], k))
<1> DEFINE A == Added(stats[p], k)
           row(j) == stats[p][j].row
           move == [u \in A |-> <<row(u[1]), Before(row(u[1])) + u[2]>>]
           new == {move[u] : u \in A}
<1>1. ASSUME NEW u
      PROVE  u \in A <=> \E j \in 1 .. Len(stats[p]) :
                          stats[p][j].key = k /\ \E i \in 1 .. stats[p][j].diff : u = <<j, i>>
  BY PairsElement DEF Added, Hits, DiffOf
<1>2. \A r : Before(r) \in Nat /\ (r \in DOMAIN table => Before(r) = table[r].cnt)
  BY DEF Ind, TypeOK, Before
<1>3. ASSUME NEW j \in 1 .. Len(stats[p]), stats[p][j].diff > 0
      PROVE  /\ row(j) \in DOMAIN table' /\ table'[row(j)].key = stats[p][j].key
             /\ table'[row(j)].cnt = Before(row(j)) + stats[p][j].diff
             /\ row(j) \in DOMAIN table => table[row(j)].key = stats[p][j].key
  BY <1>3, CommitTable, CommitEntry
<1>4. \A j \in 1 .. Len(stats[p]) : stats[p][j].diff \in Nat
  BY EntryType DEF Ind, Entry
<1>5. \A i, j \in 1 .. Len(stats[p]) :
         stats[p][i].diff > 0 /\ stats[p][j].diff > 0 /\ row(i) = row(j) => i = j
  <2> SUFFICES ASSUME NEW i \in 1 .. Len(stats[p]), NEW j \in 1 .. Len(stats[p]),
                      stats[p][i].diff > 0, stats[p][j].diff > 0, row(i) = row(j)
               PROVE  i = j
    OBVIOUS
  <2>1. /\ stats[p][i].from_db \/ i \in Inserted(p)
        /\ stats[p][j].from_db \/ j \in Inserted(p)
    BY CommitEntry
  <2>2. /\ pc[p] = "write" /\ EntriesApart(p) /\ RowsApart
        /\ EntryOK(p, i) /\ EntryOK(p, j)
    BY DEF CommitTransaction, Books, Ind, ParserOK, EntriesOK
  <2>3. CASE stats[p][i].from_db /\ stats[p][j].from_db
    BY <2>2, <2>3 DEF EntriesApart
  <2>4. CASE i \in Inserted(p) /\ j \in Inserted(p)
    BY <2>2, <2>4 DEF RowsApart
  <2>5. stats[p][i].from_db => row(i) \in DOMAIN table
    BY <2>2 DEF EntryOK
  <2>6. stats[p][j].from_db => row(j) \in DOMAIN table
    BY <2>2 DEF EntryOK
  <2>7. /\ i \in Inserted(p) => row(i) \notin DOMAIN table
        /\ j \in Inserted(p) => row(j) \notin DOMAIN table
    BY <2>2 DEF RowsApart
  <2> QED  BY <2>1, <2>3, <2>4, <2>5, <2>6, <2>7
<1>6. move \in Bijection(A, new)
  <2>1. ASSUME NEW u \in A, NEW v \in A, move[u] = move[v] PROVE u = v
    <3>1. PICK i \in 1 .. Len(stats[p]) : \E n \in 1 .. stats[p][i].diff : u = <<i, n>>
      BY <1>1
    <3>2. PICK n \in 1 .. stats[p][i].diff : u = <<i, n>>
      BY <3>1
    <3>3. PICK j \in 1 .. Len(stats[p]) : \E m \in 1 .. stats[p][j].diff : v = <<j, m>>
      BY <1>1
    <3>4. PICK m \in 1 .. stats[p][j].diff : v = <<j, m>>
      BY <3>3
    <3>5. row(i) = row(j) /\ Before(row(i)) + n = Before(row(j)) + m
      BY <2>1, <3>2, <3>4
    <3>6. stats[p][i].diff > 0 /\ stats[p][j].diff > 0
      BY <1>4, <3>2, <3>4
    <3>7. i = j
      BY <1>5, <3>5, <3>6
    <3>8. n = m
      BY <1>2, <1>4, <3>2, <3>4, <3>5
    <3> QED  BY <3>2, <3>4, <3>7, <3>8
  <2>2. move \in [A -> new] /\ \A y \in new : \E u \in A : move[u] = y
    OBVIOUS
  <2> HIDE DEF move, new, A
  <2> QED  BY <2>1, <2>2 DEF Bijection, Injection, Surjection, IsInjective
<1>7. Units(k)' = Units(k) \union new
  <2>1. ASSUME NEW u \in Units(k)' PROVE u \in Units(k) \union new
    <3>1. PICK r \in RowsOf(k)' : \E n \in 1 .. table'[r].cnt : u = <<r, n>>
      BY <2>1 DEF Units
    <3>2. PICK n \in 1 .. table'[r].cnt : u = <<r, n>>
      BY <3>1
    <3>3. r \in DOMAIN table' /\ table'[r].key = k
      BY DEF RowsOf
    <3>4. CASE r \in DOMAIN table /\ table'[r] = table[r]
      <4>1. r \in RowsOf(k) /\ n \in 1 .. table[r].cnt
        BY <3>3, <3>4 DEF RowsOf
      <4> QED  BY <3>2, <4>1, UnitsElement
    <3>5. ASSUME NEW j \in 1 .. Len(stats[p]), stats[p][j].diff > 0, row(j) = r
          PROVE  u \in Units(k) \union new
      <4>1. /\ stats[p][j].key = k /\ table'[r].cnt = Before(r) + stats[p][j].diff
            /\ r \in DOMAIN table => table[r].key = k
        BY <1>3, <3>3, <3>5
      <4>2. CASE n <= Before(r)
        <5>1. r \in DOMAIN table /\ n \in 1 .. table[r].cnt
          BY <1>2, <3>2, <4>2 DEF Before
        <5> QED  BY <3>2, <4>1, <5>1, UnitsElement DEF RowsOf
      <4>3. CASE ~(n <= Before(r))
        <5>1. n - Before(r) \in 1 .. stats[p][j].diff
          BY <1>2, <1>4, <3>2, <4>1, <4>3
        <5>2. <<j, n - Before(r)>> \in A
          BY <1>1, <4>1, <5>1
        <5>3. move[<<j, n - Before(r)>>] = <<r, Before(r) + (n - Before(r))>>
          BY <3>5, <5>2
        <5>4. Before(r) + (n - Before(r)) = n
          BY <1>2, <3>2
        <5> HIDE DEF move, A
        <5> QED  BY <3>2, <5>2, <5>3, <5>4
      <4> QED  BY <4>2, <4>3
    <3> QED  BY <3>3, <3>4, <3>5, CommitTable
  <2>2. ASSUME NEW u \in Units(k) PROVE u \in Units(k)'
    <3>1. PICK r \in RowsOf(k) : \E n \in 1 .. table[r].cnt : u = <<r, n>>
      BY <2>2, UnitsElement
    <3>2. PICK n \in 1 .. table[r].cnt : u = <<r, n>>
      BY <3>1
    <3>3. r \in DOMAIN table /\ r \in DOMAIN table' /\ table[r].key = k
      BY CommitTable DEF RowsOf
    <3>4. table'[r].key = k /\ n \in 1 .. table'[r].cnt
      <4>1. CASE table'[r] = table[r]
        BY <3>2, <3>3, <4>1
      <4>2. ASSUME NEW j \in 1 .. Len(stats[p]), stats[p][j].diff > 0, row(j) = r
            PROVE  table'[r].key = k /\ n \in 1 .. table'[r].cnt
        <5>1. /\ table'[r].key = k /\ table'[r].cnt = table[r].cnt + stats[p][j].diff
              /\ table[r].cnt \in Nat
          BY <1>2, <1>3, <3>3, <4>2
        <5> QED  BY <1>4, <3>2, <5>1
      <4> QED  BY <3>3, <4>1, <4>2, CommitTable
    <3>5. r \in RowsOf(k)'
      BY <3>3, <3>4 DEF RowsOf
    <3> QED  BY <3>2, <3>4, <3>5 DEF Units
  <2>3. ASSUME NEW y \in new PROVE y \in Units(k)'
    <3>1. PICK u \in A : y = move[u]
      OBVIOUS
    <3>2. PICK j \in 1 .. Len(stats[p]) :
            stats[p][j].key = k /\ \E i \in 1 .. stats[p][j].diff : u = <<j, i>>
      BY <1>1
    <3>3. PICK i \in 1 .. stats[p][j].diff : u = <<j, i>>
      BY <3>2
    <3>4. y = <<row(j), Before(row(j)) + i>>
      BY <3>1, <3>3
    <3>5. stats[p][j].diff > 0
      BY <1>4, <3>3
    <3>6. /\ row(j) \in DOMAIN table' /\ table'[row(j)].key = k
          /\ Before(row(j)) + i \in 1 .. table'[row(j)].cnt
      <4>1. /\ row(j) \in DOMAIN table' /\ table'[row(j)].key = k
            /\ table'[row(j)].cnt = Before(row(j)) + stats[p][j].diff
        BY <1>3, <3>2, <3>5
      <4>2. Before(row(j)) \in Nat /\ stats[p][j].diff \in Nat
        BY <1>2, <1>4
      <4> QED  BY <3>3, <4>1, <4>2
    <3>7. row(j) \in RowsOf(k)'
      BY <3>6 DEF RowsOf
    <3> QED  BY <3>4, <3>6, <3>7 DEF Units
  <2> QED  BY <2>1, <2>2, <2>3
<1>8. Units(k) \intersect new = {}
  <2> SUFFICES ASSUME NEW y \in Units(k), y \in new PROVE FALSE
    OBVIOUS
  <2>1. PICK u \in A : y = move[u]
    OBVIOUS
  <2>2. PICK j \in 1 .. Len(stats[p]) : \E i \in 1 .. stats[p][j].diff : u = <<j, i>>
    BY <1>1
  <2>3. PICK i \in 1 .. stats[p][j].diff : u = <<j, i>>
    BY <2>2
  <2>4. y = <<row(j), Before(row(j)) + i>>
    BY <2>1, <2>3
  <2>5. PICK r \in RowsOf(k) : \E n \in 1 .. table[r].cnt : y = <<r, n>>
    BY UnitsElement
  <2>6. r = row(j) /\ Before(r) + i \in 1 .. table[r].cnt
    BY <2>4, <2>5
  <2>7. r \in DOMAIN table /\ Before(r) = table[r].cnt /\ table[r].cnt \in Nat
    BY <1>2 DEF RowsOf
  <2> QED  BY <1>4, <2>3, <2>6, <2>7
<1> HIDE DEF move, new, row
<1>9. IsFiniteSet(A) /\ Cardinality(A) \in Nat
  <2>1. stats[p] \in Seq(Entry)
    BY EntryType DEF Ind
  <2> QED  BY <2>1, HitsFinite, PairsFinite DEF Added
<1> HIDE DEF A
<1>10. IsFiniteSet(new) /\ Cardinality(new) = Cardinality(A)
  BY <1>6, <1>9, FS_Bijection DEF ExistsBijection
<1>11. Cardinality(Units(k) \union new)
         = Cardinality(Units(k)) + Cardinality(new) - Cardinality(Units(k) \intersect new)
  BY <1>10, UnitsFinite, FS_Union
<1>12. Cardinality(Units(k) \intersect new) = 0
  BY <1>8, FS_EmptySet
<1>13. Cardinality(Units(k)) \in Nat
  BY UnitsFinite
<1> QED  BY <1>7, <1>9, <1>10, <1>11, <1>12, <1>13 DEF A

LEMMA CommitBooks ==
  ASSUME Ind, Books, NEW p \in Parsers, CommitTransaction(p)
  PROVE  Books'
<1>1. /\ \A q \in Parsers : q # p => Unmoved(q)
      /\ pc'[p] = "idle" /\ at'[p] = 1
  BY EndStep DEF CommitTransaction, End, Ind, TypeOK
<1>2. Balanced(p)' /\ EntriesApart(p)'
  BY <1>1 DEF Balanced, EntriesApart
<1>3. RowsApart'
  <2>1. Inserted(p)' = {}
    BY <1>1 DEF Inserted
  <2>2. ASSUME NEW q \in Parsers, q # p
        PROVE  Inserted(q)' = Inserted(q) /\ stats'[q] = stats[q]
    BY <1>1, <2>2 DEF Unmoved, Inserted
  <2>3. ASSUME NEW q \in Parsers, q # p, NEW i \in Inserted(q), stats[q][i].row \in DOMAIN table'
        PROVE  FALSE
    <3>1. RowsApart
      BY DEF Books
    <3>2. stats[q][i].row \notin DOMAIN table
      BY <2>3, <3>1 DEF RowsApart
    <3>3. PICK j \in 1 .. Len(stats[p]) :
            stats[p][j].diff > 0 /\ stats[p][j].row = stats[q][i].row
      BY <2>3, <3>2, CommitTable
    <3>4. stats[p][j].from_db \/ j \in Inserted(p)
      BY <3>3, CommitEntry
    <3>5. stats[p][j].from_db => stats[p][j].row \in DOMAIN table
      BY DEF CommitTransaction, Ind, ParserOK, EntriesOK, EntryOK
    <3>6. j \in Inserted(p)
      BY <3>2, <3>3, <3>4, <3>5
    <3> QED  BY <2>3, <3>1, <3>3, <3>6 DEF RowsApart
  <2> SUFFICES ASSUME NEW q \in Parsers, NEW i \in Inserted(q)'
               PROVE  /\ stats'[q][i].row \notin DOMAIN table'
                      /\ \A r \in Parsers : \A j \in Inserted(r)' :
                           stats'[q][i].row = stats'[r][j].row => q = r /\ i = j
    BY DEF RowsApart
  <2>4. q # p /\ i \in Inserted(q) /\ stats'[q] = stats[q]
    BY <2>1, <2>2
  <2>5. \A r \in Parsers : \A j \in Inserted(r)' :
          j \in Inserted(r) /\ stats'[r] = stats[r]
    BY <2>1, <2>2
  <2>6. \A r \in Parsers : \A j \in Inserted(r) :
          stats[q][i].row = stats[r][j].row => q = r /\ i = j
    BY <2>4 DEF Books, RowsApart
  <2> QED  BY <2>3, <2>4, <2>5, <2>6
<1>4. FilesApart'
  <2>1. loaded' = loaded \union {file[p]} /\ pc[p] = "write"
    BY DEF CommitTransaction
  <2>2. \A q \in Parsers : pc'[q] # "idle" => q # p /\ pc[q] # "idle" /\ file'[q] = file[q]
    BY <1>1 DEF Unmoved
  <2>3. FilesApart
    BY DEF Books
  <2> QED  BY <2>1, <2>2, <2>3 DEF FilesApart
<1> QED  BY <1>1, <1>2, <1>3, <1>4, BooksKept

LEMMA InitBooks == Init => Books
<1> SUFFICES ASSUME Init PROVE Books
  OBVIOUS
<1>1. \A p \in Parsers : pc[p] = "idle" /\ at[p] = 1 /\ Inserted(p) = {}
  BY DEF Init, Inserted
<1> QED  BY <1>1 DEF Books, FilesApart, RowsApart, Balanced, EntriesApart

LEMMA BooksInvariant == Spec => []Books
<1>1. Ind /\ Books /\ [Next]_vars => Books'
  <2> SUFFICES ASSUME Ind, Books, [Next]_vars PROVE Books'
    OBVIOUS
  <2>1. CASE UNCHANGED vars
    <3>1. \A p \in Parsers : Unmoved(p) /\ Inserted(p)' = Inserted(p)
      BY <2>1 DEF vars, Unmoved, Inserted
    <3>2. \A p \in Parsers : Balanced(p)' /\ EntriesApart(p)'
      BY <3>1, UnmovedBalanced DEF Books
    <3>3. RowsApart' /\ FilesApart'
      BY <2>1, <3>1 DEF vars, Books, RowsApart, FilesApart
    <3> QED  BY <3>2, <3>3 DEF Books
  <2>2. ASSUME NEW p \in Parsers, Work(p) PROVE Books'
    BY <2>2, StartBooks, FillBooks, CountBooks, StartTransactionBooks, UpdateBooks, InsertBooks,
       CommitBooks DEF Work
  <2> QED  BY <2>1, <2>2, Steps, EndBooks
<1> QED  BY <1>1, InitBooks, IndInvariant, PTL DEF Spec

-------------------------------------------------------------------------------
(* The theorem *)

LEMMA CommitPosts ==
  ASSUME Ind, Books, NEW p \in Parsers, CommitTransaction(p)
  PROVE  Ledger!Post(file[p])
<1>1. /\ file[p] \in Files /\ file[p] \notin loaded
      /\ loaded' = loaded \union {file[p]} /\ pc[p] = "write"
  BY DEF CommitTransaction, Ind, ParserOK, Books, FilesApart
<1>2. ASSUME NEW k \in Keys
      PROVE  Cardinality(Units(k)') = Cardinality(Units(k)) + Cardinality(CountedIn(file[p], k))
  <2>1. Cardinality(Added(stats[p], k)) = Cardinality(Taken(file[p], Len(Records[file[p]]), k))
    BY <1>1 DEF Books, Balanced, Covered
  <2>2. Cardinality(Units(k)') = Cardinality(Units(k)) + Cardinality(Added(stats[p], k))
    BY CommitUnits
  <2> QED  BY <1>1, <2>1, <2>2, TakenAll
<1> DEFINE total == [k \in Keys |-> Cardinality(Units(k))]
           Holds == [f \in Files |-> [k \in Keys |-> Cardinality(CountedIn(f, k))]]
<1>3. total' = [k \in Keys |-> total[k] + Holds[file[p]][k]]
  BY <1>1, <1>2
<1> QED  BY <1>1, <1>3 DEF Ledger!Post

\* OPER_STAT is a ledger of the loaded files: whatever parsers run at the same
\* time, however old what FillOperStats read is and whichever transactions are
\* rolled back, the COMMIT that lists a file in processed_files (main.cpp, from
\* FillOperStats on, InsertTransactionOperStats) adds exactly its counted records
\* to their keys, once, and nothing else changes a count.
THEOREM LedgerKept == Spec => LedgerSpec
<1>1. Init => Ledger!Init
  <2> SUFFICES ASSUME Init PROVE Ledger!Init
    OBVIOUS
  <2>1. \A k : Units(k) = {}
    BY DEF Init, NoRows, Units, RowsOf
  <2>2. loaded = {}
    BY DEF Init
  <2> QED  BY <2>1, <2>2, FS_EmptySet DEF Ledger!Init
<1>2. Ind /\ Books /\ [Next]_vars
        => [Ledger!Next]_<<loaded, [k \in Keys |-> Cardinality(Units(k))]>>
  <2> SUFFICES ASSUME Ind, Books, [Next]_vars
               PROVE  [Ledger!Next]_<<loaded, [k \in Keys |-> Cardinality(Units(k))]>>
    OBVIOUS
  <2>1. ASSUME UNCHANGED <<table, loaded>>
        PROVE  UNCHANGED <<loaded, [k \in Keys |-> Cardinality(Units(k))]>>
    BY <2>1 DEF Units, RowsOf
  <2>2. ASSUME NEW p \in Parsers, CommitTransaction(p) PROVE Ledger!Next
    <3>1. file[p] \in Files
      BY <2>2 DEF CommitTransaction, Ind, ParserOK
    <3> QED  BY <2>2, <3>1, CommitPosts DEF Ledger!Next
  <2>3. \/ \E p \in Parsers : CommitTransaction(p)
        \/ UNCHANGED <<table, loaded>>
    BY Steps DEF Work, Start, FillOperStats, CountRecord, StartTransaction, UpdateRow,
       InsertRow, vars
  <2> QED  BY <2>1, <2>2, <2>3
<1> QED  BY <1>1, <1>2, IndInvariant, BooksInvariant, PTL DEF Spec, LedgerSpec, Ledger!Spec
===============================================================================
