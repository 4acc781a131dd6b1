--------------------------- MODULE NameTablesProofs ---------------------------
(***************************************************************************)
(* What NameTables keeps right for any number of parsers, files and names, *)
(* and however many loads fail and commits of a name are lost.             *)
(***************************************************************************)
EXTENDS NameTables, FiniteSetTheorems, TLAPS

-------------------------------------------------------------------------------
(* Types *)

LEMMA KindAtType == \A i : KindAt(i) \in Kinds
BY DEF KindAt, Kinds

LEMMA FieldsType ==
  ASSUME NEW f \in Files
  PROVE  /\ Fields[f] \in Seq(Names \union {NoName})
         /\ \A i \in 1 .. Len(Fields[f]) :
              Fields[f][i] # NoName => Fields[f][i] \in Names /\ KindOf[Fields[f][i]] = KindAt(i)
BY NamesAssumption

\* Only what a parser has read or saved is in its vectors, and rows are of names.
Shapes ==
  /\ DOMAIN seen = Parsers /\ DOMAIN known = Parsers /\ DOMAIN table = Kinds
  /\ \A k \in Kinds : nextId[k] >= 1
  /\ \A p \in Parsers : pc[p] = "idle" <=> file[p] = NoFile
  /\ \A k \in Kinds : \A i \in DOMAIN table[k] : table[k][i] \in Names
  /\ \A p \in Parsers : DOMAIN known[p] \subseteq Names

\* A read view shows rows that are still there: nobody changes or deletes one.
SeenStays ==
  \A p \in Parsers, k \in Kinds : \A i \in DOMAIN seen[p][k] :
    i \in DOMAIN table[k] /\ table[k][i] = seen[p][k][i]

\* A parser that waits for a commit has just visited a name it did not know,
\* and has got an id for it.
Pending(p) ==
  /\ Len(ids[p]) >= 1
  /\ NewName(p) \in Names \ DOMAIN known[p]
  /\ NewId(p) \in 1 .. nextId[KindOf[NewName(p)]] - 1

\* How far a parser has come in its file's fields.
Visits ==
  \A p \in Parsers :
    /\ pc[p] \in {"idle", "operators", "hubs"} => ids[p] = <<>>
    /\ pc[p] \in {"names", "commit"} => Len(ids[p]) <= Len(Fields[file[p]])
    /\ pc[p] = "commit" => Pending(p)

TypeInv == TypeOK /\ Shapes /\ SeenStays /\ Visits

LEMMA InitTypes == Init => TypeInv
<1> SUFFICES ASSUME Init PROVE TypeInv
  OBVIOUS
<1> USE NamesAssumption DEF Init
<1>1. TypeOK
  BY DEF TypeOK, NoRows, NoTables, Kinds
<1>2. Shapes
  BY DEF Shapes, NoRows, NoTables
<1>3. SeenStays
  BY DEF SeenStays, NoRows, NoTables
<1>4. Visits
  BY DEF Visits
<1> QED  BY <1>1, <1>2, <1>3, <1>4 DEF TypeInv

LEMMA StartTypes ==
  ASSUME TypeInv, NEW p \in Parsers, Start(p)
  PROVE  TypeInv'
<1> USE DEF TypeInv
<1>1. PICK f \in Files : file' = [file EXCEPT ![p] = f]
  BY DEF Start
<1>2. /\ pc[p] = "idle" /\ pc' = [pc EXCEPT ![p] = "operators"]
      /\ seen' = [seen EXCEPT ![p] = table]
      /\ UNCHANGED <<known, ids, table, nextId, cdrs, aborts, lost>>
  BY DEF Start, Goto
<1>3. TypeOK'
  BY <1>1, <1>2 DEF TypeOK
<1>4. Shapes'
  BY <1>1, <1>2, NamesAssumption DEF TypeOK, Shapes
<1>5. SeenStays'
  BY <1>2 DEF Shapes, SeenStays
<1>6. Visits'
  BY <1>1, <1>2 DEF TypeOK, Visits, Pending, NewName, NewId
<1> QED  BY <1>3, <1>4, <1>5, <1>6

\* v is added to p's vectors: names with ids of their rows, and every name that
\* the read view shows.
Reads(p, kind, v) ==
  /\ known' = [known EXCEPT ![p] =
       [n \in DOMAIN known[p] \union DOMAIN v |->
          IF n \in DOMAIN v THEN v[n] ELSE known[p][n]]]
  /\ \A n \in DOMAIN v : v[n] \in DOMAIN table[kind] /\ table[kind][v[n]] = n
  /\ \A i \in DOMAIN seen[p][kind] : seen[p][kind][i] \in DOMAIN v

LEMMA FillKnown ==
  ASSUME TypeInv, NEW p \in Parsers, NEW kind \in Kinds, NEW step, Fill(p, kind, step)
  PROVE  \E v : Reads(p, kind, v)
<1>1. PICK rows \in {seen[p][kind], table[kind]} : \E v \in Vectors(rows) :
        known' = [known EXCEPT ![p] =
          [n \in DOMAIN @ \union DOMAIN v |-> IF n \in DOMAIN v THEN v[n] ELSE @[n]]]
  BY DEF Fill
<1>2. PICK v \in Vectors(rows) :
        known' = [known EXCEPT ![p] =
          [n \in DOMAIN @ \union DOMAIN v |-> IF n \in DOMAIN v THEN v[n] ELSE @[n]]]
  BY <1>1
<1> DEFINE names == {rows[i] : i \in DOMAIN rows}
<1>3. v \in {u \in [names -> DOMAIN rows] : \A n \in names : rows[u[n]] = n}
  BY <1>2 DEF Vectors
<1>4. /\ DOMAIN v = names
      /\ \A n \in names : v[n] \in DOMAIN rows /\ rows[v[n]] = n
  <2> HIDE DEF names
  <2> QED  BY <1>3
<1>5. \A i \in DOMAIN rows : i \in DOMAIN table[kind] /\ rows[i] = table[kind][i]
  BY <1>1 DEF TypeInv, SeenStays
<1>6. \A i \in DOMAIN seen[p][kind] : i \in DOMAIN rows /\ rows[i] = seen[p][kind][i]
  BY <1>1 DEF TypeInv, SeenStays
<1>7. \A n \in DOMAIN v : v[n] \in DOMAIN table[kind] /\ table[kind][v[n]] = n
  BY <1>4, <1>5
<1>8. \A i \in DOMAIN seen[p][kind] : seen[p][kind][i] \in DOMAIN v
  BY <1>4, <1>6
<1> QED  BY <1>2, <1>7, <1>8 DEF Reads

LEMMA FillTypes ==
  ASSUME TypeInv, NEW p \in Parsers, FillOperators(p) \/ FillHubs(p)
  PROVE  TypeInv'
<1> USE DEF TypeInv
<1>1. PICK kind \in Kinds, step \in {"hubs", "names"} :
        Fill(p, kind, step) /\ pc[p] = kind /\ kind \in {"operators", "hubs"}
  BY DEF FillOperators, FillHubs, Fill, Kinds
<1>2. /\ pc' = [pc EXCEPT ![p] = step] /\ step # "idle"
      /\ UNCHANGED <<file, seen, ids, table, nextId, cdrs, aborts, lost>>
  BY <1>1 DEF Fill, Goto
<1>3. PICK v : Reads(p, kind, v)
  BY <1>1, FillKnown
<1>4. /\ DOMAIN known' = Parsers
      /\ \A q \in Parsers : q # p => known'[q] = known[q]
      /\ DOMAIN known'[p] = DOMAIN known[p] \union DOMAIN v
      /\ \A n \in DOMAIN known'[p] :
           known'[p][n] = IF n \in DOMAIN v THEN v[n] ELSE known[p][n]
  BY <1>3 DEF Shapes, Reads
<1>5. \A n \in DOMAIN v : n \in Names /\ v[n] \in 1 .. nextId[KindOf[n]] - 1
  BY <1>3 DEF Shapes, TypeOK, Reads
<1>6. TypeOK'
  <2>1. \A q \in Parsers : \A n \in DOMAIN known'[q] :
          known'[q][n] \in 1 .. nextId[KindOf[n]] - 1
    <3>1. \A n \in DOMAIN known'[p] : known'[p][n] \in 1 .. nextId[KindOf[n]] - 1
      BY <1>4, <1>5 DEF TypeOK
    <3>2. \A q \in Parsers : \A n \in DOMAIN known[q] :
            known[q][n] \in 1 .. nextId[KindOf[n]] - 1
      BY DEF TypeOK
    <3> QED  BY <1>4, <3>1, <3>2
  <2>2. pc' \in [Parsers -> {"idle", "operators", "hubs", "names", "commit"}]
    BY <1>1, <1>2 DEF TypeOK
  <2> QED  BY <1>2, <2>1, <2>2 DEF TypeOK
<1>7. Shapes'
  <2>1. \A q \in Parsers : DOMAIN known'[q] \subseteq Names
    BY <1>4, <1>5 DEF Shapes
  <2>2. \A q \in Parsers : pc'[q] = "idle" <=> file'[q] = NoFile
    BY <1>1, <1>2 DEF TypeOK, Shapes
  <2> QED  BY <1>2, <1>4, <2>1, <2>2 DEF Shapes
<1>8. SeenStays'
  BY <1>2 DEF SeenStays
<1>9. Visits'
  <2>1. ids[p] = <<>> /\ Len(ids[p]) = 0
    BY <1>1 DEF Visits
  <2>2. file[p] \in Files /\ Len(Fields[file[p]]) \in Nat
    BY <1>1, FieldsType DEF TypeOK, Shapes
  <2>3. \A q \in Parsers : q # p => pc'[q] = pc[q] /\ (Pending(q) => Pending(q)')
    BY <1>2, <1>4 DEF TypeOK, Pending, NewName, NewId
  <2>4. pc'[p] \in {"hubs", "names"}
    BY <1>1, <1>2 DEF TypeOK
  <2> QED  BY <1>2, <2>1, <2>2, <2>3, <2>4 DEF Visits
<1> QED  BY <1>6, <1>7, <1>8, <1>9

\* What the loop over the fields is at.
LEMMA AtField ==
  ASSUME TypeInv, NEW p \in Parsers, More(p)
  PROVE  /\ pc[p] = "names" /\ file[p] \in Files
         /\ Len(ids[p]) \in Nat /\ ids[p] \in Seq(Nat \union {NULL})
         /\ Len(ids[p]) + 1 \in 1 .. Len(Fields[file[p]])
         /\ Name(p) # NoName =>
              Name(p) \in Names /\ KindOf[Name(p)] = KindAt(Len(ids[p]) + 1)
<1>1. pc[p] = "names" /\ Len(ids[p]) < Len(Fields[file[p]])
  BY DEF More
<1>2. file[p] \in Files /\ ids[p] \in Seq(Nat \union {NULL})
  BY <1>1 DEF TypeInv, TypeOK, Shapes
<1>3. Len(ids[p]) \in Nat /\ Len(Fields[file[p]]) \in Nat
  BY <1>2, FieldsType
<1> QED  BY <1>1, <1>2, <1>3, FieldsType DEF Name

\* One more id.
LEMMA OneMore ==
  ASSUME TypeInv, NEW p \in Parsers, NEW x \in Nat \union {NULL},
         ids' = [ids EXCEPT ![p] = Append(ids[p], x)]
  PROVE  /\ ids' \in [Parsers -> Seq(Nat \union {NULL})]
         /\ Len(ids'[p]) = Len(ids[p]) + 1
         /\ ids'[p][Len(ids[p]) + 1] = x
         /\ \A i \in 1 .. Len(ids[p]) : ids'[p][i] = ids[p][i]
         /\ \A q \in Parsers : q # p => ids'[q] = ids[q]
<1>1. ids \in [Parsers -> Seq(Nat \union {NULL})]
  BY DEF TypeInv, TypeOK
<1>2. ids'[p] = Append(ids[p], x) /\ \A q \in Parsers : q # p => ids'[q] = ids[q]
  BY <1>1
<1>3. ids[p] \in Seq(Nat \union {NULL})
  BY <1>1
<1> QED  BY <1>1, <1>2, <1>3

LEMMA CheckTypes ==
  ASSUME TypeInv, NEW p \in Parsers, Check_Oper(p) \/ Check_Hub(p)
  PROVE  TypeInv'
<1>1. PICK kind \in Kinds : Check(p, kind)
  BY DEF Check_Oper, Check_Hub, Kinds
<1>2. More(p) /\ UNCHANGED <<pc, file, seen, known, table, nextId, cdrs, aborts, lost>>
  BY <1>1 DEF Check
<1>3. PICK x \in Nat \union {NULL} : ids' = [ids EXCEPT ![p] = Append(ids[p], x)]
  <2>1. CASE Name(p) = NoName
    BY <1>1, <2>1 DEF Check, TypeInv, TypeOK, NULL
  <2>2. CASE Name(p) \in DOMAIN known[p]
    <3>1. Name(p) \in Names
      BY <2>2 DEF TypeInv, Shapes
    <3>2. known[p][Name(p)] \in Nat
      BY <2>2, <3>1, NamesAssumption DEF TypeInv, TypeOK
    <3> QED  BY <1>1, <2>2, <3>2, NamesAssumption DEF Check
  <2> QED  BY <1>1, <2>1, <2>2 DEF Check
<1>4. TypeOK' /\ Shapes' /\ SeenStays'
  BY <1>2, <1>3, OneMore DEF TypeInv, TypeOK, Shapes, SeenStays
<1>5. \A q \in Parsers : q # p => (Pending(q) => Pending(q)') /\ ids'[q] = ids[q]
  BY <1>2, <1>3, OneMore DEF Pending, NewName, NewId
<1>6. pc'[p] = "names" /\ Len(ids'[p]) <= Len(Fields[file'[p]])
  BY <1>2, <1>3, OneMore, AtField, FieldsType
<1>7. Visits'
  BY <1>2, <1>5, <1>6 DEF TypeInv, Visits
<1> QED  BY <1>4, <1>7 DEF TypeInv

\* A new name takes the next id of its table and waits for its commit.
LEMMA SaveStep ==
  ASSUME TypeInv, NEW p \in Parsers, SaveOperator(p) \/ SaveHub(p)
  PROVE  /\ Name(p) \in Names \ DOMAIN known[p]
         /\ nextId' = [nextId EXCEPT ![KindOf[Name(p)]] = nextId[KindOf[Name(p)]] + 1]
         /\ ids' = [ids EXCEPT ![p] = Append(ids[p], nextId[KindOf[Name(p)]])]
         /\ pc' = [pc EXCEPT ![p] = "commit"]
         /\ UNCHANGED <<file, seen, known, table, cdrs, aborts, lost>>
         /\ More(p)
<1>1. PICK kind \in Kinds : Save(p, kind)
  BY DEF SaveOperator, SaveHub, Kinds
<1>2. Name(p) \in Names \ DOMAIN known[p] /\ KindOf[Name(p)] = kind
  BY <1>1, AtField DEF Save
<1> QED  BY <1>1, <1>2 DEF Save, Goto

LEMMA SaveTypes ==
  ASSUME TypeInv, NEW p \in Parsers, SaveOperator(p) \/ SaveHub(p)
  PROVE  TypeInv'
<1> DEFINE k == KindOf[Name(p)]
<1>1. k \in Kinds /\ nextId[k] \in Nat /\ nextId[k] >= 1
  BY SaveStep, NamesAssumption DEF TypeInv, TypeOK, Shapes
<1>2. nextId' \in [Kinds -> Nat] /\ nextId'[k] = nextId[k] + 1
  <2>1. nextId' = [nextId EXCEPT ![k] = nextId[k] + 1] /\ nextId \in [Kinds -> Nat]
    BY SaveStep DEF TypeInv, TypeOK
  <2> HIDE DEF k
  <2> QED  BY <1>1, <2>1
<1>3. \A j \in Kinds : nextId'[j] \in Nat /\ nextId[j] \in Nat /\ nextId'[j] >= nextId[j]
  <2>1. \A j \in Kinds : nextId[j] \in Nat
    BY DEF TypeInv, TypeOK
  <2>2. \A j \in Kinds : j # k => nextId'[j] = nextId[j]
    BY SaveStep DEF TypeInv, TypeOK
  <2> QED  BY <1>1, <1>2, <2>1, <2>2
<1>4. /\ ids' \in [Parsers -> Seq(Nat \union {NULL})]
      /\ Len(ids'[p]) = Len(ids[p]) + 1
      /\ ids'[p][Len(ids[p]) + 1] = nextId[k]
      /\ \A q \in Parsers : q # p => ids'[q] = ids[q]
  BY <1>1, SaveStep, OneMore
<1>5. TypeOK'
  <2>1. \A j \in Kinds : \A i \in DOMAIN table[j] :
          i \in 1 .. nextId'[j] - 1 /\ KindOf[table[j][i]] = j
    BY <1>3 DEF TypeInv, TypeOK
  <2>2. \A q \in Parsers : \A n \in DOMAIN known[q] :
          known[q][n] \in 1 .. nextId'[KindOf[n]] - 1
    BY <1>3, NamesAssumption DEF TypeInv, TypeOK, Shapes
  <2>3. pc' \in [Parsers -> {"idle", "operators", "hubs", "names", "commit"}]
    BY SaveStep DEF TypeInv, TypeOK
  <2> QED  BY <1>2, <1>4, <2>1, <2>2, <2>3, SaveStep DEF TypeInv, TypeOK
<1>6. Shapes'
  <2>1. \A q \in Parsers : pc'[q] = "idle" <=> file'[q] = NoFile
    BY SaveStep, AtField, NamesAssumption DEF TypeInv, TypeOK, Shapes
  <2>2. \A j \in Kinds : nextId'[j] >= 1
    BY <1>3 DEF TypeInv, TypeOK, Shapes
  <2> QED  BY <2>1, <2>2, SaveStep DEF TypeInv, Shapes
<1>7. SeenStays'
  BY SaveStep DEF TypeInv, SeenStays
<1>8. \A q \in Parsers : q # p => (Pending(q) => Pending(q)') /\ pc'[q] = pc[q]
  <2> SUFFICES ASSUME NEW q \in Parsers, q # p
               PROVE  (Pending(q) => Pending(q)') /\ pc'[q] = pc[q]
    OBVIOUS
  <2>1. pc'[q] = pc[q]
    BY SaveStep DEF TypeInv, TypeOK
  <2>2. ids'[q] = ids[q] /\ UNCHANGED <<file, known>>
    BY <1>4, SaveStep
  <2>3. NewName(q)' = NewName(q) /\ NewId(q)' = NewId(q)
    BY <2>2 DEF NewName, NewId
  <2>4. ASSUME Pending(q) PROVE Pending(q)'
    <3>1. nextId'[KindOf[NewName(q)]] >= nextId[KindOf[NewName(q)]]
      BY <1>3, <2>4, NamesAssumption DEF Pending
    <3>2. nextId[KindOf[NewName(q)]] \in Nat /\ nextId'[KindOf[NewName(q)]] \in Nat
      BY <1>3, <2>4, NamesAssumption DEF Pending, TypeInv, TypeOK
    <3> QED  BY <2>2, <2>3, <2>4, <3>1, <3>2 DEF Pending
  <2> QED  BY <2>1, <2>4
<1>9. Pending(p)'
  <2>1. NewName(p)' = Name(p) /\ NewId(p)' = nextId[k]
    BY <1>4, SaveStep DEF NewName, NewId, Name
  <2>2. Len(ids'[p]) >= 1
    BY <1>4, SaveStep, AtField
  <2> QED  BY <1>1, <1>2, <2>1, <2>2, SaveStep DEF Pending
<1>10. Len(ids'[p]) <= Len(Fields[file'[p]])
  BY <1>4, SaveStep, AtField, FieldsType
<1>11. Visits'
  <2>1. pc'[p] = "commit"
    BY SaveStep DEF TypeInv, TypeOK
  <2> QED  BY <1>4, <1>8, <1>9, <1>10, <2>1, SaveStep DEF TypeInv, Visits
<1> QED  BY <1>5, <1>6, <1>7, <1>11 DEF TypeInv

\* Both ways out of a commit add the name to the vector.
LEMMA AddStep ==
  ASSUME TypeInv, NEW p \in Parsers, CommitName(p) \/ LoseCommit(p)
  PROVE  /\ pc[p] = "commit" /\ Pending(p)
         /\ DOMAIN known' = Parsers
         /\ \A q \in Parsers : q # p => known'[q] = known[q]
         /\ DOMAIN known'[p] = DOMAIN known[p] \union {NewName(p)}
         /\ \A n \in DOMAIN known'[p] :
              known'[p][n] = IF n = NewName(p) THEN NewId(p) ELSE known[p][n]
         /\ pc' = [pc EXCEPT ![p] = "names"]
         /\ UNCHANGED <<file, seen, ids, nextId, cdrs, aborts>>
<1>1. /\ pc[p] = "commit" /\ pc' = [pc EXCEPT ![p] = "names"]
      /\ known' = [known EXCEPT ![p] = Extend(known[p], NewName(p), NewId(p))]
      /\ UNCHANGED <<file, seen, ids, nextId, cdrs, aborts>>
  BY DEF CommitName, LoseCommit, Add, Goto
<1>2. Pending(p)
  BY <1>1 DEF TypeInv, Visits
<1>3. known'[p] = Extend(known[p], NewName(p), NewId(p))
  BY <1>1 DEF TypeInv, Shapes
<1> QED  BY <1>1, <1>2, <1>3 DEF TypeInv, Shapes, Extend

\* One new row, or none.
LEMMA CommitStep ==
  ASSUME TypeInv, NEW p \in Parsers, CommitName(p)
  PROVE  LET k == KindOf[NewName(p)] IN
         /\ k \in Kinds
         /\ DOMAIN table' = Kinds
         /\ \A j \in Kinds : j # k => table'[j] = table[j]
         /\ DOMAIN table'[k] = DOMAIN table[k] \union {NewId(p)}
         /\ \A i \in DOMAIN table'[k] :
              table'[k][i] = IF i = NewId(p) THEN NewName(p) ELSE table[k][i]
         /\ UNCHANGED lost
<1> DEFINE k == KindOf[NewName(p)]
<1>1. k \in Kinds
  BY AddStep, NamesAssumption DEF Pending
<1>2. table' = [table EXCEPT ![k] = Extend(table[k], NewId(p), NewName(p))] /\ UNCHANGED lost
  BY DEF CommitName
<1>3. table'[k] = Extend(table[k], NewId(p), NewName(p))
  BY <1>1, <1>2 DEF TypeInv, Shapes
<1> HIDE DEF k
<1>4. /\ DOMAIN table' = Kinds
      /\ \A j \in Kinds : j # k => table'[j] = table[j]
      /\ DOMAIN table'[k] = DOMAIN table[k] \union {NewId(p)}
      /\ \A i \in DOMAIN table'[k] :
           table'[k][i] = IF i = NewId(p) THEN NewName(p) ELSE table[k][i]
  BY <1>1, <1>2, <1>3 DEF TypeInv, Shapes, Extend
<1> QED  BY <1>1, <1>2, <1>4 DEF k

\* The row that is about to be committed does not take another one's place.
FreshRow(p) ==
  NewId(p) \in DOMAIN table[KindOf[NewName(p)]]
    => table[KindOf[NewName(p)]][NewId(p)] = NewName(p)

LEMMA AddTypes ==
  ASSUME TypeInv, NEW p \in Parsers, CommitName(p) \/ LoseCommit(p), FreshRow(p)
  PROVE  TypeInv'
<1> DEFINE k == KindOf[NewName(p)]
<1>1. /\ NewName(p) \in Names /\ NewId(p) \in 1 .. nextId[k] - 1
      /\ k \in Kinds /\ nextId[k] \in Nat
  BY AddStep, NamesAssumption DEF Pending, TypeInv, TypeOK
<1>2. /\ DOMAIN table' = Kinds
      /\ \A j \in Kinds : \A i \in DOMAIN table'[j] :
           /\ table'[j][i] \in Names
           /\ i \in 1 .. nextId[j] - 1
           /\ KindOf[table'[j][i]] = j
      /\ \A j \in Kinds : \A i \in DOMAIN table[j] :
           i \in DOMAIN table'[j] /\ table'[j][i] = table[j][i]
  <2>1. CASE CommitName(p)
    <3>1. \A j \in Kinds : \A i \in DOMAIN table'[j] :
            \/ i \in DOMAIN table[j] /\ table'[j][i] = table[j][i]
            \/ j = k /\ i = NewId(p) /\ table'[j][i] = NewName(p)
      BY <2>1, CommitStep
    <3>2. \A j \in Kinds : \A i \in DOMAIN table[j] :
            i \in DOMAIN table'[j] /\ table'[j][i] = table[j][i]
      BY <2>1, CommitStep DEF FreshRow
    <3> QED  BY <1>1, <2>1, <3>1, <3>2, CommitStep DEF TypeInv, TypeOK, Shapes
  <2>2. CASE LoseCommit(p)
    BY <2>2 DEF LoseCommit, TypeInv, TypeOK, Shapes
  <2> QED  BY <2>1, <2>2
<1>3. \A q \in Parsers : \A n \in DOMAIN known'[q] :
        n \in Names /\ known'[q][n] \in 1 .. nextId[KindOf[n]] - 1
  <2> DEFINE Fine(vector) == \A n \in DOMAIN vector :
               n \in Names /\ vector[n] \in 1 .. nextId[KindOf[n]] - 1
  <2>1. Fine(known'[p])
    BY <1>1, AddStep DEF TypeInv, TypeOK, Shapes
  <2>2. \A q \in Parsers : Fine(known[q])
    BY DEF TypeInv, TypeOK, Shapes
  <2>3. \A q \in Parsers : q # p => known'[q] = known[q]
    BY AddStep
  <2>4. \A q \in Parsers : Fine(known'[q])
    <3> HIDE DEF Fine
    <3> QED  BY <2>1, <2>2, <2>3
  <2> QED  BY <2>4
<1>4. pc'[p] = "names" /\ \A q \in Parsers : q # p => pc'[q] = pc[q]
  BY AddStep DEF TypeInv, TypeOK
<1>5. TypeOK'
  <2>1. pc' \in [Parsers -> {"idle", "operators", "hubs", "names", "commit"}]
    <3>1. pc' = [pc EXCEPT ![p] = "names"]
      BY AddStep
    <3> QED  BY <3>1 DEF TypeInv, TypeOK
  <2>2. lost' \in 0 .. MaxLost
    <3>1. lost' = lost \/ (lost < MaxLost /\ lost' = lost + 1)
      BY DEF CommitName, LoseCommit
    <3> QED  BY <3>1, NamesAssumption DEF TypeInv, TypeOK
  <2> QED  BY <1>2, <1>3, <2>1, <2>2, AddStep DEF TypeInv, TypeOK
<1>6. Shapes'
  BY <1>2, <1>3, <1>4, AddStep DEF TypeInv, Shapes
<1>7. SeenStays'
  BY <1>2, AddStep DEF TypeInv, SeenStays
<1>8. \A q \in Parsers : q # p => (Pending(q) => Pending(q)')
  BY AddStep DEF Pending, NewName, NewId
<1>9. Visits'
  BY <1>4, <1>8, AddStep DEF TypeInv, Visits
<1> QED  BY <1>5, <1>6, <1>7, <1>9 DEF TypeInv

\* The process ends.
LEMMA EndTypes ==
  ASSUME TypeInv, NEW p \in Parsers, End(p), UNCHANGED <<table, nextId, lost>>,
         cdrs' \subseteq Cdr, aborts' \in 0 .. MaxAborts
  PROVE  TypeInv'
<1> USE NamesAssumption DEF TypeInv
<1>1. /\ pc' = [pc EXCEPT ![p] = "idle"] /\ file' = [file EXCEPT ![p] = NoFile]
      /\ seen' = [seen EXCEPT ![p] = NoTables] /\ known' = [known EXCEPT ![p] = NoRows]
      /\ ids' = [ids EXCEPT ![p] = <<>>]
  BY DEF End, Goto
<1>2. TypeOK'
  <2>1. \A q \in Parsers : \A n \in DOMAIN known'[q] :
          known'[q][n] \in 1 .. nextId[KindOf[n]] - 1
    BY <1>1 DEF TypeOK, Shapes, NoRows
  <2> QED  BY <1>1, <2>1 DEF TypeOK
<1>3. Shapes'
  BY <1>1 DEF TypeOK, Shapes, NoRows
<1>4. SeenStays'
  BY <1>1 DEF Shapes, SeenStays, NoTables, NoRows
<1>5. \A q \in Parsers : q # p => (Pending(q) => Pending(q)') /\ pc'[q] = pc[q]
                               /\ ids'[q] = ids[q] /\ file'[q] = file[q]
  BY <1>1 DEF TypeOK, Shapes, Pending, NewName, NewId
<1>6. Visits'
  BY <1>1, <1>5 DEF TypeOK, Visits
<1> QED  BY <1>2, <1>3, <1>4, <1>6

-------------------------------------------------------------------------------
(* An id belongs to one name *)

\* The id of field i is settled.
FieldDone(p, i) ==
  IF Fields[file[p]][i] = NoName THEN ids[p][i] = NULL
  ELSE /\ Fields[file[p]][i] \in DOMAIN known[p]
       /\ ids[p][i] = known[p][Fields[file[p]][i]]

\* A parser's ids are those of its vectors, but for the one not committed yet.
Visited ==
  \A p \in Parsers : \A i \in 1 .. Len(ids[p]) :
    FieldDone(p, i) \/ (pc[p] = "commit" /\ i = Len(ids[p]))

LEMMA VisitedStays ==
  ASSUME TypeInv, Visited, NEW p \in Parsers, Work(p)
  PROVE  Visited'
<1> USE DEF TypeInv
<1>1. CASE Start(p)
  <2>1. ids[p] = <<>> /\ UNCHANGED <<ids, known>>
    BY <1>1 DEF Start, Visits
  <2>2. \A q \in Parsers : q # p => file'[q] = file[q] /\ pc'[q] = pc[q]
    BY <1>1 DEF Start, Goto, TypeOK
  <2>3. Len(ids'[p]) = 0
    BY <2>1
  <2> QED  BY <2>1, <2>2, <2>3 DEF Visited, FieldDone
<1>2. CASE FillOperators(p) \/ FillHubs(p)
  <2>1. ids[p] = <<>> /\ UNCHANGED <<ids, file>>
    BY <1>2 DEF FillOperators, FillHubs, Fill, Visits
  <2>2. \A q \in Parsers : q # p => known'[q] = known[q] /\ pc'[q] = pc[q]
    BY <1>2 DEF FillOperators, FillHubs, Fill, Goto, TypeOK, Shapes
  <2>3. Len(ids'[p]) = 0
    BY <2>1
  <2> QED  BY <2>1, <2>2, <2>3 DEF Visited, FieldDone
<1>3. CASE Check_Oper(p) \/ Check_Hub(p)
  <2>1. /\ More(p) /\ UNCHANGED <<pc, file, known>>
        /\ \/ Name(p) = NoName /\ ids' = [ids EXCEPT ![p] = Append(ids[p], NULL)]
           \/ /\ Name(p) \in DOMAIN known[p]
              /\ ids' = [ids EXCEPT ![p] = Append(ids[p], known[p][Name(p)])]
    BY <1>3 DEF Check_Oper, Check_Hub, Check
  <2>2. Name(p) \in DOMAIN known[p] => Name(p) \in Names /\ known[p][Name(p)] \in Nat
    BY NamesAssumption DEF TypeOK, Shapes
  <2>3. PICK x \in Nat \union {NULL} :
          /\ ids' = [ids EXCEPT ![p] = Append(ids[p], x)]
          /\ \/ Name(p) = NoName /\ x = NULL
             \/ Name(p) \in Names /\ Name(p) \in DOMAIN known[p] /\ x = known[p][Name(p)]
    BY <2>1, <2>2
  <2>4. \A i : i = Len(ids[p]) + 1 => FieldDone(p, i)'
    <3>1. ids'[p][Len(ids[p]) + 1] = x
      BY <2>3, OneMore
    <3> QED  BY <2>1, <2>3, <3>1, NamesAssumption DEF FieldDone, Name
  <2>5. \A i \in 1 .. Len(ids[p]) : FieldDone(p, i)'
    <3>1. \A i \in 1 .. Len(ids[p]) : FieldDone(p, i)
      BY <2>1 DEF Visited, More
    <3>2. \A i \in 1 .. Len(ids[p]) : ids'[p][i] = ids[p][i]
      BY <2>3, OneMore
    <3> QED  BY <2>1, <3>1, <3>2 DEF FieldDone
  <2>6. \A i \in 1 .. Len(ids'[p]) : FieldDone(p, i)'
    <3>1. Len(ids'[p]) = Len(ids[p]) + 1 /\ Len(ids[p]) \in Nat
      BY <2>1, <2>3, OneMore, AtField
    <3> QED  BY <2>4, <2>5, <3>1
  <2>7. \A q \in Parsers : q # p => ids'[q] = ids[q]
    BY <2>3, OneMore
  <2> QED  BY <2>1, <2>6, <2>7 DEF Visited, FieldDone
<1>4. CASE SaveOperator(p) \/ SaveHub(p)
  <2>1. nextId[KindOf[Name(p)]] \in Nat /\ More(p)
    BY <1>4, SaveStep, NamesAssumption DEF TypeOK
  <2>2. /\ Len(ids'[p]) = Len(ids[p]) + 1
        /\ \A i \in 1 .. Len(ids[p]) : ids'[p][i] = ids[p][i]
        /\ \A q \in Parsers : q # p => ids'[q] = ids[q]
    BY <1>4, <2>1, SaveStep, OneMore
  <2>3. pc'[p] = "commit" /\ \A q \in Parsers : q # p => pc'[q] = pc[q]
    BY <1>4, SaveStep DEF TypeOK
  <2>4. \A i \in 1 .. Len(ids[p]) : FieldDone(p, i)'
    <3>1. \A i \in 1 .. Len(ids[p]) : FieldDone(p, i)
      BY <2>1 DEF Visited, More
    <3> QED  BY <1>4, <2>2, <3>1, SaveStep DEF FieldDone
  <2>5. \A i \in 1 .. Len(ids'[p]) : FieldDone(p, i)' \/ i = Len(ids'[p])
    BY <2>1, <2>2, <2>4, AtField
  <2> QED  BY <1>4, <2>2, <2>3, <2>5, SaveStep DEF Visited, FieldDone
<1>5. CASE CommitName(p) \/ LoseCommit(p)
  <2>1. \A i \in 1 .. Len(ids[p]) : FieldDone(p, i)'
    <3>1. \A i \in 1 .. Len(ids[p]) : i # Len(ids[p]) => FieldDone(p, i)
      BY DEF Visited
    <3>2. NewName(p) \notin DOMAIN known[p] /\ NewName(p) # NoName
      BY <1>5, AddStep, NamesAssumption DEF Pending
    <3>3. \A i \in 1 .. Len(ids[p]) : i # Len(ids[p]) => FieldDone(p, i)'
      BY <1>5, <3>1, <3>2, AddStep DEF FieldDone
    <3>4. \A i : i = Len(ids[p]) => FieldDone(p, i)'
      BY <1>5, <3>2, AddStep DEF FieldDone, NewName, NewId
    <3> QED  BY <3>3, <3>4
  <2>2. \A q \in Parsers : q # p => known'[q] = known[q] /\ pc'[q] = pc[q]
    BY <1>5, AddStep DEF TypeOK
  <2> QED  BY <1>5, <2>1, <2>2, AddStep DEF Visited, FieldDone
<1>6. CASE Store(p) \/ Abort(p)
  <2>1. ids'[p] = <<>>
    BY <1>6 DEF Store, Abort, End, TypeOK
  <2>2. \A q \in Parsers : q # p =>
          pc'[q] = pc[q] /\ file'[q] = file[q] /\ ids'[q] = ids[q] /\ known'[q] = known[q]
    BY <1>6 DEF Store, Abort, End, Goto, TypeOK, Shapes
  <2>3. Len(ids'[p]) = 0
    BY <2>1
  <2> QED  BY <2>2, <2>3 DEF Visited, FieldDone
<1> QED  BY <1>1, <1>2, <1>3, <1>4, <1>5, <1>6 DEF Work

\* Name n has, or will have, id i in table k: there is a row, a vector says so,
\* a commit is under way, or a stored record refers to it.
StoredAs(c, k, i, n) ==
  \E j \in DOMAIN c.ids :
    Fields[c.file][j] = n /\ n # NoName /\ KindOf[n] = k /\ c.ids[j] = i

Claimed(k, i, n) ==
  \/ i \in DOMAIN table[k] /\ table[k][i] = n
  \/ \E p \in Parsers : n \in DOMAIN known[p] /\ KindOf[n] = k /\ known[p][n] = i
  \/ \E p \in Parsers :
       pc[p] = "commit" /\ NewName(p) = n /\ KindOf[n] = k /\ NewId(p) = i
  \/ \E c \in cdrs : StoredAs(c, k, i, n)

\* Ids come from the counter, and no id is given to two names of a table.
OneName ==
  \A k \in Kinds, n \in Names : \A i :
    Claimed(k, i, n) =>
      /\ i \in 1 .. nextId[k] - 1
      /\ \A m \in Names : Claimed(k, i, m) => m = n

\* All steps but Save pass claims on.
ClaimsKept == \A k \in Kinds, n \in Names : \A i : Claimed(k, i, n)' => Claimed(k, i, n)

LEMMA StartClaims ==
  ASSUME TypeInv, NEW p \in Parsers, Start(p) PROVE ClaimsKept
<1>1. \A q \in Parsers : pc'[q] = "commit" => pc[q] = "commit" /\ file'[q] = file[q]
  BY DEF Start, Goto, TypeInv, TypeOK
<1>2. UNCHANGED <<known, ids, table, cdrs>>
  BY DEF Start
<1> QED  BY <1>1, <1>2 DEF ClaimsKept, Claimed, NewName, NewId

LEMMA FillClaims ==
  ASSUME TypeInv, NEW p \in Parsers, FillOperators(p) \/ FillHubs(p) PROVE ClaimsKept
<1>1. PICK kind \in Kinds, step \in {"hubs", "names"} : Fill(p, kind, step)
  BY DEF FillOperators, FillHubs, Kinds
<1>2. PICK v : Reads(p, kind, v)
  BY <1>1, FillKnown
<1>3. \A n \in DOMAIN v : KindOf[n] = kind
  BY <1>2 DEF TypeInv, TypeOK, Reads
<1>4. \A q \in Parsers : pc'[q] = "commit" => pc[q] = "commit"
  BY <1>1 DEF Fill, Goto, TypeInv, TypeOK
<1>5. UNCHANGED <<file, ids, table, cdrs>>
  BY <1>1 DEF Fill
<1>6. \A q \in Parsers, n \in Names : n \in DOMAIN known'[q] =>
        \/ n \in DOMAIN known[q] /\ known'[q][n] = known[q][n]
        \/ n \in DOMAIN v /\ known'[q][n] = v[n]
  BY <1>2 DEF TypeInv, Shapes, Reads
<1>7. ASSUME NEW k \in Kinds, NEW n \in Names, NEW i,
             NEW q \in Parsers, n \in DOMAIN known'[q], KindOf[n] = k, known'[q][n] = i
      PROVE  Claimed(k, i, n)
  BY <1>2, <1>3, <1>6, <1>7 DEF Claimed, Reads
<1> QED  BY <1>4, <1>5, <1>7 DEF ClaimsKept, Claimed, NewName, NewId

LEMMA CheckClaims ==
  ASSUME TypeInv, NEW p \in Parsers, Check_Oper(p) \/ Check_Hub(p) PROVE ClaimsKept
<1>1. /\ pc[p] = "names" /\ UNCHANGED <<pc, file, known, table, cdrs>>
      /\ \A q \in Parsers : q # p => ids'[q] = ids[q]
  BY DEF Check_Oper, Check_Hub, Check, More, TypeInv, TypeOK
<1> QED  BY <1>1 DEF ClaimsKept, Claimed, NewName, NewId

LEMMA AddClaims ==
  ASSUME TypeInv, NEW p \in Parsers, CommitName(p) \/ LoseCommit(p) PROVE ClaimsKept
<1> DEFINE k0 == KindOf[NewName(p)]
<1>1. Claimed(k0, NewId(p), NewName(p))
  BY AddStep DEF Claimed
<1>2. \A k \in Kinds : \A i : i \in DOMAIN table'[k] =>
        \/ i \in DOMAIN table[k] /\ table'[k][i] = table[k][i]
        \/ k = k0 /\ i = NewId(p) /\ table'[k][i] = NewName(p)
  <2>1. CASE CommitName(p)
    BY <2>1, CommitStep
  <2>2. CASE LoseCommit(p)
    BY <2>2 DEF LoseCommit
  <2> QED  BY <2>1, <2>2
<1>3. \A q \in Parsers, n \in Names : n \in DOMAIN known'[q] =>
        \/ n \in DOMAIN known[q] /\ known'[q][n] = known[q][n]
        \/ n = NewName(p) /\ known'[q][n] = NewId(p)
  BY AddStep
<1>4. \A q \in Parsers : pc'[q] = "commit" => pc[q] = "commit"
  BY AddStep DEF TypeInv, TypeOK
<1>5. ASSUME NEW k \in Kinds, NEW n \in Names, NEW i, Claimed(k, i, n)'
      PROVE  Claimed(k, i, n)
  <2>1. CASE i \in DOMAIN table'[k] /\ table'[k][i] = n
    BY <1>1, <1>2, <2>1 DEF Claimed
  <2>2. ASSUME NEW q \in Parsers, n \in DOMAIN known'[q], KindOf[n] = k, known'[q][n] = i
        PROVE  Claimed(k, i, n)
    BY <1>1, <1>3, <2>2 DEF Claimed
  <2>3. ASSUME NEW q \in Parsers, pc'[q] = "commit", NewName(q)' = n, KindOf[n] = k,
               NewId(q)' = i
        PROVE  Claimed(k, i, n)
    BY <1>4, <2>3, AddStep DEF Claimed, NewName, NewId
  <2>4. ASSUME NEW c \in cdrs', StoredAs(c, k, i, n) PROVE Claimed(k, i, n)
    BY <2>4, AddStep DEF Claimed
  <2> QED  BY <1>5, <2>1, <2>2, <2>3, <2>4 DEF Claimed, StoredAs
<1> QED  BY <1>5 DEF ClaimsKept

LEMMA EndClaims ==
  ASSUME TypeInv, Visited, NEW p \in Parsers, Store(p) \/ Abort(p) PROVE ClaimsKept
<1>1. /\ UNCHANGED table
      /\ pc'[p] # "commit" /\ known'[p] = NoRows
      /\ \A q \in Parsers : q # p =>
           /\ pc'[q] = pc[q] /\ file'[q] = file[q]
           /\ ids'[q] = ids[q] /\ known'[q] = known[q]
  BY DEF Store, Abort, End, Goto, TypeInv, TypeOK, Shapes
<1>2. ASSUME NEW c \in cdrs' \ cdrs, NEW k \in Kinds, NEW n \in Names, NEW i,
             StoredAs(c, k, i, n)
      PROVE  Claimed(k, i, n)
  <2>1. Store(p) /\ c = [file |-> file[p], ids |-> ids[p]] /\ pc[p] = "names"
    BY <1>2 DEF Store, Abort
  <2>2. PICK j \in DOMAIN ids[p] :
          Fields[file[p]][j] = n /\ n # NoName /\ KindOf[n] = k /\ ids[p][j] = i
    BY <1>2, <2>1 DEF StoredAs
  <2>3. j \in 1 .. Len(ids[p])
    <3> ids[p] \in Seq(Nat \union {NULL})
      BY DEF TypeInv, TypeOK
    <3> QED  BY <2>2
  <2>4. n \in DOMAIN known[p] /\ known[p][n] = i
    BY <2>1, <2>2, <2>3 DEF Visited, FieldDone
  <2> QED  BY <2>2, <2>4 DEF Claimed
<1>3. ASSUME NEW k \in Kinds, NEW n \in Names, NEW i, Claimed(k, i, n)'
      PROVE  Claimed(k, i, n)
  <2>1. ASSUME NEW q \in Parsers, n \in DOMAIN known'[q], KindOf[n] = k, known'[q][n] = i
        PROVE  Claimed(k, i, n)
    BY <1>1, <2>1 DEF Claimed, NoRows
  <2>2. ASSUME NEW q \in Parsers, pc'[q] = "commit", NewName(q)' = n, KindOf[n] = k,
               NewId(q)' = i
        PROVE  Claimed(k, i, n)
    BY <1>1, <2>2 DEF Claimed, NewName, NewId
  <2>3. ASSUME NEW c \in cdrs', StoredAs(c, k, i, n) PROVE Claimed(k, i, n)
    BY <1>2, <2>3 DEF Claimed
  <2> QED  BY <1>1, <1>3, <2>1, <2>2, <2>3 DEF Claimed, StoredAs
<1> QED  BY <1>3 DEF ClaimsKept

\* A new name gets an id that nothing refers to.
LEMMA SaveClaims ==
  ASSUME TypeInv, NEW p \in Parsers, SaveOperator(p) \/ SaveHub(p),
         NEW k \in Kinds, NEW n \in Names, NEW i, Claimed(k, i, n)'
  PROVE  Claimed(k, i, n) \/ (n = Name(p) /\ k = KindOf[n] /\ i = nextId[k])
<1>1. /\ UNCHANGED <<file, known, table, cdrs>>
      /\ pc' = [pc EXCEPT ![p] = "commit"]
      /\ nextId[KindOf[Name(p)]] \in Nat
  BY SaveStep, NamesAssumption DEF TypeInv, TypeOK
<1>2. /\ \A q \in Parsers : q # p => ids'[q] = ids[q] /\ pc'[q] = pc[q]
      /\ Len(ids'[p]) = Len(ids[p]) + 1
      /\ ids'[p][Len(ids[p]) + 1] = nextId[KindOf[Name(p)]]
  BY <1>1, SaveStep, OneMore DEF TypeInv, TypeOK
<1>3. NewName(p)' = Name(p) /\ NewId(p)' = nextId[KindOf[Name(p)]]
  BY <1>1, <1>2 DEF NewName, NewId, Name
<1>4. ASSUME NEW q \in Parsers, pc'[q] = "commit", NewName(q)' = n, KindOf[n] = k,
             NewId(q)' = i
      PROVE  Claimed(k, i, n) \/ (n = Name(p) /\ k = KindOf[n] /\ i = nextId[k])
  <2>1. CASE q = p
    BY <1>3, <1>4, <2>1
  <2>2. CASE q # p
    BY <1>1, <1>2, <1>4, <2>2 DEF Claimed, NewName, NewId
  <2> QED  BY <2>1, <2>2
<1> QED  BY <1>1, <1>4 DEF Claimed, StoredAs

LEMMA OneNameStays ==
  ASSUME TypeInv, Visited, OneName, NEW p \in Parsers, Work(p)
  PROVE  OneName'
<1>1. \A k \in Kinds : nextId[k] \in Nat
  BY DEF TypeInv, TypeOK
<1>2. CASE SaveOperator(p) \/ SaveHub(p)
  <2> SUFFICES ASSUME NEW k \in Kinds, NEW n \in Names, NEW i, Claimed(k, i, n)'
               PROVE  /\ i \in 1 .. nextId'[k] - 1
                      /\ \A m \in Names : Claimed(k, i, m)' => m = n
    BY DEF OneName
  <2> DEFINE Fresh(m) == m = Name(p) /\ k = KindOf[m] /\ i = nextId[k]
  <2>1. \A m \in Names : Claimed(k, i, m)' => Claimed(k, i, m) \/ Fresh(m)
    BY <1>2, SaveClaims
  <2>2. \A m \in Names : Claimed(k, i, m) => i \in 1 .. nextId[k] - 1
    BY DEF OneName
  <2>3. \A m \in Names : ~(Claimed(k, i, m) /\ i = nextId[k])
    BY <1>1, <2>2
  <2>4. nextId'[k] = nextId[k] \/ (k = KindOf[Name(p)] /\ nextId'[k] = nextId[k] + 1)
    BY <1>2, SaveStep DEF TypeInv, TypeOK
  <2>5. Fresh(n) => i \in 1 .. nextId'[k] - 1
    <3>1. nextId[k] >= 1
      BY DEF TypeInv, Shapes
    <3>2. KindOf[Name(p)] = k => nextId'[k] = nextId[k] + 1
      BY <1>2, SaveStep DEF TypeInv, TypeOK
    <3> QED  BY <1>1, <3>1, <3>2
  <2>6. Claimed(k, i, n) => i \in 1 .. nextId'[k] - 1
    BY <1>1, <2>2, <2>4
  <2>7. \A m \in Names : Claimed(k, i, m)' => m = n
    <3>1. \A m \in Names : Claimed(k, i, m) /\ Claimed(k, i, n) => m = n
      BY DEF OneName
    <3> QED  BY <2>1, <2>3, <3>1
  <2> QED  BY <2>1, <2>5, <2>6, <2>7
<1>3. CASE ~(SaveOperator(p) \/ SaveHub(p))
  <2>1. ClaimsKept
    BY <1>3, StartClaims, FillClaims, CheckClaims, AddClaims, EndClaims DEF Work
  <2>2. UNCHANGED nextId
    BY <1>3 DEF Work, Start, FillOperators, FillHubs, Fill, Check_Oper, Check_Hub,
       Check, CommitName, LoseCommit, Store, Abort
  <2> QED  BY <2>1, <2>2 DEF OneName, ClaimsKept
<1> QED  BY <1>2, <1>3

Ind == TypeInv /\ Visited /\ OneName

LEMMA InitInd == Init => Ind
<1> SUFFICES ASSUME Init PROVE Ind
  OBVIOUS
<1>1. Visited
  BY DEF Init, Visited
<1>2. OneName
  BY DEF Init, OneName, Claimed, NoTables, NoRows
<1> QED  BY <1>1, <1>2, InitTypes DEF Ind

\* A commit puts its row where no other one is.
LEMMA RowIsFresh ==
  ASSUME TypeInv, OneName, NEW p \in Parsers, pc[p] = "commit"
  PROVE  FreshRow(p)
<1> DEFINE k == KindOf[NewName(p)]
<1>1. NewName(p) \in Names /\ k \in Kinds
  BY NamesAssumption DEF TypeInv, Visits, Pending
<1>2. Claimed(k, NewId(p), NewName(p))
  BY DEF Claimed
<1>3. ASSUME NewId(p) \in DOMAIN table[k] PROVE table[k][NewId(p)] = NewName(p)
  <2>1. table[k][NewId(p)] \in Names
    BY <1>1, <1>3 DEF TypeInv, Shapes
  <2>2. Claimed(k, NewId(p), table[k][NewId(p)])
    BY <1>3 DEF Claimed
  <2> QED  BY <1>1, <1>2, <2>1, <2>2 DEF OneName
<1> QED  BY <1>3 DEF FreshRow

LEMMA StoreTypes ==
  ASSUME TypeInv, NEW p \in Parsers, Store(p) \/ Abort(p)
  PROVE  TypeInv'
<1>1. CASE Store(p)
  <2>1. file[p] \in Files /\ ids[p] \in Seq(Nat \union {NULL})
    BY <1>1 DEF Store, TypeInv, TypeOK, Shapes
  <2>2. cdrs' \subseteq Cdr
    BY <1>1, <2>1 DEF Store, Cdr, TypeInv, TypeOK
  <2> QED  BY <1>1, <2>2, EndTypes DEF Store, TypeInv, TypeOK
<1>2. CASE Abort(p)
  <2>1. aborts' \in 0 .. MaxAborts
    BY <1>2, NamesAssumption DEF Abort, TypeInv, TypeOK
  <2> QED  BY <1>2, <2>1, EndTypes DEF Abort, TypeInv, TypeOK
<1> QED  BY <1>1, <1>2

LEMMA WorkInd ==
  ASSUME Ind, NEW p \in Parsers, Work(p)
  PROVE  Ind'
<1>1. TypeInv'
  <2>1. CASE CommitName(p) \/ LoseCommit(p)
    <3>1. pc[p] = "commit"
      BY <2>1 DEF CommitName, LoseCommit
    <3> QED  BY <2>1, <3>1, AddTypes, RowIsFresh DEF Ind
  <2> QED  BY <2>1, StartTypes, FillTypes, CheckTypes, SaveTypes, StoreTypes DEF Ind, Work
<1> QED  BY <1>1, VisitedStays, OneNameStays DEF Ind

LEMMA StutterInd == Ind /\ UNCHANGED vars => Ind'
<1> SUFFICES ASSUME Ind, UNCHANGED vars PROVE Ind'
  OBVIOUS
<1> USE DEF Ind, vars
<1>1. TypeInv'
  <2>1. TypeOK' /\ Shapes' /\ SeenStays'
    BY DEF TypeInv, TypeOK, Shapes, SeenStays
  <2>2. Visits'
    BY DEF TypeInv, Visits, Pending, NewName, NewId
  <2> QED  BY <2>1, <2>2 DEF TypeInv
<1>2. Visited'
  BY DEF Visited, FieldDone
<1>3. OneName'
  BY DEF OneName, Claimed, StoredAs, NewName, NewId
<1> QED  BY <1>1, <1>2, <1>3

LEMMA IndInvariant == Spec => []Ind
<1>1. Ind /\ [Next]_vars => Ind'
  BY WorkInd, StutterInd DEF Next, Finished
<1> QED  BY <1>1, InitInd, PTL DEF Spec

\* Every variable keeps its type; every id, in a table, a vector or a stored
\* record, is one that the table's counter has issued.
THEOREM TypesCorrect == Spec => []TypeOK
<1>1. Ind => TypeOK
  BY DEF Ind, TypeInv
<1> QED  BY <1>1, IndInvariant, PTL

-------------------------------------------------------------------------------
(* The stored records *)

\* The record of a stored file is complete, and its ids depend on the name only.
CdrFine(c) ==
  /\ c.file \in Files /\ c.ids \in Seq(Nat \union {NULL})
  /\ Len(c.ids) = Len(Fields[c.file])
  /\ \A i \in 1 .. Len(c.ids) : Fields[c.file][i] = NoName => c.ids[i] = NULL
  /\ \A i, j \in 1 .. Len(c.ids) :
       Fields[c.file][i] = Fields[c.file][j] => c.ids[i] = c.ids[j]

CdrsFine == \A c \in cdrs : CdrFine(c)

\* What Store stores, and nothing else is.
LEMMA StoredCdr ==
  ASSUME Ind, NEW p \in Parsers, Store(p)
  PROVE  /\ CdrFine([file |-> file[p], ids |-> ids[p]])
         /\ \A i \in 1 .. Len(ids[p]) : FieldDone(p, i)
<1>1. pc[p] = "names" /\ ~(Len(ids[p]) < Len(Fields[file[p]]))
  BY DEF Store, More
<1>2. file[p] \in Files /\ ids[p] \in Seq(Nat \union {NULL})
  BY <1>1 DEF Ind, TypeInv, TypeOK, Shapes
<1>3. Len(ids[p]) = Len(Fields[file[p]])
  <2>1. Len(ids[p]) <= Len(Fields[file[p]])
    BY <1>1 DEF Ind, TypeInv, Visits
  <2>2. Len(ids[p]) \in Nat /\ Len(Fields[file[p]]) \in Nat
    BY <1>2, FieldsType
  <2> QED  BY <1>1, <2>1, <2>2
<1>4. \A i \in 1 .. Len(ids[p]) : FieldDone(p, i)
  BY <1>1 DEF Ind, Visited
<1> QED  BY <1>2, <1>3, <1>4 DEF CdrFine, FieldDone

LEMMA CdrsStep ==
  ASSUME Next, NEW c \in cdrs', c \notin cdrs
  PROVE  \E p \in Parsers : Store(p) /\ c = [file |-> file[p], ids |-> ids[p]]
<1>1. PICK p \in Parsers : Work(p)
  BY DEF Next, Finished, vars
<1>2. Store(p)
  BY <1>1 DEF Work, Start, FillOperators, FillHubs, Fill, Check_Oper, Check_Hub, Check,
     SaveOperator, SaveHub, Save, CommitName, LoseCommit, Abort
<1> QED  BY <1>2 DEF Store

LEMMA CdrsInvariant == Spec => []CdrsFine
<1>1. Init => CdrsFine
  BY DEF Init, CdrsFine
<1>2. Ind /\ CdrsFine /\ [Next]_vars => CdrsFine'
  <2> SUFFICES ASSUME Ind, CdrsFine, [Next]_vars, NEW c \in cdrs' PROVE CdrFine(c)
    BY DEF CdrsFine, CdrFine
  <2>1. CASE c \in cdrs
    BY <2>1 DEF CdrsFine
  <2>2. CASE c \notin cdrs
    BY <2>2, CdrsStep, StoredCdr DEF vars
  <2> QED  BY <2>1, <2>2
<1> QED  BY <1>1, <1>2, IndInvariant, PTL DEF Spec

\* In a stored file, equal names have equal ids: none is inserted twice for one
\* file, and an operator's id is not a hub's.
THEOREM OneIdForEachName == Spec => []OneIdPerFile
<1>1. CdrsFine => OneIdPerFile
  <2> SUFFICES ASSUME CdrsFine, NEW c \in cdrs PROVE DOMAIN c.ids = 1 .. Len(c.ids)
    BY DEF CdrsFine, CdrFine, OneIdPerFile
  <2> c.ids \in Seq(Nat \union {NULL})
    BY DEF CdrsFine, CdrFine
  <2> QED  OBVIOUS
<1> QED  BY <1>1, CdrsInvariant, PTL

-------------------------------------------------------------------------------
(* References *)

LEMMA StoredField ==
  ASSUME NEW r
  PROVE  r \in StoredFields <=>
           \E c \in cdrs : \E i \in DOMAIN c.ids :
             r = [name |-> Fields[c.file][i], id |-> c.ids[i]]
BY DEF StoredFields

\* A stored record with a name.
LEMMA FieldOfCdr ==
  ASSUME CdrsFine, NEW c \in cdrs, NEW i \in DOMAIN c.ids
  PROVE  /\ Fields[c.file][i] \in Names \union {NoName}
         /\ c.ids[i] \in Nat \union {NULL}
         /\ Fields[c.file][i] = NoName => c.ids[i] = NULL
<1>1. /\ c.file \in Files /\ c.ids \in Seq(Nat \union {NULL})
      /\ Len(c.ids) = Len(Fields[c.file])
      /\ \A j \in 1 .. Len(c.ids) : Fields[c.file][j] = NoName => c.ids[j] = NULL
  BY DEF CdrsFine, CdrFine
<1>2. i \in 1 .. Len(c.ids)
  BY <1>1
<1>3. Fields[c.file][i] \in Names \union {NoName}
  BY <1>1, <1>2, FieldsType
<1> QED  BY <1>1, <1>2, <1>3

\* The row that a stored field refers to, if it is there, is the name's.
LEMMA RowOfName ==
  ASSUME Ind, CdrsFine, NEW r \in StoredFields
  PROVE  IF r.name = NoName THEN r.id = NULL
         ELSE Row(r) => table[KindOf[r.name]][r.id] = r.name
<1>1. PICK c \in cdrs : \E i \in DOMAIN c.ids :
        r = [name |-> Fields[c.file][i], id |-> c.ids[i]]
  BY StoredField
<1>2. PICK i \in DOMAIN c.ids : r = [name |-> Fields[c.file][i], id |-> c.ids[i]]
  BY <1>1
<1>3. CASE r.name = NoName
  BY <1>2, <1>3, FieldOfCdr
<1>4. ASSUME r.name # NoName, Row(r) PROVE table[KindOf[r.name]][r.id] = r.name
  <2> DEFINE k == KindOf[r.name]
  <2>1. r.name \in Names /\ k \in Kinds
    BY <1>2, <1>4, FieldOfCdr, NamesAssumption
  <2>2. StoredAs(c, k, r.id, r.name)
    BY <1>2, <1>4 DEF StoredAs
  <2>3. Claimed(k, r.id, r.name)
    BY <2>2 DEF Claimed
  <2>4. Claimed(k, r.id, table[k][r.id]) /\ table[k][r.id] \in Names
    BY <1>4, <2>1 DEF Claimed, Row, Ind, TypeInv, Shapes
  <2> QED  BY <2>1, <2>3, <2>4 DEF Ind, OneName
<1> QED  BY <1>3, <1>4

\* Names that vectors or stored records give an id that has no row.
NameIds == [name : Names, id : Nat]

Used(r) ==
  \/ \E p \in Parsers : r.name \in DOMAIN known[p] /\ known[p][r.name] = r.id
  \/ r \in StoredFields

Unrowed == {r \in NameIds : Used(r) /\ ~Row(r)}

LEMMA RowsStay ==
  ASSUME Ind, NEW p \in Parsers, Work(p), NEW r \in NameIds, Row(r)
  PROVE  Row(r)'
<1>1. KindOf[r.name] \in Kinds
  BY NamesAssumption DEF NameIds
<1>2. CASE CommitName(p)
  BY <1>1, <1>2, CommitStep DEF Ind, Row
<1>3. CASE ~CommitName(p)
  BY <1>3 DEF Work, Start, FillOperators, FillHubs, Fill, Check_Oper, Check_Hub, Check,
     SaveOperator, SaveHub, Save, LoseCommit, Store, Abort, Row
<1> QED  BY <1>2, <1>3

\* Which ids without a row a step brings into use.
LEMMA NewlyUsed ==
  ASSUME Ind, NEW p \in Parsers, Work(p), NEW r \in NameIds, Used(r)', ~Row(r)'
  PROVE  Used(r) \/ (LoseCommit(p) /\ r = [name |-> NewName(p), id |-> NewId(p)])
<1> USE DEF Ind
<1>1. CASE Start(p) \/ Check_Oper(p) \/ Check_Hub(p) \/ SaveOperator(p) \/ SaveHub(p)
  BY <1>1 DEF Start, Check_Oper, Check_Hub, Check, SaveOperator, SaveHub, Save, Used,
     StoredFields
<1>2. CASE FillOperators(p) \/ FillHubs(p)
  <2>1. PICK kind \in Kinds, step \in {"hubs", "names"} : Fill(p, kind, step)
    BY <1>2 DEF FillOperators, FillHubs, Kinds
  <2>2. PICK v : Reads(p, kind, v)
    BY <2>1, FillKnown
  <2>3. UNCHANGED <<table, cdrs>>
    BY <2>1 DEF Fill
  <2>4. ASSUME NEW q \in Parsers, r.name \in DOMAIN known'[q], known'[q][r.name] = r.id
        PROVE  Used(r)
    <3>1. CASE r.name \in DOMAIN known[q] /\ known'[q][r.name] = known[q][r.name]
      BY <2>4, <3>1 DEF Used
    <3>2. CASE r.name \in DOMAIN v /\ known'[q][r.name] = v[r.name]
      <4>1. r.id \in DOMAIN table[kind] /\ table[kind][r.id] = r.name
        BY <2>2, <2>4, <3>2 DEF Reads
      <4>2. KindOf[r.name] = kind
        BY <4>1 DEF TypeInv, TypeOK
      <4> QED  BY <2>3, <4>1, <4>2 DEF Row
    <3> QED  BY <2>2, <2>4, <3>1, <3>2 DEF Reads, TypeInv, Shapes
  <2> QED  BY <2>3, <2>4 DEF Used, StoredFields
<1>3. CASE CommitName(p) \/ LoseCommit(p)
  <2>1. UNCHANGED cdrs
    BY <1>3, AddStep
  <2>2. ASSUME NEW q \in Parsers, r.name \in DOMAIN known'[q], known'[q][r.name] = r.id
        PROVE  Used(r) \/ (LoseCommit(p) /\ r = [name |-> NewName(p), id |-> NewId(p)])
    <3>1. CASE r.name \in DOMAIN known[q] /\ known'[q][r.name] = known[q][r.name]
      BY <2>2, <3>1 DEF Used
    <3>2. CASE r.name = NewName(p) /\ known'[q][r.name] = NewId(p)
      <4>1. r = [name |-> NewName(p), id |-> NewId(p)]
        BY <2>2, <3>2 DEF NameIds
      <4>2. CASE CommitName(p)
        <5>1. Row(r)'
          BY <4>1, <4>2, CommitStep DEF Row
        <5> QED  BY <5>1
      <4> QED  BY <1>3, <4>1, <4>2
    <3> QED  BY <1>3, <2>2, <3>1, <3>2, AddStep
  <2> QED  BY <2>1, <2>2 DEF Used, StoredFields
<1>4. CASE Store(p) \/ Abort(p)
  <2>1. \A q \in Parsers : known'[q] = known[q] \/ known'[q] = NoRows
    BY <1>4 DEF Store, Abort, End, TypeInv, Shapes
  <2>2. ASSUME NEW c \in cdrs' \ cdrs, NEW i \in DOMAIN c.ids,
               r = [name |-> Fields[c.file][i], id |-> c.ids[i]]
        PROVE  Used(r)
    <3>1. Store(p) /\ c = [file |-> file[p], ids |-> ids[p]]
      BY <1>4, <2>2 DEF Store, Abort
    <3>2. i \in 1 .. Len(ids[p])
      <4> ids[p] \in Seq(Nat \union {NULL})
        BY DEF TypeInv, TypeOK
      <4> QED  BY <2>2, <3>1
    <3>3. r.name = Fields[file[p]][i] /\ r.id = ids[p][i] /\ r.name # NoName
      BY <2>2, <3>1, NamesAssumption DEF NameIds
    <3> QED  BY <3>1, <3>2, <3>3, StoredCdr DEF FieldDone, Used
  <2>3. r \in StoredFields' => Used(r)
    <3>1. ASSUME r \in StoredFields' PROVE Used(r)
      <4>1. PICK c \in cdrs' : \E i \in DOMAIN c.ids :
              r = [name |-> Fields[c.file][i], id |-> c.ids[i]]
        BY <3>1 DEF StoredFields
      <4>2. CASE c \in cdrs
        BY <4>1, <4>2 DEF Used, StoredFields
      <4> QED  BY <2>2, <4>1, <4>2
    <3> QED  BY <3>1
  <2> QED  BY <2>1, <2>3 DEF Used, NoRows
<1> QED  BY <1>1, <1>2, <1>3, <1>4 DEF Work

\* Each lost commit leaves at most one id in use that has no row.
FewUnrowed == IsFiniteSet(Unrowed) /\ Cardinality(Unrowed) <= lost

LEMMA FewUnrowedStays ==
  ASSUME Ind, FewUnrowed, [Next]_vars
  PROVE  FewUnrowed'
<1> USE DEF FewUnrowed
<1>0. lost \in Nat /\ Cardinality(Unrowed) \in Nat
  BY NamesAssumption, FS_CardinalityType DEF Ind, TypeInv, TypeOK
<1>1. ASSUME NEW p \in Parsers, LoseCommit(p) PROVE FewUnrowed'
  <2> DEFINE r == [name |-> NewName(p), id |-> NewId(p)]
             More1 == Unrowed \union {r}
  <2>1. Work(p) /\ lost' = lost + 1
    BY <1>1 DEF Work, LoseCommit
  <2>2. Unrowed' \subseteq More1
    <3> SUFFICES ASSUME NEW x \in NameIds, Used(x)', ~Row(x)' PROVE x \in More1
      BY DEF Unrowed
    <3>1. ~Row(x)
      BY <2>1, RowsStay
    <3>2. Used(x) \/ x = r
      BY <2>1, NewlyUsed
    <3> QED  BY <3>1, <3>2 DEF Unrowed
  <2>3. IsFiniteSet(More1) /\ Cardinality(More1) <= Cardinality(Unrowed) + 1
    <3> HIDE DEF r
    <3>1. /\ IsFiniteSet(Unrowed \union {r})
          /\ Cardinality(Unrowed \union {r}) =
               IF r \in Unrowed THEN Cardinality(Unrowed) ELSE Cardinality(Unrowed) + 1
      BY FS_AddElement
    <3> QED  BY <1>0, <3>1
  <2>4. IsFiniteSet(Unrowed') /\ Cardinality(Unrowed') <= Cardinality(More1)
    <3> HIDE DEF More1
    <3> QED  BY <2>2, <2>3, FS_Subset
  <2>5. Cardinality(More1) \in Nat /\ Cardinality(Unrowed') \in Nat
    BY <2>3, <2>4, FS_CardinalityType
  <2> HIDE DEF More1
  <2> QED  BY <1>0, <2>1, <2>3, <2>4, <2>5
<1>2. ASSUME Unrowed' \subseteq Unrowed, UNCHANGED lost PROVE FewUnrowed'
  <2>1. IsFiniteSet(Unrowed') /\ Cardinality(Unrowed') <= Cardinality(Unrowed)
    BY <1>2, FS_Subset
  <2>2. Cardinality(Unrowed') \in Nat
    BY <2>1, FS_CardinalityType
  <2> QED  BY <1>0, <1>2, <2>1, <2>2
<1>3. ASSUME NEW p \in Parsers, Work(p), ~LoseCommit(p) PROVE FewUnrowed'
  <2>1. Unrowed' \subseteq Unrowed
    <3> SUFFICES ASSUME NEW x \in NameIds, Used(x)', ~Row(x)' PROVE x \in Unrowed
      BY DEF Unrowed
    <3> QED  BY <1>3, RowsStay, NewlyUsed DEF Unrowed
  <2>2. UNCHANGED lost
    BY <1>3 DEF Work, Start, FillOperators, FillHubs, Fill, Check_Oper, Check_Hub, Check,
       SaveOperator, SaveHub, Save, CommitName, Store, Abort
  <2> QED  BY <1>2, <2>1, <2>2
<1>4. CASE UNCHANGED vars
  <2>1. Unrowed' = Unrowed
    BY <1>4 DEF vars, Unrowed, Used, Row, StoredFields
  <2> QED  BY <1>2, <1>4, <2>1 DEF vars
<1> QED  BY <1>1, <1>3, <1>4 DEF Next, Finished

LEMMA UnrowedInvariant == Spec => []FewUnrowed
<1>1. Init => FewUnrowed
  <2> SUFFICES ASSUME Init PROVE FewUnrowed
    OBVIOUS
  <2>1. Unrowed = {}
    BY DEF Init, Unrowed, Used, StoredFields, NoRows
  <2> QED  BY <2>1, FS_EmptySet DEF Init, FewUnrowed
<1> QED  BY <1>1, FewUnrowedStays, IndInvariant, PTL DEF Spec

\* A stored id without a row is one in use without a row.
LEMMA DanglingUnrowed ==
  ASSUME Ind, CdrsFine
  PROVE  Dangling \subseteq Unrowed
<1> SUFFICES ASSUME NEW r \in StoredFields, r.name # NoName, ~Row(r)
             PROVE  r \in NameIds
  BY DEF Dangling, Unrowed, Used
<1>1. PICK c \in cdrs : \E i \in DOMAIN c.ids :
        r = [name |-> Fields[c.file][i], id |-> c.ids[i]]
  BY StoredField
<1>2. PICK i \in DOMAIN c.ids : r = [name |-> Fields[c.file][i], id |-> c.ids[i]]
  BY <1>1
<1>3. r.name \in Names /\ KindOf[r.name] \in Kinds
  BY <1>2, FieldOfCdr, NamesAssumption
<1>4. StoredAs(c, KindOf[r.name], r.id, r.name)
  BY <1>2 DEF StoredAs
<1>5. r.id \in 1 .. nextId[KindOf[r.name]] - 1
  BY <1>3, <1>4 DEF Claimed, Ind, OneName
<1>6. r.id \in Nat
  BY <1>3, <1>5 DEF Ind, TypeInv, TypeOK
<1>7. r = [name |-> r.name, id |-> r.id]
  BY <1>2
<1> QED  BY <1>3, <1>6, <1>7 DEF NameIds

\* A stored record refers to rows of the names it held; at most one name per
\* lost commit has an id without a row; the empty name is NULL.
THEOREM ReferencesAreRows == Spec => []RefsAreRows
<1>1. Ind /\ CdrsFine /\ FewUnrowed => RefsAreRows
  <2> SUFFICES ASSUME Ind, CdrsFine, FewUnrowed PROVE RefsAreRows
    OBVIOUS
  <2>1. Dangling \subseteq Unrowed
    BY DanglingUnrowed
  <2>2. Cardinality(Dangling) <= lost
    <3>1. IsFiniteSet(Dangling) /\ Cardinality(Dangling) <= Cardinality(Unrowed)
      BY <2>1, FS_Subset DEF FewUnrowed
    <3>2. Cardinality(Dangling) \in Nat /\ Cardinality(Unrowed) \in Nat /\ lost \in Nat
      BY <3>1, FS_CardinalityType, NamesAssumption DEF FewUnrowed, Ind, TypeInv, TypeOK
    <3> QED  BY <3>1, <3>2 DEF FewUnrowed
  <2> QED  BY <2>2, RowOfName DEF RefsAreRows
<1> QED  BY <1>1, IndInvariant, CdrsInvariant, UnrowedInvariant, PTL

\* If no COMMIT of a new name is lost, no CDR is stored with an id that has no row:
\* run names_dangling violates NamesSaved for no other reason.
THEOREM NamesSavedUnlessLost ==
  ASSUME MaxLost = 0
  PROVE  Spec => []NamesSaved
<1>1. Ind /\ CdrsFine /\ FewUnrowed /\ RefsAreRows => NamesSaved
  <2> SUFFICES ASSUME Ind, CdrsFine, FewUnrowed, RefsAreRows PROVE Dangling = {}
    BY DEF NamesSaved
  <2>1. IsFiniteSet(Dangling)
    BY DanglingUnrowed, FS_Subset DEF FewUnrowed
  <2>2. lost = 0
    BY DEF Ind, TypeInv, TypeOK
  <2>3. Cardinality(Dangling) \in Nat /\ Cardinality(Dangling) <= 0
    BY <2>1, <2>2, FS_CardinalityType DEF RefsAreRows
  <2> QED  BY <2>1, <2>3, FS_EmptySet
<1> QED
  BY <1>1, IndInvariant, CdrsInvariant, UnrowedInvariant, ReferencesAreRows, PTL

-------------------------------------------------------------------------------
(* Rows per name *)

RowsOf(n) == {i \in DOMAIN table[KindOf[n]] : table[KindOf[n]][i] = n}

\* Where a parser has not read the table yet.
Unread(kind) == IF kind = "operators" THEN {"operators"} ELSE {"operators", "hubs"}

\* p's read view shows the name, and p has still to read it.
WillRead(p, n) ==
  /\ pc[p] \in Unread(KindOf[n])
  /\ \E i \in DOMAIN seen[p][KindOf[n]] : seen[p][KindOf[n]][i] = n

\* Parsers that may insert the name.
Ignorant(n) ==
  {p \in Parsers : pc[p] # "idle" /\ n \notin DOMAIN known[p] /\ ~WillRead(p, n)}

\* Once a name has a row, nobody becomes ignorant of it.
LEMMA IgnoranceShrinks ==
  ASSUME Ind, NEW p \in Parsers, Work(p), NEW n \in Names, RowsOf(n) # {}
  PROVE  Ignorant(n)' \subseteq Ignorant(n)
<1> USE DEF Ind
<1> DEFINE k == KindOf[n]
<1>0. k \in Kinds
  BY NamesAssumption
<1>1. \A q \in Parsers : q # p => pc'[q] = pc[q] /\ known'[q] = known[q] /\ seen'[q] = seen[q]
  <2>1. CASE FillOperators(p) \/ FillHubs(p)
    BY <2>1 DEF FillOperators, FillHubs, Fill, Goto, TypeInv, TypeOK, Shapes
  <2>2. CASE CommitName(p) \/ LoseCommit(p)
    BY <2>2, AddStep DEF TypeInv, TypeOK
  <2>3. CASE Store(p) \/ Abort(p)
    BY <2>3 DEF Store, Abort, End, Goto, TypeInv, TypeOK, Shapes
  <2>4. CASE Start(p)
    BY <2>4 DEF Start, Goto, TypeInv, TypeOK, Shapes
  <2>5. CASE Check_Oper(p) \/ Check_Hub(p)
    BY <2>5 DEF Check_Oper, Check_Hub, Check
  <2>6. CASE SaveOperator(p) \/ SaveHub(p)
    BY <2>6, SaveStep DEF TypeInv, TypeOK
  <2> QED  BY <2>1, <2>2, <2>3, <2>4, <2>5, <2>6 DEF Work
<1>2. p \in Ignorant(n)' => p \in Ignorant(n)
  <2>1. CASE Start(p)
    <3>1. PICK i \in DOMAIN table[k] : table[k][i] = n
      BY DEF RowsOf
    <3>2. pc'[p] = "operators" /\ seen'[p] = table
      BY <2>1 DEF Start, Goto, TypeInv, TypeOK, Shapes
    <3>3. WillRead(p, n)'
      BY <3>1, <3>2 DEF WillRead, Unread
    <3> QED  BY <3>3 DEF Ignorant
  <2>2. CASE FillOperators(p) \/ FillHubs(p)
    <3>1. PICK kind \in Kinds, step \in {"hubs", "names"} :
            /\ Fill(p, kind, step) /\ pc[p] = kind /\ pc'[p] = step
            /\ kind = "operators" => step = "hubs"
      BY <2>2 DEF FillOperators, FillHubs, Fill, Goto, Kinds, TypeInv, TypeOK
    <3>2. PICK v : Reads(p, kind, v)
      BY <3>1, FillKnown
    <3>3. UNCHANGED seen
      BY <3>1 DEF Fill
    <3>4. DOMAIN known'[p] = DOMAIN known[p] \union DOMAIN v
      BY <3>2 DEF Reads, TypeInv, Shapes
    <3>5. ASSUME WillRead(p, n) PROVE n \in DOMAIN v \/ WillRead(p, n)'
      <4>1. CASE kind = k
        BY <3>2, <3>5, <4>1 DEF Reads, WillRead
      <4>2. CASE kind # k
        <5>1. kind = "operators" /\ k = "hubs"
          BY <1>0, <3>1, <3>5, <4>2 DEF WillRead, Unread, Kinds
        <5> QED  BY <3>1, <3>3, <3>5, <5>1 DEF WillRead, Unread
      <4> QED  BY <4>1, <4>2
    <3> QED  BY <3>1, <3>4, <3>5 DEF Ignorant, Kinds
  <2>3. CASE Check_Oper(p) \/ Check_Hub(p)
    BY <2>3 DEF Check_Oper, Check_Hub, Check, Ignorant, WillRead
  <2>4. CASE SaveOperator(p) \/ SaveHub(p)
    <3>1. pc[p] = "names" /\ UNCHANGED <<known, seen>>
      BY <2>4, SaveStep DEF More
    <3> QED  BY <3>1 DEF Ignorant, WillRead, Unread
  <2>5. CASE CommitName(p) \/ LoseCommit(p)
    <3>1. pc[p] = "commit" /\ DOMAIN known[p] \subseteq DOMAIN known'[p]
      BY <2>5, AddStep
    <3> QED  BY <3>1 DEF Ignorant, WillRead, Unread
  <2>6. CASE Store(p) \/ Abort(p)
    BY <2>6 DEF Store, Abort, End, Goto, Ignorant, TypeInv, TypeOK
  <2> QED  BY <2>1, <2>2, <2>3, <2>4, <2>5, <2>6 DEF Work
<1> QED  BY <1>1, <1>2 DEF Ignorant, WillRead

LEMMA RowsFinite ==
  ASSUME Ind, NEW n \in Names
  PROVE  IsFiniteSet(RowsOf(n))
<1>1. KindOf[n] \in Kinds /\ nextId[KindOf[n]] - 1 \in Int
  BY NamesAssumption DEF Ind, TypeInv, TypeOK
<1>2. RowsOf(n) \in SUBSET (1 .. nextId[KindOf[n]] - 1)
  BY <1>1 DEF Ind, TypeInv, TypeOK, RowsOf
<1> QED  BY <1>1, <1>2, FS_Interval, FS_Subset

FewRows ==
  \A n \in Names :
    RowsOf(n) # {} => Cardinality(RowsOf(n)) + Cardinality(Ignorant(n)) <= Cardinality(Parsers)

\* Which rows a step adds for a name.
LEMMA NewRow ==
  ASSUME Ind, NEW p \in Parsers, Work(p), NEW n \in Names
  PROVE  \/ RowsOf(n)' = RowsOf(n)
         \/ /\ CommitName(p) /\ NewName(p) = n
            /\ RowsOf(n)' = RowsOf(n) \union {NewId(p)}
<1>1. CASE ~CommitName(p)
  BY <1>1 DEF Work, Start, FillOperators, FillHubs, Fill, Check_Oper, Check_Hub, Check,
     SaveOperator, SaveHub, Save, LoseCommit, Store, Abort, RowsOf
<1>2. CASE CommitName(p)
  <2>1. FreshRow(p)
    BY <1>2, RowIsFresh DEF Ind, CommitName
  <2>2. KindOf[n] \in Kinds
    BY NamesAssumption
  <2>3. CASE n = NewName(p)
    BY <1>2, <2>1, <2>3, CommitStep DEF Ind, RowsOf
  <2>4. CASE n # NewName(p)
    <3>1. CASE KindOf[n] # KindOf[NewName(p)]
      BY <1>2, <2>2, <3>1, CommitStep DEF Ind, RowsOf
    <3>2. CASE KindOf[n] = KindOf[NewName(p)]
      BY <1>2, <2>1, <2>4, <3>2, CommitStep DEF Ind, RowsOf, FreshRow
    <3> QED  BY <3>1, <3>2
  <2> QED  BY <1>2, <2>3, <2>4
<1> QED  BY <1>1, <1>2

LEMMA FewRowsStays ==
  ASSUME IsFiniteSet(Parsers), Ind, FewRows, NEW p \in Parsers, Work(p)
  PROVE  FewRows'
<1> SUFFICES ASSUME NEW n \in Names, RowsOf(n)' # {}
             PROVE  Cardinality(RowsOf(n)') + Cardinality(Ignorant(n)') <= Cardinality(Parsers)
  BY DEF FewRows
<1>1. /\ Cardinality(Parsers) \in Nat
      /\ IsFiniteSet(Ignorant(n)) /\ Cardinality(Ignorant(n)) \in Nat
      /\ IsFiniteSet(Ignorant(n)') /\ Cardinality(Ignorant(n)') \in Nat
  <2>1. Ignorant(n) \in SUBSET Parsers /\ Ignorant(n)' \in SUBSET Parsers
    BY DEF Ignorant
  <2> QED  BY <2>1, FS_Subset, FS_CardinalityType
<1>2. /\ IsFiniteSet(RowsOf(n)) /\ Cardinality(RowsOf(n)) \in Nat
      /\ IsFiniteSet(RowsOf(n)') /\ Cardinality(RowsOf(n)') \in Nat
  <2>1. IsFiniteSet(RowsOf(n))
    BY RowsFinite
  <2>2. IsFiniteSet(RowsOf(n)')
    BY <2>1, NewRow, FS_AddElement
  <2> QED  BY <2>1, <2>2, FS_CardinalityType
<1>3. CASE RowsOf(n)' = RowsOf(n)
  <2>1. Ignorant(n)' \in SUBSET Ignorant(n)
    BY <1>3, IgnoranceShrinks
  <2>2. Cardinality(Ignorant(n)') <= Cardinality(Ignorant(n))
    BY <1>1, <2>1, FS_Subset
  <2> QED  BY <1>1, <1>2, <1>3, <2>2 DEF FewRows
<1>4. CASE /\ CommitName(p) /\ NewName(p) = n
           /\ RowsOf(n)' = RowsOf(n) \union {NewId(p)}
  <2>1. pc[p] = "commit" /\ pc'[p] = "names" /\ n \notin DOMAIN known[p] /\ n \in DOMAIN known'[p]
    BY <1>4, AddStep DEF Ind, Pending, TypeInv, TypeOK
  <2>2. p \in Ignorant(n) /\ p \notin Ignorant(n)'
    BY <2>1 DEF Ignorant, WillRead, Unread
  <2>3. Cardinality(RowsOf(n)') <= Cardinality(RowsOf(n)) + 1
    BY <1>2, <1>4, FS_AddElement
  <2>4. CASE RowsOf(n) = {}
    <3>1. Cardinality(RowsOf(n)') <= 1
      BY <1>2, <2>3, <2>4, FS_EmptySet
    <3>2. Ignorant(n)' \in SUBSET (Parsers \ {p})
      BY <2>2 DEF Ignorant
    <3>3. /\ IsFiniteSet(Parsers \ {p})
          /\ Cardinality(Parsers \ {p}) = Cardinality(Parsers) - 1
      BY FS_RemoveElement
    <3>4. Cardinality(Ignorant(n)') <= Cardinality(Parsers) - 1
      BY <3>2, <3>3, FS_Subset
    <3> QED  BY <1>1, <1>2, <3>1, <3>4
  <2>5. CASE RowsOf(n) # {}
    <3>1. Ignorant(n)' \in SUBSET (Ignorant(n) \ {p})
      BY <2>2, <2>5, IgnoranceShrinks
    <3>2. /\ IsFiniteSet(Ignorant(n) \ {p})
          /\ Cardinality(Ignorant(n) \ {p}) = Cardinality(Ignorant(n)) - 1
      BY <1>1, <2>2, FS_RemoveElement
    <3>3. Cardinality(Ignorant(n)') <= Cardinality(Ignorant(n)) - 1
      BY <3>1, <3>2, FS_Subset
    <3>4. Cardinality(RowsOf(n)) + Cardinality(Ignorant(n)) <= Cardinality(Parsers)
      BY <2>5 DEF FewRows
    <3> QED  BY <1>1, <1>2, <2>3, <3>3, <3>4
  <2> QED  BY <2>4, <2>5
<1> QED  BY <1>3, <1>4, NewRow

\* However parsers race for a new name, it gets at most as many rows as there
\* are parsers: one that starts when it has a row inserts none.
THEOREM RowsPerName ==
  ASSUME IsFiniteSet(Parsers)
  PROVE  Spec => []RowsBounded
<1>1. Init => FewRows
  BY NamesAssumption DEF Init, FewRows, RowsOf, NoTables, NoRows
<1>2. Ind /\ FewRows /\ [Next]_vars => FewRows'
  <2> SUFFICES ASSUME Ind, FewRows, [Next]_vars PROVE FewRows'
    OBVIOUS
  <2>1. CASE UNCHANGED vars
    BY <2>1 DEF vars, FewRows, RowsOf, Ignorant, WillRead
  <2> QED  BY <2>1, FewRowsStays DEF Next, Finished
<1>3. Ind /\ FewRows => RowsBounded
  <2> SUFFICES ASSUME Ind, FewRows, NEW n \in Names
               PROVE  Cardinality(RowsOf(n)) <= Cardinality(Parsers)
    BY DEF RowsBounded, RowsOf
  <2>1. Cardinality(RowsOf(n)) \in Nat /\ Cardinality(Parsers) \in Nat
    BY RowsFinite, FS_CardinalityType
  <2>2. IsFiniteSet(Ignorant(n)) /\ Cardinality(Ignorant(n)) \in Nat
    <3> Ignorant(n) \in SUBSET Parsers
      BY DEF Ignorant
    <3> QED  BY FS_Subset, FS_CardinalityType
  <2>3. CASE RowsOf(n) = {}
    BY <2>1, <2>3, FS_EmptySet
  <2>4. CASE RowsOf(n) # {}
    BY <2>1, <2>2, <2>4 DEF FewRows
  <2> QED  BY <2>3, <2>4
<1> QED  BY <1>1, <1>2, <1>3, IndInvariant, PTL DEF Spec
===============================================================================
