--------------------------- MODULE FileReaderProofs ---------------------------
(***************************************************************************)
(* What FileReader keeps right for every file, config.ini and producer.    *)
(* Two invariants, each relative to the one before: Ind says where the     *)
(* rows come from, which is what WholeBeforeUse needs (IndInvariant); Told *)
(* which lines the rows and records are (ToldInvariant).  From the second  *)
(* follow the records, their keys and the refinement of FileVerdict.       *)
(***************************************************************************)
EXTENDS FileReader, ConfigProofs, FiniteSetTheorems, SequenceTheorems, TLAPS

-------------------------------------------------------------------------------
(* The invariant *)

\* A row's first field is that of a line read, or what was there of one.
FromLine(row) ==
  row.first = Cut \/ \E k \in 1 .. taken : row.first = file[k].first

\* Where the parser is in the file, and where its rows and records come from.
Shapes ==
  /\ file \in Seq(Lines)
  /\ config.footer # <<>> => ~Finds(config.footer, Cut)
  /\ visible \in Seq(Lines)
  /\ visible # <<>> => /\ written < Len(file) /\ Len(visible) = 1
                       /\ visible[1].first \in {Cut, file[written + 1].first}
  /\ pc = "open" => taken = 0 /\ raw_fields = <<>> /\ cdrs = <<>>
  /\ pc = "read" => taken <= written /\ cdrs = <<>>
  /\ raw_fields \in Seq(Lines)
  /\ \A i \in 1 .. Len(raw_fields) : FromLine(raw_fields[i])
  /\ cdrs \in Seq([oper : Seq(STRING), status : -1 .. MaxLong, dt : Date])

Ind == TypeOK /\ Shapes /\ WholeBeforeUse

LEMMA PartsType ==
  ASSUME NEW line \in Lines, NEW part \in Parts(line)
  PROVE  part \in Lines /\ part.first \in {Cut, line.first}
<1> DEFINE Part(n, first, oper) ==
      [fields |-> n, first |-> first, oper |-> oper, num |-> line.num, time |-> line.time]
<1>1. Cut \in Seq(STRING)
  BY ReaderAssumption
<1>2. line.first \in Seq(STRING) /\ line.oper \in Seq(STRING)
  BY DEF Lines
<1>3. PICK n \in Nat \ {0}, first \in {Cut, line.first}, oper \in {Cut, line.oper} :
        part = Part(n, first, oper)
  BY DEF Parts, Short, Full
<1>4. first \in Seq(STRING) /\ oper \in Seq(STRING)
  BY <1>1, <1>2, <1>3
<1> QED  BY <1>3, <1>4 DEF Lines

LEMMA FileFacts ==
  ASSUME Shapes
  PROVE  Len(file) \in Nat /\ \A k \in 1 .. Len(file) : file[k] \in Lines
BY LenProperties, ElementOfSeq DEF Shapes

LEMMA ConvertToLongType ==
  ASSUME NEW field, IsNumber(field)
  PROVE  ConvertToLong(field) \in -1 .. MaxLong
<1>1. MaxLong \in Nat
  BY ReaderAssumption
<1>2. CASE field = ""
  <2>1. ConvertToLong(field) = -1
    BY <1>2 DEF ConvertToLong
  <2> QED  BY <1>1, <2>1
<1>3. CASE field # ""
  <2>1. NumberOf[field] \in Nat
    BY <1>3, ReaderAssumption DEF IsNumber
  <2>2. \A m, n \in Nat : Min({m, n}) \in {m, n} /\ Min({m, n}) <= n
    BY DEF Min
  <2>3. ConvertToLong(field) = Min({NumberOf[field], MaxLong})
    BY <1>3 DEF ConvertToLong
  <2>4. Min({NumberOf[field], MaxLong}) \in Nat /\ Min({NumberOf[field], MaxLong}) <= MaxLong
    BY <1>1, <2>1, <2>2
  <2> QED  BY <1>1, <2>3, <2>4
<1> QED  BY <1>2, <1>3

LEMMA InitInd == Init => Ind
<1> SUFFICES ASSUME Init PROVE Ind
  OBVIOUS
<1>1. PICK input \in Inputs : file = input.file /\ ini = input.ini
  BY DEF Init
<1>2. Shapes
  <2>1. file \in Seq(Lines) /\ (config.footer # <<>> => ~Finds(config.footer, Cut))
    BY <1>1, ReaderAssumption DEF Init
  <2>2. <<>> \in Seq(Lines) /\ <<>> \in Seq([oper : Seq(STRING), status : -1 .. MaxLong, dt : Date])
    BY EmptySeq
  <2>3. Len(raw_fields) = 0
    BY DEF Init
  <2> QED  BY <2>1, <2>2, <2>3 DEF Init, Shapes
<1>3. TypeOK
  BY <1>2, FileFacts DEF Init, TypeOK, Date, Garbage
<1>4. WholeBeforeUse
  BY DEF Init, WholeBeforeUse
<1> QED  BY <1>2, <1>3, <1>4 DEF Ind

-------------------------------------------------------------------------------
(* The producer *)

LEMMA WriteInd ==
  ASSUME Ind, Write \/ EndLine
  PROVE  Ind'
<1>1. CASE Write
  <2>1. PICK part \in Parts(file[written + 1]) : visible' = <<part>>
    BY <1>1 DEF Write
  <2>2. written \in Nat /\ written < Len(file) /\ file[written + 1] \in Lines
    BY <1>1, FileFacts DEF Write, Ind, TypeOK
  <2>3. part \in Lines /\ part.first \in {Cut, file[written + 1].first}
    BY <2>2, PartsType
  <2>4. /\ visible' \in Seq(Lines) /\ Len(visible') = 1
        /\ visible'[1].first \in {Cut, file[written + 1].first}
    BY <2>1, <2>3
  <2>5. UNCHANGED <<given, written, pc, taken, raw_fields, cdrs, dates, slot>>
    BY <1>1 DEF Write
  <2>6. TypeOK' /\ WholeBeforeUse'
    BY <2>4, <2>5 DEF Ind, TypeOK, WholeBeforeUse, Marked, given
  <2>7. Shapes'
    BY <2>2, <2>4, <2>5 DEF Ind, Shapes, given, FromLine
  <2> QED  BY <2>6, <2>7 DEF Ind
<1>2. CASE EndLine
  <2>1. /\ written' = written + 1 /\ visible' = <<>> /\ written < Len(file)
        /\ UNCHANGED <<given, pc, taken, raw_fields, cdrs, dates, slot>>
    BY <1>2 DEF EndLine
  <2>2. Len(file) \in Nat /\ written \in Nat /\ taken \in Nat
    BY FileFacts DEF Ind, TypeOK
  <2>3. TypeOK' /\ WholeBeforeUse'
    BY <2>1, <2>2 DEF Ind, TypeOK, WholeBeforeUse, Marked, given
  <2>4. visible' \in Seq(Lines)
    BY <2>1, EmptySeq
  <2>5. Shapes'
    BY <2>1, <2>2, <2>4 DEF Ind, Shapes, given, FromLine
  <2> QED  BY <2>3, <2>5 DEF Ind
<1> QED  BY <1>1, <1>2

-------------------------------------------------------------------------------
(* The reader *)

LEMMA KeepType ==
  ASSUME NEW rows \in Seq(Lines), NEW line \in Lines
  PROVE  /\ Keep(rows, line) \in Seq(Lines)
         /\ Keep(rows, line) \in {rows, Append(rows, line)}
BY AppendProperties DEF Keep

\* Keeping a line more keeps the rows' origin.
LEMMA KeepFromLine ==
  ASSUME Ind, NEW line \in Lines, NEW n \in Nat, n >= taken, n <= Len(file),
         line.first = Cut \/ \E k \in 1 .. n : line.first = file[k].first,
         NEW rows, rows = Keep(raw_fields, line)
  PROVE  /\ rows \in Seq(Lines)
         /\ Len(rows) \in {Len(raw_fields), Len(raw_fields) + 1}
         /\ \A i \in 1 .. Len(rows) :
              rows[i].first = Cut \/ \E k \in 1 .. n : rows[i].first = file[k].first
<1>1. raw_fields \in Seq(Lines) /\ Len(raw_fields) \in Nat /\ taken \in Nat
  BY LenProperties, FileFacts DEF Ind, Shapes, TypeOK
<1>2. rows \in Seq(Lines) /\ rows \in {raw_fields, Append(raw_fields, line)}
  BY <1>1, KeepType
<1>3. \A i \in 1 .. Len(raw_fields) :
         raw_fields[i].first = Cut \/ \E k \in 1 .. n : raw_fields[i].first = file[k].first
  BY <1>1 DEF Ind, Shapes, FromLine
<1>4. CASE rows = raw_fields
  BY <1>2, <1>3, <1>4
<1>5. CASE rows = Append(raw_fields, line)
  <2>1. /\ Len(rows) = Len(raw_fields) + 1 /\ rows[Len(raw_fields) + 1] = line
        /\ \A i \in 1 .. Len(raw_fields) : rows[i] = raw_fields[i]
    BY <1>1, <1>5, AppendProperties
  <2> QED  BY <1>1, <1>2, <1>3, <2>1
<1> QED  BY <1>2, <1>4, <1>5

LEMMA OpenInd ==
  ASSUME Ind, Open
  PROVE  Ind'
<1>1. /\ pc = "open" /\ pc' \in {"read", "closed"}
      /\ UNCHANGED <<given, written, visible, taken, raw_fields, cdrs, dates, slot>>
  BY DEF Open
<1>2. TypeOK' /\ WholeBeforeUse'
  BY <1>1 DEF Ind, TypeOK, WholeBeforeUse, Marked, given, Ended
<1>3. Shapes'
  BY <1>1 DEF Ind, Shapes, TypeOK, given, FromLine
<1> QED  BY <1>2, <1>3 DEF Ind

LEMMA ReadLineInd ==
  ASSUME Ind, ReadLine
  PROVE  Ind'
<1>1. /\ pc = "read" /\ taken < written /\ taken' = taken + 1
      /\ raw_fields' = Keep(raw_fields, file[taken + 1])
      /\ UNCHANGED <<given, written, visible, pc, cdrs, dates, slot>>
  BY DEF ReadLine
<1>2. /\ Len(file) \in Nat /\ written \in Nat /\ written <= Len(file)
      /\ taken \in Nat /\ file[taken + 1] \in Lines
  BY <1>1, FileFacts DEF Ind, TypeOK
<1>3. /\ raw_fields' \in Seq(Lines)
      /\ Len(raw_fields') \in {Len(raw_fields), Len(raw_fields) + 1}
      /\ \A i \in 1 .. Len(raw_fields') :
           raw_fields'[i].first = Cut \/ \E k \in 1 .. taken + 1 : raw_fields'[i].first = file[k].first
  BY <1>1, <1>2, KeepFromLine
<1>4. Len(raw_fields) \in Nat
  BY LenProperties DEF Ind, Shapes
<1>5. cdrs = <<>>
  BY <1>1 DEF Ind, Shapes
<1>6. TypeOK' /\ WholeBeforeUse'
  BY <1>1, <1>2, <1>3, <1>4, <1>5 DEF Ind, TypeOK, WholeBeforeUse, Marked, given, Ended
<1>7. Shapes'
  BY <1>1, <1>2, <1>3, <1>5 DEF Ind, Shapes, given, FromLine
<1> QED  BY <1>6, <1>7 DEF Ind

\* The last row's first field holds the footer word: it is not a part of a word
\* nor in a line before the last one.
LEMMA EndOfFileInd ==
  ASSUME Ind, EndOfFile
  PROVE  Ind'
<1>1. /\ pc = "read" /\ taken = written /\ taken' = taken + Len(visible)
      /\ raw_fields' = IF visible = <<>> THEN raw_fields ELSE Keep(raw_fields, visible[1])
      /\ pc' = IF HasHeader(raw_fields') /\ HasFooter(raw_fields') THEN "loop" ELSE "refused"
      /\ UNCHANGED <<given, written, visible, cdrs, dates, slot>>
  BY DEF EndOfFile
<1>2. /\ Len(file) \in Nat /\ written \in Nat /\ written <= Len(file)
      /\ taken \in Nat /\ Len(visible) \in {0, 1} /\ Len(raw_fields) \in Nat
      /\ Len(raw_fields) <= taken /\ cdrs = <<>>
  BY <1>1, FileFacts, LenProperties DEF Ind, TypeOK, Shapes
<1>3. taken' \in Nat /\ taken' <= Len(file) /\ taken' >= taken
  <2>1. CASE visible = <<>>
    <3>1. Len(visible) = 0
      BY <2>1
    <3> QED  BY <1>1, <1>2, <3>1
  <2>2. CASE visible # <<>>
    <3>1. Len(visible) = 1 /\ written < Len(file)
      BY <2>2 DEF Ind, Shapes
    <3> QED  BY <1>1, <1>2, <3>1
  <2> QED  BY <2>1, <2>2
<1>4. /\ raw_fields' \in Seq(Lines)
      /\ Len(raw_fields') <= taken'
      /\ \A i \in 1 .. Len(raw_fields') :
           raw_fields'[i].first = Cut \/ \E k \in 1 .. taken' : raw_fields'[i].first = file[k].first
  <2>1. CASE visible = <<>>
    <3>1. raw_fields' = raw_fields
      BY <1>1, <2>1
    <3> QED  BY <1>2, <1>3, <3>1 DEF Ind, Shapes, FromLine
  <2>2. CASE visible # <<>>
    <3>1. /\ Len(visible) = 1 /\ visible[1].first \in {Cut, file[written + 1].first}
          /\ visible \in Seq(Lines) /\ taken' = taken + 1
      BY <1>1, <2>2 DEF Ind, Shapes
    <3>2. visible[1] \in Lines
      <4>1. 1 \in 1 .. Len(visible)
        BY <3>1
      <4> QED  BY <3>1, <4>1, ElementOfSeq
    <3>3. visible[1].first = Cut \/ \E k \in 1 .. taken' : visible[1].first = file[k].first
      BY <1>1, <1>2, <3>1
    <3>4. raw_fields' = Keep(raw_fields, visible[1])
      BY <1>1, <2>2
    <3>5. /\ raw_fields' \in Seq(Lines)
          /\ Len(raw_fields') \in {Len(raw_fields), Len(raw_fields) + 1}
          /\ \A i \in 1 .. Len(raw_fields') :
               raw_fields'[i].first = Cut \/ \E k \in 1 .. taken' : raw_fields'[i].first = file[k].first
      BY <1>3, <3>2, <3>3, <3>4, KeepFromLine
    <3> QED  BY <1>2, <3>1, <3>5
  <2> QED  BY <2>1, <2>2
<1>5. Marked /\ pc' = "loop" => taken' = Len(file)
  <2> SUFFICES ASSUME Marked, HasFooter(raw_fields')
               PROVE  taken' = Len(file)
    BY <1>1
  <2>1. /\ raw_fields' # <<>> /\ Finds(config.footer, Last(raw_fields').first)
    BY DEF HasFooter
  <2>2. Len(raw_fields') \in Nat \ {0} /\ Last(raw_fields') = raw_fields'[Len(raw_fields')]
    BY <1>4, <2>1, LenProperties, EmptySeq DEF Last
  <2>3. ~Finds(config.footer, Cut)
    BY DEF Marked, Ind, Shapes
  <2>4. PICK k \in 1 .. taken' : Last(raw_fields').first = file[k].first
    BY <1>4, <2>1, <2>2, <2>3
  <2>5. Finds(config.footer, file[k].first)
    BY <2>1, <2>4
  <2>6. k \notin 1 .. Len(file) - 1
    BY <2>5 DEF Marked
  <2> QED  BY <1>2, <1>3, <2>4, <2>6
<1>6. TypeOK'
  BY <1>1, <1>2, <1>3, <1>4 DEF Ind, TypeOK, given, Ended
<1>7. WholeBeforeUse'
  BY <1>1, <1>5 DEF WholeBeforeUse, Marked, given
<1>8. Shapes'
  BY <1>1, <1>4 DEF Ind, Shapes, given, FromLine
<1> QED  BY <1>6, <1>7, <1>8 DEF Ind

-------------------------------------------------------------------------------
(* The loop over the records *)

\* Converting a record: the row that is next, a number that fits, a date.
LEMMA AddFileCDRInd ==
  ASSUME Ind, pc = "loop", More, NEW status \in -1 .. MaxLong,
         AddFileCDR(status), UNCHANGED <<pc, given, written, visible, taken, raw_fields>>
  PROVE  Ind'
<1>1. /\ Len(raw_fields) \in Nat /\ Len(cdrs) \in Nat
      /\ cdrs \in Seq([oper : Seq(STRING), status : -1 .. MaxLong, dt : Date])
      /\ raw_fields \in Seq(Lines)
  BY LenProperties DEF Ind, Shapes
<1>2. Len(cdrs) + 1 < Len(raw_fields) - 1
  BY DEF More
<1>3. Record \in Lines
  <2>1. Len(cdrs) + 2 \in 1 .. Len(raw_fields)
    BY <1>1, <1>2
  <2> QED  BY <1>1, <2>1, ElementOfSeq DEF Record
<1>4. PICK dt \in IF Record.time = <<>> THEN {slot, Garbage}
                   ELSE {ConvertToDateTime(Record.time)} :
        /\ cdrs' = Append(cdrs, [oper |-> Record.oper, status |-> status, dt |-> dt])
        /\ dates' = dates \union {dt}
        /\ slot' = dt
  BY DEF AddFileCDR
<1>5. dt \in Date
  <2>1. slot \in Date /\ Garbage \in Date
    BY DEF Ind, TypeOK, Date, Garbage
  <2>2. Record.time # <<>> => ConvertToDateTime(Record.time) \in Date
    BY <1>3 DEF Lines, ConvertToDateTime, Date
  <2> QED  BY <1>4, <2>1, <2>2
<1> DEFINE cdr == [oper |-> Record.oper, status |-> status, dt |-> dt]
<1>6. cdr \in [oper : Seq(STRING), status : -1 .. MaxLong, dt : Date]
  BY <1>3, <1>5 DEF Lines
<1> HIDE DEF cdr
<1>7. cdrs' = Append(cdrs, cdr)
  BY <1>4 DEF cdr
<1>8. /\ cdrs' \in Seq([oper : Seq(STRING), status : -1 .. MaxLong, dt : Date])
      /\ Len(cdrs') = Len(cdrs) + 1
  BY <1>1, <1>6, <1>7, AppendProperties
<1>9. \A k \in DOMAIN cdrs' : cdrs'[k].status \in -1 .. MaxLong /\ cdrs'[k].dt \in Date
  <2> SUFFICES ASSUME NEW k \in DOMAIN cdrs'
               PROVE  cdrs'[k].status \in -1 .. MaxLong /\ cdrs'[k].dt \in Date
    OBVIOUS
  <2>1. k \in 1 .. Len(cdrs')
    BY <1>8, LenProperties
  <2>2. cdrs'[k] \in [oper : Seq(STRING), status : -1 .. MaxLong, dt : Date]
    BY <1>8, <2>1, ElementOfSeq
  <2> QED  BY <2>2
<1>10. dates' \subseteq Date /\ slot' \in Date
  BY <1>4, <1>5 DEF Ind, TypeOK
<1>11. TypeOK'
  BY <1>1, <1>2, <1>8, <1>9, <1>10 DEF Ind, TypeOK, given, Ended
<1>12. Shapes'
  BY <1>8 DEF Ind, Shapes, given, FromLine
<1>13. WholeBeforeUse'
  BY DEF Ind, WholeBeforeUse, Marked, given
<1> QED  BY <1>11, <1>12, <1>13 DEF Ind

LEMMA LoopEndsInd ==
  ASSUME Ind, pc = "loop", pc' \in Ended,
         UNCHANGED <<given, written, visible, taken, raw_fields, cdrs, dates, slot>>
  PROVE  Ind'
<1>1. TypeOK'
  BY DEF Ind, TypeOK, given, Ended
<1>2. Shapes'
  BY DEF Ind, Shapes, given, FromLine, Ended
<1>3. WholeBeforeUse'
  BY DEF Ind, WholeBeforeUse, Marked, given, Ended
<1> QED  BY <1>1, <1>2, <1>3 DEF Ind

LEMMA LoopInd ==
  ASSUME Ind, Convert \/ OutOfRange \/ EndOfLoop
  PROVE  Ind'
<1>1. CASE Convert
  <2>1. /\ pc = "loop" /\ More
        /\ UNCHANGED <<given, written, visible, taken, raw_fields>>
    BY <1>1 DEF Convert
  <2>2. CASE IsNumber(Record.num) /\ AddFileCDR(ConvertToLong(Record.num)) /\ UNCHANGED pc
    <3>1. ConvertToLong(Record.num) \in -1 .. MaxLong
      BY <2>2, ConvertToLongType
    <3> QED  BY <2>1, <2>2, <3>1, AddFileCDRInd
  <2>3. CASE pc' = "bad" /\ UNCHANGED <<cdrs, dates, slot>>
    BY <2>1, <2>3, LoopEndsInd DEF Ended
  <2> QED  BY <1>1, <2>2, <2>3 DEF Convert
<1>2. CASE OutOfRange
  <2>1. /\ pc = "loop" /\ More
        /\ UNCHANGED <<given, written, visible, taken, raw_fields>>
    BY <1>2 DEF OutOfRange
  <2>2. CASE AddFileCDR(-1) /\ UNCHANGED pc
    <3>1. MaxLong \in Nat
      BY ReaderAssumption
    <3>2. -1 \in -1 .. MaxLong
      BY <3>1
    <3> QED  BY <2>1, <2>2, <3>2, AddFileCDRInd
  <2>3. CASE pc' \in {"crash", "bad"} /\ UNCHANGED <<cdrs, dates, slot>>
    BY <2>1, <2>3, LoopEndsInd DEF Ended
  <2> QED  BY <1>2, <2>2, <2>3 DEF OutOfRange
<1>3. CASE EndOfLoop
  BY <1>3, LoopEndsInd DEF EndOfLoop, Ended
<1> QED  BY <1>1, <1>2, <1>3

LEMMA RetryInd ==
  ASSUME Ind, Retry
  PROVE  Ind'
<1>1. /\ pc' = "open" /\ taken' = 0 /\ raw_fields' = <<>> /\ cdrs' = <<>>
      /\ dates' = {} /\ slot' = Garbage /\ UNCHANGED <<given, written, visible>>
  BY DEF Retry
<1>2. Len(file) \in Nat
  BY FileFacts DEF Ind
<1>3. <<>> \in Seq(Lines) /\ <<>> \in Seq([oper : Seq(STRING), status : -1 .. MaxLong, dt : Date])
  BY EmptySeq
<1>4. Len(raw_fields') = 0 /\ Len(cdrs') = 0
  BY <1>1
<1>5. TypeOK'
  BY <1>1, <1>2, <1>4 DEF Ind, TypeOK, given, Date, Garbage
<1>6. Shapes'
  BY <1>1, <1>3, <1>4 DEF Ind, Shapes, given
<1>7. WholeBeforeUse'
  BY <1>1 DEF WholeBeforeUse
<1> QED  BY <1>5, <1>6, <1>7 DEF Ind

-------------------------------------------------------------------------------
(* The theorems *)

LEMMA StutterInd ==
  ASSUME Ind, UNCHANGED vars
  PROVE  Ind'
<1>1. TypeOK' /\ WholeBeforeUse'
  BY DEF Ind, TypeOK, WholeBeforeUse, Marked, vars, given
<1>2. Shapes'
  BY DEF Ind, Shapes, FromLine, vars, given
<1> QED  BY <1>1, <1>2 DEF Ind

LEMMA IndInvariant == Spec => []Ind
<1>1. Ind /\ [Next]_vars => Ind'
  <2> SUFFICES ASSUME Ind, [Next]_vars PROVE Ind'
    OBVIOUS
  <2>1. CASE Write \/ EndLine
    BY <2>1, WriteInd
  <2>2. CASE Open
    BY <2>2, OpenInd
  <2>3. CASE ReadLine
    BY <2>3, ReadLineInd
  <2>4. CASE EndOfFile
    BY <2>4, EndOfFileInd
  <2>5. CASE Convert \/ OutOfRange \/ EndOfLoop
    BY <2>5, LoopInd
  <2>6. CASE Retry
    BY <2>6, RetryInd
  <2>7. CASE UNCHANGED vars
    BY <2>7, StutterInd
  <2> QED  BY <2>1, <2>2, <2>3, <2>4, <2>5, <2>6, <2>7 DEF Next, Read, Finished
<1> QED  BY <1>1, InitInd, PTL DEF Spec

\* The reader's state is well-formed; it never has more rows than lines read
\* (LoadFile) nor records for its first and last row (the loop in main).
THEOREM TypesCorrect == Spec => []TypeOK
BY IndInvariant, PTL DEF Ind

\* Whatever the file, however its producer cuts what it writes and whenever the
\* passes look, the loop in main starts on a file that was read to its last line
\* (HasHeader, HasFooter), where the footer word marks this line and nothing else.
THEOREM WholeFilesOnly == Spec => []WholeBeforeUse
BY IndInvariant, PTL DEF Ind

-------------------------------------------------------------------------------
(* The key of a record's statistic *)

\* A day of the calendar and a number that is absent or fits into its column
\* come back from MySQL as they were.
LEMMA KeyRoundTrip ==
  ASSUME NEW cdr, cdr.status \in -1 .. MaxColumn, cdr.dt \in Date,
         IsDay(cdr.dt.mday, cdr.dt.mon, cdr.dt.year)
  PROVE  FilledStat(InsertedStat(cdr)) = [status |-> cdr.status, dt |-> cdr.dt]
<1>1. MaxColumn \in Nat
  <2>1. MaxLong \in Nat /\ MaxColumn \in 0 .. MaxLong
    BY ReaderAssumption
  <2> QED  BY <2>1
<1>2. InsertedStat(cdr).dt = cdr.dt
  BY DEF InsertedStat, DateColumn
<1>3. FilledNumber(NumberColumn(LongToStrWithNULL(cdr.status))) = cdr.status
  <2>1. CASE cdr.status < 0
    <3>1. NumberColumn(LongToStrWithNULL(cdr.status)) = <<>>
      BY <2>1 DEF NumberColumn, LongToStrWithNULL
    <3>2. cdr.status = -1
      BY <1>1, <2>1
    <3> QED  BY <3>1, <3>2 DEF FilledNumber
  <2>2. CASE ~(cdr.status < 0)
    <3>1. LongToStrWithNULL(cdr.status) = <<cdr.status>>
      BY <2>2 DEF LongToStrWithNULL
    <3>2. Min({cdr.status, MaxColumn}) = cdr.status
      <4>1. cdr.status \in Nat /\ cdr.status <= MaxColumn
        BY <1>1, <2>2
      <4>2. \A m, n \in Nat : m <= n => Min({m, n}) = m
        BY DEF Min
      <4> QED  BY <1>1, <4>1, <4>2
    <3>3. NumberColumn(<<cdr.status>>) = <<cdr.status>>
      BY <3>2 DEF NumberColumn
    <3>4. <<cdr.status>> # <<>> /\ <<cdr.status>>[1] = cdr.status
      OBVIOUS
    <3>5. FilledNumber(<<cdr.status>>) = cdr.status
      BY <3>4 DEF FilledNumber
    <3> QED  BY <3>1, <3>3, <3>5
  <2> QED  BY <2>1, <2>2
<1> QED  BY <1>2, <1>3 DEF FilledStat, InsertedStat

\* MySQLOperStats::datetimes_in_file has every record's date.
Dated == \A k \in 1 .. Len(cdrs) : cdrs[k].dt \in dates

LEMMA DatedStep == Ind /\ Dated /\ [Next]_vars => Dated'
<1> SUFFICES ASSUME Ind, Dated, [Next]_vars PROVE Dated'
  OBVIOUS
<1>1. ASSUME NEW status, AddFileCDR(status)
      PROVE  Dated'
  <2>1. PICK dt : /\ cdrs' = Append(cdrs, [oper |-> Record.oper, status |-> status, dt |-> dt])
                  /\ dates' = dates \union {dt}
    BY <1>1 DEF AddFileCDR
  <2>2. cdrs \in Seq([oper : Seq(STRING), status : -1 .. MaxLong, dt : Date])
    BY DEF Ind, Shapes
  <2> DEFINE cdr == [oper |-> Record.oper, status |-> status, dt |-> dt]
  <2>3. cdr.dt = dt
    OBVIOUS
  <2> DEFINE S == [oper : Seq(STRING), status : -1 .. MaxLong, dt : Date]
  <2> HIDE DEF cdr, S
  <2>4. /\ Len(cdrs') = Len(cdrs) + 1 /\ cdrs'[Len(cdrs) + 1] = cdr
        /\ \A k \in 1 .. Len(cdrs) : cdrs'[k] = cdrs[k]
    <3>1. cdrs \in Seq(S \union {cdr})
      <4>1. cdrs \in Seq(S)
        BY <2>2 DEF S
      <4> QED  BY <4>1, SeqMonotonic
    <3> QED  BY <2>1, <3>1, AppendProperties DEF cdr
  <2>5. Len(cdrs) \in Nat
    BY <2>2, LenProperties
  <2> QED  BY <2>1, <2>3, <2>4, <2>5 DEF Dated
<1>2. CASE UNCHANGED <<cdrs, dates>>
  BY <1>2 DEF Dated
<1>3. CASE Retry
  <2>1. Len(cdrs') = 0
    BY <1>3 DEF Retry
  <2> QED  BY <2>1 DEF Dated
<1>4. \/ \E status : AddFileCDR(status)
      \/ UNCHANGED <<cdrs, dates>>
      \/ Retry
  BY DEF Next, Read, Write, EndLine, Open, ReadLine, EndOfFile, Convert, OutOfRange,
         EndOfLoop, Finished, vars
<1> QED  BY <1>1, <1>2, <1>3, <1>4

LEMMA DatedInvariant == Spec => []Dated
<1>1. Init => Dated
  BY EmptySeq DEF Init, Dated
<1> QED  BY <1>1, DatedStep, IndInvariant, PTL DEF Spec

LEMMA KeyOfRecord ==
  ASSUME Ind, Dated, NEW k \in 1 .. Len(cdrs), cdrs[k].status <= MaxColumn,
         IsDay(cdrs[k].dt.mday, cdrs[k].dt.mon, cdrs[k].dt.year)
  PROVE  LET row == FilledStat(InsertedStat(cdrs[k]))
         IN  row = [status |-> cdrs[k].status, dt |-> cdrs[k].dt] /\ row.dt \in dates
<1>1. cdrs[k] \in [oper : Seq(STRING), status : -1 .. MaxLong, dt : Date]
  BY ElementOfSeq DEF Ind, Shapes
<1>2. MaxLong \in Nat /\ MaxColumn \in 0 .. MaxLong
  BY ReaderAssumption
<1>3. cdrs[k].status \in -1 .. MaxColumn /\ cdrs[k].dt \in Date
  BY <1>1, <1>2
<1>4. FilledStat(InsertedStat(cdrs[k])) = [status |-> cdrs[k].status, dt |-> cdrs[k].dt]
  BY <1>3, KeyRoundTrip
<1>5. cdrs[k].dt \in dates
  BY DEF Dated
<1> QED  BY <1>4, <1>5

\* A record with a day of the calendar and a number that fits its column has a
\* key that the next FillOperStats reads back as it is (StatDBInsert's
\* LongToStrWithNULL, ConvertToLong), under a date that this file selects.
\* KeyFound says besides that the record's date is that of its line.
THEOREM KeysSurvive ==
  Spec => [](\A k \in 1 .. Len(cdrs) :
               /\ cdrs[k].status <= MaxColumn
               /\ IsDay(cdrs[k].dt.mday, cdrs[k].dt.mon, cdrs[k].dt.year)
               => LET row == FilledStat(InsertedStat(cdrs[k]))
                  IN  row = [status |-> cdrs[k].status, dt |-> cdrs[k].dt] /\ row.dt \in dates)
<1> DEFINE Keys ==
      \A k \in 1 .. Len(cdrs) :
        /\ cdrs[k].status <= MaxColumn
        /\ IsDay(cdrs[k].dt.mday, cdrs[k].dt.mon, cdrs[k].dt.year)
        => LET row == FilledStat(InsertedStat(cdrs[k]))
           IN  row = [status |-> cdrs[k].status, dt |-> cdrs[k].dt] /\ row.dt \in dates
<1>1. Ind /\ Dated => Keys
  BY KeyOfRecord
<1>2. Spec => []Keys
  <2> HIDE DEF Keys
  <2> QED  BY <1>1, IndInvariant, DatedInvariant, PTL
<1> QED  BY <1>2

-------------------------------------------------------------------------------
(* Lines and rows *)

LEMMA RankFacts ==
  ASSUME NEW n \in Nat
  PROVE  /\ Rank(n) \in Nat
         /\ Rank(n + 1) = Rank(n) + (IF Wanted(file[n + 1]) THEN 1 ELSE 0)
         /\ Rank(n) = 0 <=> \A k \in 1 .. n : ~Wanted(file[k])
<1> DEFINE W(m) == {k \in 1 .. m : Wanted(file[k])}
<1>1. IsFiniteSet(W(n)) /\ Cardinality(W(n)) \in Nat
  <2>1. W(n) \in SUBSET (1 .. n)
    OBVIOUS
  <2>2. IsFiniteSet(1 .. n)
    BY FS_Interval
  <2> QED  BY <2>1, <2>2, FS_Subset, FS_CardinalityType
<1>2. n + 1 \notin W(n)
  OBVIOUS
<1>3. W(n + 1) = IF Wanted(file[n + 1]) THEN W(n) \union {n + 1} ELSE W(n)
  OBVIOUS
<1>4. Rank(n) = Cardinality(W(n)) /\ Rank(n + 1) = Cardinality(W(n + 1))
  BY DEF Rank
<1>5. W(n) = {} <=> \A k \in 1 .. n : ~Wanted(file[k])
  OBVIOUS
<1> HIDE DEF W
<1>6. Cardinality(W(n) \union {n + 1}) = Cardinality(W(n)) + 1
  BY <1>1, <1>2, FS_AddElement
<1>7. Cardinality(W(n)) = 0 <=> W(n) = {}
  BY <1>1, FS_EmptySet
<1> QED  BY <1>1, <1>3, <1>4, <1>5, <1>6, <1>7

LEMMA RankZero == Rank(0) = 0
BY RankFacts

\* The row of a wanted line is behind the rows of the lines before it.
LEMMA RankOfWanted ==
  ASSUME NEW k \in Nat \ {0}, Wanted(file[k])
  PROVE  /\ Rank(k) \in Nat \ {0} /\ Rank(k) = Rank(k - 1) + 1
         /\ Rank(k) = 1 <=> \A j \in 1 .. k - 1 : ~Wanted(file[j])
<1>1. k - 1 \in Nat /\ (k - 1) + 1 = k
  OBVIOUS
<1>2. Rank(k - 1) \in Nat /\ Rank(k) = Rank(k - 1) + 1
  BY <1>1, RankFacts
<1>3. Rank(k - 1) = 0 <=> \A j \in 1 .. k - 1 : ~Wanted(file[j])
  BY <1>1, RankFacts
<1> QED  BY <1>2, <1>3

\* The first rows are the wanted lines among the file's first n, in their order.
FirstRows(rows, n) ==
  /\ Rank(n) <= Len(rows)
  /\ \A k \in 1 .. n :
       Wanted(file[k]) => Rank(k) \in 1 .. Rank(n) /\ rows[Rank(k)] = file[k]
  /\ \A i \in 1 .. Rank(n) : \E k \in 1 .. n : Wanted(file[k]) /\ Rank(k) = i

\* Whatever more lines are read, the first rows stay.
LEMMA FirstRowsStay ==
  ASSUME NEW n \in Nat, NEW rows \in Seq(Lines), FirstRows(rows, n), NEW line \in Lines
  PROVE  FirstRows(Keep(rows, line), n)
<1>1. Rank(n) \in Nat /\ Len(rows) \in Nat
  BY RankFacts, LenProperties
<1>2. CASE Keep(rows, line) = rows
  BY <1>2
<1>3. CASE Keep(rows, line) = Append(rows, line)
  <2>1. /\ Len(Append(rows, line)) = Len(rows) + 1
        /\ \A i \in 1 .. Len(rows) : Append(rows, line)[i] = rows[i]
    BY AppendProperties
  <2>2. \A i \in 1 .. Rank(n) : Append(rows, line)[i] = rows[i]
    BY <1>1, <2>1 DEF FirstRows
  <2>3. Rank(n) <= Len(Append(rows, line))
    BY <1>1, <2>1 DEF FirstRows
  <2> QED  BY <1>3, <2>2, <2>3 DEF FirstRows
<1> QED  BY <1>2, <1>3, KeepType

\* The next line is the next row, if it is wanted.
LEMMA NextRow ==
  ASSUME NEW n \in Nat, NEW rows \in Seq(Lines), FirstRows(rows, n), Len(rows) = Rank(n),
         file[n + 1] \in Lines
  PROVE  LET more == Keep(rows, file[n + 1])
         IN  FirstRows(more, n + 1) /\ Len(more) = Rank(n + 1)
<1> DEFINE line == file[n + 1]
           more == Keep(rows, line)
<1>1. Rank(n) \in Nat /\ Rank(n + 1) = Rank(n) + (IF Wanted(line) THEN 1 ELSE 0)
  BY RankFacts
<1>2. FirstRows(more, n)
  BY FirstRowsStay
<1>3. CASE ~Wanted(line)
  <2>1. more = rows /\ Rank(n + 1) = Rank(n)
    BY <1>1, <1>3 DEF Keep, Wanted
  <2>2. \A k \in 1 .. n + 1 : Wanted(file[k]) => k \in 1 .. n
    BY <1>3
  <2> QED  BY <1>2, <2>1, <2>2 DEF FirstRows
<1>4. CASE Wanted(line)
  <2>1. more = Append(rows, line) /\ Rank(n + 1) = Rank(n) + 1
    BY <1>1, <1>4 DEF Keep, Wanted
  <2>2. Len(more) = Len(rows) + 1 /\ more[Len(rows) + 1] = line
    BY <2>1, AppendProperties
  <2>3. \A k \in 1 .. n + 1 :
          Wanted(file[k]) => Rank(k) \in 1 .. Rank(n + 1) /\ more[Rank(k)] = file[k]
    BY <1>1, <1>2, <2>1, <2>2 DEF FirstRows
  <2>4. ASSUME NEW i \in 1 .. Rank(n + 1)
        PROVE  \E k \in 1 .. n + 1 : Wanted(file[k]) /\ Rank(k) = i
    <3>1. CASE i = Rank(n + 1)
      BY <1>4, <3>1
    <3>2. CASE i # Rank(n + 1)
      <4>1. i \in 1 .. Rank(n)
        BY <1>1, <2>1, <3>2
      <4> QED  BY <1>2, <4>1 DEF FirstRows
    <3> QED  BY <3>1, <3>2
  <2> QED  BY <1>1, <2>1, <2>2, <2>3, <2>4 DEF FirstRows
<1> QED  BY <1>3, <1>4

\* All rows but the first one that are lines before the last: the records.
LEMMA RecordLinesCount ==
  ASSUME Shapes, NEW rows, FirstRows(rows, Len(file) - 1), file # <<>>
  PROVE  Cardinality(RecordLines)
           = IF Rank(Len(file) - 1) = 0 THEN 0 ELSE Rank(Len(file) - 1) - 1
<1> DEFINE n == Len(file) - 1
           W == {k \in 1 .. n : Wanted(file[k])}
<1>1. n \in Nat
  BY LenProperties, EmptySeq DEF Shapes
<1> HIDE DEF n
<1>2. IsFiniteSet(W) /\ Cardinality(W) = Rank(n)
  <2>1. W \in SUBSET (1 .. n) /\ IsFiniteSet(1 .. n)
    BY <1>1, FS_Interval
  <2> QED  BY <2>1, FS_Subset DEF Rank
<1>3. RecordLines = {k \in W : Rank(k) > 1}
  BY DEF RecordLines, n
<1>4. CASE Rank(n) = 0
  <2>1. W = {}
    BY <1>1, <1>4, RankFacts
  <2> QED  BY <1>3, <1>4, <2>1, FS_EmptySet DEF n
<1>5. CASE Rank(n) # 0
  <2>1. 1 \in 1 .. Rank(n)
    <3>1. Rank(n) \in Nat
      BY <1>1, RankFacts
    <3> QED  BY <1>5, <3>1
  <2>2. PICK f \in 1 .. n : Wanted(file[f]) /\ Rank(f) = 1
    BY <2>1 DEF FirstRows, n
  <2>3. ASSUME NEW k \in W PROVE Rank(k) > 1 <=> k # f
    <3>1. /\ Rank(k) \in Nat \ {0}
          /\ Rank(k) = 1 <=> \A j \in 1 .. k - 1 : ~Wanted(file[j])
      BY <1>1, RankOfWanted
    <3>2. \A j \in 1 .. f - 1 : ~Wanted(file[j])
      BY <1>1, <2>2, RankOfWanted
    <3>3. Rank(k) = 1 => k = f
      <4>1. f \in 1 .. k - 1 \/ k \in 1 .. f - 1 \/ k = f
        BY <1>1
      <4> QED  BY <2>2, <3>1, <3>2, <4>1
    <3> QED  BY <2>2, <3>1, <3>3
  <2>4. RecordLines = W \ {f} /\ f \in W
    BY <1>3, <2>2, <2>3
  <2> HIDE DEF W
  <2>5. Cardinality(W \ {f}) = Cardinality(W) - 1
    BY <1>2, <2>4, FS_RemoveElement
  <2> QED  BY <1>2, <1>5, <2>4, <2>5 DEF n
<1> QED  BY <1>4, <1>5

-------------------------------------------------------------------------------
(* The second invariant: which lines the rows and the records are *)

\* Of a whole file the rows are the wanted lines before the last one, and the
\* last one as far as it was there.
LastRow(rows) ==
  /\ file # <<>> /\ FirstRows(rows, Len(file) - 1)
  /\ Len(rows) = Rank(Len(file) - 1) + 1
  /\ rows[Len(rows)].first = file[Len(file)].first

\* Every record converted is that of its row.
Converted ==
  \A m \in 1 .. Len(cdrs) :
    LET row == raw_fields[m + 1]
    IN  /\ cdrs[m].oper = row.oper
        /\ row.fields >= Full => IsNumber(row.num) /\ cdrs[m].status = ConvertToLong(row.num)
        /\ row.time # <<>> => cdrs[m].dt = ConvertToDateTime(row.time)

\* A pass that reads has the lines it took; one that went on has the whole file.
Loaded ==
  /\ pc = "read" => /\ Len(raw_fields) = Rank(taken)
                    /\ \A n \in 0 .. taken : FirstRows(raw_fields, n)
  /\ Marked /\ pc \in {"loop", "good", "empty", "bad", "crash"} =>
       LastRow(raw_fields) /\ Framed /\ FooterThere

\* No records before the loop, a date with the first one, all at its end.
Progress ==
  /\ pc \in {"open", "read", "refused", "closed"} => cdrs = <<>>
  /\ dates # {} => cdrs # <<>>
  /\ pc \in {"good", "empty"} => ~More

\* A line of one field has one as soon as a part of it is there.
PartOfOne ==
  visible # <<>> /\ file[written + 1].fields = 1 => visible[1].fields = 1

Told == PartOfOne /\ Progress /\ Loaded /\ Converted


LEMMA RowFacts ==
  ASSUME Ind
  PROVE  /\ raw_fields \in Seq(Lines) /\ Len(raw_fields) \in Nat
         /\ Len(file) \in Nat /\ \A k \in 1 .. Len(file) : file[k] \in Lines
         /\ taken \in Nat /\ written \in Nat /\ written <= Len(file)
         /\ Len(cdrs) \in Nat /\ (cdrs # <<>> => Len(cdrs) <= Len(raw_fields) - 2)
BY FileFacts, LenProperties DEF Ind, Shapes, TypeOK

\* The checks of header and footer see the frame of the whole file.
LEMMA FrameSeen ==
  ASSUME Ind, NEW rows \in Seq(Lines), LastRow(rows)
  PROVE  HasHeader(rows) /\ HasFooter(rows) <=> Framed
<1> DEFINE n == Len(file) - 1
<1>1. n \in Nat /\ Len(file) = n + 1 /\ Len(file) \in Nat
  BY EmptySeq, LenProperties DEF LastRow, Ind, Shapes
<1>2. /\ Rank(n) \in Nat /\ Len(rows) = Rank(n) + 1
      /\ rows # <<>> /\ Head(rows) = rows[1] /\ Last(rows) = rows[Len(rows)]
  <2>1. Rank(n) \in Nat /\ Len(rows) = Rank(n) + 1
    BY <1>1, RankFacts DEF LastRow
  <2>2. rows # <<>>
    BY <2>1, EmptySeq
  <2> QED  BY <2>1, <2>2, HeadTailProperties DEF Last
<1>3. HasFooter(rows) <=> Finds(config.footer, Last(file).first)
  BY <1>2 DEF HasFooter, LastRow, Last
<1> DEFINE First(k) == /\ k = Len(file) \/ Wanted(file[k])
                       /\ \A j \in 1 .. k - 1 : ~Wanted(file[j])
<1>4. PICK f \in 1 .. Len(file) : First(f) /\ rows[1].first = file[f].first
  <2>1. CASE Rank(n) = 0
    <3>1. First(Len(file)) /\ Len(file) \in 1 .. Len(file)
      BY <1>1, <2>1, RankFacts
    <3> QED  BY <1>2, <2>1, <3>1 DEF LastRow
  <2>2. CASE Rank(n) # 0
    <3>1. 1 \in 1 .. Rank(n)
      BY <1>2, <2>2
    <3>2. PICK k \in 1 .. n : Wanted(file[k]) /\ Rank(k) = 1
      BY <3>1 DEF LastRow, FirstRows
    <3>3. rows[1] = file[k]
      BY <3>2 DEF LastRow, FirstRows
    <3>4. \A j \in 1 .. k - 1 : ~Wanted(file[j])
      BY <3>2, RankOfWanted
    <3>5. k \in 1 .. Len(file)
      BY <1>1
    <3> QED  BY <3>2, <3>3, <3>4, <3>5
  <2> QED  BY <2>1, <2>2
<1>5. \A k \in 1 .. Len(file) : First(k) => k = f
  <2> SUFFICES ASSUME NEW k \in 1 .. Len(file), First(k) PROVE k = f
    OBVIOUS
  <2>1. \A i, j \in 1 .. Len(file) : i < j => i \in 1 .. j - 1 /\ i # Len(file)
    <3>1. \A m \in Nat : \A i, j \in 1 .. m : i < j => i \in 1 .. j - 1 /\ i # m
      OBVIOUS
    <3> QED  BY <1>1, <3>1
  <2>2. ~(k < f) /\ ~(f < k)
    BY <1>4, <2>1
  <2> HIDE DEF First
  <2>3. k \in Nat /\ f \in Nat
    BY <1>1
  <2> QED  BY <2>2, <2>3
<1>6. HasHeader(rows) <=> Finds(config.header, file[f].first)
  BY <1>2, <1>4 DEF HasHeader
<1>7. Framed <=> /\ Finds(config.footer, Last(file).first)
                 /\ \E k \in 1 .. Len(file) : First(k) /\ Finds(config.header, file[k].first)
  BY DEF Framed, LastRow
<1> HIDE DEF First
<1> QED  BY <1>3, <1>4, <1>5, <1>6, <1>7

\* The file's last line is the last row, whether its newline is there or not.
LEMMA LastRowWhole ==
  ASSUME Ind, Told, pc = "read", file # <<>>, taken = Len(file), Wanted(file[Len(file)])
  PROVE  LastRow(raw_fields)
<1> DEFINE n == Len(file) - 1
<1>1. n \in Nat /\ n \in 0 .. taken /\ Len(file) \in Nat \ {0}
  BY EmptySeq, RowFacts DEF Ind, Shapes
<1>2. Rank(Len(file)) \in Nat \ {0} /\ Rank(Len(file)) = Rank(n) + 1
  BY <1>1, RankOfWanted
<1>3. FirstRows(raw_fields, n) /\ Len(raw_fields) = Rank(Len(file))
  BY <1>1 DEF Told, Loaded
<1>4. FirstRows(raw_fields, Len(file)) /\ Len(file) \in 1 .. Len(file)
  BY <1>1 DEF Told, Loaded
<1>5. raw_fields[Rank(Len(file))] = file[Len(file)]
  BY <1>4 DEF FirstRows
<1> QED  BY <1>2, <1>3, <1>5 DEF LastRow

LEMMA LastRowPart ==
  ASSUME Ind, Told, pc = "read", file # <<>>, taken = Len(file) - 1,
         NEW line \in Lines, Wanted(line), line.first = file[Len(file)].first
  PROVE  LastRow(Keep(raw_fields, line))
<1>1. taken \in 0 .. taken /\ raw_fields \in Seq(Lines) /\ taken \in Nat
  BY RowFacts
<1>2. FirstRows(raw_fields, taken) /\ Len(raw_fields) = Rank(taken)
  BY <1>1 DEF Told, Loaded
<1>3. FirstRows(Keep(raw_fields, line), taken)
  BY <1>1, <1>2, FirstRowsStay
<1>4. Keep(raw_fields, line) = Append(raw_fields, line)
  BY DEF Keep, Wanted
<1>5. /\ Len(Append(raw_fields, line)) = Len(raw_fields) + 1
      /\ Append(raw_fields, line)[Len(raw_fields) + 1] = line
  BY <1>1, AppendProperties
<1> QED  BY <1>2, <1>3, <1>4, <1>5 DEF LastRow

\* Without a newline behind it, the last line is that one or a part of it.
LEMMA PartFacts ==
  ASSUME Ind, visible # <<>>
  PROVE  /\ visible[1] \in Lines /\ written < Len(file)
         /\ visible[1].first \in {Cut, file[written + 1].first}
<1>1. Len(visible) = 1 /\ visible \in Seq(Lines)
  BY DEF Ind, Shapes
<1>2. 1 \in 1 .. Len(visible)
  BY <1>1
<1> QED  BY <1>1, <1>2, ElementOfSeq DEF Ind, Shapes

\* A part with the footer word is of the last line.
LEMMA FooterPart ==
  ASSUME Ind, Marked, visible # <<>>, Finds(config.footer, visible[1].first)
  PROVE  /\ written + 1 = Len(file) /\ visible[1].first = file[Len(file)].first
<1>1. visible[1].first = file[written + 1].first
  BY PartFacts DEF Ind, Shapes, Marked
<1>2. written + 1 \notin 1 .. Len(file) - 1
  BY <1>1 DEF Marked
<1> QED  BY <1>1, <1>2, PartFacts, RowFacts

\* A row with the footer word among those of the lines read is the last line's.
LEMMA FooterRow ==
  ASSUME Ind, Told, Marked, pc = "read", raw_fields # <<>>,
         Finds(config.footer, Last(raw_fields).first)
  PROVE  taken = Len(file) /\ file # <<>> /\ Wanted(file[Len(file)])
<1>1. /\ Len(raw_fields) \in Nat \ {0} /\ Last(raw_fields) = raw_fields[Len(raw_fields)]
      /\ taken \in Nat /\ Len(file) \in Nat /\ taken \in 0 .. taken /\ taken <= Len(file)
  BY RowFacts, EmptySeq DEF Last, Ind, TypeOK
<1>2. FirstRows(raw_fields, taken) /\ Len(raw_fields) = Rank(taken)
  BY <1>1 DEF Told, Loaded
<1>3. Rank(taken) \in 1 .. Rank(taken)
  BY <1>1, <1>2
<1>4. PICK k \in 1 .. taken : Wanted(file[k]) /\ Rank(k) = Rank(taken)
  BY <1>2, <1>3 DEF FirstRows
<1>5. raw_fields[Rank(k)] = file[k]
  BY <1>2, <1>4 DEF FirstRows
<1>6. Finds(config.footer, file[k].first)
  BY <1>1, <1>2, <1>4, <1>5
<1>7. k \notin 1 .. Len(file) - 1
  BY <1>6 DEF Marked
<1>8. k = Len(file) /\ taken = Len(file) /\ Len(file) # 0
  BY <1>1, <1>4, <1>7
<1> QED  BY <1>4, <1>8

LEMMA LastLineRead ==
  ASSUME Ind, Told, EndOfFile, Marked, HasFooter(raw_fields')
  PROVE  LastRow(raw_fields') /\ FooterThere
<1>1. /\ pc = "read" /\ taken = written
      /\ raw_fields' = IF visible = <<>> THEN raw_fields ELSE Keep(raw_fields, visible[1])
      /\ raw_fields' # <<>> /\ Finds(config.footer, Last(raw_fields').first)
  BY DEF EndOfFile, HasFooter
<1>2. CASE raw_fields' = raw_fields
  <2>1. taken = Len(file) /\ file # <<>> /\ Wanted(file[Len(file)])
    BY <1>1, <1>2, FooterRow
  <2> QED  BY <1>1, <1>2, <2>1, LastRowWhole DEF FooterThere
<1>3. CASE raw_fields' # raw_fields
  <2>1. visible # <<>> /\ raw_fields' = Keep(raw_fields, visible[1])
    BY <1>1, <1>3
  <2>2. Wanted(visible[1]) /\ raw_fields' = Append(raw_fields, visible[1])
    BY <1>3, <2>1 DEF Keep, Wanted
  <2>3. Last(raw_fields') = visible[1]
    <3>1. /\ Len(raw_fields') = Len(raw_fields) + 1
          /\ raw_fields'[Len(raw_fields) + 1] = visible[1]
      BY <2>1, <2>2, RowFacts, PartFacts, AppendProperties
    <3> QED  BY <3>1 DEF Last
  <2>4. Finds(config.footer, visible[1].first)
    BY <1>1, <2>3
  <2>5. written + 1 = Len(file) /\ visible[1].first = file[Len(file)].first
    BY <2>1, <2>4, FooterPart
  <2>6. taken = Len(file) - 1 /\ file # <<>>
    BY <1>1, <2>5, RowFacts
  <2>7. LastRow(raw_fields')
    BY <1>1, <2>1, <2>2, <2>5, <2>6, PartFacts, LastRowPart
  <2> QED  BY <2>1, <2>4, <2>7 DEF FooterThere
<1> QED  BY <1>2, <1>3

\* A last line of one field is never missed once its footer word is there.
LEMMA LastLineIn ==
  ASSUME Ind, Told, EndOfFile, Marked, FooterThere, file # <<>>, file[Len(file)].fields = 1
  PROVE  LastRow(raw_fields')
<1>1. /\ pc = "read" /\ taken = written
      /\ raw_fields' = IF visible = <<>> THEN raw_fields ELSE Keep(raw_fields, visible[1])
  BY DEF EndOfFile
<1>2. CASE visible = <<>>
  <2>1. written = Len(file)
    BY <1>2 DEF FooterThere
  <2> QED  BY <1>1, <1>2, <2>1, LastRowWhole DEF Wanted
<1>3. CASE visible # <<>>
  <2>1. Finds(config.footer, visible[1].first)
    BY <1>3, PartFacts, RowFacts DEF FooterThere
  <2>2. written + 1 = Len(file) /\ visible[1].first = file[Len(file)].first
    BY <1>3, <2>1, FooterPart
  <2>3. taken = Len(file) - 1 /\ Wanted(visible[1])
    BY <1>1, <1>3, <2>2, RowFacts DEF Told, PartOfOne, Wanted
  <2> QED  BY <1>1, <1>3, <2>2, <2>3, PartFacts, LastRowPart
<1> QED  BY <1>2, <1>3

-------------------------------------------------------------------------------
(* The second invariant is kept *)

LEMMA InitTold == Init => Told
<1> SUFFICES ASSUME Init PROVE Told
  OBVIOUS
<1>1. Len(cdrs) = 0
  BY DEF Init
<1> QED  BY <1>1 DEF Init, Told, PartOfOne, Progress, Loaded, Converted

\* What the properties say of the file is the same before and after a step.
LEMMA FileStays ==
  ASSUME UNCHANGED given
  PROVE  /\ \A line : Wanted(line)' = Wanted(line)
         /\ \A n : Rank(n)' = Rank(n)
         /\ \A rows, n : FirstRows(rows, n)' = FirstRows(rows, n)
         /\ \A rows : LastRow(rows)' = LastRow(rows)
         /\ Marked' = Marked /\ Framed' = Framed
<1>1. file' = file /\ config' = config
  BY DEF given
<1>2. Marked' = Marked
  BY <1>1 DEF Marked
<1> QED  BY <1>1, <1>2 DEF Wanted, Rank, FirstRows, LastRow, Framed

\* The footer word does not go away: what has it is the last line.
LEMMA FooterStays ==
  ASSUME Ind, Marked, FooterThere, Write \/ EndLine
  PROVE  FooterThere'
<1>1. written < Len(file) /\ UNCHANGED given
  BY DEF Write, EndLine
<1>2. visible # <<>> /\ Finds(config.footer, visible[1].first)
  BY <1>1, RowFacts DEF FooterThere
<1>3. written + 1 = Len(file)
  BY <1>2, FooterPart
<1>4. EndLine
  BY <1>2 DEF Write
<1> QED  BY <1>1, <1>3, <1>4 DEF FooterThere, EndLine, given

\* Everything but what the producer has written stays.
LEMMA RowsStay ==
  ASSUME Told, UNCHANGED <<given, pc, taken, raw_fields, cdrs, dates>>,
         Marked /\ FooterThere => FooterThere', PartOfOne'
  PROVE  Told'
<1>1. Progress'
  BY DEF Told, Progress, More
<1>2. Converted'
  BY DEF Told, Converted
<1>3. Loaded'
  BY FileStays DEF Told, Loaded
<1> QED  BY <1>1, <1>2, <1>3 DEF Told

LEMMA ProducerTold ==
  ASSUME Ind, Told, Write \/ EndLine
  PROVE  Told'
<1>1. UNCHANGED <<given, pc, taken, raw_fields, cdrs, dates>>
  BY DEF Write, EndLine
<1>2. Marked /\ FooterThere => FooterThere'
  BY FooterStays
<1>3. PartOfOne'
  <2>1. CASE Write
    <3>1. PICK part \in Parts(file[written + 1]) : visible' = <<part>>
      BY <2>1 DEF Write
    <3>2. file[written + 1].fields = 1 => part.fields = 1
      BY <3>1 DEF Parts, Short, Full
    <3>3. UNCHANGED <<file, written>>
      BY <2>1 DEF Write, given
    <3> QED  BY <3>1, <3>2, <3>3 DEF PartOfOne
  <2>2. CASE EndLine
    BY <2>2 DEF EndLine, PartOfOne
  <2> QED  BY <2>1, <2>2
<1> QED  BY <1>1, <1>2, <1>3, RowsStay

\* A step of the parser leaves the file and what there is of it.
LEMMA ReaderFrame ==
  ASSUME Told, UNCHANGED <<given, written, visible>>
  PROVE  PartOfOne' /\ FooterThere' = FooterThere
<1>1. UNCHANGED <<file, config, written, visible>>
  BY DEF given
<1>2. PartOfOne'
  BY <1>1 DEF Told, PartOfOne
<1>3. FooterThere' = FooterThere
  BY <1>1 DEF FooterThere
<1> QED  BY <1>2, <1>3

LEMMA OpenTold ==
  ASSUME Ind, Told, Open
  PROVE  Told'
<1>1. /\ pc = "open" /\ pc' \in {"read", "closed"}
      /\ UNCHANGED <<given, written, visible, taken, raw_fields, cdrs, dates>>
  BY DEF Open
<1>2. PartOfOne' /\ UNCHANGED given
  BY <1>1, ReaderFrame
<1>3. Progress'
  BY <1>1 DEF Told, Progress
<1>4. Converted'
  BY <1>1 DEF Told, Converted
<1>5. Loaded'
  <2>1. taken = 0 /\ raw_fields = <<>> /\ Len(raw_fields) = 0
    BY <1>1 DEF Ind, Shapes
  <2>2. FirstRows(raw_fields, 0)
    BY <2>1, RankZero DEF FirstRows
  <2>3. FirstRows(raw_fields, 0)' /\ Rank(0)' = 0
    BY <1>1, <1>2, <2>2, FileStays, RankZero
  <2>4. \A n \in 0 .. taken' : n = 0
    BY <1>1, <2>1
  <2> QED  BY <1>1, <2>1, <2>3, <2>4 DEF Loaded
<1> QED  BY <1>2, <1>3, <1>4, <1>5 DEF Told

LEMMA ReadLineTold ==
  ASSUME Ind, Told, ReadLine
  PROVE  Told'
<1>1. /\ pc = "read" /\ taken < written /\ taken' = taken + 1
      /\ raw_fields' = Keep(raw_fields, file[taken + 1])
      /\ UNCHANGED <<given, written, visible, pc, cdrs, dates>>
  BY DEF ReadLine
<1>2. PartOfOne' /\ UNCHANGED given
  BY <1>1, ReaderFrame
<1>3. Progress' /\ cdrs = <<>>
  BY <1>1 DEF Told, Progress
<1>4. Converted'
  <2>1. Len(cdrs') = 0
    BY <1>1, <1>3
  <2> QED  BY <2>1 DEF Converted
<1>5. /\ taken \in Nat /\ taken + 1 \in 1 .. Len(file) /\ file[taken + 1] \in Lines
      /\ raw_fields \in Seq(Lines)
  BY <1>1, RowFacts
<1>6. Len(raw_fields) = Rank(taken) /\ \A n \in 0 .. taken : FirstRows(raw_fields, n)
  BY <1>1 DEF Told, Loaded
<1>7. FirstRows(raw_fields', taken + 1) /\ Len(raw_fields') = Rank(taken + 1)
  <2>1. FirstRows(raw_fields, taken)
    BY <1>5, <1>6
  <2> QED  BY <1>1, <1>5, <1>6, <2>1, NextRow
<1>8. \A n \in 0 .. taken + 1 : FirstRows(raw_fields', n)
  <2> SUFFICES ASSUME NEW n \in 0 .. taken + 1 PROVE FirstRows(raw_fields', n)
    OBVIOUS
  <2>1. CASE n = taken + 1
    BY <1>7, <2>1
  <2>2. CASE n # taken + 1
    <3>1. n \in Nat /\ n \in 0 .. taken
      BY <1>5, <2>2
    <3> QED  BY <1>1, <1>5, <1>6, <3>1, FirstRowsStay
  <2> QED  BY <2>1, <2>2
<1>9. Loaded'
  <2>1. PICK rows, t : rows = raw_fields' /\ t = taken + 1
    OBVIOUS
  <2>2. Len(rows) = Rank(t)' /\ \A n \in 0 .. t : FirstRows(rows, n)'
    BY <1>2, <1>7, <1>8, <2>1, FileStays
  <2> QED  BY <1>1, <2>1, <2>2 DEF Loaded
<1> QED  BY <1>2, <1>3, <1>4, <1>9 DEF Told

LEMMA EndOfFileTold ==
  ASSUME Ind, Told, EndOfFile
  PROVE  Told'
<1>1. /\ pc = "read"
      /\ pc' = IF HasHeader(raw_fields') /\ HasFooter(raw_fields') THEN "loop" ELSE "refused"
      /\ UNCHANGED <<given, written, visible, cdrs, dates>>
  BY DEF EndOfFile
<1>2. PartOfOne' /\ FooterThere' = FooterThere /\ UNCHANGED given
  BY <1>1, ReaderFrame
<1>3. Progress' /\ cdrs = <<>>
  BY <1>1 DEF Told, Progress
<1>4. Converted'
  <2>1. Len(cdrs') = 0
    BY <1>1, <1>3
  <2> QED  BY <2>1 DEF Converted
<1>5. Loaded'
  <2>1. CASE Marked /\ HasHeader(raw_fields') /\ HasFooter(raw_fields')
    <3>1. LastRow(raw_fields') /\ FooterThere
      BY <2>1, LastLineRead
    <3>2. raw_fields' \in Seq(Lines)
      BY EndOfFileInd DEF Ind, Shapes
    <3>3. Framed
      BY <2>1, <3>1, <3>2, FrameSeen
    <3>4. \A rows : rows = raw_fields' => LastRow(rows)'
      BY <1>2, <3>1, FileStays
    <3>5. Framed' /\ FooterThere'
      BY <1>2, <3>1, <3>3, FileStays
    <3>6. pc' = "loop"
      BY <1>1, <2>1
    <3> QED  BY <3>4, <3>5, <3>6 DEF Loaded
  <2>2. CASE ~(Marked /\ HasHeader(raw_fields') /\ HasFooter(raw_fields'))
    <3>1. Marked' => pc' = "refused"
      BY <1>1, <1>2, <2>2, FileStays
    <3> QED  BY <1>1, <3>1 DEF Loaded
  <2> QED  BY <2>1, <2>2
<1> QED  BY <1>2, <1>3, <1>4, <1>5 DEF Told

LEMMA AddFileCDRTold ==
  ASSUME Ind, Told, pc = "loop", More, NEW status \in -1 .. MaxLong, AddFileCDR(status),
         Record.fields >= Full => IsNumber(Record.num) /\ status = ConvertToLong(Record.num),
         UNCHANGED <<pc, given, written, visible, taken, raw_fields>>
  PROVE  Told'
<1>1. PICK dt \in IF Record.time = <<>> THEN {slot, Garbage}
                   ELSE {ConvertToDateTime(Record.time)} :
        /\ cdrs' = Append(cdrs, [oper |-> Record.oper, status |-> status, dt |-> dt])
        /\ dates' = dates \union {dt}
  BY DEF AddFileCDR
<1> DEFINE cdr == [oper |-> Record.oper, status |-> status, dt |-> dt]
           S == [oper : Seq(STRING), status : -1 .. MaxLong, dt : Date]
<1>2. /\ cdr.oper = Record.oper /\ cdr.status = status
      /\ Record.time # <<>> => cdr.dt = ConvertToDateTime(Record.time)
  BY <1>1
<1>3. Len(cdrs) \in Nat /\ cdrs \in Seq(S)
  BY RowFacts DEF Ind, Shapes
<1>4. cdrs' = Append(cdrs, cdr)
  BY <1>1
<1> HIDE DEF cdr, S
<1>5. /\ Len(cdrs') = Len(cdrs) + 1 /\ cdrs'[Len(cdrs) + 1] = cdr
      /\ \A m \in 1 .. Len(cdrs) : cdrs'[m] = cdrs[m]
  <2>1. cdrs \in Seq(S \union {cdr})
    BY <1>3, SeqMonotonic
  <2> QED  BY <1>4, <2>1, AppendProperties
<1>6. PartOfOne' /\ FooterThere' = FooterThere /\ UNCHANGED given
  BY ReaderFrame
<1>7. Progress'
  BY <1>3, <1>5, EmptySeq DEF Progress
<1>8. Loaded'
  BY <1>6, FileStays DEF Told, Loaded
<1>9. Converted'
  <2>1. Record = raw_fields'[Len(cdrs) + 2]
    BY DEF Record
  <2>2. ASSUME NEW m \in 1 .. Len(cdrs')
        PROVE  LET row == raw_fields'[m + 1]
               IN  /\ cdrs'[m].oper = row.oper
                   /\ row.fields >= Full =>
                        IsNumber(row.num) /\ cdrs'[m].status = ConvertToLong(row.num)
                   /\ row.time # <<>> => cdrs'[m].dt = ConvertToDateTime(row.time)
    <3>1. CASE m \in 1 .. Len(cdrs)
      BY <1>5, <3>1 DEF Told, Converted
    <3>2. CASE m = Len(cdrs) + 1
      <4>1. m + 1 = Len(cdrs) + 2
        BY <1>3, <3>2
      <4> QED  BY <1>2, <1>5, <2>1, <3>2, <4>1
    <3> QED  BY <1>3, <1>5, <3>1, <3>2
  <2>3. \A field : IsNumber(field)' = IsNumber(field)
    BY DEF IsNumber
  <2>4. \A field : ConvertToLong(field)' = ConvertToLong(field)
    BY DEF ConvertToLong
  <2>5. \A time : ConvertToDateTime(time)' = ConvertToDateTime(time)
    BY DEF ConvertToDateTime
  <2> QED  BY <2>2, <2>3, <2>4, <2>5 DEF Converted
<1> QED  BY <1>6, <1>7, <1>8, <1>9 DEF Told

LEMMA LoopEndsTold ==
  ASSUME Ind, Told, pc = "loop", pc' \in {"good", "empty", "bad", "crash"},
         pc' \in {"good", "empty"} => ~More,
         UNCHANGED <<given, written, visible, taken, raw_fields, cdrs, dates>>
  PROVE  Told'
<1>1. PartOfOne' /\ FooterThere' = FooterThere /\ UNCHANGED given
  BY ReaderFrame
<1>2. Progress'
  BY DEF Told, Progress, More
<1>3. Converted'
  BY DEF Told, Converted
<1>4. Loaded'
  BY <1>1, FileStays DEF Told, Loaded
<1> QED  BY <1>1, <1>2, <1>3, <1>4 DEF Told

LEMMA LoopTold ==
  ASSUME Ind, Told, Convert \/ OutOfRange \/ EndOfLoop
  PROVE  Told'
<1>1. CASE Convert
  <2>1. /\ pc = "loop" /\ More
        /\ UNCHANGED <<given, written, visible, taken, raw_fields>>
    BY <1>1 DEF Convert
  <2>2. CASE IsNumber(Record.num) /\ AddFileCDR(ConvertToLong(Record.num)) /\ UNCHANGED pc
    <3>1. ConvertToLong(Record.num) \in -1 .. MaxLong
      BY <2>2, ConvertToLongType
    <3> QED  BY <2>1, <2>2, <3>1, AddFileCDRTold
  <2>3. CASE pc' = "bad" /\ UNCHANGED <<cdrs, dates, slot>>
    BY <2>1, <2>3, LoopEndsTold
  <2> QED  BY <1>1, <2>2, <2>3 DEF Convert
<1>2. CASE OutOfRange
  <2>1. /\ pc = "loop" /\ More /\ Record.fields < Full
        /\ UNCHANGED <<given, written, visible, taken, raw_fields>>
    BY <1>2 DEF OutOfRange
  <2>2. CASE AddFileCDR(-1) /\ UNCHANGED pc
    <3>1. -1 \in -1 .. MaxLong
      <4>1. MaxLong \in Nat
        BY ReaderAssumption
      <4> QED  BY <4>1
    <3>2. ~(Record.fields >= Full)
      <4>1. Len(cdrs) + 2 \in 1 .. Len(raw_fields)
        BY <2>1, RowFacts DEF More
      <4>2. Record \in Lines
        BY <4>1, RowFacts, ElementOfSeq DEF Record
      <4>3. Record.fields \in Nat
        BY <4>2 DEF Lines
      <4> QED  BY <2>1, <4>3 DEF Full
    <3> QED  BY <2>1, <2>2, <3>1, <3>2, AddFileCDRTold
  <2>3. CASE pc' \in {"crash", "bad"} /\ UNCHANGED <<cdrs, dates, slot>>
    BY <2>1, <2>3, LoopEndsTold
  <2> QED  BY <1>2, <2>2, <2>3 DEF OutOfRange
<1>3. CASE EndOfLoop
  BY <1>3, LoopEndsTold DEF EndOfLoop
<1> QED  BY <1>1, <1>2, <1>3

LEMMA RetryTold ==
  ASSUME Ind, Told, Retry
  PROVE  Told'
<1>1. /\ pc' = "open" /\ cdrs' = <<>> /\ dates' = {} /\ UNCHANGED <<given, written, visible>>
  BY DEF Retry
<1>2. PartOfOne'
  BY <1>1, ReaderFrame
<1>3. Len(cdrs') = 0
  BY <1>1
<1> QED  BY <1>1, <1>2, <1>3 DEF Told, Progress, Loaded, Converted

LEMMA ToldInvariant == Spec => []Told
<1>1. Ind /\ Told /\ [Next]_vars => Told'
  <2> SUFFICES ASSUME Ind, Told, [Next]_vars PROVE Told'
    OBVIOUS
  <2>1. CASE Write \/ EndLine
    BY <2>1, ProducerTold
  <2>2. CASE Open
    BY <2>2, OpenTold
  <2>3. CASE ReadLine
    BY <2>3, ReadLineTold
  <2>4. CASE EndOfFile
    BY <2>4, EndOfFileTold
  <2>5. CASE Convert \/ OutOfRange \/ EndOfLoop
    BY <2>5, LoopTold
  <2>6. CASE Retry
    BY <2>6, RetryTold
  <2>7. CASE UNCHANGED vars
    <3>1. UNCHANGED <<given, written, visible, pc, taken, raw_fields, cdrs, dates>>
      BY <2>7 DEF vars
    <3> QED  BY <3>1, ReaderFrame, RowsStay
  <2> QED  BY <2>1, <2>2, <2>3, <2>4, <2>5, <2>6, <2>7 DEF Next, Read, Finished
<1> QED  BY <1>1, InitTold, IndInvariant, PTL DEF Spec

-------------------------------------------------------------------------------
(* The records of a whole file *)

\* Once there is a record, or the loop was at its end, the records are those of
\* the first record lines, and there are no more of these than rows.
LEMMA RecordFacts ==
  ASSUME Ind, Told, Marked, pc \in {"loop", "good", "empty", "bad", "crash"}
  PROVE  /\ \A k \in RecordLines :
              /\ raw_fields[Rank(k)] = file[k] /\ Rank(k) \in 2 .. Len(raw_fields) - 1
              /\ Wanted(file[k]) /\ file[k] \in Lines
         /\ \A i \in 2 .. Len(raw_fields) - 1 : \E k \in RecordLines : Rank(k) = i
         /\ Cardinality(RecordLines) \in Nat
         /\ Len(raw_fields) \in Nat \ {0}
         /\ Cardinality(RecordLines)
              = IF Len(raw_fields) = 1 THEN 0 ELSE Len(raw_fields) - 2
<1> DEFINE n == Len(file) - 1
<1>1. /\ FirstRows(raw_fields, n) /\ Len(raw_fields) = Rank(n) + 1
      /\ file # <<>> /\ n \in Nat /\ Rank(n) \in Nat
  <2>1. LastRow(raw_fields)
    BY DEF Told, Loaded
  <2>2. n \in Nat
    BY <2>1, RowFacts, EmptySeq DEF LastRow, Ind, Shapes
  <2> QED  BY <2>1, <2>2, RankFacts DEF LastRow
<1>2. ASSUME NEW k \in RecordLines
      PROVE  /\ raw_fields[Rank(k)] = file[k] /\ Rank(k) \in 2 .. Len(raw_fields) - 1
             /\ Wanted(file[k]) /\ file[k] \in Lines
  <2>1. k \in 1 .. n /\ Wanted(file[k]) /\ Rank(k) > 1
    BY DEF RecordLines
  <2>2. Rank(k) \in 1 .. Rank(n) /\ raw_fields[Rank(k)] = file[k]
    BY <1>1, <2>1 DEF FirstRows
  <2>3. file[k] \in Lines
    BY <2>1, RowFacts
  <2>4. \A r, m \in Nat : r \in 1 .. m /\ r > 1 => r \in 2 .. (m + 1) - 1
    OBVIOUS
  <2> QED  BY <1>1, <2>1, <2>2, <2>3, <2>4
<1>3. ASSUME NEW i \in 2 .. Len(raw_fields) - 1
      PROVE  \E k \in RecordLines : Rank(k) = i
  <2>1. i \in 1 .. Rank(n) /\ i > 1
    BY <1>1
  <2>2. PICK k \in 1 .. n : Wanted(file[k]) /\ Rank(k) = i
    BY <1>1, <2>1 DEF FirstRows
  <2> QED  BY <2>1, <2>2 DEF RecordLines
<1>4. Cardinality(RecordLines) = IF Rank(n) = 0 THEN 0 ELSE Rank(n) - 1
  BY <1>1, RecordLinesCount DEF Ind
<1> HIDE DEF n
<1>5. Cardinality(RecordLines) = IF Len(raw_fields) = 1 THEN 0 ELSE Len(raw_fields) - 2
  BY <1>1, <1>4
<1> QED  BY <1>1, <1>2, <1>3, <1>4, <1>5

LEMMA RecordsFromLines == Ind /\ Told => RecordsAsWritten
<1> SUFFICES ASSUME Ind, Told, Marked
             PROVE  /\ Len(cdrs) <= Cardinality(RecordLines)
                    /\ pc \in {"good", "empty"} => Len(cdrs) = Cardinality(RecordLines)
                    /\ \A k \in RecordLines :
                         Rank(k) - 1 <= Len(cdrs) =>
                           /\ cdrs[Rank(k) - 1].oper = file[k].oper
                           /\ file[k].fields >= Full =>
                                cdrs[Rank(k) - 1].status = ConvertToLong(file[k].num)
                           /\ file[k].time # <<>> =>
                                cdrs[Rank(k) - 1].dt = ConvertToDateTime(file[k].time)
  BY DEF RecordsAsWritten
<1>1. CASE pc \in {"loop", "good", "empty", "bad", "crash"}
  <2>1. Len(cdrs) \in Nat /\ (cdrs # <<>> => Len(cdrs) <= Len(raw_fields) - 2)
    BY RowFacts
  <2>2. cdrs = <<>> => Len(cdrs) = 0
    OBVIOUS
  <2>3. /\ Len(raw_fields) \in Nat \ {0} /\ Cardinality(RecordLines) \in Nat
        /\ Cardinality(RecordLines) = IF Len(raw_fields) = 1 THEN 0 ELSE Len(raw_fields) - 2
    BY <1>1, RecordFacts
  <2>4. Len(cdrs) <= Cardinality(RecordLines)
    <3>1. CASE cdrs = <<>>
      BY <2>2, <2>3, <3>1
    <3>2. CASE cdrs # <<>>
      <4>1. Len(cdrs) <= Len(raw_fields) - 2
        BY <2>1, <3>2
      <4>2. Cardinality(RecordLines) = Len(raw_fields) - 2
        BY <2>1, <2>3, <4>1
      <4> QED  BY <4>1, <4>2
    <3> QED  BY <3>1, <3>2
  <2>5. pc \in {"good", "empty"} => Len(cdrs) = Cardinality(RecordLines)
    <3>1. pc \in {"good", "empty"} => ~(Len(cdrs) + 1 < Len(raw_fields) - 1)
      BY DEF Told, Progress, More
    <3> QED  BY <2>1, <2>3, <2>4, <3>1
  <2>6. ASSUME NEW k \in RecordLines, Rank(k) - 1 <= Len(cdrs)
        PROVE  /\ cdrs[Rank(k) - 1].oper = file[k].oper
               /\ file[k].fields >= Full =>
                    cdrs[Rank(k) - 1].status = ConvertToLong(file[k].num)
               /\ file[k].time # <<>> =>
                    cdrs[Rank(k) - 1].dt = ConvertToDateTime(file[k].time)
    <3>1. raw_fields[Rank(k)] = file[k] /\ Rank(k) \in 2 .. Len(raw_fields) - 1
      BY <1>1, RecordFacts
    <3>2. Rank(k) - 1 \in 1 .. Len(cdrs) /\ (Rank(k) - 1) + 1 = Rank(k)
      BY <2>1, <2>3, <2>6, <3>1
    <3> QED  BY <3>1, <3>2 DEF Told, Converted
  <2> QED  BY <2>4, <2>5, <2>6
<1>2. CASE pc \notin {"loop", "good", "empty", "bad", "crash"}
  <2>1. cdrs = <<>> /\ Len(cdrs) = 0
    BY <1>2 DEF Told, Progress, Ind, TypeOK, Ended
  <2>2. Cardinality(RecordLines) \in Nat
    <3>1. RecordLines \in SUBSET (1 .. Len(file) - 1)
      BY DEF RecordLines
    <3>2. IsFiniteSet(1 .. Len(file) - 1)
      BY RowFacts, FS_Interval
    <3> QED  BY <3>1, <3>2, FS_Subset, FS_CardinalityType
  <2>3. ASSUME NEW k \in RecordLines PROVE ~(Rank(k) - 1 <= 0)
    <3>1. k \in 1 .. Len(file) - 1 /\ Rank(k) > 1
      BY DEF RecordLines
    <3>2. Rank(k) \in Nat
      BY <3>1, RowFacts, RankFacts
    <3> QED  BY <3>1, <3>2
  <2> QED  BY <1>2, <2>1, <2>2, <2>3
<1> QED  BY <1>1, <1>2

\* A whole file's records reach the parser's lists once, in order and with the
\* values of their own lines, whatever was cut when a pass read it: LoadFile's
\* filters, the frame checks and the loop in main from the second row to the one
\* before the last agree on which lines are records.
THEOREM RecordsCorrect == Spec => []RecordsAsWritten
BY RecordsFromLines, IndInvariant, ToldInvariant, PTL

LEMMA KeysFromLines == Ind /\ Told /\ Dated => KeyFound
<1> SUFFICES ASSUME Ind, Told, Dated, Marked, NEW k \in RecordLines,
                    Rank(k) - 1 <= Len(cdrs),
                    file[k].time # <<>>,
                    IsDay(file[k].time[1], file[k].time[2], 2000 + file[k].time[3]),
                    cdrs[Rank(k) - 1].status <= MaxColumn
             PROVE  /\ FilledStat(InsertedStat(cdrs[Rank(k) - 1]))
                         = [status |-> cdrs[Rank(k) - 1].status, dt |-> cdrs[Rank(k) - 1].dt]
                    /\ FilledStat(InsertedStat(cdrs[Rank(k) - 1])).dt \in dates
  BY DEF KeyFound
<1> DEFINE cdr == cdrs[Rank(k) - 1]
<1>1. k \in 1 .. Len(file) - 1 /\ Rank(k) > 1 /\ Rank(k) \in Nat
  <2>1. k \in 1 .. Len(file) - 1 /\ Rank(k) > 1
    BY DEF RecordLines
  <2> QED  BY <2>1, RowFacts, RankFacts
<1>2. Rank(k) - 1 \in 1 .. Len(cdrs)
  BY <1>1, RowFacts
<1>3. cdr.dt = ConvertToDateTime(file[k].time)
  BY RecordsFromLines DEF RecordsAsWritten
<1>4. IsDay(cdr.dt.mday, cdr.dt.mon, cdr.dt.year)
  BY <1>3 DEF ConvertToDateTime
<1> QED  BY <1>2, <1>4, KeyOfRecord

\* The key under which a record of a whole file is counted in OPER_STAT is read
\* back as it is from there, under a date the next load of this day asks for:
\* ConvertToDateTime, StatDBInsert and FillOperStats agree on month, NULL and zero.
THEOREM KeysCorrect == Spec => []KeyFound
BY KeysFromLines, IndInvariant, ToldInvariant, DatedInvariant, PTL

-------------------------------------------------------------------------------
(* The list of ignored operators *)

\* config.ini is what it was, and is all that config comes from.
ConfigKept == ini \in Inis /\ config = Configured(ini)

LEMMA ConfigKeptInvariant == Spec => []ConfigKept
<1>1. Init => ConfigKept
  <2> SUFFICES ASSUME Init PROVE ConfigKept
    OBVIOUS
  <2>1. ini \in Seq(Seq(STRING)) /\ config = Configured(ini)
    BY ReaderAssumption DEF Init
  <2>2. Seq(Seq(STRING)) \subseteq Inis
    BY DEF Inis, Text, Word
  <2> QED  BY <2>1, <2>2 DEF ConfigKept
<1>2. ConfigKept /\ [Next]_vars => ConfigKept'
  <2> SUFFICES ASSUME ConfigKept, [Next]_vars PROVE ConfigKept'
    OBVIOUS
  <2>1. UNCHANGED given
    BY DEF Next, Write, EndLine, Read, Open, ReadLine, EndOfFile, Convert, OutOfRange, EndOfLoop,
           Retry, Finished, AddFileCDR, vars
  <2> QED  BY <2>1 DEF ConfigKept, given
<1> QED  BY <1>1, <1>2, PTL DEF Spec

(***************************************************************************)
(* A plain list of operators in config.ini is honoured by every parser: it *)
(* ignores the names on that line and no others, however the rest of the   *)
(* file, its comments, sections and values, is written (main with          *)
(* FileLoader::SetIGNORE_SRC_OPERS and inih).                              *)
(***************************************************************************)
THEOREM ListsHonoured == Spec => []ListHonoured
<1>1. ConfigKept => ListHonoured
  <2> SUFFICES ASSUME ConfigKept, NEW k \in DOMAIN ini, OneList(ini, k),
                      NEW a \in DOMAIN ini[k], NEW z \in DOMAIN ini[k],
                      a <= z, Lists(ini[k], a, z)
               PROVE  config.ignored = {<<ini[k][i]>> : i \in {i \in a .. z : ini[k][i] # " "}}
    BY DEF ListHonoured
  <2>1. ini \in Inis /\ config = Configured(ini)
    BY DEF ConfigKept
  <2>2. k \in 1 .. Len(ini)
    BY <2>1, LenProperties DEF Inis
  <2>3. ini[k] \in Text
    BY <2>1, <2>2, ElementOfSeq DEF Inis
  <2>4. a \in 1 .. Len(ini[k]) /\ z \in 1 .. Len(ini[k])
    BY <2>3, LenProperties DEF Text
  <2> QED  BY <2>1, <2>2, <2>4, ListConfigured
<1> QED  BY <1>1, ConfigKeptInvariant, PTL

-------------------------------------------------------------------------------
(* The refinement *)

Whole == FooterThere \/ ~Marked
Said == IF pc \in Ended THEN pc ELSE "none"

\* What a file allows does not change while it is written.
LEMMA FatesStay ==
  ASSUME UNCHANGED given
  PROVE  Fates' = Fates
<1>1. file' = file /\ config' = config
  BY DEF given
<1>2. Marked' = Marked /\ Framed' = Framed
  BY FileStays
<1>3. RecordLines' = RecordLines
  BY <1>1 DEF RecordLines, Rank, Wanted
<1>4. Outcomes' = Outcomes
  BY <1>1, <1>3 DEF Outcomes, IsNumber
<1> QED  BY <1>1, <1>2, <1>4 DEF Fates

\* A step of the file: its last line gets there.
LEMMA FinishStep ==
  ASSUME Ind, Write \/ EndLine
  PROVE  (Verdict!Finish \/ UNCHANGED Verdict!vars)
<1>1. UNCHANGED <<given, pc>>
  BY DEF Write, EndLine
<1>2. Fates' = Fates /\ Marked' = Marked /\ Said' = Said
  BY <1>1, FatesStay, FileStays DEF Said
<1>3. Whole => Whole'
  BY <1>2, FooterStays DEF Whole
<1>4. Whole' = Whole \/ (~Whole /\ Whole' = TRUE)
  BY <1>3 DEF Whole
<1> QED  BY <1>2, <1>4 DEF Whole, Said, Verdict!Finish, Verdict!vars

\* A verdict that the lines allow.
LEMMA DecideStep ==
  ASSUME pc \notin Ended, pc' \in Ended,
         pc' \in {"closed"} \union (IF Whole THEN Fates ELSE {"refused"}),
         Told, UNCHANGED <<given, written, visible>>
  PROVE  Verdict!Decide
<1>1. Fates' = Fates /\ Whole' = Whole
  BY FatesStay, FileStays, ReaderFrame DEF Whole
<1>2. Said = "none" /\ Said' = pc'
  BY DEF Said
<1> QED  BY <1>1, <1>2 DEF Whole, Said, Verdict!Decide

\* A whole file is refused only if its frame is wrong, or if its last line has
\* several fields and a pass has met it before it was one of these rows.
LEMMA RefusedRightly ==
  ASSUME Ind, Told, EndOfFile, pc' = "refused", Whole
  PROVE  "refused" \in Fates
<1>1. CASE ~Marked
  BY <1>1 DEF Fates, Ended
<1>2. CASE Marked /\ FooterThere
  <2> SUFFICES ASSUME Framed, Last(file).fields = 1 PROVE FALSE
    BY <1>2 DEF Fates
  <2>1. file # <<>> /\ file[Len(file)].fields = 1
    BY DEF Framed, Last
  <2>2. LastRow(raw_fields')
    BY <1>2, <2>1, LastLineIn
  <2>3. raw_fields' \in Seq(Lines)
    BY EndOfFileInd DEF Ind, Shapes
  <2>4. HasHeader(raw_fields') /\ HasFooter(raw_fields')
    BY <2>2, <2>3, FrameSeen
  <2> QED  BY <2>4 DEF EndOfFile
<1> QED  BY <1>1, <1>2 DEF Whole

\* The next record is one of the file's.
LEMMA RecordIsLine ==
  ASSUME Ind, Told, Marked, pc = "loop", More
  PROVE  \E k \in RecordLines : Record = file[k] /\ file[k].fields \in Nat
<1>1. Len(cdrs) + 2 \in 2 .. Len(raw_fields) - 1
  BY RowFacts DEF More
<1>2. PICK k \in RecordLines : Rank(k) = Len(cdrs) + 2
  BY <1>1, RecordFacts
<1>3. raw_fields[Rank(k)] = file[k] /\ file[k] \in Lines
  BY RecordFacts
<1> QED  BY <1>2, <1>3 DEF Record, Lines

\* At the end of the loop every record line with all its fields has a number.
LEMMA NumbersAtEnd ==
  ASSUME Ind, Told, Marked, pc = "loop", ~More, NEW k \in RecordLines,
         file[k].fields >= Full
  PROVE  IsNumber(file[k].num)
<1>1. raw_fields[Rank(k)] = file[k] /\ Rank(k) \in 2 .. Len(raw_fields) - 1
  BY RecordFacts
<1>2. Rank(k) - 1 \in 1 .. Len(cdrs) /\ (Rank(k) - 1) + 1 = Rank(k)
  BY <1>1, RowFacts DEF More
<1> QED  BY <1>1, <1>2 DEF Told, Converted

\* The loop ends as the records of the file allow.
LEMMA LoopVerdict ==
  ASSUME Ind, Told, Dated, Convert \/ OutOfRange \/ EndOfLoop, pc' # pc
  PROVE  Whole /\ pc' \in Fates /\ pc' \in Ended
<1>1. pc = "loop" /\ pc' \in {"good", "empty", "bad", "crash"}
  BY DEF Convert, OutOfRange, EndOfLoop
<1>2. CASE ~Marked
  BY <1>1, <1>2 DEF Whole, Fates, Ended
<1>3. CASE Marked
  <2>1. Framed /\ FooterThere
    BY <1>1, <1>3 DEF Told, Loaded
  <2>2. pc' \in Outcomes
    <3>1. CASE Convert
      <4>1. More /\ Record.fields >= Full /\ ~IsNumber(Record.num) /\ pc' = "bad"
        BY <3>1 DEF Convert
      <4>2. \E k \in RecordLines : ~IsNumber(file[k].num)
        BY <1>1, <1>3, <4>1, RecordIsLine
      <4> QED  BY <4>1, <4>2 DEF Outcomes
    <3>2. CASE OutOfRange
      <4>1. More /\ Record.fields < Full /\ pc' \in {"crash", "bad"}
        BY <3>2 DEF OutOfRange
      <4>2. \E k \in RecordLines : file[k].fields < Full
        BY <1>1, <1>3, <4>1, RecordIsLine
      <4> QED  BY <4>1, <4>2 DEF Outcomes
    <3>3. CASE EndOfLoop
      <4>1. ~More /\ pc' = IF dates = {} THEN "empty" ELSE "good"
        BY <3>3 DEF EndOfLoop
      <4>2. dates = {} <=> cdrs = <<>>
        <5>1. cdrs # <<>> => 1 \in 1 .. Len(cdrs)
          <6>1. cdrs # <<>> => Len(cdrs) # 0
            BY EmptySeq DEF Ind, Shapes
          <6> QED  BY <6>1, RowFacts
        <5>2. cdrs # <<>> => dates # {}
          BY <5>1 DEF Dated
        <5> QED  BY <5>2 DEF Told, Progress
      <4>3. Len(cdrs) = Len(raw_fields) - 2 \/ (cdrs = <<>> /\ Len(raw_fields) <= 2)
        BY <4>1, RowFacts DEF More
      <4>4. cdrs = <<>> <=> RecordLines = {}
        <5>1. \A r \in Nat : 2 .. r - 1 = {} <=> r <= 2
          <6>1. \A r \in Nat : r > 2 => 2 \in 2 .. r - 1
            OBVIOUS
          <6> QED  BY <6>1
        <5>2. RecordLines = {} <=> Len(raw_fields) <= 2
          BY <1>1, <1>3, <5>1, RecordFacts, RowFacts
        <5>3. cdrs = <<>> <=> Len(cdrs) = 0
          BY EmptySeq DEF Ind, Shapes
        <5> QED  BY <4>3, <5>2, <5>3, RowFacts
      <4>5. \A k \in RecordLines : file[k].fields < Full \/ IsNumber(file[k].num)
        <5> SUFFICES ASSUME NEW k \in RecordLines
                     PROVE  file[k].fields < Full \/ IsNumber(file[k].num)
          OBVIOUS
        <5>1. file[k].fields \in Nat
          BY <1>1, <1>3, RecordFacts DEF Lines
        <5> QED  BY <1>1, <1>3, <4>1, <5>1, NumbersAtEnd DEF Full
      <4> QED  BY <4>1, <4>2, <4>4, <4>5 DEF Outcomes
    <3> QED  BY <3>1, <3>2, <3>3
  <2> QED  BY <1>1, <1>3, <2>1, <2>2 DEF Whole, Fates, Ended
<1> QED  BY <1>2, <1>3

LEMMA VerdictInit == Init => Verdict!Init
BY DEF Init, Verdict!Init, Ended

LEMMA VerdictStep ==
  ASSUME Ind, Told, Dated, [Next]_vars
  PROVE  Verdict!Next \/ UNCHANGED Verdict!vars
<1>1. ASSUME UNCHANGED <<given, written, visible, pc>>
      PROVE  UNCHANGED Verdict!vars
  <2>1. Fates' = Fates /\ Whole' = Whole /\ Said' = Said
    BY <1>1, FatesStay, FileStays, ReaderFrame DEF Whole, Said
  <2> QED  BY <2>1 DEF Whole, Said, Verdict!vars
<1>2. CASE Write \/ EndLine
  BY <1>2, FinishStep DEF Verdict!Next
<1>3. ASSUME UNCHANGED <<given, written, visible>>, pc \notin Ended, pc' \notin Ended
      PROVE  UNCHANGED Verdict!vars
  <2>1. Fates' = Fates /\ Whole' = Whole /\ Said' = Said
    BY <1>3, FatesStay, FileStays, ReaderFrame DEF Whole, Said
  <2> QED  BY <2>1 DEF Whole, Said, Verdict!vars
<1>4. CASE Open
  <2>1. /\ pc = "open" /\ pc' \in {"read", "closed"} /\ UNCHANGED <<given, written, visible>>
    BY <1>4 DEF Open
  <2>2. CASE pc' = "read"
    BY <1>3, <2>1, <2>2 DEF Ended
  <2>3. CASE pc' = "closed"
    BY <2>1, <2>3, DecideStep DEF Ended, Verdict!Next
  <2> QED  BY <2>1, <2>2, <2>3
<1>5. CASE ReadLine
  BY <1>1, <1>5 DEF ReadLine
<1>6. CASE EndOfFile
  <2>1. /\ pc = "read" /\ pc' \in {"loop", "refused"} /\ UNCHANGED <<given, written, visible>>
    BY <1>6 DEF EndOfFile
  <2>2. CASE pc' = "loop"
    BY <1>3, <2>1, <2>2 DEF Ended
  <2>3. CASE pc' = "refused"
    BY <1>6, <2>1, <2>3, RefusedRightly, DecideStep DEF Ended, Verdict!Next
  <2> QED  BY <2>1, <2>2, <2>3
<1>7. CASE Convert \/ OutOfRange \/ EndOfLoop
  <2>1. pc = "loop" /\ UNCHANGED <<given, written, visible>>
    BY <1>7 DEF Convert, OutOfRange, EndOfLoop
  <2>2. CASE pc' = pc
    BY <1>1, <2>1, <2>2
  <2>3. CASE pc' # pc
    <3>1. Whole /\ pc' \in Fates /\ pc' \in Ended
      BY <1>7, <2>3, LoopVerdict
    <3> QED  BY <2>1, <3>1, DecideStep DEF Ended, Verdict!Next
  <2> QED  BY <2>2, <2>3
<1>8. CASE Retry
  <2>1. /\ pc \in Ended \ {"good", "crash"} /\ pc' = "open"
        /\ UNCHANGED <<given, written, visible>>
    BY <1>8 DEF Retry
  <2>2. Fates' = Fates /\ Whole' = Whole
    BY <2>1, FatesStay, FileStays, ReaderFrame DEF Whole
  <2>3. Said = pc /\ Said' = "none" /\ pc # "none"
    BY <2>1 DEF Said, Ended
  <2>4. Verdict!Retry
    BY <2>1, <2>2, <2>3 DEF Whole, Said, Verdict!Retry
  <2> QED  BY <2>4 DEF Verdict!Next
<1>9. CASE UNCHANGED vars
  BY <1>1, <1>9 DEF vars
<1> QED  BY <1>2, <1>4, <1>5, <1>6, <1>7, <1>8, <1>9 DEF Next, Read, Finished

\* LoadFile, its two checks and the loop of main implement the reader of module
\* FileVerdict: no line is taken for the file's records before its footer word
\* is there, and what the exit status tells the script is decided by the file's
\* lines and config.ini, whichever pass meets it and however it was written.
THEOREM ImplementsVerdict == Spec => VerdictSpec
<1>1. Ind /\ Told /\ Dated /\ [Next]_vars => [Verdict!Next]_(Verdict!vars)
  BY VerdictStep
<1> QED  BY <1>1, VerdictInit, IndInvariant, ToldInvariant, DatedInvariant, PTL
         DEF Spec, VerdictSpec, Verdict!Spec

===============================================================================
