------------------------------ MODULE FileReader ------------------------------
(***************************************************************************)
(* How a parser reads one CDR file while its producer may still write it,  *)
(* pass after pass until it succeeds: LoadFile line by line, the checks of *)
(* header and footer, the loop of main that converts every record, and the *)
(* key of its statistic on its way to MySQL and back.                      *)
(*                                                                         *)
(* A line has a number of fields and of these the ones that the code looks *)
(* at: the first one as text, TIME (which is the same field), SRC_OPER,    *)
(* and one for the nine numeric fields, which are all treated alike.       *)
(* A pass starts with a new process; what passes do to each other, and     *)
(* files that vanish, are module CdrParser's.                              *)
(***************************************************************************)
EXTENDS Config

CONSTANTS
  Inputs,       \* what there may be to read: {[file : Seq(Lines), ini : ...]}
  Cut,          \* what is there of a word of which a part is missing
  NumberOf,     \* [strings of digits -> Nat]: what they denote
  MaxLong,      \* the largest long
  MaxColumn     \* the largest number a column of OPER_STAT holds

\* Fields of the longest record that LoadFile drops, and of one with MAP_ERROR.
Short == 8
Full == 24

Lines ==
  [fields : Nat \ {0}, first : Seq(STRING), oper : Seq(STRING),
   num : STRING, time : {<<>>} \union (Nat \X Nat \X Nat)]

\* std::string::find
Finds(word, text) == word \in SubSeqs(text)

\* The footer word is not in a part of a word.
ASSUME ReaderAssumption ==
  /\ Cut \in Seq(STRING)
  /\ \A input \in Inputs :
       /\ input.file \in Seq(Lines) /\ input.ini \in Seq(Seq(STRING))
       /\ LET footer == Configured(input.ini).footer
          IN  footer # <<>> => ~Finds(footer, Cut)
  /\ NumberOf \in [DOMAIN NumberOf -> Nat]
  /\ "" \notin DOMAIN NumberOf
  /\ MaxLong \in Nat /\ MaxColumn \in 0 .. MaxLong

VARIABLES
  file, ini,    \* the lines the producer will have written; config.ini
  config,       \* what every process takes from config.ini before it opens the file
  written,      \* how many of them are there
  visible,      \* what else is: <<>>, or <<a part of the next line>>
  pc,           \* the parser's next step, or how it ended
  taken,        \* lines read
  raw_fields,   \* rows kept
  cdrs,         \* records converted
  dates,        \* MySQLOperStats::datetimes_in_file
  slot          \* where the next record's struct tm will lie on the stack

given == <<file, ini, config>>

vars == <<given, written, visible, pc, taken, raw_fields, cdrs, dates, slot>>

Ended == {"good", "empty", "bad", "refused", "closed", "crash"}

Date == [mday : Int, mon : Int, year : Int]
Garbage == [mday |-> -1, mon |-> -1, year |-> -1]

\* Types; no more rows than lines, no more records than rows between two others.
TypeOK ==
  /\ written \in 0 .. Len(file) /\ Len(visible) \in 0 .. 1
  /\ pc \in {"open", "read", "loop"} \union Ended
  /\ taken \in 0 .. Len(file)
  /\ Len(raw_fields) <= taken
  /\ cdrs # <<>> => Len(cdrs) <= Len(raw_fields) - 2
  /\ \A k \in DOMAIN cdrs : cdrs[k].status \in -1 .. MaxLong /\ cdrs[k].dt \in Date
  /\ dates \subseteq Date /\ slot \in Date

Init ==
  /\ \E input \in Inputs : file = input.file /\ ini = input.ini
  /\ config = Configured(ini)
  /\ written = 0 /\ visible = <<>>
  /\ pc = "open"
  /\ taken = 0 /\ raw_fields = <<>> /\ cdrs = <<>> /\ dates = {} /\ slot = Garbage

-------------------------------------------------------------------------------
(* The producer *)

\* What may be visible of a line that is being written: of its first fields the
\* last one is cut, or not.
Parts(line) ==
  LET Part(n, first, oper) ==
        [fields |-> n, first |-> first, oper |-> oper, num |-> line.num, time |-> line.time]
  IN  {Part(1, first, line.oper) : first \in {Cut, line.first}} \union
      {Part(n, line.first, oper) :
         oper \in {Cut, line.oper}, n \in {2, Short + 1, Full} \intersect 1 .. line.fields}

Write ==
  /\ written < Len(file) /\ visible = <<>>
  /\ \E part \in Parts(file[written + 1]) : visible' = <<part>>
  /\ UNCHANGED <<given, written, pc, taken, raw_fields, cdrs, dates, slot>>

EndLine ==
  /\ written < Len(file)
  /\ written' = written + 1
  /\ visible' = <<>>
  /\ UNCHANGED <<given, pc, taken, raw_fields, cdrs, dates, slot>>

-------------------------------------------------------------------------------
(* LoadFile *)

\* ifstream's constructor; no descriptor left, or no permission yet.
Open ==
  /\ pc = "open"
  /\ pc' \in {"read", "closed"}
  /\ UNCHANGED <<given, written, visible, taken, raw_fields, cdrs, dates, slot>>

\* Mutant: the list of ignored operators is not looked at.
KeepIgnored(rows, line) == IF line.fields \in 2 .. Short THEN rows ELSE Append(rows, line)

\* Lines with one field are kept, records are unless they are ignored, and
\* what has 2 to 8 fields is neither.
Keep(rows, line) ==
  IF line.fields = 1 \/ (line.fields > Short /\ line.oper \notin config.ignored)
    THEN Append(rows, line) ELSE rows

ReadLine ==
  /\ pc = "read"
  /\ taken < written
  /\ taken' = taken + 1
  /\ raw_fields' = Keep(raw_fields, file[taken + 1])
  /\ UNCHANGED <<given, written, visible, pc, cdrs, dates, slot>>

HasHeader(rows) == rows # <<>> /\ Finds(config.header, Head(rows).first)

\* Mutant: the header is enough.
NoFooterCheck(rows) == HasHeader(rows)

HasFooter(rows) == rows # <<>> /\ Finds(config.footer, Last(rows).first)

\* getline takes a line without its newline for the last one.
EndOfFile ==
  /\ pc = "read"
  /\ taken = written
  /\ taken' = taken + Len(visible)
  /\ raw_fields' = IF visible = <<>> THEN raw_fields ELSE Keep(raw_fields, visible[1])
  /\ pc' = IF HasHeader(raw_fields') /\ HasFooter(raw_fields') THEN "loop" ELSE "refused"
  /\ UNCHANGED <<given, written, visible, cdrs, dates, slot>>

-------------------------------------------------------------------------------
(* The loop over the records *)

IsNumber(field) == field = "" \/ field \in DOMAIN NumberOf

\* The empty field is NULL, and atol saturates.
ConvertToLong(field) ==
  IF field = "" THEN -1 ELSE Min({NumberOf[field], MaxLong})

\* Mutant: months from 0, as in the C library's struct tm.
MonthsFromZero(time) == [mday |-> time[1], mon |-> time[2] - 1, year |-> 2000 + time[3]]

\* Day, month and two digits of the year.
ConvertToDateTime(time) == [mday |-> time[1], mon |-> time[2], year |-> 2000 + time[3]]

\* Mutant: the footer is taken for a record.
MoreWithFooter == Len(cdrs) + 1 < Len(raw_fields)

More == Len(cdrs) + 1 < Len(raw_fields) - 1

Record == raw_fields[Len(cdrs) + 2]

\* A TIME that does not convert is not reported: the struct tm keeps what lies
\* on the stack, the previous record's or something else.
AddFileCDR(status) ==
  \E dt \in IF Record.time = <<>> THEN {slot, Garbage}
             ELSE {ConvertToDateTime(Record.time)} :
    /\ cdrs' = Append(cdrs, [oper |-> Record.oper, status |-> status, dt |-> dt])
    /\ dates' = dates \union {dt}
    /\ slot' = dt

Convert ==
  /\ pc = "loop" /\ More
  /\ Record.fields >= Full
  /\ \/ IsNumber(Record.num) /\ AddFileCDR(ConvertToLong(Record.num)) /\ UNCHANGED pc
     \/ ~IsNumber(Record.num) /\ pc' = "bad" /\ UNCHANGED <<cdrs, dates, slot>>
  /\ UNCHANGED <<given, written, visible, taken, raw_fields>>

\* GetField reads behind the row's vector: a crash, no number, or some number.
OutOfRange ==
  /\ pc = "loop" /\ More
  /\ Record.fields < Full
  /\ \/ pc' \in {"crash", "bad"} /\ UNCHANGED <<cdrs, dates, slot>>
     \/ AddFileCDR(-1) /\ UNCHANGED pc
  /\ UNCHANGED <<given, written, visible, taken, raw_fields>>

\* Without a date FillOperStats fails.
EndOfLoop ==
  /\ pc = "loop" /\ ~More
  /\ pc' = IF dates = {} THEN "empty" ELSE "good"
  /\ UNCHANGED <<given, written, visible, taken, raw_fields, cdrs, dates, slot>>

\* Mutant: the next pass reads with the same FileLoader.
RetryWithRows ==
  /\ pc \in Ended \ {"good", "crash"}
  /\ pc' = "open" /\ taken' = 0
  /\ UNCHANGED <<given, written, visible, raw_fields, cdrs, dates, slot>>

\* The script's next pass starts a new process.
Retry ==
  /\ pc \in Ended \ {"good", "crash"}
  /\ pc' = "open"
  /\ taken' = 0 /\ raw_fields' = <<>> /\ cdrs' = <<>> /\ dates' = {} /\ slot' = Garbage
  /\ UNCHANGED <<given, written, visible>>

Finished == pc \in {"good", "crash"} /\ written = Len(file) /\ UNCHANGED vars

Read == Open \/ ReadLine \/ EndOfFile \/ Convert \/ OutOfRange \/ EndOfLoop

Next == Write \/ EndLine \/ Read \/ Retry \/ Finished

Spec == Init /\ [][Next]_vars

-------------------------------------------------------------------------------
(* The key of a record's statistic, to MySQL and back *)

\* Mutant: 0 is stored as NULL, too.
NullUnlessPositive(value) == IF value <= 0 THEN <<>> ELSE <<value>>

\* NULL is <<>>.
LongToStrWithNULL(value) == IF value < 0 THEN <<>> ELSE <<value>>

\* A number column holds the nearest number it can, a DATE column a day of the
\* calendar or zeros.
NumberColumn(text) == IF text = <<>> THEN <<>> ELSE <<Min({text[1], MaxColumn})>>

IsDay(mday, mon, year) ==
  /\ mon \in 1 .. 12
  /\ mday \in 1 .. CASE mon = 2 -> IF year % 4 = 0 THEN 29 ELSE 28
                    [] mon \in {4, 6, 9, 11} -> 30
                    [] OTHER -> 31

DateColumn(dt) ==
  IF IsDay(dt.mday, dt.mon, dt.year) THEN dt ELSE [mday |-> 0, mon |-> 0, year |-> 0]

InsertedStat(cdr) ==
  [status |-> NumberColumn(LongToStrWithNULL(cdr.status)), dt |-> DateColumn(cdr.dt)]

\* MySQLData::ConvertToLong; a NULL is read as the empty string.
FilledNumber(column) == IF column = <<>> THEN -1 ELSE column[1]

\* FillOperStats
FilledStat(row) == [status |-> FilledNumber(row.status), dt |-> row.dt]

-------------------------------------------------------------------------------
(* Properties *)

\* The footer word says where the file ends: it is not empty, and not in an
\* earlier line.
Marked ==
  /\ config.footer # <<>>
  /\ \A k \in 1 .. Len(file) - 1 : ~Finds(config.footer, file[k].first)

\* The parser converts records only when it has read the file to its last line,
\* however the producer's writes and its reads alternate.
WholeBeforeUse ==
  Marked /\ pc \in {"loop", "good", "empty", "bad", "crash"} => taken = Len(file)

\* The lines that are no short ones and not of an ignored operator.
Wanted(line) ==
  line.fields = 1 \/ (line.fields > Short /\ line.oper \notin config.ignored)

\* Which row the file's n-th line is, if it is one.
Rank(n) == Cardinality({k \in 1 .. n : Wanted(file[k])})

\* The lines between the first row and the file's last line that are rows.
RecordLines == {k \in 1 .. Len(file) - 1 : Wanted(file[k]) /\ Rank(k) > 1}

\* The CDRs are the file's records, but for short lines and ignored operators,
\* in the file's order and with their own values; only a record without a valid
\* TIME may have another record's.
RecordsAsWritten ==
  Marked =>
    /\ Len(cdrs) <= Cardinality(RecordLines)
    /\ pc \in {"good", "empty"} => Len(cdrs) = Cardinality(RecordLines)
    /\ \A k \in RecordLines :
         LET line == file[k]
             cdr == cdrs[Rank(k) - 1]
         IN  Rank(k) - 1 <= Len(cdrs) =>
               /\ cdr.oper = line.oper
               /\ line.fields >= Full => cdr.status = ConvertToLong(line.num)
               /\ line.time # <<>> => cdr.dt = ConvertToDateTime(line.time)

\* The header word is in the first row, or in the last line if that is the only
\* one, and the footer word in the last line.
Framed ==
  /\ file # <<>> /\ Finds(config.footer, Last(file).first)
  /\ \E k \in 1 .. Len(file) :
       /\ k = Len(file) \/ Wanted(file[k])
       /\ \A j \in 1 .. k - 1 : ~Wanted(file[j])
       /\ Finds(config.header, file[k].first)

\* What the records of a framed file allow.
Outcomes ==
  IF \E k \in RecordLines : file[k].fields < Full THEN {"good", "bad", "crash"}
  ELSE IF \E k \in RecordLines : ~IsNumber(file[k].num) THEN {"bad"}
  ELSE IF RecordLines = {} THEN {"empty"} ELSE {"good"}

\* The verdicts that a file's lines and config.ini allow.  A last line of several
\* fields may be read before all of them are there, and then not be a row.
Fates ==
  IF ~Marked THEN Ended
  ELSE (IF Framed THEN Outcomes ELSE {}) \union
       (IF Framed /\ Last(file).fields = 1 THEN {} ELSE {"refused"})

\* The file's last line is there, as far as its footer word.
FooterThere ==
  \/ written = Len(file)
  \/ visible # <<>> /\ Finds(config.footer, visible[1].first)

\* Pass after pass the parser refuses a file that is not whole, and of a whole
\* one it says what its content says: module CdrParser takes a file's content for
\* one of three kinds and asks only whether the file is complete.
Verdict == INSTANCE FileVerdict WITH
  whole <- FooterThere \/ ~Marked,
  fates <- Fates,
  verdict <- IF pc \in Ended THEN pc ELSE "none"

VerdictSpec == Verdict!Spec

\* Of a list of operators on the only line about them, one space between names,
\* exactly the names are ignored, whatever else the file says: not the words of a
\* comment, not the empty name.
ListHonoured ==
  \A k \in DOMAIN ini :
    OneList(ini, k) =>
      \A a, z \in DOMAIN ini[k] :
        a <= z /\ Lists(ini[k], a, z)
        => config.ignored = {<<ini[k][i]>> : i \in {i \in a .. z : ini[k][i] # " "}}

\* A statistic stored for a record is found again when the next file has the same:
\* the row that FillOperStats reads back equals the record's key, an absent or
\* zero number and the month included, and its date is among the selected ones.
KeyFound ==
  Marked =>
    \A k \in RecordLines :
      LET time == file[k].time
          cdr == cdrs[Rank(k) - 1]
          row == FilledStat(InsertedStat(cdr))
      IN  /\ Rank(k) - 1 <= Len(cdrs)
          /\ time # <<>> /\ IsDay(time[1], time[2], 2000 + time[3])
          /\ cdr.status <= MaxColumn
          => row = [status |-> cdr.status, dt |-> cdr.dt] /\ row.dt \in dates
===============================================================================
