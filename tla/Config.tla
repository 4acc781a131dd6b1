------------------------------- MODULE Config -------------------------------
(***************************************************************************)
(* What the parser takes from config.ini: inih cuts the file into lines    *)
(* and the lines into sections, names and values; INIReader collects the   *)
(* values; main takes the two frame words and the list of source operators *)
(* that are ignored.                                                       *)
(*                                                                         *)
(* A line of the file is a sequence of tokens: words, and the characters   *)
(* that mean something.  A line too long for the buffer is cut between     *)
(* tokens: a cut within a name loses this name as a cut before it does.    *)
(* Case, the byte order mark and ":" for "=" are left out.                 *)
(***************************************************************************)
EXTENDS Integers, Sequences, SequencesExt

CONSTANT MaxLine        \* tokens that fit into inih's buffer

ASSUME ConfigAssumption == MaxLine \in Nat \ {0}

White == {" ", "\n"}

\* rstrip and lskip; boost::trim
Strip(s) ==
  LET ink == {i \in DOMAIN s : s[i] \notin White}
  IN  IF ink = {} THEN <<>> ELSE SubSeq(s, Min(ink), Max(ink))

Before(s, i) == SubSeq(s, 1, i - 1)
After(s, i) == SubSeq(s, i + 1, Len(s))

\* Mutant: a comment behind a value is not cut off.
KeepComment(s) == s

\* What find_char_or_comment leaves: a comment starts with " ;".
Uncomment(s) ==
  LET starts == {i \in 2 .. Len(s) : s[i] = ";" /\ s[i - 1] \in White}
  IN  IF starts = {} THEN s ELSE Before(s, Min(starts))

\* fgets returns a line in pieces if it does not fit.
Pieces(line) ==
  [k \in 1 .. 1 + (Len(line) - 1) \div MaxLine |->
     SubSeq(line, (k - 1) * MaxLine + 1, Min({k * MaxLine, Len(line)}))]

\* ValueHandler: values of the same name are joined by a newline.
ValueHandler(s, name, value) ==
  LET key == <<s.section, name>>
      old == IF key \in DOMAIN s.values THEN s.values[key] ELSE <<>>
      new == IF old = <<>> THEN value ELSE old \o <<"\n">> \o value
  IN  [s EXCEPT !.values =
         [k \in DOMAIN s.values \union {key} |-> IF k = key THEN new ELSE s.values[k]]]

\* One turn of ini_parse_stream's loop.
ParsePiece(s, piece) ==
  LET text == Strip(piece)
      equals == {i \in DOMAIN Uncomment(text) : text[i] = "="}
      name == Strip(Before(text, Min(equals)))
      value == Strip(Uncomment(Strip(After(text, Min(equals)))))
      more == s.prev_name # <<>> /\ piece[1] \in White
  IN  IF text = <<>> \/ text[1] \in {";", "#"} THEN s
      ELSE IF more THEN ValueHandler(s, s.prev_name, text)
      ELSE IF text[1] = "[" /\ "]" \in ToSet(Uncomment(text)) THEN
        [s EXCEPT !.section = SubSeq(text, 2, Min({i \in DOMAIN text : text[i] = "]"}) - 1),
                  !.prev_name = <<>>]
      ELSE IF text[1] # "[" /\ equals # {} THEN
        [ValueHandler(s, name, value) EXCEPT !.prev_name = name]
      ELSE [s EXCEPT !.error = TRUE]

ParseLine(s, line) ==
  LET pieces == Pieces(line)
      parsed[k \in 0 .. Len(pieces)] ==
        IF k = 0 THEN s ELSE ParsePiece(parsed[k - 1], pieces[k])
  IN  parsed[Len(pieces)]

Empty == [section |-> <<>>, prev_name |-> <<>>, values |-> <<>>, error |-> FALSE]

\* ini_parse.  A malformed line is remembered and skipped.
IniParse(ini) ==
  LET parsed[n \in 0 .. Len(ini)] ==
        IF n = 0 THEN Empty ELSE ParseLine(parsed[n - 1], ini[n])
  IN  parsed[Len(ini)]

\* INIReader::Get
Get(parsed, section, name, default) ==
  IF <<section, name>> \in DOMAIN parsed.values
    THEN parsed.values[<<section, name>>] ELSE default

\* split at every single space, then trim
SetIGNORE_SRC_OPERS(value) ==
  LET ends == {0, Len(value) + 1} \union {i \in DOMAIN value : value[i] = " "}
      cuts == {c \in ends \X ends : c[1] < c[2] /\ \A i \in ends : i <= c[1] \/ c[2] <= i}
  IN  {Strip(SubSeq(value, c[1] + 1, c[2] - 1)) : c \in cuts}

\* What main passes to the file reader; ParseError() > 0 does not stop it.
Configured(ini) ==
  LET parsed == IniParse(ini)
      Global(name, default) == Get(parsed, <<"global">>, <<name>>, default)
  IN  [header |-> Global("HeaderWord", <<"Header">>),
       footer |-> Global("FooterWord", <<"Footer">>),
       ignored |-> SetIGNORE_SRC_OPERS(Global("IGNORE_SRC_OPERS", <<>>))]

-------------------------------------------------------------------------------
(* A plain list of ignored operators, as config.ini is shipped with *)

\* A line of the file that parses as it looks: not longer than the buffer, not
\* indented unless it says nothing.
Plain(line) ==
  /\ Len(line) <= MaxLine
  /\ \/ line = <<>> \/ line[1] \notin White
     \/ Strip(line) = <<>> \/ Strip(line)[1] \in {";", "#"}

Starts(line, text) == IsPrefix(text, line)

\* Line k of a file of plain lines is the only one about ignored operators, in
\* section global.
OneList(ini, k) ==
  /\ \A j \in DOMAIN ini : Starts(ini[j], <<"IGNORE_SRC_OPERS">>) <=> j = k
  /\ \A j \in DOMAIN ini : Plain(ini[j])
  /\ \E j \in 1 .. k - 1 :
       /\ Starts(ini[j], <<"[", "global", "]">>)
       /\ \A m \in j + 1 .. k - 1 : ~Starts(ini[m], <<"[">>)

\* The line's value are the names from its a-th to its z-th token, one space
\* between each two; what follows is a comment behind white space, if anything.
Lists(line, a, z) ==
  /\ \E e \in 2 .. a - 1 :
       line[e] = "=" /\ \A i \in 2 .. a - 1 : i = e \/ line[i] \in White
  /\ (z - a) % 2 = 0
  /\ \A i \in a .. z : IF (i - a) % 2 = 0 THEN line[i] \notin White \union {";"}
                       ELSE line[i] = " "
  /\ \E c \in z + 1 .. Len(line) + 1 :
       /\ \A i \in z + 1 .. c - 1 : line[i] \in White
       /\ c <= Len(line) => line[c] = ";" /\ c > z + 1
===============================================================================
