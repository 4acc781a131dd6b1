----------------------------- MODULE ConfigProofs -----------------------------
(***************************************************************************)
(* What a plain list of ignored operators comes to, for every config.ini.  *)
(* Two recursions have to be unfolded, over the pieces of a line and over  *)
(* the lines; a plain line is one piece, and of the lines only the list's  *)
(* touches the value that main asks for.                                   *)
(***************************************************************************)
EXTENDS Config, SequenceTheorems, WellFoundedInduction, TLAPS

\* Strings; the provers do not know that the literals are.
Word == STRING \union {"IGNORE_SRC_OPERS", "[", "global", "]"}
Text == Seq(Word)

\* Opaque names for two characters: the provers do not mix strings and arithmetic.
Semicolon == ";"
Equals == "="

-------------------------------------------------------------------------------
(* Smallest and largest positions *)

LEMMA LeastOf ==
  ASSUME NEW S, S \in SUBSET Nat, S # {}
  PROVE  \E i \in S : \A j \in S : i <= j
<1>1. PICK i \in S : \A j \in S : ~(<<j, i>> \in OpToRel(<, Nat))
  BY NatLessThanWellFounded, WFMin
<1>2. \A j \in S : ~(j < i)
  BY <1>1 DEF OpToRel
<1> QED  BY <1>2

\* A bounded set has a largest position: its smallest bound.
LEMMA LargestOf ==
  ASSUME NEW n \in Nat, NEW S, S \in SUBSET (1 .. n), S # {}
  PROVE  \E i \in S : \A j \in S : j <= i
<1> DEFINE B == {b \in Nat : \A j \in S : j <= b}
<1>1. n \in B
  OBVIOUS
<1>2. B \in SUBSET Nat
  OBVIOUS
<1> HIDE DEF B
<1>3. PICK b \in B : \A c \in B : b <= c
  BY <1>1, <1>2, LeastOf
<1>4. CASE b \in S
  BY <1>3, <1>4 DEF B
<1>5. CASE b \notin S
  <2>1. \A j \in S : j \in 1 .. n /\ j <= b /\ j # b
    BY <1>3, <1>5 DEF B
  <2>2. b - 1 \in B
    <3>1. b \in Nat
      BY <1>3 DEF B
    <3>2. \A j \in S : j <= b - 1 /\ j >= 1
      BY <2>1, <3>1
    <3>3. PICK j \in S : TRUE
      OBVIOUS
    <3>4. j \in Int /\ j <= b - 1 /\ j >= 1
      BY <3>2
    <3>5. b - 1 \in Nat
      BY <3>1, <3>4
    <3> QED  BY <3>2, <3>5 DEF B
  <2> QED  BY <1>3, <2>2 DEF B
<1> QED  BY <1>4, <1>5

LEMMA MinIs ==
  ASSUME NEW S, S \in SUBSET Int, NEW m \in S, \A i \in S : m <= i
  PROVE  Min(S) = m
<1>1. \E x \in S : \A y \in S : x <= y
  OBVIOUS
<1>2. Min(S) \in S /\ \A y \in S : Min(S) <= y
  BY <1>1, Zenon DEF Min
<1>3. m \in Int /\ Min(S) \in Int /\ m <= Min(S) /\ Min(S) <= m
  BY <1>2
<1> QED  BY <1>3

LEMMA MaxIs ==
  ASSUME NEW S, S \in SUBSET Int, NEW m \in S, \A i \in S : i <= m
  PROVE  Max(S) = m
<1>1. \E x \in S : \A y \in S : x >= y
  OBVIOUS
<1>2. Max(S) \in S /\ \A y \in S : Max(S) >= y
  BY <1>1, Zenon DEF Max
<1>3. m \in Int /\ Max(S) \in Int /\ m <= Max(S) /\ Max(S) <= m
  BY <1>2
<1> QED  BY <1>3

LEMMA MinFacts ==
  ASSUME NEW n \in Nat, NEW S, S \in SUBSET (1 .. n), S # {}
  PROVE  Min(S) \in S /\ \A i \in S : Min(S) <= i
<1>1. S \in SUBSET Nat /\ S \in SUBSET Int
  OBVIOUS
<1>2. PICK m \in S : \A i \in S : m <= i
  BY <1>1, LeastOf
<1>3. Min(S) = m
  BY <1>1, <1>2, MinIs
<1> QED  BY <1>2, <1>3

LEMMA FirstIs ==
  ASSUME NEW n \in Nat, NEW S, S \in SUBSET (2 .. n), NEW c \in S,
         \A i \in 2 .. c - 1 : i \notin S
  PROVE  Min(S) = c
<1>1. \A i \in S : i \in Int /\ i >= 2
  OBVIOUS
<1>2. \A i \in S : c <= i
  BY <1>1
<1>3. S \in SUBSET Int
  OBVIOUS
<1> QED  BY <1>2, <1>3, MinIs

-------------------------------------------------------------------------------
(* Strip and Uncomment *)

LEMMA Sub ==
  ASSUME NEW s \in Text, NEW a \in 1 .. Len(s) + 1, NEW z \in a - 1 .. Len(s)
  PROVE  /\ SubSeq(s, a, z) \in Text
         /\ Len(SubSeq(s, a, z)) = z - a + 1
         /\ \A i \in 1 .. z - a + 1 : SubSeq(s, a, z)[i] = s[a + i - 1]
BY LenProperties DEF Text

LEMMA Prefix ==
  ASSUME NEW s \in Text, NEW z \in 0 .. Len(s)
  PROVE  /\ SubSeq(s, 1, z) \in Text /\ Len(SubSeq(s, 1, z)) = z
         /\ \A i \in 1 .. z : SubSeq(s, 1, z)[i] = s[i]
<1>1. Len(s) \in Nat
  BY LenProperties DEF Text
<1>2. 1 \in 1 .. Len(s) + 1 /\ z \in 1 - 1 .. Len(s)
  BY <1>1
<1>3. z - 1 + 1 = z /\ \A i \in 1 .. z : 1 + i - 1 = i
  BY <1>1
<1> QED  BY <1>2, <1>3, Sub

LEMMA PrefixHead ==
  ASSUME NEW s \in Text, NEW z \in 1 .. Len(s)
  PROVE  SubSeq(s, 1, z) \in Text /\ SubSeq(s, 1, z)[1] = s[1]
<1>1. Len(s) \in Nat
  BY LenProperties DEF Text
<1>2. z \in 0 .. Len(s) /\ 1 \in 1 .. z
  BY <1>1
<1> QED  BY <1>2, Prefix

\* Strip keeps what is between the first and the last ink.
LEMMA StripIs ==
  ASSUME NEW s \in Text, NEW a \in 1 .. Len(s), NEW z \in a .. Len(s),
         s[a] \notin White, s[z] \notin White,
         \A i \in 1 .. a - 1 : s[i] \in White,
         \A i \in z + 1 .. Len(s) : s[i] \in White
  PROVE  Strip(s) = SubSeq(s, a, z)
<1> DEFINE ink == {i \in DOMAIN s : s[i] \notin White}
<1>1. Len(s) \in Nat /\ DOMAIN s = 1 .. Len(s)
  BY LenProperties DEF Text
<1>2. a \in ink /\ z \in ink /\ \A i \in ink : i \in Int /\ a <= i /\ i <= z
  BY <1>1
<1>3. Min(ink) = a /\ Max(ink) = z
  <2> HIDE DEF ink
  <2> QED  BY <1>2, MinIs, MaxIs
<1> QED  BY <1>2, <1>3 DEF Strip

LEMMA StripEmpty ==
  ASSUME NEW s \in Text, \A i \in 1 .. Len(s) : s[i] \in White
  PROVE  Strip(s) = <<>>
<1>1. {i \in DOMAIN s : s[i] \notin White} = {}
  BY LenProperties DEF Text
<1> QED  BY <1>1 DEF Strip

LEMMA NoText == <<>> \in Text /\ Strip(<<>>) = <<>>
<1>1. <<>> \in Text /\ Len(<<>>) = 0
  BY DEF Text
<1>2. \A i \in 1 .. Len(<<>>) : <<>>[i] \in White
  BY <1>1
<1> QED  BY <1>1, <1>2, StripEmpty

\* A text that begins with ink only loses something at its end.
LEMMA StripInk ==
  ASSUME NEW s \in Text, s # <<>>, s[1] \notin White
  PROVE  \E z \in 1 .. Len(s) :
           /\ Strip(s) = SubSeq(s, 1, z) /\ s[z] \notin White
           /\ \A i \in z + 1 .. Len(s) : s[i] \in White
<1> DEFINE ink == {i \in 1 .. Len(s) : s[i] \notin White}
<1>1. Len(s) \in Nat \ {0}
  BY LenProperties, EmptySeq DEF Text
<1>2. 1 \in ink /\ ink \in SUBSET (1 .. Len(s))
  BY <1>1
<1> HIDE DEF ink
<1>3. PICK z \in ink : \A j \in ink : j <= z
  BY <1>1, <1>2, LargestOf
<1>4. z \in 1 .. Len(s) /\ s[z] \notin White
  BY <1>3 DEF ink
<1>5. \A i \in z + 1 .. Len(s) : s[i] \in White
  <2> SUFFICES ASSUME NEW i \in z + 1 .. Len(s), s[i] \notin White PROVE FALSE
    OBVIOUS
  <2>1. i \in ink
    BY <1>1, <1>4 DEF ink
  <2> QED  BY <1>3, <1>4, <2>1
<1> QED  BY <1>1, <1>4, <1>5, StripIs

LEMMA UncommentNone ==
  ASSUME NEW s \in Text, \A i \in 2 .. Len(s) : s[i] # ";" \/ s[i - 1] \notin White
  PROVE  Uncomment(s) = s
<1>1. {i \in 2 .. Len(s) : s[i] = ";" /\ s[i - 1] \in White} = {}
  OBVIOUS
<1> QED  BY <1>1 DEF Uncomment

LEMMA UncommentAt ==
  ASSUME NEW s \in Text, NEW c \in 2 .. Len(s), s[c] = ";", s[c - 1] \in White,
         \A i \in 2 .. c - 1 : s[i] # ";"
  PROVE  Uncomment(s) = SubSeq(s, 1, c - 1)
<1> DEFINE starts == {i \in 2 .. Len(s) : s[i] = ";" /\ s[i - 1] \in White}
<1>1. c \in starts
  OBVIOUS
<1>2. starts \in SUBSET (2 .. Len(s)) /\ \A i \in 2 .. c - 1 : i \notin starts
  OBVIOUS
<1>3. Min(starts) = c
  <2>1. Len(s) \in Nat
    BY LenProperties DEF Text
  <2> HIDE DEF starts
  <2> QED  BY <1>1, <1>2, <2>1, FirstIs
<1>4. Uncomment(s) = Before(s, Min(starts))
  BY <1>1 DEF Uncomment
<1> QED  BY <1>3, <1>4 DEF Before

LEMMA UncommentLess ==
  ASSUME NEW s \in Text
  PROVE  DOMAIN Uncomment(s) \subseteq 1 .. Len(s)
<1> DEFINE starts == {i \in 2 .. Len(s) : s[i] = ";" /\ s[i - 1] \in White}
<1>1. Len(s) \in Nat /\ DOMAIN s = 1 .. Len(s)
  BY LenProperties DEF Text
<1>2. CASE starts = {}
  BY <1>1, <1>2 DEF Uncomment
<1>3. CASE starts # {}
  <2>1. Uncomment(s) = SubSeq(s, 1, Min(starts) - 1)
    BY <1>3 DEF Uncomment, Before
  <2>2. \A i \in starts : i \in 2 .. Len(s)
    OBVIOUS
  <2> HIDE DEF starts
  <2>3. Min(starts) \in 2 .. Len(s)
    <3>1. starts \in SUBSET (1 .. Len(s))
      BY <1>1, <2>2
    <3>2. Min(starts) \in starts
      BY <1>1, <1>3, <3>1, MinFacts
    <3> QED  BY <2>2, <3>2
  <2>4. Min(starts) - 1 \in 0 .. Len(s) /\ Min(starts) - 1 <= Len(s)
    BY <1>1, <2>3
  <2>5. Uncomment(s) \in Text /\ Len(Uncomment(s)) = Min(starts) - 1
    BY <2>1, <2>4, Prefix
  <2> QED  BY <1>1, <2>4, <2>5, LenProperties DEF Text
<1> QED  BY <1>2, <1>3

-------------------------------------------------------------------------------
(* One plain line is one piece *)

LEMMA StartsIs ==
  ASSUME NEW line \in Text, NEW w \in Word
  PROVE  Starts(line, <<w>>) <=> line # <<>> /\ line[1] = w
<1> DEFINE one == <<w>>
<1>1. Len(line) \in Nat /\ (line = <<>> <=> Len(line) = 0)
  BY LenProperties, EmptySeq DEF Text
<1>2. one \in Text /\ Len(one) = 1 /\ one[1] = w
  BY DEF Text
<1> HIDE DEF one
<1>3. SubSeq(one, 1, 1) = one
  BY <1>2, SubSeqFull DEF Text
<1>4. ASSUME Len(line) >= 1 PROVE SubSeq(one, 1, 1) = SubSeq(line, 1, 1) <=> line[1] = w
  <2>1. /\ SubSeq(line, 1, 1) \in Text /\ Len(SubSeq(line, 1, 1)) = 1
        /\ SubSeq(line, 1, 1)[1] = line[1]
    BY <1>1, <1>4, Sub
  <2> QED  BY <1>2, <1>3, <2>1, SeqEqual DEF Text
<1>5. Starts(line, one) <=> Len(line) >= 1 /\ SubSeq(one, 1, 1) = SubSeq(line, 1, 1)
  BY <1>1, <1>2 DEF Starts, IsPrefix
<1> QED  BY <1>1, <1>4, <1>5 DEF one

LEMMA StartsThree ==
  ASSUME NEW line \in Text, NEW u \in Word, NEW v \in Word, NEW w \in Word,
         Starts(line, <<u, v, w>>)
  PROVE  Len(line) >= 3 /\ line[1] = u /\ line[2] = v /\ line[3] = w
<1> DEFINE three == <<u, v, w>>
<1>1. /\ three \in Text /\ Len(three) = 3
      /\ three[1] = u /\ three[2] = v /\ three[3] = w
  BY DEF Text
<1>2. Starts(line, three)
  OBVIOUS
<1> HIDE DEF three
<1>3. Len(line) >= 3 /\ SubSeq(three, 1, 3) = SubSeq(line, 1, 3)
  BY <1>1, <1>2 DEF Starts, IsPrefix
<1>4. SubSeq(three, 1, 3) = three
  BY <1>1, SubSeqFull DEF Text
<1>5. Len(line) \in Nat
  BY LenProperties DEF Text
<1>6. \A i \in 1 .. 3 : SubSeq(line, 1, 3)[i] = line[i]
  <2>1. 1 \in 1 .. Len(line) + 1 /\ 3 \in 1 - 1 .. Len(line) /\ 3 - 1 + 1 = 3
    BY <1>3, <1>5
  <2>2. \A i \in 1 .. 3 - 1 + 1 : SubSeq(line, 1, 3)[i] = line[1 + i - 1]
    BY <2>1, Sub
  <2>3. \A i \in 1 .. 3 : 1 + i - 1 = i
    OBVIOUS
  <2> QED  BY <2>1, <2>2, <2>3
<1> QED  BY <1>1, <1>3, <1>4, <1>6

LEMMA PlainPieces ==
  ASSUME NEW line \in Text, Len(line) <= MaxLine
  PROVE  Pieces(line) = IF line = <<>> THEN <<>> ELSE <<line>>
<1>1. MaxLine \in Nat \ {0} /\ Len(line) \in Nat
  BY ConfigAssumption, LenProperties DEF Text
<1>2. CASE line = <<>>
  <2>1. Len(line) - 1 = -1
    BY <1>2
  <2>2. (-1) \div MaxLine = -1
    BY <1>1
  <2>3. 1 .. 1 + (Len(line) - 1) \div MaxLine = {}
    BY <2>1, <2>2
  <2> QED  BY <1>2, <2>3 DEF Pieces
<1>3. CASE line # <<>>
  <2>1. Len(line) - 1 \in 0 .. MaxLine - 1
    BY <1>1, <1>3, EmptySeq DEF Text
  <2>2. (Len(line) - 1) \div MaxLine = 0
    BY <1>1, <2>1
  <2>3. 1 .. 1 + (Len(line) - 1) \div MaxLine = {1}
    BY <2>2
  <2>4. Min({1 * MaxLine, Len(line)}) = Len(line)
    <3> DEFINE both == {1 * MaxLine, Len(line)}
    <3>1. both \in SUBSET Int /\ Len(line) \in both /\ \A i \in both : Len(line) <= i
      BY <1>1
    <3> HIDE DEF both
    <3>2. Min(both) = Len(line)
      BY <3>1, MinIs
    <3> QED  BY <3>2 DEF both
  <2>5. SubSeq(line, (1 - 1) * MaxLine + 1, Len(line)) = line
    <3>1. (1 - 1) * MaxLine + 1 = 1
      BY <1>1
    <3> QED  BY <3>1, SubSeqFull DEF Text
  <2>6. Pieces(line) = [k \in {1} |-> line]
    BY <2>3, <2>4, <2>5 DEF Pieces
  <2> QED  BY <1>3, <2>6
<1> QED  BY <1>2, <1>3

LEMMA PlainLine ==
  ASSUME NEW s, NEW line \in Text, Len(line) <= MaxLine
  PROVE  ParseLine(s, line) = IF line = <<>> THEN s ELSE ParsePiece(s, line)
<1> DEFINE pieces == Pieces(line)
           Body(f) == [k \in 0 .. Len(pieces) |->
                         IF k = 0 THEN s ELSE ParsePiece(f[k - 1], pieces[k])]
           F == [k \in 0 .. Len(pieces) |-> IF k = 0 THEN s ELSE ParsePiece(s, line)]
           parsed == CHOOSE f : f = Body(f)
<1>1. ParseLine(s, line) = parsed[Len(pieces)]
  BY DEF ParseLine
<1>2. F = Body(F) /\ Len(pieces) = IF line = <<>> THEN 0 ELSE 1
  <2>1. CASE line = <<>>
    BY <2>1, PlainPieces
  <2>2. CASE line # <<>>
    <3>1. pieces = <<line>>
      BY <2>2, PlainPieces
    <3> QED  BY <2>2, <3>1
  <2> QED  BY <2>1, <2>2
<1>3. parsed = Body(parsed)
  <2> HIDE DEF F, Body
  <2> QED  BY <1>2
<1>4. CASE line = <<>>
  BY <1>1, <1>2, <1>3, <1>4
<1>5. CASE line # <<>>
  <2>1. pieces = <<line>>
    BY <1>5, PlainPieces
  <2> HIDE DEF parsed
  <2> QED  BY <1>1, <1>3, <1>5, <2>1
<1> QED  BY <1>4, <1>5

-------------------------------------------------------------------------------
(* What a line does to the value of the list *)

Key == << <<"global">>, <<"IGNORE_SRC_OPERS">> >>

\* The state of ini_parse_stream and INIReader.
Rec(s) == s = [section |-> s.section, prev_name |-> s.prev_name,
               values |-> s.values, error |-> s.error]

SameList(s, t) ==
  /\ Key \in DOMAIN t.values <=> Key \in DOMAIN s.values
  /\ Key \in DOMAIN s.values => t.values[Key] = s.values[Key]

\* ValueHandler has changed s to t.
Stored(s, t, name, value) ==
  LET key == <<s.section, name>>
  IN  /\ Rec(t) /\ t.section = s.section /\ t.prev_name = s.prev_name
      /\ DOMAIN t.values = DOMAIN s.values \union {key}
      /\ \A k \in DOMAIN s.values : k # key => t.values[k] = s.values[k]
      /\ key \notin DOMAIN s.values => t.values[key] = value

LEMMA HandlerFacts ==
  ASSUME NEW s, Rec(s), NEW name, NEW value
  PROVE  Stored(s, ValueHandler(s, name, value), name, value)
<1> DEFINE t == ValueHandler(s, name, value)
           key == <<s.section, name>>
           old == IF key \in DOMAIN s.values THEN s.values[key] ELSE <<>>
           new == IF old = <<>> THEN value ELSE old \o <<"\n">> \o value
           vs == [k \in DOMAIN s.values \union {key} |->
                    IF k = key THEN new ELSE s.values[k]]
<1>1. t = [s EXCEPT !.values = vs]
  BY DEF ValueHandler
<1>2. /\ DOMAIN vs = DOMAIN s.values \union {key}
      /\ \A k \in DOMAIN s.values : k # key => vs[k] = s.values[k]
      /\ key \notin DOMAIN s.values => vs[key] = value
  <2> HIDE DEF key
  <2> QED  OBVIOUS
<1> HIDE DEF vs, key, old, new, t
<1>3. t = [section |-> s.section, prev_name |-> s.prev_name, values |-> vs, error |-> s.error]
  BY <1>1 DEF Rec
<1>4. Rec(t) /\ t.section = s.section /\ t.prev_name = s.prev_name /\ t.values = vs
  BY <1>3 DEF Rec
<1> QED  BY <1>2, <1>4 DEF t, key, Stored

\* A name begins as its line does, or it is empty.
LEMMA NameOf ==
  ASSUME NEW text \in Text, text # <<>>, text[1] \notin White, NEW e \in 1 .. Len(text)
  PROVE  Strip(Before(text, e)) # <<>> => Strip(Before(text, e))[1] = text[1]
<1> DEFINE b == SubSeq(text, 1, e - 1)
<1>1. Len(text) \in Nat
  BY LenProperties DEF Text
<1>2. b \in Text /\ Len(b) = e - 1 /\ \A i \in 1 .. e - 1 : b[i] = text[i]
  BY <1>1, Sub
<1> HIDE DEF b
<1>3. CASE e = 1
  <2>1. Strip(b) = <<>>
    BY <1>2, <1>3, StripEmpty
  <2> QED  BY <2>1 DEF b, Before
<1>4. CASE e # 1
  <2>1. b # <<>> /\ b[1] = text[1]
    BY <1>2, <1>4, EmptySeq
  <2>2. PICK z \in 1 .. Len(b) : Strip(b) = SubSeq(b, 1, z)
    BY <1>2, <2>1, StripInk
  <2>3. SubSeq(b, 1, z)[1] = b[1]
    BY <1>2, <2>2, Sub
  <2> QED  BY <2>1, <2>2, <2>3 DEF b, Before
<1> QED  BY <1>3, <1>4

\* A plain line that says something begins in its first column.
LEMMA PlainText ==
  ASSUME NEW line \in Text, Plain(line), Strip(line) # <<>>, Strip(line)[1] \notin {";", "#"}
  PROVE  /\ line # <<>> /\ line[1] \notin White
         /\ Strip(line) \in Text /\ Strip(line)[1] = line[1]
<1>1. Strip(<<>>) = <<>>
  BY NoText
<1>2. line # <<>> /\ line[1] \notin White
  BY <1>1 DEF Plain
<1>3. PICK z \in 1 .. Len(line) : Strip(line) = SubSeq(line, 1, z)
  BY <1>2, StripInk
<1>4. SubSeq(line, 1, z) \in Text /\ SubSeq(line, 1, z)[1] = line[1]
  BY <1>3, PrefixHead
<1> QED  BY <1>2, <1>3, <1>4

\* A line without the list's name leaves the list alone, and the section unless it
\* begins with a bracket.
LEMMA OtherPiece ==
  ASSUME NEW s, Rec(s), NEW line \in Text, Plain(line), line # <<>>,
         line[1] # "IGNORE_SRC_OPERS"
  PROVE  LET t == ParsePiece(s, line)
         IN  Rec(t) /\ SameList(s, t) /\ (line[1] # "[" => t.section = s.section)
<1> DEFINE text == Strip(line)
           equals == {i \in DOMAIN Uncomment(text) : text[i] = "="}
           name == Strip(Before(text, Min(equals)))
           value == Strip(Uncomment(Strip(After(text, Min(equals)))))
           t == ParsePiece(s, line)
           Good == Rec(t) /\ SameList(s, t) /\ (line[1] # "[" => t.section = s.section)
<1>1. CASE text = <<>> \/ text[1] \in {";", "#"}
  <2>1. t = s
    BY <1>1 DEF ParsePiece
  <2> QED  BY <2>1 DEF SameList
<1>2. ASSUME ~(text = <<>> \/ text[1] \in {";", "#"}) PROVE Good
  <2>1. /\ line[1] \notin White /\ text \in Text /\ text[1] = line[1] /\ text # <<>>
    BY <1>2, PlainText
  <2>2. t = IF text[1] = "[" /\ "]" \in ToSet(Uncomment(text)) THEN
              [s EXCEPT !.section = SubSeq(text, 2, Min({i \in DOMAIN text : text[i] = "]"}) - 1),
                        !.prev_name = <<>>]
            ELSE IF text[1] # "[" /\ equals # {} THEN
              [ValueHandler(s, name, value) EXCEPT !.prev_name = name]
            ELSE [s EXCEPT !.error = TRUE]
    BY <1>2, <2>1 DEF ParsePiece
  <2> HIDE DEF t
  <2>3. CASE text[1] = "[" /\ "]" \in ToSet(Uncomment(text))
    <3> DEFINE sec == SubSeq(text, 2, Min({i \in DOMAIN text : text[i] = "]"}) - 1)
    <3>1. t = [s EXCEPT !.section = sec, !.prev_name = <<>>]
      BY <2>2, <2>3
    <3> HIDE DEF sec
    <3>2. t = [section |-> sec, prev_name |-> <<>>, values |-> s.values, error |-> s.error]
      BY <3>1 DEF Rec
    <3> QED  BY <2>1, <2>3, <3>2 DEF Rec, SameList
  <2>4. CASE text[1] # "[" /\ equals # {}
    <3>1. equals \in SUBSET (1 .. Len(text)) /\ Len(text) \in Nat
      BY <2>1, UncommentLess, LenProperties DEF Text
    <3>2. Min(equals) \in 1 .. Len(text)
      <4> HIDE DEF equals
      <4> QED  BY <2>4, <3>1, MinFacts
    <3>3. name # <<"IGNORE_SRC_OPERS">>
      <4>1. name # <<>> => name[1] = line[1]
        BY <2>1, <3>2, NameOf
      <4> HIDE DEF name
      <4> QED  BY <4>1
    <3> DEFINE h == ValueHandler(s, name, value)
    <3>4. t = [h EXCEPT !.prev_name = name]
      BY <2>2, <2>4
    <3>5. /\ Rec(h) /\ h.section = s.section
          /\ DOMAIN h.values = DOMAIN s.values \union {<<s.section, name>>}
          /\ \A k \in DOMAIN s.values : k # <<s.section, name>> => h.values[k] = s.values[k]
      <4>1. Stored(s, h, name, value)
        BY HandlerFacts
      <4> HIDE DEF h, name, value
      <4> QED  BY <4>1 DEF Stored
    <3> HIDE DEF h, name
    <3>6. t = [section |-> h.section, prev_name |-> name, values |-> h.values, error |-> h.error]
      BY <3>4, <3>5 DEF Rec
    <3>7. Key # <<s.section, name>>
      BY <3>3 DEF Key
    <3> QED  BY <3>5, <3>6, <3>7 DEF Rec, SameList
  <2>5. CASE ~(text[1] = "[" /\ "]" \in ToSet(Uncomment(text))) /\ ~(text[1] # "[" /\ equals # {})
    <3>1. t = [s EXCEPT !.error = TRUE]
      BY <2>2, <2>5
    <3>2. t = [section |-> s.section, prev_name |-> s.prev_name, values |-> s.values, error |-> TRUE]
      BY <3>1 DEF Rec
    <3> QED  BY <3>2 DEF Rec, SameList
  <2> QED  BY <2>3, <2>4, <2>5
<1> QED  BY <1>1, <1>2

-------------------------------------------------------------------------------
(* The value of the list's line *)

\* v is what s has from a to z.
IsPart(v, s, a, z) ==
  v \in Text /\ Len(v) = z - a + 1 /\ \A i \in a .. z : v[i - a + 1] = s[i]

LEMMA PartAt ==
  ASSUME NEW s, NEW a \in Nat, NEW z \in Nat, NEW v, IsPart(v, s, a, z)
  PROVE  \A i \in 1 .. Len(v) : i + a - 1 \in a .. z /\ v[i] = s[i + a - 1]
<1> SUFFICES ASSUME NEW i \in 1 .. Len(v)
             PROVE  i + a - 1 \in a .. z /\ v[i] = s[i + a - 1]
  OBVIOUS
<1>1. Len(v) = z - a + 1
  BY DEF IsPart
<1>2. i + a - 1 \in a .. z /\ (i + a - 1) - a + 1 = i
  BY <1>1
<1> QED  BY <1>2 DEF IsPart

LEMMA SubPart ==
  ASSUME NEW s, NEW a \in Nat, NEW z \in Nat, NEW v, IsPart(v, s, a, z),
         NEW b \in a .. z, NEW y \in b - 1 .. z
  PROVE  IsPart(SubSeq(v, b - a + 1, y - a + 1), s, b, y)
<1> DEFINE l == b - a + 1
           r == y - a + 1
<1>1. v \in Text /\ Len(v) = z - a + 1 /\ \A i \in a .. z : v[i - a + 1] = s[i]
  BY DEF IsPart
<1>2. l \in 1 .. Len(v) + 1 /\ r \in l - 1 .. Len(v) /\ r - l + 1 = y - b + 1
  BY <1>1
<1>3. \A i \in b .. y :
        i \in a .. z /\ i - b + 1 \in 1 .. r - l + 1 /\ l + (i - b + 1) - 1 = i - a + 1
  OBVIOUS
<1> HIDE DEF l, r
<1>4. /\ SubSeq(v, l, r) \in Text /\ Len(SubSeq(v, l, r)) = y - b + 1
      /\ \A i \in 1 .. r - l + 1 : SubSeq(v, l, r)[i] = v[l + i - 1]
  BY <1>1, <1>2, Sub
<1>5. \A i \in b .. y : SubSeq(v, l, r)[i - b + 1] = s[i]
  BY <1>1, <1>3, <1>4
<1>6. IsPart(SubSeq(v, l, r), s, b, y)
  BY <1>4, <1>5 DEF IsPart
<1> QED  BY <1>6 DEF l, r

LEMMA Shift ==
  ASSUME NEW a \in Nat, NEW z \in Nat, NEW b \in a .. z, NEW y \in b .. z
  PROVE  /\ \A i \in 1 .. b - a + 1 - 1 : i + a - 1 \in a .. b - 1 /\ i \in 1 .. z - a + 1
         /\ \A i \in y - a + 1 + 1 .. z - a + 1 :
              i + a - 1 \in y + 1 .. z /\ i \in 1 .. z - a + 1
         /\ y \in b - 1 .. z
         /\ b - a + 1 \in 1 .. z - a + 1 /\ y - a + 1 \in b - a + 1 .. z - a + 1
OBVIOUS

LEMMA StripPart ==
  ASSUME NEW s, NEW a \in Nat, NEW z \in Nat, NEW v, IsPart(v, s, a, z),
         NEW b \in a .. z, NEW y \in b .. z, s[b] \notin White, s[y] \notin White,
         \A i \in a .. b - 1 : s[i] \in White, \A i \in y + 1 .. z : s[i] \in White
  PROVE  IsPart(Strip(v), s, b, y)
<1> DEFINE l == b - a + 1
           r == y - a + 1
<1>1. v \in Text /\ Len(v) = z - a + 1 /\ v[l] = s[b] /\ v[r] = s[y]
  BY DEF IsPart
<1>2. l \in 1 .. Len(v) /\ r \in l .. Len(v)
  BY <1>1
<1>3. \A i \in 1 .. l - 1 : v[i] \in White
  <2>1. \A i \in 1 .. l - 1 : i + a - 1 \in a .. b - 1 /\ i \in 1 .. Len(v)
    BY <1>1, Shift
  <2>2. \A i \in 1 .. Len(v) : v[i] = s[i + a - 1]
    BY PartAt
  <2> HIDE DEF l, r
  <2> QED  BY <2>1, <2>2
<1>4. \A i \in r + 1 .. Len(v) : v[i] \in White
  <2>1. \A i \in r + 1 .. Len(v) : i + a - 1 \in y + 1 .. z /\ i \in 1 .. Len(v)
    BY <1>1, Shift
  <2>2. \A i \in 1 .. Len(v) : v[i] = s[i + a - 1]
    BY PartAt
  <2> HIDE DEF l, r
  <2> QED  BY <2>1, <2>2
<1>5. Strip(v) = SubSeq(v, l, r)
  <2> HIDE DEF l, r
  <2> QED  BY <1>1, <1>2, <1>3, <1>4, StripIs
<1>6. y \in b - 1 .. z
  BY Shift
<1> QED  BY <1>5, <1>6, SubPart

LEMMA UncommentPart ==
  ASSUME NEW s, NEW a \in Nat, NEW z \in Nat, NEW v, IsPart(v, s, a, z),
         NEW c \in a + 1 .. z, s[c] = Semicolon, s[c - 1] \in White,
         \A i \in a + 1 .. c - 1 : s[i] # Semicolon
  PROVE  IsPart(Uncomment(v), s, a, c - 1)
<1> DEFINE k == c - a + 1
<1>1. /\ v \in Text /\ Len(v) = z - a + 1 /\ \A i \in a .. z : v[i - a + 1] = s[i]
  BY DEF IsPart
<1>2. /\ c \in a .. z /\ c - 1 \in a .. z /\ c - 1 - a + 1 = k - 1
      /\ k \in 2 .. z - a + 1 /\ c - 1 \in a - 1 .. z
  OBVIOUS
<1>3. v[k] = s[c] /\ v[k - 1] = s[c - 1]
  BY <1>1, <1>2
<1>4. \A i \in 2 .. k - 1 : v[i] # Semicolon
  <2>1. \A i \in 2 .. k - 1 : i + a - 1 \in a + 1 .. c - 1 /\ i \in 1 .. z - a + 1
    OBVIOUS
  <2>2. \A i \in 1 .. z - a + 1 : v[i] = s[i + a - 1]
    BY <1>1, PartAt
  <2> HIDE DEF k
  <2> QED  BY <2>1, <2>2
<1>5. Uncomment(v) = SubSeq(v, 1, k - 1)
  <2> HIDE DEF k
  <2>1. v[k] = ";" /\ \A i \in 2 .. k - 1 : v[i] # ";"
    BY <1>3, <1>4 DEF Semicolon
  <2> QED  BY <1>1, <1>2, <1>3, <2>1, UncommentAt
<1>6. a \in a .. z /\ a - a + 1 = 1
  OBVIOUS
<1>7. IsPart(SubSeq(v, a - a + 1, c - 1 - a + 1), s, a, c - 1)
  BY <1>2, <1>6, SubPart
<1> QED  BY <1>2, <1>5, <1>6, <1>7

LEMMA UncommentWhole ==
  ASSUME NEW s, NEW a \in Nat, NEW z \in Nat, NEW v, IsPart(v, s, a, z),
         \A i \in a + 1 .. z : s[i] # Semicolon
  PROVE  Uncomment(v) = v
<1>1. v \in Text /\ Len(v) = z - a + 1
  BY DEF IsPart
<1>2. \A i \in 2 .. Len(v) : i + a - 1 \in a + 1 .. z /\ i \in 1 .. Len(v)
  BY <1>1
<1>3. \A i \in 1 .. Len(v) : v[i] = s[i + a - 1]
  BY PartAt
<1>4. \A i \in 2 .. Len(v) : v[i] # Semicolon
  BY <1>2, <1>3
<1> QED  BY <1>1, <1>4, UncommentNone DEF Semicolon

\* Lists, with its witnesses: e is the equals sign, c where the comment starts or
\* behind the line.
ListAt(line, e, a, z, c) ==
  /\ line \in Text
  /\ e \in 2 .. a - 1 /\ a \in 3 .. z /\ z \in a .. Len(line) /\ c \in z + 1 .. Len(line) + 1
  /\ line[1] \notin White /\ line[1] # Semicolon /\ line[1] # Equals
  /\ line[e] = Equals /\ \A i \in 2 .. a - 1 : i = e \/ line[i] \in White
  /\ line[a] \notin White /\ line[z] \notin White
  /\ \A i \in a .. z : line[i] # Semicolon
  /\ \A i \in z + 1 .. c - 1 : line[i] \in White
  /\ c <= Len(line) => line[c] = Semicolon /\ c - 1 \in z + 1 .. c - 1

LEMMA Characters ==
  /\ Semicolon \notin White /\ Equals \notin White /\ Semicolon # Equals
BY DEF Semicolon, Equals, White

LEMMA Places ==
  ASSUME NEW line, NEW e, NEW a, NEW z, NEW c, ListAt(line, e, a, z, c)
  PROVE  /\ Len(line) \in Nat /\ e \in Nat /\ a \in Nat /\ z \in Nat /\ c \in Nat
         /\ 2 <= e /\ e < a /\ a <= z /\ z < c /\ c <= Len(line) + 1
<1>1. Len(line) \in Nat
  BY LenProperties DEF ListAt, Text
<1>2. e \in 2 .. a - 1 /\ a \in 3 .. z /\ z \in a .. Len(line) /\ c \in z + 1 .. Len(line) + 1
  BY DEF ListAt
<1> QED  BY <1>1, <1>2

LEMMA TextOf ==
  ASSUME NEW line, NEW e, NEW a, NEW z, NEW c, ListAt(line, e, a, z, c)
  PROVE  \E w \in z .. Len(line) :
           IsPart(Strip(line), line, 1, w) /\ line[w] \notin White /\ (w = z \/ c <= w)
<1>1. /\ Len(line) \in Nat /\ e \in Nat /\ a \in Nat /\ z \in Nat /\ c \in Nat
      /\ 2 <= e /\ e < a /\ a <= z /\ z < c /\ c <= Len(line) + 1
  BY Places
<1>2. z \in 1 .. Len(line)
  <2>1. z \in a .. Len(line)
    BY DEF ListAt
  <2> QED  BY <1>1, <2>1
<1>3. line \in Text /\ line # <<>> /\ line[1] \notin White
  BY <1>1, <1>2, EmptySeq DEF ListAt
<1>4. PICK w \in 1 .. Len(line) :
        /\ Strip(line) = SubSeq(line, 1, w) /\ line[w] \notin White
        /\ \A i \in w + 1 .. Len(line) : line[i] \in White
  BY <1>3, StripInk
<1>5. w \in Nat /\ w >= 1 /\ w <= Len(line)
  BY <1>1, <1>4
<1>6. IsPart(Strip(line), line, 1, w)
  <2>1. w \in 0 .. Len(line) /\ w - 1 + 1 = w /\ \A i \in 1 .. w : i - 1 + 1 = i
    BY <1>5
  <2> QED  BY <1>3, <1>4, <2>1, Prefix DEF IsPart
<1>7. z <= w
  <2>1. z \notin w + 1 .. Len(line)
    BY <1>4 DEF ListAt
  <2> QED  BY <1>1, <1>2, <1>5, <2>1
<1>8. w = z \/ c <= w
  <2>1. w \notin z + 1 .. c - 1
    BY <1>4 DEF ListAt
  <2> QED  BY <1>1, <1>5, <1>7, <2>1
<1>9. w \in z .. Len(line)
  BY <1>1, <1>5, <1>7
<1> QED  BY <1>4, <1>6, <1>8, <1>9

\* No semicolon but that of the comment.
LEMMA NoSemicolon ==
  ASSUME NEW line, NEW e, NEW a, NEW z, NEW c, ListAt(line, e, a, z, c)
  PROVE  \A i \in 1 .. c - 1 : line[i] # Semicolon
<1> SUFFICES ASSUME NEW i \in 1 .. c - 1 PROVE line[i] # Semicolon
  OBVIOUS
<1>1. i = 1 \/ i \in 2 .. a - 1 \/ i \in a .. z \/ i \in z + 1 .. c - 1
  BY Places
<1>2. CASE i = 1
  BY <1>2 DEF ListAt
<1>3. CASE i \in 2 .. a - 1
  BY <1>3, Characters DEF ListAt
<1>4. CASE i \in a .. z
  BY <1>4 DEF ListAt
<1>5. CASE i \in z + 1 .. c - 1
  BY <1>5, Characters DEF ListAt
<1> QED  BY <1>1, <1>2, <1>3, <1>4, <1>5

LEMMA EqualsAt ==
  ASSUME NEW line, NEW e, NEW a, NEW z, NEW c, ListAt(line, e, a, z, c),
         NEW text, NEW w \in z .. Len(line), IsPart(text, line, 1, w), w = z \/ c <= w
  PROVE  LET equals == {i \in DOMAIN Uncomment(text) : text[i] = Equals}
         IN  equals # {} /\ Min(equals) = e
<1> DEFINE equals == {i \in DOMAIN Uncomment(text) : text[i] = Equals}
<1>1. /\ Len(line) \in Nat /\ e \in Nat /\ a \in Nat /\ z \in Nat /\ c \in Nat
      /\ 2 <= e /\ e < a /\ a <= z /\ z < c /\ c <= Len(line) + 1
  BY Places
<1>2. w \in Nat /\ z <= w /\ w <= Len(line)
  BY <1>1
<1>3. \E m \in z .. w : IsPart(Uncomment(text), line, 1, m)
  <2>1. CASE w = z
    <3>1. \A i \in 1 + 1 .. w : i \in 1 .. c - 1
      BY <1>1, <2>1
    <3>2. Uncomment(text) = text
      BY <1>2, <3>1, NoSemicolon, UncommentWhole
    <3>3. z \in z .. w
      BY <1>1, <2>1
    <3> QED  BY <2>1, <3>2, <3>3
  <2>2. CASE c <= w
    <3>1. c \in 1 + 1 .. w /\ c <= Len(line) /\ c - 1 \in z .. w
      BY <1>1, <1>2, <2>2
    <3>2. line[c] = Semicolon /\ line[c - 1] \in White
      BY <3>1 DEF ListAt
    <3>3. \A i \in 1 + 1 .. c - 1 : line[i] # Semicolon
      <4>1. \A i \in 1 + 1 .. c - 1 : i \in 1 .. c - 1
        BY <1>1
      <4> QED  BY <4>1, NoSemicolon
    <3>4. IsPart(Uncomment(text), line, 1, c - 1)
      BY <1>2, <3>1, <3>2, <3>3, UncommentPart
    <3> QED  BY <3>1, <3>4
  <2> QED  BY <2>1, <2>2
<1>4. PICK m \in z .. w : IsPart(Uncomment(text), line, 1, m)
  BY <1>3
<1>5. DOMAIN Uncomment(text) = 1 .. m
  <2>1. m \in Nat /\ m - 1 + 1 = m
    BY <1>1, <1>2, <1>4
  <2> QED  BY <1>4, <2>1, LenProperties DEF IsPart, Text
<1>6. \A i \in 1 .. m : text[i] = line[i]
  <2>1. \A i \in 1 .. m : i \in 1 .. w /\ i - 1 + 1 = i
    BY <1>1, <1>2, <1>4
  <2> QED  BY <2>1 DEF IsPart
<1>7. e \in 1 .. m /\ \A i \in 1 .. e - 1 : i \in 1 .. m /\ (i = 1 \/ (i \in 2 .. a - 1 /\ i # e))
  BY <1>1, <1>2, <1>4
<1>8. e \in equals
  BY <1>5, <1>6, <1>7 DEF ListAt
<1>9. \A i \in 1 .. e - 1 : i \notin equals
  BY <1>6, <1>7, Characters DEF ListAt
<1>10. equals \in SUBSET (2 .. m)
  <2>1. \A i \in 1 .. m : i = 1 \/ i \in 2 .. m
    BY <1>1, <1>2, <1>4
  <2>2. 1 \in 1 .. e - 1
    BY <1>1
  <2> QED  BY <1>5, <1>9, <2>1, <2>2
<1>11. m \in Nat /\ \A i \in 2 .. e - 1 : i \in 1 .. e - 1
  BY <1>1, <1>2, <1>4
<1> HIDE DEF equals
<1>12. Min(equals) = e
  BY <1>8, <1>9, <1>10, <1>11, FirstIs
<1> QED  BY <1>8, <1>12 DEF equals

LEMMA ListName ==
  ASSUME NEW line, NEW e, NEW a, NEW z, NEW c, ListAt(line, e, a, z, c),
         NEW text, NEW w \in z .. Len(line), IsPart(text, line, 1, w)
  PROVE  IsPart(Strip(Before(text, e)), line, 1, 1)
<1>1. /\ Len(line) \in Nat /\ e \in Nat /\ a \in Nat /\ z \in Nat /\ c \in Nat
      /\ 2 <= e /\ e < a /\ a <= z /\ z < c /\ c <= Len(line) + 1
  BY Places
<1>2. /\ w \in Nat /\ 1 \in 1 .. w /\ e - 1 \in 1 - 1 .. w /\ e - 1 \in Nat
      /\ 1 - 1 + 1 = 1 /\ e - 1 - 1 + 1 = e - 1
  BY <1>1
<1>3. IsPart(SubSeq(text, 1 - 1 + 1, e - 1 - 1 + 1), line, 1, e - 1)
  BY <1>2, SubPart
<1>4. IsPart(Before(text, e), line, 1, e - 1)
  BY <1>2, <1>3 DEF Before
<1>5. /\ 1 \in 1 .. e - 1 /\ 1 \in Nat /\ 1 \in 1 .. 1
      /\ \A i \in 1 + 1 .. e - 1 : i \in 2 .. a - 1 /\ i # e
      /\ \A i \in 1 .. 1 - 1 : FALSE
  BY <1>1
<1>6. line[1] \notin White /\ \A i \in 1 + 1 .. e - 1 : line[i] \in White
  BY <1>5 DEF ListAt
<1>7. \A i \in 1 .. 1 - 1 : line[i] \in White
  BY <1>5
<1> QED  BY <1>2, <1>4, <1>5, <1>6, <1>7, StripPart

LEMMA ListValue ==
  ASSUME NEW line, NEW e, NEW a, NEW z, NEW c, ListAt(line, e, a, z, c),
         NEW text, NEW w \in z .. Len(line), IsPart(text, line, 1, w),
         line[w] \notin White, w = z \/ c <= w
  PROVE  IsPart(Strip(Uncomment(Strip(After(text, e)))), line, a, z)
<1>1. /\ Len(line) \in Nat /\ e \in Nat /\ a \in Nat /\ z \in Nat /\ c \in Nat
      /\ 2 <= e /\ e < a /\ a <= z /\ z < c /\ c <= Len(line) + 1
  BY Places
<1>2. /\ w \in Nat /\ e + 1 \in Nat /\ e + 1 \in 1 .. w /\ w \in e + 1 - 1 .. w
      /\ w - 1 + 1 = w /\ e + 1 - 1 + 1 = e + 1
  BY <1>1
<1>3. IsPart(After(text, e), line, e + 1, w)
  <2>1. IsPart(SubSeq(text, e + 1, w), line, e + 1, w)
    <3> DEFINE f == e + 1
    <3>1. /\ f \in 1 .. w /\ w \in f - 1 .. w /\ 1 \in Nat /\ w \in Nat
          /\ f - 1 + 1 = f /\ w - 1 + 1 = w
      BY <1>2
    <3> HIDE DEF f
    <3>2. IsPart(SubSeq(text, f - 1 + 1, w - 1 + 1), line, f, w)
      BY <3>1, SubPart
    <3>3. IsPart(SubSeq(text, f, w), line, f, w)
      BY <3>1, <3>2
    <3> QED  BY <3>3 DEF f
  <2>2. Len(text) = w
    BY <1>2 DEF IsPart
  <2> QED  BY <1>2, <2>1, <2>2 DEF After
<1> DEFINE v == Strip(After(text, e))
<1>4. IsPart(v, line, a, w)
  <2>1. a \in e + 1 .. w /\ w \in a .. w
    BY <1>1, <1>2
  <2>2. \A i \in e + 1 .. a - 1 : i \in 2 .. a - 1 /\ i # e
    BY <1>1
  <2>3. \A i \in e + 1 .. a - 1 : line[i] \in White
    BY <2>2 DEF ListAt
  <2>4. \A i \in w + 1 .. w : line[i] \in White
    <3>1. \A i \in w + 1 .. w : FALSE
      BY <1>2
    <3> QED  BY <3>1
  <2>5. line[a] \notin White
    BY DEF ListAt
  <2> QED  BY <1>2, <1>3, <2>1, <2>3, <2>4, <2>5, StripPart
<1> HIDE DEF v
<1>5. \E m \in z .. w : /\ IsPart(Uncomment(v), line, a, m) /\ m \in Nat
                        /\ \A i \in z + 1 .. m : line[i] \in White
  <2>1. CASE w = z
    <3>1. \A i \in a + 1 .. w : i \in 1 .. c - 1
      BY <1>1, <2>1
    <3>2. Uncomment(v) = v
      BY <1>1, <1>2, <1>4, <3>1, NoSemicolon, UncommentWhole
    <3>3. w \in z .. w /\ \A i \in z + 1 .. w : FALSE
      BY <1>1, <2>1
    <3> QED  BY <1>2, <1>4, <3>2, <3>3
  <2>2. CASE c <= w
    <3>1. c \in a + 1 .. w /\ c <= Len(line) /\ c - 1 \in z .. w /\ c - 1 \in Nat
      BY <1>1, <1>2, <2>2
    <3>2. line[c] = Semicolon /\ line[c - 1] \in White
      BY <3>1 DEF ListAt
    <3>3. \A i \in a + 1 .. c - 1 : line[i] # Semicolon
      <4>1. \A i \in a + 1 .. c - 1 : i \in 1 .. c - 1
        BY <1>1
      <4> QED  BY <4>1, NoSemicolon
    <3>4. IsPart(Uncomment(v), line, a, c - 1)
      BY <1>1, <1>2, <1>4, <3>1, <3>2, <3>3, UncommentPart
    <3>5. \A i \in z + 1 .. c - 1 : line[i] \in White
      BY DEF ListAt
    <3> QED  BY <3>1, <3>4, <3>5
  <2> QED  BY <2>1, <2>2
<1>6. PICK m \in z .. w : /\ IsPart(Uncomment(v), line, a, m) /\ m \in Nat
                         /\ \A i \in z + 1 .. m : line[i] \in White
  BY <1>5
<1>7. a \in a .. m /\ z \in a .. m
  BY <1>1, <1>6
<1>8. \A i \in a .. a - 1 : line[i] \in White
  <2>1. \A i \in a .. a - 1 : FALSE
    BY <1>1
  <2> QED  BY <2>1
<1>9. line[a] \notin White /\ line[z] \notin White
  BY DEF ListAt
<1>10. IsPart(Strip(Uncomment(v)), line, a, z)
  BY <1>1, <1>6, <1>7, <1>8, <1>9, StripPart
<1> QED  BY <1>10 DEF v

LEMMA Words ==
  /\ "IGNORE_SRC_OPERS" \in Word /\ "[" \in Word /\ "global" \in Word /\ "]" \in Word
BY DEF Word

LEMMA OneWord ==
  ASSUME NEW w \in Word, NEW v \in Text, Len(v) = 1, v[1] = w
  PROVE  v = <<w>>
<1> DEFINE one == <<w>>
<1>1. one \in Text /\ Len(one) = 1 /\ one[1] = w
  BY DEF Text
<1> HIDE DEF one
<1>2. v = one
  BY <1>1, SeqEqual DEF Text
<1> QED  BY <1>2 DEF one

\* The line of the list stores the list as it is written.
LEMMA ListPiece ==
  ASSUME NEW s, Rec(s), s.section = <<"global">>, Key \notin DOMAIN s.values,
         NEW line, NEW e, NEW a, NEW z, NEW c, ListAt(line, e, a, z, c),
         line[1] = "IGNORE_SRC_OPERS"
  PROVE  LET t == ParsePiece(s, line)
         IN  Rec(t) /\ Key \in DOMAIN t.values /\ IsPart(t.values[Key], line, a, z)
<1> DEFINE text == Strip(line)
           equals == {i \in DOMAIN Uncomment(text) : text[i] = "="}
           name == Strip(Before(text, Min(equals)))
           value == Strip(Uncomment(Strip(After(text, Min(equals)))))
           h == ValueHandler(s, name, value)
           t == ParsePiece(s, line)
<1>1. PICK w \in z .. Len(line) :
        IsPart(text, line, 1, w) /\ line[w] \notin White /\ (w = z \/ c <= w)
  BY TextOf
<1>2. text # <<>> /\ text[1] = "IGNORE_SRC_OPERS"
  <2>1. 1 \in 1 .. w /\ 1 - 1 + 1 = 1 /\ w - 1 + 1 # 0
    BY Places, <1>1
  <2>2. text[1] = line[1] /\ Len(text) # 0
    BY <1>1, <2>1 DEF IsPart
  <2> HIDE DEF text
  <2> QED  BY <2>2
<1>3. equals # {} /\ Min(equals) = e
  <2> DEFINE signs == {i \in DOMAIN Uncomment(text) : text[i] = Equals}
  <2>1. equals = signs
    BY DEF Equals
  <2> HIDE DEF text, equals
  <2>2. signs # {} /\ Min(signs) = e
    BY <1>1, EqualsAt
  <2> HIDE DEF signs
  <2> QED  BY <2>1, <2>2
<1>4. name = <<"IGNORE_SRC_OPERS">>
  <2>1. IsPart(name, line, 1, 1)
    <3> HIDE DEF text, equals
    <3> QED  BY <1>1, <1>3, ListName
  <2> HIDE DEF name
  <2>2. name \in Text /\ Len(name) = 1 /\ name[1] = line[1]
    <3>1. 1 \in 1 .. 1 /\ 1 - 1 + 1 = 1
      OBVIOUS
    <3> QED  BY <2>1, <3>1 DEF IsPart
  <2> QED  BY <2>2, Words, OneWord
<1>5. IsPart(value, line, a, z)
  <2> HIDE DEF text, equals
  <2> QED  BY <1>1, <1>3, ListValue
<1>6. Stored(s, h, name, value)
  BY HandlerFacts
<1>7. line[1] \notin White
  BY DEF ListAt
<1>8. t = [h EXCEPT !.prev_name = name]
  <2> HIDE DEF name, value, equals, h
  <2> QED  BY <1>2, <1>3, <1>7 DEF ParsePiece, h, name, value, equals
<1> HIDE DEF h, name, value, t
<1>9. t = [section |-> h.section, prev_name |-> name, values |-> h.values, error |-> h.error]
  BY <1>6, <1>8 DEF Rec, Stored
<1>10. Key \in DOMAIN h.values /\ h.values[Key] = value
  <2>1. Key = <<s.section, name>>
    BY <1>4 DEF Key
  <2> QED  BY <1>6, <2>1 DEF Stored
<1>11. Rec(t) /\ t.values = h.values
  BY <1>9 DEF Rec
<1> QED  BY <1>5, <1>10, <1>11 DEF t

LEMMA UncommentKeeps ==
  ASSUME NEW s \in Text, NEW m \in 0 .. Len(s), \A i \in 2 .. m : s[i] # Semicolon
  PROVE  \A i \in 1 .. m : i \in DOMAIN Uncomment(s) /\ Uncomment(s)[i] = s[i]
<1> DEFINE starts == {i \in 2 .. Len(s) : s[i] = Semicolon /\ s[i - 1] \in White}
           u == Uncomment(s)
<1>1. Len(s) \in Nat /\ DOMAIN s = 1 .. Len(s)
  BY LenProperties DEF Text
<1>2. u = IF starts = {} THEN s ELSE SubSeq(s, 1, Min(starts) - 1)
  BY DEF Uncomment, Before, Semicolon
<1>3. \A i \in 1 .. m : i \in 1 .. Len(s)
  BY <1>1
<1>4. CASE starts = {}
  <2> HIDE DEF u, starts
  <2> QED  BY <1>1, <1>2, <1>3, <1>4 DEF u
<1>5. CASE starts # {}
  <2>1. starts \in SUBSET (2 .. Len(s)) /\ \A i \in 2 .. m : i \notin starts
    OBVIOUS
  <2> HIDE DEF u, starts
  <2>2. starts \in SUBSET (1 .. Len(s))
    <3>1. \A i \in 2 .. Len(s) : i \in 1 .. Len(s)
      BY <1>1
    <3> QED  BY <2>1, <3>1
  <2> DEFINE k == Min(starts)
  <2>3. k \in starts
    BY <1>1, <1>5, <2>2, MinFacts
  <2>4. k \in 2 .. Len(s) /\ k \notin 2 .. m
    BY <2>1, <2>3
  <2> HIDE DEF k
  <2>5. k - 1 \in 0 .. Len(s) /\ \A i \in 1 .. m : i \in 1 .. k - 1
    BY <1>1, <2>4
  <2>6. u \in Text /\ Len(u) = k - 1 /\ \A i \in 1 .. k - 1 : u[i] = s[i]
    BY <1>2, <1>5, <2>5, Prefix DEF k
  <2>7. DOMAIN u = 1 .. k - 1
    BY <2>6, LenProperties DEF Text
  <2> QED  BY <2>5, <2>6, <2>7 DEF u
<1> QED  BY <1>4, <1>5

\* The line of the section.
LEMMA HeaderPiece ==
  ASSUME NEW s, Rec(s), NEW line \in Text, Starts(line, <<"[", "global", "]">>)
  PROVE  LET t == ParsePiece(s, line)
         IN  Rec(t) /\ SameList(s, t) /\ t.section = <<"global">>
<1> DEFINE text == Strip(line)
           sec == SubSeq(text, 2, Min({i \in DOMAIN text : text[i] = "]"}) - 1)
           t == ParsePiece(s, line)
<1>1. Len(line) >= 3 /\ line[1] = "[" /\ line[2] = "global" /\ line[3] = "]"
  BY StartsThree, Words
<1>2. line # <<>> /\ line[1] \notin White
  BY <1>1 DEF White
<1>3. PICK w \in 1 .. Len(line) :
        text = SubSeq(line, 1, w) /\ \A i \in w + 1 .. Len(line) : line[i] \in White
  BY <1>2, StripInk
<1>4. line[3] \notin White
  BY <1>1 DEF White
<1>5. w \in 3 .. Len(line) /\ w \in 0 .. Len(line)
  <2>1. Len(line) \in Nat
    BY LenProperties DEF Text
  <2>2. 3 \notin w + 1 .. Len(line)
    BY <1>3, <1>4
  <2>3. Len(line) >= 3 /\ w \in 1 .. Len(line)
    BY <1>1
  <2> HIDE DEF text
  <2> QED  BY <2>1, <2>2, <2>3
<1>6. text \in Text /\ Len(text) = w /\ \A i \in 1 .. w : text[i] = line[i]
  BY <1>3, <1>5, Prefix
<1>7. 1 \in 1 .. w /\ 2 \in 1 .. w /\ 3 \in 1 .. w
  BY <1>5
<1>8. text[1] = "[" /\ text[2] = "global" /\ text[3] = "]" /\ text # <<>>
  BY <1>1, <1>6, <1>7
<1> HIDE DEF text
<1>9. "]" \in ToSet(Uncomment(text))
  <2>1. 3 \in 0 .. Len(text) /\ 3 \in 1 .. 3
    BY <1>5, <1>6
  <2>2. \A i \in 2 .. 3 : text[i] # Semicolon
    <3>1. \A i \in 2 .. 3 : i = 2 \/ i = 3
      OBVIOUS
    <3>2. text[2] # Semicolon /\ text[3] # Semicolon
      BY <1>8 DEF Semicolon
    <3> QED  BY <3>1, <3>2
  <2>3. 3 \in DOMAIN Uncomment(text) /\ Uncomment(text)[3] = text[3]
    BY <1>6, <2>1, <2>2, UncommentKeeps
  <2> QED  BY <1>8, <2>3 DEF ToSet
<1>10. t = [s EXCEPT !.section = sec, !.prev_name = <<>>]
  <2> HIDE DEF sec
  <2>1. ~(text = <<>> \/ text[1] \in {";", "#"})
    BY <1>8
  <2> QED  BY <1>2, <1>8, <1>9, <2>1 DEF ParsePiece, text, sec
<1>11. sec = <<"global">>
  <2> DEFINE S == {i \in DOMAIN text : text[i] = "]"}
  <2>1. DOMAIN text = 1 .. w /\ w \in Nat
    BY <1>6, <1>5, LenProperties DEF Text
  <2>2. 3 \in S /\ 1 \notin S /\ 2 \notin S
    BY <1>7, <1>8, <2>1
  <2>3. S \in SUBSET (1 .. w)
    BY <2>1
  <2> HIDE DEF S
  <2>4. S \in SUBSET (2 .. w) /\ \A i \in 2 .. 3 - 1 : i \notin S
    <3>1. /\ \A i \in 1 .. w : i = 1 \/ i \in 2 .. w
          /\ \A i \in 2 .. 3 - 1 : i = 2
      BY <2>1
    <3> QED  BY <2>2, <2>3, <3>1
  <2>5. Min(S) = 3
    BY <2>1, <2>2, <2>4, FirstIs
  <2>6. sec = SubSeq(text, 2, 2)
    <3>1. 3 - 1 = 2
      OBVIOUS
    <3> QED  BY <2>5, <3>1 DEF S
  <2>7. 2 \in 1 .. Len(text) + 1 /\ 2 \in 2 - 1 .. Len(text) /\ 2 - 2 + 1 = 1 /\ 2 + 1 - 1 = 2
    BY <1>5, <1>6
  <2>8. /\ SubSeq(text, 2, 2) \in Text /\ Len(SubSeq(text, 2, 2)) = 1
        /\ SubSeq(text, 2, 2)[1] = text[2]
    BY <1>6, <2>7, Sub
  <2> HIDE DEF sec
  <2> QED  BY <1>8, <2>6, <2>8, Words, OneWord
<1> HIDE DEF t, sec
<1>12. t = [section |-> sec, prev_name |-> <<>>, values |-> s.values, error |-> s.error]
  BY <1>10 DEF Rec
<1> QED  BY <1>11, <1>12 DEF Rec, SameList, t

-------------------------------------------------------------------------------
(* Line by line *)

Inis == Seq(Text)

\* f says what the first m lines parse to.
Parses(f, ini, m) ==
  f = [n \in 0 .. m |-> IF n = 0 THEN Empty ELSE ParseLine(f[n - 1], ini[n])]

\* There is such a function: of the least m without one, m - 1 has one.
LEMMA ParsesExists ==
  ASSUME NEW ini, NEW m \in Nat
  PROVE  \E f : Parses(f, ini, m)
<1> DEFINE bad == {k \in Nat : ~\E f : Parses(f, ini, k)}
<1> SUFFICES ASSUME bad # {} PROVE FALSE
  OBVIOUS
<1>1. bad \in SUBSET Nat
  OBVIOUS
<1>2. PICK k \in bad : \A j \in bad : k <= j
  <2> HIDE DEF bad
  <2> QED  BY <1>1, LeastOf
<1>3. k \in Nat /\ ~\E f : Parses(f, ini, k)
  OBVIOUS
<1>4. k # 0
  <2> DEFINE f == [n \in 0 .. 0 |-> Empty]
  <2>1. Parses(f, ini, 0)
    BY DEF Parses
  <2> QED  BY <1>3, <2>1
<1>5. k - 1 \in Nat /\ ~(k <= k - 1)
  BY <1>3, <1>4
<1>6. k - 1 \notin bad
  <2> HIDE DEF bad
  <2> QED  BY <1>2, <1>5
<1>7. PICK f : Parses(f, ini, k - 1)
  BY <1>5, <1>6
<1> DEFINE g == [n \in 0 .. k |-> IF n = k THEN ParseLine(f[k - 1], ini[k]) ELSE f[n]]
<1>8. \A n \in 0 .. k - 1 : f[n] = IF n = 0 THEN Empty ELSE ParseLine(f[n - 1], ini[n])
  BY <1>7 DEF Parses
<1>9. \A n \in 0 .. k : g[n] = IF n = 0 THEN Empty ELSE ParseLine(g[n - 1], ini[n])
  <2> SUFFICES ASSUME NEW n \in 0 .. k
               PROVE  g[n] = IF n = 0 THEN Empty ELSE ParseLine(g[n - 1], ini[n])
    OBVIOUS
  <2>1. CASE n = k
    <3>1. g[n] = ParseLine(f[k - 1], ini[k]) /\ g[k - 1] = f[k - 1]
      BY <1>3, <1>5, <2>1
    <3> QED  BY <1>4, <2>1, <3>1
  <2>2. CASE n # k
    <3>1. n \in 0 .. k - 1 /\ (n = 0 \/ (n - 1 \in 0 .. k /\ n - 1 # k))
      BY <1>3, <2>2
    <3>2. g[n] = f[n] /\ (n = 0 \/ g[n - 1] = f[n - 1])
      BY <2>2, <3>1
    <3> HIDE DEF g
    <3> QED  BY <1>8, <3>1, <3>2
  <2> QED  BY <2>1, <2>2
<1>10. Parses(g, ini, k)
  <2>1. g = [n \in 0 .. k |-> g[n]]
    OBVIOUS
  <2> HIDE DEF g
  <2> QED  BY <1>9, <2>1 DEF Parses
<1> QED  BY <1>3, <1>10

LEMMA IniParseIs ==
  ASSUME NEW ini \in Inis
  PROVE  \E f : Parses(f, ini, Len(ini)) /\ IniParse(ini) = f[Len(ini)]
<1> DEFINE parsed == CHOOSE f : Parses(f, ini, Len(ini))
<1>1. Len(ini) \in Nat
  BY LenProperties DEF Inis
<1>2. Parses(parsed, ini, Len(ini))
  BY <1>1, ParsesExists
<1>3. IniParse(ini) = parsed[Len(ini)]
  BY DEF IniParse, Parses
<1> QED  BY <1>2, <1>3

LEMMA ListsAt ==
  ASSUME NEW line \in Text, line[1] = "IGNORE_SRC_OPERS",
         NEW a \in 1 .. Len(line), NEW z \in 1 .. Len(line), a <= z, Lists(line, a, z)
  PROVE  \E e, c : ListAt(line, e, a, z, c)
<1> DEFINE Space == " "
<1>1. PICK e \in 2 .. a - 1 :
        line[e] = Equals /\ \A i \in 2 .. a - 1 : i = e \/ line[i] \in White
  BY DEF Lists, Equals
<1>2. (z - a) % 2 = 0
  BY DEF Lists
<1>3. \A i \in a .. z : IF (i - a) % 2 = 0 THEN line[i] \notin White \union {Semicolon}
                       ELSE line[i] = Space
  BY DEF Lists, Semicolon
<1>4. PICK c \in z + 1 .. Len(line) + 1 :
        /\ \A i \in z + 1 .. c - 1 : line[i] \in White
        /\ c <= Len(line) => line[c] = Semicolon /\ c > z + 1
  BY DEF Lists, Semicolon
<1>5. line[1] \notin White /\ line[1] # Semicolon /\ line[1] # Equals
  BY DEF White, Semicolon, Equals
<1>6. Space # Semicolon
  BY DEF Semicolon
<1> HIDE DEF Space
<1>7. Len(line) \in Nat
  BY LenProperties DEF Text
<1>8. a \in Int /\ z \in Int /\ e \in Int /\ c \in Int
  BY <1>7
<1>9. /\ a \in a .. z /\ z \in a .. z /\ (a - a) % 2 = 0
      /\ a \in 3 .. z /\ z \in a .. Len(line)
      /\ c > z + 1 => c - 1 \in z + 1 .. c - 1
  <2>1. a >= 3 /\ z <= Len(line) /\ a <= z
    BY <1>7
  <2> QED  BY <1>8, <2>1
<1>10. line[a] \notin White /\ line[z] \notin White
  BY <1>2, <1>3, <1>9
<1>11. \A i \in a .. z : line[i] # Semicolon
  BY <1>3, <1>6
<1> QED  BY <1>1, <1>4, <1>5, <1>9, <1>10, <1>11 DEF ListAt

\* What OneList says of a file's lines, one by one.
Only(ini, k, j) ==
  /\ \A n \in 1 .. Len(ini) : Plain(ini[n]) /\ ini[n] \in Text /\ Len(ini[n]) <= MaxLine
  /\ \A n \in 1 .. Len(ini) : n # k => ini[n] = <<>> \/ ini[n][1] # "IGNORE_SRC_OPERS"
  /\ ini[k] # <<>> /\ ini[k][1] = "IGNORE_SRC_OPERS"
  /\ ini[j] # <<>> /\ Starts(ini[j], <<"[", "global", "]">>)
  /\ \A n \in j + 1 .. k - 1 : ini[n] = <<>> \/ ini[n][1] # "["

LEMMA OneListFacts ==
  ASSUME NEW ini \in Inis, NEW k \in 1 .. Len(ini), OneList(ini, k)
  PROVE  \E j \in 1 .. k - 1 : Only(ini, k, j)
<1>1. Len(ini) \in Nat /\ DOMAIN ini = 1 .. Len(ini)
  BY LenProperties DEF Inis
<1>2. \A n \in 1 .. Len(ini) : ini[n] \in Text
  BY <1>1, ElementOfSeq DEF Inis
<1>3. PICK j \in 1 .. k - 1 :
        /\ Starts(ini[j], <<"[", "global", "]">>)
        /\ \A m \in j + 1 .. k - 1 : ~Starts(ini[m], <<"[">>)
  BY DEF OneList
<1>4. /\ j \in 1 .. Len(ini)
      /\ \A m \in j + 1 .. k - 1 : m \in 1 .. Len(ini)
  BY <1>1
<1>5. ini[j] # <<>>
  <2>1. Len(ini[j]) >= 3
    BY <1>2, <1>3, <1>4, StartsThree, Words
  <2>2. Len(<<>>) = 0
    OBVIOUS
  <2> QED  BY <2>1, <2>2
<1>6. \A n \in 1 .. Len(ini) :
        Starts(ini[n], <<"IGNORE_SRC_OPERS">>) <=> ini[n] # <<>> /\ ini[n][1] = "IGNORE_SRC_OPERS"
  BY <1>2, StartsIs, Words
<1>7. \A n \in 1 .. Len(ini) : Starts(ini[n], <<"[">>) <=> ini[n] # <<>> /\ ini[n][1] = "["
  BY <1>2, StartsIs, Words
<1>8. /\ \A n \in 1 .. Len(ini) : Plain(ini[n])
      /\ \A n \in 1 .. Len(ini) : Starts(ini[n], <<"IGNORE_SRC_OPERS">>) <=> n = k
  BY <1>1 DEF OneList
<1>9. \A n \in 1 .. Len(ini) : Len(ini[n]) <= MaxLine
  BY <1>8 DEF Plain
<1> HIDE DEF OneList
<1>10. ini[k] # <<>> /\ ini[k][1] = "IGNORE_SRC_OPERS"
  BY <1>6, <1>8
<1>11. \A n \in 1 .. Len(ini) : n # k => ini[n] = <<>> \/ ini[n][1] # "IGNORE_SRC_OPERS"
  BY <1>6, <1>8
<1>12. \A n \in j + 1 .. k - 1 : ini[n] = <<>> \/ ini[n][1] # "["
  BY <1>3, <1>4, <1>7
<1>13. Only(ini, k, j)
  BY <1>2, <1>3, <1>5, <1>8, <1>9, <1>10, <1>11, <1>12 DEF Only
<1> QED  BY <1>13

\* Behind line n: the section, and the list if its line k has been read.
SoFar(s, n, k, j, line, a, z) ==
  /\ Rec(s)
  /\ n \in j .. k - 1 => s.section = <<"global">>
  /\ n < k => Key \notin DOMAIN s.values
  /\ n >= k => Key \in DOMAIN s.values /\ IsPart(s.values[Key], line, a, z)

LEMMA NextLine ==
  ASSUME NEW ini \in Inis, NEW k \in 1 .. Len(ini), NEW j \in 1 .. k - 1, Only(ini, k, j),
         NEW e, NEW a, NEW z, NEW c, ListAt(ini[k], e, a, z, c),
         NEW n \in 1 .. Len(ini), NEW s, SoFar(s, n - 1, k, j, ini[k], a, z)
  PROVE  SoFar(ParseLine(s, ini[n]), n, k, j, ini[k], a, z)
<1> DEFINE line == ini[n]
           t == ParseLine(s, ini[n])
<1>1. /\ line \in Text /\ Plain(line) /\ Len(line) <= MaxLine
      /\ n # k => line = <<>> \/ line[1] # "IGNORE_SRC_OPERS"
      /\ n \in j + 1 .. k - 1 => line = <<>> \/ line[1] # "["
  BY DEF Only
<1>2. t = IF line = <<>> THEN s ELSE ParsePiece(s, line)
  BY <1>1, PlainLine
<1>3. /\ Len(ini) \in Nat /\ j \in Nat /\ k \in Nat /\ n \in Nat /\ j < k
      /\ n < k => n - 1 < k
      /\ n > k => n - 1 >= k
      /\ n = k => n - 1 < k /\ n - 1 \in j .. k - 1
      /\ n \in j .. k - 1 /\ n # j => n - 1 \in j .. k - 1 /\ n \in j + 1 .. k - 1
  <2>1. Len(ini) \in Nat
    BY LenProperties DEF Inis
  <2>2. j \in Nat /\ k \in Nat /\ n \in Nat /\ j < k
    BY <2>1
  <2> QED  BY <2>1, <2>2
<1> HIDE DEF t, line
<1>4. Rec(s)
  BY DEF SoFar
<1>5. CASE n = k
  <2>1. line = ini[k] /\ line # <<>> /\ line[1] = "IGNORE_SRC_OPERS"
    BY <1>5 DEF line, Only
  <2>2. s.section = <<"global">> /\ Key \notin DOMAIN s.values
    BY <1>3, <1>5 DEF SoFar
  <2>3. ListAt(line, e, a, z, c)
    BY <2>1
  <2>4. Rec(t) /\ Key \in DOMAIN t.values /\ IsPart(t.values[Key], line, a, z)
    BY <1>2, <1>4, <2>1, <2>2, <2>3, ListPiece
  <2>5. ~(n < k) /\ n \notin j .. k - 1
    BY <1>3, <1>5
  <2> QED  BY <2>1, <2>4, <2>5 DEF SoFar, t
<1>6. CASE n # k /\ line = <<>>
  <2>1. n # j
    BY <1>6 DEF Only, line
  <2>2. t = s
    BY <1>2, <1>6
  <2>3. n < k \/ n > k
    BY <1>3, <1>6
  <2>4. n >= k => n > k
    BY <1>3, <1>6
  <2> QED  BY <1>3, <2>1, <2>2, <2>3, <2>4 DEF SoFar, t
<1>7. CASE n # k /\ line # <<>>
  <2>1. Rec(t) /\ SameList(s, t) /\ (n # j /\ line[1] # "[" => t.section = s.section)
    BY <1>1, <1>2, <1>4, <1>7, OtherPiece
  <2>2. n = j => t.section = <<"global">>
    BY <1>1, <1>2, <1>4, <1>7, HeaderPiece DEF Only, line
  <2>3. n \in j .. k - 1 => t.section = <<"global">>
    <3>1. CASE n = j
      BY <2>2, <3>1
    <3>2. ASSUME n \in j .. k - 1, n # j PROVE t.section = <<"global">>
      <4>1. n - 1 \in j .. k - 1 /\ n \in j + 1 .. k - 1
        BY <1>3, <3>2
      <4>2. s.section = <<"global">>
        BY <4>1 DEF SoFar
      <4> QED  BY <1>1, <1>7, <2>1, <3>2, <4>1, <4>2
    <3> QED  BY <3>1, <3>2
  <2>4. n < k => Key \notin DOMAIN t.values
    BY <1>3, <2>1 DEF SoFar, SameList
  <2>5. n >= k => Key \in DOMAIN t.values /\ IsPart(t.values[Key], ini[k], a, z)
    <3>1. n >= k => n - 1 >= k
      BY <1>3, <1>7
    <3> QED  BY <2>1, <3>1 DEF SoFar, SameList
  <2> QED  BY <2>1, <2>3, <2>4, <2>5 DEF SoFar, t
<1> QED  BY <1>5, <1>6, <1>7

\* Behind the last line the list has its value.
LEMMA ListParsed ==
  ASSUME NEW ini \in Inis, NEW k \in 1 .. Len(ini), NEW j \in 1 .. k - 1, Only(ini, k, j),
         NEW e, NEW a, NEW z, NEW c, ListAt(ini[k], e, a, z, c)
  PROVE  LET values == IniParse(ini).values
         IN  Key \in DOMAIN values /\ IsPart(values[Key], ini[k], a, z)
<1>1. PICK f : Parses(f, ini, Len(ini)) /\ IniParse(ini) = f[Len(ini)]
  BY IniParseIs
<1> DEFINE Good(n) == SoFar(f[n], n, k, j, ini[k], a, z)
           bad == {n \in 0 .. Len(ini) : ~Good(n)}
<1>2. Len(ini) \in Nat /\ k <= Len(ini) /\ 1 <= j /\ j < k
  BY LenProperties DEF Inis
<1>3. f[0] = Empty /\ \A n \in 1 .. Len(ini) : f[n] = ParseLine(f[n - 1], ini[n])
  <2>1. \A n \in 0 .. Len(ini) : f[n] = IF n = 0 THEN Empty ELSE ParseLine(f[n - 1], ini[n])
    BY <1>1 DEF Parses
  <2>2. 0 \in 0 .. Len(ini) /\ \A n \in 1 .. Len(ini) : n \in 0 .. Len(ini) /\ n # 0
    BY <1>2
  <2> QED  BY <2>1, <2>2
<1>4. Good(0)
  <2>1. 0 \notin j .. k - 1 /\ 0 < k /\ ~(0 >= k)
    BY <1>2
  <2>2. Rec(Empty) /\ Key \notin DOMAIN Empty.values
    BY DEF Rec, Empty
  <2> QED  BY <1>3, <2>1, <2>2 DEF SoFar
<1>5. bad = {}
  <2> SUFFICES ASSUME bad # {} PROVE FALSE
    OBVIOUS
  <2>1. bad \in SUBSET Nat
    BY <1>2
  <2>2. PICK n \in bad : \A i \in bad : n <= i
    <3> HIDE DEF bad
    <3> QED  BY <2>1, LeastOf
  <2>3. n \in 0 .. Len(ini) /\ ~Good(n) /\ n # 0
    BY <1>4
  <2>4. n \in 1 .. Len(ini) /\ n - 1 \in 0 .. Len(ini) /\ ~(n <= n - 1)
    BY <1>2, <2>3
  <2>5. Good(n - 1)
    <3>1. n - 1 \notin bad
      <4> HIDE DEF bad
      <4> QED  BY <2>2, <2>4
    <3> QED  BY <2>4, <3>1
  <2>6. Good(n)
    BY <1>3, <2>4, <2>5, NextLine
  <2> QED  BY <2>3, <2>6
<1>6. Good(Len(ini)) /\ Len(ini) >= k
  <2>1. Len(ini) \in 0 .. Len(ini)
    BY <1>2
  <2> HIDE DEF Good
  <2> QED  BY <1>2, <1>5, <2>1
<1> QED  BY <1>1, <1>6 DEF SoFar

-------------------------------------------------------------------------------
(* The list's names *)

LEMMA StripWord ==
  ASSUME NEW v \in Text, Len(v) = 1, v[1] \notin White
  PROVE  Strip(v) = <<v[1]>>
<1>1. IsPart(v, v, 1, 1)
  <2>1. \A i \in 1 .. 1 : i - 1 + 1 = i
    OBVIOUS
  <2> QED  BY <2>1 DEF IsPart
<1>2. 1 \in 1 .. Len(v) /\ 1 \in 1 .. 1
  OBVIOUS
<1>3. \A i \in 1 .. 1 - 1 : v[i] \in White
  <2>1. \A i \in 1 .. 1 - 1 : FALSE
    OBVIOUS
  <2> QED  BY <2>1
<1>4. \A i \in 1 + 1 .. Len(v) : v[i] \in White
  <2>1. \A i \in 1 + 1 .. Len(v) : FALSE
    OBVIOUS
  <2> QED  BY <2>1
<1>5. Strip(v) = SubSeq(v, 1, 1)
  BY <1>2, <1>3, <1>4, StripIs
<1>6. Strip(v) = v
  BY <1>5, SubSeqFull DEF Text
<1>7. v[1] \in Word
  BY <1>2, ElementOfSeq DEF Text
<1>8. v = <<v[1]>>
  BY <1>7, OneWord
<1> QED  BY <1>6, <1>8

\* Every other token is a name, the others are spaces.
Alternates(v) ==
  /\ v \in Text /\ Len(v) % 2 = 1
  /\ \A i \in 1 .. Len(v) : IF i % 2 = 1 THEN v[i] \notin White ELSE v[i] = " "

\* The words at its odd places, and the names that Lists puts into a line.
Odd(v) == {<<v[i]>> : i \in {i \in 1 .. Len(v) : i % 2 = 1}}
Named(line, a, z) == {<<line[i]>> : i \in {i \in a .. z : line[i] # " "}}

LEMMA SplitAt ==
  ASSUME NEW v, Alternates(v), NEW i \in 1 .. Len(v), i % 2 = 1
  PROVE  Strip(SubSeq(v, i - 1 + 1, i + 1 - 1)) = <<v[i]>>
<1>1. Len(v) \in Nat /\ v \in Text /\ v[i] \notin White
  BY LenProperties DEF Alternates, Text
<1>2. /\ i - 1 + 1 = i /\ i + 1 - 1 = i /\ i - i + 1 = 1 /\ i + 1 - 1 = i
      /\ i \in 1 .. Len(v) + 1 /\ i \in i - 1 .. Len(v) /\ 1 \in 1 .. i - i + 1
  BY <1>1
<1>3. SubSeq(v, i, i) \in Text /\ Len(SubSeq(v, i, i)) = 1 /\ SubSeq(v, i, i)[1] = v[i]
  BY <1>1, <1>2, Sub
<1> DEFINE w == SubSeq(v, i, i)
<1>4. Strip(w) = <<w[1]>>
  <2> HIDE DEF w
  <2> QED  BY <1>1, <1>3, StripWord DEF w
<1> QED  BY <1>2, <1>3, <1>4

LEMMA Parity ==
  ASSUME NEW n \in Nat
  PROVE  \A i \in 1 .. n : i % 2 = 0 <=> i % 2 # 1
OBVIOUS

LEMMA Split ==
  ASSUME NEW v, Alternates(v)
  PROVE  SetIGNORE_SRC_OPERS(v) = Odd(v)
<1> DEFINE ends == {0, Len(v) + 1} \union {i \in DOMAIN v : v[i] = " "}
           cuts == {c \in ends \X ends : c[1] < c[2] /\ \A i \in ends : i <= c[1] \/ c[2] <= i}
           Piece(c) == Strip(SubSeq(v, c[1] + 1, c[2] - 1))
           odd == {i \in 1 .. Len(v) : i % 2 = 1}
<1>1. SetIGNORE_SRC_OPERS(v) = {Piece(c) : c \in cuts}
  BY DEF SetIGNORE_SRC_OPERS
<1>2. Len(v) \in Nat /\ DOMAIN v = 1 .. Len(v) /\ Len(v) % 2 = 1
  BY LenProperties DEF Alternates, Text
<1>3. \A i \in 1 .. Len(v) : v[i] = " " <=> i % 2 = 0
  <2>1. \A i \in 1 .. Len(v) : i % 2 = 0 <=> i % 2 # 1
    BY <1>2, Parity
  <2>2. " " \in White
    BY DEF White
  <2> QED  BY <2>1, <2>2 DEF Alternates
<1>4. ends = {i \in 0 .. Len(v) + 1 : i % 2 = 0}
  <2> DEFINE spaces == {i \in DOMAIN v : v[i] = " "}
  <2>1. spaces = {i \in 1 .. Len(v) : i % 2 = 0}
    BY <1>2, <1>3
  <2> HIDE DEF spaces
  <2>2. {0, Len(v) + 1} \union spaces = {i \in 0 .. Len(v) + 1 : i % 2 = 0}
    BY <1>2, <2>1
  <2> QED  BY <2>2 DEF spaces
<1> HIDE DEF ends
<1>5. ASSUME NEW c \in cuts PROVE c[1] + 1 \in odd /\ c[2] = c[1] + 2
  <2>1. /\ c[1] \in ends /\ c[2] \in ends /\ c[1] < c[2]
        /\ \A i \in ends : i <= c[1] \/ c[2] <= i
    OBVIOUS
  <2> DEFINE x == c[1]
             y == c[2]
  <2>2. x \in ends /\ y \in ends /\ x < y /\ \A i \in ends : i <= x \/ y <= i
    BY <2>1
  <2> HIDE DEF x, y
  <2>3. x \in Nat /\ y \in Nat /\ x % 2 = 0 /\ y % 2 = 0 /\ y <= Len(v) + 1
    BY <1>2, <1>4, <2>2
  <2>4. x + 2 <= y /\ (x + 2) % 2 = 0
    BY <2>2, <2>3
  <2>5. x + 2 \in ends
    BY <1>2, <1>4, <2>3, <2>4
  <2>6. y = x + 2
    BY <2>2, <2>3, <2>4, <2>5
  <2>7. x + 1 \in odd
    BY <1>2, <2>3, <2>6
  <2> QED  BY <2>6, <2>7 DEF x, y
<1>6. ASSUME NEW i \in odd PROVE <<i - 1, i + 1>> \in cuts
  <2>1. i \in 1 .. Len(v) /\ i % 2 = 1
    OBVIOUS
  <2>2. i - 1 \in ends /\ i + 1 \in ends /\ i - 1 < i + 1
    BY <1>2, <1>4, <2>1
  <2>3. \A m \in ends : m <= i - 1 \/ i + 1 <= m
    BY <1>2, <1>4, <2>1
  <2> QED  BY <2>2, <2>3
<1>7. ASSUME NEW i \in odd PROVE Piece(<<i - 1, i + 1>>) = <<v[i]>>
  BY SplitAt
<1>8. ASSUME NEW c \in cuts PROVE c = <<(c[1] + 1) - 1, (c[1] + 1) + 1>>
  <2>1. c = <<c[1], c[2]>> /\ c[1] \in ends
    OBVIOUS
  <2>2. c[1] \in Nat
    BY <1>2, <1>4, <2>1
  <2>3. c[1] = (c[1] + 1) - 1 /\ c[2] = (c[1] + 1) + 1
    BY <1>5, <2>2
  <2> QED  BY <2>1, <2>3
<1> HIDE DEF cuts, Piece, odd
<1>9. {Piece(c) : c \in cuts} = {<<v[i]>> : i \in odd}
  <2>1. ASSUME NEW c \in cuts PROVE \E i \in odd : Piece(c) = <<v[i]>>
    <3> DEFINE i == c[1] + 1
    <3>1. c[1] + 1 \in odd
      BY <1>5
    <3>2. i \in odd
      BY <3>1
    <3>3. c = <<i - 1, i + 1>>
      <4>1. c = <<(c[1] + 1) - 1, (c[1] + 1) + 1>>
        BY <1>8
      <4> QED  BY <4>1, Zenon
    <3> HIDE DEF i
    <3>4. Piece(<<i - 1, i + 1>>) = <<v[i]>>
      BY <1>7, <3>2
    <3> QED  BY <3>2, <3>3, <3>4
  <2>2. ASSUME NEW i \in odd PROVE \E c \in cuts : Piece(c) = <<v[i]>>
    BY <1>6, <1>7
  <2> QED  BY <2>1, <2>2
<1> QED  BY <1>1, <1>9 DEF odd, Odd

\* Odd positions of the value are the even distances from a.
LEMMA Distance ==
  ASSUME NEW a \in Nat, NEW z \in Nat, a <= z, (z - a) % 2 = 0
  PROVE  /\ (z - a + 1) % 2 = 1
         /\ \A i \in 1 .. z - a + 1 :
              (i % 2 = 1 <=> ((i + a - 1) - a) % 2 = 0) /\ i + a - 1 \in a .. z
         /\ \A i \in a .. z : i - a + 1 \in 1 .. z - a + 1
OBVIOUS

LEMMA ListAlternates ==
  ASSUME NEW line, NEW a \in Nat, NEW z \in Nat, a <= z, Lists(line, a, z),
         NEW v, IsPart(v, line, a, z)
  PROVE  Alternates(v) /\ Odd(v) = Named(line, a, z)
<1> DEFINE Space == " "
<1>1. (z - a) % 2 = 0
  BY DEF Lists
<1>2. \A i \in a .. z : IF (i - a) % 2 = 0 THEN line[i] \notin White ELSE line[i] = Space
  BY DEF Lists
<1>3. Space \in White
  BY DEF White
<1> HIDE DEF Space
<1>4. v \in Text /\ Len(v) = z - a + 1
  BY DEF IsPart
<1>5. \A i \in 1 .. Len(v) : i + a - 1 \in a .. z /\ v[i] = line[i + a - 1]
  BY PartAt
<1>6. /\ Len(v) % 2 = 1
      /\ \A i \in 1 .. Len(v) : i % 2 = 1 <=> ((i + a - 1) - a) % 2 = 0
      /\ \A i \in a .. z : i - a + 1 \in 1 .. Len(v)
  BY <1>1, <1>4, Distance
<1>7. \A i \in 1 .. Len(v) : IF i % 2 = 1 THEN v[i] \notin White ELSE v[i] = Space
  <2> SUFFICES ASSUME NEW i \in 1 .. Len(v)
               PROVE  IF i % 2 = 1 THEN v[i] \notin White ELSE v[i] = Space
    OBVIOUS
  <2> QED  BY <1>2, <1>5, <1>6
<1>8. Alternates(v)
  BY <1>4, <1>6, <1>7 DEF Alternates, Space
<1>9. \A i \in 1 .. Len(v) : i % 2 = 1 <=> v[i] # Space
  BY <1>3, <1>7
<1> DEFINE odd == {i \in 1 .. Len(v) : i % 2 = 1}
           named == {i \in a .. z : line[i] # Space}
<1>10. {<<v[i]>> : i \in odd} = {<<line[i]>> : i \in named}
  <2>1. ASSUME NEW i \in odd PROVE \E m \in named : v[i] = line[m]
    BY <1>5, <1>9
  <2>2. ASSUME NEW m \in named PROVE \E i \in odd : v[i] = line[m]
    <3> DEFINE i == m - a + 1
    <3>1. i \in 1 .. Len(v) /\ i + a - 1 = m
      BY <1>6
    <3>2. v[i] = line[m]
      <4> HIDE DEF i
      <4> QED  BY <1>5, <3>1
    <3>3. line[m] # Space
      OBVIOUS
    <3>4. i % 2 = 1
      <4> HIDE DEF i
      <4> QED  BY <1>9, <3>1, <3>2, <3>3
    <3>5. i \in odd
      <4> HIDE DEF i
      <4> QED  BY <3>1, <3>4
    <3> HIDE DEF i, odd
    <3> QED  BY <3>2, <3>5
  <2> HIDE DEF odd, named
  <2> QED  BY <2>1, <2>2
<1> QED  BY <1>8, <1>10 DEF Space, Odd, Named

(***************************************************************************)
(* However config.ini is written, a plain list of ignored operators comes  *)
(* to exactly its names: the comments, sections and values around it, and  *)
(* the buffer's size, make no difference.                                  *)
(***************************************************************************)
LEMMA ListConfigured ==
  ASSUME NEW ini \in Inis, NEW k \in 1 .. Len(ini), OneList(ini, k),
         NEW a \in 1 .. Len(ini[k]), NEW z \in 1 .. Len(ini[k]), a <= z, Lists(ini[k], a, z)
  PROVE  Configured(ini).ignored =
           {<<ini[k][i]>> : i \in {i \in a .. z : ini[k][i] # " "}}
<1>1. PICK j \in 1 .. k - 1 : Only(ini, k, j)
  BY OneListFacts
<1> DEFINE line == ini[k]
<1>2. line \in Text /\ line[1] = "IGNORE_SRC_OPERS"
  BY <1>1 DEF Only
<1>3. PICK e, c : ListAt(line, e, a, z, c)
  <2> HIDE DEF line
  <2> QED  BY <1>2, ListsAt DEF line
<1> DEFINE values == IniParse(ini).values
<1>4. Key \in DOMAIN values /\ IsPart(values[Key], line, a, z)
  BY <1>1, <1>3, ListParsed
<1> DEFINE v == values[Key]
<1>5. Configured(ini).ignored = SetIGNORE_SRC_OPERS(v)
  BY <1>4 DEF Configured, Get, Key
<1>6. a \in Nat /\ z \in Nat
  BY <1>3, Places
<1> HIDE DEF line, v
<1>7. IsPart(v, line, a, z)
  BY <1>4 DEF v
<1>8. Lists(line, a, z)
  BY DEF line
<1>9. Alternates(v) /\ Odd(v) = Named(line, a, z)
  BY <1>6, <1>7, <1>8, ListAlternates
<1>10. SetIGNORE_SRC_OPERS(v) = Odd(v)
  BY <1>9, Split
<1> QED  BY <1>5, <1>9, <1>10 DEF line, Named
===============================================================================
