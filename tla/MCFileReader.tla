----------------------------- MODULE MCFileReader -----------------------------
(* Values for FileReader's constants. *)
EXTENDS FileReader

Line(fields, first, oper, num, time) ==
  [fields |-> fields, first |-> first, oper |-> oper, num |-> num, time |-> time]

Header == Line(1, <<"Header">>, <<>>, "", <<>>)
Footer == Line(1, <<"Footer">>, <<>>, "", <<>>)
Blank == Line(1, <<>>, <<>>, "", <<>>)

Cdr(fields, oper, num, time) == Line(fields, <<"digits">>, oper, num, time)

\* Zero and NULL, the largest number, letters; the ends of months, no TIME.
Body ==
  { Blank,
    Cdr(Short, <<>>, "", <<8, 10, 15>>),
    Cdr(Short + 1, <<"A">>, "", <<8, 10, 15>>),
    Cdr(Full, <<"A">>, "0", <<31, 1, 16>>),
    Cdr(Full, <<"B">>, "", <<29, 2, 16>>),
    Cdr(Full, <<"C">>, "99999999999999999999", <<31, 12, 15>>),
    Cdr(Full, <<>>, "7", <<>>),
    Cdr(Full, <<"D">>, "7x", <<1, 1, 16>>) }

FramedFiles(n) == {<<Header>> \o body \o <<Footer>> : body \in BoundedSeq(Body, n)}

\* No header, no footer, a line behind the footer; a footer with more fields.
OtherFiles ==
  UNION {{body \o <<Footer>>, <<Header>> \o body, <<Header>> \o body \o <<Footer, Blank>>} :
           body \in BoundedSeq(Body, 1) \ {<<>>}} \union
  {body \o <<Line(n, <<"Footer">>, oper, "", <<>>)>> :
     body \in {<<>>, <<Header>>, <<Header, Cdr(Full, <<"B">>, "7", <<1, 1, 16>>)>>},
     n \in {2, Short + 1, Full}, oper \in {<<"A">>, <<"B">>}}

Global == <<"[", "global", "]">>
List(value) == <<"IGNORE_SRC_OPERS", "=", " ">> \o value
Words == << <<"HeaderWord", "=", " ", "Header">>, <<"FooterWord", " ", "=", "Footer">> >>

\* As config.ini is shipped, with fewer comments.
Ini ==
  << <<";", "file">>, Global \o <<" ", " ", ";", "section">> >> \o Words \o
  << <<"IGNORE_SRC_OPERS", " ", "=", " ", "A", " ", "C">>, <<>>, <<"[", "database", "]">> >>

\* None; a comment; a list that is too long, cut before and behind a space;
\* continued, named twice, double spaces; lines out of place; no footer word.
OtherInis ==
  { <<>>,
    <<Global>> \o Words,
    << <<"#", "A">>, Global, List(<<"A", " ", ";", "B">>) >>,
    <<Global>> \o Words \o <<List(<<"A", " ", "B", " ", "C">>)>>,
    <<Global>> \o Words \o <<List(<<" ", "A", " ", "B", " ", "C">>)>>,
    <<Global, List(<<"A">>), <<" ", "C">>, <<>> >> \o Words,
    <<Global, List(<<"A">>), List(<<"C">>)>>,
    <<Global, List(<<"A", " ", " ", "C">>)>>,
    << <<"[", "global">>, List(<<"A">>), Global, <<"junk">> >>,
    <<Global, <<"FooterWord", "=">>, List(<<"A", " ", "C">>)>> }

MCInputs ==
  {[file |-> f, ini |-> Ini] : f \in FramedFiles(3) \union OtherFiles} \union
  {[file |-> f, ini |-> i] : f \in FramedFiles(2), i \in OtherInis}

MCCut == <<"cut">>

Digits == {"0", "7", "99999999999999999999"}
MCNumberOf == [d \in Digits |-> IF d = "0" THEN 0 ELSE IF d = "7" THEN 7 ELSE 999]
===============================================================================
