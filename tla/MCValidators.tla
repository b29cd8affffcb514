---------------------------- MODULE MCValidators ----------------------------
(* The validators, for TLC: a behaviour is one of the schema engine, of the    *)
(* DTD validator or of text constraints.                                       *)
EXTENDS Schema, Tnc, TextConstraints

(* ------------------------------- schemas --------------------------------- *)
El(n, c, q) == [Particle("NAME", c, q) EXCEPT !.name = n]
Leaf(n) == El(n, <<>>, <<>>)
\* A schema: the content of the root, and the particles it uses.
Sch(c, q, rest) == [r |-> El("r", c, q), a |-> Leaf("a"), b |-> Leaf("b")] @@ rest
Group(c, q) == [g |-> Particle("PATTERN", c, q)]
Choice(c, q) == [h |-> Particle("CHOICE", c, q)]
Inter(c, q) == [i |-> Particle("INTERLEAVE", c, q)]
Txt == [t |-> Particle("TEXT", <<>>, <<>>)]
Mixed(c, q) == [h |-> [Particle("CHOICE", c, q) EXCEPT !.name = "mixed"]]
Good == [t |-> [Particle("TEXT", <<>>, <<>>) EXCEPT !.txt = {"good"}]]
Quants == {"!", "?", "*", "+"}
Wild == [y |-> Particle("ANY", <<>>, <<>>)]
Keyspace1 == [k |-> Particle("KEYSPACE", <<>>, <<>>), e |-> Particle("KEYSPACE_END", <<>>, <<>>)]
\* Content models for which the element read decides what it is matched with.
MCSchemas ==
  {Sch(<<"a", "b">>, <<q1, q2>>, <<>>) : q1, q2 \in Quants}
  \union {Sch(<<"g">>, <<q1>>, Group(<<"a", "b">>, <<"!", q2>>)) : q1, q2 \in Quants}
  \union {Sch(<<"h", "a">>, <<q1, "!">>, Choice(<<"b">>, <<"!">>)) : q1 \in Quants}
  \union {Sch(<<"h">>, <<q1>>, Choice(<<"g", "b">>, <<"!", "!">>) @@ Group(<<"a", "a">>, <<"!", q2>>)) :
            q1 \in {"!", "*"}, q2 \in {"!", "?"}}
  \union {Sch(<<"h", "b">>, <<q1, q2>>, Choice(<<"g">>, <<"!">>) @@ Group(<<"a">>, <<"?">>)) :
            q1 \in {"!", "*"}, q2 \in Quants}
  \union {Sch(<<"i">>, <<q1>>, Inter(<<"a", "b">>, <<q2, "!">>)) : q1 \in {"!", "?"}, q2 \in Quants}
  \union {Sch(<<"i">>, <<"!">>, Inter(<<"g", "b">>, <<q1, "!">>) @@ Group(<<"a", "a">>, <<"!", "?">>)) :
            q1 \in {"!", "?"}}
  \union {Sch(<<"h">>, <<"*">>, Mixed(<<"a", "b">>, <<"!", "!">>))}
  \union {Sch(<<"t", "a">>, <<"!", q1>>, Good) : q1 \in Quants}
  \union {Sch(<<"t", "a", "t">>, <<"?", q1, "?">>, Txt) : q1 \in Quants}
  \union {Sch(<<"k", "a", "e", "y">>, <<"!", q1, "!", "?">>, Wild @@ Keyspace1) : q1 \in {"!"}}
  \* A pattern that contains itself, elements in elements, attributes.
  \union {Sch(<<"g">>, <<q1>>, Group(<<"h">>, <<"!">>) @@ Choice(<<"b", "j">>, <<"!", "!">>)
              @@ [j |-> Particle("PATTERN", <<"a", "g">>, <<"!", "!">>)]) : q1 \in {"!", "?"}}
  \union {[Sch(<<"a", "b">>, <<q1, "!">>, <<>>) EXCEPT !.a = El("a", <<"b">>, <<q2>>)] :
            q1, q2 \in {"!", "*"}}
  \union {[Sch(<<"a">>, <<"*">>, [start |-> Leaf("r")]) EXCEPT !.a.req = {"x"}]}

(* ---------------------------- document types ----------------------------- *)
Cps(type, q, ch) == Cp(type, q, "", ch)
Nm(n, q) == Cp("NAME", q, n, <<>>)
ElDecl(n, model) == [kind |-> "ELEMENT", name |-> n, model |-> model]
Empty(n) == ElDecl(n, Cps("EMPTY", "!", <<>>))
EntDecl(n, notation) == [kind |-> "ENTITY", name |-> n, notation |-> notation]
NotDecl(n) == [kind |-> "NOTATION", name |-> n]
Dtd(decls, names) ==
  [doctype |-> "r", decls |-> decls, names |-> names, atts |-> <<>>, elements |-> 4, texts |-> 0, command |-> FALSE]
TncQuants == {"!", "?", "*", "+"}
Pair(t, q, n1, q1, n2, q2) == Cps(t, q, <<Nm(n1, q1), Nm(n2, q2)>>)
\* Without the groups that a repeated sequence may skip: a new round takes any
\* element for a match there.
NoSkippedGroup(cp) == ~(cp.type = "SEQ" /\ Repeats(cp)
                  /\ \E i \in DOMAIN cp.ch : cp.ch[i].type # "NAME" /\ MayBeEmpty(cp.ch[i]))
\* Content models of one level and of two; every name is used once in them.
Flat ==
  {Pair(t, q, "a", q1, "b", q2) : t \in {"SEQ", "CHOICE"}, q \in {"!", "+"}, q1 \in TncQuants, q2 \in TncQuants}
Nested ==
  {Cps("SEQ", q, <<Nm("c", q1), Pair(t, q2, "a", q3, "b", "!")>>) :
     q \in {"!", "*"}, q1 \in {"!", "?"}, t \in {"SEQ", "CHOICE"}, q2 \in TncQuants, q3 \in {"?", "+"}}
  \union {Cps("CHOICE", q, <<Nm("c", "*"), Pair("SEQ", q2, "a", q3, "b", q4)>>) :
     q \in {"!", "+"}, q2 \in {"?", "+"}, q3 \in {"!", "?"}, q4 \in {"!", "*"}}
  \union {Cps("SEQ", q, <<Pair(t, q2, "a", "!", "b", "!"), Nm("c", "!")>>) :
     q \in {"!", "+"}, t \in {"SEQ", "CHOICE"}, q2 \in {"?", "+"}}
Leaves == <<Empty("a"), Empty("b"), Empty("c")>>
ContentDtds ==
  {Dtd(<<ElDecl("r", cp)>> \o Leaves, {"r", "a", "b"}) : cp \in Flat}
  \union {[Dtd(<<ElDecl("r", cp)>> \o Leaves, {"r", "a", "b", "c"}) EXCEPT !.elements = 5] :
             cp \in {cp \in Nested : NoSkippedGroup(cp)}}

\* What stands beside and in elements of each kind of content.
MixedCp(ns) == Cps("MIXED", IF ns = <<>> THEN "!" ELSE "*", [i \in DOMAIN ns |-> Nm(ns[i], "!")])
TextDtd(cp, sub) ==
  [Dtd(<<ElDecl("r", cp), ElDecl("a", sub), Empty("b")>>, {"r", "a", "b"}) EXCEPT !.elements = 3, !.texts = 1]
TextDtds ==
  {[TextDtd(cp, sub) EXCEPT !.command = com, !.texts = IF com THEN 1 ELSE 2] :
     cp \in {MixedCp(<<"a", "b">>), Cps("ANY", "!", <<>>), Cps("SEQ", "*", <<Nm("a", "?"), Nm("b", "?")>>)},
     sub \in {MixedCp(<<>>), Cps("EMPTY", "!", <<>>), Cps("CHOICE", "?", <<Nm("b", "!")>>)},
     com \in BOOLEAN}

\* Every order of declarations that have to do with one another.
Att(el, att, type) ==
  [kind |-> "ATTLIST", el |-> el, att |-> att, type |-> type, dflt |-> <<>>, has |-> FALSE,
   isrequired |-> FALSE, table |-> {}]
Default(d, v) == [d EXCEPT !.dflt = v, !.has = TRUE]
Required(d) == [d EXCEPT !.isrequired = TRUE]
Table(d, names) == [d EXCEPT !.table = names]
EntityAtt == Default(Att("r", "e", "ENTITY"), <<"n">>)
Unparsed1 == EntDecl("n", "gif")
Declarations ==
  {EntityAtt, Unparsed1, EntDecl("n", ""), NotDecl("gif"), Table(Att("r", "n", "NOTATION"), {"gif"}),
   Att("r", "i", "ID"), Att("r", "j", "ID"), Required(Att("r", "i", "CDATA")), Empty("r"),
   ElDecl("a", MixedCp(<<"a", "b", "a">>)), Default(Att("r", "k", "NMTOKEN"), <<"?">>),
   Default(Att("r", "k", "IDREF"), <<"1">>), Default(Att("r", "i", "ID"), <<"n">>)}
Orders(D, n) == {q \in [1 .. n -> D] : \A i, j \in 1 .. n : q[i] = q[j] => i = j}
RootOnly(decls) == [Dtd(<<Empty("r")>> \o decls, {"r"}) EXCEPT !.elements = 1]
OrderDtds ==
  {RootOnly(q) : q \in Orders(Declarations, 3)}
  \union {RootOnly(q) : q \in Orders({EntityAtt, Unparsed1, EntDecl("n", ""), NotDecl("gif")}, 4)}

\* Every type of attribute with values of every kind.
A(n, v) == [name |-> n, value |-> v]
Values == {<<>>, <<"n">>, <<"m">>, <<"1">>, <<"?">>, <<"n", "m">>, <<"n", "?">>}
TypedAtts ==
  {Att("r", "t", ty) : ty \in {"ID", "IDREF", "IDREFS", "ENTITY", "ENTITIES", "NMTOKEN", "NMTOKENS"}}
  \union {Table(Att("r", "t", ty), {"n", "1"}) : ty \in {"NOTATION", "ENUMERATION"}}
AttDtd(d) ==
  [RootOnly(<<NotDecl("n"), NotDecl("1"), EntDecl("n", "n"), EntDecl("m", ""), d>>)
     EXCEPT !.atts = [r |-> {<<>>, <<A("u", <<"n">>)>>} \union {<<A("t", v)>> : v \in Values}], !.command = TRUE]
AttDtds ==
  {AttDtd(d) : d \in TypedAtts \union {Required(d) : d \in TypedAtts}}
  \union {AttDtd(Default(Att("r", "t", "NMTOKENS"), <<"n", "1">>)),
          AttDtd(Required(Default(Att("r", "t", "CDATA"), <<"?">>)))}

\* IDs and references to them in every order, also without a doctype declaration.
IdDtd ==
  [Dtd(<<ElDecl("r", Cps("SEQ", "*", <<Nm("a", "!")>>)), Empty("a"), Att("r", "refs", "IDREFS"),
         Required(Att("a", "id", "ID")), Att("a", "ref", "IDREF")>>, {"r", "a"})
     EXCEPT !.elements = 3, !.command = TRUE,
            !.atts = [r |-> {<<>>, <<A("refs", <<"n", "m">>)>>},
                      a |-> {<<A("id", <<i>>)>> : i \in {"n", "m"}}
                            \union {<<A("ref", <<j>>), A("id", <<i>>)>> : i \in {"n", "m"}, j \in {"n", "m"}}]]
MCDtds == ContentDtds \union TextDtds \union OrderDtds \union AttDtds \union {IdDtd, [IdDtd EXCEPT !.doctype = ""]}

(* ---------------------------- text constraints --------------------------- *)
NoArg(name) == Command(name, <<>>, <<>>)
Arg(name, type, x) == Command(name, <<<<type, x>>>>, <<>>)
Word(name, x) == Arg(name, "word", x)
Fixed(t) == Arg("fixed", "text", t)
Length(name, n) == Arg(name, "number", n)
Most(n) == Length("maxLength", n)
Block(name, sub) == Command(name, <<>>, sub)
Having(b, script) == [b EXCEPT !.sub = script]
Each(q, F(_)) == [k \in DOMAIN q |-> F(q[k])]
EachOf(q, r, F(_, _)) ==
  [n \in 1 .. Len(q) * Len(r) |-> F(q[(n - 1) \div Len(r) + 1], r[((n - 1) % Len(r)) + 1])]
\* A script whose documents have one text.
Single(script, texts) ==
  [script |-> script, texts |-> texts, json |-> {"none"}, events |-> 1, documents |-> 1,
   spaces |-> {}, tables |-> {}, legal |-> TRUE]
TextsUpTo(S, n) == UNION {[1 .. k -> S] : k \in 0 .. n}
Joined(S, T) == {s \o t : s \in S, t \in T}

Numerals ==
  Each(IntegerKinds, LAMBDA k : Single(<<NoArg(k)>>, TextsUpTo({"+", "-", "0", "1"}, 4) \cup {<<"1", "a">>}))
  \o <<Single(<<NoArg("number")>>, TextsUpTo({"+", "-", ".", "1"}, 4) \cup {<<"1", "a">>})>>
\* Numbers around the bounds of each type.
Near(max) ==
  {max, [max EXCEPT ![Len(max)] = "9"], [max EXCEPT ![Len(max)] = "8"], [max EXCEPT ![1] = "9"],
   [max EXCEPT ![2] = "0"], Tail(max), <<"1">> \o max, <<"0">> \o max, <<"0", "0">> \o Tail(max),
   max \o <<"a">>, <<>>, <<"0">>, <<"0", "0">>}
SignedNear(max) == Joined({<<>>, <<"+">>, <<"-">>}, Near(max))
Bounded ==
  [k \in 1 .. 4 |-> Single(<<NoArg(UnsignedKinds[k])>>, SignedNear(UnsignedMax[k]))]
  \o [k \in 1 .. 4 |-> Single(<<NoArg(SignedKinds[k])>>, SignedNear(SignedMax[k]))]

\* Dates, times and zones around the ends of years, months, days and hours.
N2(n) == <<Digit[n \div 10 + 1], Digit[(n % 10) + 1]>>
Years == {Four(2023), Four(2024), Four(1900), Four(2000), Four(0), <<"0">> \o Four(2024), <<"1">> \o Four(2023),
          <<"-">> \o Four(4), Tail(Four(2024)), Four(4), <<"-">>, <<"0">> \o Four(0)}
Zone(sign, h, mi) == <<sign>> \o N2(h) \o <<":">> \o N2(mi)
Zones == {<<>>, <<"Z">>, Zone("+", 14, 0), Zone("-", 14, 1), Zone("-", 13, 59), Zone("+", 13, 60), Zone("+", 15, 0),
          <<"+">> \o N2(1), <<"Z", "Z">>, <<"1">>}
DateOf(y, mo, day) == y \o <<"-">> \o mo \o <<"-">> \o day
TimeOf(h, mi, s) == N2(h) \o <<":">> \o N2(mi) \o <<":">> \o N2(s)
Days == {DateOf(y, N2(mo), N2(n)) : y \in Years, mo \in {0, 1, 2, 4, 12, 13}, n \in {0, 1, 28, 29, 30, 31, 32}}
        \cup {DateOf(Four(2024), <<"1">>, N2(1)), DateOf(Four(2024), N2(1), <<"1">>), <<>>}
Times == {TimeOf(h, mi, s) \o r : h \in {0, 23, 24, 25}, mi \in {0, 59, 60}, s \in {0, 59, 60},
            r \in {<<>>, <<".">>, <<".", "0">>, <<".", "1", "1">>}}
         \cup {N2(12) \o <<":">> \o N2(1), <<>>, N2(12)}
LeapDay == DateOf(Four(2024), N2(2), N2(29))
Noon == TimeOf(12, 0, 0)
Moments ==
  <<Single(<<NoArg("date")>>, Days \cup Joined({LeapDay}, Zones)),
    Single(<<NoArg("time")>>, Times \cup Joined({Noon}, Zones)),
    Single(<<NoArg("dateTime")>>,
           Joined({LeapDay \o <<"T">>}, Times) \cup Joined({LeapDay \o <<"T">> \o Noon}, Zones)
           \cup {LeapDay, Noon, <<"T">> \o Noon, DateOf(Four(2023), N2(2), N2(29)) \o <<"T">> \o Noon})>>
Pieces == {<<>>, <<"1", "Y">>, <<"1", "M">>, <<"T">>, <<"1", "S">>, <<"1", ".", "1", "S">>, <<"1", " ">>,
           <<"1", ".", "S">>, <<"Y">>}
Durations ==
  <<Single(<<NoArg("duration")>>,
      Joined({<<"P">>, <<"-", "P">>}, Joined(Pieces, Joined(Pieces, Pieces \cup Joined({<<"T">>}, Pieces))))
      \cup {<<>>, <<"1", "Y">>})>>

True == <<"t", "r", "u", "e">>
Lexical ==
  Each(<<"name", "ncname", "qname", "nmtoken", "nmtokens">>,
       LAMBDA k : Single(<<NoArg(k)>>, TextsUpTo({"a", ":", "1", " "}, 4)))
  \o <<Single(<<NoArg("hexBinary")>>, TextsUpTo({"a", "1", "T", " "}, 3)),
       Single(<<NoArg("base64")>>, TextsUpTo({"a", "+", "=", " "}, 4)),
       Single(<<NoArg("boolean")>>, TextsUpTo({"0", "1"}, 2)
                \cup {True, SubSeq(True, 1, 3), Append(True, "e"), <<"f", "a", "l", "s", "e">>})>>
  \o EachOf(<<"maxLength", "minLength", "length">>, <<0, 1, 2>>,
            LAMBDA k, n : Single(<<Length(k, n)>>, TextsUpTo({"a"}, 3)))

\* Combinations, two levels deep.
Blanky ==
  TextsUpTo({"a", " ", "\t"}, 3)
  \cup {<<"b">>, <<"b", "b">>, <<"a", "b">>, <<"a", " ", "b">>, <<" ", "b", "b">>,
        <<"a", "\t", " ", "a">>, <<"a", " ", " ", "a">>, <<" ", "a", "a", " ">>}
Lists == [t \in Blanky |-> [failed |-> t = <<"b">>, list |-> IF t = <<"b">> THEN <<>> ELSE WordsOf(t) \o <<t>>]]
Script == [t \in Blanky |-> CASE Len(t) = 0 -> "other" [] Len(t) = 1 -> "yes" [] Len(t) = 3 -> "error" [] OTHER -> "no"]
IsA == Fixed(<<"a">>)
Blocks == <<Block("oneOf", <<>>), Block("allOf", <<>>), Block("not", <<>>), Block("strip", <<>>), Block("split", <<>>),
            Word("whitespace", "replace"), Word("whitespace", "collapse")>>
Contents ==
  <<<<IsA>>, <<Most(2)>>, <<NoArg("nmtoken"), Most(2)>>,
    <<Arg("enumeration", "texts", {<<>>, <<"a", " ", "a">>}), IsA>>, <<Arg("tcl", "answers", Script)>>,
    <<Command("split", <<<<"word", "tcl">>, <<"lists", Lists>>>>, <<Most(2)>>)>>>>
  \o EachOf(Blocks, <<IsA, Most(2)>>, LAMBDA b, c : <<Having(b, <<c>>), Most(3)>>)
Combinations ==
  EachOf(Blocks, Contents, LAMBDA b, s : Single(<<Having(b, s)>>, Blanky))
  \o <<Single(<<Block("type", <<Having(Word("whitespace", "preserve"), <<IsA>>)>>)>>, Blanky)>>

\* IDs and keys: texts and key spaces in every order, in two documents.
Documents(script, texts, spaces, n) ==
  [Single(script, texts) EXCEPT !.spaces = spaces, !.tables = {"x"}, !.events = n, !.documents = 2]
Both(c1, c2) == Block("allOf", <<c1, c2>>)
WithTables ==
  Each(<<NoArg("id"), Word("id", "x")>>,
       LAMBDA c : Documents(<<Block("split", <<c>>)>>, {<<"a">>, <<"b">>, <<"a", " ", "b">>, <<"a", " ", "a">>}, {}, 2))
  \o <<Documents(<<Block("oneOf", <<Both(IsA, NoArg("id")), Both(Fixed(<<"b">>), NoArg("idref"))>>)>>,
                 {<<"a">>, <<"b">>, <<"c">>}, {}, 3),
       Documents(<<Block("oneOf", <<Both(Length("length", 1), Word("id", "x")),
                                    Both(Length("length", 2), Block("strip", <<Word("idref", "x")>>))>>)>>,
                 {<<"a">>, <<"b">>, <<" ", "a">>}, {}, 3)>>
Keyed ==
  <<Documents(<<Block("oneOf", <<Both(Length("length", 1), Word("key", "k")),
                                 Both(Length("minLength", 2), Block("strip", <<Word("keyref", "k")>>))>>)>>,
              {<<"a">>, <<"b">>, <<" ", "a">>}, {"k"}, 4)>>

\* What is no definition by the documentation, and what is one.
Wrong == <<Word("date", "y"), Word("integer", "y"), NoArg("fixed"), Command("id", <<<<"word", "x">>, <<"word", "y">>>>, <<>>),
           Word("jsontype", "y"), Length("minLength", 0), Word("whitespace", "y"), Block("oneOf", <<Word("name", "y")>>)>>
Defined ==
  Each(Wrong, LAMBDA c : [Single(<<NoArg("name"), c>>, {<<"a">>}) EXCEPT !.legal = FALSE])
  \o Each(<<Word("integer", "xsd"), Having(Word("split", "whitespace"), <<NoArg("name")>>)>>,
          LAMBDA c : Single(<<c>>, {<<"1">>}))
  \o <<[Single(<<Word("jsontype", "NULL")>>, {<<"1">>}) EXCEPT !.json = {"none", "NULL", "TRUE"}]>>
MCDefinitions ==
  Numerals \o Bounded \o Moments \o Durations \o Lexical \o Combinations \o WithTables \o Keyed \o Defined

(* ------------------------------ one of three ------------------------------ *)
NoDtd == [Dtd(<<>>, {}) EXCEPT !.doctype = "", !.elements = 0]
NoDTD == /\ dtd = NoDtd /\ left = <<>> /\ tnc = CreateTncData /\ cmd = NoData
         /\ doc = NoDocument /\ log = <<>> /\ answer = NoAnswer
NoTexts == Made(1) /\ documents = 0
NoSchema == /\ def = Sch(<<>>, <<>>, <<>>) /\ state = "READY" /\ m = Matcher /\ ids = <<>>
            /\ unknownIDrefs = 0 /\ open = <<>> /\ verdict = NoVerdict /\ result = "ok"
ValidatorsInit ==
  \/ Init /\ NoDTD /\ NoTexts
  \/ TncInit /\ NoSchema /\ NoTexts
  \/ TextsInit /\ NoDTD /\ NoSchema
TextsOver == documents = definition.documents /\ judgement # "ok"
ValidatorsNext ==
  \/ documents = 0 /\ dtd = NoDtd /\ Next /\ UNCHANGED <<tncVars, textVars>>
  \/ documents = 0 /\ dtd # NoDtd /\ TncNext /\ UNCHANGED <<vars, textVars>>
  \/ documents > 0 /\ TextsNext /\ UNCHANGED <<vars, tncVars>>
  \/ TextsOver /\ UNCHANGED <<vars, tncVars, textVars>>
ValidatorsSpec == ValidatorsInit /\ [][ValidatorsNext]_<<vars, tncVars, textVars>>
=============================================================================
