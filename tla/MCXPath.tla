------------------------------ MODULE MCXPath ------------------------------
(* XPath for TLC.  Location paths: two elements `a', one `b', a text node and an *)
(* attribute of `b', steps over every axis with the predicates that count.  The  *)
(* parser: texts over small sets of lexemes.  Values: operators and functions    *)
(* applied to values of every type.  A behaviour is one of the three.            *)
EXTENDS XPath, XPathParser, XPathValues

CONSTANTS a1, a2, b1, t1, x1

Twins == Permutations({a1, a2})

Num(n) == [is |-> "int", num |-> n]
PosIs(o, n) == [is |-> "pos", op |-> o, num |-> n]
LastOne == [is |-> "last"]
AtLast == [is |-> "poslast"]
Has(s) == [is |-> "has", step |-> s]
Both(p, q) == [is |-> "and", left |-> p, right |-> q]
Loc(sep, axis, test, preds) == [sep |-> sep, axis |-> axis, test |-> test, preds |-> preds]
S(axis, test, preds) == Loc("/", axis, test, preds)

MCName == [n \in {a1, a2, b1, x1} |->
             CASE n = x1 -> "x" [] n = b1 -> "b" [] OTHER -> "a"]
MCAttrsOf == [e \in Elements |-> IF e = b1 THEN <<x1>> ELSE <<>>]

Before1 == Has(S("preceding-sibling", "b", <<>>))

MCSteps == {
  S("child", "node", <<>>), S("child", "a", <<Num(1)>>), S("child", "*", <<PosIs("<=", 2), LastOne>>),
  S("attribute", "x", <<>>), S("parent", "node", <<>>), S("self", "a", <<>>),
  S("ancestor", "*", <<Num(1)>>), S("ancestor-or-self", "node", <<AtLast>>),
  S("descendant", "node", <<PosIs("<", 2)>>),
  S("following-sibling", "node", <<PosIs("=", 1)>>), S("preceding-sibling", "node", <<Num(1)>>),
  S("preceding-sibling", "*", <<Both(Has(S("following-sibling", "*", <<>>)), PosIs("=", 1))>>),
  S("following", "*", <<Num(1)>>), S("preceding", "*", <<PosIs("=", 1)>>), S("preceding", "node", <<>>),
  Loc("//", "child", "a", <<Num(1)>>), Loc("//", "child", "*", <<Before1, LastOne>>),
  Loc("//", "attribute", "x", <<>>) }

MCUnions == {<<Loc("//", "child", "a", <<>>), Loc("//", "child", "b", <<>>)>>,
             <<S("following-sibling", "node", <<>>), S("ancestor-or-self", "*", <<>>)>>,
             <<S("child", "node", <<>>), S("descendant", "a", <<>>)>>}

Rel(s) == [absolute |-> FALSE, steps |-> s]
Abs(s) == [absolute |-> TRUE, steps |-> s]

MCPatterns == {
  Abs(<<>>), Rel(<<S("child", "node", <<>>)>>), Rel(<<S("child", "a", <<Num(2)>>)>>),
  Rel(<<S("child", "*", <<AtLast>>)>>), Rel(<<S("attribute", "x", <<>>)>>),
  Rel(<<S("child", "a", <<Before1>>)>>), Rel(<<S("child", "a", <<PosIs("<=", 1), LastOne>>)>>),
  Rel(<<S("child", "a", <<Has(S("child", "node", <<>>)), LastOne>>)>>),
  Rel(<<S("child", "a", <<Num(1)>>), S("child", "*", <<Num(1)>>)>>),
  Rel(<<S("child", "b", <<>>), Loc("//", "attribute", "x", <<>>)>>),
  Abs(<<S("child", "*", <<PosIs(">", 1)>>)>>), Abs(<<Loc("//", "child", "a", <<LastOne>>)>>),
  Abs(<<S("child", "a", <<>>), Loc("//", "child", "*", <<Has(S("child", "node", <<>>))>>)>>) }

(* Lexemes that are hard to tell apart, or that belong together. *)
Abc(ls, kinds, whole) == [lexemes |-> ls, kinds |-> kinds, whole |-> whole]
AllKinds == {"expr", "match", "keymatch", "keyuse"}
MCAlphabets == {
  Abc({"a", "/", "//", ".", "*", "@a", "[", "]"}, {"expr", "match"}, 6),
  Abc({"a", "child", "self", "::", "/", "//", "*"}, {"expr", "match"}, 5),
  Abc({"a", "*", "div", "-", "1", "(", " (", ")"}, {"expr"}, 5),
  Abc({"1", "or", "and", "=", "<", "+", "*"}, {"expr"}, 5),
  Abc({"f", "(", ")", ",", "'s'", "/", "|", ".."}, {"expr"}, 6),
  Abc({"text", "node", "processing-instruction", "(", " (", ")", "'s'", "/"}, {"expr", "match"}, 5),
  Abc({"id", "key", "(", ")", "'s'", ",", "/", "|"}, {"match", "keymatch"}, 7),
  Abc({"a", "[", "]", "position", "(", ")", "1", "<"}, {"match"}, 8),
  Abc({"$v", "current", "key", "true", "(", ")", "[", "]", "a"}, AllKinds, 6),
  Abc({"p:a", "p:*", "@p:a", "$p:v", "q:a", "(", ")", "/"}, {"expr", "match"}, 4)}

(* Values of every type; strings and nodes that are numbers, nearly numbers,   *)
(* and none.                                                                   *)
Thing(is, prefix, local, uri, chars, below) ==
  [kind |-> is, prefix |-> prefix, local |-> local, uri |-> uri, text |-> chars, kids |-> below]
Chars(is, chars) == Thing(is, <<>>, <<>>, <<>>, chars, <<>>)
Elem(local, below) == Thing("element", <<>>, local, <<>>, <<>>, below)
Holder(chars) == Elem(<<"e">>, <<Chars("text", chars)>>)
MinusOne == Holder(<<" ", "-", "1">>)
Two == Holder(<<"2", ".">>)
NoNumber == Elem(<<"e">>, <<Chars("text", <<"2">>), Chars("comment", <<"1">>), Elem(<<"f">>,
    <<Chars("text", <<"-">>)>>)>>)
Sectioned == Elem(<<"e">>, <<Chars("text", <<"1">>), Chars("cdata", <<"2">>)>>)
MCStrings == {<<>>, <<"2">>, <<"-", "1", "\n">>, <<"-", ".", "5">>, <<"1", " ", "x">>, <<".">>,
              <<" ", "t", "r", " ", "\n", "t">>}
MCSets == {<<>>, <<Two>>, <<MinusOne, Two>>, <<Two, NoNumber, MinusOne>>, <<NoNumber>>, <<Sectioned>>,
           <<Chars("attribute", <<"t", "r">>)>>}
MCValues ==
  {Bool(TRUE), Bool(FALSE), rsSetLong(0), rsSetLong(2), rsSetLong(-1), rsSetReal(0), rsSetReal(150),
   rsSetReal(-50), rsSetReal(-250), rsSetReal(10000), NaNSet, Infinity(1), Infinity(-1)}
  \cup {rsSetString(s) : s \in MCStrings} \cup {NodeSet(s) : s \in MCSets}

App(f, args, ctx) == [f |-> f, args |-> args, ctx |-> ctx]
MCBinary ==
  {App(f, <<l, r>>, Two) : f \in Operations \cup Relations \cup {"=", "!=", "and", "or"}, l, r \in MCValues}
MCUnary ==
  {App(f, <<v>>, Two) : f \in {"-", "number", "floor", "ceiling", "round", "sum", "count", "boolean", "not",
     "string", "laststring", "normalize-space", "string-length", "true", "name", "concat"}, v \in MCValues}
  \cup {App(f, <<>>, NoNumber) : f \in {"number", "string", "laststring", "normalize-space",
      "string-length", "true",
     "false", "local-name", "boolean"}}
FewStrings == {rsSetString(s) : s \in {<<>>, <<"t">>, <<"t", "r">>, <<"t", "r", "t", " ">>}} \cup
    {Bool(TRUE), rsSetReal(250)}
MCTexts ==
  {App(f, <<s, t>>, Two) : f \in {"starts-with", "contains", "substring-before", "substring-after",
      "concat"},
     s, t \in FewStrings}
  \cup {App("translate", <<s, t, u>>, Two) : s \in FewStrings, t \in FewStrings, u \in FewStrings}
MCSubstrings ==
  {App("substring", <<rsSetString(<<"a", "b", "c">>)>> \o rest, Two) :
     rest \in UNION {[1 .. n -> {rsSetLong(0), rsSetLong(2), rsSetReal(150), rsSetReal(-50),
         rsSetReal(-150), rsSetLong(5),
                                 NaNSet, Infinity(1), Infinity(-1), Bool(TRUE)}] : n \in 0 .. 2}}
Tags == {<<"e">>, <<"E", "-", "u">>, <<"e", "-", "u", "-", "x">>, <<"u">>}
MCLangs ==
  {App("lang", <<rsSetString(s)>>, [langs |-> l]) : s \in Tags \cup {<<>>}, l \in {<<>>} \cup
      {<<x>> : x \in Tags} \cup (Tags \X Tags)}
WithId(id) == [id |-> id]
MCIds ==
  {App("id", <<v>>, [ids |-> <<WithId(<<"2">>), WithId(<<"t", "r">>), WithId(<<"t">>)>>]) : v \in MCValues}
Named == {
  Thing("root", <<>>, <<>>, <<>>, <<>>, <<>>), Elem(<<"b">>, <<>>), Thing("element", <<"p">>,
      <<"b">>, <<"u">>, <<>>, <<>>),
  Thing("attribute", <<>>, <<"b">>, <<>>, <<"2">>, <<>>), Thing("attribute", <<"p">>, <<"b">>,
      <<"u">>, <<>>, <<>>),
  Thing("namespace", xmlns, <<"p">>, <<>>, <<"u">>, <<>>), Thing("namespace", <<>>, xmlns, <<>>,
      <<"u">>, <<>>),
  Chars("text", <<"b">>), Chars("comment", <<"b">>), Thing("pi", <<>>, <<"b">>, <<>>, <<"c">>, <<>>),
  Thing("pi", <<>>, [i \in 1 .. 80 |-> "b"], <<>>, <<"c">>, <<>>)}
MCNames ==
  {App(f, <<NodeSet(<<n>>)>>, Two) : f \in {"name", "local-name", "namespace-uri", "string"}, n \in Named}
  \cup {App(f, <<>>, n) : f \in {"name", "local-name"}, n \in Named}
  \cup {App(f, <<v>>, Two) : f \in {"name", "local-name", "namespace-uri"}, v \in {NodeSet(<<>>),
      rsSetString(<<"b">>)}}
Declared(p, u) == [prefix |-> p, uri |-> u]
Scopes == {<<>>} \cup {<<Declared(p, u)>> : p \in {<<"p">>, <<>>}, u \in {<<"u">>, <<"v">>}}
          \cup {<<Declared(<<>>, <<>>)>>, <<Declared(<<"p">>, <<"u">>), Declared(<<"q">>, <<"w">>)>>}
MCNamespaces ==
  {App("namespace::", <<test>>, [scopes |-> <<s1, s2, <<Declared(<<"x">>, <<"x">>)>>>>]) :
     test \in {<<"*">>, <<"p">>, <<"q">>, <<"x">>}, s1 \in Scopes, s2 \in Scopes}
Pieces == {Elem(<<"a">>, <<>>), Elem(<<"a">>, <<Chars("text", <<"c">>), Elem(<<"c">>, <<>>),
    Chars("text", <<"x">>)>>),
           Thing("element", <<"p">>, <<"a">>, <<"u">>, <<>>, <<>>), Chars("text", <<"a">>),
               Chars("comment", <<"a">>),
           Thing("pi", <<>>, <<"a">>, <<>>, <<"a">>, <<>>), Chars("cdata", <<"a">>)}
MCPaths ==
  {App("toXPath", <<forest, <<i>>, legacy>>, Two) : forest \in [1 .. 3 -> Pieces], i \in 1 .. 3,
      legacy \in BOOLEAN}
  \cup {App("toXPath", <<<<k, l>>, <<1, i>>, FALSE>>, Two) : k \in {p \in Pieces : p.kids # <<>>},
      l \in Pieces, i \in 1 .. 3}
MCApplications == MCBinary \cup MCUnary \cup MCTexts \cup MCSubstrings \cup MCLangs \cup MCIds \cup MCNames
                  \cup MCNamespaces \cup MCPaths

NoText == parsed = NotParsed /\ text = <<>> /\ kind = "" /\ alphabet = Abc({}, {}, 0)
NoApplication == App("", <<>>, Two)
NoValue == applied = NoApplication /\ value = None
XPathInit ==
  \/ Init /\ NoText /\ NoValue
  \/ ParserInit /\ Init /\ NoValue
  \/ ValuesInit /\ Init /\ NoText
XPathNext ==
  \/ kind = "" /\ applied = NoApplication /\ Next /\ UNCHANGED <<parserVars, valueVars>>
  \/ kind # "" /\ ParserNext /\ UNCHANGED <<vars, valueVars>>
  \/ applied # NoApplication /\ ValuesNext /\ UNCHANGED <<vars, parserVars>>
XPathSpec == XPathInit /\ [][XPathNext]_<<vars, parserVars, valueVars>>
=============================================================================
