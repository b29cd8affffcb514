----------------------------- MODULE MCReaders -----------------------------
(* What dom parse makes of a source, for TLC: Builder behind expat, and the  *)
(* readers of Texts. A behaviour is of one or the other.                     *)
EXTENDS Builder, Texts

(* Builder: the option records that matter to one another, each with the     *)
(* rest switched off.                                                        *)
PlainSource == [forest |-> FALSE, keepEmpties |-> FALSE, keepCDATA |-> FALSE, schema |-> FALSE,
          feedback |-> FALSE, extResolver |-> FALSE,
          attrs |-> {"none"}, maxNodes |-> 5, maxPieces |-> 3]

\* xml:space at every nesting of four elements.
SpaceSource == [PlainSource EXCEPT !.attrs = {"none", "space"}, !.maxNodes = 6, !.maxPieces = 0]

\* Namespace declarations at every nesting of three elements.
NamesSource == [PlainSource EXCEPT !.attrs = {"none", "declares", "prefixed"}, !.maxPieces = 0]

ForestSource == [PlainSource EXCEPT !.forest = TRUE]

MCOptions == {SpaceSource, NamesSource, ForestSource,
              [PlainSource EXCEPT !.extResolver = TRUE, !.maxNodes = 6],
              [PlainSource EXCEPT !.schema = TRUE, !.keepEmpties = TRUE],
              [PlainSource EXCEPT !.schema = TRUE, !.keepCDATA = TRUE, !.maxPieces = 2],
              [PlainSource EXCEPT !.feedback = TRUE, !.attrs = {"none", "space"}]}

(* Texts put together from pieces in every order.                            *)
RECURSIVE Strings(_, _)
Strings(parts, n) ==
  IF n = 1 THEN parts ELSE parts \union {s \o p : s \in Strings(parts, n - 1), p \in parts}
Inputs(texts, opts) == [text : texts, opt : opts]
Opt(white, cdata, forest) ==
  [ignoreWhiteSpaces |-> white, keepCDATA |-> cdata, forest |-> forest]
Quoted(s) == <<"\"">> \o s \o <<"\"">>

\* Elements with everything that stands between tags, up to four pieces of it.
XMLContent ==
  {<<"<", "a", ">">>, <<"</", "a", " ", ">">>, <<"<", "b", "/", ">">>, <<"t", "]">>,
   <<" ", "w", "&amp;", "&#xA;">>, <<" ", "nl">>,
   <<"<![CDATA[", "<", "t", "]", "]", ">">>, <<"<!--", "</", "a", ">", "-", "-", ">">>,
   <<"<?", "x", " ", "y", "?", ">">>, <<"<!DOCTYPE", "a", "[", ">", "]", ">">>}
\* What breaks off, is empty or is not allowed where it stands.
XMLBroken ==
  {<<"<", "a", ">">>, <<"</", "a", ">">>, <<"</", "a">>, <<"<", "a">>, <<"<", "a", "/">>, <<">", "&">>,
   <<">", "&#66376;">>, <<"<", ">">>, <<"<!--", "-">>, <<"<?", "x">>, <<"<![CDATA[", "]", "]", ">">>,
   <<"<![CDATA[", " ">>, <<"<!DOCTYPE", "[", ">">>, <<"</", "forestroot", ">">>}
\* Attributes, also without quotes, without value and with what is no name.
XMLAttributes ==
  {<<"<", "a">>, <<" ", "a", "=">>, <<" ", "b">>, <<"'", "x", "\"", "&lt;", "'">>,
   <<"\"", "nl", "cr", "tab", "\"">>, <<"u", " ", "=", " ">>, <<"/", ">">>, <<">", "</", "a", ">">>}
\* Namespaces on three levels.
Binds(p, u) == <<" ", "xmlns">> \o p \o <<"=">> \o Quoted(<<u>>)
XMLNames ==
  {<<"<", "a">> \o Binds(<<":", "p">>, "u") \o <<">">>, <<"<", "a">> \o Binds(<<":", "p">>, "v") \o <<">">>,
   <<"<", "a">> \o Binds(<<>>, "u") \o <<" ", "p", ":", "b", "=">> \o Quoted(<<"x">>) \o <<">">>,
   <<"<", "p", ":", "b">> \o Binds(<<>>, "v") \o Binds(<<":", "p">>, "v") \o <<"/", ">">>,
   <<"<", "b">> \o Binds(<<":", "p">>, "u") \o Binds(<<":", "p">>, "u") \o <<"/", ">">>,
   <<"<", "p", ":", "b", "/", ">">>, <<"</", "a", ">">>}

HTMLTags ==
  {<<"<", "a", ">">>, <<"<", "p", ">">>, <<"<", "table", ">">>, <<"<", "td", ">">>, <<"</", "a", ">">>,
   <<"</", "p", " ">>, <<"</", "td", " ">>, <<">">>, <<"</", "tr", ">">>, <<"</", "table", ">">>, <<"t">>, <<"w">>}
HTMLForms ==
  {<<"<", "option", ">">>, <<"</", "option", ">">>, <<"<", "div", "/", ">">>, <<"<", "div", ">">>, <<"<", "form", ">">>,
   <<"</", "form", ">">>, <<"<", "br", ">">>, <<"</", "body", ">">>, <<"t">>, <<"<", "html", ">">>}
HTMLContent ==
  {<<"<", "p", ">">>, <<" ", "t">>, <<"<", "t">>, <<" ", "nl">>, <<"<![CDATA[", "w", "]", "]", ">">>, <<"<![CDATA[", "]", "]", ">">>,
   <<"<!--", "</", "a", ">", "-", "-", ">">>, <<"<!DOCTYPE", "a", ">">>, <<"&", "&uuml;", "&#66376;">>,
   <<"<", "script", ">", "t", "<", "w", "</", "script", ">">>, <<"</", "p", ">">>,
   <<"<", "x-y", ">">>, <<"<?", "x", "-", " ", "?", ">">>, <<"<?", "x", "?", ">">>}
HTMLBroken ==
  {<<"<", "p">>, <<" ", "a", "=">>, <<" ", "b">>, <<" ", "a", "=", "'", "x", "\"", "&lt;", "'">>, <<"\"", "u", "\"">>, <<">">>, <<"/", ">">>,
   <<"</", "p">>, <<"<!--", " ">>, <<"<![CDATA[">>, <<"<!DOCTYPE">>, <<"<", "script">>}

MCXMLTexts ==
  Inputs(Strings(XMLContent, 4), {Opt(TRUE, FALSE, FALSE)})
  \union Inputs(Strings(XMLContent, 3), {Opt(FALSE, TRUE, FALSE), Opt(FALSE, FALSE, TRUE)})
  \union Inputs(Strings(XMLBroken, 3), {Opt(FALSE, FALSE, FALSE), Opt(TRUE, TRUE, TRUE)})
  \union Inputs(Strings(XMLAttributes, 4), {Opt(TRUE, FALSE, FALSE)})
  \union Inputs(Strings(XMLNames, 4), {Opt(TRUE, FALSE, FALSE)})
X == [flags |-> {}, indent |-> -1, indentAttrs |-> -1, cdata |-> {}, declaration |-> FALSE,
      doctype |-> FALSE]
MCXMLWriters ==
  {[X EXCEPT !.flags = {"noGt", "nonASCII", "escapeCR"}],
   [X EXCEPT !.cdata = {<<"a">>}, !.flags = {"noEmptyTag"}],
   [X EXCEPT !.indent = 1, !.indentAttrs = 1, !.declaration = TRUE, !.doctype = TRUE,
             !.flags = {"allQuot", "escapeTab"}]}

MCHTMLTexts ==
  Inputs(Strings(HTMLTags, 4) \union Strings(HTMLForms, 4), {Opt(TRUE, FALSE, FALSE)})
  \union Inputs(Strings(HTMLContent, 3), {Opt(TRUE, FALSE, FALSE), Opt(FALSE, FALSE, TRUE)})
  \union Inputs(Strings(HTMLBroken, 4), {Opt(TRUE, FALSE, FALSE)})
H == [flags |-> {}, breakLines |-> FALSE, doctype |-> FALSE]
MCHTMLWriters ==
  {H, [H EXCEPT !.flags = {"htmlEntities", "noGt"}, !.breakLines = TRUE, !.doctype = TRUE]}

\* Arrays and objects, strings and numbers of five tokens, and nested up to three levels.
JSONShapes == {<<"{">>, <<"}">>, <<"[">>, <<"]">>, <<",">>, <<":">>, <<"\"", "a", "\"">>, <<"1", "ws">>}
JSONWords ==
  {<<"\"">>, <<"a">>, <<"\\n">>, <<"\\u0061">>, <<"\\ud800">>, <<"\\u0000">>, <<"true">>, <<"[">>, <<"]">>, <<",">>}
JSONNumbers == {<<"-">>, <<"+">>, <<"0">>, <<"1">>, <<".">>, <<"e">>}
MCJSONTexts ==
  {<<c>> \o s : c \in {"{", "["}, s \in Strings(JSONShapes, 4)}
  \union Strings(JSONWords, 4) \union Strings(JSONNumbers, 5)

L == INSTANCE Json
Str(s) == L!Typed("STRING", s, <<>>)
Scalars == {Str(<<>>), L!Typed("NUMBER", <<"1">>, <<>>), L!Typed("NULL", <<>>, <<>>)}
Array(s) == L!Typed("ARRAY", <<>>, s)
Object(s) == L!Typed("OBJECT", <<>>, s)
Structures(values) ==
  {Array(<<>>), Object(<<>>)} \union {Array(<<v>>) : v \in values}
  \union {Array(<<v, w>>) : v, w \in values}
  \union {Object(<<Str(<<"a">>), v, Str(n), w>>) : v, w \in values, n \in {<<"a">>, <<"low">>}}
Small == {Str(<<"quote", "nul">>), Array(<<>>), Object(<<>>), Object(<<Str(<<>>), Str(<<"a">>)>>)}
MCTypedLists == Scalars \union Structures(Scalars \union Small \union {Array(<<v>>) : v \in Small})
                \union {Array(<<v, Str(<<"a">>)>>) : v \in Structures(Small)}

\* Up to two declarations in front of up to three attributes.
Declared(p, u) == [ns |-> TRUE, prefix |-> p, uri |-> u, local |-> ""]
Plain(u, l) == [ns |-> FALSE, prefix |-> "", uri |-> u, local |-> l]
Distinct(set, n, key(_)) ==
  {s \in UNION {[1..k -> set] : k \in 0..n} :
     \A i, j \in DOMAIN s : i # j => key(s[i]) # key(s[j])}
MCAttributeLists ==
  [attrs : {d \o a : d \in Distinct({Declared(p, u) : p \in {"", "p", "q"}, u \in {"", "a"}}, 2,
                                     LAMBDA c : c.prefix),
                     a \in Distinct({Plain(u, l) : u \in {"", "a", "b"}, l \in {"a", "b"}}, 2,
                                     LAMBDA c : c)},
   scope : {<<>>, [p \in {"", "p"} |-> "a"]}]

NoText ==
  /\ kind = "none" /\ text = <<>> /\ x = 1 /\ how = NoOptions /\ frames = <<>> /\ activeNS = <<>>
  /\ node = "none" /\ status = "reading" /\ written = FALSE /\ given = <<>>
ReadersInit ==
  \/ Init /\ NoText
  \/ TextsInit /\ opt = ForestSource /\ Init
ReadersNext ==
  \/ kind = "none" /\ Next /\ UNCHANGED textVars
  \/ kind # "none" /\ TextsNext /\ UNCHANGED vars
ReadersSpec == ReadersInit /\ [][ReadersNext]_<<vars, textVars>>
=============================================================================
