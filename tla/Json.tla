-------------------------------- MODULE Json --------------------------------
(* JSON texts, typed lists and the DOM trees between them: the reader of      *)
(* domjson.c, the writers of tcldom.c. A text is a sequence of tokens: the    *)
(* punctuation, "ws", the three literals, the characters of numbers, and      *)
(* between two quotes plain characters and whole escape sequences. The        *)
(* characters are classes: the plain ones, and one for every kind the         *)
(* escaping tells apart.                                                      *)
EXTENDS Integers, Sequences, SequencesExt, FiniteSets

CONSTANTS MaxNesting        \* the option -jsonmaxnesting

Literals == {"null", "true", "false"}
NumberChars == {"-", "+", "0", "1", ".", "e"}
Digits == {"0", "1"}

\* What stands between quotes for a character, and the escapes read as it.
Escaped ==
  [c \in {"a", "1", "quote", "backslash", "newline", "low", "nul", "astral", "lone"} |->
     CASE c = "quote" -> "\\\"" [] c = "backslash" -> "\\\\" [] c = "newline" -> "\\n"
       [] c = "low" -> "\\u0001" [] c = "nul" -> "\\u0000" [] OTHER -> c]
HighSurrogate == "\\ud800"
UnicodeEscapes == {"\\u0061", "\\u0000", "\\u0001", HighSurrogate, "\\udc00"}
Unescaped(t) ==
  CASE t = "\\u0061" -> "a"
    [] t \in {HighSurrogate, "\\udc00"} -> "lone"
    [] \E c \in DOMAIN Escaped : Escaped[c] = t -> CHOOSE c \in DOMAIN Escaped : Escaped[c] = t
    [] OTHER -> "bad"

(* ------------------------------ the DOM tree ------------------------------ *)
Text(type, value) ==
  [node |-> "text", name |-> <<>>, type |-> type, value |-> value, children |-> <<>>]
Element(name, type) ==
  [node |-> "element", name |-> name, type |-> type, value |-> <<>>, children |-> <<>>]
WithChild(parent, child) == [parent EXCEPT !.children = Append(@, child)]
ObjectContainer == <<"objectcontainer">>
ArrayContainer == <<"arraycontainer">>

(* ------------------------------- the reader ------------------------------- *)
Failed(err, i) == [err |-> err, at |-> i, node |-> Element(<<>>, "NONE"), str |-> <<>>]
Syntax(i) == Failed("syntax", i)
Read(i, node) == [err |-> "none", at |-> i, node |-> node, str |-> <<>>]

At(t, i) == IF i \in 1..Len(t) THEN t[i] ELSE "end"
SkipSpace(t, i) ==
  CHOOSE j \in i..(Len(t) + 1) : At(t, j) # "ws" /\ \A k \in i..(j - 1) : At(t, k) = "ws"

\* The characters of a string; a high surrogate takes any \u after it as its other half.
RECURSIVE Characters(_)
Characters(s) ==
  IF s = <<>> THEN <<>>
  ELSE IF s[1] = HighSurrogate /\ Len(s) > 1 /\ s[2] \in UnicodeEscapes
       THEN <<"astral">> \o Characters(SubSeq(s, 3, Len(s)))
       ELSE <<Unescaped(s[1])>> \o Characters(Tail(s))

\* jsonParseString: at is the closing quote.
ParseString(t, i) ==
  LET ends == {j \in (i + 1)..Len(t) : t[j] = "\""}
      bad == {j \in (i + 1)..Len(t) : Unescaped(t[j]) = "bad"}
      j == CHOOSE j \in ends : \A k \in ends : j <= k
  IN IF At(t, i) # "\"" THEN Syntax(i)
     ELSE IF ends = {} THEN Syntax(Len(t) + 1)
     ELSE IF \E k \in bad : k < j THEN Syntax(CHOOSE k \in bad : \A l \in bad : k <= l)
     ELSE [err |-> "none", at |-> j, node |-> Element(<<>>, "NONE"),
           str |-> Characters(SubSeq(t, i + 1, j - 1))]

\* The number at i ends before the index given; 0 for a malformed one.
RECURSIVE NumberLoop(_, _, _, _)
NumberLoop(t, j, seenDP, seenE) ==
  LET c == At(t, j) IN
  CASE c \in Digits -> NumberLoop(t, j + 1, seenDP, seenE)
    [] c = "." -> IF At(t, j - 1) = "-" \/ seenDP THEN 0 ELSE NumberLoop(t, j + 1, TRUE, seenE)
    [] c = "e" ->
         LET sign == IF At(t, j + 1) \in {"+", "-"} THEN 1 ELSE 0
         IN IF At(t, j - 1) \notin Digits \/ seenE \/ At(t, j + sign + 1) \notin Digits THEN 0
            ELSE NumberLoop(t, j + sign + 1, TRUE, TRUE)
    [] OTHER -> IF At(t, j - 1) \notin Digits THEN 0 ELSE j

NumberEnd(t, i) ==
  LET j == IF At(t, i) = "-" THEN i + 1 ELSE i
  IN IF At(t, j) = "0" /\ At(t, j + 1) \in Digits THEN 0
     ELSE NumberLoop(t, i + 1, FALSE, FALSE)

isJSONNumber(s) ==
  /\ s # <<>>
  /\ s[1] = "-" \/ s[1] \in Digits
  /\ NumberEnd(s, 1) = Len(s) + 1

RECURSIVE ParseValue(_, _, _, _, _), Members(_, _, _, _, _), Items(_, _, _, _)

\* An object: inside of an array it gets a container of its own.
ParseObject(parent, t, i, within, depth) ==
  LET object == IF within = "ARRAY" THEN Element(ObjectContainer, "OBJECT")
                ELSE [parent EXCEPT !.type = "OBJECT"]
      r == IF At(t, SkipSpace(t, i + 1)) = "}" THEN Read(SkipSpace(t, i + 1) + 1, object)
           ELSE Members(object, t, SkipSpace(t, i + 1), depth + 1, within)
  IN IF depth + 1 > MaxNesting THEN Failed("nesting", i)
     ELSE IF r.err # "none" \/ within # "ARRAY" THEN r
     ELSE Read(r.at, WithChild(parent, r.node))

Members(object, t, i, depth, within) ==
  LET name == ParseString(t, i)
      colon == SkipSpace(t, name.at + 1)
      value == ParseValue(Element(name.str, "NONE"), t, SkipSpace(t, colon + 1), "OBJECT", depth)
      next == SkipSpace(t, value.at)
      object2 == WithChild(object, value.node)
  IN IF name.err # "none" THEN name
     ELSE IF At(t, colon) # ":" THEN Syntax(colon)
     ELSE IF value.err # "none" THEN value
     ELSE IF At(t, next) = "}" THEN Read(next + 1, object2)
     ELSE IF At(t, next) = "," THEN Members(object2, t, SkipSpace(t, next + 1), depth, within)
     ELSE Syntax(next)

\* An array: only inside of an array it gets a container of its own.
ParseArray(parent, t, i, within, depth) ==
  LET typed == [parent EXCEPT !.type = "ARRAY"]
      array == IF within = "ARRAY" THEN Element(ArrayContainer, "ARRAY") ELSE typed
      first == SkipSpace(t, i + 1)
      r == IF At(t, first) = "]" THEN Read(first + 1, array) ELSE Items(array, t, first, depth + 1)
  IN IF depth + 1 > MaxNesting THEN Failed("nesting", i)
     ELSE IF r.err # "none" \/ within # "ARRAY" THEN r
     ELSE Read(r.at, WithChild(typed, r.node))

Items(array, t, i, depth) ==
  LET value == ParseValue(array, t, SkipSpace(t, i), "ARRAY", depth)
      next == SkipSpace(t, value.at)
  IN IF value.err # "none" THEN value
     ELSE IF At(t, next) = "]" THEN Read(next + 1, value.node)
     ELSE IF At(t, next) = "," THEN Items(value.node, t, next + 1, depth)
     ELSE Syntax(next)

TypeOfLiteral == [null |-> "NULL", true |-> "TRUE", false |-> "FALSE"]

\* At the end of the input it returns to the first character, whatever that is.
ParseValue(parent, t, i0, within, depth) ==
  LET i == SkipSpace(t, i0)
      c == At(t, i)
      str == ParseString(t, i)
  IN CASE c = "{" -> ParseObject(parent, t, i, within, depth)
       [] c = "[" -> ParseArray(parent, t, i, within, depth)
       [] c = "\"" -> IF str.err # "none" THEN str
                      ELSE Read(str.at + 1, WithChild(parent, Text("STRING", str.str)))
       [] c \in Literals ->
            IF At(t, i + 1) \in {"a"} \union Digits \union Literals THEN Syntax(i)
            ELSE Read(i + 1, WithChild(parent, Text(TypeOfLiteral[c], <<c>>)))
       [] c = "-" \/ c \in Digits ->
            IF NumberEnd(t, i) = 0 THEN Syntax(i)
            ELSE Read(NumberEnd(t, i),
                      WithChild(parent, Text("NUMBER", SubSeq(t, i, NumberEnd(t, i) - 1))))
       [] c = "end" -> Read(1, parent)
       [] OTHER -> Syntax(i)

JSON_Parse(t) ==
  LET start == SkipSpace(t, 1)
      r == ParseValue(Element(<<>>, "NONE"), t, start, "START", 0)
      end == SkipSpace(t, r.at)
  IN IF At(t, start) = "end" THEN Syntax(start)
     ELSE IF r.err # "none" THEN r
     ELSE IF At(t, end) # "end" THEN Syntax(end) ELSE r

(* ------------------------------ the writers ------------------------------- *)
\* A plausible slip: of the control characters only the named ones are escaped.
AppendEscapedJSONMutControls(value) ==
  <<"\"">> \o [k \in DOMAIN value |-> IF value[k] \in {"quote", "backslash", "newline"}
                                       THEN Escaped[value[k]] ELSE value[k]] \o <<"\"">>

\* tcldom_AppendEscapedJSON
AppendEscapedJSON(value) ==
  <<"\"">> \o [k \in DOMAIN value |-> IF value[k] \in DOMAIN Escaped THEN Escaped[value[k]]
                                       ELSE value[k]] \o <<"\"">>

TextAsJSON(node) ==
  CASE node.type = "NUMBER" /\ isJSONNumber(node.value) -> node.value
    [] node.type = "NULL" -> <<"null">>
    [] node.type = "TRUE" -> <<"true">>
    [] node.type = "FALSE" -> <<"false">>
    [] node.type = "BOOLEAN" /\ node.value \in {<<"true">>, <<"1">>} -> <<"true">>
    [] node.type = "BOOLEAN" /\ node.value \in {<<"false">>, <<"0">>} -> <<"false">>
    [] OTHER -> AppendEscapedJSON(node.value)

Relevant(node) == SelectSeq(node.children, LAMBDA c : c.node \in {"text", "element"})

\* What the children of a node without type are, seen from what they are inside of;
\* VALUE is a single text, EMPTY an empty string.
EffectiveType(node, inside) ==
  LET children == Relevant(node) IN
  CASE node.type \in {"ARRAY", "OBJECT"} -> node.type
    [] children = <<>> /\ inside = "OBJECT" -> "EMPTY"
    [] children = <<>> /\ inside # "OBJECT" ->
         IF node.name = ArrayContainer THEN "ARRAY" ELSE "OBJECT"
    [] children # <<>> /\ children[1].node = "element" ->
         IF inside = "ARRAY" /\ children[1].name # ArrayContainer THEN "ARRAY" ELSE "OBJECT"
    [] OTHER -> IF Len(children) > 1 THEN "ARRAY" ELSE "VALUE"

Separated(parts, indent) ==
  LET ws == IF indent THEN <<"ws">> ELSE <<>>
      n == Len(parts)
  IN IF n = 0 THEN <<>>
     ELSE FlattenSeq([k \in 1..n |-> (IF k = 1 THEN <<>> ELSE <<",">>) \o ws \o parts[k]]) \o ws

RECURSIVE TreeAsJSON(_, _, _)
\* tcldom_childrenAsJSON: in an object the first child may still be a text.
ChildrenAsJSON(node, inside, indent) ==
  LET children == Relevant(node)
      members == SelectSeq(Tail(children), LAMBDA c : c.node = "element")
      type == EffectiveType(node, inside)
      parts(list) == [k \in DOMAIN list |-> TreeAsJSON(list[k], type, indent)]
  IN CASE type = "EMPTY" -> <<"\"", "\"">>
       [] type = "VALUE" -> TextAsJSON(children[1])
       [] type = "ARRAY" -> <<"[">> \o Separated(parts(children), indent) \o <<"]">>
       [] OTHER -> <<"{">> \o Separated(IF children = <<>> THEN <<>>
                                        ELSE parts(<<children[1]>> \o members), indent) \o <<"}">>

TreeAsJSON(node, inside, indent) ==
  CASE node.node = "text" -> IF inside = "OBJECT" THEN <<>> ELSE TextAsJSON(node)
    [] node.node = "element" /\ inside = "OBJECT" ->
         AppendEscapedJSON(node.name) \o <<":">> \o (IF indent THEN <<"ws">> ELSE <<>>)
           \o ChildrenAsJSON(node, inside, indent)
    [] OTHER -> ChildrenAsJSON(node, inside, indent)

\* serializeAsJSON
AsJSON(node, indent) == TreeAsJSON(node, "START", indent)

\* A typed list: its symbol, the text of a string or number, the elements of an array
\* or, for an object, by turns a name (as a STRING) and a value.
Typed(symbol, text, list) == [symbol |-> symbol, text |-> text, list |-> list]

RECURSIVE AsTypedList(_)
\* A member without type gives its first text; without one only its name is written.
MemberAsTyped(child) ==
  LET texts == SelectSeq(child.children, LAMBDA c : c.node = "text")
  IN <<Typed("STRING", child.name, <<>>)>> \o
     (IF child.node # "element" THEN <<>>
      ELSE IF child.type # "NONE" THEN <<AsTypedList(child)>>
      ELSE IF texts = <<>> THEN <<>> ELSE <<AsTypedList(texts[1])>>)

AsTypedList(node) ==
  LET children == Relevant(node) IN
  CASE node.node = "element" /\ node.type = "ARRAY" ->
         Typed("ARRAY", <<>>, [k \in DOMAIN children |-> AsTypedList(children[k])])
    [] node.node = "element" /\ node.type = "OBJECT" ->
         Typed("OBJECT", <<>>,
               FlattenSeq([k \in DOMAIN node.children |-> MemberAsTyped(node.children[k])]))
    [] node.node = "element" -> Typed("", <<>>, <<>>)
    [] node.type \in {"NULL", "TRUE", "FALSE"} -> Typed(node.type, <<>>, <<>>)
    [] node.type = "NUMBER" /\ isJSONNumber(node.value) -> Typed("NUMBER", node.value, <<>>)
    [] OTHER -> Typed("STRING", node.value, <<>>)

\* tcldom_treeAsTypedList; a node without type needs a first child.
TreeAsTypedList(node) ==
  IF node.type = "NONE" /\ node.children[1].node = "text" THEN AsTypedList(node.children[1])
  ELSE AsTypedList(node)

\* The Tcl value of a tree: a string, a list or a dict.
TclValue(kind, text, list) == [kind |-> kind, text |-> text, list |-> list]

\* A dict, as the sequence of its pairs; a name that is there already gets a new value.
DictObjPut(dict, pair) ==
  IF \E k \in DOMAIN dict : dict[k][1] = pair[1]
  THEN [k \in DOMAIN dict |-> IF dict[k][1] = pair[1] THEN pair ELSE dict[k]]
  ELSE Append(dict, pair)

RECURSIVE AsTclValue(_)
AsTclValue(node) ==
  LET children == Relevant(node)
      elements == SelectSeq(children, LAMBDA c : c.node = "element")
      texts == SelectSeq(children, LAMBDA c : c.node = "text")
  IN CASE node.node = "text" -> TclValue("string", node.value, <<>>)
       [] node.type = "ARRAY" ->
            TclValue("list", <<>>, [k \in DOMAIN children |-> AsTclValue(children[k])])
       [] node.type = "OBJECT" ->
            TclValue("dict", <<>>,
                     FoldLeft(DictObjPut, <<>>,
                       [k \in DOMAIN elements |-> <<elements[k].name, AsTclValue(elements[k])>>]))
       [] node.type = "NONE" ->
            TclValue("string", IF texts = <<>> THEN <<>> ELSE texts[1].value, <<>>)
       [] OTHER -> TclValue("string", <<>>, <<>>)

(* ---------------------------- from a typed list --------------------------- *)
Scalars == {"STRING", "NUMBER", "TRUE", "FALSE", "NULL"}

\* getJSONTypeFromList
ValidSymbol(l) ==
  /\ l.symbol \in Scalars \union {"OBJECT", "ARRAY"}
  /\ l.symbol = "NUMBER" => isJSONNumber(l.text)

RECURSIVE ValidTypedList(_)
ValidTypedList(l) ==
  /\ ValidSymbol(l)
  /\ l.symbol = "ARRAY" => \A k \in DOMAIN l.list : ValidTypedList(l.list[k])
  /\ l.symbol = "OBJECT" =>
       /\ Len(l.list) % 2 = 0
       /\ \A k \in DOMAIN l.list : k % 2 = 0 => ValidTypedList(l.list[k])

TypedText(l) == Text(l.symbol, IF l.symbol \in {"STRING", "NUMBER"} THEN l.text ELSE <<>>)

RECURSIVE Filled(_, _)
\* TypedList2DOMWorker
Filled(parent, l) ==
  LET half == Len(l.list) \div 2
      member(k) == LET p == Element(l.list[2 * k - 1].text, "NONE")
                       v == l.list[2 * k]
                   IN IF v.symbol \in Scalars THEN WithChild(p, TypedText(v)) ELSE Filled(p, v)
      item(v) == IF v.symbol \in Scalars THEN TypedText(v)
                 ELSE Filled(Element(IF v.symbol = "OBJECT" THEN ObjectContainer
                                     ELSE ArrayContainer, "NONE"), v)
  IN [parent EXCEPT !.type = l.symbol,
        !.children = IF l.symbol = "OBJECT" THEN [k \in 1..half |-> member(k)]
                     ELSE [k \in DOMAIN l.list |-> item(l.list[k])]]

TypedList2DOM(l) ==
  IF l.symbol \in Scalars THEN WithChild(Element(<<>>, "NONE"), TypedText(l))
  ELSE Filled(Element(<<>>, "NONE"), l)
=============================================================================
