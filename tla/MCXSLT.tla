------------------------------- MODULE MCXSLT -------------------------------
EXTENDS XSLT, XSLTNumbers, TLC

Plain(x) == [test |-> x, path |-> FALSE]
Step(x) == [test |-> x, path |-> TRUE]
MCTemplates ==
  {[pats |-> <<Plain("a")>>, mode |-> "none", prio |-> 1000],
   [pats |-> <<Plain("*")>>, mode |-> "none", prio |-> 0],
   [pats |-> <<Step("a"), Plain("*")>>, mode |-> "none", prio |-> 1000]}
MCPrograms == {<<<<"a", "variable">>>>, <<<<"a", "param">>, <<"b", "variable">>>>}

(* Nodes of every kind, some with names in a namespace.                       *)
Node(kind, local, up) == [kind |-> kind, prefix |-> "", uri |-> "", local |-> local, up |-> up]
MCSource ==
  <<Node("root", "", 0), Node("comment", "", 0), Node("element", "a", 0),
    Node("attribute", "k", 3), Node("attribute", "l", 3), Node("text", "", 3),
    Node("element", "b", 3), Node("element", "a", 7), Node("element", "b", 8), Node("element", "a", 7),
    Node("pi", <<"p">>, 3), Node("pi", <<"p", "q">>, 3), Node("cdata", "", 3),
    [Node("element", "a", 3) EXCEPT !.uri = "d"],
    [Node("element", "b", 3) EXCEPT !.prefix = "x", !.uri = "u"], Node("text", "", 15),
    Node("element", "b", 3), Node("comment", "", 0)>>

Numbering(format, level, v, group, current, count, from, bindings) ==
  [f |-> "number", format |-> format, level |-> level, value |-> v, group |-> group,
   current |-> current, count |-> count, from |-> from, bindings |-> bindings]
Group(sep, size) == [is |-> TRUE, sep |-> sep, size |-> size]
Bound == [x \in {"x"} |-> "u"]
FormatTexts ==
  {<<>>, <<"1">>, <<"0", "1">>, <<"0", "0", "1">>, <<"A">>, <<"a">>, <<"I">>, <<"i">>, <<"B">>,
   <<"1", ".", "1">>, <<"(", "1", ")">>, <<"(", "A", "-", "0", "1", ")">>, <<".">>, <<"1", "0">>,
   <<"1", "a">>, <<"A", "1">>, <<"0", "A">>, <<"1", ".", "0">>, <<"0", ".", "1">>, <<"0", "2">>}
Hundredths == {-500, 0, 49, 50, 149, 250} \cup {100 * v : v \in
  {1, 3, 4, 5, 8, 9, 14, 26, 27, 40, 52, 53, 90, 99, 100, 444, 702, 703, 728, 999, 1234, 1999, 3999,
   4000, 18278, 18279}}
OfValues ==
  {Numbering(format, "value", v, group, 1, OwnPattern, NoPattern, Bound) :
     format \in FormatTexts,
     v \in {Number(x) : x \in Hundredths} \cup {[Number(0) EXCEPT !.nan = TRUE]},
     group \in {NoGrouping, Group(<<",">>, 3), Group(<<>>, 2), Group(<<".", "-">>, 1), Group(<<",">>, 0)}}
Tests == {Test("*", "", ""), Test("@*", "", ""), Test("element", "", "a"), Test("element", "", "b"),
          Test("element", "u", "b"), Test("attribute", "", "l"), Test("text", "", ""), Test("comment", "", ""),
          Test("root", "", "")}
OfNodes ==
  {i \in {Numbering(format, level, Number(0), NoGrouping, current, count, from, Bound) :
            format \in {<<"1">>, <<"a", "-", "I">>, <<"(", "0", "1", ".", "i", "-", "A", ")">>},
            level \in {"single", "multiple", "any"}, current \in DOMAIN MCSource,
            count \in Tests \cup {OwnPattern},
            from \in {NoPattern, Test("element", "", "a"), Test("element", "", "b"),
                      Test("comment", "", ""), Test("root", "", "")}}
          \cup {Numbering(<<"1">>, level, Number(0), NoGrouping, current, OwnPattern, NoPattern, bindings) :
                  level \in {"single", "wrong"}, current \in DOMAIN MCSource,
                  bindings \in {<<>>, [x \in {"x"} |-> "v"]}} :
     Source[i.current].kind = "attribute" => i.count # OwnPattern}

Key(type, ascending, upperFirst, values) ==
  [type |-> type, ascending |-> ascending, upperFirst |-> upperFirst, values |-> values,
   select |-> "value", wrong |-> FALSE]
Word(s) == [text |-> s, nan |-> TRUE, x |-> 0]
Words == {Word(<<"a">>), Word(<<"A">>), Word(<<"a", "B">>), Word(<<"A", "b">>), Word(<<"b">>)}
Figures == {Number(1), Number(2), [Number(0) EXCEPT !.nan = TRUE]}
Sorting(keys, size) == [f |-> "sort", keys |-> keys, size |-> size]
Positions == [Key("number", TRUE, TRUE, <<>>) EXCEPT !.select = "position()"]
OneKey ==
  {Sorting(<<Key("text", asc, upper, values)>>, 4) :
     asc \in BOOLEAN, upper \in BOOLEAN, values \in [1 .. 4 -> Words]}
  \cup {Sorting(<<Key("number", asc, TRUE, values)>>, 5) : asc \in BOOLEAN, values \in [1 .. 5 -> Figures]}
TwoKeys ==
  {Sorting(<<Key("text", a1, TRUE, v1), Key("number", a2, TRUE, v2)>>, 3) :
     a1 \in BOOLEAN, a2 \in BOOLEAN, v1 \in [1 .. 3 -> {Word(<<"a">>), Word(<<"A">>), Word(<<"b">>)}],
     v2 \in [1 .. 3 -> {Number(1), Number(2)}]}
OfPositions ==
  {Sorting(keys, 2) : keys \in
     UNION {{<<Positions, Key("number", asc, TRUE, v)>>, <<Key("number", TRUE, TRUE, v),
         [Positions EXCEPT !.ascending = asc]>>,
             <<Positions>>, <<[Positions EXCEPT !.wrong = TRUE], Key("number", asc, TRUE, v)>>} :
              asc \in BOOLEAN, v \in [1 .. 2 -> Figures]}}
LongLists ==
  {Sorting(<<Key("number", asc, TRUE, [k \in 1 .. size |-> Number((step * k) % m)])>>, size) :
     asc \in BOOLEAN, size \in {9, 10, 11, 23}, step \in {1, 3, 7, 9}, m \in {2, 5, 10}}
MCInstructions == OfValues \cup OfNodes \cup OneKey \cup TwoKeys \cup OfPositions \cup LongLists

NoInstruction == [f |-> "none"]
NoNumbers == instruction = NoInstruction /\ formats = {} /\ outcome = NoOutcome
BothInit == \/ XSLTInit /\ NoNumbers
            \/ XSLTInit /\ NumbersInit /\ number[1] = 1
BothNext ==
  \/ instruction = NoInstruction /\ Next /\ UNCHANGED numberVars
  \/ instruction # NoInstruction /\ NumbersNext /\ UNCHANGED vars
BothSpec == BothInit /\ [][BothNext]_<<vars, numberVars>>
=============================================================================
