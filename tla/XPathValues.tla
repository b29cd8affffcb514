----------------------------- MODULE XPathValues -----------------------------
(* What the operators and the core functions of XPath compute: the result      *)
(* sets of generic/domxpath.c, their conversions, arithmetic and comparisons,  *)
(* xpathEvalFunction and the namespace axis.  A result set has one of nine     *)
(* types: the five for numbers, Bool, String, NodeSet and, for a node set with *)
(* no nodes, Empty.  The reference is XPath 1.0, which knows four.             *)
(*                                                                             *)
(* Numbers are counted in hundredths , strings are sequences of characters.    *)
(* Doubles that are no such number, negative zero and numbers of more than six *)
(* digits are left out.                                                        *)
EXTENDS Integers, Sequences, FiniteSets, SequencesExt, FiniteSetsExt

CONSTANT Applications  \* [f, args, ...]: functions and operators with their arguments

VARIABLES applied, value

valueVars == <<applied, value>>
Scale == 100

(* ------------------------------- numbers --------------------------------- *)
\* A double and what the code keeps beside it in NaN: 2, or the sign of an infinity.
Finite(d) == [nan |-> 0, d |-> d]
Infinite(sign) == [nan |-> sign, d |-> 0]
NotANumber == [nan |-> 2, d |-> 0]
SignOf(n) == IF n > 0 THEN 1 ELSE IF n < 0 THEN -1 ELSE 0
Magnitude(n) == IF n < 0 THEN -n ELSE n
DividedBy(i, j) == SignOf(i) * SignOf(j) * (Magnitude(i) \div Magnitude(j))
Truncated(d) == DividedBy(d, Scale)

(* ------------------------------ result sets ------------------------------ *)
Bool(v) == [type |-> "Bool", bool |-> v]
rsSetLong(i) == [type |-> "Int", num |-> Finite(i * Scale)]
rsSetReal(d) == [type |-> "Real", num |-> Finite(d)]
rsSetReal2(d) == IF d % Scale = 0 THEN rsSetLong(d \div Scale) ELSE rsSetReal(d)
rsSetSpecial(x) ==
  [type |-> CASE x.nan = 2 -> "NaN" [] x.nan = 1 -> "Inf" [] x.nan = -1 -> "NInf", num |-> x]
rsSetString(s) == [type |-> "String", string |-> s]
NodeSet(nodes) == IF nodes = <<>> THEN [type |-> "Empty"] ELSE [type |-> "NodeSet", nodes |-> nodes]
EvalError == [type |-> "error"]

NumberTypes == {"Int", "Real", "NaN", "Inf", "NInf"}
IsSet(rs) == rs.type \in {"NodeSet", "Empty"}
NodesOf(rs) == IF rs.type = "NodeSet" THEN rs.nodes ELSE <<>>

(* ------------------------------ conversions ------------------------------ *)
White == {" ", "\n"}
DigitChars == <<"0", "1", "2", "3", "4", "5", "6", "7", "8", "9">>
IsDigit(c) == c \in ToSet(DigitChars)
DigitValue(c) == (CHOOSE i \in 1 .. 10 : DigitChars[i] = c) - 1
Upto(s, len) == SubSeq(s, 1, Min({len, Len(s)}))
Rest(s, from) == SubSeq(s, from + 1, Len(s))
Solid(s) == {i \in DOMAIN s : s[i] \notin White}
Unpadded(s) == IF Solid(s) = {} THEN <<>> ELSE SubSeq(s, Min(Solid(s)), Max(Solid(s)))
Dots(s) == {i \in DOMAIN s : s[i] = "."}

\* strtod: the digits before the dot, and up to two behind it.
DecimalValue(s) ==
  LET dot == Min(Dots(s) \cup {Len(s) + 1})
      whole == FoldLeft(LAMBDA n, c : 10 * n + DigitValue(c), 0, SubSeq(s, 1, dot - 1))
      places == <<10, 1>>
      at(k) == IF dot + k <= Len(s) THEN DigitValue(s[dot + k]) * places[k] ELSE 0
  IN Scale * whole + at(1) + at(2)

IsUnsigned(s) ==
  /\ \E i \in DOMAIN s : IsDigit(s[i])
  /\ \A i \in DOMAIN s : IsDigit(s[i]) \/ s[i] = "."
  /\ Cardinality(Dots(s)) <= 1

\* Mutant: behind white space at the end nothing more is looked at.
xpathStringToNumberMutTail(s) ==
  LET solid == Solid(s)
      word == IF solid = {} THEN <<>>
              ELSE SubSeq(s, Min(solid), Min({i \in DOMAIN s : i > Min(solid) /\ i \notin solid}
                                             \cup {Len(s) + 1}) - 1)
      negative == word # <<>> /\ word[1] = "-"
      body == IF negative THEN Tail(word) ELSE word
  IN IF ~IsUnsigned(body) \/ (negative /\ body[1] = ".") THEN NotANumber
     ELSE Finite((IF negative THEN -1 ELSE 1) * DecimalValue(body))

\* Behind a minus sign there has to be a digit.
xpathStringToNumber(s) ==
  LET word == Unpadded(s)
      negative == word # <<>> /\ word[1] = "-"
      body == IF negative THEN Tail(word) ELSE word
  IN IF ~IsUnsigned(body) \/ (negative /\ body[1] = ".") THEN NotANumber
     ELSE Finite((IF negative THEN -1 ELSE 1) * DecimalValue(body))

\* An element has the text nodes below it, but not its CDATA sections.
RECURSIVE xpathGetStringValueForElement(_)
xpathGetStringValueForElement(n) ==
  CASE n.kind = "element" ->
         FlattenSeq([i \in DOMAIN n.kids |-> xpathGetStringValueForElement(n.kids[i])])
    [] n.kind = "text" -> n.text
    [] OTHER -> <<>>
xpathGetStringValue(n) ==
  IF n.kind = "element" THEN xpathGetStringValueForElement(n) ELSE n.text

xpathFuncNumber(rs) ==
  CASE rs.type = "Bool" -> Finite(IF rs.bool THEN Scale ELSE 0)
    [] rs.type \in NumberTypes -> rs.num
    [] rs.type = "String" -> xpathStringToNumber(rs.string)
    [] rs.type = "NodeSet" -> xpathStringToNumber(xpathGetStringValue(rs.nodes[1]))
    [] rs.type = "Empty" -> NotANumber

ToBoolean(rs) ==
  CASE rs.type = "Bool" -> rs.bool
    [] rs.type \in NumberTypes -> rs.num # NotANumber /\ rs.num # Finite(0)
    [] rs.type = "String" -> rs.string # <<>>
    [] IsSet(rs) -> NodesOf(rs) # <<>>

RECURSIVE DigitsOf(_)
DigitsOf(n) == (IF n < 10 THEN <<>> ELSE DigitsOf(n \div 10)) \o <<DigitChars[(n % 10) + 1]>>
Fraction(d) ==
  LET all == SubSeq(DigitsOf(Scale + d), 2, 3)
      last == Max({0} \cup {i \in 1 .. 2 : all[i] # "0"})
  IN IF last = 0 THEN <<>> ELSE <<".">> \o SubSeq(all, 1, last)
\* sprintf of an integer, and of a double with %g.
Printed(d) == (IF d < 0 THEN <<"-">> ELSE <<>>) \o DigitsOf(Magnitude(d) \div Scale)
                \o Fraction(Magnitude(d) % Scale)
\* The zeros at the end are cut off, also those of a number without a fraction.
StripZeros(s) == SubSeq(s, 1, Max({0} \cup {i \in DOMAIN s : s[i] # "0"}))

Spelt(word) ==
  CASE word = "true" -> <<"t", "r", "u", "e">>
    [] word = "false" -> <<"f", "a", "l", "s", "e">>
    [] word = "NaN" -> <<"N", "a", "N">>
    [] word = "Inf" -> <<"I", "n", "f", "i", "n", "i", "t", "y">>
    [] word = "NInf" -> <<"-", "I", "n", "f", "i", "n", "i", "t", "y">>

xpathFuncString(rs) ==
  CASE rs.type = "Bool" -> Spelt(IF rs.bool THEN "true" ELSE "false")
    [] rs.type = "Int" -> Printed(rs.num.d)
    [] rs.type = "Real" -> StripZeros(Printed(rs.num.d))
    [] rs.type \in {"NaN", "Inf", "NInf"} -> Spelt(rs.type)
    [] rs.type = "String" -> rs.string
    [] rs.type = "NodeSet" -> xpathGetStringValue(rs.nodes[1])
    [] rs.type = "Empty" -> <<>>

(* ------------------------------ arithmetic ------------------------------- *)
Infinity(sign) == rsSetSpecial(Infinite(sign))
NaNSet == rsSetSpecial(NotANumber)
Sum2(s, t) == IF s = t THEN Infinity(s) ELSE IF s + t # 0 THEN Infinity(s + t) ELSE NaNSet

InfiniteArithmetic(op, x, y) ==
  LET both == x.nan # 0 /\ y.nan # 0
      zero(z) == z = Finite(0)
  IN CASE op = "+" -> Sum2(x.nan, y.nan)
       [] op = "-" -> Sum2(x.nan, -y.nan)
       [] op = "*" -> IF zero(x) \/ zero(y) THEN NaNSet
                      ELSE IF both THEN Infinity(x.nan * y.nan)
                      ELSE Infinity(IF x.nan # 0 THEN x.nan * SignOf(y.d) ELSE y.nan * SignOf(x.d))
       [] op = "div" -> IF both THEN NaNSet
                        ELSE IF y.nan # 0 THEN rsSetLong(0)
                        ELSE Infinity(IF y.d = 0 THEN x.nan ELSE x.nan * SignOf(y.d))
       [] op = "mod" -> NaNSet

\* mod is that of C for the operands without their fractions.
FiniteArithmetic(op, a, b) ==
  CASE op = "+" -> rsSetReal(a + b)
    [] op = "-" -> rsSetReal(a - b)
    [] op = "*" -> rsSetReal(DividedBy(a * b, Scale))
    [] op = "div" -> IF b # 0 THEN rsSetReal(DividedBy(a * Scale, b))
                     ELSE IF a = 0 THEN NaNSet ELSE Infinity(SignOf(a))
    [] op = "mod" -> LET i == Truncated(a)
                         j == Truncated(b)
                     IN IF j = 0 THEN NaNSet ELSE rsSetLong(i - j * DividedBy(i, j))

Arithmetic(op, l, r) ==
  LET x == xpathFuncNumber(l)
      y == xpathFuncNumber(r)
  IN IF NotANumber \in {x, y} THEN NaNSet
     ELSE IF x.nan # 0 \/ y.nan # 0 THEN InfiniteArithmetic(op, x, y)
     ELSE FiniteArithmetic(op, x.d, y.d)

UnaryMinus(l) ==
  LET x == xpathFuncNumber(l)
  IN CASE x.nan = 0 -> rsSetReal(-x.d) [] x.nan = 2 -> NaNSet [] OTHER -> Infinity(-x.nan)

(* ------------------------------ comparisons ------------------------------ *)
NodeNumber(n) == xpathStringToNumber(xpathGetStringValue(n))
\* The operator is "=" or "!=", of what is equal or not.
Decides(op, equal) == equal = (op = "=")

EqualityWithSet(op, set, other) ==
  LET s == xpathFuncString(other)
      x == xpathFuncNumber(other)
      number(n) == NodeNumber(n).nan = 0 /\ Decides(op, NodeNumber(n) = x)
      string(n) == Decides(op, xpathGetStringValue(n) = s)
      nodes(n) == \E j \in DOMAIN other.nodes :
                    Decides(op, xpathGetStringValue(n) = xpathGetStringValue(other.nodes[j]))
  IN CASE other.type \in {"Empty", "NaN", "Inf", "NInf"} -> FALSE
       [] other.type = "Bool" -> Decides(op, other.bool)
       [] other.type = "NodeSet" -> \E n \in ToSet(set.nodes) : nodes(n)
       [] other.type \in {"Int", "Real"} -> \E n \in ToSet(set.nodes) : number(n)
       [] other.type = "String" -> \E n \in ToSet(set.nodes) : string(n)

Equality(op, l, r) ==
  LET either(types) == l.type \in types \/ r.type \in types
      x == xpathFuncNumber(l)
      y == xpathFuncNumber(r)
  IN Bool(CASE l.type = "NodeSet" -> EqualityWithSet(op, l, r)
            [] l.type # "NodeSet" /\ r.type = "NodeSet" -> EqualityWithSet(op, r, l)
            [] ~either({"NodeSet"}) /\ either({"Bool"}) -> Decides(op, ToBoolean(l) = ToBoolean(r))
            [] ~either({"NodeSet", "Bool"}) /\ either({"Empty"}) -> FALSE
            [] ~either({"NodeSet", "Bool", "Empty"}) /\ either(NumberTypes) ->
                 Decides(op, x = y /\ x # NotANumber)
            [] OTHER -> Decides(op, xpathFuncString(l) = xpathFuncString(r)))

\* An infinity is compared as the largest double.
Largest == 1000000 * Scale
AsDouble(x) == IF x.nan = 0 THEN x.d ELSE x.nan * Largest
Less(op, a, b) == CASE op = "<" -> a < b [] op = "<=" -> a <= b [] op = ">" -> a > b [] op = ">=" -> a >= b

\* With the set on the right the two doubles are swapped for the comparison, and
\* not swapped back for the next node.
SwappedScan(op, d, nodes) ==
  FoldLeft(LAMBDA st, n :
             IF st.res \/ NodeNumber(n).nan # 0 THEN st
             ELSE [d |-> NodeNumber(n).d, res |-> Less(op, st.d, NodeNumber(n).d)],
           [d |-> d, res |-> FALSE], nodes).res

RelationalWithSet(op, set, other, swapped) ==
  LET x == xpathFuncNumber(other)
      one == Less(op, Scale, x.d)
      below(n) == NodeNumber(n).nan = 0 /\ Less(op, NodeNumber(n).d, AsDouble(x))
      nodes(n) == NodeNumber(n).nan = 0 /\ \E j \in DOMAIN other.nodes :
                    LET y == NodeNumber(other.nodes[j]) IN y.nan = 0 /\ Less(op, NodeNumber(n).d, y.d)
  IN CASE other.type = "Empty" -> FALSE
       [] other.type = "NodeSet" -> \E n \in ToSet(set.nodes) : nodes(n)
       [] other.type = "Bool" -> one # swapped
       [] other.type \in NumberTypes \cup {"String"} ->
            /\ x # NotANumber
            /\ IF swapped THEN SwappedScan(op, AsDouble(x), set.nodes)
               ELSE \E n \in ToSet(set.nodes) : below(n)

Relational(op, l, r) ==
  LET x == xpathFuncNumber(l)
      y == xpathFuncNumber(r)
  IN Bool(CASE l.type = "NodeSet" -> RelationalWithSet(op, l, r, FALSE)
            [] l.type # "NodeSet" /\ r.type = "NodeSet" -> RelationalWithSet(op, r, l, TRUE)
            [] OTHER -> /\ "Empty" \notin {l.type, r.type} /\ NotANumber \notin {x, y}
                        /\ Less(op, AsDouble(x), AsDouble(y)))

\* And and Or do not look at the right operand when the left one decides.
Logical(op, l, r) ==
  IF ToBoolean(l) = (op = "or") THEN Bool(op = "or") ELSE Bool(ToBoolean(r))

(* ------------------------- functions of numbers -------------------------- *)
ToResult(x) == IF x.nan = 0 THEN rsSetReal(x.d) ELSE rsSetSpecial(x)
xpathRound(d) == IF d < 0 THEN (d + Scale \div 2) \div Scale ELSE Truncated(d + Scale \div 2)
Rounded(f, x) ==
  IF x.nan # 0 THEN rsSetSpecial(x)
  ELSE rsSetReal2(Scale * CASE f = "floor" -> x.d \div Scale
                            [] f = "ceiling" -> -((-x.d) \div Scale)
                            [] f = "round" -> xpathRound(x.d))

SumOf(rs) ==
  LET numbers == [i \in DOMAIN NodesOf(rs) |-> NodeNumber(rs.nodes[i])]
  IN CASE ~IsSet(rs) -> EvalError
       [] rs.type = "Empty" -> rsSetLong(0)
       [] NotANumber \in ToSet(numbers) -> NaNSet
       [] OTHER -> rsSetReal(FoldLeft(LAMBDA d, x : d + x.d, 0, numbers))
CountOf(rs) == IF IsSet(rs) THEN rsSetLong(Len(NodesOf(rs))) ELSE EvalError

(* ------------------------- functions of strings -------------------------- *)
\* White space becomes a blank unless it follows another.
NormalizeSpace(s) ==
  LET blank(out) == out = <<>> \/ Last(out) = " "
      out == FoldLeft(LAMBDA out, c : IF c \notin White THEN Append(out, c)
                                      ELSE IF blank(out) THEN out ELSE Append(out, " "), <<>>, s)
  IN IF out # <<>> /\ Last(out) = " " THEN Front(out) ELSE out

LastString(rs) ==
  IF rs.type = "NodeSet" THEN xpathGetStringValue(Last(rs.nodes)) ELSE xpathFuncString(rs)

\* strstr: the places where t begins in s.
Found(s, t) == {i \in 1 .. Len(s) - Len(t) + 1 : SubSeq(s, i, i + Len(t) - 1) = t}
TwoStrings(f, s, t) ==
  LET at == Min(Found(s, t))
  IN CASE f = "starts-with" -> Bool(IsPrefix(t, s))
       [] f = "contains" -> Bool(Found(s, t) # {})
       [] Found(s, t) = {} -> rsSetString(<<>>)
       [] f = "substring-before" -> rsSetString(SubSeq(s, 1, at - 1))
       [] f = "substring-after" -> rsSetString(SubSeq(s, at + Len(t), Len(s)))

Translate(s, from, to) ==
  FlattenSeq([i \in DOMAIN s |->
    LET at == {j \in DOMAIN from : from[j] = s[i]}
    IN IF at = {} THEN <<s[i]>> ELSE IF Min(at) \in DOMAIN to THEN <<to[Min(at)]>> ELSE <<>>])

SubstringFrom(s, x) ==
  IF x.nan # 0 THEN <<>> ELSE Rest(s, Max({0, xpathRound(x.d) - 1}))
\* An infinite length is converted to an integer, which the standard leaves
\* open, and added to a start before the string: that may come out negative.
SubstringOfLength(s, x, y) ==
  LET from == xpathRound(x.d) - 1
      len == xpathRound(y.d) + Min({from, 0})
  IN CASE x.nan # 0 \/ y.nan \in {2, -1} -> {<<>>}
       [] x.nan = 0 /\ y.nan = 1 -> IF from < 0 THEN {<<>>, s} ELSE {Rest(s, from)}
       [] x.nan = 0 /\ y.nan = 0 -> {Upto(Rest(s, Max({from, 0})), len)}

(* -------------------------- functions of nodes --------------------------- *)
Lower(s) == [i \in DOMAIN s |-> IF s[i] = "E" THEN "e" ELSE s[i]]
FirstSubtag(s) == SubSeq(s, 1, Min({i \in DOMAIN s : s[i] = "-"} \cup {Len(s) + 1}) - 1)
\* The nearest xml:lang decides.
Lang(ctx, wanted) ==
  ctx.langs # <<>> /\ Lower(wanted) \in {Lower(ctx.langs[1]), FirstSubtag(Lower(ctx.langs[1]))}

\* idSplitAndAdd: words are looked up as they end.
IdWords(s) ==
  LET st == FoldLeft(LAMBDA now, c :
                       IF c \in White THEN [words |-> now.words \cup {now.word}, word |-> <<>>]
                       ELSE [now EXCEPT !.word = Append(@, c)],
                     [words |-> {}, word |-> <<>>], s)
  IN st.words \cup {st.word}
\* ctx.ids has the elements with an id in document order.
Id(ctx, rs) ==
  LET words == IF IsSet(rs)
               THEN UNION {IdWords(xpathGetStringValue(n)) : n \in ToSet(NodesOf(rs))}
               ELSE IdWords(xpathFuncString(rs))
  IN NodeSet(SelectSeq(ctx.ids, LAMBDA n : n.id \in words))

xmlns == <<"x", "m", "l", "n", "s">>
QName(n) == (IF n.prefix = <<>> THEN <<>> ELSE n.prefix \o <<":">>) \o n.local
TargetBuffer == 79
\* A namespace node is the attribute that declares it.
NameOf(f, n) ==
  CASE f = "namespace-uri" -> IF n.kind \in {"element", "attribute"} THEN n.uri ELSE <<>>
    [] n.kind = "pi" -> Upto(n.local, TargetBuffer)
    [] f = "local-name" /\ n.kind \in {"element", "attribute", "namespace"} ->
         IF n.kind # "element" /\ n.local = xmlns THEN <<>> ELSE n.local
    [] f = "name" /\ n.kind = "namespace" -> IF n.prefix = <<>> THEN <<>> ELSE n.local
    [] f = "name" /\ n.kind \in {"element", "attribute"} -> QName(n)
    [] OTHER -> <<>>
NameFunction(f, rs) ==
  CASE rs.type = "Empty" -> rsSetString(<<>>)
    [] rs.type = "NodeSet" -> rsSetString(NameOf(f, rs.nodes[1]))
    [] OTHER -> EvalError

\* ctx.scopes has the declarations [prefix, uri] of the element and those around
\* it, the root at last; the test is "*" or a prefix.  Declarations are taken
\* from the inside to the outside, one of each name.
AxisNamespace(ctx, test) ==
  LET all == FlattenSeq(ctx.scopes)
      declared == SelectSeq(all, LAMBDA ns : ns.prefix = test)
      wanted == IF test = <<"*">> THEN all
                ELSE IF declared = <<>> THEN <<>>
                ELSE SelectSeq(all, LAMBDA ns : ns.uri = declared[1].uri)
  IN FoldLeft(LAMBDA set, ns : IF \E other \in set : other.prefix = ns.prefix THEN set
                               ELSE set \cup {ns}, {}, wanted)

(* nodeToXPath: a step for each node on the way, [test, index], index 0 when *)
(* it needs none.  The name of a node is read from a field that holds the    *)
(* value of a text node or the target of an instruction, without an end: the *)
(* memory behind it says whether it ends there.                              *)
NodeName(n) == CASE n.kind = "element" -> QName(n) [] n.kind = "pi" -> n.local [] OTHER -> n.text
IndexIn(alike, i) ==
  IF Cardinality(alike) = 1 THEN 0 ELSE Cardinality({j \in alike : j <= i})
StepTo(kids, i, legacy, ended) ==
  LET n == kids[i]
      ofKind == {j \in DOMAIN kids : kids[j].kind = n.kind}
      ofName == {j \in DOMAIN kids : /\ NodeName(kids[j]) = NodeName(n)
                                     /\ kids[j].kind = "element" \/ ended}
  IN CASE n.kind = "cdata" -> <<>>
       [] n.kind = "element" /\ n.uri # <<>> /\ ~legacy ->
            <<[test |-> <<"*">>, index |-> IndexIn(ofKind, i)]>>
       [] n.kind = "element" /\ (n.uri = <<>> \/ legacy) ->
            <<[test |-> QName(n), index |-> IndexIn(ofName, i)]>>
       [] OTHER -> <<[test |-> <<n.kind>>, index |-> IndexIn(ofKind, i)]>>
RECURSIVE nodeToXPath(_, _, _, _)
\* A node is given by its place among its siblings, after that of its parent.
nodeToXPath(kids, address, legacy, ended) ==
  StepTo(kids, address[1], legacy, ended)
    \o IF Len(address) = 1 THEN <<>>
       ELSE nodeToXPath(kids[address[1]].kids, Tail(address), legacy, ended)

(* ---------------------------- xpathEvalFunction -------------------------- *)
ArityOf(f) ==
  CASE f \in {"true", "false"} -> {0}
    [] f \in {"number", "string", "normalize-space", "string-length", "laststring",
              "local-name", "name", "namespace-uri"} -> {0, 1}
    [] f \in {"starts-with", "contains", "substring-before", "substring-after"} -> {2}
    [] f = "concat" -> {2, 3}
    [] f = "substring" -> {2, 3}
    [] f = "translate" -> {3}
    [] OTHER -> {1}
Argument(a) == IF a.args = <<>> THEN NodeSet(<<a.ctx>>) ELSE a.args[1]
Strings(a) == [i \in DOMAIN a.args |-> xpathFuncString(a.args[i])]

NumberFunction(a) ==
  CASE a.f = "number" -> ToResult(xpathFuncNumber(Argument(a)))
    [] a.f \in {"floor", "ceiling", "round"} -> Rounded(a.f, xpathFuncNumber(Argument(a)))
    [] a.f = "sum" -> SumOf(Argument(a))
    [] a.f = "count" -> CountOf(Argument(a))
    [] a.f = "string-length" -> rsSetLong(Len(xpathFuncString(Argument(a))))
BooleanFunction(a) ==
  CASE a.f \in {"true", "false"} -> Bool(a.f = "true")
    [] a.f = "boolean" -> Bool(ToBoolean(Argument(a)))
    [] a.f = "not" -> Bool(~ToBoolean(Argument(a)))
    [] a.f = "lang" -> Bool(Lang(a.ctx, xpathFuncString(Argument(a))))
StringFunction(a) ==
  CASE a.f = "string" -> rsSetString(xpathFuncString(Argument(a)))
    [] a.f = "laststring" -> rsSetString(NormalizeSpace(LastString(Argument(a))))
    [] a.f = "normalize-space" -> rsSetString(NormalizeSpace(xpathFuncString(Argument(a))))
    [] a.f = "concat" -> rsSetString(FlattenSeq(Strings(a)))
    [] a.f = "translate" -> rsSetString(Translate(Strings(a)[1], Strings(a)[2], Strings(a)[3]))
SubstringFunction(a) ==
  LET s == xpathFuncString(a.args[1])
      x == xpathFuncNumber(a.args[2])
  IN {rsSetString(t) : t \in IF Len(a.args) = 2 THEN {SubstringFrom(s, x)}
                             ELSE SubstringOfLength(s, x, xpathFuncNumber(a.args[3]))}
xpathEvalFunction(a) ==
  CASE Len(a.args) \notin ArityOf(a.f) -> {EvalError}
    [] Len(a.args) \in ArityOf(a.f) /\ a.f = "substring" -> SubstringFunction(a)
    [] OTHER -> {
         CASE a.f \in {"number", "floor", "ceiling", "round", "sum", "count", "string-length"} ->
                NumberFunction(a)
           [] a.f \in {"true", "false", "boolean", "not", "lang"} -> BooleanFunction(a)
           [] a.f \in {"string", "laststring", "normalize-space", "concat", "translate"} ->
                StringFunction(a)
           [] a.f \in {"local-name", "name", "namespace-uri"} -> NameFunction(a.f, Argument(a))
           [] a.f = "id" -> Id(a.ctx, Argument(a))
           [] OTHER -> TwoStrings(a.f, Strings(a)[1], Strings(a)[2])}

Operations == {"+", "-", "*", "div", "mod"}
Relations == {"<", "<=", ">", ">="}
\* What the evaluation of the operator or function a may come to.
Outcomes(a) ==
  CASE a.f \in Operations /\ Len(a.args) = 2 -> {Arithmetic(a.f, a.args[1], a.args[2])}
    [] a.f = "-" /\ Len(a.args) = 1 -> {UnaryMinus(a.args[1])}
    [] a.f \in {"=", "!="} -> {Equality(a.f, a.args[1], a.args[2])}
    [] a.f \in Relations -> {Relational(a.f, a.args[1], a.args[2])}
    [] a.f \in {"and", "or"} -> {Logical(a.f, a.args[1], a.args[2])}
    [] a.f = "namespace::" -> {[type |-> "namespaces", of |-> AxisNamespace(a.ctx, a.args[1])]}
    [] a.f = "toXPath" ->
         {[type |-> "path", steps |-> nodeToXPath(a.args[1], a.args[2], a.args[3], ended)] : ended \in BOOLEAN}
    [] OTHER -> xpathEvalFunction(a)

(* ------------------------------- XPath 1.0 ------------------------------- *)
RECURSIVE StdStringValue(_)
StdStringValue(n) ==
  IF n.kind \in {"element", "root"}
  THEN FlattenSeq([i \in DOMAIN n.kids |->
         IF n.kids[i].kind \in {"element", "text", "cdata"} THEN StdStringValue(n.kids[i]) ELSE <<>>])
  ELSE n.text
StdStringToNumber(s) ==
  LET word == Unpadded(s)
      negative == IsPrefix(<<"-">>, word)
      digits == IF negative THEN Tail(word) ELSE word
  IN IF ~IsUnsigned(digits) THEN NotANumber
     ELSE Finite(IF negative THEN -DecimalValue(digits) ELSE DecimalValue(digits))
StdString(rs) ==
  CASE rs.type \in {"Int", "Real"} -> Printed(rs.num.d)
    [] rs.type = "NodeSet" -> StdStringValue(rs.nodes[1])
    [] OTHER -> xpathFuncString(rs)
StdNumber(rs) ==
  CASE rs.type = "Bool" -> IF rs.bool THEN Finite(Scale) ELSE Finite(0)
    [] rs.type \in NumberTypes -> rs.num
    [] OTHER -> StdStringToNumber(StdString(rs))
StdBoolean(rs) ==
  CASE rs.type = "Bool" -> rs.bool
    [] rs.type \in NumberTypes -> rs.num \notin {NotANumber, Finite(0)}
    [] rs.type = "String" -> rs.string # <<>>
    [] IsSet(rs) -> rs.type # "Empty"

\* The arithmetic of IEEE 754, and % of XPath.
StdSign(x) == IF x.nan = 0 THEN SignOf(x.d) ELSE x.nan
StdNegative(x) == IF x = NotANumber THEN x ELSE [nan |-> -x.nan, d |-> -x.d]
StdSum(x, y) ==
  CASE NotANumber \in {x, y} \/ x.nan * y.nan = -1 -> NotANumber
    [] x.nan = 0 /\ y.nan = 0 -> Finite(x.d + y.d)
    [] OTHER -> IF x.nan # 0 THEN x ELSE y
StdProduct(x, y) ==
  CASE NotANumber \in {x, y} \/ (x.nan + y.nan # 0 /\ Finite(0) \in {x, y}) -> NotANumber
    [] x.nan = 0 /\ y.nan = 0 -> Finite(DividedBy(x.d * y.d, Scale))
    [] OTHER -> Infinite(StdSign(x) * StdSign(y))
StdQuotient(x, y) ==
  CASE NotANumber \in {x, y} \/ (x.nan # 0 /\ y.nan # 0) \/ (x = Finite(0) /\ y = Finite(0)) -> NotANumber
    [] x.nan = 0 /\ y.nan # 0 -> Finite(0)
    [] x.nan = 0 /\ y.nan = 0 /\ y.d # 0 -> Finite(DividedBy(x.d * Scale, y.d))
    [] OTHER -> Infinite(StdSign(x) * IF y.d < 0 THEN -1 ELSE 1)
StdRemainder(x, y) ==
  CASE NotANumber \in {x, y} \/ x.nan # 0 \/ y = Finite(0) -> NotANumber
    [] x.nan = 0 /\ y.nan # 0 -> x
    [] OTHER -> Finite(x.d - y.d * DividedBy(x.d, y.d))
StdOperation(op, x, y) ==
  CASE op = "+" -> StdSum(x, y)
    [] op = "-" -> StdSum(x, StdNegative(y))
    [] op = "*" -> StdProduct(x, y)
    [] op = "div" -> StdQuotient(x, y)
    [] op = "mod" -> StdRemainder(x, y)

\* XPath 3.4.  A node set is compared by what its nodes are, but with a boolean.
StdCompare(op, x, y) ==
  LET below(v, w) == v.nan < w.nan \/ (v.nan = w.nan /\ v.d < w.d)
  IN IF NotANumber \in {x, y} THEN op = "!="
     ELSE CASE op = "=" -> x = y [] op = "!=" -> x # y [] op = "<" -> below(x, y)
            [] op = ">" -> below(y, x) [] op = "<=" -> ~below(y, x) [] op = ">=" -> ~below(x, y)
StdAtoms(rs, other) ==
  IF ~IsSet(rs) THEN {rs}
  ELSE IF other.type = "Bool" THEN {Bool(StdBoolean(rs))}
  ELSE {rsSetString(StdStringValue(n)) : n \in ToSet(NodesOf(rs))}
StdRelate(op, u, v) ==
  IF op \in Relations \/ ("Bool" \notin {u.type, v.type} /\ {u.type, v.type} \cap NumberTypes # {})
  THEN StdCompare(op, StdNumber(u), StdNumber(v))
  ELSE IF "Bool" \in {u.type, v.type} THEN (StdBoolean(u) = StdBoolean(v)) = (op = "=")
  ELSE (u.string = v.string) = (op = "=")

StdRounded(f, x) ==
  IF x.nan # 0 THEN x
  ELSE Finite(Scale * ((x.d + CASE f = "floor" -> 0 [] f = "ceiling" -> Scale - 1 [] f = "round" -> Scale \div 2)
                       \div Scale))
StdNormalized(s) ==
  LET stays(i) == i \in Solid(s) \/ (i + 1 \in Solid(s) /\ i > Min(Solid(s)))
      kept == SelectSeq([i \in DOMAIN s |-> i], stays)
  IN [k \in DOMAIN kept |-> IF s[kept[k]] \in White THEN " " ELSE s[kept[k]]]
StdSplits(s, t) == {k \in 0 .. Len(s) : IsPrefix(t, Rest(s, k))}
StdSubstring(s, x, y) ==
  LET from == StdRounded("round", x)
      place(p) == Finite(p * Scale)
  IN SelectSeq([p \in DOMAIN s |-> [at |-> p, char |-> s[p]]],
       LAMBDA c : /\ StdCompare(">=", place(c.at), from)
                  /\ y # <<>> => StdCompare("<", place(c.at), StdSum(from, StdRounded("round", y[1]))))
StdTranslated(c, from, to) ==
  IF ~\E j \in DOMAIN from : from[j] = c THEN <<c>>
  ELSE LET j == CHOOSE j \in DOMAIN from : from[j] = c /\ \A i \in 1 .. j - 1 : from[i] # c
       IN IF j \in DOMAIN to THEN <<to[j]>> ELSE <<>>
StdLang(ctx, wanted) ==
  ctx.langs # <<>> /\ LET has == Lower(ctx.langs[1])
                      IN has = Lower(wanted) \/ IsPrefix(Append(Lower(wanted), "-"), has)
StdWords(s) ==
  {w \in {SubSeq(s, i, j) : i, j \in Solid(s)} :
     w # <<>> /\ \E i, j \in Solid(s) : /\ w = SubSeq(s, i, j) /\ i .. j \subseteq Solid(s)
                                        /\ i - 1 \notin Solid(s) /\ j + 1 \notin Solid(s)}
StdId(ctx, rs) ==
  LET words == UNION {StdWords(s) : s \in IF IsSet(rs) THEN {StdStringValue(n) : n \in ToSet(NodesOf(rs))}
                                          ELSE {StdString(rs)}}
  IN SelectSeq(ctx.ids, LAMBDA n : n.id \in words)
StdName(f, n) ==
  CASE f = "namespace-uri" -> n.uri
    [] n.kind = "namespace" -> IF n.prefix = <<>> THEN <<>> ELSE n.local
    [] f = "local-name" /\ n.kind # "namespace" -> n.local
    [] f = "name" /\ n.kind # "namespace" -> QName(n)
StdNamespaces(ctx, test) ==
  LET all == FlattenSeq(ctx.scopes)
  IN {all[i] : i \in {j \in DOMAIN all :
       /\ \A k \in 1 .. j - 1 : all[k].prefix # all[j].prefix
       /\ all[j].uri # <<>> /\ (test = <<"*">> \/ test = all[j].prefix)}}

\* The nodes below kids, as addresses, that a path of steps selects.
RECURSIVE Selected(_, _)
Selected(kids, path) ==
  IF path = <<>> THEN {<<>>}
  ELSE LET fits(n) == LET test == Head(path).test
                      IN IF n.kind = "element" THEN test \in {<<"*">>, QName(n)} ELSE test = <<n.kind>>
           all == {i \in DOMAIN kids : fits(kids[i])}
           at(i) == Head(path).index \in {0, Cardinality({j \in all : j <= i})}
       IN UNION {{<<i>> \o rest : rest \in Selected(kids[i].kids, Tail(path))} : i \in {j \in all : at(j)}}

\* What a value stands for: the number types of the code are one.
Number(x) == [is |-> "number", number |-> x]
String(s) == [is |-> "string", string |-> s]
Boolean(b) == [is |-> "boolean", boolean |-> b]
Nodes(set) == [is |-> "nodes", nodes |-> set]
Failure == [is |-> "error"]
Meaning(a, v) ==
  CASE v.type \in NumberTypes -> Number(v.num)
    [] v.type = "String" -> String(v.string)
    [] v.type = "Bool" -> Boolean(v.bool)
    [] IsSet(v) -> Nodes(NodesOf(v))
    [] v.type = "namespaces" -> Nodes(v.of)
    [] v.type = "path" -> Nodes(Selected(a.args[1], v.steps))
    [] v.type = "error" -> Failure

StdStrings(a) == [i \in DOMAIN a.args |-> StdString(a.args[i])]
StdOfSet(f, rs) ==
  CASE ~IsSet(rs) -> Failure
    [] IsSet(rs) /\ f = "count" -> Number(Finite(Scale * Len(NodesOf(rs))))
    [] IsSet(rs) /\ f = "sum" ->
         Number(FoldLeft(LAMBDA x, n : StdSum(x, StdStringToNumber(StdStringValue(n))), Finite(0),
             NodesOf(rs)))
    [] OTHER -> String(IF NodesOf(rs) = <<>> THEN <<>> ELSE StdName(f, rs.nodes[1]))
StdOfStrings(f, s, t) ==
  CASE f = "starts-with" -> Boolean(0 \in StdSplits(s, t))
    [] f = "contains" -> Boolean(StdSplits(s, t) # {})
    [] StdSplits(s, t) = {} -> String(<<>>)
    [] f = "substring-before" -> String(SubSeq(s, 1, Min(StdSplits(s, t))))
    [] f = "substring-after" -> String(Rest(s, Min(StdSplits(s, t)) + Len(t)))
StdFunction(a) ==
  CASE Len(a.args) \notin ArityOf(a.f) -> Failure
    [] a.f = "number" -> Number(StdNumber(Argument(a)))
    [] a.f \in {"floor", "ceiling", "round"} -> Number(StdRounded(a.f, StdNumber(a.args[1])))
    [] a.f = "string-length" -> Number(Finite(Scale * Len(StdString(Argument(a)))))
    [] a.f \in {"true", "false"} -> Boolean(a.f = "true")
    [] a.f \in {"boolean", "not"} -> Boolean(StdBoolean(a.args[1]) = (a.f = "boolean"))
    [] a.f = "lang" -> Boolean(StdLang(a.ctx, StdString(a.args[1])))
    [] a.f = "string" -> String(StdString(Argument(a)))
    [] a.f = "normalize-space" -> String(StdNormalized(StdString(Argument(a))))
    [] a.f = "laststring" -> String(StdNormalized(IF Argument(a).type # "NodeSet" THEN StdString(Argument(a))
                                                  ELSE StdStringValue(Last(Argument(a).nodes))))
    [] a.f = "concat" -> String(FlattenSeq(StdStrings(a)))
    [] a.f = "translate" -> String(LET s == StdStrings(a) IN FlattenSeq(
                              [i \in DOMAIN s[1] |-> StdTranslated(s[1][i], s[2], s[3])]))
    [] a.f = "substring" ->
         LET c == StdSubstring(StdString(a.args[1]), StdNumber(a.args[2]),
                               [i \in 1 .. Len(a.args) - 2 |-> StdNumber(a.args[i + 2])])
         IN String([i \in DOMAIN c |-> c[i].char])
    [] a.f = "id" -> Nodes(StdId(a.ctx, a.args[1]))
    [] a.f \in {"sum", "count", "local-name", "name", "namespace-uri"} -> StdOfSet(a.f, Argument(a))
    [] OTHER -> StdOfStrings(a.f, StdString(a.args[1]), StdString(a.args[2]))
StdMeaning(a) ==
  CASE a.f = "-" /\ Len(a.args) = 1 -> Number(StdNegative(StdNumber(a.args[1])))
    [] a.f \in Operations /\ Len(a.args) = 2 ->
         Number(StdOperation(a.f, StdNumber(a.args[1]), StdNumber(a.args[2])))
    [] a.f \in Relations \cup {"=", "!="} ->
         Boolean(\E u \in StdAtoms(a.args[1], a.args[2]), v \in StdAtoms(a.args[2], a.args[1]) :
                   StdRelate(a.f, u, v))
    [] a.f = "and" -> Boolean(StdBoolean(a.args[1]) /\ StdBoolean(a.args[2]))
    [] a.f = "or" -> Boolean(StdBoolean(a.args[1]) \/ StdBoolean(a.args[2]))
    [] a.f = "namespace::" -> Nodes(StdNamespaces(a.ctx, a.args[1]))
    [] a.f = "toXPath" -> Nodes({a.args[2]})
    [] OTHER -> StdFunction(a)

(* ------------------------------ departures ------------------------------- *)
\* Where the code computes something else than XPath.
IsNumber(rs) == rs.type \in NumberTypes
StringReaders == {"string", "normalize-space", "string-length", "laststring", "starts-with", "contains",
                  "substring-before", "substring-after", "concat", "substring", "translate", "lang", "id"}
NumberReaders == {"number", "floor", "ceiling", "round", "sum", "substring", "=", "!="} \cup
    Operations \cup Relations
\* A Real without a fraction loses the zeros at its end.
LosesZeros(a) ==
  a.f \in StringReaders /\ \E i \in DOMAIN a.args :
    a.args[i].type = "Real" /\ a.args[i].num.d % (10 * Scale) = 0
\* CDATA sections do not belong to the value of the element around them.
HidesCdata(a, rs) ==
  a.f \in StringReaders \cup NumberReaders /\ rs.type = "NodeSet" /\
      \E n \in ToSet(rs.nodes) : xpathGetStringValue(n) # StdStringValue(n)
\* "-.5" is no number.
IsMinusDot(s) == IsPrefix(<<"-", ".">>, Unpadded(s))
ReadsMinusDot(a, rs) ==
  /\ a.f \in NumberReaders
  /\ \/ rs.type = "String" /\ IsMinusDot(rs.string)
     \/ rs.type = "NodeSet" /\ \E n \in ToSet(rs.nodes) : IsMinusDot(StdStringValue(n))
\* mod is that of integers, and not defined for an infinite divisor.
ModOfIntegers(a) ==
  a.f = "mod" /\ LET x == StdNumber(a.args[1])
                     y == StdNumber(a.args[2])
                 IN x.nan = 0 /\ (y.nan \in {1, -1} \/ x.d % Scale # 0 \/ y.d % Scale # 0)
\* Nodes that are no numbers are not unequal to a number, and none is unequal to
\* what is no finite one.
UnequalToNone(a) ==
  a.f = "!=" /\ \E i \in 1 .. 2 :
    LET set == a.args[i]
        other == a.args[3 - i]
    IN /\ set.type = "NodeSet" /\ IsNumber(other)
       /\ other.num.nan # 0 \/ \E n \in ToSet(set.nodes) : StdStringToNumber(StdStringValue(n)) = NotANumber
\* An empty set is not less than a boolean.
EmptyIsNotLess(a) == a.f \in Relations /\ {a.args[1].type, a.args[2].type} = {"Empty", "Bool"}
\* true() before a set is compared the wrong way.
TrueAndSet(a) == a.f \in Relations /\ a.args[1] = Bool(TRUE) /\ a.args[2].type = "NodeSet"
\* What is in front of a set is compared with its first number only, the other
\* numbers with the one before.
FirstNumberOnly(a) ==
  /\ a.f \in Relations /\ a.args[2].type = "NodeSet" /\ a.args[1].type \in NumberTypes \cup {"String"}
  /\ Cardinality({i \in DOMAIN a.args[2].nodes :
       StdStringToNumber(StdStringValue(a.args[2].nodes[i])) # NotANumber}) >= 2
\* A string has nothing behind minus infinity, and may have nothing behind a
\* start before it when the length is infinite.
InfiniteSubstring(a) ==
  /\ a.f = "substring" /\ Len(a.args) \in {2, 3}
  /\ LET x == StdNumber(a.args[2])
     IN \/ Len(a.args) = 2 /\ x = Infinite(-1)
        \/ Len(a.args) = 3 /\ x.nan = 0 /\ x.d < Scale /\ StdNumber(a.args[3]) = Infinite(1)
\* Only the first subtag of a language counts.
SecondSubtag(a) ==
  a.f = "lang" /\ a.ctx.langs # <<>> /\ a.args # <<>> /\ "-" \in ToSet(StdString(a.args[1]))
\* The target of a processing instruction is cut.
LongTarget(rs) == rs.type = "NodeSet" /\ rs.nodes[1].kind = "pi" /\ Len(rs.nodes[1].local) > TargetBuffer
\* A prefix selects every namespace declared with its URI, "*" also the default
\* that is not declared any more.
SameNamespace(a) ==
  /\ a.f = "namespace::"
  /\ LET all == FlattenSeq(a.ctx.scopes)
     IN IF a.args[1] = <<"*">> THEN \E i \in DOMAIN all : all[i].uri = <<>>
        ELSE \E i, j \in DOMAIN all : i # j /\ all[i].uri = all[j].uri
\* CDATA sections have no step, an element behind a text that is its name counts it.
NamedByText(a) ==
  /\ a.f = "toXPath"
  /\ LET counts(k, n) == n.kind = "element" /\ k.kind # "element" /\ NodeName(k) = QName(n)
         RECURSIVE bad(_, _)
         bad(kids, address) ==
           LET n == kids[address[1]]
           IN \/ n.kind = "cdata"
              \/ (n.uri = <<>> \/ a.args[3]) /\ \E i \in 1 .. address[1] - 1 : counts(kids[i], n)
              \/ Len(address) > 1 /\ bad(n.kids, Tail(address))
     IN bad(a.args[1], a.args[2])

Operand(a, i) == IF i \in DOMAIN a.args THEN a.args[i] ELSE Argument(a)
Strays(a) ==
  IF a.f = "toXPath" THEN NamedByText(a)
  ELSE IF a.f = "namespace::" THEN SameNamespace(a)
  ELSE \/ LosesZeros(a) \/ ModOfIntegers(a) \/ UnequalToNone(a) \/ EmptyIsNotLess(a) \/ TrueAndSet(a)
       \/ FirstNumberOnly(a) \/ InfiniteSubstring(a) \/ SecondSubtag(a)
       \/ \E i \in {1} \cup DOMAIN a.args :
            HidesCdata(a, Operand(a, i)) \/ ReadsMinusDot(a, Operand(a, i)) \/ LongTarget(Operand(a, i))

(* ----------------------------- the behaviour ----------------------------- *)
None == [type |-> "none"]
ValuesInit == applied \in Applications /\ value = None
Evaluate == value = None /\ value' \in Outcomes(applied) /\ UNCHANGED applied
ValuesNext == Evaluate

(* Operators and functions compute what XPath says, for every combination of  *)
(* the types of their operands, with the conversions these ask for, NaN and   *)
(* the infinities; the departures named above are all there are.              *)
ComputesAsXPath ==
  value # None => Meaning(applied, value) = StdMeaning(applied) \/ Strays(applied)
=============================================================================
