----------------------------- MODULE XSLTNumbers -----------------------------
(* What xsl:number writes and how xsl:sort orders: xsltNumber with its list of *)
(* values and its formats, and doSortActions of generic/domxslt.c.  Formats    *)
(* are kept in a table for as long as the stylesheet lives.  The reference is  *)
(* XSLT 1.0, 7.7 and 10.                                                       *)
(*                                                                             *)
(* The pattern of a count or from is one name or node test; texts are          *)
(* sequences of characters, numbers to be sorted or formatted are counted in   *)
(* hundredths.  Left out are a format of zeros only, for which the code reads  *)
(* in front of its tokens, and an attribute numbered without a count, whose    *)
(* name it reads where elements have theirs.                                   *)
EXTENDS Integers, Sequences, FiniteSets, SequencesExt, FiniteSetsExt

CONSTANTS Instructions,  \* xsl:number and xsl:sort elements, with what they are applied to
          Source         \* the nodes numbered, in document order, the root first

VARIABLES instruction, formats, outcome

numberVars == <<instruction, formats, outcome>>

(* ------------------------------- characters ------------------------------- *)
DigitNames == <<"0", "1", "2", "3", "4", "5", "6", "7", "8", "9">>
UpperNames == <<"A", "B", "C", "D", "E", "F", "G", "H", "I", "J", "K", "L", "M",
                "N", "O", "P", "Q", "R", "S", "T", "U", "V", "W", "X", "Y", "Z">>
LowerNames == <<"a", "b", "c", "d", "e", "f", "g", "h", "i", "j", "k", "l", "m",
                "n", "o", "p", "q", "r", "s", "t", "u", "v", "w", "x", "y", "z">>
Punctuation == {".", ",", "-", "(", ")"}
IsAlnum(c) == c \notin Punctuation
NextAlnum(s, p) == Min({i \in p .. Len(s) : IsAlnum(s[i])} \cup {Len(s) + 1})
NextOther(s, p) == Min({i \in p .. Len(s) : ~IsAlnum(s[i])} \cup {Len(s) + 1})
IsUpper(c) == c \in ToSet(UpperNames)
Zeros(n) == [i \in 1 .. n |-> "0"]

Decimal(n) ==
  LET len == Min({k \in 1 .. 8 : n < 10 ^ k})
  IN [i \in 1 .. len |-> DigitNames[((n \div 10 ^ (len - i)) % 10) + 1]]
Printed(n) == IF n < 0 THEN <<"-">> \o Decimal(-n) ELSE Decimal(n)

(* -------------------------------- formats --------------------------------- *)
NoSeparator == [is |-> FALSE, chars |-> <<>>]
Separator(s) == [is |-> TRUE, chars |-> s]
Token(type, min, sep) == [type |-> type, min |-> min, sep |-> sep]
Letters == {"A", "a", "I", "i"}

\* The tokens read from p on; the last one may be of wrong syntax.  A zero asks
\* for one more digit of the token behind it, whatever that is.
RECURSIVE TokensFrom(_, _, _)
TokensFrom(s, p, min) ==
  IF p > Len(s) THEN <<>>
  ELSE IF s[p] = "0" THEN TokensFrom(s, p + 1, min + 1)
  ELSE LET behind == IF s[p] \in Letters \cup {"1"} THEN p + 1 ELSE NextOther(s, p + 1)
           next == NextAlnum(s, behind)
           glued == next = behind /\ next <= Len(s)
           type == IF s[p] \in Letters /\ ~glued THEN s[p] ELSE "1"
           sep == IF behind > Len(s) \/ (glued /\ s[p] \in Letters) THEN NoSeparator
                  ELSE Separator(SubSeq(s, behind, next - 1))
       IN <<[token |-> Token(type, min, sep), wrong |-> glued]>>
            \o IF glued THEN <<>> ELSE TokensFrom(s, next, 1)

\* What is in the table after the format was read, and whether that succeeded:
\* on wrong syntax the entry stays as it is, with zeroed tokens behind the last.
Tokenized(s) ==
  LET first == NextAlnum(s, 1)
      read == TokensFrom(s, first, 1)
      n == Len(read)
      tokens == [i \in 1 .. n |-> read[i].token]
      made(ts, epilog, ok) ==
        [prolog |-> SubSeq(s, 1, first - 1), tokens |-> ts, epilog |-> epilog, ok |-> ok]
  IN CASE first > Len(s) -> made(<<Token("1", 1, NoSeparator)>>, <<>>, TRUE)
       [] first <= Len(s) /\ read[n].wrong -> made(Append(tokens, Token("1", 0, NoSeparator)), <<>>, FALSE)
       [] OTHER -> made([tokens EXCEPT ![n].sep = NoSeparator], tokens[n].sep.chars, TRUE)

\* A format that is in the table is taken as it is there.
xsltNumberFormatTokenizer(s) ==
  IF s \in formats THEN [Tokenized(s) EXCEPT !.ok = TRUE] ELSE Tokenized(s)

(* ----------------------------- formatting a value ------------------------- *)
NoGrouping == [is |-> FALSE, sep |-> <<>>, size |-> 0]
Grouped(s, group) ==
  IF ~group.is THEN s
  ELSE LET m == Len(s) % group.size
           part(k) == SubSeq(s, m + (k - 1) * group.size + 1, m + k * group.size)
           parts == [k \in 1 .. (Len(s) - m) \div group.size |->
                       (IF k = 1 /\ m = 0 THEN <<>> ELSE group.sep) \o part(k)]
       IN SubSeq(s, 1, m) \o FlattenSeq(parts)
LatinNumber(v, min, group) == Grouped(Zeros(Max({0, min - Len(Printed(v))})) \o Printed(v), group)

\* 26 + 26^2 + ... + 26^e: the values of at most e letters.
ValuesUpTo(e) == FoldLeft(LAMBDA sum, i : sum + 26 ^ i, 0, [i \in 1 .. e |-> i])
\* Mutant: what is left over is not carried into the next letter.
LatinLettersMutNoCarry(v, names) ==
  LET e == Min({k \in 1 .. 4 : v <= ValuesUpTo(k)})
      letter(acc, i) ==
        LET z == acc.rest \div 26 ^ (e - i)
            rest == acc.rest - z * 26 ^ (e - i)
        IN [rest |-> rest, out |-> Append(acc.out, names[IF i < e THEN z + 1 ELSE Max({1, z})])]
  IN FoldLeft(letter, [rest |-> v - ValuesUpTo(e - 1), out |-> <<>>], [i \in 1 .. e |-> i]).out
LatinLetters(v, names) ==
  LET e == Min({k \in 1 .. 4 : v <= ValuesUpTo(k)})
      letter(acc, i) ==
        LET z == acc.rest \div 26 ^ (e - i)
            rest == acc.rest - z * 26 ^ (e - i)
        IN IF i < e /\ rest = 0
           THEN [rest |-> 26 ^ (e - i), out |-> Append(acc.out, names[z])]
           ELSE [rest |-> rest, out |-> Append(acc.out, names[IF i < e THEN z + 1 ELSE z])]
  IN FoldLeft(letter, [rest |-> v - ValuesUpTo(e - 1), out |-> <<>>], [i \in 1 .. e |-> i]).out

RomanDigits ==
  <<<<1000, <<"M">>>>, <<900, <<"C", "M">>>>, <<500, <<"D">>>>, <<400, <<"C", "D">>>>, <<100, <<"C">>>>,
    <<90, <<"X", "C">>>>, <<50, <<"L">>>>, <<40, <<"X", "L">>>>, <<10, <<"X">>>>, <<9, <<"I", "X">>>>,
    <<5, <<"V">>>>, <<4, <<"I", "V">>>>, <<1, <<"I">>>>>>
LowerOf(c) == LowerNames[CHOOSE i \in 1 .. 26 : UpperNames[i] = c]
Lowered(s) == [i \in DOMAIN s |-> LowerOf(s[i])]
Roman(v) ==
  LET digit(acc, d) ==
        [rest |-> acc.rest % d[1],
         out |-> acc.out \o FlattenSeq([k \in 1 .. acc.rest \div d[1] |-> d[2]])]
  IN FoldLeft(digit, [rest |-> v, out |-> <<>>], RomanDigits).out

Numeral(token, v, group) ==
  CASE token.type = "1" -> LatinNumber(v, token.min, group)
    [] token.type \in Letters /\ (v <= 0 \/ (v > 3999 /\ token.type \in {"I", "i"})) -> Printed(v)
    [] token.type = "A" /\ v > 0 -> LatinLetters(v, UpperNames)
    [] token.type = "a" /\ v > 0 -> LatinLetters(v, LowerNames)
    [] token.type = "I" /\ v \in 1 .. 3999 -> Roman(v)
    [] token.type = "i" /\ v \in 1 .. 3999 -> Lowered(Roman(v))

\* formatValue for each value but the last adds the separator: that of its token,
\* which is then done with; behind the last token the one in front of it.
RECURSIVE Written(_, _, _, _)
Written(format, values, u, group) ==
  LET token == format.tokens[u]
      numeral == Numeral(token, Head(values), group)
  IN IF Len(values) = 1 THEN numeral \o format.epilog
     ELSE IF token.sep.is THEN numeral \o token.sep.chars \o Written(format, Tail(values), u + 1, group)
     ELSE numeral \o (IF u > 1 THEN format.tokens[u - 1].sep.chars ELSE <<".">>)
            \o Written(format, Tail(values), u, group)
Formatted(format, values, group) ==
  IF values = <<>> THEN <<>> ELSE format.prolog \o Written(format, values, 1, group)

(* ------------------------------ the values -------------------------------- *)
\* The root is the parent of no node here: parentNode ends at the document element.
Root == 1
Siblings(n) ==
  {m \in 2 .. Len(Source) : /\ Source[m].up = Source[n].up
                            /\ (Source[m].kind = "attribute") = (Source[n].kind = "attribute")}
domPreviousSibling(n) == IF n = Root THEN 0 ELSE Max({0} \cup {m \in Siblings(n) : m < n})
LastChild(n) == Max({0} \cup {m \in 2 .. Len(Source) : Source[m].up = n /\ Source[m].kind # "attribute"})
RECURSIVE Upwards(_)
Upwards(n) == IF n = 0 THEN <<>> ELSE <<n>> \o Upwards(Source[n].up)

Test(kind, uri, local) == [kind |-> kind, uri |-> uri, local |-> local]
NoPattern == Test("none", "", "")
OwnPattern == Test("own", "", "")
\* xpathMatches for a pattern of one step.
xpathMatches(p, n) ==
  LET node == Source[n]
  IN CASE p.kind = "pi" -> node.kind = "pi" /\ IsPrefix(node.local, p.local)
       [] p.kind \in {"element", "attribute"} ->
            node.kind = p.kind /\ p.local = node.local /\ p.uri = node.uri
       [] p.kind = "*" -> node.kind = "element"
       [] p.kind = "@*" -> node.kind = "attribute"
       [] OTHER -> node.kind = p.kind

\* Without a count: the type and the name of the current node, the prefix looked
\* up in the stylesheet.
Resolves(n, bindings) == Source[n].prefix = "" \/ Source[n].prefix \in DOMAIN bindings
CountPattern(i) ==
  LET node == Source[i.current]
  IN IF i.count # OwnPattern THEN i.count
     ELSE Test(node.kind, IF node.prefix = "" THEN "" ELSE i.bindings[node.prefix], node.local)
OwnFails(i) ==
  i.count = OwnPattern /\ (Source[i.current].kind = "cdata" \/ ~Resolves(i.current, i.bindings))

Counted(n, p) ==
  1 + Cardinality({m \in Siblings(n) : m < n /\ xpathMatches(p, m)})

\* level="single": the loop that looks for from has no effect.
SingleValue(i) ==
  LET line == Upwards(i.current)
      hits == {k \in DOMAIN line : xpathMatches(CountPattern(i), line[k])}
  IN IF hits = {} THEN <<>> ELSE <<Counted(line[Min(hits)], CountPattern(i))>>

BeforeFrom(i, walk) ==
  LET ends == {k \in DOMAIN walk : xpathMatches(i.from, walk[k])}
  IN SubSeq(walk, 1, Min(ends \cup {Len(walk) + 1}) - 1)
Counting(i, walk) == SelectSeq(BeforeFrom(i, walk), LAMBDA n : xpathMatches(CountPattern(i), n))
MultipleValues(i) ==
  LET hits == Reverse(Counting(i, Upwards(i.current)))
  IN [k \in DOMAIN hits |-> Counted(hits[k], CountPattern(i))]

\* level="any": back to the end of the sibling before, from the first one up.
RECURSIVE Lowest(_)
Lowest(n) == IF Source[n].kind = "element" /\ LastChild(n) # 0 THEN Lowest(LastChild(n)) ELSE n
RECURSIVE Backwards(_)
Backwards(n) ==
  IF n = 0 THEN <<>>
  ELSE <<n>> \o Backwards(IF domPreviousSibling(n) # 0 THEN Lowest(domPreviousSibling(n)) ELSE Source[n].up)
AnyValue(i) == <<Len(Counting(i, Backwards(i.current)))>>

xpathRound(x) == (x + 50) \div 100
Values(i) ==
  CASE i.level = "value" -> <<IF i.value.nan THEN 0 ELSE xpathRound(i.value.x)>>
    [] i.level = "single" -> SingleValue(i)
    [] i.level = "multiple" -> MultipleValues(i)
    [] i.level = "any" -> AnyValue(i)

Failure == [ok |-> FALSE]
Text(s) == [ok |-> TRUE, text |-> s]
xsltNumber(i) ==
  LET format == xsltNumberFormatTokenizer(i.format)
  IN IF \/ ~format.ok \/ (i.group.is /\ i.group.size <= 0)
        \/ i.level = "wrong" \/ (i.level # "value" /\ OwnFails(i))
     THEN Failure
     ELSE Text(Formatted(format, Values(i), i.group))

(* --------------------------------- sorting -------------------------------- *)
\* Characters fold to one letter; those of upper case have the smaller codes.
Fold(c) == IF IsUpper(c) THEN LowerOf(c) ELSE c
CodeOf(c) == IF IsUpper(c) THEN CHOOSE k \in 1 .. 26 : UpperNames[k] = c
             ELSE 32 + CHOOSE k \in 1 .. 26 : LowerNames[k] = c
FirstDifference(s, t) ==
  LET at == {k \in 1 .. Min({Len(s), Len(t)}) : s[k] # t[k]}
  IN IF at = {} THEN 0 ELSE CodeOf(s[Min(at)]) - CodeOf(t[Min(at)])
Folded(s) == [k \in DOMAIN s |-> Fold(s[k])]

TextOrder(key, s, t) ==
  LET folded == FirstDifference(Folded(s), Folded(t))
  IN IF folded # 0 THEN folded
     ELSE IF Len(s) # Len(t) THEN Len(s) - Len(t)
     ELSE (IF key.upperFirst THEN 1 ELSE -1) * FirstDifference(s, t)
nodeGreater(key, v, w) ==
  LET order == TextOrder(key, v.text, w.text)
  IN IF key.type # "number" THEN IF key.ascending THEN order > 0 ELSE order < 0
     ELSE IF v.nan \/ w.nan THEN IF key.ascending THEN w.nan /\ ~v.nan ELSE v.nan /\ ~w.nan
     ELSE IF key.ascending THEN v.x > w.x ELSE v.x < w.x

InsertionSort(key, list) ==
  LET inserted(done, e) ==
        InsertAt(done, Max({0} \cup {k \in DOMAIN done : ~nodeGreater(key, done[k].value, e.value)}) + 1, e)
  IN FoldLeft(inserted, <<>>, list)
RECURSIVE Merged(_, _, _)
Merged(key, l, r) ==
  IF l = <<>> THEN r ELSE IF r = <<>> THEN l
  ELSE IF nodeGreater(key, Head(l).value, Head(r).value) THEN <<Head(r)>> \o Merged(key, l, Tail(r))
  ELSE <<Head(l)>> \o Merged(key, Tail(l), r)
RECURSIVE fastMergeSort(_, _)
fastMergeSort(key, list) ==
  IF Len(list) < 10 THEN InsertionSort(key, list)
  ELSE LET middle == Len(list) \div 2
       IN Merged(key, fastMergeSort(key, SubSeq(list, 1, middle)),
                 fastMergeSort(key, SubSeq(list, middle + 1, Len(list))))

Number(x) == [text |-> <<>>, nan |-> FALSE, x |-> x]
\* The keys from the last to the first; each is evaluated on the list as the keys
\* behind it have left it.
KeyValue(key, nodes, k) == IF key.select = "position()" THEN Number(k) ELSE key.values[nodes[k]]
SortedBy(key, nodes) ==
  LET list == [k \in DOMAIN nodes |-> [node |-> nodes[k], value |-> KeyValue(key, nodes, k)]]
      sorted == fastMergeSort(key, list)
  IN [k \in DOMAIN nodes |-> sorted[k].node]
doSortActions(i) ==
  IF \E key \in ToSet(i.keys) : key.wrong THEN Failure
  ELSE Text(FoldRight(SortedBy, i.keys, [k \in 1 .. i.size |-> k]))

(* ------------------------------- XSLT 1.0, 7.7 ---------------------------- *)
\* Format tokens are the runs of letters and digits.
StdStarts(s) == {k \in DOMAIN s : IsAlnum(s[k]) /\ (k = 1 \/ ~IsAlnum(s[k - 1]))}
StdTokens(s) == [k \in 1 .. Cardinality(StdStarts(s)) |->
                   LET start == CHOOSE x \in StdStarts(s) : Cardinality({y \in StdStarts(s) : y <= x}) = k
                   IN [from |-> start, to |-> NextOther(s, start) - 1]]
IsDecimal(t) == t # <<>> /\ t = Append(Zeros(Len(t) - 1), "1")

RECURSIVE StdAlphabetic(_, _)
StdAlphabetic(v, names) ==
  IF v = 0 THEN <<>> ELSE Append(StdAlphabetic((v - 1) \div 26, names), names[((v - 1) % 26) + 1])
\* The figure of one decimal place, from the signs for 1, 5 and 10 of it.
StdPlace(d, one, five, ten) ==
  CASE d < 4 -> [k \in 1 .. d |-> one]
    [] d = 4 -> <<one, five>>
    [] d \in 5 .. 8 -> <<five>> \o [k \in 1 .. d - 5 |-> one]
    [] d = 9 -> <<one, ten>>
StdRoman(v) ==
  [k \in 1 .. v \div 1000 |-> "M"] \o StdPlace((v \div 100) % 10, "C", "D", "M")
    \o StdPlace((v \div 10) % 10, "X", "L", "C") \o StdPlace(v % 10, "I", "V", "X")

\* Groups are counted from the right.
StdGrouped(s, group) ==
  IF ~group.is THEN s
  ELSE FlattenSeq([k \in DOMAIN s |->
         (IF k > 1 /\ (Len(s) - k + 1) % group.size = 0 THEN group.sep ELSE <<>>) \o <<s[k]>>])
StdNumeral(t, v, group) ==
  CASE t \in {<<"A">>, <<"a">>} /\ v > 0 -> StdAlphabetic(v, IF t = <<"A">> THEN UpperNames ELSE LowerNames)
    [] t = <<"I">> /\ v \in 1 .. 3999 -> StdRoman(v)
    [] t = <<"i">> /\ v \in 1 .. 3999 -> Lowered(StdRoman(v))
    [] IsDecimal(t) -> StdGrouped(Zeros(Max({0, Len(t) - Len(Decimal(v))})) \o Decimal(v), group)
    [] OTHER -> StdGrouped(Decimal(v), group)

\* A number takes its own token or the last one, and in front of it what stands
\* in front of that token.
StdFormatted(s, values, group) ==
  LET ts == StdTokens(s)
      n == Len(ts)
      chars(k) == IF n = 0 THEN <<"1">> ELSE SubSeq(s, ts[Min({k, n})].from, ts[Min({k, n})].to)
      front(k) == IF k = 1 THEN <<>> ELSE IF n <= 1 THEN <<".">>
                  ELSE SubSeq(s, ts[Min({k, n}) - 1].to + 1, ts[Min({k, n})].from - 1)
      opening == IF n = 0 THEN s ELSE SubSeq(s, 1, ts[1].from - 1)
      closing == IF n = 0 THEN s ELSE SubSeq(s, ts[n].to + 1, Len(s))
  IN IF values = <<>> THEN <<>>
     ELSE opening \o FlattenSeq([k \in DOMAIN values |-> front(k) \o StdNumeral(chars(k),
         values[k], group)])
            \o closing

RECURSIVE StdAncestors(_)
StdAncestors(n) ==
  LET parent == IF Source[n].up = 0 THEN Root ELSE Source[n].up
  IN IF n = Root THEN {} ELSE {parent} \cup StdAncestors(parent)
StdMatches(p, n) ==
  LET node == Source[n]
  IN CASE p.kind \in {"element", "attribute", "pi"} ->
            node.kind = p.kind /\ p.local = node.local /\ p.uri = node.uri
       [] p.kind = "*" -> node.kind = "element"
       [] p.kind = "@*" -> node.kind = "attribute"
       [] p.kind = "text" -> node.kind \in {"text", "cdata"}
       [] OTHER -> node.kind = p.kind
StdCount(i) ==
  LET node == Source[i.current]
  IN IF i.count # OwnPattern THEN i.count
     ELSE Test(IF node.kind = "cdata" THEN "text" ELSE node.kind, node.uri, node.local)
StdFroms(i, set) == {n \in set : StdMatches(i.from, n)}
\* The ancestors searched lie below the nearest that from matches.
StdSearched(i) ==
  LET line == {i.current} \cup StdAncestors(i.current)
      froms == StdFroms(i, StdAncestors(i.current))
  IN {n \in line : StdMatches(StdCount(i), n) /\ \A f \in froms : f < n}
StdCounted(i, n) ==
  1 + Cardinality({m \in Siblings(n) : m < n /\ n # Root /\ Source[m].kind # "attribute"
                                       /\ StdMatches(StdCount(i), m)})
StdAny(i) ==
  LET before == {m \in 1 .. i.current - 1 : Source[m].kind # "attribute"}
      froms == StdFroms(i, before)
  IN Cardinality({m \in before \cup {i.current} : StdMatches(StdCount(i), m) /\ \A f \in froms : f < m})
StdValues(i) ==
  LET inOrder == SetToSortSeq(StdSearched(i), <)
  IN CASE i.level = "value" -> <<xpathRound(i.value.x)>>
       [] i.level = "single" -> IF inOrder = <<>> THEN <<>> ELSE <<StdCounted(i, Last(inOrder))>>
       [] i.level = "multiple" -> [k \in DOMAIN inOrder |-> StdCounted(i, inOrder[k])]
       [] i.level = "any" -> <<StdAny(i)>>
StdNumbered(i) ==
  IF i.level = "wrong" \/ (i.group.is /\ i.group.size <= 0) THEN Failure
  ELSE Text(StdFormatted(i.format, StdValues(i), i.group))

(* -------------------------------- XSLT 1.0, 10 ---------------------------- *)
\* By letters first, by case only where the letters are the same; NaN before the
\* numbers.
StdTextBefore(key, s, t) ==
  LET first(u, v) == Min({k \in 1 .. Max({Len(u), Len(v)}) + 1 :
                            k > Len(u) \/ k > Len(v) \/ u[k] # v[k]})
      at == first(Folded(s), Folded(t))
      cased == first(s, t)
  IN IF Folded(s) # Folded(t) THEN at > Len(s) \/ (at <= Len(t) /\ CodeOf(Fold(s[at])) < CodeOf(Fold(t[at])))
     ELSE s # t /\ (IsUpper(s[cased]) = key.upperFirst)
StdKeyBefore(key, v, w) ==
  IF key.type = "number" THEN ~w.nan /\ (v.nan \/ v.x < w.x) ELSE StdTextBefore(key, v.text, w.text)
StdBefore(i, n, m) ==
  LET value(k, x) == KeyValue(i.keys[k], [y \in 1 .. i.size |-> y], x)
      less(k, x, y) == IF i.keys[k].ascending THEN StdKeyBefore(i.keys[k], value(k, x), value(k, y))
                       ELSE StdKeyBefore(i.keys[k], value(k, y), value(k, x))
      tied(k) == ~less(k, n, m) /\ ~less(k, m, n)
  IN \/ \E k \in DOMAIN i.keys : less(k, n, m) /\ \A j \in 1 .. k - 1 : tied(j)
     \/ n < m /\ \A k \in DOMAIN i.keys : tied(k)
StdSorted(i) ==
  LET place(n) == Cardinality({m \in 1 .. i.size : StdBefore(i, m, n)}) + 1
  IN IF \E key \in ToSet(i.keys) : key.wrong THEN Failure
     ELSE Text([k \in 1 .. i.size |-> CHOOSE n \in 1 .. i.size : place(n) = k])

(* ------------------------------- departures ------------------------------- *)
\* Where the code does something else than XSLT.
TokenText(s, t) == SubSeq(s, t.from, t.to)
\* Refused are letters and digits behind 1, A, a, I or i; the table then keeps
\* what was read, and the next use of the format takes it.
GluedToken(i) == ~Tokenized(i.format).ok
\* Zeros in front of anything but 1 belong to what comes next, or are lost.
StrayZeros(i) ==
  \E t \in ToSet(StdTokens(i.format)) : i.format[t.from] = "0" /\ ~IsDecimal(TokenText(i.format, t))
\* A format of punctuation only is not written behind the number.
OnlyPunctuation(i) == i.format # <<>> /\ StdTokens(i.format) = <<>>
\* What letters cannot express is written without groups, and without padding.
Ungrouped(i) == i.group.is /\ \E k \in DOMAIN i.format : i.format[k] \in {"I", "i"}
\* No positive number: rounded all the same, NaN as 0.
NotPositive(i) == i.level = "value" /\ (i.value.nan \/ i.value.x < 50)
\* The loop that looks for from is without effect.
FromIgnored(i) == i.level = "single" /\ StdFroms(i, StdAncestors(i.current)) # {}
CurrentIsFrom(i) == i.level # "value" /\ StdFroms(i, {i.current}) # {}
\* Attributes in front of an attribute count as its siblings.
AttributeSiblings(i) ==
  i.level # "value" /\ Source[i.current].kind = "attribute"
    /\ \E m \in Siblings(i.current) : m < i.current /\ xpathMatches(CountPattern(i), m)
\* The root is no ancestor of anything.
RootUnreached(i) == i.level # "value" /\ i.count # OwnPattern /\ i.count.kind = "root" /\ i.current # Root
\* The name of the current node is read with the stylesheet's namespaces; CDATA
\* sections are no text.
OwnNameLost(i) ==
  i.level # "value" /\ i.count = OwnPattern /\ (OwnFails(i) \/ CountPattern(i).uri # Source[i.current].uri)
CdataUncounted(i) == i.level # "value" /\ StdCount(i).kind = "text"
                       /\ \E n \in DOMAIN Source : Source[n].kind = "cdata"
\* A processing instruction also counts those whose target its own begins with.
TargetPrefix(i) ==
  i.level # "value" /\ i.count = OwnPattern /\ Source[i.current].kind = "pi"
    /\ \E n \in 1 .. i.current - 1 : /\ Source[n].kind = "pi" /\ Source[n].local # Source[i.current].local
                                     /\ IsPrefix(Source[n].local, Source[i.current].local)
\* A key that is not the last asks for positions the keys behind it have changed.
PositionLate(i) == \E k \in 1 .. Len(i.keys) - 1 : i.keys[k].select = "position()"

StraysFromXSLT(i) ==
  IF i.f = "sort" THEN PositionLate(i)
  ELSE \/ GluedToken(i) \/ StrayZeros(i) \/ OnlyPunctuation(i) \/ Ungrouped(i) \/ NotPositive(i)
       \/ OwnNameLost(i) \/ FromIgnored(i) \/ CurrentIsFrom(i)
       \/ AttributeSiblings(i) \/ RootUnreached(i) \/ CdataUncounted(i) \/ TargetPrefix(i)

(* ------------------------------ the behaviour ----------------------------- *)
NoOutcome == [ok |-> FALSE, text |-> <<>>]
NumbersInit == instruction \in Instructions /\ formats = {} /\ outcome = NoOutcome
\* The stylesheet is applied, again and again.
WriteNumber ==
  /\ instruction.f = "number"
  /\ outcome' = xsltNumber(instruction)
  /\ formats' = formats \cup {instruction.format}
  /\ UNCHANGED instruction
Sort ==
  /\ instruction.f = "sort"
  /\ outcome' = doSortActions(instruction)
  /\ UNCHANGED <<instruction, formats>>
NumbersNext == WriteNumber \/ Sort

(* However often a stylesheet is applied, xsl:number writes the numbers of   *)
(* XSLT: of the right nodes, in decimals, letters or Roman figures, with the *)
(* separators of the format; and xsl:sort gives the order of its keys, stable*)
(* and whatever the number of nodes.  The departures above are all there are.*)
NumbersAndSorts ==
  outcome # NoOutcome =>
    \/ outcome = (IF instruction.f = "sort" THEN StdSorted(instruction) ELSE StdNumbered(instruction))
    \/ StraysFromXSLT(instruction)
=============================================================================
