--------------------------- MODULE TextConstraints ---------------------------
(* The text constraints of a schema: the commands of generic/datatypes.c that  *)
(* define them, the checks they stand for, and the tables of IDs and keys, with *)
(* tDOM_checkText and the key spaces of generic/schema.c.                       *)
(*                                                                             *)
(* A text is a sequence of characters in one of the buffers: the first one      *)
(* belongs to the caller, the second is wsbuf, further ones hold the elements   *)
(* of a list.  A check gets a place in a buffer, reads to the NUL behind it, and *)
(* may write: strip and split cut the text for a while, whitespace writes       *)
(* wsbuf.  wsbuf is large enough (it starts with 200 bytes and grows).          *)
(*                                                                             *)
(* What Tcl decides is left out (the word "tcl" for a type, match, regexp) or   *)
(* given with the command: the answer of a script to a text.  The definition of *)
(* a text type stands in the command that uses it.                              *)
EXTENDS Integers, Sequences, FiniteSets, SequencesExt, FiniteSetsExt

CONSTANTS Definitions   \* a sequence of scripts, with the texts they are tried on

VARIABLES chosen,       \* which of the definitions has been made
          constraints,  \* what the script has defined
          tables,       \* the values of each ID table and key space
          evalError,    \* a script has failed
          buffers,      \* the characters a text and its copies are in
          told,         \* history: texts and key spaces of the document so far
          judgement,      \* of the last text, or of the document at its end
          documents     \* documents begun; 0: nothing is defined

textVars == <<chosen, constraints, tables, evalError, buffers, told, judgement, documents>>

(* ------------------------------- characters ------------------------------- *)
NUL == "NUL"
Digit == <<"0", "1", "2", "3", "4", "5", "6", "7", "8", "9">>
Digits == ToSet(Digit)
DigitValue == [c \in Digits |-> (CHOOSE k \in 1 .. 10 : Digit[k] = c) - 1]
Blanks == {" ", "\t", "\n", "\r"}
Signs == {"+", "-"}
NCNameStarts == {"a", "b", "c", "T", "Y", "_"}
NameStarts == NCNameStarts \cup {":"}
NCNameChars == NCNameStarts \cup Digits \cup {"-", "."}
NameChars == NCNameChars \cup {":"}
Hex == Digits \cup {"a", "b", "c"}
Base64Letters == Digits \cup {"a", "b", "c", "T", "Y", "Z"}

At(t, i) == IF i \in 1 .. Len(t) THEN t[i] ELSE NUL
\* The first place from i on whose character is not in S.
Past(t, i, S) == Min({j \in i .. Len(t) : t[j] \notin S} \cup {Len(t) + 1})
RestIn(t, i, S) == Past(t, i, S) > Len(t)
\* The places in t for which Fits holds, in order.
Places(t, Fits(_)) == SelectSeq([i \in 1 .. Len(t) |-> i], Fits)

(* ----------------------------- the lexical checks -------------------------- *)
\* Kinds 0 to 4: any, negative, not negative, not positive, positive.
integerImplXsd(kind, t) ==
  LET sign == At(t, 1)
      first == IF sign \in Signs THEN 2 ELSE 1
      nonzero == Past(t, first, {"0"})
      DigitsFrom(i) == i <= Len(t) /\ RestIn(t, i, Digits)
  IN CASE kind = 0 -> DigitsFrom(first)
       [] kind = 1 -> sign = "-" /\ DigitsFrom(nonzero)
       [] kind = 2 -> IF sign = "-" THEN nonzero > 2 /\ nonzero > Len(t) ELSE DigitsFrom(first)
       [] kind = 3 -> IF sign = "-" THEN DigitsFrom(2) ELSE first <= Len(t) /\ nonzero > Len(t)
       [] kind = 4 -> sign # "-" /\ DigitsFrom(nonzero)

numberImplXsd(t) ==
  LET whole == Past(t, IF At(t, 1) \in Signs THEN 2 ELSE 1, Digits)
  IN t # <<>> /\ RestIn(t, IF At(t, whole) = "." THEN whole + 1 ELSE whole, Digits)

maxLengthImpl(n, t) == Len(t) <= n
minLengthImpl(n, t) == t # <<>> /\ Len(t) >= n
lengthImpl(n, t) == Len(t) = n
fixedImpl(value, t) == t = value
enumerationImpl(values, t) == t \in values

booleanImplXsd(t) == t \in {<<"0">>, <<"1">>, <<"t", "r", "u", "e">>, <<"f", "a", "l", "s", "e">>}

nmtokenImpl(t) ==
  LET first == Past(t, 1, {" "})
      end == Past(t, first, NameChars)
  IN end > first /\ At(t, end) \in {" ", NUL} /\ RestIn(t, end, {" "})
nmtokensImpl(t) == RestIn(t, 1, NameChars \cup {" "}) /\ ~RestIn(t, 1, {" "})

domIsNAME(t) == At(t, 1) \in NameStarts /\ RestIn(t, 2, NameChars)
domIsNCNAME(t) == At(t, 1) \in NCNameStarts /\ RestIn(t, 2, NCNameChars)
domIsQNAME(t) ==
  LET colon == Past(t, 1, NCNameChars)
  IN /\ At(t, 1) \in NCNameStarts
     /\ \/ colon > Len(t)
        \/ t[colon] = ":" /\ At(t, colon + 1) \in NCNameStarts /\ RestIn(t, colon + 2, NCNameChars)

hexBinaryImpl(t) == t # <<>> /\ RestIn(t, 1, Hex) /\ Len(t) % 2 = 0

\* The largest values, of the unsigned types and of the others; the smallest
\* ones of the others are one more.
Four(v) == [i \in 1 .. 4 |-> Digit[((v \div (10 ^ (4 - i))) % 10) + 1]]
UnsignedMax == << <<"2", "5", "5">>, <<"6">> \o Four(5535), <<"4", "2">> \o Four(9496) \o Four(7295),
                  Four(1844) \o Four(6744) \o Four(737) \o Four(955) \o Four(1615)>>
SignedMax == << <<"1", "2", "7">>, <<"3">> \o Four(2767), <<"2", "1">> \o Four(4748) \o Four(3647),
                <<"9", "2", "2">> \o Four(3372) \o Four(368) \o Four(5477) \o Four(5807)>>
SignedMin == [k \in 1 .. 4 |-> [SignedMax[k] EXCEPT ![Len(SignedMax[k])] = "8"]]
NrDigits == <<3, 5, 10, 20>>

\* strcmp (a, b) >= 0
NotLess(a, b) ==
  LET differ == {i \in 1 .. Len(b) : i > Len(a) \/ a[i] # b[i]}
      i == Min(differ)
  IN differ = {} \/ (i <= Len(a) /\ DigitValue[a[i]] > DigitValue[b[i]])
BoundedFromMutByLength(t, i, n, compare) ==
  LET c == Past(t, i, {"0"})
  IN i <= Len(t) /\ RestIn(t, c, Digits) /\ Len(t) - c + 1 <= n
\* The digits from place i on are at most compare, or are fewer than n.
BoundedFrom(t, i, n, compare) ==
  LET c == Past(t, i, {"0"})
      count == Len(t) - c + 1
  IN /\ i <= Len(t) /\ RestIn(t, c, Digits)
     /\ count < n \/ (count = n /\ NotLess(compare, SubSeq(t, c, Len(t))))
unsignedIntTypesImpl(kind, t) ==
  BoundedFrom(t, IF At(t, 1) = "+" THEN 2 ELSE 1, NrDigits[kind], UnsignedMax[kind])
intTypesImpl(kind, t) ==
  BoundedFrom(t, IF At(t, 1) \in Signs THEN 2 ELSE 1, NrDigits[kind],
              IF At(t, 1) = "-" THEN SignedMin[kind] ELSE SignedMax[kind])

(* ------------------------- dates, times, durations ------------------------- *)
TwoAt(t, i) == At(t, i) \in Digits /\ At(t, i + 1) \in Digits
Two(t, i) == 10 * DigitValue[t[i]] + DigitValue[t[i + 1]]
LeapYear(y) == y % 4 = 0 /\ (y % 100 # 0 \/ y % 400 = 0)
DaysOf(y, m) == CASE m \in {4, 6, 9, 11} -> 30 [] m = 2 -> IF LeapYear(y) THEN 29 ELSE 28 [] OTHER -> 31

\* The place behind a date, a time; 0: there is none.
DateEnd(t) ==
  LET first == IF At(t, 1) = "-" THEN 2 ELSE 1
      i == Past(t, first, Digits)
      count == i - first
      nonzero == Past(t, first, {"0"})
      y == 100 * Two(t, i - 4) + Two(t, i - 2)
  IN IF /\ count >= 4 /\ At(t, i) = "-"
        /\ nonzero < i /\ (count > 4 => nonzero = first)
        /\ TwoAt(t, i + 1) /\ At(t, i + 3) = "-" /\ Two(t, i + 1) \in 1 .. 12
        /\ TwoAt(t, i + 4) /\ Two(t, i + 4) \in 1 .. DaysOf(y, Two(t, i + 1))
     THEN i + 6 ELSE 0
TimeEnd(t, i) ==
  LET point == At(t, i + 8) = "."
      fits == /\ \A j \in {i, i + 3, i + 6} : TwoAt(t, j)
              /\ At(t, i + 2) = ":" /\ At(t, i + 5) = ":"
              /\ Two(t, i) <= 24 /\ Two(t, i + 3) <= 59 /\ Two(t, i + 6) <= 59
              /\ point => Two(t, i) # 24 /\ At(t, i + 9) \in Digits
              /\ Two(t, i) = 24 => Two(t, i + 3) = 0 /\ Two(t, i + 6) = 0
  IN IF ~fits THEN 0 ELSE IF point THEN Past(t, i + 9, Digits) ELSE i + 8
ZoneFrom(t, i) ==
  \/ i > Len(t)
  \/ t[i] = "Z" /\ i = Len(t)
  \/ /\ t[i] \in Signs /\ TwoAt(t, i + 1) /\ At(t, i + 3) = ":" /\ TwoAt(t, i + 4) /\ Len(t) = i + 5
     /\ Two(t, i + 1) <= 14 /\ Two(t, i + 4) <= (IF Two(t, i + 1) < 14 THEN 59 ELSE 0)
\* Kinds 0 to 2: date, dateTime, time.
isodateImpl(kind, t) ==
  LET date == IF kind = 2 THEN 1 ELSE DateEnd(t)
      start == IF kind = 1 /\ At(t, date) = "T" THEN date + 1 ELSE IF kind = 2 THEN 1 ELSE 0
      end == IF kind = 0 THEN date ELSE IF start = 0 THEN 0 ELSE TimeEnd(t, start)
  IN date # 0 /\ end # 0 /\ ZoneFrom(t, end)

\* des with p, the place of the last sign seen in it.
Designators == <<" ", "Y", "M", "D", "T", "H", "M", "S">>
NextSign(c, p) == Min({k \in p .. 7 : Designators[k + 1] = c} \cup {8})
RECURSIVE DurationFrom(_, _, _, _)
DurationFrom(t, i, p, seenT) ==
  LET n == Past(t, i, Digits)
      fraction == Past(t, n + 1, Digits)
      q == NextSign(At(t, n), p)
  IN IF i > Len(t) THEN p # 0
     ELSE CASE n > Len(t) -> FALSE
            [] At(t, n) = "." -> /\ p >= 4 /\ n > i /\ fraction > n + 1
                                 /\ At(t, fraction) = "S" /\ fraction = Len(t)
            [] At(t, n) # "." /\ q = 4 -> n = i /\ n < Len(t) /\ DurationFrom(t, n + 1, 4, TRUE)
            [] OTHER -> /\ n > i /\ (q > 4 => seenT) /\ q # 8
                        /\ DurationFrom(t, n + 1, q, seenT)
durationImpl(t) ==
  LET first == IF At(t, 1) = "-" THEN 2 ELSE 1
  IN At(t, first) = "P" /\ DurationFrom(t, first + 1, 0, FALSE)

(* ------------------------- checks with a memory of texts ------------------- *)
\* What checks may change is handed on as w: the tables, evalError, the buffers.
\* A key space is first named by a key or keyspace command, which make it inactive.
NoTable == [seen |-> <<>>, unknown |-> 0, active |-> 0]
TableOf(w, x) == IF x \in DOMAIN w.tables THEN w.tables[x] ELSE NoTable
Storing(w, x, table) == [w EXCEPT !.tables = (x :> table) @@ @]
Answered(ok, w) == [ok |-> ok, w |-> w]

idImplMutUnknown(x, v, w) ==
  LET table == TableOf(w, x)
  IN IF v \notin DOMAIN table.seen \/ table.seen[v] = 0
     THEN Answered(TRUE, Storing(w, x, [table EXCEPT !.seen = (v :> 1) @@ @]))
     ELSE Answered(FALSE, w)
\* An ID, or a key while its key space is active: 1 is defined, 0 referred to.
idImpl(x, v, w) ==
  LET table == TableOf(w, x)
      known == v \in DOMAIN table.seen
  IN IF ~known \/ table.seen[v] = 0
     THEN Answered(TRUE, Storing(w, x, [table EXCEPT !.seen = (v :> 1) @@ @,
                                                   !.unknown = IF known THEN @ - 1 ELSE @]))
     ELSE Answered(FALSE, w)
idrefImpl(x, v, w) ==
  LET table == TableOf(w, x)
  IN IF v \in DOMAIN table.seen THEN Answered(TRUE, w)
     ELSE Answered(TRUE, Storing(w, x, [table EXCEPT !.seen = (v :> 0) @@ @, !.unknown = @ + 1]))
keyImpl(x, v, w) == IF TableOf(w, x).active = 0 THEN Answered(TRUE, w) ELSE idImpl(x, v, w)
keyrefImpl(x, v, w) == IF TableOf(w, x).active = 0 THEN Answered(TRUE, w) ELSE idrefImpl(x, v, w)

\* Texts that come from no JSON have no type.
jsontypeImpl(type, w) == w.json \in {"none", type}
\* A script: "yes", "no", something else, or an error.
tclImpl(answer, v, w) == Answered(answer[v] = "yes", [w EXCEPT !.evalError = @ \/ answer[v] = "error"])

(* ------------------------- texts in their buffers -------------------------- *)
Caller == 1
Wsbuf == 2
EndOf(w, p) == Min({i \in p.at .. Len(w.buffers[p.buffer]) : w.buffers[p.buffer][i] = NUL})
TextOf(w, p) == SubSeq(w.buffers[p.buffer], p.at, EndOf(w, p) - 1)
Poked(w, p, i, c) == [w EXCEPT !.buffers[p.buffer][i] = c]
Copied(b, t) == t \o <<NUL>> \o SubSeq(b, Len(t) + 2, Len(b))

\* Everything but blanks, letters and digits is made a plus sign and counts.
base64Impl(w, p) ==
  LET t == TextOf(w, p)
      written == [i \in 1 .. Len(t) |-> IF t[i] \in Base64Letters \cup Blanks THEN t[i] ELSE "+"]
      b == [i \in DOMAIN w.buffers[p.buffer] |->
              IF i \in p.at .. EndOf(w, p) - 1 THEN written[i - p.at + 1] ELSE w.buffers[p.buffer][i]]
  IN Answered(Cardinality({i \in 1 .. Len(t) : t[i] \notin Blanks}) % 4 = 0,
              [w EXCEPT !.buffers[p.buffer] = b])

\* Where the next word begins, and where the one at i ends.
WordFrom(t, i) == Past(t, i, Blanks)
WordEnd(t, i) == Min({j \in i .. Len(t) : t[j] \in Blanks} \cup {Len(t) + 1})
Replaced(t) == <<>> \o [i \in 1 .. Len(t) |-> IF t[i] \in Blanks THEN " " ELSE t[i]]
\* Kept are one blank of several, and none in front of the first word or at the end.
Collapsed(t) ==
  LET Kept(i) == \/ t[i] \notin Blanks
                 \/ i > 1 /\ t[i - 1] \notin Blanks /\ WordFrom(t, i) <= Len(t)
      kept == Places(t, Kept)
  IN <<>> \o [k \in 1 .. Len(kept) |-> Replaced(t)[kept[k]]]

(* ------------------------------ the constraints ---------------------------- *)
RECURSIVE CheckAt(_, _, _), Probe(_, _, _, _), splitWhitespaceImpl(_, _, _, _), SplitList(_, _, _, _)

\* The constraints in order until one answers stop.
Probe(cs, stop, p, w) ==
  IF cs = <<>> THEN Answered(~stop, w)
  ELSE LET r == CheckAt(cs[1], p, w)
       IN IF r.ok = stop THEN r ELSE Probe(Tail(cs), stop, p, r.w)
checkText(cs, p, w) == Probe(cs, FALSE, p, w)
oneOfImpl(cs, p, w) == Probe(cs, TRUE, p, w)
notImpl(cs, p, w) == LET r == Probe(cs, TRUE, p, w) IN Answered(~r.ok, r.w)

BetweenMutCut(cs, p, i, end, w) ==
  checkText(cs, [p EXCEPT !.at = i], Poked(w, p, end, NUL))
\* The text from place i of the buffer to in front of place end.
Between(cs, p, i, end, w) ==
  LET r == checkText(cs, [p EXCEPT !.at = i], Poked(w, p, end, NUL))
  IN Answered(r.ok, Poked(r.w, p, end, w.buffers[p.buffer][end]))

stripImpl(cs, p, w) ==
  LET t == TextOf(w, p)
      first == WordFrom(t, 1)
      last == Max({i \in first .. Len(t) : t[i] \notin Blanks})
  IN IF first > Len(t) THEN checkText(cs, [p EXCEPT !.at = EndOf(w, p)], w)
     ELSE Between(cs, p, p.at + first - 1, p.at + last, w)

\* ok is the answer for the words in front of p.
splitWhitespaceImpl(cs, p, w, ok) ==
  LET t == TextOf(w, p)
      first == WordFrom(t, 1)
      end == p.at + WordEnd(t, first) - 1
      r == Between(cs, p, p.at + first - 1, end, w)
  IN IF first > Len(t) THEN Answered(ok, w)
     ELSE IF ~r.ok THEN r ELSE splitWhitespaceImpl(cs, [p EXCEPT !.at = end], r.w, TRUE)

\* The list a script makes of the text: texts of their own.
SplitList(cs, list, w, ok) ==
  IF list = <<>> THEN Answered(ok, w)
  ELSE LET n == Len(w.buffers)
           r == checkText(cs, [buffer |-> n + 1, at |-> 1],
                          [w EXCEPT !.buffers = Append(@, list[1] \o <<NUL>>)])
           after == [r.w EXCEPT !.buffers = SubSeq(@, 1, n)]
       IN IF r.ok THEN SplitList(cs, Tail(list), after, TRUE) ELSE Answered(FALSE, after)
splitTclImpl(cs, answer, p, w) ==
  LET result == answer[TextOf(w, p)]
  IN IF result.failed THEN Answered(FALSE, [w EXCEPT !.evalError = TRUE])
     ELSE SplitList(cs, result.list, w, FALSE)

whitespaceImpl(cs, t, w) ==
  checkText(cs, [buffer |-> Wsbuf, at |-> 1], [w EXCEPT !.buffers[Wsbuf] = Copied(@, t)])

CheckAt(c, p, w) ==
  LET t == TextOf(w, p)
      Is(ok) == Answered(ok, w)
  IN CASE c.f = "integerImplXsd" -> Is(integerImplXsd(c.data, t))
       [] c.f = "numberImplXsd" -> Is(numberImplXsd(t))
       [] c.f = "booleanImplXsd" -> Is(booleanImplXsd(t))
       [] c.f = "nmtokenImpl" -> Is(nmtokenImpl(t))
       [] c.f = "nmtokensImpl" -> Is(nmtokensImpl(t))
       [] c.f = "nameImpl" -> Is(domIsNAME(t))
       [] c.f = "ncnameImpl" -> Is(domIsNCNAME(t))
       [] c.f = "qnameImpl" -> Is(domIsQNAME(t))
       [] c.f = "hexBinaryImpl" -> Is(hexBinaryImpl(t))
       [] c.f = "unsignedIntTypesImpl" -> Is(unsignedIntTypesImpl(c.data + 1, t))
       [] c.f = "intTypesImpl" -> Is(intTypesImpl(c.data + 1, t))
       [] c.f = "isodateImpl" -> Is(isodateImpl(c.data, t))
       [] c.f = "durationImpl" -> Is(durationImpl(t))
       [] c.f = "maxLengthImpl" -> Is(maxLengthImpl(c.data, t))
       [] c.f = "minLengthImpl" -> Is(minLengthImpl(c.data, t))
       [] c.f = "lengthImpl" -> Is(lengthImpl(c.data, t))
       [] c.f = "fixedImpl" -> Is(fixedImpl(c.data, t))
       [] c.f = "enumerationImpl" -> Is(enumerationImpl(c.data, t))
       [] c.f = "jsontypeImpl" -> Is(jsontypeImpl(c.data, w))
       [] c.f = "base64Impl" -> base64Impl(w, p)
       [] c.f = "tclImpl" -> tclImpl(c.data, t, w)
       [] c.f = "idImpl" -> idImpl(c.data, t, w)
       [] c.f = "idrefImpl" -> idrefImpl(c.data, t, w)
       [] c.f = "keyImpl" -> keyImpl(c.data, t, w)
       [] c.f = "keyrefImpl" -> keyrefImpl(c.data, t, w)
       [] c.f = "tDOM_checkText" -> checkText(c.cp, p, w)
       [] c.f = "oneOfImpl" -> oneOfImpl(c.cp, p, w)
       [] c.f = "notImpl" -> notImpl(c.cp, p, w)
       [] c.f = "stripImpl" -> stripImpl(c.cp, p, w)
       [] c.f = "splitWhitespaceImpl" -> splitWhitespaceImpl(c.cp, p, w, FALSE)
       [] c.f = "splitTclImpl" -> splitTclImpl(c.cp, c.data, p, w)
       [] c.f = "whitespaceImplReplace" -> whitespaceImpl(c.cp, Replaced(t), w)
       [] c.f = "whitespaceImplCollapse" -> whitespaceImpl(c.cp, Collapsed(t), w)

(* ------------------------- the definition commands ------------------------- *)
\* A command of a script: its name, its arguments, each with its type, and the
\* script that ends them.
Command(name, args, sub) == [cmd |-> name, args |-> args, sub |-> sub]
ArgOf(c, k) == c.args[k][2]
IsWord(c, x) == c.args = <<<<"word", x>>>>
Constraint(f, data, cp) == [f |-> f, data |-> data, cp |-> cp]
Refused == [ok |-> FALSE, cs |-> <<>>]
Added(f, data) == [ok |-> TRUE, cs |-> <<Constraint(f, data, <<>>)>>]
Within(f, data, content) ==
  IF content.ok THEN [ok |-> TRUE, cs |-> <<Constraint(f, data, content.cs)>>] ELSE Refused

IndexOf(q, x) == CHOOSE i \in 1 .. Len(q) : q[i] = x
IntegerKinds == <<"integer", "negativeInteger", "nonNegativeInteger", "nonPositiveInteger", "positiveInteger">>
UnsignedKinds == <<"unsignedByte", "unsignedShort", "unsignedInt", "unsignedLong">>
SignedKinds == <<"byte", "short", "int", "long">>
DateKinds == <<"date", "dateTime", "time">>
\* The commands that take no argument.
PlainTypes == [nmtoken |-> "nmtokenImpl", nmtokens |-> "nmtokensImpl", name |-> "nameImpl",
               ncname |-> "ncnameImpl", qname |-> "qnameImpl", hexBinary |-> "hexBinaryImpl",
               base64 |-> "base64Impl", duration |-> "durationImpl"]
NumberTypes == [number |-> "numberImplXsd", boolean |-> "booleanImplXsd"]
Lengths == [maxLength |-> "maxLengthImpl", minLength |-> "minLengthImpl", length |-> "lengthImpl"]
OneArgument == [fixed |-> "fixedImpl", enumeration |-> "enumerationImpl", tcl |-> "tclImpl",
                key |-> "keyImpl", keyref |-> "keyrefImpl"] @@ Lengths
Tables == [id |-> "idImpl", idref |-> "idrefImpl"]
Combined == [oneOf |-> "oneOfImpl", allOf |-> "tDOM_checkText", not |-> "notImpl",
             strip |-> "stripImpl", type |-> "tDOM_checkText"]
Unbounded == 2147483647
JsonTypes == {"NULL", "TRUE", "FALSE", "STRING", "NUMBER"}
Whitespace == [preserve |-> "tDOM_checkText", replace |-> "whitespaceImplReplace",
               collapse |-> "whitespaceImplCollapse"]

\* The constraint a command adds, or Refused.
Plain(c) == IF c.args # <<>> THEN Refused
            ELSE CASE c.cmd \in DOMAIN PlainTypes -> Added(PlainTypes[c.cmd], 0)
                   [] c.cmd \in ToSet(UnsignedKinds) ->
                          Added("unsignedIntTypesImpl", IndexOf(UnsignedKinds, c.cmd) - 1)
                   [] c.cmd \in ToSet(SignedKinds) -> Added("intTypesImpl", IndexOf(SignedKinds, c.cmd) - 1)
                   [] c.cmd \in ToSet(DateKinds) -> Added("isodateImpl", IndexOf(DateKinds, c.cmd) - 1)
XsdOrTcl(c) ==
  IF c.args # <<>> /\ ~IsWord(c, "xsd") THEN Refused
  ELSE IF c.cmd \in DOMAIN NumberTypes THEN Added(NumberTypes[c.cmd], 0)
       ELSE Added("integerImplXsd", IndexOf(IntegerKinds, c.cmd) - 1)
\* A length is taken as unsigned; a small one is spoken of, but not refused.
WithArgument(c) ==
  CASE Len(c.args) # 1 -> Refused
    [] c.cmd \in DOMAIN Lengths -> Added(Lengths[c.cmd], IF ArgOf(c, 1) < 0 THEN Unbounded ELSE ArgOf(c, 1))
    [] OTHER -> Added(OneArgument[c.cmd], ArgOf(c, 1))
\* The empty name is that of a table of its own, next to the one without a name.
WithTable(c) == CASE Len(c.args) = 0 -> Added(Tables[c.cmd], "ids")
                  [] Len(c.args) = 1 -> Added(Tables[c.cmd], ArgOf(c, 1))
                  [] OTHER -> Refused
OfJson(c) == IF Len(c.args) = 1 /\ ArgOf(c, 1) \in JsonTypes
             THEN Added("jsontypeImpl", ArgOf(c, 1)) ELSE Refused
OfScript(c, content) == IF c.args # <<>> THEN Refused ELSE Within(Combined[c.cmd], 0, content)
OfWhitespace(c, content) ==
  IF Len(c.args) # 1 \/ ArgOf(c, 1) \notin DOMAIN Whitespace THEN Refused
  ELSE Within(Whitespace[ArgOf(c, 1)], 0, content)
OfSplit(c, content) ==
  CASE c.args = <<>> -> Within("splitWhitespaceImpl", 0, content)
    [] c.args # <<>> /\ ArgOf(c, 1) = "tcl" -> Within("splitTclImpl", ArgOf(c, 2), content)
    [] OTHER -> Refused

RECURSIVE evalConstraints(_), Compiled(_)
\* A script is left at its first error.
evalConstraints(script) ==
  IF script = <<>> THEN [ok |-> TRUE, cs |-> <<>>]
  ELSE LET first == Compiled(script[1])
           others == evalConstraints(Tail(script))
       IN IF first.ok /\ others.ok THEN [ok |-> TRUE, cs |-> first.cs \o others.cs] ELSE Refused
Compiled(c) ==
  CASE c.cmd \in DOMAIN PlainTypes \cup ToSet(UnsignedKinds \o SignedKinds \o DateKinds) -> Plain(c)
    [] c.cmd \in DOMAIN NumberTypes \cup ToSet(IntegerKinds) -> XsdOrTcl(c)
    [] c.cmd \in DOMAIN OneArgument -> WithArgument(c)
    [] c.cmd \in DOMAIN Tables -> WithTable(c)
    [] c.cmd = "jsontype" -> OfJson(c)
    [] c.cmd \in DOMAIN Combined -> OfScript(c, evalConstraints(c.sub))
    [] c.cmd = "whitespace" -> OfWhitespace(c, evalConstraints(c.sub))
    [] c.cmd = "split" -> OfSplit(c, evalConstraints(c.sub))

\* The script, the texts and key spaces of its documents.
definition == Definitions[chosen]

(* -------------------------------- behaviours ------------------------------- *)
Made(n) ==
  /\ chosen = n /\ constraints = evalConstraints(definition.script)
  /\ tables = <<>> /\ evalError = FALSE /\ told = <<>>
  /\ buffers = <<<<NUL>>, [i \in 1 .. 8 |-> "?"]>>
  /\ judgement = IF constraints.ok THEN "ok" ELSE "refused"
TextsInit == documents = 1 /\ \E n \in 1 .. Len(Definitions) : Made(n)

\* A text of the document has to comply with the constraints.
CheckText ==
  /\ judgement = "ok" /\ Len(told) < definition.events
  /\ \E t \in definition.texts, json \in definition.json :
       LET w == [tables |-> tables, evalError |-> evalError, json |-> json,
                 buffers |-> [buffers EXCEPT ![Caller] = t \o <<NUL>>]]
           r == checkText(constraints.cs, [buffer |-> Caller, at |-> 1], w)
       IN /\ tables' = r.w.tables /\ evalError' = r.w.evalError /\ buffers' = r.w.buffers
          /\ judgement' = IF r.ok THEN "ok" ELSE "invalid"
          /\ told' = Append(told, [e |-> "text", t |-> t, json |-> json])
  /\ UNCHANGED <<chosen, constraints, documents>>

\* A key space begins; if it is active already, the inner one does nothing.
BeginKeyspace ==
  /\ judgement = "ok" /\ Len(told) < definition.events
  /\ \E x \in definition.spaces :
       /\ LET table == TableOf([tables |-> tables], x)
          IN tables' = Storing([tables |-> tables], x,
                            IF table.active = 0 THEN [NoTable EXCEPT !.active = 1]
                            ELSE [table EXCEPT !.active = @ + 1]).tables
       /\ told' = Append(told, [e |-> "begin", x |-> x])
  /\ UNCHANGED <<chosen, constraints, evalError, buffers, judgement, documents>>
EndKeyspace ==
  /\ judgement = "ok"
  /\ \E x \in {x \in definition.spaces : TableOf([tables |-> tables], x).active > 0} :
       LET table == TableOf([tables |-> tables], x)
       IN /\ tables' = Storing([tables |-> tables], x,
               IF table.active = 1 THEN NoTable ELSE [table EXCEPT !.active = @ - 1]).tables
          /\ judgement' = IF table.active = 1 /\ table.unknown # 0 THEN "invalid" ELSE "ok"
          /\ told' = Append(told, [e |-> "end", x |-> x])
  /\ UNCHANGED <<chosen, constraints, evalError, buffers, documents>>

EndDocument ==
  /\ judgement = "ok" /\ told # <<>>
  /\ \A x \in DOMAIN tables : tables[x].active = 0
  /\ judgement' = IF evalError \/ \E x \in DOMAIN tables \ definition.spaces : tables[x].unknown # 0
                THEN "ended invalid" ELSE "ended"
  /\ UNCHANGED <<chosen, constraints, tables, evalError, buffers, told, documents>>

\* The tables are emptied, and all key spaces are inactive.
Emptied(x) == IF x \in definition.spaces \/ tables[x].seen # <<>> THEN NoTable ELSE tables[x]
NextDocument ==
  /\ judgement \in {"invalid", "ended", "ended invalid"} /\ documents < definition.documents
  /\ tables' = [x \in DOMAIN tables |-> Emptied(x)]
  /\ evalError' = FALSE /\ told' = <<>> /\ judgement' = "ok" /\ documents' = documents + 1
  /\ UNCHANGED <<chosen, constraints, buffers>>

TextsNext == CheckText \/ BeginKeyspace \/ EndKeyspace \/ EndDocument \/ NextDocument

(* -------------------------------- the reference ---------------------------- *)
\* The types as XML Schema, XML and RFC 4648 define them, and doc/schema.xml says.
Unsigned(t) == IF At(t, 1) \in Signs THEN Tail(t) ELSE t
Negative(t) == At(t, 1) = "-"
IsNumeral(t) == t # <<>> /\ ToSet(t) \subseteq Digits
IsInteger(t) == IsNumeral(Unsigned(t))
IsZero(t) == ToSet(Unsigned(t)) = {"0"}
StdInteger(kind, t) ==
  IsInteger(t) /\ CASE kind = "integer" -> TRUE
                    [] kind = "negativeInteger" -> Negative(t) /\ ~IsZero(t)
                    [] kind = "nonNegativeInteger" -> ~Negative(t) \/ IsZero(t)
                    [] kind = "nonPositiveInteger" -> Negative(t) \/ IsZero(t)
                    [] kind = "positiveInteger" -> ~Negative(t) /\ ~IsZero(t)
StdDecimal(t) ==
  LET u == Unsigned(t)
  IN IsNumeral(SelectSeq(u, LAMBDA c : c # ".")) /\ Cardinality({i \in 1 .. Len(u) : u[i] = "."}) <= 1
\* Numerals by their values: as long as the longer one, with zeros in front.
Significant(t) == LET u == Unsigned(t) IN SubSeq(u, Past(u, 1, {"0"}), Len(u))
Padded(t, n) == [i \in 1 .. n - Len(t) |-> "0"] \o t
AtMost(t, max) ==
  LET a == Padded(Significant(t), 24)
      b == Padded(max, 24)
  IN \/ a = b
     \/ \E i \in 1 .. 24 : SubSeq(a, 1, i - 1) = SubSeq(b, 1, i - 1) /\ DigitValue[a[i]] < DigitValue[b[i]]
StdBounded(kind, t) ==
  IF kind \in ToSet(UnsignedKinds)
  THEN IsInteger(t) /\ ~Negative(t) /\ AtMost(t, UnsignedMax[IndexOf(UnsignedKinds, kind)])
  ELSE LET k == IndexOf(SignedKinds, kind)
       IN IsInteger(t) /\ AtMost(t, IF Negative(t) THEN SignedMin[k] ELSE SignedMax[k])

\* Dates and times by their values: the day of the calendar, minutes and seconds.
Numeral(t) == FoldLeft(LAMBDA v, c : 10 * v + DigitValue[c], 0, t)
StdYear(y) == /\ IsNumeral(y) /\ Len(y) >= 4 /\ ~IsZero(y) /\ (Len(y) > 4 => y[1] # "0")
MonthLengths == <<31, 28, 31, 30, 31, 30, 31, 31, 30, 31, 30, 31>>
StdDay(y, m, d) ==
  /\ m \in 1 .. 12
  /\ \/ d \in 1 .. MonthLengths[m]
     \/ m = 2 /\ d = 29 /\ (IF y % 100 = 0 THEN y % 400 = 0 ELSE y % 4 = 0)
IsTwo(t) == Len(t) = 2 /\ IsNumeral(t)
StdDate(t) ==
  \E i \in 5 .. Len(t) - 5 :
    LET y == SubSeq(t, IF Negative(t) THEN 2 ELSE 1, i - 1)
        m == SubSeq(t, i + 1, i + 2)
        d == SubSeq(t, i + 4, Len(t))
    IN /\ StdYear(y) /\ t[i] = "-" /\ IsTwo(m) /\ t[i + 3] = "-" /\ IsTwo(d)
       /\ StdDay(Numeral(y), Numeral(m), Numeral(d))
StdTime(t) ==
  /\ Len(t) >= 8
  /\ LET h == SubSeq(t, 1, 2) m == SubSeq(t, 4, 5) s == SubSeq(t, 7, 8)
         seconds == 3600 * Numeral(h) + 60 * Numeral(m) + Numeral(s)
     IN /\ IsTwo(h) /\ t[3] = ":" /\ IsTwo(m) /\ t[6] = ":" /\ IsTwo(s)
        /\ Numeral(m) < 60 /\ Numeral(s) < 60 /\ seconds <= 24 * 3600
        /\ Len(t) > 8 => t[9] = "." /\ IsNumeral(SubSeq(t, 10, Len(t))) /\ seconds < 24 * 3600
StdZone(t) ==
  \/ t \in {<<>>, <<"Z">>}
  \/ /\ Len(t) = 6 /\ t[1] \in Signs /\ IsTwo(SubSeq(t, 2, 3)) /\ t[4] = ":" /\ IsTwo(SubSeq(t, 5, 6))
     /\ Numeral(SubSeq(t, 5, 6)) < 60
     /\ 60 * Numeral(SubSeq(t, 2, 3)) + Numeral(SubSeq(t, 5, 6)) <= 14 * 60
StdDateTime(t) ==
  \E i \in 1 .. Len(t) : t[i] = "T" /\ StdDate(SubSeq(t, 1, i - 1)) /\ StdTime(SubSeq(t, i + 1, Len(t)))
Zoned(Std(_), t) == \E i \in 0 .. Len(t) : Std(SubSeq(t, 1, i)) /\ StdZone(SubSeq(t, i + 1, Len(t)))
StdMoment(kind, t) == CASE kind = "date" -> Zoned(StdDate, t) [] kind = "time" -> Zoned(StdTime, t)
                        [] kind = "dateTime" -> Zoned(StdDateTime, t)

\* Numbers with the signs behind them, in the order of the signs, each at most once.
Parts(t) == LET ends == Places(t, LAMBDA i : t[i] \notin Digits \cup {"."})
            IN [k \in 1 .. Len(ends) |-> SubSeq(t, IF k = 1 THEN 1 ELSE ends[k - 1] + 1, ends[k])]
Order == <<"Y", "M", "D", "T", "H", "M", "S">>
StdPart(part, sign) ==
  LET n == SubSeq(part, 1, Len(part) - 1)
  IN /\ part[Len(part)] = sign
     /\ CASE sign = "T" -> n = <<>>
          [] sign = "S" -> StdDecimal(n) /\ n[1] \in Digits /\ n[Len(n)] \in Digits
          [] OTHER -> IsNumeral(n)
StdDuration(t) ==
  LET u == IF Negative(t) THEN Tail(t) ELSE t
      parts == Parts(Tail(u))
      n == Len(parts)
  IN /\ At(u, 1) = "P" /\ n \in 1 .. 7 /\ FlattenSeq(parts) = Tail(u)
     /\ \E signs \in kSubset(n, 1 .. 7) :
          LET f == Places(Order, LAMBDA k : k \in signs)
          IN /\ \A k \in 1 .. n : StdPart(parts[k], Order[f[k]])
             /\ f[n] > 4 => 4 \in signs
             /\ f[n] # 4

StdBase64(t) ==
  LET u == SelectSeq(t, LAMBDA c : c \notin Blanks)
  IN /\ Len(u) % 4 = 0
     /\ \E k \in 0 .. Min({2, Len(u)}) :
          /\ \A i \in 1 .. Len(u) - k : u[i] \in Base64Letters \cup {"+", "/"}
          /\ \A i \in Len(u) - k + 1 .. Len(u) : u[i] = "="

\* Blanks at the ends removed; the words between blanks; these with one blank each.
Stripped(t) == LET inside == {i \in 1 .. Len(t) : t[i] \notin Blanks}
               IN IF inside = {} THEN <<>> ELSE SubSeq(t, Min(inside), Max(inside))
WordsOf(t) ==
  LET starts == Places(t, LAMBDA i : t[i] \notin Blanks /\ At(t, i - 1) \in Blanks \cup {NUL})
  IN <<>> \o [k \in 1 .. Len(starts) |->
        Stripped(SubSeq(t, starts[k], IF k < Len(starts) THEN starts[k + 1] - 1 ELSE Len(t)))]
Spaced(words) == FlattenSeq([k \in 1 .. Len(words) |-> (IF k > 1 THEN <<" ">> ELSE <<>>) \o words[k]])
Normalized(method, t) ==
  CASE method = "preserve" -> t
    [] method = "replace" -> [i \in 1 .. Len(t) |-> IF t[i] \in Blanks THEN " " ELSE t[i]]
    [] method = "collapse" -> Spaced(WordsOf(t))
\* What the commands inside c are asked about when c is asked about t.
Passed(c, t) == CASE c.cmd \in {"oneOf", "allOf", "not", "type"} -> <<t>>
                  [] c.cmd = "strip" -> <<Stripped(t)>>
                  [] c.cmd = "whitespace" -> <<Normalized(ArgOf(c, 1), t)>>
                  [] c.cmd = "split" -> IF c.args = <<>> THEN WordsOf(t) ELSE ArgOf(c, 2)[t].list
IsLeaf(c) == c.cmd \notin DOMAIN Combined \cup {"whitespace", "split"}

RECURSIVE Meets(_, _, _), Tested(_, _, _)
MeetsAll(script, t, json) == \A k \in 1 .. Len(script) : Meets(script[k], t, json)
Meets(c, t, json) ==
  CASE c.cmd \in ToSet(IntegerKinds) -> StdInteger(c.cmd, t)
    [] c.cmd = "number" -> StdDecimal(t)
    [] c.cmd = "boolean" -> t \in {<<"0">>, <<"1">>, <<"t", "r", "u", "e">>, <<"f", "a", "l", "s", "e">>}
    [] c.cmd \in ToSet(UnsignedKinds \o SignedKinds) -> StdBounded(c.cmd, t)
    [] c.cmd \in ToSet(DateKinds) -> StdMoment(c.cmd, t)
    [] c.cmd = "duration" -> StdDuration(t)
    [] c.cmd = "base64" -> StdBase64(t)
    [] c.cmd = "hexBinary" -> ToSet(t) \subseteq Hex /\ Len(t) % 2 = 0
    [] c.cmd = "name" -> t # <<>> /\ ToSet(t) \subseteq NameChars /\ t[1] \in NameStarts
    [] c.cmd = "ncname" -> t # <<>> /\ ToSet(t) \subseteq NCNameChars /\ t[1] \in NCNameStarts
    [] c.cmd = "qname" ->
         LET Local(u) == u # <<>> /\ ToSet(u) \subseteq NCNameChars /\ u[1] \in NCNameStarts
         IN \/ Local(t)
            \/ \E i \in 1 .. Len(t) :
                 t[i] = ":" /\ Local(SubSeq(t, 1, i - 1)) /\ Local(SubSeq(t, i + 1, Len(t)))
    [] c.cmd = "nmtoken" -> Stripped(t) # <<>> /\ ToSet(Stripped(t)) \subseteq NameChars
                            /\ ToSet(t) \subseteq NameChars \cup {" "}
    [] c.cmd = "nmtokens" -> Stripped(t) # <<>> /\ ToSet(t) \subseteq NameChars \cup {" "}
    [] c.cmd = "maxLength" -> Len(t) <= ArgOf(c, 1)
    [] c.cmd = "minLength" -> Len(t) >= ArgOf(c, 1)
    [] c.cmd = "length" -> Len(t) = ArgOf(c, 1)
    [] c.cmd = "fixed" -> t = ArgOf(c, 1)
    [] c.cmd = "enumeration" -> t \in ArgOf(c, 1)
    [] c.cmd = "tcl" -> ArgOf(c, 1)[t] = "yes"
    [] c.cmd = "jsontype" -> json \in {"none", ArgOf(c, 1)}
    [] c.cmd \in {"id", "idref", "key", "keyref"} -> TRUE
    [] c.cmd = "oneOf" -> \E k \in 1 .. Len(c.sub) : Meets(c.sub[k], t, json)
    [] c.cmd = "not" -> \A k \in 1 .. Len(c.sub) : ~Meets(c.sub[k], t, json)
    [] OTHER -> \A k \in 1 .. Len(Passed(c, t)) : MeetsAll(c.sub, Passed(c, t)[k], json)
\* The commands that are no combinations, with the texts they are asked about: they
\* are asked in order until the answer is known.
Until(n, Known(_)) == 1 .. Min({k \in 1 .. n : Known(k)} \cup {n})
TestedAll(script, t, json) ==
  FlattenSeq([k \in Until(Len(script), LAMBDA k : ~Meets(script[k], t, json)) |-> Tested(script[k], t, json)])
Tested(c, t, json) ==
  IF IsLeaf(c) THEN <<[c |-> c, t |-> t]>>
  ELSE IF c.cmd \in {"oneOf", "not"}
  THEN FlattenSeq([k \in Until(Len(c.sub), LAMBDA k : Meets(c.sub[k], t, json)) |-> Tested(c.sub[k], t, json)])
  ELSE LET texts == Passed(c, t)
       IN FlattenSeq([k \in Until(Len(texts), LAMBDA k : ~MeetsAll(c.sub, texts[k], json)) |->
                        TestedAll(c.sub, texts[k], json)])

\* What is asked about the text at place i of the document.
Events == 1 .. Len(told)
AskedOf(i) == IF told[i].e = "text" THEN TestedAll(definition.script, told[i].t, told[i].json) ELSE <<>>
AllAsked == <<>> \o [i \in Events |-> AskedOf(i)]
\* The uses of cmd in table x in places I, of all that is asked; their values.
Uses(asked, I, cmd, x) ==
  {<<i, k>> \in UNION {{i} \X DOMAIN asked[i] : i \in I} : asked[i][k].c.cmd = cmd /\ asked[i][k].c.args = x}
Given(asked, I, cmd, x) == {asked[u[1]][u[2]].t : u \in Uses(asked, I, cmd, x)}
AllDiffer(asked, I, cmd, x) ==
  Cardinality(Given(asked, I, cmd, x)) = Cardinality(Uses(asked, I, cmd, x))
TablesNamed == {<<>>} \cup {<<<<"word", x>>>> : x \in definition.tables}
\* How often key space x has been begun and not ended at place i; a use of it lasts
\* from where that becomes positive.
Opened(x, i) == Cardinality({j \in 1 .. i : told[j] = [e |-> "begin", x |-> x]})
                - Cardinality({j \in 1 .. i : told[j] = [e |-> "end", x |-> x]})
UseAt(x, i) == {j \in Events : \A n \in Min({i, j}) .. Max({i, j}) : Opened(x, n) > 0}
KeysComply(asked) ==
  \A x \in definition.spaces, i \in Events :
    /\ AllDiffer(asked, UseAt(x, i), "key", <<<<"word", x>>>>)
    /\ told[i] = [e |-> "end", x |-> x] /\ Opened(x, i) = 0 =>
         Given(asked, UseAt(x, i - 1), "keyref", <<<<"word", x>>>>)
           \subseteq Given(asked, UseAt(x, i - 1), "key", <<<<"word", x>>>>)
SoFarComplies(asked) ==
  /\ \A i \in Events : told[i].e = "text" => MeetsAll(definition.script, told[i].t, told[i].json)
  /\ \A x \in TablesNamed : AllDiffer(asked, Events, "id", x)
  /\ KeysComply(asked)
\* At the end every ID that is referred to has been told, and no script has failed.
EndComplies(asked) ==
  /\ \A x \in TablesNamed : Given(asked, Events, "idref", x) \subseteq Given(asked, Events, "id", x)
  /\ \A i \in Events : \A k \in DOMAIN asked[i] :
       asked[i][k].c.cmd = "tcl" => ArgOf(asked[i][k].c, 1)[asked[i][k].t] # "error"

(* ------------------------- where the code departs -------------------------- *)
RECURSIVE CommandsIn(_)
CommandsIn(script) == UNION {{script[k]} \cup CommandsIn(script[k].sub) : k \in 1 .. Len(script)}
\* An explicit "whitespace" is refused; a length that is too small is not.
DefinedAwry(c) == \/ c.cmd = "split" /\ c.args # <<>> /\ ArgOf(c, 1) = "whitespace"
                  \/ c.cmd \in DOMAIN Lengths /\ ArgOf(c, 1) < (IF c.cmd = "length" THEN 0 ELSE 1)
LeafStrays(c, t) ==
  \/ c.cmd = "number" /\ ToSet(t) \cap Digits = {}   \* no digit is needed
  \/ c.cmd = "hexBinary" /\ t = <<>>                 \* the empty text is refused
  \* Nineteen digits are always accepted, and some numbers of twenty.
  \/ c.cmd = "long" /\ IsInteger(t) /\ Len(Significant(t)) >= 19
  \* An assignment for a comparison: any character counts, and is overwritten.
  \/ c.cmd = "base64" /\ ~(ToSet(t) \subseteq Base64Letters \cup Blanks)
  \* A part may be repeated; in front of the first sign may stand numbers with blanks.
  \/ c.cmd = "duration" /\
       LET parts == Parts(t)
       IN \E k \in 2 .. Len(parts) : \/ Last(parts[k]) = Last(parts[k - 1])
                                     \/ Last(parts[k]) = " "
RECURSIVE Strays(_, _)
StraysAll(script, t) == \E k \in 1 .. Len(script) : Strays(script[k], t)
\* Splitting into nothing fails.
Strays(c, t) == IF IsLeaf(c) THEN LeafStrays(c, t)
                ELSE \/ c.cmd = "split" /\ Passed(c, t) = <<>>
                     \/ \E k \in 1 .. Len(Passed(c, t)) : StraysAll(c.sub, Passed(c, t)[k])
\* Inside a whitespace command another one writes the same buffer, and what
\* comes after it sees that.
WritesWsbuf(c) == c.cmd = "whitespace" /\ ~IsWord(c, "preserve")
RECURSIVE Overwritten(_, _)
Overwritten(c, inside) ==
  LET in == inside \/ WritesWsbuf(c)
      writes(k) == \E d \in CommandsIn(<<c.sub[k]>>) : WritesWsbuf(d)
  IN \E k \in 1 .. Len(c.sub) :
       \/ in /\ writes(k) /\ (k < Len(c.sub) \/ c.cmd = "split")
       \/ Overwritten(c.sub[k], in)
CodeDeparts ==
  LET script == definition.script
  IN \/ \E c \in CommandsIn(script) : DefinedAwry(c)
     \/ \E k \in 1 .. Len(script) : Overwritten(script[k], FALSE)
     \/ \E i \in Events : told[i].e = "text" /\ StraysAll(script, told[i].t)

(* A document's texts are valid if and only if each has the types, lengths and  *)
(* values its constraints ask for, however these are combined, every ID and,    *)
(* within its key space, every key is told once, and every reference has one;   *)
(* a second document is judged like the first.  Checking a text leaves it as it *)
(* was.  The departures above are all there are.                                *)
TextsComply ==
  \/ documents = 0 \/ CodeDeparts
  \/ /\ judgement = "refused" <=> ~definition.legal
     /\ judgement # "refused" =>
          LET asked == AllAsked
          IN /\ judgement # "invalid" <=> SoFarComplies(asked)
             /\ judgement = "ended" => EndComplies(asked)
             /\ judgement = "ended invalid" => ~EndComplies(asked)
             /\ told # <<>> /\ Last(told).e = "text" => buffers[Caller] = Last(told).t \o <<NUL>>
=============================================================================
