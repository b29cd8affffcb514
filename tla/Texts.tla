------------------------------- MODULE Texts -------------------------------
(* What dom parse -simple, -html and -json read and what asXML, asHTML,       *)
(* asJSON, asTypedList, asTclValue, asList and asCanonicalXML write: a text   *)
(* is read, the document is written and read again. The documents of the      *)
(* readers are in XMLSimple, HTMLSimple and Json, the writers in Markup and   *)
(* Json.                                                                      *)
EXTENDS Integers, Sequences, FiniteSets

CONSTANTS XMLTexts, HTMLTexts, JSONTexts,    \* what is read first: text and options
          XMLWriters, HTMLWriters,           \* the options of asXML and asHTML
          TypedLists,                        \* what createFromTypedList is given
          AttributeLists,                    \* attributes of an element, and the scope above it
          Marks,                             \* tokens that stand only in text
          NamePrefixes,                      \* prefixes of names, "" is none
          Letters, CustomNames, MaxNesting

VARIABLES kind,      \* "xml", "html", "json" or "attributes"
          text, x, how, frames, activeNS, node, status,    \* the reader
          written,   \* the text was written by tDOM
          given      \* what was written

textVars == <<kind, text, x, how, frames, activeNS, node, status, written, given>>

LOCAL INSTANCE Markup
LOCAL INSTANCE SequencesExt
XML == INSTANCE XMLSimple WITH opt <- how, open <- frames
HTML == INSTANCE HTMLSimple WITH opt <- how, open <- frames
JSON == INSTANCE Json

NoOptions == [forest |-> FALSE]
First(k) == kind = k /\ written = FALSE /\ given = <<>>
TextsInit ==
  \/ First("xml") /\ node = "none" /\ \E t \in XMLTexts : XML!Start(t.text, t.opt)
  \/ First("html") /\ activeNS = <<>> /\ \E t \in HTMLTexts : HTML!Start(t.text, t.opt)
  \/ First("json") /\ text \in JSONTexts
     /\ x = 1 /\ how = NoOptions /\ frames = <<>> /\ activeNS = <<>> /\ node = "none" /\ status = "reading"
  \/ kind = "json" /\ written = TRUE
     /\ given \in {[doc |-> JSON!TypedList2DOM(l), by |-> FALSE] : l \in TypedLists}
     /\ text = JSON!AsJSON(given.doc, FALSE)
     /\ x = 1 /\ how = NoOptions /\ frames = <<>> /\ activeNS = <<>> /\ node = "none" /\ status = "reading"
  \/ kind = "attributes" /\ written = FALSE /\ given \in AttributeLists
     /\ x = 1 /\ text = <<>> /\ how = NoOptions /\ frames = <<>> /\ activeNS = <<>> /\ node = "none"
     /\ status = "reading"

task == <<kind, written, given>>
ReadXML == kind = "xml" /\ XML!Read /\ UNCHANGED <<task, node>>
ReadHTML == kind = "html" /\ HTML!Read /\ UNCHANGED <<task, activeNS>>
ReadJSON ==
  /\ kind = "json" /\ status = "reading"
  /\ \E r \in {JSON!JSON_Parse(text)} :
       /\ x' = r.at /\ frames' = <<r.node>>
       /\ status' = IF r.err = "none" THEN "done" ELSE "failed"
  /\ UNCHANGED <<task, text, how, activeNS, node>>
Canonicalize ==
  /\ kind = "attributes" /\ status = "reading"
  /\ frames' = CanonicalAttributes(given.attrs, given.scope) /\ status' = "done"
  /\ UNCHANGED <<task, text, x, how, activeNS, node>>

\* What was read is written and read again; white space is kept if none was added.
ReadOnce(k) == kind = k /\ status = "done" /\ ~written
Again(document, by, input, options) ==
  /\ written' = TRUE /\ given' = [doc |-> document, by |-> by] /\ text' = input /\ how' = options
  /\ x' = 1 /\ frames' = XML!Bottom(options)
  /\ activeNS' = <<>> /\ node' = "none" /\ status' = "reading" /\ UNCHANGED kind
RereadXML ==
  ReadOnce("xml") /\ \E w \in XMLWriters : \E d \in {XML!Document} :
    Again(d, w, AsXML(d, w), [how EXCEPT !.ignoreWhiteSpaces = w.indent # -1])
RereadHTML ==
  ReadOnce("html") /\ \E w \in HTMLWriters : \E d \in {HTML!Document} : Again(d, w, AsHTML(d, w), how)
RereadJSON ==
  ReadOnce("json") /\ \E indent \in BOOLEAN :
    Again(frames[1], indent, JSON!AsJSON(frames[1], indent), how)

TextsNext ==
  ReadXML \/ ReadHTML \/ ReadJSON \/ Canonicalize \/ RereadXML \/ RereadHTML \/ RereadJSON

(* ------------------------------- properties -------------------------------- *)
Ended(k) == kind = k /\ status # "reading"
Done(k) == kind = k /\ status = "done"
DocumentRead == XML!Document

\* A document with its sections as text, all adjacent text in one node and the characters
\* dropped left out.
JoinNode(nodes, n) ==
  CASE IsText(n) /\ n.value = <<>> -> nodes
    [] IsText(n) /\ n.value # <<>> /\ nodes # <<>> /\ IsText(Last(nodes)) ->
         [nodes EXCEPT ![Len(nodes)].value = @ \o n.value]
    [] OTHER -> Append(nodes, n)
RECURSIVE Normal(_, _)
Normal(nodes, dropped) ==
  FoldLeft(JoinNode, <<>>,
    [k \in DOMAIN nodes |->
       IF nodes[k].kind \in {"text", "cdata"}
       THEN TextNode(SelectSeq(nodes[k].value, LAMBDA c : c \notin dropped))
       ELSE [nodes[k] EXCEPT !.children = Normal(@, dropped)]])

RECURSIVE TextOf(_)
TextOf(nodes) ==
  FlattenSeq([k \in DOMAIN nodes |->
    IF nodes[k].kind \in {"text", "cdata"} THEN nodes[k].value ELSE TextOf(nodes[k].children)])

\* The marks are tokens that stand only in text; those after the first tag are kept.
Marked(s) == SelectSeq(s, LAMBDA c : c \in Marks)
TagAt(i) == i < Len(text) /\ text[i] = "<" /\ text[i + 1] \in Letters \union CustomNames
FirstTag == CHOOSE i \in 1..(Len(text) + 1) :
              (i <= Len(text) => TagAt(i)) /\ \A j \in 1..(i - 1) : ~TagAt(j)
\* In front of the first and between several top elements there is none.
OneTop(nodes) == how.forest \/ Cardinality({k \in DOMAIN nodes : nodes[k].kind = "element"}) <= 1
TextKept ==
  OneTop(DocumentRead) =>
    Marked(TextOf(DocumentRead)) =
      Marked(SubSeq(text, IF how.forest THEN 1 ELSE FirstTag, x - 1))

\* What dom parse -simple accepted it accepts again as asXML writes it, and with the
\* same content: to the last white space if no indentation was asked for, and node by
\* node if no sections were. Only a second element at the top is not read again, the new line behind an empty document element is
\* refused and the XML declaration comes back as a processing instruction.
NewLineAtEnd == ~how.forest /\ given.by.indent # -1 /\ Last(given.doc).children = <<>>
XMLReadsBack ==
  Ended("xml") /\ written /\ ~NewLineAtEnd /\ OneTop(given.doc) =>
    /\ Done("xml")
    /\ LET dropped == IF given.by.indent = -1 THEN {} ELSE White
           read == IF given.by.declaration THEN Tail(DocumentRead) ELSE DocumentRead
       IN Normal(read, dropped) = Normal(given.doc, dropped)
    /\ given.by.indent = -1 /\ given.by.cdata = {} => DocumentRead = given.doc

\* The names of an element and its attributes belong to the namespace the nearest
\* declaration around them gives, whatever was declared and ended before; the text is
\* that between the tags, in its order; and appendFromList makes the same document of
\* what asList tells of it, but for its sections and namespaces.
RECURSIVE Lexical(_, _), Bare(_)
Lexical(nodes, scope) ==
  \A k \in DOMAIN nodes : nodes[k].kind = "element" =>
    LET n == nodes[k]
        declared == {j \in DOMAIN n.attrs : XML!IsDeclaration(n.attrs[j])}
        own(p) == {j \in declared : XML!Declares(n.attrs[j]) = p}
        inner == [p \in DOMAIN scope |->
                    IF own(p) = {} THEN scope[p]
                    ELSE n.attrs[CHOOSE j \in own(p) : \A l \in own(p) : l <= j].value]
    IN /\ n.value = inner[XML!PrefixOf(n.name)]
       /\ \A j \in DOMAIN n.attrs \ declared :
            n.attrs[j].uri = IF XML!PrefixOf(n.attrs[j].name) = "" THEN <<>>
                             ELSE inner[XML!PrefixOf(n.attrs[j].name)]
       /\ Lexical(n.children, inner)
Bare(nodes) ==
  [k \in DOMAIN nodes |->
     CASE nodes[k].kind = "cdata" -> TextNode(nodes[k].value)
       [] nodes[k].kind = "element" ->
            Node("element", nodes[k].name, FoldLeft(SetAttribute, <<>>, nodes[k].attrs), <<>>,
                 Bare(nodes[k].children))
       [] OTHER -> nodes[k]]
XMLIsLexical ==
  Done("xml") /\ ~written =>
    /\ Lexical(DocumentRead, [p \in NamePrefixes |-> <<>>])
    /\ TextKept
    /\ [k \in DOMAIN DocumentRead |-> AppendFromTclList(TreeAsTclList(DocumentRead[k]))]
         = Bare(DocumentRead)

\* asCanonicalXML writes every declaration that changes the scope and every attribute
\* once, in the order of the recommendation, however they were set.
InOrder(a, b) ==
  CASE a.ns /\ b.ns -> Rank[a.prefix] < Rank[b.prefix]
    [] a.ns # b.ns -> a.ns
    [] a.uri # b.uri -> Rank[a.uri] < Rank[b.uri]
    [] OTHER -> Rank[a.local] < Rank[b.local]
IsCanonical ==
  Done("attributes") =>
    /\ \A i, j \in DOMAIN frames : i < j => InOrder(frames[i], frames[j])
    /\ Range(frames) = {a \in Range(given.attrs) :
                          a.ns => a.uri # (IF a.prefix \in DOMAIN given.scope
                                           THEN given.scope[a.prefix] ELSE "")}

\* What is read is what the text says, and what is written of it says the same; in
\* canonical XML there is one way to write it.
XMLIsFaithful == XMLReadsBack /\ XMLIsLexical /\ IsCanonical

\* The same of dom parse -html and asHTML, for documents without processing instructions:
\* asHTML ends those as SGML does, with ">". White space it puts between tags counts only
\* where the reader drops it.
RECURSIVE HasPI(_)
HasPI(nodes) == \E k \in DOMAIN nodes : nodes[k].kind = "pi" \/ HasPI(nodes[k].children)
HTMLReadsBack ==
  Ended("html") /\ written /\ ~HasPI(given.doc) =>
    /\ Done("html")
    /\ LET dropped == IF how.ignoreWhiteSpaces THEN {} ELSE White
       IN Normal(DocumentRead, dropped) = Normal(given.doc, dropped)

\* Whatever tags are missing or closed for others, no text is lost and none moved
\* before another, unless a "<" so near the end is taken for a tag that the reader looks
\* behind the end.
LooksBehind == Len(text) > 1 /\ "<" \in {text[Len(text) - 1], text[Len(text)]}
HTMLKeepsText == Done("html") /\ ~written /\ ~LooksBehind => TextKept

\* Whichever tags are missing, HTML keeps its text, and what asHTML writes reads back.
HTMLIsFaithful == HTMLReadsBack /\ HTMLKeepsText

\* JSON by its grammar.
Trimmed(s) ==
  LET solid == {k \in DOMAIN s : s[k] # "ws"}
      first == CHOOSE k \in solid : \A l \in solid : k <= l
      last == CHOOSE k \in solid : \A l \in solid : l <= k
  IN IF solid = {} THEN <<>> ELSE SubSeq(s, first, last)
Upto(s, k) == Trimmed(SubSeq(s, 1, k - 1))
After(s, k) == Trimmed(SubSeq(s, k + 1, Len(s)))
Inner(s) == Trimmed(SubSeq(s, 2, Len(s) - 1))
AreDigits(s) == s # <<>> /\ Range(s) \subseteq JSON!Digits
IsInteger(s) == AreDigits(s) /\ (Len(s) > 1 => s[1] # "0")
IsUnsigned(s) ==
  LET e == SelectInSeq(s, LAMBDA c : c = "e")
      mantissa == IF e = 0 THEN s ELSE SubSeq(s, 1, e - 1)
      dp == SelectInSeq(mantissa, LAMBDA c : c = ".")
  IN /\ e # 0 => AreDigits(SubSeq(s, IF e < Len(s) /\ s[e + 1] \in {"-", "+"} THEN e + 2 ELSE e + 1, Len(s)))
     /\ IF dp = 0 THEN IsInteger(mantissa)
        ELSE IsInteger(SubSeq(mantissa, 1, dp - 1)) /\ AreDigits(SubSeq(mantissa, dp + 1, Len(mantissa)))
IsNumber(s) == IsUnsigned(s) \/ (s # <<>> /\ s[1] = "-" /\ IsUnsigned(Tail(s)))
IsString(s) ==
  /\ Len(s) > 1 /\ s[1] = "\"" /\ s[Len(s)] = "\""
  /\ \A k \in 2..(Len(s) - 1) : s[k] # "\"" /\ JSON!Unescaped(s[k]) # "bad"
RECURSIVE IsValue(_, _), IsItems(_, _), IsMembers(_, _)
IsValue(s, depth) ==
  \/ s \in {<<l>> : l \in JSON!Literals} \/ IsNumber(s) \/ IsString(s)
  \/ /\ Len(s) > 1 /\ depth > 0
     /\ \/ s[1] = "[" /\ s[Len(s)] = "]" /\ (Inner(s) = <<>> \/ IsItems(Inner(s), depth - 1))
        \/ s[1] = "{" /\ s[Len(s)] = "}" /\ (Inner(s) = <<>> \/ IsMembers(Inner(s), depth - 1))
IsItems(s, depth) ==
  \/ IsValue(s, depth)
  \/ \E k \in DOMAIN s : s[k] = "," /\ IsValue(Upto(s, k), depth) /\ IsItems(After(s, k), depth)
IsMember(s, depth) ==
  \E k \in DOMAIN s : s[k] = ":" /\ IsString(Upto(s, k)) /\ IsValue(After(s, k), depth)
IsMembers(s, depth) ==
  \/ IsMember(s, depth)
  \/ \E k \in DOMAIN s : s[k] = "," /\ IsMember(Upto(s, k), depth) /\ IsMembers(After(s, k), depth)

\* The value a typed list tells of, as asTclValue gives it.
RECURSIVE ValueOf(_)
ValueOf(l) ==
  CASE l.symbol = "ARRAY" -> JSON!TclValue("list", <<>>, [k \in DOMAIN l.list |-> ValueOf(l.list[k])])
    [] l.symbol = "OBJECT" ->
         JSON!TclValue("dict", <<>>,
           FoldLeft(JSON!DictObjPut, <<>>,
             [k \in 1..(Len(l.list) \div 2) |-> <<l.list[2 * k - 1].text, ValueOf(l.list[2 * k])>>]))
    [] l.symbol \in {"STRING", "NUMBER"} -> JSON!TclValue("string", l.text, <<>>)
    [] OTHER -> JSON!TclValue("string", <<CASE l.symbol = "TRUE" -> "true"
                                            [] l.symbol = "FALSE" -> "false" [] OTHER -> "null">>, <<>>)

\* dom parse -json accepts what the grammar of JSON does, if it is not nested too deep; a
\* tree it read or a typed list made is read again from its asJSON, unchanged; and the
\* typed list, the Tcl value and the JSON text of a tree tell of the same value.
JSONReadsBack ==
  Ended("json") =>
    /\ ~written => (Done("json") <=> IsValue(Trimmed(text), MaxNesting))
    /\ written => Done("json") /\ JSON!TreeAsTypedList(frames[1]) = JSON!TreeAsTypedList(given.doc)
    /\ Done("json") =>
         LET l == JSON!TreeAsTypedList(frames[1])
         IN /\ JSON!ValidTypedList(l) /\ JSON!TreeAsTypedList(JSON!TypedList2DOM(l)) = l
            /\ JSON!AsTclValue(frames[1]) = ValueOf(l)
=============================================================================
