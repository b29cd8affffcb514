------------------------------- MODULE Markup -------------------------------
(* The writers of tcldom.c: asXML, asHTML, asCanonicalXML and asList, and the *)
(* way back from a list, appendFromList. A document is a sequence of nodes; a *)
(* text is a sequence of tokens: the beginnings of markup "<", "</", "<!--",  *)
(* "<![CDATA[", "<!DOCTYPE" and "<?", references, names and characters. A     *)
(* name is a sequence of them, mostly of one. Of the characters only those    *)
(* are kept apart that some writer treats in its own way: "u" is one outside  *)
(* of ASCII that fits two bytes, "U" one that takes four.                     *)
EXTENDS Integers, Sequences, SequencesExt, FiniteSets

White == {" ", "nl", "tab", "cr"}
\* In a text, the beginning of markup is the characters it is made of.
Spelled(s) ==
  FlattenSeq([k \in DOMAIN s |->
    CASE s[k] = "</" -> <<"<", "/">> [] s[k] = "<?" -> <<"<", "?">>
      [] s[k] = "<!--" -> <<"<", "!", "-", "-">> [] s[k] = "<!DOCTYPE" -> <<"<", "!", "DOCTYPE">>
      [] s[k] = "<![CDATA[" -> <<"<", "!", "[", "CDATA", "[">> [] OTHER -> <<s[k]>>])

Node(kind, name, attrs, value, children) ==
  [kind |-> kind, name |-> name, attrs |-> attrs, value |-> value, children |-> children]
TextNode(value) == Node("text", <<>>, <<>>, value, <<>>)
IsText(node) == node.kind \in {"text", "raw"}
Named(node, names) == Len(node.name) = 1 /\ node.name[1] \in names
\* The kinds that take a line of their own.
OnItsOwn(node) == node.kind \in {"element", "pi", "comment"}

\* A plausible slip: a quote is escaped only where all of them are asked for.
EscapedCharMutQuot(c, flags) ==
  CASE c = "&" -> "&amp;" [] c = "<" -> "&lt;" [] c = "\"" /\ "allQuot" \in flags -> "&quot;"
    [] OTHER -> c

\* tcldom_AppendEscaped: flags are the output flags that are set.
EscapedChar(c, flags) ==
  CASE c = "\"" /\ flags \intersect {"attr", "allQuot"} # {} -> "&quot;"
    [] c = "&" -> "&amp;"
    [] c = "<" -> "&lt;"
    [] c = ">" /\ "noGt" \notin flags -> "&gt;"
    [] c = "nl" /\ "attr" \in flags -> "&#xA;"
    [] c = "cr" /\ "escapeCR" \in flags -> "&#xD;"
    [] c = "tab" /\ "escapeTab" \in flags -> "&#x9;"
    [] c = "u" /\ "htmlEntities" \in flags -> "&uuml;"
    [] c = "u" /\ "nonASCII" \in flags -> "&#252;"
    [] c = "U" -> "&#66376;"
    [] OTHER -> c

AppendEscaped(value, flags) == [k \in DOMAIN value |-> EscapedChar(value[k], flags)]

\* A text in an element of cdataSectionElements: the section is ended and begun again
\* between ]] and >, which the loop sees only where two ] are not a part of three.
RECURSIVE SplitCDATA(_)
SplitCDATA(s) ==
  IF s = <<>> THEN <<>>
  ELSE IF Len(s) >= 3 /\ s[1] = "]" /\ s[2] = "]"
       THEN IF s[3] = ">" THEN <<"]", "]", "]", "]", ">", "<![CDATA[", ">">> \o SplitCDATA(SubSeq(s, 4, Len(s)))
            ELSE SubSeq(s, 1, 3) \o SplitCDATA(SubSeq(s, 4, Len(s)))
  ELSE IF Len(s) >= 2 /\ s[1] = "]" THEN SubSeq(s, 1, 2) \o SplitCDATA(SubSeq(s, 3, Len(s)))
  ELSE <<s[1]>> \o SplitCDATA(Tail(s))

Section(value) == <<"<![CDATA[">> \o value \o <<"]", "]", ">">>
Comment(node) == <<"<!--">> \o node.value \o <<"-", "-", ">">>

Attribute(a, flags) ==
  a.name \o <<"=", "\"">> \o AppendEscaped(a.value, flags \union {"attr"}) \o <<"\"">>

(* -------------------------------- asXML ----------------------------------- *)
\* opt: flags, indent (-1 for none), indentAttrs, cdata (the elements whose text becomes
\* a section), declaration and doctype.
Indentation(opt, level) == IF opt.indent > 0 THEN [k \in 1..level |-> " "] ELSE <<>>
NewLine(opt) == IF opt.indent # -1 THEN <<"nl">> ELSE <<>>

AttributesAsXML(node, opt, level, doIndent) ==
  FlattenSeq([k \in DOMAIN node.attrs |->
    (IF opt.indentAttrs > -1
     THEN <<"nl">> \o (IF doIndent THEN Indentation(opt, level) \o Indentation(opt, opt.indentAttrs)
                       ELSE <<>>)
     ELSE <<" ">>) \o Attribute(node.attrs[k], opt.flags)])

\* tcldom_treeAsXML; doIndent tells that the node before was one on its own.
RECURSIVE TreeAsXML(_, _, _, _, _)
ChildrenAsXML(node, opt, level) ==
  LET indented(k) == k = 1 \/ OnItsOwn(node.children[k - 1])
  IN FlattenSeq([k \in DOMAIN node.children |->
       TreeAsXML(node.children[k], opt, level + 1, indented(k), node.name \in opt.cdata)])

ElementAsXML(node, opt, level, doIndent) ==
  LET hasElements == \E k \in DOMAIN node.children : OnItsOwn(node.children[k])
      start == <<"<">> \o node.name \o AttributesAsXML(node, opt, level, doIndent)
      end == <<"</">> \o node.name \o <<">">> \o NewLine(opt)
  IN IF node.children = <<>>
     THEN start \o (IF "noEmptyTag" \in opt.flags THEN <<">">> \o end
                    ELSE <<"/", ">">> \o NewLine(opt))
     ELSE start \o <<">">>
          \o (IF OnItsOwn(node.children[1]) THEN NewLine(opt) ELSE <<>>)
          \o ChildrenAsXML(node, opt, level)
          \o (IF hasElements /\ opt.indent # -1 THEN Indentation(opt, level) ELSE <<>>)
          \o end

TreeAsXML(node, opt, level, doIndent, cdataChild) ==
  CASE IsText(node) ->
         IF cdataChild THEN Section(SplitCDATA(node.value))
         ELSE IF node.kind = "raw" THEN node.value ELSE AppendEscaped(node.value, opt.flags)
    [] node.kind = "cdata" -> Section(node.value)
    [] node.kind = "comment" ->
         (IF doIndent THEN Indentation(opt, level) ELSE <<>>) \o Comment(node) \o NewLine(opt)
    [] node.kind = "pi" ->
         (IF doIndent THEN Indentation(opt, level) ELSE <<>>)
         \o <<"<?">> \o node.name \o <<" ">> \o node.value \o <<"?", ">">> \o NewLine(opt)
    [] OTHER -> (IF doIndent THEN Indentation(opt, level) ELSE <<>>)
                \o ElementAsXML(node, opt, level, doIndent)

\* serializeAsXML on a document: the declaration and the document type come first.
AsXML(doc, opt) ==
  (IF opt.declaration THEN <<"<?", "xml", " ", "?", ">", "nl">> ELSE <<>>)
  \o (IF opt.doctype /\ \E k \in DOMAIN doc : doc[k].kind = "element"
      THEN <<"<!DOCTYPE", " ", "x", ">", "nl">> ELSE <<>>)
  \o FlattenSeq([k \in DOMAIN doc |-> TreeAsXML(doc[k], opt, 0, TRUE, FALSE)])

(* -------------------------------- asHTML ---------------------------------- *)
EmptyTags == {"area", "br", "base", "basefont", "col", "frame", "hr", "img", "input",
              "isindex", "link", "meta", "param"}
ScriptTags == {"script", "style"}

RECURSIVE TreeAsHTML(_, _, _)
\* A plausible slip: the text of a script is escaped, too.
ContentAsHTMLMutEscapes(node, opt) ==
  FlattenSeq([k \in DOMAIN node.children |-> TreeAsHTML(node.children[k], opt, FALSE)])

\* A new line after the start tag and before the end tag keeps apart what is not text.
ContentAsHTML(node, opt) ==
  LET n == Len(node.children)
      line(k) == IF n > 1 /\ node.children[k].kind # "text" THEN <<"nl">> ELSE <<>>
      children == FlattenSeq([k \in 1..n |->
                    TreeAsHTML(node.children[k], opt, Named(node, ScriptTags))])
  IN IF n = 0 THEN <<>> ELSE line(1) \o children \o line(n)

\* tcldom_treeAsHTML
TreeAsHTML(node, opt, noEscaping) ==
  CASE node.kind \in {"text", "raw", "cdata"} ->
         IF noEscaping \/ node.kind = "raw" THEN node.value ELSE AppendEscaped(node.value, opt.flags)
    [] node.kind = "comment" -> Comment(node)
    [] node.kind = "pi" -> <<"<?">> \o node.name \o <<" ">> \o node.value \o <<">">>
    [] OTHER ->
         <<"<">> \o node.name
         \o FlattenSeq([k \in DOMAIN node.attrs |-> <<" ">> \o Attribute(node.attrs[k], opt.flags)])
         \o (IF opt.breakLines THEN <<"nl", ">">> ELSE <<">">>)
         \o (IF Named(node, EmptyTags)
             THEN FlattenSeq([k \in DOMAIN node.children |-> TreeAsHTML(node.children[k], opt, FALSE)])
             ELSE ContentAsHTML(node, opt) \o <<"</">> \o node.name \o <<">">>)

\* serializeAsHTML on a document
AsHTML(doc, opt) ==
  (IF opt.doctype /\ \E k \in DOMAIN doc : doc[k].kind = "element"
   THEN <<"<!DOCTYPE", " ", "x", ">", "nl">> ELSE <<>>)
  \o FlattenSeq([k \in DOMAIN doc |-> TreeAsHTML(doc[k], opt, FALSE)])

(* ---------------------------- asCanonicalXML ------------------------------ *)
\* An attribute: ns tells a declaration, whose prefix and uri are then those it declares;
\* the others have the uri of their prefix, "" without one. Strings are ordered by rank.
Rank == [s \in {"", "a", "b", "p", "q"} |->
           CASE s = "" -> 0 [] s = "a" -> 1 [] s = "b" -> 2 [] s = "p" -> 3 [] OTHER -> 4]

\* compareAtts: does a come before b? The test whether only b is a declaration asks a again.
Before(a, b) ==
  CASE a.ns /\ b.ns -> a.prefix = "" \/ (b.prefix # "" /\ Rank[a.prefix] < Rank[b.prefix])
    [] a.ns /\ ~b.ns -> TRUE
    [] a.uri # "" /\ b.uri # "" /\ a.uri # b.uri -> Rank[a.uri] < Rank[b.uri]
    [] a.uri # "" /\ b.uri = "" -> FALSE
    [] a.uri = "" /\ b.uri # "" -> TRUE
    [] OTHER -> Rank[a.local] < Rank[b.local]

RECURSIVE MergeAtt(_, _), MergeSortAtt(_)
MergeAtt(a, b) ==
  IF a = <<>> THEN b ELSE IF b = <<>> THEN a
  ELSE IF Before(a[1], b[1]) THEN <<a[1]>> \o MergeAtt(Tail(a), b)
  ELSE <<b[1]>> \o MergeAtt(a, Tail(b))

MergeSortAtt(list) ==
  LET half == Len(list) \div 2
  IN IF Len(list) <= 1 THEN list
     ELSE MergeAtt(MergeSortAtt(SubSeq(list, 1, half)), MergeSortAtt(SubSeq(list, half + 1, Len(list))))

\* A plausible slip: a prefix in scope is enough, whatever it stands for.
SuperfluousMutAny(a, scope) == a.ns /\ (a.prefix \in DOMAIN scope \/ a.uri = "")

\* A declaration that changes nothing is left out; scope gives the uris of the prefixes in
\* scope above the element.
Superfluous(a, scope) ==
  a.ns /\ IF a.prefix \in DOMAIN scope THEN scope[a.prefix] = a.uri ELSE a.uri = ""

\* The attributes treeAsCanonicalXML writes, in their order.
CanonicalAttributes(attrs, scope) ==
  MergeSortAtt(SelectSeq(attrs, LAMBDA a : ~Superfluous(a, scope)))

(* --------------------------------- asList --------------------------------- *)
ListItem(tag, name, value, attrs, list) ==
  [tag |-> tag, name |-> name, value |-> value, attrs |-> attrs, list |-> list]

RECURSIVE TreeAsTclList(_)
TreeAsTclList(node) ==
  CASE node.kind \in {"text", "raw", "cdata"} -> ListItem("#text", <<>>, node.value, <<>>, <<>>)
    [] node.kind = "comment" -> ListItem("#comment", <<>>, node.value, <<>>, <<>>)
    [] node.kind = "pi" -> ListItem("#pi", node.name, node.value, <<>>, <<>>)
    [] OTHER -> ListItem("", node.name, <<>>, node.attrs,
                         [k \in DOMAIN node.children |-> TreeAsTclList(node.children[k])])

\* tcldom_appendFromTclList: an attribute given twice keeps its place and gets the new value.
SetAttribute(attrs, a) ==
  IF \E k \in DOMAIN attrs : attrs[k].name = a.name
  THEN [k \in DOMAIN attrs |-> IF attrs[k].name = a.name THEN a ELSE attrs[k]]
  ELSE Append(attrs, a)

RECURSIVE AppendFromTclList(_)
AppendFromTclList(item) ==
  CASE item.tag = "#text" -> TextNode(item.value)
    [] item.tag = "#cdata" -> Node("cdata", <<>>, <<>>, item.value, <<>>)
    [] item.tag = "#comment" -> Node("comment", <<>>, <<>>, item.value, <<>>)
    [] item.tag = "#pi" -> Node("pi", item.name, <<>>, item.value, <<>>)
    [] OTHER -> Node("element", item.name, FoldLeft(SetAttribute, <<>>, item.attrs), <<>>,
                     [k \in DOMAIN item.list |-> AppendFromTclList(item.list[k])])
=============================================================================
