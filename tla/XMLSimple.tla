----------------------------- MODULE XMLSimple ------------------------------
(* XML_SimpleParse (generic/xmlsimple.c), dom parse -simple: one action is    *)
(* one turn of its loop. The tokens are those of Markup; "&" stands for one   *)
(* that begins no reference it knows. The open elements are a stack of nodes  *)
(* with the children read so far; below them is the document or, with         *)
(* -forest, an element around everything.                                     *)
EXTENDS Markup

VARIABLES text, x,        \* the input and the position in it
          opt,            \* ignoreWhiteSpaces, keepCDATA, forest
          open,           \* the document and the open elements
          activeNS,       \* declarations in scope: depth, prefix, uri
          status          \* "reading", "done", "failed" or "undefined"
xmlVars == <<text, x, opt, open, activeNS, status>>

Opens == {"<", "</", "<!--", "<![CDATA[", "<!DOCTYPE", "<?"}
At(i) == IF i <= Len(text) THEN text[i] ELSE "end"
\* The first position from i on with a token of the set, or the end.
First(i, set) ==
  CHOOSE j \in i..(Len(text) + 1) : /\ At(j) \in set \union {"end"}
                                    /\ \A k \in i..(j - 1) : text[k] \notin set
SkipSpace(i) ==
  CHOOSE j \in i..(Len(text) + 1) : /\ At(j) \notin White
                                    /\ \A k \in i..(j - 1) : text[k] \in White
\* The first position from i on where the tokens end stand, 0 without one.
Ending(i, end) ==
  LET at == {j \in i..(Len(text) + 1 - Len(end)) : SubSeq(text, j, j + Len(end) - 1) = end}
  IN IF at = {} THEN 0 ELSE CHOOSE j \in at : \A k \in at : j <= k
OnlyWhite(s) == \A k \in DOMAIN s : s[k] \in White

(* ---------------------------- the open elements --------------------------- *)
Parent == open[Len(open)]
AtDocument == Len(open) = 1 /\ ~opt.forest
WithChild(frames, node) == [frames EXCEPT ![Len(frames)].children = Append(@, node)]
Closed(frames) == WithChild(Front(frames), Last(frames))
RECURSIVE AllClosed(_)
AllClosed(frames) == IF Len(frames) = 1 THEN frames[1].children ELSE AllClosed(Closed(frames))
Document == AllClosed(open)

\* What is read goes to the document or, with -forest, below an element around it.
Bottom(options) ==
  <<Node("document", IF options.forest THEN <<"forestroot">> ELSE <<>>, <<>>, <<>>, <<>>)>>
Start(input, options) ==
  /\ text = input /\ x = 1 /\ opt = options /\ open = Bottom(options)
  /\ activeNS = <<>> /\ status = "reading"

Fail == status' = "failed" /\ UNCHANGED <<x, open, activeNS>>
Proceed(to, frames) == x' = to /\ open' = frames /\ UNCHANGED <<activeNS, status>>

\* TranslateEntityRefs: a reference above 0xFFFF is an error as an unknown one is.
Reference ==
  [r \in {"&amp;", "&lt;", "&gt;", "&quot;", "&#xA;", "&#xD;", "&#x9;", "&#252;"} |->
     CASE r = "&amp;" -> "&" [] r = "&lt;" -> "<" [] r = "&gt;" -> ">" [] r = "&quot;" -> "\""
       [] r = "&#xA;" -> "nl" [] r = "&#xD;" -> "cr" [] r = "&#x9;" -> "tab" [] OTHER -> "u"]
Translated(s) ==
  Spelled([k \in DOMAIN s |-> IF s[k] \in DOMAIN Reference THEN Reference[s[k]] ELSE s[k]])
Translatable(s) == \A k \in DOMAIN s : s[k] \notin {"&", "&uuml;", "&#66376;"}

\* Text goes to the text before it, if there is one.
WithText(frames, s) ==
  LET n == Len(frames)
      kids == frames[n].children
  IN IF kids # <<>> /\ Last(kids).kind = "text"
     THEN [frames EXCEPT ![n].children[Len(kids)].value = @ \o s]
     ELSE WithChild(frames, TextNode(s))

(* --------------------------- what the loop reads -------------------------- *)
ReadText ==
  /\ At(x) \notin Opens \union {"end"}
  /\ \E e \in {First(x, Opens)} : \E s \in {SubSeq(text, x, e - 1)} :
       IF AtDocument \/ (OnlyWhite(s) /\ opt.ignoreWhiteSpaces) THEN Proceed(e, open)
       ELSE IF Translatable(s) THEN Proceed(e, WithText(open, Translated(s)))
       ELSE Fail

\* A plausible slip: the declarations of the element itself stay.
ScopeMutKeeps(depth) == SelectSeq(activeNS, LAMBDA d : d.depth <= depth)

\* Without the declarations of the element that ends. Where the name ends the input,
\* the comparison goes on behind it.
Scope(depth) == SelectSeq(activeNS, LAMBDA d : d.depth < depth)
EndTag ==
  /\ At(x) = "</"
  /\ \E e \in {x + Len(Parent.name) + 1} :
       IF ~AtDocument /\ SubSeq(text, x + 1, Len(text)) = Parent.name
       THEN status' = "undefined" /\ UNCHANGED <<x, open, activeNS>>
       ELSE IF
          \/ AtDocument
          \/ e > Len(text) \/ SubSeq(text, x + 1, e - 1) # Parent.name
          \/ At(e) \notin White \union {">"}
          \/ At(SkipSpace(e)) # ">"
       THEN Fail
       ELSE IF Len(open) = 1 THEN status' = "done" /\ UNCHANGED <<x, open, activeNS>>
       ELSE /\ x' = SkipSpace(e) + 1 /\ open' = Closed(open)
            /\ activeNS' = Scope(Len(open) - 2)
            /\ status' = IF Len(open) = 2 /\ ~opt.forest THEN "done" ELSE status

ReadComment ==
  /\ At(x) = "<!--"
  /\ \E e \in {Ending(x + 1, <<"-", "-", ">">>)} :
       IF e = 0 THEN Fail
       ELSE Proceed(e + 3, WithChild(open, Node("comment", <<>>, <<>>, SubSeq(text, x + 1, e - 1), <<>>)))

\* The end of a document type: a ">" that is not between brackets.
RECURSIVE DoctypeEnd(_)
DoctypeEnd(i) ==
  CASE At(i) \in {"end", ">"} -> i
    [] At(i) \in {"[", "<![CDATA["} -> DoctypeEnd(First(i + 1, {"]"}))
    [] OTHER -> DoctypeEnd(i + 1)
ReadDoctype ==
  /\ At(x) = "<!DOCTYPE"
  /\ IF At(DoctypeEnd(x + 1)) = "end" THEN Fail ELSE Proceed(DoctypeEnd(x + 1) + 1, open)

ReadCDATA ==
  /\ At(x) = "<![CDATA["
  /\ \E e \in {Ending(x + 1, <<"]", "]", ">">>)} : \E s \in {SubSeq(text, x + 1, e - 1)} :
       CASE e = 0 -> Fail
         [] e # 0 /\ (AtDocument \/ (OnlyWhite(s) /\ opt.ignoreWhiteSpaces) \/ (s = <<>> /\ ~opt.keepCDATA)) ->
              Proceed(e + 3, open)
         [] OTHER -> Proceed(e + 3, IF opt.keepCDATA
                                    THEN WithChild(open, Node("cdata", <<>>, <<>>, Spelled(s), <<>>))
                                    ELSE WithText(open, Spelled(s)))

\* The target goes to the first white space, the data from the next token on.
PIBefore(e) ==
  LET t == IF First(x + 1, White) < e THEN First(x + 1, White) ELSE e
  IN Node("pi", SubSeq(text, x + 1, t - 1), <<>>, SubSeq(text, SkipSpace(t), e - 1), <<>>)
ReadPI ==
  /\ At(x) = "<?"
  /\ \E e \in {Ending(x + 1, <<"?", ">">>)} :
       IF e = 0 THEN Fail ELSE Proceed(e + 2, WithChild(open, PIBefore(e)))

\* An attribute that begins at i: its name, its value and where it ends; a value missing
\* is the name, and at is 0 if the value does not end.
Attr(name, value, at) == [name |-> name, value |-> value, at |-> at]
ValueAt(name, v) ==
  CASE At(v) \in {">", "end"} -> Attr(name, name, v)
    [] At(v) \in {"\"", "'"} ->
         LET e == First(v + 1, {At(v)})
         IN Attr(name, SubSeq(text, v + 1, e - 1), IF At(e) = "end" THEN 0 ELSE e + 1)
    [] OTHER ->
         LET e == First(v, White \union {">"})
         IN Attr(name, SubSeq(text, v, e - 1), IF At(e) = "end" THEN 0 ELSE e)
AttributeAt(i) ==
  LET e == First(i, White \union {"=", ">"})
      s == SkipSpace(e)
  IN ValueAt(SubSeq(text, i, e - 1), SkipSpace(IF At(s) = "=" THEN s + 1 ELSE s))

\* All attributes from i on: the list and the position after them, 0 after an error.
RECURSIVE Attributes(_, _)
AfterAttribute(a, list) ==
  IF a.at = 0 \/ ~Translatable(a.value) THEN [list |-> list, at |-> 0]
  ELSE Attributes(SkipSpace(a.at), Append(list, [name |-> a.name, value |-> Translated(a.value)]))
Attributes(i, list) ==
  IF At(i) \in {"/", ">", "end"} THEN [list |-> list, at |-> i]
  ELSE AfterAttribute(AttributeAt(i), list)

(* ------------------------------- namespaces ------------------------------- *)
IsDeclaration(a) == a.name # <<>> /\ a.name[1] = "xmlns"
\* A name with a prefix is <<prefix, ":", local>>.
PrefixOf(name) == IF Len(name) > 2 /\ name[2] = ":" THEN name[1] ELSE ""
LocalOf(name) == IF Len(name) > 2 /\ name[2] = ":" THEN SubSeq(name, 3, Len(name)) ELSE name
Declares(a) == IF Len(a.name) > 2 THEN a.name[3] ELSE ""

\* The innermost declaration of a prefix, <<>> without one.
RECURSIVE Innermost(_, _)
Innermost(scope, prefix) ==
  IF scope = <<>> THEN <<>>
  ELSE IF Last(scope).prefix = prefix THEN <<Last(scope)>> ELSE Innermost(Front(scope), prefix)

\* domIsNamespaceInScope: a prefix declared again with the same uri is no new declaration.
InScope(scope, prefix, uri) ==
  prefix # "" /\ \E d \in Range(Innermost(scope, prefix)) : d.uri = uri
Declare(scope, a) ==
  IF InScope(scope, Declares(a), a.value) THEN scope
  ELSE Append(scope, [depth |-> Len(open) - 1, prefix |-> Declares(a), uri |-> a.value])
\* A declaration said to be in scope is looked up from the element, which has none yet.
DeclaredTwice(list) ==
  \E j, k \in DOMAIN list :
    /\ j < k /\ IsDeclaration(list[j]) /\ Declares(list[j]) # ""
    /\ list[j] = list[k] /\ Innermost(activeNS, Declares(list[j])) = <<>>
    /\ \A l \in (j + 1)..(k - 1) : list[l].name # list[j].name

\* The uri of a name: of an element also by the default, unless that is empty.
UriOf(scope, name, default) ==
  IF PrefixOf(name) = "" /\ ~default THEN <<>>
  ELSE LET d == Innermost(scope, PrefixOf(name)) IN IF d = <<>> THEN <<>> ELSE d[1].uri

\* The declarations come first in the list of attributes.
NewElement(name, list, scope) ==
  LET plain(a) == ~IsDeclaration(a)
      given == SelectSeq(list, IsDeclaration) \o SelectSeq(list, plain)
  IN Node("element", name,
          [k \in DOMAIN given |->
             [name |-> given[k].name, value |-> given[k].value,
              uri |-> IF IsDeclaration(given[k]) THEN given[k].value
                      ELSE UriOf(scope, given[k].name, FALSE)]], UriOf(scope, name, TRUE), <<>>)

\* An element; where the input ends right after its tag, nothing more is asked for. The
\* "/" of an end tag ends a name, too.
ReadStartTag ==
  /\ At(x) = "<"
  /\ \E e \in {First(x + 1, White \union {"/", ">", "</"})} :
     \E name \in {SubSeq(text, x + 1, e - 1) \o (IF At(e) = "</" THEN <<"<">> ELSE <<>>)} :
     IF At(e) = "end" \/ name = <<>> THEN Fail
     ELSE \E r \in {IF At(e) = "</" THEN [list |-> <<>>, at |-> e] ELSE Attributes(SkipSpace(e), <<>>)} :
       IF r.at = 0 \/ (At(r.at) \in {"/", "</"} /\ At(r.at + 1) # ">") THEN Fail
       ELSE IF At(r.at) = "end" \/ DeclaredTwice(r.list)
       THEN status' = "undefined" /\ UNCHANGED <<x, open, activeNS>>
       ELSE LET scope == FoldLeft(Declare, activeNS, SelectSeq(r.list, IsDeclaration))
                node == NewElement(name, r.list, scope)
                empty == At(r.at) # ">"
                next == IF empty THEN r.at + 2 ELSE r.at + 1
            IN /\ x' = next
               /\ open' = IF empty THEN WithChild(open, node) ELSE Append(open, node)
               /\ activeNS' = IF empty THEN activeNS ELSE scope
               /\ status' = IF At(next) = "end" THEN "done" ELSE status

EndOfInput ==
  /\ At(x) = "end"
  /\ status' = IF opt.forest /\ Len(open) = 1 THEN "done" ELSE "failed"
  /\ UNCHANGED <<x, open, activeNS>>

Read ==
  /\ status = "reading"
  /\ \/ ReadText \/ EndTag \/ ReadComment \/ ReadDoctype \/ ReadCDATA \/ ReadPI
     \/ ReadStartTag \/ EndOfInput
  /\ UNCHANGED <<text, opt>>
=============================================================================
