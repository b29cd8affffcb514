----------------------------- MODULE HTMLSimple -----------------------------
(* HTML_SimpleParse (generic/domhtml.c), dom parse -html: it takes any tags,  *)
(* closes what was left open and ignores end tags without an element. One     *)
(* action is one turn of its loop. Tokens and the stack of open elements are  *)
(* those of XMLSimple; names are in lower case already.                       *)
EXTENDS Markup

CONSTANTS Letters,      \* tokens of letters and digits
          CustomNames   \* tokens domIsHTML5CustomName accepts

VARIABLES text, x, opt,
          open,         \* the document and the open elements; the last is parent_node
          node,         \* what node points to: "none", "top" (parent_node), "child" of it
          status
htmlVars == <<text, x, opt, open, node, status>>

LOCAL XML == INSTANCE XMLSimple WITH activeNS <- <<>>
At(i) == XML!At(i)
First(i, set) == XML!First(i, set)
SkipSpace(i) == XML!SkipSpace(i)
Ending(i, end) == XML!Ending(i, end)

Closed(frames) == XML!Closed(frames)
WithChild(frames, n) == XML!WithChild(frames, n)
Parent == open[Len(open)]
\* parent_node is NULL
AtDocument(frames) == Len(frames) = 1 /\ ~opt.forest
Document == XML!AllClosed(open)

Start(input, options) ==
  /\ text = input /\ x = 1 /\ opt = options /\ open = XML!Bottom(options)
  /\ node = "none" /\ status = "reading"

Fail == status' = "failed" /\ UNCHANGED <<x, open, node>>
Proceed(to, frames) == x' = to /\ open' = frames /\ UNCHANGED <<node, status>>

\* TranslateEntityRefs: what is no reference stays as it is.
References == {"&", "&uuml;", "&#66376;"} \union DOMAIN XML!Reference
Translated(s) ==
  Spelled([k \in DOMAIN s |->
    CASE s[k] = "&uuml;" -> "u" [] s[k] = "&#66376;" -> "U"
      [] s[k] \in DOMAIN XML!Reference -> XML!Reference[s[k]] [] OTHER -> s[k]])

(* ------------------------------ text and others --------------------------- *)
\* A plausible slip: the text ends one too early.
ReadTextFromMutShort(i) ==
  \E e \in {First(IF At(i) \in XML!Opens THEN i + 1 ELSE i, XML!Opens)} :
    Proceed(e, IF AtDocument(open) THEN open
               ELSE WithChild(open, TextNode(Translated(SubSeq(text, x, e - 2)))))

\* Text from x on; the search for its end begins after what stands at i, if that would be one,
\* and only what it passes is asked for references.
ReadTextFrom(i) ==
  \E j \in {IF At(i) \in XML!Opens THEN i + 1 ELSE i} : \E e \in {First(j, XML!Opens)} :
  \E s \in {SubSeq(text, x, e - 1)} :
    LET ampersandSeen == Range(SubSeq(text, j, e - 1)) \intersect References # {}
        value == IF ampersandSeen THEN Translated(s) ELSE Spelled(s)
        run == Spelled(SubSeq(text, i, e - 1))
        onlyWhites == XML!OnlyWhite(IF run # <<>> /\ run[1] = "<" THEN Tail(run) ELSE run)
        kept == ~(onlyWhites /\ opt.ignoreWhiteSpaces) /\ ~AtDocument(open)
    IN /\ x' = e /\ UNCHANGED status
       /\ open' = IF kept THEN WithChild(open, TextNode(value)) ELSE open
       /\ node' = IF kept THEN "child" ELSE node

\* A "<" begins a tag only before a letter, or with a "-" close to it, which is looked for
\* behind the end of the input, too.
BeginsTag ==
  \/ At(x) = "<" /\ (At(x + 1) \in Letters \union CustomNames \/ "-" \in {At(x + 2), At(x + 3)})
  \/ At(x) = "<?" /\ "-" \in {At(x + 1), At(x + 2)}
MayBeginTag == BeginsTag \/ (At(x) = "<" /\ At(x + 2) = "end")
ReadText ==
  /\ At(x) \notin (XML!Opens \ {"<", "<?"}) \union {"end"} /\ ~BeginsTag
  /\ ReadTextFrom(x)

ReadPI ==
  /\ At(x) = "<?" /\ BeginsTag
  /\ \E e \in {Ending(x + 1, <<"?", ">">>)} :
       IF e = 0 THEN Fail ELSE Proceed(e + 2, WithChild(open, XML!PIBefore(e)))

ReadComment ==
  /\ At(x) = "<!--"
  /\ \E e \in {Ending(x + 1, <<"-", "-", ">">>)} :
       IF e = 0 THEN Fail
       ELSE Proceed(e + 3, WithChild(open, Node("comment", <<>>, <<>>, SubSeq(text, x + 1, e - 1), <<>>)))

ReadDoctype ==
  /\ At(x) = "<!DOCTYPE"
  /\ \E e \in {XML!DoctypeEnd(x + 1)} : IF At(e) = "end" THEN Fail ELSE Proceed(e + 1, open)

\* A section is a text node of its own, even an empty one.
ReadCDATA ==
  /\ At(x) = "<![CDATA["
  /\ \E e \in {Ending(x + 1, <<"]", "]", ">">>)} :
       IF e = 0 THEN Fail
       ELSE Proceed(e + 3, IF AtDocument(open) THEN open
                           ELSE WithChild(open, TextNode(Spelled(SubSeq(text, x + 1, e - 1)))))

(* --------------------------------- end tags ------------------------------- *)
Is(frame, names) == Named(frame, names)
\* Elements another end tag closes, too.
EndTagOmitted == {"a", "b", "colgroup", "dd", "dt", "head", "html", "font", "form", "i", "li",
                  "noscript", "option", "p", "span", "tbody", "td", "tfoot", "thead", "th",
                  "tr", "tt", "ul"}
AutoClose(name, frame) ==
  Is(frame, EndTagOmitted) \/ (name = <<"form">> /\ Is(frame, {"div"})) \/ name = <<"body">>
\* An option that is closed already.
LastElement ==
  LET kids == Parent.children
      n == Len(kids)
  IN IF n > 0 /\ kids[n].kind = "element" THEN kids[n].name
     ELSE IF n > 1 /\ kids[n - 1].kind = "element" THEN kids[n - 1].name ELSE <<>>
NoElementToClose(name) ==
  \/ ~AtDocument(open) /\ name = <<"option">> /\ LastElement = name
  \/ \A k \in DOMAIN open : open[k].name # name

\* The end of the end tag: ">", or the next tag.
EndTagEnds(i, frames) ==
  IF At(i) \in {">"} \union XML!Opens
  THEN /\ x' = IF At(i) = ">" THEN i + 1 ELSE i
       /\ open' = frames /\ status' = IF AtDocument(frames) THEN "done" ELSE status
  ELSE status' = "failed" /\ UNCHANGED <<x, open>>

\* One more element is closed than the innermost, if that has another name: node is
\* looked at to close a table.
EndTag ==
  /\ At(x) = "</"
  /\ \E e \in {First(x + 1, White \union {">"} \union XML!Opens)} :
     \E name \in {SubSeq(text, x + 1, e - 1)} :
       IF At(e) = "end" \/ name = <<>> THEN Fail
       ELSE IF NoElementToClose(name) THEN EndTagEnds(SkipSpace(e), open) /\ UNCHANGED node
       ELSE CASE Parent.name = name -> EndTagEnds(SkipSpace(e), Closed(open)) /\ node' = "child"
              [] Parent.name # name /\ Is(Parent, {"table"}) /\ name \in {<<"tr">>, <<"td">>} ->
                   /\ EndTagEnds(SkipSpace(e), IF node = "child" THEN Closed(open)
                                               ELSE Closed(Closed(open)))
                   /\ node' = "child"
              [] OTHER ->
                   IF AutoClose(name, Parent)
                   THEN EndTagEnds(SkipSpace(e), Closed(Closed(open))) /\ node' = "child"
                   ELSE Fail

(* -------------------------------- start tags ------------------------------ *)
Attr(name, value, at) == [name |-> name, value |-> value, at |-> at]
AttributeAt(i) ==
  LET e == First(i, White \union {"=", ">"})
      s == SkipSpace(e)
      name == SubSeq(text, i, e - 1)
  IN IF At(s) = "=" THEN XML!ValueAt(name, SkipSpace(s + 1)) ELSE Attr(name, name, s)

RECURSIVE Attributes(_, _)
AfterAttribute(a, list) ==
  IF a.at = 0 THEN [list |-> list, at |-> 0]
  ELSE Attributes(SkipSpace(a.at), Append(list, [name |-> a.name, value |-> Translated(a.value)]))
Attributes(i, list) ==
  IF At(i) \in XML!Opens \union {"/", ">", "end"} THEN [list |-> list, at |-> i]
  ELSE AfterAttribute(AttributeAt(i), list)

Void == {"area", "br", "base", "basefont", "col", "embed", "frame", "hr", "img", "input",
         "isindex", "link", "meta", "param", "spacer", "source"}

\* Where the end tag of a script or style begins, the end of the input without one.
ScriptEnd(i) ==
  LET at == {j \in i..Len(text) : text[j] = "</" /\ At(SkipSpace(j + 1)) \in ScriptTags}
  IN IF at = {} THEN Len(text) + 1 ELSE CHOOSE j \in at : \A k \in at : j <= k

\* The frames a new element goes to: the element it closes is closed, and the
\* document gets its html.
Below(name) ==
  LET frames == IF Len(open) > 1 /\ Parent.name = name
                   /\ name \in {<<"a">>, <<"b">>, <<"option">>, <<"pre">>, <<"p">>}
                THEN Closed(open) ELSE open
  IN IF AtDocument(frames) /\ name # <<"html">>
     THEN Append(frames, Node("element", <<"html">>, <<>>, <<>>, <<>>)) ELSE frames

Opened(frames, name, list, r) ==
  LET element == Node("element", name, list, <<>>, <<>>)
      after == CASE At(r) = "/" -> r + 2 [] At(r) = ">" -> r + 1 [] OTHER -> r
      script == Is(element, ScriptTags)
      e == ScriptEnd(after)
      full == IF script /\ At(e) # "end"
              THEN [element EXCEPT !.children = <<TextNode(SubSeq(text, after, e - 1))>>] ELSE element
      hasContent == script \/ (At(r) # "/" /\ ~Is(element, Void))
  IN /\ x' = IF script THEN e ELSE after
     /\ open' = IF hasContent THEN Append(frames, full) ELSE WithChild(frames, full)
     /\ node' = IF hasContent THEN "top" ELSE "child"
     /\ UNCHANGED status

\* A name that is none makes the tag a text.
StartTag ==
  /\ At(x) = "<" /\ MayBeginTag
  /\ \E e \in {First(x + 1, White \union {"/", ">"} \union XML!Opens)} :
     \E name \in {SubSeq(text, x + 1, e - 1)} :
       IF Range(name) \subseteq Letters \/ (Len(name) = 1 /\ name[1] \in CustomNames)
       THEN IF At(e) = "end" \/ name = <<>> THEN Fail
            ELSE \E r \in {Attributes(SkipSpace(e), <<>>)} :
                   IF r.at = 0 \/ (At(r.at) = "/" /\ At(r.at + 1) # ">") THEN Fail
                   ELSE Opened(Below(name), name, r.list, r.at)
       ELSE ReadTextFrom(e)

(* ---------------------------- the end of the input ------------------------ *)
ClosedAtEnd == {"body", "colgroup", "dd", "dt", "head", "html", "li", "option", "p", "tbody",
                "td", "tfoot", "thead", "th", "tr", "ul"}
\* The loop asks the parent of node: above the innermost element if that was opened last.
RECURSIVE FinalClose(_, _)
FinalClose(frames, last) ==
  LET n == Len(frames) IN
  CASE AtDocument(frames) -> frames
    [] ~AtDocument(frames) /\ last = "child" /\ Is(frames[n], ClosedAtEnd) ->
         FinalClose(Closed(frames), "child")
    [] ~AtDocument(frames) /\ last = "top" /\ n > 1 /\ Is(frames[n - 1], ClosedAtEnd) ->
         FinalClose(Closed(Closed(frames)), "child")
    [] OTHER -> frames

EndOfInput ==
  /\ At(x) = "end"
  /\ \E frames \in {FinalClose(open, node)} :
       /\ open' = frames
       /\ status' = CASE node = "none" /\ ~AtDocument(open) -> "undefined"
                      [] (node # "none" \/ AtDocument(open)) /\ Len(frames) = 1 -> "done"
                      [] OTHER -> "failed"
  /\ UNCHANGED <<x, node>>

Read ==
  /\ status = "reading"
  /\ \/ ReadText \/ EndTag \/ ReadComment \/ ReadDoctype \/ ReadCDATA \/ ReadPI \/ StartTag \/ EndOfInput
  /\ UNCHANGED <<text, opt>>
=============================================================================
