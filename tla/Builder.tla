------------------------------ MODULE Builder ------------------------------
(***************************************************************************)
(* The DOM builder of `dom parse': the handlers dom.c gives to expat, and  *)
(* domReadDocument around them.  The environment is expat and the source   *)
(* text, one action per event, in the order a well-formed document (or a   *)
(* forest, or a document broken off anywhere) reports them: `open' is what *)
(* the source has open, `parsers' the parser and the ones created for      *)
(* external entities.  The builder is one record `b': the tree made so far *)
(* and the fields of domReadInfo.  A piece of character data is a number   *)
(* and whether it is white space only.                                     *)
(***************************************************************************)
EXTENDS Naturals, Sequences, FiniteSets

CONSTANTS Options,       \* the calls of `dom parse': the options of each, and
                         \* the bounds on the source it is given
          Prefixes,      \* namespace prefixes of the source, "" the default one
          Uris,          \* namespace URIs of the source, "" undeclares
          MaxEntities    \* bound on the nesting of external entities

ASSUME OptionsAssumption ==
  \A o \in Options : /\ o.attrs \subseteq {"none", "space", "declares", "prefixed"}
                     /\ o.maxNodes \in Nat /\ o.maxPieces \in Nat
                     /\ \A flag \in {"forest", "keepEmpties", "keepCDATA", "schema", "feedback",
                                     "extResolver"} : o[flag] \in BOOLEAN

VARIABLES opt,      \* the options of the call
          b,        \* the builder: tree and domReadInfo
          run,      \* "parsing", "suspended", "error", "hung" or the outcome
          open,     \* the elements the source has open
          parsers,  \* the parser, then those of the open external entities
          pending,  \* an empty element tag: its end is reported next
          pieces,   \* for each piece reported: the node it is the content of
          bases     \* for each node: the base URI of the entity it came from

vars == <<opt, b, run, open, parsers, pending, pieces, bases>>

NIL == 0
Root == 1

Attrs == {[is |-> "none"]} \cup [is : {"space"}, value : {"preserve", "default"}]
           \cup [is : {"declares"}, prefix : Prefixes, uri : Uris]
           \cup [is : {"prefixed"}, prefix : Prefixes \ {""}]

Top(s) == s[Len(s)]
Front(s) == SubSeq(s, 1, Len(s) - 1)
SeqElems(s) == {s[i] : i \in DOMAIN s}

Node(kind, parent, text) ==
  [kind |-> kind, parent |-> parent, kids |-> <<>>, space |-> "none",
   ns |-> "none", base |-> NIL, text |-> text]

Init ==
  /\ opt \in Options
  /\ b = [nodes |-> <<Node("root", NIL, <<>>)>>,
          current |-> IF opt.forest THEN Root ELSE NIL, depth |-> 0,
          ignoreWhiteSpaces |-> ~opt.keepEmpties, preserveDeep |-> 0, defaultDeep |-> 0,
          cdata |-> <<>>, cdataSection |-> FALSE, activeNS |-> <<>>,
          baseURIstack |-> <<[base |-> 1, depth |-> 0]>>,
          insideDTD |-> FALSE, status |-> "ok"]
  /\ run = "parsing" /\ open = <<>> /\ parsers = <<[base |-> 1, openAt |-> 0]>>
  /\ pending = FALSE /\ pieces = <<>> /\ bases = <<1>>

----------------------------------------------------------------------------
(* The tree.  A node without a parent is linked below the root node: an    *)
(* element at depth 0, a comment or processing instruction while there is  *)
(* no current node.                                                        *)

Base == Top(parsers).base

WithBase(c, node) ==
  IF Top(c.baseURIstack).base # Base THEN [node EXCEPT !.base = Base] ELSE node

AppendNode(c, holder, node) ==
  LET held == [c.nodes EXCEPT ![holder].kids = Append(@, Len(c.nodes) + 1)]
  IN  [c EXCEPT !.nodes = Append(held, WithBase(c, node))]

\* Text is merged into a text node before it, dropped when it is white space
\* that is not kept, and else becomes a node of its own.
AddText(c) ==
  LET cur == c.current
      kids == c.nodes[cur].kids
      merges == kids # <<>> /\ c.nodes[Top(kids)].kind = "text" /\ ~c.cdataSection
      dropped == c.ignoreWhiteSpaces /\ \A i \in DOMAIN c.cdata : c.cdata[i].white
      kind == IF c.cdataSection THEN "cdata" ELSE "text"
  IN  CASE merges -> [c EXCEPT !.nodes[Top(kids)].text = @ \o c.cdata]
        [] ~merges /\ dropped -> c
        [] OTHER -> AppendNode(c, cur, Node(kind, cur, c.cdata))

\* The top of the schema command's stack has a text constraint.
WantsText == opt.schema /\ open # <<>> /\ Top(open).constrained

Idle(c) == c.cdata = <<>> /\ ~c.cdataSection /\ ~WantsText

\* A plausible slip: the return for dropped white space leaves it collected.
DispatchPCDATAMutKeeps(c) ==
  IF Idle(c) \/ c.current = NIL \/ AddText(c) = c THEN c
  ELSE [AddText(c) EXCEPT !.cdata = <<>>]

DispatchPCDATA(c) ==
  IF Idle(c) \/ c.current = NIL THEN c
  ELSE [AddText(c) EXCEPT !.cdata = <<>>]

\* tDOM_probeText may reject the text.  White space in element content is let
\* through only when the builder has found it to be white space; it looks only
\* while it strips, otherwise the flag it passes on is not initialised.
MayReject(c) ==
  /\ opt.schema /\ ~Idle(c) /\ c.current # NIL
  /\ \/ WantsText
     \/ ~c.ignoreWhiteSpaces
     \/ \E i \in DOMAIN c.cdata : ~c.cdata[i].white

\* What the schema command may say of an event: with a text before it or
\* without, an element, its attributes and its end may be rejected.
Verdicts(event) == IF opt.schema /\ event THEN {"parsing", "error"} ELSE {"parsing"}
TextVerdicts(c) == Verdicts(MayReject(c))

----------------------------------------------------------------------------
(* Namespaces: activeNS holds the declarations in scope, with the depth of *)
(* the element they are at.                                                *)

LookupIn(stack, prefix) ==
  LET found == {i \in DOMAIN stack : stack[i].prefix = prefix}
  IN  IF found = {} THEN "none"
      ELSE stack[CHOOSE i \in found : \A j \in found : j <= i].uri

\* domIsNamespaceInScope: the innermost declaration of the prefix is this one.
InScope(c, attr) == attr.prefix # "" /\ LookupIn(c.activeNS, attr.prefix) = attr.uri

Declare(c, attr) ==
  IF attr.is # "declares" \/ InScope(c, attr) THEN c
  ELSE [c EXCEPT !.activeNS =
          Append(@, [depth |-> c.depth, prefix |-> attr.prefix, uri |-> attr.uri])]

PopNamespaces(c) ==
  LET keep == {i \in DOMAIN c.activeNS : \E j \in i .. Len(c.activeNS) :
                                             c.activeNS[j].depth # c.depth}
  IN  [c EXCEPT !.activeNS = SubSeq(@, 1, Cardinality(keep))]

----------------------------------------------------------------------------
(* xml:space.                                                              *)

EnterSpace(c, n, attr) ==
  IF attr.is # "space" \/ opt.keepEmpties THEN c
  ELSE IF attr.value = "preserve"
       THEN [c EXCEPT !.nodes[n].space = "preserve", !.preserveDeep = @ + 1,
                      !.ignoreWhiteSpaces = FALSE]
  ELSE IF c.preserveDeep > 0
       THEN [c EXCEPT !.nodes[n].space = "default", !.defaultDeep = @ + 1,
                      !.ignoreWhiteSpaces = TRUE]
  ELSE c

Ancestors(c, n) ==
  LET up[k \in 0 .. Len(c.nodes)] ==
        IF k = 0 THEN n ELSE IF up[k - 1] = NIL THEN NIL ELSE c.nodes[up[k - 1]].parent
  IN  [k \in 1 .. Cardinality({j \in 1 .. Len(c.nodes) : up[j] # NIL}) |-> up[k]]

\* The flag of the nearest flagged ancestor.
NearestSpace(c, n) ==
  LET above == Ancestors(c, n)
      flagged == {k \in DOMAIN above : c.nodes[above[k]].space # "none"}
  IN  IF flagged = {} THEN "none"
      ELSE c.nodes[above[CHOOSE k \in flagged : \A j \in flagged : k <= j]].space

LeavePreserve(c) ==
  LET d == [c EXCEPT !.preserveDeep = @ - 1]
  IN  IF d.preserveDeep = 0 \/ NearestSpace(d, d.current) = "default"
      THEN [d EXCEPT !.ignoreWhiteSpaces = TRUE] ELSE d

\* While another "default" is open only the parent is looked at: the loop
\* never moves on to the next ancestor.
LeaveDefault(c) ==
  LET d == [c EXCEPT !.defaultDeep = @ - 1]
      parent == d.nodes[d.current].parent
  IN  IF d.defaultDeep = 0 THEN [d EXCEPT !.ignoreWhiteSpaces = @ /\ d.preserveDeep = 0]
      ELSE IF parent = NIL \/ d.nodes[parent].space = "none" THEN d
      ELSE [d EXCEPT !.ignoreWhiteSpaces = d.nodes[parent].space = "default"]

LoopsForEver(c) ==
  /\ c.preserveDeep > 0 /\ c.current # NIL /\ c.nodes[c.current].space = "default"
  /\ c.defaultDeep > 1
  /\ c.nodes[c.current].parent # NIL
  /\ c.nodes[c.nodes[c.current].parent].space = "none"

LeaveSpace(c) ==
  CASE c.preserveDeep > 0 /\ c.nodes[c.current].space = "preserve" -> LeavePreserve(c)
    [] c.preserveDeep > 0 /\ c.nodes[c.current].space = "default" -> LeaveDefault(c)
    [] OTHER -> c

----------------------------------------------------------------------------
(* Elements.                                                               *)

Parsing == run = "parsing" /\ ~pending
Room == Len(b.nodes) + 1 < opt.maxNodes
Content == Parsing /\ ~b.insideDTD /\ (open # <<>> \/ opt.forest)

\* A plausible slip: the entry is at the depth of the element's content.
PushBaseMutDeeper(c) ==
  IF Top(c.baseURIstack).base = Base THEN c
  ELSE [c EXCEPT !.baseURIstack = Append(@, [base |-> Base, depth |-> c.depth + 1])]

PushBase(c) ==
  IF Top(c.baseURIstack).base = Base THEN c
  ELSE [c EXCEPT !.baseURIstack = Append(@, [base |-> Base, depth |-> c.depth])]

NewElement(c) ==
  LET n == Len(c.nodes) + 1
      d == AppendNode(c, IF c.depth = 0 THEN Root ELSE c.current,
                      Node("element", IF c.depth = 0 THEN NIL ELSE c.current, <<>>))
  IN  [PushBase(d) EXCEPT !.current = n]

BadDeclaration(attr) == attr.is = "declares" /\ attr.prefix # "" /\ attr.uri = ""
Unbound(c, prefix) == prefix # "" /\ LookupIn(c.activeNS, prefix) = "none"

Opened(prefix, attr, constrained) ==
  Append(open, [node |-> Len(DispatchPCDATA(b).nodes) + 1, prefix |-> prefix, attr |-> attr,
                constrained |-> constrained])

\* The element becomes a node, its declarations are pushed and its names looked
\* up.  A prefix that is not declared, or is undeclared, stops the parser at
\* once, before the depth is counted up.
StartTag(prefix, attr, constrained) ==
  LET c == NewElement(DispatchPCDATA(b))
      n == c.current
      declared == Declare(c, attr)
      uri == LookupIn(declared.activeNS, prefix)
      named == [declared EXCEPT !.nodes[n].ns = IF uri = "" THEN "none" ELSE uri]
      done == [EnterSpace(named, n, attr) EXCEPT !.depth = @ + 1]
      noElementNS == ~BadDeclaration(attr) /\ Unbound(declared, prefix)
      noAttrNS == attr.is = "prefixed" /\ Unbound(declared, attr.prefix)
  IN  /\ open' = Opened(prefix, attr, constrained)
      /\ bases' = bases \o [k \in 1 .. Len(c.nodes) - Len(b.nodes) |-> Base]
      /\ \/ BadDeclaration(attr) /\ b' = c /\ run' = "error"
         \/ noElementNS /\ b' = declared /\ run' = "error"
         \/ ~BadDeclaration(attr) /\ ~noElementNS /\ noAttrNS /\ b' = named /\ run' = "error"
         \/ /\ ~BadDeclaration(attr) /\ ~noElementNS /\ ~noAttrNS
            /\ b' = done /\ run' \in Verdicts(TRUE) \cup TextVerdicts(b)

CanStart == Parsing /\ ~b.insideDTD /\ ~b.cdataSection /\ Room
            /\ (open # <<>> \/ opt.forest \/ \A i \in DOMAIN b.nodes : b.nodes[i].kind # "element")

StartElement(prefix, attr, constrained, empty) ==
  /\ CanStart
  /\ StartTag(prefix, attr, constrained)
  /\ pending' = empty
  /\ UNCHANGED <<opt, parsers, pieces>>

\* The feedback script stops the parser before anything is built.  An empty
\* element's end is reported all the same.
FeedbackStops(prefix, attr, empty, code) ==
  /\ CanStart /\ opt.feedback
  /\ b' = [b EXCEPT !.status = code]
  /\ run' = "suspended" /\ pending' = empty
  /\ open' = IF empty THEN Append(open, [node |-> NIL, prefix |-> prefix, attr |-> attr,
                                         constrained |-> FALSE])
             ELSE open
  /\ UNCHANGED <<opt, parsers, pieces, bases>>

\* The element closes: namespaces, white space handling and the base URI go
\* back to what they were, and the parent is current again.
CloseElement(c) ==
  LET down == [c EXCEPT !.depth = @ - 1]
      back == IF down.current = NIL THEN PopNamespaces(down)
              ELSE LeaveSpace(PopNamespaces(down))
      up == [back EXCEPT !.current =
               IF back.current = NIL THEN NIL ELSE back.nodes[back.current].parent]
  IN  IF up.depth # 0 /\ Top(up.baseURIstack).depth = up.depth
      THEN [up EXCEPT !.baseURIstack = Front(@)] ELSE up

\* After a stop only the end of an empty element tag still comes in; what it
\* does to the builder is gone with the document.
EndElement ==
  LET c == DispatchPCDATA(b)
  IN  /\ open # <<>> /\ ~b.cdataSection /\ Len(open) > Top(parsers).openAt
      /\ open' = Front(open) /\ pending' = FALSE
      /\ \/ /\ run = "parsing" /\ (pending \/ Room)
            /\ bases' = bases \o [k \in 1 .. Len(c.nodes) - Len(b.nodes) |-> Base]
            /\ IF LoopsForEver(c) THEN b' = c /\ run' = "hung"
               ELSE b' = CloseElement(c) /\ run' \in Verdicts(TRUE) \cup TextVerdicts(b)
         \/ pending /\ run \in {"suspended", "error"} /\ UNCHANGED <<b, run, bases>>
      /\ UNCHANGED <<opt, parsers, pieces>>

----------------------------------------------------------------------------
(* Text, comments, processing instructions, the document type.             *)

CharacterData(white) ==
  /\ Content /\ Len(pieces) < opt.maxPieces
  /\ b' = [b EXCEPT !.cdata = Append(@, [no |-> Len(pieces) + 1, white |-> white])]
  /\ pieces' = Append(pieces, [of |-> IF open = <<>> THEN Root ELSE Top(open).node,
                               white |-> white])
  /\ UNCHANGED <<opt, run, open, parsers, pending, bases>>

\* Reported only with -keepCDATA.
CDATASection(starts) ==
  LET c == DispatchPCDATA(b)
  IN  /\ Content /\ Room /\ opt.keepCDATA /\ b.cdataSection = ~starts
      /\ b' = [c EXCEPT !.cdataSection = starts]
      /\ bases' = bases \o [k \in 1 .. Len(c.nodes) - Len(b.nodes) |-> Base]
      /\ run' \in TextVerdicts(b)
      /\ UNCHANGED <<opt, open, parsers, pending, pieces>>

CommentOrPI(kind) ==
  LET c == DispatchPCDATA(b)
      d == AppendNode(c, IF c.current = NIL THEN Root ELSE c.current,
                      Node(kind, c.current, <<>>))
  IN  /\ Parsing /\ ~b.cdataSection
      /\ \/ b.insideDTD /\ UNCHANGED <<b, run, bases>>
         \/ /\ ~b.insideDTD /\ Room /\ b' = d /\ run' \in TextVerdicts(b)
            /\ bases' = bases \o [k \in 1 .. Len(d.nodes) - Len(b.nodes) |-> Base]
      /\ UNCHANGED <<opt, open, parsers, pending, pieces>>

Doctype(starts) ==
  /\ Parsing /\ ~opt.forest /\ Len(b.nodes) = 1 /\ b.insideDTD = ~starts
  /\ b' = [b EXCEPT !.insideDTD = starts]
  /\ UNCHANGED <<opt, run, open, parsers, pending, pieces, bases>>

----------------------------------------------------------------------------
(* External entities.                                                      *)

\* The text before the reference is put into the tree first.  The script's
\* answer is parsed by a parser of its own, with the base URI of the answer.
ExternalEntity ==
  LET c == DispatchPCDATA(b)
  IN  /\ Content /\ Room /\ ~opt.forest /\ opt.extResolver /\ ~b.cdataSection
      /\ \A i \in DOMAIN parsers : parsers[i].base <= MaxEntities
      /\ b' = c /\ run' \in TextVerdicts(b)
      /\ bases' = bases \o [k \in 1 .. Len(c.nodes) - Len(b.nodes) |-> Base]
      /\ parsers' = Append(parsers, [base |-> Base + 1, openAt |-> Len(open)])
      /\ UNCHANGED <<opt, open, pending, pieces>>

\* Without a script, with a script that fails, breaks or answers something
\* else than a triple of a known kind, expat reports an error.
EntityRefused(code) ==
  LET c == DispatchPCDATA(b)
  IN  /\ Content /\ Room /\ ~opt.forest /\ ~b.cdataSection
      /\ opt.extResolver \/ code = "ok"
      /\ b' = [(IF opt.extResolver THEN c ELSE b) EXCEPT !.status = code]
      /\ bases' = bases \o [k \in 1 .. Len(b'.nodes) - Len(b.nodes) |-> Base]
      /\ run' = "error"
      /\ UNCHANGED <<opt, open, parsers, pending, pieces>>

\* The text at the end of the entity is put into the tree with the entity's
\* parser still in place.
EntityEnd ==
  LET c == DispatchPCDATA(b)
  IN  /\ Content /\ Room /\ Len(parsers) > 1 /\ Len(open) = Top(parsers).openAt
      /\ ~b.cdataSection
      /\ b' = c /\ run' \in TextVerdicts(b)
      /\ bases' = bases \o [k \in 1 .. Len(c.nodes) - Len(b.nodes) |-> Base]
      /\ parsers' = Front(parsers)
      /\ UNCHANGED <<opt, open, pending, pieces>>

----------------------------------------------------------------------------
(* The end of the parse.                                                   *)

Malformed == Parsing /\ run' = "error"
             /\ UNCHANGED <<opt, b, open, parsers, pending, pieces, bases>>

\* In a forest the text at the end belongs to the root node, whose children
\* then lose it as their parent.
Finished(c) ==
  LET d == DispatchPCDATA([c EXCEPT !.current = Root])
  IN  IF ~opt.forest THEN c
      ELSE [d EXCEPT !.nodes = [n \in DOMAIN @ |->
              IF n \in SeqElems(d.nodes[Root].kids) THEN [@[n] EXCEPT !.parent = NIL] ELSE @[n]]]

Finish ==
  /\ Parsing /\ open = <<>> /\ Len(parsers) = 1 /\ ~b.insideDTD /\ ~b.cdataSection
  /\ opt.forest \/ \E i \in DOMAIN b.nodes : b.nodes[i].kind = "element"
  /\ b' = Finished(b) /\ run' = "document"
  /\ bases' = bases \o [k \in 1 .. Len(b'.nodes) - Len(b.nodes) |-> Base]
  /\ UNCHANGED <<opt, open, parsers, pending, pieces>>

\* A parse that stopped, in whatever entity, ends in no document at all: the
\* tree is freed, and `break' of a script makes the call return nothing.
GiveUp ==
  /\ run \in {"suspended", "error"} /\ ~pending
  /\ b' = [b EXCEPT !.nodes = <<>>, !.current = NIL, !.cdata = <<>>]
  /\ run' = IF b.status = "break" THEN "nothing" ELSE "failed"
  /\ open' = <<>> /\ parsers' = <<>> /\ bases' = <<>>
  /\ UNCHANGED <<opt, pending, pieces>>

Next ==
  \/ \E prefix \in Prefixes, attr \in Attrs, constrained, empty \in BOOLEAN :
        /\ constrained => opt.schema
        /\ attr.is \in opt.attrs /\ (prefix # "" => "declares" \in opt.attrs)
        /\ \/ StartElement(prefix, attr, constrained, empty)
           \/ \E code \in {"error", "break"} : FeedbackStops(prefix, attr, empty, code)
  \/ EndElement
  \/ \E white \in BOOLEAN : CharacterData(white)
  \/ \E starts \in BOOLEAN : CDATASection(starts) \/ Doctype(starts)
  \/ \E kind \in {"comment", "pi"} : CommentOrPI(kind)
  \/ ExternalEntity \/ EntityEnd
  \/ \E code \in {"ok", "error", "break"} : EntityRefused(code)
  \/ Malformed \/ Finish \/ GiveUp

Spec == Init /\ [][Next]_vars

----------------------------------------------------------------------------
(* Properties.                                                             *)

Live == run \in {"parsing", "document"}

TextNodes == {n \in DOMAIN b.nodes : b.nodes[n].kind \in {"text", "cdata"}}
Numbers(text) == {text[i].no : i \in DOMAIN text}

\* Character data ends up in the element it was in: every piece of a text node
\* was reported as content of the node's parent, no piece that is not white
\* space gets lost, none is in two places, the text of an element is in the
\* order of the source, and no two text nodes are neighbours.
TextInPlace ==
  Live =>
    /\ \A h \in DOMAIN b.nodes, n \in TextNodes :
          n \in SeqElems(b.nodes[h].kids) =>
            \A no \in Numbers(b.nodes[n].text) : pieces[no].of = h
    /\ \A no \in DOMAIN pieces : ~pieces[no].white =>
          no \in Numbers(b.cdata) \/ \E n \in TextNodes : no \in Numbers(b.nodes[n].text)
    /\ \A m, n \in TextNodes : m < n => \A x \in Numbers(b.nodes[m].text),
                                             y \in Numbers(b.nodes[n].text) : x < y
    /\ \A h \in DOMAIN b.nodes : \A i \in 2 .. Len(b.nodes[h].kids) :
          ~ /\ b.nodes[b.nodes[h].kids[i - 1]].kind = "text"
            /\ b.nodes[b.nodes[h].kids[i]].kind = "text"

\* A parse without -forest keeps the text in place, across comments, sections,
\* entities and white space that is dropped.
TextIsWhole == ~opt.forest => TextInPlace

Declarations(n) == {i \in 1 .. n : open[i].attr.is = "declares"}
Scope(n, prefix) ==
  LET found == {i \in Declarations(n) : open[i].attr.prefix = prefix}
  IN  IF found = {} THEN "none"
      ELSE open[CHOOSE i \in found : \A j \in found : j <= i].attr.uri

\* domNode's base URI: that of the nearest node with one of its own.
BaseOf(n) ==
  LET up == <<n>> \o Ancestors(b, n)
      with == {k \in DOMAIN up : b.nodes[up[k]].base # NIL}
  IN  IF with = {} THEN 1 ELSE b.nodes[up[CHOOSE k \in with : \A j \in with : k <= j]].base

\* White space is dropped exactly when the innermost xml:space attribute that
\* is open does not say "preserve", however the attributes are nested.
StripFollowsSpace ==
  LET said == {i \in DOMAIN open : open[i].attr.is = "space"}
      last == CHOOSE i \in said : \A j \in said : j <= i
  IN  ~opt.keepEmpties =>
        b.ignoreWhiteSpaces = (said = {} \/ open[last].attr.value = "default")

\* The builder's stacks follow the document: white space is dropped as the
\* innermost open xml:space says, a prefix means what the innermost open
\* declaration says, and an element's base URI is that of the entity its tag is
\* in, whatever declarations and entities were opened and left before.
StacksFollowDocument ==
  run = "parsing" =>
    /\ StripFollowsSpace
    /\ b.depth = Len(open)
    /\ \A prefix \in Prefixes :
          LookupIn(b.activeNS, prefix) = Scope(Len(open), prefix)
    /\ \A i \in DOMAIN open :
          b.nodes[open[i].node].ns =
            IF Scope(i, open[i].prefix) = "" THEN "none" ELSE Scope(i, open[i].prefix)
    /\ \A n \in DOMAIN b.nodes : b.nodes[n].kind = "element" => BaseOf(n) = bases[n]

=============================================================================
