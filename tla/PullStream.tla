----------------------------- MODULE PullStream -----------------------------
(* What a tdom::pullparser promises its script (doc/pullparser.xml): the      *)
(* document is a fixed stream of events, and every call moves a cursor        *)
(* forward in it.  A document is a sequence of tokens [k, n]: the kinds are   *)
(* start, end, empty (<n/>), text, white (white space only) and bad (the      *)
(* place where the document stops being well-formed).                         *)
EXTENDS Integers, Sequences, FiniteSets

CONSTANTS Documents,    \* the inputs a script may set
          Names         \* the element names it looks for

VARIABLES doc,                \* the input
          ignoreWhiteSpaces,  \* -ignorewhitecdata
          seen                \* the last event reported: [kind, at]

vars == <<doc, ignoreWhiteSpaces, seen>>

Tags(d) == {i \in DOMAIN d : d[i].k \in {"start", "end", "empty"}}
Chars(d) == {i \in DOMAIN d : d[i].k \in {"text", "white"}}
Malformed(d) == \E i \in DOMAIN d : d[i].k = "bad"

\* The character data between the tag at i and the tag before it.
TextBefore(d, i) == {j \in Chars(d) : j < i /\ \A t \in Tags(d) : t < i => t < j}

Reportable(d, ign, chars) ==
  chars # {} /\ (ign => \E j \in chars : d[j].k = "text")

\* Every event of the well-formed part of d.
Events(d, ign) ==
  LET good == {i \in Tags(d) : \A j \in 1..i : d[j].k # "bad"}
  IN       [kind : {"START_TAG"}, at : {i \in good : d[i].k # "end"}]
    \union [kind : {"END_TAG"}, at : {i \in good : d[i].k # "start"}]
    \union [kind : {"TEXT"},
            at : {i \in good : Reportable(d, ign, TextBefore(d, i))}]

Rank(e) == CASE e.kind = "TEXT" -> 0 [] e.kind = "START_TAG" -> 1
             [] OTHER -> 2

Before(e, f) == e.at < f.at \/ (e.at = f.at /\ Rank(e) < Rank(f))

Status(kind) == [kind |-> kind, at |-> 0]

EndOf(d) == Status(IF Malformed(d) THEN "PARSE_ERROR" ELSE "END_DOCUMENT")

\* The first event of S after e, or the end of the document.
FirstAfter(e, S) ==
  LET later == {f \in S : Before(e, f)}
  IN IF later = {} THEN EndOf(doc)
     ELSE CHOOSE f \in later : \A g \in later : g = f \/ Before(f, g)

Stream == Events(doc, ignoreWhiteSpaces)

\* The end tags whose element holds the start tag e and nothing is open between.
ClosersOf(e) ==
  LET Between(f, kind) ==
        Cardinality({g \in Stream : g.kind = kind /\ Before(e, g) /\ Before(g, f)})
  IN {f \in Stream : /\ f.kind = "END_TAG"
                     /\ Between(f, "START_TAG") = Between(f, "END_TAG")}

Init == /\ doc = <<>> /\ ignoreWhiteSpaces \in BOOLEAN
        /\ seen = Status("READY")

Input == /\ seen.kind = "READY" /\ doc' \in Documents
         /\ seen' = Status("START_DOCUMENT") /\ UNCHANGED ignoreWhiteSpaces

NextEvent == /\ seen.kind \in {"START_DOCUMENT", "START_TAG", "END_TAG", "TEXT"}
             /\ seen' = FirstAfter(seen, Stream)
             /\ UNCHANGED <<doc, ignoreWhiteSpaces>>

Skip == /\ seen.kind = "START_TAG"
        /\ seen' = FirstAfter(seen, ClosersOf(seen))
        /\ UNCHANGED <<doc, ignoreWhiteSpaces>>

FindElement ==
  /\ seen.kind \in {"START_DOCUMENT", "START_TAG", "END_TAG"}
  /\ \E n \in Names : seen' = FirstAfter(seen,
       {f \in Stream : f.kind = "START_TAG" /\ doc[f.at].n = n})
  /\ UNCHANGED <<doc, ignoreWhiteSpaces>>

Reset == seen' = Status("READY") /\ doc' = <<>> /\ UNCHANGED ignoreWhiteSpaces

Recreate == seen' = Status("READY") /\ doc' = <<>> /\ ignoreWhiteSpaces' \in BOOLEAN

Next == Input \/ NextEvent \/ Skip \/ FindElement \/ Reset \/ Recreate

Spec == Init /\ [][Next]_vars
=============================================================================
