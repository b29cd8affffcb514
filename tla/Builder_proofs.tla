---------------------------- MODULE Builder_proofs ----------------------------
(* Two results about the builder, for documents of any size.                   *)
(*                                                                             *)
(* Character data ends up where it was.  The tree is made at its right edge:   *)
(* the open elements are its last branch, so a text that is merged into is the *)
(* last node, text is numbered in the order of the nodes, and what is          *)
(* collected comes after all of it.  Every handler is a few steps on the       *)
(* record of the builder: With... say what setting one field of it leaves      *)
(* alone, Grow, Merge, Drop, OpenTree, CloseTree and Reported what the steps   *)
(* do to the tree, and ...Keeps follow one action through them.                *)
(*                                                                             *)
(* The stacks follow the document, forests included.  Stacks says what the     *)
(* elements and entities that are open leave on each stack; ...Opened and      *)
(* ...Closed say of one stack what a tag does to it, ...Says what a handler    *)
(* does to the record, ElementOpens and ElementCloses put the two together,    *)
(* and ...Stacks follow one action through them.                               *)
EXTENDS Builder, Integers, FiniteSetTheorems, TLAPS

(* --------------------------------- types ---------------------------------- *)
Piece == [no : Nat, white : BOOLEAN]
NodeKinds == {"root", "element", "text", "cdata", "comment", "pi"}
NodeSet == [kind : NodeKinds, parent : Nat, kids : Seq(Nat), space : {"none", "preserve", "default"},
            ns : Uris \cup {"none"}, base : Nat, text : Seq(Piece)]
ReaderSet ==
  [nodes : Seq(NodeSet), current : Nat, depth : Int, ignoreWhiteSpaces : BOOLEAN,
   preserveDeep : Int, defaultDeep : Int, cdata : Seq(Piece), cdataSection : BOOLEAN,
   activeNS : Seq([depth : Int, prefix : Prefixes, uri : Uris]),
   baseURIstack : Seq([base : Nat, depth : Int]), insideDTD : BOOLEAN,
   status : {"ok", "error", "break"}]
OpenSet == [node : Nat, prefix : Prefixes, attr : Attrs, constrained : BOOLEAN]
Source == [of : Nat, white : BOOLEAN]

\* The base URI of the document stays on the stack.
BaseHeld(c) == Len(c.baseURIstack) > 0 /\ c.baseURIstack[1].depth = 0

TypeOK ==
  /\ opt \in Options /\ b \in ReaderSet /\ open \in Seq(OpenSet)
  /\ parsers \in Seq([base : Nat, openAt : Nat]) /\ pieces \in Seq(Source)
  /\ BaseHeld(b) /\ (run = "parsing" => Len(parsers) > 0)

(* ------------------------------- the invariant ----------------------------- *)
\* Of nodes ns, with the elements op open.
IsText(ns, n) == ns[n].kind \in {"text", "cdata"}

\* A node that is a kid of h says so, if it is a text.
KidsKnown(ns) ==
  \A h \in DOMAIN ns : \A i \in DOMAIN ns[h].kids :
    LET n == ns[h].kids[i] IN n \in 2 .. Len(ns) /\ (IsText(ns, n) => ns[n].parent = h)

\* The open elements are nested, each the last kid of the one before.
Nested(ns, op) ==
  \A i \in DOMAIN op :
    /\ op[i].node \in 2 .. Len(ns) /\ ns[op[i].node].kind = "element"
    /\ ns[op[i].node].parent = IF i = 1 THEN NIL ELSE op[i - 1].node
    /\ \A j \in 1 .. i - 1 : op[j].node < op[i].node
    /\ i > 1 => /\ ns[op[i - 1].node].kids # <<>>
                /\ Top(ns[op[i - 1].node].kids) = op[i].node

\* Text that can be merged into is the last node made.
Mergeable(ns, cur) ==
  cur # NIL /\ ns[cur].kids # <<>> /\ ns[Top(ns[cur].kids)].kind = "text"
    => Top(ns[cur].kids) = Len(ns)

\* Text knows where it was, and all of it is somewhere.
Placed(ns, pc) ==
  \A n \in DOMAIN ns : IsText(ns, n) => \A i \in DOMAIN ns[n].text :
    LET no == ns[n].text[i].no IN no \in DOMAIN pc /\ pc[no].of = ns[n].parent
Collected(cd, cur, pc) ==
  \A i \in DOMAIN cd : LET no == cd[i].no
                       IN no \in DOMAIN pc /\ pc[no].of = cur /\ pc[no].white = cd[i].white
Kept(ns, cd, pc) ==
  \A no \in DOMAIN pc : ~pc[no].white =>
     \/ \E i \in DOMAIN cd : cd[i].no = no
     \/ \E n \in DOMAIN ns : IsText(ns, n) /\ \E i \in DOMAIN ns[n].text : ns[n].text[i].no = no
InOrder(ns, cd) ==
  /\ \A m, n \in DOMAIN ns : IsText(ns, m) /\ IsText(ns, n) /\ m < n =>
       \A i \in DOMAIN ns[m].text, j \in DOMAIN ns[n].text : ns[m].text[i].no < ns[n].text[j].no
  /\ \A n \in DOMAIN ns : IsText(ns, n) =>
       \A i \in DOMAIN ns[n].text, j \in DOMAIN cd : ns[n].text[i].no < cd[j].no
Apart(ns) ==
  \A h \in DOMAIN ns : \A i \in 2 .. Len(ns[h].kids) :
    ~ (ns[ns[h].kids[i - 1]].kind = "text" /\ ns[ns[h].kids[i]].kind = "text")

Tree(ns, cur, cd, op, pc) ==
  /\ ns \in Seq(NodeSet) /\ op \in Seq(OpenSet) /\ cd \in Seq(Piece) /\ pc \in Seq(Source)
  /\ Len(ns) > 0 /\ ns[1].kind = "root"
  /\ cur = IF op = <<>> THEN NIL ELSE Top(op).node
  /\ op = <<>> => cd = <<>>
  /\ KidsKnown(ns) /\ Nested(ns, op) /\ Mergeable(ns, cur) /\ Placed(ns, pc) /\ Collected(cd, cur, pc)
  /\ Kept(ns, cd, pc) /\ InOrder(ns, cd) /\ Apart(ns)

\* What holds while the parser runs.
Good ==
  /\ TypeOK /\ Tree(b.nodes, b.current, b.cdata, open, pieces)
  /\ b.depth = Len(open) /\ (open = <<>> => ~b.cdataSection)

TextInv ==
  /\ opt \in Options
  /\ ~opt.forest => (run = "parsing" => Good) /\ (run = "document" => TextInPlace)

(* ------------------------------ the builder record ------------------------- *)
Fields == {"nodes", "current", "depth", "ignoreWhiteSpaces", "preserveDeep", "defaultDeep",
           "cdata", "cdataSection", "activeNS", "baseURIstack", "insideDTD", "status"}

\* Only these fields differ.
Differ(c, d, F) == \A f \in Fields \ F : c[f] = d[f]

LEMMA FieldsSame ==
  ASSUME NEW c, NEW d, Differ(c, d, {"nodes"})
  PROVE  d.current = c.current /\ d.cdata = c.cdata
BY DEF Differ, Fields

LEMMA WithNodes ==
  ASSUME NEW c \in ReaderSet, NEW x \in Seq(NodeSet), NEW d, d = [c EXCEPT !.nodes = x]
  PROVE  d \in ReaderSet /\ d.nodes = x /\ Differ(c, d, {"nodes"})
<1>1. d \in ReaderSet /\ d.nodes = x
  BY DEF ReaderSet
<1>2. \A f \in Fields \ {"nodes"} : c[f] = d[f]
  BY DEF ReaderSet, Fields
<1> QED BY <1>1, <1>2 DEF Differ

LEMMA WithCdata ==
  ASSUME NEW c \in ReaderSet, NEW x \in Seq(Piece), NEW d, d = [c EXCEPT !.cdata = x]
  PROVE  d \in ReaderSet /\ d.cdata = x /\ Differ(c, d, {"cdata"})
<1>1. d \in ReaderSet /\ d.cdata = x
  BY DEF ReaderSet
<1>2. \A f \in Fields \ {"cdata"} : c[f] = d[f]
  BY DEF ReaderSet, Fields
<1> QED BY <1>1, <1>2 DEF Differ

LEMMA WithCurrent ==
  ASSUME NEW c \in ReaderSet, NEW x \in Nat,
         NEW d, d = [c EXCEPT !.current = x]
  PROVE  d \in ReaderSet /\ d.current = x /\ Differ(c, d, {"current"})
<1>1. d \in ReaderSet /\ d.current = x
  BY DEF ReaderSet
<1>2. \A g \in Fields \ {"current"} : c[g] = d[g]
  BY DEF ReaderSet, Fields
<1> QED BY <1>1, <1>2 DEF Differ

LEMMA WithDepth ==
  ASSUME NEW c \in ReaderSet, NEW x \in Int,
         NEW d, d = [c EXCEPT !.depth = x]
  PROVE  d \in ReaderSet /\ d.depth = x /\ Differ(c, d, {"depth"})
<1>1. d \in ReaderSet /\ d.depth = x
  BY DEF ReaderSet
<1>2. \A g \in Fields \ {"depth"} : c[g] = d[g]
  BY DEF ReaderSet, Fields
<1> QED BY <1>1, <1>2 DEF Differ

LEMMA WithIgnoreWhiteSpaces ==
  ASSUME NEW c \in ReaderSet, NEW x \in BOOLEAN,
         NEW d, d = [c EXCEPT !.ignoreWhiteSpaces = x]
  PROVE  d \in ReaderSet /\ d.ignoreWhiteSpaces = x /\ Differ(c, d, {"ignoreWhiteSpaces"})
<1>1. d \in ReaderSet /\ d.ignoreWhiteSpaces = x
  BY DEF ReaderSet
<1>2. \A g \in Fields \ {"ignoreWhiteSpaces"} : c[g] = d[g]
  BY DEF ReaderSet, Fields
<1> QED BY <1>1, <1>2 DEF Differ

LEMMA WithPreserveDeep ==
  ASSUME NEW c \in ReaderSet, NEW x \in Int,
         NEW d, d = [c EXCEPT !.preserveDeep = x]
  PROVE  d \in ReaderSet /\ d.preserveDeep = x /\ Differ(c, d, {"preserveDeep"})
<1>1. d \in ReaderSet /\ d.preserveDeep = x
  BY DEF ReaderSet
<1>2. \A g \in Fields \ {"preserveDeep"} : c[g] = d[g]
  BY DEF ReaderSet, Fields
<1> QED BY <1>1, <1>2 DEF Differ

LEMMA WithDefaultDeep ==
  ASSUME NEW c \in ReaderSet, NEW x \in Int,
         NEW d, d = [c EXCEPT !.defaultDeep = x]
  PROVE  d \in ReaderSet /\ d.defaultDeep = x /\ Differ(c, d, {"defaultDeep"})
<1>1. d \in ReaderSet /\ d.defaultDeep = x
  BY DEF ReaderSet
<1>2. \A g \in Fields \ {"defaultDeep"} : c[g] = d[g]
  BY DEF ReaderSet, Fields
<1> QED BY <1>1, <1>2 DEF Differ

LEMMA WithCdataSection ==
  ASSUME NEW c \in ReaderSet, NEW x \in BOOLEAN,
         NEW d, d = [c EXCEPT !.cdataSection = x]
  PROVE  d \in ReaderSet /\ d.cdataSection = x /\ Differ(c, d, {"cdataSection"})
<1>1. d \in ReaderSet /\ d.cdataSection = x
  BY DEF ReaderSet
<1>2. \A g \in Fields \ {"cdataSection"} : c[g] = d[g]
  BY DEF ReaderSet, Fields
<1> QED BY <1>1, <1>2 DEF Differ

LEMMA WithActiveNS ==
  ASSUME NEW c \in ReaderSet, NEW x \in Seq([depth : Int, prefix : Prefixes, uri : Uris]),
         NEW d, d = [c EXCEPT !.activeNS = x]
  PROVE  d \in ReaderSet /\ d.activeNS = x /\ Differ(c, d, {"activeNS"})
<1>1. d \in ReaderSet /\ d.activeNS = x
  BY DEF ReaderSet
<1>2. \A g \in Fields \ {"activeNS"} : c[g] = d[g]
  BY DEF ReaderSet, Fields
<1> QED BY <1>1, <1>2 DEF Differ

LEMMA WithBaseURIstack ==
  ASSUME NEW c \in ReaderSet, NEW x \in Seq([base : Nat, depth : Int]),
         NEW d, d = [c EXCEPT !.baseURIstack = x]
  PROVE  d \in ReaderSet /\ d.baseURIstack = x /\ Differ(c, d, {"baseURIstack"})
<1>1. d \in ReaderSet /\ d.baseURIstack = x
  BY DEF ReaderSet
<1>2. \A g \in Fields \ {"baseURIstack"} : c[g] = d[g]
  BY DEF ReaderSet, Fields
<1> QED BY <1>1, <1>2 DEF Differ

LEMMA WithInsideDTD ==
  ASSUME NEW c \in ReaderSet, NEW x \in BOOLEAN,
         NEW d, d = [c EXCEPT !.insideDTD = x]
  PROVE  d \in ReaderSet /\ d.insideDTD = x /\ Differ(c, d, {"insideDTD"})
<1>1. d \in ReaderSet /\ d.insideDTD = x
  BY DEF ReaderSet
<1>2. \A g \in Fields \ {"insideDTD"} : c[g] = d[g]
  BY DEF ReaderSet, Fields
<1> QED BY <1>1, <1>2 DEF Differ

LEMMA WithStatus ==
  ASSUME NEW c \in ReaderSet, NEW x \in {"ok", "error", "break"},
         NEW d, d = [c EXCEPT !.status = x]
  PROVE  d \in ReaderSet /\ d.status = x /\ Differ(c, d, {"status"})
<1>1. d \in ReaderSet /\ d.status = x
  BY DEF ReaderSet
<1>2. \A g \in Fields \ {"status"} : c[g] = d[g]
  BY DEF ReaderSet, Fields
<1> QED BY <1>1, <1>2 DEF Differ

(* --------------------------------- the nodes ------------------------------ *)
NodeFields == {"kind", "parent", "kids", "space", "ns", "base", "text"}

LEMMA NodeKids ==
  ASSUME NEW n \in NodeSet, NEW x \in Seq(Nat), NEW m, m = [n EXCEPT !.kids = x]
  PROVE  m \in NodeSet /\ m.kids = x /\ \A g \in NodeFields \ {"kids"} : m[g] = n[g]
<1>1. m \in NodeSet /\ m.kids = x
  BY DEF NodeSet
<1>2. \A g \in NodeFields \ {"kids"} : m[g] = n[g]
  BY DEF NodeSet, NodeFields
<1> QED BY <1>1, <1>2

LEMMA NodeSpace ==
  ASSUME NEW n \in NodeSet, NEW x \in {"none", "preserve", "default"}, NEW m, m = [n EXCEPT !.space = x]
  PROVE  m \in NodeSet /\ m.space = x /\ \A g \in NodeFields \ {"space"} : m[g] = n[g]
<1>1. m \in NodeSet /\ m.space = x
  BY DEF NodeSet
<1>2. \A g \in NodeFields \ {"space"} : m[g] = n[g]
  BY DEF NodeSet, NodeFields
<1> QED BY <1>1, <1>2

LEMMA NodeNs ==
  ASSUME NEW n \in NodeSet, NEW x \in Uris \cup {"none"}, NEW m, m = [n EXCEPT !.ns = x]
  PROVE  m \in NodeSet /\ m.ns = x /\ \A g \in NodeFields \ {"ns"} : m[g] = n[g]
<1>1. m \in NodeSet /\ m.ns = x
  BY DEF NodeSet
<1>2. \A g \in NodeFields \ {"ns"} : m[g] = n[g]
  BY DEF NodeSet, NodeFields
<1> QED BY <1>1, <1>2

LEMMA NodeBase ==
  ASSUME NEW n \in NodeSet, NEW x \in Nat, NEW m, m = [n EXCEPT !.base = x]
  PROVE  m \in NodeSet /\ m.base = x /\ \A g \in NodeFields \ {"base"} : m[g] = n[g]
<1>1. m \in NodeSet /\ m.base = x
  BY DEF NodeSet
<1>2. \A g \in NodeFields \ {"base"} : m[g] = n[g]
  BY DEF NodeSet, NodeFields
<1> QED BY <1>1, <1>2

LEMMA NodeText ==
  ASSUME NEW n \in NodeSet, NEW x \in Seq(Piece), NEW m, m = [n EXCEPT !.text = x]
  PROVE  m \in NodeSet /\ m.text = x /\ \A g \in NodeFields \ {"text"} : m[g] = n[g]
<1>1. m \in NodeSet /\ m.text = x
  BY DEF NodeSet
<1>2. \A g \in NodeFields \ {"text"} : m[g] = n[g]
  BY DEF NodeSet, NodeFields
<1> QED BY <1>1, <1>2

\* Nodes of which the h-th is another one now.
LEMMA Changed ==
  ASSUME NEW ns \in Seq(NodeSet), NEW h \in DOMAIN ns, NEW x \in NodeSet, NEW ms,
         ms = [ns EXCEPT ![h] = x]
  PROVE  /\ ms \in Seq(NodeSet) /\ Len(ms) = Len(ns) /\ ms[h] = x
         /\ \A i \in DOMAIN ns \ {h} : ms[i] = ns[i]
OBVIOUS

\* The node that is made of an event.
LEMMA NodeIs ==
  ASSUME NEW kind \in NodeKinds, NEW parent \in Nat, NEW text \in Seq(Piece)
  PROVE  /\ Node(kind, parent, text) \in NodeSet
         /\ Node(kind, parent, text).kind = kind /\ Node(kind, parent, text).parent = parent
         /\ Node(kind, parent, text).kids = <<>> /\ Node(kind, parent, text).text = text
         /\ Node(kind, parent, text).space = "none" /\ Node(kind, parent, text).base = NIL
BY DEF Node, NodeSet, NIL

LEMMA ElementOf ==
  ASSUME NEW S, NEW s \in Seq(S), NEW i \in 1 .. Len(s)
  PROVE  s[i] \in S
OBVIOUS

LEMMA Appended ==
  ASSUME NEW S, NEW s \in Seq(S), NEW x \in S, NEW t, t = Append(s, x)
  PROVE  /\ t \in Seq(S) /\ Len(s) \in Nat /\ Len(t) = Len(s) + 1 /\ t # <<>> /\ t[Len(s) + 1] = x
         /\ DOMAIN s = 1 .. Len(s) /\ DOMAIN t = 1 .. Len(s) + 1 /\ \A i \in 1 .. Len(s) : t[i] = s[i]
OBVIOUS

LEMMA Shortened ==
  ASSUME NEW S, NEW s \in Seq(S), NEW k \in 0 .. Len(s), NEW t, t = SubSeq(s, 1, k)
  PROVE  /\ t \in Seq(S) /\ Len(s) \in Nat /\ Len(t) = k /\ DOMAIN s = 1 .. Len(s)
         /\ DOMAIN t = 1 .. k /\ \A i \in 1 .. k : t[i] = s[i]
OBVIOUS

LEMMA FrontIs ==
  ASSUME NEW S, NEW s \in Seq(S), s # <<>>, NEW t, t = Front(s)
  PROVE  /\ t \in Seq(S) /\ Len(s) \in Nat /\ Len(s) > 0 /\ Len(t) = Len(s) - 1
         /\ DOMAIN s = 1 .. Len(s) /\ DOMAIN t = 1 .. Len(s) - 1 /\ \A i \in 1 .. Len(s) - 1 : t[i] = s[i]
<1>1. Len(s) \in Nat /\ Len(s) > 0 /\ Len(s) - 1 \in 0 .. Len(s)
  OBVIOUS
<1>2. t = SubSeq(s, 1, Len(s) - 1)
  BY DEF Front
<1> DEFINE k == Len(s) - 1
<1>4. k \in 0 .. Len(s) /\ t = SubSeq(s, 1, k)
  BY <1>1, <1>2
<1> HIDE DEF k
<1>3. /\ t \in Seq(S) /\ Len(s) \in Nat /\ Len(t) = k /\ DOMAIN s = 1 .. Len(s)
      /\ DOMAIN t = 1 .. k /\ \A i \in 1 .. k : t[i] = s[i]
  BY <1>4, Shortened
<1> QED BY <1>1, <1>3 DEF k

LEMMA SeqIs ==
  ASSUME NEW S, NEW s \in Seq(S)
  PROVE  Len(s) \in Nat /\ DOMAIN s = 1 .. Len(s)
OBVIOUS

LEMMA Joined ==
  ASSUME NEW S, NEW s \in Seq(S), NEW t \in Seq(S), NEW u, u = s \o t
  PROVE  /\ u \in Seq(S) /\ Len(s) \in Nat /\ Len(t) \in Nat /\ Len(u) = Len(s) + Len(t)
         /\ DOMAIN s = 1 .. Len(s) /\ DOMAIN t = 1 .. Len(t) /\ DOMAIN u = 1 .. Len(s) + Len(t)
         /\ \A i \in DOMAIN s : i \in DOMAIN u /\ u[i] = s[i]
         /\ \A i \in DOMAIN t : i + Len(s) \in DOMAIN u /\ u[i + Len(s)] = t[i]
         /\ \A i \in DOMAIN u : i \in DOMAIN s \/ \E j \in DOMAIN t : i = j + Len(s)
<1> DEFINE m == Len(s)
           n == Len(t)
<1>1. m \in Nat /\ n \in Nat /\ DOMAIN s = 1 .. m /\ DOMAIN t = 1 .. n
  OBVIOUS
<1>2. u \in Seq(S) /\ Len(u) = m + n /\ DOMAIN u = 1 .. m + n
  OBVIOUS
<1>3. (\A i \in 1 .. m : u[i] = s[i]) /\ \A i \in 1 .. n : u[i + m] = t[i]
  OBVIOUS
<1> HIDE DEF m, n
<1>4. (\A i \in 1 .. m : i \in 1 .. m + n) /\ \A i \in 1 .. n : i + m \in 1 .. m + n
  BY <1>1
<1>5. \A i \in 1 .. m + n : i \in 1 .. m \/ (i - m \in 1 .. n /\ i = (i - m) + m)
  BY <1>1
<1> QED BY <1>1, <1>2, <1>3, <1>4, <1>5 DEF m, n

LEMMA BaseIs ==
  ASSUME TypeOK, run = "parsing"
  PROVE  Base \in Nat
<1> DEFINE last == Len(parsers)
<1>1. last \in 1 .. Len(parsers)
  BY DEF TypeOK
<1>2. parsers[last] \in [base : Nat, openAt : Nat]
  <2>1. parsers \in Seq([base : Nat, openAt : Nat])
    BY DEF TypeOK
  <2> QED BY <1>1, <2>1, ElementOf
<1> QED BY <1>2 DEF Base, Top

LEMMA WithBaseIs ==
  ASSUME TypeOK, run = "parsing", NEW c, NEW n \in NodeSet
  PROVE  WithBase(c, n) \in NodeSet /\ \A g \in NodeFields \ {"base"} : WithBase(c, n)[g] = n[g]
<1>1. Base \in Nat
  BY BaseIs
<1>2. CASE Top(c.baseURIstack).base # Base
  BY <1>1, <1>2, NodeBase DEF WithBase
<1>3. CASE Top(c.baseURIstack).base = Base
  BY <1>3 DEF WithBase
<1> QED BY <1>2, <1>3

\* One node more, the last kid of the one called h.
Grown(ns, ms, h, new) ==
  /\ Len(ms) = Len(ns) + 1 /\ ms[Len(ns) + 1] = new
  /\ \A i \in DOMAIN ns \ {h} : ms[i] = ns[i]
  /\ ms[h].kids = Append(ns[h].kids, Len(ns) + 1)
  /\ \A g \in NodeFields \ {"kids"} : ms[h][g] = ns[h][g]

LEMMA AppendNodeIs ==
  ASSUME TypeOK, run = "parsing", NEW c \in ReaderSet, NEW h \in DOMAIN c.nodes, NEW n \in NodeSet,
         NEW d, d = AppendNode(c, h, n)
  PROVE  d \in ReaderSet /\ Differ(c, d, {"nodes"}) /\ Grown(c.nodes, d.nodes, h, WithBase(c, n))
<1> DEFINE ns == c.nodes
           k == Append(ns[h].kids, Len(ns) + 1)
           x == [ns[h] EXCEPT !.kids = k]
           w == WithBase(c, n)
           ms == [ns EXCEPT ![h] = x]
           os == Append(ms, w)
<1>1. ns \in Seq(NodeSet) /\ ns[h] \in NodeSet /\ Len(ns) \in Nat
  BY DEF ReaderSet
<1>2. k \in Seq(Nat)
  BY <1>1, SMTT(30) DEF NodeSet
<1>3. x \in NodeSet /\ x.kids = k /\ \A g \in NodeFields \ {"kids"} : x[g] = ns[h][g]
  <2> HIDE DEF k
  <2> QED BY <1>1, <1>2, NodeKids
<1>4. w \in NodeSet
  BY WithBaseIs
<1>5. d = [c EXCEPT !.nodes = os]
  <2>1. ms = [ns EXCEPT ![h].kids = Append(@, Len(ns) + 1)]
    OBVIOUS
  <2>2. d = [c EXCEPT !.nodes = Append([ns EXCEPT ![h].kids = Append(@, Len(ns) + 1)], w)]
    BY DEF AppendNode
  <2> HIDE DEF ms, w
  <2> QED BY <2>1, <2>2
<1> HIDE DEF x, w, k
<1>6. ms \in Seq(NodeSet) /\ Len(ms) = Len(ns) /\ ms[h] = x /\ \A i \in DOMAIN ns \ {h} : ms[i] = ns[i]
  <2> HIDE DEF ns
  <2> QED BY <1>1, <1>3, Changed DEF ns
<1> HIDE DEF ms
<1>7. os \in Seq(NodeSet) /\ Len(os) = Len(ns) + 1 /\ os[Len(ns) + 1] = w
      /\ \A i \in DOMAIN ns : os[i] = ms[i]
  BY <1>1, <1>4, <1>6
<1> HIDE DEF os
<1>8. d \in ReaderSet /\ d.nodes = os /\ Differ(c, d, {"nodes"})
  BY <1>5, <1>7, WithNodes
<1>9. Grown(ns, os, h, w)
  <2>1. os[h] = x
    BY <1>6, <1>7
  <2>2. os[h].kids = Append(ns[h].kids, Len(ns) + 1)
    BY <2>1, <1>3 DEF k
  <2> QED BY <1>3, <1>6, <1>7, <2>1, <2>2 DEF Grown
<1> QED BY <1>8, <1>9 DEF w

(* --------------------------------- the tree -------------------------------- *)
\* The nodes hang together in the same way.
SameShape(ns, ms) ==
  /\ Len(ms) = Len(ns)
  /\ \A i \in DOMAIN ns : /\ ms[i].kind = ns[i].kind /\ ms[i].parent = ns[i].parent
                          /\ ms[i].kids = ns[i].kids

Sound(ns, cur, op) ==
  /\ Len(ns) > 0 /\ ns[1].kind = "root"
  /\ KidsKnown(ns) /\ Nested(ns, op) /\ Mergeable(ns, cur) /\ Apart(ns)

LEMMA KidsAre ==
  ASSUME NEW ns \in Seq(NodeSet), NEW h \in DOMAIN ns
  PROVE  /\ ns[h] \in NodeSet /\ ns[h].kids \in Seq(Nat) /\ Len(ns[h].kids) \in Nat
         /\ DOMAIN ns[h].kids = 1 .. Len(ns[h].kids)
         /\ ns[h].kids # <<>> => Len(ns[h].kids) \in DOMAIN ns[h].kids
<1>1. ns[h] \in NodeSet
  BY ElementOf
<1>2. ns[h].kids \in Seq(Nat)
  BY <1>1 DEF NodeSet
<1> QED BY <1>1, <1>2

LEMMA ShapeKept ==
  ASSUME NEW ns, NEW ms \in Seq(NodeSet), SameShape(ns, ms),
         NEW cur, NEW cd, NEW op, NEW pc, Tree(ns, cur, cd, op, pc)
  PROVE  Sound(ms, cur, op)
<1>0. /\ ns \in Seq(NodeSet) /\ op \in Seq(OpenSet) /\ cd \in Seq(Piece) /\ pc \in Seq(Source)
      /\ cur = IF op = <<>> THEN NIL ELSE Top(op).node
  BY DEF Tree
<1>1. DOMAIN ms = DOMAIN ns /\ Len(ms) = Len(ns) /\ DOMAIN ns = 1 .. Len(ns) /\ Len(ns) \in Nat
  BY <1>0 DEF SameShape
<1>2. \A i \in DOMAIN ns : /\ ms[i].kind = ns[i].kind /\ ms[i].parent = ns[i].parent
                           /\ ms[i].kids = ns[i].kids
  BY DEF SameShape
<1>3. KidsKnown(ns) /\ Nested(ns, op) /\ Mergeable(ns, cur) /\ Placed(ns, pc)
      /\ Kept(ns, cd, pc) /\ InOrder(ns, cd) /\ Apart(ns) /\ Len(ns) > 0 /\ ns[1].kind = "root"
  BY DEF Tree
<1>4. KidsKnown(ms)
  BY <1>1, <1>2, <1>3 DEF KidsKnown, IsText
<1>5. Nested(ms, op)
  <2> SUFFICES ASSUME NEW i \in DOMAIN op
               PROVE  /\ op[i].node \in 2 .. Len(ms) /\ ms[op[i].node].kind = "element"
                      /\ ms[op[i].node].parent = IF i = 1 THEN NIL ELSE op[i - 1].node
                      /\ \A j \in 1 .. i - 1 : op[j].node < op[i].node
                      /\ i > 1 => /\ ms[op[i - 1].node].kids # <<>>
                                  /\ Top(ms[op[i - 1].node].kids) = op[i].node
    BY DEF Nested
  <2>1. /\ op[i].node \in 2 .. Len(ns) /\ ns[op[i].node].kind = "element"
        /\ ns[op[i].node].parent = IF i = 1 THEN NIL ELSE op[i - 1].node
        /\ \A j \in 1 .. i - 1 : op[j].node < op[i].node
        /\ i > 1 => /\ ns[op[i - 1].node].kids # <<>>
                    /\ Top(ns[op[i - 1].node].kids) = op[i].node
    BY <1>3 DEF Nested
  <2>2. ASSUME i > 1 PROVE op[i - 1].node \in DOMAIN ns
    <3>1. i - 1 \in DOMAIN op
      BY <2>2, <1>0
    <3> QED BY <3>1, <1>1, <1>3 DEF Nested
  <2> QED BY <2>1, <2>2, <1>1, <1>2
<1>6. Mergeable(ms, cur)
  <2> SUFFICES ASSUME cur # NIL, ms[cur].kids # <<>>, ms[Top(ms[cur].kids)].kind = "text"
               PROVE  Top(ms[cur].kids) = Len(ms)
    BY DEF Mergeable
  <2>1. cur \in DOMAIN ns
    <3>1. Len(op) \in DOMAIN op
      BY <1>0
    <3> QED BY <3>1, <1>0, <1>1, <1>3 DEF Nested, Top
  <2>2. Top(ns[cur].kids) \in DOMAIN ns
    <3>1. ns[cur].kids # <<>>
      BY <2>1, <1>2
    <3>2. Len(ns[cur].kids) \in DOMAIN ns[cur].kids
      BY <3>1, <2>1, <1>0, KidsAre
    <3> QED BY <2>1, <3>2, <1>1, <1>3 DEF KidsKnown, Top
  <2> QED BY <2>1, <2>2, <1>1, <1>2, <1>3 DEF Mergeable
<1>10. Apart(ms)
  <2> SUFFICES ASSUME NEW h \in DOMAIN ns, NEW i \in 2 .. Len(ns[h].kids),
                      ms[ns[h].kids[i - 1]].kind = "text", ms[ns[h].kids[i]].kind = "text"
               PROVE  FALSE
    BY <1>1, <1>2 DEF Apart
  <2>1. i \in DOMAIN ns[h].kids /\ i - 1 \in DOMAIN ns[h].kids
    <3>1. Len(ns[h].kids) \in Nat /\ DOMAIN ns[h].kids = 1 .. Len(ns[h].kids)
      BY <1>0, KidsAre
    <3> QED BY <3>1
  <2>2. ns[h].kids[i] \in DOMAIN ns /\ ns[h].kids[i - 1] \in DOMAIN ns
    BY <2>1, <1>1, <1>3 DEF KidsKnown
  <2> QED BY <2>2, <1>2, <1>3 DEF Apart
<1>11. Len(ms) > 0 /\ ms[1].kind = "root"
  BY <1>1, <1>2, <1>3
<1> QED BY <1>4, <1>5, <1>6, <1>10, <1>11, Zenon DEF Sound

\* Only names, white space and base URIs differ.
Alike(ns, ms) ==
  SameShape(ns, ms) /\ \A i \in DOMAIN ns : ms[i].text = ns[i].text

LEMMA TreeAlike ==
  ASSUME NEW ns, NEW ms \in Seq(NodeSet), Alike(ns, ms),
         NEW cur, NEW cd, NEW op, NEW pc, Tree(ns, cur, cd, op, pc)
  PROVE  Tree(ms, cur, cd, op, pc)
<1>1. Sound(ms, cur, op)
  BY ShapeKept DEF Alike
<1>2. DOMAIN ms = DOMAIN ns
      /\ \A i \in DOMAIN ns : /\ ms[i].kind = ns[i].kind /\ ms[i].parent = ns[i].parent
                              /\ ms[i].text = ns[i].text
  <2>1. ns \in Seq(NodeSet)
    BY DEF Tree
  <2> QED BY <2>1 DEF Alike, SameShape
<1>3. Placed(ns, pc) /\ Kept(ns, cd, pc) /\ InOrder(ns, cd)
  BY DEF Tree
<1>4. Placed(ms, pc)
  BY <1>2, <1>3 DEF Placed, IsText
<1>5. Kept(ms, cd, pc)
  BY <1>2, <1>3 DEF Kept, IsText
<1>6. InOrder(ms, cd)
  BY <1>2, <1>3 DEF InOrder, IsText
<1> QED BY <1>1, <1>4, <1>5, <1>6, Zenon DEF Tree, Sound

Bigger(ns, ms, h, new) ==
  /\ Len(ns) \in Nat /\ DOMAIN ns = 1 .. Len(ns) /\ Len(ms) = Len(ns) + 1
  /\ DOMAIN ms = DOMAIN ns \cup {Len(ns) + 1} /\ Len(ns) + 1 \notin DOMAIN ns
  /\ \A i \in DOMAIN ns : /\ ms[i].kind = ns[i].kind /\ ms[i].parent = ns[i].parent
                          /\ ms[i].text = ns[i].text
  /\ \A i \in DOMAIN ns \ {h} : ms[i].kids = ns[i].kids
  /\ ns[h].kids \in Seq(Nat) /\ Len(ns[h].kids) \in Nat
  /\ Len(ms[h].kids) = Len(ns[h].kids) + 1
  /\ DOMAIN ns[h].kids = 1 .. Len(ns[h].kids)
  /\ DOMAIN ms[h].kids = DOMAIN ns[h].kids \cup {Len(ns[h].kids) + 1}
  /\ \A i \in DOMAIN ns[h].kids : ms[h].kids[i] = ns[h].kids[i]
  /\ ms[h].kids[Len(ns[h].kids) + 1] = Len(ns) + 1
  /\ ms[Len(ns) + 1] = new

LEMMA GrownView ==
  ASSUME NEW ns \in Seq(NodeSet), NEW ms \in Seq(NodeSet), NEW h \in DOMAIN ns, NEW new \in NodeSet,
         Grown(ns, ms, h, new)
  PROVE  Bigger(ns, ms, h, new)
<1> DEFINE n == Len(ns)
           ks == ns[h].kids
           js == ms[h].kids
<1>1. n \in Nat /\ DOMAIN ns = 1 .. n /\ Len(ms) = n + 1 /\ DOMAIN ms = 1 .. n + 1
  BY DEF Grown
<1>2. DOMAIN ms = DOMAIN ns \cup {n + 1} /\ n + 1 \notin DOMAIN ns
  <2> HIDE DEF n
  <2> QED BY <1>1
<1>3. ks \in Seq(Nat)
  <2>1. ns[h] \in NodeSet
    BY <1>1
  <2> QED BY <2>1 DEF NodeSet
<1>4. js = Append(ks, n + 1)
  BY DEF Grown
<1>5. /\ Len(ks) \in Nat /\ Len(js) = Len(ks) + 1 /\ DOMAIN ks = 1 .. Len(ks)
      /\ DOMAIN js = DOMAIN ks \cup {Len(ks) + 1} /\ js[Len(ks) + 1] = n + 1
      /\ \A i \in DOMAIN ks : js[i] = ks[i]
  <2> HIDE DEF ks, js, n
  <2> QED BY <1>1, <1>3, <1>4
<1>6. \A i \in DOMAIN ns : /\ ms[i].kind = ns[i].kind /\ ms[i].parent = ns[i].parent
                           /\ ms[i].text = ns[i].text
  BY DEF Grown, NodeFields
<1>7. \A i \in DOMAIN ns \ {h} : ms[i].kids = ns[i].kids
  BY DEF Grown
<1>8. ms[n + 1] = new
  BY DEF Grown
<1> QED BY <1>1, <1>2, <1>3, <1>5, <1>6, <1>7, <1>8 DEF Bigger

\* A node more: one that is not a text when no text is waiting, or the text
\* that is.
LEMMA Grow ==
  ASSUME NEW ns, NEW ms \in Seq(NodeSet), NEW cur, NEW cd, NEW op, NEW pc, NEW h, NEW new \in NodeSet,
         Tree(ns, cur, cd, op, pc), h = IF cur = NIL THEN Root ELSE cur, Grown(ns, ms, h, new),
         new.kids = <<>>, cd # <<>> => new.kind \in {"text", "cdata"},
         new.kind \in {"text", "cdata"} => new.text = cd /\ new.parent = cur /\ cur # NIL,
         new.kind = "text" => ns[h].kids = <<>> \/ ns[Top(ns[h].kids)].kind # "text"
  PROVE  Tree(ms, cur, <<>>, op, pc) /\ h \in DOMAIN ns
<1> DEFINE N == Len(ns)
<1>0. /\ ns \in Seq(NodeSet) /\ op \in Seq(OpenSet) /\ cd \in Seq(Piece) /\ pc \in Seq(Source)
      /\ cur = IF op = <<>> THEN NIL ELSE Top(op).node
  BY DEF Tree
<1>1. KidsKnown(ns) /\ Nested(ns, op) /\ Mergeable(ns, cur) /\ Placed(ns, pc)
      /\ Kept(ns, cd, pc) /\ InOrder(ns, cd) /\ Apart(ns) /\ Len(ns) > 0 /\ ns[1].kind = "root"
      /\ Collected(cd, cur, pc)
  BY DEF Tree
<1>2. ASSUME op # <<>> PROVE cur \in 2 .. N /\ Len(op) \in DOMAIN op /\ cur = op[Len(op)].node
  <2>1. Len(op) \in DOMAIN op
    BY <1>2, <1>0
  <2> QED BY <1>2, <1>0, <2>1, <1>1 DEF Nested, Top
<1>3. h \in DOMAIN ns /\ (op # <<>> => h = cur)
  <2>1. CASE op = <<>>
    BY <2>1, <1>0, <1>1 DEF Root, NIL
  <2>2. CASE op # <<>>
    BY <2>2, <1>2, <1>0 DEF NIL
  <2> QED BY <2>1, <2>2
<1>31. Bigger(ns, ms, h, new)
  <2>1. ns \in Seq(NodeSet) /\ h \in DOMAIN ns
    BY <1>0, <1>3
  <2> QED BY <2>1, GrownView, Zenon
<1>4. /\ N \in Nat /\ DOMAIN ns = 1 .. N /\ Len(ms) = N + 1
      /\ DOMAIN ms = DOMAIN ns \cup {N + 1} /\ N + 1 \notin DOMAIN ns
      /\ \A i \in DOMAIN ns : /\ ms[i].kind = ns[i].kind /\ ms[i].parent = ns[i].parent
                              /\ ms[i].text = ns[i].text
      /\ \A i \in DOMAIN ns \ {h} : ms[i].kids = ns[i].kids
      /\ ms[N + 1] = new
  BY <1>31 DEF Bigger
<1>5. /\ ns[h].kids \in Seq(Nat) /\ Len(ns[h].kids) \in Nat
      /\ Len(ms[h].kids) = Len(ns[h].kids) + 1
      /\ DOMAIN ns[h].kids = 1 .. Len(ns[h].kids)
      /\ DOMAIN ms[h].kids = DOMAIN ns[h].kids \cup {Len(ns[h].kids) + 1}
      /\ \A i \in DOMAIN ns[h].kids : ms[h].kids[i] = ns[h].kids[i]
      /\ ms[h].kids[Len(ns[h].kids) + 1] = N + 1
  BY <1>31 DEF Bigger
<1>6. new.kids = <<>> /\ DOMAIN new.kids = {} /\ Len(new.kids) = 0
  OBVIOUS
<1> HIDE DEF N
<1>7. KidsKnown(ms)
  <2> SUFFICES ASSUME NEW g \in DOMAIN ms, NEW i \in DOMAIN ms[g].kids
               PROVE  /\ ms[g].kids[i] \in 2 .. N + 1
                      /\ IsText(ms, ms[g].kids[i]) => ms[ms[g].kids[i]].parent = g
    BY <1>4 DEF KidsKnown
  <2>1. g \in DOMAIN ns
    BY <1>4, <1>6
  <2>2. ASSUME i \in DOMAIN ns[g].kids, ms[g].kids[i] = ns[g].kids[i]
        PROVE  /\ ms[g].kids[i] \in 2 .. N + 1
               /\ IsText(ms, ms[g].kids[i]) => ms[ms[g].kids[i]].parent = g
    <3> DEFINE k == ns[g].kids[i]
    <3>1. k \in 2 .. N /\ (IsText(ns, k) => ns[k].parent = g)
      BY <2>1, <2>2, <1>1 DEF KidsKnown, N
    <3>2. k \in DOMAIN ns
      BY <3>1, <1>4
    <3>3. ms[k].kind = ns[k].kind /\ ms[k].parent = ns[k].parent
      BY <3>2, <1>4
    <3>4. IsText(ms, k) => ms[k].parent = g
      BY <3>1, <3>3 DEF IsText
    <3>5. k \in 2 .. N + 1
      BY <3>1, <1>4
    <3> QED BY <3>4, <3>5, <2>2
  <2>3. CASE g # h
    <3>1. ms[g].kids = ns[g].kids
      BY <2>1, <2>3, <1>4
    <3> QED BY <3>1, <2>2
  <2>4. CASE g = h /\ i \in DOMAIN ns[h].kids
    <3>1. ms[g].kids[i] = ns[g].kids[i]
      BY <2>4, <1>5
    <3> QED BY <3>1, <2>4, <2>2
  <2>5. CASE g = h /\ i = Len(ns[h].kids) + 1
    <3>1. ms[g].kids[i] = N + 1
      BY <2>5, <1>5
    <3>2. IsText(ms, N + 1) => ms[N + 1].parent = g
      <4> HAVE IsText(ms, N + 1)
      <4>1. new.kind \in {"text", "cdata"}
        BY <1>4 DEF IsText
      <4> QED BY <4>1, <1>4, <2>5
    <3>3. N + 1 \in 2 .. N + 1
      BY <1>1, <1>4 DEF N
    <3> QED BY <3>1, <3>2, <3>3
  <2> QED BY <2>3, <2>4, <2>5, <1>5
<1>8. Nested(ms, op)
  <2> SUFFICES ASSUME NEW i \in DOMAIN op
               PROVE  /\ op[i].node \in 2 .. Len(ms) /\ ms[op[i].node].kind = "element"
                      /\ ms[op[i].node].parent = IF i = 1 THEN NIL ELSE op[i - 1].node
                      /\ \A j \in 1 .. i - 1 : op[j].node < op[i].node
                      /\ i > 1 => /\ ms[op[i - 1].node].kids # <<>>
                                  /\ Top(ms[op[i - 1].node].kids) = op[i].node
    BY DEF Nested
  <2>1. /\ op[i].node \in 2 .. N /\ ns[op[i].node].kind = "element"
        /\ ns[op[i].node].parent = IF i = 1 THEN NIL ELSE op[i - 1].node
        /\ \A j \in 1 .. i - 1 : op[j].node < op[i].node
        /\ i > 1 => /\ ns[op[i - 1].node].kids # <<>>
                    /\ Top(ns[op[i - 1].node].kids) = op[i].node
    BY <1>1 DEF Nested, N
  <2>2. op[i].node \in DOMAIN ns /\ op[i].node \in 2 .. Len(ms)
    BY <2>1, <1>4
  <2>3. ASSUME i > 1 PROVE op[i - 1].node \in DOMAIN ns \ {h}
    <3>1. i - 1 \in DOMAIN op /\ i \in DOMAIN op /\ op # <<>>
      BY <2>3, <1>0
    <3>2. op[i - 1].node \in 2 .. N
      BY <3>1, <1>1 DEF Nested, N
    <3>3. op[i - 1].node # h
      <4>1. Len(op) \in DOMAIN op /\ i - 1 \in 1 .. Len(op) - 1 /\ h = op[Len(op)].node
        BY <3>1, <1>2, <1>3, <1>0
      <4>2. op[i - 1].node < h
        BY <4>1, <1>1 DEF Nested
      <4>3. h \in Nat
        BY <1>3, <1>4
      <4> QED BY <4>2, <4>3
    <3> QED BY <3>2, <3>3, <1>4
  <2>4. ASSUME i > 1 PROVE ms[op[i - 1].node].kids = ns[op[i - 1].node].kids
    BY <2>3, <2>4, <1>4
  <2> QED BY <2>1, <2>2, <2>4, <1>4
<1>9. Mergeable(ms, cur)
  <2> SUFFICES ASSUME cur # NIL PROVE Top(ms[cur].kids) = N + 1
    BY <1>4 DEF Mergeable
  <2>1. cur = h
    OBVIOUS
  <2> QED BY <2>1, <1>5 DEF Top
<1>10. Placed(ms, pc)
  <2> SUFFICES ASSUME NEW n \in DOMAIN ms, IsText(ms, n), NEW i \in DOMAIN ms[n].text
               PROVE  ms[n].text[i].no \in DOMAIN pc /\ pc[ms[n].text[i].no].of = ms[n].parent
    BY DEF Placed
  <2>1. CASE n \in DOMAIN ns
    <3>1. IsText(ns, n) /\ ms[n].text = ns[n].text /\ ms[n].parent = ns[n].parent
      BY <2>1, <1>4 DEF IsText
    <3> QED BY <3>1, <2>1, <1>1 DEF Placed
  <2>2. CASE n = N + 1
    <3>1. ms[n].text = cd /\ ms[n].parent = cur
      BY <2>2, <1>4 DEF IsText
    <3> QED BY <3>1, <1>1 DEF Collected
  <2> QED BY <2>1, <2>2, <1>4
<1>11. Kept(ms, <<>>, pc)
  <2> SUFFICES ASSUME NEW no \in DOMAIN pc, ~pc[no].white
               PROVE  \E n \in DOMAIN ms : /\ IsText(ms, n)
                                           /\ \E i \in DOMAIN ms[n].text : ms[n].text[i].no = no
    BY DEF Kept
  <2>1. CASE \E i \in DOMAIN cd : cd[i].no = no
    <3>1. cd # <<>> /\ N + 1 \in DOMAIN ms
      BY <2>1, <1>4
    <3>2. IsText(ms, N + 1) /\ ms[N + 1].text = cd
      BY <3>1, <1>4 DEF IsText
    <3> QED BY <3>1, <3>2, <2>1
  <2>2. CASE \E n \in DOMAIN ns : IsText(ns, n) /\ \E i \in DOMAIN ns[n].text : ns[n].text[i].no = no
    <3>1. PICK n \in DOMAIN ns : IsText(ns, n) /\ \E i \in DOMAIN ns[n].text : ns[n].text[i].no = no
      BY <2>2
    <3>2. n \in DOMAIN ms /\ IsText(ms, n) /\ ms[n].text = ns[n].text
      BY <3>1, <1>4 DEF IsText
    <3> QED BY <3>1, <3>2
  <2> QED BY <2>1, <2>2, <1>1 DEF Kept
<1>12. InOrder(ms, <<>>)
  <2> SUFFICES ASSUME NEW m \in DOMAIN ms, NEW n \in DOMAIN ms, IsText(ms, m), IsText(ms, n), m < n,
                      NEW i \in DOMAIN ms[m].text, NEW j \in DOMAIN ms[n].text
               PROVE  ms[m].text[i].no < ms[n].text[j].no
    BY DEF InOrder
  <2>1. m \in DOMAIN ns
    BY <1>4
  <2>2. IsText(ns, m) /\ ms[m].text = ns[m].text
    BY <2>1, <1>4 DEF IsText
  <2>3. CASE n \in DOMAIN ns
    <3>1. IsText(ns, n) /\ ms[n].text = ns[n].text
      BY <2>3, <1>4 DEF IsText
    <3> QED BY <3>1, <2>1, <2>2, <2>3, <1>1 DEF InOrder
  <2>4. CASE n = N + 1
    <3>1. ms[n].text = cd
      BY <2>4, <1>4 DEF IsText
    <3> QED BY <3>1, <2>1, <2>2, <1>1 DEF InOrder
  <2> QED BY <2>3, <2>4, <1>4
<1>13. Apart(ms)
  <2> SUFFICES ASSUME NEW g \in DOMAIN ms, NEW i \in 2 .. Len(ms[g].kids),
                      ms[ms[g].kids[i - 1]].kind = "text", ms[ms[g].kids[i]].kind = "text"
               PROVE  FALSE
    BY DEF Apart
  <2>1. g \in DOMAIN ns
    BY <1>4, <1>6
  <2>2. /\ Len(ns[g].kids) \in Nat /\ DOMAIN ns[g].kids = 1 .. Len(ns[g].kids)
    BY <2>1, <1>0, KidsAre
  <2>3. ASSUME NEW j \in DOMAIN ns[g].kids
        PROVE  ms[ns[g].kids[j]].kind = ns[ns[g].kids[j]].kind
    <3>1. ns[g].kids[j] \in DOMAIN ns
      BY <2>1, <1>1, <1>4 DEF KidsKnown, N
    <3> QED BY <3>1, <1>4
  <2>4. ASSUME i \in 2 .. Len(ns[g].kids), ms[g].kids[i] = ns[g].kids[i],
               ms[g].kids[i - 1] = ns[g].kids[i - 1]
        PROVE  FALSE
    <3>1. i \in DOMAIN ns[g].kids /\ i - 1 \in DOMAIN ns[g].kids
      BY <2>2, <2>4
    <3>2. ns[ns[g].kids[i]].kind = "text" /\ ns[ns[g].kids[i - 1]].kind = "text"
      BY <3>1, <2>3, <2>4
    <3> QED BY <3>2, <2>1, <2>4, <1>1 DEF Apart
  <2>5. CASE g # h
    <3>1. ms[g].kids = ns[g].kids
      BY <2>1, <2>5, <1>4
    <3> QED BY <3>1, <2>4
  <2>6. CASE g = h /\ i # Len(ns[h].kids) + 1
    <3>1. i \in 2 .. Len(ns[h].kids)
      BY <2>6, <1>5
    <3>2. i \in DOMAIN ns[h].kids /\ i - 1 \in DOMAIN ns[h].kids
      BY <3>1, <1>5
    <3> QED BY <3>1, <3>2, <2>4, <2>6, <1>5
  <2>7. CASE g = h /\ i = Len(ns[h].kids) + 1
    <3>1. ms[h].kids[i] = N + 1 /\ new.kind = "text"
      BY <2>7, <1>4, <1>5
    <3>2. i - 1 = Len(ns[h].kids) /\ Len(ns[h].kids) \in DOMAIN ns[h].kids
      BY <2>7, <1>5
    <3>3. ms[h].kids[i - 1] = Top(ns[h].kids)
      BY <3>2, <1>5 DEF Top
    <3>4. ns[Top(ns[h].kids)].kind = "text"
      BY <2>3, <2>7, <3>2, <3>3 DEF Top
    <3>5. ns[h].kids # <<>>
      BY <3>2
    <3> QED BY <3>1, <3>4, <3>5
  <2> QED BY <2>5, <2>6, <2>7
<1>14. Len(ms) > 0 /\ ms[1].kind = "root"
  BY <1>1, <1>4 DEF N
<1>15. <<>> \in Seq(Piece) /\ DOMAIN <<>> = {}
  OBVIOUS
<1>16. Collected(<<>>, cur, pc)
  BY <1>15 DEF Collected
<1>17. InOrder(ms, <<>>) /\ ms \in Seq(NodeSet)
  BY <1>12
<1> QED BY <1>0, <1>3, <1>7, <1>8, <1>9, <1>10, <1>11, <1>13, <1>14, <1>15, <1>16, <1>17, Zenon DEF Tree

LEMMA CurrentIs ==
  ASSUME NEW ns, NEW cur, NEW cd, NEW op, NEW pc, Tree(ns, cur, cd, op, pc)
  PROVE  /\ cur = NIL <=> op = <<>>
         /\ cur # NIL => /\ cur \in DOMAIN ns /\ Len(op) \in DOMAIN op /\ cur = op[Len(op)].node
                         /\ ns[cur].kind = "element" /\ cur > 1
<1>0. /\ ns \in Seq(NodeSet) /\ op \in Seq(OpenSet)
      /\ cur = IF op = <<>> THEN NIL ELSE Top(op).node
  BY DEF Tree
<1>1. Nested(ns, op)
  BY DEF Tree
<1>2. ASSUME op # <<>> PROVE Len(op) \in DOMAIN op /\ cur = op[Len(op)].node
  BY <1>0, <1>2 DEF Top
<1>3. ASSUME op # <<>> PROVE cur \in 2 .. Len(ns) /\ ns[cur].kind = "element"
  BY <1>1, <1>2, <1>3 DEF Nested
<1>4. DOMAIN ns = 1 .. Len(ns) /\ Len(ns) \in Nat
  BY <1>0
<1>5. ASSUME op # <<>> PROVE cur \in DOMAIN ns /\ cur > 1 /\ cur # NIL
  BY <1>3, <1>4, <1>5 DEF NIL
<1> QED BY <1>0, <1>2, <1>3, <1>5

\* ms is ns with cd put at the end of the text of k.
Merged(ns, ms, k, cd) ==
  /\ Len(ms) = Len(ns) /\ ms[k].text = ns[k].text \o cd
  /\ \A g \in NodeFields \ {"text"} : ms[k][g] = ns[k][g]
  /\ \A i \in DOMAIN ns \ {k} : ms[i] = ns[i]

LEMMA MergeInto ==
  ASSUME NEW ns, NEW cur, NEW cd, NEW op, NEW pc, Tree(ns, cur, cd, op, pc),
         cur # NIL, ns[cur].kids # <<>>, NEW k, k = Top(ns[cur].kids), ns[k].kind = "text"
  PROVE  k \in DOMAIN ns /\ k = Len(ns) /\ ns[k].parent = cur
<1>1. ns \in Seq(NodeSet) /\ KidsKnown(ns) /\ Mergeable(ns, cur)
  BY DEF Tree
<1>2. cur \in DOMAIN ns
  BY CurrentIs
<1>3. Len(ns[cur].kids) \in DOMAIN ns[cur].kids
  BY <1>1, <1>2, KidsAre
<1>4. k = ns[cur].kids[Len(ns[cur].kids)]
  BY DEF Top
<1>5. k \in 2 .. Len(ns) /\ (IsText(ns, k) => ns[k].parent = cur)
  BY <1>1, <1>2, <1>3, <1>4 DEF KidsKnown
<1>6. IsText(ns, k)
  BY DEF IsText
<1>7. k = Len(ns)
  BY <1>1 DEF Mergeable
<1>8. DOMAIN ns = 1 .. Len(ns) /\ Len(ns) \in Nat
  BY <1>1
<1> QED BY <1>5, <1>6, <1>7, <1>8

\* u holds s, then t, and nothing else.
IsJoin(s, t, u) ==
  /\ \A i \in DOMAIN s : i \in DOMAIN u /\ u[i] = s[i]
  /\ \A i \in DOMAIN t : i + Len(s) \in DOMAIN u /\ u[i + Len(s)] = t[i]
  /\ \A i \in DOMAIN u : i \in DOMAIN s \/ \E j \in DOMAIN t : i = j + Len(s)

LEMMA JoinIs ==
  ASSUME NEW S, NEW s \in Seq(S), NEW t \in Seq(S), NEW u, u = s \o t
  PROVE  IsJoin(s, t, u)
<1>1. /\ Len(s) \in Nat /\ Len(t) \in Nat
      /\ DOMAIN s = 1 .. Len(s) /\ DOMAIN t = 1 .. Len(t) /\ DOMAIN u = 1 .. Len(s) + Len(t)
      /\ \A i \in DOMAIN s : i \in DOMAIN u /\ u[i] = s[i]
      /\ \A i \in DOMAIN t : i + Len(s) \in DOMAIN u /\ u[i + Len(s)] = t[i]
  BY Joined
<1>2. ASSUME NEW i \in DOMAIN u, i \notin DOMAIN s PROVE \E j \in DOMAIN t : i = j + Len(s)
  <2>1. i - Len(s) \in DOMAIN t /\ i = (i - Len(s)) + Len(s)
    BY <1>1, <1>2
  <2> QED BY <2>1
<1> QED BY <1>1, <1>2 DEF IsJoin

\* Text is put at the end of the text node before it.
LEMMA Merge ==
  ASSUME NEW ns, NEW cur, NEW cd, NEW op, NEW pc, Tree(ns, cur, cd, op, pc),
         cur # NIL, ns[cur].kids # <<>>, NEW k, k = Top(ns[cur].kids), ns[k].kind = "text",
         NEW ms \in Seq(NodeSet), Merged(ns, ms, k, cd)
  PROVE  Tree(ms, cur, <<>>, op, pc)
<1>0. /\ ns \in Seq(NodeSet) /\ op \in Seq(OpenSet) /\ cd \in Seq(Piece) /\ pc \in Seq(Source)
      /\ cur = IF op = <<>> THEN NIL ELSE Top(op).node
  BY DEF Tree
<1>1. KidsKnown(ns) /\ Nested(ns, op) /\ Mergeable(ns, cur) /\ Placed(ns, pc)
      /\ Kept(ns, cd, pc) /\ InOrder(ns, cd) /\ Collected(cd, cur, pc)
  BY DEF Tree
<1>3. k \in DOMAIN ns /\ k = Len(ns) /\ ns[k].parent = cur
  BY MergeInto
<1>6. /\ Len(ms) = Len(ns) /\ ms[k].text = ns[k].text \o cd
      /\ \A g \in NodeFields \ {"text"} : ms[k][g] = ns[k][g]
      /\ \A i \in DOMAIN ns \ {k} : ms[i] = ns[i]
  BY DEF Merged
<1>7. DOMAIN ms = DOMAIN ns /\ DOMAIN ns = 1 .. Len(ns) /\ Len(ns) \in Nat
  <2>1. DOMAIN ms = 1 .. Len(ms)
    BY SeqIs
  <2>2. DOMAIN ns = 1 .. Len(ns) /\ Len(ns) \in Nat
    BY <1>0, SeqIs
  <2> QED BY <2>1, <2>2, <1>6
<1>8. SameShape(ns, ms)
  BY <1>6, <1>7 DEF SameShape, NodeFields
<1>9. Sound(ms, cur, op)
  BY <1>8, ShapeKept
<1>10. \A n \in DOMAIN ns : (IsText(ms, n) <=> IsText(ns, n)) /\ ms[n].parent = ns[n].parent
                            /\ (n # k => ms[n].text = ns[n].text)
  BY <1>8, <1>6 DEF SameShape, IsText
<1>11. /\ \A i \in DOMAIN ns[k].text : i \in DOMAIN ms[k].text /\ ms[k].text[i] = ns[k].text[i]
       /\ \A i \in DOMAIN cd : \E j \in DOMAIN ms[k].text : ms[k].text[j] = cd[i]
       /\ \A i \in DOMAIN ms[k].text : \/ i \in DOMAIN ns[k].text /\ ms[k].text[i] = ns[k].text[i]
                                       \/ \E j \in DOMAIN cd : ms[k].text[i] = cd[j]
  <2> DEFINE s == ns[k].text
             u == ms[k].text
  <2>1. s \in Seq(Piece)
    <3>1. ns[k] \in NodeSet
      BY <1>0, <1>3, KidsAre
    <3> QED BY <3>1 DEF NodeSet
  <2>2. u = s \o cd
    BY <1>6
  <2> HIDE DEF s, u
  <2>3. /\ \A i \in DOMAIN s : i \in DOMAIN u /\ u[i] = s[i]
        /\ \A i \in DOMAIN cd : i + Len(s) \in DOMAIN u /\ u[i + Len(s)] = cd[i]
        /\ \A i \in DOMAIN u : i \in DOMAIN s \/ \E j \in DOMAIN cd : i = j + Len(s)
    <3>1. cd \in Seq(Piece)
      BY <1>0
    <3>2. IsJoin(s, cd, u)
      BY <2>1, <2>2, <3>1, JoinIs, Zenon
    <3> QED BY <3>2, Zenon DEF IsJoin
  <2>4. \A i \in DOMAIN cd : \E j \in DOMAIN u : u[j] = cd[i]
    BY <2>3
  <2>5. \A i \in DOMAIN u : \/ i \in DOMAIN s /\ u[i] = s[i]
                            \/ \E j \in DOMAIN cd : u[i] = cd[j]
    BY <2>3
  <2> QED BY <2>3, <2>4, <2>5 DEF s, u
<1>12. Placed(ms, pc)
  <2> SUFFICES ASSUME NEW n \in DOMAIN ms, IsText(ms, n), NEW i \in DOMAIN ms[n].text
               PROVE  ms[n].text[i].no \in DOMAIN pc /\ pc[ms[n].text[i].no].of = ms[n].parent
    BY DEF Placed
  <2>1. CASE n # k
    BY <2>1, <1>7, <1>10, <1>1 DEF Placed
  <2>2. CASE n = k /\ i \in DOMAIN ns[k].text /\ ms[k].text[i] = ns[k].text[i]
    BY <2>2, <1>3, <1>10, <1>1 DEF Placed
  <2>3. CASE n = k /\ \E j \in DOMAIN cd : ms[k].text[i] = cd[j]
    <3>1. PICK j \in DOMAIN cd : ms[k].text[i] = cd[j]
      BY <2>3
    <3>2. cd[j].no \in DOMAIN pc /\ pc[cd[j].no].of = cur
      BY <1>1 DEF Collected
    <3> QED BY <3>1, <3>2, <2>3, <1>3, <1>10
  <2> QED BY <2>1, <2>2, <2>3, <1>11
<1>13. Kept(ms, <<>>, pc)
  <2> SUFFICES ASSUME NEW no \in DOMAIN pc, ~pc[no].white
               PROVE  \E n \in DOMAIN ms : /\ IsText(ms, n)
                                           /\ \E i \in DOMAIN ms[n].text : ms[n].text[i].no = no
    BY DEF Kept
  <2>1. IsText(ms, k) /\ k \in DOMAIN ms
    BY <1>3, <1>7, <1>10 DEF IsText
  <2>2. CASE \E i \in DOMAIN cd : cd[i].no = no
    BY <2>1, <2>2, <1>11
  <2>3. CASE \E n \in DOMAIN ns : IsText(ns, n) /\ \E i \in DOMAIN ns[n].text : ns[n].text[i].no = no
    <3>1. PICK n \in DOMAIN ns : IsText(ns, n) /\ \E i \in DOMAIN ns[n].text : ns[n].text[i].no = no
      BY <2>3
    <3>2. CASE n = k
      BY <3>1, <3>2, <2>1, <1>11
    <3>3. CASE n # k
      BY <3>1, <3>3, <1>7, <1>10
    <3> QED BY <3>2, <3>3
  <2> QED BY <2>2, <2>3, <1>1 DEF Kept
<1>14. InOrder(ms, <<>>)
  <2> SUFFICES ASSUME NEW m \in DOMAIN ms, NEW n \in DOMAIN ms, IsText(ms, m), IsText(ms, n), m < n,
                      NEW i \in DOMAIN ms[m].text, NEW j \in DOMAIN ms[n].text
               PROVE  ms[m].text[i].no < ms[n].text[j].no
    BY DEF InOrder
  <2>1. m # k /\ m \in DOMAIN ns /\ n \in DOMAIN ns
    BY <1>3, <1>7
  <2>2. ms[m].text = ns[m].text /\ IsText(ns, m) /\ IsText(ns, n)
    BY <2>1, <1>10
  <2>3. CASE n # k
    BY <2>1, <2>2, <2>3, <1>10, <1>1 DEF InOrder
  <2>4. CASE n = k /\ j \in DOMAIN ns[k].text /\ ms[k].text[j] = ns[k].text[j]
    BY <2>1, <2>2, <2>4, <1>1 DEF InOrder
  <2>5. CASE n = k /\ \E l \in DOMAIN cd : ms[k].text[j] = cd[l]
    BY <2>1, <2>2, <2>5, <1>1 DEF InOrder
  <2> QED BY <2>3, <2>4, <2>5, <1>11
<1>15. <<>> \in Seq(Piece) /\ DOMAIN <<>> = {}
  OBVIOUS
<1>16. Collected(<<>>, cur, pc)
  BY <1>15 DEF Collected
<1>17. Tree(ms, cur, <<>>, op, pc)
  BY <1>0, <1>6, <1>9, <1>12, <1>13, <1>14, <1>15, <1>16, Zenon DEF Tree, Sound
<1> QED BY <1>17

\* White space that is not kept is dropped.
LEMMA Drop ==
  ASSUME NEW ns, NEW cur, NEW cd, NEW op, NEW pc, Tree(ns, cur, cd, op, pc),
         \A i \in DOMAIN cd : cd[i].white
  PROVE  Tree(ns, cur, <<>>, op, pc)
<1>1. Kept(ns, <<>>, pc)
  <2>1. Kept(ns, cd, pc) /\ Collected(cd, cur, pc)
    BY DEF Tree
  <2> QED BY <2>1 DEF Kept, Collected
<1>2. InOrder(ns, <<>>)
  <2>1. InOrder(ns, cd)
    BY DEF Tree
  <2> QED BY <2>1 DEF InOrder
<1>3. <<>> \in Seq(Piece) /\ DOMAIN <<>> = {}
  OBVIOUS
<1>4. Collected(<<>>, cur, pc)
  BY <1>3 DEF Collected
<1> QED BY <1>1, <1>2, <1>3, <1>4, Zenon DEF Tree

(* ------------------------------ text to the tree --------------------------- *)
Whole(c, op, pc) == c \in ReaderSet /\ Tree(c.nodes, c.current, c.cdata, op, pc)

LEMMA AddTextIs ==
  ASSUME TypeOK, run = "parsing", NEW c, NEW op, NEW pc, Whole(c, op, pc), c.current # NIL
  PROVE  /\ AddText(c) \in ReaderSet /\ Differ(c, AddText(c), {"nodes"})
         /\ Tree(AddText(c).nodes, c.current, <<>>, op, pc)
<1> DEFINE ns == c.nodes
           cur == c.current
           cd == c.cdata
           kids == ns[cur].kids
           merges == kids # <<>> /\ ns[Top(kids)].kind = "text" /\ ~c.cdataSection
           dropped == c.ignoreWhiteSpaces /\ \A i \in DOMAIN cd : cd[i].white
           kind == IF c.cdataSection THEN "cdata" ELSE "text"
<1>1. c \in ReaderSet /\ Tree(ns, cur, cd, op, pc)
  BY DEF Whole
<1>2. cur \in DOMAIN ns
  BY <1>1, CurrentIs
<1>3. /\ merges => AddText(c) = [c EXCEPT !.nodes[Top(kids)].text = @ \o cd]
      /\ ~merges /\ dropped => AddText(c) = c
      /\ ~merges /\ ~dropped => AddText(c) = AppendNode(c, cur, Node(kind, cur, cd))
  BY Zenon DEF AddText
<1>4. CASE merges
  <2> DEFINE k == Top(kids)
             t == ns[k].text \o cd
             x == [ns[k] EXCEPT !.text = t]
             ms == [ns EXCEPT ![k] = x]
  <2>1. cur # NIL /\ kids # <<>> /\ ns[k].kind = "text"
    BY <1>4
  <2>2. k \in DOMAIN ns
    <3> HIDE DEF cur, ns, cd
    <3> QED BY <1>1, <2>1, MergeInto
  <2>3. AddText(c) = [c EXCEPT !.nodes = ms]
    <3>1. AddText(c) = [c EXCEPT !.nodes[k].text = @ \o cd]
      BY <1>3, <1>4
    <3>2. [c EXCEPT !.nodes[k].text = @ \o cd] = [c EXCEPT !.nodes = ms]
      OBVIOUS
    <3> QED BY <3>1, <3>2
  <2>4. ns \in Seq(NodeSet) /\ cd \in Seq(Piece)
    BY <1>1 DEF Tree
  <2>5. ns[k] \in NodeSet /\ t \in Seq(Piece)
    <3>1. ns[k] \in NodeSet
      <4> HIDE DEF ns, k
      <4> QED BY <2>2, <2>4, KidsAre
    <3> QED BY <2>4, <3>1 DEF NodeSet
  <2> HIDE DEF t
  <2>6. x \in NodeSet /\ x.text = t /\ \A g \in NodeFields \ {"text"} : x[g] = ns[k][g]
    <3> HIDE DEF ns, k
    <3> QED BY <2>5, NodeText
  <2> HIDE DEF x
  <2>7. ms \in Seq(NodeSet) /\ Len(ms) = Len(ns) /\ ms[k] = x /\ \A i \in DOMAIN ns \ {k} : ms[i] = ns[i]
    <3> HIDE DEF ns, k
    <3> QED BY <2>2, <2>4, <2>6, Changed DEF ns
  <2> HIDE DEF ms
  <2>8. Merged(ns, ms, k, cd)
    BY <2>6, <2>7 DEF Merged, t
  <2>9. Tree(ms, cur, <<>>, op, pc)
    <3> HIDE DEF cur, ns, cd
    <3> QED BY <1>1, <2>1, <2>7, <2>8, Merge
  <2>10. AddText(c) \in ReaderSet /\ AddText(c).nodes = ms /\ Differ(c, AddText(c), {"nodes"})
    BY <1>1, <2>3, <2>7, WithNodes
  <2> QED BY <2>9, <2>10
<1>5. CASE ~merges /\ dropped
  <2>1. Tree(ns, cur, <<>>, op, pc)
    BY <1>1, <1>5, Drop
  <2> QED BY <1>1, <1>3, <1>5, <2>1 DEF Differ
<1>6. CASE ~merges /\ ~dropped
  <2> DEFINE node == Node(kind, cur, cd)
             new == WithBase(c, node)
             d == AppendNode(c, cur, node)
  <2>1. kind \in {"text", "cdata"} /\ kind \in NodeKinds /\ cur \in Nat /\ cd \in Seq(Piece)
    BY <1>1 DEF NodeKinds, ReaderSet
  <2>2. /\ node \in NodeSet /\ node.kind = kind /\ node.parent = cur /\ node.kids = <<>>
        /\ node.text = cd
    <3> HIDE DEF kind, cur, cd
    <3> QED BY <2>1, NodeIs
  <2> HIDE DEF node, d
  <2>3. d \in ReaderSet /\ Differ(c, d, {"nodes"}) /\ Grown(ns, d.nodes, cur, new)
    BY <1>1, <1>2, <2>2, AppendNodeIs DEF d
  <2>4. new \in NodeSet /\ new.kind = kind /\ new.parent = cur /\ new.kids = <<>> /\ new.text = cd
    <3>1. new \in NodeSet /\ \A g \in NodeFields \ {"base"} : new[g] = node[g]
      BY <2>2, WithBaseIs
    <3> QED BY <2>2, <3>1 DEF NodeFields
  <2>5. d.nodes \in Seq(NodeSet)
    BY <2>3 DEF ReaderSet
  <2>6. new.kind = "text" => kids = <<>> \/ ns[Top(kids)].kind # "text"
    BY <1>6, <2>4
  <2>7. Tree(d.nodes, cur, <<>>, op, pc)
    <3>1. cur = IF cur = NIL THEN Root ELSE cur
      OBVIOUS
    <3> HIDE DEF new, cur, ns, cd
    <3>2. new.kind \in {"text", "cdata"} /\ cur # NIL
      BY <2>1, <2>4 DEF cur
    <3> HIDE DEF kind
    <3>3. new.kind = "text" => ns[cur].kids = <<>> \/ ns[Top(ns[cur].kids)].kind # "text"
      BY <2>6
    <3> QED BY <1>1, <2>3, <2>4, <2>5, <3>1, <3>2, <3>3, Grow
  <2>8. AddText(c) = d
    BY <1>3, <1>6 DEF d, node
  <2> QED BY <2>3, <2>7, <2>8
<1> QED BY <1>4, <1>5, <1>6

LEMMA Dispatched ==
  ASSUME TypeOK, run = "parsing", NEW c, NEW op, NEW pc, Whole(c, op, pc),
         NEW d, d = DispatchPCDATA(c)
  PROVE  /\ Whole(d, op, pc) /\ d.cdata = <<>> /\ Differ(c, d, {"nodes", "cdata"})
<1>1. c \in ReaderSet /\ Tree(c.nodes, c.current, c.cdata, op, pc)
  BY DEF Whole
<1>2. CASE Idle(c) \/ c.current = NIL
  <2>1. d = c
    BY <1>2 DEF DispatchPCDATA
  <2>2. c.cdata = <<>>
    <3>1. CASE Idle(c)
      BY <3>1 DEF Idle
    <3>2. CASE c.current = NIL
      <4>1. op = <<>>
        BY <1>1, <3>2, CurrentIs
      <4> QED BY <4>1, <1>1 DEF Tree
    <3> QED BY <1>2, <3>1, <3>2
  <2> QED BY <2>1, <2>2 DEF Differ
<1>3. CASE ~(Idle(c) \/ c.current = NIL)
  <2> DEFINE a == AddText(c)
  <2>1. a \in ReaderSet /\ Differ(c, a, {"nodes"}) /\ Tree(a.nodes, c.current, <<>>, op, pc)
    BY <1>3, AddTextIs
  <2>2. d = [a EXCEPT !.cdata = <<>>]
    BY <1>3 DEF DispatchPCDATA
  <2> HIDE DEF a
  <2>3. d \in ReaderSet /\ d.cdata = <<>> /\ Differ(a, d, {"cdata"})
    <3>1. a \in ReaderSet /\ d = [a EXCEPT !.cdata = <<>>] /\ <<>> \in Seq(Piece)
      BY <2>1, <2>2
    <3> QED BY <3>1, WithCdata
  <2>4. Differ(c, d, {"nodes", "cdata"})
    BY <2>1, <2>3 DEF Differ
  <2>5. d.nodes = a.nodes /\ d.current = c.current
    BY <2>3, <2>4 DEF Differ, Fields
  <2> QED BY <2>1, <2>3, <2>4, <2>5 DEF Whole
<1> QED BY <1>2, <1>3

(* -------------------------------- elements --------------------------------- *)
LEMMA OpenTree ==
  ASSUME NEW ns, NEW cur, NEW op, NEW pc, Tree(ns, cur, <<>>, op, pc), NEW n, n = Len(ns), n > 1,
         ns[n].kind = "element", ns[n].parent = cur, ns[n].kids = <<>>,
         cur # NIL => cur # n /\ ns[cur].kids # <<>> /\ Top(ns[cur].kids) = n,
         NEW e \in OpenSet, e.node = n
  PROVE  Tree(ns, n, <<>>, Append(op, e), pc)
<1> DEFINE oq == Append(op, e)
           L == Len(op)
<1>0. /\ ns \in Seq(NodeSet) /\ op \in Seq(OpenSet) /\ <<>> \in Seq(Piece) /\ pc \in Seq(Source)
      /\ cur = IF op = <<>> THEN NIL ELSE Top(op).node
  BY DEF Tree
<1>1. KidsKnown(ns) /\ Nested(ns, op) /\ Placed(ns, pc) /\ Kept(ns, <<>>, pc) /\ InOrder(ns, <<>>)
      /\ Apart(ns) /\ Len(ns) > 0 /\ ns[1].kind = "root"
  BY DEF Tree
<1>2. /\ L \in Nat /\ DOMAIN op = 1 .. L /\ DOMAIN oq = 1 .. L + 1 /\ oq \in Seq(OpenSet)
      /\ oq[L + 1] = e /\ (\A i \in 1 .. L : oq[i] = op[i]) /\ Len(oq) = L + 1 /\ oq # <<>>
  BY <1>0, Appended
<1>3. n \in Nat /\ n \in 2 .. Len(ns)
  BY <1>0
<1> HIDE DEF oq, L
<1>4. \A j \in 1 .. L : op[j].node < n
  <2> SUFFICES ASSUME NEW j \in 1 .. L PROVE op[j].node < n
    OBVIOUS
  <2>1. j \in DOMAIN op /\ L \in DOMAIN op /\ op # <<>>
    BY <1>2
  <2>2. cur = op[L].node /\ cur # NIL
    BY <2>1, CurrentIs DEF L
  <2>3. op[L].node \in 2 .. n /\ op[j].node \in 2 .. n
    BY <2>1, <1>1 DEF Nested
  <2>4. op[L].node < n
    BY <2>2, <2>3, <1>3
  <2>5. ASSUME j # L PROVE op[j].node < op[L].node
    <3>1. j \in 1 .. L - 1
      BY <2>5, <1>2
    <3> QED BY <3>1, <2>1, <1>1 DEF Nested
  <2> QED BY <2>3, <2>4, <2>5, <1>3
<1>5. Nested(ns, oq)
  <2> SUFFICES ASSUME NEW i \in DOMAIN oq
               PROVE  /\ oq[i].node \in 2 .. Len(ns) /\ ns[oq[i].node].kind = "element"
                      /\ ns[oq[i].node].parent = IF i = 1 THEN NIL ELSE oq[i - 1].node
                      /\ \A j \in 1 .. i - 1 : oq[j].node < oq[i].node
                      /\ i > 1 => /\ ns[oq[i - 1].node].kids # <<>>
                                  /\ Top(ns[oq[i - 1].node].kids) = oq[i].node
    BY DEF Nested
  <2>1. CASE i \in 1 .. L
    <3>1. i \in DOMAIN op /\ oq[i] = op[i] /\ (\A j \in 1 .. i - 1 : j \in 1 .. L /\ oq[j] = op[j])
          /\ (i # 1 => i - 1 \in 1 .. i - 1) /\ (i > 1 => i # 1)
      BY <1>2, <2>1
    <3>2. /\ op[i].node \in 2 .. Len(ns) /\ ns[op[i].node].kind = "element"
          /\ ns[op[i].node].parent = IF i = 1 THEN NIL ELSE op[i - 1].node
          /\ \A j \in 1 .. i - 1 : op[j].node < op[i].node
          /\ i > 1 => /\ ns[op[i - 1].node].kids # <<>>
                      /\ Top(ns[op[i - 1].node].kids) = op[i].node
      BY <3>1, <1>1 DEF Nested
    <3> QED BY <3>1, <3>2
  <2>2. CASE i = L + 1
    <3>1. oq[i] = e /\ oq[i].node = n /\ i - 1 = L
      BY <2>2, <1>2
    <3>2. \A j \in 1 .. i - 1 : oq[j].node < oq[i].node
      BY <3>1, <1>2, <1>4
    <3>3. CASE L = 0
      <4>1. op = <<>> /\ i = 1
        BY <3>3, <2>2, <1>0 DEF L
      <4>2. cur = NIL
        BY <4>1, <1>0
      <4> QED BY <3>1, <3>2, <4>1, <4>2, <1>3
    <3>4. CASE L # 0
      <4>1. op # <<>> /\ i # 1 /\ i > 1 /\ L \in 1 .. L
        BY <3>4, <2>2, <1>2 DEF L
      <4>2. cur = op[L].node /\ cur # NIL
        BY <4>1, CurrentIs DEF L
      <4>3. oq[i - 1].node = cur
        BY <3>1, <4>1, <4>2, <1>2
      <4> QED BY <3>1, <3>2, <4>1, <4>2, <4>3, <1>3
    <3> QED BY <3>3, <3>4
  <2> QED BY <2>1, <2>2, <1>2
<1>6. Mergeable(ns, n)
  BY DEF Mergeable
<1>7. Collected(<<>>, n, pc)
  BY DEF Collected
<1>8. n = IF oq = <<>> THEN NIL ELSE Top(oq).node
  BY <1>2 DEF Top
<1>9. Tree(ns, n, <<>>, oq, pc)
  BY <1>0, <1>1, <1>2, <1>5, <1>6, <1>7, <1>8, Zenon DEF Tree
<1> QED BY <1>9 DEF oq

LEMMA PushBaseIs ==
  ASSUME TypeOK, run = "parsing", NEW c \in ReaderSet, BaseHeld(c)
  PROVE  PushBase(c) \in ReaderSet /\ BaseHeld(PushBase(c)) /\ Differ(c, PushBase(c), {"baseURIstack"})
<1>1. CASE Top(c.baseURIstack).base = Base
  BY <1>1 DEF PushBase, Differ
<1>2. CASE Top(c.baseURIstack).base # Base
  <2> DEFINE s == c.baseURIstack
             x == [base |-> Base, depth |-> c.depth]
             new == Append(s, x)
  <2>1. PushBase(c) = [c EXCEPT !.baseURIstack = new]
    BY <1>2 DEF PushBase
  <2>2. s \in Seq([base : Nat, depth : Int]) /\ x \in [base : Nat, depth : Int]
    BY BaseIs DEF ReaderSet
  <2> HIDE DEF x
  <2>3. new \in Seq([base : Nat, depth : Int]) /\ Len(new) > 0 /\ new[1] = s[1]
    BY <2>2 DEF BaseHeld
  <2> HIDE DEF new
  <2>4. PushBase(c) \in ReaderSet /\ PushBase(c).baseURIstack = new /\ Differ(c, PushBase(c), {"baseURIstack"})
    BY <2>1, <2>3, WithBaseURIstack
  <2> QED BY <2>3, <2>4 DEF BaseHeld
<1> QED BY <1>1, <1>2

LEMMA NewElementIs ==
  ASSUME TypeOK, run = "parsing", NEW c, NEW op, NEW pc, Whole(c, op, pc), c.cdata = <<>>,
         c.depth = Len(op), BaseHeld(c), NEW e \in OpenSet, e.node = Len(c.nodes) + 1,
         NEW d, d = NewElement(c)
  PROVE  /\ Whole(d, Append(op, e), pc) /\ BaseHeld(d) /\ d.cdata = <<>>
         /\ d.current = e.node /\ e.node \in DOMAIN d.nodes
         /\ Differ(c, d, {"nodes", "current", "baseURIstack"})
<1> DEFINE cur == c.current
           h == IF cur = NIL THEN Root ELSE cur
           el == "element"
           none == <<>>
           node == Node(el, cur, none)
           new == WithBase(c, node)
           a == AppendNode(c, h, node)
           p == PushBase(a)
           n == Len(c.nodes) + 1
<1>1. c \in ReaderSet /\ Tree(c.nodes, cur, <<>>, op, pc) /\ cur \in Nat
  BY DEF Whole, ReaderSet
<1>2. (c.depth = 0 <=> cur = NIL) /\ c.nodes \in Seq(NodeSet) /\ h \in DOMAIN c.nodes
  <2>1. op \in Seq(OpenSet) /\ c.nodes \in Seq(NodeSet) /\ Len(c.nodes) > 0
    BY <1>1 DEF Tree
  <2>2. cur = NIL <=> op = <<>>
    BY <1>1, CurrentIs
  <2>3. cur # NIL => cur \in DOMAIN c.nodes
    BY <1>1, CurrentIs
  <2>4. 1 \in DOMAIN c.nodes
    BY <2>1
  <2> QED BY <2>1, <2>2, <2>3, <2>4 DEF Root
<1>3. d = [p EXCEPT !.current = n]
  <2>1. cur = IF c.depth = 0 THEN NIL ELSE c.current
    BY <1>2
  <2>2. h = IF c.depth = 0 THEN Root ELSE c.current
    BY <1>2
  <2>3. d = [PushBase(AppendNode(c, IF c.depth = 0 THEN Root ELSE c.current,
               Node("element", IF c.depth = 0 THEN NIL ELSE c.current, <<>>))) EXCEPT !.current = n]
    BY DEF NewElement
  <2> QED BY <2>1, <2>2, <2>3
<1>4. /\ node \in NodeSet /\ node.kind = "element" /\ node.parent = cur /\ node.kids = <<>>
  <2>1. el \in NodeKinds /\ none \in Seq(Piece)
    BY DEF NodeKinds
  <2> HIDE DEF el, cur, none
  <2>2. node \in NodeSet /\ node.kind = el /\ node.parent = cur /\ node.kids = <<>>
    BY <1>1, <2>1, NodeIs
  <2> QED BY <2>2 DEF el
<1> HIDE DEF node
<1>5. new \in NodeSet /\ new.kind = "element" /\ new.parent = cur /\ new.kids = <<>>
  <2>1. new \in NodeSet /\ \A g \in NodeFields \ {"base"} : new[g] = node[g]
    BY <1>4, WithBaseIs
  <2> QED BY <1>4, <2>1 DEF NodeFields
<1>6. a \in ReaderSet /\ Differ(c, a, {"nodes"}) /\ Grown(c.nodes, a.nodes, h, new)
  <2> HIDE DEF h
  <2> QED BY <1>1, <1>2, <1>4, AppendNodeIs DEF new
<1> HIDE DEF new, a
<1>7. BaseHeld(a)
  BY <1>6 DEF BaseHeld, Differ, Fields
<1>8. p \in ReaderSet /\ BaseHeld(p) /\ Differ(a, p, {"baseURIstack"})
  BY <1>6, <1>7, PushBaseIs
<1> HIDE DEF p
<1>9. d \in ReaderSet /\ d.current = n /\ Differ(p, d, {"current"})
  <2>1. n \in Nat
    BY <1>2
  <2> HIDE DEF n
  <2> QED BY <1>3, <1>8, <2>1, WithCurrent
<1>10. Differ(c, d, {"nodes", "current", "baseURIstack"}) /\ d.nodes = a.nodes
       /\ d.baseURIstack = p.baseURIstack /\ d.cdata = c.cdata
  <2>1. Differ(c, d, {"nodes", "current", "baseURIstack"})
    BY <1>6, <1>8, <1>9 DEF Differ
  <2>2. d.nodes = a.nodes /\ d.baseURIstack = p.baseURIstack
    BY <1>8, <1>9 DEF Differ, Fields
  <2>3. d.cdata = c.cdata
    BY <2>1 DEF Differ, Fields
  <2> QED BY <2>1, <2>2, <2>3
<1>11. BaseHeld(d)
  BY <1>8, <1>10 DEF BaseHeld
<1>12. Tree(a.nodes, cur, <<>>, op, pc) /\ a.nodes \in Seq(NodeSet)
  <2>1. a.nodes \in Seq(NodeSet)
    BY <1>6 DEF ReaderSet
  <2>2. h = IF cur = NIL THEN Root ELSE cur
    OBVIOUS
  <2>3. new.kind \notin {"text", "cdata"} /\ new.kind # "text"
    BY <1>5
  <2> HIDE DEF h, cur
  <2>4. Tree(a.nodes, cur, <<>>, op, pc)
    BY <1>1, <1>5, <1>6, <2>1, <2>2, <2>3, Grow
  <2> QED BY <2>1, <2>4
<1>13. Bigger(c.nodes, a.nodes, h, new)
  <2> HIDE DEF h
  <2> QED BY <1>2, <1>5, <1>6, <1>12, GrownView
<1>14. /\ Len(a.nodes) = n /\ n > 1 /\ a.nodes[n] = new /\ n \in DOMAIN a.nodes /\ n \notin DOMAIN c.nodes
       /\ a.nodes[h].kids # <<>> /\ Top(a.nodes[h].kids) = n
  <2>1. Len(a.nodes) = n /\ a.nodes[n] = new /\ n \in DOMAIN a.nodes /\ n \notin DOMAIN c.nodes
    BY <1>13 DEF Bigger
  <2>2. n > 1
    <3>1. Len(c.nodes) > 0 /\ Len(c.nodes) \in Nat
      BY <1>1, <1>2 DEF Tree
    <3> QED BY <3>1
  <2>3. Len(a.nodes[h].kids) = Len(c.nodes[h].kids) + 1 /\ Len(c.nodes[h].kids) \in Nat
        /\ a.nodes[h].kids[Len(c.nodes[h].kids) + 1] = n
    BY <1>13 DEF Bigger
  <2>4. Top(a.nodes[h].kids) = n
    BY <2>3 DEF Top
  <2>5. a.nodes[h].kids # <<>>
    <3> DEFINE ks == a.nodes[h].kids
    <3>1. Len(ks) # 0
      BY <2>3
    <3> QED BY <3>1
  <2> QED BY <2>1, <2>2, <2>4, <2>5
<1>15. cur # NIL => cur # n /\ a.nodes[cur].kids # <<>> /\ Top(a.nodes[cur].kids) = n
  BY <1>2, <1>14
<1>16. Tree(a.nodes, n, <<>>, Append(op, e), pc)
  <2> HIDE DEF cur, n
  <2>1. e.node = n
    BY DEF n
  <2> QED BY <2>1, <1>5, <1>12, <1>14, <1>15, OpenTree
<1> QED BY <1>9, <1>10, <1>11, <1>14, <1>16 DEF Whole

(* --------------------------- names and white space ------------------------- *)
LEMMA DeclareIs ==
  ASSUME NEW c \in ReaderSet, NEW attr \in Attrs
  PROVE  Declare(c, attr) \in ReaderSet /\ Differ(c, Declare(c, attr), {"activeNS"})
<1>1. CASE attr.is # "declares" \/ InScope(c, attr)
  BY <1>1 DEF Declare, Differ
<1>2. CASE ~(attr.is # "declares" \/ InScope(c, attr))
  <2> DEFINE x == [depth |-> c.depth, prefix |-> attr.prefix, uri |-> attr.uri]
             S == [depth : Int, prefix : Prefixes, uri : Uris]
             new == Append(c.activeNS, x)
  <2>1. attr.prefix \in Prefixes /\ attr.uri \in Uris
    <3>1. attr.is = "declares"
      BY <1>2
    <3>2. attr \in [is : {"declares"}, prefix : Prefixes, uri : Uris]
      <4>1. attr \notin {[is |-> "none"]}
        BY <3>1
      <4>2. attr \notin [is : {"space"}, value : {"preserve", "default"}]
        BY <3>1
      <4>3. attr \notin [is : {"prefixed"}, prefix : Prefixes \ {""}]
        BY <3>1
      <4> QED BY <4>1, <4>2, <4>3, Zenon DEF Attrs
    <3> QED BY <3>2
  <2>2. c.depth \in Int /\ c.activeNS \in Seq(S)
    BY DEF ReaderSet
  <2>3. x \in S
    BY <2>1, <2>2
  <2>4. Declare(c, attr) = [c EXCEPT !.activeNS = new]
    BY <1>2 DEF Declare
  <2> HIDE DEF x
  <2>5. new \in Seq(S)
    BY <2>2, <2>3
  <2> HIDE DEF new
  <2> QED BY <2>4, <2>5, WithActiveNS
<1> QED BY <1>1, <1>2

\* Whatever of a node is set that is not its place or its text.
LEMMA Retouched ==
  ASSUME NEW c, NEW op, NEW pc, Whole(c, op, pc), NEW n \in DOMAIN c.nodes, NEW x \in NodeSet,
         \A g \in {"kind", "parent", "kids", "text"} : x[g] = c.nodes[n][g],
         NEW ms, ms = [c.nodes EXCEPT ![n] = x], NEW d, d = [c EXCEPT !.nodes = ms]
  PROVE  Whole(d, op, pc) /\ Differ(c, d, {"nodes"}) /\ DOMAIN d.nodes = DOMAIN c.nodes
<1> DEFINE ns == c.nodes
<1>1. c \in ReaderSet /\ Tree(ns, c.current, c.cdata, op, pc) /\ ns \in Seq(NodeSet)
  BY DEF Whole, Tree
<1>2. ms \in Seq(NodeSet) /\ Len(ms) = Len(ns) /\ ms[n] = x /\ \A i \in DOMAIN ns \ {n} : ms[i] = ns[i]
  <2> HIDE DEF ns
  <2> QED BY <1>1, Changed DEF ns
<1>3. Alike(ns, ms)
  BY <1>2 DEF Alike, SameShape
<1>4. d \in ReaderSet /\ d.nodes = ms /\ Differ(c, d, {"nodes"})
  <2>1. c \in ReaderSet /\ ms \in Seq(NodeSet)
    BY <1>1, <1>2
  <2> QED BY <2>1, WithNodes, Zenon
<1>5. d.current = c.current /\ d.cdata = c.cdata
  BY <1>4, FieldsSame
<1>6. Tree(ms, c.current, c.cdata, op, pc)
  <2> HIDE DEF ns
  <2> QED BY <1>1, <1>2, <1>3, TreeAlike
<1> QED BY <1>1, <1>2, <1>4, <1>5, <1>6 DEF Whole

LEMMA NamedIs ==
  ASSUME NEW c, NEW op, NEW pc, Whole(c, op, pc), NEW n \in DOMAIN c.nodes, NEW u \in Uris \cup {"none"},
         NEW d, d = [c EXCEPT !.nodes[n].ns = u]
  PROVE  Whole(d, op, pc) /\ Differ(c, d, {"nodes"}) /\ DOMAIN d.nodes = DOMAIN c.nodes
<1> DEFINE x == [c.nodes[n] EXCEPT !.ns = u]
           ms == [c.nodes EXCEPT ![n] = x]
<1>1. c.nodes[n] \in NodeSet
  BY ElementOf DEF Whole, Tree
<1>2. x \in NodeSet /\ \A g \in NodeFields \ {"ns"} : x[g] = c.nodes[n][g]
  BY <1>1, NodeNs
<1>3. d = [c EXCEPT !.nodes = ms]
  OBVIOUS
<1>4. \A g \in {"kind", "parent", "kids", "text"} : x[g] = c.nodes[n][g]
  BY <1>2 DEF NodeFields
<1> HIDE DEF x
<1>5. x \in NodeSet
  BY <1>2
<1> DEFINE ns == c.nodes
<1>6. n \in DOMAIN ns /\ Whole(c, op, pc)
  OBVIOUS
<1>7. ms = [c.nodes EXCEPT ![n] = x]
  OBVIOUS
<1> HIDE DEF ms
<1> QED BY <1>3, <1>4, <1>5, <1>6, <1>7, Retouched

LEMMA SpacedIs ==
  ASSUME NEW c, NEW op, NEW pc, Whole(c, op, pc), NEW n \in DOMAIN c.nodes,
         NEW v \in {"none", "preserve", "default"}, NEW d, d = [c EXCEPT !.nodes[n].space = v]
  PROVE  Whole(d, op, pc) /\ Differ(c, d, {"nodes"}) /\ DOMAIN d.nodes = DOMAIN c.nodes
<1> DEFINE x == [c.nodes[n] EXCEPT !.space = v]
           ms == [c.nodes EXCEPT ![n] = x]
<1>1. c.nodes[n] \in NodeSet
  BY ElementOf DEF Whole, Tree
<1>2. x \in NodeSet /\ \A g \in NodeFields \ {"space"} : x[g] = c.nodes[n][g]
  BY <1>1, NodeSpace
<1>3. d = [c EXCEPT !.nodes = ms]
  OBVIOUS
<1>4. \A g \in {"kind", "parent", "kids", "text"} : x[g] = c.nodes[n][g]
  BY <1>2 DEF NodeFields
<1> HIDE DEF x
<1>5. x \in NodeSet
  BY <1>2
<1> DEFINE ns == c.nodes
<1>6. n \in DOMAIN ns /\ Whole(c, op, pc)
  OBVIOUS
<1>7. ms = [c.nodes EXCEPT ![n] = x]
  OBVIOUS
<1> HIDE DEF ms
<1> QED BY <1>3, <1>4, <1>5, <1>6, <1>7, Retouched

\* Neither the tree nor the text that is waiting are in the other fields.
LEMMA WholeKept ==
  ASSUME NEW c, NEW op, NEW pc, Whole(c, op, pc), NEW d \in ReaderSet,
         NEW F \in SUBSET (Fields \ {"nodes", "current", "cdata"}), Differ(c, d, F)
  PROVE  Whole(d, op, pc) /\ d.nodes = c.nodes /\ d.current = c.current /\ d.cdata = c.cdata
<1>1. d.nodes = c.nodes /\ d.current = c.current /\ d.cdata = c.cdata
  BY DEF Differ, Fields
<1> QED BY <1>1 DEF Whole

LEMMA EnterSpaceIs ==
  ASSUME NEW c, NEW op, NEW pc, Whole(c, op, pc), NEW n \in DOMAIN c.nodes, NEW attr \in Attrs,
         NEW d, d = EnterSpace(c, n, attr)
  PROVE  Whole(d, op, pc) /\ Differ(c, d, {"nodes", "preserveDeep", "defaultDeep", "ignoreWhiteSpaces"})
<1>0. c \in ReaderSet
  BY DEF Whole
<1>1. CASE d = c
  BY <1>1 DEF Differ
<1>2. CASE attr.value = "preserve" /\ d # c
  <2> DEFINE v == "preserve"
             x == [c EXCEPT !.nodes[n].space = v]
             p == c.preserveDeep + 1
             y == [x EXCEPT !.preserveDeep = p]
             f == FALSE
             z == [y EXCEPT !.ignoreWhiteSpaces = f]
  <2>1. d = [c EXCEPT !.nodes[n].space = "preserve", !.preserveDeep = @ + 1, !.ignoreWhiteSpaces = FALSE]
    BY <1>2 DEF EnterSpace
  <2>2. d = z
    BY <2>1
  <2>3. v \in {"none", "preserve", "default"} /\ p \in Int /\ f \in BOOLEAN
    BY <1>0 DEF ReaderSet
  <2> HIDE DEF v, p, f
  <2>4. Whole(x, op, pc) /\ Differ(c, x, {"nodes"})
    BY <2>3, SpacedIs
  <2> HIDE DEF x
  <2>5. y \in ReaderSet /\ Differ(x, y, {"preserveDeep"})
    BY <2>3, <2>4, WithPreserveDeep DEF Whole
  <2> HIDE DEF y
  <2>6. z \in ReaderSet /\ Differ(y, z, {"ignoreWhiteSpaces"})
    BY <2>3, <2>5, WithIgnoreWhiteSpaces
  <2> HIDE DEF z
  <2>7. Whole(y, op, pc)
    BY <2>4, <2>5, WholeKept DEF Fields
  <2>8. Whole(z, op, pc)
    BY <2>6, <2>7, WholeKept DEF Fields
  <2>9. Differ(c, z, {"nodes", "preserveDeep", "defaultDeep", "ignoreWhiteSpaces"})
    BY <2>4, <2>5, <2>6 DEF Differ
  <2> QED BY <2>2, <2>8, <2>9
<1>3. CASE attr.value # "preserve" /\ d # c
  <2> DEFINE v == "default"
             x == [c EXCEPT !.nodes[n].space = v]
             p == c.defaultDeep + 1
             y == [x EXCEPT !.defaultDeep = p]
             f == TRUE
             z == [y EXCEPT !.ignoreWhiteSpaces = f]
  <2>1. d = [c EXCEPT !.nodes[n].space = "default", !.defaultDeep = @ + 1, !.ignoreWhiteSpaces = TRUE]
    BY <1>3 DEF EnterSpace
  <2>2. d = z
    BY <2>1
  <2>3. v \in {"none", "preserve", "default"} /\ p \in Int /\ f \in BOOLEAN
    BY <1>0 DEF ReaderSet
  <2> HIDE DEF v, p, f
  <2>4. Whole(x, op, pc) /\ Differ(c, x, {"nodes"})
    BY <2>3, SpacedIs
  <2> HIDE DEF x
  <2>5. y \in ReaderSet /\ Differ(x, y, {"defaultDeep"})
    BY <2>3, <2>4, WithDefaultDeep DEF Whole
  <2> HIDE DEF y
  <2>6. z \in ReaderSet /\ Differ(y, z, {"ignoreWhiteSpaces"})
    BY <2>3, <2>5, WithIgnoreWhiteSpaces
  <2> HIDE DEF z
  <2>7. Whole(y, op, pc)
    BY <2>4, <2>5, WholeKept DEF Fields
  <2>8. Whole(z, op, pc)
    BY <2>6, <2>7, WholeKept DEF Fields
  <2>9. Differ(c, z, {"nodes", "preserveDeep", "defaultDeep", "ignoreWhiteSpaces"})
    BY <2>4, <2>5, <2>6 DEF Differ
  <2> QED BY <2>2, <2>8, <2>9
<1> QED BY <1>1, <1>2, <1>3

LEMMA LeastNumber ==
  ASSUME NEW T \in SUBSET Nat, T # {}
  PROVE  \E n \in T : \A m \in T : n <= m
<1> DEFINE U == {0 .. n : n \in T}
<1>1. U \subseteq FiniteSubsetsOf(Nat)
  <2> SUFFICES ASSUME NEW n \in T PROVE 0 .. n \in SUBSET Nat /\ IsFiniteSet(0 .. n)
    BY DEF FiniteSubsetsOf
  <2> QED BY FS_Interval
<1>2. U # {}
  OBVIOUS
<1>3. IsWellFoundedOn(StrictSubsetOrdering(Nat), FiniteSubsetsOf(Nat))
  BY FS_StrictSubsetOrderingWellFounded
<1> HIDE DEF U
<1>4. PICK x \in U : \A y \in U : ~ (<<y, x>> \in StrictSubsetOrdering(Nat))
  BY <1>1, <1>2, <1>3, WFMin
<1>5. PICK n \in T : x = 0 .. n
  BY DEF U
<1>6. ASSUME NEW m \in T, m < n PROVE FALSE
  <2>1. 0 .. m \in U
    BY DEF U
  <2>2. <<0 .. m, x>> \in StrictSubsetOrdering(Nat)
    BY <1>5, <1>6 DEF StrictSubsetOrdering
  <2> QED BY <2>1, <2>2, <1>4
<1> QED BY <1>6

\* A set of positions that is not empty has a last one.
LEMMA LastPosition ==
  ASSUME NEW N \in Nat, NEW S \in SUBSET (1 .. N), S # {}
  PROVE  \E i \in S : \A j \in S : j <= i
<1> DEFINE T == {N - i : i \in S}
<1>1. T \in SUBSET Nat /\ T # {}
  <2>1. \A i \in S : N - i \in Nat
    OBVIOUS
  <2> QED BY <2>1
<1> HIDE DEF T
<1>2. PICK t \in T : \A m \in T : t <= m
  BY <1>1, LeastNumber
<1>3. PICK i \in S : t = N - i
  BY <1>2 DEF T
<1>4. ASSUME NEW j \in S PROVE j <= i
  <2>1. N - j \in T
    BY DEF T
  <2>2. N - i <= N - j
    BY <1>2, <1>3, <2>1
  <2> QED BY <2>2
<1> QED BY <1>4

LEMMA LookupIs ==
  ASSUME NEW c \in ReaderSet, NEW prefix
  PROVE  LookupIn(c.activeNS, prefix) \in Uris \cup {"none"}
<1> DEFINE stack == c.activeNS
           found == {i \in DOMAIN stack : stack[i].prefix = prefix}
<1>1. stack \in Seq([depth : Int, prefix : Prefixes, uri : Uris])
  BY DEF ReaderSet
<1>2. CASE found = {}
  BY <1>2 DEF LookupIn
<1>3. CASE found # {}
  <2> DEFINE i == CHOOSE k \in found : \A j \in found : j <= k
  <2>1. Len(stack) \in Nat /\ found \in SUBSET (1 .. Len(stack))
    BY <1>1
  <2> HIDE DEF stack
  <2>2. \E k \in found : \A j \in found : j <= k
    <3> HIDE DEF found
    <3> QED BY <1>3, <2>1, LastPosition
  <2>3. i \in found
    BY <2>2
  <2>4. stack[i].uri \in Uris
    <3>1. stack[i] \in [depth : Int, prefix : Prefixes, uri : Uris]
      BY <1>1, <2>1, <2>3, ElementOf
    <3> QED BY <3>1
  <2>5. LookupIn(stack, prefix) = stack[i].uri
    BY <1>3 DEF LookupIn
  <2> QED BY <2>4, <2>5 DEF stack
<1> QED BY <1>2, <1>3

(* ------------------------------ an element closes --------------------------- *)
LEMMA PopNamespacesIs ==
  ASSUME NEW c \in ReaderSet
  PROVE  PopNamespaces(c) \in ReaderSet /\ Differ(c, PopNamespaces(c), {"activeNS"})
<1> DEFINE s == c.activeNS
           S == [depth : Int, prefix : Prefixes, uri : Uris]
           keep == {i \in DOMAIN s : \E j \in i .. Len(s) : s[j].depth # c.depth}
           k == Cardinality(keep)
           new == SubSeq(s, 1, k)
<1>1. s \in Seq(S) /\ Len(s) \in Nat /\ DOMAIN s = 1 .. Len(s)
  BY DEF ReaderSet
<1>2. PopNamespaces(c) = [c EXCEPT !.activeNS = new]
  BY DEF PopNamespaces
<1>3. k \in Nat /\ k <= Len(s)
  <2> DEFINE n == Len(s)
  <2>1. IsFiniteSet(1 .. n) /\ Cardinality(1 .. n) = n
    BY <1>1, FS_Interval
  <2>2. keep \subseteq 1 .. n
    BY <1>1
  <2> HIDE DEF keep, n
  <2>3. IsFiniteSet(keep) /\ Cardinality(keep) <= Cardinality(1 .. n)
    BY <2>1, <2>2, FS_Subset
  <2>4. Cardinality(keep) \in Nat
    BY <2>3, FS_CardinalityType
  <2> QED BY <2>1, <2>3, <2>4 DEF n
<1> HIDE DEF k
<1>4. new \in Seq(S)
  <2>1. k \in 0 .. Len(s)
    BY <1>1, <1>3
  <2> HIDE DEF s, S
  <2> QED BY <1>1, <2>1, Shortened
<1> HIDE DEF new
<1> QED BY <1>2, <1>4, WithActiveNS

SpaceFields == {"preserveDeep", "defaultDeep", "ignoreWhiteSpaces"}

LEMMA LeavePreserveIs ==
  ASSUME NEW c \in ReaderSet
  PROVE  LeavePreserve(c) \in ReaderSet /\ Differ(c, LeavePreserve(c), SpaceFields)
<1> DEFINE p == c.preserveDeep - 1
           d == [c EXCEPT !.preserveDeep = p]
           f == TRUE
           g == [d EXCEPT !.ignoreWhiteSpaces = f]
<1>1. p \in Int /\ f \in BOOLEAN
  BY DEF ReaderSet
<1>2. LeavePreserve(c) \in {d, g}
  BY DEF LeavePreserve
<1> HIDE DEF p, f
<1>3. d \in ReaderSet /\ Differ(c, d, {"preserveDeep"})
  BY <1>1, WithPreserveDeep
<1> HIDE DEF d
<1>4. g \in ReaderSet /\ Differ(d, g, {"ignoreWhiteSpaces"})
  BY <1>1, <1>3, WithIgnoreWhiteSpaces
<1> QED BY <1>2, <1>3, <1>4 DEF Differ, SpaceFields

LEMMA LeaveDefaultIs ==
  ASSUME NEW c \in ReaderSet
  PROVE  LeaveDefault(c) \in ReaderSet /\ Differ(c, LeaveDefault(c), SpaceFields)
<1> DEFINE p == c.defaultDeep - 1
           d == [c EXCEPT !.defaultDeep = p]
           parent == d.nodes[d.current].parent
           f == d.ignoreWhiteSpaces /\ d.preserveDeep = 0
           h == d.nodes[parent].space = "default"
<1>1. p \in Int /\ f \in BOOLEAN /\ h \in BOOLEAN
  BY DEF ReaderSet
<1>2. LeaveDefault(c) \in {d, [d EXCEPT !.ignoreWhiteSpaces = f], [d EXCEPT !.ignoreWhiteSpaces = h]}
  BY DEF LeaveDefault
<1> HIDE DEF p, f, h, parent
<1>3. d \in ReaderSet /\ Differ(c, d, {"defaultDeep"})
  BY <1>1, WithDefaultDeep
<1> HIDE DEF d
<1>4. ASSUME NEW v \in BOOLEAN, NEW e, e = [d EXCEPT !.ignoreWhiteSpaces = v]
      PROVE  e \in ReaderSet /\ Differ(c, e, SpaceFields)
  <2>1. e \in ReaderSet /\ Differ(d, e, {"ignoreWhiteSpaces"})
    BY <1>3, <1>4, WithIgnoreWhiteSpaces
  <2> QED BY <1>3, <2>1 DEF Differ, SpaceFields
<1>5. Differ(c, d, SpaceFields)
  BY <1>3 DEF Differ, SpaceFields
<1> QED BY <1>1, <1>2, <1>3, <1>4, <1>5

LEMMA LeaveSpaceIs ==
  ASSUME NEW c \in ReaderSet
  PROVE  LeaveSpace(c) \in ReaderSet /\ Differ(c, LeaveSpace(c), SpaceFields)
<1>1. LeaveSpace(c) \in {c, LeavePreserve(c), LeaveDefault(c)}
  BY DEF LeaveSpace
<1> QED BY <1>1, LeavePreserveIs, LeaveDefaultIs DEF Differ

LEMMA CloseTree ==
  ASSUME NEW ns, NEW cur, NEW op, NEW pc, Tree(ns, cur, <<>>, op, pc), op # <<>>
  PROVE  /\ cur \in DOMAIN ns /\ cur # NIL /\ ns[cur].parent \in Nat
         /\ Tree(ns, ns[cur].parent, <<>>, Front(op), pc)
<1> DEFINE L == Len(op)
           oq == Front(op)
           up == ns[cur].parent
<1>0. /\ ns \in Seq(NodeSet) /\ op \in Seq(OpenSet) /\ <<>> \in Seq(Piece) /\ pc \in Seq(Source)
  BY DEF Tree
<1>1. KidsKnown(ns) /\ Nested(ns, op) /\ Placed(ns, pc) /\ Kept(ns, <<>>, pc) /\ InOrder(ns, <<>>)
      /\ Apart(ns) /\ Len(ns) > 0 /\ ns[1].kind = "root"
  BY DEF Tree
<1>2. cur # NIL /\ cur \in DOMAIN ns /\ L \in DOMAIN op /\ cur = op[L].node /\ ns[cur].kind = "element"
  BY CurrentIs
<1>3. /\ L \in Nat /\ L > 0 /\ DOMAIN op = 1 .. L /\ DOMAIN oq = 1 .. L - 1 /\ oq \in Seq(OpenSet)
      /\ (\A i \in 1 .. L - 1 : oq[i] = op[i]) /\ Len(oq) = L - 1
  BY <1>0, FrontIs
<1>4. up = IF L = 1 THEN NIL ELSE op[L - 1].node
  BY <1>1, <1>2 DEF Nested
<1>5. L > 1 => ns[op[L - 1].node].kids # <<>> /\ Top(ns[op[L - 1].node].kids) = cur
  BY <1>1, <1>2 DEF Nested
<1>6. up = IF oq = <<>> THEN NIL ELSE Top(oq).node
  <2>1. CASE L = 1
    BY <2>1, <1>3, <1>4
  <2>2. CASE L # 1
    <3>1. L - 1 \in 1 .. L - 1 /\ oq # <<>>
      BY <2>2, <1>3
    <3> QED BY <2>2, <3>1, <1>3, <1>4 DEF Top
  <2> QED BY <2>1, <2>2
<1> HIDE DEF oq, L
<1>7. Nested(ns, oq)
  <2> SUFFICES ASSUME NEW i \in DOMAIN oq
               PROVE  /\ oq[i].node \in 2 .. Len(ns) /\ ns[oq[i].node].kind = "element"
                      /\ ns[oq[i].node].parent = IF i = 1 THEN NIL ELSE oq[i - 1].node
                      /\ \A j \in 1 .. i - 1 : oq[j].node < oq[i].node
                      /\ i > 1 => /\ ns[oq[i - 1].node].kids # <<>>
                                  /\ Top(ns[oq[i - 1].node].kids) = oq[i].node
    BY DEF Nested
  <2>1. i \in DOMAIN op /\ oq[i] = op[i] /\ (\A j \in 1 .. i - 1 : j \in 1 .. L - 1 /\ oq[j] = op[j])
        /\ (i # 1 => i - 1 \in 1 .. i - 1) /\ (i > 1 => i # 1)
    BY <1>3
  <2>2. /\ op[i].node \in 2 .. Len(ns) /\ ns[op[i].node].kind = "element"
        /\ ns[op[i].node].parent = IF i = 1 THEN NIL ELSE op[i - 1].node
        /\ \A j \in 1 .. i - 1 : op[j].node < op[i].node
        /\ i > 1 => /\ ns[op[i - 1].node].kids # <<>>
                    /\ Top(ns[op[i - 1].node].kids) = op[i].node
    BY <2>1, <1>1 DEF Nested
  <2> QED BY <2>1, <2>2
<1>8. Mergeable(ns, up)
  <2> SUFFICES ASSUME up # NIL PROVE ns[Top(ns[up].kids)].kind # "text"
    BY DEF Mergeable
  <2>1. L # 1 /\ L > 1
    BY <1>3, <1>4
  <2> QED BY <2>1, <1>2, <1>4, <1>5
<1>9. Collected(<<>>, up, pc)
  BY DEF Collected
<1>10. up \in Nat
  <2>1. ns[cur] \in NodeSet
    BY <1>0, <1>2, ElementOf
  <2> QED BY <2>1 DEF NodeSet
<1> HIDE DEF up
<1>11. Tree(ns, up, <<>>, oq, pc)
  BY <1>0, <1>1, <1>3, <1>6, <1>7, <1>8, <1>9, Zenon DEF Tree
<1> QED BY <1>2, <1>10, <1>11 DEF oq, up

LEMMA CloseElementIs ==
  ASSUME NEW c, NEW op, NEW pc, Whole(c, op, pc), c.cdata = <<>>, op # <<>>, BaseHeld(c),
         NEW d, d = CloseElement(c)
  PROVE  /\ Whole(d, Front(op), pc) /\ d.cdata = <<>> /\ BaseHeld(d)
         /\ d.depth = c.depth - 1 /\ d.cdataSection = c.cdataSection
<1> DEFINE p == c.depth - 1
           down == [c EXCEPT !.depth = p]
           popped == PopNamespaces(down)
           back == IF down.current = NIL THEN popped ELSE LeaveSpace(popped)
           q == IF back.current = NIL THEN NIL ELSE back.nodes[back.current].parent
           up == [back EXCEPT !.current = q]
           s == Front(up.baseURIstack)
           shut == [up EXCEPT !.baseURIstack = s]
<1>1. d = IF up.depth # 0 /\ Top(up.baseURIstack).depth = up.depth THEN shut ELSE up
  BY DEF CloseElement
<1>2. c \in ReaderSet /\ Tree(c.nodes, c.current, <<>>, op, pc) /\ p \in Int
  BY DEF Whole, ReaderSet
<1>3. down \in ReaderSet /\ down.depth = p /\ Differ(c, down, {"depth"})
  <2> HIDE DEF p
  <2> QED BY <1>2, WithDepth
<1> HIDE DEF down
<1>4. popped \in ReaderSet /\ Differ(down, popped, {"activeNS"})
  BY <1>3, PopNamespacesIs
<1> HIDE DEF popped
<1>5. back \in ReaderSet /\ Differ(popped, back, SpaceFields)
  BY <1>4, LeaveSpaceIs DEF Differ
<1> HIDE DEF back
<1>6. Differ(c, back, {"depth", "activeNS"} \cup SpaceFields) /\ back.depth = p
  <2>1. Differ(c, back, {"depth", "activeNS"} \cup SpaceFields)
    BY <1>3, <1>4, <1>5 DEF Differ
  <2>2. popped.depth = p
    BY <1>3, <1>4 DEF Differ, Fields
  <2>3. back.depth = p
    BY <2>2, <1>5 DEF Differ, Fields, SpaceFields
  <2> QED BY <2>1, <2>3
<1>7. back.nodes = c.nodes /\ back.current = c.current
  BY <1>6 DEF Differ, Fields, SpaceFields
<1>8. q = c.nodes[c.current].parent /\ q \in Nat /\ Tree(c.nodes, q, <<>>, Front(op), pc)
  <2>1. c.current # NIL /\ c.nodes[c.current].parent \in Nat
        /\ Tree(c.nodes, c.nodes[c.current].parent, <<>>, Front(op), pc)
    BY <1>2, CloseTree
  <2> QED BY <2>1, <1>7
<1> HIDE DEF q
<1>9. up \in ReaderSet /\ up.current = q /\ Differ(back, up, {"current"})
  BY <1>5, <1>8, WithCurrent
<1> HIDE DEF up
<1>10. up.nodes = c.nodes /\ up.cdata = <<>> /\ up.depth = p /\ up.cdataSection = c.cdataSection
       /\ up.baseURIstack = c.baseURIstack
  <2>1. Differ(c, up, {"depth", "activeNS", "current"} \cup SpaceFields)
    BY <1>6, <1>9 DEF Differ
  <2>2. up.depth = back.depth
    BY <1>9 DEF Differ, Fields
  <2> QED BY <2>1, <2>2, <1>6 DEF Differ, Fields, SpaceFields
<1>11. Whole(up, Front(op), pc) /\ BaseHeld(up)
  BY <1>8, <1>9, <1>10 DEF Whole, BaseHeld
<1>12. CASE up.depth # 0 /\ Top(up.baseURIstack).depth = up.depth
  <2> DEFINE S == [base : Nat, depth : Int]
             t == up.baseURIstack
  <2>1. t \in Seq(S) /\ Len(t) > 0 /\ t[1].depth = 0 /\ Len(t) # 1
    BY <1>9, <1>11, <1>12 DEF ReaderSet, BaseHeld, Top
  <2>2. s \in Seq(S) /\ Len(s) > 0 /\ s[1] = t[1]
    <3>1. t # <<>> /\ s = Front(t)
      BY <2>1
    <3> HIDE DEF t, s, S
    <3>2. s \in Seq(S) /\ Len(t) \in Nat /\ Len(s) = Len(t) - 1
          /\ \A i \in 1 .. Len(t) - 1 : s[i] = t[i]
      BY <2>1, <3>1, FrontIs
    <3> QED BY <2>1, <3>2
  <2> HIDE DEF s
  <2>3. shut \in ReaderSet /\ shut.baseURIstack = s /\ Differ(up, shut, {"baseURIstack"})
    BY <1>9, <2>2, WithBaseURIstack
  <2> HIDE DEF shut
  <2>4. shut.depth = up.depth /\ shut.cdataSection = up.cdataSection /\ shut.cdata = up.cdata
        /\ shut.nodes = up.nodes /\ shut.current = up.current
    BY <2>3 DEF Differ, Fields
  <2>5. Whole(shut, Front(op), pc) /\ BaseHeld(shut)
    BY <1>11, <2>1, <2>2, <2>3, <2>4 DEF Whole, BaseHeld
  <2> QED BY <1>1, <1>10, <1>12, <2>4, <2>5
<1>13. CASE ~(up.depth # 0 /\ Top(up.baseURIstack).depth = up.depth)
  BY <1>1, <1>10, <1>11, <1>13
<1> QED BY <1>12, <1>13

\* A piece of text comes in.
LEMMA Reported ==
  ASSUME NEW ns, NEW cur, NEW cd, NEW op, NEW pc, Tree(ns, cur, cd, op, pc), op # <<>>,
         NEW white \in BOOLEAN, NEW p, p = [no |-> Len(pc) + 1, white |-> white],
         NEW s, s = [of |-> cur, white |-> white]
  PROVE  Tree(ns, cur, Append(cd, p), op, Append(pc, s)) /\ Append(cd, p) \in Seq(Piece)
<1> DEFINE cq == Append(cd, p)
           pq == Append(pc, s)
<1>0. /\ ns \in Seq(NodeSet) /\ op \in Seq(OpenSet) /\ cd \in Seq(Piece) /\ pc \in Seq(Source)
      /\ cur = IF op = <<>> THEN NIL ELSE Top(op).node
  BY DEF Tree
<1>1. KidsKnown(ns) /\ Nested(ns, op) /\ Mergeable(ns, cur) /\ Placed(ns, pc)
      /\ Kept(ns, cd, pc) /\ InOrder(ns, cd) /\ Apart(ns) /\ Len(ns) > 0 /\ ns[1].kind = "root"
      /\ Collected(cd, cur, pc)
  BY DEF Tree
<1>2. cur \in Nat
  <2>1. cur \in DOMAIN ns
    BY CurrentIs
  <2> QED BY <2>1, <1>0
<1>3. p \in Piece /\ p.no = Len(pc) + 1 /\ p.white = white /\ s \in Source /\ s.of = cur /\ s.white = white
  BY <1>0, <1>2 DEF Piece, Source
<1>4. /\ cq \in Seq(Piece) /\ pq \in Seq(Source)
      /\ Len(pc) \in Nat /\ DOMAIN pc = 1 .. Len(pc) /\ DOMAIN pq = DOMAIN pc \cup {Len(pc) + 1}
      /\ pq[Len(pc) + 1] = s /\ \A i \in DOMAIN pc : pq[i] = pc[i]
  BY <1>0, <1>3
<1>5. /\ DOMAIN cq = DOMAIN cd \cup {Len(cd) + 1} /\ cq[Len(cd) + 1] = p
      /\ \A i \in DOMAIN cd : cq[i] = cd[i]
  BY <1>0, <1>3
<1> HIDE DEF cq, pq
<1>6. Placed(ns, pq)
  BY <1>1, <1>4 DEF Placed
<1>7. Collected(cq, cur, pq)
  BY <1>1, <1>3, <1>4, <1>5 DEF Collected
<1>8. Kept(ns, cq, pq)
  <2> SUFFICES ASSUME NEW no \in DOMAIN pq, ~pq[no].white
               PROVE  \/ \E i \in DOMAIN cq : cq[i].no = no
                      \/ \E n \in DOMAIN ns : IsText(ns, n) /\ \E i \in DOMAIN ns[n].text : ns[n].text[i].no = no
    BY DEF Kept
  <2>1. CASE no \in DOMAIN pc
    <3>1. \/ \E i \in DOMAIN cd : cd[i].no = no
          \/ \E n \in DOMAIN ns : IsText(ns, n) /\ \E i \in DOMAIN ns[n].text : ns[n].text[i].no = no
      BY <2>1, <1>1, <1>4 DEF Kept
    <3>2. ASSUME NEW i \in DOMAIN cd, cd[i].no = no PROVE i \in DOMAIN cq /\ cq[i].no = no
      BY <3>2, <1>5
    <3> QED BY <3>1, <3>2
  <2>2. CASE no = Len(pc) + 1
    BY <2>2, <1>3, <1>5
  <2> QED BY <2>1, <2>2, <1>4
<1>9. InOrder(ns, cq)
  <2>1. ASSUME NEW n \in DOMAIN ns, IsText(ns, n), NEW i \in DOMAIN ns[n].text, NEW j \in DOMAIN cq
        PROVE  ns[n].text[i].no < cq[j].no
    <3>1. CASE j \in DOMAIN cd
      BY <2>1, <3>1, <1>1, <1>5 DEF InOrder
    <3>2. CASE j = Len(cd) + 1
      <4>1. ns[n].text[i].no \in DOMAIN pc
        BY <2>1, <1>1 DEF Placed
      <4>2. cq[j].no = Len(pc) + 1
        BY <3>2, <1>3, <1>5
      <4> QED BY <4>1, <4>2, <1>4
    <3> QED BY <3>1, <3>2, <1>5
  <2>2. \A m, n \in DOMAIN ns : IsText(ns, m) /\ IsText(ns, n) /\ m < n =>
          \A i \in DOMAIN ns[m].text, j \in DOMAIN ns[n].text : ns[m].text[i].no < ns[n].text[j].no
    BY <1>1 DEF InOrder
  <2> QED BY <2>1, <2>2 DEF InOrder
<1>10. Tree(ns, cur, cq, op, pq)
  BY <1>0, <1>1, <1>4, <1>6, <1>7, <1>8, <1>9, Zenon DEF Tree
<1> QED BY <1>4, <1>10 DEF cq, pq

LEMMA PutOther ==
  ASSUME TypeOK, run = "parsing", NEW c, NEW op, NEW pc, Whole(c, op, pc), c.cdata = <<>>,
         NEW kind \in {"comment", "pi"},
         NEW d, d = AppendNode(c, IF c.current = NIL THEN Root ELSE c.current, Node(kind, c.current, <<>>))
  PROVE  Whole(d, op, pc) /\ Differ(c, d, {"nodes"})
<1> DEFINE cur == c.current
           h == IF cur = NIL THEN Root ELSE cur
           none == <<>>
           node == Node(kind, cur, none)
           new == WithBase(c, node)
<1>1. c \in ReaderSet /\ Tree(c.nodes, cur, <<>>, op, pc) /\ cur \in Nat
  BY DEF Whole, ReaderSet
<1>2. h \in DOMAIN c.nodes
  <2>1. c.nodes \in Seq(NodeSet) /\ Len(c.nodes) > 0
    BY <1>1 DEF Tree
  <2>2. cur # NIL => cur \in DOMAIN c.nodes
    BY <1>1, CurrentIs
  <2>3. 1 \in DOMAIN c.nodes
    BY <2>1
  <2> QED BY <2>2, <2>3 DEF Root
<1>3. /\ node \in NodeSet /\ node.kind = kind /\ node.kids = <<>>
  <2>1. kind \in NodeKinds /\ none \in Seq(Piece)
    BY DEF NodeKinds
  <2> HIDE DEF cur, none
  <2> QED BY <1>1, <2>1, NodeIs
<1>4. d = AppendNode(c, h, node)
  OBVIOUS
<1> HIDE DEF node
<1>5. new \in NodeSet /\ new.kind = kind /\ new.kids = <<>>
  <2>1. new \in NodeSet /\ \A g \in NodeFields \ {"base"} : new[g] = node[g]
    BY <1>3, WithBaseIs
  <2> QED BY <1>3, <2>1 DEF NodeFields
<1>6. d \in ReaderSet /\ Differ(c, d, {"nodes"}) /\ Grown(c.nodes, d.nodes, h, new)
  <2> HIDE DEF h
  <2> QED BY <1>1, <1>2, <1>3, <1>4, AppendNodeIs DEF new
<1> HIDE DEF new
<1>7. Tree(d.nodes, cur, <<>>, op, pc)
  <2>1. d.nodes \in Seq(NodeSet)
    BY <1>6 DEF ReaderSet
  <2>2. h = IF cur = NIL THEN Root ELSE cur
    OBVIOUS
  <2>3. new.kind \notin {"text", "cdata"} /\ new.kind # "text"
    BY <1>5
  <2> HIDE DEF h, cur
  <2> QED BY <1>1, <1>5, <1>6, <2>1, <2>2, <2>3, Grow
<1>8. d.current = c.current /\ d.cdata = c.cdata
  BY <1>6, FieldsSame
<1> QED BY <1>6, <1>7, <1>8 DEF Whole

(* -------------------------------- every step ------------------------------- *)
LEMMA GoodParts ==
  ASSUME Good
  PROVE  TypeOK /\ Whole(b, open, pieces) /\ BaseHeld(b) /\ b.depth = Len(open)
         /\ (open = <<>> => ~b.cdataSection) /\ b \in ReaderSet /\ open \in Seq(OpenSet)
         /\ pieces \in Seq(Source) /\ parsers \in Seq([base : Nat, openAt : Nat])
BY DEF Good, TypeOK, Whole

LEMMA GoodNext ==
  ASSUME Good, opt' = opt, Whole(b', open', pieces'), BaseHeld(b'), b'.depth = Len(open'),
         open' = <<>> => ~b'.cdataSection,
         parsers' \in Seq([base : Nat, openAt : Nat]), Len(parsers') > 0
  PROVE  Good'
<1>1. open' \in Seq(OpenSet) /\ pieces' \in Seq(Source) /\ b' \in ReaderSet
  BY DEF Whole, Tree
<1>2. TypeOK'
  BY <1>1 DEF Good, TypeOK
<1> QED BY <1>2 DEF Good, Whole

\* The text that was waiting is in the tree, the rest is as it was.
LEMMA DispatchedKeeps ==
  ASSUME Good, run = "parsing", NEW c, c = DispatchPCDATA(b)
  PROVE  /\ Whole(c, open, pieces) /\ c.cdata = <<>> /\ BaseHeld(c) /\ c.depth = b.depth
         /\ c.cdataSection = b.cdataSection
<1>1. TypeOK /\ Whole(b, open, pieces) /\ BaseHeld(b)
  BY GoodParts
<1>2. Whole(c, open, pieces) /\ c.cdata = <<>> /\ Differ(b, c, {"nodes", "cdata"})
  BY <1>1, Dispatched
<1>3. c.baseURIstack = b.baseURIstack /\ c.depth = b.depth /\ c.cdataSection = b.cdataSection
  BY <1>2 DEF Differ, Fields
<1> QED BY <1>1, <1>2, <1>3 DEF BaseHeld

LEMMA StartKeeps ==
  ASSUME Good, run = "parsing", run' = "parsing",
         NEW prefix \in Prefixes, NEW attr \in Attrs, NEW constrained \in BOOLEAN, NEW empty \in BOOLEAN,
         StartElement(prefix, attr, constrained, empty)
  PROVE  Good'
<1> DEFINE z == DispatchPCDATA(b)
           c == NewElement(z)
           n == c.current
           declared == Declare(c, attr)
           uri == LookupIn(declared.activeNS, prefix)
           u == IF uri = "" THEN "none" ELSE uri
           named == [declared EXCEPT !.nodes[n].ns = u]
           ent == EnterSpace(named, n, attr)
           p == ent.depth + 1
           done == [ent EXCEPT !.depth = p]
           e == [node |-> Len(z.nodes) + 1, prefix |-> prefix, attr |-> attr, constrained |-> constrained]
           op == Append(open, e)
<1>1. b' = done /\ open' = op /\ opt' = opt /\ parsers' = parsers /\ pieces' = pieces
  BY DEF StartElement, StartTag, Opened
<1>2. Whole(z, open, pieces) /\ z.cdata = <<>> /\ BaseHeld(z) /\ z.depth = Len(open)
  BY GoodParts, DispatchedKeeps
<1> HIDE DEF z
<1>3. e \in OpenSet /\ e.node = Len(z.nodes) + 1
  <2>1. z.nodes \in Seq(NodeSet)
    BY <1>2 DEF Whole, Tree
  <2> QED BY <2>1 DEF OpenSet
<1> HIDE DEF e
<1>4. /\ Whole(c, op, pieces) /\ BaseHeld(c) /\ n = e.node /\ e.node \in DOMAIN c.nodes
      /\ Differ(z, c, {"nodes", "current", "baseURIstack"})
  BY <1>2, <1>3, GoodParts, NewElementIs
<1>5. c.depth = Len(open) /\ n \in DOMAIN c.nodes
  BY <1>2, <1>4 DEF Differ, Fields
<1> HIDE DEF c, n, op
<1>6. declared \in ReaderSet /\ Differ(c, declared, {"activeNS"})
  BY <1>4, DeclareIs DEF Whole
<1> HIDE DEF declared
<1>7. Whole(declared, op, pieces) /\ declared.nodes = c.nodes
  BY <1>4, <1>6, WholeKept DEF Fields
<1>8. u \in Uris \cup {"none"}
  BY <1>6, LookupIs
<1> HIDE DEF u
<1>19. n \in DOMAIN declared.nodes /\ named = [declared EXCEPT !.nodes[n].ns = u]
  BY <1>5, <1>7
<1> HIDE DEF named
<1>9. Whole(named, op, pieces) /\ Differ(declared, named, {"nodes"}) /\ n \in DOMAIN named.nodes
  BY <1>7, <1>8, <1>19, NamedIs
<1>10. Whole(ent, op, pieces) /\ Differ(named, ent, {"nodes", "preserveDeep", "defaultDeep", "ignoreWhiteSpaces"})
  BY <1>9, EnterSpaceIs
<1> HIDE DEF ent
<1>11. Differ(c, ent, {"nodes", "activeNS", "preserveDeep", "defaultDeep", "ignoreWhiteSpaces"})
  BY <1>6, <1>9, <1>10 DEF Differ
<1>12. ent.depth = Len(open) /\ ent.baseURIstack = c.baseURIstack
  BY <1>5, <1>11 DEF Differ, Fields
<1>13. p \in Int /\ p = Len(op) /\ op # <<>>
  <2>1. open \in Seq(OpenSet)
    BY GoodParts
  <2> QED BY <1>3, <1>12, <2>1 DEF op
<1> HIDE DEF p
<1>14. done \in ReaderSet /\ done.depth = p /\ Differ(ent, done, {"depth"})
  BY <1>10, <1>13, WithDepth DEF Whole
<1> HIDE DEF done
<1>15. Whole(done, op, pieces)
  BY <1>10, <1>14, WholeKept DEF Fields
<1>16. done.baseURIstack = c.baseURIstack
  BY <1>12, <1>14 DEF Differ, Fields
<1>17. BaseHeld(done)
  BY <1>4, <1>16 DEF BaseHeld
<1>18. parsers \in Seq([base : Nat, openAt : Nat]) /\ Len(parsers) > 0
  BY DEF Good, TypeOK
<1> QED BY <1>1, <1>13, <1>14, <1>15, <1>17, <1>18, GoodNext

LEMMA EndKeeps ==
  ASSUME Good, run = "parsing", run' = "parsing", EndElement
  PROVE  Good'
<1> DEFINE c == DispatchPCDATA(b)
           d == CloseElement(c)
<1>1. /\ open # <<>> /\ open' = Front(open) /\ b' = d /\ opt' = opt /\ parsers' = parsers
      /\ pieces' = pieces /\ ~b.cdataSection
  BY DEF EndElement
<1>2. Whole(c, open, pieces) /\ c.cdata = <<>> /\ BaseHeld(c) /\ c.depth = b.depth
      /\ c.cdataSection = b.cdataSection
  BY DispatchedKeeps
<1> HIDE DEF c
<1>3. /\ Whole(d, Front(open), pieces) /\ BaseHeld(d)
      /\ d.depth = c.depth - 1 /\ d.cdataSection = c.cdataSection
  BY <1>1, <1>2, CloseElementIs
<1> HIDE DEF d
<1>4. Len(Front(open)) = Len(open) - 1 /\ Len(open) \in Nat
  <2>1. open \in Seq(OpenSet)
    BY GoodParts
  <2> QED BY <1>1, <2>1, FrontIs
<1>5. d.depth = Len(Front(open))
  BY <1>2, <1>3, <1>4, GoodParts
<1>6. parsers \in Seq([base : Nat, openAt : Nat]) /\ Len(parsers) > 0
  BY DEF Good, TypeOK
<1> QED BY <1>1, <1>2, <1>3, <1>5, <1>6, GoodNext

LEMMA TextKeeps ==
  ASSUME Good, run = "parsing", run' = "parsing", ~opt.forest,
         NEW white \in BOOLEAN, CharacterData(white)
  PROVE  Good'
<1> DEFINE p == [no |-> Len(pieces) + 1, white |-> white]
           s == [of |-> b.current, white |-> white]
           cd == Append(b.cdata, p)
           d == [b EXCEPT !.cdata = cd]
<1>1. /\ open # <<>> /\ b' = d /\ opt' = opt /\ parsers' = parsers /\ open' = open
      /\ pieces' = Append(pieces, [of |-> Top(open).node, white |-> white])
  BY DEF CharacterData, Content
<1>2. b.current = Top(open).node
  BY <1>1 DEF Good, Tree
<1>3. pieces' = Append(pieces, s)
  BY <1>1, <1>2
<1>4. Tree(b.nodes, b.current, cd, open, Append(pieces, s)) /\ cd \in Seq(Piece)
  <2>1. Tree(b.nodes, b.current, b.cdata, open, pieces)
    BY DEF Good
  <2> HIDE DEF s
  <2>2. s = [of |-> b.current, white |-> white]
    BY DEF s
  <2> QED BY <1>1, <2>1, <2>2, Reported
<1> HIDE DEF cd, s
<1>5. d \in ReaderSet /\ d.cdata = cd /\ Differ(b, d, {"cdata"})
  BY <1>4, GoodParts, WithCdata
<1> HIDE DEF d
<1>6. d.nodes = b.nodes /\ d.current = b.current /\ d.depth = b.depth /\ d.cdataSection = b.cdataSection
      /\ d.baseURIstack = b.baseURIstack
  BY <1>5 DEF Differ, Fields
<1>7. Whole(d, open, pieces') /\ BaseHeld(d)
  BY <1>3, <1>4, <1>5, <1>6, GoodParts DEF Whole, BaseHeld
<1>8. parsers \in Seq([base : Nat, openAt : Nat]) /\ Len(parsers) > 0 /\ d.depth = Len(open)
  BY <1>6 DEF Good, TypeOK
<1> QED BY <1>1, <1>7, <1>8, GoodNext

LEMMA SectionKeeps ==
  ASSUME Good, run = "parsing", run' = "parsing", ~opt.forest,
         NEW starts \in BOOLEAN, CDATASection(starts)
  PROVE  Good'
<1> DEFINE c == DispatchPCDATA(b)
           d == [c EXCEPT !.cdataSection = starts]
<1>1. /\ open # <<>> /\ b' = d /\ opt' = opt /\ parsers' = parsers /\ open' = open /\ pieces' = pieces
  BY DEF CDATASection, Content
<1>2. Whole(c, open, pieces) /\ BaseHeld(c) /\ c.depth = b.depth
  BY DispatchedKeeps
<1> HIDE DEF c
<1>3. d \in ReaderSet /\ d.cdataSection = starts /\ Differ(c, d, {"cdataSection"})
  BY <1>2, WithCdataSection DEF Whole
<1> HIDE DEF d
<1>4. Whole(d, open, pieces)
  BY <1>2, <1>3, WholeKept DEF Fields
<1>5. BaseHeld(d) /\ d.depth = b.depth
  <2>1. d.baseURIstack = c.baseURIstack /\ d.depth = c.depth
    BY <1>3 DEF Differ, Fields
  <2> QED BY <1>2, <2>1 DEF BaseHeld
<1>6. parsers \in Seq([base : Nat, openAt : Nat]) /\ Len(parsers) > 0 /\ b.depth = Len(open)
  BY DEF Good, TypeOK
<1> QED BY <1>1, <1>4, <1>5, <1>6, GoodNext

LEMMA CommentKeeps ==
  ASSUME Good, run = "parsing", run' = "parsing",
         NEW kind \in {"comment", "pi"}, CommentOrPI(kind)
  PROVE  Good'
<1> DEFINE c == DispatchPCDATA(b)
           d == AppendNode(c, IF c.current = NIL THEN Root ELSE c.current, Node(kind, c.current, <<>>))
<1>1. /\ b' = b \/ b' = d
      /\ opt' = opt /\ parsers' = parsers /\ open' = open /\ pieces' = pieces
  BY DEF CommentOrPI
<1>2. Whole(c, open, pieces) /\ BaseHeld(c) /\ c.depth = b.depth /\ c.cdataSection = b.cdataSection
      /\ c.cdata = <<>>
  BY DispatchedKeeps
<1>3. TypeOK
  BY GoodParts
<1> HIDE DEF c
<1>4. Whole(d, open, pieces) /\ Differ(c, d, {"nodes"})
  BY <1>2, <1>3, PutOther
<1> HIDE DEF d
<1>5. d.baseURIstack = c.baseURIstack /\ d.depth = c.depth /\ d.cdataSection = c.cdataSection
  BY <1>4 DEF Differ, Fields
<1>6. Whole(b', open', pieces') /\ BaseHeld(b') /\ b'.depth = b.depth /\ b'.cdataSection = b.cdataSection
  <2>1. CASE b' = b
    BY <1>1, <2>1, GoodParts
  <2>2. CASE b' = d
    BY <1>1, <1>2, <1>4, <1>5, <2>2 DEF BaseHeld
  <2> QED BY <1>1, <2>1, <2>2
<1>7. parsers \in Seq([base : Nat, openAt : Nat]) /\ Len(parsers) > 0 /\ b.depth = Len(open)
      /\ (open = <<>> => ~b.cdataSection)
  BY DEF Good, TypeOK
<1> QED BY <1>1, <1>6, <1>7, GoodNext

LEMMA DoctypeKeeps ==
  ASSUME Good, run = "parsing", NEW starts \in BOOLEAN, Doctype(starts)
  PROVE  Good'
<1> DEFINE d == [b EXCEPT !.insideDTD = starts]
<1>1. /\ b' = d /\ opt' = opt /\ parsers' = parsers /\ open' = open /\ pieces' = pieces
  BY DEF Doctype
<1>2. d \in ReaderSet /\ Differ(b, d, {"insideDTD"})
  BY GoodParts, WithInsideDTD
<1> HIDE DEF d
<1>3. d.baseURIstack = b.baseURIstack /\ d.depth = b.depth /\ d.cdataSection = b.cdataSection
  BY <1>2 DEF Differ, Fields
<1>4. Whole(d, open, pieces) /\ BaseHeld(d)
  <2>1. Whole(b, open, pieces) /\ BaseHeld(b)
    BY GoodParts
  <2>2. Whole(d, open, pieces)
    BY <1>2, <2>1, WholeKept DEF Fields
  <2> QED BY <1>3, <2>1, <2>2 DEF BaseHeld
<1>5. parsers \in Seq([base : Nat, openAt : Nat]) /\ Len(parsers) > 0 /\ b.depth = Len(open)
      /\ (open = <<>> => ~b.cdataSection)
  BY DEF Good, TypeOK
<1> QED BY <1>1, <1>3, <1>4, <1>5, GoodNext

LEMMA EntityKeeps ==
  ASSUME Good, run = "parsing", ExternalEntity \/ EntityEnd
  PROVE  Good'
<1> DEFINE c == DispatchPCDATA(b)
           P == [base : Nat, openAt : Nat]
<1>1. /\ b' = c /\ opt' = opt /\ open' = open /\ pieces' = pieces
      /\ \/ parsers' = Append(parsers, [base |-> Base + 1, openAt |-> Len(open)])
         \/ parsers' = Front(parsers) /\ Len(parsers) > 1
  BY DEF ExternalEntity, EntityEnd
<1>2. Whole(c, open, pieces) /\ BaseHeld(c) /\ c.depth = b.depth /\ c.cdataSection = b.cdataSection
  BY DispatchedKeeps
<1> HIDE DEF c
<1>3. parsers \in Seq(P) /\ Len(parsers) > 0 /\ b.depth = Len(open)
      /\ (open = <<>> => ~b.cdataSection) /\ open \in Seq(OpenSet)
  BY DEF Good, TypeOK
<1>4. Base \in Nat
  BY GoodParts, BaseIs
<1>5. parsers' \in Seq(P) /\ Len(parsers') > 0
  <2>1. CASE parsers' = Append(parsers, [base |-> Base + 1, openAt |-> Len(open)])
    <3> DEFINE x == [base |-> Base + 1, openAt |-> Len(open)]
    <3>1. x \in P
      BY <1>3, <1>4
    <3> HIDE DEF x
    <3> QED BY <2>1, <3>1, <1>3 DEF x
  <2>2. CASE parsers' = Front(parsers) /\ Len(parsers) > 1
    <3>1. parsers # <<>>
      BY <2>2, <1>3
    <3> HIDE DEF P
    <3>2. parsers' \in Seq(P) /\ Len(parsers') = Len(parsers) - 1 /\ Len(parsers) \in Nat
      BY <2>2, <3>1, <1>3, FrontIs
    <3> QED BY <2>2, <3>2
  <2> QED BY <1>1, <2>1, <2>2
<1> QED BY <1>1, <1>2, <1>3, <1>5, GoodNext

(* ------------------------------- the invariant ------------------------------ *)
LEMMA GoodInPlace ==
  ASSUME Good
  PROVE  TextInPlace
<1>1. b.nodes \in Seq(NodeSet) /\ b.cdata \in Seq(Piece)
  BY GoodParts DEF ReaderSet
<1>2. KidsKnown(b.nodes) /\ Placed(b.nodes, pieces) /\ Kept(b.nodes, b.cdata, pieces)
      /\ InOrder(b.nodes, b.cdata) /\ Apart(b.nodes)
  BY DEF Good, Tree
<1>3. ASSUME NEW h \in DOMAIN b.nodes, NEW n \in TextNodes, n \in SeqElems(b.nodes[h].kids),
             NEW no \in Numbers(b.nodes[n].text)
      PROVE  pieces[no].of = h
  <2>1. n \in DOMAIN b.nodes /\ IsText(b.nodes, n)
    BY DEF TextNodes, IsText
  <2>2. PICK i \in DOMAIN b.nodes[h].kids : n = b.nodes[h].kids[i]
    BY <1>3 DEF SeqElems
  <2>3. b.nodes[n].parent = h
    BY <2>1, <2>2, <1>2 DEF KidsKnown
  <2>4. PICK j \in DOMAIN b.nodes[n].text : no = b.nodes[n].text[j].no
    BY DEF Numbers
  <2>5. pieces[no].of = b.nodes[n].parent
    BY <2>1, <2>4, <1>2 DEF Placed
  <2> QED BY <2>3, <2>5
<1>4. ASSUME NEW no \in DOMAIN pieces, ~pieces[no].white
      PROVE  no \in Numbers(b.cdata) \/ \E n \in TextNodes : no \in Numbers(b.nodes[n].text)
  <2>1. \/ \E i \in DOMAIN b.cdata : b.cdata[i].no = no
        \/ \E n \in DOMAIN b.nodes : IsText(b.nodes, n) /\ \E i \in DOMAIN b.nodes[n].text : b.nodes[n].text[i].no = no
    BY <1>2, <1>4 DEF Kept
  <2> QED BY <2>1, Zenon DEF Numbers, TextNodes, IsText
<1>5. ASSUME NEW m \in TextNodes, NEW n \in TextNodes, m < n,
             NEW x \in Numbers(b.nodes[m].text), NEW y \in Numbers(b.nodes[n].text)
      PROVE  x < y
  <2>1. m \in DOMAIN b.nodes /\ IsText(b.nodes, m) /\ n \in DOMAIN b.nodes /\ IsText(b.nodes, n)
    BY DEF TextNodes, IsText
  <2>2. PICK i \in DOMAIN b.nodes[m].text : x = b.nodes[m].text[i].no
    BY DEF Numbers
  <2>3. PICK j \in DOMAIN b.nodes[n].text : y = b.nodes[n].text[j].no
    BY DEF Numbers
  <2> QED BY <1>5, <2>1, <2>2, <2>3, <1>2 DEF InOrder
<1>6. \A h \in DOMAIN b.nodes : \A i \in 2 .. Len(b.nodes[h].kids) :
        ~ (b.nodes[b.nodes[h].kids[i - 1]].kind = "text" /\ b.nodes[b.nodes[h].kids[i]].kind = "text")
  BY <1>2 DEF Apart
<1> QED BY <1>3, <1>4, <1>5, <1>6, Zenon DEF TextInPlace

LEMMA InitGood ==
  ASSUME Init, ~opt.forest, opt.keepEmpties \in BOOLEAN
  PROVE  Good
<1> DEFINE el == "root"
           none == <<>>
           node == Node(el, NIL, none)
           ns == <<node>>
           e == <<>>
<1>1. /\ b.nodes = ns /\ b.current = NIL /\ b.cdata = e /\ open = e /\ pieces = e /\ b.depth = 0
      /\ ~b.cdataSection /\ BaseHeld(b) /\ opt \in Options
      /\ parsers = <<[base |-> 1, openAt |-> 0]>>
  BY DEF Init, BaseHeld
<1>2. node \in NodeSet /\ node.kind = "root" /\ node.kids = <<>>
  <2>1. el \in NodeKinds /\ none \in Seq(Piece) /\ NIL \in Nat
    BY DEF NodeKinds, NIL
  <2> HIDE DEF el, none
  <2>2. node \in NodeSet /\ node.kind = el /\ node.kids = <<>>
    BY <2>1, NodeIs
  <2> QED BY <2>2 DEF el
<1> HIDE DEF node
<1>3. /\ ns \in Seq(NodeSet) /\ Len(ns) = 1 /\ DOMAIN ns = {1} /\ ns[1] = node
  BY <1>2
<1>4. b \in ReaderSet
  <2> DEFINE A == [depth : Int, prefix : Prefixes, uri : Uris]
             B == [base : Nat, depth : Int]
             st == <<[base |-> 1, depth |-> 0]>>
             iw == ~opt.keepEmpties
             cur == IF opt.forest THEN Root ELSE NIL
             fl == FALSE
  <2>1. st \in Seq(B) /\ <<>> \in Seq(A) /\ <<>> \in Seq(Piece) /\ iw \in BOOLEAN /\ cur \in Nat
        /\ fl \in BOOLEAN
    BY DEF Root, NIL
  <2>2. b = [nodes |-> ns, current |-> cur, depth |-> 0,
             ignoreWhiteSpaces |-> iw, preserveDeep |-> 0, defaultDeep |-> 0,
             cdata |-> <<>>, cdataSection |-> fl, activeNS |-> <<>>, baseURIstack |-> st,
             insideDTD |-> fl, status |-> "ok"]
    BY DEF Init, node
  <2> HIDE DEF st, iw, cur, fl, ns
  <2> QED BY <2>1, <2>2, <1>3 DEF ReaderSet
<1> HIDE DEF ns
<1>5. TypeOK
  <2>1. parsers \in Seq([base : Nat, openAt : Nat]) /\ Len(parsers) > 0
    BY <1>1
  <2> QED BY <1>1, <1>4, <2>1 DEF TypeOK
<1>6. e \in Seq(OpenSet) /\ e \in Seq(Source) /\ e \in Seq(Piece) /\ DOMAIN e = {} /\ Len(e) = 0 /\ e = <<>>
  OBVIOUS
<1> HIDE DEF e
<1>7. KidsKnown(ns) /\ Apart(ns)
  <2>1. \A h \in DOMAIN ns : DOMAIN ns[h].kids = {} /\ Len(ns[h].kids) = 0
    BY <1>2, <1>3
  <2> QED BY <2>1 DEF KidsKnown, Apart
<1>8. \A n \in DOMAIN ns : ~IsText(ns, n)
  BY <1>2, <1>3 DEF IsText
<1>9. Placed(ns, e) /\ Kept(ns, e, e) /\ InOrder(ns, e)
  BY <1>6, <1>8 DEF Placed, Kept, InOrder
<1>10. Nested(ns, e) /\ Mergeable(ns, NIL) /\ Collected(e, NIL, e)
  BY <1>6 DEF Nested, Mergeable, Collected
<1>11. Tree(ns, NIL, e, e, e)
  <2>1. Len(ns) > 0 /\ ns[1].kind = "root"
    BY <1>2, <1>3
  <2>2. NIL = IF e = <<>> THEN NIL ELSE Top(e).node
    BY <1>6
  <2> QED BY <2>1, <2>2, <1>3, <1>6, <1>7, <1>9, <1>10, Zenon DEF Tree
<1>12. b.depth = Len(open)
  BY <1>1, <1>6
<1> QED BY <1>1, <1>5, <1>11, <1>12 DEF Good

LEMMA StepKeeps ==
  ASSUME Good, run = "parsing", run' = "parsing", ~opt.forest, Next
  PROVE  Good'
<1>1. ASSUME NEW prefix \in Prefixes, NEW attr \in Attrs, NEW constrained \in BOOLEAN, NEW empty \in BOOLEAN,
             StartElement(prefix, attr, constrained, empty)
      PROVE  Good'
  BY <1>1, StartKeeps
<1>2. ASSUME NEW prefix, NEW attr, NEW empty, NEW code, FeedbackStops(prefix, attr, empty, code)
      PROVE  FALSE
  BY <1>2 DEF FeedbackStops
<1>3. ASSUME EndElement PROVE Good'
  BY <1>3, EndKeeps
<1>4. ASSUME NEW white \in BOOLEAN, CharacterData(white) PROVE Good'
  BY <1>4, TextKeeps
<1>5. ASSUME NEW starts \in BOOLEAN, CDATASection(starts) \/ Doctype(starts) PROVE Good'
  BY <1>5, SectionKeeps, DoctypeKeeps
<1>6. ASSUME NEW kind \in {"comment", "pi"}, CommentOrPI(kind) PROVE Good'
  BY <1>6, CommentKeeps
<1>7. ASSUME ExternalEntity \/ EntityEnd PROVE Good'
  BY <1>7, EntityKeeps
<1>8. ASSUME NEW code, EntityRefused(code) PROVE FALSE
  BY <1>8 DEF EntityRefused
<1>9. ASSUME Malformed \/ Finish \/ GiveUp PROVE FALSE
  BY <1>9 DEF Malformed, Finish, GiveUp
<1> QED BY <1>1, <1>2, <1>3, <1>4, <1>5, <1>6, <1>7, <1>8, <1>9 DEF Next

\* A call that has stopped does not go on, one that has a document is over.
LEMMA StopsFor ==
  ASSUME Next
  PROVE  /\ opt' = opt
         /\ run' = "parsing" => run = "parsing"
         /\ run' = "document" => run = "parsing" /\ Finish
<1>1. ASSUME NEW prefix \in Prefixes, NEW attr \in Attrs, NEW constrained \in BOOLEAN, NEW empty \in BOOLEAN,
             StartElement(prefix, attr, constrained, empty)
      PROVE  opt' = opt /\ run = "parsing" /\ run' # "document"
  BY <1>1 DEF StartElement, StartTag, CanStart, Parsing, Verdicts, TextVerdicts
<1>2. ASSUME NEW prefix, NEW attr, NEW empty, NEW code, FeedbackStops(prefix, attr, empty, code)
      PROVE  opt' = opt /\ run' = "suspended"
  BY <1>2 DEF FeedbackStops
<1>3. ASSUME EndElement
      PROVE  opt' = opt /\ (run = "parsing" \/ (run \in {"suspended", "error"} /\ run' = run)) /\ run' # "document"
  BY <1>3 DEF EndElement, Verdicts, TextVerdicts
<1>4. ASSUME NEW white, CharacterData(white) PROVE opt' = opt /\ run = "parsing" /\ run' = run
  BY <1>4 DEF CharacterData, Content, Parsing
<1>5. ASSUME NEW starts, CDATASection(starts) PROVE opt' = opt /\ run = "parsing" /\ run' # "document"
  BY <1>5 DEF CDATASection, Content, Parsing, Verdicts, TextVerdicts
<1>6. ASSUME NEW starts, Doctype(starts) PROVE opt' = opt /\ run = "parsing" /\ run' = run
  BY <1>6 DEF Doctype, Parsing
<1>7. ASSUME NEW kind, CommentOrPI(kind) PROVE opt' = opt /\ run = "parsing" /\ run' # "document"
  BY <1>7 DEF CommentOrPI, Parsing, Verdicts, TextVerdicts
<1>8. ASSUME ExternalEntity \/ EntityEnd PROVE opt' = opt /\ run = "parsing" /\ run' # "document"
  BY <1>8 DEF ExternalEntity, EntityEnd, Content, Parsing, Verdicts, TextVerdicts
<1>9. ASSUME NEW code, EntityRefused(code) PROVE opt' = opt /\ run' = "error"
  BY <1>9 DEF EntityRefused
<1>10. ASSUME Malformed PROVE opt' = opt /\ run' = "error"
  BY <1>10 DEF Malformed
<1>11. ASSUME Finish PROVE opt' = opt /\ run = "parsing" /\ run' = "document"
  BY <1>11 DEF Finish, Parsing
<1>12. ASSUME GiveUp PROVE opt' = opt /\ run' \in {"nothing", "failed"}
  BY <1>12 DEF GiveUp
<1> QED BY <1>1, <1>2, <1>3, <1>4, <1>5, <1>6, <1>7, <1>8, <1>9, <1>10, <1>11, <1>12, Zenon DEF Next

LEMMA FinishKeeps ==
  ASSUME Good, run = "parsing", ~opt.forest, Finish
  PROVE  TextInPlace'
<1>1. b' = b /\ pieces' = pieces
  BY DEF Finish, Finished
<1>2. TextInPlace
  BY GoodInPlace
<1>3. Live
  BY DEF Live
<1>4. TextNodes' = TextNodes
  BY <1>1 DEF TextNodes
<1> QED BY <1>1, <1>2, <1>3, <1>4, ZenonT(60) DEF TextInPlace

\* TextInv holds in every state: while the parser of a call without -forest
\* runs, the open elements are the last branch of the tree, text that can be
\* merged into is the last node, and every piece of text is where it was reported.
THEOREM Invariance == Spec => []TextInv
<1>1. Init => TextInv
  <2> SUFFICES ASSUME Init PROVE TextInv
    OBVIOUS
  <2>1. opt \in Options /\ run = "parsing"
    BY DEF Init
  <2>2. opt.keepEmpties \in BOOLEAN
    BY <2>1, OptionsAssumption
  <2>3. ~opt.forest => Good
    BY <2>2, InitGood
  <2> QED BY <2>1, <2>3 DEF TextInv
<1>2. TextInv /\ [Next]_vars => TextInv'
  <2> SUFFICES ASSUME TextInv, [Next]_vars PROVE TextInv'
    OBVIOUS
  <2>1. CASE UNCHANGED vars
    <3>1. opt' = opt /\ run' = run /\ (Good' <=> Good) /\ (TextInPlace' <=> TextInPlace)
      BY <2>1 DEF vars, Good, TypeOK, TextInPlace, Live, TextNodes
    <3> QED BY <3>1 DEF TextInv
  <2>2. CASE Next
    <3>1. /\ opt' = opt
          /\ run' = "parsing" => run = "parsing"
          /\ run' = "document" => run = "parsing" /\ Finish
      BY <2>2, StopsFor
    <3>2. ASSUME ~opt.forest, run' = "parsing" PROVE Good'
      BY <2>2, <3>1, <3>2, StepKeeps DEF TextInv
    <3>3. ASSUME ~opt.forest, run' = "document" PROVE TextInPlace'
      BY <3>1, <3>3, FinishKeeps DEF TextInv
    <3> QED BY <3>1, <3>2, <3>3 DEF TextInv
  <2> QED BY <2>1, <2>2
<1> QED BY <1>1, <1>2, PTL DEF Spec

\* `dom parse' without -forest keeps the text in place: each piece is in the
\* element it was reported in, none that is not white space gets lost or is out
\* of order, and no two text nodes are neighbours, across comments, CDATA
\* sections, entities and white space that is dropped.
THEOREM TextStaysInPlace == Spec => []TextIsWhole
<1>1. TextInv => TextIsWhole
  <2> SUFFICES ASSUME TextInv, ~opt.forest, Live PROVE TextInPlace
    BY DEF TextIsWhole, TextInPlace
  <2> QED BY GoodInPlace DEF TextInv, Live
<1> QED BY <1>1, Invariance, PTL

(* ------------------------------- the stacks -------------------------------- *)
\* What the open elements op, of nodes ns, leave on the stacks of the builder.

KidsIn(ns) == \A h \in DOMAIN ns : \A i \in DOMAIN ns[h].kids : ns[h].kids[i] \in DOMAIN ns

\* The parent of an element is an element made before it.
Upward(ns) ==
  \A n \in DOMAIN ns : ns[n].kind = "element" /\ ns[n].parent # NIL =>
    ns[n].parent \in 1 .. n - 1 /\ ns[ns[n].parent].kind = "element"

ParentIn(op, i) == IF i = 1 THEN NIL ELSE op[i - 1].node
OnBranch(ns, op) ==
  \A i \in DOMAIN op : /\ op[i].node \in DOMAIN ns /\ ns[op[i].node].kind = "element"
                       /\ ns[op[i].node].parent = ParentIn(op, i)

\* A node has the base URI of its entity, or else its parent has.
BasesKnown(ns, bs) ==
  /\ DOMAIN ns \subseteq DOMAIN bs
  /\ \A n \in DOMAIN ns : ns[n].kind = "element" =>
       bs[n] = IF ns[n].base # NIL THEN ns[n].base
               ELSE IF ns[n].parent = NIL THEN 1 ELSE bs[ns[n].parent]

\* Entry k of the stack of base URIs is the innermost of the i-th open element.
BaseAt(st, k, i) == st[k].depth < i /\ \A j \in DOMAIN st : j > k => st[j].depth >= i
BaseLevels(st, op, bs) ==
  /\ Len(st) > 0 /\ st[1].depth = 0 /\ st[1].base = 1
  /\ \A k \in DOMAIN st : k > 1 => st[k].depth \in 1 .. Len(op) - 1
  /\ \A j, k \in DOMAIN st : j < k => st[j].depth < st[k].depth
  /\ \A i \in DOMAIN op, k \in DOMAIN st : BaseAt(st, k, i) => bs[op[i].node] = st[k].base

\* Entities end before the element they began in.
Entities(ps, op) ==
  /\ Len(ps) > 0 /\ ps[1].base = 1
  /\ \A i \in DOMAIN ps : /\ ps[i].base # NIL /\ ps[i].openAt <= Len(op)
                          /\ i > 1 => ps[i].openAt >= 1
  /\ \A i, j \in DOMAIN ps : i <= j => ps[i].openAt <= ps[j].openAt

\* The open elements that say "preserve", "default", or one below a "preserve".
Says(op, v) == {i \in DOMAIN op : op[i].attr.is = "space" /\ op[i].attr.value = v}
Again(op) == {i \in Says(op, "default") : \E j \in Says(op, "preserve") : j < i}
LastSays(op, v) ==
  \E i \in Says(op, v) : \A j \in Says(op, "preserve") \cup Says(op, "default") : j <= i
SpaceOf(op, i) ==
  IF i \in Says(op, "preserve") THEN "preserve" ELSE IF i \in Again(op) THEN "default" ELSE "none"
Spaced(p, d, w, op) ==
  /\ p = Cardinality(Says(op, "preserve")) /\ d = Cardinality(Again(op))
  /\ w \in BOOLEAN /\ (w <=> ~LastSays(op, "preserve"))
Spaces(c, op) ==
  ~opt.keepEmpties =>
    /\ Spaced(c.preserveDeep, c.defaultDeep, c.ignoreWhiteSpaces, op)
    /\ \A i \in DOMAIN op : c.nodes[op[i].node].space = SpaceOf(op, i)

\* What a prefix means inside the first i open elements: by the stack and by them.
Found(st, i, prefix) == {k \in DOMAIN st : st[k].prefix = prefix /\ st[k].depth < i}
Meaning(st, i, prefix) ==
  LET found == Found(st, i, prefix)
  IN  IF found = {} THEN "none" ELSE st[CHOOSE k \in found : \A j \in found : j <= k].uri
Declaring(op, n, prefix) ==
  {i \in 1 .. n : op[i].attr.is = "declares" /\ op[i].attr.prefix = prefix}
ScopeIn(op, n, prefix) ==
  LET found == Declaring(op, n, prefix)
  IN  IF found = {} THEN "none" ELSE op[CHOOSE i \in found : \A j \in found : j <= i].attr.uri
Namespaces(st, op) ==
  /\ \A k \in DOMAIN st : st[k].depth \in 0 .. Len(op) - 1
  /\ \A j, k \in DOMAIN st : j <= k => st[j].depth <= st[k].depth
  /\ \A i \in 0 .. Len(op), prefix \in Prefixes : Meaning(st, i, prefix) = ScopeIn(op, i, prefix)

Named(ns, op) ==
  \A i \in DOMAIN op :
    ns[op[i].node].ns = LET uri == ScopeIn(op, i, op[i].prefix) IN IF uri = "" THEN "none" ELSE uri

Stacks(c, op, bs) ==
  /\ c \in ReaderSet /\ op \in Seq(OpenSet) /\ bs \in Seq(Nat) /\ Len(c.nodes) > 0
  /\ c.depth = Len(op)
  /\ IF op = <<>> THEN c.current \in {NIL, Root} ELSE c.current = Top(op).node
  /\ KidsIn(c.nodes) /\ Upward(c.nodes) /\ OnBranch(c.nodes, op) /\ BasesKnown(c.nodes, bs)
  /\ BaseLevels(c.baseURIstack, op, bs) /\ Spaces(c, op) /\ Namespaces(c.activeNS, op)
  /\ Named(c.nodes, op)

Following ==
  TypeOK /\ Stacks(b, open, bases) /\ Len(bases) = Len(b.nodes) /\ Entities(parsers, open)

StackInv ==
  /\ opt \in Options
  /\ run = "parsing" => Following

(* ------------------------------- the branch -------------------------------- *)
\* Nodes were added that are no elements; of the others only kids and text changed.
Extended(ns, ms) ==
  /\ Len(ms) \in Nat /\ Len(ns) \in Nat /\ DOMAIN ns = 1 .. Len(ns) /\ DOMAIN ms = 1 .. Len(ms)
  /\ Len(ms) >= Len(ns) /\ DOMAIN ns \subseteq DOMAIN ms
  /\ \A i \in DOMAIN ns : \A g \in {"kind", "parent", "space", "ns", "base"} : ms[i][g] = ns[i][g]
  /\ \A i \in DOMAIN ms \ DOMAIN ns : ms[i].kind # "element"

LEMMA ExtendedSelf ==
  ASSUME NEW ns \in Seq(NodeSet)
  PROVE  Extended(ns, ns)
BY DEF Extended

LEMMA ExtendedTwice ==
  ASSUME NEW ns, NEW ms, NEW os, Extended(ns, ms), Extended(ms, os)
  PROVE  Extended(ns, os)
<1>1. /\ Len(os) \in Nat /\ Len(ns) \in Nat /\ DOMAIN ns = 1 .. Len(ns) /\ DOMAIN os = 1 .. Len(os)
      /\ Len(os) >= Len(ns) /\ DOMAIN ns \subseteq DOMAIN os
  BY DEF Extended
<1>2. \A i \in DOMAIN ns : \A g \in {"kind", "parent", "space", "ns", "base"} : os[i][g] = ns[i][g]
  BY DEF Extended
<1>3. \A i \in DOMAIN os \ DOMAIN ns : os[i].kind # "element"
  <2> SUFFICES ASSUME NEW i \in DOMAIN os \ DOMAIN ns PROVE os[i].kind # "element"
    OBVIOUS
  <2>1. CASE i \in DOMAIN ms
    BY <2>1 DEF Extended
  <2>2. CASE i \notin DOMAIN ms
    BY <2>2 DEF Extended
  <2> QED BY <2>1, <2>2
<1> QED BY <1>1, <1>2, <1>3 DEF Extended

\* A node more that is no element.
LEMMA GrownKids ==
  ASSUME NEW ns \in Seq(NodeSet), NEW ms \in Seq(NodeSet), NEW h \in DOMAIN ns, NEW new \in NodeSet,
         Grown(ns, ms, h, new), new.kids = <<>>, KidsIn(ns)
  PROVE  /\ KidsIn(ms) /\ Len(ms) = Len(ns) + 1 /\ Len(ns) \in Nat /\ DOMAIN ns = 1 .. Len(ns)
         /\ DOMAIN ms = 1 .. Len(ms) /\ DOMAIN ns \subseteq DOMAIN ms /\ ms[Len(ns) + 1] = new
         /\ \A i \in DOMAIN ms \ DOMAIN ns : i = Len(ns) + 1
         /\ \A i \in DOMAIN ns : \A g \in NodeFields \ {"kids"} : ms[i][g] = ns[i][g]
<1>1. Bigger(ns, ms, h, new)
  BY GrownView
<1>2. /\ Len(ms) = Len(ns) + 1 /\ Len(ns) \in Nat /\ DOMAIN ns = 1 .. Len(ns)
      /\ DOMAIN ms = 1 .. Len(ms) /\ DOMAIN ns \subseteq DOMAIN ms /\ ms[Len(ns) + 1] = new
      /\ DOMAIN ms = DOMAIN ns \cup {Len(ns) + 1}
  BY <1>1 DEF Bigger
<1>3. \A i \in DOMAIN ns : \A g \in NodeFields \ {"kids"} : ms[i][g] = ns[i][g]
  BY DEF Grown
<1>4. KidsIn(ms)
  <2> SUFFICES ASSUME NEW g \in DOMAIN ms, NEW i \in DOMAIN ms[g].kids PROVE ms[g].kids[i] \in DOMAIN ms
    BY DEF KidsIn
  <2>1. CASE g = Len(ns) + 1
    <3>1. DOMAIN ms[g].kids = {}
      BY <2>1, <1>2
    <3> QED BY <3>1
  <2>2. CASE g \in DOMAIN ns /\ g # h
    BY <2>2, <1>1, <1>2 DEF KidsIn, Bigger
  <2>3. CASE g = h /\ i \in DOMAIN ns[h].kids
    BY <2>3, <1>1, <1>2 DEF KidsIn, Bigger
  <2>4. CASE g = h /\ i \notin DOMAIN ns[h].kids
    <3>1. ms[g].kids[i] = Len(ns) + 1
      BY <2>4, <1>1 DEF Bigger
    <3> QED BY <3>1, <1>2
  <2> QED BY <2>1, <2>2, <2>3, <2>4, <1>2
<1> QED BY <1>2, <1>3, <1>4

LEMMA GrownExtends ==
  ASSUME NEW ns \in Seq(NodeSet), NEW ms \in Seq(NodeSet), NEW h \in DOMAIN ns, NEW new \in NodeSet,
         Grown(ns, ms, h, new), new.kids = <<>>, KidsIn(ns), new.kind # "element"
  PROVE  KidsIn(ms) /\ Extended(ns, ms)
<1>1. /\ KidsIn(ms) /\ Len(ms) = Len(ns) + 1 /\ Len(ns) \in Nat /\ DOMAIN ns = 1 .. Len(ns)
      /\ DOMAIN ms = 1 .. Len(ms) /\ DOMAIN ns \subseteq DOMAIN ms /\ ms[Len(ns) + 1] = new
      /\ \A i \in DOMAIN ms \ DOMAIN ns : i = Len(ns) + 1
      /\ \A i \in DOMAIN ns : \A g \in NodeFields \ {"kids"} : ms[i][g] = ns[i][g]
  BY GrownKids
<1>2. \A i \in DOMAIN ns : \A g \in {"kind", "parent", "space", "ns", "base"} : ms[i][g] = ns[i][g]
  BY <1>1 DEF NodeFields
<1> QED BY <1>1, <1>2 DEF Extended

LEMMA AddTextExtends ==
  ASSUME TypeOK, run = "parsing", NEW c \in ReaderSet, KidsIn(c.nodes), c.current \in DOMAIN c.nodes
  PROVE  /\ AddText(c) \in ReaderSet /\ Differ(c, AddText(c), {"nodes"})
         /\ KidsIn(AddText(c).nodes) /\ Extended(c.nodes, AddText(c).nodes)
<1> DEFINE ns == c.nodes
           cur == c.current
           cd == c.cdata
           kids == ns[cur].kids
           merges == kids # <<>> /\ ns[Top(kids)].kind = "text" /\ ~c.cdataSection
           dropped == c.ignoreWhiteSpaces /\ \A i \in DOMAIN cd : cd[i].white
           kind == IF c.cdataSection THEN "cdata" ELSE "text"
<1>1. ns \in Seq(NodeSet) /\ cur \in Nat /\ cd \in Seq(Piece)
  BY DEF ReaderSet
<1>2. cur \in DOMAIN ns
  OBVIOUS
<1>3. /\ merges => AddText(c) = [c EXCEPT !.nodes[Top(kids)].text = @ \o cd]
      /\ ~merges /\ dropped => AddText(c) = c
      /\ ~merges /\ ~dropped => AddText(c) = AppendNode(c, cur, Node(kind, cur, cd))
  BY Zenon DEF AddText
<1>4. CASE merges
  <2> DEFINE k == Top(kids)
             t == ns[k].text \o cd
             x == [ns[k] EXCEPT !.text = t]
             ms == [ns EXCEPT ![k] = x]
  <2>1. k \in DOMAIN ns
    <3>1. Len(kids) \in DOMAIN kids
      <4> HIDE DEF ns, cur
      <4> QED BY <1>1, <1>2, <1>4, KidsAre
    <3> QED BY <3>1 DEF KidsIn, Top
  <2>2. AddText(c) = [c EXCEPT !.nodes = ms]
    <3>1. AddText(c) = [c EXCEPT !.nodes[k].text = @ \o cd]
      BY <1>3, <1>4
    <3>2. [c EXCEPT !.nodes[k].text = @ \o cd] = [c EXCEPT !.nodes = ms]
      OBVIOUS
    <3> QED BY <3>1, <3>2
  <2> HIDE DEF k
  <2>3. ns[k] \in NodeSet /\ t \in Seq(Piece)
    <3>1. ns[k] \in NodeSet
      <4> HIDE DEF ns
      <4> QED BY <1>1, <2>1, ElementOf
    <3> QED BY <1>1, <3>1, SMTT(30) DEF NodeSet
  <2> HIDE DEF t
  <2>4. x \in NodeSet /\ \A g \in NodeFields \ {"text"} : x[g] = ns[k][g]
    <3> HIDE DEF ns
    <3> QED BY <2>3, NodeText
  <2> HIDE DEF x
  <2>5. ms \in Seq(NodeSet) /\ Len(ms) = Len(ns) /\ ms[k] = x /\ \A i \in DOMAIN ns \ {k} : ms[i] = ns[i]
    <3> HIDE DEF ns
    <3> QED BY <1>1, <2>1, <2>4, Changed DEF ns
  <2> HIDE DEF ms
  <2>6. AddText(c) \in ReaderSet /\ AddText(c).nodes = ms /\ Differ(c, AddText(c), {"nodes"})
    BY <2>2, <2>5, WithNodes
  <2>7. DOMAIN ms = DOMAIN ns /\ \A i \in DOMAIN ns : \A g \in NodeFields \ {"text"} : ms[i][g] = ns[i][g]
    BY <2>4, <2>5, <1>1, SMTT(30)
  <2>8. \A i \in DOMAIN ns : ms[i].kids = ns[i].kids
    BY <2>7 DEF NodeFields
  <2>9. KidsIn(ms)
    BY <2>7, <2>8 DEF KidsIn
  <2>10. Extended(ns, ms)
    <3>1. \A i \in DOMAIN ns : \A g \in {"kind", "parent", "space", "ns", "base"} : ms[i][g] = ns[i][g]
      BY <2>7 DEF NodeFields
    <3> QED BY <3>1, <2>5, <2>7, <1>1 DEF Extended
  <2> QED BY <2>6, <2>9, <2>10
<1>5. CASE ~merges /\ dropped
  BY <1>1, <1>3, <1>5, ExtendedSelf DEF Differ
<1>6. CASE ~merges /\ ~dropped
  <2> DEFINE node == Node(kind, cur, cd)
             new == WithBase(c, node)
             d == AppendNode(c, cur, node)
  <2>1. kind \in {"text", "cdata"} /\ kind \in NodeKinds /\ kind # "element"
    BY DEF NodeKinds
  <2>2. /\ node \in NodeSet /\ node.kind = kind /\ node.kids = <<>>
    <3> HIDE DEF kind, cur, cd
    <3> QED BY <1>1, <2>1, NodeIs
  <2> HIDE DEF node, d
  <2>3. d \in ReaderSet /\ Differ(c, d, {"nodes"}) /\ Grown(ns, d.nodes, cur, new)
    BY <1>1, <1>2, <2>2, AppendNodeIs DEF d
  <2>4. new \in NodeSet /\ new.kind # "element" /\ new.kids = <<>>
    <3>1. new \in NodeSet /\ \A g \in NodeFields \ {"base"} : new[g] = node[g]
      BY <2>2, WithBaseIs
    <3> QED BY <2>1, <2>2, <3>1 DEF NodeFields
  <2>5. d.nodes \in Seq(NodeSet)
    BY <2>3 DEF ReaderSet
  <2>6. KidsIn(d.nodes) /\ Extended(ns, d.nodes)
    <3> HIDE DEF new
    <3> QED BY <1>1, <1>2, <2>3, <2>4, <2>5, GrownExtends
  <2>7. AddText(c) = d
    BY <1>3, <1>6 DEF d, node
  <2> QED BY <2>3, <2>6, <2>7
<1> QED BY <1>4, <1>5, <1>6

LEMMA DispatchExtends ==
  ASSUME TypeOK, run = "parsing", NEW c \in ReaderSet, KidsIn(c.nodes),
         c.current = NIL \/ c.current \in DOMAIN c.nodes, NEW d, d = DispatchPCDATA(c)
  PROVE  /\ d \in ReaderSet /\ Differ(c, d, {"nodes", "cdata"})
         /\ KidsIn(d.nodes) /\ Extended(c.nodes, d.nodes)
<1>1. CASE d = c
  <2>1. c.nodes \in Seq(NodeSet)
    BY DEF ReaderSet
  <2> QED BY <1>1, <2>1, ExtendedSelf DEF Differ
<1>2. CASE d # c
  <2> DEFINE a == AddText(c)
  <2>1. c.current # NIL /\ d = [a EXCEPT !.cdata = <<>>]
    BY <1>2 DEF DispatchPCDATA
  <2>2. a \in ReaderSet /\ Differ(c, a, {"nodes"}) /\ KidsIn(a.nodes) /\ Extended(c.nodes, a.nodes)
    BY <2>1, AddTextExtends
  <2> HIDE DEF a
  <2>3. d \in ReaderSet /\ Differ(a, d, {"cdata"})
    <3>1. a \in ReaderSet /\ d = [a EXCEPT !.cdata = <<>>] /\ <<>> \in Seq(Piece)
      BY <2>1, <2>2
    <3> QED BY <3>1, WithCdata
  <2>4. Differ(c, d, {"nodes", "cdata"}) /\ d.nodes = a.nodes
    BY <2>2, <2>3 DEF Differ, Fields
  <2> QED BY <2>2, <2>3, <2>4
<1> QED BY <1>1, <1>2

\* What may change while the same elements are open.
Aside == {"nodes", "cdata", "cdataSection", "insideDTD", "status"}

LEMMA ExtendedParts ==
  ASSUME NEW ns, NEW ms, Extended(ns, ms)
  PROVE  /\ \A i \in DOMAIN ns : /\ i \in DOMAIN ms /\ ms[i].kind = ns[i].kind /\ ms[i].parent = ns[i].parent
                                 /\ ms[i].space = ns[i].space /\ ms[i].ns = ns[i].ns /\ ms[i].base = ns[i].base
         /\ \A i \in DOMAIN ms : ms[i].kind = "element" => i \in DOMAIN ns
         /\ Len(ms) \in Nat /\ Len(ns) \in Nat /\ Len(ms) >= Len(ns)
         /\ DOMAIN ns = 1 .. Len(ns) /\ DOMAIN ms = 1 .. Len(ms)
BY DEF Extended

\* The bases that are known stay, and there are more.
Continued(bs, bs2) == \A i \in DOMAIN bs : i \in DOMAIN bs2 /\ bs2[i] = bs[i]

LEMMA Lengthened ==
  ASSUME NEW c, NEW op, NEW bs, Stacks(c, op, bs), NEW d \in ReaderSet, NEW F \in SUBSET Aside,
         Differ(c, d, F), Extended(c.nodes, d.nodes), KidsIn(d.nodes),
         NEW bs2 \in Seq(Nat), Continued(bs, bs2), DOMAIN d.nodes \subseteq DOMAIN bs2
  PROVE  Stacks(d, op, bs2)
<1> DEFINE ns == c.nodes
           ms == d.nodes
<1>1. /\ d.depth = c.depth /\ d.current = c.current /\ d.baseURIstack = c.baseURIstack
      /\ d.activeNS = c.activeNS /\ d.preserveDeep = c.preserveDeep /\ d.defaultDeep = c.defaultDeep
      /\ d.ignoreWhiteSpaces = c.ignoreWhiteSpaces
  BY DEF Differ, Fields, Aside
<1>2. /\ \A i \in DOMAIN ns : /\ i \in DOMAIN ms /\ ms[i].kind = ns[i].kind /\ ms[i].parent = ns[i].parent
                              /\ ms[i].space = ns[i].space /\ ms[i].ns = ns[i].ns /\ ms[i].base = ns[i].base
      /\ \A i \in DOMAIN ms : ms[i].kind = "element" => i \in DOMAIN ns
      /\ Len(ms) \in Nat /\ Len(ns) \in Nat /\ Len(ms) >= Len(ns)
      /\ DOMAIN ns = 1 .. Len(ns) /\ DOMAIN ms = 1 .. Len(ms)
  BY ExtendedParts
<1>3. /\ Upward(ns) /\ OnBranch(ns, op) /\ BasesKnown(ns, bs) /\ Spaces(c, op) /\ Named(ns, op)
      /\ BaseLevels(c.baseURIstack, op, bs) /\ Namespaces(c.activeNS, op) /\ Len(ns) > 0
      /\ c.depth = Len(op) /\ op \in Seq(OpenSet)
      /\ IF op = <<>> THEN c.current \in {NIL, Root} ELSE c.current = Top(op).node
  BY DEF Stacks
<1>4. Spaces(d, op)
  <2>1. \A i \in DOMAIN op : op[i].node \in DOMAIN ns
    BY <1>3 DEF OnBranch
  <2> QED BY <2>1, <1>1, <1>2, <1>3 DEF Spaces
<1> HIDE DEF ns, ms
<1>5. \A n \in DOMAIN ms : ms[n].kind = "element" =>
        n \in DOMAIN ns /\ ns[n].kind = "element" /\ ms[n].parent = ns[n].parent /\ ms[n].base = ns[n].base
  BY <1>2
<1>6. Upward(ms)
  <2> SUFFICES ASSUME NEW n \in DOMAIN ms, ms[n].kind = "element", ms[n].parent # NIL
               PROVE  ms[n].parent \in 1 .. n - 1 /\ ms[ms[n].parent].kind = "element"
    BY DEF Upward
  <2>1. n \in DOMAIN ns /\ ns[n].kind = "element" /\ ms[n].parent = ns[n].parent
    BY <1>5
  <2>2. ns[n].parent \in 1 .. n - 1 /\ ns[ns[n].parent].kind = "element"
    BY <2>1, <1>3 DEF Upward
  <2>3. ns[n].parent \in DOMAIN ns
    BY <2>1, <2>2, <1>2
  <2> QED BY <2>1, <2>2, <2>3, <1>2
<1>7. OnBranch(ms, op) /\ Named(ms, op)
  BY <1>2, <1>3 DEF OnBranch, Named
<1>8. BasesKnown(ms, bs2)
  <2> SUFFICES ASSUME NEW n \in DOMAIN ms, ms[n].kind = "element"
               PROVE  bs2[n] = IF ms[n].base # NIL THEN ms[n].base
                               ELSE IF ms[n].parent = NIL THEN 1 ELSE bs2[ms[n].parent]
    BY DEF BasesKnown, ms
  <2>1. n \in DOMAIN ns /\ ns[n].kind = "element" /\ ms[n].parent = ns[n].parent /\ ms[n].base = ns[n].base
    BY <1>5
  <2>2. n \in DOMAIN bs /\ bs[n] = IF ns[n].base # NIL THEN ns[n].base
                                   ELSE IF ns[n].parent = NIL THEN 1 ELSE bs[ns[n].parent]
    BY <2>1, <1>3 DEF BasesKnown
  <2>3. ns[n].parent # NIL => ns[n].parent \in DOMAIN bs
    <3> SUFFICES ASSUME ns[n].parent # NIL PROVE ns[n].parent \in DOMAIN bs
      OBVIOUS
    <3>1. ns[n].parent \in 1 .. n - 1
      BY <2>1, <1>3 DEF Upward
    <3>2. ns[n].parent \in DOMAIN ns
      BY <2>1, <3>1, <1>2
    <3> QED BY <3>2, <1>3 DEF BasesKnown
  <2> QED BY <2>1, <2>2, <2>3 DEF Continued
<1>9. BaseLevels(d.baseURIstack, op, bs2)
  <2>1. \A i \in DOMAIN op : bs2[op[i].node] = bs[op[i].node]
    <3>1. \A i \in DOMAIN op : op[i].node \in DOMAIN bs
      BY <1>3 DEF OnBranch, BasesKnown
    <3> QED BY <3>1 DEF Continued
  <2> QED BY <2>1, <1>1, <1>3 DEF BaseLevels
<1>10. Len(ms) > 0 /\ KidsIn(ms)
  BY <1>2, <1>3 DEF ms
<1> QED BY <1>1, <1>3, <1>4, <1>6, <1>7, <1>8, <1>9, <1>10 DEF Stacks, ms

(* ------------------------------- namespaces -------------------------------- *)
NsEntry == [depth : Int, prefix : Prefixes, uri : Uris]
IsLast(S, k) == k \in S /\ \A j \in S : j <= k

\* An element more is open, or one less; the declarations of the last are gone.
OneMore(op, op2, e) == op2 = Append(op, e)
OneLess(op, op2) == op2 = Front(op)
WithoutLast(st, D, st2) ==
  st2 = SubSeq(st, 1, Cardinality({i \in DOMAIN st : \E j \in i .. Len(st) : st[j].depth # D}))

LEMMA OneMoreIs ==
  ASSUME NEW op \in Seq(OpenSet), NEW e \in OpenSet, NEW op2, OneMore(op, op2, e)
  PROVE  /\ op2 \in Seq(OpenSet) /\ Len(op) \in Nat /\ Len(op2) = Len(op) + 1 /\ op2 # <<>>
         /\ op2[Len(op) + 1] = e /\ DOMAIN op = 1 .. Len(op) /\ DOMAIN op2 = 1 .. Len(op) + 1
         /\ \A i \in 1 .. Len(op) : op2[i] = op[i]
BY Appended DEF OneMore

LEMMA OneLessIs ==
  ASSUME NEW op \in Seq(OpenSet), op # <<>>, NEW op2, OneLess(op, op2)
  PROVE  /\ op2 \in Seq(OpenSet) /\ Len(op) \in Nat /\ Len(op) - 1 \in Nat /\ Len(op2) = Len(op) - 1
         /\ DOMAIN op = 1 .. Len(op) /\ DOMAIN op2 = 1 .. Len(op) - 1
         /\ \A i \in 1 .. Len(op) - 1 : op2[i] = op[i]
<1>1. op2 = Front(op)
  BY DEF OneLess
<1>2. /\ op2 \in Seq(OpenSet) /\ Len(op) \in Nat /\ Len(op) > 0 /\ Len(op2) = Len(op) - 1
      /\ DOMAIN op = 1 .. Len(op) /\ DOMAIN op2 = 1 .. Len(op) - 1
      /\ \A i \in 1 .. Len(op) - 1 : op2[i] = op[i]
  BY <1>1, FrontIs
<1> QED BY <1>2

LEMMA LastIs ==
  ASSUME NEW S \in SUBSET Nat, NEW k, IsLast(S, k)
  PROVE  (CHOOSE i \in S : \A j \in S : j <= i) = k
<1> DEFINE m == CHOOSE i \in S : \A j \in S : j <= i
<1>1. m \in S /\ \A j \in S : j <= m
  BY DEF IsLast
<1> HIDE DEF m
<1>2. m <= k /\ k <= m /\ m \in Nat /\ k \in Nat
  BY <1>1 DEF IsLast
<1>3. m = k
  BY <1>2
<1> QED BY <1>3 DEF m

LEMMA LastOf ==
  ASSUME NEW m \in Nat, NEW S, m \in S, S \subseteq 1 .. m
  PROVE  IsLast(S, m)
BY DEF IsLast

LEMMA Downward ==
  ASSUME NEW n \in Nat, NEW S \in SUBSET (1 .. n), NEW m \in S, \A j \in S : j <= m,
         \A i \in 1 .. m : i \in S
  PROVE  m \in 1 .. n /\ S = 1 .. m
<1>1. \A j \in S : j \in 1 .. m
  OBVIOUS
<1> QED BY <1>1

LEMMA MeaningLast ==
  ASSUME NEW st \in Seq(NsEntry), NEW i, NEW prefix, NEW k, IsLast(Found(st, i, prefix), k)
  PROVE  Meaning(st, i, prefix) = st[k].uri
<1>1. Found(st, i, prefix) \in SUBSET Nat
  BY DEF Found
<1>2. (CHOOSE m \in Found(st, i, prefix) : \A j \in Found(st, i, prefix) : j <= m) = k
  BY <1>1, LastIs
<1>3. Found(st, i, prefix) # {}
  BY DEF IsLast
<1> QED BY <1>2, <1>3 DEF Meaning

LEMMA MeaningSame ==
  ASSUME NEW st \in Seq(NsEntry), NEW i, NEW st2 \in Seq(NsEntry), NEW i2, NEW prefix,
         Found(st, i, prefix) = Found(st2, i2, prefix),
         \A k \in Found(st, i, prefix) : st2[k].uri = st[k].uri
  PROVE  Meaning(st2, i2, prefix) = Meaning(st, i, prefix)
<1> DEFINE F == Found(st, i, prefix)
<1>1. F \in SUBSET (1 .. Len(st)) /\ Len(st) \in Nat
  BY DEF Found
<1>2. CASE F = {}
  BY <1>2 DEF Meaning
<1>3. CASE F # {}
  <2> HIDE DEF F
  <2>1. PICK k \in F : \A j \in F : j <= k
    BY <1>1, <1>3, LastPosition
  <2>2. IsLast(F, k)
    BY <2>1 DEF IsLast
  <2>3. Meaning(st, i, prefix) = st[k].uri /\ Meaning(st2, i2, prefix) = st2[k].uri
    BY <2>2, MeaningLast DEF F
  <2> QED BY <2>1, <2>3 DEF F
<1> QED BY <1>2, <1>3

LEMMA LookupMeaning ==
  ASSUME NEW st \in Seq(NsEntry), NEW n, NEW prefix, \A k \in DOMAIN st : st[k].depth < n
  PROVE  LookupIn(st, prefix) = Meaning(st, n, prefix)
<1> DEFINE F == Found(st, n, prefix)
           G == {i \in DOMAIN st : st[i].prefix = prefix}
<1>1. G = F
  BY DEF Found
<1>2. G \in SUBSET (1 .. Len(st)) /\ Len(st) \in Nat
  OBVIOUS
<1>3. LookupIn(st, prefix) = IF G = {} THEN "none"
                             ELSE st[CHOOSE i \in G : \A j \in G : j <= i].uri
  BY DEF LookupIn
<1> HIDE DEF F, G
<1>4. CASE G = {}
  BY <1>1, <1>3, <1>4 DEF Meaning, F
<1>5. CASE G # {}
  <2>1. PICK k \in G : \A j \in G : j <= k
    BY <1>2, <1>5, LastPosition
  <2>2. IsLast(G, k) /\ G \in SUBSET Nat
    BY <2>1, <1>2 DEF IsLast
  <2>3. (CHOOSE i \in G : \A j \in G : j <= i) = k
    BY <2>2, LastIs
  <2>4. Meaning(st, n, prefix) = st[k].uri
    BY <2>2, <1>1, MeaningLast DEF F
  <2> QED BY <2>3, <2>4, <1>3, <1>5
<1> QED BY <1>4, <1>5

LEMMA ScopeLast ==
  ASSUME NEW op, NEW n \in Nat, NEW prefix, NEW k, IsLast(Declaring(op, n, prefix), k)
  PROVE  ScopeIn(op, n, prefix) = op[k].attr.uri
<1>1. Declaring(op, n, prefix) \in SUBSET Nat
  BY DEF Declaring
<1>2. (CHOOSE m \in Declaring(op, n, prefix) : \A j \in Declaring(op, n, prefix) : j <= m) = k
  BY <1>1, LastIs
<1>3. Declaring(op, n, prefix) # {}
  BY DEF IsLast
<1> QED BY <1>2, <1>3 DEF ScopeIn

LEMMA ScopeSame ==
  ASSUME NEW op, NEW op2, NEW n \in Nat, NEW n2 \in Nat, NEW prefix,
         Declaring(op, n, prefix) = Declaring(op2, n2, prefix),
         \A k \in Declaring(op, n, prefix) : op2[k] = op[k]
  PROVE  ScopeIn(op2, n2, prefix) = ScopeIn(op, n, prefix)
<1> DEFINE F == Declaring(op, n, prefix)
<1>1. F \in SUBSET (1 .. n)
  BY DEF Declaring
<1>2. CASE F = {}
  BY <1>2 DEF ScopeIn
<1>3. CASE F # {}
  <2> HIDE DEF F
  <2>1. PICK k \in F : \A j \in F : j <= k
    BY <1>1, <1>3, LastPosition
  <2>2. IsLast(F, k)
    BY <2>1 DEF IsLast
  <2>3. ScopeIn(op, n, prefix) = op[k].attr.uri /\ ScopeIn(op2, n2, prefix) = op2[k].attr.uri
    BY <2>2, ScopeLast DEF F
  <2> QED BY <2>1, <2>3 DEF F
<1> QED BY <1>2, <1>3

\* As far as the same elements are open, a prefix means the same.
LEMMA ScopeKept ==
  ASSUME NEW op, NEW op2, NEW n \in Nat, NEW prefix, \A i \in 1 .. n : op2[i] = op[i]
  PROVE  ScopeIn(op2, n, prefix) = ScopeIn(op, n, prefix)
<1>1. Declaring(op, n, prefix) = Declaring(op2, n, prefix)
  BY DEF Declaring
<1>2. \A k \in Declaring(op, n, prefix) : op2[k] = op[k]
  BY DEF Declaring
<1> QED BY <1>1, <1>2, ScopeSame

\* And one more.
OneDeeper(op, n, e, op2, m) ==
  n \in Nat /\ m = n + 1 /\ op2[m] = e /\ \A i \in 1 .. n : op2[i] = op[i]

LEMMA ScopeOpened ==
  ASSUME NEW op, NEW n, NEW e, NEW op2, NEW m, OneDeeper(op, n, e, op2, m), NEW prefix
  PROVE  ScopeIn(op2, m, prefix) =
           IF e.attr.is = "declares" /\ e.attr.prefix = prefix THEN e.attr.uri
           ELSE ScopeIn(op, n, prefix)
<1>0. n \in Nat /\ m = n + 1 /\ op2[m] = e /\ \A i \in 1 .. n : op2[i] = op[i]
  BY DEF OneDeeper
<1>1. m \in Nat /\ m \in 1 .. m /\ \A i : i \in 1 .. m <=> i \in 1 .. n \/ i = m
  BY <1>0
<1>2. CASE e.attr.is = "declares" /\ e.attr.prefix = prefix
  <2>1. m \in Declaring(op2, m, prefix) /\ Declaring(op2, m, prefix) \subseteq 1 .. m
    BY <1>0, <1>1, <1>2 DEF Declaring
  <2>2. IsLast(Declaring(op2, m, prefix), m)
    BY <1>0, <1>1, <2>1, LastOf
  <2>3. ScopeIn(op2, m, prefix) = op2[m].attr.uri
    BY <1>0, <1>1, <2>2, ScopeLast
  <2> QED BY <1>0, <1>2, <2>3
<1>3. CASE ~ (e.attr.is = "declares" /\ e.attr.prefix = prefix)
  <2>1. \A i : i \in Declaring(op, n, prefix) <=> i \in Declaring(op2, m, prefix)
    BY <1>0, <1>1, <1>3 DEF Declaring
  <2>2. \A k \in Declaring(op, n, prefix) : op2[k] = op[k]
    BY <1>0 DEF Declaring
  <2>3. Declaring(op, n, prefix) = Declaring(op2, m, prefix)
    BY <2>1
  <2>4. ScopeIn(op2, m, prefix) = ScopeIn(op, n, prefix)
    BY <1>0, <1>1, <2>3, <2>2, ScopeSame
  <2> QED BY <1>3, <2>4
<1> QED BY <1>2, <1>3

LEMMA DeclaringAttr ==
  ASSUME NEW attr \in Attrs, attr.is = "declares"
  PROVE  attr.prefix \in Prefixes /\ attr.uri \in Uris
<1>1. attr \in [is : {"declares"}, prefix : Prefixes, uri : Uris]
  <2>1. attr \notin {[is |-> "none"]}
    OBVIOUS
  <2>2. attr \notin [is : {"space"}, value : {"preserve", "default"}]
    OBVIOUS
  <2>3. attr \notin [is : {"prefixed"}, prefix : Prefixes \ {""}]
    OBVIOUS
  <2> QED BY <2>1, <2>2, <2>3, Zenon DEF Attrs
<1> QED BY <1>1

\* A declaration of the new element is pushed, or is in scope as it is.
Declares(st, st2, e, D) ==
  \/ st2 = st /\ e.attr.is # "declares"
  \/ st2 = st /\ e.attr.is = "declares" /\ LookupIn(st, e.attr.prefix) = e.attr.uri
  \/ /\ st2 = Append(st, [depth |-> D, prefix |-> e.attr.prefix, uri |-> e.attr.uri])
     /\ e.attr.is = "declares"

LEMMA NamespacesOpened ==
  ASSUME NEW st \in Seq(NsEntry), NEW op \in Seq(OpenSet), Namespaces(st, op), NEW e \in OpenSet,
         NEW op2, OneMore(op, op2, e), NEW st2 \in Seq(NsEntry), Declares(st, st2, e, Len(op))
  PROVE  Namespaces(st2, op2) /\ \A prefix \in Prefixes :
                                   LookupIn(st2, prefix) = ScopeIn(op2, Len(op) + 1, prefix)
<1> DEFINE D == Len(op)
<1>1. /\ D \in Nat /\ Len(op2) = D + 1 /\ op2[D + 1] = e /\ \A i \in 1 .. D : op2[i] = op[i]
  BY OneMoreIs
<1>2. /\ \A k \in DOMAIN st : st[k].depth \in 0 .. D - 1
      /\ \A j, k \in DOMAIN st : j <= k => st[j].depth <= st[k].depth
      /\ \A i \in 0 .. D, prefix \in Prefixes : Meaning(st, i, prefix) = ScopeIn(op, i, prefix)
  BY DEF Namespaces
<1>3. \A i \in 0 .. D, prefix \in Prefixes : ScopeIn(op2, i, prefix) = ScopeIn(op, i, prefix)
  <2> TAKE i \in 0 .. D, prefix \in Prefixes
  <2>1. i \in Nat /\ \A k \in 1 .. i : op2[k] = op[k]
    BY <1>1
  <2> QED BY <2>1, ScopeKept
<1>4. \A prefix : ScopeIn(op2, D + 1, prefix) =
           IF e.attr.is = "declares" /\ e.attr.prefix = prefix THEN e.attr.uri
           ELSE ScopeIn(op, D, prefix)
  <2> TAKE prefix
  <2> DEFINE m == D + 1
  <2>1. OneDeeper(op, D, e, op2, m)
    BY <1>1 DEF OneDeeper
  <2> HIDE DEF D, m
  <2>2. ScopeIn(op2, m, prefix) =
           IF e.attr.is = "declares" /\ e.attr.prefix = prefix THEN e.attr.uri
           ELSE ScopeIn(op, D, prefix)
    BY <2>1, ScopeOpened
  <2> QED BY <2>2 DEF m
<1> HIDE DEF D
<1>6. \A prefix : Meaning(st, D + 1, prefix) = Meaning(st, D, prefix)
  <2> TAKE prefix
  <2>1. Found(st, D, prefix) = Found(st, D + 1, prefix)
    BY <1>1, <1>2 DEF Found
  <2> QED BY <2>1, MeaningSame
<1>7. \A prefix : LookupIn(st, prefix) = Meaning(st, D, prefix)
  <2>1. \A k \in DOMAIN st : st[k].depth < D
    BY <1>1, <1>2
  <2> QED BY <2>1, LookupMeaning
<1>8. ASSUME st2 = st, e.attr.is = "declares" => LookupIn(st, e.attr.prefix) = e.attr.uri
      PROVE  /\ \A k \in DOMAIN st2 : st2[k].depth \in 0 .. (D + 1) - 1
             /\ \A j, k \in DOMAIN st2 : j <= k => st2[j].depth <= st2[k].depth
             /\ \A i \in 0 .. D, prefix \in Prefixes : Meaning(st2, i, prefix) = ScopeIn(op2, i, prefix)
             /\ \A prefix \in Prefixes : Meaning(st2, D + 1, prefix) = ScopeIn(op2, D + 1, prefix)
  <2>1. \A k \in DOMAIN st2 : st2[k].depth \in 0 .. (D + 1) - 1
    BY <1>1, <1>2, <1>8
  <2>2. \A prefix \in Prefixes : Meaning(st2, D + 1, prefix) = ScopeIn(op2, D + 1, prefix)
    <3> TAKE prefix \in Prefixes
    <3>1. CASE e.attr.is = "declares" /\ e.attr.prefix = prefix
      BY <3>1, <1>4, <1>6, <1>7, <1>8
    <3>2. CASE ~ (e.attr.is = "declares" /\ e.attr.prefix = prefix)
      BY <3>2, <1>1, <1>2, <1>4, <1>6, <1>8
    <3> QED BY <3>1, <3>2
  <2>3. \A i \in 0 .. D, prefix \in Prefixes : Meaning(st2, i, prefix) = ScopeIn(op2, i, prefix)
    BY <1>2, <1>3, <1>8
  <2> QED BY <2>1, <2>2, <2>3, <1>2, <1>8
<1>9. ASSUME st2 = Append(st, [depth |-> D, prefix |-> e.attr.prefix, uri |-> e.attr.uri]),
             e.attr.is = "declares"
      PROVE  /\ \A k \in DOMAIN st2 : st2[k].depth \in 0 .. (D + 1) - 1
             /\ \A j, k \in DOMAIN st2 : j <= k => st2[j].depth <= st2[k].depth
             /\ \A i \in 0 .. D, prefix \in Prefixes : Meaning(st2, i, prefix) = ScopeIn(op2, i, prefix)
             /\ \A prefix \in Prefixes : Meaning(st2, D + 1, prefix) = ScopeIn(op2, D + 1, prefix)
  <2> DEFINE m == Len(st) + 1
             x == [depth |-> D, prefix |-> e.attr.prefix, uri |-> e.attr.uri]
  <2>1. x \in NsEntry /\ x.depth = D /\ x.prefix = e.attr.prefix /\ x.uri = e.attr.uri
    <3>1. e.attr.prefix \in Prefixes /\ e.attr.uri \in Uris
      <4>1. e.attr \in Attrs
        BY DEF OpenSet
      <4> QED BY <4>1, <1>9, DeclaringAttr
    <3> QED BY <3>1, <1>1 DEF NsEntry
  <2> HIDE DEF x
  <2>2. /\ m \in Nat /\ m \in 1 .. m /\ DOMAIN st2 = 1 .. m /\ DOMAIN st = 1 .. m - 1 /\ st2[m] = x
        /\ \A k \in 1 .. m - 1 : st2[k] = st[k]
    BY <2>1, <1>9, Appended DEF x
  <2> HIDE DEF m
  <2>3. \A k \in DOMAIN st2 : st2[k].depth \in 0 .. (D + 1) - 1
    BY <1>1, <1>2, <2>1, <2>2
  <2>4. \A j, k \in DOMAIN st2 : j <= k => st2[j].depth <= st2[k].depth
    <3> TAKE j, k \in DOMAIN st2
    <3> HAVE j <= k
    <3>1. CASE k = m
      BY <3>1, <1>1, <2>1, <2>2, <2>3
    <3>2. CASE k # m
      <4>1. j \in 1 .. m - 1 /\ k \in 1 .. m - 1
        BY <3>2, <2>2
      <4> QED BY <4>1, <1>2, <2>2
    <3> QED BY <3>1, <3>2
  <2>5. \A i \in 0 .. D, prefix \in Prefixes : Meaning(st2, i, prefix) = ScopeIn(op2, i, prefix)
    <3> TAKE i \in 0 .. D, prefix \in Prefixes
    <3>1. Found(st, i, prefix) = Found(st2, i, prefix)
      BY <1>1, <2>1, <2>2 DEF Found
    <3>2. \A k \in Found(st, i, prefix) : st2[k].uri = st[k].uri
      BY <2>2 DEF Found
    <3> QED BY <3>1, <3>2, <1>2, <1>3, MeaningSame
  <2>6. \A prefix \in Prefixes : Meaning(st2, D + 1, prefix) = ScopeIn(op2, D + 1, prefix)
    <3> TAKE prefix \in Prefixes
    <3>1. CASE e.attr.prefix = prefix
      <4>1. IsLast(Found(st2, D + 1, prefix), m)
        <5>1. m \in DOMAIN st2
          BY <2>2
        <5>1a. st2[m].prefix = prefix /\ st2[m].depth = D /\ D < D + 1
          BY <3>1, <1>1, <2>1, <2>2
        <5>2. m \in Found(st2, D + 1, prefix) /\ Found(st2, D + 1, prefix) \subseteq 1 .. m
          BY <2>2, <5>1, <5>1a DEF Found
        <5> QED BY <2>2, <5>2, LastOf
      <4>2. Meaning(st2, D + 1, prefix) = st2[m].uri
        BY <4>1, MeaningLast
      <4> QED BY <4>2, <3>1, <2>1, <2>2, <1>4, <1>9
    <3>2. CASE e.attr.prefix # prefix
      <4>1. Found(st, D, prefix) = Found(st2, D + 1, prefix)
        BY <3>2, <1>1, <1>2, <2>1, <2>2 DEF Found
      <4>2. \A k \in Found(st, D, prefix) : st2[k].uri = st[k].uri
        BY <2>2 DEF Found
      <4>3. Meaning(st2, D + 1, prefix) = Meaning(st, D, prefix)
        BY <4>1, <4>2, MeaningSame
      <4> QED BY <4>3, <3>2, <1>1, <1>2, <1>4
    <3> QED BY <3>1, <3>2
  <2> QED BY <2>3, <2>4, <2>5, <2>6
<1>10. /\ \A k \in DOMAIN st2 : st2[k].depth \in 0 .. (D + 1) - 1
       /\ \A j, k \in DOMAIN st2 : j <= k => st2[j].depth <= st2[k].depth
       /\ \A i \in 0 .. D, prefix \in Prefixes : Meaning(st2, i, prefix) = ScopeIn(op2, i, prefix)
       /\ \A prefix \in Prefixes : Meaning(st2, D + 1, prefix) = ScopeIn(op2, D + 1, prefix)
  <2>1. \/ st2 = st /\ (e.attr.is = "declares" => LookupIn(st, e.attr.prefix) = e.attr.uri)
        \/ /\ st2 = Append(st, [depth |-> D, prefix |-> e.attr.prefix, uri |-> e.attr.uri])
           /\ e.attr.is = "declares"
    BY DEF Declares, D
  <2> QED BY <2>1, <1>8, <1>9
<1>11. \A i \in 0 .. Len(op2), prefix \in Prefixes : Meaning(st2, i, prefix) = ScopeIn(op2, i, prefix)
  <2> TAKE i \in 0 .. Len(op2), prefix \in Prefixes
  <2>1. i \in 0 .. D \/ i = D + 1
    BY <1>1
  <2> QED BY <2>1, <1>10
<1>12. Namespaces(st2, op2)
  BY <1>1, <1>10, <1>11 DEF Namespaces
<1>13. \A prefix \in Prefixes : LookupIn(st2, prefix) = ScopeIn(op2, D + 1, prefix)
  <2>1. \A k \in DOMAIN st2 : st2[k].depth < D + 1
    BY <1>1, <1>10
  <2>2. \A prefix \in Prefixes : LookupIn(st2, prefix) = Meaning(st2, D + 1, prefix)
    BY <2>1, LookupMeaning
  <2> QED BY <2>2, <1>10
<1> QED BY <1>12, <1>13 DEF D

LEMMA NamespacesClosed ==
  ASSUME NEW st \in Seq(NsEntry), NEW op \in Seq(OpenSet), op # <<>>, Namespaces(st, op), NEW op2,
         OneLess(op, op2), NEW D, D = Len(op) - 1, NEW st2, WithoutLast(st, D, st2)
  PROVE  Namespaces(st2, op2)
<1> DEFINE n == Len(st)
           keep == {i \in DOMAIN st : \E j \in i .. n : st[j].depth # D}
<1>1. D \in Nat /\ Len(op2) = D /\ \A i \in 1 .. D : op2[i] = op[i]
  BY OneLessIs
<1>2. /\ \A k \in DOMAIN st : st[k].depth \in 0 .. D
      /\ \A j, k \in DOMAIN st : j <= k => st[j].depth <= st[k].depth
      /\ \A i \in 0 .. D, prefix \in Prefixes : Meaning(st, i, prefix) = ScopeIn(op, i, prefix)
  <2>1. Len(op) \in Nat /\ Len(op) - 1 = D /\ 0 .. D \subseteq 0 .. Len(op)
    BY <1>1
  <2> QED BY <2>1 DEF Namespaces
<1>3. n \in Nat /\ DOMAIN st = 1 .. n
  BY SeqIs
<1> HIDE DEF n
<1>4. keep = {i \in DOMAIN st : st[i].depth < D}
  <2>1. ASSUME NEW i \in DOMAIN st, NEW j \in i .. n, st[j].depth # D PROVE st[i].depth < D
    <3>1. j \in DOMAIN st /\ i <= j
      BY <1>3
    <3>2. st[j].depth \in 0 .. D /\ st[i].depth \in 0 .. D /\ st[i].depth <= st[j].depth
      BY <3>1, <1>2
    <3> QED BY <2>1, <3>2, <1>1
  <2>2. ASSUME NEW i \in DOMAIN st, st[i].depth < D PROVE \E j \in i .. n : st[j].depth # D
    <3>1. i \in i .. n /\ st[i].depth \in 0 .. D
      BY <1>2, <1>3
    <3> QED BY <2>2, <3>1, <1>1
  <2> QED BY <2>1, <2>2
<1>5. PICK m \in 0 .. n : keep = 1 .. m
  <2>1. CASE keep = {}
    <3>1. 0 \in 0 .. n /\ 1 .. 0 = {}
      BY <1>3
    <3> QED BY <2>1, <3>1
  <2>2. CASE keep # {}
    <3>1. keep \in SUBSET (1 .. n)
      BY <1>3
    <3>2. PICK m \in keep : \A j \in keep : j <= m
      <4> HIDE DEF keep
      <4> QED BY <2>2, <3>1, <1>3, LastPosition
    <3> HIDE DEF keep
    <3>3. m \in 1 .. n /\ st[m].depth < D
      BY <3>1, <3>2, <1>4
    <3>4. \A i \in 1 .. m : i \in keep
      <4> TAKE i \in 1 .. m
      <4>1. i \in DOMAIN st /\ m \in DOMAIN st /\ i <= m
        BY <3>3, <1>3
      <4>2. st[i].depth <= st[m].depth /\ st[i].depth \in 0 .. D /\ st[m].depth \in 0 .. D
        BY <4>1, <1>2
      <4> QED BY <4>1, <4>2, <3>3, <1>1, <1>4
    <3>5. keep = 1 .. m
      BY <3>1, <3>2, <3>4, <1>3, Downward
    <3> QED BY <3>3, <3>5
  <2> QED BY <2>1, <2>2
<1>6. Cardinality(keep) = m
  <2>1. m \in Nat /\ 1 \in Int /\ m \in Int
    BY <1>3, <1>5
  <2>2. Cardinality(1 .. m) = IF 1 > m THEN 0 ELSE m - 1 + 1
    BY <2>1, FS_Interval
  <2>3. Cardinality(1 .. m) = m
    BY <2>1, <2>2
  <2> QED BY <2>3, <1>5
<1>7. st2 = SubSeq(st, 1, m)
  BY <1>6 DEF n, WithoutLast
<1>8. \A k \in DOMAIN st : k \in 1 .. m <=> st[k].depth < D
  BY <1>4, <1>5
<1> HIDE DEF keep
<1>9. st2 \in Seq(NsEntry) /\ DOMAIN st2 = 1 .. m /\ \A k \in 1 .. m : k \in DOMAIN st /\ st2[k] = st[k]
  <2>1. m \in 0 .. Len(st)
    BY <1>5 DEF n
  <2>2. st2 \in Seq(NsEntry) /\ DOMAIN st2 = 1 .. m /\ \A k \in 1 .. m : st2[k] = st[k]
    BY <2>1, <1>7, Shortened
  <2>3. \A k \in 1 .. m : k \in DOMAIN st
    BY <1>3, <1>5
  <2> QED BY <2>2, <2>3
<1>10. \A k \in DOMAIN st2 : st2[k].depth \in 0 .. D - 1
  <2> TAKE k \in DOMAIN st2
  <2>1. k \in DOMAIN st /\ st2[k] = st[k] /\ st[k].depth < D
    BY <1>8, <1>9
  <2>2. st[k].depth \in 0 .. D
    BY <2>1, <1>2
  <2> QED BY <2>1, <2>2, <1>1
<1>11. \A j, k \in DOMAIN st2 : j <= k => st2[j].depth <= st2[k].depth
  BY <1>2, <1>9
<1>12. \A i \in 0 .. D, prefix \in Prefixes : Meaning(st2, i, prefix) = ScopeIn(op2, i, prefix)
  <2> TAKE i \in 0 .. D, prefix \in Prefixes
  <2>1. Found(st, i, prefix) = Found(st2, i, prefix)
    <3>1. ASSUME NEW k \in DOMAIN st, st[k].depth < i PROVE k \in DOMAIN st2
      <4>1. st[k].depth \in 0 .. D
        BY <1>2
      <4>2. st[k].depth < D
        BY <4>1, <3>1, <1>1
      <4> QED BY <4>2, <1>8, <1>9
    <3> QED BY <3>1, <1>9 DEF Found
  <2>2. \A k \in Found(st, i, prefix) : st2[k].uri = st[k].uri
    BY <2>1, <1>9 DEF Found
  <2>3. Meaning(st2, i, prefix) = Meaning(st, i, prefix)
    BY <2>1, <2>2, <1>9, MeaningSame
  <2>4. ScopeIn(op2, i, prefix) = ScopeIn(op, i, prefix)
    <3>1. i \in Nat /\ \A k \in 1 .. i : k \in 1 .. D
      BY <1>1
    <3>2. \A k \in 1 .. i : op2[k] = op[k]
      BY <3>1, <1>1
    <3> QED BY <3>1, <3>2, ScopeKept
  <2> QED BY <2>3, <2>4, <1>2
<1> QED BY <1>1, <1>10, <1>11, <1>12 DEF Namespaces

(* ------------------------------- base URIs --------------------------------- *)
BaseEntry == [base : Nat, depth : Int]

Pushed(st, st2, base, D) ==
  \/ Top(st).base = base /\ st2 = st
  \/ Top(st).base # base /\ st2 = Append(st, [base |-> base, depth |-> D])
Popped(st, st2, D) ==
  \/ D # 0 /\ Top(st).depth = D /\ st2 = Front(st)
  \/ ~ (D # 0 /\ Top(st).depth = D) /\ st2 = st

LEMMA LevelsAre ==
  ASSUME NEW st \in Seq(BaseEntry), NEW op \in Seq(OpenSet), NEW bs, BaseLevels(st, op, bs)
  PROVE  /\ Len(st) \in Nat /\ Len(st) > 0 /\ DOMAIN st = 1 .. Len(st) /\ Len(st) \in DOMAIN st
         /\ Len(op) \in Nat /\ DOMAIN op = 1 .. Len(op) /\ st[1].depth = 0 /\ st[1].base = 1
         /\ \A k \in DOMAIN st : st[k].depth \in Nat /\ (k > 1 => st[k].depth \in 1 .. Len(op) - 1)
         /\ \A j, k \in DOMAIN st : j < k => st[j].depth < st[k].depth
         /\ Top(st) = st[Len(st)]
         /\ op = <<>> => Len(st) = 1
         /\ op # <<>> => Top(st).depth < Len(op)
<1>1. /\ Len(st) \in Nat /\ Len(st) > 0 /\ DOMAIN st = 1 .. Len(st) /\ Len(st) \in DOMAIN st
      /\ Len(op) \in Nat /\ DOMAIN op = 1 .. Len(op) /\ (op # <<>> => Len(op) > 0) /\ (op = <<>> => Len(op) = 0)
  BY DEF BaseLevels
<1>2. /\ st[1].depth = 0 /\ st[1].base = 1
      /\ \A k \in DOMAIN st : k > 1 => st[k].depth \in 1 .. Len(op) - 1
      /\ \A j, k \in DOMAIN st : j < k => st[j].depth < st[k].depth
  BY DEF BaseLevels
<1>3. \A k \in DOMAIN st : st[k].depth \in Nat
  <2> TAKE k \in DOMAIN st
  <2>1. k = 1 \/ k > 1
    BY <1>1
  <2> QED BY <2>1, <1>1, <1>2
<1>4. op = <<>> => Len(st) = 1
  <2> SUFFICES ASSUME op = <<>>, Len(st) > 1 PROVE FALSE
    BY <1>1
  <2>1. st[Len(st)].depth \in 1 .. Len(op) - 1 /\ Len(op) = 0
    BY <1>1, <1>2
  <2> QED BY <2>1
<1>5. op # <<>> => st[Len(st)].depth < Len(op)
  <2>1. Len(st) = 1 \/ Len(st) > 1
    BY <1>1
  <2> QED BY <2>1, <1>1, <1>2
<1> QED BY <1>1, <1>2, <1>3, <1>4, <1>5 DEF Top

\* The last entry is that of the last open element, and of one it contains.
LEMMA BaseTop ==
  ASSUME NEW st \in Seq(BaseEntry), NEW op \in Seq(OpenSet), NEW bs, BaseLevels(st, op, bs), op # <<>>
  PROVE  bs[Top(op).node] = Top(st).base
<1> DEFINE n == Len(st)
           m == Len(op)
<1>1. n \in DOMAIN st /\ DOMAIN st = 1 .. n /\ n \in Nat /\ m \in DOMAIN op /\ m \in Nat
  BY LevelsAre
<1>2. st[n].depth < m /\ Top(st) = st[n]
  BY LevelsAre
<1> HIDE DEF n, m
<1>3. BaseAt(st, n, m)
  BY <1>1, <1>2 DEF BaseAt
<1>4. bs[op[m].node] = st[n].base
  BY <1>1, <1>3 DEF BaseLevels
<1> QED BY <1>2, <1>4 DEF Top, m

LEMMA BasesOpened ==
  ASSUME NEW st \in Seq(BaseEntry), NEW op \in Seq(OpenSet), NEW bs, BaseLevels(st, op, bs),
         NEW e \in OpenSet, NEW op2, OneMore(op, op2, e),
         NEW bs2, \A i \in DOMAIN op : bs2[op[i].node] = bs[op[i].node],
         NEW base \in Nat, bs2[e.node] = base, op = <<>> => base = 1,
         NEW st2, Pushed(st, st2, base, Len(op))
  PROVE  BaseLevels(st2, op2, bs2)
<1> DEFINE n == Len(st)
           D == Len(op)
<1>1. /\ n \in Nat /\ n > 0 /\ DOMAIN st = 1 .. n /\ D \in Nat /\ DOMAIN op = 1 .. D
      /\ st[1].depth = 0 /\ st[1].base = 1
      /\ \A k \in DOMAIN st : st[k].depth \in Nat /\ (k > 1 => st[k].depth \in 1 .. D - 1)
      /\ \A j, k \in DOMAIN st : j < k => st[j].depth < st[k].depth
      /\ Top(st) = st[n] /\ (op = <<>> => n = 1) /\ (op # <<>> => Top(st).depth < D)
      /\ (D = 0 => op = <<>>)
  BY LevelsAre
<1>2. /\ op2 \in Seq(OpenSet) /\ Len(op2) = D + 1 /\ op2[D + 1] = e
      /\ DOMAIN op2 = 1 .. D + 1 /\ \A i \in 1 .. D : op2[i] = op[i]
  BY OneMoreIs
<1>3. \A i \in 1 .. D, k \in DOMAIN st : BaseAt(st, k, i) => bs2[op2[i].node] = st[k].base
  BY <1>1, <1>2 DEF BaseLevels
<1>4. (Top(st).base = base /\ st2 = st)
      \/ (Top(st).base # base /\ st2 = Append(st, [base |-> base, depth |-> D]))
  BY DEF Pushed
<1>5. CASE Top(st).base = base /\ st2 = st
  <2>1. \A k \in DOMAIN st : BaseAt(st, k, D + 1) => k = n
    <3> SUFFICES ASSUME NEW k \in DOMAIN st, BaseAt(st, k, D + 1), k # n PROVE FALSE
      OBVIOUS
    <3> HIDE DEF n, D
    <3>1. n \in DOMAIN st /\ n > k /\ n > 1
      BY <1>1
    <3>2. st[n].depth >= D + 1 /\ st[n].depth \in 1 .. D - 1
      BY <1>1, <3>1 DEF BaseAt
    <3> QED BY <3>2, <1>1
  <2> HIDE DEF n, D
  <2>2. \A i \in 1 .. D + 1, k \in DOMAIN st : BaseAt(st, k, i) => bs2[op2[i].node] = st[k].base
    <3> TAKE i \in 1 .. D + 1, k \in DOMAIN st
    <3> HAVE BaseAt(st, k, i)
    <3>1. CASE i = D + 1
      BY <3>1, <2>1, <1>1, <1>2, <1>5
    <3>2. CASE i # D + 1
      <4>1. i \in 1 .. D
        BY <3>2, <1>1
      <4> QED BY <4>1, <1>3
    <3> QED BY <3>1, <3>2
  <2>3. \A k \in DOMAIN st : k > 1 => st[k].depth \in 1 .. (D + 1) - 1
    BY <1>1
  <2> QED BY <2>2, <2>3, <1>1, <1>2, <1>5 DEF BaseLevels, n
<1>6. CASE Top(st).base # base /\ st2 = Append(st, [base |-> base, depth |-> D])
  <2> DEFINE x == [base |-> base, depth |-> D]
             m == n + 1
  <2>1. D > 0
    BY <1>1, <1>6
  <2>2. x \in BaseEntry /\ x.base = base /\ x.depth = D
    BY <1>1 DEF BaseEntry
  <2> HIDE DEF x
  <2>3. Len(st2) = m /\ DOMAIN st2 = 1 .. m /\ st2[m] = x /\ \A k \in 1 .. n : st2[k] = st[k]
    BY <2>2, <1>6, Appended DEF x
  <2>4. m \in 1 .. m /\ m \in Nat /\ m > 1 /\ \A k \in 1 .. m : k = m \/ k \in 1 .. n
    BY <1>1
  <2> HIDE DEF n, D
  <2>5. \A k \in DOMAIN st2 : k > 1 => st2[k].depth \in 1 .. (D + 1) - 1
    <3> TAKE k \in DOMAIN st2
    <3>1. k = m \/ k \in 1 .. n
      BY <2>3, <2>4
    <3> QED BY <3>1, <2>1, <2>2, <2>3, <1>1
  <2>6. \A j, k \in DOMAIN st2 : j < k => st2[j].depth < st2[k].depth
    <3> TAKE j, k \in DOMAIN st2
    <3> HAVE j < k
    <3>1. j \in 1 .. n /\ st2[j] = st[j] /\ st[j].depth \in Nat
      BY <2>3, <2>4, <1>1
    <3>2. CASE k = m
      <4>1. st[j].depth < D
        BY <2>1, <3>1, <1>1
      <4> QED BY <3>1, <3>2, <4>1, <2>2, <2>3
    <3>3. CASE k # m
      <4>1. k \in 1 .. n
        BY <3>3, <2>3, <2>4
      <4> QED BY <3>1, <4>1, <2>3, <1>1
    <3> QED BY <3>2, <3>3
  <2>7. \A i \in 1 .. D + 1, k \in DOMAIN st2 : BaseAt(st2, k, i) => bs2[op2[i].node] = st2[k].base
    <3> TAKE i \in 1 .. D + 1, k \in DOMAIN st2
    <3> HAVE BaseAt(st2, k, i)
    <3>1. k # m => st2[m].depth >= i
      BY <2>3, <2>4, <1>1 DEF BaseAt
    <3>2. CASE k = m
      <4>1. D < i
        BY <3>2, <2>2, <2>3 DEF BaseAt
      <4>2. i = D + 1
        BY <4>1, <1>1
      <4> QED BY <3>2, <4>2, <1>2, <2>2, <2>3
    <3>3. CASE k # m
      <4>1. k \in 1 .. n /\ i \in 1 .. D
        BY <3>1, <3>3, <2>2, <2>3, <2>4, <1>1
      <4>2. BaseAt(st, k, i)
        <5>1. st[k].depth < i
          BY <4>1, <2>3 DEF BaseAt
        <5>2. \A j \in DOMAIN st : j > k => st[j].depth >= i
          <6> TAKE j \in DOMAIN st
          <6>1. j \in DOMAIN st2 /\ st2[j] = st[j]
            BY <2>3, <1>1
          <6> QED BY <6>1 DEF BaseAt
        <5> QED BY <5>1, <5>2 DEF BaseAt
      <4> QED BY <4>1, <4>2, <1>1, <1>3, <2>3
    <3> QED BY <3>2, <3>3
  <2>8. Len(st2) > 0 /\ st2[1].depth = 0 /\ st2[1].base = 1
    BY <2>3, <2>4, <1>1
  <2> QED BY <2>5, <2>6, <2>7, <2>8, <1>2 DEF BaseLevels
<1> QED BY <1>4, <1>5, <1>6

LEMMA BasesClosed ==
  ASSUME NEW st \in Seq(BaseEntry), NEW op \in Seq(OpenSet), NEW bs, BaseLevels(st, op, bs), op # <<>>,
         NEW op2, OneLess(op, op2), NEW D, D = Len(op) - 1, NEW st2, Popped(st, st2, D)
  PROVE  BaseLevels(st2, op2, bs)
<1> DEFINE n == Len(st)
<1>1. /\ n \in Nat /\ n > 0 /\ DOMAIN st = 1 .. n /\ DOMAIN op = 1 .. Len(op) /\ Len(op) \in Nat
      /\ st[1].depth = 0 /\ st[1].base = 1
      /\ \A k \in DOMAIN st : st[k].depth \in Nat /\ (k > 1 => st[k].depth \in 1 .. Len(op) - 1)
      /\ \A j, k \in DOMAIN st : j < k => st[j].depth < st[k].depth
      /\ Top(st) = st[n]
  BY LevelsAre
<1>2. /\ D \in Nat /\ Len(op2) = D /\ DOMAIN op2 = 1 .. D /\ \A i \in 1 .. D : op2[i] = op[i] /\ i \in DOMAIN op
  <2>1. /\ Len(op2) = Len(op) - 1 /\ Len(op) - 1 \in Nat /\ DOMAIN op2 = 1 .. Len(op) - 1
        /\ \A i \in 1 .. Len(op) - 1 : op2[i] = op[i]
    BY OneLessIs
  <2> QED BY <2>1, <1>1
<1>3. \A i \in 1 .. D, k \in DOMAIN st : BaseAt(st, k, i) => bs[op2[i].node] = st[k].base
  BY <1>2 DEF BaseLevels
<1>4. \A k \in DOMAIN st : k > 1 => st[k].depth \in 1 .. D
  BY <1>1
<1>5. CASE D # 0 /\ Top(st).depth = D
  <2> DEFINE m == n - 1
  <2>1. st2 = Front(st) /\ st # <<>>
    BY <1>1, <1>5 DEF Popped
  <2>2. Len(st2) = m /\ DOMAIN st2 = 1 .. m /\ \A k \in 1 .. m : st2[k] = st[k]
    <3> DEFINE S == BaseEntry
    <3>1. st \in Seq(S)
      OBVIOUS
    <3> HIDE DEF S
    <3> QED BY <2>1, <3>1, FrontIs
  <2> HIDE DEF n
  <2>3. n # 1
    BY <1>1, <1>5
  <2>4. m \in Nat /\ m > 0 /\ n \in DOMAIN st /\ st[n].depth = D
        /\ (\A k \in 1 .. m : k \in DOMAIN st /\ k < n) /\ \A k \in DOMAIN st : k = n \/ k \in 1 .. m
    BY <2>3, <1>1, <1>5
  <2> HIDE DEF m
  <2>5. \A k \in DOMAIN st2 : k > 1 => st2[k].depth \in 1 .. D - 1
    <3> TAKE k \in DOMAIN st2
    <3>1. k \in DOMAIN st /\ k < n /\ st2[k] = st[k] /\ n \in DOMAIN st
      BY <2>2, <2>4
    <3>2. st[k].depth < D
      BY <3>1, <2>4, <1>1
    <3> QED BY <3>1, <3>2, <1>2, <1>4
  <2>6. \A j, k \in DOMAIN st2 : j < k => st2[j].depth < st2[k].depth
    BY <2>2, <2>4, <1>1
  <2>7. \A i \in 1 .. D, k \in DOMAIN st2 : BaseAt(st2, k, i) => bs[op2[i].node] = st2[k].base
    <3> TAKE i \in 1 .. D, k \in DOMAIN st2
    <3> HAVE BaseAt(st2, k, i)
    <3>1. k \in DOMAIN st /\ k \in 1 .. m /\ st2[k] = st[k]
      BY <2>2, <2>4
    <3>2. BaseAt(st, k, i)
      <4>1. \A j \in DOMAIN st : j > k => st[j].depth >= i
        <5> TAKE j \in DOMAIN st
        <5>1. CASE j = n
          BY <5>1, <2>4, <1>2
        <5>2. CASE j # n
          <6>1. j \in DOMAIN st2 /\ st2[j] = st[j]
            BY <5>2, <2>2, <2>4
          <6> QED BY <6>1 DEF BaseAt
        <5> QED BY <5>1, <5>2
      <4> QED BY <4>1, <3>1 DEF BaseAt
    <3> QED BY <3>1, <3>2, <1>3
  <2>8. Len(st2) > 0 /\ st2[1].depth = 0 /\ st2[1].base = 1
    <3>1. 1 \in 1 .. m
      BY <2>4
    <3> QED BY <3>1, <2>2, <2>4, <1>1
  <2> QED BY <2>5, <2>6, <2>7, <2>8, <1>2 DEF BaseLevels
<1>6. CASE ~ (D # 0 /\ Top(st).depth = D)
  <2>1. st2 = st
    BY <1>6 DEF Popped
  <2>2. st[n].depth # D \/ n = 1
    BY <1>1, <1>4, <1>6
  <2>3. \A k \in DOMAIN st : k > 1 => st[k].depth \in 1 .. D - 1
    <3> SUFFICES ASSUME NEW k \in DOMAIN st, k > 1 PROVE st[k].depth # D
      BY <1>2, <1>4
    <3> HIDE DEF n
    <3>1. n \in DOMAIN st /\ n > 1 /\ st[n].depth # D /\ st[n].depth \in 1 .. D
      BY <2>2, <1>1, <1>4
    <3>2. k = n \/ st[k].depth < st[n].depth
      BY <3>1, <1>1
    <3> QED BY <3>1, <3>2, <1>1, <1>2
  <2> QED BY <2>1, <2>3, <1>1, <1>2, <1>3 DEF BaseLevels
<1> QED BY <1>5, <1>6

LEMMA EntityIs ==
  ASSUME NEW ps \in Seq([base : Nat, openAt : Nat])
  PROVE  Len(ps) \in Nat /\ DOMAIN ps = 1 .. Len(ps) /\ \A i \in DOMAIN ps : ps[i].openAt \in Nat
<1> DEFINE P == [base : Nat, openAt : Nat]
<1>1. ps \in Seq(P)
  OBVIOUS
<1>2. \A p \in P : p.openAt \in Nat
  OBVIOUS
<1> HIDE DEF P
<1>3. Len(ps) \in Nat /\ DOMAIN ps = 1 .. Len(ps) /\ \A i \in DOMAIN ps : ps[i] \in P
  BY <1>1, SeqIs, ElementOf
<1> QED BY <1>2, <1>3

\* The base URI of what is parsed: of the document alone while nothing is open.
LEMMA BaseKnown ==
  ASSUME TypeOK, run = "parsing", Entities(parsers, open)
  PROVE  Base \in Nat /\ Base # NIL /\ (open = <<>> => Base = 1)
<1>1. Len(parsers) \in Nat /\ Len(parsers) > 0 /\ open \in Seq(OpenSet) /\ DOMAIN parsers = 1 .. Len(parsers)
  BY DEF TypeOK
<1>2. Base \in Nat
  BY BaseIs
<1>3. Base # NIL
  BY <1>1 DEF Entities, Base, Top
<1>4. ASSUME open = <<>> PROVE Base = 1
  <2>1. Len(open) = 0
    BY <1>4
  <2>2. Len(parsers) = 1
    <3> SUFFICES ASSUME Len(parsers) > 1 PROVE FALSE
      BY <1>1
    <3>1. parsers[Len(parsers)].openAt <= 0 /\ parsers[Len(parsers)].openAt >= 1
      BY <1>1, <2>1 DEF Entities
    <3>2. parsers[Len(parsers)].openAt \in Nat
      <4>1. parsers \in Seq([base : Nat, openAt : Nat])
        BY DEF TypeOK
      <4> QED BY <4>1, <1>1, EntityIs
    <3> QED BY <3>1, <3>2
  <2> QED BY <2>2 DEF Entities, Base, Top
<1> QED BY <1>2, <1>3, <1>4

LEMMA EntitiesOpened ==
  ASSUME NEW ps \in Seq([base : Nat, openAt : Nat]), NEW op \in Seq(OpenSet), Entities(ps, op),
         NEW op2 \in Seq(OpenSet), Len(op2) >= Len(op) \/ Len(op2) >= Top(ps).openAt
  PROVE  Entities(ps, op2)
<1>1. Len(ps) \in Nat /\ DOMAIN ps = 1 .. Len(ps) /\ Len(ps) > 0 /\ Len(op) \in Nat /\ Len(op2) \in Nat
      /\ \A i \in DOMAIN ps : ps[i].openAt \in Nat
  BY EntityIs DEF Entities
<1>2. \A i \in DOMAIN ps : ps[i].openAt <= Len(op2)
  <2> TAKE i \in DOMAIN ps
  <2>1. ps[i].openAt <= Len(op)
    BY DEF Entities
  <2>2. ps[i].openAt <= Top(ps).openAt /\ Top(ps).openAt \in Nat
    BY <1>1 DEF Entities, Top
  <2> QED BY <2>1, <2>2, <1>1
<1> QED BY <1>2 DEF Entities

LEMMA EntityOpened ==
  ASSUME NEW ps \in Seq([base : Nat, openAt : Nat]), NEW op \in Seq(OpenSet), Entities(ps, op), op # <<>>,
         NEW base \in Nat, base # NIL,
         NEW ps2, ps2 = Append(ps, [base |-> base, openAt |-> Len(op)])
  PROVE  Entities(ps2, op)
<1> DEFINE x == [base |-> base, openAt |-> Len(op)]
           n == Len(ps)
           P == [base : Nat, openAt : Nat]
<1>1. x \in P /\ x.base = base /\ x.openAt = Len(op) /\ Len(op) \in Nat /\ Len(op) >= 1
  OBVIOUS
<1>2. ps \in Seq(P) /\ n \in Nat /\ n > 0 /\ \A i \in DOMAIN ps : ps[i].openAt \in Nat
  BY EntityIs DEF Entities
<1> HIDE DEF x, P
<1>3. Len(ps2) = n + 1 /\ ps2[n + 1] = x /\ DOMAIN ps = 1 .. n /\ DOMAIN ps2 = 1 .. n + 1
      /\ \A i \in 1 .. n : ps2[i] = ps[i]
  BY <1>1, <1>2, Appended DEF x
<1>4. /\ ps[1].base = 1
      /\ \A i \in DOMAIN ps : /\ ps[i].base # NIL /\ ps[i].openAt <= Len(op)
                              /\ i > 1 => ps[i].openAt >= 1
      /\ \A i, j \in DOMAIN ps : i <= j => ps[i].openAt <= ps[j].openAt
  BY DEF Entities
<1> HIDE DEF n
<1>5. \A i \in 1 .. n + 1 : i = n + 1 \/ i \in 1 .. n
  BY <1>2
<1>6. \A i \in DOMAIN ps2 : /\ ps2[i].base # NIL /\ ps2[i].openAt <= Len(op)
                            /\ i > 1 => ps2[i].openAt >= 1
  <2> TAKE i \in DOMAIN ps2
  <2>1. CASE i = n + 1
    BY <2>1, <1>1, <1>3
  <2>2. CASE i \in 1 .. n
    BY <2>2, <1>3, <1>4
  <2> QED BY <2>1, <2>2, <1>3, <1>5
<1>7. \A i, j \in DOMAIN ps2 : i <= j => ps2[i].openAt <= ps2[j].openAt
  <2> TAKE i, j \in DOMAIN ps2
  <2> HAVE i <= j
  <2>1. CASE j = n + 1
    BY <2>1, <1>1, <1>3, <1>6
  <2>2. CASE j \in 1 .. n
    <3>1. i \in 1 .. n
      BY <2>2, <1>2, <1>3
    <3> QED BY <2>2, <3>1, <1>3, <1>4
  <2> QED BY <2>1, <2>2, <1>3, <1>5
<1>8. Len(ps2) > 0 /\ ps2[1].base = 1
  BY <1>2, <1>3, <1>4
<1> QED BY <1>6, <1>7, <1>8 DEF Entities

LEMMA EntityClosed ==
  ASSUME NEW ps \in Seq([base : Nat, openAt : Nat]), NEW op, Entities(ps, op), Len(ps) > 1,
         NEW ps2, ps2 = Front(ps)
  PROVE  Entities(ps2, op)
<1> DEFINE P == [base : Nat, openAt : Nat]
<1>1. ps \in Seq(P) /\ ps # <<>>
  OBVIOUS
<1> HIDE DEF P
<1>2. Len(ps2) = Len(ps) - 1 /\ Len(ps) \in Nat /\ DOMAIN ps = 1 .. Len(ps) /\ DOMAIN ps2 = 1 .. Len(ps) - 1
      /\ \A i \in 1 .. Len(ps) - 1 : ps2[i] = ps[i]
  BY <1>1, FrontIs, SMTT(30)
<1>3. \A i \in DOMAIN ps2 : i \in DOMAIN ps /\ ps2[i] = ps[i]
  BY <1>2
<1>4. Len(ps2) > 0 /\ 1 \in DOMAIN ps2
  BY <1>2
<1>5. /\ ps[1].base = 1
      /\ \A i \in DOMAIN ps : /\ ps[i].base # NIL /\ ps[i].openAt <= Len(op)
                              /\ i > 1 => ps[i].openAt >= 1
      /\ \A i, j \in DOMAIN ps : i <= j => ps[i].openAt <= ps[j].openAt
  BY DEF Entities
<1> QED BY <1>3, <1>4, <1>5 DEF Entities

(* ------------------------------- ancestors --------------------------------- *)
Elements(ns) == {n \in DOMAIN ns : ns[n].kind = "element"}
Up(ns, x) == IF x = NIL THEN NIL ELSE ns[x].parent

LEMMA UpIs ==
  ASSUME NEW ns \in Seq(NodeSet), Upward(ns), NEW x \in {NIL} \cup Elements(ns)
  PROVE  /\ x \in Nat /\ Up(ns, x) \in {NIL} \cup Elements(ns) /\ (x = NIL => Up(ns, x) = NIL)
         /\ (x # NIL => Up(ns, x) = ns[x].parent /\ Up(ns, x) < x)
<1>1. DOMAIN ns = 1 .. Len(ns) /\ Len(ns) \in Nat
  OBVIOUS
<1>2. CASE x = NIL
  BY <1>2 DEF Up, NIL
<1>3. CASE x # NIL
  <2>1. x \in DOMAIN ns /\ ns[x].kind = "element" /\ x \in Nat /\ x > 0
    BY <1>1, <1>3 DEF Elements
  <2>2. ns[x].parent # NIL => ns[x].parent \in 1 .. x - 1 /\ ns[ns[x].parent].kind = "element"
    BY <2>1 DEF Upward
  <2>3. ns[x].parent # NIL => ns[x].parent \in DOMAIN ns
    BY <2>1, <2>2, <1>1
  <2> QED BY <1>3, <2>1, <2>2, <2>3 DEF Up, Elements, NIL
<1> QED BY <1>2, <1>3

\* The way up from n.
Ups(ns, n, f, N) ==
  f \in [0 .. N -> {NIL} \cup Elements(ns)] /\ f[0] = n /\ \A k \in 1 .. N : f[k] = Up(ns, f[k - 1])

LEMMA UpsExist ==
  ASSUME NEW ns \in Seq(NodeSet), Upward(ns), NEW n \in Elements(ns), NEW N \in Nat
  PROVE  \E f : Ups(ns, n, f, N)
<1> DEFINE T == {m \in Nat : ~\E f : Ups(ns, n, f, m)}
           E == {NIL} \cup Elements(ns)
<1>1. SUFFICES ASSUME T # {} PROVE FALSE
  OBVIOUS
<1>2. PICK m \in T : \A l \in T : m <= l
  <2>1. T \in SUBSET Nat
    OBVIOUS
  <2> HIDE DEF T
  <2> QED BY <1>1, <2>1, LeastNumber
<1>3. m # 0
  <2>1. Ups(ns, n, [k \in 0 .. 0 |-> n], 0)
    BY DEF Ups
  <2>2. \E f : Ups(ns, n, f, 0)
    BY <2>1
  <2> QED BY <2>2
<1>4. m \in Nat /\ m - 1 \in Nat /\ m - 1 \notin T
  BY <1>2, <1>3
<1>5. PICK f : Ups(ns, n, f, m - 1)
  BY <1>4
<1> DEFINE g == [k \in 0 .. m |-> IF k = m THEN Up(ns, f[m - 1]) ELSE f[k]]
<1>6. f \in [0 .. m - 1 -> E] /\ f[0] = n /\ \A k \in 1 .. m - 1 : f[k] = Up(ns, f[k - 1])
  BY <1>5 DEF Ups
<1>7. g \in [0 .. m -> E]
  <2> SUFFICES ASSUME NEW k \in 0 .. m PROVE (IF k = m THEN Up(ns, f[m - 1]) ELSE f[k]) \in E
    OBVIOUS
  <2>1. CASE k = m
    <3>1. f[m - 1] \in E
      BY <1>3, <1>4, <1>6
    <3> QED BY <2>1, <3>1, UpIs
  <2>2. CASE k # m
    <3>1. k \in 0 .. m - 1
      BY <2>2, <1>4
    <3> QED BY <2>2, <3>1, <1>6
  <2> QED BY <2>1, <2>2
<1>8. g[0] = n
  BY <1>3, <1>4, <1>6
<1>9. ASSUME NEW k \in 1 .. m PROVE g[k] = Up(ns, g[k - 1])
  <2>1. k \in 0 .. m /\ k - 1 \in 0 .. m /\ k - 1 # m
    BY <1>4
  <2>2. g[k - 1] = f[k - 1]
    BY <2>1
  <2>3. CASE k = m
    BY <2>1, <2>2, <2>3
  <2>4. CASE k # m
    <3>1. k \in 1 .. m - 1
      BY <2>4, <1>4
    <3> QED BY <2>1, <2>2, <2>4, <3>1, <1>6
  <2> QED BY <2>3, <2>4
<1>10. Ups(ns, n, g, m)
  <2> HIDE DEF g
  <2> QED BY <1>7, <1>8, <1>9 DEF Ups
<1> QED BY <1>2, <1>10

\* The way up ends, and what is above a node is what comes before the end.
LEMMA UpsEnd ==
  ASSUME NEW ns \in Seq(NodeSet), Upward(ns), NEW n \in Elements(ns), NEW f, Ups(ns, n, f, Len(ns))
  PROVE  \E m \in 0 .. Len(ns) - 1 : /\ {j \in 1 .. Len(ns) : f[j] # NIL} = 1 .. m
                                     /\ \A j \in 0 .. m : f[j] # NIL
                                     /\ f[m + 1] = NIL
<1> DEFINE N == Len(ns)
           E == {NIL} \cup Elements(ns)
           T == {k \in 0 .. N : f[k] = NIL}
           S == {k \in 0 .. N : f[k] # NIL /\ f[k] + k > n}
<1>1. N \in Nat /\ n \in 1 .. N /\ n # NIL
  BY DEF Elements, NIL
<1>2. f \in [0 .. N -> E] /\ f[0] = n /\ \A k \in 1 .. N : f[k] = Up(ns, f[k - 1])
  BY DEF Ups
<1> HIDE DEF N
<1>3. \A k \in 1 .. N : /\ k - 1 \in 0 .. N /\ k \in 0 .. N /\ f[k - 1] \in E /\ f[k] \in Nat /\ f[k - 1] \in Nat
                        /\ (f[k - 1] = NIL => f[k] = NIL) /\ (f[k - 1] # NIL => f[k] < f[k - 1])
  <2> TAKE k \in 1 .. N
  <2>1. k - 1 \in 0 .. N /\ k \in 0 .. N
    BY <1>1
  <2>2. f[k - 1] \in E /\ f[k] \in E /\ f[k] = Up(ns, f[k - 1])
    BY <2>1, <1>2
  <2> QED BY <2>1, <2>2, UpIs
<1>4. S = {}
  <2> SUFFICES ASSUME S # {} PROVE FALSE
    OBVIOUS
  <2>1. PICK k \in S : \A l \in S : k <= l
    <3>1. S \in SUBSET Nat
      OBVIOUS
    <3> HIDE DEF S
    <3> QED BY <3>1, LeastNumber
  <2>2. k # 0
    BY <2>1, <1>1, <1>2
  <2>3. k \in 1 .. N /\ k - 1 \notin S
    BY <2>1, <2>2, <1>1
  <2>4. f[k] < f[k - 1] /\ f[k - 1] # NIL /\ f[k - 1] \in Nat /\ f[k] \in Nat /\ k - 1 \in 0 .. N
    BY <2>1, <2>3, <1>3
  <2>5. f[k - 1] + (k - 1) <= n
    BY <2>3, <2>4, <1>1
  <2> QED BY <2>1, <2>3, <2>4, <2>5, <1>1
<1>5. N \in T
  <2> SUFFICES ASSUME f[N] # NIL PROVE FALSE
    BY <1>1
  <2>1. N \in 1 .. N /\ f[N] \in Nat /\ f[N] # 0
    BY <1>1, <1>3 DEF NIL
  <2>2. ~ (f[N] + N > n)
    BY <2>1, <1>4
  <2> QED BY <2>1, <2>2, <1>1
<1>6. PICK t \in T : \A l \in T : t <= l
  <2>1. T \in SUBSET Nat /\ T # {}
    BY <1>5
  <2> HIDE DEF T
  <2> QED BY <2>1, LeastNumber
<1> DEFINE m == t - 1
<1>7. t # 0
  BY <1>1, <1>2, <1>6
<1>8. m \in 0 .. N - 1 /\ m + 1 = t /\ f[t] = NIL /\ t \in 1 .. N
  BY <1>1, <1>6, <1>7
<1>9. \A j \in 0 .. m : f[j] # NIL
  <2> TAKE j \in 0 .. m
  <2>1. j \in 0 .. N /\ j < t
    BY <1>1, <1>8
  <2> QED BY <2>1, <1>6
<1>10. \A j \in t .. N : f[j] = NIL
  <2> DEFINE R == {j \in t .. N : f[j] # NIL}
  <2> SUFFICES ASSUME R # {} PROVE FALSE
    OBVIOUS
  <2>1. PICK k \in R : \A l \in R : k <= l
    <3>1. R \in SUBSET Nat
      BY <1>1, <1>8
    <3> HIDE DEF R
    <3> QED BY <3>1, LeastNumber
  <2>2. k # t
    BY <2>1, <1>8
  <2>3. k - 1 \in t .. N /\ k \in 1 .. N /\ k - 1 \notin R
    BY <2>1, <2>2, <1>1, <1>8
  <2> QED BY <2>1, <2>3, <1>3
<1>11. {j \in 1 .. N : f[j] # NIL} = 1 .. m
  <2>1. \A j \in 1 .. N : f[j] # NIL => j \in 1 .. m
    <3> TAKE j \in 1 .. N
    <3>1. j \in t .. N \/ j \in 1 .. m
      BY <1>1, <1>8
    <3> QED BY <3>1, <1>10
  <2>2. \A j \in 1 .. m : j \in 1 .. N /\ j \in 0 .. m
    BY <1>1, <1>8
  <2> QED BY <2>1, <2>2, <1>9
<1> QED BY <1>8, <1>9, <1>11 DEF N

At(n, A, k) == IF k = 0 THEN n ELSE A[k]
Lineage(ns, n, A, m) ==
  /\ A = [k \in 1 .. m |-> A[k]]
  /\ \A k \in 0 .. m : /\ At(n, A, k) \in Elements(ns)
                       /\ ns[At(n, A, k)].parent = IF k = m THEN NIL ELSE A[k + 1]

LEMMA AncestorsAre ==
  ASSUME NEW c \in ReaderSet, Upward(c.nodes), NEW n \in Elements(c.nodes), NEW A, A = Ancestors(c, n)
  PROVE  \E m \in Nat : Lineage(c.nodes, n, A, m)
<1> DEFINE ns == c.nodes
           N == Len(ns)
           Is(f) == f = [k \in 0 .. N |-> IF k = 0 THEN n ELSE IF f[k - 1] = NIL THEN NIL
                                          ELSE ns[f[k - 1]].parent]
           up == CHOOSE f : Is(f)
<1>1. ns \in Seq(NodeSet) /\ N \in Nat
  BY DEF ReaderSet
<1>2. A = [k \in 1 .. Cardinality({j \in 1 .. N : up[j] # NIL}) |-> up[k]]
  BY DEF Ancestors
<1>3. Is(up)
  <2>1. PICK f : Ups(ns, n, f, N)
    <3> HIDE DEF ns, N
    <3> QED BY <1>1, UpsExist DEF ns
  <2>2. f \in [0 .. N -> {NIL} \cup Elements(ns)] /\ f[0] = n /\ \A k \in 1 .. N : f[k] = Up(ns, f[k - 1])
    BY <2>1 DEF Ups
  <2>3. \A k \in 0 .. N : f[k] = IF k = 0 THEN n ELSE IF f[k - 1] = NIL THEN NIL ELSE ns[f[k - 1]].parent
    <3> TAKE k \in 0 .. N
    <3>1. CASE k = 0
      BY <3>1, <2>2
    <3>2. CASE k # 0
      <4>1. k \in 1 .. N
        BY <3>2, <1>1
      <4> QED BY <3>2, <4>1, <2>2 DEF Up
    <3> QED BY <3>1, <3>2
  <2>4. Is(f)
    BY <2>2, <2>3
  <2> HIDE DEF Is
  <2> QED BY <2>4
<1> HIDE DEF up
<1>4. Ups(ns, n, up, N)
  <2> DEFINE E == {NIL} \cup Elements(ns)
             T == {k \in 0 .. N : up[k] \notin E}
  <2>1. up = [k \in 0 .. N |-> IF k = 0 THEN n ELSE IF up[k - 1] = NIL THEN NIL ELSE ns[up[k - 1]].parent]
    BY <1>3
  <2>2. DOMAIN up = 0 .. N /\ up[0] = n /\ up = [k \in 0 .. N |-> up[k]]
    BY <2>1, <1>1
  <2>3. \A k \in 1 .. N : up[k] = Up(ns, up[k - 1])
    <3> TAKE k \in 1 .. N
    <3>1. k \in 0 .. N /\ k # 0
      BY <1>1
    <3> QED BY <3>1, <2>1 DEF Up
  <2>4. T = {}
    <3> SUFFICES ASSUME T # {} PROVE FALSE
      OBVIOUS
    <3>1. PICK k \in T : \A l \in T : k <= l
      <4>1. T \in SUBSET Nat
        OBVIOUS
      <4> HIDE DEF T
      <4> QED BY <4>1, LeastNumber
    <3>2. k # 0
      BY <3>1, <2>2
    <3>3. k \in 1 .. N /\ k - 1 \in 0 .. N /\ k - 1 \notin T
      BY <3>1, <3>2, <1>1
    <3>4. up[k - 1] \in E /\ up[k] = Up(ns, up[k - 1])
      BY <3>3, <2>3
    <3>5. up[k] \in E
      <4> HIDE DEF ns
      <4> QED BY <3>4, <1>1, UpIs DEF ns
    <3> QED BY <3>1, <3>5
  <2> QED BY <2>2, <2>3, <2>4 DEF Ups
<1> HIDE DEF Is
<1>5. PICK m \in 0 .. N - 1 : /\ {j \in 1 .. N : up[j] # NIL} = 1 .. m
                              /\ \A j \in 0 .. m : up[j] # NIL
                              /\ up[m + 1] = NIL
  <2> HIDE DEF ns
  <2> QED BY <1>1, <1>4, UpsEnd DEF ns
<1>6. A = [k \in 1 .. m |-> up[k]] /\ m \in Nat
  <2>1. m \in Nat /\ 1 \in Int /\ m \in Int
    BY <1>1, <1>5
  <2>2. Cardinality(1 .. m) = IF 1 > m THEN 0 ELSE m - 1 + 1
    BY <2>1, FS_Interval
  <2>3. Cardinality(1 .. m) = m
    BY <2>1, <2>2
  <2> QED BY <2>1, <2>3, <1>2, <1>5
<1>7. \A k \in 0 .. m : At(n, A, k) = up[k]
  <2> TAKE k \in 0 .. m
  <2>1. k = 0 \/ k \in 1 .. m
    BY <1>6
  <2> QED BY <2>1, <1>4, <1>6 DEF At, Ups
<1>8. \A k \in 0 .. m : /\ At(n, A, k) \in Elements(ns)
                        /\ ns[At(n, A, k)].parent = IF k = m THEN NIL ELSE A[k + 1]
  <2> TAKE k \in 0 .. m
  <2>1. k \in 0 .. N /\ k + 1 \in 1 .. N /\ (k + 1) - 1 = k /\ (k # m => k + 1 \in 1 .. m)
    BY <1>1, <1>5, <1>6
  <2>2. up[k] \in Elements(ns) /\ up[k] # NIL
    BY <2>1, <1>4, <1>5 DEF Ups
  <2>3. up[k + 1] = Up(ns, up[k])
    BY <2>1, <1>4 DEF Ups
  <2>4. ns[up[k]].parent = up[k + 1]
    BY <2>2, <2>3 DEF Up
  <2>5. ns[up[k]].parent = IF k = m THEN NIL ELSE A[k + 1]
    BY <2>1, <2>4, <1>5, <1>6
  <2> QED BY <2>2, <2>5, <1>7
<1>9. A = [k \in 1 .. m |-> A[k]]
  BY <1>6
<1> QED BY <1>6, <1>8, <1>9 DEF Lineage

LEMMA LineageIs ==
  ASSUME NEW ns \in Seq(NodeSet), NEW n, NEW A, NEW m \in Nat, Lineage(ns, n, A, m)
  PROVE  /\ A \in Seq(Nat) /\ DOMAIN A = 1 .. m /\ \A k \in 1 .. m : A[k] = At(n, A, k)
         /\ \A k \in 0 .. m : /\ At(n, A, k) \in Elements(ns) /\ At(n, A, k) \in Nat /\ At(n, A, k) # NIL
                              /\ ns[At(n, A, k)].parent = IF k = m THEN NIL ELSE At(n, A, k + 1)
<1>1. A = [k \in 1 .. m |-> A[k]] /\ \A k \in 1 .. m : A[k] = At(n, A, k)
  BY DEF Lineage, At
<1>2. \A k \in 0 .. m : /\ At(n, A, k) \in Elements(ns) /\ At(n, A, k) \in Nat /\ At(n, A, k) # NIL
                        /\ ns[At(n, A, k)].parent = IF k = m THEN NIL ELSE At(n, A, k + 1)
  <2> TAKE k \in 0 .. m
  <2>1. At(n, A, k) \in Elements(ns) /\ ns[At(n, A, k)].parent = IF k = m THEN NIL ELSE A[k + 1]
    BY DEF Lineage
  <2>2. At(n, A, k) \in Nat /\ At(n, A, k) # NIL
    BY <2>1 DEF Elements, NIL
  <2>3. A[k + 1] = At(n, A, k + 1)
    BY DEF At
  <2> QED BY <2>1, <2>2, <2>3
<1>3. \A k \in 1 .. m : A[k] \in Nat
  <2> TAKE k \in 1 .. m
  <2>1. k \in 0 .. m
    OBVIOUS
  <2> QED BY <2>1, <1>1, <1>2
<1>4. A \in Seq(Nat) /\ DOMAIN A = 1 .. m
  <2>1. A \in [1 .. m -> Nat]
    BY <1>1, <1>3
  <2> QED BY <2>1
<1> QED BY <1>1, <1>2, <1>4

IsFirst(S, k) == k \in S /\ \A j \in S : k <= j

LEMMA FirstIs ==
  ASSUME NEW S \in SUBSET Nat, NEW k, IsFirst(S, k)
  PROVE  (CHOOSE i \in S : \A j \in S : i <= j) = k
<1> DEFINE m == CHOOSE i \in S : \A j \in S : i <= j
<1>1. m \in S /\ \A j \in S : m <= j
  BY DEF IsFirst
<1> HIDE DEF m
<1>2. m <= k /\ k <= m /\ m \in Nat /\ k \in Nat
  BY <1>1 DEF IsFirst
<1>3. m = k
  BY <1>2
<1> QED BY <1>3 DEF m

LEMMA Preceded ==
  ASSUME NEW x \in Nat, NEW s \in Seq(Nat), NEW t, t = <<x>> \o s
  PROVE  DOMAIN t = 1 .. Len(s) + 1 /\ t[1] = x /\ \A i \in 1 .. Len(s) : t[i + 1] = s[i]
OBVIOUS

\* An element's base URI is that of the entity it came from.
LEMMA BaseFollows ==
  ASSUME b \in ReaderSet, Upward(b.nodes), BasesKnown(b.nodes, bases), NEW n \in Elements(b.nodes)
  PROVE  BaseOf(n) = bases[n]
<1> DEFINE ns == b.nodes
           A == Ancestors(b, n)
           P == <<n>> \o A
           flagged == {k \in DOMAIN P : ns[P[k]].base # NIL}
<1>1. ns \in Seq(NodeSet)
  BY DEF ReaderSet
<1>2. BaseOf(n) = IF flagged = {} THEN 1
                  ELSE ns[P[CHOOSE k \in flagged : \A j \in flagged : k <= j]].base
  BY DEF BaseOf
<1>3. PICK m \in Nat : Lineage(ns, n, A, m)
  BY AncestorsAre
<1> HIDE DEF A
<1>4. /\ A \in Seq(Nat) /\ DOMAIN A = 1 .. m /\ \A k \in 1 .. m : A[k] = At(n, A, k)
      /\ \A k \in 0 .. m : /\ At(n, A, k) \in Elements(ns) /\ At(n, A, k) \in Nat /\ At(n, A, k) # NIL
                           /\ ns[At(n, A, k)].parent = IF k = m THEN NIL ELSE At(n, A, k + 1)
  <2> HIDE DEF ns
  <2> QED BY <1>1, <1>3, LineageIs
<1>5. At(n, A, 0) = n
  BY DEF At
<1>6. DOMAIN P = 1 .. m + 1 /\ \A k \in 0 .. m : k + 1 \in DOMAIN P /\ P[k + 1] = At(n, A, k)
  <2>1. n \in Nat /\ Len(A) = m
    BY <1>4, <1>5
  <2>2. A \in Seq(Nat) /\ P = <<n>> \o A
    BY <1>4
  <2> HIDE DEF P
  <2>3. DOMAIN P = 1 .. Len(A) + 1 /\ P[1] = n /\ \A i \in 1 .. Len(A) : P[i + 1] = A[i]
    BY <2>1, <2>2, Preceded
  <2>5. DOMAIN P = 1 .. m + 1 /\ P[1] = n /\ \A i \in 1 .. m : P[i + 1] = A[i]
    BY <2>1, <2>3
  <2> SUFFICES ASSUME NEW k \in 0 .. m PROVE k + 1 \in DOMAIN P /\ P[k + 1] = At(n, A, k)
    BY <2>5
  <2>6. k = 0 \/ k \in 1 .. m
    OBVIOUS
  <2> QED BY <2>5, <2>6, <1>4, <1>5
<1> HIDE DEF P
<1> DEFINE S == {k \in 0 .. m : /\ \A j \in 0 .. k - 1 : ns[At(n, A, j)].base = NIL
                                /\ bases[At(n, A, k)] # bases[n]}
<1>7. \A k \in 0 .. m :
        bases[At(n, A, k)] = IF ns[At(n, A, k)].base # NIL THEN ns[At(n, A, k)].base
                             ELSE IF k = m THEN 1 ELSE bases[At(n, A, k + 1)]
  <2> TAKE k \in 0 .. m
  <2>1. /\ At(n, A, k) \in Elements(ns) /\ ns[At(n, A, k)].parent = IF k = m THEN NIL ELSE At(n, A, k + 1)
        /\ k # m => At(n, A, k + 1) # NIL
    <3>1. k # m => k + 1 \in 0 .. m
      OBVIOUS
    <3> QED BY <3>1, <1>4
  <2> QED BY <2>1 DEF BasesKnown, Elements
<1>8. S = {}
  <2> SUFFICES ASSUME S # {} PROVE FALSE
    OBVIOUS
  <2>1. PICK k \in S : \A l \in S : k <= l
    <3>1. S \in SUBSET Nat
      OBVIOUS
    <3> HIDE DEF S
    <3> QED BY <3>1, LeastNumber
  <2>2. k # 0
    BY <2>1, <1>5
  <2>3. k - 1 \in 0 .. m /\ (k - 1) + 1 = k /\ k - 1 # m /\ k - 1 \notin S /\ k - 1 \in 0 .. k - 1
    BY <2>1, <2>2
  <2>4. ns[At(n, A, k - 1)].base = NIL
    BY <2>1, <2>3
  <2>5. \A j \in 0 .. (k - 1) - 1 : j \in 0 .. k - 1
    BY <2>1
  <2>6. bases[At(n, A, k - 1)] = bases[n]
    BY <2>1, <2>3, <2>5
  <2>7. bases[At(n, A, k - 1)] = bases[At(n, A, k)]
    BY <2>3, <2>4, <1>7
  <2> QED BY <2>1, <2>6, <2>7
<1> HIDE DEF ns
<1>9. ASSUME NEW k \in 0 .. m, \A j \in 0 .. k - 1 : ns[At(n, A, j)].base = NIL
      PROVE  bases[At(n, A, k)] = bases[n]
  BY <1>8, <1>9
<1>10. CASE flagged = {}
  <2>1. \A k \in 0 .. m : ns[At(n, A, k)].base = NIL
    BY <1>6, <1>10
  <2>2. m \in 0 .. m /\ \A j \in 0 .. m - 1 : j \in 0 .. m
    OBVIOUS
  <2>3. bases[At(n, A, m)] = bases[n]
    BY <2>1, <2>2, <1>9
  <2> QED BY <2>1, <2>2, <2>3, <1>2, <1>7, <1>10
<1>11. CASE flagged # {}
  <2>1. flagged \in SUBSET Nat
    BY <1>6
  <2>2. PICK f \in flagged : \A j \in flagged : f <= j
    <3> HIDE DEF flagged
    <3> QED BY <2>1, <1>11, LeastNumber
  <2>3. (CHOOSE k \in flagged : \A j \in flagged : k <= j) = f
    <3>1. IsFirst(flagged, f)
      BY <2>2 DEF IsFirst
    <3> HIDE DEF flagged
    <3> QED BY <2>1, <3>1, FirstIs
  <2>4. BaseOf(n) = ns[P[f]].base
    <3> HIDE DEF flagged
    <3> QED BY <2>3, <1>2, <1>11
  <2> DEFINE k == f - 1
  <2>5. k \in 0 .. m /\ k + 1 = f
    BY <2>2, <1>6
  <2>6. P[f] = At(n, A, k) /\ ns[At(n, A, k)].base # NIL
    BY <2>2, <2>5, <1>6
  <2>7. \A j \in 0 .. k - 1 : ns[At(n, A, j)].base = NIL
    <3> TAKE j \in 0 .. k - 1
    <3>1. j \in 0 .. m /\ j + 1 < f
      BY <2>5
    <3>2. j + 1 \in DOMAIN P /\ P[j + 1] = At(n, A, j) /\ j + 1 \notin flagged
      BY <3>1, <2>2, <2>5, <1>6
    <3> QED BY <3>2
  <2> HIDE DEF k
  <2>8. bases[At(n, A, k)] = bases[n]
    BY <2>5, <2>7, <1>9
  <2> QED BY <2>4, <2>5, <2>6, <2>8, <1>7
<1> QED BY <1>10, <1>11

\* What is above the last open element are the other open ones.
LEMMA LineageIsOpen ==
  ASSUME NEW ns \in Seq(NodeSet), NEW op \in Seq(OpenSet), OnBranch(ns, op), op # <<>>,
         NEW A, NEW m \in Nat, Lineage(ns, Top(op).node, A, m)
  PROVE  m = Len(op) - 1 /\ DOMAIN A = 1 .. m /\ \A k \in 1 .. m : A[k] = op[Len(op) - k].node
<1> DEFINE L == Len(op)
           n == Top(op).node
           S == {k \in 0 .. m : k >= L \/ At(n, A, k) # op[L - k].node}
<1>1. L \in Nat /\ L > 0 /\ DOMAIN op = 1 .. L /\ n = op[L].node
  BY DEF Top
<1> HIDE DEF L, n
<1>2. /\ DOMAIN A = 1 .. m /\ (\A k \in 1 .. m : A[k] = At(n, A, k))
      /\ \A k \in 0 .. m : /\ At(n, A, k) # NIL
                           /\ ns[At(n, A, k)].parent = IF k = m THEN NIL ELSE At(n, A, k + 1)
  BY LineageIs DEF n
<1>3. \A i \in 1 .. L : op[i].node # NIL /\ ns[op[i].node].parent = IF i = 1 THEN NIL ELSE op[i - 1].node
  <2> TAKE i \in 1 .. L
  <2>1. op[i].node \in DOMAIN ns
    BY <1>1 DEF OnBranch
  <2>2. op[i].node # NIL
    BY <2>1 DEF NIL
  <2> QED BY <2>2, <1>1 DEF OnBranch, ParentIn
<1>4. S = {}
  <2> SUFFICES ASSUME S # {} PROVE FALSE
    OBVIOUS
  <2>1. PICK k \in S : \A l \in S : k <= l
    <3>1. S \in SUBSET Nat
      OBVIOUS
    <3> HIDE DEF S
    <3> QED BY <3>1, LeastNumber
  <2>2. k # 0
    <3>1. At(n, A, 0) = n /\ L - 0 = L /\ ~ (0 >= L)
      BY <1>1 DEF At
    <3> QED BY <3>1, <2>1, <1>1
  <2>3. k - 1 \in 0 .. m /\ (k - 1) + 1 = k /\ k - 1 # m /\ k - 1 \notin S /\ k \in 0 .. m
    BY <2>1, <2>2
  <2>4. k - 1 < L /\ At(n, A, k - 1) = op[L - (k - 1)].node
    BY <2>3, <1>1
  <2> DEFINE i == L - (k - 1)
  <2>5. i \in 1 .. L /\ i - 1 = L - k /\ (i # 1 => k < L)
    BY <2>3, <2>4, <1>1
  <2> HIDE DEF i
  <2>6. ns[op[i].node].parent = At(n, A, k) /\ At(n, A, k) # NIL
    BY <2>3, <2>4, <1>2 DEF i
  <2>7. i # 1 /\ At(n, A, k) = op[L - k].node
    BY <2>5, <2>6, <1>3
  <2> QED BY <2>1, <2>3, <2>5, <2>7, <1>1
<1>5. \A k \in 0 .. m : k < L /\ At(n, A, k) = op[L - k].node
  BY <1>1, <1>4
<1>6. m = L - 1
  <2> DEFINE i == L - m
  <2>1. m < L /\ ns[op[i].node].parent = NIL
    BY <1>2, <1>5
  <2>2. i \in 1 .. L /\ (i # 1 => i - 1 \in 1 .. L)
    BY <2>1, <1>1
  <2> HIDE DEF i
  <2>3. i = 1
    BY <2>1, <2>2, <1>3
  <2> QED BY <2>3, <1>1 DEF i
<1>7. \A k \in 1 .. m : k \in 0 .. m
  OBVIOUS
<1> QED BY <1>2, <1>5, <1>6, <1>7 DEF L

\* The nearest flag is that of the last open element that has one.
LEMMA NearestIs ==
  ASSUME NEW c \in ReaderSet, Upward(c.nodes), NEW op \in Seq(OpenSet), OnBranch(c.nodes, op), op # <<>>,
         NEW F, F = {i \in 1 .. Len(op) - 1 : c.nodes[op[i].node].space # "none"}, NEW n, n = Top(op).node
  PROVE  /\ F = {} => NearestSpace(c, n) = "none"
         /\ \A i : IsLast(F, i) => NearestSpace(c, n) = c.nodes[op[i].node].space
<1> DEFINE ns == c.nodes
           A == Ancestors(c, n)
           L == Len(op)
           flagged == {k \in DOMAIN A : ns[A[k]].space # "none"}
<1>1. ns \in Seq(NodeSet) /\ L \in Nat /\ L > 0 /\ n \in Elements(ns)
  <2>1. ns \in Seq(NodeSet) /\ L \in Nat /\ L > 0 /\ L \in DOMAIN op
    BY DEF ReaderSet
  <2> QED BY <2>1 DEF OnBranch, Elements, Top
<1>2. NearestSpace(c, n) = IF flagged = {} THEN "none"
                           ELSE ns[A[CHOOSE k \in flagged : \A j \in flagged : k <= j]].space
  BY DEF NearestSpace
<1>3. PICK m \in Nat : Lineage(ns, n, A, m)
  BY <1>1, AncestorsAre
<1> HIDE DEF A
<1>4. m = L - 1 /\ DOMAIN A = 1 .. m /\ \A k \in 1 .. m : A[k] = op[L - k].node
  <2> HIDE DEF ns
  <2> QED BY <1>1, <1>3, LineageIsOpen DEF ns
<1> HIDE DEF ns, L
<1>5. \A k : k \in flagged <=> k \in 1 .. m /\ L - k \in F
  <2> TAKE k
  <2>1. k \in 1 .. m => L - k \in 1 .. L - 1
    BY <1>1, <1>4
  <2>2. k \in flagged <=> k \in 1 .. m /\ ns[A[k]].space # "none"
    BY <1>4
  <2>3. k \in 1 .. m => A[k] = op[L - k].node
    BY <1>4
  <2>4. \A i : i \in F <=> i \in 1 .. L - 1 /\ ns[op[i].node].space # "none"
    BY DEF ns, L
  <2> HIDE DEF flagged
  <2> QED BY <2>1, <2>2, <2>3, <2>4
<1>6. flagged \in SUBSET Nat
  BY <1>5
<1>7. F \in SUBSET (1 .. L - 1)
  BY DEF L
<1> HIDE DEF flagged
<1>8. ASSUME F = {} PROVE NearestSpace(c, n) = "none"
  BY <1>2, <1>5, <1>8
<1>9. ASSUME NEW i, IsLast(F, i) PROVE NearestSpace(c, n) = ns[op[i].node].space
  <2> DEFINE k == L - i
  <2>1. i \in F /\ i \in 1 .. L - 1 /\ \A j \in F : j <= i
    BY <1>7, <1>9 DEF IsLast
  <2>2. k \in 1 .. m /\ L - k = i
    BY <2>1, <1>1, <1>4
  <2>3. k \in flagged
    BY <2>1, <2>2, <1>5
  <2>4. \A j \in flagged : k <= j
    <3> TAKE j \in flagged
    <3>1. j \in 1 .. m /\ L - j \in F /\ L - j <= i
      BY <2>1, <1>5
    <3> QED BY <3>1, <2>1, <1>1
  <2> HIDE DEF k
  <2>5. (CHOOSE f \in flagged : \A j \in flagged : f <= j) = k
    <3>1. IsFirst(flagged, k)
      BY <2>3, <2>4 DEF IsFirst
    <3> QED BY <3>1, <1>6, FirstIs
  <2>6. NearestSpace(c, n) = ns[A[k]].space
    BY <2>3, <2>5, <1>2
  <2> QED BY <2>2, <2>6, <1>4
<1> QED BY <1>8, <1>9 DEF ns

(* -------------------------------- xml:space -------------------------------- *)
SaysOf(e, v) == e.attr.is = "space" /\ e.attr.value = v

LEMMA SaysAre ==
  ASSUME NEW op \in Seq(OpenSet)
  PROVE  /\ Len(op) \in Nat /\ DOMAIN op = 1 .. Len(op)
         /\ \A v : Says(op, v) \in SUBSET (1 .. Len(op)) /\ IsFiniteSet(Says(op, v))
         /\ Again(op) \in SUBSET Says(op, "default") /\ IsFiniteSet(Again(op))
         /\ \A i \in Says(op, "preserve") : i \notin Says(op, "default") /\ i \notin Again(op)
<1>1. Len(op) \in Nat /\ DOMAIN op = 1 .. Len(op) /\ IsFiniteSet(1 .. Len(op))
  BY FS_Interval
<1>2. \A v : Says(op, v) \in SUBSET (1 .. Len(op))
  BY <1>1 DEF Says
<1>3. Again(op) \in SUBSET Says(op, "default") /\ Again(op) \in SUBSET (1 .. Len(op))
  BY <1>2 DEF Again
<1>4. \A S \in SUBSET (1 .. Len(op)) : IsFiniteSet(S)
  BY <1>1, FS_Subset
<1>5. \A i \in Says(op, "preserve") : i \notin Says(op, "default")
  BY DEF Says
<1> QED BY <1>1, <1>2, <1>3, <1>4, <1>5

LEMMA SaysOpened ==
  ASSUME NEW op \in Seq(OpenSet), NEW e \in OpenSet, NEW op2, OneMore(op, op2, e),
         NEW m, m = Len(op) + 1
  PROVE  /\ \A v : Says(op2, v) = Says(op, v) \cup (IF SaysOf(e, v) THEN {m} ELSE {})
         /\ Again(op2) = Again(op) \cup
              (IF SaysOf(e, "default") /\ Says(op, "preserve") # {} THEN {m} ELSE {})
<1>1. /\ DOMAIN op = 1 .. Len(op) /\ DOMAIN op2 = 1 .. m /\ op2[m] = e /\ Len(op) \in Nat
      /\ \A i \in 1 .. Len(op) : op2[i] = op[i]
  BY OneMoreIs
<1>2. \A i : i \in DOMAIN op2 <=> i \in DOMAIN op \/ i = m
  BY <1>1
<1>3. \A v : Says(op2, v) = Says(op, v) \cup (IF SaysOf(e, v) THEN {m} ELSE {})
  <2> TAKE v
  <2>1. \A i : i \in Says(op2, v) <=> i \in Says(op, v) \/ (i = m /\ SaysOf(e, v))
    <3> TAKE i
    <3>1. CASE i = m
      <4>1. i \notin DOMAIN op /\ i \in DOMAIN op2 /\ op2[i] = e
        BY <3>1, <1>1
      <4> QED BY <3>1, <4>1 DEF Says, SaysOf
    <3>2. CASE i # m
      BY <3>2, <1>1, <1>2 DEF Says
    <3> QED BY <3>1, <3>2
  <2> QED BY <2>1
<1>4. \A v, i : i \in Says(op, v) => i \in 1 .. Len(op) /\ i < m
  BY <1>1 DEF Says
<1>5. \A i : i \in Again(op2) <=> i \in Again(op) \/ (i = m /\ SaysOf(e, "default") /\ Says(op, "preserve") # {})
  <2> TAKE i
  <2> DEFINE D == Says(op, "default")
             P == Says(op, "preserve")
             D2 == Says(op2, "default")
             P2 == Says(op2, "preserve")
  <2>1. /\ D2 = D \cup (IF SaysOf(e, "default") THEN {m} ELSE {})
        /\ P2 = P \cup (IF SaysOf(e, "preserve") THEN {m} ELSE {})
    BY <1>3
  <2>2. (i \in Again(op2) <=> i \in D2 /\ \E j \in P2 : j < i) /\ (i \in Again(op) <=> i \in D /\ \E j \in P : j < i)
    BY DEF Again
  <2>3. (\A j \in D : j < m /\ j \in Nat) /\ (\A j \in P : j < m /\ j \in Nat) /\ m \in Nat
    BY <1>1, <1>4
  <2> HIDE DEF D, P, D2, P2
  <2>4. ~ (SaysOf(e, "default") /\ SaysOf(e, "preserve"))
    BY DEF SaysOf
  <2>5. CASE i = m
    <3>1. i \notin D /\ ((\E j \in P2 : j < i) <=> P # {})
      BY <2>1, <2>3, <2>5
    <3>2. (i \in D2 <=> SaysOf(e, "default")) /\ (SaysOf(e, "default") => P2 = P)
      BY <2>1, <2>4, <2>5, <3>1
    <3>3. (\A j \in P : j < i)
      BY <2>3, <2>5
    <3> QED BY <3>1, <3>2, <3>3, <2>2, <2>5 DEF P
  <2>6. CASE i # m
    <3>1. (i \in D2 <=> i \in D)
      BY <2>1, <2>6
    <3>2. i \in D => ((\E j \in P2 : j < i) <=> \E j \in P : j < i)
      BY <2>1, <2>3
    <3> QED BY <3>1, <3>2, <2>2, <2>6
  <2> QED BY <2>5, <2>6
<1> QED BY <1>3, <1>5

LEMMA SaysClosed ==
  ASSUME NEW op \in Seq(OpenSet), op # <<>>, NEW op2, OneLess(op, op2), NEW m, m = Len(op)
  PROVE  /\ \A v : Says(op2, v) = Says(op, v) \ {m}
         /\ Again(op2) = Again(op) \ {m}
<1>1. /\ DOMAIN op = 1 .. m /\ DOMAIN op2 = 1 .. m - 1 /\ m \in Nat
      /\ \A i \in 1 .. m - 1 : op2[i] = op[i]
  BY OneLessIs
<1>2. \A i : i \in DOMAIN op2 <=> i \in DOMAIN op /\ i # m
  BY <1>1
<1>3. \A v : Says(op2, v) = Says(op, v) \ {m}
  <2> TAKE v
  <2>1. \A i : i \in Says(op2, v) <=> i \in Says(op, v) /\ i # m
    BY <1>1, <1>2 DEF Says
  <2> QED BY <2>1
<1>4. \A v, i : i \in Says(op, v) => i \in 1 .. m
  BY <1>1 DEF Says
<1>5. \A i : i \in Again(op2) <=> i \in Again(op) /\ i # m
  <2> TAKE i
  <2> DEFINE D == Says(op, "default")
             P == Says(op, "preserve")
             D2 == Says(op2, "default")
             P2 == Says(op2, "preserve")
  <2>1. D2 = D \ {m} /\ P2 = P \ {m}
    BY <1>3
  <2>2. (i \in Again(op2) <=> i \in D2 /\ \E j \in P2 : j < i) /\ (i \in Again(op) <=> i \in D /\ \E j \in P : j < i)
    BY DEF Again
  <2>3. (\A j \in D : j <= m /\ j \in Nat) /\ (\A j \in P : j <= m /\ j \in Nat) /\ m \in Nat
    BY <1>1, <1>4
  <2> HIDE DEF D, P, D2, P2
  <2>4. i \in D => \A j \in P : j < i => j # m
    BY <2>3
  <2> QED BY <2>1, <2>2, <2>4
<1> QED BY <1>3, <1>5

\* The last element that says something decides; it is one that counts.
LEMMA LastSaysIs ==
  ASSUME NEW op \in Seq(OpenSet)
  PROVE  /\ Says(op, "preserve") = {} => ~LastSays(op, "preserve")
         /\ Says(op, "preserve") # {} => \A i : IsLast(Says(op, "preserve") \cup Again(op), i) =>
                (LastSays(op, "preserve") <=> i \in Says(op, "preserve"))
<1> DEFINE P == Says(op, "preserve")
           D == Says(op, "default")
           A == Again(op)
<1>1. P = {} => ~LastSays(op, "preserve")
  BY DEF LastSays
<1>2. A = {i \in D : \E j \in P : j < i} /\ A \subseteq D
  BY DEF Again
<1>3. LastSays(op, "preserve") <=> \E i \in P : \A j \in P \cup D : j <= i
  BY DEF LastSays
<1>4. P \in SUBSET Nat /\ D \in SUBSET Nat
  BY SaysAre
<1> HIDE DEF P, D, A
<1>5. ASSUME P # {}, NEW i, IsLast(P \cup A, i) PROVE LastSays(op, "preserve") <=> i \in P
  <2>1. i \in P \cup A /\ (\A j \in P \cup A : j <= i) /\ i \in Nat
    BY <1>2, <1>4, <1>5 DEF IsLast
  <2>2. ASSUME i \in P PROVE LastSays(op, "preserve")
    <3>1. \A j \in P \cup D : j <= i
      <4> TAKE j \in P \cup D
      <4>1. CASE j \in P \cup A
        BY <4>1, <2>1
      <4>2. CASE j \notin P \cup A
        BY <4>2, <2>1, <2>2, <1>2, <1>4
      <4> QED BY <4>1, <4>2
    <3> QED BY <3>1, <2>2, <1>3
  <2>3. ASSUME LastSays(op, "preserve") PROVE i \in P
    <3>1. PICK k \in P : \A j \in P \cup D : j <= k
      BY <2>3, <1>3
    <3>2. i <= k /\ k <= i /\ k \in Nat
      BY <3>1, <2>1, <1>2, <1>4
    <3>3. i = k
      BY <3>2, <2>1
    <3> QED BY <3>1, <3>3
  <2> QED BY <2>2, <2>3
<1> QED BY <1>1, <1>5 DEF P, A

\* What an element's attribute does to the counters, the flag and the node.
Entering(attr, p, d, w, p2, d2, w2, v) ==
  \/ /\ attr.is = "space" /\ attr.value = "preserve"
     /\ p2 = p + 1 /\ d2 = d /\ w2 = FALSE /\ v = "preserve"
  \/ /\ attr.is = "space" /\ attr.value # "preserve" /\ p > 0
     /\ p2 = p /\ d2 = d + 1 /\ w2 = TRUE /\ v = "default"
  \/ /\ attr.is = "space" => attr.value # "preserve" /\ ~ (p > 0)
     /\ p2 = p /\ d2 = d /\ w2 = w /\ v = "none"

LEMMA SpaceAttr ==
  ASSUME NEW e \in OpenSet, e.attr.is = "space"
  PROVE  e.attr.value \in {"preserve", "default"}
<1>1. e.attr \in Attrs
  BY DEF OpenSet
<1>2. e.attr \in [is : {"space"}, value : {"preserve", "default"}]
  <2>1. e.attr \notin {[is |-> "none"]}
    OBVIOUS
  <2>2. e.attr \notin [is : {"declares"}, prefix : Prefixes, uri : Uris]
    OBVIOUS
  <2>3. e.attr \notin [is : {"prefixed"}, prefix : Prefixes \ {""}]
    OBVIOUS
  <2> QED BY <1>1, <2>1, <2>2, <2>3, Zenon DEF Attrs
<1> QED BY <1>2

LEMMA CountMore ==
  ASSUME NEW S, IsFiniteSet(S), NEW x, x \notin S
  PROVE  Cardinality(S \cup {x}) = Cardinality(S) + 1 /\ Cardinality(S) \in Nat
BY FS_AddElement, FS_CardinalityType

LEMMA CountLess ==
  ASSUME NEW S, IsFiniteSet(S), NEW x \in S
  PROVE  Cardinality(S \ {x}) = Cardinality(S) - 1 /\ Cardinality(S) \in Nat
BY FS_RemoveElement, FS_CardinalityType

LEMMA CountNone ==
  ASSUME NEW S, IsFiniteSet(S)
  PROVE  Cardinality(S) \in Nat /\ (Cardinality(S) = 0 <=> S = {}) /\ (Cardinality(S) > 0 <=> S # {})
<1>1. Cardinality(S) \in Nat /\ (Cardinality(S) = 0 <=> S = {})
  BY FS_CardinalityType, FS_EmptySet
<1> QED BY <1>1

SpacedOn(op, op2, v, p2, d2, w2) ==
  /\ Spaced(p2, d2, w2, op2) /\ SpaceOf(op2, Len(op) + 1) = v
  /\ \A i \in DOMAIN op : SpaceOf(op2, i) = SpaceOf(op, i)

LEMMA SpacedOpened ==
  ASSUME NEW op \in Seq(OpenSet), NEW e \in OpenSet, NEW op2, OneMore(op, op2, e),
         NEW p, NEW d, NEW w, Spaced(p, d, w, op), NEW p2, NEW d2, NEW w2, NEW v,
         Entering(e.attr, p, d, w, p2, d2, w2, v)
  PROVE  SpacedOn(op, op2, v, p2, d2, w2)
<1> DEFINE P == Says(op, "preserve")
           D == Says(op, "default")
           A == Again(op)
           P2 == Says(op2, "preserve")
           D2 == Says(op2, "default")
           A2 == Again(op2)
           m == Len(op) + 1
<1>1. /\ P2 = P \cup (IF SaysOf(e, "preserve") THEN {m} ELSE {})
      /\ D2 = D \cup (IF SaysOf(e, "default") THEN {m} ELSE {})
      /\ A2 = A \cup (IF SaysOf(e, "default") /\ P # {} THEN {m} ELSE {})
  BY SaysOpened
<1>2. /\ m \in Nat /\ DOMAIN op = 1 .. m - 1 /\ m - 1 \in Nat /\ m \notin DOMAIN op
      /\ P \in SUBSET (1 .. m - 1) /\ D \in SUBSET (1 .. m - 1) /\ A \in SUBSET D
      /\ IsFiniteSet(P) /\ IsFiniteSet(A) /\ (\A i \in P : i \notin A)
  BY SaysAre
<1>3. /\ p = Cardinality(P) /\ d = Cardinality(A) /\ w \in BOOLEAN /\ (w <=> ~LastSays(op, "preserve"))
  BY DEF Spaced
<1>4. (Spaced(p2, d2, w2, op2) <=> /\ p2 = Cardinality(P2) /\ d2 = Cardinality(A2) /\ w2 \in BOOLEAN
                                   /\ (w2 <=> ~LastSays(op2, "preserve")))
  BY DEF Spaced
<1>5. (LastSays(op, "preserve") <=> \E i \in P : \A j \in P \cup D : j <= i)
      /\ (LastSays(op2, "preserve") <=> \E i \in P2 : \A j \in P2 \cup D2 : j <= i)
  BY DEF LastSays
<1>6. /\ \A i : SpaceOf(op, i) = IF i \in P THEN "preserve" ELSE IF i \in A THEN "default" ELSE "none"
      /\ \A i : SpaceOf(op2, i) = IF i \in P2 THEN "preserve" ELSE IF i \in A2 THEN "default" ELSE "none"
  BY DEF SpaceOf
<1>7. SaysOf(e, "preserve") => ~SaysOf(e, "default")
  BY DEF SaysOf
<1>8. (e.attr.is = "space" /\ e.attr.value = "preserve" <=> SaysOf(e, "preserve"))
      /\ (e.attr.is = "space" /\ e.attr.value # "preserve" <=> SaysOf(e, "default"))
  BY SpaceAttr DEF SaysOf
<1>9. \/ SaysOf(e, "preserve") /\ p2 = p + 1 /\ d2 = d /\ w2 = FALSE /\ v = "preserve"
      \/ SaysOf(e, "default") /\ p > 0 /\ p2 = p /\ d2 = d + 1 /\ w2 = TRUE /\ v = "default"
      \/ ~SaysOf(e, "preserve") /\ (SaysOf(e, "default") => ~ (p > 0)) /\ p2 = p /\ d2 = d /\ w2 = w /\ v = "none"
  BY <1>8 DEF Entering
<1>10. (p > 0 <=> P # {}) /\ m \notin P /\ m \notin A /\ m \notin D /\ p \in Nat /\ d \in Nat
  <2>1. Cardinality(P) > 0 <=> P # {}
    <3> HIDE DEF P
    <3> QED BY <1>2, CountNone
  <2>2. Cardinality(P) \in Nat /\ Cardinality(A) \in Nat
    BY <1>2, FS_CardinalityType
  <2> QED BY <2>1, <2>2, <1>2, <1>3
<1>11. Cardinality(P \cup {m}) = Cardinality(P) + 1 /\ Cardinality(A \cup {m}) = Cardinality(A) + 1
  <2> HIDE DEF P, A, m
  <2> QED BY <1>2, <1>10, CountMore
<1> HIDE DEF P, D, A, P2, D2, A2, m
<1>12. CASE SaysOf(e, "preserve") /\ p2 = p + 1 /\ d2 = d /\ w2 = FALSE /\ v = "preserve"
  <2>1. P2 = P \cup {m} /\ D2 = D /\ A2 = A
    BY <1>1, <1>7, <1>12
  <2>2. LastSays(op2, "preserve")
    <3>1. m \in P2 /\ \A j \in P2 \cup D2 : j <= m
      BY <2>1, <1>2
    <3> QED BY <3>1, <1>5
  <2>3. Spaced(p2, d2, w2, op2)
    BY <2>1, <2>2, <1>3, <1>4, <1>11, <1>12
  <2>4. SpaceOf(op2, m) = v /\ \A i \in DOMAIN op : SpaceOf(op2, i) = SpaceOf(op, i)
    BY <2>1, <1>2, <1>6, <1>12
  <2> QED BY <2>3, <2>4 DEF m, SpacedOn
<1>13. CASE SaysOf(e, "default") /\ p > 0 /\ p2 = p /\ d2 = d + 1 /\ w2 = TRUE /\ v = "default"
  <2>1. P2 = P /\ D2 = D \cup {m} /\ A2 = A \cup {m}
    BY <1>1, <1>7, <1>10, <1>13
  <2>2. ~LastSays(op2, "preserve")
    <3>1. \A i \in P2 : ~ (m <= i)
      BY <2>1, <1>2
    <3> QED BY <3>1, <2>1, <1>5
  <2>3. Spaced(p2, d2, w2, op2)
    BY <2>1, <2>2, <1>3, <1>4, <1>11, <1>13
  <2>4. SpaceOf(op2, m) = v /\ \A i \in DOMAIN op : SpaceOf(op2, i) = SpaceOf(op, i)
    BY <2>1, <1>2, <1>6, <1>10, <1>13
  <2> QED BY <2>3, <2>4 DEF m, SpacedOn
<1>14. CASE ~SaysOf(e, "preserve") /\ (SaysOf(e, "default") => ~ (p > 0)) /\ p2 = p /\ d2 = d /\ w2 = w /\ v = "none"
  <2>1. P2 = P /\ A2 = A
    BY <1>1, <1>10, <1>14
  <2>2. LastSays(op2, "preserve") <=> LastSays(op, "preserve")
    <3>1. CASE SaysOf(e, "default")
      <4>1. P = {}
        BY <3>1, <1>10, <1>14
      <4> QED BY <4>1, <2>1, <1>5
    <3>2. CASE ~SaysOf(e, "default")
      <4>1. D2 = D
        BY <3>2, <1>1
      <4> QED BY <4>1, <2>1, <1>5
    <3> QED BY <3>1, <3>2
  <2>3. Spaced(p2, d2, w2, op2)
    BY <2>1, <2>2, <1>3, <1>4, <1>14
  <2>4. SpaceOf(op2, m) = v /\ \A i \in DOMAIN op : SpaceOf(op2, i) = SpaceOf(op, i)
    BY <2>1, <1>6, <1>10, <1>14
  <2> QED BY <2>3, <2>4 DEF m, SpacedOn
<1> QED BY <1>9, <1>12, <1>13, <1>14

\* What the end of an element does to them; near is the flag above it.
Leaving(op, near, p, d, w, p2, d2, w2) ==
  LET m == Len(op)
  IN  \/ /\ p > 0 /\ SpaceOf(op, m) = "preserve" /\ p2 = p - 1 /\ d2 = d
         /\ w2 <=> p2 = 0 \/ near = "default" \/ w
      \/ /\ p > 0 /\ SpaceOf(op, m) = "default" /\ p2 = p /\ d2 = d - 1
         /\ d2 = 0 => (w2 <=> w /\ p = 0)
         /\ d2 # 0 /\ m > 1 => /\ SpaceOf(op, m - 1) # "none"
                               /\ w2 <=> SpaceOf(op, m - 1) = "default"
      \/ (p > 0 => SpaceOf(op, m) = "none") /\ p2 = p /\ d2 = d /\ w2 = w

\* What the nearest of the elements above the last says.
NearIs(op, near) ==
  \A i : IsLast({k \in 1 .. Len(op) - 1 : SpaceOf(op, k) # "none"}, i) => near = SpaceOf(op, i)
SpacedLeft(op, op2, p2, d2, w2) ==
  Spaced(p2, d2, w2, op2) /\ \A i \in DOMAIN op2 : SpaceOf(op2, i) = SpaceOf(op, i)

LEMMA SpacedClosed ==
  ASSUME NEW op \in Seq(OpenSet), op # <<>>, NEW op2, OneLess(op, op2),
         NEW p, NEW d, NEW w, Spaced(p, d, w, op), NEW p2, NEW d2, NEW w2 \in BOOLEAN, NEW near,
         Leaving(op, near, p, d, w, p2, d2, w2), NearIs(op, near)
  PROVE  SpacedLeft(op, op2, p2, d2, w2)
<1> USE DEF SpacedLeft
<1> DEFINE P == Says(op, "preserve")
           D == Says(op, "default")
           A == Again(op)
           P2 == Says(op2, "preserve")
           D2 == Says(op2, "default")
           A2 == Again(op2)
           m == Len(op)
           F == {i \in 1 .. m - 1 : SpaceOf(op, i) # "none"}
<1>17. \A i : IsLast(F, i) => near = SpaceOf(op, i)
  BY DEF NearIs
<1>1. P2 = P \ {m} /\ D2 = D \ {m} /\ A2 = A \ {m}
  BY SaysClosed
<1>2. /\ m \in Nat /\ DOMAIN op = 1 .. m /\ m > 0 /\ DOMAIN op2 = 1 .. m - 1 /\ op2 \in Seq(OpenSet)
      /\ P \in SUBSET (1 .. m) /\ D \in SUBSET (1 .. m) /\ A \in SUBSET D
      /\ IsFiniteSet(P) /\ IsFiniteSet(A) /\ (\A i \in P : i \notin A /\ i \notin D)
      /\ IsFiniteSet(P2) /\ IsFiniteSet(A2)
  <2>1. op2 \in Seq(OpenSet) /\ DOMAIN op2 = 1 .. m - 1 /\ m \in Nat /\ m > 0
    BY OneLessIs
  <2>2. IsFiniteSet(P2) /\ IsFiniteSet(A2)
    BY <2>1, SaysAre
  <2>3. /\ DOMAIN op = 1 .. m /\ P \in SUBSET (1 .. m) /\ D \in SUBSET (1 .. m) /\ A \in SUBSET D
        /\ IsFiniteSet(P) /\ IsFiniteSet(A) /\ (\A i \in P : i \notin A /\ i \notin D)
    BY SaysAre
  <2> QED BY <2>1, <2>2, <2>3
<1>3. p = Cardinality(P) /\ d = Cardinality(A) /\ w \in BOOLEAN /\ (w <=> ~LastSays(op, "preserve"))
  BY DEF Spaced
<1>4. (Spaced(p2, d2, w2, op2) <=> /\ p2 = Cardinality(P2) /\ d2 = Cardinality(A2) /\ w2 \in BOOLEAN
                                   /\ (w2 <=> ~LastSays(op2, "preserve")))
  BY DEF Spaced
<1>5. (LastSays(op, "preserve") <=> \E i \in P : \A j \in P \cup D : j <= i)
      /\ (LastSays(op2, "preserve") <=> \E i \in P2 : \A j \in P2 \cup D2 : j <= i)
  BY DEF LastSays
<1>6. /\ \A i : SpaceOf(op, i) = IF i \in P THEN "preserve" ELSE IF i \in A THEN "default" ELSE "none"
      /\ \A i : SpaceOf(op2, i) = IF i \in P2 THEN "preserve" ELSE IF i \in A2 THEN "default" ELSE "none"
  BY DEF SpaceOf
<1>7. A = {i \in D : \E j \in P : j < i}
  BY DEF Again
<1>8. /\ P2 = {} => ~LastSays(op2, "preserve")
      /\ P2 # {} => \A i : IsLast(P2 \cup A2, i) => (LastSays(op2, "preserve") <=> i \in P2)
  BY <1>2, LastSaysIs
<1>9. /\ p > 0 <=> P # {}
      /\ p \in Nat /\ d \in Nat /\ Cardinality(P2) \in Nat /\ Cardinality(A2) \in Nat
      /\ Cardinality(P2) = 0 <=> P2 = {}
      /\ Cardinality(A2) = 0 <=> A2 = {}
  <2> HIDE DEF P, A, P2, A2
  <2> QED BY <1>2, <1>3, CountNone
<1>10. \/ /\ p > 0 /\ SpaceOf(op, m) = "preserve" /\ p2 = p - 1 /\ d2 = d
          /\ w2 <=> p2 = 0 \/ near = "default" \/ w
       \/ /\ p > 0 /\ SpaceOf(op, m) = "default" /\ p2 = p /\ d2 = d - 1
          /\ d2 = 0 => (w2 <=> w /\ p = 0)
          /\ d2 # 0 /\ m > 1 => /\ SpaceOf(op, m - 1) # "none"
                                /\ w2 <=> SpaceOf(op, m - 1) = "default"
       \/ (p > 0 => SpaceOf(op, m) = "none") /\ p2 = p /\ d2 = d /\ w2 = w
  BY DEF Leaving
<1>11. F = {i \in 1 .. m - 1 : SpaceOf(op, i) # "none"}
  OBVIOUS
<1> HIDE DEF P, D, A, P2, D2, A2, m, F
<1>12. \A i \in DOMAIN op2 : SpaceOf(op2, i) = SpaceOf(op, i)
  BY <1>1, <1>2, <1>6
<1>13. F = P2 \cup A2 /\ F \in SUBSET (1 .. m - 1)
  <2>1. \A i : i \in F <=> i \in 1 .. m - 1 /\ (i \in P \/ i \in A)
    BY <1>6, <1>11
  <2>2. \A i : i \in 1 .. m - 1 <=> i \in 1 .. m /\ i # m
    BY <1>2
  <2>3. \A i : i \in P \/ i \in A => i \in 1 .. m
    BY <1>2
  <2> QED BY <2>1, <2>2, <2>3, <1>1
<1>14. CASE /\ p > 0 /\ SpaceOf(op, m) = "preserve" /\ p2 = p - 1 /\ d2 = d
            /\ w2 <=> p2 = 0 \/ near = "default" \/ w
  <2>1. m \in P /\ m \notin A /\ A2 = A
    BY <1>1, <1>2, <1>6, <1>14
  <2>2. p2 = Cardinality(P2) /\ d2 = Cardinality(A2)
    BY <2>1, <1>1, <1>2, <1>3, <1>14, CountLess
  <2>3. ~w
    <3>1. \A j \in P \cup D : j <= m
      BY <1>2
    <3> QED BY <3>1, <2>1, <1>3, <1>5
  <2>4. CASE p2 = 0
    <3>1. P2 = {}
      BY <2>2, <2>4, <1>9
    <3> QED BY <3>1, <2>2, <2>4, <1>4, <1>8, <1>12, <1>14
  <2>5. CASE p2 # 0
    <3>1. P2 # {} /\ F # {}
      BY <2>2, <2>5, <1>9, <1>13
    <3>2. PICK i \in F : \A j \in F : j <= i
      <4>1. m - 1 \in Nat
        BY <1>2
      <4> QED BY <3>1, <4>1, <1>13, LastPosition
    <3>3. IsLast(F, i) /\ i \in 1 .. m - 1
      BY <3>2, <1>13 DEF IsLast
    <3>4. near = SpaceOf(op2, i)
      BY <3>3, <1>2, <1>12, <1>17
    <3>5. LastSays(op2, "preserve") <=> i \in P2
      BY <3>1, <3>3, <1>8, <1>13
    <3>6. near = "default" <=> i \notin P2
      BY <3>2, <3>4, <1>6, <1>13
    <3>7. w2 <=> ~LastSays(op2, "preserve")
      BY <3>5, <3>6, <2>3, <2>5, <1>14
    <3> QED BY <3>7, <2>2, <1>4, <1>12
  <2> QED BY <2>4, <2>5
<1>15. CASE /\ p > 0 /\ SpaceOf(op, m) = "default" /\ p2 = p /\ d2 = d - 1
            /\ d2 = 0 => (w2 <=> w /\ p = 0)
            /\ d2 # 0 /\ m > 1 => /\ SpaceOf(op, m - 1) # "none"
                                  /\ w2 <=> SpaceOf(op, m - 1) = "default"
  <2>1. m \in A /\ m \notin P /\ P2 = P /\ P # {}
    BY <1>1, <1>2, <1>6, <1>9, <1>15
  <2>2. p2 = Cardinality(P2) /\ d2 = Cardinality(A2)
    BY <2>1, <1>1, <1>2, <1>3, <1>15, CountLess
  <2>3. m > 1
    <3>1. PICK j \in P : j < m
      BY <2>1, <1>7
    <3> QED BY <3>1, <1>2
  <2>4. CASE d2 = 0
    <3>1. A2 = {} /\ P2 # {} /\ F = P2
      BY <2>1, <2>2, <2>4, <1>9, <1>13
    <3>2. PICK i \in F : \A j \in F : j <= i
      <4>1. m - 1 \in Nat
        BY <1>2
      <4> QED BY <3>1, <4>1, <1>13, LastPosition
    <3>3. IsLast(P2 \cup A2, i) /\ i \in P2
      BY <3>1, <3>2, <1>13 DEF IsLast
    <3>4. LastSays(op2, "preserve")
      BY <3>1, <3>3, <1>8
    <3>5. ~w2
      BY <2>4, <1>9, <1>15
    <3> QED BY <3>4, <3>5, <2>2, <1>4, <1>12
  <2>5. CASE d2 # 0
    <3> DEFINE i == m - 1
    <3>1. i \in F /\ \A j \in F : j <= i
      BY <2>3, <2>5, <1>2, <1>11, <1>13, <1>15
    <3>2. w2 <=> SpaceOf(op, i) = "default"
      BY <2>3, <2>5, <1>15
    <3> HIDE DEF i
    <3>3. IsLast(P2 \cup A2, i)
      BY <3>1, <1>13 DEF IsLast
    <3>4. LastSays(op2, "preserve") <=> i \in P2
      BY <3>3, <2>1, <1>8
    <3>5. SpaceOf(op, i) = SpaceOf(op2, i)
      BY <3>1, <1>2, <1>12, <1>13
    <3>6. SpaceOf(op2, i) = "default" <=> i \notin P2
      BY <3>1, <1>6, <1>13
    <3>7. w2 <=> ~LastSays(op2, "preserve")
      BY <3>2, <3>4, <3>5, <3>6
    <3> QED BY <3>7, <2>2, <1>4, <1>12
  <2> QED BY <2>4, <2>5
<1>16. CASE (p > 0 => SpaceOf(op, m) = "none") /\ p2 = p /\ d2 = d /\ w2 = w
  <2>1. CASE p > 0
    <3>1. m \notin P /\ m \notin A /\ P # {}
      BY <2>1, <1>6, <1>9, <1>16
    <3>2. m \notin D
      <4> SUFFICES ASSUME m \in D PROVE FALSE
        OBVIOUS
      <4>1. PICK j \in P : j \in 1 .. m
        BY <3>1, <1>2
      <4>2. j < m
        BY <3>1, <4>1, <1>2
      <4> QED BY <4>1, <4>2, <3>1, <1>7
    <3>3. P2 = P /\ D2 = D /\ A2 = A
      BY <3>1, <3>2, <1>1
    <3>4. LastSays(op2, "preserve") <=> LastSays(op, "preserve")
      BY <3>3, <1>5
    <3> QED BY <3>3, <3>4, <1>3, <1>4, <1>12, <1>16
  <2>2. CASE ~ (p > 0)
    <3>1. P = {} /\ A = {} /\ P2 = {} /\ A2 = {}
      BY <2>2, <1>1, <1>7, <1>9
    <3>2. ~LastSays(op2, "preserve") /\ ~LastSays(op, "preserve")
      BY <3>1, <1>5
    <3> QED BY <3>1, <3>2, <1>3, <1>4, <1>12, <1>16
  <2> QED BY <2>1, <2>2
<1> QED BY <1>10, <1>14, <1>15, <1>16

(* ----------------------------- an element opens ---------------------------- *)
\* One node more, an element; of the others only the kids of one changed.
Opening(ns, ms, parent, base, uri, space) ==
  LET n == Len(ns) + 1
  IN  /\ Len(ns) \in Nat /\ Len(ms) = n /\ DOMAIN ns = 1 .. Len(ns) /\ DOMAIN ms = 1 .. n /\ KidsIn(ms)
      /\ \A i \in DOMAIN ns : /\ ms[i].kind = ns[i].kind /\ ms[i].parent = ns[i].parent
                              /\ ms[i].space = ns[i].space /\ ms[i].ns = ns[i].ns /\ ms[i].base = ns[i].base
      /\ ms[n].kind = "element" /\ ms[n].parent = parent /\ ms[n].base = base
      /\ ms[n].ns = uri /\ ms[n].space = space

\* A node has a base URI of its own where its entity is another one.
OwnBase(c) == IF Top(c.baseURIstack).base # Base THEN Base ELSE NIL

LEMMA WithBaseOwn ==
  ASSUME TypeOK, run = "parsing", NEW c, NEW n \in NodeSet, n.base = NIL
  PROVE  WithBase(c, n).base = OwnBase(c)
<1>1. Base \in Nat
  BY BaseIs
<1> QED BY <1>1, NodeBase DEF WithBase, OwnBase

LEMMA NewElementOpens ==
  ASSUME TypeOK, run = "parsing", NEW c \in ReaderSet, KidsIn(c.nodes), BaseHeld(c),
         NEW par, NEW h, par = IF c.depth = 0 THEN NIL ELSE c.current,
         h = IF c.depth = 0 THEN Root ELSE c.current,
         h \in DOMAIN c.nodes, NEW d, d = NewElement(c)
  PROVE  /\ d \in ReaderSet /\ Differ(c, d, {"nodes", "current", "baseURIstack"})
         /\ d.current = Len(c.nodes) + 1
         /\ Pushed(c.baseURIstack, d.baseURIstack, Base, c.depth)
         /\ Opening(c.nodes, d.nodes, par, OwnBase(c), "none", "none")
<1> DEFINE ns == c.nodes
           el == "element"
           none == <<>>
           node == Node(el, par, none)
           new == WithBase(c, node)
           a == AppendNode(c, h, node)
           p == PushBase(a)
           n == Len(ns) + 1
<1>1. ns \in Seq(NodeSet) /\ Len(ns) \in Nat /\ par \in Nat /\ n \in Nat
  BY DEF ReaderSet, NIL
<1>2. d = [p EXCEPT !.current = n]
  BY DEF NewElement
<1>3. /\ node \in NodeSet /\ node.kind = "element" /\ node.parent = par /\ node.kids = <<>>
      /\ node.base = NIL /\ node.space = "none"
  <2>1. el \in NodeKinds /\ none \in Seq(Piece)
    BY DEF NodeKinds
  <2> HIDE DEF el, none
  <2>2. node \in NodeSet /\ node.kind = el /\ node.parent = par /\ node.kids = <<>>
        /\ node.base = NIL /\ node.space = "none"
    BY <1>1, <2>1, NodeIs
  <2> QED BY <2>2 DEF el
<1>4. node.ns = "none"
  BY DEF Node
<1> HIDE DEF node
<1>5. /\ new \in NodeSet /\ new.kind = "element" /\ new.parent = par /\ new.kids = <<>>
      /\ new.ns = "none" /\ new.space = "none" /\ new.base = OwnBase(c)
  <2>1. new \in NodeSet /\ \A g \in NodeFields \ {"base"} : new[g] = node[g]
    BY <1>3, WithBaseIs
  <2>2. new.base = OwnBase(c)
    BY <1>3, WithBaseOwn
  <2> QED BY <1>3, <1>4, <2>1, <2>2 DEF NodeFields
<1>6. a \in ReaderSet /\ Differ(c, a, {"nodes"}) /\ Grown(ns, a.nodes, h, new)
  BY <1>1, <1>3, AppendNodeIs DEF new
<1> HIDE DEF new, a
<1>7. a.baseURIstack = c.baseURIstack /\ a.depth = c.depth /\ BaseHeld(a)
  BY <1>6 DEF BaseHeld, Differ, Fields
<1>8. p \in ReaderSet /\ Differ(a, p, {"baseURIstack"})
  BY <1>6, <1>7, PushBaseIs
<1>9. Pushed(c.baseURIstack, p.baseURIstack, Base, c.depth)
  <2>1. CASE Top(a.baseURIstack).base = Base
    BY <2>1, <1>7 DEF PushBase, Pushed
  <2>2. CASE Top(a.baseURIstack).base # Base
    <3> DEFINE x == [base |-> Base, depth |-> a.depth]
               s == Append(a.baseURIstack, x)
    <3>1. p = [a EXCEPT !.baseURIstack = s]
      BY <2>2 DEF PushBase
    <3> HIDE DEF s
    <3>2. p.baseURIstack = s
      BY <3>1, <1>6 DEF ReaderSet
    <3> QED BY <2>2, <3>2, <1>7 DEF Pushed, s
  <2> QED BY <2>1, <2>2
<1> HIDE DEF p
<1>10. d \in ReaderSet /\ d.current = n /\ Differ(p, d, {"current"})
  <2> HIDE DEF n
  <2> QED BY <1>1, <1>2, <1>8, WithCurrent
<1>11. Differ(c, d, {"nodes", "current", "baseURIstack"})
  BY <1>6, <1>8, <1>10 DEF Differ
<1>12. d.nodes = a.nodes /\ d.baseURIstack = p.baseURIstack
  BY <1>8, <1>10 DEF Differ, Fields
<1>13. Opening(ns, a.nodes, par, OwnBase(c), "none", "none")
  <2> DEFINE ms == a.nodes
  <2>1. ms \in Seq(NodeSet)
    BY <1>6 DEF ReaderSet
  <2>2. /\ KidsIn(ms) /\ Len(ms) = Len(ns) + 1 /\ Len(ns) \in Nat /\ DOMAIN ns = 1 .. Len(ns)
        /\ DOMAIN ms = 1 .. Len(ms) /\ ms[Len(ns) + 1] = new
        /\ \A i \in DOMAIN ns : \A g \in NodeFields \ {"kids"} : ms[i][g] = ns[i][g]
    <3> HIDE DEF ns, ms
    <3>1. h \in DOMAIN ns /\ KidsIn(ns) /\ Grown(ns, ms, h, new)
      BY <1>6 DEF ns, ms
    <3> QED BY <3>1, <1>1, <1>5, <2>1, GrownKids
  <2>3. \A i \in DOMAIN ns : /\ ms[i].kind = ns[i].kind /\ ms[i].parent = ns[i].parent
                             /\ ms[i].space = ns[i].space /\ ms[i].ns = ns[i].ns /\ ms[i].base = ns[i].base
    BY <2>2 DEF NodeFields
  <2> HIDE DEF ns, ms
  <2> QED BY <2>2, <2>3, <1>5 DEF Opening, ms
<1> QED BY <1>9, <1>10, <1>11, <1>12, <1>13

\* Something of the new element is set.
LEMMA OpeningSet ==
  ASSUME NEW ns, NEW ms \in Seq(NodeSet), NEW par, NEW base, NEW uri, NEW space,
         Opening(ns, ms, par, base, uri, space), NEW n, n = Len(ns) + 1, NEW x \in NodeSet,
         x.kind = ms[n].kind, x.parent = ms[n].parent, x.base = ms[n].base, x.kids = ms[n].kids,
         NEW os, os = [ms EXCEPT ![n] = x]
  PROVE  os \in Seq(NodeSet) /\ Opening(ns, os, par, base, x.ns, x.space)
<1>1. /\ Len(ns) \in Nat /\ Len(ms) = n /\ DOMAIN ns = 1 .. Len(ns) /\ DOMAIN ms = 1 .. n /\ KidsIn(ms)
      /\ \A i \in DOMAIN ns : /\ ms[i].kind = ns[i].kind /\ ms[i].parent = ns[i].parent
                              /\ ms[i].space = ns[i].space /\ ms[i].ns = ns[i].ns /\ ms[i].base = ns[i].base
      /\ ms[n].kind = "element" /\ ms[n].parent = par /\ ms[n].base = base
  BY DEF Opening
<1>2. n \in DOMAIN ms /\ n \notin DOMAIN ns
  BY <1>1
<1>3. /\ os \in Seq(NodeSet) /\ Len(os) = Len(ms) /\ os[n] = x /\ DOMAIN os = DOMAIN ms
      /\ \A i \in DOMAIN ms \ {n} : os[i] = ms[i]
  BY <1>2, Changed
<1>4. KidsIn(os)
  <2>1. \A i \in DOMAIN ms : os[i].kids = ms[i].kids
    BY <1>3
  <2> QED BY <2>1, <1>1, <1>3 DEF KidsIn
<1>5. \A i \in DOMAIN ns : os[i] = ms[i]
  <2>1. \A i \in DOMAIN ns : i \in DOMAIN ms \ {n}
    BY <1>1, <1>2
  <2> QED BY <2>1, <1>3
<1> QED BY <1>1, <1>3, <1>4, <1>5 DEF Opening

NsSet(c, n, u, d) == d = [c EXCEPT !.nodes[n].ns = u]

LEMMA NamedOpens ==
  ASSUME NEW c \in ReaderSet, NEW ns, NEW par, NEW base, NEW space, NEW old,
         Opening(ns, c.nodes, par, base, old, space), NEW n, n = Len(ns) + 1,
         NEW u \in Uris \cup {"none"}, NEW d, NsSet(c, n, u, d)
  PROVE  d \in ReaderSet /\ Differ(c, d, {"nodes"}) /\ Opening(ns, d.nodes, par, base, u, space)
<1> DEFINE ms == c.nodes
           x == [ms[n] EXCEPT !.ns = u]
           os == [ms EXCEPT ![n] = x]
<1>1. ms \in Seq(NodeSet) /\ n \in DOMAIN ms /\ ms[n].space = space
  BY DEF ReaderSet, Opening
<1>2. ms[n] \in NodeSet
  <2> HIDE DEF ms
  <2> QED BY <1>1, KidsAre
<1>3. x \in NodeSet /\ x.ns = u /\ \A g \in NodeFields \ {"ns"} : x[g] = ms[n][g]
  <2> HIDE DEF ms
  <2> QED BY <1>2, NodeNs
<1>4. d = [c EXCEPT !.nodes = os]
  BY DEF NsSet
<1> HIDE DEF x
<1>5. x.kind = ms[n].kind /\ x.parent = ms[n].parent /\ x.base = ms[n].base /\ x.kids = ms[n].kids
      /\ x.space = space
  BY <1>1, <1>3 DEF NodeFields
<1>6. os \in Seq(NodeSet) /\ Opening(ns, os, par, base, u, space)
  <2>1. Opening(ns, ms, par, base, old, space)
    OBVIOUS
  <2> HIDE DEF ms
  <2>2. os = [ms EXCEPT ![n] = x]
    OBVIOUS
  <2> HIDE DEF os
  <2>3. os \in Seq(NodeSet) /\ Opening(ns, os, par, base, x.ns, x.space)
    BY <1>1, <1>3, <1>5, <2>1, <2>2, OpeningSet
  <2> QED BY <2>3, <1>3, <1>5
<1> HIDE DEF os
<1>7. d \in ReaderSet /\ d.nodes = os /\ Differ(c, d, {"nodes"})
  BY <1>4, <1>6, WithNodes
<1> QED BY <1>6, <1>7

LEMMA SpacedOpens ==
  ASSUME NEW c \in ReaderSet, NEW ns, NEW par, NEW base, NEW uri, NEW old,
         Opening(ns, c.nodes, par, base, uri, old), NEW n, n = Len(ns) + 1,
         NEW v \in {"none", "preserve", "default"}, NEW d, d = [c EXCEPT !.nodes[n].space = v]
  PROVE  d \in ReaderSet /\ Differ(c, d, {"nodes"}) /\ Opening(ns, d.nodes, par, base, uri, v)
<1> DEFINE ms == c.nodes
           x == [ms[n] EXCEPT !.space = v]
           os == [ms EXCEPT ![n] = x]
<1>1. ms \in Seq(NodeSet) /\ n \in DOMAIN ms /\ ms[n].ns = uri
  BY DEF ReaderSet, Opening
<1>2. ms[n] \in NodeSet
  <2> HIDE DEF ms
  <2> QED BY <1>1, KidsAre
<1>3. x \in NodeSet /\ x.space = v /\ \A g \in NodeFields \ {"space"} : x[g] = ms[n][g]
  <2> HIDE DEF ms
  <2> QED BY <1>2, NodeSpace
<1>4. d = [c EXCEPT !.nodes = os]
  OBVIOUS
<1> HIDE DEF x
<1>5. x.kind = ms[n].kind /\ x.parent = ms[n].parent /\ x.base = ms[n].base /\ x.kids = ms[n].kids
      /\ x.ns = uri
  BY <1>1, <1>3 DEF NodeFields
<1>6. os \in Seq(NodeSet) /\ Opening(ns, os, par, base, uri, v)
  <2>1. Opening(ns, ms, par, base, uri, old)
    OBVIOUS
  <2> HIDE DEF ms
  <2>2. os = [ms EXCEPT ![n] = x]
    OBVIOUS
  <2> HIDE DEF os
  <2>3. os \in Seq(NodeSet) /\ Opening(ns, os, par, base, x.ns, x.space)
    BY <1>1, <1>3, <1>5, <2>1, <2>2, OpeningSet
  <2> QED BY <2>3, <1>3, <1>5
<1> HIDE DEF os
<1>7. d \in ReaderSet /\ d.nodes = os /\ Differ(c, d, {"nodes"})
  BY <1>4, <1>6, WithNodes
<1> QED BY <1>6, <1>7

\* The tag's element d begins in c, as element e.
Begun(c, d, e) ==
  /\ d \in ReaderSet /\ d.depth = c.depth + 1 /\ d.current = Len(c.nodes) + 1
  /\ Pushed(c.baseURIstack, d.baseURIstack, Base, c.depth)
  /\ Declares(c.activeNS, d.activeNS, e, c.depth)
  /\ \E u, v : /\ Opening(c.nodes, d.nodes, IF c.depth = 0 THEN NIL ELSE c.current, OwnBase(c), u, v)
               /\ u = LET uri == LookupIn(d.activeNS, e.prefix) IN IF uri = "" THEN "none" ELSE uri
               /\ ~opt.keepEmpties =>
                    Entering(e.attr, c.preserveDeep, c.defaultDeep, c.ignoreWhiteSpaces,
                             d.preserveDeep, d.defaultDeep, d.ignoreWhiteSpaces, v)

LEMMA OpeningBranch ==
  ASSUME NEW ns \in Seq(NodeSet), NEW ms \in Seq(NodeSet), NEW par, NEW base, NEW uri, NEW space,
         Opening(ns, ms, par, base, uri, space), Upward(ns),
         NEW op \in Seq(OpenSet), OnBranch(ns, op), NEW e \in OpenSet, e.node = Len(ns) + 1,
         NEW op2, OneMore(op, op2, e), par = IF op = <<>> THEN NIL ELSE Top(op).node
  PROVE  Upward(ms) /\ OnBranch(ms, op2)
<1> DEFINE n == Len(ns) + 1
<1>1. /\ Len(ns) \in Nat /\ DOMAIN ns = 1 .. Len(ns) /\ DOMAIN ms = 1 .. n
      /\ \A i \in DOMAIN ns : ms[i].kind = ns[i].kind /\ ms[i].parent = ns[i].parent
      /\ ms[n].kind = "element" /\ ms[n].parent = par
  BY DEF Opening
<1>2. /\ op2 \in Seq(OpenSet) /\ Len(op) \in Nat /\ Len(op2) = Len(op) + 1 /\ op2 # <<>>
      /\ op2[Len(op) + 1] = e /\ DOMAIN op = 1 .. Len(op) /\ DOMAIN op2 = 1 .. Len(op) + 1
      /\ \A i \in 1 .. Len(op) : op2[i] = op[i]
  BY OneMoreIs
<1>3. \A i \in DOMAIN op : op[i].node \in DOMAIN ns /\ ns[op[i].node].kind = "element"
                           /\ ns[op[i].node].parent = ParentIn(op, i)
  BY DEF OnBranch
<1>4. op # <<>> => Len(op) \in DOMAIN op /\ par = op[Len(op)].node
  BY <1>2 DEF Top
<1>5. Upward(ms)
  <2> SUFFICES ASSUME NEW i \in DOMAIN ms, ms[i].kind = "element", ms[i].parent # NIL
               PROVE  ms[i].parent \in 1 .. i - 1 /\ ms[ms[i].parent].kind = "element"
    BY DEF Upward
  <2>1. CASE i = n
    <3>1. op # <<>> /\ par \in DOMAIN ns /\ ns[par].kind = "element"
      BY <2>1, <1>1, <1>3, <1>4
    <3> QED BY <2>1, <3>1, <1>1
  <2>2. CASE i \in DOMAIN ns
    <3>1. ns[i].parent \in 1 .. i - 1 /\ ns[ns[i].parent].kind = "element" /\ ms[i].parent = ns[i].parent
      BY <2>2, <1>1 DEF Upward
    <3>2. ns[i].parent \in DOMAIN ns
      BY <2>2, <3>1, <1>1
    <3> QED BY <3>1, <3>2, <1>1
  <2> QED BY <2>1, <2>2, <1>1
<1>6. OnBranch(ms, op2)
  <2> SUFFICES ASSUME NEW i \in DOMAIN op2
               PROVE  /\ op2[i].node \in DOMAIN ms /\ ms[op2[i].node].kind = "element"
                      /\ ms[op2[i].node].parent = ParentIn(op2, i)
    BY DEF OnBranch
  <2>1. CASE i = Len(op) + 1
    <3>1. op2[i].node = n /\ n \in DOMAIN ms
      BY <2>1, <1>1, <1>2
    <3>2. par = ParentIn(op2, i)
      <4>1. CASE op = <<>>
        BY <4>1, <2>1, <1>2 DEF ParentIn
      <4>2. CASE op # <<>>
        <5>1. i # 1 /\ i - 1 = Len(op) /\ op2[i - 1] = op[Len(op)]
          BY <4>2, <2>1, <1>2, <1>4
        <5> QED BY <5>1, <4>2, <1>4 DEF ParentIn
      <4> QED BY <4>1, <4>2
    <3> QED BY <3>1, <3>2, <1>1
  <2>2. CASE i \in DOMAIN op
    <3>1. op2[i] = op[i] /\ ParentIn(op2, i) = ParentIn(op, i)
      <4>1. op2[i] = op[i]
        BY <2>2, <1>2
      <4>2. i # 1 => op2[i - 1] = op[i - 1]
        BY <2>2, <1>2
      <4> QED BY <4>1, <4>2 DEF ParentIn
    <3>2. op[i].node \in DOMAIN ms
      BY <2>2, <1>1, <1>3
    <3> QED BY <2>2, <3>1, <3>2, <1>1, <1>3
  <2> QED BY <2>1, <2>2, <1>2
<1> QED BY <1>5, <1>6

LEMMA OpeningBases ==
  ASSUME NEW ns \in Seq(NodeSet), NEW ms \in Seq(NodeSet), NEW par, NEW base, NEW uri, NEW space,
         Opening(ns, ms, par, base, uri, space), Upward(ns), NEW bs, BasesKnown(ns, bs),
         NEW n, n = Len(ns) + 1, n \in DOMAIN bs,
         bs[n] = IF base # NIL THEN base ELSE IF par = NIL THEN 1 ELSE bs[par]
  PROVE  BasesKnown(ms, bs)
<1>1. /\ Len(ns) \in Nat /\ DOMAIN ns = 1 .. Len(ns) /\ DOMAIN ms = 1 .. n
      /\ \A i \in DOMAIN ns : ms[i].kind = ns[i].kind /\ ms[i].parent = ns[i].parent /\ ms[i].base = ns[i].base
      /\ ms[n].parent = par /\ ms[n].base = base
  BY DEF Opening
<1>2. DOMAIN ns \subseteq DOMAIN bs /\ DOMAIN ms = DOMAIN ns \cup {n}
  BY <1>1 DEF BasesKnown
<1>3. SUFFICES ASSUME NEW i \in DOMAIN ms, ms[i].kind = "element"
               PROVE  bs[i] = IF ms[i].base # NIL THEN ms[i].base
                              ELSE IF ms[i].parent = NIL THEN 1 ELSE bs[ms[i].parent]
  BY <1>2 DEF BasesKnown
<1>4. CASE i = n
  BY <1>4, <1>1
<1>5. CASE i \in DOMAIN ns
  <2>1. ms[i].kind = ns[i].kind /\ ms[i].parent = ns[i].parent /\ ms[i].base = ns[i].base
    BY <1>5, <1>1
  <2>2. bs[i] = IF ns[i].base # NIL THEN ns[i].base
                ELSE IF ns[i].parent = NIL THEN 1 ELSE bs[ns[i].parent]
    BY <1>3, <1>5, <2>1 DEF BasesKnown
  <2> QED BY <2>1, <2>2
<1> QED BY <1>2, <1>4, <1>5

LEMMA ElementOpens ==
  ASSUME TypeOK, run = "parsing", Entities(parsers, open), NEW c, NEW bs, Stacks(c, open, bs),
         NEW n, n = Len(c.nodes) + 1, n \in DOMAIN bs, bs[n] = Base,
         NEW e \in OpenSet, e.node = n, NEW op2, OneMore(open, op2, e), NEW d, Begun(c, d, e)
  PROVE  Stacks(d, op2, bs)
<1> DEFINE ns == c.nodes
           ms == d.nodes
           par == IF c.depth = 0 THEN NIL ELSE c.current
<1>1. /\ c \in ReaderSet /\ open \in Seq(OpenSet) /\ bs \in Seq(Nat) /\ Len(ns) > 0
      /\ c.depth = Len(open)
      /\ IF open = <<>> THEN c.current \in {NIL, Root} ELSE c.current = Top(open).node
      /\ Upward(ns) /\ OnBranch(ns, open) /\ BasesKnown(ns, bs)
      /\ BaseLevels(c.baseURIstack, open, bs) /\ Spaces(c, open) /\ Namespaces(c.activeNS, open)
      /\ Named(ns, open)
  BY DEF Stacks
<1>2. /\ d \in ReaderSet /\ d.depth = c.depth + 1 /\ d.current = n
      /\ Pushed(c.baseURIstack, d.baseURIstack, Base, c.depth)
      /\ Declares(c.activeNS, d.activeNS, e, c.depth)
  BY DEF Begun
<1>3. PICK u, v : /\ Opening(ns, ms, par, OwnBase(c), u, v)
                  /\ u = LET uri == LookupIn(d.activeNS, e.prefix) IN IF uri = "" THEN "none" ELSE uri
                  /\ ~opt.keepEmpties =>
                       Entering(e.attr, c.preserveDeep, c.defaultDeep, c.ignoreWhiteSpaces,
                                d.preserveDeep, d.defaultDeep, d.ignoreWhiteSpaces, v)
  BY DEF Begun
<1>4. /\ ns \in Seq(NodeSet) /\ ms \in Seq(NodeSet) /\ c.baseURIstack \in Seq(BaseEntry)
      /\ c.activeNS \in Seq(NsEntry) /\ d.activeNS \in Seq(NsEntry)
  BY <1>1, <1>2 DEF ReaderSet, BaseEntry, NsEntry
<1>5. /\ op2 \in Seq(OpenSet) /\ Len(open) \in Nat /\ Len(op2) = Len(open) + 1 /\ op2 # <<>>
      /\ op2[Len(open) + 1] = e /\ DOMAIN open = 1 .. Len(open) /\ DOMAIN op2 = 1 .. Len(open) + 1
      /\ \A i \in 1 .. Len(open) : op2[i] = open[i]
  BY <1>1, OneMoreIs
<1>6. /\ Len(ns) \in Nat /\ Len(ms) = n /\ DOMAIN ns = 1 .. Len(ns) /\ DOMAIN ms = 1 .. n /\ KidsIn(ms)
      /\ \A i \in DOMAIN ns : /\ ms[i].kind = ns[i].kind /\ ms[i].parent = ns[i].parent
                              /\ ms[i].space = ns[i].space /\ ms[i].ns = ns[i].ns /\ ms[i].base = ns[i].base
      /\ ms[n].ns = u /\ ms[n].space = v
  BY <1>3 DEF Opening
<1>7. Base \in Nat /\ Base # NIL /\ (open = <<>> => Base = 1)
  BY BaseKnown
<1>8. par = IF open = <<>> THEN NIL ELSE Top(open).node
  <2>1. open = <<>> <=> c.depth = 0
    BY <1>1
  <2> QED BY <1>1, <2>1
<1>9. \A i \in DOMAIN open : open[i].node \in DOMAIN ns /\ op2[i] = open[i]
  BY <1>1, <1>5 DEF OnBranch
<1> HIDE DEF ns, ms, par
<1>10. Upward(ms) /\ OnBranch(ms, op2)
  BY <1>1, <1>3, <1>4, <1>8, OpeningBranch DEF ns
<1>11. BasesKnown(ms, bs)
  <2>1. bs[n] = IF OwnBase(c) # NIL THEN OwnBase(c) ELSE IF par = NIL THEN 1 ELSE bs[par]
    <3>1. CASE Top(c.baseURIstack).base # Base
      BY <3>1, <1>7 DEF OwnBase
    <3>2. CASE Top(c.baseURIstack).base = Base /\ open = <<>>
      BY <3>2, <1>7, <1>8 DEF OwnBase
    <3>3. CASE Top(c.baseURIstack).base = Base /\ open # <<>>
      <4>1. bs[Top(open).node] = Base
        BY <3>3, <1>1, <1>4, BaseTop
      <4>2. Top(open).node # NIL
        <5>1. Len(open) \in DOMAIN open
          BY <3>3, <1>1
        <5>2. Top(open).node \in DOMAIN ns
          BY <5>1, <1>9 DEF Top
        <5> QED BY <5>2, <1>6 DEF NIL
      <4> QED BY <3>3, <4>1, <4>2, <1>8 DEF OwnBase
    <3> QED BY <3>1, <3>2, <3>3
  <2>2. n = Len(ns) + 1
    BY DEF ns
  <2>3. /\ ns \in Seq(NodeSet) /\ ms \in Seq(NodeSet) /\ Upward(ns) /\ BasesKnown(ns, bs)
        /\ n \in DOMAIN bs
    BY <1>1, <1>4
  <2>4. Opening(ns, ms, par, OwnBase(c), u, v)
    BY <1>3
  <2> QED BY <2>1, <2>2, <2>3, <2>4, OpeningBases
<1>12. BaseLevels(d.baseURIstack, op2, bs)
  <2>1. Pushed(c.baseURIstack, d.baseURIstack, Base, Len(open))
    BY <1>1, <1>2
  <2> QED BY <2>1, <1>1, <1>4, <1>7, BasesOpened
<1>13. Spaces(d, op2)
  <2> SUFFICES ASSUME ~opt.keepEmpties
               PROVE  /\ Spaced(d.preserveDeep, d.defaultDeep, d.ignoreWhiteSpaces, op2)
                      /\ \A i \in DOMAIN op2 : ms[op2[i].node].space = SpaceOf(op2, i)
    BY DEF Spaces, ms
  <2>1. /\ Spaced(c.preserveDeep, c.defaultDeep, c.ignoreWhiteSpaces, open)
        /\ \A i \in DOMAIN open : ns[open[i].node].space = SpaceOf(open, i)
    BY <1>1 DEF Spaces, ns
  <2>2. /\ Spaced(d.preserveDeep, d.defaultDeep, d.ignoreWhiteSpaces, op2)
        /\ SpaceOf(op2, Len(open) + 1) = v
        /\ \A i \in DOMAIN open : SpaceOf(op2, i) = SpaceOf(open, i)
    <3> DEFINE p == c.preserveDeep
               q == c.defaultDeep
               w == c.ignoreWhiteSpaces
               p2 == d.preserveDeep
               q2 == d.defaultDeep
               w2 == d.ignoreWhiteSpaces
    <3>1. Entering(e.attr, p, q, w, p2, q2, w2, v)
      BY <1>3
    <3>2. Spaced(p, q, w, open)
      BY <2>1
    <3>4. open \in Seq(OpenSet) /\ OneMore(open, op2, e)
      BY <1>1
    <3> HIDE DEF p, q, w, p2, q2, w2
    <3>3. SpacedOn(open, op2, v, p2, q2, w2)
      BY <3>1, <3>2, <3>4, SpacedOpened
    <3> QED BY <3>3 DEF SpacedOn, p2, q2, w2
  <2>3. \A i \in DOMAIN open : ms[op2[i].node].space = SpaceOf(op2, i)
    BY <2>1, <2>2, <1>6, <1>9
  <2>4. ms[op2[Len(open) + 1].node].space = SpaceOf(op2, Len(open) + 1)
    BY <2>2, <1>5, <1>6
  <2> QED BY <2>2, <2>3, <2>4, <1>5
<1>14. /\ Namespaces(d.activeNS, op2)
       /\ \A prefix \in Prefixes : LookupIn(d.activeNS, prefix) = ScopeIn(op2, Len(open) + 1, prefix)
  <2>1. Declares(c.activeNS, d.activeNS, e, Len(open))
    BY <1>1, <1>2
  <2> QED BY <2>1, <1>1, <1>4, NamespacesOpened, SMTT(30)
<1>15. Named(ms, op2)
  <2> SUFFICES ASSUME NEW i \in DOMAIN op2
               PROVE  ms[op2[i].node].ns =
                        LET uri == ScopeIn(op2, i, op2[i].prefix) IN IF uri = "" THEN "none" ELSE uri
    BY DEF Named
  <2>1. CASE i = Len(open) + 1
    <3>1. op2[i] = e /\ ms[op2[i].node].ns = u /\ e.prefix \in Prefixes
      BY <2>1, <1>5, <1>6 DEF OpenSet
    <3>2. LookupIn(d.activeNS, e.prefix) = ScopeIn(op2, i, e.prefix)
      BY <3>1, <2>1, <1>14
    <3> QED BY <3>1, <3>2, <1>3
  <2>2. CASE i \in DOMAIN open
    <3>1. ns[open[i].node].ns =
            LET uri == ScopeIn(open, i, open[i].prefix) IN IF uri = "" THEN "none" ELSE uri
      BY <2>2, <1>1 DEF Named
    <3>2. op2[i] = open[i] /\ ms[open[i].node].ns = ns[open[i].node].ns
      BY <2>2, <1>6, <1>9
    <3>3. ScopeIn(op2, i, open[i].prefix) = ScopeIn(open, i, open[i].prefix)
      <4>1. i \in Nat /\ \A j \in 1 .. i : op2[j] = open[j]
        BY <2>2, <1>5
      <4> QED BY <4>1, ScopeKept
    <3> QED BY <3>1, <3>2, <3>3
  <2>3. i = Len(open) + 1 \/ i \in DOMAIN open
    BY <1>5
  <2> QED BY <2>1, <2>2, <2>3
<1>16. d.depth = Len(op2) /\ d.current = Top(op2).node /\ Len(ms) > 0
  BY <1>1, <1>2, <1>5, <1>6 DEF Top
<1> QED BY <1>1, <1>2, <1>5, <1>6, <1>10, <1>11, <1>12, <1>13, <1>14, <1>15, <1>16 DEF Stacks, ms

(* ------------------------------- the start tag ----------------------------- *)
EntersAs(attr, c, d, v) ==
  Entering(attr, c.preserveDeep, c.defaultDeep, c.ignoreWhiteSpaces,
           d.preserveDeep, d.defaultDeep, d.ignoreWhiteSpaces, v)
SpaceChanges == {"nodes", "preserveDeep", "defaultDeep", "ignoreWhiteSpaces"}

LEMMA EnterSpaceSays ==
  ASSUME NEW c \in ReaderSet, NEW ns, NEW par, NEW base, NEW uri,
         Opening(ns, c.nodes, par, base, uri, "none"), NEW n, n = Len(ns) + 1, NEW attr \in Attrs,
         NEW d, d = EnterSpace(c, n, attr)
  PROVE  /\ d \in ReaderSet /\ Differ(c, d, SpaceChanges)
         /\ \E v : Opening(ns, d.nodes, par, base, uri, v) /\ (~opt.keepEmpties => EntersAs(attr, c, d, v))
<1>1. CASE attr.is # "space" \/ opt.keepEmpties
  <2>1. d = c
    BY <1>1 DEF EnterSpace
  <2>2. ~opt.keepEmpties => EntersAs(attr, c, d, "none")
    BY <1>1, <2>1 DEF EntersAs, Entering
  <2> QED BY <2>1, <2>2 DEF Differ
<1>2. CASE attr.is = "space" /\ ~opt.keepEmpties /\ attr.value = "preserve"
  <2> DEFINE v == "preserve"
             x == [c EXCEPT !.nodes[n].space = v]
             p == c.preserveDeep + 1
             y == [x EXCEPT !.preserveDeep = p]
             f == FALSE
             z == [y EXCEPT !.ignoreWhiteSpaces = f]
  <2>1. d = [c EXCEPT !.nodes[n].space = "preserve", !.preserveDeep = @ + 1, !.ignoreWhiteSpaces = FALSE]
    BY <1>2 DEF EnterSpace
  <2>2. d = z
    BY <2>1
  <2>3. v \in {"none", "preserve", "default"} /\ p \in Int /\ f \in BOOLEAN
    BY DEF ReaderSet
  <2> HIDE DEF v, p, f
  <2>4. x \in ReaderSet /\ Differ(c, x, {"nodes"}) /\ Opening(ns, x.nodes, par, base, uri, v)
    BY <2>3, SpacedOpens, ZenonT(60)
  <2> HIDE DEF x
  <2>5. y \in ReaderSet /\ y.preserveDeep = p /\ Differ(x, y, {"preserveDeep"})
    BY <2>3, <2>4, WithPreserveDeep
  <2> HIDE DEF y
  <2>6. z \in ReaderSet /\ z.ignoreWhiteSpaces = f /\ Differ(y, z, {"ignoreWhiteSpaces"})
    BY <2>3, <2>5, WithIgnoreWhiteSpaces
  <2> HIDE DEF z
  <2>7. Differ(c, z, SpaceChanges)
    BY <2>4, <2>5, <2>6 DEF Differ, SpaceChanges
  <2>8. z.preserveDeep = p /\ z.defaultDeep = c.defaultDeep /\ z.nodes = x.nodes
    BY <2>4, <2>5, <2>6 DEF Differ, Fields
  <2>9. EntersAs(attr, c, z, v)
    BY <1>2, <2>6, <2>8 DEF EntersAs, Entering, p, f, v
  <2> QED BY <2>2, <2>4, <2>6, <2>7, <2>8, <2>9
<1>3. CASE attr.is = "space" /\ ~opt.keepEmpties /\ attr.value # "preserve" /\ c.preserveDeep > 0
  <2> DEFINE v == "default"
             x == [c EXCEPT !.nodes[n].space = v]
             p == c.defaultDeep + 1
             y == [x EXCEPT !.defaultDeep = p]
             f == TRUE
             z == [y EXCEPT !.ignoreWhiteSpaces = f]
  <2>1. d = [c EXCEPT !.nodes[n].space = "default", !.defaultDeep = @ + 1, !.ignoreWhiteSpaces = TRUE]
    BY <1>3 DEF EnterSpace
  <2>2. d = z
    BY <2>1
  <2>3. v \in {"none", "preserve", "default"} /\ p \in Int /\ f \in BOOLEAN
    BY DEF ReaderSet
  <2> HIDE DEF v, p, f
  <2>4. x \in ReaderSet /\ Differ(c, x, {"nodes"}) /\ Opening(ns, x.nodes, par, base, uri, v)
    BY <2>3, SpacedOpens, ZenonT(60)
  <2> HIDE DEF x
  <2>5. y \in ReaderSet /\ y.defaultDeep = p /\ Differ(x, y, {"defaultDeep"})
    BY <2>3, <2>4, WithDefaultDeep
  <2> HIDE DEF y
  <2>6. z \in ReaderSet /\ z.ignoreWhiteSpaces = f /\ Differ(y, z, {"ignoreWhiteSpaces"})
    BY <2>3, <2>5, WithIgnoreWhiteSpaces
  <2> HIDE DEF z
  <2>7. Differ(c, z, SpaceChanges)
    BY <2>4, <2>5, <2>6 DEF Differ, SpaceChanges
  <2>8. z.preserveDeep = c.preserveDeep /\ z.defaultDeep = p /\ z.nodes = x.nodes
    BY <2>4, <2>5, <2>6 DEF Differ, Fields
  <2>9. EntersAs(attr, c, z, v)
    BY <1>3, <2>6, <2>8 DEF EntersAs, Entering, p, f, v
  <2> QED BY <2>2, <2>4, <2>6, <2>7, <2>8, <2>9
<1>4. CASE attr.is = "space" /\ ~opt.keepEmpties /\ attr.value # "preserve" /\ ~ (c.preserveDeep > 0)
  <2>1. d = c
    BY <1>4 DEF EnterSpace
  <2>2. EntersAs(attr, c, d, "none")
    BY <1>4, <2>1 DEF EntersAs, Entering
  <2> QED BY <2>1, <2>2 DEF Differ
<1> QED BY <1>1, <1>2, <1>3, <1>4

LEMMA DeclareSays ==
  ASSUME NEW c \in ReaderSet, NEW e, NEW d, d = Declare(c, e.attr)
  PROVE  Declares(c.activeNS, d.activeNS, e, c.depth)
<1> DEFINE x == [depth |-> c.depth, prefix |-> e.attr.prefix, uri |-> e.attr.uri]
           s == Append(c.activeNS, x)
<1>1. CASE e.attr.is # "declares"
  BY <1>1 DEF Declare, Declares
<1>2. CASE e.attr.is = "declares" /\ InScope(c, e.attr)
  BY <1>2 DEF Declare, Declares, InScope
<1>3. CASE e.attr.is = "declares" /\ ~InScope(c, e.attr)
  <2>1. d = [c EXCEPT !.activeNS = s]
    BY <1>3 DEF Declare
  <2> HIDE DEF s
  <2>2. d.activeNS = s
    BY <2>1 DEF ReaderSet
  <2> QED BY <1>3, <2>2 DEF Declares, s
<1> QED BY <1>1, <1>2, <1>3

\* The nodes made have the base URI of the entity.
Newly(bs, bs2, N) ==
  /\ bs2 \in Seq(Nat) /\ Continued(bs, bs2) /\ Len(bs2) = N /\ DOMAIN bs2 = 1 .. N
  /\ \A i \in 1 .. N : i \notin DOMAIN bs => bs2[i] = Base

LEMMA BasesGrow ==
  ASSUME Base \in Nat, NEW bs \in Seq(Nat), NEW N \in Nat, N >= Len(bs), NEW m, m = N - Len(bs),
         NEW bs2, bs2 = bs \o [k \in 1 .. m |-> Base]
  PROVE  Newly(bs, bs2, N)
<1> DEFINE t == [k \in 1 .. m |-> Base]
<1>1. Len(bs) \in Nat /\ m \in Nat /\ DOMAIN bs = 1 .. Len(bs)
  OBVIOUS
<1>2. t \in Seq(Nat) /\ Len(t) = m /\ DOMAIN t = 1 .. m /\ \A k \in 1 .. m : t[k] = Base
  BY <1>1
<1> HIDE DEF t
<1>3. /\ bs2 \in Seq(Nat) /\ Len(bs2) = Len(bs) + Len(t) /\ DOMAIN bs2 = 1 .. Len(bs) + Len(t)
      /\ \A i \in DOMAIN bs : i \in DOMAIN bs2 /\ bs2[i] = bs[i]
      /\ \A i \in DOMAIN t : i + Len(bs) \in DOMAIN bs2 /\ bs2[i + Len(bs)] = t[i]
      /\ \A i \in DOMAIN bs2 : i \in DOMAIN bs \/ \E j \in DOMAIN t : i = j + Len(bs)
  <2>1. bs2 = bs \o t
    BY DEF t
  <2>2. IsJoin(bs, t, bs2)
    BY <1>2, <2>1, JoinIs
  <2>3. bs2 \in Seq(Nat) /\ Len(bs2) = Len(bs) + Len(t)
    BY <1>2, <2>1
  <2> QED BY <2>2, <2>3 DEF IsJoin
<1>4. Len(bs) + Len(t) = N
  BY <1>1, <1>2
<1>5. \A i \in 1 .. N : i \notin DOMAIN bs => bs2[i] = Base
  BY <1>2, <1>3, <1>4
<1> QED BY <1>3, <1>4, <1>5 DEF Newly, Continued

\* The text is put into the tree.
LEMMA HolderIs ==
  ASSUME NEW c, NEW op, NEW bs, Stacks(c, op, bs), NEW ms, Extended(c.nodes, ms)
  PROVE  /\ c.current = NIL \/ c.current \in DOMAIN ms
         /\ Root \in DOMAIN ms /\ (op # <<>> => c.current \in DOMAIN ms)
<1>1. /\ c \in ReaderSet /\ Len(c.nodes) > 0 /\ OnBranch(c.nodes, op) /\ op \in Seq(OpenSet)
      /\ IF op = <<>> THEN c.current \in {NIL, Root} ELSE c.current = Top(op).node
  BY DEF Stacks
<1>2. DOMAIN c.nodes = 1 .. Len(c.nodes) /\ Len(c.nodes) \in Nat /\ DOMAIN c.nodes \subseteq DOMAIN ms
  BY <1>1 DEF ReaderSet, Extended
<1>3. Root \in DOMAIN ms
  BY <1>1, <1>2 DEF Root
<1>4. ASSUME op # <<>> PROVE c.current \in DOMAIN ms
  <2>1. Len(op) \in DOMAIN op
    BY <1>1, <1>4
  <2> QED BY <1>1, <1>2, <1>4, <2>1 DEF OnBranch, Top
<1> QED BY <1>1, <1>3, <1>4

LEMMA TextExtends ==
  ASSUME Following, run = "parsing", NEW c, c = DispatchPCDATA(b)
  PROVE  /\ c \in ReaderSet /\ Differ(b, c, {"nodes", "cdata"})
         /\ KidsIn(c.nodes) /\ Extended(b.nodes, c.nodes)
         /\ c.depth = b.depth /\ c.current = b.current /\ BaseHeld(c)
         /\ Len(c.nodes) \in Nat /\ Len(bases) \in Nat /\ Len(c.nodes) >= Len(bases)
<1>1. TypeOK /\ b \in ReaderSet /\ KidsIn(b.nodes) /\ BaseHeld(b) /\ Stacks(b, open, bases)
  BY DEF Following, Stacks, TypeOK
<1>2. b.current = NIL \/ b.current \in DOMAIN b.nodes
  <2>1. Extended(b.nodes, b.nodes)
    BY <1>1, ExtendedSelf DEF ReaderSet
  <2> QED BY <1>1, <2>1, HolderIs
<1>3. /\ c \in ReaderSet /\ Differ(b, c, {"nodes", "cdata"})
      /\ KidsIn(c.nodes) /\ Extended(b.nodes, c.nodes)
  BY <1>1, <1>2, DispatchExtends
<1>4. c.depth = b.depth /\ c.current = b.current /\ c.baseURIstack = b.baseURIstack
  BY <1>3 DEF Differ, Fields
<1>5. BaseHeld(c)
  BY <1>1, <1>4 DEF BaseHeld
<1>6. Len(c.nodes) \in Nat /\ Len(bases) \in Nat /\ Len(c.nodes) >= Len(bases)
  BY <1>3 DEF Extended, Following
<1> QED BY <1>3, <1>4, <1>5, <1>6

LEMMA TextOnStacks ==
  ASSUME Following, run = "parsing", NEW c, c = DispatchPCDATA(b),
         NEW N \in Nat, N >= Len(c.nodes), NEW bs, Newly(bases, bs, N)
  PROVE  Stacks(c, open, bs)
<1> DEFINE F == {"nodes", "cdata"}
<1>1. /\ c \in ReaderSet /\ Differ(b, c, F) /\ KidsIn(c.nodes) /\ Extended(b.nodes, c.nodes)
      /\ Len(c.nodes) \in Nat
  BY TextExtends
<1>2. F \in SUBSET Aside
  BY DEF Aside
<1>3. bs \in Seq(Nat) /\ Continued(bases, bs) /\ DOMAIN c.nodes \subseteq DOMAIN bs
  BY <1>1 DEF Newly, Extended
<1>4. Stacks(b, open, bases)
  BY DEF Following
<1> HIDE DEF F
<1> QED BY <1>1, <1>2, <1>3, <1>4, Lengthened

\* The next state follows.
LEMMA FollowsNext ==
  ASSUME opt \in Options, opt' = opt, Stacks(b', open', bases'), Len(bases') = Len(b'.nodes),
         Entities(parsers', open'), parsers' \in Seq([base : Nat, openAt : Nat]),
         pieces' \in Seq(Source)
  PROVE  Following'
<1>1. /\ b' \in ReaderSet /\ open' \in Seq(OpenSet) /\ BaseHeld(b') /\ Len(parsers') > 0
  BY DEF Stacks, BaseLevels, BaseHeld, Entities
<1>2. TypeOK'
  BY <1>1 DEF TypeOK
<1>3. Stacks(b, open, bases)'
  BY DEF Stacks, Spaces
<1> QED BY <1>2, <1>3 DEF Following

\* The whole of a start tag.
LEMMA StartStacks ==
  ASSUME Following, run = "parsing", run' = "parsing",
         NEW prefix \in Prefixes, NEW attr \in Attrs, NEW constrained \in BOOLEAN, NEW empty \in BOOLEAN,
         StartElement(prefix, attr, constrained, empty)
  PROVE  Following'
<1> DEFINE z == DispatchPCDATA(b)
           c == NewElement(z)
           n == c.current
           declared == Declare(c, attr)
           uri == LookupIn(declared.activeNS, prefix)
           u == IF uri = "" THEN "none" ELSE uri
           named == [declared EXCEPT !.nodes[n].ns = u]
           ent == EnterSpace(named, n, attr)
           p == ent.depth + 1
           done == [ent EXCEPT !.depth = p]
           e == [node |-> Len(z.nodes) + 1, prefix |-> prefix, attr |-> attr, constrained |-> constrained]
           op == Append(open, e)
           m == Len(z.nodes) + 1
           par == IF z.depth = 0 THEN NIL ELSE z.current
           k == Len(c.nodes) - Len(b.nodes)
<1>1. /\ b' = done /\ open' = op /\ opt' = opt /\ parsers' = parsers /\ pieces' = pieces
      /\ bases' = bases \o [i \in 1 .. k |-> Base]
  BY DEF StartElement, StartTag, Opened
<1>2. /\ TypeOK /\ Stacks(b, open, bases) /\ Len(bases) = Len(b.nodes) /\ Entities(parsers, open)
      /\ b.depth = Len(open) /\ open \in Seq(OpenSet) /\ bases \in Seq(Nat)
  BY DEF Following, Stacks
<1>3. /\ z \in ReaderSet /\ Differ(b, z, {"nodes", "cdata"}) /\ KidsIn(z.nodes)
      /\ Extended(b.nodes, z.nodes) /\ z.depth = b.depth /\ z.current = b.current /\ BaseHeld(z)
      /\ Len(z.nodes) \in Nat /\ Len(z.nodes) >= Len(bases) /\ Len(bases) \in Nat
  BY TextExtends
<1> HIDE DEF z
<1>4. (IF z.depth = 0 THEN Root ELSE z.current) \in DOMAIN z.nodes
  <2>1. Root \in DOMAIN z.nodes /\ (open # <<>> => z.current \in DOMAIN z.nodes)
    BY <1>2, <1>3, HolderIs
  <2>2. z.depth # 0 => open # <<>>
    BY <1>2, <1>3
  <2> QED BY <2>1, <2>2
<1>5. e \in OpenSet /\ e.node = m /\ e.prefix = prefix /\ e.attr = attr
  BY <1>3 DEF OpenSet
<1> HIDE DEF e
<1>6. /\ c \in ReaderSet /\ Differ(z, c, {"nodes", "current", "baseURIstack"}) /\ n = m
      /\ Pushed(z.baseURIstack, c.baseURIstack, Base, z.depth)
      /\ Opening(z.nodes, c.nodes, par, OwnBase(z), "none", "none")
  BY <1>2, <1>3, <1>4, NewElementOpens
<1> HIDE DEF c, n, par
<1>7. declared \in ReaderSet /\ Differ(c, declared, {"activeNS"})
      /\ Declares(c.activeNS, declared.activeNS, e, c.depth)
  <2>1. declared = Declare(c, e.attr)
    BY <1>5
  <2> QED BY <1>6, <2>1, DeclareIs, DeclareSays
<1> HIDE DEF declared
<1>8. u \in Uris \cup {"none"}
  BY <1>7, LookupIs
<1> HIDE DEF u
<1>9. /\ named \in ReaderSet /\ Differ(declared, named, {"nodes"})
      /\ Opening(z.nodes, named.nodes, par, OwnBase(z), u, "none")
  <2>1. declared.nodes = c.nodes
    BY <1>7 DEF Differ, Fields
  <2>2. Opening(z.nodes, declared.nodes, par, OwnBase(z), "none", "none")
    BY <1>6, <2>1
  <2>3. n = Len(z.nodes) + 1 /\ NsSet(declared, n, u, named)
    BY <1>6 DEF NsSet
  <2> HIDE DEF named
  <2> QED BY <1>7, <1>8, <2>2, <2>3, NamedOpens
<1> HIDE DEF named
<1>10. ent \in ReaderSet /\ Differ(named, ent, SpaceChanges)
  <2>1. n = Len(z.nodes) + 1
    BY <1>6
  <2> QED BY <1>9, <2>1, EnterSpaceSays
<1>11. PICK v : /\ Opening(z.nodes, ent.nodes, par, OwnBase(z), u, v)
                /\ ~opt.keepEmpties => EntersAs(attr, named, ent, v)
  <2>1. n = Len(z.nodes) + 1
    BY <1>6
  <2> QED BY <1>9, <2>1, EnterSpaceSays
<1> HIDE DEF ent
<1>12. p \in Int
  BY <1>10 DEF ReaderSet
<1> HIDE DEF p
<1>13. done \in ReaderSet /\ done.depth = p /\ Differ(ent, done, {"depth"})
  BY <1>10, <1>12, WithDepth
<1> HIDE DEF done
<1>14. Begun(z, done, e)
  <2>1. /\ done.nodes = ent.nodes /\ done.current = m /\ done.depth = z.depth + 1
        /\ done.baseURIstack = c.baseURIstack /\ done.activeNS = declared.activeNS
        /\ c.activeNS = z.activeNS /\ c.depth = z.depth
    <3>1. done.nodes = ent.nodes /\ done.current = ent.current /\ done.baseURIstack = ent.baseURIstack
          /\ done.activeNS = ent.activeNS
      BY <1>13 DEF Differ, Fields
    <3>2. /\ ent.current = named.current /\ ent.baseURIstack = named.baseURIstack
          /\ ent.activeNS = named.activeNS /\ ent.depth = named.depth
      BY <1>10 DEF Differ, Fields, SpaceChanges
    <3>3. /\ named.current = declared.current /\ named.baseURIstack = declared.baseURIstack
          /\ named.activeNS = declared.activeNS /\ named.depth = declared.depth
      BY <1>9 DEF Differ, Fields
    <3>4. /\ declared.current = c.current /\ declared.baseURIstack = c.baseURIstack
          /\ declared.depth = c.depth
      BY <1>7 DEF Differ, Fields
    <3>5. c.activeNS = z.activeNS /\ c.depth = z.depth
      BY <1>6 DEF Differ, Fields
    <3>6. c.current = m
      BY <1>6 DEF n
    <3>7. done.depth = ent.depth + 1
      BY <1>13 DEF p
    <3> QED BY <3>1, <3>2, <3>3, <3>4, <3>5, <3>6, <3>7
  <2>2. u = LET x == LookupIn(done.activeNS, e.prefix) IN IF x = "" THEN "none" ELSE x
    BY <2>1, <1>5 DEF u
  <2>3. ~opt.keepEmpties => EntersAs(e.attr, z, done, v)
    <3>1. /\ named.preserveDeep = z.preserveDeep /\ named.defaultDeep = z.defaultDeep
          /\ named.ignoreWhiteSpaces = z.ignoreWhiteSpaces
      <4>1. Differ(z, named, {"nodes", "current", "baseURIstack", "activeNS"})
        BY <1>6, <1>7, <1>9 DEF Differ
      <4> QED BY <4>1 DEF Differ, Fields
    <3>2. /\ done.preserveDeep = ent.preserveDeep /\ done.defaultDeep = ent.defaultDeep
          /\ done.ignoreWhiteSpaces = ent.ignoreWhiteSpaces
      BY <1>13 DEF Differ, Fields
    <3> QED BY <3>1, <3>2, <1>5, <1>11 DEF EntersAs
  <2>4. Pushed(z.baseURIstack, done.baseURIstack, Base, z.depth)
    BY <2>1, <1>6
  <2>5. Declares(z.activeNS, done.activeNS, e, z.depth)
    BY <2>1, <1>7
  <2>6. Opening(z.nodes, done.nodes, par, OwnBase(z), u, v)
    BY <2>1, <1>11
  <2> QED BY <2>1, <2>2, <2>3, <2>4, <2>5, <2>6, <1>13 DEF Begun, EntersAs, par
<1>15. /\ Newly(bases, bases', m) /\ Len(c.nodes) = m /\ m \in Nat
  <2>1. Len(c.nodes) = m /\ m \in Nat /\ m >= Len(bases)
    BY <1>3, <1>6 DEF Opening
  <2>2. Base \in Nat
    BY <1>2, BaseIs
  <2>3. k = m - Len(bases)
    BY <2>1, <1>2
  <2> HIDE DEF m, k
  <2> QED BY <1>1, <1>2, <2>1, <2>2, <2>3, BasesGrow
<1>16. Stacks(z, open, bases')
  <2>1. m >= Len(z.nodes)
    BY <1>3
  <2> HIDE DEF m
  <2> QED BY <1>15, <2>1, TextOnStacks DEF z
<1>17. m \in DOMAIN bases' /\ bases'[m] = Base /\ Len(bases') = m
  <2>1. m \notin DOMAIN bases /\ m \in 1 .. m
    BY <1>2, <1>3
  <2> QED BY <1>15, <2>1 DEF Newly
<1>18. Stacks(done, op, bases')
  <2>1. OneMore(open, op, e)
    BY DEF OneMore
  <2> HIDE DEF op
  <2> QED BY <1>2, <1>5, <1>14, <1>16, <1>17, <2>1, ElementOpens
<1>19. Len(bases') = Len(done.nodes)
  <2>1. Len(ent.nodes) = m
    BY <1>11 DEF Opening
  <2>2. done.nodes = ent.nodes
    BY <1>13 DEF Differ, Fields
  <2> QED BY <1>17, <2>1, <2>2
<1>20. /\ parsers \in Seq([base : Nat, openAt : Nat]) /\ pieces \in Seq(Source) /\ opt \in Options
  BY <1>2 DEF TypeOK
<1>21. Entities(parsers, op)
  <2>1. op \in Seq(OpenSet) /\ Len(op) >= Len(open)
    BY <1>2, <1>5
  <2> HIDE DEF op
  <2> QED BY <1>2, <1>20, <2>1, EntitiesOpened
<1> HIDE DEF op
<1> QED BY <1>1, <1>18, <1>19, <1>20, <1>21, FollowsNext

(* ------------------------------- the end tag ------------------------------- *)
LeavesAs(op, near, c, d) ==
  Leaving(op, near, c.preserveDeep, c.defaultDeep, c.ignoreWhiteSpaces,
          d.preserveDeep, d.defaultDeep, d.ignoreWhiteSpaces)
SpacesOf(c, op) == \A i \in DOMAIN op : c.nodes[op[i].node].space = SpaceOf(op, i)

LEMMA SameNearest ==
  ASSUME NEW c, NEW d, c.nodes = d.nodes, NEW n
  PROVE  NearestSpace(c, n) = NearestSpace(d, n)
BY DEF NearestSpace, Ancestors

LEMMA BranchEnd ==
  ASSUME NEW ns \in Seq(NodeSet), NEW op \in Seq(OpenSet), op # <<>>, OnBranch(ns, op),
         NEW m, m = Len(op), NEW n, n = Top(op).node
  PROVE  /\ m \in DOMAIN op /\ m \in Nat /\ m > 0 /\ op[m].node = n /\ n # NIL /\ n \in DOMAIN ns
         /\ ns[n].parent = ParentIn(op, m)
         /\ m > 1 => m - 1 \in DOMAIN op /\ ns[n].parent = op[m - 1].node /\ op[m - 1].node # NIL
<1>1. m \in DOMAIN op /\ m \in Nat /\ m > 0 /\ op[m].node = n /\ (m > 1 => m - 1 \in DOMAIN op)
  BY DEF Top
<1>2. DOMAIN ns = 1 .. Len(ns) /\ Len(ns) \in Nat
  OBVIOUS
<1>3. \A i \in DOMAIN op : op[i].node \in DOMAIN ns /\ op[i].node # NIL
                           /\ ns[op[i].node].parent = ParentIn(op, i)
  BY <1>2 DEF OnBranch, NIL
<1> QED BY <1>1, <1>3 DEF ParentIn

LEMMA LeavePreserveSays ==
  ASSUME NEW c \in ReaderSet, NEW op, SpaceOf(op, Len(op)) = "preserve", c.preserveDeep > 0,
         NEW near, near = NearestSpace(c, c.current), NEW d, d = LeavePreserve(c)
  PROVE  LeavesAs(op, near, c, d)
<1> DEFINE p == c.preserveDeep - 1
           x == [c EXCEPT !.preserveDeep = p]
           f == TRUE
           y == [x EXCEPT !.ignoreWhiteSpaces = f]
<1>1. p \in Int /\ f \in BOOLEAN
  BY DEF ReaderSet
<1>2. d = IF x.preserveDeep = 0 \/ NearestSpace(x, x.current) = "default" THEN y ELSE x
  BY DEF LeavePreserve
<1> HIDE DEF p, f
<1>3. x \in ReaderSet /\ x.preserveDeep = p /\ Differ(c, x, {"preserveDeep"})
  BY <1>1, WithPreserveDeep
<1> HIDE DEF x
<1>4. y \in ReaderSet /\ y.ignoreWhiteSpaces = f /\ Differ(x, y, {"ignoreWhiteSpaces"})
  BY <1>1, <1>3, WithIgnoreWhiteSpaces
<1> HIDE DEF y
<1>5. /\ x.defaultDeep = c.defaultDeep /\ x.ignoreWhiteSpaces = c.ignoreWhiteSpaces /\ x.nodes = c.nodes
      /\ x.current = c.current /\ y.defaultDeep = c.defaultDeep /\ y.preserveDeep = p
  BY <1>3, <1>4 DEF Differ, Fields
<1>6. NearestSpace(x, x.current) = near
  BY <1>5, SameNearest
<1>7. CASE p = 0 \/ near = "default"
  <2>1. d = y
    BY <1>2, <1>3, <1>6, <1>7
  <2>2. y.ignoreWhiteSpaces <=> p = 0 \/ near = "default" \/ c.ignoreWhiteSpaces
    BY <1>4, <1>7 DEF f
  <2> QED BY <2>1, <2>2, <1>5 DEF LeavesAs, Leaving, p
<1>8. CASE ~ (p = 0 \/ near = "default")
  <2>1. d = x
    BY <1>2, <1>3, <1>6, <1>8
  <2>2. x.ignoreWhiteSpaces <=> p = 0 \/ near = "default" \/ c.ignoreWhiteSpaces
    BY <1>5, <1>8
  <2> QED BY <2>1, <2>2, <1>3, <1>5 DEF LeavesAs, Leaving, p
<1> QED BY <1>7, <1>8

LEMMA LeaveDefaultSays ==
  ASSUME NEW c \in ReaderSet, NEW op \in Seq(OpenSet), op # <<>>, OnBranch(c.nodes, op),
         c.current = Top(op).node, SpacesOf(c, op), ~LoopsForEver(c),
         Spaced(c.preserveDeep, c.defaultDeep, c.ignoreWhiteSpaces, op),
         SpaceOf(op, Len(op)) = "default", c.preserveDeep > 0, NEW near, NEW d, d = LeaveDefault(c)
  PROVE  LeavesAs(op, near, c, d)
<1> DEFINE q == c.defaultDeep - 1
           x == [c EXCEPT !.defaultDeep = q]
           m == Len(op)
           n == Top(op).node
           parent == x.nodes[x.current].parent
           f == x.ignoreWhiteSpaces /\ x.preserveDeep = 0
           h == x.nodes[parent].space = "default"
           y == [x EXCEPT !.ignoreWhiteSpaces = f]
           z == [x EXCEPT !.ignoreWhiteSpaces = h]
<1>1. q \in Int /\ c.defaultDeep \in Int /\ c.nodes \in Seq(NodeSet)
  BY DEF ReaderSet
<1>2. /\ q = 0 => d = y
      /\ q # 0 /\ (parent = NIL \/ x.nodes[parent].space = "none") => d = x
      /\ q # 0 /\ parent # NIL /\ x.nodes[parent].space # "none" => d = z
  <2>1. x.defaultDeep = q
    BY DEF ReaderSet
  <2> QED BY <2>1 DEF LeaveDefault
<1> HIDE DEF q
<1>3. x \in ReaderSet /\ x.defaultDeep = q /\ Differ(c, x, {"defaultDeep"})
  BY <1>1, WithDefaultDeep
<1> HIDE DEF x
<1>4. /\ x.preserveDeep = c.preserveDeep /\ x.ignoreWhiteSpaces = c.ignoreWhiteSpaces
      /\ x.nodes = c.nodes /\ x.current = c.current
  BY <1>3 DEF Differ, Fields
<1>5. /\ m \in DOMAIN op /\ m \in Nat /\ m > 0 /\ op[m].node = n /\ n # NIL /\ n \in DOMAIN c.nodes
      /\ m > 1 => m - 1 \in DOMAIN op /\ c.nodes[n].parent = op[m - 1].node /\ op[m - 1].node # NIL
  BY <1>1, BranchEnd
<1>6. parent = c.nodes[n].parent /\ c.nodes[n].space = "default"
  BY <1>4, <1>5 DEF SpacesOf
<1>7. c.defaultDeep > 0
  <2>1. m \in Again(op)
    BY DEF SpaceOf
  <2>2. IsFiniteSet(Again(op))
    BY SaysAre
  <2>3. Cardinality(Again(op)) > 0
    BY <2>1, <2>2, CountNone
  <2> QED BY <2>3 DEF Spaced
<1>8. m > 1 /\ q # 0 => /\ parent # NIL /\ c.nodes[parent].space # "none"
                        /\ c.nodes[parent].space = SpaceOf(op, m - 1)
  <2> SUFFICES ASSUME m > 1, q # 0
               PROVE  /\ parent # NIL /\ c.nodes[parent].space # "none"
                      /\ c.nodes[parent].space = SpaceOf(op, m - 1)
    OBVIOUS
  <2>1. parent = op[m - 1].node /\ parent # NIL
    BY <1>5, <1>6
  <2>2. c.defaultDeep > 1
    BY <1>1, <1>7 DEF q
  <2>3. c.nodes[parent].space = SpaceOf(op, m - 1)
    BY <2>1, <1>5 DEF SpacesOf
  <2>4. c.nodes[c.nodes[c.current].parent].space # "none"
    BY <2>1, <2>2, <1>5, <1>6 DEF LoopsForEver
  <2> QED BY <2>1, <2>3, <2>4, <1>6
<1> HIDE DEF parent, m, n
<1>9. f \in BOOLEAN /\ h \in BOOLEAN
  OBVIOUS
<1>10. (f <=> c.ignoreWhiteSpaces /\ c.preserveDeep = 0) /\ (h <=> c.nodes[parent].space = "default")
  BY <1>4
<1> HIDE DEF f, h
<1>11. ASSUME NEW v \in BOOLEAN, NEW e, e = [x EXCEPT !.ignoreWhiteSpaces = v]
       PROVE  e.ignoreWhiteSpaces = v /\ e.preserveDeep = c.preserveDeep /\ e.defaultDeep = q
  <2>1. e \in ReaderSet /\ e.ignoreWhiteSpaces = v /\ Differ(x, e, {"ignoreWhiteSpaces"})
    BY <1>3, <1>11, WithIgnoreWhiteSpaces
  <2> QED BY <2>1, <1>3, <1>4 DEF Differ, Fields
<1>12. /\ y.ignoreWhiteSpaces = f /\ y.preserveDeep = c.preserveDeep /\ y.defaultDeep = q
       /\ z.ignoreWhiteSpaces = h /\ z.preserveDeep = c.preserveDeep /\ z.defaultDeep = q
  BY <1>9, <1>11
<1> HIDE DEF y, z
<1>13. CASE q = 0
  <2>1. d.ignoreWhiteSpaces <=> c.ignoreWhiteSpaces /\ c.preserveDeep = 0
    BY <1>2, <1>10, <1>12, <1>13
  <2>2. d.preserveDeep = c.preserveDeep /\ d.defaultDeep = q
    BY <1>2, <1>12, <1>13
  <2> QED BY <2>1, <2>2, <1>13 DEF LeavesAs, Leaving, q
<1>14. CASE q # 0 /\ ~ (m > 1)
  <2>1. d.preserveDeep = c.preserveDeep /\ d.defaultDeep = q
    BY <1>2, <1>3, <1>4, <1>12, <1>14
  <2> QED BY <2>1, <1>14 DEF LeavesAs, Leaving, q, m
<1>15. CASE q # 0 /\ m > 1
  <2>1. d = z
    BY <1>2, <1>4, <1>8, <1>15
  <2>2. d.ignoreWhiteSpaces <=> SpaceOf(op, m - 1) = "default"
    BY <2>1, <1>8, <1>10, <1>12, <1>15
  <2>3. SpaceOf(op, m - 1) # "none"
    BY <1>8, <1>15
  <2>4. d.preserveDeep = c.preserveDeep /\ d.defaultDeep = q
    BY <2>1, <1>12
  <2> QED BY <2>2, <2>3, <2>4, <1>15 DEF LeavesAs, Leaving, q, m
<1> QED BY <1>13, <1>14, <1>15

LEMMA LeaveSpaceSays ==
  ASSUME NEW c \in ReaderSet, NEW op \in Seq(OpenSet), op # <<>>, OnBranch(c.nodes, op),
         c.current = Top(op).node, SpacesOf(c, op), ~LoopsForEver(c),
         Spaced(c.preserveDeep, c.defaultDeep, c.ignoreWhiteSpaces, op),
         NEW near, near = NearestSpace(c, c.current), NEW d, d = LeaveSpace(c)
  PROVE  LeavesAs(op, near, c, d)
<1> DEFINE v == c.nodes[c.current].space
<1>1. c.nodes \in Seq(NodeSet)
  BY DEF ReaderSet
<1>2. v = SpaceOf(op, Len(op))
  <2>1. Len(op) \in DOMAIN op /\ op[Len(op)].node = c.current
    BY <1>1, BranchEnd
  <2> QED BY <2>1 DEF SpacesOf
<1>3. SpaceOf(op, Len(op)) \in {"none", "preserve", "default"}
  BY DEF SpaceOf
<1>4. CASE c.preserveDeep > 0 /\ v = "preserve"
  <2>1. d = LeavePreserve(c)
    BY <1>4 DEF LeaveSpace
  <2> QED BY <2>1, <1>2, <1>4, LeavePreserveSays
<1>5. CASE c.preserveDeep > 0 /\ v = "default"
  <2>1. d = LeaveDefault(c)
    BY <1>5 DEF LeaveSpace
  <2> QED BY <2>1, <1>2, <1>5, LeaveDefaultSays
<1>6. CASE c.preserveDeep > 0 => v = "none"
  <2>1. d = c
    BY <1>6 DEF LeaveSpace
  <2> QED BY <2>1, <1>2, <1>6 DEF LeavesAs, Leaving
<1> QED BY <1>2, <1>3, <1>4, <1>5, <1>6

\* The tag ends element Top(op) of c, and d is left.
Ended(c, d, op) ==
  /\ d \in ReaderSet /\ d.nodes = c.nodes /\ d.depth = c.depth - 1
  /\ d.current = c.nodes[c.current].parent
  /\ WithoutLast(c.activeNS, c.depth - 1, d.activeNS)
  /\ Popped(c.baseURIstack, d.baseURIstack, c.depth - 1)
  /\ ~opt.keepEmpties => LeavesAs(op, NearestSpace(c, c.current), c, d)

LEMMA CloseElementSays ==
  ASSUME NEW c, NEW op, NEW bs, Stacks(c, op, bs), op # <<>>, ~LoopsForEver(c),
         NEW d, d = CloseElement(c)
  PROVE  Ended(c, d, op)
<1> DEFINE p == c.depth - 1
           down == [c EXCEPT !.depth = p]
           popped == PopNamespaces(down)
           back == IF down.current = NIL THEN popped ELSE LeaveSpace(popped)
           q == IF back.current = NIL THEN NIL ELSE back.nodes[back.current].parent
           up == [back EXCEPT !.current = q]
           s == Front(up.baseURIstack)
           shut == [up EXCEPT !.baseURIstack = s]
           par == c.nodes[c.current].parent
           near == NearestSpace(c, c.current)
<1>1. d = IF up.depth # 0 /\ Top(up.baseURIstack).depth = up.depth THEN shut ELSE up
  BY DEF CloseElement
<1>2. /\ c \in ReaderSet /\ op \in Seq(OpenSet) /\ c.current = Top(op).node /\ OnBranch(c.nodes, op)
      /\ Spaces(c, op) /\ BaseHeld(c) /\ p \in Int /\ c.nodes \in Seq(NodeSet)
  BY DEF Stacks, ReaderSet, BaseLevels, BaseHeld
<1>3. c.current # NIL /\ par \in Nat
  <2>1. c.current # NIL /\ c.current \in DOMAIN c.nodes
    BY <1>2, BranchEnd
  <2>2. c.nodes[c.current] \in NodeSet
    BY <1>2, <2>1, KidsAre
  <2> QED BY <2>1, <2>2 DEF NodeSet
<1>4. down \in ReaderSet /\ down.depth = p /\ Differ(c, down, {"depth"})
  <2> HIDE DEF p
  <2> QED BY <1>2, WithDepth
<1>5. down.activeNS = c.activeNS
  BY <1>4 DEF Differ, Fields
<1> HIDE DEF down, p
<1>6. popped \in ReaderSet /\ Differ(down, popped, {"activeNS"}) /\ WithoutLast(c.activeNS, p, popped.activeNS)
  <2> DEFINE t == SubSeq(down.activeNS, 1, Cardinality({i \in DOMAIN down.activeNS :
                    \E j \in i .. Len(down.activeNS) : down.activeNS[j].depth # down.depth}))
  <2>1. popped = [down EXCEPT !.activeNS = t]
    BY DEF PopNamespaces
  <2>2. popped.activeNS = t
    <3> HIDE DEF t
    <3> QED BY <2>1, <1>4 DEF ReaderSet
  <2>3. WithoutLast(c.activeNS, p, popped.activeNS)
    BY <2>2, <1>4, <1>5 DEF WithoutLast
  <2> HIDE DEF t
  <2> QED BY <2>3, <1>4, PopNamespacesIs
<1> HIDE DEF popped
<1>7. /\ popped.nodes = c.nodes /\ popped.current = c.current /\ popped.preserveDeep = c.preserveDeep
      /\ popped.defaultDeep = c.defaultDeep /\ popped.ignoreWhiteSpaces = c.ignoreWhiteSpaces
      /\ popped.baseURIstack = c.baseURIstack /\ popped.depth = p /\ down.current = c.current
  <2>1. Differ(c, popped, {"depth", "activeNS"})
    BY <1>4, <1>6 DEF Differ
  <2>2. popped.depth = down.depth /\ down.current = c.current
    BY <1>4, <1>6 DEF Differ, Fields
  <2> QED BY <2>1, <2>2, <1>4 DEF Differ, Fields
<1>8. back = LeaveSpace(popped)
  BY <1>3, <1>7
<1> HIDE DEF back
<1>9. back \in ReaderSet /\ Differ(popped, back, SpaceFields)
  BY <1>6, <1>8, LeaveSpaceIs
<1>10. ~opt.keepEmpties => LeavesAs(op, near, c, back)
  <2> SUFFICES ASSUME ~opt.keepEmpties PROVE LeavesAs(op, near, c, back)
    OBVIOUS
  <2>1. /\ Spaced(popped.preserveDeep, popped.defaultDeep, popped.ignoreWhiteSpaces, op)
        /\ SpacesOf(popped, op)
    BY <1>2, <1>7 DEF Spaces, SpacesOf
  <2>2. ~LoopsForEver(popped)
    BY <1>7 DEF LoopsForEver
  <2>3. NearestSpace(popped, popped.current) = near
    BY <1>7, SameNearest
  <2>4. OnBranch(popped.nodes, op) /\ popped.current = Top(op).node
    BY <1>2, <1>7
  <2>5. LeavesAs(op, near, popped, back)
    <3> HIDE DEF near
    <3> QED BY <2>1, <2>2, <2>3, <2>4, <1>2, <1>6, <1>8, LeaveSpaceSays
  <2> QED BY <2>5, <1>7 DEF LeavesAs
<1> HIDE DEF near
<1>11. /\ back.nodes = c.nodes /\ back.current = c.current /\ back.depth = p
       /\ back.baseURIstack = c.baseURIstack /\ back.activeNS = popped.activeNS
  BY <1>7, <1>9 DEF Differ, Fields, SpaceFields
<1>12. q = par
  BY <1>3, <1>11
<1> HIDE DEF q, par
<1>13. up \in ReaderSet /\ up.current = q /\ Differ(back, up, {"current"})
  BY <1>3, <1>9, <1>12, WithCurrent
<1> HIDE DEF up
<1>14. /\ up.nodes = c.nodes /\ up.depth = p /\ up.baseURIstack = c.baseURIstack
       /\ up.activeNS = popped.activeNS /\ up.current = par
       /\ up.preserveDeep = back.preserveDeep /\ up.defaultDeep = back.defaultDeep
       /\ up.ignoreWhiteSpaces = back.ignoreWhiteSpaces
  BY <1>11, <1>12, <1>13 DEF Differ, Fields
<1>15. ~opt.keepEmpties => LeavesAs(op, near, c, up)
  BY <1>10, <1>14 DEF LeavesAs
<1>16. CASE p # 0 /\ Top(c.baseURIstack).depth = p
  <2> DEFINE S == [base : Nat, depth : Int]
             t == c.baseURIstack
  <2>1. t \in Seq(S) /\ t # <<>>
    BY <1>2 DEF ReaderSet, BaseHeld
  <2>2. s \in Seq(S) /\ s = Front(t)
    <3>1. s = Front(t)
      BY <1>14
    <3> HIDE DEF t, s, S
    <3> QED BY <2>1, <3>1, FrontIs
  <2> HIDE DEF s
  <2>3. shut \in ReaderSet /\ shut.baseURIstack = s /\ Differ(up, shut, {"baseURIstack"})
    BY <1>13, <2>2, WithBaseURIstack
  <2> HIDE DEF shut
  <2>4. /\ shut.nodes = up.nodes /\ shut.depth = up.depth /\ shut.activeNS = up.activeNS
        /\ shut.current = up.current /\ shut.preserveDeep = up.preserveDeep
        /\ shut.defaultDeep = up.defaultDeep /\ shut.ignoreWhiteSpaces = up.ignoreWhiteSpaces
    BY <2>3 DEF Differ, Fields
  <2>5. d = shut
    BY <1>1, <1>14, <1>16
  <2>6. Popped(c.baseURIstack, d.baseURIstack, p)
    BY <2>2, <2>3, <2>5, <1>16 DEF Popped
  <2>7. ~opt.keepEmpties => LeavesAs(op, near, c, d)
    BY <2>4, <2>5, <1>15 DEF LeavesAs
  <2> QED BY <2>3, <2>4, <2>5, <2>6, <2>7, <1>6, <1>14 DEF Ended, p, near, par
<1>17. CASE ~ (p # 0 /\ Top(c.baseURIstack).depth = p)
  <2>1. d = up
    BY <1>1, <1>14, <1>17
  <2>2. Popped(c.baseURIstack, d.baseURIstack, p)
    BY <2>1, <1>14, <1>17 DEF Popped
  <2> QED BY <2>1, <2>2, <1>6, <1>13, <1>14, <1>15 DEF Ended, p, near, par
<1> QED BY <1>16, <1>17

LEMMA ElementCloses ==
  ASSUME NEW c, NEW op, NEW bs, Stacks(c, op, bs), op # <<>>, NEW op2, OneLess(op, op2),
         NEW d, Ended(c, d, op)
  PROVE  Stacks(d, op2, bs)
<1> DEFINE ns == c.nodes
           D == c.depth - 1
<1>1. /\ c \in ReaderSet /\ op \in Seq(OpenSet) /\ bs \in Seq(Nat) /\ Len(ns) > 0
      /\ c.depth = Len(op) /\ c.current = Top(op).node
      /\ KidsIn(ns) /\ Upward(ns) /\ OnBranch(ns, op) /\ BasesKnown(ns, bs)
      /\ BaseLevels(c.baseURIstack, op, bs) /\ Spaces(c, op) /\ Namespaces(c.activeNS, op)
      /\ Named(ns, op)
  BY DEF Stacks
<1>2. /\ d \in ReaderSet /\ d.nodes = ns /\ d.depth = D /\ d.current = ns[c.current].parent
      /\ WithoutLast(c.activeNS, D, d.activeNS) /\ Popped(c.baseURIstack, d.baseURIstack, D)
      /\ ~opt.keepEmpties => LeavesAs(op, NearestSpace(c, c.current), c, d)
  BY DEF Ended
<1>3. /\ ns \in Seq(NodeSet) /\ c.baseURIstack \in Seq(BaseEntry) /\ c.activeNS \in Seq(NsEntry)
  BY <1>1 DEF ReaderSet, BaseEntry, NsEntry
<1>4. /\ op2 \in Seq(OpenSet) /\ Len(op) \in Nat /\ Len(op) - 1 \in Nat /\ Len(op2) = Len(op) - 1
      /\ DOMAIN op = 1 .. Len(op) /\ DOMAIN op2 = 1 .. Len(op) - 1
      /\ \A i \in 1 .. Len(op) - 1 : op2[i] = op[i]
  BY <1>1, OneLessIs
<1>5. D = Len(op) - 1
  BY <1>1
<1> HIDE DEF D
<1>6. \A i \in DOMAIN op2 : i \in DOMAIN op /\ op2[i] = op[i]
  BY <1>4
<1>7. OnBranch(ns, op2)
  <2> SUFFICES ASSUME NEW i \in DOMAIN op2
               PROVE  /\ op2[i].node \in DOMAIN ns /\ ns[op2[i].node].kind = "element"
                      /\ ns[op2[i].node].parent = ParentIn(op2, i)
    BY DEF OnBranch
  <2>1. i # 1 => op2[i - 1] = op[i - 1]
    BY <1>4
  <2>2. ParentIn(op2, i) = ParentIn(op, i)
    BY <2>1 DEF ParentIn
  <2> QED BY <2>2, <1>1, <1>6 DEF OnBranch
<1>8. IF op2 = <<>> THEN d.current \in {NIL, Root} ELSE d.current = Top(op2).node
  <2> DEFINE m == Len(op)
  <2>1. ns[c.current].parent = ParentIn(op, m) /\ (m > 1 => ns[c.current].parent = op[m - 1].node)
    BY <1>1, <1>3, BranchEnd
  <2>2. CASE m = 1
    <3>1. op2 = <<>>
      BY <2>2, <1>4
    <3> QED BY <2>1, <2>2, <3>1, <1>2 DEF ParentIn
  <2>3. CASE m > 1
    <3>1. op2 # <<>> /\ Top(op2) = op[m - 1]
      BY <2>3, <1>4 DEF Top
    <3> QED BY <2>1, <2>3, <3>1, <1>2
  <2>4. m >= 1
    BY <1>4
  <2> QED BY <2>2, <2>3, <2>4, <1>4
<1>9. BaseLevels(d.baseURIstack, op2, bs)
  BY <1>1, <1>2, <1>3, <1>5, BasesClosed
<1>10. Namespaces(d.activeNS, op2)
  BY <1>1, <1>2, <1>3, <1>5, NamespacesClosed
<1>11. Named(ns, op2)
  <2> SUFFICES ASSUME NEW i \in DOMAIN op2
               PROVE  ns[op2[i].node].ns =
                        LET uri == ScopeIn(op2, i, op2[i].prefix) IN IF uri = "" THEN "none" ELSE uri
    BY DEF Named
  <2>1. ns[op[i].node].ns = LET uri == ScopeIn(op, i, op[i].prefix) IN IF uri = "" THEN "none" ELSE uri
    BY <1>1, <1>6 DEF Named
  <2>2. i \in Nat /\ \A j \in 1 .. i : op2[j] = op[j]
    BY <1>4
  <2>3. ScopeIn(op2, i, op[i].prefix) = ScopeIn(op, i, op[i].prefix)
    BY <2>2, ScopeKept
  <2>4. op2[i] = op[i]
    BY <1>6
  <2> QED BY <2>1, <2>3, <2>4
<1>12. Spaces(d, op2)
  <2> SUFFICES ASSUME ~opt.keepEmpties
               PROVE  /\ Spaced(d.preserveDeep, d.defaultDeep, d.ignoreWhiteSpaces, op2)
                      /\ \A i \in DOMAIN op2 : ns[op2[i].node].space = SpaceOf(op2, i)
    BY <1>2 DEF Spaces
  <2> DEFINE n == Top(op).node
             near == NearestSpace(c, n)
             F == {i \in 1 .. Len(op) - 1 : ns[op[i].node].space # "none"}
             G == {i \in 1 .. Len(op) - 1 : SpaceOf(op, i) # "none"}
             p == c.preserveDeep
             q == c.defaultDeep
             w == c.ignoreWhiteSpaces
             p2 == d.preserveDeep
             q2 == d.defaultDeep
             w2 == d.ignoreWhiteSpaces
  <2>1. Spaced(p, q, w, op) /\ \A i \in DOMAIN op : ns[op[i].node].space = SpaceOf(op, i)
    BY <1>1 DEF Spaces
  <2>2. F = G
    BY <2>1, <1>4
  <2>3. \A i : IsLast(F, i) => near = ns[op[i].node].space
    BY <1>1, NearestIs
  <2>4. NearIs(op, near)
    <3> SUFFICES ASSUME NEW i, IsLast(G, i) PROVE near = SpaceOf(op, i)
      BY DEF NearIs
    <3>1. i \in G /\ i \in DOMAIN op
      BY <1>4 DEF IsLast
    <3> HIDE DEF near, F, G
    <3> QED BY <2>1, <2>2, <2>3, <3>1
  <2>5. Leaving(op, near, p, q, w, p2, q2, w2)
    BY <1>1, <1>2 DEF LeavesAs
  <2>6. w2 \in BOOLEAN
    BY <1>2 DEF ReaderSet
  <2> HIDE DEF near, p, q, w, p2, q2, w2
  <2>9. op \in Seq(OpenSet)
    BY <1>1
  <2>7. SpacedLeft(op, op2, p2, q2, w2)
    BY <2>1, <2>4, <2>5, <2>6, <2>9, SpacedClosed
  <2>8. \A i \in DOMAIN op2 : ns[op2[i].node].space = SpaceOf(op2, i)
    BY <2>1, <2>7, <1>6 DEF SpacedLeft
  <2> QED BY <2>7, <2>8 DEF SpacedLeft, p2, q2, w2
<1>13. d.depth = Len(op2)
  BY <1>2, <1>4, <1>5
<1> QED BY <1>1, <1>2, <1>4, <1>7, <1>8, <1>9, <1>10, <1>11, <1>12, <1>13 DEF Stacks

LEMMA EndStacks ==
  ASSUME Following, run = "parsing", run' = "parsing", EndElement
  PROVE  Following'
<1> DEFINE c == DispatchPCDATA(b)
           N == Len(c.nodes)
           k == N - Len(b.nodes)
           d == CloseElement(c)
           op == Front(open)
<1>1. /\ open # <<>> /\ Len(open) > Top(parsers).openAt /\ ~LoopsForEver(c)
      /\ b' = d /\ open' = op /\ opt' = opt /\ parsers' = parsers /\ pieces' = pieces
      /\ bases' = bases \o [i \in 1 .. k |-> Base]
  BY DEF EndElement
<1>2. /\ TypeOK /\ Len(bases) = Len(b.nodes) /\ Entities(parsers, open) /\ open \in Seq(OpenSet)
      /\ bases \in Seq(Nat) /\ opt \in Options /\ parsers \in Seq([base : Nat, openAt : Nat])
      /\ pieces \in Seq(Source)
  BY DEF Following, Stacks, TypeOK
<1>3. N \in Nat /\ Len(bases) \in Nat /\ N >= Len(bases)
  BY TextExtends
<1>4. Newly(bases, bases', N)
  <2>1. Base \in Nat
    BY <1>2, BaseIs
  <2>2. k = N - Len(bases)
    BY <1>2
  <2> HIDE DEF N, k
  <2> QED BY <1>1, <1>2, <1>3, <2>1, <2>2, BasesGrow
<1>5. Stacks(c, open, bases')
  <2>1. N >= Len(c.nodes)
    BY <1>3
  <2> HIDE DEF N
  <2> QED BY <1>3, <1>4, <2>1, TextOnStacks
<1> HIDE DEF c
<1>6. Ended(c, d, open)
  BY <1>1, <1>5, CloseElementSays
<1> HIDE DEF d
<1>7. OneLess(open, op)
  BY DEF OneLess
<1>8. Stacks(d, op, bases')
  BY <1>1, <1>5, <1>6, <1>7, ElementCloses
<1>9. Len(bases') = Len(d.nodes)
  BY <1>4, <1>6 DEF Newly, Ended
<1>10. Entities(parsers, op)
  <2>1. op \in Seq(OpenSet) /\ Len(op) = Len(open) - 1 /\ Len(open) \in Nat
    BY <1>1, <1>2, <1>7, OneLessIs
  <2>2. Top(parsers).openAt \in Nat
    <3>1. Len(parsers) \in DOMAIN parsers
      BY <1>2 DEF Entities
    <3> QED BY <1>2, <3>1, EntityIs DEF Top
  <2>3. Len(op) >= Top(parsers).openAt
    BY <1>1, <2>1, <2>2
  <2> HIDE DEF op
  <2> QED BY <1>2, <2>1, <2>3, EntitiesOpened
<1> HIDE DEF op
<1> QED BY <1>1, <1>2, <1>8, <1>9, <1>10, FollowsNext

\* Steps that open or end no element: after the text was put into the tree,
LEMMA DispatchedStacks ==
  ASSUME Following, run = "parsing", opt' = opt, open' = open, pieces' = pieces,
         NEW c, c = DispatchPCDATA(b), b' \in ReaderSet, NEW F \in SUBSET Aside, Differ(c, b', F),
         Extended(c.nodes, b'.nodes), KidsIn(b'.nodes),
         NEW k, k = Len(b'.nodes) - Len(b.nodes), bases' = bases \o [i \in 1 .. k |-> Base],
         parsers' \in Seq([base : Nat, openAt : Nat]), Entities(parsers', open)
  PROVE  Following'
<1> DEFINE N == Len(b'.nodes)
<1>1. /\ TypeOK /\ Len(bases) = Len(b.nodes) /\ bases \in Seq(Nat) /\ opt \in Options
      /\ pieces \in Seq(Source)
  BY DEF Following, Stacks, TypeOK
<1>2. /\ Len(c.nodes) \in Nat /\ Len(bases) \in Nat /\ Len(c.nodes) >= Len(bases)
      /\ N \in Nat /\ N >= Len(c.nodes) /\ N >= Len(bases) /\ DOMAIN b'.nodes = 1 .. N
  <2>1. Len(c.nodes) \in Nat /\ Len(bases) \in Nat /\ Len(c.nodes) >= Len(bases)
    BY TextExtends
  <2>2. N \in Nat /\ N >= Len(c.nodes) /\ DOMAIN b'.nodes = 1 .. N
    BY DEF Extended
  <2> QED BY <2>1, <2>2
<1>3. k = N - Len(bases)
  BY <1>1
<1> HIDE DEF N
<1>4. Newly(bases, bases', N)
  <2>1. Base \in Nat
    BY <1>1, BaseIs
  <2> QED BY <1>1, <1>2, <1>3, <2>1, BasesGrow
<1>5. Stacks(c, open, bases')
  BY <1>2, <1>4, TextOnStacks
<1>6. bases' \in Seq(Nat) /\ Continued(bases', bases') /\ DOMAIN b'.nodes \subseteq DOMAIN bases'
      /\ Len(bases') = N
  BY <1>2, <1>4 DEF Newly, Continued
<1>7. Stacks(b', open, bases')
  BY <1>5, <1>6, Lengthened
<1> QED BY <1>1, <1>6, <1>7, FollowsNext DEF N

\* and before that.
LEMMA PlainStacks ==
  ASSUME Following, opt' = opt, open' = open, parsers' = parsers, bases' = bases,
         pieces' \in Seq(Source), b' \in ReaderSet, NEW F \in SUBSET (Aside \ {"nodes"}), Differ(b, b', F)
  PROVE  Following'
<1>1. /\ Stacks(b, open, bases) /\ Len(bases) = Len(b.nodes) /\ Entities(parsers, open)
      /\ bases \in Seq(Nat) /\ opt \in Options /\ parsers \in Seq([base : Nat, openAt : Nat])
      /\ b \in ReaderSet /\ KidsIn(b.nodes) /\ BasesKnown(b.nodes, bases)
  BY DEF Following, Stacks, TypeOK
<1>2. b'.nodes = b.nodes
  BY DEF Differ, Fields
<1>3. Extended(b.nodes, b'.nodes) /\ KidsIn(b'.nodes)
  BY <1>1, <1>2, ExtendedSelf DEF ReaderSet
<1>4. Continued(bases, bases) /\ DOMAIN b'.nodes \subseteq DOMAIN bases /\ F \in SUBSET Aside
  BY <1>1, <1>2 DEF Continued, BasesKnown
<1>5. Stacks(b', open, bases)
  BY <1>1, <1>3, <1>4, Lengthened
<1> QED BY <1>1, <1>2, <1>5, FollowsNext

LEMMA CharacterStacks ==
  ASSUME Following, NEW white \in BOOLEAN, CharacterData(white)
  PROVE  Following'
<1> DEFINE x == [no |-> Len(pieces) + 1, white |-> white]
           cd == Append(b.cdata, x)
           of == IF open = <<>> THEN Root ELSE Top(open).node
           s == [of |-> of, white |-> white]
           F == {"cdata"}
<1>1. /\ b' = [b EXCEPT !.cdata = cd] /\ pieces' = Append(pieces, s)
      /\ opt' = opt /\ open' = open /\ parsers' = parsers /\ bases' = bases
  BY DEF CharacterData
<1>2. b \in ReaderSet /\ open \in Seq(OpenSet) /\ pieces \in Seq(Source)
  BY DEF Following, TypeOK
<1>3. cd \in Seq(Piece)
  <2>1. x \in Piece /\ b.cdata \in Seq(Piece)
    BY <1>2 DEF Piece, ReaderSet
  <2> HIDE DEF x
  <2> QED BY <2>1
<1>4. s \in Source
  <2>1. of \in Nat
    <3>1. CASE open = <<>>
      BY <3>1 DEF Root
    <3>2. CASE open # <<>>
      <4>1. Len(open) \in 1 .. Len(open)
        BY <1>2, <3>2
      <4>2. open[Len(open)] \in OpenSet
        BY <1>2, <4>1, ElementOf
      <4> QED BY <3>2, <4>2 DEF Top, OpenSet
    <3> QED BY <3>1, <3>2
  <2> HIDE DEF of
  <2> QED BY <2>1 DEF Source
<1> HIDE DEF cd, s
<1>5. b' \in ReaderSet /\ Differ(b, b', F) /\ F \in SUBSET (Aside \ {"nodes"})
  BY <1>1, <1>2, <1>3, WithCdata DEF Aside
<1>6. pieces' \in Seq(Source)
  BY <1>1, <1>2, <1>4
<1> HIDE DEF F
<1> QED BY <1>1, <1>5, <1>6, PlainStacks

LEMMA DoctypeStacks ==
  ASSUME Following, NEW starts \in BOOLEAN, Doctype(starts)
  PROVE  Following'
<1> DEFINE F == {"insideDTD"}
<1>1. /\ b' = [b EXCEPT !.insideDTD = starts] /\ pieces' = pieces
      /\ opt' = opt /\ open' = open /\ parsers' = parsers /\ bases' = bases
  BY DEF Doctype
<1>2. b \in ReaderSet /\ pieces \in Seq(Source)
  BY DEF Following, TypeOK
<1>3. b' \in ReaderSet /\ Differ(b, b', F) /\ F \in SUBSET (Aside \ {"nodes"})
  BY <1>1, <1>2, WithInsideDTD DEF Aside
<1> HIDE DEF F
<1> QED BY <1>1, <1>2, <1>3, PlainStacks

LEMMA SectionStacks ==
  ASSUME Following, run = "parsing", NEW starts \in BOOLEAN, CDATASection(starts)
  PROVE  Following'
<1> DEFINE c == DispatchPCDATA(b)
           F == {"cdataSection"}
           k == Len(b'.nodes) - Len(b.nodes)
<1>1. /\ b' = [c EXCEPT !.cdataSection = starts] /\ pieces' = pieces
      /\ opt' = opt /\ open' = open /\ parsers' = parsers
      /\ bases' = bases \o [i \in 1 .. Len(c.nodes) - Len(b.nodes) |-> Base]
  BY DEF CDATASection
<1>2. c \in ReaderSet /\ KidsIn(c.nodes)
  BY TextExtends
<1>3. b' \in ReaderSet /\ Differ(c, b', F) /\ F \in SUBSET Aside
  <2> HIDE DEF c
  <2> QED BY <1>1, <1>2, WithCdataSection DEF Aside
<1>4. b'.nodes = c.nodes
  <2> HIDE DEF c
  <2> QED BY <1>3 DEF Differ, Fields
<1>5. Extended(c.nodes, b'.nodes) /\ KidsIn(b'.nodes)
  <2> HIDE DEF c
  <2> QED BY <1>2, <1>4, ExtendedSelf DEF ReaderSet
<1>6. bases' = bases \o [i \in 1 .. k |-> Base]
  BY <1>1, <1>4
<1>7. parsers \in Seq([base : Nat, openAt : Nat]) /\ Entities(parsers, open)
  BY DEF Following, TypeOK
<1>8. c = DispatchPCDATA(b) /\ k = Len(b'.nodes) - Len(b.nodes)
  OBVIOUS
<1> HIDE DEF c, F, k
<1> QED BY <1>1, <1>3, <1>5, <1>6, <1>7, <1>8, DispatchedStacks

LEMMA CommentStacks ==
  ASSUME Following, run = "parsing", NEW kind \in {"comment", "pi"}, CommentOrPI(kind)
  PROVE  Following'
<1> DEFINE c == DispatchPCDATA(b)
           h == IF c.current = NIL THEN Root ELSE c.current
           none == <<>>
           node == Node(kind, c.current, none)
           new == WithBase(c, node)
           d == AppendNode(c, h, node)
           F == {"nodes"}
           k == Len(b'.nodes) - Len(b.nodes)
<1>1. TypeOK /\ Stacks(b, open, bases) /\ parsers \in Seq([base : Nat, openAt : Nat])
      /\ Entities(parsers, open)
  BY DEF Following, TypeOK
<1>2. CASE b' = b /\ bases' = bases
  <2> DEFINE E == {}
  <2>1. Differ(b, b', E) /\ E \in SUBSET (Aside \ {"nodes"})
    BY <1>2 DEF Differ
  <2>2. /\ opt' = opt /\ open' = open /\ parsers' = parsers /\ pieces' = pieces
        /\ b' \in ReaderSet /\ pieces' \in Seq(Source)
    BY <1>1, <1>2 DEF CommentOrPI, TypeOK
  <2> HIDE DEF E
  <2> QED BY <1>2, <2>1, <2>2, PlainStacks
<1>3. CASE b' = d /\ bases' = bases \o [i \in 1 .. Len(d.nodes) - Len(b.nodes) |-> Base]
  <2>1. /\ opt' = opt /\ open' = open /\ parsers' = parsers /\ pieces' = pieces
    BY DEF CommentOrPI
  <2>2. /\ c \in ReaderSet /\ KidsIn(c.nodes) /\ Extended(b.nodes, c.nodes) /\ c.current = b.current
    BY TextExtends
  <2>3. h \in DOMAIN c.nodes
    <3>1. /\ c.current = NIL \/ c.current \in DOMAIN c.nodes
          /\ Root \in DOMAIN c.nodes
      <4> HIDE DEF c
      <4> QED BY <1>1, <2>2, HolderIs
    <3> QED BY <3>1
  <2>4. c = DispatchPCDATA(b) /\ k = Len(b'.nodes) - Len(b.nodes)
        /\ bases' = bases \o [i \in 1 .. k |-> Base]
    BY <1>3
  <2> HIDE DEF c, h, k
  <2>5. node \in NodeSet /\ node.kind = kind /\ node.kids = <<>>
    <3>1. kind \in NodeKinds /\ c.current \in Nat /\ none \in Seq(Piece)
      BY <2>2 DEF NodeKinds, ReaderSet
    <3> HIDE DEF none
    <3> QED BY <3>1, NodeIs
  <2> HIDE DEF node
  <2>6. d \in ReaderSet /\ Differ(c, d, F) /\ Grown(c.nodes, d.nodes, h, new) /\ F \in SUBSET Aside
    BY <1>1, <2>2, <2>3, <2>5, AppendNodeIs DEF Aside
  <2>7. new \in NodeSet /\ new.kind # "element" /\ new.kids = <<>>
    <3>1. new \in NodeSet /\ \A g \in NodeFields \ {"base"} : new[g] = node[g]
      BY <1>1, <2>5, WithBaseIs
    <3> QED BY <2>5, <3>1 DEF NodeFields
  <2> HIDE DEF new, d
  <2>8. KidsIn(d.nodes) /\ Extended(c.nodes, d.nodes)
    <3> DEFINE ns == c.nodes
               ms == d.nodes
    <3>1. ns \in Seq(NodeSet) /\ ms \in Seq(NodeSet) /\ h \in DOMAIN ns /\ Grown(ns, ms, h, new) /\ KidsIn(ns)
      BY <2>2, <2>3, <2>6 DEF ReaderSet
    <3> HIDE DEF ns, ms
    <3>2. KidsIn(ms) /\ Extended(ns, ms)
      BY <2>7, <3>1, GrownExtends
    <3> QED BY <3>2 DEF ns, ms
  <2> HIDE DEF F
  <2> QED BY <1>1, <1>3, <2>1, <2>4, <2>6, <2>8, DispatchedStacks
<1> QED BY <1>2, <1>3 DEF CommentOrPI

LEMMA EntityStacks ==
  ASSUME Following, run = "parsing", ExternalEntity \/ EntityEnd
  PROVE  Following'
<1> DEFINE c == DispatchPCDATA(b)
           F == {}
           k == Len(b'.nodes) - Len(b.nodes)
           base == Base + 1
           x == [base |-> base, openAt |-> Len(open)]
           P == [base : Nat, openAt : Nat]
<1>1. /\ b' = c /\ pieces' = pieces /\ opt' = opt /\ open' = open
      /\ bases' = bases \o [i \in 1 .. k |-> Base]
      /\ \/ open # <<>> /\ parsers' = Append(parsers, x)
         \/ Len(parsers) > 1 /\ parsers' = Front(parsers)
  BY DEF ExternalEntity, EntityEnd, Content
<1>2. c \in ReaderSet /\ KidsIn(c.nodes)
  BY TextExtends
<1>3. Differ(c, b', F) /\ F \in SUBSET Aside /\ b' \in ReaderSet /\ KidsIn(b'.nodes)
  BY <1>1, <1>2 DEF Differ
<1>4. Extended(c.nodes, b'.nodes)
  <2> HIDE DEF c
  <2> QED BY <1>1, <1>2, ExtendedSelf DEF ReaderSet
<1>5. TypeOK /\ parsers \in Seq(P) /\ Entities(parsers, open) /\ open \in Seq(OpenSet)
  BY DEF Following, TypeOK
<1>6. base \in Nat /\ base # NIL
  <2>1. Base \in Nat
    BY <1>5, BaseIs
  <2> QED BY <2>1 DEF NIL
<1>7. parsers' \in Seq(P) /\ Entities(parsers', open)
  <2>1. CASE open # <<>> /\ parsers' = Append(parsers, x)
    <3>1. x \in P
      BY <1>5, <1>6
    <3>2. parsers' \in Seq(P)
      <4> HIDE DEF x, P
      <4> QED BY <1>5, <2>1, <3>1
    <3>3. Entities(parsers', open)
      <4>1. parsers' = Append(parsers, [base |-> base, openAt |-> Len(open)])
        BY <2>1
      <4> HIDE DEF base
      <4> QED BY <1>5, <1>6, <2>1, <4>1, EntityOpened
    <3> QED BY <3>2, <3>3
  <2>2. CASE Len(parsers) > 1 /\ parsers' = Front(parsers)
    <3>1. parsers # <<>>
      BY <1>5, <2>2
    <3>2. parsers' \in Seq(P)
      <4> HIDE DEF P
      <4> QED BY <1>5, <2>2, <3>1, FrontIs
    <3>3. Entities(parsers', open)
      BY <1>5, <2>2, EntityClosed
    <3> QED BY <3>2, <3>3
  <2> QED BY <1>1, <2>1, <2>2
<1>8. c = DispatchPCDATA(b) /\ k = Len(b'.nodes) - Len(b.nodes)
  OBVIOUS
<1> HIDE DEF c, F, k
<1> QED BY <1>1, <1>3, <1>4, <1>7, <1>8, DispatchedStacks

(* ------------------------------- the invariant ----------------------------- *)
LEMMA InitFollows ==
  ASSUME Init
  PROVE  Following
<1> DEFINE node == Node("root", NIL, <<>>)
           ns == <<node>>
           e == <<>>
           cur == IF opt.forest THEN Root ELSE NIL
           st == <<[base |-> 1, depth |-> 0]>>
           bs == <<1>>
           ps == <<[base |-> 1, openAt |-> 0]>>
           iw == ~opt.keepEmpties
           fl == FALSE
<1>1. /\ opt \in Options /\ open = e /\ pieces = e /\ parsers = ps /\ bases = bs
      /\ b = [nodes |-> ns, current |-> cur, depth |-> 0,
              ignoreWhiteSpaces |-> iw, preserveDeep |-> 0, defaultDeep |-> 0,
              cdata |-> e, cdataSection |-> fl, activeNS |-> e, baseURIstack |-> st,
              insideDTD |-> fl, status |-> "ok"]
  BY DEF Init
<1>2. node \in NodeSet /\ node.kind = "root" /\ node.kids = <<>>
  <2> DEFINE el == "root"
             none == <<>>
  <2>1. el \in NodeKinds /\ none \in Seq(Piece) /\ NIL \in Nat
    BY DEF NodeKinds, NIL
  <2> HIDE DEF el, none
  <2>2. Node(el, NIL, none) \in NodeSet /\ Node(el, NIL, none).kind = el /\ Node(el, NIL, none).kids = <<>>
    BY <2>1, NodeIs
  <2> QED BY <2>2 DEF el, none
<1> HIDE DEF node
<1>3. ns \in Seq(NodeSet) /\ Len(ns) = 1 /\ Len(ns) > 0 /\ DOMAIN ns = {1} /\ ns[1] = node
  BY <1>2
<1>4. /\ st \in Seq([base : Nat, depth : Int]) /\ Len(st) = 1 /\ Len(st) > 0 /\ DOMAIN st = {1} /\ st[1].base = 1
      /\ st[1].depth = 0
      /\ bs \in Seq(Nat) /\ Len(bs) = 1 /\ DOMAIN bs = {1}
      /\ ps \in Seq([base : Nat, openAt : Nat]) /\ Len(ps) = 1 /\ Len(ps) > 0 /\ DOMAIN ps = {1} /\ ps[1].base = 1
      /\ ps[1].openAt = 0
  OBVIOUS
<1>5. /\ e \in Seq(Piece) /\ e \in Seq(NsEntry) /\ e \in Seq(OpenSet) /\ e \in Seq(Source)
      /\ DOMAIN e = {} /\ Len(e) = 0 /\ e = <<>>
  OBVIOUS
<1>6. cur \in Nat /\ cur \in {NIL, Root} /\ iw \in BOOLEAN /\ fl \in BOOLEAN
  BY DEF NIL, Root
<1>7. iw <=> ~opt.keepEmpties
  OBVIOUS
<1> HIDE DEF ns, e, cur, st, bs, ps, iw, fl
<1>8. b \in ReaderSet
  BY <1>1, <1>3, <1>4, <1>5, <1>6 DEF ReaderSet, NsEntry
<1>9. /\ b.nodes = ns /\ b.current = cur /\ b.depth = 0 /\ b.ignoreWhiteSpaces = iw
      /\ b.preserveDeep = 0 /\ b.defaultDeep = 0 /\ b.activeNS = e /\ b.baseURIstack = st
  BY <1>1
<1>17. opt \in Options /\ open = e /\ pieces = e /\ parsers = ps /\ bases = bs
  BY <1>1
<1>10. TypeOK
  <2>1. BaseHeld(b)
    BY <1>4, <1>9, Zenon DEF BaseHeld
  <2>2. Len(parsers) > 0
    BY <1>4, <1>17, Zenon
  <2> QED BY <2>1, <2>2, <1>4, <1>5, <1>8, <1>17 DEF TypeOK
<1>11. KidsIn(ns) /\ Upward(ns) /\ OnBranch(ns, e) /\ BasesKnown(ns, bs) /\ Named(ns, e)
  <2>1. \A h \in DOMAIN ns : DOMAIN ns[h].kids = {} /\ ns[h].kind # "element"
    BY <1>2, <1>3
  <2> QED BY <2>1, <1>3, <1>4, <1>5 DEF KidsIn, Upward, OnBranch, BasesKnown, Named
<1>12. BaseLevels(st, e, bs)
  BY <1>4, <1>5 DEF BaseLevels
<1>13. Spaces(b, e)
  <2> SUFFICES ASSUME ~opt.keepEmpties
               PROVE  Spaced(b.preserveDeep, b.defaultDeep, b.ignoreWhiteSpaces, e)
    BY <1>5 DEF Spaces
  <2>1. Says(e, "preserve") = {} /\ Again(e) = {}
    BY <1>5 DEF Says, Again
  <2>2. ~LastSays(e, "preserve")
    BY <2>1 DEF LastSays
  <2>3. Cardinality({}) = 0
    BY FS_EmptySet
  <2> QED BY <2>1, <2>2, <2>3, <1>6, <1>7, <1>9 DEF Spaced
<1>14. Namespaces(e, e)
  <2> SUFFICES ASSUME NEW i \in 0 .. Len(e), NEW prefix PROVE Meaning(e, i, prefix) = ScopeIn(e, i, prefix)
    BY <1>5 DEF Namespaces
  <2>1. Found(e, i, prefix) = {}
    BY <1>5 DEF Found
  <2>2. Declaring(e, i, prefix) = {}
    BY <1>5 DEF Declaring
  <2> QED BY <2>1, <2>2 DEF Meaning, ScopeIn
<1>15. Stacks(b, open, bases)
  <2>1. /\ open = <<>> /\ b.depth = Len(open) /\ Len(b.nodes) > 0
    BY <1>17, <1>3, <1>5, <1>9, Zenon
  <2>2. /\ KidsIn(b.nodes) /\ Upward(b.nodes) /\ OnBranch(b.nodes, open) /\ BasesKnown(b.nodes, bases)
        /\ BaseLevels(b.baseURIstack, open, bases) /\ Spaces(b, open) /\ Namespaces(b.activeNS, open)
        /\ Named(b.nodes, open)
    BY <1>17, <1>9, <1>11, <1>12, <1>13, <1>14
  <2> QED BY <2>1, <2>2, <1>17, <1>4, <1>5, <1>6, <1>8, <1>9 DEF Stacks
<1>16. Entities(parsers, open)
  BY <1>17, <1>4, <1>5 DEF Entities, NIL
<1> QED BY <1>17, <1>3, <1>4, <1>9, <1>10, <1>15, <1>16 DEF Following

LEMMA StepFollows ==
  ASSUME Following, run = "parsing", run' = "parsing", Next
  PROVE  Following'
<1>1. ASSUME NEW prefix \in Prefixes, NEW attr \in Attrs, NEW constrained \in BOOLEAN, NEW empty \in BOOLEAN,
             StartElement(prefix, attr, constrained, empty)
      PROVE  Following'
  BY <1>1, StartStacks
<1>2. ASSUME NEW prefix, NEW attr, NEW empty, NEW code, FeedbackStops(prefix, attr, empty, code)
      PROVE  FALSE
  BY <1>2 DEF FeedbackStops
<1>3. ASSUME EndElement PROVE Following'
  BY <1>3, EndStacks
<1>4. ASSUME NEW white \in BOOLEAN, CharacterData(white) PROVE Following'
  BY <1>4, CharacterStacks
<1>5. ASSUME NEW starts \in BOOLEAN, CDATASection(starts) \/ Doctype(starts) PROVE Following'
  BY <1>5, SectionStacks, DoctypeStacks
<1>6. ASSUME NEW kind \in {"comment", "pi"}, CommentOrPI(kind) PROVE Following'
  BY <1>6, CommentStacks
<1>7. ASSUME ExternalEntity \/ EntityEnd PROVE Following'
  BY <1>7, EntityStacks
<1>8. ASSUME NEW code, EntityRefused(code) PROVE FALSE
  BY <1>8 DEF EntityRefused
<1>9. ASSUME Malformed \/ Finish \/ GiveUp PROVE FALSE
  BY <1>9 DEF Malformed, Finish, GiveUp
<1> QED BY <1>1, <1>2, <1>3, <1>4, <1>5, <1>6, <1>7, <1>8, <1>9 DEF Next

LEMMA SpaceFollows ==
  ASSUME Following
  PROVE  StripFollowsSpace
<1> DEFINE said == {i \in DOMAIN open : open[i].attr.is = "space"}
           last == CHOOSE i \in said : \A j \in said : j <= i
           P == Says(open, "preserve")
           D == Says(open, "default")
           w == b.ignoreWhiteSpaces
<1>1. open \in Seq(OpenSet) /\ Spaces(b, open) /\ Len(open) \in Nat /\ DOMAIN open = 1 .. Len(open)
  BY SeqIs DEF Following, Stacks
<1>2. SUFFICES ASSUME ~opt.keepEmpties
               PROVE  w = (said = {} \/ open[last].attr.value = "default")
  BY DEF StripFollowsSpace
<1>3. w \in BOOLEAN /\ (w <=> ~LastSays(open, "preserve"))
  BY <1>1, <1>2 DEF Spaces, Spaced
<1>4. \A i \in said : open[i].attr.value \in {"preserve", "default"}
  <2> SUFFICES ASSUME NEW i \in said PROVE open[i].attr.value \in {"preserve", "default"}
    OBVIOUS
  <2>1. open[i] \in OpenSet
    BY <1>1, ElementOf
  <2> QED BY <2>1, SpaceAttr
<1>5. said = P \cup D
  BY <1>4 DEF Says
<1>6. LastSays(open, "preserve") <=> \E i \in P : \A j \in said : j <= i
  BY <1>5 DEF LastSays
<1>7. \A i \in said : i \in P <=> open[i].attr.value = "preserve"
  BY DEF Says
<1>8. CASE said = {}
  <2>1. ~LastSays(open, "preserve")
    BY <1>5, <1>6, <1>8
  <2> HIDE DEF said, w
  <2> QED BY <2>1, <1>3, <1>8, Zenon
<1>9. CASE said # {}
  <2>1. PICK k \in said : \A j \in said : j <= k
    <3>1. said \in SUBSET (1 .. Len(open))
      BY <1>1
    <3> HIDE DEF said
    <3> QED BY <3>1, <1>1, <1>9, LastPosition
  <2>2. last = k
    <3>1. IsLast(said, k) /\ said \in SUBSET Nat
      BY <2>1, <1>1 DEF IsLast
    <3> HIDE DEF said
    <3> QED BY <3>1, LastIs
  <2>3. LastSays(open, "preserve") <=> k \in P
    <3>1. \A i \in P : (\A j \in said : j <= i) => i = k
      <4>1. \A i \in P : i \in said /\ i \in Nat /\ k \in Nat
        BY <2>1, <1>1, <1>5
      <4> HIDE DEF said, P
      <4> QED BY <2>1, <4>1
    <3> HIDE DEF said, P
    <3> QED BY <2>1, <3>1, <1>6
  <2>4. k \in P <=> ~ (open[k].attr.value = "default")
    BY <2>1, <1>4, <1>7
  <2> HIDE DEF said, last, P, w
  <2> QED BY <2>2, <2>3, <2>4, <1>3, <1>9, Zenon
<1> QED BY <1>8, <1>9

LEMMA FollowsDocument ==
  ASSUME Following
  PROVE  StacksFollowDocument
<1>1. /\ b \in ReaderSet /\ open \in Seq(OpenSet) /\ b.depth = Len(open) /\ Upward(b.nodes)
      /\ BasesKnown(b.nodes, bases) /\ Namespaces(b.activeNS, open) /\ Named(b.nodes, open)
      /\ Len(open) \in Nat /\ DOMAIN open = 1 .. Len(open) /\ b.activeNS \in Seq(NsEntry)
  BY SeqIs DEF Following, Stacks, ReaderSet, NsEntry
<1>2. \A n, prefix : Scope(n, prefix) = ScopeIn(open, n, prefix)
  <2> SUFFICES ASSUME NEW n, NEW prefix PROVE Scope(n, prefix) = ScopeIn(open, n, prefix)
    OBVIOUS
  <2> DEFINE F == {i \in Declarations(n) : open[i].attr.prefix = prefix}
             G == Declaring(open, n, prefix)
             L(S) == CHOOSE i \in S : \A j \in S : j <= i
  <2>1. F = G
    BY DEF Declarations, Declaring
  <2>2. Scope(n, prefix) = IF F = {} THEN "none" ELSE open[L(F)].attr.uri
    BY DEF Scope
  <2>3. ScopeIn(open, n, prefix) = IF G = {} THEN "none" ELSE open[L(G)].attr.uri
    BY DEF ScopeIn
  <2> HIDE DEF F, G, L
  <2> QED BY <2>1, <2>2, <2>3
<1>3. \A prefix \in Prefixes : LookupIn(b.activeNS, prefix) = Scope(Len(open), prefix)
  <2> SUFFICES ASSUME NEW prefix \in Prefixes PROVE LookupIn(b.activeNS, prefix) = Scope(Len(open), prefix)
    OBVIOUS
  <2>1. \A k \in DOMAIN b.activeNS : b.activeNS[k].depth < Len(open)
    BY <1>1 DEF Namespaces
  <2>2. LookupIn(b.activeNS, prefix) = Meaning(b.activeNS, Len(open), prefix)
    BY <1>1, <2>1, LookupMeaning
  <2>3. Meaning(b.activeNS, Len(open), prefix) = ScopeIn(open, Len(open), prefix)
    <3>1. Len(open) \in 0 .. Len(open)
      BY <1>1
    <3> QED BY <1>1, <3>1 DEF Namespaces
  <2> QED BY <2>2, <2>3, <1>2
<1>4. \A i \in DOMAIN open :
        b.nodes[open[i].node].ns =
          IF Scope(i, open[i].prefix) = "" THEN "none" ELSE Scope(i, open[i].prefix)
  BY <1>1, <1>2 DEF Named
<1>5. \A n \in DOMAIN b.nodes : b.nodes[n].kind = "element" => BaseOf(n) = bases[n]
  <2> SUFFICES ASSUME NEW n \in DOMAIN b.nodes, b.nodes[n].kind = "element" PROVE BaseOf(n) = bases[n]
    OBVIOUS
  <2>1. n \in Elements(b.nodes)
    BY DEF Elements
  <2> QED BY <1>1, <2>1, BaseFollows
<1> QED BY <1>1, <1>3, <1>4, <1>5, SpaceFollows DEF StacksFollowDocument

\* While the parser runs, the builder's stacks and the tree stand where the
\* elements and entities that are open put them: the depth and the current node,
\* the namespace declarations, the base URIs, and the counters of xml:space.
THEOREM StackInvariance == Spec => []StackInv
<1>1. Init => StackInv
  <2>1. Init => opt \in Options
    BY DEF Init
  <2> QED BY <2>1, InitFollows DEF StackInv
<1>2. StackInv /\ [Next]_vars => StackInv'
  <2> SUFFICES ASSUME StackInv, [Next]_vars PROVE StackInv'
    OBVIOUS
  <2>1. CASE UNCHANGED vars
    <3>1. opt' = opt /\ run' = run /\ (Following' <=> Following)
      BY <2>1 DEF vars, Following, TypeOK, Stacks, Spaces
    <3> QED BY <3>1 DEF StackInv
  <2>2. CASE Next
    <3>1. opt' = opt /\ (run' = "parsing" => run = "parsing")
      BY <2>2, StopsFor
    <3>2. ASSUME run' = "parsing" PROVE Following'
      BY <2>2, <3>1, <3>2, StepFollows DEF StackInv
    <3> QED BY <3>1, <3>2 DEF StackInv
  <2> QED BY <2>1, <2>2
<1> QED BY <1>1, <1>2, PTL DEF Spec

\* The stacks follow the document: whatever elements, declarations, xml:space
\* attributes and entities were opened and left before, white space is dropped as
\* the innermost open xml:space says, a prefix means what the innermost open
\* declaration says, and an element has the base URI of the entity its tag is in.
THEOREM StacksAreFollowed == Spec => []StacksFollowDocument
<1>1. StackInv => StacksFollowDocument
  BY FollowsDocument DEF StackInv, StacksFollowDocument
<1> QED BY <1>1, StackInvariance, PTL

=============================================================================
