------------------------------ MODULE DomForest -----------------------------
(* What the mutation methods of a DOM document promise: every node sits in     *)
(* one place, in the child list of its parent or in the fragment list of its   *)
(* document, and an operation moves or frees one node (with what is below it)  *)
(* and leaves the order of all others alone.  Lists are sequences here;        *)
(* DomTree.tla implements them with sibling pointers.                          *)
EXTENDS Integers, FiniteSets, Sequences, SequencesExt

CONSTANTS Docs, Elems, Texts, NULL

Parents == Docs \cup Elems        \* a document stands for its rootNode
Nodes == Elems \cup Texts

VARIABLES kids,     \* per parent: its children in order
          frags,    \* per document: its fragment list
          owner     \* per node: its document, NULL for a node that does not exist

vars == <<kids, frags, owner>>

Init ==
    /\ kids = [p \in Parents |-> <<>>]
    /\ frags = [d \in Docs |-> <<>>]
    /\ owner = [x \in Nodes |-> NULL]

Without(lists, x) == [p \in DOMAIN lists |-> SelectSeq(lists[p], LAMBDA y : y # x)]

Exists(x) == owner[x] # NULL

\* The nodes at and below x: what a path of child steps of bounded length reaches.
Below(x) ==
    LET reached[k \in 0 .. Cardinality(Elems)] ==
            IF k = 0 THEN {x}
            ELSE LET S == reached[k - 1]
                 IN  S \cup UNION {ToSet(kids[p]) : p \in S \cap Parents}
    IN  reached[Cardinality(Elems)]

DocOf(p) == IF p \in Docs THEN p ELSE owner[p]

\* x, wherever it was, comes to stand at position i among the children of p, and
\* no other node moves.
PutAt(x, p, i) ==
    /\ kids'[p] = InsertAt(SelectSeq(kids[p], LAMBDA y : y # x), i, x)
    /\ kids' = [Without(kids, x) EXCEPT ![p] = kids'[p]]
    /\ frags' = Without(frags, x)
    /\ LET moved == Below(x)
       IN  /\ p \notin moved
           /\ owner' = [y \in Nodes |-> IF y \in moved THEN DocOf(p) ELSE owner[y]]

PositionIn(s, x) == CHOOSE i \in DOMAIN s : s[i] = x

Create(x, d) ==
    /\ ~Exists(x)
    /\ owner' = [owner EXCEPT ![x] = d]
    /\ \/ frags' = [frags EXCEPT ![d] = <<x>> \o @] /\ UNCHANGED kids
       \/ \E p \in Parents :
             /\ p = d \/ (p \in Elems /\ Exists(p) /\ owner[p] = d)
             /\ kids' = [kids EXCEPT ![p] = Append(@, x)]
             /\ UNCHANGED frags

AppendChild(p, x) ==
    /\ Exists(x)
    /\ PutAt(x, p, Len(Without(kids, x)[p]) + 1)

InsertBefore(p, x, ref) ==
    /\ Exists(x) /\ x # ref /\ ref \in ToSet(kids[p])
    /\ PutAt(x, p, PositionIn(Without(kids, x)[p], ref))

RemoveChild(p, x) ==
    /\ x \in ToSet(kids[p])
    /\ kids' = Without(kids, x)
    /\ frags' = [frags EXCEPT ![owner[x]] = <<x>> \o @]
    /\ UNCHANGED owner

ReplaceChild(p, new, old) ==
    /\ Exists(new) /\ new # old /\ old \in ToSet(kids[p])
    /\ LET k == Without(kids, new)
       IN  kids' = [k EXCEPT ![p] = ReplaceAt(@, PositionIn(@, old), new)]
    /\ frags' = [Without(frags, new) EXCEPT ![owner[old]] = <<old>> \o @]
    /\ LET moved == Below(new)
       IN  /\ p \notin moved
           /\ owner' = [y \in Nodes |-> IF y \in moved THEN DocOf(p) ELSE owner[y]]

Delete(x) ==
    /\ Exists(x) /\ owner'[x] = NULL
    /\ LET gone == Below(x)
       IN  /\ kids' = [p \in Parents |-> IF p \in gone THEN <<>> ELSE Without(kids, x)[p]]
           /\ frags' = Without(frags, x)
           /\ owner' = [y \in Nodes |-> IF y \in gone THEN NULL ELSE owner[y]]

Next == \E x \in Nodes :
            \/ \E d \in Docs : Create(x, d)
            \/ Delete(x)
            \/ \E p \in Parents :
                  \/ AppendChild(p, x) \/ RemoveChild(p, x)
                  \/ \E y \in Nodes : InsertBefore(p, x, y) \/ ReplaceChild(p, x, y)

Spec == Init /\ [][Next]_vars
=============================================================================
