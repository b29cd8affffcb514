------------------------------- MODULE DomTree ------------------------------
(* generic/dom.c: the tree mutation methods (appendChild, insertBefore,        *)
(* removeChild, replaceChild, delete, and the creation of nodes) on the        *)
(* pointers of struct domNode, and the calls around them in tcldom.c.          *)
(* A document stands for its rootNode: the top-level nodes of document d are   *)
(* the children of d, with a NULL parentNode.  Detached nodes are chained in   *)
(* d's fragment list by the same sibling pointers.                             *)
(* Names, values, attributes and namespaces of nodes are left out.             *)
EXTENDS Integers, FiniteSets, Sequences, SequencesExt

CONSTANTS Docs, Elems, Texts,     \* documents; element nodes; nodes without children
          NULL,
          ReplaceWithFragments    \* may replaceChild unlink a later sibling while fragments exist?

Nodes == Elems \cup Texts
Parents == Docs \cup Elems        \* nodeType ELEMENT_NODE
All == Docs \cup Nodes

ASSUME Disjoint == /\ NULL \notin All /\ Docs \cap Nodes = {} /\ Elems \cap Texts = {}
                   /\ IsFiniteSet(Nodes)

VARIABLES tree,    \* the pointer fields of all nodes and documents
          live     \* nodes that are allocated

vars == <<tree, live>>

EmptyTree ==
    [parent |-> [x \in Nodes |-> NULL],       \* parentNode
     prev   |-> [x \in Nodes |-> NULL],       \* previousSibling
     next   |-> [x \in Nodes |-> NULL],       \* nextSibling
     first  |-> [p \in Parents |-> NULL],     \* firstChild
     last   |-> [p \in Parents |-> NULL],     \* lastChild
     doc    |-> [x \in Nodes |-> NULL],       \* ownerDocument
     frag   |-> [d \in Docs |-> NULL],        \* fragments
     docel  |-> [d \in Docs |-> NULL]]        \* documentElement

Init ==
    /\ tree = EmptyTree
    /\ live = {}

DocOf(t, p) == IF p \in Docs THEN p ELSE t.doc[p]
ParentFieldOf(p) == IF p \in Docs THEN NULL ELSE p

\* The nodes that steps lead to from those of S, and these: a search that ends
\* when it has had the time to meet every node.
Reach(step, S) ==
    LET met[k \in 0 .. Cardinality(Nodes)] ==
            IF k = 0 THEN S
            ELSE met[k - 1] \cup UNION {step[y] : y \in met[k - 1]}
    IN  met[Cardinality(Nodes)]

Maybe(x) == {x} \ {NULL}

\* The nodes met from x by a sibling pointer f (t.next or t.prev).
InChain(f, x) == Reach([y \in Nodes |-> Maybe(f[y])], Maybe(x))

\* The same in order; at most as many as there are nodes.
Chain(f, x) ==
    LET at[k \in 1 .. Cardinality(Nodes)] ==
            IF k = 1 THEN x ELSE LET y == at[k - 1] IN IF y = NULL THEN NULL ELSE f[y]
    IN  SelectSeq(at, LAMBDA y : y # NULL)

\* The node itself and what parentNode leads to.
Ancestors(t, p) ==
    {p} \cup Reach([y \in Nodes |-> Maybe(t.parent[y])], {p} \cap Nodes)

\* The node and everything a recursion over the children of elements visits,
\* from firstChild along nextSibling or from lastChild along previousSibling.
Visited(ends, f, x) ==
    LET inside(y) == IF y \in Elems THEN Maybe(ends[y]) ELSE {}
    IN  {x} \cup Reach([y \in Nodes |-> Maybe(f[y]) \cup inside(y)], inside(x))

-----------------------------------------------------------------------------
UnlinkMutKeepsLast(t, x) ==
    LET p == t.parent[x]  d == t.doc[x]  l == t.prev[x]  r == t.next[x]
        list == IF p # NULL THEN p ELSE d
        left == IF l # NULL THEN [t EXCEPT !.next[l] = r]
                ELSE IF p = NULL /\ t.frag[d] = x THEN [t EXCEPT !.frag[d] = r]
                ELSE [t EXCEPT !.first[list] = r]
    IN  IF r # NULL THEN [left EXCEPT !.prev[r] = l]
        ELSE IF p # NULL THEN [left EXCEPT !.last[list] = l]
        ELSE left

\* "unlink childToAppend": out of its sibling chain; a node without previous
\* sibling and parent is the head of the fragment list or a first top-level node.
Unlink(t, x) ==
    LET p == t.parent[x]  d == t.doc[x]  l == t.prev[x]  r == t.next[x]
        list == IF p # NULL THEN p ELSE d
        left == IF l # NULL THEN [t EXCEPT !.next[l] = r]
                ELSE IF p = NULL /\ t.frag[d] = x THEN [t EXCEPT !.frag[d] = r]
                ELSE [t EXCEPT !.first[list] = r]
    IN  IF r # NULL THEN [left EXCEPT !.prev[r] = l]
        ELSE IF p # NULL \/ t.last[d] = x THEN [left EXCEPT !.last[list] = l]
        ELSE left

\* Behind the last child of p.
LinkLast(t, p, x) ==
    LET tail == t.last[p]
        t1 == IF tail # NULL THEN [t EXCEPT !.next[tail] = x] ELSE [t EXCEPT !.first[p] = x]
    IN  [t1 EXCEPT !.prev[x] = tail, !.next[x] = NULL, !.last[p] = x]

\* Before the child ref of p.
LinkBefore(t, p, x, ref) ==
    LET l == t.prev[ref]
        t1 == IF l # NULL THEN [t EXCEPT !.next[l] = x] ELSE [t EXCEPT !.first[p] = x]
    IN  [t1 EXCEPT !.next[x] = ref, !.prev[x] = l, !.prev[ref] = x]

\* To the head of the fragment list of its document.  The three callers differ
\* in whether they leave x's own previousSibling as it was.
PushFragment(t, x, clearPrev) ==
    LET d == t.doc[x]  f == t.frag[d]
        t1 == IF f # NULL THEN [t EXCEPT !.prev[f] = x] ELSE t
    IN  [t1 EXCEPT !.next[x] = f, !.frag[d] = x, !.parent[x] = NULL,
                   !.prev[x] = IF clearPrev THEN NULL ELSE @]

\* domSetDocument: the subtree changes its document.
SetDocument(t, x, d) ==
    LET S == Visited(t.first, t.next, x)
    IN  [t EXCEPT !.doc = [y \in Nodes |-> IF y \in S THEN d ELSE @[y]]]

\* A moved node that was its document's documentElement is replaced by the
\* first top-level node, before the node gets its new parent.
ForgetDocumentElement(t, x) ==
    LET d == t.doc[x]
    IN  IF t.parent[x] = NULL /\ t.docel[d] = x
        THEN [t EXCEPT !.docel[d] = t.first[d]] ELSE t

\* domSetDocumentElement: the first element among the top-level nodes, or the first of them.
SetDocumentElement(t, d) ==
    LET elems == InChain(t.next, t.first[d]) \cap Elems
        first == CHOOSE e \in elems : elems \subseteq InChain(t.next, e)
    IN  [t EXCEPT !.docel[d] = IF elems = {} THEN t.first[d] ELSE first]

AdoptMutKeepsDocumentElement(t, p, x) ==
    SetDocument([t EXCEPT !.parent[x] = ParentFieldOf(p)], x, DocOf(t, p))

\* What all moves do after linking x below p.
Adopt(t, p, x) ==
    SetDocument([ForgetDocumentElement(t, x) EXCEPT !.parent[x] = ParentFieldOf(p)],
                x, DocOf(t, p))

\* The test "is in deed a child": by parentNode, for top-level nodes by search.
IsChild(t, p, x) ==
    t.parent[x] = p \/ (p \in Docs /\ x \in InChain(t.next, t.first[p]))

\* The call came from a node command, which may be that of the rootNode, or from
\* a document command, which looks for the documentElement again afterwards.
Called(p, t) ==
    \/ tree' = t
    \/ p \in Docs /\ tree' = SetDocumentElement(t, p)

\* The memory of freed nodes is given back; a new node starts zeroed.
Cleared(t, gone) ==
    LET null(f) == [x \in DOMAIN f |-> IF x \in gone THEN NULL ELSE f[x]]
    IN  [t EXCEPT !.parent = null(@), !.prev = null(@), !.next = null(@),
                  !.first = null(@), !.last = null(@), !.doc = null(@)]

Usable(p) == p \in Docs \cup live

\* createElement, createTextNode, createComment, ...: a new node in the fragment list.
CreateNode(x, d) ==
    /\ x \notin live
    /\ live' = live \cup {x}
    /\ tree' = PushFragment([tree EXCEPT !.doc[x] = d], x, TRUE)

\* domAppendNewElementNode, domAppendNewTextNode: a new last child.
NewLast(t, p, x) ==
    LinkLast([t EXCEPT !.doc[x] = DocOf(t, p), !.parent[x] = ParentFieldOf(p)], p, x)

\* A new last child, as the builders of appendFromList and appendXML make it.
AppendNew(x, p) ==
    /\ x \notin live /\ p \in Parents /\ Usable(p)
    /\ live' = live \cup {x}
    /\ Called(p, NewLast(tree, p, x))

\* domAppendChild.
AppendChild(p, x) ==
    /\ p \in Parents /\ Usable(p) /\ x \in live
    /\ x \notin Ancestors(tree, p)
    /\ Called(p, Adopt(LinkLast(Unlink(tree, x), p, x), p, x))
    /\ UNCHANGED live

\* domInsertBefore with a reference child (without one it is domAppendChild).
InsertBefore(p, x, ref) ==
    /\ p \in Parents /\ Usable(p) /\ x \in live /\ ref \in live
    /\ IsChild(tree, p, ref) /\ x # ref
    /\ x \notin Ancestors(tree, p)
    /\ Called(p, Adopt(LinkBefore(Unlink(tree, x), p, x, ref), p, x))
    /\ UNCHANGED live

RemoveChildMutKeepsPrev(p, x) ==
    /\ p \in Parents /\ Usable(p) /\ x \in live
    /\ IsChild(tree, p, x)
    /\ LET l == tree.prev[x]  r == tree.next[x]
           t1 == IF l # NULL THEN [tree EXCEPT !.next[l] = r] ELSE [tree EXCEPT !.first[p] = r]
           t2 == IF r # NULL THEN [t1 EXCEPT !.prev[r] = l] ELSE [t1 EXCEPT !.last[p] = l]
       IN  Called(p, PushFragment(t2, x, FALSE))
    /\ UNCHANGED live

\* domRemoveChild.
RemoveChild(p, x) ==
    /\ p \in Parents /\ Usable(p) /\ x \in live
    /\ IsChild(tree, p, x)
    /\ LET l == tree.prev[x]  r == tree.next[x]
           t1 == IF l # NULL THEN [tree EXCEPT !.next[l] = r] ELSE [tree EXCEPT !.first[p] = r]
           t2 == IF r # NULL THEN [t1 EXCEPT !.prev[r] = l] ELSE [t1 EXCEPT !.last[p] = l]
       IN  Called(p, PushFragment(t2, x, TRUE))
    /\ UNCHANGED live

\* domReplaceChild: new takes the place of old; old goes to the fragment list
\* and keeps its previousSibling unless the list was empty.
ReplaceChild(p, new, old) ==
    /\ p \in Parents /\ Usable(p) /\ new \in live /\ old \in live
    /\ IsChild(tree, p, old) /\ new # old
    /\ new \notin Ancestors(tree, p)
    /\ LET t1 == Unlink(tree, new)
           l == t1.prev[old]  r == t1.next[old]
           t2 == ForgetDocumentElement([t1 EXCEPT !.next[new] = r, !.prev[new] = l], new)
           t3 == [t2 EXCEPT !.parent[new] = ParentFieldOf(p)]
           t4 == IF l # NULL THEN [t3 EXCEPT !.next[l] = new] ELSE [t3 EXCEPT !.first[p] = new]
           t5 == IF r # NULL THEN [t4 EXCEPT !.prev[r] = new] ELSE [t4 EXCEPT !.last[p] = new]
           t6 == SetDocument(t5, new, DocOf(tree, p))
           empty == t6.frag[t6.doc[old]] = NULL
       IN  /\ ReplaceWithFragments \/ empty \/ l = NULL
           /\ Called(p, PushFragment(t6, old, empty))
    /\ UNCHANGED live

\* domDeleteNode: unlinked; the document of a top-level node or fragment looks
\* for its documentElement again.
Unlinked(t, x) ==
    LET p == t.parent[x]  d == t.doc[x]  l == t.prev[x]  r == t.next[x]
        t1 == IF l # NULL THEN [t EXCEPT !.next[l] = r]
              ELSE IF p # NULL THEN [t EXCEPT !.first[p] = r]
              ELSE IF t.first[d] = x THEN [t EXCEPT !.first[d] = r] ELSE t
        t2 == IF r # NULL THEN [t1 EXCEPT !.prev[r] = l]
              ELSE IF p # NULL THEN [t1 EXCEPT !.last[p] = l]
              ELSE IF t1.last[d] = x THEN [t1 EXCEPT !.last[d] = l] ELSE t1
        t3 == IF t2.frag[d] = x THEN [t2 EXCEPT !.frag[d] = r] ELSE t2
    IN  IF p = NULL THEN SetDocumentElement(t3, d) ELSE t3

\* domFreeNode: the node and all below it.
Freed(t, x) == Visited(t.last, t.prev, x)

DeleteNode(x) ==
    /\ x \in live
    /\ live' = live \ Freed(tree, x)
    /\ tree' = Cleared(Unlinked(tree, x), Freed(tree, x))

Next ==
    \E x \in Nodes :
        \/ \E d \in Docs : CreateNode(x, d)
        \/ DeleteNode(x)
        \/ \E p \in Parents :
              \/ AppendNew(x, p) \/ AppendChild(p, x) \/ RemoveChild(p, x)
              \/ \E y \in Nodes : InsertBefore(p, x, y) \/ ReplaceChild(p, x, y)

Spec == Init /\ [][Next]_vars

-----------------------------------------------------------------------------
Children(p) == Chain(tree.next, tree.first[p])
Fragments(d) == Chain(tree.next, tree.frag[d])

TypeOK ==
    /\ live \subseteq Nodes
    /\ tree \in [parent : [Nodes -> Elems \cup {NULL}], prev : [Nodes -> Nodes \cup {NULL}],
                 next : [Nodes -> Nodes \cup {NULL}],
                 first : [Parents -> Nodes \cup {NULL}], last : [Parents -> Nodes \cup {NULL}],
                 doc : [Nodes -> Docs \cup {NULL}],
                 frag : [Docs -> Nodes \cup {NULL}], docel : [Docs -> Nodes \cup {NULL}]]

(* Sibling chains are sound in both directions: previousSibling undoes         *)
(* nextSibling, the ends of a child list are firstChild and lastChild, and no  *)
(* pointer of a node in use leads to freed memory.                            *)
SiblingsConsistent ==
    /\ \A x \in live :
          /\ tree.next[x] # NULL => tree.next[x] \in live /\ tree.prev[tree.next[x]] = x
          /\ tree.prev[x] # NULL => tree.prev[x] \in live /\ tree.next[tree.prev[x]] = x
    /\ \A p \in Docs \cup (live \cap Elems) :
          /\ tree.first[p] = NULL <=> tree.last[p] = NULL
          /\ tree.first[p] # NULL => tree.first[p] \in live /\ tree.prev[tree.first[p]] = NULL
          /\ tree.last[p] # NULL => tree.last[p] \in live /\ tree.next[tree.last[p]] = NULL
    /\ \A d \in Docs :
          tree.frag[d] # NULL => tree.frag[d] \in live /\ tree.prev[tree.frag[d]] = NULL

(* Whatever the moves, every node hangs below a rootNode or a fragment: no     *)
(* sequence of appendChild, insertBefore and replaceChild closes a cycle.      *)
NoCycle ==
    \A x \in live : \E y \in Ancestors(tree, x) : tree.parent[y] = NULL

(* The forward sibling chain of an element or document holds exactly the nodes *)
(* that name it as their parent: childNodes never returns another's child.    *)
ChildrenAreMine ==
    \A p \in Docs \cup (live \cap Elems) : \A c \in InChain(tree.next, tree.first[p]) :
        /\ c \in live /\ tree.parent[c] = ParentFieldOf(p)
        /\ \A d \in Docs : c \notin InChain(tree.next, tree.frag[d])

(* ownerDocument of a node is the document whose tree or fragment list holds   *)
(* it, also for the descendants of a node moved between documents: a node left *)
(* behind would point to a document that can be freed before it.              *)
OwnerHoldsNode ==
    \A d \in Docs : \A x \in InChain(tree.next, tree.first[d]) \cup InChain(tree.next, tree.frag[d]) :
        \A y \in Visited(tree.first, tree.next, x) : tree.doc[y] = d

(* documentElement never leads to freed memory, to a node of another document  *)
(* or to one that has become the child of an element, even when scripts use    *)
(* the rootNode as a node command and nobody looks for it again.               *)
DocumentElementNotDangling ==
    \A d \in Docs : tree.docel[d] # NULL =>
        tree.docel[d] \in live /\ tree.doc[tree.docel[d]] = d /\ tree.parent[tree.docel[d]] = NULL

(* After every sequence of calls the pointers make two trees and two lists of  *)
(* fragments, and documentElement is a top-level node of its own document.     *)
TreeIsSound ==
    /\ TypeOK /\ SiblingsConsistent /\ NoCycle /\ ChildrenAreMine /\ OwnerHoldsNode
    /\ DocumentElementNotDangling

Forest == INSTANCE DomForest WITH
              kids <- [p \in Parents |-> Children(p)],
              frags <- [d \in Docs |-> Fragments(d)],
              owner <- tree.doc

(* The pointer operations implement the moves of DomForest on sequences: one   *)
(* node moves, the order of all others is left alone, nothing is lost.         *)
ImplementsForest == Forest!Spec
=============================================================================
