------------------------------- MODULE XPath -------------------------------
(***************************************************************************)
(* XPath location paths and XSLT match patterns over one document:         *)
(* domxpath.c, with the document order of dom.c it sorts node sets by.     *)
(*                                                                         *)
(* A node set is a sequence kept in document order and without duplicates: *)
(* xpathEvalStep appends without looking when the set is empty, and        *)
(* inserts with domPrecedes otherwise.  domPrecedes compares node numbers, *)
(* given when a node is made and given anew when the document is flagged   *)
(* NEEDS_RENUMBERING, which every change of the tree has to see to; on a   *)
(* document several threads share it walks the tree instead.               *)
(*                                                                         *)
(* Expressions come compiled from their abstract form: a location step is  *)
(* [sep, axis, test, preds] with sep "/" or "//", a pattern a sequence of  *)
(* such steps and whether it starts at the root.                           *)
(***************************************************************************)
EXTENDS Naturals, Sequences, FiniteSets, SequencesExt, FiniteSetsExt

CONSTANTS Elements, Texts, Attrs,
          Name,        \* of each element and attribute
          AttrsOf,     \* the attributes of each element, in their order
          Steps,       \* the location steps a query is made of
          Unions,      \* pairs of steps evaluated as step | step
          Patterns,    \* the match patterns
          MaxChanges,  \* bound on the changes of the tree after parsing
          MaxSteps     \* bound on the steps of a location path

NIL == "nil"
Root == "root"
TreeNodes == Elements \cup Texts

ASSUME NodesAssumption ==
  /\ {NIL, Root} \cap (TreeNodes \cup Attrs) = {}
  /\ \A e \in Elements : ToSet(AttrsOf[e]) \subseteq Attrs

VARIABLES kids,      \* children of the root and of each element
          order,     \* the document order they make
          number,    \* nodeNumber; 0 for a node not made yet
          renumber,  \* NEEDS_RENUMBERING
          unmarked,  \* a node was put out of order and the flag not raised
          shared,    \* the document is attached to by several interpreters
          phase,     \* "parsing", "idle", "query" or "crashed"
          changes,   \* changes of the tree so far
          nodes,     \* the node set the query has reached
          selected,  \* what XPath says that set is
          steps      \* location steps evaluated so far

tree == <<kids, order, number, renumber, unmarked, shared, changes>>
query == <<nodes, selected, steps>>
vars == <<tree, phase, query>>

(* The tree *)
Present == {n \in TreeNodes : number[n] # 0}
Owner(n) == IF n \in Attrs THEN CHOOSE e \in Elements : n \in ToSet(AttrsOf[e])
            ELSE CHOOSE p \in Elements \cup {Root} : n \in ToSet(kids[p])
\* The field parentNode: a top-level node has none.
ParentNode(n) == IF n = Root \/ n \in ToSet(kids[Root]) THEN NIL ELSE Owner(n)
KidsOf(n) == IF n \in Elements \cup {Root} THEN kids[n] ELSE <<>>
Siblings(n) == IF n = Root THEN <<n>> ELSE kids[Owner(n)]
Place(s, n) == CHOOSE i \in DOMAIN s : s[i] = n
Before(n) == SubSeq(Siblings(n), 1, Place(Siblings(n), n) - 1)
After(n) == SubSeq(Siblings(n), Place(Siblings(n), n) + 1, Len(Siblings(n)))

RECURSIVE Preorder(_), Ancestors(_)
Forest(s) == FlattenSeq([i \in DOMAIN s |-> Preorder(s[i])])
Preorder(n) == <<n>> \o Forest(KidsOf(n))
Ancestors(n) == IF ParentNode(n) = NIL THEN <<>>
                ELSE <<ParentNode(n)>> \o Ancestors(ParentNode(n))

(* Document order as XPath has it: every node, an element's attributes     *)
(* after it.                                                               *)
DocumentOrder ==
  LET all == Preorder(Root)
  IN FlattenSeq([i \in DOMAIN all |->
       <<all[i]>> \o IF all[i] \in Elements THEN AttrsOf[all[i]] ELSE <<>>])
IsBefore(n, m) == Place(order, n) < Place(order, m)
DocumentNodes == ToSet(order)

(* domRenumberTree.  Only the order of the numbers matters: they are ranks. *)
Renumbered ==
  [n \in DOMAIN number |-> IF number[n] = 0 THEN 0 ELSE Place(Preorder(Root), n)]

(* domPrecedes on a document that may not be renumbered: by the tree.      *)
StructurePrecedes(n, m) ==
  LET up(x) == ToSet(<<x>> \o Ancestors(x))
      top(x) == Last(<<x>> \o Ancestors(x))
  IN \/ n = Root
     \/ n \in ToSet(Ancestors(m))
     \/ /\ m \notin up(n)
        /\ \E x \in up(n), y \in up(m) :
             /\ x # y /\ ParentNode(x) # NIL /\ ParentNode(x) = ParentNode(y)
             /\ y \in ToSet(After(x))
     \/ top(m) \in ToSet(After(top(n)))

NumberPrecedes(n, m) ==
  IF renumber THEN StructurePrecedes(n, m) ELSE number[n] < number[m]

domPrecedes(n, m) ==
  LET holder(x) == IF x \in Attrs THEN Owner(x) ELSE x
  IN CASE n = m -> FALSE
       [] n \in Attrs /\ m \in Attrs /\ Owner(n) = Owner(m) ->
            Place(AttrsOf[Owner(n)], n) < Place(AttrsOf[Owner(n)], m)
       [] n \in Attrs /\ Owner(n) = m -> FALSE
       [] m \in Attrs /\ holder(n) = Owner(m) -> TRUE
       [] OTHER -> NumberPrecedes(holder(n), holder(m))

(* rsAddNode: from the end, past the nodes it precedes; not a second time. *)
InsertAfter(set, at, n) ==
  IF at > 0 /\ set[at] = n THEN set
  ELSE SubSeq(set, 1, at) \o <<n>> \o SubSeq(set, at + 1, Len(set))
rsAddNode(set, n) ==
  InsertAfter(set, Max({0} \cup {i \in DOMAIN set : set[i] = n \/ ~domPrecedes(n, set[i])}), n)

\* Mutant: appends whatever the set holds already.
AddNodesMutFast(set, new) == set \o new

(* checkRsAddNode: useFastAdd when the set was empty as the step began. *)
AddNodes(set, new) == IF set = <<>> THEN new ELSE FoldLeft(rsAddNode, set, new)

xpathNodeTest(test, n) ==
  CASE test \in {"none", "node"} -> TRUE
    [] test = "text" -> n \in Texts
    [] test = "*" -> n \in Elements
    [] test = "@*" -> n \in Attrs
    [] OTHER -> n \in Elements \cup Attrs /\ Name[n] = test

(* The axes.  What xpathEvalStep adds for one context node, in the order   *)
(* it does; limit stops the axes that heed it early, 0 for no limit.       *)
RECURSIVE FollowingFrom(_), PrecedingFrom(_)
FollowingFrom(n) == Forest(After(n)) \o
  (IF ParentNode(n) = NIL THEN <<>> ELSE FollowingFrom(ParentNode(n)))
\* It starts at the children of the top-level node: those before are missed.
PrecedingFrom(n) == IF ParentNode(n) = NIL THEN <<>>
                    ELSE PrecedingFrom(ParentNode(n)) \o Forest(Before(n))

AxisChild(n) == KidsOf(n)
AxisAttribute(n) == IF n \in Elements THEN AttrsOf[n] ELSE <<>>
AxisParent(n) == IF n = Root THEN <<>>
                 ELSE IF n \notin Attrs /\ ParentNode(n) = NIL THEN <<Root>> ELSE <<Owner(n)>>
AxisAncestor(n) ==
  LET first == IF n \in Attrs THEN <<Owner(n)>> ELSE <<>>
      start == IF n \in Attrs THEN Owner(n) ELSE n
  IN Reverse(first \o Ancestors(start) \o IF start = Root THEN <<>> ELSE <<Root>>)
AxisDescendant(n) == Forest(KidsOf(n))
\* A text node is not among its own descendant-or-self nodes.
AxisDescendantOrSelf(n) == IF n \in Texts THEN <<>> ELSE Preorder(n)
AxisFollowingSibling(n) == IF n \in Attrs \cup {Root} THEN <<>> ELSE After(n)
AxisPrecedingSibling(n) == IF n \in Attrs \cup {Root} THEN <<>> ELSE Before(n)
AxisFollowing(n) == IF n \in Attrs THEN Forest(KidsOf(Owner(n))) \o FollowingFrom(Owner(n))
                    ELSE FollowingFrom(n)
AxisPreceding(n) == PrecedingFrom(IF n \in Attrs THEN Owner(n) ELSE n)

Axis(axis, n) ==
  CASE axis = "self" -> <<n>>
    [] axis = "child" -> AxisChild(n)
    [] axis = "attribute" -> AxisAttribute(n)
    [] axis = "parent" -> AxisParent(n)
    [] axis = "ancestor" -> AxisAncestor(n)
    [] axis = "ancestor-or-self" -> AxisAncestor(n) \o <<n>>
    [] axis = "descendant" -> AxisDescendant(n)
    [] axis = "descendant-or-self" -> AxisDescendantOrSelf(n)
    [] axis = "following-sibling" -> AxisFollowingSibling(n)
    [] axis = "preceding-sibling" -> AxisPrecedingSibling(n)
    [] axis = "following" -> AxisFollowing(n)
    [] axis = "preceding" -> AxisPreceding(n)

Reverses(axis) == axis \in {"ancestor", "ancestor-or-self", "preceding-sibling", "preceding"}

Limited(axis, limit, all) ==
  CASE limit = 0 \/ limit >= Len(all) -> all
    [] axis = "preceding-sibling" -> SubSeq(all, Len(all) - limit + 1, Len(all))
    [] axis \in {"child", "descendant", "descendant-or-self", "following-sibling",
                 "following"} -> SubSeq(all, 1, limit)
    [] OTHER -> all
\* Below a node that takes the first place itself the limit is tested late.
Visited(step, n) ==
  LET all == SelectSeq(Axis(step.axis, n), LAMBDA m : xpathNodeTest(step.test, m))
      late == step.axis = "descendant-or-self" /\ step.limit = 1 /\ all # <<>> /\ Head(all) = n
  IN Limited(step.axis, IF late THEN 2 ELSE step.limit, all)

\* The axis following of an attribute of an element without children reads
\* through a null pointer.
Crashes(step, n) == step.axis = "following" /\ n \in Attrs /\ KidsOf(Owner(n)) = <<>>

(* Predicates: [is "int"] a number, "last" last(), "pos" position() op num, *)
(* "poslast" position() = last(), "has" a location step, "and" two of them. *)
IsStepPredOptimizable(p) ==
  CASE p.is = "int" -> p.num
    [] p.is = "pos" /\ p.op \in {"<", "="} -> p.num
    [] p.is = "pos" /\ p.op = "<=" -> p.num + 1
    [] OTHER -> 0

Compare(op, x, y) == CASE op = "<" -> x < y [] op = "<=" -> x <= y [] op = "=" -> x = y
                       [] op = ">" -> x > y

(* The AST the Step and RelativeLocationPath productions build of a step. *)
Compile(s) ==
  LET step == [axis |-> s.axis, test |-> s.test, preds |-> s.preds,
               limit |-> IF s.preds = <<>> THEN 0 ELSE IsStepPredOptimizable(s.preds[1])]
  IN IF s.sep = "/" THEN <<step>>
     ELSE IF s.axis = "child"
       THEN <<[step EXCEPT !.axis = IF s.preds = <<>> THEN "descendant" ELSE "//child"]>>
     ELSE <<[axis |-> "descendant-or-self", test |-> "none", preds |-> <<>>, limit |-> 0],
            step>>

(* xpathEvalStep of a predicate at position i of set: its value, a number  *)
(* or a boolean, and what *docOrder is afterwards.                         *)
RECURSIVE EvalPred(_, _, _, _, _)
xpathFuncBoolean(v) == IF v.num THEN v.value # 0 ELSE v.value
EvalPred(p, n, i, set, docOrder) ==
  LET position == IF docOrder THEN i ELSE Len(set) - i + 1
      Is(num, value, d) == [num |-> num, value |-> value, docOrder |-> d]
  IN CASE p.is = "int" -> Is(TRUE, p.num, docOrder)
       [] p.is = "last" -> Is(TRUE, Len(set), docOrder)
       [] p.is = "pos" -> Is(FALSE, Compare(p.op, position, p.num), docOrder)
       [] p.is = "poslast" -> Is(FALSE, position = Len(set), docOrder)
       [] p.is = "has" -> LET step == Compile(p.step)[1]
                          IN Is(FALSE, Visited(step, n) # <<>>, ~Reverses(step.axis))
       [] p.is = "and" ->
            LET left == EvalPred(p.left, n, i, set, docOrder)
                right == EvalPred(p.right, n, i, set, docOrder)
            IN IF ~xpathFuncBoolean(left) THEN Is(FALSE, FALSE, docOrder)
               ELSE Is(FALSE, xpathFuncBoolean(right), docOrder)

(* xpathEvalPredicate: the nodes of set all of preds leave.  docOrder is   *)
(* restored after each node, or a step inside a predicate would turn round *)
(* how the rest of the set is counted.                                     *)
Holds(v, at) == IF v.num THEN v.value = at ELSE v.value
KeepsNode(p, set, i, docOrder) ==
  Holds(EvalPred(p, set[i], i, set, docOrder), IF docOrder THEN i ELSE Len(set) - i + 1)
FilterByInt(p, set, docOrder) ==
  IF p.num = 0 \/ p.num > Len(set) THEN <<>>
  ELSE IF docOrder THEN <<set[p.num]>> ELSE <<set[Len(set) - p.num + 1]>>
\* The elements of set at the given positions.
At(set, in) == [j \in DOMAIN in |-> set[in[j]]]
Positions(set) == [i \in DOMAIN set |-> i]
xpathEvalPredicate(preds, all, docOrder) ==
  FoldLeft(LAMBDA set, p :
             IF p.is = "int" THEN FilterByInt(p, set, docOrder)
             ELSE At(set, SelectSeq(Positions(set),
                                    LAMBDA i : KeepsNode(p, set, i, docOrder))),
           all, preds)

(* //child with predicates: each level filtered on its own, below first. *)
RECURSIVE SlashSlash(_, _, _)
SlashSlash(step, n, set) ==
  AddNodes(FoldLeft(LAMBDA acc, m : IF m \in Elements THEN SlashSlash(step, m, acc) ELSE acc,
                    set, KidsOf(n)),
           xpathEvalPredicate(step.preds,
             SelectSeq(KidsOf(n), LAMBDA m : xpathNodeTest(step.test, m)), TRUE))

xpathEvalStepAndPredicates(step, n, set) ==
  IF step.axis = "//child" THEN SlashSlash(step, n, set)
  ELSE AddNodes(set, xpathEvalPredicate(step.preds, Visited(step, n), ~Reverses(step.axis)))

xpathEvalSteps(ast, set) ==
  FoldLeft(LAMBDA now, step :
             FoldLeft(LAMBDA acc, n : xpathEvalStepAndPredicates(step, n, acc), <<>>, now),
           set, ast)

(* CombineSets: two sorted sets merged. *)
RECURSIVE CombineSets(_, _)
CombineSets(l, r) ==
  IF l = <<>> THEN r ELSE IF r = <<>> THEN l
  ELSE IF Head(l) = Head(r) THEN <<Head(l)>> \o CombineSets(Tail(l), Tail(r))
  ELSE IF domPrecedes(Head(l), Head(r)) THEN <<Head(l)>> \o CombineSets(Tail(l), r)
  ELSE <<Head(r)>> \o CombineSets(l, Tail(r))

(* Match patterns.  A step pattern compiles to its test, and with          *)
(* predicates to a list of candidates: the node itself when no predicate   *)
(* can ask for a position, its matching siblings, up to max, otherwise.    *)
RECURSIVE usesPositionInformation(_)
usesPositionInformation(p) ==
  CASE p.is = "and" -> usesPositionInformation(p.left) \/ usesPositionInformation(p.right)
    [] p.is = "has" -> \E q \in ToSet(p.step.preds) : usesPositionInformation(q)
    [] OTHER -> p.is # "int"
checkStepPatternPredOptimizability(p) ==
  p.is = "has" \/ (p.is = "and" /\ ~usesPositionInformation(p))
StepPatternMax(p) == IF p.is = "has" THEN 0 ELSE IsStepPredOptimizable(p)
\* Mutant: the first predicate alone decides on the list.
StepPatternMutFirst(s) ==
  LET op(o) == [op |-> o, test |-> s.test, max |-> 0, pred |-> s.preds]
      perNode == checkStepPatternPredOptimizability(s.preds[1])
      list == IF perNode THEN op("current")
              ELSE [op("fill") EXCEPT !.max = StepPatternMax(s.preds[1])]
  IN IF s.preds = <<>> THEN <<op("test")>>
     ELSE <<op("test"), list>> \o
          [i \in DOMAIN s.preds |-> [op("pred") EXCEPT !.pred = s.preds[i]]]
StepPattern(s) ==
  LET op(o) == [op |-> o, test |-> s.test, max |-> 0, pred |-> s.preds]
      perNode == \A i \in DOMAIN s.preds : checkStepPatternPredOptimizability(s.preds[i])
      list == IF perNode THEN op("current")
              ELSE [op("fill") EXCEPT !.max = StepPatternMax(s.preds[1])]
  IN IF s.preds = <<>> THEN <<op("test")>>
     ELSE <<op("test"), list>> \o
          [i \in DOMAIN s.preds |-> [op("pred") EXCEPT !.pred = s.preds[i]]]

(* RelativePathPattern turns the steps round: last step first, ToParent or *)
(* ToAncestors between two of them.                                        *)
Jump(sep) == [op |-> IF sep = "/" THEN "parent" ELSE "ancestors",
              test |-> "none", max |-> 0, pred |-> <<>>]
LocationPathPattern(p) ==
  LET n == Len(p.steps)
      root == <<[op |-> "root", test |-> "none", max |-> 0, pred |-> <<>>]>>
      part(i) == StepPattern(p.steps[i]) \o
                 IF i > 1 \/ p.absolute THEN <<Jump(p.steps[i].sep)>> ELSE <<>>
  IN FlattenSeq([i \in 1 .. n |-> part(n - i + 1)]) \o IF p.absolute THEN root ELSE <<>>

PatternTest(test, n) ==
  CASE test = "node" -> n \notin Attrs \cup {Root}
    [] OTHER -> xpathNodeTest(test, n)

Up(n) == IF ParentNode(n) = NIL /\ n \notin Attrs THEN Root ELSE Owner(n)

(* The list FillNodeList makes of the siblings of n.                       *)
FillNodeList(i, n) ==
  Limited("child", i.max, SelectSeq(IF n \in Attrs THEN AttrsOf[Owner(n)] ELSE Siblings(n),
                                    LAMBDA m : PatternTest(i.test, m)))
PositionIn(s, n) == IF n \in ToSet(s) THEN Place(s, n) ELSE 0

(* A predicate on the node, then on every candidate: a number is compared  *)
(* with the position of the node, where that of the candidate was meant,   *)
(* so that it leaves no candidate.                                         *)
Candidates(p, list) ==
  At(list, SelectSeq(Positions(list), LAMBDA i : Holds(EvalPred(p, list[i], i, list, TRUE), 0)))
Passes(v, st) == Holds(v, st.pos) /\ (v.num => v.value \in 1 .. Len(st.list))
Refilled(p, st, list) ==
  [st EXCEPT !.list = list, !.pos = PositionIn(list, st.at),
             !.docOrder = EvalPred(p, Last(st.list), Len(st.list), st.list, TRUE).docOrder]
Filter(p, st, v) ==
  IF ~Passes(v, st) THEN [st EXCEPT !.ok = FALSE]
  ELSE IF Len(st.list) <= 1 THEN [st EXCEPT !.docOrder = v.docOrder]
  ELSE Refilled(p, st, Candidates(p, st.list))

(* xpathMatches, one instruction: the node it is at, the list of           *)
(* candidates, the node's position there and *docOrder; none of the last   *)
(* three is reset by the move to the parent.                               *)
Fresh(n) == [ok |-> TRUE, at |-> n, list |-> <<>>, pos |-> 1, docOrder |-> TRUE]
Filled(st, new) == [st EXCEPT !.list = AddNodes(@, new), !.pos = PositionIn(new, st.at)]
Instruction(i, st) ==
  CASE i.op = "test" -> [st EXCEPT !.ok = PatternTest(i.test, st.at)]
    [] i.op = "root" -> [st EXCEPT !.ok = st.at = Root]
    [] i.op = "parent" -> IF st.at = Root THEN [st EXCEPT !.ok = FALSE]
                          ELSE [st EXCEPT !.at = Up(@)]
    [] i.op = "current" -> Filled(st, <<st.at>>)
    [] i.op = "fill" -> IF st.at = Root THEN [st EXCEPT !.ok = FALSE]
                        ELSE Filled(st, FillNodeList(i, st.at))
    [] i.op = "pred" -> Filter(i.pred, st, EvalPred(i.pred, st.at, st.pos, st.list, st.docOrder))

\* ToAncestors: the nearest ancestor the rest of the pattern matches.
RECURSIVE Matches(_, _), UpChain(_)
UpChain(n) == IF n = Root THEN <<>> ELSE <<Up(n)>> \o UpChain(Up(n))
Nearest(st, found) == IF found = <<>> THEN [st EXCEPT !.ok = FALSE]
                      ELSE [st EXCEPT !.at = Head(found)]
Matches(prog, st) ==
  \/ prog = <<>> /\ st.ok
  \/ /\ prog # <<>> /\ st.ok
     /\ Matches(Tail(prog),
          IF Head(prog).op # "ancestors" THEN Instruction(Head(prog), st)
          ELSE Nearest(st, SelectSeq(UpChain(st.at), LAMBDA m : Matches(Tail(prog), Fresh(m)))))

xpathMatches(p, n) == Matches(LocationPathPattern(p), Fresh(n))

(* What XPath says: sets of nodes, by relations over the document.         *)
RECURSIVE RefAncestors(_)
RefAncestors(n) == IF n = Root THEN {} ELSE {Owner(n)} \cup RefAncestors(Owner(n))
RefParent(n) == IF n = Root THEN {} ELSE {Owner(n)}
InTree == DocumentNodes \ Attrs
\* The top-level node above n.
TopOf(n) == {m \in ToSet(kids[Root]) : m = n \/ m \in RefAncestors(n)}
\* Two departures of the code are kept: preceding stays below the top-level
\* node, and a text node is not among its descendant-or-self nodes.
RefAxis(axis, n) ==
  CASE axis = "self" -> {n}
    [] axis = "child" -> {m \in InTree : n \in RefParent(m)}
    [] axis = "attribute" -> {m \in DocumentNodes \cap Attrs : n = Owner(m)}
    [] axis = "parent" -> RefParent(n)
    [] axis = "ancestor" -> RefAncestors(n)
    [] axis = "ancestor-or-self" -> RefAncestors(n) \cup {n}
    [] axis = "descendant" -> {m \in InTree : n \in RefAncestors(m)}
    [] axis = "descendant-or-self" ->
         ({m \in InTree : n \in RefAncestors(m)} \cup {n}) \ ({n} \cap Texts)
    [] axis = "following-sibling" ->
         {m \in InTree : n \notin Attrs /\ RefParent(m) = RefParent(n) /\ IsBefore(n, m)}
    [] axis = "preceding-sibling" ->
         {m \in InTree : n \notin Attrs /\ RefParent(m) = RefParent(n) /\ IsBefore(m, n)}
    [] axis = "following" -> {m \in InTree : IsBefore(n, m) /\ n \notin RefAncestors(m)}
    [] axis = "preceding" -> {m \in InTree : IsBefore(m, n) /\ m \notin RefAncestors(n)
                                              /\ TopOf(m) = TopOf(n)}

RefPosition(set, m, reverse) ==
  1 + Cardinality({k \in set : IF reverse THEN IsBefore(m, k) ELSE IsBefore(k, m)})

RECURSIVE RefFilter(_, _, _), RefHolds(_, _, _, _)
RefStep(s, n) == RefFilter(s.preds, {m \in RefAxis(s.axis, n) : xpathNodeTest(s.test, m)},
                           Reverses(s.axis))
RefHolds(p, m, at, size) ==
  CASE p.is = "int" -> at = p.num
    [] p.is \in {"last", "poslast"} -> at = size
    [] p.is = "pos" -> Compare(p.op, at, p.num)
    [] p.is = "has" -> RefStep(p.step, m) # {}
    [] p.is = "and" -> RefHolds(p.left, m, at, size) /\ RefHolds(p.right, m, at, size)
RefFilter(preds, set, reverse) ==
  IF preds = <<>> THEN set
  ELSE RefFilter(Tail(preds),
         {m \in set : RefHolds(Head(preds), m, RefPosition(set, m, reverse), Cardinality(set))},
         reverse)
RefSelect(s, set) ==
  LET from == IF s.sep = "/" THEN set
              ELSE UNION {RefAxis("descendant-or-self", n) : n \in set}
  IN UNION {RefStep(s, n) : n \in from}
\* The nodes a pattern names: those its path selects from anywhere.
RefPattern(p) ==
  LET first == IF p.absolute THEN p.steps
               ELSE [p.steps EXCEPT ![1].sep = "//"]
  IN FoldLeft(LAMBDA set, s : RefSelect(s, set), {Root}, first)

(* The state machine: a document is parsed, changed, and queried. *)
Init ==
  /\ kids = [p \in Elements \cup {Root} |-> <<>>] /\ order = <<Root>>
  /\ number = [n \in TreeNodes \cup {Root} |-> IF n = Root THEN 1 ELSE 0]
  /\ renumber = FALSE /\ unmarked = FALSE /\ shared = FALSE
  /\ phase = "parsing" /\ changes = 0
  /\ nodes = <<>> /\ selected = {} /\ steps = 0

NextNumber == 1 + Cardinality({n \in DOMAIN number : number[n] # 0})

\* The parser appends to the element open: the last node or one above it.
ParseNode(n, p) ==
  /\ phase = "parsing" /\ number[n] = 0
  /\ LET last == Last(Preorder(Root)) IN p = Root \/ p = last \/ p \in ToSet(Ancestors(last))
  /\ p \in Elements \cup {Root}
  /\ kids' = [kids EXCEPT ![p] = Append(@, n)] /\ order' = DocumentOrder'
  /\ number' = [number EXCEPT ![n] = NextNumber]
  /\ UNCHANGED <<renumber, unmarked, shared, changes, phase, query>>
EndParse == phase = "parsing" /\ kids[Root] # <<>> /\ phase' = "idle" /\ UNCHANGED <<tree, query>>

\* Mutant: a move does not ask for new numbers.
MoveNodeMutQuiet(n, p, i) ==
  LET without == [q \in DOMAIN kids |-> SelectSeq(kids[q], LAMBDA m : m # n)]
  IN /\ phase = "idle" /\ changes < MaxChanges
     /\ n \in Present /\ p \in (Present \cap Elements) \cup {Root}
     /\ p \notin ToSet(Preorder(n)) /\ i \in 1 .. Len(without[p]) + 1
     /\ kids' = [without EXCEPT ![p] = InsertAt(@, i, n)] /\ order' = DocumentOrder'
     /\ changes' = changes + 1
     /\ UNCHANGED <<number, renumber, unmarked, shared, phase, query>>

\* domAppendChild and domInsertBefore of a node of the tree.
MoveNode(n, p, i) ==
  LET without == [q \in DOMAIN kids |-> SelectSeq(kids[q], LAMBDA m : m # n)]
  IN /\ phase = "idle" /\ changes < MaxChanges
     /\ n \in Present /\ p \in (Present \cap Elements) \cup {Root}
     /\ p \notin ToSet(Preorder(n)) /\ i \in 1 .. Len(without[p]) + 1
     /\ kids' = [without EXCEPT ![p] = InsertAt(@, i, n)] /\ order' = DocumentOrder'
     /\ renumber' = TRUE /\ changes' = changes + 1
     /\ UNCHANGED <<number, unmarked, shared, phase, query>>

\* A node command appends a new element: the document is flagged when its
\* own script has ended well, not when that failed (and the failure was
\* caught) nor, for fsnewNode, when it has none.
AppendByCommand(n, p, flags) ==
  /\ phase = "idle" /\ changes < MaxChanges
  /\ n \in Elements \ Present /\ p \in Present \cap Elements
  /\ kids' = [kids EXCEPT ![p] = Append(@, n)] /\ order' = DocumentOrder'
  /\ number' = [number EXCEPT ![n] = NextNumber]
  /\ renumber' = (renumber \/ flags)
  /\ unmarked' = (unmarked \/ ~renumber')
  /\ changes' = changes + 1
  /\ UNCHANGED <<shared, phase, query>>

\* Another interpreter attaches to the document (it matters to a flagged one).
Attach ==
  /\ phase = "idle" /\ renumber /\ ~shared /\ shared' = TRUE
  /\ UNCHANGED <<kids, order, number, renumber, unmarked, changes, phase, query>>

\* domPrecedes renumbers a flagged document only one interpreter has; no
\* comparison comes before that.
Outdated == renumber /\ ~shared
Renumber ==
  /\ phase = "idle" /\ Outdated
  /\ number' = Renumbered /\ renumber' = FALSE /\ unmarked' = FALSE
  /\ UNCHANGED <<kids, order, shared, changes, phase, query>>

StartQuery(n) ==
  /\ phase = "idle" /\ ~Outdated /\ n \in DocumentNodes
  /\ phase' = "query" /\ nodes' = <<n>> /\ selected' = {n} /\ steps' = 0
  /\ UNCHANGED tree

EvalLocationStep(s) ==
  /\ phase = "query" /\ nodes # <<>> /\ steps < MaxSteps
  /\ IF \E i \in DOMAIN nodes : Crashes(s, nodes[i])
     THEN phase' = "crashed" /\ UNCHANGED query
     ELSE /\ nodes' = xpathEvalSteps(Compile(s), nodes)
          /\ selected' = RefSelect(s, selected)
          /\ steps' = steps + 1 /\ UNCHANGED phase
  /\ UNCHANGED tree

EvalUnion(u) ==
  /\ phase = "query" /\ steps = 0 /\ Len(nodes) = 1 /\ nodes[1] \notin Attrs
  /\ LET side == [i \in 1 .. 2 |-> xpathEvalSteps(Compile(u[i]), nodes)]
     IN nodes' = CombineSets(side[1], side[2])
  /\ selected' = UNION {RefSelect(u[i], selected) : i \in 1 .. 2}
  /\ steps' = steps + 1
  /\ UNCHANGED <<tree, phase>>

EndQuery ==
  /\ phase = "query" /\ phase' = "idle"
  /\ nodes' = <<>> /\ selected' = {} /\ steps' = 0
  /\ UNCHANGED tree

Next ==
  \/ \E n \in TreeNodes, p \in Elements \cup {Root} : ParseNode(n, p)
  \/ EndParse
  \/ \E n \in TreeNodes, p \in Elements \cup {Root} :
       \E i \in 1 .. Cardinality(TreeNodes) : MoveNode(n, p, i)
  \/ \E n, p \in Elements, flags \in BOOLEAN : AppendByCommand(n, p, flags)
  \/ Attach
  \/ Renumber
  \/ \E n \in TreeNodes \cup Attrs \cup {Root} : StartQuery(n)
  \/ \E s \in Steps : EvalLocationStep(s)
  \/ \E u \in Unions : EvalUnion(u)
  \/ EndQuery

Spec == Init /\ [][Next]_vars

(* Whatever the tree has been through, unless a node command put a node    *)
(* out of order without raising the flag: domPrecedes is document order,   *)
(* by numbers and by structure.                                            *)
PrecedesIsDocumentOrder ==
  phase = "idle" /\ ~Outdated /\ ~unmarked =>
    \A n, m \in DocumentNodes : domPrecedes(n, m) <=> IsBefore(n, m)

(* Step by step a query selects the nodes XPath selects, each once and in  *)
(* document order: the traversal of each axis, the early ends for a        *)
(* position, the predicates counted level by level behind //, forwards and *)
(* backwards, and the merging of what several context nodes give.          *)
QuerySelects ==
  phase = "query" /\ ~unmarked =>
    /\ ToSet(nodes) = selected
    /\ \A i, j \in DOMAIN nodes : i < j => IsBefore(nodes[i], nodes[j])
    /\ Len(nodes) = Cardinality(selected)

(* A node matches a pattern just when the pattern selects it from some     *)
(* context: walking up from the node finds what walking down selects.      *)
MatchIsSelection ==
  phase = "idle" /\ ~Outdated /\ ~unmarked =>
    \A p \in Patterns : {n \in DocumentNodes : xpathMatches(p, n)} = RefPattern(p)
=============================================================================
