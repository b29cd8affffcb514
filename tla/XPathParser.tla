----------------------------- MODULE XPathParser -----------------------------
(* The lexer and the parser of generic/domxpath.c: an expression, or a match   *)
(* pattern of a stylesheet, becomes tokens and the tokens a tree of            *)
(* instructions.  A text is a list of lexemes, " (" is a parenthesis behind    *)
(* white space.  The reference is the grammar of XPath 1.0 and XSLT 1.0.       *)
EXTENDS Integers, Sequences, FiniteSets, SequencesExt, TLC

CONSTANTS Alphabets,  \* what texts are made of: [lexemes, kinds, whole]; a legal text
                      \* has up to whole lexemes
          MaxLexemes  \* and any text up to so many

VARIABLES alphabet, text,
          kind,       \* expr, match, keymatch or keyuse
          parsed      \* what xpathParse answered

parserVars == <<alphabet, kind, text, parsed>>

(* --------------------------------- lexemes ------------------------------- *)
NodeTypes == "node" :> "NODE" @@ "text" :> "TEXT" @@ "comment" :> "COMMENT"
             @@ "processing-instruction" :> "PINSTR"
OperatorNames == "and" :> "AND" @@ "or" :> "OR" @@ "mod" :> "MOD" @@ "div" :> "DIV"
Punctuation ==
  "(" :> "LPAR" @@ " (" :> "LPAR" @@ ")" :> "RPAR" @@ "[" :> "LBRACKET" @@ "]" :> "RBRACKET"
  @@ "," :> "COMMA" @@ "::" :> "COLONCOLON" @@ "/" :> "SLASH" @@ "//" :> "SLASHSLASH" @@ "|" :> "PIPE"
  @@ "+" :> "PLUS" @@ "-" :> "MINUS" @@ "=" :> "EQUAL" @@ "!=" :> "NOTEQ" @@ "<" :> "LT" @@ "<=" :> "LTE"
  @@ ">" :> "GT" @@ ">=" :> "GTE" @@ "." :> "DOT" @@ ".." :> "DOTDOT"
AxisNames ==
  "child" :> "AxisChild" @@ "descendant" :> "AxisDescendantLit" @@ "self" :> "AxisSelf"
  @@ "descendant-or-self" :> "AxisDescendantOrSelfLit" @@ "attribute" :> "AxisAttribute"
  @@ "ancestor" :> "AxisAncestor" @@ "ancestor-or-self" :> "AxisAncestorOrSelf" @@ "parent" :> "AxisParent"
  @@ "following" :> "AxisFollowing" @@ "following-sibling" :> "AxisFollowingSibling"
  @@ "preceding" :> "AxisPreceding" @@ "preceding-sibling" :> "AxisPrecedingSibling"
  @@ "namespace" :> "AxisNamespace"

Tok(t, s) == <<[t |-> t, s |-> s]>>
\* The lexemes that are no NCName and no punctuation; p is the prefix of u.
AttributeWords ==
  "@a" :> Tok("ATTRIBUTE", "a") @@ "@*" :> Tok("ATTRIBUTE", "*")
  @@ "@p:a" :> Tok("ATTRIBUTEPREFIX", "u") \o Tok("ATTRIBUTE", "a")
  @@ "@p:*" :> Tok("ATTRIBUTEPREFIX", "u") \o Tok("ATTRIBUTE", "*")
Variables == "$v" :> Tok("VARIABLE", "v") @@ "$p:v" :> Tok("FQVARIABLE", "u") \o Tok("VARIABLE", "v")
Numbers == "1" :> Tok("INTNUMBER", "1") @@ "1.5" :> Tok("REALNUMBER", "1.5")
Special == AttributeWords @@ Variables @@ Numbers @@ "'s'" :> Tok("LITERAL", "s")
Opens(w) == w \in {"(", " ("}

\* Behind an operand a star multiplies and a name may be an operator.
BeforeStar == {"COLONCOLON", "LPAR", "LBRACKET", "COMMA", "SLASH", "SLASHSLASH"}
BeforeName == BeforeStar \union {"PIPE", "PLUS", "MINUS", "EQUAL", "NOTEQ", "LT", "LTE", "GT", "GTE",
                                 "AND", "OR", "MOD", "DIV", "MULTIPLY"}
Behind(ts, except) == ts # <<>> /\ Last(ts).t \notin except

NameTokenMutNames(ts, w, next) ==
  IF Opens(next) THEN (IF w \in DOMAIN NodeTypes THEN Tok(NodeTypes[w], "") ELSE Tok("FUNCTION", w))
  ELSE IF next = "::" THEN Tok("AXISNAME", w)
  ELSE IF Behind(ts, BeforeStar) /\ w \in DOMAIN OperatorNames THEN Tok(OperatorNames[w], "")
  ELSE Tok("WCARDNAME", w)
NameToken(ts, w, next) ==
  IF Opens(next) /\ w \in DOMAIN NodeTypes THEN Tok(NodeTypes[w], "")
  ELSE IF next = " (" /\ w \in DOMAIN OperatorNames THEN Tok(OperatorNames[w], "")
  ELSE IF Opens(next) THEN Tok("FUNCTION", w)
  ELSE IF next = "::" THEN Tok("AXISNAME", w)
  ELSE IF Behind(ts, BeforeName) /\ w \in DOMAIN OperatorNames THEN Tok(OperatorNames[w], "")
  ELSE Tok("WCARDNAME", w)

StarToken(ts) == IF Behind(ts, BeforeStar) THEN Tok("MULTIPLY", "") ELSE Tok("WCARDNAME", "*")
PrefixedName(w, next) ==
  IF w = "p:*" THEN Tok("NSWC", "u")
  ELSE Tok("NSPREFIX", "u") \o Tok(IF Opens(next) THEN "FUNCTION" ELSE "WCARDNAME", "a")
Tokens(ts, w, next) ==
  CASE w \in DOMAIN Punctuation -> Tok(Punctuation[w], "")
    [] w \in DOMAIN Special -> Special[w]
    [] w = "*" -> StarToken(ts)
    [] w \in {"p:a", "p:*"} -> PrefixedName(w, next)
    [] OTHER -> NameToken(ts, w, next)
\* "q:a" stands for every lexeme that is an error of its own: a prefix that
\* does not resolve, a lonely colon, an open string.
xpathLexer(ws) ==
  LET next(i) == IF i < Len(ws) THEN ws[i + 1] ELSE ""
      Lexed(ts, i) == ts \o Tokens(ts, ws[i], next(i))
  IN FoldLeft(Lexed, <<>>, [i \in DOMAIN ws |-> i]) \o Tok("EOS", "")
LexError(ws) == "q:a" \in Range(ws)

(* ------------------------------- productions ----------------------------- *)
\* A list of instructions is a sequence; child holds those below.
Node(type, s, child) == <<[type |-> type, s |-> s, child |-> child]>>
New(type) == Node(type, "", <<>>)
OneNode(a) == IF Len(a) > 1 THEN Node("EvalSteps", "", a) ELSE a
New2(type, a, b) == Node(type, "", OneNode(a) \o OneNode(b))

\* Productions take the tokens and the place to read at.  An error ends the parse:
\* the C functions go on, but whatever they find then is thrown away.
Is(a, l) == [ok |-> TRUE, a |-> a, l |-> l]
Error == [ok |-> FALSE, a |-> <<>>, l |-> 0]
LA(ts, l) == IF l > Len(ts) THEN "EOS" ELSE ts[l].t
Str(ts, l) == ts[l].s
Consume(r, ts, t) == IF r.ok /\ LA(ts, r.l) = t THEN [r EXCEPT !.l = @ + 1] ELSE Error

NodeTest(ts, l) ==
  LET t == LA(ts, l)
      Simple == "NODE" :> "IsNode" @@ "TEXT" :> "IsText" @@ "COMMENT" :> "IsComment"
  IN CASE t \in DOMAIN Simple -> Consume(Consume(Is(New(Simple[t]), l + 1), ts, "LPAR"), ts, "RPAR")
       [] t = "PINSTR" ->
            Consume(IF LA(ts, l + 2) = "LITERAL" THEN Is(Node("IsSpecificPI", Str(ts, l + 2), <<>>), l + 3)
                    ELSE Is(New("IsPI"), l + 2), ts, "RPAR")
       [] t = "MULTIPLY" -> Is(Node("IsElement", "*", <<>>), l + 1)
       [] t = "NSPREFIX" ->
            IF LA(ts, l + 1) # "WCARDNAME" THEN Error
            ELSE Is(Node("IsFQElement", Str(ts, l), Node("IsElement", Str(ts, l + 1), <<>>)), l + 2)
       [] t = "NSWC" -> Is(Node("IsNSElement", Str(ts, l), <<>>), l + 1)
       [] t = "WCARDNAME" -> Is(Node("IsElement", Str(ts, l), <<>>), l + 1)
       [] OTHER -> Error

Wrapped(type, r) == IF r.ok THEN [r EXCEPT !.a = Node(type, "", @)] ELSE r
AttributeTest(ts, l) ==
  IF LA(ts, l) = "ATTRIBUTE" THEN Is(Node("IsAttr", Str(ts, l), <<>>), l + 1)
  ELSE Is(Node("IsNSAttr", Str(ts, l), Node("IsAttr", Str(ts, l + 1), <<>>)), l + 2)
IsAttribute(t) == t \in {"ATTRIBUTE", "ATTRIBUTEPREFIX"}
AbbreviatedBasis(ts, l) ==
  IF IsAttribute(LA(ts, l)) THEN Wrapped("AxisAttribute", AttributeTest(ts, l))
  ELSE Wrapped("AxisChild", NodeTest(ts, l))
AxisAndTest(ts, l, axes) ==
  IF Str(ts, l) \notin axes \/ LA(ts, l + 1) # "COLONCOLON" THEN Error
  ELSE Wrapped(AxisNames[Str(ts, l)], NodeTest(ts, l + 2))
Basis(ts, l) == IF LA(ts, l) = "AXISNAME" THEN AxisAndTest(ts, l, DOMAIN AxisNames) ELSE AbbreviatedBasis(ts, l)

RECURSIVE BinaryExpr(_, _, _), PredicatesOf(_, _), RelativeFrom(_, _), UnionFrom(_, _), Operands(_, _, _),
          Arguments(_, _)

\* The levels of precedence from or to multiplication.
Operators == <<"OR" :> "Or", "AND" :> "And", "EQUAL" :> "Equal" @@ "NOTEQ" :> "NotEqual",
  "LT" :> "Less" @@ "LTE" :> "LessOrEq" @@ "GT" :> "Greater" @@ "GTE" :> "GreaterOrEq",
  "PLUS" :> "Add" @@ "MINUS" :> "Subtract", "MULTIPLY" :> "Mult" @@ "DIV" :> "Div" @@ "MOD" :> "Mod">>
OrExpr(ts, l) == BinaryExpr(ts, l, 1)

Predicate(ts, l) == Consume(OrExpr(ts, l + 1), ts, "RBRACKET")
\* The predicates that follow.
AfterPredicate(r, ts, p) ==
  IF p.ok THEN PredicatesOf([p EXCEPT !.a = r.a \o Node("Pred", "", OneNode(p.a))], ts) ELSE p
PredicatesOf(r, ts) ==
  IF ~r.ok \/ LA(ts, r.l) # "LBRACKET" THEN r ELSE AfterPredicate(r, ts, Predicate(ts, r.l))

LocationStep(ts, l) ==
  CASE LA(ts, l) = "DOT" -> Is(New("GetContextNode"), l + 1)
    [] LA(ts, l) = "DOTDOT" -> Is(New("GetParentNode"), l + 1)
    [] OTHER -> PredicatesOf(Basis(ts, l), ts)

\* "//" in front of a step down is one instruction.
BehindSlashes(b) ==
  IF Head(b).type = "AxisChild" THEN <<[Head(b) EXCEPT !.type = "AxisDescendant"]>> \o Tail(b)
  ELSE New("AxisDescendantOrSelf") \o b
AfterSlash(a, sep, r) ==
  IF ~r.ok THEN r
  ELSE [r EXCEPT !.a = a \o (IF sep = "SLASH" THEN @ ELSE BehindSlashes(@))]
RelativeFrom(r, ts) ==
  IF ~r.ok \/ LA(ts, r.l) \notin {"SLASH", "SLASHSLASH"} THEN r
  ELSE RelativeFrom(AfterSlash(r.a, LA(ts, r.l), LocationStep(ts, r.l + 1)), ts)
RelativeLocationPath(ts, l) == RelativeFrom(LocationStep(ts, l), ts)

StartsStep == {"AXISNAME", "WCARDNAME", "NSPREFIX", "NSWC", "NODE", "TEXT", "COMMENT", "PINSTR",
               "DOT", "DOTDOT", "ATTRIBUTE", "ATTRIBUTEPREFIX"}
AbsoluteLocationPath(ts, l) ==
  IF LA(ts, l) = "SLASH" /\ LA(ts, l + 1) \notin StartsStep THEN Is(New("SelectRoot"), l + 1)
  ELSE AfterSlash(New("SelectRoot"), LA(ts, l), RelativeLocationPath(ts, l + 1))

StartsFilter(ts, l) ==
  \/ LA(ts, l) \in {"VARIABLE", "FQVARIABLE", "LPAR", "LITERAL", "INTNUMBER", "REALNUMBER", "FUNCTION"}
  \/ LA(ts, l) = "NSPREFIX" /\ LA(ts, l + 1) = "FUNCTION"
\* Up to the closing parenthesis.
AfterArgument(r, ts, b) == IF b.ok THEN Arguments([b EXCEPT !.a = r.a \o OneNode(b.a)], ts) ELSE b
Arguments(r, ts) ==
  IF LA(ts, r.l) # "COMMA" THEN Consume(r, ts, "RPAR") ELSE AfterArgument(r, ts, OrExpr(ts, r.l + 1))
FunctionCall(ts, l, name, first) ==
  LET r == IF LA(ts, l) # "LPAR" THEN Error
           ELSE IF LA(ts, l + 1) = "RPAR" THEN Is(first, l + 2)
           ELSE AfterArgument(Is(first, l), ts, OrExpr(ts, l + 1))
  IN IF r.ok THEN [r EXCEPT !.a = Node("ExecFunction", name, @)] ELSE r
Primary(ts, l) ==
  CASE LA(ts, l) = "VARIABLE" -> Is(Node("GetVar", Str(ts, l), <<>>), l + 1)
    [] LA(ts, l) = "FQVARIABLE" ->
         Is(Node("GetFQVar", Str(ts, l), Node("GetVar", Str(ts, l + 1), <<>>)), l + 2)
    [] LA(ts, l) = "LPAR" -> Wrapped("EvalSteps", Consume(OrExpr(ts, l + 1), ts, "RPAR"))
    [] LA(ts, l) = "LITERAL" -> Is(Node("Literal", Str(ts, l), <<>>), l + 1)
    [] LA(ts, l) = "INTNUMBER" -> Is(Node("Int", Str(ts, l), <<>>), l + 1)
    [] LA(ts, l) = "REALNUMBER" -> Is(Node("Real", Str(ts, l), <<>>), l + 1)
    [] LA(ts, l) = "FUNCTION" -> FunctionCall(ts, l + 1, Str(ts, l), <<>>)
    [] LA(ts, l) = "NSPREFIX" ->
         FunctionCall(ts, l + 2, Str(ts, l), Node("ExecFunction", Str(ts, l + 1), <<>>))
FilterExpr(ts, l) == PredicatesOf(Primary(ts, l), ts)

FilteredPath(f, ts) ==
  IF ~f.ok \/ LA(ts, f.l) \notin {"SLASH", "SLASHSLASH"} THEN f
  ELSE AfterSlash(f.a, LA(ts, f.l), RelativeLocationPath(ts, f.l + 1))
PathExpr(ts, l) ==
  IF StartsFilter(ts, l) THEN FilteredPath(FilterExpr(ts, l), ts)
  ELSE IF LA(ts, l) \in {"SLASH", "SLASHSLASH"} THEN AbsoluteLocationPath(ts, l)
  ELSE RelativeLocationPath(ts, l)

Combined(type, r, b) == IF b.ok THEN [b EXCEPT !.a = New2(type, r.a, @)] ELSE b
UnionFrom(r, ts) ==
  IF ~r.ok \/ LA(ts, r.l) # "PIPE" THEN r
  ELSE UnionFrom(Combined("CombineSets", r, PathExpr(ts, r.l + 1)), ts)
UnionExpr(ts, l) == UnionFrom(PathExpr(ts, l), ts)

\* A number alone is negated at once.
Negated(r) ==
  IF ~r.ok THEN r
  ELSE IF Len(r.a) = 1 /\ Head(r.a).type \in {"Int", "Real"} THEN [r EXCEPT !.a[1].s = "-" \o @]
  ELSE Wrapped("UnaryMinus", r)
UnaryExpr(ts, l) == IF LA(ts, l) = "MINUS" THEN Negated(UnionExpr(ts, l + 1)) ELSE UnionExpr(ts, l)

\* The operands of one level from the left to the right.
Operands(r, ts, k) ==
  IF ~r.ok \/ LA(ts, r.l) \notin DOMAIN Operators[k] THEN r
  ELSE Operands(Combined(Operators[k][LA(ts, r.l)], r, BinaryExpr(ts, r.l + 1, k + 1)), ts, k)
BinaryExpr(ts, l, k) ==
  IF k > Len(Operators) THEN UnaryExpr(ts, l) ELSE Operands(BinaryExpr(ts, l, k + 1), ts, k)

(* -------------------------------- patterns ------------------------------- *)
\* The functions of the alphabets that do not depend on the position.
PositionFree == {"true"}
RECURSIVE UsesPosition(_)
UsesPosition(a) ==
  \E i \in DOMAIN a : (a[i].type = "ExecFunction" /\ a[i].s \notin PositionFree) \/ UsesPosition(a[i].child)

AxisTypes == Range(AxisNames) \union {"AxisDescendant", "AxisDescendantOrSelf"}
\* checkStepPatternPredOptimizability: whether a predicate is evaluated for the
\* node alone.  Only of a call what follows it is looked at.
PredOptimizable(p) == LET a == Head(p) IN
  \/ a.type \in AxisTypes \union {"Literal", "GetContextNode", "GetParentNode"}
  \/ /\ a.type \in {"And", "Or", "Less", "LessOrEq", "Greater", "GreaterOrEq", "Equal", "NotEqual"}
     /\ ~UsesPosition(a.child)
  \/ a.type = "ExecFunction" /\ ~UsesPosition(p)

\* The step in front of the predicates, as deep as it is copied.
CopyOfStep(a) == [a EXCEPT !.child = IF @ = <<>> THEN @ ELSE <<[Head(@) EXCEPT !.child = <<>>]>>]
ListFor(step, perNode) ==
  IF perNode THEN New("FillWithCurrentNode") ELSE Node("FillNodeList", "", <<CopyOfStep(step)>>)
RECURSIVE StepPredicates(_, _, _, _)
AfterStepPredicate(r, ts, step, perNode, p) ==
  IF ~p.ok THEN p
  ELSE StepPredicates([p EXCEPT !.a = r.a \o Node("Pred", "", OneNode(p.a))], ts, step,
                      perNode /\ PredOptimizable(p.a))
StepPredicates(r, ts, step, perNode) ==
  IF LA(ts, r.l) = "LBRACKET" THEN AfterStepPredicate(r, ts, step, perNode, Predicate(ts, r.l))
  ELSE IF r.a = <<>> THEN Is(<<step>>, r.l)
  ELSE [r EXCEPT !.a = <<step>> \o ListFor(step, perNode) \o @]
AfterTest(r, ts) == IF r.ok THEN StepPredicates([r EXCEPT !.a = <<>>], ts, Head(r.a), TRUE) ELSE r
PatternStep(ts, l) ==
  AfterTest(CASE LA(ts, l) = "AXISNAME" -> AxisAndTest(ts, l, {"child", "attribute"})
              [] IsAttribute(LA(ts, l)) -> AbbreviatedBasis(ts, l)
              [] OTHER -> NodeTest(ts, l), ts)

\* The last step comes first.
Jumps == "SLASH" :> "ToParent" @@ "SLASHSLASH" :> "ToAncestors"
RECURSIVE PatternFrom(_, _)
InFront(b, sep, a) == IF b.ok THEN [b EXCEPT !.a = @ \o New(Jumps[sep]) \o a] ELSE b
PatternFrom(r, ts) ==
  IF ~r.ok \/ LA(ts, r.l) \notin DOMAIN Jumps THEN r
  ELSE PatternFrom(InFront(PatternStep(ts, r.l + 1), LA(ts, r.l), r.a), ts)
RelativePathPattern(ts, l) == PatternFrom(PatternStep(ts, l), ts)

IdKeyPattern(ts, l) ==
  LET types(k) == [i \in 1 .. k |-> LA(ts, l + i)]
      Literal(i) == Node("Literal", Str(ts, l + i), <<>>)
  IN CASE Str(ts, l) = "id" /\ types(3) = <<"LPAR", "LITERAL", "RPAR">> ->
            Is(Node("ExecIdKey", "id", Literal(2)), l + 4)
       [] Str(ts, l) = "key" /\ types(5) = <<"LPAR", "LITERAL", "COMMA", "LITERAL", "RPAR">> ->
            Is(Node("ExecIdKey", "key", Literal(2) \o Literal(4)), l + 6)
       [] OTHER -> Error

BehindIdKey(r, ts) ==
  IF ~r.ok \/ LA(ts, r.l) \notin DOMAIN Jumps THEN r
  ELSE InFront(RelativePathPattern(ts, r.l + 1), LA(ts, r.l), r.a)
PathPattern(ts, l) ==
  CASE LA(ts, l) = "SLASH" /\ LA(ts, l + 1) \in {"EOS", "PIPE"} -> Is(New("IsRoot"), l + 1)
    [] LA(ts, l) = "FUNCTION" /\ Str(ts, l) \in {"id", "key"} -> BehindIdKey(IdKeyPattern(ts, l), ts)
    [] LA(ts, l) \in DOMAIN Jumps -> InFront(RelativePathPattern(ts, l + 1), LA(ts, l), New("IsRoot"))
    [] OTHER -> RelativePathPattern(ts, l)

RECURSIVE PatternUnion(_, _)
Alternatives(a, b) ==
  IF b.ok THEN [b EXCEPT !.a = Node("CombinePath", "", Node("EvalSteps", "", a) \o Node("EvalSteps", "", @))]
  ELSE b
PatternUnion(r, ts) ==
  IF ~r.ok \/ LA(ts, r.l) # "PIPE" THEN r
  ELSE PatternUnion(Alternatives(r.a, PathPattern(ts, r.l + 1)), ts)
Pattern(ts, l) == PatternUnion(PathPattern(ts, l), ts)

\* What an instruction must not be in a text of this kind.
Forbidden(i, k) ==
  \/ k \in {"match", "keymatch"} /\ i.type = "ExecFunction" /\ i.s = "current"
  \/ k \in {"keymatch", "keyuse"} /\ i.type = "ExecFunction" /\ i.s = "key"
  \/ k \in {"match", "keymatch", "keyuse"} /\ i.type \in {"GetVar", "GetFQVar"}
RECURSIVE xpathParsePostProcess(_, _)
xpathParsePostProcess(a, k) ==
  \A i \in DOMAIN a : ~Forbidden(a[i], k) /\ xpathParsePostProcess(a[i].child, k)

AllRead(r, ts, k) ==
  IF r.ok /\ LA(ts, r.l) = "EOS" /\ xpathParsePostProcess(r.a, k) THEN r ELSE Error
xpathParse(ws, k) ==
  LET ts == xpathLexer(ws)
  IN IF LexError(ws) THEN Error
     ELSE AllRead(IF k \in {"expr", "keyuse"} THEN OrExpr(ts, 1) ELSE Pattern(ts, 1), ts, k)

(* ------------------------------ the grammars ----------------------------- *)
\* A production: of becomes rhs, what the tree is made like says make.
R(of, rhs, make) == [of |-> of, rhs |-> rhs, make |-> make]
Level(of, operand, operator) ==
  <<R(of, <<operand>>, "same"), R(of, <<of, operator, operand>>, "binary")>>
Relative(of, part) == <<R(of, <<part>>, "list"), R(of, <<of, "slash", part>>, "behind")>>
Grammar == <<
  R("test", <<"name">>, "word"), R("test", <<"type", "open", ")">>, "type"),
  R("test", <<"pi", "open", ")">>, "type"), R("test", <<"pi", "open", "'s'", ")">>, "pi"),
  R("step", <<"test">>, "child"), R("step", <<"attribute">>, "attribute"), R("step", <<"axis", "::", "test">>, "step"),
  R("step", <<"step", "[", "or", "]">>, "filter"),
  R("part", <<"step">>, "same"), R("part", <<"dots">>, "word")>>
  \o Relative("rel", "part") \o <<
  R("primary", <<"unit">>, "word"), R("primary", <<"open", "or", ")">>, "inner"),
  R("primary", <<"called", "open", ")">>, "call0"), R("primary", <<"called", "open", "args", ")">>, "call"),
  R("filters", <<"primary">>, "unfiltered"), R("filters", <<"filters", "[", "or", "]">>, "filter"),
  R("path", <<"rel">>, "path"), R("path", <<"/">>, "root"), R("path", <<"slash", "rel">>, "absolute"),
  R("path", <<"filters">>, "filtered"), R("path", <<"filters", "slash", "rel">>, "from")>>
  \o Level("union", "path", "|") \o <<R("unary", <<"union">>, "same"), R("unary", <<"-", "unary">>, "neg")>>
  \o Level("mult", "unary", "times") \o Level("add", "mult", "plus") \o Level("less", "add", "less than")
  \o Level("equal", "less", "equals") \o Level("and2", "equal", "and") \o Level("or", "and2", "or2") \o <<
  R("args", <<"or">>, "list"), R("args", <<"args", ",", "or">>, "append"),
  \* Patterns.
  R("pstep", <<"test">>, "child"), R("pstep", <<"attribute">>, "attribute"),
  R("pstep", <<"paxis", "::", "test">>, "step"), R("pstep", <<"pstep", "[", "or", "]">>, "filter")>>
  \o Relative("prel", "pstep") \o <<
  R("ids", <<"id", "open", "'s'", ")">>, "idkey"), R("ids", <<"key", "open", "'s'", ",", "'s'", ")">>, "idkey"),
  R("ppath", <<"prel">>, "path"), R("ppath", <<"/">>, "root"), R("ppath", <<"slash", "prel">>, "absolute"),
  R("ppath", <<"ids">>, "path1"), R("ppath", <<"ids", "slash", "prel">>, "from")>>
  \o Level("pattern", "ppath", "|")

NamesIn(ls) == ls \ (DOMAIN Punctuation \union DOMAIN Special \union {"*", "p:a", "p:*", "q:a"})
\* The words of a lexical class, and the classes of operators.
Classes == {"name", "type", "pi", "open", "attribute", "axis", "paxis", "::", ")", "[", "]", "'s'", ",", "unit",
            "dots", "called", "id", "key"}
OperatorWords == "slash" :> {"/", "//"} @@ "/" :> {"/"} @@ "|" :> {"|"} @@ "-" :> {"-"} @@ "times" :> {"*", "div", "mod"}
  @@ "plus" :> {"+", "-"} @@ "less than" :> {"<", "<=", ">", ">="} @@ "equals" :> {"=", "!="}
  @@ "and" :> {"and"} @@ "or2" :> {"or"}
WordsOf(class, ls) == ls \intersect
  CASE class = "name" -> NamesIn(ls) \union {"*", "p:a", "p:*"}
    [] class = "type" -> {"node", "text", "comment"}
    [] class = "pi" -> {"processing-instruction"}
    [] class = "open" -> {"(", " ("}
    [] class = "attribute" -> {"@a", "@*", "@p:a", "@p:*"}
    [] class = "axis" -> DOMAIN AxisNames
    [] class = "paxis" -> {"child", "attribute"}
    [] class = "unit" -> {"$v", "$p:v", "'s'", "1", "1.5"}
    [] class = "dots" -> {".", ".."}
    [] class = "called" -> (NamesIn(ls) \ DOMAIN NodeTypes) \union {"p:a"}
    [] OTHER -> {class}

T(k, s, sub) == [k |-> k, s |-> s, sub |-> sub]
Slashes(w) == IF w.s = "//" THEN <<T("//", "", <<>>)>> ELSE <<>>
TheRoot == T("root", "", <<>>)
\* The tree of a production whose parts have the trees c.
Made(make, c) ==
  CASE make \in {"same", "word"} -> c[1]
    [] make = "type" -> T("type", c[1].s, <<>>)
    [] make = "pi" -> T("pi", c[3].s, <<>>)
    [] make \in {"child", "attribute"} -> T("step", make, <<c[1]>>)
    [] make = "step" -> T("step", c[1].s, <<c[3]>>)
    [] make = "filter" -> [c[1] EXCEPT !.sub = Append(@, c[3])]
    [] make = "list" -> <<c[1]>>
    [] make = "append" -> Append(c[1], c[3])
    [] make = "behind" -> c[1] \o Slashes(c[2]) \o <<c[3]>>
    [] make = "inner" -> c[2]
    [] make = "call0" -> T("call", c[1].s, <<>>)
    [] make = "call" -> T("call", c[1].s, c[3])
    [] make = "idkey" -> T("idkey", c[1].s, SelectSeq(c, LAMBDA x : x.s = "'s'"))
    [] make = "unfiltered" -> T("filter", "", <<c[1]>>)
    [] make = "filtered" -> IF Len(c[1].sub) = 1 THEN c[1].sub[1] ELSE c[1]
    [] make = "path" -> T("path", "", c[1])
    [] make = "path1" -> T("path", "", <<c[1]>>)
    [] make = "root" -> T("path", "", <<TheRoot>>)
    [] make = "absolute" -> T("path", "", <<TheRoot>> \o Slashes(c[1]) \o c[2])
    [] make = "from" -> T("path", "", <<IF c[1].k = "filter" /\ Len(c[1].sub) = 1 THEN c[1].sub[1] ELSE c[1]>>
                                      \o Slashes(c[2]) \o c[3])
    [] make = "neg" -> T("neg", "", <<c[2]>>)
    [] make = "binary" -> T("op", c[2].s, <<c[1], c[3]>>)

\* g[nt][n] has the phrases of n words of nt: each with its words, whether the
\* grammar has them for operators, and its tree.
Symbols == {Grammar[i].of : i \in DOMAIN Grammar} \union Classes \union DOMAIN OperatorWords
Lengths(rhs, n) == IF Len(rhs) = 1 THEN {n} ELSE 1 .. n - Len(rhs) + 1
RECURSIVE Joined(_, _, _)
Joined(g, rhs, n) ==
  IF rhs = <<>> THEN {[ws |-> <<>>, ops |-> <<>>, cs |-> <<>>]}
  ELSE UNION {{[ws |-> x.ws \o y.ws, ops |-> x.ops \o y.ops, cs |-> <<x.tree>> \o y.cs] :
                 x \in g[Head(rhs)][i], y \in Joined(g, Tail(rhs), n - i)} : i \in Lengths(rhs, n)}
Words(ls) ==
  [nt \in Symbols |-> <<
     IF nt \in DOMAIN OperatorWords
     THEN {[ws |-> <<w>>, ops |-> <<TRUE>>, tree |-> T("word", w, <<>>)] : w \in OperatorWords[nt] \intersect ls}
     ELSE IF nt \notin Classes THEN {}
     ELSE {[ws |-> <<w>>, ops |-> <<FALSE>>, tree |-> T("word", w, <<>>)] : w \in WordsOf(nt, ls)}>>]
Derive(g, rule, n) ==
  [g EXCEPT ![rule.of][n] = @ \union
     {[ws |-> p.ws, ops |-> p.ops, tree |-> Made(rule.make, p.cs)] : p \in Joined(g, rule.rhs, n)}]
\* (TLC computes a function once when it is combined with another.)
Longer(g, n) == [nt \in Symbols |-> IF Len(g[nt]) < n THEN Append(g[nt], {}) ELSE g[nt]] @@ <<>>
RECURSIVE PhrasesUpTo(_, _)
PhrasesUpTo(ls, n) ==
  IF n = 0 THEN Words(ls)
  ELSE LET g0 == Longer(PhrasesUpTo(ls, n - 1), n)
       IN IF g0 = <<>> THEN g0 ELSE FoldLeft(LAMBDA g, rule : Derive(g, rule, n), g0, Grammar)

\* XPath 3.7: behind a word that is no operator and opens nothing, a star and
\* the name of an operator are operators; nowhere else.
Separate(p, i) == i = 1 \/ p.ops[i - 1] \/ p.ws[i - 1] \in {"::", "(", " (", "[", ","}
IsLexical(p) ==
  \A i \in DOMAIN p.ws : p.ws[i] \in {"*"} \union DOMAIN OperatorNames => (p.ops[i] <=> ~Separate(p, i))
\* What the code refuses all the same: the name of an operator with its
\* parenthesis directly behind it, of a function or element with white space
\* before it, a second minus, and the name of an operator behind a star that
\* is a name behind an operator.
IsRefused(p) ==
  \E i \in DOMAIN p.ws :
    \/ p.ws[i] \in DOMAIN OperatorNames /\ i < Len(p.ws) /\ p.ws[i + 1] = (IF p.ops[i] THEN "(" ELSE " (")
    \/ i > 1 /\ p.ws[i] = "-" /\ p.ws[i - 1] = "-" /\ (i = 2 \/ Separate(p, i - 1))
    \/ /\ i > 2 /\ p.ws[i] \in DOMAIN OperatorNames /\ p.ops[i]
       /\ p.ws[i - 1] = "*" /\ ~p.ops[i - 1] /\ p.ops[i - 2] /\ p.ws[i - 2] \notin {"/", "//"}

\* A tree and the trees in it.
RECURSIVE TreesIn(_)
TreesIn(t) == {t} \union UNION {TreesIn(t.sub[i]) : i \in DOMAIN t.sub}
\* XSLT 5.3, 12.2 and 12.4.
IsAllowed(t, k) ==
  \A u \in TreesIn(t) :
    /\ k # "expr" => u.s \notin {"$v", "$p:v"}
    /\ k \in {"match", "keymatch"} => u.k # "call" \/ u.s # "current"
    /\ k \in {"keymatch", "keyuse"} => u.k # "call" \/ u.s # "key"
Phrases ==
  FoldSet(LAMBDA al, f : f @@ (al :>
    LET g == PhrasesUpTo(al.lexemes, al.whole)
        Of(nt, k) == {[ws |-> p.ws, tree |-> p.tree] :
                        p \in {q \in UNION {g[nt][n] : n \in 1 .. al.whole} :
                                 IsLexical(q) /\ ~IsRefused(q) /\ IsAllowed(q.tree, k)}}
    IN "expr" :> Of("or", "expr") @@ "keyuse" :> Of("or", "keyuse")
       @@ "match" :> Of("pattern", "match") @@ "keymatch" :> Of("pattern", "keymatch")),
    <<>>, Alphabets)
Legal == FoldSet(LAMBDA al, f :
    f @@ (al :> [k \in al.kinds |-> {p.ws : p \in Phrases[al][k]}]), <<>>, Alphabets)

(* What the instructions say, as a tree. *)
TypeOf == "IsNode" :> "node" @@ "IsText" :> "text" @@ "IsComment" :> "comment" @@ "IsPI" :> "processing-instruction"
AxisOf == "AxisDescendant" :> "child" @@ [x \in Range(AxisNames) |-> CHOOSE n \in DOMAIN AxisNames : AxisNames[n] = x]
OperatorOf == "CombineSets" :> "|" @@ "Or" :> "or" @@ "And" :> "and" @@ "Equal" :> "=" @@ "NotEqual" :> "!="
  @@ "Less" :> "<" @@ "LessOrEq" :> "<=" @@ "Greater" :> ">" @@ "GreaterOrEq" :> ">=" @@ "Add" :> "+"
  @@ "Subtract" :> "-" @@ "Mult" :> "*" @@ "Div" :> "div" @@ "Mod" :> "mod"
WordTree(w) == T("word", w, <<>>)
ReadTest(i) ==
  CASE i.type \in DOMAIN TypeOf -> T("type", TypeOf[i.type], <<>>)
    [] i.type = "IsSpecificPI" -> T("pi", "'s'", <<>>)
    [] i.type = "IsElement" -> WordTree(i.s)
    [] i.type = "IsNSElement" -> WordTree("p:*")
    [] i.type = "IsFQElement" -> WordTree("p:" \o i.child[1].s)
    [] i.type = "IsAttr" -> WordTree("@" \o i.s)
    [] i.type = "IsNSAttr" -> WordTree("@p:" \o i.child[1].s)
RECURSIVE ReadUnit(_), ReadAll(_)
\* A path is read step by step, a predicate goes to what is in front of it.
WithPredicate(t, i) ==
  IF t.k \in {"step", "filter"} THEN [t EXCEPT !.sub = Append(@, ReadAll(i.child))]
  ELSE T("filter", "", <<t, ReadAll(i.child)>>)
ReadOnto(parts, i) ==
  CASE i.type = "Pred" -> Append(Front(parts), WithPredicate(Last(parts), i))
    [] i.type = "GetContextNode" -> Append(parts, WordTree("."))
    [] i.type = "GetParentNode" -> Append(parts, WordTree(".."))
    [] i.type = "SelectRoot" -> Append(parts, TheRoot)
    [] i.type = "AxisDescendantOrSelf" -> Append(parts, T("//", "", <<>>))
    [] i.type = "AxisDescendant" -> parts \o <<T("//", "", <<>>), T("step", "child", <<ReadTest(i.child[1])>>)>>
    [] i.type \in DOMAIN AxisOf -> Append(parts, T("step", AxisOf[i.type], <<ReadTest(i.child[1])>>))
    [] OTHER -> Append(parts, ReadUnit(i))
IsPath(parts) == Len(parts) > 1 \/ parts[1].k \in {"step", "root"} \/ parts[1].s \in {".", ".."}
ReadAll(a) == LET parts == FoldLeft(ReadOnto, <<>>, a)
              IN IF IsPath(parts) THEN T("path", "", parts) ELSE parts[1]
ReadEach(a) == [i \in DOMAIN a |-> ReadAll(<<a[i]>>)]
ReadUnit(i) ==
  CASE i.type = "EvalSteps" -> ReadAll(i.child)
    [] i.type = "UnaryMinus" -> T("neg", "", <<ReadAll(i.child)>>)
    [] i.type \in DOMAIN OperatorOf -> T("op", OperatorOf[i.type], ReadEach(i.child))
    [] i.type = "ExecFunction" /\ i.s = "u" -> T("call", "p:" \o i.child[1].s, ReadEach(Tail(i.child)))
    [] i.type = "ExecFunction" -> T("call", i.s, ReadEach(i.child))
    [] i.type = "Literal" -> WordTree("'s'")
    [] i.type = "GetVar" -> WordTree("$v")
    [] i.type = "GetFQVar" -> WordTree("$p:v")
    [] i.s \in {"-1", "-1.5"} -> T("neg", "", <<WordTree(IF i.s = "-1" THEN "1" ELSE "1.5")>>)
    [] OTHER -> WordTree(i.s)

\* A pattern has its steps the other way round, those up to a predicate's list together.
OntoPattern(parts, i) ==
  CASE i.type \in {"ToParent", "FillWithCurrentNode", "FillNodeList"} -> parts
    [] i.type = "ToAncestors" -> <<T("//", "", <<>>)>> \o parts
    [] i.type = "IsRoot" -> <<TheRoot>> \o parts
    [] i.type = "Pred" -> <<WithPredicate(Head(parts), i)>> \o Tail(parts)
    [] i.type = "ExecIdKey" -> <<T("idkey", i.s, ReadEach(i.child))>> \o parts
    [] i.type \in DOMAIN AxisOf -> <<T("step", AxisOf[i.type], <<ReadTest(i.child[1])>>)>> \o parts
    [] i.type \in {"IsAttr", "IsNSAttr"} -> <<T("step", "attribute", <<ReadTest(i)>>)>> \o parts
    [] OTHER -> <<T("step", "child", <<ReadTest(i)>>)>> \o parts
RECURSIVE ReadPattern(_)
ReadPattern(a) ==
  IF Head(a).type = "CombinePath"
  THEN T("op", "|", [i \in 1 .. 2 |-> ReadPattern(Head(a).child[i].child)])
  ELSE T("path", "", FoldLeft(OntoPattern, <<>>, a))

IsPattern == kind \in {"match", "keymatch"}

(* ----------------------------- the behaviour ----------------------------- *)
NotParsed == [ok |-> FALSE, a |-> <<>>, l |-> -1]
ParserInit ==
  /\ alphabet \in Alphabets /\ kind \in alphabet.kinds
  /\ text \in {<<>>} \union {ws \in Legal[alphabet][kind] : Len(ws) > MaxLexemes}
  /\ parsed = NotParsed
AddLexeme(w) ==
  /\ Len(text) < MaxLexemes /\ text' = Append(text, w) /\ parsed' = NotParsed
  /\ UNCHANGED <<alphabet, kind>>
Parse == /\ parsed = NotParsed /\ parsed' = xpathParse(text, kind) /\ UNCHANGED <<alphabet, kind, text>>
ParserNext == Parse \/ \E w \in alphabet.lexemes : AddLexeme(w)

\* The tree depends on where the context node is in its list, or is a number
\* that is compared with that.
RECURSIVE AsksForPosition(_)
AsksForPosition(t) == t.k \in {"call", "op", "neg"}
  /\ ((t.k = "call" /\ t.s \notin PositionFree) \/ \E i \in DOMAIN t.sub : AsksForPosition(t.sub[i]))
MayBeNumber(t) == \/ t.k = "word" /\ t.s \in {"1", "1.5", "$v"}
                  \/ t.k = "neg"
                  \/ t.k = "op" /\ t.s \in {"+", "-", "*", "div", "mod"}
                  \/ t.k = "call" /\ t.s \notin PositionFree
\* A list made for the predicates of a pattern's step: the place where it is,
\* the place of the last of them.
ListsAreRight(a) ==
  \A i \in DOMAIN a :
    /\ a[i].type = "FillWithCurrentNode" =>
         \A j \in i + 1 .. Len(a) :
           (\A m \in i + 1 .. j : a[m].type = "Pred")
             => ~AsksForPosition(ReadAll(a[j].child)) /\ ~MayBeNumber(ReadAll(a[j].child))
    /\ a[i].type = "FillNodeList" =>
         a[i].child[1] = a[i - 1] \/ \E k \in DOMAIN a[i - 1].child : a[i - 1].child[k].child # <<>>
RECURSIVE AllLists(_)
AllLists(a) == IF Head(a).type = "CombinePath" THEN \A i \in 1 .. 2 : AllLists(Head(a).child[i].child)
               ELSE ListsAreRight(a)

(* An expression or pattern is accepted just when the grammar derives it,    *)
(* but for the texts IsRefused names, and its instructions say what the      *)
(* derivation does: which star and which name is an operator, what binds     *)
(* tighter, the abbreviations, the steps of a pattern turned round; and a    *)
(* pattern's step is only matched without its siblings when none of its      *)
(* predicates depends on them.                                               *)
ParsesAsXPath ==
  parsed # NotParsed =>
    /\ parsed.ok <=> text \in Legal[alphabet][kind]
    /\ parsed.ok =>
         [ws |-> text, tree |-> IF IsPattern THEN ReadPattern(parsed.a) ELSE ReadAll(parsed.a)]
           \in Phrases[alphabet][kind]
    /\ parsed.ok /\ IsPattern => AllLists(parsed.a)
=============================================================================
