----------------------------- MODULE Stylesheet -----------------------------
(* generic/domxslt.c: a stylesheet and what it imports and includes is read   *)
(* into the tables of an xsltState (processTopLevel and what it calls), and    *)
(* the choice of a template rule from them (ApplyTemplate, apply-imports).     *)
(* A pattern is abstracted to the test of its last step and whether it asks    *)
(* for more; module XPath is about how patterns match.                         *)
EXTENDS Integers, FiniteSets, Sequences, SequencesExt

CONSTANTS Names,         \* element names, also those of named templates
          VarNames,
          Modes,
          NoMode,        \* the mode that is not given
          TemplateDecls, \* template elements: [pats, mode, prio]
          NoPrio,        \* the priority that is not given
          Bits,          \* precision of a precedence
          MaxSheets,     \* bound: stylesheet documents
          MaxDecls,      \* bound: declarations in all of them
          MixedDecls,    \* bound: may they be of several kinds?  Each kind has a table of its own.
          LateImports,   \* may an included sheet import after its includer declared something?
          StaleMatch     \* may the uninitialised match field of a union's part be NULL?

ASSUME Precision == Bits \in Nat /\ MaxSheets \in Nat /\ MaxSheets <= Bits

VARIABLES open,       \* the calls of processTopLevel, innermost last
          opened,     \* number of stylesheet documents opened
          number,     \* documentNumber of each of them
          templates,  \* the list xs->templates
          elems,      \* xs->isElementTpls, by element name and mode
          named,      \* xs->namedTemplates
          toplevel,   \* xs->topLevelVars
          aliases,    \* xs->nsAliases
          wsInfo,     \* xs->wsInfo
          failed,     \* did reading end in an error?
          declared    \* history: all declarations, as read

tables == <<templates, elems, named, toplevel, aliases, wsInfo>>
sheetVars == <<open, opened, number, tables, failed, declared>>

Elements == [name : Names, nested : BOOLEAN]
Keys == Names \X (Modes \union {NoMode})

\* A precedence of this size can be halved k times.
Power[k \in 0 .. Bits] == IF k = 0 THEN 1 ELSE 2 * Power[k - 1]

Init ==
  /\ open = <<[doc |-> 1, prec |-> Power[Bits], low |-> 0, how |-> "main", seen |-> FALSE,
               unit |-> <<>>, imports |-> 0]>>
  /\ opened = 1
  /\ number \in {[d \in 1 .. MaxSheets |-> d], [d \in 1 .. MaxSheets |-> MaxSheets - d]}
  /\ templates = <<>> /\ elems = [k \in Keys |-> <<>>]
  /\ named = << >> /\ toplevel = << >> /\ aliases = << >>
  /\ wsInfo = [stripAll |-> FALSE, wildcardPrec |-> 0, tokens |-> << >>]
  /\ failed = FALSE /\ declared = <<>>

Reading == open # <<>> /\ ~failed
Sheet == Last(open)

(* -------------------- import, include, end of a sheet --------------------- *)
\* Unit u of the import tree has lower precedence than v: it comes earlier when
\* the tree is visited in post order.  An included sheet is of its includer's unit.
Lower(u, v) ==
  \/ IsStrictPrefix(v, u)
  \/ \E k \in DOMAIN u \intersect DOMAIN v :
        SubSeq(u, 1, k - 1) = SubSeq(v, 1, k - 1) /\ u[k] < v[k]

ChildPrecedence(s) == (s.prec + s.low) \div 2

Opened(s, how) ==
  IF how = "import"
  THEN [doc |-> 0, prec |-> ChildPrecedence(s), low |-> s.low, how |-> how, seen |-> FALSE,
        unit |-> Append(s.unit, s.imports + 1), imports |-> 0]
  ELSE [doc |-> 0, prec |-> s.prec, low |-> s.low, how |-> how, seen |-> FALSE,
        unit |-> s.unit, imports |-> s.imports]

Nest(how) ==
  /\ Reading /\ opened < MaxSheets
  /\ opened' = opened + 1
  /\ open' = Append(ReplaceAt(open, Len(open), [Sheet EXCEPT !.seen = how = "include" \/ @]),
                    [Opened(Sheet, how) EXCEPT !.doc = opened + 1])
  /\ UNCHANGED <<number, tables, failed, declared>>

Import ==
  /\ Reading /\ ~Sheet.seen
  /\ LateImports \/ \A i \in DOMAIN declared :
                      ~Lower(Append(Sheet.unit, Sheet.imports + 1), declared[i].unit)
  /\ Nest("import")

Include == Nest("include")

\* precedenceLowBound is shared with an included sheet, and raised behind an import.
EndOfSheet ==
  /\ Reading
  /\ LET inner == Sheet  rest == Front(open)
     IN open' = IF rest = <<>> THEN <<>>
                ELSE ReplaceAt(rest, Len(rest),
                       IF inner.how = "import"
                       THEN [Last(rest) EXCEPT !.low = inner.prec, !.imports = @ + 1]
                       ELSE [Last(rest) EXCEPT !.low = inner.low, !.imports = inner.imports])
  /\ UNCHANGED <<opened, number, tables, failed, declared>>

(* ------------------------------ declarations ------------------------------ *)
Declare(kind, what) ==
  /\ Reading /\ Len(declared) < MaxDecls
  /\ MixedDecls \/ \A i \in DOMAIN declared : declared[i].kind = kind
  /\ declared' = Append(declared, [kind |-> kind, what |-> what, unit |-> Sheet.unit,
                                   prec |-> Sheet.prec, doc |-> Sheet.doc])
  /\ open' = ReplaceAt(open, Len(open), [Sheet EXCEPT !.seen = TRUE])
  /\ UNCHANGED <<opened, number>>

Put(table, x, v) == [y \in DOMAIN table \union {x} |-> IF y = x THEN v ELSE table[y]]

Prio(p) == IF p.path THEN 50 ELSE IF p.test = "*" THEN -50 ELSE 0   \* in hundredths
Keyed(p) == p.test # "*"
Matches(p, e) == p.test \in {"*", e.name} /\ (p.path => e.nested)

InsertMutAnyPrecedence(list, r) ==
  LET stops == {i \in DOMAIN list : ~(list[i].prio > r.prio)}
  IN InsertAt(list, IF stops = {} THEN Len(list) + 1 ELSE Min(stops), r)

\* In front of the first rule that is not both of no lower precedence and of
\* higher priority.
Insert(list, r) ==
  LET stops == {i \in DOMAIN list : ~(list[i].prec >= r.prec /\ list[i].prio > r.prio)}
  IN InsertAt(list, IF stops = {} THEN Len(list) + 1 ELSE Min(stops), r)

\* addMatch, for the parts of a union from left to right.
Rule(t, k, set) ==
  [pat |-> t.pats[k], mode |-> t.mode, prio |-> IF t.prio = NoPrio THEN Prio(t.pats[k]) ELSE t.prio,
   prec |-> Sheet.prec, doc |-> Sheet.doc, at |-> Len(declared) + 1,
   match |-> set \/ k = Len(t.pats)]

AddMatch(t, set) ==
  LET rules == [k \in DOMAIN t.pats |-> Rule(t, k, set)]
  IN /\ templates' = FoldLeft(Insert, templates, SelectSeq(rules, LAMBDA r : ~Keyed(r.pat)))
     /\ elems' = [key \in Keys |->
                    FoldLeft(Insert, elems[key],
                      SelectSeq(rules, LAMBDA r : <<r.pat.test, r.mode>> = key))]

AddTemplate(t) ==
  /\ Declare("template", t)
  /\ \E set \in IF StaleMatch THEN BOOLEAN ELSE {TRUE} : AddMatch(t, set)
  /\ UNCHANGED <<named, toplevel, aliases, wsInfo, failed>>

\* The same name twice with one precedence is an error; else the later one stays.
Clash(table, x) == x \in DOMAIN table /\ table[x].prec = Sheet.prec
Now(v) == [prec |-> Sheet.prec, at |-> Len(declared) + 1, what |-> v]

NameTemplate(x) ==
  /\ Declare("named", x)
  /\ failed' = Clash(named, x)
  /\ named' = IF failed' THEN named ELSE Put(named, x, Now(x))
  /\ UNCHANGED <<templates, elems, toplevel, aliases, wsInfo>>

TopLevelVariable(x, kind) ==
  /\ Declare("variable", x)
  /\ failed' = Clash(toplevel, x)
  /\ toplevel' = IF failed' THEN toplevel ELSE Put(toplevel, x, Now(kind))
  /\ UNCHANGED <<templates, elems, named, aliases, wsInfo>>

NamespaceAlias(x) ==
  /\ Declare("alias", x)
  /\ aliases' = IF x \in DOMAIN aliases /\ aliases[x].prec > Sheet.prec THEN aliases
                ELSE Put(aliases, x, Now(x))
  /\ UNCHANGED <<templates, elems, named, toplevel, wsInfo, failed>>

FillMutKeepsWildcard(strip, x) ==
  IF x = "*" THEN [wsInfo EXCEPT !.stripAll = strip]
  ELSE [wsInfo EXCEPT !.tokens = Put(@, x, [strip |-> strip, prec |-> Sheet.prec])]

\* fillElementList, for one name: a token is in at most one of two tables.
Fill(strip, x) ==
  IF x = "*" THEN [wsInfo EXCEPT !.stripAll = strip, !.wildcardPrec = Sheet.prec]
  ELSE [wsInfo EXCEPT !.tokens = Put(@, x, [strip |-> strip, prec |-> Sheet.prec])]

Space(strip, x) ==
  /\ Declare("space", [strip |-> strip, test |-> x])
  /\ wsInfo' = Fill(strip, x)
  /\ UNCHANGED <<templates, elems, named, toplevel, aliases, failed>>

Load ==
  \/ Import \/ Include \/ EndOfSheet
  \/ \E t \in TemplateDecls : AddTemplate(t)
  \/ \E x \in Names : NameTemplate(x) \/ NamespaceAlias(x)
  \/ \E x \in VarNames, kind \in {"variable", "param"} : TopLevelVariable(x, kind)
  \/ \E strip \in BOOLEAN, x \in Names \union {"*"} : Space(strip, x)

(* -------------------------- choice of a template -------------------------- *)
NoRule == [prec |-> 0, prio |-> -10000000, at |-> 0]

FirstMatch(list, fits) ==
  LET i == SelectInSeq(list, LAMBDA r : r \in fits) IN IF i = 0 THEN NoRule ELSE list[i]

OfMode(mode) == SelectSeq(templates, LAMBDA r : r.mode = mode)

\* domPrecedes on the template elements; documents are ordered by their numbers.
Precedes(r, s) == IF r.doc = s.doc THEN r.at < s.at ELSE number[r.doc] < number[s.doc]

\* The list is in order: the search ends at a rule that cannot win any more.
Beaten(r, best) ==
  best # NoRule /\ \/ r.prec < best.prec
                   \/ r.prec = best.prec /\ r.prio < best.prio
                   \/ r.prec = best.prec /\ r.prio = best.prio /\ Precedes(r, best)

\* ApplyTemplate: first the rules for elements of this name, then all others.
ChosenFrom(list, e, best) ==
  LET r == FirstMatch(list, {s \in Range(list) : Beaten(s, best) \/ Matches(s.pat, e)})
  IN IF r = NoRule \/ Beaten(r, best) THEN best ELSE r

Chosen(e, mode) ==
  LET ofName == elems[<<e.name, mode>>]
  IN ChosenFrom(OfMode(mode), e, FirstMatch(ofName, {r \in Range(ofName) : Matches(r.pat, e)}))

\* apply-imports, called while cur is the current template rule.
ImportedFrom(list, e, cur, best) ==
  FoldLeft(LAMBDA c, r :
             IF /\ r.match /\ r.prec < cur.prec /\ r.prec >= c.prec
                /\ (r.prec > c.prec \/ r.prio >= c.prio)
                /\ Matches(r.pat, e)
             THEN r ELSE c, best, list)

Imported(e, cur) ==
  LET ofName == elems[<<e.name, cur.mode>>]
  IN ImportedFrom(OfMode(cur.mode), e, cur,
                  FirstMatch(ofName, {r \in Range(ofName) : r.prec < cur.prec /\ Matches(r.pat, e)}))

\* StripXMLSpace: are the white space nodes in elements named x stripped?
Strips(x) ==
  IF x \in DOMAIN wsInfo.tokens /\ wsInfo.tokens[x].prec >= wsInfo.wildcardPrec
  THEN wsInfo.tokens[x].strip ELSE wsInfo.stripAll

(* ------------------------------- properties ------------------------------- *)
\* The import precedences, halved between two bounds, order the declarations as
\* the tree of imports does.
PrecedencesFollowImports ==
  \A i, j \in DOMAIN declared :
     Lower(declared[i].unit, declared[j].unit) <=> declared[i].prec < declared[j].prec

\* The rules that match, each with the place of its template.
Candidates(e, mode) ==
  UNION {LET t == declared[i].what
         IN {[at |-> i, prio |-> IF t.prio = NoPrio THEN Prio(t.pats[k]) ELSE t.prio]
               : k \in {k \in DOMAIN t.pats : Matches(t.pats[k], e)}}
           : i \in {i \in DOMAIN declared : declared[i].kind = "template" /\ declared[i].what.mode = mode}}

Better(c, d) ==
  \/ Lower(declared[d.at].unit, declared[c.at].unit)
  \/ declared[d.at].unit = declared[c.at].unit /\ c.prio > d.prio

Best(C) == {c \in C : \A d \in C : ~Better(d, c)}

Among(r, best) == IF best = {} THEN r = NoRule ELSE [at |-> r.at, prio |-> r.prio] \in best

AllRules == ToSet(templates) \union UNION {ToSet(elems[k]) : k \in Keys}

\* xsl:apply-imports continues with the best rule of lower import precedence.
ImportIsChosen ==
  \A cur \in AllRules, e \in Elements :
    Among(Imported(e, cur),
          Best({c \in Candidates(e, cur.mode) : Lower(declared[c.at].unit, declared[cur.at].unit)}))

\* The template chosen is one of the highest import precedence and then priority;
\* of several in one document, the last; and ImportIsChosen.
RuleIsChosen ==
  /\ ImportIsChosen
  /\ \A e \in Elements, mode \in Modes \union {NoMode} :
    LET best == Best(Candidates(e, mode))  r == Chosen(e, mode)
    IN /\ Among(r, best)
       /\ (\A c, d \in best : declared[c.at].doc = declared[d.at].doc) =>
            \A c \in best : c.at <= r.at

Holder(kind, x) ==
  LET ds == {i \in DOMAIN declared : declared[i].kind = kind /\ declared[i].what = x}
  IN {i \in ds : \A j \in ds : /\ ~Lower(declared[i].unit, declared[j].unit)
                               /\ declared[i].unit = declared[j].unit => j <= i}

Holds(table, kind, x) == Holder(kind, x) = {table[y].at : y \in DOMAIN table \intersect {x}}

SpaceHolder(x) ==
  LET ds == {i \in DOMAIN declared : declared[i].kind = "space" /\ declared[i].what.test \in {x, "*"}}
      rank(i) == IF declared[i].what.test = x THEN 1 ELSE 0
  IN {i \in ds : \A j \in ds :
        /\ ~Lower(declared[i].unit, declared[j].unit)
        /\ declared[i].unit = declared[j].unit =>
             \/ rank(i) > rank(j)
             \/ rank(i) = rank(j) /\ j <= i}

\* Of several declarations of one name the one of the highest import precedence
\* holds, and the last of these; for white space a name comes before *.
HighestDeclarationHolds ==
  ~failed =>
    /\ PrecedencesFollowImports
    /\ \A x \in VarNames : Holds(toplevel, "variable", x)
    /\ \A x \in Names :
         /\ Holds(named, "named", x) /\ Holds(aliases, "alias", x)
         /\ Strips(x) <=> \E i \in SpaceHolder(x) : declared[i].what.strip

\* Import precedence decides between rules and between declarations.
PrecedenceHolds == RuleIsChosen /\ HighestDeclarationHolds
=============================================================================
