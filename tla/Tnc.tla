-------------------------------- MODULE Tnc ---------------------------------
(* The DTD validator of extensions/tnc/tnc.c: a handler set of a SAX parser    *)
(* that collects the declarations, turns them into content models and matches  *)
(* the document with a stack of them, and the command made from what was       *)
(* collected, which does the same with a tree.  One action is one call of      *)
(* expat or one method.  The reference is what XML 1.0 calls valid.            *)
EXTENDS Integers, Sequences, FiniteSets, SequencesExt, FiniteSetsExt, Functions

CONSTANTS Dtds,       \* doctype name, declarations, attribute values to use and bounds
          NameWords,  \* words that are Names
          TokenWords, \* words that are Nmtokens but no Names
          EmptyCdata  \* TRUE: empty CDATA sections in elements declared EMPTY

VARIABLES dtd,     \* the document type
          left,    \* its declarations that expat still has to tell
          tnc,     \* the TNC_Data of the parser
          cmd,     \* that of the validation command, if there is one
          doc,     \* history: what the reference knows of the document so far
          log,     \* history: its events, if the command will be asked about it
          answer   \* history: the last method of the command and its result

tncVars == <<dtd, left, tnc, cmd, doc, log, answer>>

\* Content models: TNC_cp.
Cp(type, quant, name, ch) == [type |-> type, quant |-> quant, name |-> name, ch |-> ch]
Optional(cp) == cp.quant \in {"?", "*"}
Repeats(cp) == cp.quant \in {"+", "*"}

NoData == [sax |-> FALSE]
CreateTncData == [sax |-> TRUE, doctypeName |-> "", tagNames |-> <<>>, attDefs |-> <<>>,
  entityDecls |-> <<>>, notationDecls |-> <<>>, ids |-> <<>>, skipWhiteCDATAs |-> TRUE,
  ignorePCDATA |-> FALSE, rewritten |-> FALSE, dtdstatus |-> FALSE, idCheck |-> TRUE,
  stack |-> <<>>, err |-> ""]
NoAnswer == [how |-> "none", ok |-> TRUE]

\* A report stops the parser; the command notes it in dtdstatus.
SignalNotValid(t, code) == [t EXCEPT !.err = code, !.dtdstatus = IF t.sax THEN @ ELSE TRUE]
Has(f, x) == x \in DOMAIN f
With(f, x, v) == (x :> v) @@ f
Unless(f, x, v) == IF Has(f, x) THEN f ELSE With(f, x, v)

(* ----------------------------- declarations ------------------------------ *)
IsName(w) == w \in NameWords
IsToken(w) == w \in NameWords \union TokenWords
OneWord(v, Kind) == Len(v) = 1 /\ v[1] \in Kind

ElementDecl(t, d) ==
  LET cp == d.model
  IN IF Has(t.tagNames, d.name) THEN SignalNotValid(t, "DUPLICATE_ELEMENT_DECL")
     ELSE IF /\ cp.type = "MIXED" /\ cp.quant = "*"
             /\ \E i, j \in DOMAIN cp.ch : i < j /\ cp.ch[i].name = cp.ch[j].name
          THEN SignalNotValid(t, "DUPLICATE_MIXED_ELEMENT")
     ELSE [t EXCEPT !.tagNames = With(@, d.name, cp)]

\* What a declared default does: entities it names must become unparsed ones; an
\* error that is told and one after which the declaration is dropped.
DefaultCode(t, d) ==
  CASE d.type = "ID" -> "ID_ATT_DEFAULT"
    [] d.type \in {"ENTITY", "IDREF"} /\ ~OneWord(d.dflt, NameWords) -> "NAME_REQUIRED"
    [] d.type = "ENTITY" /\ Has(t.entityDecls, d.dflt[1]) /\ t.entityDecls[d.dflt[1]] = "parsed" ->
         "ATT_ENTITY_DEFAULT_MUST_BE_DECLARED"
    [] d.type = "IDREFS" /\ (\E w \in Range(d.dflt) : ~IsName(w)) -> "NAME_REQUIRED"
    [] d.type = "NMTOKEN" /\ ~OneWord(d.dflt, NameWords \union TokenWords) -> "NMTOKEN_REQUIRED"
    [] d.type = "NMTOKENS" /\ (d.dflt = <<>> \/ \E w \in Range(d.dflt) : ~IsToken(w)) -> "NMTOKEN_REQUIRED"
    [] d.type \in {"NOTATION", "ENUMERATION"} /\ ~OneWord(d.dflt, d.table) -> "IMPOSSIBLE_DEFAULT"
    [] OTHER -> ""

NoAtts == [attributes |-> <<>>, nrOfreq |-> 0, nrOfIdAtts |-> 0]
AttDecl(d) == [type |-> d.type, has |-> d.has, dflt |-> d.dflt, isrequired |-> d.isrequired, table |-> d.table]

\* The notations a type names are to be declared; an entry that is not yet there
\* is unknown until the declaration comes.
NotationsUsed(t, d) ==
  IF d.type # "NOTATION" THEN t
  ELSE [t EXCEPT !.notationDecls = @ @@ [n \in d.table |-> FALSE]]

AttDeclAdded(t, d, info) ==
  [t EXCEPT !.attDefs = With(@, d.el, [attributes |-> With(info.attributes, d.att, AttDecl(d)),
     nrOfreq |-> info.nrOfreq + (IF d.isrequired THEN 1 ELSE 0),
     nrOfIdAtts |-> info.nrOfIdAtts + (IF d.type = "ID" THEN 1 ELSE 0)])]

\* A later declaration of the same attribute is ignored.
AttDeclCommand(t, d) ==
  LET info == IF Has(t.attDefs, d.el) THEN t.attDefs[d.el] ELSE NoAtts
      code == IF d.has THEN DefaultCode(t, d) ELSE ""
      named == IF d.has /\ d.type = "ENTITY" /\ code = ""
               THEN [t EXCEPT !.entityDecls = Unless(@, d.dflt[1], "unknown")] ELSE t
  IN IF Has(info.attributes, d.att) THEN t
     ELSE IF d.type = "ID" /\ info.nrOfIdAtts > 0 THEN SignalNotValid(t, "MORE_THAN_ONE_ID_ATT")
     ELSE IF code # "" THEN SignalNotValid(NotationsUsed(t, d), code)
     ELSE AttDeclAdded(NotationsUsed(named, d), d, info)

\* The first declaration counts, also behind a default that uses the entity.
EntityDeclMutLastWins(t, d) ==
  IF d.notation = "" THEN [t EXCEPT !.entityDecls = With(@, d.name, "parsed")]
  ELSE [t EXCEPT !.entityDecls = With(@, d.name, "unparsed"),
                 !.notationDecls = Unless(@, d.notation, FALSE)]
EntityDecl(t, d) ==
  LET known == Has(t.entityDecls, d.name)
      open == known /\ t.entityDecls[d.name] = "unknown"
  IN IF open /\ d.notation = "" THEN SignalNotValid(t, "ATT_ENTITY_DEFAULT_MUST_BE_DECLARED")
     ELSE IF known /\ ~open THEN t
     ELSE IF d.notation = "" THEN [t EXCEPT !.entityDecls = With(@, d.name, "parsed")]
     ELSE [t EXCEPT !.entityDecls = With(@, d.name, "unparsed"),
                    !.notationDecls = Unless(@, d.notation, FALSE)]

NotationDecl(t, d) == [t EXCEPT !.notationDecls = With(@, d.name, TRUE)]

Declared(t, d) ==
  CASE d.kind = "ELEMENT" -> ElementDecl(t, d) [] d.kind = "ATTLIST" -> AttDeclCommand(t, d)
    [] d.kind = "ENTITY" -> EntityDecl(t, d) [] d.kind = "NOTATION" -> NotationDecl(t, d)

\* The models are rewritten, then what was used must have been declared.
EndDoctypeDecl(t) ==
  LET r == [t EXCEPT !.rewritten = TRUE]
  IN IF \E n \in DOMAIN t.notationDecls : ~t.notationDecls[n]
     THEN SignalNotValid(r, "NOTATION_MUST_BE_DECLARED")
     ELSE IF \E e \in DOMAIN t.entityDecls : t.entityDecls[e] = "unknown"
     THEN SignalNotValid(r, "ATT_ENTITY_DEFAULT_MUST_BE_DECLARED")
     ELSE [r EXCEPT !.dtdstatus = TRUE]

(* ---------------------- elements in a content model ---------------------- *)
\* Outcomes of a probe: 1 matched, 0 an error, -1 look further up the stack.
Entry(cp, deep) == [model |-> cp, activeChild |-> 0, deep |-> deep, alreadymatched |-> FALSE]
PushModel(st, i) == Append(st, Entry(Last(st).model.ch[i], Last(st).deep + 1))
Probed(rc, st) == [rc |-> rc, st |-> st]
MatchedChild(st, k, i) == [st EXCEPT ![k].activeChild = i, ![k].alreadymatched = TRUE]

\* The child matched last is a name that may be there again.
ActiveAgain(e, n) ==
  /\ e.alreadymatched /\ e.model.ch[e.activeChild].type = "NAME"
  /\ Repeats(e.model.ch[e.activeChild]) /\ e.model.ch[e.activeChild].name = n

RECURSIVE TncProbeElement(_, _)
\* Child i of the model on top.
ProbeChild(n, st, i) ==
  LET c == Last(st).model.ch[i]
  IN CASE c.type = "NAME" /\ c.name = n -> Probed(1, st)
       [] c.type = "NAME" /\ c.name # n -> Probed(IF Optional(c) THEN -1 ELSE 0, st)
       [] OTHER -> TncProbeElement(n, PushModel(st, i))
Found(st, rs, i) == Probed(1, MatchedChild(rs[i].st, Len(st), i))

\* All alternatives in turn; none may be needed.
AfterChoice(st, rs) ==
  LET e == Last(st)
      found == {i \in DOMAIN rs : rs[i].rc = 1}
  IN IF found # {} THEN Found(st, rs, Min(found))
     ELSE Probed(IF \/ \E i \in DOMAIN rs : rs[i].rc = -1
                    \/ e.alreadymatched \/ Optional(e.model) THEN -1 ELSE 0, st)
ProbeChoice(n, st) ==
  LET e == Last(st)
  IN IF ActiveAgain(e, n) THEN Probed(1, st)
     ELSE IF e.alreadymatched /\ ~Repeats(e.model) THEN Probed(-1, st)
     ELSE AfterChoice(st, [i \in DOMAIN e.model.ch |-> ProbeChild(n, st, i)])

\* A group that was matched to its end may begin again.  A group among its first
\* children is taken for a match as soon as it is no error.
AfterRestart(st, rs) ==
  LET Name(i) == Last(st).model.ch[i].type = "NAME"
      stop == {i \in DOMAIN rs : ~Name(i) \/ rs[i].rc # -1}
  IN IF stop = {} THEN Probed(-1, st)
     ELSE IF rs[Min(stop)].rc = 0 THEN Probed(-1, st)
     ELSE Found(st, rs, Min(stop))
AfterRest(n, st, from, rs) ==
  LET e == Last(st)
      stop == {i \in DOMAIN rs : rs[i].rc # -1}
  IN IF stop # {} /\ rs[Min(stop)].rc = 1 THEN Found(st, rs, Min(stop))
     ELSE IF stop # {} THEN Probed(IF ~e.alreadymatched /\ Optional(e.model) THEN -1 ELSE 0, st)
     ELSE IF ~e.alreadymatched \/ ~Repeats(e.model) THEN Probed(-1, st)
     ELSE AfterRestart(st, [i \in 1 .. from - 1 |-> ProbeChild(n, st, i)])

\* The children behind the one matched last.
SeqStartMutStays(e) == IF e.alreadymatched THEN e.activeChild ELSE 1
SeqStart(e) == IF e.alreadymatched THEN e.activeChild + 1 ELSE 1
ProbeSeq(n, st) ==
  LET e == Last(st)
  IN IF ActiveAgain(e, n) THEN Probed(1, st)
     ELSE AfterRest(n, st, SeqStart(e),
                    [i \in SeqStart(e) .. Len(e.model.ch) |-> ProbeChild(n, st, i)])

TncProbeElement(n, st) ==
  LET cp == Last(st).model
  IN CASE cp.type = "MIXED" -> Probed(IF \E c \in Range(cp.ch) : c.name = n THEN 1 ELSE 0, st)
       [] cp.type = "ANY" -> Probed(1, st)
       [] cp.type = "EMPTY" -> Probed(0, st)
       [] cp.type = "CHOICE" -> ProbeChoice(n, st)
       [] cp.type = "SEQ" -> ProbeSeq(n, st)

\* Groups that are through are taken off until one knows the element.
RECURSIVE ProbeUpwards(_, _)
AfterProbe(n, r) ==
  IF r.rc # -1 THEN r
  ELSE IF Last(r.st).deep = 0 THEN Probed(0, r.st)
  ELSE ProbeUpwards(n, Front(r.st))
ProbeUpwards(n, st) == AfterProbe(n, TncProbeElement(n, st))

\* What the model on top still requires may be missing.
RECURSIVE TncProbeElementEnd(_)
MayBeMissing(st, i) ==
  LET c == Last(st).model.ch[i]
  IN IF c.type = "NAME" THEN Optional(c) ELSE TncProbeElementEnd(PushModel(st, i))
TncProbeElementEnd(st) ==
  LET e == Last(st)
  IN CASE e.model.type \in {"MIXED", "ANY", "EMPTY"} -> TRUE
       [] e.model.type = "CHOICE" ->
            e.alreadymatched \/ Optional(e.model) \/ \E i \in DOMAIN e.model.ch : MayBeMissing(st, i)
       [] e.model.type = "SEQ" ->
            \/ ~e.alreadymatched /\ Optional(e.model)
            \/ \A i \in SeqStart(e) .. Len(e.model.ch) : MayBeMissing(st, i)

\* The groups of the element on the stack, from the top to its model.
OwnEntries(st) == Max({k \in DOMAIN st : st[k].deep = 0}) .. Len(st)
CanEnd(st) == \A k \in OwnEntries(st) : TncProbeElementEnd(SubSeq(st, 1, k))

(* ------------------------------ attributes ------------------------------- *)
\* Where a Name is wanted: a wrong first character is told but not refused; a
\* space, or a word with other characters, is refused.
IdRefused(v) == Len(v) > 1 \/ (v # <<>> /\ ~IsToken(v[1]))
IdTold(v) == v = <<>> \/ ~IsName(v[1])

Unparsed(t, v) == Has(t.entityDecls, v) /\ t.entityDecls[v] = "unparsed"
EntityCode(t, v) == IF Len(v) = 1 /\ Unparsed(t, v[1]) THEN "" ELSE "ENTITY_ATTRIBUTE"

\* The report about a value, "" if there is none.
ValueCode(t, d, v) ==
  CASE d.type = "CDATA" /\ d.isrequired /\ d.has /\ v # d.dflt -> "WRONG_FIXED_ATTVALUE"
    [] d.type = "ID" /\ (IdTold(v) \/ IdRefused(v)) -> "NAME_REQUIRED"
    [] d.type = "ID" /\ Has(t.ids, v) /\ t.ids[v] -> "DUPLICATE_ID_VALUE"
    [] d.type = "IDREF" /\ v = <<>> -> "NAME_REQUIRED"
    [] d.type = "IDREFS" /\ v = <<>> -> "NAMES_REQUIRED"
    [] d.type = "ENTITY" -> EntityCode(t, v)
    [] d.type = "ENTITIES" /\ (v = <<>> \/ \E w \in Range(v) : ~Unparsed(t, w)) -> "ENTITIES_ATTRIBUTE"
    [] d.type = "NMTOKEN" /\ ~OneWord(v, NameWords \union TokenWords) -> "NMTOKEN_REQUIRED"
    [] d.type = "NMTOKENS" /\ (v = <<>> \/ \E w \in Range(v) : ~IsToken(w)) -> "NMTOKEN_REQUIRED"
    [] d.type = "NOTATION" /\ ~OneWord(v, d.table) -> "NOTATION_REQUIRED"
    [] d.type = "ENUMERATION" /\ ~OneWord(v, d.table) -> "ENUM_ATT_WRONG_VALUE"
    [] OTHER -> ""

\* IDs and references to them meet in one table; the value is TRUE for an ID.
IdsNoted(t, d, v) ==
  CASE d.type = "ID" -> [t EXCEPT !.ids = With(@, v, TRUE)]
    [] d.type = "IDREF" -> [t EXCEPT !.ids = Unless(@, v, FALSE)]
    [] d.type = "IDREFS" -> [t EXCEPT !.ids = @ @@ [r \in {<<w>> : w \in Range(v)} |-> FALSE]]
    [] OTHER -> t
\* A report without a refusal: the value is taken as if it was right.
Tolerated(d, v) ==
  \/ d.type = "ID" /\ IdTold(v) /\ ~IdRefused(v)
  \/ d.type \in {"NMTOKEN", "NMTOKENS"} /\ v = <<>>

\* Result: ok as TncProbeAttribute returns it.
TncProbeAttribute(t, atts, a, v) ==
  IF ~Has(atts, a) THEN [ok |-> FALSE, t |-> SignalNotValid(t, "UNKNOWN_ATTRIBUTE")]
  ELSE LET code == ValueCode(t, atts[a], v)
           told == IF code = "" THEN t ELSE SignalNotValid(t, code)
       IN IF code = "" \/ Tolerated(atts[a], v) THEN [ok |-> TRUE, t |-> IdsNoted(told, atts[a], v)]
          ELSE [ok |-> FALSE, t |-> told]

RequiredSeen(info, atts) ==
  Cardinality({k \in DOMAIN atts : info.attributes[atts[k].name].isrequired})
\* The attributes one by one, then the number of required ones.
TncProbeAttributes(t, info, atts) ==
  LET Next(r, a) == IF r.ok THEN TncProbeAttribute(r.t, info.attributes, a.name, a.value) ELSE r
      r == FoldLeft(Next, [ok |-> TRUE, t |-> t], atts)
  IN IF ~r.ok THEN r
     ELSE IF RequiredSeen(info, atts) # info.nrOfreq
     THEN [ok |-> FALSE, t |-> SignalNotValid(r.t, "MISSING_REQUIRED_ATTRIBUTE")] ELSE r
AttributesOf(t, el, atts) ==
  IF Has(t.attDefs, el) THEN TncProbeAttributes(t, t.attDefs[el], atts)
  ELSE IF atts # <<>> THEN [ok |-> FALSE, t |-> SignalNotValid(t, "NO_ATTRIBUTES")]
  ELSE [ok |-> TRUE, t |-> t]

(* ------------------------------- the events ------------------------------ *)
\* What may stand in an element of this model: EMPTY leaves ignorePCDATA alone.
InModel(t, cp) ==
  CASE cp.type \in {"MIXED", "ANY"} -> [t EXCEPT !.skipWhiteCDATAs = TRUE, !.ignorePCDATA = TRUE]
    [] cp.type = "EMPTY" -> [t EXCEPT !.skipWhiteCDATAs = FALSE]
    [] OTHER -> [t EXCEPT !.skipWhiteCDATAs = TRUE, !.ignorePCDATA = FALSE]

WithModel(t, st, name) ==
  [t EXCEPT !.stack = Append(st, Entry(t.tagNames[name], 0))]
StartInside(t, name) ==
  LET r == ProbeUpwards(name, t.stack)
  IN IF r.rc = 1 THEN WithModel(t, r.st, name)
     ELSE SignalNotValid([t EXCEPT !.stack = r.st], "ELEMENT_NOT_ALLOWED_HERE")
\* Only the parser compares the root with the doctype; a DTD without a doctype
\* declaration (-useForeignDTD) is completed here and takes any root.
StartRootElement(t, name, foreign) ==
  IF t.sax /\ ~foreign /\ t.doctypeName # name THEN SignalNotValid(t, "WRONG_ROOT_ELEMENT")
  ELSE WithModel(t, <<>>, name)
StartKnown(t, name, foreign) ==
  IF t.stack # <<>> THEN StartInside(InModel(t, t.tagNames[name]), name)
  ELSE StartRootElement(InModel(t, t.tagNames[name]), name, foreign)
ElementStarted(t, name, foreign) ==
  IF ~Has(t.tagNames, name) THEN SignalNotValid(t, "UNKNOWN_ELEMENT")
  ELSE StartKnown(t, name, foreign)

TncElementStart(t, name, atts) ==
  LET foreign == t.stack = <<>> /\ ~t.rewritten
      s == ElementStarted(IF foreign THEN EndDoctypeDecl(t) ELSE t, name, foreign)
  IN IF s.err # "" THEN s ELSE AttributesOf(s, name, atts).t

IdsResolved(t) == \A v \in DOMAIN t.ids : t.ids[v]
TncElementEndMutKeepsFlags(t) ==
  IF ~CanEnd(t.stack) THEN SignalNotValid(t, "ELEMENT_CAN_NOT_END_HERE")
  ELSE LET st == SubSeq(t.stack, 1, Min(OwnEntries(t.stack)) - 1)
       IN IF st # <<>> \/ ~t.idCheck \/ IdsResolved(t) THEN [t EXCEPT !.stack = st]
          ELSE SignalNotValid([t EXCEPT !.stack = st], "UNKNOWN_ID_REFERRED")
TncElementEnd(t) ==
  IF ~CanEnd(t.stack) THEN SignalNotValid(t, "ELEMENT_CAN_NOT_END_HERE")
  ELSE LET st == SubSeq(t.stack, 1, Min(OwnEntries(t.stack)) - 1)
       IN IF st # <<>> THEN InModel([t EXCEPT !.stack = st], Last(st).model)
          ELSE IF ~t.idCheck \/ IdsResolved(t) THEN [t EXCEPT !.stack = st]
          ELSE SignalNotValid([t EXCEPT !.stack = st], "UNKNOWN_ID_REFERRED")

\* data: "" none, "white" or "chars".
TncCharacterdata(t, data) ==
  IF data # "" /\ ~t.skipWhiteCDATAs THEN SignalNotValid(t, "EMPTY_ELEMENT")
  ELSE IF data = "chars" /\ ~t.ignorePCDATA THEN SignalNotValid(t, "DISALLOWED_PCDATA")
  ELSE t
TncStartCdataSection(t) == IF t.ignorePCDATA THEN t ELSE SignalNotValid(t, "DISALLOWED_CDATA")
CdataSection(t, data) ==
  LET s == TncStartCdataSection(t) IN IF s.err # "" THEN s ELSE TncCharacterdata(s, data)

Heard(t, e) ==
  CASE e.kind = "start" -> TncElementStart(t, e.name, e.atts)
    [] e.kind = "end" -> TncElementEnd(t)
    [] e.kind = "text" -> TncCharacterdata(t, e.data)
    [] e.kind = "cdata" -> CdataSection(t, e.data)

(* ----------------------- the reference: XML 1.0 -------------------------- *)
\* The declarations told so far, the first of each attribute and entity.
Told == SubSeq(dtd.decls, 1, Len(dtd.decls) - Len(left))
OfKind(ds, kind) == SelectSeq(ds, LAMBDA d : d.kind = kind)
AttsOf(ds, el) ==
  LET as == SelectSeq(OfKind(ds, "ATTLIST"), LAMBDA d : d.el = el)
  IN {as[i] : i \in {i \in DOMAIN as : \A j \in 1 .. i - 1 : as[j].att # as[i].att}}
EntitiesOf(ds) ==
  LET es == OfKind(ds, "ENTITY")
  IN {es[i] : i \in {i \in DOMAIN es : \A j \in 1 .. i - 1 : es[j].name # es[i].name}}
Unparseds(ds) == {e.name : e \in {e \in EntitiesOf(ds) : e.notation # ""}}
DeclaredElements(ds) == {d.name : d \in Range(OfKind(ds, "ELEMENT"))}
ModelOf(ds, el) == (CHOOSE d \in Range(OfKind(ds, "ELEMENT")) : d.name = el).model

Words(v, Kind) == v # <<>> /\ \A w \in Range(v) : w \in Kind
LegalDefault(ds, d) ==
  CASE d.type = "CDATA" -> TRUE [] d.type = "ID" -> FALSE
    [] d.type \in {"IDREF", "ENTITY"} -> OneWord(d.dflt, NameWords)
                                      /\ (d.type = "ENTITY" => \A e \in EntitiesOf(ds) : e.name = d.dflt[1] => e.notation # "")
    [] d.type = "IDREFS" -> Words(d.dflt, NameWords)
    [] d.type = "NMTOKEN" -> OneWord(d.dflt, NameWords \union TokenWords)
    [] d.type = "NMTOKENS" -> Words(d.dflt, NameWords \union TokenWords)
    [] OTHER -> OneWord(d.dflt, d.table)
UniqueNames(cp) == \A i, j \in DOMAIN cp.ch : cp.ch[i].name = cp.ch[j].name => i = j
DeclarationsFit(ds) ==
  LET els == OfKind(ds, "ELEMENT")
  IN /\ \A i, j \in DOMAIN els : els[i].name = els[j].name => i = j
     /\ \A i \in DOMAIN els : els[i].model.type = "MIXED" => UniqueNames(els[i].model)
     /\ \A el \in {d.el : d \in Range(OfKind(ds, "ATTLIST"))} :
          /\ Cardinality({d \in AttsOf(ds, el) : d.type = "ID"}) <= 1
          /\ \A d \in AttsOf(ds, el) : d.has => LegalDefault(ds, d)
AllAtts(ds) == UNION {AttsOf(ds, d.el) : d \in Range(OfKind(ds, "ATTLIST"))}
NotationsNamed(ds) == {e.notation : e \in {e \in EntitiesOf(ds) : e.notation # ""}}
                      \union UNION {d.table : d \in {d \in AllAtts(ds) : d.type = "NOTATION"}}
UsesAreDeclared(ds) ==
  /\ NotationsNamed(ds) \subseteq {d.name : d \in Range(OfKind(ds, "NOTATION"))}
  /\ \A d \in AllAtts(ds) : d.has /\ d.type = "ENTITY" => d.dflt[1] \in Unparseds(ds)

\* What is left of a content model when an element has been read: a set of lists.
RECURSIVE MayBeEmpty(_), AfterCp(_, _)
MayBeEmpty(cp) ==
  \/ Optional(cp)
  \/ cp.type = "SEQ" /\ \A i \in DOMAIN cp.ch : MayBeEmpty(cp.ch[i])
  \/ cp.type = "CHOICE" /\ \E i \in DOMAIN cp.ch : MayBeEmpty(cp.ch[i])
AfterList(l, n) ==
  UNION {{d \o SubSeq(l, i + 1, Len(l)) : d \in AfterCp(l[i], n)} :
           i \in {i \in DOMAIN l : \A j \in 1 .. i - 1 : MayBeEmpty(l[j])}}
AfterCp(cp, n) ==
  LET once == CASE cp.type = "NAME" -> IF cp.name = n THEN {<<>>} ELSE {}
                [] cp.type \in {"CHOICE", "MIXED"} -> UNION {AfterCp(cp.ch[i], n) : i \in DOMAIN cp.ch}
                [] cp.type = "SEQ" -> AfterList(cp.ch, n)
                [] OTHER -> {}
  IN {d \o IF Repeats(cp) THEN <<[cp EXCEPT !.quant = "*"]>> ELSE <<>> : d \in once}
Rests(cp, w) ==
  FoldLeft(LAMBDA ls, n : UNION {AfterList(l, n) : l \in ls}, {<<cp>>}, w)
MayBegin(cp, w) == cp.type = "ANY" \/ Rests(cp, w) # {}
MayBe(cp, w) ==
  \/ cp.type = "ANY" \/ (w = <<>> /\ cp.type \in {"EMPTY", "MIXED"})
  \/ \E l \in Rests(cp, w) : \A i \in DOMAIN l : MayBeEmpty(l[i])
TextMayBe(cp, data) == \/ data = "" \/ cp.type \in {"ANY", "MIXED"}
                       \/ data = "white" /\ cp.type # "EMPTY"

ValueFits(ds, d, v, ids) ==
  CASE d.type = "CDATA" -> d.isrequired /\ d.has => v = d.dflt
    [] d.type = "ID" -> OneWord(v, NameWords) /\ v \notin ids
    [] d.type \in {"IDREF", "IDREFS"} -> v # <<>>
    [] d.type = "ENTITY" -> OneWord(v, Unparseds(ds))
    [] d.type = "ENTITIES" -> Words(v, Unparseds(ds))
    [] d.type = "NMTOKEN" -> OneWord(v, NameWords \union TokenWords)
    [] d.type = "NMTOKENS" -> Words(v, NameWords \union TokenWords)
    [] OTHER -> OneWord(v, d.table)
AttributesFit(ds, el, atts, ids) ==
  /\ \A a \in Range(atts) : \E d \in AttsOf(ds, el) : d.att = a.name /\ ValueFits(ds, d, a.value, ids)
  /\ \A d \in AttsOf(ds, el) : d.isrequired => \E a \in Range(atts) : a.name = d.att
ValuesOf(ds, el, atts, types) ==
  {a.value : a \in {a \in Range(atts) : \E d \in AttsOf(ds, el) : d.att = a.name /\ d.type \in types}}

\* A document: its open elements with the children so far, IDs and references.
\* how: what is compared: "document" the root and the references, "tree" neither.
NoDocument == [open |-> <<>>, ids |-> {}, refs |-> {}, elements |-> 0, texts |-> 0, ok |-> TRUE]
Started(ds, s, e) ==
  LET word == IF s.open = <<>> THEN <<>> ELSE Append(Last(s.open).word, e.name)
      up == IF s.open = <<>> THEN <<>> ELSE Append(Front(s.open), [Last(s.open) EXCEPT !.word = word])
  IN [s EXCEPT !.elements = @ + 1, !.open = Append(up, [name |-> e.name, word |-> <<>>]),
               !.ids = @ \union ValuesOf(ds, e.name, e.atts, {"ID"}),
               !.refs = @ \union ValuesOf(ds, e.name, e.atts, {"IDREF"})
                          \union {<<w>> : w \in UNION {Range(v) : v \in ValuesOf(ds, e.name, e.atts, {"IDREFS"})}}]
EventFits(ds, how, s, e) ==
  LET top == Last(s.open)
  IN CASE e.kind = "start" ->
            /\ e.name \in DeclaredElements(ds)
            /\ IF s.open # <<>> THEN MayBegin(ModelOf(ds, top.name), Append(top.word, e.name))
               ELSE how = "document" /\ dtd.doctype # "" => e.name = dtd.doctype
            /\ AttributesFit(ds, e.name, e.atts, s.ids)
       [] e.kind = "end" ->
            /\ MayBe(ModelOf(ds, top.name), top.word)
            /\ how = "document" /\ Len(s.open) = 1 => s.refs \subseteq s.ids
       [] e.kind = "text" -> TextMayBe(ModelOf(ds, top.name), e.data)
       [] e.kind = "cdata" -> ModelOf(ds, top.name).type \in {"ANY", "MIXED"}
Followed(ds, how, s, e) ==
  LET ok == s.ok /\ EventFits(ds, how, s, e)
  IN CASE e.kind = "start" -> [Started(ds, s, e) EXCEPT !.ok = ok]
       [] e.kind = "end" -> [s EXCEPT !.open = Front(@), !.ok = ok]
       [] OTHER -> [s EXCEPT !.ok = ok, !.texts = @ + 1]
Document(ds, how, evs) == FoldLeft(LAMBDA s, e : Followed(ds, how, s, e), NoDocument, evs)

(* -------------------------------- actions -------------------------------- *)
TncInit ==
  /\ dtd \in Dtds /\ left = dtd.decls /\ tnc = CreateTncData /\ cmd = NoData
  /\ doc = NoDocument /\ log = <<>> /\ answer = NoAnswer

Unreported == tnc.err = "" /\ cmd = NoData
StartDoctypeDecl ==
  /\ Unreported /\ dtd.doctype # "" /\ tnc.doctypeName = ""
  /\ tnc' = [tnc EXCEPT !.doctypeName = dtd.doctype] /\ UNCHANGED <<dtd, left, cmd, doc, log, answer>>

\* One declaration is told.
Declare ==
  /\ Unreported /\ left # <<>> /\ tnc.doctypeName = dtd.doctype
  /\ tnc' = Declared(tnc, Head(left)) /\ left' = Tail(left)
  /\ UNCHANGED <<dtd, cmd, doc, log, answer>>

EndDoctype ==
  /\ Unreported /\ left = <<>> /\ dtd.doctype # "" /\ tnc.doctypeName = dtd.doctype /\ ~tnc.rewritten
  /\ tnc' = EndDoctypeDecl(tnc) /\ UNCHANGED <<dtd, left, cmd, doc, log, answer>>

\* expat tells the next event of a well-formed document.
InDocument == Unreported /\ left = <<>> /\ (dtd.doctype # "" => tnc.rewritten)
Hear(e) ==
  /\ tnc' = Heard(tnc, e) /\ doc' = Followed(dtd.decls, "document", doc, e)
  /\ log' = IF dtd.command THEN Append(log, e) ELSE log
  /\ UNCHANGED <<dtd, left, cmd, answer>>
\* expat adds the attributes that have a default and are not there.
WithDefaults(n, atts) ==
  LET missing == {d \in AttsOf(dtd.decls, n) : d.has /\ ~\E a \in Range(atts) : a.name = d.att}
  IN atts \o SetToSeq({[name |-> d.att, value |-> d.dflt] : d \in missing})
HearStart ==
  /\ InDocument /\ doc.elements < dtd.elements /\ (doc.elements = 0 \/ doc.open # <<>>)
  /\ \E n \in dtd.names : \E atts \in (IF Has(dtd.atts, n) THEN dtd.atts[n] ELSE {<<>>}) :
       Hear([kind |-> "start", name |-> n, atts |-> WithDefaults(n, atts)])
HearEnd == InDocument /\ doc.open # <<>> /\ Hear([kind |-> "end"])
HearText ==
  /\ InDocument /\ doc.open # <<>> /\ doc.texts < dtd.texts
  /\ \E data \in {"white", "chars"} : Hear([kind |-> "text", data |-> data])
\* An empty section in an EMPTY element is taken or not by what its parent allows.
HearCdata ==
  /\ InDocument /\ doc.open # <<>> /\ doc.texts < dtd.texts
  /\ \E data \in {"", "white", "chars"} :
       /\ data = "" => EmptyCdata \/ ModelOf(Told, Last(doc.open).name).type # "EMPTY"
       /\ Hear([kind |-> "cdata", data |-> data])

TncReset ==
  /\ cmd = NoData /\ tnc # CreateTncData
  /\ tnc' = CreateTncData /\ left' = dtd.decls /\ doc' = NoDocument /\ log' = <<>> /\ answer' = NoAnswer
  /\ UNCHANGED <<dtd, cmd>>

\* The data changes hands; not in the middle of a document, where the parser
\* would go on with an empty stack.
GetValidateCmd ==
  /\ dtd.command /\ tnc.dtdstatus /\ log # <<>> /\ (doc.open = <<>> \/ tnc.err # "")
  /\ cmd' = [tnc EXCEPT !.sax = FALSE, !.dtdstatus = FALSE] /\ tnc' = CreateTncData
  /\ UNCHANGED <<dtd, left, doc, log, answer>>

(* ------------------------ the validation command ------------------------- *)
\* The tree dom parse makes of the document, all its elements closed, as events.
Tree == log \o [i \in DOMAIN doc.open |-> [kind |-> "end"]]
Depth(evs) == Cardinality({i \in DOMAIN evs : evs[i].kind = "start"})
              - Cardinality({i \in DOMAIN evs : evs[i].kind = "end"})
Subtree(k) ==
  SubSeq(Tree, k, Min({i \in k .. Len(Tree) : Depth(SubSeq(Tree, k, i)) = 0}))
Elements == {k \in DOMAIN Tree : Tree[k].kind = "start"}

PreparedMutKeepsIds(t, idCheck) ==
  [t EXCEPT !.dtdstatus = FALSE, !.err = "", !.idCheck = idCheck, !.stack = <<>>]
Prepared(t, idCheck) ==
  [t EXCEPT !.dtdstatus = FALSE, !.err = "", !.idCheck = idCheck, !.ids = <<>>, !.stack = <<>>]
\* CDATA sections are text for validateTree; it stops at the first report.
Visited(t, e) ==
  IF t.dtdstatus THEN t
  ELSE IF e.kind = "cdata" THEN TncCharacterdata(t, e.data) ELSE Heard(t, e)
ValidateTree(t, evs) == FoldLeft(Visited, t, evs)
AnswerIs(how, k, ok) == answer' = [how |-> how, at |-> k, ok |-> ok]

TncValidateTree ==
  /\ cmd # NoData
  /\ \E k \in Elements :
       /\ cmd' = ValidateTree(Prepared(cmd, FALSE), Subtree(k)) /\ AnswerIs("tree", k, cmd'.err = "")
  /\ UNCHANGED <<dtd, left, tnc, doc, log>>

TncValidateDocument ==
  /\ cmd # NoData
  /\ cmd' = IF cmd.doctypeName = "" THEN SignalNotValid(cmd, "NO_DOCTYPE_DECL")
            ELSE IF cmd.doctypeName # Tree[1].name THEN SignalNotValid(cmd, "WRONG_ROOT_ELEMENT")
            ELSE ValidateTree(Prepared(cmd, TRUE), Tree)
  /\ AnswerIs("document", 1, cmd'.err = "")
  /\ UNCHANGED <<dtd, left, tnc, doc, log>>

\* A report without a refusal does not count here.
AttributesAnswer(t, e) ==
  IF ~Has(t.tagNames, e.name) THEN [ok |-> FALSE, t |-> SignalNotValid(t, "UNKNOWN_ELEMENT")]
  ELSE AttributesOf([Prepared(t, FALSE) EXCEPT !.stack = t.stack], e.name, e.atts)
TncValidateAttributes ==
  /\ cmd # NoData
  /\ \E k \in Elements : \E r \in {AttributesAnswer(cmd, Tree[k])} :
       /\ r.ok => r.t.err = ""
       /\ cmd' = r.t /\ AnswerIs("attributes", k, r.ok)
  /\ UNCHANGED <<dtd, left, tnc, doc, log>>

TncNext ==
  \/ StartDoctypeDecl \/ Declare \/ EndDoctype
  \/ HearStart \/ HearEnd \/ HearText \/ HearCdata
  \/ TncReset \/ GetValidateCmd
  \/ TncValidateTree \/ TncValidateDocument \/ TncValidateAttributes

(* ------------------------------ properties ------------------------------- *)
\* What the command finds of any tree is what the parser would.
Verdict(how, k) ==
  LET textual == [i \in DOMAIN Tree |->
                    IF Tree[i].kind = "cdata" THEN [Tree[i] EXCEPT !.kind = "text"] ELSE Tree[i]]
      sub == SubSeq(textual, k, k + Len(Subtree(k)) - 1)
  IN CASE how = "document" -> dtd.doctype # "" /\ Document(dtd.decls, "document", textual).ok
       [] how = "tree" -> Document(dtd.decls, "tree", sub).ok
       [] how = "attributes" -> /\ Tree[k].name \in DeclaredElements(Told)
                                /\ AttributesFit(Told, Tree[k].name, Tree[k].atts, {})
CommandAgrees == answer.how # "none" => answer.ok = Verdict(answer.how, answer.at)

\* The parser goes on exactly as long as the document type and the document can
\* still become valid: whatever the order of the declarations, however groups are
\* nested and repeated, wherever an ID is used before it is defined.  And the
\* command agrees, however often and after whatever it was asked before.
ValidatesExactly ==
  /\ cmd = NoData =>
       ((tnc.err = "") = (/\ DeclarationsFit(Told) /\ doc.ok
                          /\ tnc.rewritten => UsesAreDeclared(Told)))
  /\ CommandAgrees
=============================================================================
