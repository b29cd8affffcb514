-------------------------- MODULE PullParser_proofs --------------------------
(* What holds of a pull parser for every document, every sequence of methods  *)
(* and every input source, the undisciplined uses included (AnyUse).          *)
EXTENDS PullParser, FiniteSetTheorems, FunctionTheorems, TLAPS

\* Pending events are tags; a start tag is pending only behind a text event, and
\* a text event always has its tag pending.
PendingOK ==
  /\ nextState \in {None, "START_TAG", "END_TAG"}
  /\ next2State \in {None, "END_TAG"}
  /\ nextState = "START_TAG" => state = "TEXT"
  /\ state = "TEXT" => nextState # None
  /\ ~Idle /\ expat = "PARSING" => state # "TEXT"

\* The parser never stops at text or at a start tag while it is still searching,
\* and the second half of an empty element is delivered within the call.
ModeOK ==
  /\ mode \in {"NORMAL", "SKIP", "FIND"}
  /\ state = "TEXT" => mode # "FIND"
  /\ Idle /\ state = "START_TAG" => mode # "FIND"
  /\ ~Idle /\ expat = "SUSPENDED" => mode # "FIND"
  /\ half => ~Idle /\ mode # "FIND" /\ expat \in {"PARSING", "SUSPENDED"}
  /\ cdataHandler \in BOOLEAN /\ endHandler \in BOOLEAN

Released == state \in {"END_DOCUMENT", "PARSE_ERROR"} => input = "none"

Inv == PendingOK /\ ModeOK /\ HandlersMatchMode /\ Released

\* A parser that has just been made is idle, with nothing pending.
LEMMA InitInv == Init => Inv
  BY DEF Init, Inv, PendingOK, ModeOK, HandlersMatchMode, Released, None, Idle


\* Every step of the parser, of expat and of the script keeps Inv.
LEMMA StepInv == Inv /\ [Next]_vars => Inv'
<1> SUFFICES ASSUME Inv, [Next]_vars PROVE Inv'
  OBVIOUS
<1> USE DEF Inv, PendingOK, ModeOK, HandlersMatchMode, Released, None, Idle,
            handlers, pending, expatVars
<1>1. CASE Input
  BY <1>1 DEF Input
<1>2. CASE Reset
  BY <1>2 DEF Reset, Cleared
<1>3. CASE Recreate
  BY <1>3 DEF Recreate, Cleared
<1>4. CASE NextPending
  BY <1>4 DEF NextPending, ClearText, Shift, Pending
<1>5. CASE NextParse
  BY <1>5 DEF NextParse, EnterExpat, Pending, NextStates
<1>6. CASE SkipPending
  BY <1>6 DEF SkipPending
<1>7. CASE SkipParse
  BY <1>7 DEF SkipParse, EnterExpat
<1>8. ASSUME NEW n \in Names, FindElement(n) PROVE Inv'
  BY <1>8 DEF FindElement, EnterExpat, Shift, Pending
<1>9. CASE CharacterData
  BY <1>9 DEF CharacterData, AtToken
<1>10. CASE StartElement
  BY <1>10 DEF StartElement, AtToken
<1>11. CASE PassStartTag
  BY <1>11 DEF PassStartTag, AtToken
<1>12. CASE EndElement
  <2>1. /\ ~half => endHandler /\ expat = "PARSING"
        /\ half' = FALSE /\ UNCHANGED <<endHandler, input, call>>
    BY <1>12 DEF EndElement, AtToken
  <2>2. mode # "FIND" /\ ~Idle
    BY <1>12, <2>1 DEF EndElement, AtToken
  <2>3. CASE PassEndTag
    BY <2>1, <2>2, <2>3 DEF PassEndTag
  <2>4. CASE ReportEndTag(Token.n)
    BY <2>1, <2>2, <2>4 DEF ReportEndTag, Schedule
  <2> QED
    BY <1>12, <2>3, <2>4 DEF EndElement
<1>13. CASE NoHandler
  BY <1>13 DEF NoHandler, AtToken
<1>14. CASE Return
  BY <1>14 DEF Return
<1>15. CASE EndOfInput
  BY <1>15 DEF EndOfInput, Finish
<1>16. CASE WellFormednessError
  BY <1>16 DEF WellFormednessError, Finish
<1>17. CASE UNCHANGED vars
  BY <1>17 DEF vars
<1> QED
  BY <1>1, <1>2, <1>3, <1>4, <1>5, <1>6, <1>7, <1>8, <1>9, <1>10, <1>11, <1>12,
     <1>13, <1>14, <1>15, <1>16, <1>17 DEF Next, Parsing

\* For all documents, names, kinds of input and uses, pending events, mode and
\* handlers are as Inv says.
THEOREM Invariance == Spec => []Inv
  BY InitInv, StepInv, PTL DEF Spec

\* A text event always has the tag that ended it pending: the branch of method
\* next for a text event with nothing pending is dead code, as its comment says.
THEOREM TextIsNeverLast == Spec => []TextHasSuccessor
<1>1. Inv => TextHasSuccessor
  BY DEF TextHasSuccessor, Inv, PendingOK, None
<1> QED
  BY Invariance, <1>1, PTL

\* expat holds the handlers that the mode needs, in every state.
THEOREM HandlersFollowMode == Spec => []HandlersMatchMode
<1>1. Inv => HandlersMatchMode
  BY DEF Inv
<1> QED
  BY Invariance, <1>1, PTL

\* A parse that ended, well or badly, holds no channel, file or string.
THEOREM NoInputAfterTheEnd == Spec => []InputReleased
<1>1. Inv => InputReleased
  BY DEF InputReleased, Inv, Released
<1> QED
  BY Invariance, <1>1, PTL

\* The parser keeps in step with the state machine, for all documents, names and
\* kinds of input.
THEOREM ParserIsInStep == Spec => []ParserFollowsState
  BY HandlersFollowMode, NoInputAfterTheEnd, TextIsNeverLast, PTL DEF ParserFollowsState
-----------------------------------------------------------------------------
(* What text and tag return belongs to the event that was reported: for every *)
(* document, in scripts that call find-element and reset with nothing pending *)
(* and, with -ignorewhitecdata, for documents in which no text comes behind   *)
(* white space that an end tag left in the buffer.  Both conditions are       *)
(* needed: the README lists what happens without them.                        *)

IsTag(d, i) == d[i].k \in {"start", "end", "empty"}
NoTag(d, i, j) == \A t \in i .. j : ~IsTag(d, t)

\* The character data since the last tag, when p tokens of d have been read.
Run(d, p) == {j \in 1 .. p : d[j].k \in {"text", "white"} /\ NoTag(d, j, p)}

\* White space that an end tag left in the buffer: there was nothing else before
\* that tag, and no start tag has followed it so far.
Left(d, i, p) ==
  /\ i \in 1 .. p /\ d[i].k = "white"
  /\ \E e \in i .. p : /\ d[e].k = "end" /\ NoTag(d, i, e - 1)
                       /\ \A j \in 1 .. e - 1 : d[j].k = "text" => ~NoTag(d, j, e - 1)
  /\ \A t \in i .. p : d[t].k \notin {"start", "empty"}

WhiteIsDropped(d) ==
  \A p \in 0 .. Len(d) - 1 : d[p + 1].k = "text" => \A i \in 1 .. p : ~Left(d, i, p)

Disciplined ==
  ~AnyUse /\ (TRUE \in IgnoreChoices => \A d \in Documents : WhiteIsDropped(d))

\* Where expat is in the document, and what it has not yet met there.
Place ==
  /\ doc \in Documents \union {<<>>} /\ pos \in 0 .. Len(doc)
  /\ \A i \in 1 .. pos : doc[i].k # "bad"
  /\ state = "READY" => Idle
  /\ Idle /\ state \in {"READY", "START_DOCUMENT"} => pos = 0

Typed ==
  /\ expat \in {"INITIALIZED", "PARSING", "SUSPENDED", "FINISHED"}
  /\ input \in Sources \union {"none"} /\ skipDepth \in Nat
  /\ state \in States /\ seen.kind \in States
  /\ call \in {"none", "next", "skip", "find"}

Flags == half \in BOOLEAN /\ ignoreWhiteSpaces \in IgnoreChoices

\* The method that runs, the mode and expat's status go together; only a parser
\* that is suspended has events to report.
InStep ==
  /\ ~Idle => expat \in {"PARSING", "SUSPENDED"}
  /\ ~Idle /\ expat = "PARSING" => /\ ~Pending
                                   /\ call = "next" => mode = "NORMAL"
                                   /\ call = "skip" => mode = "SKIP"
                                   /\ call = "find" => mode = "FIND"
  /\ ~Idle /\ expat = "SUSPENDED" => /\ mode = "NORMAL"
                                     /\ state \in {"TEXT", "START_TAG", "END_TAG"}
                                     /\ call = "skip" => state = "END_TAG"
                                     /\ call = "find" => state = "START_TAG"
                                     /\ half => /\ state # "END_TAG" /\ next2State = None
                                                /\ state = "TEXT" => nextState = "START_TAG"
  /\ Pending => expat = "SUSPENDED" /\ state \in {"TEXT", "START_TAG"}
  /\ next2State # None => nextState = "START_TAG"
  /\ Idle /\ state \in {"READY", "START_DOCUMENT", "TEXT", "START_TAG", "END_TAG"}
       => mode = "NORMAL"
  /\ Idle /\ state \in {"TEXT", "START_TAG", "END_TAG"} => expat = "SUSPENDED"
  /\ half => expat = "SUSPENDED" \/ mode = "SKIP"

\* A suspended parser is at a tag, whose name is the current one.
AtTheTag ==
  expat = "SUSPENDED" =>
    /\ pos \in 1 .. Len(doc) /\ IsTag(doc, pos) /\ currentElm = doc[pos].n
    /\ "START_TAG" \in {state, nextState} =>
         /\ doc[pos].k # "end"
         /\ half \/ "END_TAG" \in {nextState, next2State} \/ doc[pos].k = "start"

SeenIsState ==
  Idle /\ seen.kind \in {"START_TAG", "END_TAG", "TEXT"} => state = seen.kind /\ seen.at = pos

\* While skipping, the element that is skipped is open, and so are the skipDepth
\* elements in it.
SkipsInside ==
  ~Idle /\ mode = "SKIP" =>
    /\ OpenAt(doc, pos) + (IF half THEN 1 ELSE 0) > skipDepth
    /\ half => skipDepth > 0

\* What is in the text buffer.
Collected ==
  /\ cdata \subseteq 1 .. pos
  /\ (~Idle /\ mode # "NORMAL") \/ (Idle /\ state \in {"READY", "START_DOCUMENT"}) => cdata = {}
  /\ ~Idle /\ mode = "NORMAL" /\ expat = "PARSING" =>
       /\ Run(doc, pos) \subseteq cdata
       /\ \A i \in cdata \ Run(doc, pos) : ignoreWhiteSpaces /\ Left(doc, i, pos)
  /\ expat = "SUSPENDED" =>
       /\ state = "TEXT" => cdata = Run(doc, pos - 1) /\ TextCollected
       /\ state = "START_TAG" => cdata = {}
       /\ state = "END_TAG" => \A i \in cdata : ignoreWhiteSpaces /\ Left(doc, i, pos)

InvOfReports ==
  Inv /\ Place /\ Typed /\ Flags /\ InStep /\ AtTheTag /\ SeenIsState /\ SkipsInside /\ Collected

\* A parser that has just been made has reported nothing.
LEMMA InitReports == Init => InvOfReports
<1> SUFFICES ASSUME Init PROVE InvOfReports OBVIOUS
<1>1. Inv /\ Idle BY InitInv DEF Init, Idle
<1>2. Place
  <2>1. doc = <<>> /\ pos = 0 /\ Len(<<>>) = 0 BY DEF Init
  <2>2. QED BY <1>1, <2>1 DEF Place
<1>6. Typed /\ Flags BY DEF Init, Typed, Flags, States, None
<1>3. InStep /\ AtTheTag /\ SeenIsState /\ SkipsInside
  BY <1>1 DEF Init, InStep, AtTheTag, SeenIsState, SkipsInside, Pending, None
<1>4. Collected BY <1>1 DEF Init, Collected
<1>5. QED BY <1>1, <1>2, <1>3, <1>4, <1>6 DEF InvOfReports

(* ----------------------- the document and its text ----------------------- *)
Token0 == [k : {"start", "end", "empty", "text", "white", "bad"}, n : STRING]

\* The number of open elements is a number.
LEMMA OpenAtIsAnInteger == ASSUME NEW d, NEW p \in Nat PROVE OpenAt(d, p) \in Int
<1> DEFINE Of(k) == {i \in 1 .. p : d[i].k = k}
<1>1. ASSUME NEW k PROVE Cardinality(Of(k)) \in Nat
  <2>1. IsFiniteSet(1 .. p) BY FS_Interval
  <2>2. Of(k) \subseteq 1 .. p OBVIOUS
  <2> HIDE DEF Of
  <2>3. QED BY <2>1, <2>2, FS_Subset, FS_CardinalityType
<1>2. OpenAt(d, p) = Cardinality(Of("start")) - Cardinality(Of("end")) BY DEF OpenAt
<1> HIDE DEF Of
<1>3. QED BY <1>1, <1>2

\* One more token opens an element, closes one, or leaves them alone.
LEMMA OneMoreToken ==
    ASSUME NEW d \in Seq(Token0), NEW p \in 0 .. Len(d) - 1
    PROVE  /\ OpenAt(d, p) \in Int
           /\ OpenAt(d, p + 1) = CASE d[p + 1].k = "start" -> OpenAt(d, p) + 1
                                   [] d[p + 1].k = "end" -> OpenAt(d, p) - 1
                                   [] OTHER -> OpenAt(d, p)
<1> DEFINE Of(k, q) == {i \in 1 .. q : d[i].k = k}
<1>1. ASSUME NEW q \in Nat, NEW k PROVE IsFiniteSet(Of(k, q))
  <2>1. IsFiniteSet(1 .. q) BY FS_Interval
  <2>2. Of(k, q) \subseteq 1 .. q OBVIOUS
  <2>3. QED BY <2>1, <2>2, FS_Subset
<1>2. p \in Nat /\ p + 1 \in Nat /\ p + 1 \in 1 .. Len(d) OBVIOUS
<1>3. ASSUME NEW k PROVE Of(k, p + 1) = IF d[p + 1].k = k THEN Of(k, p) \union {p + 1} ELSE Of(k, p)
  BY <1>2
<1>4. ASSUME NEW k PROVE p + 1 \notin Of(k, p) BY <1>2
<1>5. ASSUME NEW k
      PROVE  /\ Cardinality(Of(k, p)) \in Nat
             /\ Cardinality(Of(k, p + 1)) = Cardinality(Of(k, p)) + (IF d[p + 1].k = k THEN 1 ELSE 0)
  <2> HIDE DEF Of
  <2>1. Cardinality(Of(k, p)) \in Nat BY <1>1, <1>2, FS_CardinalityType
  <2>2. Cardinality(Of(k, p) \union {p + 1}) = Cardinality(Of(k, p)) + 1
    BY <1>1, <1>2, <1>4, FS_AddElement
  <2>3. Of(k, p + 1) = IF d[p + 1].k = k THEN Of(k, p) \union {p + 1} ELSE Of(k, p) BY <1>3
  <2>4. CASE d[p + 1].k = k BY <2>1, <2>2, <2>3, <2>4
  <2>5. CASE d[p + 1].k # k BY <2>1, <2>3, <2>5
  <2>6. QED BY <2>4, <2>5
<1>6. \A q : OpenAt(d, q) = Cardinality(Of("start", q)) - Cardinality(Of("end", q)) BY DEF OpenAt
<1> HIDE DEF Of
<1>7. QED BY <1>5, <1>6

\* What one more token does to the character data since the last tag.
LEMMA OneMoreCharacter ==
    ASSUME NEW d \in Seq(Token0), NEW p \in 0 .. Len(d) - 1
    PROVE  /\ IsTag(d, p + 1) => Run(d, p + 1) = {}
           /\ d[p + 1].k \in {"text", "white"} => Run(d, p + 1) = Run(d, p) \union {p + 1}
           /\ \A i : Left(d, i, p) /\ d[p + 1].k \notin {"start", "empty"} => Left(d, i, p + 1)
           /\ \A i : Left(d, i, p) => i \in 1 .. p
           /\ Run(d, p) \subseteq 1 .. p
<1>1. p \in Nat /\ p + 1 \in 1 .. Len(d) OBVIOUS
<1>2. IsTag(d, p + 1) => Run(d, p + 1) = {} BY <1>1 DEF Run, NoTag
<1>3. d[p + 1].k \in {"text", "white"} => Run(d, p + 1) = Run(d, p) \union {p + 1}
  <2> SUFFICES ASSUME d[p + 1].k \in {"text", "white"} PROVE Run(d, p + 1) = Run(d, p) \union {p + 1}
    OBVIOUS
  <2>1. ASSUME NEW j \in 1 .. p PROVE NoTag(d, j, p + 1) <=> NoTag(d, j, p)
    BY <1>1 DEF NoTag, IsTag
  <2>2. NoTag(d, p + 1, p + 1) BY <1>1 DEF NoTag, IsTag
  <2>3. QED BY <1>1, <2>1, <2>2 DEF Run
<1>4. ASSUME NEW i, Left(d, i, p), d[p + 1].k \notin {"start", "empty"} PROVE Left(d, i, p + 1)
  <2>1. i \in 1 .. p BY <1>4 DEF Left
  <2>2. \A t \in i .. p + 1 : d[t].k \notin {"start", "empty"} BY <1>1, <1>4, <2>1 DEF Left
  <2>3. PICK e \in i .. p : /\ d[e].k = "end" /\ NoTag(d, i, e - 1)
                            /\ \A j \in 1 .. e - 1 : d[j].k = "text" => ~NoTag(d, j, e - 1)
    BY <1>4 DEF Left
  <2>4. e \in i .. p + 1 BY <1>1, <2>1, <2>3
  <2>5. QED BY <1>1, <1>4, <2>1, <2>2, <2>3, <2>4 DEF Left
<1>5. QED BY <1>2, <1>3, <1>4 DEF Left, Run

\* An end tag behind nothing but white space leaves it.
LEMMA EndLeavesWhite ==
    ASSUME NEW d \in Seq(Token0), NEW p \in 0 .. Len(d) - 1, d[p + 1].k = "end",
           \A j \in Run(d, p) : d[j].k # "text", NEW i \in Run(d, p)
    PROVE  Left(d, i, p + 1)
<1>1. p \in Nat /\ p + 1 \in 1 .. Len(d) OBVIOUS
<1>2. i \in 1 .. p /\ d[i].k = "white" /\ NoTag(d, i, p) BY DEF Run
<1>3. \A t \in i .. p + 1 : d[t].k \notin {"start", "empty"} BY <1>1, <1>2 DEF NoTag, IsTag
<1>4. \A j \in 1 .. p : d[j].k = "text" => ~NoTag(d, j, p) BY <1>1 DEF Run
<1>5. p + 1 \in i .. p + 1 /\ (p + 1) - 1 = p BY <1>1, <1>2
<1>6. QED BY <1>1, <1>2, <1>3, <1>4, <1>5 DEF Left

\* Where no text comes behind left white space, a text that is being collected
\* has none in front of it.
LEMMA TextHasNothingLeft ==
    ASSUME NEW d \in Seq(Token0), WhiteIsDropped(d), NEW p \in 0 .. Len(d), NEW i, Left(d, i, p),
           NEW j \in Run(d, p), d[j].k = "text"
    PROVE  FALSE
<1>1. p \in Nat /\ i \in 1 .. p /\ j \in 1 .. p /\ NoTag(d, j, p) BY DEF Left, Run
<1>2. PICK e \in i .. p : /\ d[e].k = "end" /\ NoTag(d, i, e - 1)
                          /\ \A l \in 1 .. e - 1 : d[l].k = "text" => ~NoTag(d, l, e - 1)
  BY DEF Left
<1>3. e < j BY <1>1, <1>2 DEF NoTag, IsTag
<1>4. e \in i .. j - 1 /\ i \in 1 .. j - 1 BY <1>1, <1>2, <1>3
<1>5. \A t \in i .. j - 1 : d[t].k \notin {"start", "empty"} BY <1>1 DEF Left
<1>6. d[i].k = "white" BY DEF Left
<1>7. Left(d, i, j - 1) BY <1>2, <1>4, <1>5, <1>6 DEF Left
<1>8. j - 1 \in 0 .. Len(d) - 1 /\ (j - 1) + 1 = j BY <1>1
<1>9. QED BY <1>4, <1>7, <1>8 DEF WhiteIsDropped

\* The text that PullStream puts before a tag is what was collected up to it.
LEMMA RunIsTextBefore ==
    ASSUME NEW d \in Seq(Token0), NEW p \in 1 .. Len(d), IsTag(d, p)
    PROVE  Run(d, p - 1) = Stream!TextBefore(d, p)
<1>1. ASSUME NEW j PROVE j \in Run(d, p - 1) <=> j \in Stream!TextBefore(d, p)
  BY DEF Run, NoTag, IsTag, Stream!TextBefore, Stream!Tags, Stream!Chars
<1>2. QED BY <1>1

\* Documents are sequences of tokens in which every element that is closed was
\* open, and a document that was read to its end has none open.
LEMMA DocumentFacts ==
    ASSUME Place
    PROVE  /\ doc \in Seq(Token0) /\ Len(doc) \in Nat /\ pos \in Nat
           /\ \A i \in 1 .. Len(doc) : doc[i].k \in {"start", "end", "empty", "text", "white", "bad"}
           /\ \A p \in 0 .. Len(doc) : OpenAt(doc, p) >= 0
           /\ pos = Len(doc) => OpenAt(doc, pos) <= 0
<1>1. CASE doc = <<>>
  <2>1. Len(doc) = 0 /\ pos = 0 /\ doc \in Seq(Token0) BY <1>1 DEF Place
  <2>2. {i \in 1 .. 0 : doc[i].k = "start"} = {} /\ {i \in 1 .. 0 : doc[i].k = "end"} = {} OBVIOUS
  <2>3. OpenAt(doc, 0) = 0 BY <2>2, FS_EmptySet DEF OpenAt
  <2>4. QED BY <2>1, <2>3
<1>2. CASE doc \in Documents
  <2>1. /\ doc \in Seq(Token0)
        /\ \A p \in 0 .. Len(doc) : OpenAt(doc, p) >= 0
        /\ (\A i \in DOMAIN doc : doc[i].k # "bad") => OpenAt(doc, Len(doc)) = 0
    BY <1>2, PullParserAssumption DEF Token0
  <2>2. Len(doc) \in Nat /\ DOMAIN doc = 1 .. Len(doc) /\ pos \in Nat BY <2>1 DEF Place
  <2>3. \A i \in 1 .. Len(doc) : doc[i] \in Token0 BY <2>1
  <2>4. \A i \in 1 .. Len(doc) : doc[i].k \in {"start", "end", "empty", "text", "white", "bad"}
    BY <2>3 DEF Token0
  <2>5. QED BY <2>1, <2>2, <2>4 DEF Place
<1>3. QED BY <1>1, <1>2 DEF Place

(* ----------------------- the steps keep the invariant -------------------- *)
\* No text that is being collected has left white space in front of it.
LEMMA NothingLeftBeforeText ==
    ASSUME Disciplined, Place, Flags, NEW p \in 0 .. Len(doc), NEW i, Left(doc, i, p),
           ignoreWhiteSpaces, NEW j \in Run(doc, p), doc[j].k = "text"
    PROVE  FALSE
<1>1. doc # <<>> BY DEF Left
<1>2. doc \in Documents /\ TRUE \in IgnoreChoices BY <1>1 DEF Place, Flags
<1>3. WhiteIsDropped(doc) BY <1>2 DEF Disciplined
<1>4. QED BY <1>3, DocumentFacts, TextHasNothingLeft

\* A method that begins, with an event at hand or by entering expat.
LEMMA MethodKeeps ==
    ASSUME Disciplined, InvOfReports, Inv',
           \/ NextPending \/ NextParse \/ SkipPending \/ SkipParse
           \/ \E n \in Names : FindElement(n)
    PROVE  InvOfReports'
<1>0. /\ Inv /\ Place /\ Typed /\ Flags /\ InStep /\ AtTheTag /\ SeenIsState /\ SkipsInside
      /\ Collected /\ ~AnyUse
  BY DEF InvOfReports, Disciplined
<1>1. Idle /\ UNCHANGED <<doc, pos, half, ignoreWhiteSpaces, currentElm>>
  BY DEF NextPending, NextParse, SkipPending, SkipParse, FindElement, EnterExpat, Shift, expatVars
<1>2. half = FALSE BY <1>0, <1>1 DEF Inv, ModeOK, Flags
<1>3. doc \in Seq(Token0) /\ pos \in Nat BY <1>0, DocumentFacts
<1>4. Flags' BY <1>0, <1>1 DEF Flags
<1>5. CASE NextPending
  <2>1. /\ Pending /\ expat = "SUSPENDED" /\ state \in {"TEXT", "START_TAG"}
    BY <1>0, <1>1, <1>5 DEF NextPending, InStep, Inv, PendingOK, Pending
  <2>2. /\ state' = nextState /\ nextState' = next2State /\ next2State' = None
        /\ seen' = Reported("next", state') /\ cdata' = IF state = "TEXT" THEN {} ELSE cdata
        /\ UNCHANGED <<expat, input, call, mode, skipDepth>>
    BY <1>5, <2>1 DEF NextPending, Shift, ClearText, Pending, expatVars, handlers
  <2>3. nextState \in {"START_TAG", "END_TAG"}
    BY <1>0, <2>1 DEF Inv, PendingOK, InStep, Pending, None
  <2>4. Place' /\ Typed' BY <1>0, <1>1, <2>2, <2>3 DEF Place, Typed, Idle, States, Reported, None
  <2>5. InStep' BY <1>0, <1>1, <2>1, <2>2, <2>3 DEF InStep, Idle, Inv, PendingOK, Pending, None
  <2>6. AtTheTag'
    <3>1. state' = "START_TAG" => state = "TEXT" BY <1>0, <2>2, <2>3 DEF Inv, PendingOK
    <3>2. QED BY <1>0, <1>1, <1>2, <2>1, <2>2, <2>3, <3>1 DEF AtTheTag, Inv, PendingOK, None, IsTag, InStep
  <2>7. SeenIsState' BY <1>1, <2>2, <2>3 DEF SeenIsState, Reported, Idle
  <2>8. SkipsInside' BY <1>1, <2>2 DEF SkipsInside, Idle
  <2>9. Collected'
    <3>1. cdata' = {} BY <1>0, <2>1, <2>2 DEF Collected
    <3>2. QED BY <1>0, <1>1, <2>1, <2>2, <2>3, <3>1 DEF Collected, Idle
  <2>10. QED BY <1>4, <2>4, <2>5, <2>6, <2>7, <2>8, <2>9 DEF InvOfReports
<1>6. CASE SkipPending
  <2>1. /\ state = "START_TAG" /\ expat = "SUSPENDED" /\ mode = "NORMAL"
    BY <1>0, <1>1, <1>6 DEF SkipPending, InStep
  <2>2. /\ state' = "END_TAG" /\ nextState' = None /\ next2State' = None /\ cdata' = {}
        /\ seen' = Reported("skip", "END_TAG")
        /\ UNCHANGED <<expat, input, call, mode, skipDepth>>
    BY <1>6 DEF SkipPending, expatVars
  <2>4. Place' /\ Typed' BY <1>0, <1>1, <2>2 DEF Place, Typed, Idle, States, Reported, None
  <2>5. InStep' BY <1>0, <1>1, <2>1, <2>2 DEF InStep, Idle, Pending, None
  <2>6. AtTheTag' BY <1>0, <1>1, <2>1, <2>2 DEF AtTheTag, None, IsTag
  <2>7. SeenIsState' BY <1>1, <2>2 DEF SeenIsState, Reported, Idle
  <2>8. SkipsInside' BY <1>1, <2>2 DEF SkipsInside, Idle
  <2>9. Collected' BY <1>0, <1>1, <2>1, <2>2 DEF Collected, Idle
  <2>10. QED BY <1>4, <2>4, <2>5, <2>6, <2>7, <2>8, <2>9 DEF InvOfReports
<1>7. CASE NextParse \/ SkipParse \/ \E n \in Names : FindElement(n)
  <2>1. PICK m \in {"next", "skip", "find"} :
          /\ EnterExpat(m)
          /\ m = "next" => /\ state \in {"START_DOCUMENT", "START_TAG", "END_TAG"}
                           /\ UNCHANGED <<mode, skipDepth, cdata>>
          /\ m = "skip" => /\ state = "START_TAG" /\ mode' = "SKIP" /\ skipDepth' = 0 /\ cdata' = {}
          /\ m = "find" => /\ state \in {"START_DOCUMENT", "START_TAG", "END_TAG"}
                           /\ mode' = "FIND" /\ cdata' = {} /\ UNCHANGED skipDepth
    BY <1>0, <1>7 DEF NextParse, SkipParse, FindElement, NextStates
  <2>2. ~Pending
    BY <1>0, <1>1, <1>7 DEF NextParse, SkipParse, FindElement, Inv, PendingOK, Pending, None
  <2>3. state # "START_DOCUMENT" => expat = "SUSPENDED" BY <1>0, <1>1, <2>1 DEF InStep
  <2>4. /\ expat' = "PARSING" /\ call' = m /\ ~Idle'
        /\ UNCHANGED <<state, nextState, next2State, input, seen>>
    BY <2>1, <2>3 DEF EnterExpat, Idle, pending
  <2>5. Place' /\ Typed' BY <1>0, <1>1, <2>1, <2>4 DEF Place, Typed
  <2>6. InStep' BY <1>0, <1>1, <1>2, <2>1, <2>2, <2>4 DEF InStep, Pending
  <2>7. AtTheTag' /\ SeenIsState' BY <2>4 DEF AtTheTag, SeenIsState
  <2>8. SkipsInside'
    <3>0. m # "skip" => mode' # "SKIP" BY <1>0, <1>1, <2>1 DEF InStep
    <3> SUFFICES ASSUME m = "skip" PROVE SkipsInside'
      BY <3>0 DEF SkipsInside
    <3>1. /\ pos \in 1 .. Len(doc) /\ doc[pos].k = "start"
      BY <1>0, <1>1, <1>2, <2>1, <2>2, <2>3 DEF AtTheTag, Pending, None
    <3>2. OpenAt(doc, pos - 1) >= 0 /\ pos - 1 \in 0 .. Len(doc) - 1 /\ (pos - 1) + 1 = pos
      BY <1>0, <3>1, DocumentFacts
    <3>3. OpenAt(doc, pos) \in Int /\ OpenAt(doc, pos) > 0 BY <1>3, <3>1, <3>2, OneMoreToken
    <3>4. QED BY <1>1, <1>2, <2>1, <3>3 DEF SkipsInside
  <2>9. Collected'
    <3>1. mode = "NORMAL" BY <1>0, <1>1, <2>1 DEF InStep
    <3>2. m = "next" => /\ Run(doc, pos) = {}
                        /\ \A i \in cdata : ignoreWhiteSpaces /\ Left(doc, i, pos)
      <4>1. CASE state = "START_DOCUMENT"
        <5>1. pos = 0 /\ cdata = {} BY <1>0, <1>1, <4>1 DEF Place, Collected
        <5>2. QED BY <5>1 DEF Run
      <4>2. CASE state # "START_DOCUMENT"
        <5>1. expat = "SUSPENDED" BY <2>3, <4>2
        <5>2. pos \in 1 .. Len(doc) /\ IsTag(doc, pos) BY <1>0, <5>1 DEF AtTheTag
        <5>3. Run(doc, pos) = {}
          <6>1. pos - 1 \in 0 .. Len(doc) - 1 /\ (pos - 1) + 1 = pos BY <5>2, <1>3
          <6>2. QED BY <1>3, <5>2, <6>1, OneMoreCharacter
        <5>4. QED BY <1>0, <2>1, <4>2, <5>1, <5>3 DEF Collected
      <4>3. QED BY <4>1, <4>2
    <3>3. QED BY <1>0, <1>1, <2>1, <2>4, <3>1, <3>2 DEF Collected
  <2>10. QED BY <1>4, <2>5, <2>6, <2>7, <2>8, <2>9 DEF InvOfReports
<1>8. QED BY <1>5, <1>6, <1>7

\* Character data and tokens nobody listens to.
LEMMA CharactersKeep ==
    ASSUME Disciplined, InvOfReports, Inv', CharacterData \/ NoHandler
    PROVE  InvOfReports'
<1>0. /\ Inv /\ Place /\ Typed /\ Flags /\ InStep /\ SkipsInside /\ Collected
  BY DEF InvOfReports
<1>1. /\ ~Idle /\ expat = "PARSING" /\ half = FALSE /\ pos < Len(doc) /\ pos' = pos + 1
      /\ UNCHANGED <<doc, expat, half, input, state, nextState, next2State, mode, skipDepth,
                     currentElm, ignoreWhiteSpaces, call, seen>>
  BY <1>0 DEF CharacterData, NoHandler, AtToken, pending, Flags
<1>2. /\ doc \in Seq(Token0) /\ pos \in 0 .. Len(doc) - 1 /\ pos \in Nat /\ Len(doc) \in Nat
  BY <1>0, <1>1, DocumentFacts DEF Place
<1>3. /\ mode = "NORMAL" => doc[pos + 1].k \in {"text", "white"} /\ cdata' = cdata \union {pos + 1}
      /\ mode = "SKIP" => doc[pos + 1].k \in {"text", "white"}
      /\ mode # "NORMAL" => cdata' = cdata
      /\ doc[pos + 1].k \in {"text", "white", "end"}
  BY <1>0 DEF CharacterData, NoHandler, AtToken, Inv, HandlersMatchMode, ModeOK
<1>4. Place' BY <1>0, <1>1, <1>2, <1>3 DEF Place, Idle
<1>5. Typed' /\ Flags' BY <1>0, <1>1 DEF Typed, Flags
<1>6. InStep' BY <1>0, <1>1 DEF InStep, Idle, Pending
<1>7. AtTheTag' /\ SeenIsState' BY <1>1 DEF AtTheTag, SeenIsState, Idle
<1>8. SkipsInside'
  <2> SUFFICES ASSUME mode = "SKIP" PROVE SkipsInside' BY <1>1 DEF SkipsInside
  <2>1. OpenAt(doc, pos + 1) = OpenAt(doc, pos) BY <1>2, <1>3, OneMoreToken
  <2>2. QED BY <1>0, <1>1, <2>1 DEF SkipsInside
<1>9. Collected'
  <2>1. CASE mode = "NORMAL"
    <3>1. /\ Run(doc, pos + 1) = Run(doc, pos) \union {pos + 1}
          /\ \A i : Left(doc, i, pos) => Left(doc, i, pos + 1)
      BY <1>2, <1>3, <2>1, OneMoreCharacter
    <3>2. /\ cdata \subseteq 1 .. pos /\ Run(doc, pos) \subseteq cdata
          /\ \A i \in cdata \ Run(doc, pos) : ignoreWhiteSpaces /\ Left(doc, i, pos)
      BY <1>0, <1>1, <2>1 DEF Collected
    <3>3. cdata' \subseteq 1 .. pos'
      <4>1. 1 .. pos \subseteq 1 .. pos + 1 /\ pos + 1 \in 1 .. pos + 1 BY <1>2
      <4>2. cdata' = cdata \union {pos + 1} /\ pos' = pos + 1 BY <1>1, <1>3, <2>1
      <4>3. QED BY <3>2, <4>1, <4>2
    <3>4. Run(doc', pos') \subseteq cdata' BY <1>1, <1>3, <2>1, <3>1, <3>2
    <3>5. \A i \in cdata' \ Run(doc', pos') : ignoreWhiteSpaces' /\ Left(doc', i, pos')
      BY <1>1, <1>3, <2>1, <3>1, <3>2
    <3>6. QED BY <1>1, <2>1, <3>3, <3>4, <3>5 DEF Collected, Idle
  <2>2. CASE mode # "NORMAL"
    <3>1. cdata = {} /\ cdata' = {} BY <1>0, <1>1, <1>3, <2>2 DEF Collected
    <3>2. QED BY <1>1, <2>2, <3>1 DEF Collected, Idle
  <2>3. QED BY <2>1, <2>2
<1>10. QED BY <1>4, <1>5, <1>6, <1>7, <1>8, <1>9 DEF InvOfReports

\* A start tag that is passed over.
LEMMA PassStartTagKeeps ==
    ASSUME Disciplined, InvOfReports, Inv', PassStartTag
    PROVE  InvOfReports'
<1>0. /\ Inv /\ Place /\ Typed /\ Flags /\ InStep /\ SkipsInside /\ Collected
  BY DEF InvOfReports
<1>1. /\ ~Idle /\ expat = "PARSING" /\ half = FALSE /\ pos < Len(doc) /\ pos' = pos + 1
      /\ doc[pos + 1].k \in {"start", "empty"} /\ mode \in {"SKIP", "FIND"}
      /\ UNCHANGED <<doc, expat, input, state, nextState, next2State, mode, cdata,
                     currentElm, ignoreWhiteSpaces, call, seen>>
      /\ skipDepth' = IF mode = "SKIP" THEN skipDepth + 1 ELSE skipDepth
      /\ half' = (doc[pos + 1].k = "empty" /\ endHandler) /\ endHandler = (mode = "SKIP")
  BY <1>0 DEF PassStartTag, AtToken, pending, Flags, Token, Inv, HandlersMatchMode, ModeOK
<1>2. /\ doc \in Seq(Token0) /\ pos \in 0 .. Len(doc) - 1 /\ pos \in Nat /\ Len(doc) \in Nat
  BY <1>0, <1>1, DocumentFacts DEF Place
<1>4. Place' BY <1>0, <1>1, <1>2 DEF Place, Idle
<1>5. Typed' /\ Flags' BY <1>0, <1>1 DEF Typed, Flags
<1>6. InStep' BY <1>0, <1>1 DEF InStep, Idle, Pending
<1>7. AtTheTag' /\ SeenIsState' BY <1>1 DEF AtTheTag, SeenIsState, Idle
<1>8. SkipsInside'
  <2> SUFFICES ASSUME mode = "SKIP" PROVE SkipsInside' BY <1>1 DEF SkipsInside
  <2>1. /\ OpenAt(doc, pos) \in Int /\ OpenAt(doc, pos) > skipDepth
        /\ OpenAt(doc, pos + 1) = IF doc[pos + 1].k = "start" THEN OpenAt(doc, pos) + 1
                                  ELSE OpenAt(doc, pos)
        /\ skipDepth \in Nat
    BY <1>0, <1>1, <1>2, OneMoreToken DEF SkipsInside, Typed
  <2>2. half' <=> doc[pos + 1].k = "empty" BY <1>1
  <2>3. skipDepth' = skipDepth + 1 BY <1>1
  <2>4. QED BY <1>1, <2>1, <2>2, <2>3 DEF SkipsInside
<1>9. Collected'
  <2>1. cdata = {} /\ cdata' = {} BY <1>0, <1>1 DEF Collected
  <2>2. QED BY <1>1, <2>1 DEF Collected, Idle
<1>10. QED BY <1>4, <1>5, <1>6, <1>7, <1>8, <1>9 DEF InvOfReports

\* What a tag finds in the buffer: its own text, or nothing that it reports.
LEMMA TextAtTag ==
    ASSUME Disciplined, InvOfReports, ~Idle, expat = "PARSING", half = FALSE, pos < Len(doc),
           mode = "NORMAL"
    PROVE  /\ TextCollected => cdata = Run(doc, pos)
           /\ ~TextCollected /\ doc[pos + 1].k = "end" =>
                \A i \in cdata : ignoreWhiteSpaces /\ Left(doc, i, pos + 1)
<1>0. Place /\ Flags /\ Collected BY DEF InvOfReports
<1>1. /\ doc \in Seq(Token0) /\ pos \in 0 .. Len(doc) - 1 /\ pos \in Nat /\ Len(doc) \in Nat
      /\ \A i \in 1 .. Len(doc) : doc[i].k \in {"start", "end", "empty", "text", "white", "bad"}
  BY <1>0, DocumentFacts DEF Place
<1>2. /\ cdata \subseteq 1 .. pos /\ Run(doc, pos) \subseteq cdata
      /\ \A i \in cdata \ Run(doc, pos) : ignoreWhiteSpaces /\ Left(doc, i, pos)
  BY <1>0 DEF Collected
<1>3. ASSUME TextCollected PROVE cdata = Run(doc, pos)
  <2> SUFFICES ASSUME NEW i \in cdata \ Run(doc, pos) PROVE FALSE BY <1>2
  <2>1. ignoreWhiteSpaces /\ Left(doc, i, pos) BY <1>2
  <2>2. PICK j \in cdata : doc[j].k = "text" BY <1>3, <2>1 DEF TextCollected
  <2>3. j \in Run(doc, pos) BY <1>2, <2>2 DEF Left
  <2>4. QED BY <1>0, <1>1, <2>1, <2>2, <2>3, NothingLeftBeforeText
<1>4. ASSUME ~TextCollected, doc[pos + 1].k = "end", NEW i \in cdata
      PROVE  ignoreWhiteSpaces /\ Left(doc, i, pos + 1)
  <2>1. ignoreWhiteSpaces /\ \A j \in cdata : doc[j].k # "text" BY <1>4 DEF TextCollected
  <2>2. CASE i \in Run(doc, pos) BY <1>1, <1>2, <1>4, <2>1, <2>2, EndLeavesWhite
  <2>3. CASE i \notin Run(doc, pos) BY <1>1, <1>2, <1>4, <2>1, <2>3, OneMoreCharacter
  <2>4. QED BY <2>2, <2>3
<1>5. QED BY <1>3, <1>4

\* A start tag that is reported.
LEMMA StartElementKeeps ==
    ASSUME Disciplined, InvOfReports, Inv', StartElement
    PROVE  InvOfReports'
<1>0. /\ Inv /\ Place /\ Typed /\ Flags /\ InStep /\ Collected
  BY DEF InvOfReports
<1>1. /\ ~Idle /\ expat = "PARSING" /\ half = FALSE /\ pos < Len(doc) /\ pos' = pos + 1
      /\ doc[pos + 1].k \in {"start", "empty"} /\ mode \in {"NORMAL", "FIND"}
      /\ UNCHANGED <<doc, input, next2State, skipDepth, ignoreWhiteSpaces, call, seen>>
      /\ mode' = "NORMAL" /\ expat' = "SUSPENDED" /\ currentElm' = doc[pos + 1].n
      /\ half' = (doc[pos + 1].k = "empty")
      /\ state' = IF TextCollected THEN "TEXT" ELSE "START_TAG"
      /\ nextState' = IF TextCollected THEN "START_TAG" ELSE nextState
      /\ cdata' = IF TextCollected THEN cdata ELSE {}
  BY <1>0 DEF StartElement, AtToken, Flags, Token
<1>2. /\ doc \in Seq(Token0) /\ pos \in 0 .. Len(doc) - 1 /\ pos \in Nat /\ Len(doc) \in Nat
      /\ pos + 1 \in 1 .. Len(doc) /\ (pos + 1) - 1 = pos
  BY <1>0, <1>1, DocumentFacts DEF Place
<1>3. nextState = None /\ next2State = None /\ (mode = "FIND" <=> call = "find") /\ call # "skip"
      /\ call \in {"next", "find"}
  BY <1>0, <1>1 DEF InStep, Pending, Typed, Idle
<1>3a. call = "find" => ~TextCollected BY <1>0, <1>1, <1>3 DEF Collected, TextCollected
<1>4. Place' BY <1>0, <1>1, <1>2 DEF Place, Idle
<1>5. Typed' BY <1>0, <1>1 DEF Typed, States
<1>5a. Flags' BY <1>0, <1>1 DEF Flags
<1>6. InStep' BY <1>0, <1>1, <1>3, <1>3a DEF InStep, Idle, Pending, None
<1>7. AtTheTag' BY <1>1, <1>2 DEF AtTheTag, IsTag
<1>8. SeenIsState' /\ SkipsInside' BY <1>1 DEF SeenIsState, SkipsInside, Idle
<1>9. Collected'
  <2>1. CASE TextCollected
    <3>1. mode = "NORMAL" BY <1>1, <1>3, <1>3a, <2>1
    <3>2. cdata = Run(doc, pos) BY <1>1, <2>1, <3>1, TextAtTag
    <3>3. TextCollected' BY <1>1, <2>1 DEF TextCollected
    <3>4. cdata' \subseteq 1 .. pos' BY <1>0, <1>1, <1>2, <2>1 DEF Collected
    <3>5. cdata' = Run(doc', pos' - 1) BY <1>1, <1>2, <2>1, <3>2
    <3>6. ~Idle' /\ mode' = "NORMAL" /\ expat' = "SUSPENDED" /\ state' = "TEXT"
      BY <1>1, <2>1 DEF Idle
    <3>7. QED BY <3>3, <3>4, <3>5, <3>6 DEF Collected
  <2>2. CASE ~TextCollected
    <3>1. cdata' = {} /\ state' = "START_TAG" /\ expat' = "SUSPENDED" /\ mode' = "NORMAL" /\ ~Idle'
      BY <1>1, <2>2 DEF Idle
    <3>2. QED BY <3>1 DEF Collected
  <2>3. QED BY <2>1, <2>2
<1>10. QED BY <1>4, <1>5, <1>5a, <1>6, <1>7, <1>8, <1>9 DEF InvOfReports

\* The end of an element, whether its tag is a token or half of one.
LEMMA EndElementKeeps ==
    ASSUME Disciplined, InvOfReports, Inv', EndElement
    PROVE  InvOfReports'
<1>0. /\ Inv /\ Place /\ Typed /\ Flags /\ InStep /\ AtTheTag /\ SkipsInside /\ Collected
  BY DEF InvOfReports
<1>1. /\ ~Idle /\ mode \in {"NORMAL", "SKIP"} /\ half' = FALSE
      /\ half = TRUE => pos' = pos /\ expat \in {"PARSING", "SUSPENDED"}
      /\ half = FALSE => /\ expat = "PARSING" /\ pos < Len(doc) /\ pos' = pos + 1
                         /\ doc[pos + 1].k = "end"
      /\ UNCHANGED <<doc, input, cdata, ignoreWhiteSpaces, call, seen>>
      /\ half \in BOOLEAN
  BY <1>0 DEF EndElement, AtToken, Flags, Inv, ModeOK, HandlersMatchMode, Idle
<1>2. /\ doc \in Seq(Token0) /\ pos \in Nat /\ Len(doc) \in Nat
      /\ \A i \in 1 .. Len(doc) : doc[i].k \in {"start", "end", "empty", "text", "white", "bad"}
      /\ half = FALSE => pos \in 0 .. Len(doc) - 1 /\ pos + 1 \in 1 .. Len(doc) /\ (pos + 1) - 1 = pos
  BY <1>0, <1>1, DocumentFacts DEF Place
<1>3. Place' BY <1>0, <1>1, <1>2 DEF Place, Idle, EndElement, PassEndTag, ReportEndTag, Schedule
<1>4. Flags' BY <1>0, <1>1 DEF Flags
<1>5. CASE PassEndTag
  <2>1. /\ mode = "SKIP" /\ skipDepth > 0 /\ skipDepth' = skipDepth - 1
        /\ UNCHANGED <<mode, expat, state, nextState, next2State, currentElm>>
    BY <1>5 DEF PassEndTag, pending
  <2>2. expat = "PARSING" /\ cdata = {} BY <1>0, <1>1, <2>1 DEF InStep, Collected
  <2>3. Typed' BY <1>0, <1>1, <2>1 DEF Typed
  <2>4. InStep' BY <1>0, <1>1, <2>1, <2>2 DEF InStep, Idle, Pending
  <2>5. AtTheTag' /\ SeenIsState' BY <1>1, <2>1, <2>2 DEF AtTheTag, SeenIsState, Idle
  <2>6. SkipsInside'
    <3>1. CASE half = TRUE
      <4>1. OpenAt(doc, pos) \in Int /\ OpenAt(doc, pos) + 1 > skipDepth /\ skipDepth \in Nat
        <5>1. OpenAt(doc, pos) \in Int BY <1>2, OpenAtIsAnInteger
        <5>2. QED BY <1>0, <1>1, <2>1, <3>1, <5>1 DEF SkipsInside, Typed
      <4>2. QED BY <1>1, <2>1, <3>1, <4>1 DEF SkipsInside
    <3>2. CASE half = FALSE
      <4>1. /\ OpenAt(doc, pos) \in Int /\ OpenAt(doc, pos + 1) = OpenAt(doc, pos) - 1
        BY <1>1, <1>2, <3>2, OneMoreToken
      <4>2. OpenAt(doc, pos) > skipDepth /\ skipDepth \in Nat
        BY <1>0, <1>1, <2>1, <3>2, <4>1 DEF SkipsInside, Typed
      <4>3. QED BY <1>1, <2>1, <3>2, <4>1, <4>2 DEF SkipsInside
    <3>3. QED BY <1>1, <3>1, <3>2
  <2>7. Collected' BY <1>1, <2>1, <2>2 DEF Collected, Idle
  <2>8. QED BY <1>3, <1>4, <2>3, <2>4, <2>5, <2>6, <2>7 DEF InvOfReports
<1>6. CASE ReportEndTag(Token.n)
  <2>1. /\ ~(mode = "SKIP" /\ skipDepth > 0) /\ mode' = "NORMAL" /\ expat' = "SUSPENDED"
        /\ currentElm' = doc[pos'].n /\ skipDepth' = skipDepth
        /\ Schedule(expat = "SUSPENDED", TextCollected)
    BY <1>1, <1>6 DEF ReportEndTag, Token
  <2>2. call # "find" \/ expat = "SUSPENDED" BY <1>0, <1>1 DEF InStep
  <2>3. CASE half = TRUE
    <3>1. mode # "SKIP" BY <1>0, <1>1, <2>1, <2>3 DEF SkipsInside, Typed
    <3>2. expat = "SUSPENDED" /\ mode = "NORMAL" BY <1>0, <1>1, <2>3, <3>1 DEF InStep
    <3>3. /\ state \in {"TEXT", "START_TAG"} /\ call \in {"next", "find"} /\ next2State = None
          /\ call = "find" => state = "START_TAG"
      BY <1>0, <1>1, <2>3, <3>2 DEF InStep, Typed, Idle
    <3>4. state = "TEXT" <=> TextCollected
      BY <1>0, <3>2, <3>3 DEF Collected, TextCollected
    <3>5. /\ state' = state
          /\ state = "TEXT" => nextState' = "START_TAG" /\ next2State' = "END_TAG"
          /\ state = "START_TAG" => nextState' = "END_TAG" /\ next2State' = None
      BY <2>1, <3>2, <3>3, <3>4 DEF Schedule
    <3>6. /\ pos \in 1 .. Len(doc) /\ IsTag(doc, pos) /\ doc[pos].k # "end"
      <4>1. "START_TAG" \in {state, nextState} BY <1>0, <1>1, <2>3, <3>2, <3>3 DEF InStep
      <4>2. QED BY <1>0, <3>2, <4>1 DEF AtTheTag
    <3>7. Typed' BY <1>0, <1>1, <2>1, <3>5 DEF Typed
    <3>8. InStep' BY <1>0, <1>1, <2>1, <3>3, <3>5 DEF InStep, Idle, Pending, None
    <3>9. AtTheTag' BY <1>1, <2>1, <2>3, <3>3, <3>5, <3>6 DEF AtTheTag, IsTag
    <3>10. SeenIsState' /\ SkipsInside' BY <1>1, <2>1 DEF SeenIsState, SkipsInside, Idle
    <3>11. Collected'
      <4>1. TextCollected' <=> TextCollected BY <1>1 DEF TextCollected
      <4>2. QED BY <1>0, <1>1, <2>1, <2>3, <3>2, <3>3, <3>5, <4>1 DEF Collected, Idle
    <3>12. QED BY <1>3, <1>4, <3>7, <3>8, <3>9, <3>10, <3>11 DEF InvOfReports
  <2>4. CASE half = FALSE
    <3>1. expat = "PARSING" /\ pos' = pos + 1 /\ doc[pos + 1].k = "end" BY <1>1, <2>4
    <3>2. ~Pending /\ call \in {"next", "skip"} /\ (mode = "SKIP" <=> call = "skip")
      BY <1>0, <1>1, <3>1 DEF InStep, Typed, Idle
    <3>3. call = "skip" => ~TextCollected BY <1>0, <1>1, <3>2 DEF Collected, TextCollected
    <3>4. /\ state' = IF TextCollected THEN "TEXT" ELSE "END_TAG"
          /\ nextState' = IF TextCollected THEN "END_TAG" ELSE None
          /\ next2State' = None
      BY <2>1, <3>1, <3>2 DEF Schedule, Pending
    <3>5. Typed' BY <1>0, <1>1, <2>1, <3>4 DEF Typed, States
    <3>6. InStep' BY <1>1, <2>1, <3>2, <3>3, <3>4 DEF InStep, Idle, Pending, None
    <3>7. AtTheTag' BY <1>1, <1>2, <2>1, <2>4, <3>1, <3>4 DEF AtTheTag, IsTag, None
    <3>8. SeenIsState' /\ SkipsInside' BY <1>1, <2>1 DEF SeenIsState, SkipsInside, Idle
    <3>9. Collected'
      <4>1. cdata' \subseteq 1 .. pos'
        <5>1. 1 .. pos \subseteq 1 .. pos + 1 BY <1>2
        <5>2. QED BY <1>0, <1>1, <3>1, <5>1 DEF Collected
      <4>2. CASE TextCollected
        <5>1. mode = "NORMAL" BY <1>1, <3>2, <3>3, <4>2
        <5>2. cdata = Run(doc, pos) BY <1>1, <2>4, <3>1, <4>2, <5>1, TextAtTag
        <5>3. TextCollected' BY <1>1, <4>2 DEF TextCollected
        <5>4. cdata' = Run(doc', pos' - 1) BY <1>1, <1>2, <2>4, <3>1, <5>2
        <5>5. ~Idle' /\ mode' = "NORMAL" /\ expat' = "SUSPENDED" /\ state' = "TEXT"
          BY <1>1, <2>1, <3>4, <4>2 DEF Idle
        <5>6. QED BY <4>1, <5>3, <5>4, <5>5 DEF Collected
      <4>3. CASE ~TextCollected
        <5>1. \A i \in cdata : ignoreWhiteSpaces /\ Left(doc, i, pos + 1)
          <6>1. mode = "SKIP" => cdata = {} BY <1>0, <1>1 DEF Collected
          <6>2. QED BY <1>1, <2>4, <3>1, <4>3, <6>1, TextAtTag
        <5>2. \A i \in cdata' : ignoreWhiteSpaces' /\ Left(doc', i, pos') BY <1>1, <3>1, <5>1
        <5>3. ~Idle' /\ mode' = "NORMAL" /\ expat' = "SUSPENDED" /\ state' = "END_TAG"
          BY <1>1, <2>1, <3>4, <4>3 DEF Idle
        <5>4. QED BY <4>1, <5>2, <5>3 DEF Collected
      <4>4. QED BY <4>2, <4>3
    <3>10. QED BY <1>3, <1>4, <3>5, <3>6, <3>7, <3>8, <3>9 DEF InvOfReports
  <2>5. QED BY <1>1, <2>3, <2>4
<1>7. QED BY <1>5, <1>6 DEF EndElement

\* The ways out of a parsing method.
LEMMA ReturnKeeps ==
    ASSUME Disciplined, InvOfReports, Inv', Return \/ EndOfInput \/ WellFormednessError
    PROVE  InvOfReports'
<1>0. /\ Inv /\ Place /\ Typed /\ Flags /\ InStep /\ AtTheTag /\ SkipsInside /\ Collected
  BY DEF InvOfReports
<1>1. /\ ~Idle /\ Idle' /\ half = FALSE
      /\ UNCHANGED <<doc, pos, half, nextState, next2State, mode, skipDepth, cdata, currentElm,
                     ignoreWhiteSpaces>>
  BY <1>0 DEF Return, EndOfInput, WellFormednessError, Finish, Flags, expatVars, pending, Idle
<1>2. Flags' BY <1>0, <1>1 DEF Flags
<1>3. CASE Return
  <2>1. /\ expat = "SUSPENDED" /\ expat' = "SUSPENDED" /\ input' = input /\ state' = state
        /\ seen' = Reported(call, state) /\ call' = "none"
    BY <1>3 DEF Return, expatVars
  <2>2. /\ state \in {"TEXT", "START_TAG", "END_TAG"} /\ mode = "NORMAL"
        /\ call = "skip" => state = "END_TAG"
        /\ call = "find" => state = "START_TAG"
    BY <1>0, <1>1, <2>1 DEF InStep
  <2>3. Place' BY <1>0, <1>1, <2>1, <2>2 DEF Place
  <2>4. Typed' BY <1>0, <1>1, <2>1, <2>2 DEF Typed, States, Reported
  <2>5. InStep' BY <1>0, <1>1, <2>1, <2>2 DEF InStep, Pending
  <2>6. AtTheTag' BY <1>0, <1>1, <2>1 DEF AtTheTag, IsTag
  <2>7. SeenIsState' BY <1>1, <2>1, <2>2 DEF SeenIsState, Reported
  <2>8. SkipsInside' BY <1>1 DEF SkipsInside
  <2>9. Collected'
    <3>1. TextCollected' <=> TextCollected BY <1>1 DEF TextCollected
    <3>2. QED BY <1>0, <1>1, <2>1, <2>2, <3>1 DEF Collected
  <2>10. QED BY <1>2, <2>3, <2>4, <2>5, <2>6, <2>7, <2>8, <2>9 DEF InvOfReports
<1>4. CASE EndOfInput \/ WellFormednessError
  <2>1. PICK s \in {"PARSE_ERROR", "END_DOCUMENT"} :
          /\ state' = s /\ input' = "none" /\ seen' = Reported(call, s) /\ call' = "none"
          /\ s = "END_DOCUMENT" => pos = Len(doc)
    BY <1>4 DEF EndOfInput, WellFormednessError, Finish
  <2>2. expat = "PARSING" /\ expat' \in {"PARSING", "FINISHED"}
    BY <1>4 DEF EndOfInput, WellFormednessError
  <2>3. ~(call = "skip" /\ s = "END_DOCUMENT")
    <3> SUFFICES ASSUME call = "skip", pos = Len(doc) PROVE FALSE BY <2>1
    <3>1. mode = "SKIP" BY <1>0, <1>1, <2>2 DEF InStep
    <3>2. /\ OpenAt(doc, pos) > skipDepth /\ skipDepth \in Nat /\ OpenAt(doc, pos) \in Int
      BY <1>0, <1>1, <3>1, DocumentFacts, OpenAtIsAnInteger DEF SkipsInside, Typed
    <3>3. OpenAt(doc, pos) <= 0 BY <1>0, DocumentFacts
    <3>4. QED BY <3>2, <3>3
  <2>4. seen' = [kind |-> s, at |-> 0] BY <1>0, <1>1, <2>1, <2>3 DEF Reported, Typed, Idle
  <2>5. Place' BY <1>0, <1>1, <2>1 DEF Place
  <2>6. Typed' BY <1>0, <1>1, <2>1, <2>2, <2>4 DEF Typed, States
  <2>7. InStep' BY <1>0, <1>1, <2>1, <2>2 DEF InStep, Pending
  <2>8. AtTheTag' /\ SeenIsState' /\ SkipsInside'
    BY <1>1, <2>2, <2>4 DEF AtTheTag, SeenIsState, SkipsInside
  <2>9. Collected' BY <1>0, <1>1, <2>1, <2>2 DEF Collected
  <2>10. QED BY <1>2, <2>5, <2>6, <2>7, <2>8, <2>9 DEF InvOfReports
<1>5. QED BY <1>3, <1>4

\* The methods that do not parse, and no step at all.
LEMMA OtherKeeps ==
    ASSUME Disciplined, InvOfReports, Inv', Input \/ Reset \/ Recreate \/ UNCHANGED vars
    PROVE  InvOfReports'
<1>0. /\ Inv /\ Place /\ Typed /\ Flags /\ InStep /\ AtTheTag /\ SeenIsState /\ SkipsInside
      /\ Collected /\ ~AnyUse
  BY DEF InvOfReports, Disciplined
<1>1. CASE Input
  <2>1. /\ Idle /\ Idle' /\ state = "READY" /\ input' \in Sources /\ doc' \in Documents
        /\ state' = "START_DOCUMENT" /\ seen' = [kind |-> "START_DOCUMENT", at |-> 0]
        /\ UNCHANGED <<pos, expat, half, nextState, next2State, mode, skipDepth, cdata, currentElm,
                       ignoreWhiteSpaces, call>>
    BY <1>1 DEF Input, pending, Idle
  <2>2. pos = 0 /\ cdata = {} /\ ~Pending /\ mode = "NORMAL" BY <1>0, <2>1 DEF Place, Collected, InStep
  <2>3. expat # "SUSPENDED" BY <1>0, <2>1, <2>2 DEF AtTheTag
  <2>4. Place'
    <3>1. Len(doc') \in Nat BY <2>1, PullParserAssumption
    <3>2. QED BY <2>1, <2>2, <3>1 DEF Place
  <2>5. Typed' /\ Flags' BY <1>0, <2>1 DEF Typed, Flags, States
  <2>6. InStep' BY <1>0, <2>1, <2>2 DEF InStep, Pending
  <2>7. AtTheTag' /\ SeenIsState' /\ SkipsInside' /\ Collected'
    BY <2>1, <2>2, <2>3 DEF AtTheTag, SeenIsState, SkipsInside, Collected
  <2>8. QED BY <2>4, <2>5, <2>6, <2>7 DEF InvOfReports
<1>2. CASE Reset \/ Recreate
  <2>1. /\ Idle /\ Idle' /\ Cleared /\ next2State' = None /\ half' = half /\ call' = call
        /\ skipDepth' \in {skipDepth, 0} /\ ignoreWhiteSpaces' \in IgnoreChoices
    BY <1>0, <1>2 DEF Reset, Recreate, Idle, Flags
  <2>2. /\ doc' = <<>> /\ pos' = 0 /\ expat' = "INITIALIZED" /\ input' = "none" /\ state' = "READY"
        /\ nextState' = None /\ mode' = "NORMAL" /\ cdata' = {}
        /\ seen' = [kind |-> "READY", at |-> 0]
    BY <2>1 DEF Cleared
  <2>3. half = FALSE BY <1>0, <2>1 DEF Flags, Inv, ModeOK
  <2>4. Place'
    <3>1. Len(<<>>) = 0 OBVIOUS
    <3>2. QED BY <2>1, <2>2, <3>1 DEF Place
  <2>5. Typed' /\ Flags' BY <1>0, <2>1, <2>2 DEF Typed, Flags, States
  <2>6. InStep' BY <2>1, <2>2, <2>3 DEF InStep, Pending
  <2>7. AtTheTag' /\ SeenIsState' /\ SkipsInside' /\ Collected'
    BY <2>1, <2>2 DEF AtTheTag, SeenIsState, SkipsInside, Collected
  <2>8. QED BY <2>4, <2>5, <2>6, <2>7 DEF InvOfReports
<1>3. CASE UNCHANGED vars
  BY <1>3 DEF vars, expatVars, handlers, pending, InvOfReports, Place, Typed, Flags, InStep, AtTheTag,
     SeenIsState, SkipsInside, Collected, TextCollected, Idle, Pending
<1>4. QED BY <1>1, <1>2, <1>3

\* Every step of the parser, of expat and of the script keeps InvOfReports.
LEMMA ReportsStep == Disciplined /\ InvOfReports /\ [Next]_vars => InvOfReports'
<1> SUFFICES ASSUME Disciplined, InvOfReports, [Next]_vars PROVE InvOfReports'
  OBVIOUS
<1>1. Inv' BY StepInv DEF InvOfReports
<1>2. QED
  BY <1>1, MethodKeeps, CharactersKeep, PassStartTagKeeps, StartElementKeeps, EndElementKeeps,
     ReturnKeeps, OtherKeeps DEF Next, Parsing

\* What the script is told, read off the invariant.
LEMMA InvImpliesReports == Disciplined /\ InvOfReports => ReportIsOfTheEvent
<1> SUFFICES ASSUME Disciplined, InvOfReports PROVE ReportIsOfTheEvent
  OBVIOUS
<1>0. /\ Inv /\ Place /\ Typed /\ Flags /\ InStep /\ AtTheTag /\ SeenIsState /\ Collected
  BY DEF InvOfReports
<1>1. doc \in Seq(Token0) /\ DOMAIN doc = 1 .. Len(doc) /\ pos \in 0 .. Len(doc) /\ Len(doc) \in Nat
  BY <1>0, DocumentFacts DEF Place
<1>2. TypeOK
  <2>1. cdata \subseteq DOMAIN doc BY <1>0, <1>1 DEF Collected
  <2>2. {state, nextState, next2State, seen.kind} \subseteq States
    BY <1>0 DEF Typed, States, Inv, PendingOK, None
  <2>3. half \in BOOLEAN BY <1>0 DEF Flags
  <2>4. mode \in {"NORMAL", "SKIP", "FIND"} BY <1>0 DEF Inv, ModeOK
  <2>5. QED BY <1>0, <1>1, <2>1, <2>2, <2>3, <2>4 DEF TypeOK, Typed
<1>3. ASSUME Idle, seen.kind \in {"START_TAG", "END_TAG", "TEXT"}
      PROVE  /\ state = seen.kind /\ seen.at = pos /\ pos \in 1 .. Len(doc) /\ IsTag(doc, pos)
             /\ currentElm = doc[pos].n /\ expat = "SUSPENDED"
  BY <1>0, <1>3 DEF SeenIsState, InStep, AtTheTag
<1>4. TextIsOwn
  <2> SUFFICES ASSUME Idle, seen.kind = "TEXT" PROVE cdata = Stream!TextBefore(doc, seen.at)
    BY DEF TextIsOwn
  <2>1. cdata = Run(doc, pos - 1) BY <1>0, <1>3 DEF Collected
  <2>2. QED BY <1>1, <1>3, <2>1, RunIsTextBefore
<1>5. TagIsOfTheEvent BY <1>3 DEF TagIsOfTheEvent
<1>6. QED BY <1>2, <1>4, <1>5 DEF ReportIsOfTheEvent

\* For every document, what the methods text and tag return belongs to the event
\* that was reported, however often the script skips, searches and starts again.
THEOREM ReportsAreTrue == Disciplined => (Spec => []ReportIsOfTheEvent)
<1> SUFFICES ASSUME Disciplined PROVE Spec => []ReportIsOfTheEvent
  OBVIOUS
<1>1. Init => InvOfReports BY InitReports
<1>2. InvOfReports /\ [Next]_vars => InvOfReports' BY ReportsStep
<1>3. InvOfReports => ReportIsOfTheEvent BY InvImpliesReports
<1>4. QED BY <1>1, <1>2, <1>3, PTL DEF Spec

-----------------------------------------------------------------------------
(* The parser delivers the stream of events that doc/pullparser.xml promises: *)
(* every call that returns is one step of PullStream.  Strings as input only: *)
(* a channel or a file reports an error where the document ends well, when    *)
(* its first call comes to the end (see EndOfInput).                          *)

FromStrings == Sources \cap {"inputchannel", "inputfile"} = {}

\* What the pending states say about the tag at which expat is suspended.
TagIsPending ==
  /\ half => pos > 0 /\ doc[pos].k = "empty"
  /\ expat = "SUSPENDED" =>
    /\ state = "TEXT" =>
         /\ nextState = "START_TAG" <=> doc[pos].k # "end"
         /\ half \/ (next2State = "END_TAG" <=> doc[pos].k = "empty")
    /\ state = "START_TAG" =>
         /\ doc[pos].k # "end"
         /\ half \/ (nextState = "END_TAG" <=> doc[pos].k = "empty")
    /\ state = "END_TAG" => doc[pos].k # "start"
    /\ state \in {"TEXT", "START_TAG", "END_TAG"}

\* Between two calls the script has seen the event that the state names.
StateIsSeen ==
  Idle => /\ state \in {"TEXT", "START_TAG", "END_TAG"} => seen = [kind |-> state, at |-> pos]
          /\ state \in {"READY", "START_DOCUMENT"} => seen = [kind |-> state, at |-> 0]
          /\ state \in {"PARSE_ERROR", "END_DOCUMENT"} => seen.kind = state

\* The last token that the running call has looked at and passed.
Passed == IF expat = "PARSING" THEN pos ELSE pos - 1

\* What a running call has passed since the event that was seen last, and where
\* it has stopped.
CallPasses ==
  ~Idle =>
    /\ seen.at \in 0 .. Passed /\ seen = [kind |-> seen.kind, at |-> seen.at]
    /\ seen.kind \in {"START_DOCUMENT", "START_TAG", "END_TAG"}
    /\ seen.kind = "START_DOCUMENT" => seen.at = 0
    /\ seen.kind = "START_TAG" => seen.at > 0 /\ doc[seen.at].k = "start"
    /\ call = "next" =>
         /\ NoTag(doc, seen.at + 1, Passed)
         /\ expat = "SUSPENDED" =>
              /\ state = "TEXT" <=> Stream!Reportable(doc, ignoreWhiteSpaces, Run(doc, pos - 1))
              /\ state = "END_TAG" => doc[pos].k = "end"
    /\ call = "find" =>
         /\ sought \in Names
         /\ \A t \in seen.at + 1 .. Passed : doc[t].k \in {"start", "empty"} => doc[t].n # sought
         /\ expat = "SUSPENDED" => doc[pos].n = sought
    /\ call = "skip" =>
         /\ seen.kind = "START_TAG"
         /\ \A t \in seen.at + 1 .. Passed : OpenAt(doc, t) >= OpenAt(doc, seen.at)
         /\ expat = "PARSING" =>
              OpenAt(doc, pos) + (IF half THEN 1 ELSE 0) = OpenAt(doc, seen.at) + skipDepth
         /\ expat = "SUSPENDED" =>
              doc[pos].k = "end" /\ OpenAt(doc, pos) = OpenAt(doc, seen.at) - 1

InvOfStream == InvOfReports /\ TagIsPending /\ StateIsSeen /\ CallPasses

(* ------------------------- the stream of events -------------------------- *)
Kinds == {"TEXT", "START_TAG", "END_TAG"}
EventAt(k, t) == [kind |-> k, at |-> t]

\* The events of a document are those of its tags, up to the first malformed
\* token.
LEMMA EventFacts ==
    ASSUME NEW d \in Seq(Token0), NEW g
    PROVE  /\ \A f \in Stream!Events(d, g) :
                /\ f.kind \in Kinds /\ f.at \in 1 .. Len(d) /\ f = EventAt(f.kind, f.at)
                /\ IsTag(d, f.at) /\ \A j \in 1 .. f.at : d[j].k # "bad"
                /\ f.kind = "START_TAG" => d[f.at].k # "end"
                /\ f.kind = "END_TAG" => d[f.at].k # "start"
                /\ f.kind = "TEXT" => Stream!Reportable(d, g, Run(d, f.at - 1))
           /\ \A t \in 1 .. Len(d) :
                IsTag(d, t) /\ (\A j \in 1 .. t : d[j].k # "bad") =>
                  /\ d[t].k # "end" => EventAt("START_TAG", t) \in Stream!Events(d, g)
                  /\ d[t].k # "start" => EventAt("END_TAG", t) \in Stream!Events(d, g)
                  /\ Stream!Reportable(d, g, Run(d, t - 1)) => EventAt("TEXT", t) \in Stream!Events(d, g)
<1> DEFINE good == {i \in Stream!Tags(d) : \A j \in 1 .. i : d[j].k # "bad"}
<1>1. \A i : i \in good <=> i \in 1 .. Len(d) /\ IsTag(d, i) /\ \A j \in 1 .. i : d[j].k # "bad"
  BY DEF Stream!Tags, IsTag
<1>2. \A t \in 1 .. Len(d) : IsTag(d, t) => Run(d, t - 1) = Stream!TextBefore(d, t)
  BY RunIsTextBefore
<1> DEFINE A == {i \in good : d[i].k # "end"}
           B == {i \in good : d[i].k # "start"}
           C == {i \in good : Stream!Reportable(d, g, Stream!TextBefore(d, i))}
<1>3. Stream!Events(d, g) = [kind : {"START_TAG"}, at : A] \union [kind : {"END_TAG"}, at : B]
                              \union [kind : {"TEXT"}, at : C]
  BY DEF Stream!Events
<1>4. \A i : /\ i \in A <=> i \in good /\ d[i].k # "end"
             /\ i \in B <=> i \in good /\ d[i].k # "start"
             /\ i \in C <=> i \in good /\ Stream!Reportable(d, g, Stream!TextBefore(d, i))
  OBVIOUS
<1> HIDE DEF good, A, B, C
<1>5. ASSUME NEW f \in Stream!Events(d, g)
      PROVE  /\ f.kind \in Kinds /\ f.at \in 1 .. Len(d) /\ f = EventAt(f.kind, f.at)
             /\ IsTag(d, f.at) /\ \A j \in 1 .. f.at : d[j].k # "bad"
             /\ f.kind = "START_TAG" => d[f.at].k # "end"
             /\ f.kind = "END_TAG" => d[f.at].k # "start"
             /\ f.kind = "TEXT" => Stream!Reportable(d, g, Run(d, f.at - 1))
  <2>1. /\ f = EventAt(f.kind, f.at) /\ f.at \in good /\ f.kind \in Kinds
        /\ f.kind = "START_TAG" => f.at \in A
        /\ f.kind = "END_TAG" => f.at \in B
        /\ f.kind = "TEXT" => f.at \in C
    BY <1>3, <1>4 DEF EventAt, Kinds
  <2>2. QED BY <1>1, <1>2, <1>4, <2>1
<1>6. ASSUME NEW t \in 1 .. Len(d), IsTag(d, t), \A j \in 1 .. t : d[j].k # "bad"
      PROVE  /\ d[t].k # "end" => EventAt("START_TAG", t) \in Stream!Events(d, g)
             /\ d[t].k # "start" => EventAt("END_TAG", t) \in Stream!Events(d, g)
             /\ Stream!Reportable(d, g, Run(d, t - 1)) => EventAt("TEXT", t) \in Stream!Events(d, g)
  <2>1. /\ d[t].k # "end" => t \in A
        /\ d[t].k # "start" => t \in B
        /\ Stream!Reportable(d, g, Run(d, t - 1)) => t \in C
    BY <1>1, <1>2, <1>4, <1>6
  <2>2. QED BY <1>3, <2>1 DEF EventAt
<1>7. QED BY <1>5, <1>6

\* The order of events: by place, at one place text, start tag, end tag.
LEMMA EventOrder ==
    ASSUME NEW k, NEW a \in Int, NEW l, NEW b \in Int
    PROVE  /\ Stream!Before(EventAt(k, a), EventAt(l, b)) <=>
                a < b \/ (a = b /\ ((k = "TEXT" /\ l # "TEXT")
                                    \/ (k = "START_TAG" /\ l \notin {"TEXT", "START_TAG"})))
  BY DEF Stream!Before, Stream!Rank, EventAt

\* The first event behind e among those of a set is the one that is before the
\* others; without any it is the end of the document.
LEMMA FirstIsFound ==
    ASSUME NEW e, NEW S, NEW f \in S, Stream!Before(e, f),
           \A h \in S : h.at \in Int,
           \A h \in S : Stream!Before(e, h) => h = f \/ Stream!Before(f, h)
    PROVE  Stream!FirstAfter(e, S) = f
<1> DEFINE later == {h \in S : Stream!Before(e, h)}
           first(h) == \A h2 \in later : h2 = h \/ Stream!Before(h, h2)
<1>1. f \in later /\ first(f) OBVIOUS
<1>2. Stream!FirstAfter(e, S) = CHOOSE h \in later : first(h)
  BY <1>1 DEF Stream!FirstAfter
<1>3. ASSUME NEW h \in later, first(h) PROVE h = f
  <2>1. h = f \/ (Stream!Before(h, f) /\ Stream!Before(f, h)) BY <1>1, <1>3
  <2>2. h.at \in Int /\ f.at \in Int OBVIOUS
  <2>3. Stream!Rank(h) \in Int /\ Stream!Rank(f) \in Int BY DEF Stream!Rank
  <2>4. QED BY <2>1, <2>2, <2>3 DEF Stream!Before
<1> HIDE DEF later, first
<1>4. QED BY <1>1, <1>2, <1>3

\* Without an event behind e the stream goes on with the end of the document.
LEMMA NothingIsFound ==
    ASSUME NEW e, NEW S, \A h \in S : ~Stream!Before(e, h)
    PROVE  Stream!FirstAfter(e, S) = Stream!EndOf(doc)
<1>1. {h \in S : Stream!Before(e, h)} = {} OBVIOUS
<1>2. QED BY <1>1 DEF Stream!FirstAfter

\* An event behind which no other has the same place.
LastThere(d, k, a) ==
  /\ a \in Nat /\ k \in {"START_DOCUMENT", "START_TAG", "END_TAG"}
  /\ k = "START_DOCUMENT" => a = 0
  /\ k = "START_TAG" => a > 0 /\ d[a].k = "start"

\* Behind such an event come those of later tags.
LEMMA NothingMoreThere ==
    ASSUME NEW d \in Seq(Token0), NEW g, NEW k, NEW a, LastThere(d, k, a),
           NEW f \in Stream!Events(d, g)
    PROVE  Stream!Before(EventAt(k, a), f) <=> f.at > a
<1>1. /\ f.kind \in Kinds /\ f.at \in 1 .. Len(d) /\ f = EventAt(f.kind, f.at)
      /\ f.kind = "END_TAG" => d[f.at].k # "start"
  BY EventFacts
<1>2. Stream!Before(EventAt(k, a), EventAt(f.kind, f.at)) <=>
        a < f.at \/ (a = f.at /\ ((k = "TEXT" /\ f.kind # "TEXT")
                                  \/ (k = "START_TAG" /\ f.kind \notin {"TEXT", "START_TAG"})))
  BY <1>1, EventOrder DEF LastThere
<1>3. QED BY <1>1, <1>2 DEF LastThere, Kinds

\* How many tokens behind place a, up to place b, are of the kinds K.
Tokens(d, K, a, b) == {i \in a + 1 .. b : d[i].k \in K}
Count(d, K, a, b) == Cardinality(Tokens(d, K, a, b))

\* Tokens can be counted.
LEMMA CountIsANumber ==
    ASSUME NEW d, NEW K, NEW a \in Nat, NEW b \in Nat
    PROVE  IsFiniteSet(Tokens(d, K, a, b)) /\ Count(d, K, a, b) \in Nat
<1>1. IsFiniteSet(a + 1 .. b) BY FS_Interval
<1>2. Tokens(d, K, a, b) \subseteq a + 1 .. b BY DEF Tokens
<1>3. QED BY <1>1, <1>2, FS_Subset, FS_CardinalityType DEF Count

\* The cardinality of two disjoint sets.
LEMMA DisjointCount ==
    ASSUME NEW S, IsFiniteSet(S), NEW T, IsFiniteSet(T), S \cap T = {}
    PROVE  Cardinality(S \union T) = Cardinality(S) + Cardinality(T)
<1>1. Cardinality(S \union T) = Cardinality(S) + Cardinality(T) - 0 BY FS_Union, FS_EmptySet
<1>2. Cardinality(S) \in Nat /\ Cardinality(T) \in Nat BY FS_CardinalityType
<1>3. QED BY <1>1, <1>2

\* Tokens are counted by kind and by place.
LEMMA CountByKind ==
    ASSUME NEW d, NEW K, NEW L, K \cap L = {}, NEW a \in Nat, NEW b \in Nat
    PROVE  Count(d, K \union L, a, b) = Count(d, K, a, b) + Count(d, L, a, b)
<1>1. Tokens(d, K \union L, a, b) = Tokens(d, K, a, b) \union Tokens(d, L, a, b)
      /\ Tokens(d, K, a, b) \cap Tokens(d, L, a, b) = {}
  BY DEF Tokens
<1>2. QED BY <1>1, CountIsANumber, DisjointCount DEF Count

\* Tokens up to a place and tokens behind it.
LEMMA CountByPlace ==
    ASSUME NEW d, NEW K, NEW a \in Nat, NEW b \in Nat, NEW c \in Nat, a <= b, b <= c
    PROVE  Count(d, K, a, c) = Count(d, K, a, b) + Count(d, K, b, c)
<1>1. Tokens(d, K, a, c) = Tokens(d, K, a, b) \union Tokens(d, K, b, c)
      /\ Tokens(d, K, a, b) \cap Tokens(d, K, b, c) = {}
  BY DEF Tokens
<1>2. QED BY <1>1, CountIsANumber, DisjointCount DEF Count

\* The elements open at a place, counted from an earlier one.
LEMMA OpenByCount ==
    ASSUME NEW d, NEW a \in Nat, NEW b \in Nat, a <= b
    PROVE  /\ OpenAt(d, b) = OpenAt(d, a) + Count(d, {"start"}, a, b) - Count(d, {"end"}, a, b)
           /\ OpenAt(d, a) \in Int
<1>1. ASSUME NEW c \in Nat PROVE OpenAt(d, c) = Count(d, {"start"}, 0, c) - Count(d, {"end"}, 0, c)
  <2>1. {i \in 1 .. c : d[i].k = "start"} = Tokens(d, {"start"}, 0, c)
        /\ {i \in 1 .. c : d[i].k = "end"} = Tokens(d, {"end"}, 0, c)
    BY DEF Tokens
  <2>2. QED BY <2>1 DEF OpenAt, Count
<1>2. ASSUME NEW K
      PROVE  /\ Count(d, K, 0, b) = Count(d, K, 0, a) + Count(d, K, a, b)
             /\ Count(d, K, 0, a) \in Nat /\ Count(d, K, a, b) \in Nat
  <2>1. 0 \in Nat /\ 0 <= a OBVIOUS
  <2>2. QED BY <2>1, CountByPlace, CountIsANumber
<1> DEFINE s0 == Count(d, {"start"}, 0, a)   s1 == Count(d, {"start"}, a, b)
           e0 == Count(d, {"end"}, 0, a)     e1 == Count(d, {"end"}, a, b)
<1>3. OpenAt(d, a) = s0 - e0 BY <1>1
<1>4. OpenAt(d, b) = (s0 + s1) - (e0 + e1) BY <1>1, <1>2
<1>5. s0 \in Nat /\ s1 \in Nat /\ e0 \in Nat /\ e1 \in Nat BY <1>2
<1> HIDE DEF s0, s1, e0, e1
<1>6. OpenAt(d, b) = OpenAt(d, a) + s1 - e1 /\ OpenAt(d, a) \in Int BY <1>3, <1>4, <1>5
<1>7. QED BY <1>6 DEF s1, e1

\* As many events of a kind as there are tokens that cause one.
LEMMA EventsAsTokens ==
    ASSUME NEW k, NEW S, IsFiniteSet(S)
    PROVE  LET T == {EventAt(k, i) : i \in S}
           IN  IsFiniteSet(T) /\ Cardinality(T) = Cardinality(S)
<1> DEFINE T == {EventAt(k, i) : i \in S}
           F == [i \in S |-> EventAt(k, i)]
<1>1. F \in [S -> T] OBVIOUS
<1>2. \A a, b \in S : F[a] = F[b] => a = b BY DEF EventAt
<1>3. \A t \in T : \E i \in S : F[i] = t OBVIOUS
<1> HIDE DEF F, T
<1>4. F \in Bijection(S, T) BY <1>1, <1>2, <1>3, Fun_IsBij
<1>5. ExistsBijection(S, T) BY <1>4, Fun_ExistsBij
<1>6. IsFiniteSet(T) /\ Cardinality(T) = Cardinality(S) BY <1>5, FS_Bijection
<1>7. QED BY <1>6 DEF T

\* FiniteSets is the same module in the abstract specification.
LEMMA SameCardinality == ASSUME NEW S PROVE Stream!Cardinality(S) = Cardinality(S)
  BY DEF Stream!Cardinality, Cardinality

\* The end tags that close the element begun at place a are those after which one
\* element less is open than there was with it.
LEMMA CloserIsBalance ==
    ASSUME doc \in Seq(Token0), NEW a \in 1 .. Len(doc), doc[a].k = "start",
           NEW f \in Stream!Stream, f.kind = "END_TAG", f.at > a
    PROVE  f \in Stream!ClosersOf(EventAt("START_TAG", a)) <=>
             OpenAt(doc, f.at) = OpenAt(doc, a) - 1
<1> DEFINE e == EventAt("START_TAG", a)
           b == f.at
           To(h2, k) == {h \in Stream!Stream : h.kind = k /\ Stream!Before(e, h) /\ Stream!Before(h, h2)}
           Between(k) == To(f, k)
           S == Tokens(doc, {"start"} \union {"empty"}, a, b)
           E == Tokens(doc, {"end"} \union {"empty"}, a, b)
<1>0. Stream!Stream = Stream!Events(doc, ignoreWhiteSpaces) BY DEF Stream!Stream
<1>1. /\ b \in 1 .. Len(doc) /\ f = EventAt("END_TAG", b) /\ IsTag(doc, b) /\ doc[b].k # "start"
      /\ \A j \in 1 .. b : doc[j].k # "bad"
      /\ a \in Nat /\ b \in Nat /\ a < b
  BY <1>0, EventFacts
<1>2. ASSUME NEW h \in Stream!Stream
      PROVE  /\ h.kind \in Kinds /\ h.at \in 1 .. Len(doc) /\ h = EventAt(h.kind, h.at)
             /\ IsTag(doc, h.at)
             /\ h.kind = "START_TAG" => doc[h.at].k # "end"
             /\ h.kind = "END_TAG" => doc[h.at].k # "start"
             /\ Stream!Before(e, h) <=> h.at > a
             /\ h.kind = "START_TAG" => (Stream!Before(h, f) <=> h.at <= b)
             /\ h.kind = "END_TAG" => (Stream!Before(h, f) <=> h.at < b)
  <2>1. /\ h.kind \in Kinds /\ h.at \in 1 .. Len(doc) /\ h = EventAt(h.kind, h.at)
        /\ IsTag(doc, h.at)
        /\ h.kind = "START_TAG" => doc[h.at].k # "end"
        /\ h.kind = "END_TAG" => doc[h.at].k # "start"
    BY <1>0, EventFacts
  <2>2. LastThere(doc, "START_TAG", a) BY DEF LastThere
  <2>3. Stream!Before(e, h) <=> h.at > a BY <1>0, <2>2, NothingMoreThere
  <2>4. Stream!Before(EventAt(h.kind, h.at), EventAt("END_TAG", b)) <=>
          h.at < b \/ (h.at = b /\ h.kind \in {"TEXT", "START_TAG"})
    BY <1>1, <2>1, EventOrder
  <2>5. QED BY <1>1, <2>1, <2>3, <2>4
<1>3. ASSUME NEW t \in 1 .. b
      PROVE  /\ doc[t].k \in {"start", "empty"} => EventAt("START_TAG", t) \in Stream!Stream
             /\ doc[t].k \in {"end", "empty"} => EventAt("END_TAG", t) \in Stream!Stream
  <2>1. t \in 1 .. Len(doc) /\ \A j \in 1 .. t : doc[j].k # "bad" BY <1>1
  <2>2. QED BY <1>0, <2>1, EventFacts DEF IsTag
<1>4. Between("START_TAG") = {EventAt("START_TAG", i) : i \in S}
  <2>1. ASSUME NEW h \in Between("START_TAG") PROVE h.at \in S /\ h = EventAt("START_TAG", h.at)
    BY <1>1, <1>2 DEF Tokens, IsTag
  <2>2. ASSUME NEW i \in S PROVE EventAt("START_TAG", i) \in Between("START_TAG")
    <3>1. i \in 1 .. b /\ i > a /\ i <= b /\ doc[i].k \in {"start", "empty"} BY <1>1 DEF Tokens
    <3>2. EventAt("START_TAG", i) \in Stream!Stream BY <1>3, <3>1
    <3>3. QED BY <1>2, <3>1, <3>2 DEF EventAt
  <2> HIDE DEF Between, To, S
  <2>3. QED BY <2>1, <2>2
<1>5. Between("END_TAG") = {EventAt("END_TAG", i) : i \in E \ {b}}
  <2>1. ASSUME NEW h \in Between("END_TAG") PROVE h.at \in E \ {b} /\ h = EventAt("END_TAG", h.at)
    BY <1>1, <1>2 DEF Tokens, IsTag
  <2>2. ASSUME NEW i \in E \ {b} PROVE EventAt("END_TAG", i) \in Between("END_TAG")
    <3>1. i \in 1 .. b /\ i > a /\ i < b /\ doc[i].k \in {"end", "empty"} BY <1>1 DEF Tokens
    <3>2. EventAt("END_TAG", i) \in Stream!Stream BY <1>3, <3>1
    <3>3. QED BY <1>2, <3>1, <3>2 DEF EventAt
  <2> HIDE DEF Between, To, E
  <2>3. QED BY <2>1, <2>2
<1>6. f \in Stream!ClosersOf(e) <=>
        Cardinality(Between("START_TAG")) = Cardinality(Between("END_TAG"))
  <2>1. Stream!ClosersOf(e) =
          {h \in Stream!Stream : /\ h.kind = "END_TAG"
                                /\ Cardinality(To(h, "START_TAG")) = Cardinality(To(h, "END_TAG"))}
    BY SameCardinality DEF Stream!ClosersOf
  <2> HIDE DEF To
  <2>2. QED BY <2>1
<1>7. IsFiniteSet(S) /\ IsFiniteSet(E) /\ b \in E
  <2>1. b \in E BY <1>1 DEF Tokens, IsTag
  <2>2. QED BY <1>1, <2>1, CountIsANumber
<1>8. /\ Cardinality(S) = Count(doc, {"start"}, a, b) + Count(doc, {"empty"}, a, b)
      /\ Cardinality(E) = Count(doc, {"end"}, a, b) + Count(doc, {"empty"}, a, b)
  <2>1. {"start"} \cap {"empty"} = {} /\ {"end"} \cap {"empty"} = {} OBVIOUS
  <2>2. /\ Count(doc, {"start"} \union {"empty"}, a, b)
             = Count(doc, {"start"}, a, b) + Count(doc, {"empty"}, a, b)
        /\ Count(doc, {"end"} \union {"empty"}, a, b)
             = Count(doc, {"end"}, a, b) + Count(doc, {"empty"}, a, b)
    BY <1>1, <2>1, CountByKind
  <2>3. QED BY <2>2 DEF Count
<1>9. OpenAt(doc, b) = OpenAt(doc, a) + Count(doc, {"start"}, a, b) - Count(doc, {"end"}, a, b)
      /\ OpenAt(doc, a) \in Int
  BY <1>1, OpenByCount
<1>10. Count(doc, {"start"}, a, b) \in Nat /\ Count(doc, {"end"}, a, b) \in Nat
       /\ Count(doc, {"empty"}, a, b) \in Nat
  BY <1>1, CountIsANumber
<1> HIDE DEF S, E, Between, To
<1>11. Cardinality(Between("START_TAG")) = Cardinality(S) BY <1>4, <1>7, EventsAsTokens
<1>12. Cardinality(Between("END_TAG")) = Cardinality(E) - 1
  <2>1. IsFiniteSet(E \ {b}) /\ Cardinality(E \ {b}) = Cardinality(E) - 1 BY <1>7, FS_RemoveElement
  <2>2. QED BY <1>5, <2>1, EventsAsTokens
<1>13. QED BY <1>6, <1>8, <1>9, <1>10, <1>11, <1>12

(* --------------------- every call is one abstract step ------------------- *)
Mapped == [Stream!Next]_(Stream!vars)
StreamOK == TagIsPending /\ StateIsSeen /\ CallPasses

\* A new parser is at the start of the abstract stream.
LEMMA InitStream == Init => StreamOK /\ Stream!Init
<1> SUFFICES ASSUME Init PROVE StreamOK /\ Stream!Init OBVIOUS
<1>1. StreamOK BY DEF Init, StreamOK, TagIsPending, StateIsSeen, CallPasses, Idle
<1>2. Stream!Init BY PullParserAssumption DEF Init, Stream!Init, Stream!Status
<1>3. QED BY <1>1, <1>2

\* The events of the tag that was read last.
LEMMA EventsHere ==
    ASSUME Place, pos \in 1 .. Len(doc), IsTag(doc, pos)
    PROVE  /\ doc[pos].k # "end" => EventAt("START_TAG", pos) \in Stream!Stream
           /\ doc[pos].k # "start" => EventAt("END_TAG", pos) \in Stream!Stream
           /\ Stream!Reportable(doc, ignoreWhiteSpaces, Run(doc, pos - 1))
                => EventAt("TEXT", pos) \in Stream!Stream
           /\ \A f \in Stream!Stream :
                /\ f.kind \in Kinds /\ f.at \in 1 .. Len(doc) /\ f = EventAt(f.kind, f.at)
                /\ IsTag(doc, f.at) /\ f.at \in Int
                /\ f.kind = "START_TAG" => doc[f.at].k # "end"
                /\ f.kind = "END_TAG" => doc[f.at].k # "start"
                /\ f.kind = "TEXT" => Stream!Reportable(doc, ignoreWhiteSpaces, Run(doc, f.at - 1))
<1>1. doc \in Seq(Token0) /\ Len(doc) \in Nat BY DocumentFacts
<1>2. \A j \in 1 .. pos : doc[j].k # "bad" BY DEF Place
<1>3. \A f \in Stream!Events(doc, ignoreWhiteSpaces) : f.at \in Int BY <1>1, EventFacts
<1>4. QED BY <1>1, <1>2, <1>3, EventFacts DEF Stream!Stream

\* next with an event pending: the next event of the same tag.
LEMMA NextPendingMaps ==
    ASSUME Disciplined, InvOfReports, InvOfReports', StreamOK, NextPending
    PROVE  StreamOK' /\ Mapped
<1>0. /\ Inv /\ Place /\ Flags /\ InStep /\ AtTheTag /\ TagIsPending /\ StateIsSeen
  BY DEF InvOfReports, StreamOK
<1>1. /\ Idle /\ Idle' /\ half = FALSE /\ Pending /\ expat = "SUSPENDED" /\ state \in {"TEXT", "START_TAG"}
      /\ state' = nextState /\ nextState' = next2State /\ next2State' = None
      /\ seen' = Reported("next", state')
      /\ UNCHANGED <<doc, pos, half, expat, ignoreWhiteSpaces>>
  BY <1>0 DEF NextPending, Shift, Idle, expatVars, InStep, Inv, PendingOK, ModeOK, Pending, Flags
<1>2. /\ pos \in 1 .. Len(doc) /\ IsTag(doc, pos) /\ pos \in Int
  BY <1>0, <1>1, DocumentFacts DEF AtTheTag
<1>3. /\ state = "TEXT" => state' = IF doc[pos].k = "end" THEN "END_TAG" ELSE "START_TAG"
      /\ state = "START_TAG" => state' = "END_TAG" /\ doc[pos].k = "empty"
      /\ state' = "START_TAG" => (nextState' = "END_TAG" <=> doc[pos].k = "empty")
      /\ seen' = EventAt(state', pos)
  <2>1. CASE state = "TEXT"
    <3>1. /\ nextState = "START_TAG" <=> doc[pos].k # "end"
          /\ next2State = "END_TAG" <=> doc[pos].k = "empty"
      BY <1>0, <1>1, <2>1 DEF TagIsPending
    <3>2. nextState \in {"START_TAG", "END_TAG"} BY <1>0, <2>1 DEF Inv, PendingOK, None
    <3>3. QED BY <1>1, <2>1, <3>1, <3>2 DEF Reported, EventAt
  <2>2. CASE state = "START_TAG"
    <3>1. nextState = "END_TAG" <=> doc[pos].k = "empty" BY <1>0, <1>1, <2>2 DEF TagIsPending
    <3>2. nextState = "END_TAG" BY <1>0, <1>1, <2>2 DEF Inv, PendingOK, Pending, None, InStep
    <3>3. QED BY <1>1, <2>2, <3>1, <3>2 DEF Reported, EventAt
  <2>3. QED BY <1>1, <2>1, <2>2
<1>4. seen = EventAt(state, pos) BY <1>0, <1>1 DEF StateIsSeen, EventAt
<1>5. StreamOK'
  BY <1>1, <1>2, <1>3 DEF StreamOK, TagIsPending, StateIsSeen, CallPasses, EventAt, IsTag
<1>6. Stream!FirstAfter(seen, Stream!Stream) = EventAt(state', pos)
  <2>1. EventAt(state', pos) \in Stream!Stream BY <1>0, <1>1, <1>2, <1>3, EventsHere DEF IsTag
  <2>2. Stream!Before(seen, EventAt(state', pos)) BY <1>1, <1>2, <1>3, <1>4, EventOrder
  <2>3. ASSUME NEW h \in Stream!Stream, Stream!Before(seen, h)
        PROVE  h = EventAt(state', pos) \/ Stream!Before(EventAt(state', pos), h)
    <3>1. /\ h.kind \in Kinds /\ h.at \in Int /\ h = EventAt(h.kind, h.at)
          /\ h.kind = "START_TAG" => doc[h.at].k # "end"
      BY <1>0, <1>2, EventsHere
    <3>2. Stream!Before(EventAt(state, pos), EventAt(h.kind, h.at)) BY <1>4, <2>3, <3>1
    <3>3. pos < h.at \/ (pos = h.at /\ ((state = "TEXT" /\ h.kind # "TEXT")
                              \/ (state = "START_TAG" /\ h.kind \notin {"TEXT", "START_TAG"})))
      BY <1>2, <3>1, <3>2, EventOrder
    <3>4. Stream!Before(EventAt(state', pos), EventAt(h.kind, h.at)) <=>
            pos < h.at \/ (pos = h.at /\ ((state' = "TEXT" /\ h.kind # "TEXT")
                              \/ (state' = "START_TAG" /\ h.kind \notin {"TEXT", "START_TAG"})))
      BY <1>2, <3>1, EventOrder
    <3>5. QED BY <1>1, <1>3, <3>1, <3>3, <3>4 DEF Kinds
  <2>4. \A h \in Stream!Stream : h.at \in Int BY <1>0, <1>2, EventsHere
  <2>5. QED BY <2>1, <2>2, <2>3, <2>4, FirstIsFound
<1>7. Stream!NextEvent BY <1>1, <1>3, <1>4, <1>6 DEF Stream!NextEvent, EventAt
<1>8. QED BY <1>5, <1>7 DEF Mapped, Stream!Next

\* skip with the end tag pending: the end of an empty element.
LEMMA SkipPendingMaps ==
    ASSUME Disciplined, InvOfReports, InvOfReports', StreamOK, SkipPending
    PROVE  StreamOK' /\ Mapped
<1>0. /\ Inv /\ Place /\ Flags /\ InStep /\ AtTheTag /\ TagIsPending /\ StateIsSeen
  BY DEF InvOfReports, StreamOK
<1>1. /\ Idle /\ Idle' /\ half = FALSE /\ state = "START_TAG" /\ expat = "SUSPENDED"
      /\ nextState = "END_TAG" /\ state' = "END_TAG" /\ nextState' = None /\ next2State' = None
      /\ seen' = EventAt("END_TAG", pos) /\ seen = EventAt("START_TAG", pos)
      /\ UNCHANGED <<doc, pos, half, expat, ignoreWhiteSpaces>>
  BY <1>0 DEF SkipPending, Idle, expatVars, InStep, Inv, PendingOK, ModeOK, Flags, None, Reported,
              EventAt, StateIsSeen
<1>2. pos \in 1 .. Len(doc) /\ IsTag(doc, pos) /\ pos \in Int /\ doc[pos].k = "empty"
  BY <1>0, <1>1, DocumentFacts DEF AtTheTag, TagIsPending
<1>3. StreamOK' BY <1>1, <1>2 DEF StreamOK, TagIsPending, StateIsSeen, CallPasses, EventAt
<1>4. Stream!FirstAfter(seen, Stream!ClosersOf(seen)) = EventAt("END_TAG", pos)
  <2> DEFINE e == EventAt("START_TAG", pos)
             f == EventAt("END_TAG", pos)
             To(h2, k) == {h \in Stream!Stream : h.kind = k /\ Stream!Before(e, h) /\ Stream!Before(h, h2)}
  <2>1. f \in Stream!Stream BY <1>0, <1>2, EventsHere
  <2>2. Stream!ClosersOf(e) =
          {h \in Stream!Stream : /\ h.kind = "END_TAG"
                                 /\ Cardinality(To(h, "START_TAG")) = Cardinality(To(h, "END_TAG"))}
    BY SameCardinality DEF Stream!ClosersOf
  <2>3. \A h \in Stream!Stream : /\ h.at \in Int /\ h.kind \in Kinds /\ h = EventAt(h.kind, h.at)
    BY <1>0, <1>2, EventsHere
  <2>4. ASSUME NEW k \in {"START_TAG", "END_TAG"} PROVE To(f, k) = {}
    <3>1. ASSUME NEW h \in Stream!Stream, h.kind = k PROVE ~(Stream!Before(e, h) /\ Stream!Before(h, f))
      <4>1. h = EventAt(k, h.at) /\ h.at \in Int BY <2>3, <3>1
      <4>2. /\ Stream!Before(e, EventAt(k, h.at)) <=>
                 pos < h.at \/ (pos = h.at /\ k \notin {"TEXT", "START_TAG"})
            /\ Stream!Before(EventAt(k, h.at), f) <=>
                 h.at < pos \/ (h.at = pos /\ k = "START_TAG")
        BY <1>2, <4>1, EventOrder
      <4>3. QED BY <1>2, <4>1, <4>2
    <3>2. QED BY <3>1
  <2>5. f.kind = "END_TAG" BY DEF EventAt
  <2>6. f \in Stream!ClosersOf(e)
    <3> HIDE DEF To, e, f
    <3>1. QED BY <2>1, <2>2, <2>4, <2>5
  <2>7. Stream!Before(e, f) BY <1>2, EventOrder
  <2>8. \A h \in Stream!ClosersOf(e) : h \in Stream!Stream /\ h.kind = "END_TAG"
    <3> HIDE DEF To, e
    <3>1. QED BY <2>2
  <2>9. ASSUME NEW h \in Stream!ClosersOf(e), Stream!Before(e, h) PROVE h = f \/ Stream!Before(f, h)
    <3>1. h = EventAt("END_TAG", h.at) /\ h.at \in Int BY <2>3, <2>8
    <3>2. pos <= h.at
      <4>1. Stream!Before(e, EventAt("END_TAG", h.at)) BY <2>9, <3>1
      <4>2. QED BY <1>2, <3>1, <4>1, EventOrder
    <3>3. pos < h.at => Stream!Before(f, EventAt("END_TAG", h.at)) BY <1>2, <3>1, EventOrder
    <3>4. QED BY <1>2, <3>1, <3>2, <3>3
  <2>10. \A h \in Stream!ClosersOf(e) : h.at \in Int BY <2>3, <2>8
  <2> HIDE DEF e, f, To
  <2>11. Stream!FirstAfter(e, Stream!ClosersOf(e)) = f BY <2>6, <2>7, <2>9, <2>10, FirstIsFound
  <2>12. QED BY <1>1, <2>11 DEF e, f
<1>5. Stream!Skip BY <1>1, <1>4 DEF Stream!Skip, EventAt
<1>6. QED BY <1>3, <1>5 DEF Mapped, Stream!Next

\* A method that enters expat has passed nothing yet.
LEMMA EnterMaps ==
    ASSUME Disciplined, InvOfReports, InvOfReports', StreamOK,
           NextParse \/ SkipParse \/ \E n \in Names : FindElement(n)
    PROVE  StreamOK' /\ Mapped
<1>0. /\ Inv /\ Place /\ Flags /\ InStep /\ AtTheTag /\ TagIsPending /\ StateIsSeen /\ ~AnyUse
  BY DEF InvOfReports, StreamOK, Disciplined
<1>1. PICK m \in {"next", "skip", "find"} :
        /\ EnterExpat(m) /\ Idle
        /\ state \in {"START_DOCUMENT", "START_TAG", "END_TAG"}
        /\ m = "skip" => state = "START_TAG" /\ skipDepth' = 0
        /\ m = "find" => sought' \in Names
  BY <1>0 DEF NextParse, SkipParse, FindElement, NextStates
<1>2. ~Pending /\ half = FALSE
  BY <1>0, <1>1 DEF NextParse, SkipParse, FindElement, Inv, PendingOK, ModeOK, Flags, Pending, None
<1>3. state # "START_DOCUMENT" => expat = "SUSPENDED" BY <1>0, <1>1 DEF InStep
<1>4. /\ expat' = "PARSING" /\ call' = m /\ ~Idle'
      /\ UNCHANGED <<doc, pos, half, seen, ignoreWhiteSpaces>>
  BY <1>1, <1>3 DEF EnterExpat, Idle
<1>5. pos \in Nat /\ seen = [kind |-> state, at |-> pos]
  BY <1>0, <1>1, DocumentFacts DEF StateIsSeen, Place
<1>6. state = "START_TAG" => pos > 0 /\ doc[pos].k = "start"
  <2> SUFFICES ASSUME state = "START_TAG" PROVE pos > 0 /\ doc[pos].k = "start" OBVIOUS
  <2>1. pos \in 1 .. Len(doc) /\ IsTag(doc, pos) BY <1>0, <1>3 DEF AtTheTag
  <2>2. doc[pos].k \notin {"end", "empty"} BY <1>0, <1>2, <1>3 DEF TagIsPending, Pending, None
  <2>3. QED BY <2>1, <2>2 DEF IsTag
<1>7. state = "START_DOCUMENT" => pos = 0 BY <1>0, <1>1 DEF Place
<1>8. OpenAt(doc, pos) \in Int BY <1>5, OpenAtIsAnInteger
<1>9. \A t \in pos + 1 .. pos : FALSE BY <1>5
<1>10. NoTag(doc, pos + 1, pos) BY <1>9 DEF NoTag
<1>11. CallPasses'
  <2>1. /\ seen'.at = pos /\ seen'.kind = state /\ Passed' = pos /\ seen' = [kind |-> seen'.kind, at |-> seen'.at]
    BY <1>4, <1>5 DEF Passed
  <2>2. m = "skip" => OpenAt(doc, pos) + (IF half' THEN 1 ELSE 0) = OpenAt(doc, pos) + skipDepth'
    BY <1>1, <1>2, <1>4, <1>8
  <2>3. QED BY <1>1, <1>4, <1>5, <1>6, <1>7, <1>9, <1>10, <2>1, <2>2 DEF CallPasses
<1>12. TagIsPending' /\ StateIsSeen' BY <1>2, <1>4 DEF TagIsPending, StateIsSeen
<1>13. QED BY <1>4, <1>11, <1>12 DEF StreamOK, Mapped, Stream!vars

\* The steps of expat that do not stop it.
LEMMA PassingMaps ==
    ASSUME Disciplined, InvOfReports, InvOfReports', StreamOK,
           CharacterData \/ NoHandler \/ PassStartTag
    PROVE  StreamOK' /\ Mapped
<1>0. /\ Inv /\ Place /\ Typed /\ Flags /\ InStep /\ CallPasses
  BY DEF InvOfReports, StreamOK
<1>1. /\ ~Idle /\ expat = "PARSING" /\ half = FALSE /\ pos < Len(doc) /\ pos' = pos + 1
      /\ UNCHANGED <<doc, expat, state, nextState, next2State, mode,
                     ignoreWhiteSpaces, call, seen, sought>>
  BY <1>0 DEF CharacterData, NoHandler, PassStartTag, AtToken, pending, Flags
<1>2. /\ doc \in Seq(Token0) /\ pos \in 0 .. Len(doc) - 1 /\ pos \in Nat /\ Len(doc) \in Nat
  BY <1>0, <1>1, DocumentFacts DEF Place
<1>3. /\ mode = "NORMAL" => ~IsTag(doc, pos + 1)
      /\ mode = "FIND" => (doc[pos + 1].k \in {"start", "empty"} => doc[pos + 1].n # sought)
      /\ mode = "SKIP" => /\ doc[pos + 1].k # "end"
                          /\ (half' <=> doc[pos + 1].k = "empty")
                          /\ skipDepth' = IF doc[pos + 1].k \in {"start", "empty"} THEN skipDepth + 1
                                          ELSE skipDepth
  <2>1. CASE CharacterData \/ NoHandler
    BY <1>0, <1>1, <2>1 DEF CharacterData, NoHandler, AtToken, Inv, HandlersMatchMode, ModeOK, IsTag
  <2>2. CASE PassStartTag
    BY <1>0, <1>1, <2>2 DEF PassStartTag, AtToken, Inv, HandlersMatchMode, ModeOK, Token
  <2>3. QED BY <2>1, <2>2
<1>4. half' => doc[pos + 1].k = "empty"
  BY <1>0, <1>1 DEF CharacterData, NoHandler, PassStartTag, AtToken, Token, expatVars
<1>5. TagIsPending' /\ StateIsSeen' BY <1>1, <1>2, <1>4 DEF TagIsPending, StateIsSeen, Idle
<1>6. CallPasses'
  <2>1. /\ Passed = pos /\ Passed' = pos + 1 /\ seen.at \in 0 .. pos /\ seen.at \in Nat BY <1>0, <1>1 DEF Passed, CallPasses
  <2>2. \A t \in seen.at + 1 .. pos + 1 : t = pos + 1 \/ t \in seen.at + 1 .. pos BY <1>2, <2>1
  <2>3. /\ call = "next" => mode = "NORMAL"
        /\ call = "skip" => mode = "SKIP"
        /\ call = "find" => mode = "FIND"
    BY <1>0, <1>1 DEF InStep
  <2>4. call = "next" => NoTag(doc, seen.at + 1, pos + 1)
    BY <1>0, <1>1, <1>3, <2>1, <2>2, <2>3 DEF CallPasses, NoTag
  <2>5. call = "find" =>
          \A t \in seen.at + 1 .. pos + 1 : doc[t].k \in {"start", "empty"} => doc[t].n # sought
    BY <1>0, <1>1, <1>3, <2>1, <2>2, <2>3 DEF CallPasses
  <2>6. call = "skip" =>
          /\ \A t \in seen.at + 1 .. pos + 1 : OpenAt(doc, t) >= OpenAt(doc, seen.at)
          /\ OpenAt(doc, pos + 1) + (IF half' THEN 1 ELSE 0) = OpenAt(doc, seen.at) + skipDepth'
    <3> SUFFICES ASSUME call = "skip"
                 PROVE  /\ \A t \in seen.at + 1 .. pos + 1 : OpenAt(doc, t) >= OpenAt(doc, seen.at)
                        /\ OpenAt(doc, pos + 1) + (IF half' THEN 1 ELSE 0) = OpenAt(doc, seen.at) + skipDepth'
      OBVIOUS
    <3>1. /\ OpenAt(doc, pos) = OpenAt(doc, seen.at) + skipDepth /\ skipDepth \in Nat
          /\ \A t \in seen.at + 1 .. pos : OpenAt(doc, t) >= OpenAt(doc, seen.at)
          /\ OpenAt(doc, seen.at) \in Int /\ OpenAt(doc, pos) \in Int
      BY <1>0, <1>1, <1>2, <2>1, OpenAtIsAnInteger DEF CallPasses, Typed
    <3>2. OpenAt(doc, pos + 1) = IF doc[pos + 1].k = "start" THEN OpenAt(doc, pos) + 1 ELSE OpenAt(doc, pos)
      BY <1>2, <1>3, <2>3, OneMoreToken
    <3>3. OpenAt(doc, pos + 1) + (IF half' THEN 1 ELSE 0) = OpenAt(doc, seen.at) + skipDepth'
      BY <1>3, <2>3, <3>1, <3>2
    <3>4. OpenAt(doc, pos + 1) >= OpenAt(doc, seen.at) BY <3>1, <3>2
    <3>5. QED BY <2>2, <3>1, <3>3, <3>4
  <2>7. CallPasses BY <1>0
  <2>8. pos \in Nat /\ seen.at \in 0 .. pos + 1 BY <1>2, <2>1
  <2>9. QED BY <1>1, <2>1, <2>4, <2>5, <2>6, <2>7, <2>8 DEF CallPasses, Idle
<1>7. QED BY <1>1, <1>5, <1>6 DEF StreamOK, Mapped, Stream!vars

\* In the normal mode a tag has text to report exactly if PullStream has.
LEMMA CollectedIsReportable ==
    ASSUME Disciplined, InvOfReports, ~Idle, expat = "PARSING", half = FALSE, pos < Len(doc),
           mode = "NORMAL"
    PROVE  TextCollected <=> Stream!Reportable(doc, ignoreWhiteSpaces, Run(doc, pos))
<1>1. Run(doc, pos) \subseteq cdata
      /\ \A i \in cdata \ Run(doc, pos) : ignoreWhiteSpaces /\ doc[i].k = "white"
  BY DEF InvOfReports, Collected, Left
<1>2. TextCollected => cdata = Run(doc, pos) BY TextAtTag
<1>3. CASE TextCollected BY <1>2, <1>3 DEF TextCollected, Stream!Reportable
<1>4. CASE ~TextCollected BY <1>1, <1>4 DEF TextCollected, Stream!Reportable
<1>5. QED BY <1>3, <1>4

\* A start tag that is reported stops expat right behind what was passed.
LEMMA StartElementMaps ==
    ASSUME Disciplined, InvOfReports, InvOfReports', StreamOK, StartElement
    PROVE  StreamOK' /\ Mapped
<1>0. /\ Inv /\ Place /\ Typed /\ Flags /\ InStep /\ Collected /\ CallPasses
  BY DEF InvOfReports, StreamOK
<1>1. /\ ~Idle /\ ~Idle' /\ expat = "PARSING" /\ half = FALSE /\ pos < Len(doc) /\ pos' = pos + 1
      /\ doc[pos + 1].k \in {"start", "empty"}
      /\ UNCHANGED <<doc, next2State, ignoreWhiteSpaces, call, seen, sought>>
      /\ expat' = "SUSPENDED" /\ half' = (doc[pos + 1].k = "empty")
      /\ state' = IF TextCollected THEN "TEXT" ELSE "START_TAG"
      /\ nextState' = IF TextCollected THEN "START_TAG" ELSE nextState
      /\ mode = "NORMAL" \/ (mode = "FIND" /\ doc[pos + 1].n = sought)
  BY <1>0 DEF StartElement, AtToken, Flags, Token, Idle
<1>2. /\ doc \in Seq(Token0) /\ pos \in Nat /\ Len(doc) \in Nat /\ (pos + 1) - 1 = pos
  BY <1>0, <1>1, DocumentFacts DEF Place
<1>3. nextState = None /\ next2State = None /\ call \in {"next", "find"}
      /\ (call = "next" <=> mode = "NORMAL")
  BY <1>0, <1>1 DEF InStep, Pending, Typed, Idle
<1>4. TagIsPending'
  <2>1. doc' = doc /\ pos' = pos + 1 /\ pos + 1 > 0 BY <1>1, <1>2
  <2>2. half' <=> doc[pos + 1].k = "empty" BY <1>1
  <2>3. ~half' => doc[pos + 1].k = "start" BY <1>1, <2>2
  <2>4. state' \in {"TEXT", "START_TAG"} /\ (state' = "TEXT" => nextState' = "START_TAG")
        /\ next2State' = None /\ (state' = "START_TAG" => nextState' = None)
    BY <1>1, <1>3
  <2>5. QED BY <1>1, <2>1, <2>2, <2>3, <2>4 DEF TagIsPending, None
<1>5. StateIsSeen' BY <1>1 DEF StateIsSeen
<1>6. CallPasses'
  <2>1. Passed = pos /\ Passed' = pos BY <1>1, <1>2 DEF Passed
  <2>2. call = "next" =>
          (state' = "TEXT" <=> Stream!Reportable(doc, ignoreWhiteSpaces, Run(doc, pos)))
    BY <1>0, <1>1, <1>3, CollectedIsReportable
  <2>3. state' # "END_TAG" BY <1>1
  <2>4. CallPasses BY <1>0
  <2>5. QED BY <1>1, <1>2, <1>3, <2>1, <2>2, <2>3, <2>4 DEF CallPasses
<1>7. QED BY <1>1, <1>4, <1>5, <1>6 DEF StreamOK, Mapped, Stream!vars

\* The end of an element ends a skip if it is the one that was to be skipped.
LEMMA EndElementMaps ==
    ASSUME Disciplined, InvOfReports, InvOfReports', StreamOK, EndElement
    PROVE  StreamOK' /\ Mapped
<1>0. /\ Inv /\ Place /\ Typed /\ Flags /\ InStep /\ SkipsInside /\ Collected /\ CallPasses
      /\ TagIsPending /\ AtTheTag
  BY DEF InvOfReports, StreamOK
<1>1. /\ ~Idle /\ ~Idle' /\ mode \in {"NORMAL", "SKIP"} /\ half' = FALSE /\ half \in BOOLEAN
      /\ half = TRUE => pos' = pos /\ expat \in {"PARSING", "SUSPENDED"}
      /\ half = FALSE => /\ expat = "PARSING" /\ pos < Len(doc) /\ pos' = pos + 1
                         /\ doc[pos + 1].k = "end"
      /\ UNCHANGED <<doc, cdata, ignoreWhiteSpaces, call, seen, sought>>
  BY <1>0 DEF EndElement, AtToken, Flags, Inv, ModeOK, HandlersMatchMode, Idle
<1>2. /\ doc \in Seq(Token0) /\ pos \in Nat /\ Len(doc) \in Nat /\ (pos + 1) - 1 = pos
      /\ half = FALSE => pos \in 0 .. Len(doc) - 1
  BY <1>0, <1>1, DocumentFacts DEF Place
<1>3. StateIsSeen' BY <1>1 DEF StateIsSeen
<1>4. CallPasses /\ seen.at \in Nat BY <1>0, <1>1, <1>2 DEF CallPasses, Passed
<1>5. CASE PassEndTag
  <2>1. /\ mode = "SKIP" /\ skipDepth > 0 /\ skipDepth' = skipDepth - 1
        /\ UNCHANGED <<mode, expat, state, nextState, next2State>>
    BY <1>5 DEF PassEndTag, pending
  <2>2. expat = "PARSING" /\ call = "skip" BY <1>0, <1>1, <2>1 DEF InStep, Typed, Idle
  <2>3. TagIsPending' BY <1>1, <2>1, <2>2 DEF TagIsPending
  <2>4. /\ OpenAt(doc, pos) + (IF half THEN 1 ELSE 0) = OpenAt(doc, seen.at) + skipDepth
        /\ \A t \in seen.at + 1 .. pos : OpenAt(doc, t) >= OpenAt(doc, seen.at)
        /\ seen.kind = "START_TAG" /\ seen.at \in 0 .. pos
        /\ skipDepth \in Nat /\ OpenAt(doc, seen.at) \in Int /\ OpenAt(doc, pos) \in Int
    BY <1>0, <1>1, <1>2, <1>4, <2>2, OpenAtIsAnInteger DEF CallPasses, Passed, Typed
  <2>5. OpenAt(doc, pos') = OpenAt(doc, seen.at) + (skipDepth - 1)
    <3>1. CASE half = TRUE BY <1>1, <2>4, <3>1
    <3>2. CASE half = FALSE
      <4>1. OpenAt(doc, pos + 1) = OpenAt(doc, pos) - 1 BY <1>1, <1>2, <3>2, OneMoreToken
      <4>2. QED BY <1>1, <2>4, <3>2, <4>1
    <3>3. QED BY <1>1, <3>1, <3>2
  <2>6. \A t \in seen.at + 1 .. pos' : OpenAt(doc, t) >= OpenAt(doc, seen.at)
    <3>1. pos' = pos \/ pos' = pos + 1 BY <1>1
    <3>2. OpenAt(doc, pos') >= OpenAt(doc, seen.at) BY <2>1, <2>4, <2>5
    <3>3. \A t \in seen.at + 1 .. pos' : t = pos' \/ t \in seen.at + 1 .. pos BY <1>2, <2>4, <3>1
    <3>4. QED BY <2>4, <3>2, <3>3
  <2>7. Passed' = pos' /\ seen.at \in 0 .. pos' BY <1>1, <1>2, <2>1, <2>2, <2>4 DEF Passed
  <2>8. CallPasses' BY <1>1, <1>4, <2>1, <2>2, <2>4, <2>5, <2>6, <2>7 DEF CallPasses
  <2>9. QED BY <1>1, <1>3, <2>3, <2>8 DEF StreamOK, Mapped, Stream!vars
<1>6. CASE ReportEndTag(Token.n)
  <2>1. /\ ~(mode = "SKIP" /\ skipDepth > 0) /\ expat' = "SUSPENDED"
        /\ Schedule(expat = "SUSPENDED", TextCollected)
    BY <1>1, <1>6 DEF ReportEndTag
  <2>3. CASE half = TRUE
    <3>1. mode # "SKIP" BY <1>0, <1>1, <2>1, <2>3 DEF SkipsInside, Typed
    <3>2. expat = "SUSPENDED" /\ mode = "NORMAL" BY <1>0, <1>1, <2>3, <3>1 DEF InStep
    <3>3. /\ state \in {"TEXT", "START_TAG"} /\ call \in {"next", "find"} /\ next2State = None
      <4>1. state \in {"TEXT", "START_TAG", "END_TAG"} /\ (call = "skip" => state = "END_TAG")
            /\ state # "END_TAG" /\ next2State = None
        BY <1>0, <1>1, <2>3, <3>2 DEF InStep
      <4>2. QED BY <1>0, <1>1, <4>1 DEF Typed, Idle
    <3>4. state = "TEXT" <=> TextCollected
      BY <1>0, <3>2, <3>3 DEF Collected, TextCollected
    <3>5. /\ state' = state
          /\ state = "TEXT" => nextState' = "START_TAG" /\ next2State' = "END_TAG"
          /\ state = "START_TAG" => nextState' = "END_TAG" /\ next2State' = None
      BY <2>1, <3>2, <3>3, <3>4 DEF Schedule
    <3>6. doc[pos].k = "empty" BY <1>0, <2>3 DEF TagIsPending
    <3>7. TagIsPending' BY <1>1, <2>3, <3>3, <3>5, <3>6 DEF TagIsPending
    <3>8. Passed' = Passed BY <1>1, <2>1, <2>3, <3>2 DEF Passed
    <3>9. CallPasses' BY <1>1, <1>4, <2>1, <2>3, <3>2, <3>3, <3>5, <3>8 DEF CallPasses
    <3>10. QED BY <1>1, <1>3, <3>7, <3>9 DEF StreamOK, Mapped, Stream!vars
  <2>4. CASE half = FALSE
    <3>1. expat = "PARSING" /\ pos' = pos + 1 /\ doc[pos + 1].k = "end" /\ pos < Len(doc)
      BY <1>1, <2>4
    <3>2. ~Pending /\ call \in {"next", "skip"} /\ (mode = "SKIP" <=> call = "skip")
          /\ (mode = "NORMAL" <=> call = "next")
      BY <1>0, <1>1, <3>1 DEF InStep, Typed, Idle
    <3>3. /\ state' = IF TextCollected THEN "TEXT" ELSE "END_TAG"
          /\ nextState' = IF TextCollected THEN "END_TAG" ELSE None
          /\ next2State' = None
      BY <2>1, <3>1, <3>2 DEF Schedule, Pending
    <3>4. TagIsPending' BY <1>1, <3>1, <3>3 DEF TagIsPending, None
    <3>5. Passed = pos /\ Passed' = pos BY <1>2, <2>1, <3>1 DEF Passed
    <3>6. call = "next" =>
            (state' = "TEXT" <=> Stream!Reportable(doc, ignoreWhiteSpaces, Run(doc, pos)))
      BY <1>1, <2>4, <3>1, <3>2, <3>3, CollectedIsReportable
    <3>7. call = "skip" => OpenAt(doc, pos + 1) = OpenAt(doc, seen.at) - 1
      <4> SUFFICES ASSUME call = "skip" PROVE OpenAt(doc, pos + 1) = OpenAt(doc, seen.at) - 1
        OBVIOUS
      <4>1. /\ OpenAt(doc, pos) = OpenAt(doc, seen.at) + skipDepth /\ skipDepth = 0
            /\ OpenAt(doc, seen.at) \in Int /\ OpenAt(doc, pos) \in Int
        BY <1>0, <1>1, <1>2, <1>4, <2>1, <2>4, <3>1, <3>2, OpenAtIsAnInteger DEF CallPasses, Typed
      <4>2. OpenAt(doc, pos + 1) = OpenAt(doc, pos) - 1 BY <1>2, <2>4, <3>1, OneMoreToken
      <4>3. QED BY <4>1, <4>2
    <3>8. CallPasses'
      <4>1. call' = call /\ doc' = doc /\ seen' = seen /\ sought' = sought
            /\ expat' = "SUSPENDED" /\ pos' = pos + 1 /\ ignoreWhiteSpaces' = ignoreWhiteSpaces
        BY <1>1, <2>1, <3>1
      <4>2. QED BY <1>1, <1>2, <1>4, <3>1, <3>2, <3>5, <3>6, <3>7, <4>1 DEF CallPasses
    <3>9. QED BY <1>1, <1>3, <3>4, <3>8 DEF StreamOK, Mapped, Stream!vars
  <2>5. QED BY <1>1, <2>3, <2>4
<1>7. QED BY <1>5, <1>6 DEF EndElement

\* What a call has passed is not an event that it was to report.
LEMMA NothingWasPassed ==
    ASSUME InvOfReports, CallPasses, ~Idle, NEW f \in Stream!Stream
    PROVE  /\ Stream!Before(seen, f) <=> f.at > seen.at
           /\ call = "next" /\ f.at > seen.at => f.at > Passed
           /\ call = "find" /\ f.at > seen.at /\ f.kind = "START_TAG" /\ doc[f.at].n = sought
                => f.at > Passed
           /\ call = "skip" /\ f.at > seen.at /\ f \in Stream!ClosersOf(seen) => f.at > Passed
           /\ f.at \in 1 .. Len(doc) /\ f.kind \in Kinds /\ f = EventAt(f.kind, f.at)
           /\ f.kind = "START_TAG" => doc[f.at].k # "end"
           /\ f.kind = "END_TAG" => doc[f.at].k # "start"
           /\ f.kind = "TEXT" => Stream!Reportable(doc, ignoreWhiteSpaces, Run(doc, f.at - 1))
           /\ IsTag(doc, f.at) /\ \A j \in 1 .. f.at : doc[j].k # "bad"
<1>0. Place BY DEF InvOfReports
<1>1. doc \in Seq(Token0) /\ pos \in Nat /\ Len(doc) \in Nat BY <1>0, DocumentFacts
<1>2. /\ f.at \in 1 .. Len(doc) /\ f.kind \in Kinds /\ f = EventAt(f.kind, f.at)
      /\ f.kind = "START_TAG" => doc[f.at].k # "end"
      /\ f.kind = "END_TAG" => doc[f.at].k # "start"
      /\ f.kind = "TEXT" => Stream!Reportable(doc, ignoreWhiteSpaces, Run(doc, f.at - 1))
      /\ IsTag(doc, f.at) /\ \A j \in 1 .. f.at : doc[j].k # "bad"
  BY <1>1, EventFacts DEF Stream!Stream
<1>3. /\ seen = EventAt(seen.kind, seen.at) /\ LastThere(doc, seen.kind, seen.at)
      /\ seen.at \in Nat /\ Passed \in Int
  BY <1>1 DEF CallPasses, LastThere, EventAt, Passed
<1>4. Stream!Before(seen, f) <=> f.at > seen.at
  <2>1. Stream!Before(EventAt(seen.kind, seen.at), f) <=> f.at > seen.at
    BY <1>1, <1>3, NothingMoreThere DEF Stream!Stream
  <2>2. QED BY <1>3, <2>1
<1>5. call = "next" /\ f.at > seen.at => f.at > Passed
  BY <1>2, <1>3 DEF CallPasses, NoTag
<1>6. call = "find" /\ f.at > seen.at /\ f.kind = "START_TAG" /\ doc[f.at].n = sought => f.at > Passed
  BY <1>2, <1>3 DEF CallPasses, IsTag
<1>7. call = "skip" /\ f.at > seen.at /\ f \in Stream!ClosersOf(seen) => f.at > Passed
  <2> SUFFICES ASSUME call = "skip", f.at > seen.at, f \in Stream!ClosersOf(seen), f.at <= Passed
               PROVE  FALSE
    BY <1>2, <1>3
  <2>1. /\ seen = EventAt("START_TAG", seen.at) /\ seen.at > 0 /\ doc[seen.at].k = "start"
        /\ seen.at \in 0 .. Passed
        /\ \A t \in seen.at + 1 .. Passed : OpenAt(doc, t) >= OpenAt(doc, seen.at)
    BY <1>3 DEF CallPasses
  <2>2. seen.at \in 1 .. Len(doc) BY <1>0, <1>1, <2>1 DEF Place, Passed
  <2>3. f.kind = "END_TAG" BY DEF Stream!ClosersOf
  <2>4. OpenAt(doc, f.at) = OpenAt(doc, seen.at) - 1
    BY <1>1, <2>1, <2>2, <2>3, CloserIsBalance
  <2>5. OpenAt(doc, f.at) >= OpenAt(doc, seen.at) BY <1>2, <1>3, <2>1
  <2>6. OpenAt(doc, seen.at) \in Int BY <1>3, OpenAtIsAnInteger
  <2>7. QED BY <2>4, <2>5, <2>6
<1>8. QED BY <1>2, <1>4, <1>5, <1>6, <1>7

\* A call that returns with an event reports the first of those it was to find.
LEMMA ReturnMaps ==
    ASSUME Disciplined, InvOfReports, InvOfReports', StreamOK, Return
    PROVE  StreamOK' /\ Mapped
<1>0. /\ Inv /\ Place /\ Typed /\ Flags /\ InStep /\ AtTheTag /\ CallPasses /\ TagIsPending
  BY DEF InvOfReports, StreamOK
<1>1. /\ ~Idle /\ Idle' /\ half = FALSE /\ expat = "SUSPENDED" /\ seen' = Reported(call, state)
      /\ UNCHANGED <<doc, pos, half, expat, nextState, next2State, state, ignoreWhiteSpaces>>
      /\ call \in {"next", "skip", "find"}
  BY <1>0 DEF Return, Flags, expatVars, pending, Idle, Typed
<1>2. /\ pos \in 1 .. Len(doc) /\ IsTag(doc, pos) /\ pos \in Int /\ doc \in Seq(Token0)
      /\ Passed = pos - 1 /\ Len(doc) \in Nat
  BY <1>0, <1>1, DocumentFacts DEF AtTheTag, Passed
<1>3. /\ state \in {"TEXT", "START_TAG", "END_TAG"}
      /\ call = "skip" => state = "END_TAG"
      /\ call = "find" => state = "START_TAG"
      /\ state = "START_TAG" => doc[pos].k # "end"
      /\ state = "END_TAG" => doc[pos].k # "start"
  BY <1>0, <1>1 DEF InStep, TagIsPending
<1> DEFINE f == EventAt(state, pos)
<1>4. seen' = f /\ f.at = pos /\ f.kind = state BY <1>1, <1>3 DEF Reported, EventAt
<1>5. StreamOK'
  BY <1>0, <1>1, <1>3, <1>4 DEF StreamOK, TagIsPending, StateIsSeen, CallPasses, EventAt
<1>6. /\ seen.at \in Nat /\ seen.at < pos /\ seen.kind \in {"START_DOCUMENT", "START_TAG", "END_TAG"}
  BY <1>0, <1>1, <1>2 DEF CallPasses
<1>7. f \in Stream!Stream
  <2>1. call = "next" /\ state = "TEXT" => Stream!Reportable(doc, ignoreWhiteSpaces, Run(doc, pos - 1))
    BY <1>0, <1>1 DEF CallPasses
  <2>2. QED BY <1>0, <1>1, <1>2, <1>3, <2>1, EventsHere
<1>8. Stream!Before(seen, f) BY <1>0, <1>1, <1>4, <1>6, <1>7, NothingWasPassed
<1>9. \A h \in Stream!Stream : h.at \in Int BY <1>0, <1>2, EventsHere
<1>10. ASSUME NEW h \in Stream!Stream, h.at > pos PROVE Stream!Before(f, h)
  <2>1. h = EventAt(h.kind, h.at) /\ h.at \in Int BY <1>0, <1>2, EventsHere
  <2>2. Stream!Before(f, EventAt(h.kind, h.at)) BY <1>2, <1>10, <2>1, EventOrder
  <2>3. QED BY <2>1, <2>2
<1> HIDE DEF f
<1>11. CASE call = "next"
  <2>1. ASSUME NEW h \in Stream!Stream, Stream!Before(seen, h) PROVE h = f \/ Stream!Before(f, h)
    <3>1. /\ h.at > seen.at /\ h.at > pos - 1 /\ h.at \in Int /\ h.kind \in Kinds
          /\ h = EventAt(h.kind, h.at)
          /\ h.kind = "START_TAG" => doc[h.at].k # "end"
          /\ h.kind = "TEXT" => Stream!Reportable(doc, ignoreWhiteSpaces, Run(doc, h.at - 1))
      BY <1>0, <1>1, <1>2, <1>9, <1>11, <2>1, NothingWasPassed
    <3>2. CASE h.at = pos
      <4>1. /\ state = "TEXT" <=> Stream!Reportable(doc, ignoreWhiteSpaces, Run(doc, pos - 1))
            /\ state = "END_TAG" => doc[pos].k = "end"
        BY <1>0, <1>1, <1>11 DEF CallPasses
      <4>2. \/ h.kind = state
            \/ state = "TEXT" /\ h.kind # "TEXT"
            \/ state = "START_TAG" /\ h.kind \notin {"TEXT", "START_TAG"}
        BY <1>3, <3>1, <3>2, <4>1 DEF Kinds
      <4>3. h.kind = state => h = f BY <3>1, <3>2 DEF f
      <4>4. Stream!Before(EventAt(state, pos), EventAt(h.kind, pos)) <=>
              pos < pos \/ (pos = pos /\ ((state = "TEXT" /\ h.kind # "TEXT")
                             \/ (state = "START_TAG" /\ h.kind \notin {"TEXT", "START_TAG"})))
        BY <1>2, EventOrder
      <4>5. QED BY <3>1, <3>2, <4>2, <4>3, <4>4 DEF f
    <3>3. CASE h.at # pos BY <1>2, <1>10, <3>1, <3>3
    <3>4. QED BY <3>2, <3>3
  <2>2. Stream!FirstAfter(seen, Stream!Stream) = f BY <1>7, <1>8, <1>9, <2>1, FirstIsFound
  <2>3. Stream!NextEvent BY <1>1, <1>4, <1>6, <2>2 DEF Stream!NextEvent
  <2>4. QED BY <1>5, <2>3 DEF Mapped, Stream!Next
<1>12. CASE call = "skip"
  <2>1. /\ seen = EventAt("START_TAG", seen.at) /\ seen.at > 0 /\ doc[seen.at].k = "start"
        /\ OpenAt(doc, pos) = OpenAt(doc, seen.at) - 1
    BY <1>0, <1>1, <1>12 DEF CallPasses, EventAt
  <2>2. seen.at \in 1 .. Len(doc) BY <1>2, <1>6, <2>1
  <2>3. f \in Stream!ClosersOf(EventAt("START_TAG", seen.at))
    BY <1>2, <1>3, <1>4, <1>6, <1>7, <1>12, <2>1, <2>2, CloserIsBalance
  <2>4. f \in Stream!ClosersOf(seen) BY <2>1, <2>3
  <2>5. ASSUME NEW h \in Stream!ClosersOf(seen), Stream!Before(seen, h) PROVE h = f \/ Stream!Before(f, h)
    <3>1. h \in Stream!Stream /\ h.kind = "END_TAG" BY DEF Stream!ClosersOf
    <3>2. /\ h.at > seen.at /\ h.at > pos - 1 /\ h.at \in Int /\ h = EventAt(h.kind, h.at)
      BY <1>0, <1>1, <1>2, <1>9, <1>12, <2>5, <3>1, NothingWasPassed
    <3>3. h.at = pos => h = f BY <1>3, <1>12, <3>1, <3>2 DEF f
    <3>4. h.at # pos => Stream!Before(f, h) BY <1>2, <1>10, <3>1, <3>2
    <3>5. QED BY <3>3, <3>4
  <2>6. \A h \in Stream!ClosersOf(seen) : h.at \in Int BY <1>9 DEF Stream!ClosersOf
  <2>7. Stream!FirstAfter(seen, Stream!ClosersOf(seen)) = f BY <1>8, <2>4, <2>5, <2>6, FirstIsFound
  <2>8. seen.kind = "START_TAG" BY <1>0, <1>1, <1>12 DEF CallPasses
  <2>9. Stream!Skip BY <1>1, <1>4, <2>7, <2>8 DEF Stream!Skip
  <2>10. QED BY <1>5, <2>9 DEF Mapped, Stream!Next
<1>13. CASE call = "find"
  <2> DEFINE Named == {h \in Stream!Stream : h.kind = "START_TAG" /\ doc[h.at].n = sought}
  <2>1. sought \in Names /\ doc[pos].n = sought BY <1>0, <1>1, <1>13 DEF CallPasses
  <2>2. f \in Named BY <1>3, <1>4, <1>7, <1>13, <2>1
  <2>3. ASSUME NEW h \in Named, Stream!Before(seen, h) PROVE h = f \/ Stream!Before(f, h)
    <3>1. /\ h.at > seen.at /\ h.at > pos - 1 /\ h.at \in Int /\ h = EventAt("START_TAG", h.at)
      BY <1>0, <1>1, <1>2, <1>9, <1>13, <2>3, NothingWasPassed
    <3>2. h.at = pos => h = f BY <1>3, <1>13, <3>1 DEF f
    <3>3. h.at # pos => Stream!Before(f, h) BY <1>2, <1>10, <3>1
    <3>4. QED BY <3>2, <3>3
  <2>4. \A h \in Named : h.at \in Int BY <1>9
  <2> HIDE DEF Named
  <2>5. Stream!FirstAfter(seen, Named) = f BY <1>8, <2>2, <2>3, <2>4, FirstIsFound
  <2> USE DEF Named
  <2>6. Stream!FindElement BY <1>1, <1>4, <1>6, <2>1, <2>5 DEF Stream!FindElement
  <2>7. QED BY <1>5, <2>6 DEF Mapped, Stream!Next
<1>14. QED BY <1>1, <1>11, <1>12, <1>13

\* A call that comes to the end of the document, or to the place where it stops
\* being well-formed, had nothing left to find.
LEMMA EndMaps ==
    ASSUME Disciplined, FromStrings, InvOfReports, InvOfReports', StreamOK,
           EndOfInput \/ WellFormednessError
    PROVE  StreamOK' /\ Mapped
<1>0. /\ Inv /\ Place /\ Typed /\ Flags /\ InStep /\ SkipsInside /\ CallPasses
  BY DEF InvOfReports, StreamOK
<1>1. /\ ~Idle /\ Idle' /\ half = FALSE /\ expat = "PARSING" /\ expat' # "SUSPENDED"
      /\ UNCHANGED <<doc, pos, half, ignoreWhiteSpaces>>
      /\ call \in {"next", "skip", "find"} /\ Passed = pos
  BY <1>0 DEF EndOfInput, WellFormednessError, Finish, Flags, Idle, Typed, Passed
<1>2. /\ doc \in Seq(Token0) /\ pos \in 0 .. Len(doc) /\ Len(doc) \in Nat /\ pos \in Nat
      /\ \A i \in 1 .. pos : doc[i].k # "bad"
  BY <1>0, DocumentFacts DEF Place
<1>3. /\ seen' = Stream!EndOf(doc) /\ state' \in {"PARSE_ERROR", "END_DOCUMENT"}
      /\ seen'.kind = state'
      /\ \A t \in 1 .. Len(doc) : t > pos => \E j \in 1 .. t : doc[j].k = "bad"
  <2>1. CASE EndOfInput
    <3>1. input \notin {"inputchannel", "inputfile"} BY <1>0 DEF Typed, FromStrings
    <3>2. pos = Len(doc) /\ state' = "END_DOCUMENT" /\ seen' = Reported(call, "END_DOCUMENT")
      BY <2>1, <3>1 DEF EndOfInput, Finish
    <3>3. call # "skip"
      <4> SUFFICES ASSUME call = "skip" PROVE FALSE OBVIOUS
      <4>1. mode = "SKIP" BY <1>0, <1>1 DEF InStep
      <4>2. /\ OpenAt(doc, pos) > skipDepth /\ skipDepth \in Nat /\ OpenAt(doc, pos) \in Int
        BY <1>0, <1>1, <1>2, <4>1, OpenAtIsAnInteger DEF SkipsInside, Typed
      <4>3. OpenAt(doc, pos) <= 0 BY <1>0, <3>2, DocumentFacts
      <4>4. QED BY <4>2, <4>3
    <3>4. seen' = [kind |-> "END_DOCUMENT", at |-> 0] BY <1>1, <3>2, <3>3 DEF Reported
    <3>5. ~Stream!Malformed(doc) BY <1>2, <3>2 DEF Stream!Malformed
    <3>6. QED BY <1>2, <3>2, <3>4, <3>5 DEF Stream!EndOf, Stream!Status
  <2>2. CASE WellFormednessError
    <3>1. /\ pos < Len(doc) /\ doc[pos + 1].k = "bad" /\ state' = "PARSE_ERROR"
          /\ seen' = [kind |-> "PARSE_ERROR", at |-> 0]
      BY <2>2 DEF WellFormednessError, Finish, Reported
    <3>2. Stream!Malformed(doc) BY <1>2, <3>1 DEF Stream!Malformed
    <3>3. ASSUME NEW t \in 1 .. Len(doc), t > pos PROVE \E j \in 1 .. t : doc[j].k = "bad"
      BY <1>2, <3>1, <3>3
    <3>4. QED BY <3>1, <3>2, <3>3 DEF Stream!EndOf, Stream!Status
  <2>3. QED BY <2>1, <2>2
<1>4. StreamOK'
  BY <1>1, <1>3 DEF StreamOK, TagIsPending, StateIsSeen, CallPasses
<1>5. ASSUME NEW h \in Stream!Stream, h.at > pos PROVE FALSE
  BY <1>0, <1>1, <1>3, <1>5, NothingWasPassed
<1>6. seen.kind \in {"START_DOCUMENT", "START_TAG", "END_TAG"} BY <1>0, <1>1 DEF CallPasses
<1>7. CASE call = "next"
  <2>1. \A h \in Stream!Stream : ~Stream!Before(seen, h)
    BY <1>0, <1>1, <1>5, <1>7, NothingWasPassed
  <2>2. Stream!FirstAfter(seen, Stream!Stream) = Stream!EndOf(doc) BY <2>1, NothingIsFound
  <2>3. Stream!NextEvent BY <1>1, <1>3, <1>6, <2>2 DEF Stream!NextEvent
  <2>4. QED BY <1>4, <2>3 DEF Mapped, Stream!Next
<1>8. CASE call = "skip"
  <2>1. \A h \in Stream!ClosersOf(seen) : h \in Stream!Stream BY DEF Stream!ClosersOf
  <2>2. \A h \in Stream!ClosersOf(seen) : ~Stream!Before(seen, h)
    BY <1>0, <1>1, <1>5, <1>8, <2>1, NothingWasPassed
  <2>3. Stream!FirstAfter(seen, Stream!ClosersOf(seen)) = Stream!EndOf(doc) BY <2>2, NothingIsFound
  <2>4. seen.kind = "START_TAG" BY <1>0, <1>1, <1>8 DEF CallPasses
  <2>5. Stream!Skip BY <1>1, <1>3, <2>3, <2>4 DEF Stream!Skip
  <2>6. QED BY <1>4, <2>5 DEF Mapped, Stream!Next
<1>9. CASE call = "find"
  <2> DEFINE Named == {h \in Stream!Stream : h.kind = "START_TAG" /\ doc[h.at].n = sought}
  <2>1. \A h \in Named : ~Stream!Before(seen, h)
    BY <1>0, <1>1, <1>5, <1>9, NothingWasPassed
  <2>2. sought \in Names BY <1>0, <1>1, <1>9 DEF CallPasses
  <2> HIDE DEF Named
  <2>3. Stream!FirstAfter(seen, Named) = Stream!EndOf(doc) BY <2>1, NothingIsFound
  <2> USE DEF Named
  <2>4. Stream!FindElement BY <1>1, <1>3, <1>6, <2>2, <2>3 DEF Stream!FindElement
  <2>5. QED BY <1>4, <2>4 DEF Mapped, Stream!Next
<1>10. QED BY <1>1, <1>7, <1>8, <1>9

\* The methods that do not parse.
LEMMA OtherMaps ==
    ASSUME Disciplined, InvOfReports, InvOfReports', StreamOK,
           Input \/ Reset \/ Recreate \/ UNCHANGED vars
    PROVE  StreamOK' /\ Mapped
<1>0. /\ Inv /\ Place /\ Flags /\ InStep /\ AtTheTag /\ TagIsPending /\ StateIsSeen /\ CallPasses
  BY DEF InvOfReports, StreamOK
<1>1. CASE Input
  <2>1. /\ Idle /\ Idle' /\ state = "READY" /\ doc' \in Documents /\ state' = "START_DOCUMENT"
        /\ seen' = [kind |-> "START_DOCUMENT", at |-> 0]
        /\ UNCHANGED <<pos, expat, half, ignoreWhiteSpaces>>
    BY <1>1 DEF Input, Idle
  <2>2. pos = 0 /\ half = FALSE /\ expat # "SUSPENDED"
    BY <1>0, <2>1 DEF Place, Flags, Inv, ModeOK, AtTheTag
  <2>3. StreamOK' BY <2>1, <2>2 DEF StreamOK, TagIsPending, StateIsSeen, CallPasses
  <2>4. seen.kind = "READY" BY <1>0, <2>1 DEF StateIsSeen
  <2>5. Stream!Input BY <2>1, <2>4 DEF Stream!Input, Stream!Status
  <2>6. QED BY <2>3, <2>5 DEF Mapped, Stream!Next
<1>2. CASE Reset \/ Recreate
  <2>1. /\ Idle /\ Idle' /\ Cleared /\ half' = half
    BY <1>2 DEF Reset, Recreate, Idle
  <2>2. /\ doc' = <<>> /\ expat' = "INITIALIZED" /\ state' = "READY" /\ half = FALSE
        /\ seen' = [kind |-> "READY", at |-> 0]
    BY <1>0, <2>1 DEF Cleared, Flags, Inv, ModeOK
  <2>3. StreamOK' BY <2>1, <2>2 DEF StreamOK, TagIsPending, StateIsSeen, CallPasses
  <2>4. Reset => Stream!Reset BY <2>2 DEF Reset, Stream!Reset, Stream!Status
  <2>5. Recreate => Stream!Recreate
    BY <2>2, PullParserAssumption DEF Recreate, Stream!Recreate, Stream!Status
  <2>6. QED BY <1>2, <2>3, <2>4, <2>5 DEF Mapped, Stream!Next
<1>3. CASE UNCHANGED vars
  BY <1>3 DEF vars, expatVars, handlers, pending, StreamOK, TagIsPending, StateIsSeen, CallPasses,
     Idle, Passed, Mapped, Stream!vars
<1>4. QED BY <1>1, <1>2, <1>3

\* The pull parser implements the stream of events: with every document, next,
\* skip and find-element report the event PullStream promises, in its order, to
\* the end of the document or the place where it is malformed.
THEOREM Refinement == Disciplined /\ FromStrings => (Spec => ImplementsPullStream)
<1> SUFFICES ASSUME Disciplined, FromStrings PROVE Spec => Stream!Spec
  BY DEF ImplementsPullStream
<1>1. Init => InvOfReports /\ StreamOK /\ Stream!Init BY InitReports, InitStream
<1>2. InvOfReports /\ StreamOK /\ [Next]_vars => InvOfReports' /\ StreamOK' /\ Mapped
  <2> SUFFICES ASSUME InvOfReports, StreamOK, [Next]_vars PROVE InvOfReports' /\ StreamOK' /\ Mapped
    OBVIOUS
  <2>1. InvOfReports' BY ReportsStep
  <2>2. StreamOK' /\ Mapped
    BY <2>1, NextPendingMaps, SkipPendingMaps, EnterMaps, PassingMaps, StartElementMaps, EndElementMaps,
       ReturnMaps, EndMaps, OtherMaps DEF Next, Parsing
  <2>3. QED BY <2>1, <2>2
<1>3. Mapped => [Stream!Next]_(Stream!vars) BY DEF Mapped
<1>4. QED BY <1>1, <1>2, <1>3, PTL DEF Spec, Stream!Spec
=============================================================================
