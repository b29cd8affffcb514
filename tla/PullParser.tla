----------------------------- MODULE PullParser -----------------------------
(* The pull parser commands of generic/tclpull.c: three pending states, a     *)
(* mode and a text buffer, driven by expat's callbacks.  A parsing method is  *)
(* split at the callbacks: a start action enters expat, each callback is an   *)
(* action, and Return, EndOfInput or WellFormednessError ends the call.       *)
(* expat is external: it delivers the tokens of doc in order, calls the       *)
(* handlers that are set, and stops before the next token when suspended; the *)
(* end of an empty element is delivered even then.                            *)
EXTENDS Integers, Sequences, FiniteSets

CONSTANTS Documents,  \* the inputs, sequences of tokens (see PullStream)
          Names,      \* the names given to find-element
          Sources,    \* which of "input", "inputchannel", "inputfile" are used
          IgnoreChoices, \* which of TRUE, FALSE are given for -ignorewhitecdata
          AnyUse      \* FALSE: find-element and reset only with nothing pending

\* The elements open behind the first p tokens of d.
OpenAt(d, p) ==   Cardinality({i \in 1 .. p : d[i].k = "start"})
                - Cardinality({i \in 1 .. p : d[i].k = "end"})

\* expat takes an end tag without its start tag, and an input that ends inside
\* an element, for a malformed document.
ASSUME PullParserAssumption ==
  /\ AnyUse \in BOOLEAN /\ IgnoreChoices \subseteq BOOLEAN
  /\ \A d \in Documents :
       /\ d \in Seq([k : {"start", "end", "empty", "text", "white", "bad"}, n : STRING])
       /\ \A p \in 0 .. Len(d) : OpenAt(d, p) >= 0
       /\ (\A i \in DOMAIN d : d[i].k # "bad") => OpenAt(d, Len(d)) = 0

VARIABLES doc, pos, expat, half,  \* expat: input, tokens read, status, and
                                  \* whether the end of an empty element is due
          input, state, nextState, next2State, mode, skipDepth, cdata,
          cdataHandler, endHandler, currentElm, ignoreWhiteSpaces,
          call, atStart,          \* the method that is parsing; from its start?
          sought, seen            \* find-element's name; what the script saw

expatVars == <<doc, pos, expat, half>>
handlers == <<cdataHandler, endHandler>>
pending == <<nextState, next2State>>
vars == <<expatVars, input, state, pending, mode, skipDepth, cdata, handlers,
          currentElm, ignoreWhiteSpaces, call, atStart, sought, seen>>

None == "READY"  \* PULLPARSERSTATE_READY is 0, which also stands for "none"
States == {"READY", "START_DOCUMENT", "END_DOCUMENT", "START_TAG", "END_TAG",
           "TEXT", "PARSE_ERROR"}
Idle == call = "none"

\* What the method m reports when the parser stopped in state s.
Reported(m, s) ==
  LET kind == IF s = "PARSE_ERROR" \/ m = "next" THEN s
              ELSE IF m = "skip" THEN "END_TAG"
              ELSE IF s = "START_TAG" THEN s ELSE "END_DOCUMENT"
  IN [kind |-> kind,
      at |-> IF kind \in {"START_TAG", "END_TAG", "TEXT"} THEN pos ELSE 0]

Init ==
  /\ doc = <<>> /\ pos = 0 /\ expat = "INITIALIZED" /\ half = FALSE
  /\ input = "none" /\ state = "READY" /\ nextState = None /\ next2State = None
  /\ mode = "NORMAL" /\ skipDepth = 0 /\ cdata = {}
  /\ cdataHandler = TRUE /\ endHandler = TRUE /\ currentElm = ""
  /\ ignoreWhiteSpaces \in IgnoreChoices
  /\ call = "none" /\ atStart = FALSE /\ sought = ""
  /\ seen = [kind |-> "READY", at |-> 0]

(* -------------------------- methods that parse --------------------------- *)
\* Enter expat, through XML_Parse at the start of the document, through
\* XML_ResumeParser later; a parser that is not suspended refuses the latter.
EnterExpat(m) ==
  LET starting == state = "START_DOCUMENT"
      refused == ~starting /\ expat # "SUSPENDED"
  IN /\ atStart' = starting
     /\ expat' = IF refused THEN expat ELSE "PARSING"
     /\ state' = IF refused THEN "PARSE_ERROR" ELSE state
     /\ input' = IF refused THEN "none" ELSE input
     /\ call' = IF refused THEN "none" ELSE m
     /\ seen' = IF refused THEN Reported(m, "PARSE_ERROR") ELSE seen
     /\ UNCHANGED <<doc, pos, half, pending, currentElm, ignoreWhiteSpaces>>

\* next with something pending reports it and does not parse.
Shift(m) ==
  /\ state' = IF nextState # None \/ next2State # None THEN nextState ELSE state
  /\ nextState' = next2State /\ next2State' = None
  /\ seen' = Reported(m, state')
  /\ UNCHANGED <<expatVars, input, call, atStart, currentElm, ignoreWhiteSpaces>>

Pending == nextState # None \/ next2State # None

ClearText == cdata' = IF state = "TEXT" THEN {} ELSE cdata

NextPending ==
  /\ Idle /\ (Pending \/ state = "TEXT")
  /\ ClearText /\ Shift("next")
  /\ UNCHANGED <<mode, skipDepth, handlers, sought>>

NextStatesMutNotAtEndTag == {"START_DOCUMENT", "START_TAG"}
NextStates == {"START_DOCUMENT", "START_TAG", "END_TAG"}

NextParse ==
  /\ Idle /\ ~Pending /\ state \in NextStates
  /\ EnterExpat("next")
  /\ UNCHANGED <<mode, skipDepth, cdata, handlers, sought>>

SkipPending ==
  /\ Idle /\ state = "START_TAG" /\ "END_TAG" \in {nextState, next2State}
  /\ state' = "END_TAG" /\ nextState' = None /\ next2State' = None /\ cdata' = {}
  /\ seen' = Reported("skip", "END_TAG")
  /\ UNCHANGED <<expatVars, input, mode, skipDepth, handlers, currentElm,
                 ignoreWhiteSpaces, call, atStart, sought>>

SkipParse ==
  /\ Idle /\ state = "START_TAG" /\ "END_TAG" \notin {nextState, next2State}
  /\ mode' = "SKIP" /\ skipDepth' = 0 /\ cdata' = {} /\ cdataHandler' = FALSE
  /\ EnterExpat("skip")
  /\ UNCHANGED <<endHandler, sought>>

FindElement(n) ==
  /\ Idle /\ state \in {"START_TAG", "END_TAG", "START_DOCUMENT"}
  /\ AnyUse \/ ~Pending
  /\ mode' = "FIND" /\ cdata' = {} /\ cdataHandler' = FALSE /\ endHandler' = FALSE
  /\ sought' = n
  /\ IF state = "START_DOCUMENT" /\ Pending THEN Shift("find")
     ELSE EnterExpat("find")
  /\ UNCHANGED skipDepth

(* ------------------------------- callbacks ------------------------------- *)
AtToken(kinds) == /\ ~Idle /\ expat = "PARSING" /\ ~half
                  /\ pos < Len(doc) /\ doc[pos + 1].k \in kinds
                  /\ pos' = pos + 1
Token == doc[pos']

\* Character data is worth an event unless only white space was collected and
\* such data is to be ignored.
TextCollected ==
  cdata # {} /\ (ignoreWhiteSpaces => \E i \in cdata : doc[i].k = "text")

CharacterData ==
  /\ AtToken({"text", "white"}) /\ cdataHandler
  /\ cdata' = cdata \union {pos + 1}
  /\ UNCHANGED <<doc, expat, half, input, state, pending, mode, skipDepth,
                 handlers, currentElm, ignoreWhiteSpaces, call, atStart, sought,
                 seen>>

\* A start tag that skip or find-element passes over.
PassStartTag ==
  /\ AtToken({"start", "empty"})
  /\ mode = "SKIP" \/ (mode = "FIND" /\ Token.n # sought)
  /\ skipDepth' = IF mode = "SKIP" THEN skipDepth + 1 ELSE skipDepth
  /\ half' = (Token.k = "empty" /\ endHandler)
  /\ UNCHANGED <<doc, expat, input, state, pending, mode, cdata, handlers,
                 currentElm, ignoreWhiteSpaces, call, atStart, sought, seen>>

StartElement ==
  /\ AtToken({"start", "empty"})
  /\ mode = "NORMAL" \/ (mode = "FIND" /\ Token.n = sought)
  /\ mode' = "NORMAL"
  /\ cdataHandler' = TRUE /\ endHandler' = TRUE
  /\ state' = IF TextCollected THEN "TEXT" ELSE "START_TAG"
  /\ nextState' = IF TextCollected THEN "START_TAG" ELSE nextState
  /\ cdata' = IF TextCollected THEN cdata ELSE {}
  /\ currentElm' = Token.n
  /\ half' = (Token.k = "empty")
  /\ expat' = "SUSPENDED"
  /\ UNCHANGED <<doc, input, next2State, skipDepth, ignoreWhiteSpaces, call,
                 atStart, sought, seen>>

\* The end tag of an element opened while skipping.
PassEndTag ==
  /\ mode = "SKIP" /\ skipDepth > 0
  /\ skipDepth' = skipDepth - 1 /\ UNCHANGED <<mode, cdataHandler, expat, state,
                                              pending, currentElm>>

\* Which events an end tag schedules: the start tag is still to be reported
\* when its own callback has just suspended the parser (an empty element).
ScheduleMutNoStartTag(startTag, text) ==
  /\ state' = IF text THEN "TEXT" ELSE "END_TAG"
  /\ nextState' = IF text THEN "END_TAG" ELSE nextState
  /\ next2State' = next2State
ScheduleMutTextAlone(startTag, text) ==
  /\ state' = IF text THEN "TEXT" ELSE IF startTag THEN "START_TAG" ELSE "END_TAG"
  /\ nextState' = IF startTag THEN "END_TAG" ELSE nextState
  /\ next2State' = next2State
Schedule(startTag, text) ==
  /\ state' = IF text THEN "TEXT" ELSE IF startTag THEN "START_TAG" ELSE "END_TAG"
  /\ nextState' = IF text /\ startTag THEN "START_TAG"
                  ELSE IF text \/ startTag THEN "END_TAG" ELSE nextState
  /\ next2State' = IF text /\ startTag THEN "END_TAG" ELSE next2State

ReportEndTagMutKeepsElm(name) ==
  /\ ~(mode = "SKIP" /\ skipDepth > 0)
  /\ mode' = IF mode = "SKIP" THEN "NORMAL" ELSE mode
  /\ cdataHandler' = (cdataHandler \/ mode = "SKIP")
  /\ Schedule(expat = "SUSPENDED", TextCollected)
  /\ expat' = "SUSPENDED"
  /\ UNCHANGED <<currentElm, skipDepth>>
ReportEndTag(name) ==
  /\ ~(mode = "SKIP" /\ skipDepth > 0)
  /\ mode' = IF mode = "SKIP" THEN "NORMAL" ELSE mode
  /\ cdataHandler' = (cdataHandler \/ mode = "SKIP")
  /\ Schedule(expat = "SUSPENDED", TextCollected)
  /\ currentElm' = name
  /\ expat' = "SUSPENDED"
  /\ UNCHANGED skipDepth

EndElement ==
  /\ \/ half /\ UNCHANGED pos
     \/ AtToken({"end"}) /\ endHandler
  /\ half' = FALSE
  /\ PassEndTag \/ ReportEndTag(Token.n)
  /\ UNCHANGED <<doc, input, cdata, endHandler, ignoreWhiteSpaces, call, atStart,
                 sought, seen>>

\* A token nobody listens to.
NoHandler ==
  /\ AtToken((IF cdataHandler THEN {} ELSE {"text", "white"})
             \union (IF endHandler THEN {} ELSE {"end"}))
  /\ UNCHANGED <<doc, expat, half, input, state, pending, mode, skipDepth, cdata,
                 handlers, currentElm, ignoreWhiteSpaces, call, atStart, sought,
                 seen>>

(* ------------------------- the end of a method --------------------------- *)
Finish(s) ==
  /\ state' = s /\ input' = "none"
  /\ seen' = Reported(call, s) /\ call' = "none"
  /\ UNCHANGED <<doc, pos, half, pending, mode, skipDepth, cdata, handlers,
                 currentElm, ignoreWhiteSpaces, atStart, sought>>

Return ==
  /\ ~Idle /\ expat = "SUSPENDED" /\ ~half
  /\ seen' = Reported(call, state) /\ call' = "none"
  /\ UNCHANGED <<expatVars, input, state, pending, mode, skipDepth, cdata,
                 handlers, currentElm, ignoreWhiteSpaces, atStart, sought>>

\* The first read loop of a channel or a file goes on after the final
\* XML_Parse succeeded, and expat reports an already finished parser.
EndOfInput ==
  /\ ~Idle /\ expat = "PARSING" /\ ~half /\ pos = Len(doc)
  /\ expat' = "FINISHED"
  /\ Finish(IF atStart /\ input \in {"inputchannel", "inputfile"}
            THEN "PARSE_ERROR" ELSE "END_DOCUMENT")

WellFormednessError ==
  /\ ~Idle /\ expat = "PARSING" /\ ~half
  /\ pos < Len(doc) /\ doc[pos + 1].k = "bad"
  /\ Finish("PARSE_ERROR") /\ UNCHANGED expat

(* ---------------------------- other methods ------------------------------ *)
Input ==
  /\ Idle /\ state = "READY"
  /\ input' \in Sources /\ doc' \in Documents
  /\ state' = "START_DOCUMENT"
  /\ seen' = [kind |-> "START_DOCUMENT", at |-> 0]
  /\ UNCHANGED <<pos, expat, half, pending, mode, skipDepth, cdata, handlers,
                 currentElm, ignoreWhiteSpaces, call, atStart, sought>>

\* reset forgets nextState, but not next2State.
ClearedMutKeepsHandlers ==
  /\ input' = "none" /\ state' = "READY" /\ nextState' = None
  /\ mode' = "NORMAL" /\ cdata' = {}
  /\ doc' = <<>> /\ pos' = 0 /\ expat' = "INITIALIZED"
  /\ UNCHANGED handlers
  /\ seen' = [kind |-> "READY", at |-> 0]
Cleared ==
  /\ input' = "none" /\ state' = "READY" /\ nextState' = None
  /\ mode' = "NORMAL" /\ cdata' = {}
  /\ doc' = <<>> /\ pos' = 0 /\ expat' = "INITIALIZED"
  /\ cdataHandler' = TRUE /\ endHandler' = TRUE
  /\ seen' = [kind |-> "READY", at |-> 0]

Reset ==
  /\ Idle /\ (AnyUse \/ next2State = None)
  /\ Cleared
  /\ UNCHANGED <<half, next2State, skipDepth, currentElm, ignoreWhiteSpaces, call,
                 atStart, sought>>

\* delete, and tdom::pullparser under the same name.
Recreate ==
  /\ Idle /\ Cleared
  /\ next2State' = None /\ skipDepth' = 0 /\ currentElm' = ""
  /\ ignoreWhiteSpaces' \in IgnoreChoices
  /\ atStart' = FALSE /\ sought' = "" /\ UNCHANGED <<half, call>>

Parsing == \/ CharacterData \/ StartElement \/ PassStartTag \/ EndElement \/ NoHandler
           \/ Return \/ EndOfInput \/ WellFormednessError

Next == \/ Input \/ Reset \/ Recreate
        \/ NextPending \/ NextParse \/ SkipPending \/ SkipParse
        \/ \E n \in Names : FindElement(n)
        \/ Parsing

Spec == Init /\ [][Next]_vars

\* expat works through its input, and the script keeps asking for events.
FairSpec == Spec /\ WF_vars(Parsing) /\ WF_vars(NextPending \/ NextParse)

(* ------------------------------ properties ------------------------------- *)
TypeOK ==
  /\ pos \in 0..Len(doc) /\ half \in BOOLEAN
  /\ expat \in {"INITIALIZED", "PARSING", "SUSPENDED", "FINISHED"}
  /\ input \in Sources \union {"none"}
  /\ {state, nextState, next2State, seen.kind} \subseteq States
  /\ mode \in {"NORMAL", "SKIP", "FIND"} /\ skipDepth \in Nat
  /\ cdata \subseteq DOMAIN doc
  /\ call \in {"none", "next", "skip", "find"}

\* A text event is never the last one scheduled: the tag that ended the text is
\* pending (the comment in method next that its TEXT case is never reached).
TextHasSuccessor ==
  Idle /\ state = "TEXT" => nextState \in {"START_TAG", "END_TAG"}

\* Between two calls the handlers expat holds are those the mode needs: text is
\* dropped exactly while skipping or finding, end tags exactly while finding.
HandlersMatchMode ==
  /\ cdataHandler <=> mode = "NORMAL"
  /\ endHandler <=> mode # "FIND"

\* The text method returns, in a TEXT event, exactly the character data between
\* the reported tag and the one before.
Stream == INSTANCE PullStream
TextIsOwn ==
  Idle /\ seen.kind = "TEXT" => cdata = Stream!TextBefore(doc, seen.at)

\* The tag method returns the name of the tag that was reported, although the
\* name is set by a callback that may have run several events earlier.
TagIsOfTheEvent ==
  Idle /\ seen.kind \in {"START_TAG", "END_TAG"}
    => currentElm = doc[seen.at].n

\* A parse that ended, well or badly, has released its channel, file or string.
InputReleased ==
  Idle /\ state \in {"END_DOCUMENT", "PARSE_ERROR"} => input = "none"

\* What the methods text and tag return belongs to the event that was reported.
ReportIsOfTheEvent == TypeOK /\ TextIsOwn /\ TagIsOfTheEvent

\* Every way out of a call and out of a parse leaves handlers and input as the
\* state needs them, and behind a text the tag that ended it.
ParserFollowsState == HandlersMatchMode /\ InputReleased /\ TextHasSuccessor

\* A script that keeps calling next comes to the end of the document or to an
\* error, whatever it skips and searches on the way, unless it resets.
DocumentEnds ==
  state = "START_DOCUMENT"
    ~> state \in {"END_DOCUMENT", "PARSE_ERROR", "READY"}

\* Every call reports the event PullStream promises: next the following one,
\* skip the matching end tag, find-element the next start tag of that name.
ImplementsPullStream == Stream!Spec

=============================================================================
