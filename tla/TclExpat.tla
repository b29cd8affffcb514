------------------------------ MODULE TclExpat ------------------------------
(* The push parser commands of generic/tclexpat.c.  expat is external: it     *)
(* hands over the tokens of a document in order and stops at the next token   *)
(* after XML_StopParser.  One token is one expat callback, which walks the    *)
(* Tcl handler sets, first for the text collected, then for the event; one    *)
(* action is one set's script and its answer.  The handler sets are fixed,    *)
(* and of the C handler sets only the schema is here.                         *)
EXTENDS Integers, Sequences

CONSTANTS Docs,     \* documents: sequences of tokens, elements balanced
          Entities, \* the contents of external entities, without "ext"
          N,        \* handler sets 1 .. N, in the order of the list
          Scripts,  \* [1 .. N -> SUBSET Events], the events with a script
          IgnoreWhite, \* the sets with -ignorewhitecdata
          Codes,    \* the result codes of scripts
          Validates, \* TRUE: the parser has a -validateCmd
          Shares,   \* TRUE: another parser uses the same schema command
          LeavesInEntity, \* TRUE: the set that gave an external entity may
                    \* answer break or continue to what it contains
          MaxCount  \* bound of continueCount

\* The handlers that look at the status before they see to the text collected,
\* those that do it afterwards, and those that leave the text alone.
CheckFirst == {"start", "end", "pi", "comment", "startcdata", "endcdata", "ext"}
DispatchFirst == {"default", "entitydecl", "notation", "notstandalone",
                  "elementdecl", "attlist", "startdoctype", "enddoctype"}
UndispatchedMutExt == {"startns", "endns", "xmldecl", "ext"}
Undispatched == {"startns", "endns", "xmldecl"}
Events == CheckFirst \union DispatchFirst \union Undispatched \union {"text"}
Tokens == Events \union {"white", "encoding", "bad"}

ASSUME TclExpatAssumption ==
  /\ N \in Nat \ {0} /\ MaxCount \in Nat /\ LeavesInEntity \in BOOLEAN
  /\ Docs \subseteq Seq(Tokens) /\ Entities \subseteq Seq(Tokens \ {"ext"})
  /\ Codes \subseteq {"ok", "continue", "break", "error", "return", "wrong"}
  /\ Scripts \in [1 .. N -> SUBSET Events] /\ IgnoreWhite \subseteq 1 .. N

VARIABLES doc, pos, upto,  \* the document, tokens read, tokens given so far
          depth, xml,      \* open elements, and what expat accepts next
          halted,          \* the expat parser stopped by a script
          parser, outer,   \* expat->parser; the document around the entity
          parsingState, finished, final, whole,
          wsCheck,         \* expat->needWSCheck
          status, cdata,   \* expat->status; the positions of the text collected
          setStatus, continueCount,
          at,              \* the callback being walked
          schema, user,    \* the schema's state, and who validates with it
          told, erred, result  \* the set asked last; the last call's outcome

docVars == <<doc, pos, upto, depth, xml>>
flags == <<parsingState, finished, final, whole, wsCheck>>
sets == <<setStatus, continueCount>>
vars == <<docVars, halted, parser, outer, flags, status, cdata, sets, at,
          schema, user, told, erred, result>>

NoEvent == [e |-> "none", text |-> FALSE, set |-> 0]
Walking == at # NoEvent
Idle == parsingState < 2
Hears(i) == setStatus[i] = "ok"

Init ==
  /\ doc = <<>> /\ pos = 0 /\ upto = 0 /\ depth = 0 /\ xml = "ready"
  /\ halted = "none" /\ parser = "main" /\ outer = <<>>
  /\ parsingState = 0 /\ finished = FALSE /\ final = TRUE /\ whole = FALSE
  /\ wsCheck = (IgnoreWhite # {})
  /\ status = "ok" /\ cdata = {} /\ at = NoEvent
  /\ setStatus = [i \in 1 .. N |-> "ok"] /\ continueCount = [i \in 1 .. N |-> 0]
  /\ schema = "READY" /\ user = "none" /\ told = 0 /\ erred = FALSE /\ result = "ok"

(* ------------------------------ the schema ------------------------------- *)
SchemaReset == IF Validates THEN schema' = "READY" /\ user' = "none"
               ELSE UNCHANGED <<schema, user>>

\* Another parser validates a document of its own in chunks: it starts only
\* with a schema that is ready, and resets it at the end.
OtherValidation ==
  /\ Validates /\ Shares
  /\ \/ schema = "READY" /\ schema' = "VALIDATING" /\ user' = "other"
     \/ user = "other" /\ schema' = "READY" /\ user' = "none"
  /\ told' = 0
  /\ UNCHANGED <<docVars, halted, parser, outer, flags, status, cdata, sets, at,
                 erred, result>>

(* ------------------------------- the calls ------------------------------- *)
\* The parse methods: a finished parser is initialised again, which leaves the
\* status of the handler sets alone.
InitializeParser ==
  doc' \in Docs /\ pos' = 0 /\ depth' = 0 /\ status' = "ok" /\ cdata' = {}

\* The end of a call: an error or the final part ends the document.
DoneMutKeepsSchema(res) ==
  /\ parsingState' = 1 /\ result' = res /\ whole' = FALSE /\ told' = 0
  /\ wsCheck' = wsCheck /\ final' = (final \/ res = "error") /\ finished' = final'
  /\ IF final THEN SchemaReset ELSE UNCHANGED <<schema, user>>
Done(res) ==
  /\ parsingState' = 1 /\ result' = res /\ whole' = FALSE /\ told' = 0
  /\ wsCheck' = wsCheck /\ final' = (final \/ res = "error") /\ finished' = final'
  /\ IF final' THEN SchemaReset ELSE UNCHANGED <<schema, user>>

SchemaBusy == Validates /\ parsingState = 0 /\ schema # "READY"

\* parse with a chunk of the document, parsechannel and parsefile with all of it.
Parse ==
  /\ Idle /\ ~Walking /\ ~SchemaBusy
  /\ \A i \in 1 .. N : continueCount[i] <= MaxCount
  /\ IF finished \/ parsingState = 0
     THEN /\ InitializeParser /\ SchemaReset /\ xml' = "ready" /\ halted' = "none"
          /\ UNCHANGED outer
     ELSE UNCHANGED <<doc, pos, depth, status, cdata, schema, user, xml, halted, outer>>
  /\ finished' = FALSE /\ parsingState' = 2 /\ erred' = FALSE /\ told' = 0
  /\ \E w \in BOOLEAN :
       /\ whole' = w
       /\ IF w \/ final THEN upto' = Len(doc') ELSE upto' \in pos' .. Len(doc')
  /\ UNCHANGED <<final, wsCheck, parser, sets, at, result>>

\* A channel or file that cannot be opened: the parser has been initialised.
ParseFails ==
  /\ Idle /\ ~Walking /\ ~SchemaBusy /\ \A i \in 1 .. N : continueCount[i] <= MaxCount
  /\ IF finished
     THEN InitializeParser /\ upto' = 0 /\ xml' = "ready" /\ halted' = "none"
     ELSE UNCHANGED <<doc, pos, upto, depth, status, cdata, xml, halted>>
  /\ Done("error")
  /\ erred' = FALSE
  /\ UNCHANGED <<parser, outer, sets, at>>

\* reset also takes back the options, and forgets that a set wants the check for
\* white space though the set itself keeps -ignorewhitecdata.
Reset ==
  /\ Idle /\ ~Walking
  /\ InitializeParser /\ SchemaReset /\ upto' = 0 /\ xml' = "ready" /\ halted' = "none"
  /\ parsingState' = 0 /\ finished' = FALSE /\ final' = TRUE /\ wsCheck' = FALSE /\ told' = 0
  /\ UNCHANGED <<whole, parser, outer, sets, at, erred, result>>

\* free, and a new parser under the same name with the same options.
Recreate ==
  /\ Idle /\ ~Walking /\ SchemaReset
  /\ doc' = <<>> /\ pos' = 0 /\ upto' = 0 /\ depth' = 0 /\ xml' = "ready"
  /\ halted' = "none" /\ parser' = "main" /\ outer' = <<>>
  /\ parsingState' = 0 /\ finished' = FALSE /\ final' = TRUE /\ whole' = FALSE
  /\ wsCheck' = (IgnoreWhite # {})
  /\ status' = "ok" /\ cdata' = {} /\ told' = 0 /\ erred' = FALSE /\ result' = "ok"
  /\ setStatus' = [i \in 1 .. N |-> "ok"] /\ continueCount' = [i \in 1 .. N |-> 0]
  /\ UNCHANGED at

ConfigureFinal ==
  /\ Idle /\ ~Walking /\ final' \in BOOLEAN /\ told' = 0
  /\ UNCHANGED <<docVars, halted, parser, outer, parsingState, finished, whole,
                 wsCheck, status, cdata, sets, at, schema, user, erred, result>>

(* ---------------------------- expat's tokens ----------------------------- *)
AtToken(kinds) == /\ ~Idle /\ ~Walking /\ halted # parser /\ xml = "ready"
                  /\ pos < upto /\ doc[pos + 1] \in kinds /\ pos' = pos + 1
Token == doc[pos']

CharacterData ==
  /\ AtToken({"text", "white"}) /\ status = "ok"
  /\ cdata' = cdata \union {pos'} /\ told' = 0
  /\ UNCHANGED <<doc, upto, depth, xml, halted, parser, outer, flags, status, sets,
                 at, schema, user, erred, result>>

\* The other handlers: the walk over the handler sets begins, for the text
\* collected or for the event itself.
Callback(k, levels) ==
  /\ AtToken({k}) /\ status = "ok"
  /\ at' = [e |-> k, text |-> cdata # {} /\ k \notin Undispatched, set |-> 1]
  /\ depth' = depth + levels /\ told' = 0
  /\ UNCHANGED <<doc, upto, xml, halted, parser, outer, flags, status, cdata, sets,
                 schema, user, erred, result>>

ElementStart == Callback("start", 1)
ElementEnd == Callback("end", -1)
StartNamespaceDecl == Callback("startns", 0)
EndNamespaceDecl == Callback("endns", 0)
ProcessingInstruction == Callback("pi", 0)
Default == Callback("default", 0)
EntityDecl == Callback("entitydecl", 0)
NotationDecl == Callback("notation", 0)
ExternalEntityRef == Callback("ext", 0)
Comment == Callback("comment", 0)
NotStandalone == Callback("notstandalone", 0)
StartCdataSection == Callback("startcdata", 0)
EndCdataSection == Callback("endcdata", 0)
ElementDecl == Callback("elementdecl", 0)
AttlistDecl == Callback("attlist", 0)
StartDoctypeDecl == Callback("startdoctype", 0)
EndDoctypeDecl == Callback("enddoctype", 0)
XmlDecl == Callback("xmldecl", 0)

Event ==
  \/ ElementStart \/ ElementEnd \/ StartNamespaceDecl \/ EndNamespaceDecl
  \/ ProcessingInstruction \/ Default \/ EntityDecl \/ NotationDecl
  \/ ExternalEntityRef \/ Comment \/ NotStandalone \/ StartCdataSection
  \/ EndCdataSection \/ ElementDecl \/ AttlistDecl \/ StartDoctypeDecl
  \/ EndDoctypeDecl \/ XmlDecl

\* An encoding expat does not know is an error as soon as there is a handler set.
UnknownEncoding ==
  /\ AtToken({"encoding"}) /\ parser = "main" /\ status = "ok" /\ xml' = "error"
  /\ told' = 0
  /\ UNCHANGED <<doc, upto, depth, halted, parser, outer, flags, status, cdata, sets,
                 at, schema, user, erred, result>>

\* After a script stopped the parsing inside an entity expat reads on outside,
\* but no handler does anything any more.
Ignored ==
  /\ AtToken(Tokens \ {"bad"}) /\ status # "ok" /\ told' = 0
  /\ UNCHANGED <<doc, upto, depth, xml, halted, parser, outer, flags, status, cdata,
                 sets, at, schema, user, erred, result>>

(* ------------------------------- the walk -------------------------------- *)
NextSet == [at EXCEPT !.set = @ + 1]
Current == IF at.text THEN "text" ELSE at.e

\* The end of the element that set i skips: it hears again.
Wakes(i) == Current = "end" /\ setStatus[i] = "continue" /\ continueCount[i] = 1
Woken(i) == IF Wakes(i) THEN [setStatus EXCEPT ![i] = "ok"] ELSE setStatus
Counted(i) == IF Wakes(i) THEN [continueCount EXCEPT ![i] = 0] ELSE continueCount

\* TclExpatHandlerResult.  A later error or return takes the place of an earlier.
HandlerResult(i, c) ==
  /\ setStatus' = IF c \in {"ok", "continue", "break"}
                  THEN [setStatus EXCEPT ![i] = c] ELSE Woken(i)
  /\ continueCount' = IF c = "continue" THEN [continueCount EXCEPT ![i] = 1] ELSE Counted(i)
  /\ status' = IF c \in {"error", "return", "exterror"} THEN c ELSE status
  /\ halted' = IF c \in {"error", "return", "exterror"} THEN parser ELSE halted
  /\ erred' = (erred \/ c \in {"error", "exterror"})

\* Elements that start or end while a set skips are counted.
CountStartMutOnce(n) == n
CountStart(n) == n + 1

SkipSet ==
  /\ Walking /\ at.set <= N /\ ~Hears(at.set) /\ at' = NextSet /\ told' = 0
  /\ LET i == at.set
         n == continueCount[i]
     IN /\ ~Wakes(i)
        /\ continueCount' =
             IF setStatus[i] # "continue" THEN continueCount
             ELSE [continueCount EXCEPT ![i] =
                     CASE Current = "start" -> CountStart(n)
                       [] Current = "end" -> n - 1
                       [] OTHER -> n]
  /\ UNCHANGED <<docVars, halted, parser, outer, flags, status, cdata, setStatus,
                 schema, user, erred, result>>

\* White space only counts as such while the check is wanted.
OnlyWhite == wsCheck /\ \A p \in cdata : doc[p] = "white"
Silent(i) == \/ Current \notin Scripts[i]
             \/ Current = "text" /\ i \in IgnoreWhite /\ OnlyWhite
Listens == Walking /\ at.set <= N /\ (Hears(at.set) \/ Wakes(at.set))

NoScript ==
  /\ Listens /\ Silent(at.set)
  /\ setStatus' = Woken(at.set) /\ continueCount' = Counted(at.set)
  /\ at' = NextSet /\ told' = 0
  /\ UNCHANGED <<docVars, halted, parser, outer, flags, status, cdata, schema, user,
                 erred, result>>

\* An answer that the end of the entity is to take back.
Leaves(c) == c \in {"break", "continue"} /\ outer # <<>> /\ outer[1].set = at.set

RunScript(c) ==
  /\ Listens /\ ~Silent(at.set) /\ Current # "ext" /\ c # "wrong"
  /\ LeavesInEntity \/ ~Leaves(c)
  /\ HandlerResult(at.set, c)
  /\ at' = NextSet /\ told' = at.set
  /\ UNCHANGED <<docVars, parser, outer, flags, cdata, schema, user, result>>

\* The schema is asked after all handler sets; a violation is an error of the
\* parse, and so is a schema that somebody else has reset.
Probe(e) ==
  LET ok == \/ ~Validates \/ e \notin {"start", "end", "text"}
            \/ schema = "VALIDATING" \/ (schema = "READY" /\ e = "start")
  IN \/ /\ ok
        /\ IF Validates /\ e = "start" /\ schema = "READY"
           THEN schema' = "VALIDATING" /\ user' = "me" ELSE UNCHANGED <<schema, user>>
        /\ UNCHANGED <<status, halted, erred>>
     \/ /\ Validates /\ e \in {"start", "end", "text"}
        /\ schema' = IF schema = "READY" /\ e # "start" THEN schema ELSE "ERROR"
        /\ user' = IF schema = "READY" /\ e = "start" THEN "me" ELSE user
        /\ status' = "error" /\ halted' = parser /\ erred' = TRUE

TextWalked ==
  /\ at.text /\ at.set > N /\ Probe("text")
  /\ cdata' = {} /\ told' = 0
  /\ at' = IF at.e = "entityEnd" \/ (at.e \in DispatchFirst /\ status' # "ok") THEN NoEvent
           ELSE [at EXCEPT !.text = FALSE, !.set = 1]
  /\ UNCHANGED <<docVars, parser, outer, flags, sets, result>>

EventWalked ==
  /\ Walking /\ ~at.text /\ at.set > N
  /\ Probe(at.e)
  /\ at' = NoEvent /\ told' = 0
  \* nobody resolved the entity
  /\ xml' = IF at.e = "ext" THEN "error" ELSE xml
  /\ UNCHANGED <<doc, pos, upto, depth, parser, outer, flags, cdata, sets, result>>

(* --------------------------- external entities --------------------------- *)
\* The script of an -externalentitycommand either gives the entity, leaves it
\* to the next set or makes expat report an error.
ResolveEntity(c) ==
  /\ Listens /\ ~Silent(at.set) /\ Current = "ext"
  /\ told' = at.set
  /\ \/ /\ c = "ok"
        /\ outer' = <<[doc |-> doc, pos |-> pos, upto |-> upto, set |-> at.set]>>
        /\ doc' \in Entities /\ pos' = 0 /\ upto' = Len(doc') /\ parser' = "entity"
        /\ at' = NoEvent
        /\ UNCHANGED <<xml, sets, status, halted, erred>>
     \/ /\ c = "continue" /\ at' = NextSet
        /\ UNCHANGED <<doc, pos, upto, xml, sets, status, halted, erred, outer, parser>>
     \/ /\ c \notin {"ok", "continue"} /\ at' = NoEvent /\ xml' = "error"
        /\ HandlerResult(at.set, IF c \in {"error", "wrong"} THEN "exterror" ELSE c)
        /\ UNCHANGED <<doc, pos, upto, outer, parser>>
  /\ UNCHANGED <<depth, flags, cdata, schema, user, result>>

InEntity == parser = "entity" /\ ~Walking
LeaveEntity == /\ doc' = outer[1].doc /\ pos' = outer[1].pos /\ upto' = outer[1].upto
               /\ outer' = <<>> /\ parser' = "main" /\ told' = 0
               /\ UNCHANGED <<depth, flags, cdata, at, schema, user, result>>

LastText ==
  /\ InEntity /\ pos = upto /\ cdata # {} /\ status = "ok" /\ told' = 0
  /\ at' = [e |-> "entityEnd", text |-> TRUE, set |-> 1]
  /\ UNCHANGED <<docVars, halted, parser, outer, flags, status, cdata, sets, schema,
                 user, erred, result>>

\* The set that gave the entity hears again, and expat reads on outside even
\* when a script stopped the parser of the entity.
EntityEnd ==
  /\ InEntity /\ (pos = upto \/ halted = "entity") /\ (cdata = {} \/ status # "ok")
  /\ LeaveEntity /\ halted' = "none"
  /\ setStatus' = [setStatus EXCEPT ![outer[1].set] = "ok"]
  /\ UNCHANGED <<xml, continueCount, status, erred>>

MalformedEntityMutKeepsParser ==
  /\ InEntity /\ halted # "entity" /\ pos < upto
  /\ doc[pos + 1] \in {"bad", "encoding"}
  /\ doc' = outer[1].doc /\ pos' = outer[1].pos /\ upto' = outer[1].upto
  /\ outer' = <<>> /\ told' = 0 /\ UNCHANGED <<parser, depth, flags, cdata, at, sets>>
  /\ status' = "exterror" /\ halted' = "main" /\ erred' = TRUE /\ xml' = "error"
  /\ UNCHANGED <<schema, user, result>>
\* An entity expat cannot read, or in an encoding it does not know.
MalformedEntity ==
  /\ InEntity /\ halted # "entity" /\ pos < upto
  /\ doc[pos + 1] \in {"bad", "encoding"}
  /\ LeaveEntity
  /\ status' = "exterror" /\ halted' = "main" /\ erred' = TRUE /\ xml' = "error"
  /\ UNCHANGED sets

(* -------------------------- the end of a call ---------------------------- *)
Malformed ==
  /\ AtToken({"bad"}) /\ parser = "main" /\ xml' = "error" /\ told' = 0
  /\ UNCHANGED <<doc, upto, depth, halted, parser, outer, flags, status, cdata, sets,
                 at, schema, user, erred, result>>

\* Without an error from expat the status tells the result.
EndOfInput ==
  /\ ~Idle /\ ~Walking /\ parser = "main" /\ xml = "ready"
  /\ pos = upto \/ halted = "main"
  /\ xml' = IF halted = "main" THEN "suspended"
            ELSE IF final \/ whole THEN "finished" ELSE xml
  /\ Done(IF status \in {"ok", "return"} THEN "ok" ELSE "error")
  /\ UNCHANGED <<doc, pos, upto, depth, halted, parser, outer, status, cdata, sets, at,
                 erred>>

\* An error from expat, which also refuses to go on when it is suspended or has
\* read to the end.
ExpatError ==
  /\ ~Idle /\ ~Walking /\ xml # "ready"
  /\ Done("error")
  /\ UNCHANGED <<docVars, halted, parser, outer, status, cdata, sets, at, erred>>

Calls == Parse \/ ParseFails \/ Reset \/ Recreate \/ ConfigureFinal
Callbacks ==
  \/ CharacterData \/ Event \/ UnknownEncoding \/ Ignored \/ Malformed
  \/ SkipSet \/ NoScript \/ TextWalked \/ EventWalked
  \/ \E c \in Codes : RunScript(c) \/ ResolveEntity(c)
  \/ LastText \/ EntityEnd \/ MalformedEntity \/ EndOfInput \/ ExpatError

Next == Calls \/ Callbacks \/ OtherValidation
Spec == Init /\ [][Next]_vars

(* ------------------------------ properties ------------------------------- *)
\* The types of the variables; a continued set counts at least the element that
\* is to end (tclexpat.c, TclGenExpatInfo and TclHandlerSet).
TypeOK ==
  /\ pos \in 0 .. upto /\ upto \in 0 .. Len(doc) /\ depth \in Int
  /\ xml \in {"ready", "error", "suspended", "finished"}
  /\ halted \in {"none", "main", "entity"} /\ parser \in {"main", "entity"}
  /\ parsingState \in 0 .. 2 /\ {finished, final, whole, wsCheck, erred} \subseteq BOOLEAN
  /\ status \in {"ok", "error", "return", "exterror"}
  /\ setStatus \in [1 .. N -> {"ok", "continue", "break"}]
  /\ \A i \in 1 .. N : /\ continueCount[i] \in Nat
                       /\ setStatus[i] = "continue" => continueCount[i] > 0
  /\ schema \in {"READY", "VALIDATING", "ERROR"} /\ user \in {"none", "me", "other"}
  /\ told \in 0 .. N /\ result \in {"ok", "error"}

\* The text collected is the whole run of character data up to here, of this
\* entity alone: no callback but that of a namespace declaration intervenes
\* before the text is reported, and text is reported once (DispatchPCDATA).
TextIsWhole ==
  status = "ok" /\ xml = "ready" /\ ~Walking /\ (parser = "entity" => pos < upto) =>
    cdata = {p \in 1 .. pos : /\ doc[p] \in {"text", "white"}
                              /\ \A q \in p .. pos : doc[q] \in {"text", "white"} \union Undispatched}

\* A parser that has nothing in progress does not hold the schema in the middle
\* of a validation, whichever way the last parse ended (resetsdata).
SchemaReleased == Idle /\ (finished \/ parsingState = 0) => user # "me"

\* expat->parser is the main parser again whenever no entity is being read,
\* whichever way the entity ended (TclGenExpatExternalEntityRefHandler).
ParserRestored == /\ parser = "main" <=> outer = <<>>
                  /\ Idle => parser = "main"

\* Whichever way a parse or an entity ended, nothing of it stays behind.
ParseLeavesNothing == TypeOK /\ SchemaReleased /\ ParserRestored

\* What each handler set is told, as the return codes promise (HandlerSets).  It
\* holds as long as no set leaves the entity it gave by break or continue.
Passed(i) == Walking /\ ~at.text /\ at.set > i
Level(i) == IF ~Walking \/ Passed(i) THEN depth
            ELSE IF at.e = "start" THEN depth - 1
            ELSE IF at.e = "end" THEN depth + 1 ELSE depth
Sets == INSTANCE HandlerSets WITH
  Sets <- 1 .. N,
  level <- [i \in 1 .. N |-> Level(i)],
  mode <- [i \in 1 .. N |-> CASE setStatus[i] = "ok" -> "hears"
                              [] setStatus[i] = "continue" -> "skips"
                              [] OTHER -> "broken"],
  from <- [i \in 1 .. N |-> IF setStatus[i] = "continue"
                            THEN Level(i) - continueCount[i] + 1 ELSE 0]
ImplementsHandlerSets == Sets!Spec

=============================================================================
