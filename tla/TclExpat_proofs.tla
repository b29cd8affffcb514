--------------------------- MODULE TclExpat_proofs ---------------------------
(* Proofs about TclExpat for any documents and entities, any number of handler *)
(* sets with any scripts, and any use of a schema: the text reported is whole, *)
(* a parse leaves nothing behind, and every handler set is told what the       *)
(* return codes promise.                                                      *)
EXTENDS TclExpat, SequenceTheorems, TLAPS

\* The character data that ends at position n of d, namespace scopes aside.
Run(d, n) == {p \in 1 .. n : /\ d[p] \in {"text", "white"}
                             /\ \A q \in p .. n : d[q] \in {"text", "white"} \union Undispatched}

Places == /\ doc \in Seq(Tokens) /\ upto \in 0 .. Len(doc) /\ pos \in 0 .. upto /\ depth \in Int

Switches ==
  /\ xml \in {"ready", "error", "suspended", "finished"}
  /\ halted \in {"none", "main", "entity"} /\ parser \in {"main", "entity"}
  /\ parsingState \in {0, 1, 2}
  /\ status \in {"ok", "error", "return", "exterror"}
  /\ schema \in {"READY", "VALIDATING", "ERROR"} /\ user \in {"none", "me", "other"}
  /\ told \in 0 .. N /\ result \in {"ok", "error"}

Booleans == finished \in BOOLEAN /\ final \in BOOLEAN /\ whole \in BOOLEAN /\ wsCheck \in BOOLEAN /\ erred \in BOOLEAN

SetsTyped ==
  /\ setStatus \in [1 .. N -> {"ok", "continue", "break"}] /\ continueCount \in [1 .. N -> Nat]
  /\ \A i \in 1 .. N : setStatus[i] = "continue" => continueCount[i] > 0

\* The callback being walked is that of the token just read, or the text left
\* over at the end of an entity.
Steps == [e : (Events \ {"text"}) \cup {"entityEnd"}, text : BOOLEAN, set : 1 .. N + 1]
WalkOK ==
  Walking => /\ at \in Steps /\ parsingState = 2 /\ xml = "ready"
             /\ at.text => at.e \notin Undispatched
             /\ at.e = "entityEnd" => at.text /\ parser = "entity" /\ pos = upto
             /\ at.e # "entityEnd" => pos > 0 /\ doc[pos] = at.e
             /\ at.e = "ext" => parser = "main"

\* What waits outside while an entity is read.
Outside == [doc : Seq(Tokens), pos : Nat, upto : Nat, set : 1 .. N]
Around ==
  \/ parser = "main" /\ outer = <<>>
  \/ /\ parser = "entity" /\ parsingState = 2 /\ xml = "ready"
     /\ doc \in Seq(Tokens \ {"ext"})
     /\ \E o \in Outside : /\ outer = <<o>> /\ o.upto <= Len(o.doc)
                           /\ o.pos \in 1 .. o.upto /\ o.doc[o.pos] = "ext"

\* This parser is in the middle of a validation only while it has a document.
SchemaHeld == /\ ~Validates => user = "none"
              /\ user = "me" => parsingState # 0 /\ ~(parsingState = 1 /\ finished)

\* The text collected, at every point of a walk.
Collected ==
  status = "ok" =>
    /\ ~Walking /\ xml = "ready" =>
          cdata = Run(doc, pos) \/ (parser = "entity" /\ pos = upto /\ cdata = {})
    /\ Walking /\ ~at.text => cdata = IF at.e \in Undispatched THEN Run(doc, pos) ELSE {}

Inv == Places /\ Switches /\ Booleans /\ SetsTyped /\ WalkOK /\ Around /\ SchemaHeld /\ Collected

-----------------------------------------------------------------------------
\* A parser that has just been made has no document, no sets at work and nothing collected.
LEMMA InitInv == Init => Inv
<1> SUFFICES ASSUME Init PROVE Inv OBVIOUS
<1>1. N \in Nat \ {0} BY TclExpatAssumption
<1>2. Places /\ SetsTyped BY <1>1, EmptySeq DEF Init, Places, SetsTyped
<1>3. Switches BY <1>1 DEF Init, Switches
<1>4. WalkOK /\ Around /\ SchemaHeld BY DEF Init, WalkOK, Walking, Around, SchemaHeld
<1>5. Collected
  <2>1. Run(doc, 0) = {} BY DEF Run
  <2>2. QED BY <2>1 DEF Init, Collected, Walking
<1>6. Booleans BY DEF Init, Booleans
<1>7. QED BY <1>2, <1>3, <1>4, <1>5, <1>6 DEF Inv

-----------------------------------------------------------------------------
\* A parse that begins, or begins anew, has collected nothing.
LEMMA FreshText ==
    ASSUME at = NoEvent, at' = at,
           \/ doc' \in Seq(Tokens) /\ pos' = 0 /\ cdata' = {}
           \/ /\ UNCHANGED <<doc, pos, cdata, status, xml>> /\ Collected /\ parser = "main"
    PROVE  Collected'
<1>1. CASE doc' \in Seq(Tokens) /\ pos' = 0 /\ cdata' = {}
  <2>1. Run(doc', 0) = {} BY DEF Run
  <2>2. QED BY <1>1, <2>1 DEF Collected, Walking
<1>2. CASE UNCHANGED <<doc, pos, cdata, status, xml>> /\ Collected /\ parser = "main"
  BY <1>2 DEF Collected, Walking
<1>3. QED BY <1>1, <1>2

\* The calls of the parser command, between documents and parts of documents.
LEMMA CallsKeep ==
    ASSUME Inv, Parse \/ ParseFails \/ Reset \/ Recreate \/ ConfigureFinal \/ OtherValidation
                \/ EndOfInput \/ ExpatError
    PROVE  Inv'
<1>0. /\ Places /\ Switches /\ Booleans /\ SetsTyped /\ WalkOK /\ Around /\ SchemaHeld /\ Collected
      /\ Docs \subseteq Seq(Tokens) /\ N \in Nat \ {0} /\ <<>> \in Seq(Tokens) /\ Len(<<>>) = 0
      /\ \A d \in Seq(Tokens) : Len(d) \in Nat
  BY TclExpatAssumption, EmptySeq, LenProperties DEF Inv
<1>1. Idle => parser = "main" /\ outer = <<>> BY <1>0 DEF Around, Idle
<1>2. CASE Parse
  <2>1. Places' BY <1>0, <1>2 DEF Parse, InitializeParser, Places
  <2>2. Switches' BY <1>0, <1>2 DEF Parse, InitializeParser, SchemaReset, Switches
  <2>3. SetsTyped' BY <1>0, <1>2 DEF Parse, SetsTyped, sets
  <2>4. WalkOK' BY <1>2 DEF Parse, WalkOK, Walking
  <2>5. Around' BY <1>0, <1>2 DEF Parse, Around, Idle
  <2>6. SchemaHeld' BY <1>0, <1>2 DEF Parse, SchemaHeld, SchemaReset
  <2>7. Collected' BY <1>0, <1>1, <1>2, FreshText DEF Parse, InitializeParser, Walking
  <2>8. Booleans' BY <1>0, <1>2 DEF Parse, Booleans
  <2>9. QED BY <2>1, <2>2, <2>3, <2>4, <2>5, <2>6, <2>7, <2>8 DEF Inv
<1>3. CASE ParseFails
  <2>1. Places' BY <1>0, <1>3 DEF ParseFails, InitializeParser, Places
  <2>2. Switches'
    BY <1>0, <1>3 DEF ParseFails, InitializeParser, Done, SchemaReset, Switches
  <2>3. SetsTyped' BY <1>0, <1>3 DEF ParseFails, SetsTyped, sets
  <2>4. WalkOK' BY <1>3 DEF ParseFails, WalkOK, Walking
  <2>5. Around' BY <1>0, <1>1, <1>3 DEF ParseFails, Around
  <2>6. SchemaHeld' BY <1>0, <1>3 DEF ParseFails, SchemaHeld, Done, SchemaReset
  <2>7. Collected' BY <1>0, <1>1, <1>3, FreshText DEF ParseFails, InitializeParser, Walking
  <2>8. Booleans' BY <1>0, <1>3 DEF ParseFails, Done, Booleans
  <2>9. QED BY <2>1, <2>2, <2>3, <2>4, <2>5, <2>6, <2>7, <2>8 DEF Inv
<1>4. CASE Reset
  <2>1. Places' BY <1>0, <1>4 DEF Reset, InitializeParser, Places
  <2>2. Switches' BY <1>0, <1>4 DEF Reset, InitializeParser, SchemaReset, Switches
  <2>3. SetsTyped' BY <1>0, <1>4 DEF Reset, SetsTyped, sets
  <2>4. WalkOK' BY <1>4 DEF Reset, WalkOK, Walking
  <2>5. Around' BY <1>0, <1>1, <1>4 DEF Reset, Around
  <2>6. SchemaHeld' BY <1>0, <1>4 DEF Reset, SchemaHeld, SchemaReset
  <2>7. Collected' BY <1>0, <1>1, <1>4, FreshText DEF Reset, InitializeParser, Walking
  <2>8. Booleans' BY <1>0, <1>4 DEF Reset, Booleans
  <2>9. QED BY <2>1, <2>2, <2>3, <2>4, <2>5, <2>6, <2>7, <2>8 DEF Inv
<1>5. CASE Recreate
  <2>1. Places' BY <1>0, <1>5 DEF Recreate, Places
  <2>2. Switches' BY <1>0, <1>5 DEF Recreate, SchemaReset, Switches
  <2>3. SetsTyped' BY <1>0, <1>5 DEF Recreate, SetsTyped
  <2>4. WalkOK' BY <1>5 DEF Recreate, WalkOK, Walking
  <2>5. Around' BY <1>5 DEF Recreate, Around
  <2>6. SchemaHeld' BY <1>0, <1>5 DEF Recreate, SchemaHeld, SchemaReset
  <2>7. Collected' BY <1>0, <1>5, FreshText DEF Recreate, Walking
  <2>8. Booleans' BY <1>5 DEF Recreate, Booleans
  <2>9. QED BY <2>1, <2>2, <2>3, <2>4, <2>5, <2>6, <2>7, <2>8 DEF Inv
<1>6. CASE ConfigureFinal
  <2>1. UNCHANGED <<doc, pos, upto, depth, xml, halted, parser, outer, parsingState, finished,
                    whole, wsCheck, status, cdata, setStatus, continueCount, at, schema, user, erred,
                    result>> /\ final' \in BOOLEAN /\ told' = 0
    BY <1>6 DEF ConfigureFinal, docVars, sets
  <2>2. Places' /\ SetsTyped' /\ Around' /\ SchemaHeld'
    BY <1>0, <2>1 DEF Places, SetsTyped, Around, SchemaHeld
  <2>3. Switches' BY <1>0, <2>1 DEF Switches
  <2>4. WalkOK' /\ Collected' BY <1>0, <2>1 DEF WalkOK, Collected, Walking
  <2>5. Booleans' BY <1>0, <2>1 DEF Booleans
  <2>6. QED BY <2>2, <2>3, <2>4, <2>5 DEF Inv
<1>7. CASE OtherValidation
  <2>1. UNCHANGED <<doc, pos, upto, depth, xml, halted, parser, outer, parsingState, finished,
                    final, whole, wsCheck, status, cdata, setStatus, continueCount, at, erred, result>>
    BY <1>7 DEF OtherValidation, docVars, sets, flags
  <2>2. Places' /\ SetsTyped' /\ Around' BY <1>0, <2>1 DEF Places, SetsTyped, Around
  <2>3. Switches' BY <1>0, <1>7, <2>1 DEF OtherValidation, Switches
  <2>4. WalkOK' /\ Collected' BY <1>0, <2>1 DEF WalkOK, Collected, Walking
  <2>5. SchemaHeld' BY <1>7 DEF OtherValidation, SchemaHeld
  <2>6. Booleans' BY <1>0, <2>1 DEF Booleans
  <2>7. QED BY <2>2, <2>3, <2>4, <2>5, <2>6 DEF Inv
<1>8. CASE EndOfInput \/ ExpatError
  <2>0. /\ UNCHANGED <<doc, pos, upto, depth, halted, parser, outer, status, cdata, setStatus,
                       continueCount, at, erred>>
        /\ at = NoEvent /\ xml' \in {xml, "suspended", "finished"}
        /\ xml = "ready" => parser = "main"
        /\ \E r \in {"ok", "error"} : Done(r)
    BY <1>8 DEF EndOfInput, ExpatError, docVars, sets, Walking
  <2>1. Places' /\ SetsTyped' BY <1>0, <2>0 DEF Places, SetsTyped
  <2>2. Switches' BY <1>0, <2>0 DEF Done, SchemaReset, Switches
  <2>3. WalkOK' BY <2>0 DEF WalkOK, Walking
  <2>4. Around' BY <1>0, <2>0 DEF Around
  <2>5. SchemaHeld' BY <1>0, <2>0 DEF SchemaHeld, Done, SchemaReset
  <2>6. Collected' BY <1>0, <2>0 DEF Collected, Walking
  <2>7. Booleans' BY <1>0, <2>0 DEF Done, Booleans
  <2>8. QED BY <2>1, <2>2, <2>3, <2>4, <2>5, <2>6, <2>7 DEF Inv
<1>9. QED BY <1>2, <1>3, <1>4, <1>5, <1>6, <1>7, <1>8

-----------------------------------------------------------------------------
(* How the run of character data that ends here goes on with the next token.  *)
LEMMA RunGrows ==
    ASSUME NEW d \in Seq(Tokens), NEW n \in Nat
    PROVE  /\ d[n + 1] \in {"text", "white"} => Run(d, n + 1) = Run(d, n) \union {n + 1}
           /\ d[n + 1] \in Undispatched => Run(d, n + 1) = Run(d, n)
           /\ d[n + 1] \notin {"text", "white"} \union Undispatched => Run(d, n + 1) = {}
<1> DEFINE W == {"text", "white"}
           U == {"text", "white"} \union Undispatched
<1>0. \A k \in Nat : \A p : p \in Run(d, k) <=> p \in 1 .. k /\ d[p] \in W /\ \A q \in p .. k : d[q] \in U
  BY DEF Run
<1>1. \A p \in 1 .. n : p .. n + 1 = (p .. n) \cup {n + 1}
  OBVIOUS
<1>2. (n + 1) .. (n + 1) = {n + 1} /\ 1 .. n + 1 = (1 .. n) \cup {n + 1} /\ n + 1 \notin 1 .. n OBVIOUS
<1>3. W \cap Undispatched = {} BY DEF Undispatched
<1>4. ASSUME d[n + 1] \in U, NEW p \in 1 .. n PROVE p \in Run(d, n + 1) <=> p \in Run(d, n)
  <2>1. (\A q \in p .. n + 1 : d[q] \in U) <=> (\A q \in p .. n : d[q] \in U) BY <1>1, <1>4
  <2>2. QED BY <1>0, <1>2, <2>1
<1> HIDE DEF U
<1>5. CASE d[n + 1] \in W
  <2>1. d[n + 1] \in U BY <1>5 DEF U
  <2>2. n + 1 \in Run(d, n + 1) BY <1>0, <1>2, <1>5, <2>1
  <2>3. \A p : p \in Run(d, n + 1) <=> p \in Run(d, n) \/ p = n + 1
    BY <1>0, <1>2, <1>4, <2>1, <2>2
  <2>4. Run(d, n + 1) = Run(d, n) \union {n + 1} BY <2>3
  <2>5. QED BY <1>3, <1>5, <2>1, <2>4 DEF U
<1>6. CASE d[n + 1] \in Undispatched
  <2>1. d[n + 1] \in U /\ d[n + 1] \notin W BY <1>3, <1>6 DEF U
  <2>2. \A p : p \in Run(d, n + 1) <=> p \in Run(d, n) BY <1>0, <1>2, <1>4, <2>1
  <2>3. Run(d, n + 1) = Run(d, n) BY <2>2 DEF Run
  <2>4. QED BY <2>1, <2>3 DEF U
<1>7. CASE d[n + 1] \notin U
  <2>1. \A p \in 1 .. n + 1 : n + 1 \in p .. n + 1 OBVIOUS
  <2>2. \A p : p \notin Run(d, n + 1) BY <1>0, <1>7, <2>1
  <2>3. QED BY <1>7, <2>2 DEF U
<1>8. QED BY <1>5, <1>6, <1>7 DEF U

\* The tokens that start no walk.
LEMMA TokensKeep ==
    ASSUME Inv, CharacterData \/ UnknownEncoding \/ Ignored \/ Malformed
    PROVE  Inv'
<1>0. /\ Places /\ Switches /\ Booleans /\ SetsTyped /\ WalkOK /\ Around /\ SchemaHeld /\ Collected
      /\ N \in Nat \ {0}
  BY TclExpatAssumption DEF Inv
<1>1. /\ UNCHANGED <<doc, upto, depth, halted, parser, outer, parsingState, finished, final,
                     whole, wsCheck, status, setStatus, continueCount, at, schema, user, erred, result>>
      /\ at = NoEvent /\ parsingState = 2 /\ xml = "ready" /\ pos < upto /\ pos' = pos + 1
      /\ told' = 0 /\ xml' \in {xml, "error"} /\ (parser = "entity" => xml' = xml)
      /\ \/ doc[pos + 1] \in {"text", "white"} /\ cdata' = cdata \union {pos + 1}
         \/ (status # "ok" \/ xml' = "error")
  BY <1>0 DEF CharacterData, UnknownEncoding, Ignored, Malformed, AtToken, flags, sets, Walking,
              Idle, Switches
<1>2. Places' BY <1>0, <1>1 DEF Places
<1>3. Switches' BY <1>0, <1>1 DEF Switches
<1>4. SetsTyped' /\ SchemaHeld' BY <1>0, <1>1 DEF SetsTyped, SchemaHeld
<1>5. Booleans' BY <1>0, <1>1 DEF Booleans
<1>6. WalkOK' BY <1>1 DEF WalkOK, Walking
<1>7. Around' BY <1>0, <1>1 DEF Around
<1>8. Collected'
  <2>1. doc \in Seq(Tokens) /\ pos \in Nat BY <1>0 DEF Places
  <2>2. status = "ok" /\ parser = "entity" => ~(pos = upto) BY <1>1, <2>1
  <2>3. status = "ok" => cdata = Run(doc, pos) BY <1>0, <1>1, <2>2 DEF Collected, Walking
  <2>4. status = "ok" /\ xml' = "ready" => cdata' = Run(doc, pos + 1) BY <1>1, <2>1, <2>3, RunGrows
  <2>5. QED BY <1>1, <2>4 DEF Collected, Walking
<1>9. QED BY <1>2, <1>3, <1>4, <1>5, <1>6, <1>7, <1>8 DEF Inv

\* The tokens that start a walk over the handler sets.
LEMMA EventKeeps == ASSUME Inv, Event PROVE Inv'
<1>0. /\ Places /\ Switches /\ Booleans /\ SetsTyped /\ WalkOK /\ Around /\ SchemaHeld /\ Collected
      /\ N \in Nat \ {0}
  BY TclExpatAssumption DEF Inv
<1>1. PICK k \in Events \ {"text"}, n \in {-1, 0, 1} : Callback(k, n)
  BY DEF Event, ElementStart, ElementEnd, StartNamespaceDecl, EndNamespaceDecl,
         ProcessingInstruction, Default, EntityDecl, NotationDecl, ExternalEntityRef, Comment,
         NotStandalone, StartCdataSection, EndCdataSection, ElementDecl, AttlistDecl,
         StartDoctypeDecl, EndDoctypeDecl, XmlDecl, Events, CheckFirst, DispatchFirst, Undispatched
<1>2. /\ UNCHANGED <<doc, upto, xml, halted, parser, outer, parsingState, finished, final,
                     whole, wsCheck, status, cdata, setStatus, continueCount, schema, user, erred, result>>
      /\ at = NoEvent /\ parsingState = 2 /\ xml = "ready" /\ pos < upto /\ pos' = pos + 1
      /\ told' = 0 /\ depth' = depth + n /\ doc[pos + 1] = k /\ status = "ok"
      /\ at' = [e |-> k, text |-> cdata # {} /\ k \notin Undispatched, set |-> 1]
  BY <1>0, <1>1 DEF Callback, AtToken, flags, sets, Walking, Idle, Switches
<1>3. Places' BY <1>0, <1>2 DEF Places
<1>4. Switches' BY <1>0, <1>2 DEF Switches
<1>5. SetsTyped' /\ SchemaHeld' BY <1>0, <1>2 DEF SetsTyped, SchemaHeld
<1>6. Booleans' BY <1>0, <1>2 DEF Booleans
<1>7. Around' BY <1>0, <1>2 DEF Around
<1>8. k = "ext" => parser = "main"
  <2>1. ASSUME NEW d \in Seq(Tokens \ {"ext"}), NEW i \in 1 .. Len(d) PROVE d[i] # "ext"
    BY ElementOfSeq
  <2>2. pos + 1 \in 1 .. Len(doc) BY <1>0, <1>2, LenProperties DEF Places
  <2>3. QED BY <1>0, <1>2, <2>1, <2>2 DEF Around
<1>9. k # "entityEnd" BY DEF Events, CheckFirst, DispatchFirst, Undispatched
<1>10. /\ at'.e = k /\ at'.set = 1 /\ at' # NoEvent
       /\ at'.text \in BOOLEAN /\ (at'.text <=> cdata # {} /\ k \notin Undispatched)
  <2> DEFINE b == cdata # {} /\ k \notin Undispatched
  <2>1. at' = [e |-> k, text |-> b, set |-> 1] BY <1>2
  <2>2. b \in BOOLEAN OBVIOUS
  <2> HIDE DEF b
  <2>3. at'.e = k /\ at'.set = 1 /\ at'.text = b BY <2>1
  <2>4. at' # NoEvent BY <2>3 DEF NoEvent
  <2>5. QED BY <2>2, <2>3, <2>4 DEF b
<1>11. at' \in Steps BY <1>0, <1>2, <1>10 DEF Steps
<1>12. pos' > 0 BY <1>0, <1>2 DEF Places
<1>13. WalkOK' BY <1>2, <1>8, <1>9, <1>10, <1>11, <1>12 DEF WalkOK
<1>14. Collected'
  <2>1. doc \in Seq(Tokens) /\ pos \in Nat BY <1>0 DEF Places
  <2>2. cdata = Run(doc, pos) BY <1>0, <1>2 DEF Collected, Walking, Places
  <2>3. k \in Undispatched => Run(doc, pos + 1) = Run(doc, pos) BY <1>2, <2>1, RunGrows
  <2>4. QED BY <1>2, <1>10, <2>2, <2>3 DEF Collected, Walking
<1>15. QED BY <1>3, <1>4, <1>5, <1>6, <1>7, <1>13, <1>14 DEF Inv

-----------------------------------------------------------------------------
(* The walk: what a step of it may change, and what it leaves.                *)
Walks ==
  /\ Walking /\ at.set <= N
  /\ at' = [at EXCEPT !.set = @ + 1]
  /\ UNCHANGED <<doc, pos, upto, depth, xml, parser, outer, parsingState, finished, final,
                 whole, wsCheck, cdata, schema, user, result>>
  /\ status' \in {status, "error", "return", "exterror"}
  /\ told' \in {0, at.set}

\* One handler set further nothing else moves.
LEMMA WalksKeep ==
    ASSUME Inv, Walks, halted' \in {"none", "main", "entity"}, erred' \in BOOLEAN, SetsTyped'
    PROVE  Inv'
<1>0. /\ Places /\ Switches /\ Booleans /\ SetsTyped /\ WalkOK /\ Around /\ SchemaHeld /\ Collected
      /\ N \in Nat \ {0}
  BY TclExpatAssumption DEF Inv
<1>1. /\ at \in Steps /\ at.set \in 1 .. N /\ at' \in Steps /\ at'.e = at.e /\ at'.text = at.text
      /\ at'.set = at.set + 1 /\ at # NoEvent /\ at' # NoEvent
  <2>1. at \in Steps /\ at # NoEvent BY <1>0 DEF Walks, WalkOK, Walking
  <2>2. at.set \in 1 .. N BY <1>0, <2>1 DEF Walks, Steps
  <2>3. at' = [e |-> at.e, text |-> at.text, set |-> at.set + 1] BY <2>1 DEF Walks, Steps
  <2>4. at'.e = at.e /\ at'.text = at.text /\ at'.set = at.set + 1 BY <2>3
  <2>5. at' \in Steps
    <3>1. at.e \in (Events \ {"text"}) \cup {"entityEnd"} /\ at.text \in BOOLEAN BY <2>1 DEF Steps
    <3>2. at.set + 1 \in 1 .. N + 1 BY <1>0, <2>2
    <3>3. QED BY <2>3, <3>1, <3>2 DEF Steps
  <2>6. at' # NoEvent BY <1>0, <2>2, <2>4 DEF NoEvent
  <2>7. QED BY <2>1, <2>2, <2>4, <2>5, <2>6
<1>2. Places' BY <1>0 DEF Walks, Places
<1>3. Switches' BY <1>0, <1>1 DEF Walks, Switches
<1>4. SchemaHeld' /\ Around' BY <1>0 DEF Walks, SchemaHeld, Around
<1>5. Booleans' BY <1>0 DEF Walks, Booleans
<1>6. WalkOK' BY <1>0, <1>1 DEF Walks, WalkOK, Walking
<1>7. Collected'
  <2>1. status' = "ok" => status = "ok" BY DEF Walks
  <2>2. QED BY <1>0, <1>1, <2>1 DEF Walks, Collected, Walking
<1>8. QED BY <1>2, <1>3, <1>4, <1>5, <1>6, <1>7 DEF Inv

\* What the answer of a set leaves of the sets.
LEMMA AnswersTyped ==
    ASSUME SetsTyped, NEW i \in 1 .. N, NEW c, HandlerResult(i, c)
    PROVE  SetsTyped'
<1> DEFINE s1 == Woken(i)
           n1 == Counted(i)
<1>1. /\ s1 \in [1 .. N -> {"ok", "continue", "break"}] /\ n1 \in [1 .. N -> Nat]
      /\ \A j \in 1 .. N : s1[j] = "continue" => n1[j] > 0
  <2>1. CASE Wakes(i) BY <2>1 DEF Woken, Counted, SetsTyped
  <2>2. CASE ~Wakes(i) BY <2>2 DEF Woken, Counted, SetsTyped
  <2>3. QED BY <2>1, <2>2
<1> HIDE DEF s1, n1
<1>2. /\ setStatus' = IF c \in {"ok", "continue", "break"} THEN [setStatus EXCEPT ![i] = c] ELSE s1
      /\ continueCount' = IF c = "continue" THEN [continueCount EXCEPT ![i] = 1] ELSE n1
  BY DEF HandlerResult, s1, n1
<1>3. CASE c = "continue" BY <1>2, <1>3 DEF SetsTyped
<1>4. CASE c \in {"ok", "break"}
  <2>1. /\ setStatus' = [setStatus EXCEPT ![i] = c] /\ continueCount' = n1 BY <1>2, <1>4
  <2>2. \A j \in 1 .. N : j # i => n1[j] = continueCount[j]
    BY DEF n1, Counted, SetsTyped
  <2>3. QED BY <1>1, <1>4, <2>1, <2>2 DEF SetsTyped
<1>5. CASE c \notin {"ok", "continue", "break"} BY <1>1, <1>2, <1>5 DEF SetsTyped
<1>6. QED BY <1>3, <1>4, <1>5

\* The steps of a walk over the handler sets.
LEMMA WalkKeeps ==
    ASSUME Inv, SkipSet \/ NoScript \/ (\E c \in Codes : RunScript(c))
    PROVE  Inv'
<1>0. /\ Switches /\ Booleans /\ SetsTyped /\ WalkOK /\ N \in Nat \ {0}
  BY TclExpatAssumption DEF Inv
<1>1. Walking /\ at.set <= N /\ at.set \in 1 .. N
  BY <1>0 DEF SkipSet, NoScript, RunScript, Listens, WalkOK, Steps
<1>2. CASE SkipSet
  <2>1. Walks /\ halted' = halted /\ erred' = erred
    BY <1>2 DEF SkipSet, Walks, NextSet, docVars, flags
  <2>2. SetsTyped'
    <3> DEFINE i == at.set
               n == continueCount[i]
    <3>1. /\ setStatus' = setStatus /\ ~Wakes(i)
          /\ \/ continueCount' = continueCount
             \/ setStatus[i] = "continue" /\ continueCount' = [continueCount EXCEPT ![i] = n + 1]
             \/ /\ setStatus[i] = "continue" /\ continueCount' = [continueCount EXCEPT ![i] = n - 1]
                /\ Current = "end"
             \/ setStatus[i] = "continue" /\ continueCount' = [continueCount EXCEPT ![i] = n]
      BY <1>2 DEF SkipSet, CountStart
    <3>2. Current = "end" /\ setStatus[i] = "continue" => n # 1 BY <3>1 DEF Wakes
    <3>3. n \in Nat /\ (setStatus[i] = "continue" => n > 0) BY <1>0, <1>1 DEF SetsTyped
    <3>4. i \in 1 .. N BY <1>1
    <3> HIDE DEF i, n
    <3>5. setStatus[i] = "continue" /\ Current = "end" => n - 1 \in Nat /\ n - 1 > 0 BY <3>2, <3>3
    <3>6. QED BY <1>0, <3>1, <3>3, <3>4, <3>5 DEF SetsTyped
  <2>3. QED BY <1>0, <2>1, <2>2, WalksKeep DEF Switches, Booleans
<1>3. CASE NoScript
  <2>1. Walks /\ halted' = halted /\ erred' = erred
    BY <1>3 DEF NoScript, Walks, NextSet, Listens, docVars, flags
  <2>2. SetsTyped'
    BY <1>0, <1>1, <1>3 DEF NoScript, SetsTyped, Woken, Counted
  <2>3. QED BY <1>0, <2>1, <2>2, WalksKeep DEF Switches, Booleans
<1>4. ASSUME NEW c \in Codes, RunScript(c) PROVE Inv'
  <2>1. HandlerResult(at.set, c) /\ SetsTyped' BY <1>0, <1>1, <1>4, AnswersTyped DEF RunScript
  <2>2. status' \in {status, "error", "return", "exterror"} /\ halted' \in {halted, parser}
    BY <2>1 DEF HandlerResult
  <2>3. erred' \in BOOLEAN BY <1>0, <2>1 DEF HandlerResult, Booleans
  <2>4. Walks BY <1>1, <1>4, <2>2 DEF RunScript, Walks, NextSet, docVars, flags
  <2>5. halted' \in {"none", "main", "entity"} BY <1>0, <2>2 DEF Switches
  <2>6. QED BY <2>1, <2>3, <2>4, <2>5, WalksKeep
<1>5. QED BY <1>2, <1>3, <1>4

\* What the schema makes of an event.
LEMMA ProbeFacts ==
    ASSUME Switches, Booleans, SchemaHeld, WalkOK, Walking, NEW e, Probe(e),
           UNCHANGED <<parsingState, finished>>
    PROVE  /\ status' \in {status, "error"} /\ halted' \in {"none", "main", "entity"}
           /\ schema' \in {"READY", "VALIDATING", "ERROR"} /\ user' \in {"none", "me", "other"}
           /\ erred' \in BOOLEAN /\ SchemaHeld'
<1>1. status' \in {status, "error"} /\ halted' \in {halted, parser} /\ erred' \in {erred, TRUE}
  BY DEF Probe
<1>2. schema' \in {"READY", "VALIDATING", "ERROR"} /\ user' \in {"none", "me", "other"}
  BY DEF Probe, Switches
<1>3. SchemaHeld' BY DEF Probe, SchemaHeld, WalkOK
<1>4. erred' \in BOOLEAN BY <1>1 DEF Booleans
<1>5. QED BY <1>1, <1>2, <1>3, <1>4 DEF Switches

\* The end of a walk, for the text collected and for the event.
LEMMA WalkedKeeps ==
    ASSUME Inv, TextWalked \/ EventWalked
    PROVE  Inv'
<1>0. /\ Places /\ Switches /\ Booleans /\ SetsTyped /\ WalkOK /\ Around /\ SchemaHeld /\ Collected
      /\ N \in Nat \ {0}
  BY TclExpatAssumption DEF Inv
<1>1. CASE TextWalked
  <2>1. /\ at.text /\ Probe("text") /\ cdata' = {} /\ told' = 0
        /\ UNCHANGED <<doc, pos, upto, depth, xml, parser, outer, parsingState, finished, final,
                       whole, wsCheck, setStatus, continueCount, result>>
        /\ at' = IF at.e = "entityEnd" \/ (at.e \in DispatchFirst /\ status' # "ok") THEN NoEvent
                 ELSE [at EXCEPT !.text = FALSE, !.set = 1]
    BY <1>1 DEF TextWalked, docVars, flags, sets
  <2>2. Walking BY <2>1 DEF Walking, NoEvent
  <2>3. at \in Steps /\ at.e \notin Undispatched /\ at.e \in (Events \ {"text"}) \cup {"entityEnd"}
    BY <1>0, <2>1, <2>2 DEF WalkOK, Steps
  <2>4. /\ status' \in {status, "error"} /\ halted' \in {"none", "main", "entity"}
        /\ schema' \in {"READY", "VALIDATING", "ERROR"} /\ user' \in {"none", "me", "other"}
        /\ erred' \in BOOLEAN /\ SchemaHeld'
    BY <1>0, <2>1, <2>2, ProbeFacts
  <2>5. Places' /\ SetsTyped' /\ Around' BY <1>0, <2>1 DEF Places, SetsTyped, Around
  <2>6. Switches' BY <1>0, <2>1, <2>4 DEF Switches
  <2>7. Booleans' BY <1>0, <2>1, <2>4 DEF Booleans
  <2>8. CASE at' = NoEvent
    <3>1. at.e = "entityEnd" \/ status' # "ok"
      <4>1. CASE at.e = "entityEnd" BY <4>1
      <4>2. CASE at.e # "entityEnd" /\ status' = "ok"
        <5>1. at' = [at EXCEPT !.text = FALSE, !.set = 1] BY <2>1, <4>2
        <5>2. at'.set = 1 BY <2>3, <5>1 DEF Steps
        <5>3. QED BY <2>8, <5>2 DEF NoEvent
      <4>3. QED BY <4>1, <4>2
    <3>2. WalkOK' BY <2>8 DEF WalkOK, Walking
    <3>3. at.e = "entityEnd" => parser = "entity" /\ pos = upto
      BY <1>0, <2>2 DEF WalkOK
    <3>4. Collected' BY <2>1, <2>8, <3>1, <3>3 DEF Collected, Walking
    <3>5. QED BY <2>4, <2>5, <2>6, <2>7, <3>2, <3>4 DEF Inv
  <2>9. CASE at' # NoEvent
    <3>1. at' = [at EXCEPT !.text = FALSE, !.set = 1] /\ at.e # "entityEnd" BY <2>1, <2>9
    <3>2. at' = [e |-> at.e, text |-> FALSE, set |-> 1] BY <2>3, <3>1 DEF Steps
    <3>3. at'.e = at.e /\ at'.text = FALSE BY <3>2
    <3>4. at' \in Steps BY <1>0, <2>3, <3>2 DEF Steps
    <3>5. WalkOK' BY <1>0, <2>1, <2>2, <3>1, <3>3, <3>4 DEF WalkOK
    <3>6. Collected' BY <2>1, <2>3, <2>9, <3>3 DEF Collected, Walking
    <3>7. QED BY <2>4, <2>5, <2>6, <2>7, <3>5, <3>6 DEF Inv
  <2>10. QED BY <2>8, <2>9
<1>2. CASE EventWalked
  <2>1. /\ ~at.text /\ Probe(at.e) /\ at' = NoEvent /\ told' = 0 /\ Walking
        /\ UNCHANGED <<doc, pos, upto, depth, parser, outer, parsingState, finished, final,
                       whole, wsCheck, cdata, setStatus, continueCount, result>>
        /\ xml' = IF at.e = "ext" THEN "error" ELSE xml
    BY <1>2 DEF EventWalked, docVars, flags, sets
  <2>2. /\ status' \in {status, "error"} /\ halted' \in {"none", "main", "entity"}
        /\ schema' \in {"READY", "VALIDATING", "ERROR"} /\ user' \in {"none", "me", "other"}
        /\ erred' \in BOOLEAN /\ SchemaHeld'
    BY <1>0, <2>1, ProbeFacts
  <2>3. /\ at.e # "entityEnd" /\ doc[pos] = at.e /\ pos > 0 /\ at.e \in Events \ {"text"}
        /\ at.e = "ext" => parser = "main"
    BY <1>0, <2>1 DEF WalkOK, Steps
  <2>4. Places' /\ SetsTyped' BY <1>0, <2>1 DEF Places, SetsTyped
  <2>5. Around' BY <1>0, <2>1, <2>3 DEF Around
  <2>6. Switches' BY <1>0, <2>1, <2>2 DEF Switches
  <2>7. Booleans' BY <1>0, <2>1, <2>2 DEF Booleans
  <2>8. WalkOK' BY <2>1 DEF WalkOK, Walking
  <2>9. Collected'
    <3>1. doc \in Seq(Tokens) /\ pos - 1 \in Nat /\ (pos - 1) + 1 = pos BY <1>0, <2>3 DEF Places
    <3>2. at.e \notin {"text", "white"} BY <2>3 DEF Events, CheckFirst, DispatchFirst, Undispatched
    <3>3. at.e \notin Undispatched => Run(doc, pos) = {} BY <2>3, <3>1, <3>2, RunGrows
    <3>4. status = "ok" => cdata = Run(doc, pos) BY <1>0, <2>1, <3>3 DEF Collected
    <3>5. QED BY <2>1, <2>2, <3>4 DEF Collected, Walking
  <2>10. QED BY <2>2, <2>4, <2>5, <2>6, <2>7, <2>8, <2>9 DEF Inv
<1>3. QED BY <1>1, <1>2

-----------------------------------------------------------------------------
\* An external entity begins, in one of its ways, and ends.
LEMMA ResolveKeeps ==
    ASSUME Inv, NEW c \in Codes, ResolveEntity(c)
    PROVE  Inv'
<1>0. /\ Places /\ Switches /\ Booleans /\ SetsTyped /\ WalkOK /\ Around /\ SchemaHeld /\ Collected
      /\ N \in Nat \ {0} /\ Entities \subseteq Seq(Tokens \ {"ext"})
  BY TclExpatAssumption DEF Inv
<1>1. /\ Walking /\ at.set <= N /\ ~at.text /\ at.e = "ext" /\ told' = at.set
      /\ UNCHANGED <<depth, parsingState, finished, final, whole, wsCheck, cdata, schema, user, result>>
  BY DEF ResolveEntity, Listens, Current, flags
<1>2. /\ at \in Steps /\ at.set \in 1 .. N /\ parsingState = 2 /\ xml = "ready"
      /\ doc[pos] = "ext" /\ pos > 0 /\ parser = "main"
  BY <1>0, <1>1 DEF WalkOK, Steps
<1>3. "ext" \notin Undispatched BY DEF Undispatched
<1>4. status = "ok" => cdata = {} BY <1>0, <1>1, <1>3 DEF Collected
<1>5. CASE c = "ok"
  <2> DEFINE o == [doc |-> doc, pos |-> pos, upto |-> upto, set |-> at.set]
  <2>1. /\ outer' = <<o>> /\ doc' \in Entities /\ pos' = 0 /\ upto' = Len(doc')
        /\ parser' = "entity" /\ at' = NoEvent
        /\ UNCHANGED <<xml, setStatus, continueCount, status, halted, erred>>
    BY <1>5 DEF ResolveEntity, sets
  <2>2. o \in Outside /\ o.upto <= Len(o.doc) /\ o.pos \in 1 .. o.upto /\ o.doc[o.pos] = "ext"
    <3>1. Len(doc) \in Nat /\ upto \in 0 .. Len(doc) /\ pos \in 0 .. upto /\ doc \in Seq(Tokens)
      BY <1>0, LenProperties DEF Places
    <3>2. QED BY <1>2, <3>1 DEF Outside
  <2> HIDE DEF o
  <2>3. doc' \in Seq(Tokens \ {"ext"}) /\ doc' \in Seq(Tokens) /\ Len(doc') \in Nat
    BY <1>0, <2>1, LenProperties
  <2>4. Places' BY <1>0, <1>1, <2>1, <2>3 DEF Places
  <2>5. Switches' BY <1>0, <1>1, <1>2, <2>1 DEF Switches
  <2>6. Booleans' BY <1>0, <1>1, <2>1 DEF Booleans
  <2>7. SetsTyped' /\ SchemaHeld' BY <1>0, <1>1, <2>1 DEF SetsTyped, SchemaHeld
  <2>8. WalkOK' BY <2>1 DEF WalkOK, Walking
  <2>9. Around' BY <1>1, <1>2, <2>1, <2>2, <2>3 DEF Around
  <2>10. Collected'
    <3>1. Run(doc', 0) = {} BY DEF Run
    <3>2. QED BY <1>1, <1>4, <2>1, <3>1 DEF Collected, Walking
  <2>11. QED BY <2>4, <2>5, <2>6, <2>7, <2>8, <2>9, <2>10 DEF Inv
<1>6. CASE c = "continue"
  <2>1. /\ at' = [at EXCEPT !.set = @ + 1]
        /\ UNCHANGED <<doc, pos, upto, xml, setStatus, continueCount, status, halted, erred, outer,
                       parser>>
    BY <1>6 DEF ResolveEntity, NextSet, sets
  <2>2. Walks BY <1>1, <2>1 DEF Walks
  <2>3. SetsTyped' BY <1>0, <2>1 DEF SetsTyped
  <2>4. halted' \in {"none", "main", "entity"} BY <1>0, <2>1 DEF Switches
  <2>5. erred' \in BOOLEAN BY <1>0, <2>1 DEF Booleans
  <2>6. QED BY <2>2, <2>3, <2>4, <2>5, WalksKeep
<1>7. CASE c \notin {"ok", "continue"}
  <2>1. /\ at' = NoEvent /\ xml' = "error" /\ UNCHANGED <<doc, pos, upto, outer, parser>>
        /\ HandlerResult(at.set, IF c \in {"error", "wrong"} THEN "exterror" ELSE c)
    BY <1>7 DEF ResolveEntity
  <2>2. SetsTyped' BY <1>0, <1>2, <2>1, AnswersTyped
  <2>3. status' \in {status, "error", "return", "exterror"} /\ halted' \in {halted, parser}
    BY <2>1 DEF HandlerResult
  <2>4. erred' \in BOOLEAN BY <1>0, <2>1 DEF HandlerResult, Booleans
  <2>5. Places' /\ SchemaHeld' BY <1>0, <1>1, <2>1 DEF Places, SchemaHeld
  <2>6. Switches' BY <1>0, <1>1, <1>2, <2>1, <2>3 DEF Switches
  <2>7. Booleans' BY <1>0, <1>1, <2>4 DEF Booleans
  <2>8. WalkOK' /\ Collected' BY <2>1 DEF WalkOK, Collected, Walking
  <2>9. Around' BY <1>0, <1>2, <2>1 DEF Around
  <2>10. QED BY <2>2, <2>5, <2>6, <2>7, <2>8, <2>9 DEF Inv
<1>8. QED BY <1>5, <1>6, <1>7

\* The end of an entity gives the document back its place, and with it the collected text.
LEMMA EntityKeeps ==
    ASSUME Inv, LastText \/ EntityEnd \/ MalformedEntity
    PROVE  Inv'
<1>0. /\ Places /\ Switches /\ Booleans /\ SetsTyped /\ WalkOK /\ Around /\ SchemaHeld /\ Collected
      /\ N \in Nat \ {0}
  BY TclExpatAssumption DEF Inv
<1>1. parser = "entity" /\ at = NoEvent BY DEF LastText, EntityEnd, MalformedEntity, InEntity, Walking
<1>2. PICK o \in Outside : /\ outer = <<o>> /\ o.upto <= Len(o.doc)
                           /\ o.pos \in 1 .. o.upto /\ o.doc[o.pos] = "ext"
  BY <1>0, <1>1 DEF Around
<1>3. parsingState = 2 /\ xml = "ready" BY <1>0, <1>1 DEF Around
<1>4. CASE LastText
  <2>1. /\ pos = upto /\ at' = [e |-> "entityEnd", text |-> TRUE, set |-> 1] /\ told' = 0
        /\ UNCHANGED <<doc, pos, upto, depth, xml, halted, parser, outer, parsingState, finished,
                       final, whole, wsCheck, status, cdata, setStatus, continueCount, schema, user, erred,
                       result>>
    BY <1>4 DEF LastText, docVars, flags, sets
  <2>2. Places' /\ SetsTyped' /\ SchemaHeld' /\ Around'
    BY <1>0, <2>1 DEF Places, SetsTyped, SchemaHeld, Around
  <2>3. Switches' BY <1>0, <2>1 DEF Switches
  <2>4. Booleans' BY <1>0, <2>1 DEF Booleans
  <2>5. at' \in Steps /\ at' # NoEvent /\ at'.text /\ at'.e = "entityEnd" /\ "entityEnd" \notin Undispatched
    BY <1>0, <2>1 DEF Steps, NoEvent, Undispatched
  <2>6. WalkOK' BY <1>1, <1>3, <2>1, <2>5 DEF WalkOK
  <2>7. Collected' BY <2>5 DEF Collected, Walking
  <2>8. QED BY <2>2, <2>3, <2>4, <2>6, <2>7 DEF Inv
<1>5. CASE EntityEnd \/ MalformedEntity
  <2>1. /\ doc' = o.doc /\ pos' = o.pos /\ upto' = o.upto /\ outer' = <<>> /\ parser' = "main"
        /\ told' = 0 /\ at' = NoEvent
        /\ UNCHANGED <<depth, parsingState, finished, final, whole, wsCheck, cdata, schema, user, result>>
    BY <1>1, <1>2, <1>5 DEF EntityEnd, MalformedEntity, LeaveEntity, flags
  <2>2. o.doc \in Seq(Tokens) /\ o.pos \in Nat /\ o.upto \in Nat /\ o.set \in 1 .. N
    BY <1>2 DEF Outside
  <2>3. Len(o.doc) \in Nat BY <2>2, LenProperties
  <2>4. /\ halted' \in {"none", "main"} /\ status' \in {status, "exterror"}
        /\ xml' \in {"ready", "error"} /\ erred' \in {erred, TRUE}
        /\ status' = "ok" => xml' = "ready" /\ (cdata = {} \/ status # "ok")
        /\ continueCount' = continueCount
        /\ setStatus' = setStatus \/ setStatus' = [setStatus EXCEPT ![o.set] = "ok"]
    BY <1>2, <1>3, <1>5 DEF EntityEnd, MalformedEntity, sets
  <2>5. Places' BY <1>0, <1>2, <2>1, <2>2, <2>3 DEF Places
  <2>6. Switches' BY <1>0, <2>1, <2>4 DEF Switches
  <2>7. erred' \in BOOLEAN BY <1>0, <2>4 DEF Booleans
  <2>8. Booleans' BY <1>0, <2>1, <2>7 DEF Booleans
  <2>9. SetsTyped' BY <1>0, <2>2, <2>4 DEF SetsTyped
  <2>10. SchemaHeld' BY <1>0, <2>1 DEF SchemaHeld
  <2>11. WalkOK' BY <2>1 DEF WalkOK, Walking
  <2>12. Around' BY <2>1 DEF Around
  <2>13. Collected'
    <3> DEFINE d == o.doc
               n == o.pos - 1
    <3>1. n \in Nat /\ n + 1 = o.pos /\ d \in Seq(Tokens) /\ d[n + 1] = "ext" BY <1>2, <2>2
    <3>2. "ext" \notin {"text", "white"} \union Undispatched BY DEF Undispatched
    <3> HIDE DEF d, n
    <3>3. d[n + 1] \notin {"text", "white"} \union Undispatched BY <3>1, <3>2
    <3>4. Run(o.doc, o.pos) = {}
      <4>1. Run(d, n + 1) = {} BY <3>1, <3>3, RunGrows
      <4>2. QED BY <3>1, <4>1 DEF d
    <3>5. QED BY <2>1, <2>4, <3>4 DEF Collected, Walking
  <2>14. QED BY <2>5, <2>6, <2>8, <2>9, <2>10, <2>11, <2>12, <2>13 DEF Inv
<1>6. QED BY <1>4, <1>5

-----------------------------------------------------------------------------
\* Inv holds in every state of every behaviour.
THEOREM Invariance == Spec => []Inv
<1>1. Inv /\ [Next]_vars => Inv'
  <2> SUFFICES ASSUME Inv, [Next]_vars PROVE Inv' OBVIOUS
  <2>1. CASE UNCHANGED vars
    BY <2>1 DEF vars, docVars, flags, sets, Inv, Places, Switches, Booleans, SetsTyped, WalkOK,
                Walking, Around, SchemaHeld, Collected
  <2>2. CASE Calls \/ OtherValidation BY <2>2, CallsKeep DEF Calls
  <2>3. CASE Callbacks
    BY <2>3, CallsKeep, TokensKeep, EventKeeps, WalkKeeps, WalkedKeeps, ResolveKeeps, EntityKeeps
       DEF Callbacks
  <2>4. QED BY <2>1, <2>2, <2>3 DEF Next
<1>2. QED BY InitInv, <1>1, PTL DEF Spec

(* Text is reported as one piece, none lost and none twice, whatever handler    *)
(* sets, scripts and answers come in between, and in entities too.             *)
THEOREM TextReportedWhole == Spec => []TextIsWhole
<1>1. Inv => TextIsWhole
  <2> SUFFICES ASSUME Inv, status = "ok", xml = "ready", ~Walking, parser = "entity" => pos < upto
               PROVE  cdata = Run(doc, pos)
    BY DEF TextIsWhole, Run
  <2>1. Places /\ Collected BY DEF Inv
  <2>2. parser = "entity" => pos # upto BY <2>1 DEF Places
  <2>3. QED BY <2>1, <2>2 DEF Collected
<1>2. QED BY Invariance, <1>1, PTL

(* Whichever way a parse ends - to its end, by an error, by a script, by a     *)
(* reset, in an entity or not - the parser command is in order, it holds no    *)
(* schema and expat->parser is the parser of the document.                    *)
THEOREM ParsesEndClean == Spec => []ParseLeavesNothing
<1>1. Inv => TypeOK
  <2> SUFFICES ASSUME Inv PROVE TypeOK OBVIOUS
  <2>1. Places /\ Switches /\ Booleans /\ SetsTyped BY DEF Inv
  <2>2. {finished, final, whole, wsCheck, erred} \subseteq BOOLEAN BY <2>1 DEF Booleans
  <2>3. /\ pos \in 0 .. upto /\ upto \in 0 .. Len(doc) /\ depth \in Int
        /\ setStatus \in [1 .. N -> {"ok", "continue", "break"}]
        /\ \A i \in 1 .. N : /\ continueCount[i] \in Nat
                             /\ setStatus[i] = "continue" => continueCount[i] > 0
    BY <2>1 DEF Places, SetsTyped
  <2>4. parsingState \in 0 .. 2 BY <2>1 DEF Switches
  <2>5. QED BY <2>1, <2>2, <2>3, <2>4 DEF TypeOK, Switches
<1>2. Inv => SchemaReleased BY DEF Inv, SchemaHeld, SchemaReleased, Idle, Switches
<1>3. Inv => ParserRestored
  <2> SUFFICES ASSUME Inv PROVE ParserRestored OBVIOUS
  <2>1. Around BY DEF Inv
  <2>2. CASE parser = "main" /\ outer = <<>> BY <2>2 DEF ParserRestored
  <2>3. CASE parser = "entity" /\ parsingState = 2 /\ \E o : outer = <<o>>
    <3>1. outer # <<>> BY <2>3
    <3>2. QED BY <2>3, <3>1 DEF ParserRestored, Idle
  <2>4. QED BY <2>1, <2>2, <2>3 DEF Around
<1>4. Inv => ParseLeavesNothing BY <1>1, <1>2, <1>3 DEF ParseLeavesNothing
<1>5. QED BY Invariance, <1>4, PTL

-----------------------------------------------------------------------------
(* What the handler sets see, as functions of the state they are read off.    *)
LevelIn(a, d, i) ==
  IF ~(a # NoEvent) \/ ((a # NoEvent) /\ ~a.text /\ a.set > i) THEN d
  ELSE IF a.e = "start" THEN d - 1 ELSE IF a.e = "end" THEN d + 1 ELSE d
ModeIn(s) == CASE s = "ok" -> "hears" [] s = "continue" -> "skips" [] OTHER -> "broken"

Levels(a, d) == [i \in 1 .. N |-> LevelIn(a, d, i)]
Modes(S) == [i \in 1 .. N |-> ModeIn(S[i])]
Froms(a, d, S, C) ==
  [i \in 1 .. N |-> IF S[i] = "continue" THEN LevelIn(a, d, i) - C[i] + 1 ELSE 0]

\* A step of which the handler sets notice nothing.
Unnoticed ==
  /\ told' = 0
  /\ Levels(at', depth') = Levels(at, depth) /\ Modes(setStatus') = Modes(setStatus)
  /\ Froms(at', depth', setStatus', continueCount') = Froms(at, depth, setStatus, continueCount)

\* A step that no handler set notices is the abstract specification's Pass.
LEMMA UnnoticedPasses == Unnoticed => Sets!Next
  BY DEF Unnoticed, Levels, Modes, Froms, LevelIn, ModeIn, Sets!Next, Sets!Pass, Level,
         Passed, Walking

\* The next document for the sets that listen, skip or have broken off.
Restarted ==
  /\ told' = 0 /\ outer' = <<>> /\ at = NoEvent /\ at' = NoEvent /\ depth' = 0
  /\ UNCHANGED <<setStatus, continueCount>>

\* A reset or a new document puts every set back to the outermost level: the abstract NewDocument.
LEMMA RestartedIsNewDocument == SetsTyped /\ depth \in Int /\ Restarted => Sets!Next
<1> SUFFICES ASSUME SetsTyped, depth \in Int, Restarted PROVE Sets!NewDocument
  BY DEF Sets!Next
<1>1. \A i \in 1 .. N : LevelIn(at, depth, i) = depth /\ LevelIn(at', depth', i) = 0
  BY DEF Restarted, LevelIn
<1>2. Levels(at', depth') = [i \in 1 .. N |-> 0] BY <1>1 DEF Levels
<1>3. \A i \in 1 .. N : setStatus[i] = "continue" <=> ModeIn(setStatus[i]) = "skips"
  BY DEF ModeIn
<1>4. ASSUME NEW i \in 1 .. N
      PROVE  (IF setStatus'[i] = "continue" THEN LevelIn(at', depth', i) - continueCount'[i] + 1 ELSE 0)
             = (IF ModeIn(setStatus[i]) = "skips"
                THEN Froms(at, depth, setStatus, continueCount)[i] - Levels(at, depth)[i] ELSE 0)
  BY <1>1, <1>3 DEF Restarted, SetsTyped, Froms, Levels
<1>5. Froms(at', depth', setStatus', continueCount')
      = [i \in 1 .. N |-> IF Modes(setStatus)[i] = "skips"
                          THEN Froms(at, depth, setStatus, continueCount)[i] - Levels(at, depth)[i]
                          ELSE 0]
  BY <1>4 DEF Froms, Modes
<1>6. Modes(setStatus') = Modes(setStatus) /\ told' = 0
  BY DEF Restarted
<1>7. QED
  BY <1>2, <1>5, <1>6
     DEF Levels, Modes, Froms, LevelIn, ModeIn, Sets!NewDocument, Level, Passed, Walking

\* Set i has listened and, if it has a script, answered; the levels of the
\* others stay as they are.
Answered(i) ==
  /\ setStatus' \in [1 .. N -> {"ok", "continue", "break"}] /\ continueCount' \in [1 .. N -> Nat]
  /\ \A j \in 1 .. N : j # i =>
        /\ setStatus'[j] = setStatus[j] /\ continueCount'[j] = continueCount[j]
        /\ LevelIn(at', depth', j) = LevelIn(at, depth, j)
  /\ setStatus'[i] = "continue" => continueCount'[i] = 1
  /\ told' \in {0, i} /\ (told' = 0 => setStatus'[i] = "ok")

\* The same for the functions of HandlerSets.
HearIn(M, F, M2, F2, i, l) ==
  \/ told' = 0 /\ M2 = [M EXCEPT ![i] = "hears"] /\ F2 = [F EXCEPT ![i] = 0]
  \/ /\ told' = i
     /\ \E a \in {"hears", "skips", "broken"} :
          M2 = [M EXCEPT ![i] = a] /\ F2 = [F EXCEPT ![i] = IF a = "skips" THEN l ELSE 0]

\* A set that was asked ends up as the abstract set does when it hears the event.
LEMMA AnsweredIsHeard ==
    ASSUME SetsTyped, depth' \in Int, NEW i \in 1 .. N, Answered(i)
    PROVE  HearIn(Modes(setStatus), Froms(at, depth, setStatus, continueCount), Modes(setStatus'),
                  Froms(at', depth', setStatus', continueCount'), i, Levels(at', depth')[i])
<1> DEFINE M == Modes(setStatus)
           F == Froms(at, depth, setStatus, continueCount)
           M2 == Modes(setStatus')
           F2 == Froms(at', depth', setStatus', continueCount')
           l == Levels(at', depth')[i]
           a == ModeIn(setStatus'[i])
<1>1. setStatus'[i] \in {"ok", "continue", "break"} BY DEF Answered
<1>2. a \in {"hears", "skips", "broken"} /\ (a = "skips" <=> setStatus'[i] = "continue")
      /\ (setStatus'[i] = "ok" => a = "hears")
  BY <1>1 DEF ModeIn
<1>3. l \in Int /\ l = LevelIn(at', depth', i) BY DEF Levels, LevelIn
<1>4. M2 = [M EXCEPT ![i] = a] BY DEF Modes, Answered
<1>5. F2[i] = IF a = "skips" THEN l ELSE 0
  <2>1. CASE setStatus'[i] = "continue"
    <3>1. F2[i] = l - continueCount'[i] + 1 BY <1>3, <2>1 DEF Froms
    <3>2. continueCount'[i] = 1 BY <2>1 DEF Answered
    <3>3. QED BY <1>2, <1>3, <2>1, <3>1, <3>2
  <2>2. CASE setStatus'[i] # "continue" BY <1>2, <2>2 DEF Froms
  <2>3. QED BY <2>1, <2>2
<1>6. \A j \in 1 .. N : j # i => F2[j] = F[j] BY DEF Froms, Answered
<1>7. F2 = [F EXCEPT ![i] = IF a = "skips" THEN l ELSE 0]
  <2> DEFINE v == IF a = "skips" THEN l ELSE 0
  <2>1. F2[i] = v BY <1>5
  <2>2. F2 = [j \in 1 .. N |-> F2[j]] /\ F = [j \in 1 .. N |-> F[j]] BY DEF Froms
  <2> HIDE DEF v, F, F2
  <2>3. F2 = [F EXCEPT ![i] = v] BY <1>6, <2>1, <2>2
  <2>4. QED BY <2>3 DEF v
<1>8. told' = 0 => a = "hears" BY <1>2 DEF Answered
<1>9. told' = 0 \/ told' = i BY DEF Answered
<1> HIDE DEF a, M, F, M2, F2, l
<1>10. HearIn(M, F, M2, F2, i, l) BY <1>2, <1>4, <1>7, <1>8, <1>9 DEF HearIn
<1>11. QED BY <1>10 DEF M, F, M2, F2, l

\* The level of set i after it has passed event e.
After(l, e) == IF e = "start" THEN l + 1 ELSE IF e = "end" THEN l - 1 ELSE l

\* One set passes the event, hearing it or not.
Passes(i, e) ==
  /\ Levels(at', depth') = [Levels(at, depth) EXCEPT ![i] = After(Levels(at, depth)[i], e)]
  /\ LET L == Levels(at, depth)
         M == Modes(setStatus)
         F == Froms(at, depth, setStatus, continueCount)
         M2 == Modes(setStatus')
         F2 == Froms(at', depth', setStatus', continueCount')
     IN  IF M[i] = "hears" \/ (e = "end" /\ M[i] = "skips" /\ F[i] = L[i])
         THEN HearIn(M, F, M2, F2, i, After(L[i], e))
         ELSE e \in {"start", "end"} /\ told' = 0 /\ M2 = M /\ F2 = F

\* A call that passes set i with an event of kind e is the abstract event for that set.
LEMMA PassesIsEvent ==
    ASSUME NEW i \in 1 .. N, NEW e, Passes(i, e)
    PROVE  Sets!Next
<1>1. CASE e = "start"
  <2>1. Sets!Start(i)
    BY <1>1 DEF Passes, After, HearIn, Levels, Modes, Froms, LevelIn, ModeIn, Sets!Start,
                Sets!Hear, Sets!Deaf, Level, Passed, Walking
  <2>2. QED BY <2>1 DEF Sets!Next
<1>2. CASE e = "end"
  <2>1. Sets!End(i)
    BY <1>2 DEF Passes, After, HearIn, Levels, Modes, Froms, LevelIn, ModeIn, Sets!End,
                Sets!Hear, Sets!Deaf, Level, Passed, Walking
  <2>2. QED BY <2>1 DEF Sets!Next
<1>3. CASE e \notin {"start", "end"}
  <2>1. [Levels(at, depth) EXCEPT ![i] = Levels(at, depth)[i]] = Levels(at, depth) BY DEF Levels
  <2>2. Sets!Other(i)
    BY <1>3, <2>1 DEF Passes, After, HearIn, Levels, Modes, Froms, LevelIn, ModeIn,
                Sets!Other, Sets!Hear, Level, Passed, Walking
  <2>3. QED BY <2>2 DEF Sets!Next
<1>4. QED BY <1>1, <1>2, <1>3

\* The next set's turn: who has had it is past the event, the others are not.
LEMMA TurnLevels ==
    ASSUME Inv, Walks, NEW i, i = at.set
    PROVE  /\ i \in 1 .. N /\ depth' \in Int
           /\ \A j \in 1 .. N : j # i => LevelIn(at', depth', j) = LevelIn(at, depth, j)
           /\ LevelIn(at', depth', i) = After(LevelIn(at, depth, i), IF at.text THEN "text" ELSE at.e)
<1>1. /\ at \in Steps /\ at # NoEvent /\ i \in 1 .. N /\ N \in Nat /\ depth \in Int /\ depth' = depth
  BY TclExpatAssumption DEF Inv, Walks, WalkOK, Walking, Steps, Places
<1>2. at' = [e |-> at.e, text |-> at.text, set |-> i + 1] BY <1>1 DEF Walks, Steps
<1>3. at'.e = at.e /\ at'.text = at.text /\ at'.set = i + 1 BY <1>2
<1>4. at' # NoEvent BY <1>1, <1>3 DEF NoEvent
<1>5. ASSUME NEW j \in 1 .. N, j # i PROVE LevelIn(at', depth', j) = LevelIn(at, depth, j)
  <2>1. at'.set > j <=> at.set > j BY <1>1, <1>3, <1>5
  <2>2. QED BY <1>1, <1>3, <1>4, <2>1 DEF LevelIn
<1>6. CASE at.text BY <1>1, <1>3, <1>4, <1>6 DEF LevelIn, After
<1>7. CASE ~at.text
  <2>1. at'.set > i /\ ~(at.set > i) BY <1>1, <1>3
  <2>2. LevelIn(at', depth', i) = depth BY <1>1, <1>3, <1>7, <2>1 DEF LevelIn
  <2>3. LevelIn(at, depth, i) = IF at.e = "start" THEN depth - 1
                                ELSE IF at.e = "end" THEN depth + 1 ELSE depth
    BY <1>1, <2>1 DEF LevelIn
  <2>4. QED BY <1>1, <1>5, <1>7, <2>2, <2>3 DEF After
<1>8. QED BY <1>1, <1>5, <1>6, <1>7

\* As functions.
LEMMA TurnFunctions ==
    ASSUME NEW i \in 1 .. N, NEW e,
           \A j \in 1 .. N : j # i => LevelIn(at', depth', j) = LevelIn(at, depth, j),
           LevelIn(at', depth', i) = After(LevelIn(at, depth, i), e)
    PROVE  Levels(at', depth') = [Levels(at, depth) EXCEPT ![i] = After(Levels(at, depth)[i], e)]
  BY DEF Levels

\* A set that listens passes the event with its answer.
LEMMA ListenerPasses ==
    ASSUME SetsTyped, depth' \in Int, NEW i \in 1 .. N, NEW e, Answered(i),
           LevelIn(at', depth', i) = After(LevelIn(at, depth, i), e),
           \/ setStatus[i] = "ok"
           \/ e = "end" /\ setStatus[i] = "continue" /\ continueCount[i] = 1 /\ depth \in Int
    PROVE  Sets!Next
<1> DEFINE L == Levels(at, depth)
           M == Modes(setStatus)
           F == Froms(at, depth, setStatus, continueCount)
<1>1. Levels(at', depth') = [L EXCEPT ![i] = After(L[i], e)] BY TurnFunctions DEF Answered
<1>2. Levels(at', depth')[i] = After(L[i], e) BY DEF Levels
<1>3. HearIn(M, F, Modes(setStatus'), Froms(at', depth', setStatus', continueCount'), i, After(L[i], e))
  BY <1>2, AnsweredIsHeard
<1>4. M[i] = "hears" \/ (e = "end" /\ M[i] = "skips" /\ F[i] = L[i])
  <2>1. CASE setStatus[i] = "ok" BY <2>1 DEF Modes, ModeIn
  <2>2. CASE e = "end" /\ setStatus[i] = "continue" /\ continueCount[i] = 1 /\ depth \in Int
    <3>1. L[i] \in Int /\ L[i] = LevelIn(at, depth, i) BY <2>2 DEF Levels, LevelIn
    <3>2. F[i] = L[i] - 1 + 1 BY <2>2, <3>1 DEF Froms
    <3>3. M[i] = "skips" BY <2>2 DEF Modes, ModeIn
    <3>4. QED BY <2>2, <3>1, <3>2, <3>3
  <2>3. QED BY <2>1, <2>2
<1>5. Passes(i, e) BY <1>1, <1>3, <1>4 DEF Passes
<1>6. QED BY <1>5, PassesIsEvent

\* Each step of a walk over the handler sets is one abstract event for the set it is at.
LEMMA WalkHears ==
    ASSUME Inv, SkipSet \/ NoScript \/ (\E c \in Codes : RunScript(c))
    PROVE  Sets!Next
<1> DEFINE i == at.set
           e == IF at.text THEN "text" ELSE at.e
<1>0. SetsTyped /\ WalkOK /\ depth \in Int BY DEF Inv, Places
<1>1. Current = e BY DEF Current
<1>2. CASE SkipSet
  <2>1. Walks BY <1>2 DEF SkipSet, Walks, NextSet, docVars, flags
  <2>2. /\ i \in 1 .. N /\ depth' \in Int
        /\ \A j \in 1 .. N : j # i => LevelIn(at', depth', j) = LevelIn(at, depth, j)
        /\ LevelIn(at', depth', i) = After(LevelIn(at, depth, i), e)
    BY <2>1, TurnLevels
  <2>3. Levels(at', depth') = [Levels(at, depth) EXCEPT ![i] = After(Levels(at, depth)[i], e)]
    BY <2>2, TurnFunctions
  <2> DEFINE n == continueCount[i]
             k == LevelIn(at, depth, i)
  <2>4. /\ setStatus[i] # "ok" /\ told' = 0 /\ setStatus' = setStatus /\ outer' = outer
        /\ ~(e = "end" /\ setStatus[i] = "continue" /\ n = 1)
        /\ \/ setStatus[i] # "continue" /\ continueCount' = continueCount
           \/ setStatus[i] = "continue" /\ e = "start" /\ continueCount' = [continueCount EXCEPT ![i] = n + 1]
           \/ setStatus[i] = "continue" /\ e = "end" /\ continueCount' = [continueCount EXCEPT ![i] = n - 1]
           \/ /\ setStatus[i] = "continue" /\ e \notin {"start", "end"}
              /\ continueCount' = [continueCount EXCEPT ![i] = n]
    <3> HIDE DEF e
    <3>1. QED BY <1>1, <1>2 DEF SkipSet, CountStart, Hears, Wakes
  <2>5. n \in Nat /\ setStatus[i] \in {"continue", "break"} /\ k \in Int /\ Levels(at, depth)[i] = k
    BY <1>0, <2>2, <2>4 DEF SetsTyped, Levels, LevelIn
  <2>6. Froms(at', depth', setStatus', continueCount') = Froms(at, depth, setStatus, continueCount)
    <3> DEFINE F == Froms(at, depth, setStatus, continueCount)
               F2 == Froms(at', depth', setStatus', continueCount')
    <3>1. \A j \in 1 .. N : j # i => continueCount'[j] = continueCount[j] BY <2>4, <1>0 DEF SetsTyped
    <3>2. \A j \in 1 .. N : j # i => F2[j] = F[j] BY <2>2, <2>4, <3>1 DEF Froms
    <3>3. F2[i] = F[i]
      <4>1. CASE setStatus[i] # "continue" BY <2>2, <2>4, <4>1 DEF Froms
      <4>2. CASE setStatus[i] = "continue"
        <5>1. F[i] = k - n + 1 BY <2>2, <4>2 DEF Froms
        <5>2. F2[i] = After(k, e) - continueCount'[i] + 1 BY <2>2, <2>4, <4>2 DEF Froms
        <5>3. continueCount'[i] = IF e = "start" THEN n + 1 ELSE IF e = "end" THEN n - 1 ELSE n
          BY <1>0, <2>2, <2>4, <4>2 DEF SetsTyped
        <5> HIDE DEF e, n, k, F, F2
        <5>4. QED BY <2>5, <5>1, <5>2, <5>3 DEF After
      <4>3. QED BY <4>1, <4>2
    <3>4. F2 = [j \in 1 .. N |-> F2[j]] /\ F = [j \in 1 .. N |-> F[j]] BY DEF Froms
    <3> HIDE DEF F, F2
    <3>5. F2 = F BY <3>2, <3>3, <3>4
    <3>6. QED BY <3>5 DEF F, F2
  <2>7. Modes(setStatus') = Modes(setStatus) BY <2>4
  <2>8. CASE e \in {"start", "end"}
    <3>1. ~(Modes(setStatus)[i] = "hears") BY <2>2, <2>5 DEF Modes, ModeIn
    <3>2. ~(/\ e = "end" /\ Modes(setStatus)[i] = "skips"
            /\ Froms(at, depth, setStatus, continueCount)[i] = Levels(at, depth)[i])
      <4>1. CASE e = "end" /\ setStatus[i] = "continue"
        <5>1. n # 1 BY <2>4, <4>1
        <5>2. Froms(at, depth, setStatus, continueCount)[i] = k - n + 1 BY <2>2, <4>1 DEF Froms
        <5> HIDE DEF k, n
        <5>3. k - n + 1 # k BY <2>5, <5>1
        <5>4. QED BY <2>5, <5>2, <5>3
      <4>2. CASE setStatus[i] # "continue" BY <2>2, <2>5, <4>2 DEF Modes, ModeIn
      <4>3. QED BY <4>1, <4>2
    <3>3. Passes(i, e) BY <2>3, <2>4, <2>6, <2>7, <2>8, <3>1, <3>2 DEF Passes
    <3>4. QED BY <2>2, <3>3, PassesIsEvent
  <2>9. CASE e \notin {"start", "end"}
    <3>1. Levels(at', depth') = Levels(at, depth) BY <2>3, <2>9 DEF After, Levels
    <3>2. Unnoticed BY <2>4, <2>6, <2>7, <3>1 DEF Unnoticed
    <3>3. QED BY <3>2, UnnoticedPasses
  <2>10. QED BY <2>8, <2>9
<1>3. ASSUME NoScript \/ \E c \in Codes : RunScript(c)
      PROVE  Sets!Next
  <2>1. /\ i \in 1 .. N /\ (setStatus[i] = "ok" \/ Wakes(i)) /\ outer' = outer
        /\ (NoScript /\ told' = 0) \/ (told' = i /\ \E c \in Codes : HandlerResult(i, c))
    BY <1>0, <1>3 DEF NoScript, RunScript, Listens, Hears, WalkOK, Steps
  <2>2. SetsTyped' /\ Walks
    <3>1. CASE NoScript
      <4>1. Walks BY <3>1 DEF NoScript, Walks, NextSet, Listens, docVars, flags
      <4>2. SetsTyped' BY <1>0, <2>1, <3>1 DEF NoScript, SetsTyped, Woken, Counted
      <4>3. QED BY <4>1, <4>2
    <3>2. ASSUME NEW c \in Codes, RunScript(c) PROVE SetsTyped' /\ Walks
      <4>1. HandlerResult(i, c) /\ SetsTyped' BY <1>0, <2>1, <3>2, AnswersTyped DEF RunScript
      <4>2. status' \in {status, "error", "return", "exterror"} BY <4>1 DEF HandlerResult
      <4>3. Walks BY <2>1, <3>2, <4>2 DEF RunScript, Walks, NextSet, Listens, docVars, flags
      <4>4. QED BY <4>1, <4>3
    <3>3. QED BY <1>3, <3>1, <3>2
  <2>3. /\ depth' \in Int
        /\ \A j \in 1 .. N : j # i => LevelIn(at', depth', j) = LevelIn(at, depth, j)
        /\ LevelIn(at', depth', i) = After(LevelIn(at, depth, i), e)
    BY <2>2, TurnLevels
  <2>4. Answered(i)
    <3>1. setStatus[i] = "ok" => ~Wakes(i) BY DEF Wakes
    <3>2. CASE NoScript /\ told' = 0
      <4>1. setStatus' = Woken(i) /\ continueCount' = Counted(i) BY <3>2 DEF NoScript
      <4>2. setStatus'[i] = "ok" BY <1>0, <2>1, <4>1 DEF Woken, SetsTyped
      <4>3. \A j \in 1 .. N : j # i => setStatus'[j] = setStatus[j] /\ continueCount'[j] = continueCount[j]
        BY <1>0, <4>1 DEF Woken, Counted, SetsTyped
      <4>4. QED BY <2>2, <2>3, <3>2, <4>2, <4>3 DEF Answered, SetsTyped
    <3>3. ASSUME told' = i, NEW c \in Codes, HandlerResult(i, c) PROVE Answered(i)
      <4>1. \A j \in 1 .. N : j # i => setStatus'[j] = setStatus[j] /\ continueCount'[j] = continueCount[j]
        BY <1>0, <3>3 DEF HandlerResult, Woken, Counted, SetsTyped
      <4>2. setStatus'[i] = "continue" => continueCount'[i] = 1
        <5>1. CASE c = "continue" BY <1>0, <2>1, <3>3, <5>1 DEF HandlerResult, SetsTyped
        <5>2. CASE c # "continue"
          <6>1. setStatus'[i] # "continue"
            BY <1>0, <2>1, <3>1, <3>3, <5>2 DEF HandlerResult, Woken, SetsTyped
          <6>2. QED BY <6>1
        <5>3. QED BY <5>1, <5>2
      <4>3. i # 0 BY <2>1
      <4>4. QED BY <2>2, <2>3, <3>3, <4>1, <4>2, <4>3 DEF Answered, SetsTyped
    <3>4. QED BY <2>1, <3>2, <3>3
  <2>6. setStatus[i] = "ok" \/ (e = "end" /\ setStatus[i] = "continue" /\ continueCount[i] = 1 /\ depth \in Int)
    BY <1>0, <1>1, <2>1 DEF Wakes
  <2>7. i \in 1 .. N BY <2>1
  <2> HIDE DEF i, e
  <2>8. QED BY <1>0, <2>3, <2>4, <2>6, <2>7, ListenerPasses
<1>4. QED BY <1>2, <1>3

\* The calls, the tokens and the ends of a walk.
LEMMA CallsAbstract ==
    ASSUME Inv, Parse \/ ParseFails \/ Reset \/ Recreate \/ ConfigureFinal \/ OtherValidation
                \/ EndOfInput \/ ExpatError \/ CharacterData \/ UnknownEncoding \/ Ignored \/ Malformed
    PROVE  Sets!Next
<1>0. /\ SetsTyped /\ Around /\ depth \in Int BY DEF Inv, Places
<1>1. Idle => outer = <<>> BY <1>0 DEF Around, Idle
<1>2. CASE /\ told' = 0 /\ UNCHANGED <<at, depth, outer, setStatus, continueCount>>
  BY <1>2, UnnoticedPasses DEF Unnoticed
<1>3. CASE /\ told' = 0 /\ outer = <<>> /\ outer' = outer /\ at = NoEvent /\ at' = at /\ depth' = 0
           /\ UNCHANGED <<setStatus, continueCount>>
  BY <1>0, <1>3, RestartedIsNewDocument DEF Restarted
<1>4. CASE Recreate
  <2>1. /\ at = NoEvent /\ at' = NoEvent /\ depth' = 0 /\ told' = 0 /\ outer' = <<>>
        /\ setStatus' = [j \in 1 .. N |-> "ok"] /\ continueCount' = [j \in 1 .. N |-> 0]
    BY <1>4 DEF Recreate, Walking
  <2>2. Levels(at', depth') = [j \in 1 .. N |-> 0] BY <2>1 DEF Levels, LevelIn
  <2>3. Modes(setStatus') = [j \in 1 .. N |-> "hears"] BY <2>1 DEF Modes, ModeIn
  <2>4. Froms(at', depth', setStatus', continueCount') = [j \in 1 .. N |-> 0] BY <2>1 DEF Froms
  <2>6. Sets!Recreate
    BY <2>1, <2>2, <2>3, <2>4
       DEF Levels, Modes, Froms, LevelIn, ModeIn, Sets!Recreate, Level, Passed, Walking
  <2>7. QED BY <2>6 DEF Sets!Next
<1>5. CASE Parse
  BY <1>1, <1>2, <1>3, <1>5 DEF Parse, InitializeParser, Walking, sets
<1>6. CASE ParseFails
  BY <1>1, <1>2, <1>3, <1>6 DEF ParseFails, InitializeParser, Done, Walking, sets
<1>7. CASE Reset
  BY <1>1, <1>3, <1>7 DEF Reset, InitializeParser, Walking, sets
<1>8. CASE ConfigureFinal \/ OtherValidation
  BY <1>2, <1>8 DEF ConfigureFinal, OtherValidation, docVars, sets
<1>9. CASE EndOfInput \/ ExpatError
  BY <1>2, <1>9 DEF EndOfInput, ExpatError, Done, docVars, sets
<1>10. CASE CharacterData \/ UnknownEncoding \/ Ignored \/ Malformed
  BY <1>2, <1>10 DEF CharacterData, UnknownEncoding, Ignored, Malformed, sets
<1>11. QED BY <1>4, <1>5, <1>6, <1>7, <1>8, <1>9, <1>10

\* The start of a walk, and the end of one.
LEMMA WalkEndsAbstract ==
    ASSUME Inv, Event \/ TextWalked \/ EventWalked
    PROVE  Sets!Next
<1>0. /\ WalkOK /\ depth \in Int /\ N \in Nat \ {0} BY TclExpatAssumption DEF Inv, Places
<1>1. SUFFICES ASSUME \A j \in 1 .. N : LevelIn(at', depth', j) = LevelIn(at, depth, j),
                      told' = 0, UNCHANGED <<outer, setStatus, continueCount>>
               PROVE  Sets!Next
  <2>1. CASE Event
    <3>1. PICK k \in Events \ {"text"}, n \in {-1, 0, 1} :
            Callback(k, n) /\ (k = "start" <=> n = 1) /\ (k = "end" <=> n = -1)
      BY <2>1 DEF Events, CheckFirst, DispatchFirst, Undispatched, Event, ElementStart, ElementEnd, StartNamespaceDecl, EndNamespaceDecl,
         ProcessingInstruction, Default, EntityDecl, NotationDecl, ExternalEntityRef, Comment,
         NotStandalone, StartCdataSection, EndCdataSection, ElementDecl, AttlistDecl,
         StartDoctypeDecl, EndDoctypeDecl, XmlDecl
    <3>2. /\ at = NoEvent /\ depth' = depth + n /\ told' = 0
          /\ UNCHANGED <<outer, setStatus, continueCount>>
          /\ at' = [e |-> k, text |-> cdata # {} /\ k \notin Undispatched, set |-> 1]
      BY <3>1 DEF Callback, AtToken, Walking, flags, sets
    <3>3. at'.e = k /\ at'.set = 1 BY <3>2
    <3>4. at' # NoEvent BY <3>3 DEF NoEvent
    <3>5. ASSUME NEW j \in 1 .. N PROVE LevelIn(at', depth', j) = LevelIn(at, depth, j)
      <4>1. ~(at'.set > j) BY <3>3
      <4>2. QED BY <1>0, <3>1, <3>2, <3>3, <3>4, <4>1 DEF LevelIn
    <3>6. QED BY <1>1, <3>2, <3>5
  <2>2. CASE TextWalked
    <3>1. /\ at.text /\ at # NoEvent /\ depth' = depth /\ told' = 0
          /\ UNCHANGED <<outer, setStatus, continueCount>>
          /\ at' = IF at.e = "entityEnd" \/ (at.e \in DispatchFirst /\ status' # "ok") THEN NoEvent
                   ELSE [at EXCEPT !.text = FALSE, !.set = 1]
      BY <2>2 DEF TextWalked, NoEvent, docVars, sets
    <3>2. at \in Steps BY <1>0, <3>1 DEF WalkOK, Walking
    <3>3. CASE at' = [at EXCEPT !.text = FALSE, !.set = 1]
      <4>1. at' = [e |-> at.e, text |-> FALSE, set |-> 1] BY <3>2, <3>3 DEF Steps
      <4>2. at'.e = at.e /\ at'.set = 1 /\ at'.text = FALSE BY <4>1
      <4>3. at' # NoEvent BY <4>2 DEF NoEvent
      <4>4. \A j \in 1 .. N : ~(at'.set > j) BY <4>2
      <4>5. \A j \in 1 .. N : LevelIn(at', depth', j) = LevelIn(at, depth, j)
        BY <3>1, <4>2, <4>3, <4>4 DEF LevelIn
      <4>6. QED BY <1>1, <3>1, <4>5
    <3>4. CASE at' = NoEvent /\ at.e \in DispatchFirst \cup {"entityEnd"}
      <4>1. at.e # "start" /\ at.e # "end" BY <3>4 DEF DispatchFirst
      <4>2. \A j \in 1 .. N : LevelIn(at', depth', j) = LevelIn(at, depth, j)
        BY <3>1, <3>4, <4>1 DEF LevelIn
      <4>3. QED BY <1>1, <3>1, <4>2
    <3>5. QED BY <3>1, <3>3, <3>4
  <2>3. CASE EventWalked
    <3>1. /\ ~at.text /\ at # NoEvent /\ at' = NoEvent /\ at.set > N /\ depth' = depth /\ told' = 0
          /\ UNCHANGED <<outer, setStatus, continueCount>>
      BY <2>3 DEF EventWalked, Walking, sets
    <3>2. at.set \in 1 .. N + 1 BY <1>0, <3>1 DEF WalkOK, Walking, Steps
    <3>3. \A j \in 1 .. N : at.set > j BY <1>0, <3>1, <3>2
    <3>4. \A j \in 1 .. N : LevelIn(at', depth', j) = LevelIn(at, depth, j)
      BY <3>1, <3>3 DEF LevelIn
    <3>5. QED BY <1>1, <3>1, <3>4
  <2>4. QED BY <2>1, <2>2, <2>3
<1>2. Levels(at', depth') = Levels(at, depth) BY <1>1 DEF Levels
<1>3. Froms(at', depth', setStatus', continueCount') = Froms(at, depth, setStatus, continueCount)
  BY <1>1 DEF Froms
<1>4. QED BY <1>1, <1>2, <1>3, UnnoticedPasses DEF Unnoticed

\* As long as no set leaves the entity it gave, it listens to the end of it.
GiverListens == outer # <<>> => setStatus[outer[1].set] = "ok"

\* Entities: resolved, left to the next set, refused; and their end.
LEMMA EntitiesAbstract ==
    ASSUME Inv, GiverListens, (\E c \in Codes : ResolveEntity(c)) \/ LastText \/ EntityEnd \/ MalformedEntity
    PROVE  Sets!Next
<1>0. /\ SetsTyped /\ WalkOK /\ Around /\ depth \in Int BY DEF Inv, Places
<1>1. ASSUME NEW c \in Codes, ResolveEntity(c) PROVE Sets!Next
  <2> DEFINE i == at.set
  <2>1. /\ at # NoEvent /\ ~at.text /\ at.e = "ext" /\ told' = i /\ depth' = depth
        /\ setStatus[i] = "ok" \/ Wakes(i)
    BY <1>1 DEF ResolveEntity, Listens, Current, Walking, Hears
  <2>2. i \in 1 .. N BY <1>0, <1>1 DEF ResolveEntity, Listens, WalkOK, Walking, Steps
  <2>3. setStatus[i] = "ok" /\ ~Wakes(i) BY <2>1 DEF Wakes, Current
  <2>4. \A j \in 1 .. N : LevelIn(at, depth, j) = depth BY <2>1 DEF LevelIn
  <2>5. SetsTyped' /\ depth' \in Int BY <1>0, <1>1, <2>1, ResolveKeeps DEF Inv
  <2>6. CASE c = "ok"
    <3>1. /\ outer' = <<[doc |-> doc, pos |-> pos, upto |-> upto, set |-> i]>> /\ at' = NoEvent
          /\ UNCHANGED <<setStatus, continueCount>>
      BY <1>1, <2>6 DEF ResolveEntity, sets
    <3>2. \A j \in 1 .. N : LevelIn(at', depth', j) = depth BY <2>1, <3>1 DEF LevelIn
    <3>3. LevelIn(at', depth', i) = After(LevelIn(at, depth, i), "ext") BY <2>2, <2>4, <3>2 DEF After
    <3>4. Answered(i) BY <1>0, <2>1, <2>2, <2>3, <2>4, <3>1, <3>2 DEF Answered, SetsTyped
    <3> HIDE DEF i
    <3>5. QED BY <1>0, <2>2, <2>3, <2>5, <3>3, <3>4, ListenerPasses
  <2>7. CASE c # "ok"
    <3>1. /\ outer' = outer
          /\ at' = NoEvent \/ at' = [at EXCEPT !.set = @ + 1]
          /\ \/ UNCHANGED <<setStatus, continueCount>>
             \/ \E b \in Codes \cup {"exterror"} : HandlerResult(i, b)
      BY <1>1, <2>7 DEF ResolveEntity, NextSet, sets
    <3>2. \A j \in 1 .. N : LevelIn(at', depth', j) = depth
      <4>1. CASE at' = NoEvent BY <2>1, <4>1 DEF LevelIn
      <4>2. CASE at' = [at EXCEPT !.set = @ + 1]
        <5>1. at \in Steps BY <1>0, <2>1 DEF WalkOK, Walking
        <5>2. at' = [e |-> at.e, text |-> at.text, set |-> at.set + 1] BY <4>2, <5>1 DEF Steps
        <5>3. at'.e = "ext" /\ ~at'.text BY <2>1, <5>2
        <5>4. QED BY <2>1, <5>3 DEF LevelIn
      <4>3. QED BY <3>1, <4>1, <4>2
    <3>3. LevelIn(at', depth', i) = After(LevelIn(at, depth, i), "ext") BY <2>2, <2>4, <3>2 DEF After
    <3>4. \A j \in 1 .. N : j # i => setStatus'[j] = setStatus[j] /\ continueCount'[j] = continueCount[j]
      BY <1>0, <3>1 DEF HandlerResult, Woken, Counted, SetsTyped
    <3>5. setStatus'[i] = "continue" => continueCount'[i] = 1
      <4>1. CASE UNCHANGED <<setStatus, continueCount>> BY <2>3, <4>1
      <4>2. ASSUME NEW b, HandlerResult(i, b) PROVE setStatus'[i] = "continue" => continueCount'[i] = 1
        <5>1. CASE b = "continue" BY <1>0, <2>2, <4>2, <5>1 DEF HandlerResult, SetsTyped
        <5>2. CASE b # "continue"
          BY <1>0, <2>2, <2>3, <4>2, <5>2 DEF HandlerResult, Woken, SetsTyped
        <5>3. QED BY <5>1, <5>2
      <4>3. QED BY <3>1, <4>1, <4>2
    <3>6. i # 0 BY <2>2
    <3>7. Answered(i) BY <2>1, <2>4, <2>5, <3>2, <3>4, <3>5, <3>6 DEF Answered, SetsTyped
    <3> HIDE DEF i
    <3>8. QED BY <1>0, <2>2, <2>3, <2>5, <3>3, <3>7, ListenerPasses
  <2>8. QED BY <2>6, <2>7
<1>2. CASE LastText
  <2>1. /\ at = NoEvent /\ at' = [e |-> "entityEnd", text |-> TRUE, set |-> 1] /\ told' = 0
        /\ UNCHANGED <<depth, outer, setStatus, continueCount>>
    BY <1>2 DEF LastText, InEntity, Walking, docVars, sets
  <2>2. at'.e = "entityEnd" /\ at'.text BY <2>1
  <2>3. \A j \in 1 .. N : LevelIn(at', depth', j) = LevelIn(at, depth, j) BY <2>1, <2>2 DEF LevelIn
  <2>4. Levels(at', depth') = Levels(at, depth) BY <2>3 DEF Levels
  <2>5. Froms(at', depth', setStatus', continueCount') = Froms(at, depth, setStatus, continueCount)
    BY <2>1, <2>3 DEF Froms
  <2>6. QED BY <2>1, <2>4, <2>5, UnnoticedPasses DEF Unnoticed
<1>3. CASE MalformedEntity
  <2>1. told' = 0 /\ UNCHANGED <<at, depth, setStatus, continueCount>>
    BY <1>3 DEF MalformedEntity, LeaveEntity, sets
  <2>2. QED BY <2>1, UnnoticedPasses DEF Unnoticed
<1>4. CASE EntityEnd
  <2>1. /\ parser = "entity" /\ told' = 0 /\ UNCHANGED <<at, depth, continueCount>>
        /\ setStatus' = [setStatus EXCEPT ![outer[1].set] = "ok"]
    BY <1>4 DEF EntityEnd, InEntity, LeaveEntity
  <2>2. PICK o \in Outside : outer = <<o>> BY <1>0, <2>1 DEF Around
  <2>3. outer # <<>> /\ outer[1] = o BY <2>2
  <2>4. setStatus' = setStatus BY <1>0, <2>1, <2>3 DEF GiverListens, SetsTyped
  <2>5. QED BY <2>1, <2>4, UnnoticedPasses DEF Unnoticed
<1>5. QED BY <1>1, <1>2, <1>3, <1>4

-----------------------------------------------------------------------------
\* Nothing but its own answers would make it stop.
LEMMA GiverKeepsListening ==
    ASSUME ~LeavesInEntity, Inv, GiverListens, [Next]_vars
    PROVE  GiverListens'
<1>0. SetsTyped /\ WalkOK /\ Around BY DEF Inv
<1>1. CASE outer' = outer /\ setStatus' = setStatus BY <1>1 DEF GiverListens
<1>2. CASE outer' = <<>> BY <1>2 DEF GiverListens
<1>3. CASE NoScript
  <2>1. outer' = outer /\ setStatus' = Woken(at.set) BY <1>3 DEF NoScript
  <2>2. outer # <<>> => outer[1].set \in 1 .. N
    <3>1. ASSUME NEW o \in Outside, outer = <<o>> PROVE outer[1].set \in 1 .. N BY <3>1 DEF Outside
    <3>2. QED BY <1>0, <3>1 DEF Around
  <2>3. QED BY <1>0, <2>1, <2>2 DEF GiverListens, Woken, SetsTyped
<1>4. ASSUME NEW c \in Codes, RunScript(c) PROVE GiverListens'
  <2>1. outer' = outer /\ HandlerResult(at.set, c) /\ ~Leaves(c) BY <1>4 DEF RunScript
  <2>2. SUFFICES ASSUME outer # <<>> PROVE setStatus'[outer[1].set] = "ok"
    BY <2>1 DEF GiverListens
  <2>3. outer[1].set \in 1 .. N
    <3>1. PICK o \in Outside : outer = <<o>> BY <1>0, <2>2 DEF Around
    <3>2. QED BY <3>1 DEF Outside
  <2>4. setStatus[outer[1].set] = "ok" BY <2>2 DEF GiverListens
  <2>5. CASE c \in {"break", "continue"}
    <3>1. outer[1].set # at.set BY <2>1, <2>2, <2>5 DEF Leaves
    <3>2. QED BY <1>0, <2>1, <2>3, <2>4, <2>5, <3>1 DEF HandlerResult, SetsTyped
  <2>6. CASE c = "ok" BY <1>0, <2>1, <2>3, <2>4, <2>6 DEF HandlerResult, SetsTyped
  <2>7. CASE c \notin {"ok", "break", "continue"}
    <3>1. setStatus' = Woken(at.set) BY <2>1, <2>7 DEF HandlerResult
    <3>2. QED BY <1>0, <2>3, <2>4, <3>1 DEF Woken, SetsTyped
  <2>8. QED BY <2>5, <2>6, <2>7
<1>5. ASSUME NEW c \in Codes, ResolveEntity(c) PROVE GiverListens'
  <2>1. /\ at # NoEvent /\ at.e = "ext" /\ setStatus[at.set] = "ok"
    BY <1>5 DEF ResolveEntity, Listens, Current, Walking, Hears, Wakes
  <2>2. outer = <<>> BY <1>0, <2>1 DEF WalkOK, Walking, Around
  <2>3. CASE c = "ok"
    <3>1. /\ outer' = <<[doc |-> doc, pos |-> pos, upto |-> upto, set |-> at.set]>>
          /\ setStatus' = setStatus
      BY <1>5, <2>3 DEF ResolveEntity, sets
    <3>2. outer'[1].set = at.set BY <3>1
    <3>3. QED BY <2>1, <3>1, <3>2 DEF GiverListens
  <2>4. CASE c # "ok"
    <3>1. outer' = outer BY <1>5, <2>4 DEF ResolveEntity
    <3>2. QED BY <1>2, <2>2, <3>1
  <2>5. QED BY <2>3, <2>4
<1>6. CASE EntityEnd \/ MalformedEntity
  BY <1>2, <1>6 DEF EntityEnd, MalformedEntity, LeaveEntity
<1>7. CASE Calls \/ OtherValidation
  <2>1. (outer' = outer \/ outer' = <<>>) /\ (setStatus' = setStatus \/ outer' = <<>>)
    BY <1>7 DEF Calls, Parse, ParseFails, Reset, Recreate, ConfigureFinal, OtherValidation, sets
  <2>2. QED BY <1>1, <1>2, <2>1
<1>8. CASE CharacterData \/ UnknownEncoding \/ Ignored \/ Malformed \/ SkipSet \/ LastText
           \/ TextWalked \/ EventWalked \/ EndOfInput \/ ExpatError
  BY <1>1, <1>8 DEF CharacterData, UnknownEncoding, Ignored, Malformed, SkipSet, LastText,
                    TextWalked, EventWalked, EndOfInput, ExpatError, sets
<1>9. CASE Event
  BY <1>1, <1>9 DEF Event, ElementStart, ElementEnd, StartNamespaceDecl, EndNamespaceDecl,
         ProcessingInstruction, Default, EntityDecl, NotationDecl, ExternalEntityRef, Comment,
         NotStandalone, StartCdataSection, EndCdataSection, ElementDecl, AttlistDecl,
         StartDoctypeDecl, EndDoctypeDecl, XmlDecl, Callback, sets
<1>10. CASE UNCHANGED vars BY <1>1, <1>10 DEF vars, sets
<1>11. QED BY <1>3, <1>4, <1>5, <1>6, <1>7, <1>8, <1>9, <1>10 DEF Next, Callbacks

(* Each handler set is told what the return codes of its scripts promise,      *)
(* whatever the other sets answer: tclexpat.c implements HandlerSets, as long  *)
(* as no set answers break or continue to the entity it gave itself, which the *)
(* end of the entity takes back (tclexpat.c, TclExpatHandlerResult with TCL_OK *)
(* at the end of TclGenExpatExternalEntityRefHandler).                        *)
THEOREM SetsAreIndependent == ASSUME ~LeavesInEntity PROVE Spec => ImplementsHandlerSets
<1>1. Init => Sets!Init
  <2> SUFFICES ASSUME Init PROVE Sets!Init OBVIOUS
  <2>1. Levels(at, depth) = [j \in 1 .. N |-> 0] BY DEF Init, Levels, LevelIn
  <2>2. Modes(setStatus) = [j \in 1 .. N |-> "hears"] BY DEF Init, Modes, ModeIn
  <2>3. Froms(at, depth, setStatus, continueCount) = [j \in 1 .. N |-> 0] BY DEF Init, Froms
  <2>4. told = 0 BY DEF Init
  <2>5. QED BY <2>1, <2>2, <2>3, <2>4
          DEF Levels, Modes, Froms, LevelIn, ModeIn, Sets!Init, Level, Passed, Walking
<1>2. Inv /\ GiverListens /\ [Next]_vars => [Sets!Next]_(Sets!vars)
  <2> SUFFICES ASSUME Inv, GiverListens, [Next]_vars PROVE Sets!Next \/ UNCHANGED Sets!vars OBVIOUS
  <2>1. CASE UNCHANGED vars
    <3>1. UNCHANGED <<at, depth, outer, setStatus, continueCount, told>>
      BY <2>1 DEF vars, docVars, sets
    <3>2. QED BY <3>1 DEF Sets!vars, Level, Passed, Walking
  <2>2. CASE Next
    BY <2>2, CallsAbstract, WalkEndsAbstract, EntitiesAbstract, WalkHears
       DEF Next, Calls, Callbacks
  <2>3. QED BY <2>1, <2>2
<1>3. Init => GiverListens BY DEF Init, GiverListens
<1>4. Inv /\ GiverListens /\ [Next]_vars => GiverListens' BY GiverKeepsListening
<1>5. QED BY <1>1, <1>2, <1>3, <1>4, Invariance, PTL DEF Spec, ImplementsHandlerSets, Sets!Spec
=============================================================================
