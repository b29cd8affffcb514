------------------------------- MODULE Schema -------------------------------
(* The validation engine of generic/schema.c: an element is matched against   *)
(* the content particles of the elements and patterns on a stack, without     *)
(* looking ahead or back, and a report command may tell it to go on after an   *)
(* error.  Lang is the reference: the words a content model describes.        *)
(* One action is one event of a document with all probes it makes.  The       *)
(* report command gives the same answer to every error of one event.          *)
EXTENDS Integers, Sequences, FiniteSets, SequencesExt

CONSTANTS Schemas,  \* functions from names of particles to particles; "r" is the root
          Names,    \* element names that documents use
          Texts,    \* text that is not white space
          Answers,  \* answers of the report command, "none": there is none
          MaxDepth, MaxKids, MaxStack \* bounds of the documents

\* A particle: its content c with the quantifiers q, the name of an element, the
\* texts that a text particle accepts and, of an element, its required attributes.
AllTexts == Texts \union {""}
Particle(t, c, q) == [type |-> t, name |-> "", c |-> c, q |-> q, txt |-> AllTexts, req |-> {}]

VARIABLES def,      \* the schema
          state,    \* validationState
          m,        \* the matcher: stack, lastMatchse, skipDeep and flags
          ids,      \* the IDs seen: 1 defined, 0 only referred to
          unknownIDrefs,
          open,     \* history: the open elements with the content told so far
          verdict,  \* history: the last event decided without any report before
          result    \* of the last event

vars == <<def, state, m, ids, unknownIDrefs, open, verdict, result>>

NoVerdict == [el |-> "", word |-> <<>>, ok |-> TRUE]
Matcher == [stack |-> <<>>, last |-> <<>>, skip |-> 0, fl |-> {}, err |-> FALSE,
            rep |-> "none", told |-> FALSE, ks |-> 0, lost |-> FALSE]

Init ==
  /\ def \in Schemas /\ state = "READY" /\ m = Matcher /\ ids = <<>> /\ unknownIDrefs = 0
  /\ open = <<>> /\ verdict = NoVerdict /\ result = "ok"

(* ------------------------- quantifiers and stack ------------------------- *)
MaxOne(q) == q \in {"!", "?"}
MinOne(q) == q \in {"!", "+"}
MayMiss(q) == q \in {"*", "?"}
MustMatch(q, hm) == ~hm /\ MinOne(q)
HasMatchedMutPlus(q, hm) == hm \/ q # "!"
HasMatched(q, hm) == hm \/ MayMiss(q)

Top(s) == s.stack[Len(s.stack)]
Type(s, d) == def[s.stack[d].p].type

\* The particle to look at first: the active one, the next one if that is used up.
ContextMutStays(s, d) == LET e == s.stack[d] IN [ac |-> e.ac, hm |-> e.hm]
Context(s, d) ==
  LET e == s.stack[d]
  IN IF e.hm /\ MaxOne(def[e.p].q[e.ac]) THEN [ac |-> e.ac + 1, hm |-> FALSE]
     ELSE [ac |-> e.ac, hm |-> e.hm]

Push(s, p) ==
  [s EXCEPT !.stack = Append(@, [p |-> p, ac |-> 1, hm |-> FALSE, il |-> {}]),
            !.last = IF def[p].type = "NAME" THEN <<>> ELSE @]

\* A pattern that has matched is kept to be put back by rewindStack.  "lost": the
\* C code takes an element off the empty stack, goes on with a stack element that
\* it has given back, or never returns.
Pop(s) ==
  IF s.stack = <<>> THEN [s EXCEPT !.lost = TRUE]
  ELSE [s EXCEPT !.stack = Front(@),
                 !.last = CASE def[Top(s).p].type = "NAME" -> <<>>
                            [] Top(s).hm -> <<Top(s)>> \o @
                            [] OTHER -> @]

RewindStack(s) == [s EXCEPT !.stack = @ \o s.last, !.last = <<>>]
CheckRewind(s) ==
  IF "REWIND" \in s.fl THEN [RewindStack(s) EXCEPT !.fl = @ \ {"REWIND"}] ELSE s

\* The frame d of pattern p has matched its particle ac.
UpdateStack(s, d, p, ac) ==
  IF "REWIND" \in s.fl \/ d > Len(s.stack) \/ s.stack[d].p # p THEN s
  ELSE [s EXCEPT !.stack[d].ac = ac, !.stack[d].hm = TRUE]
MarkInterleaved(s, d, i) ==
  IF "REWIND" \in s.fl \/ d > Len(s.stack) THEN s
  ELSE [s EXCEPT !.stack[d].hm = TRUE, !.stack[d].il = @ \union {i}]

RecursivePattern(s, d, p) ==
  \E e \in 1 .. d : /\ s.stack[e].p = p /\ ~s.stack[e].hm
                    /\ \A f \in e .. d : Type(s, f) # "NAME"

Keyspace(s, p) == [s EXCEPT !.ks = IF def[p].type = "KEYSPACE" THEN @ + 1 ELSE @ - 1]

(* ------------------------------- recovery -------------------------------- *)
\* The open element ends here, with the keyspaces that would have ended.  The
\* loop looks at one particle only, as often as there are particles left.
RECURSIVE FinalizeElement(_, _)
FinalizeElement(s, ac) ==
  LET p == Top(s).p
      left == Len(def[p].c) - ac + 1
      k == IF def[p].type \notin {"NAME", "PATTERN"} \/ left <= 0 THEN 0
           ELSE CASE def[def[p].c[ac]].type = "KEYSPACE" -> left
                  [] def[def[p].c[ac]].type = "KEYSPACE_END" -> 0 - left
                  [] OTHER -> 0
      t == [Pop(s) EXCEPT !.ks = @ + k]
  IN IF def[p].type = "NAME" THEN t ELSE FinalizeElement(t, Top(t).ac + 1)

Recovered(s, error, at, ac) ==
  CASE error = "MISSING_ELEMENT" /\ at = "start" /\ s.rep = "ignore" ->
         [s EXCEPT !.fl = @ \union {"IGNORE"}]
    [] error \in {"MISSING_ELEMENT", "UNEXPECTED_ELEMENT"} /\ at = "start" /\ s.rep = "vanish" ->
         [s EXCEPT !.fl = @ \union {"REWIND"}, !.skip = 1]
    [] error \in {"MISSING_ELEMENT", "UNEXPECTED_ELEMENT"} /\ at = "start"
         /\ (s.rep # "vanish") /\ ~(error = "MISSING_ELEMENT" /\ s.rep = "ignore") ->
         [FinalizeElement(s, ac + 1) EXCEPT !.skip = 2]
    [] error \in {"MISSING_ELEMENT", "MISSING_TEXT"} /\ at = "end" ->
         [s EXCEPT !.fl = @ \union {IF s.rep = "ignore" THEN "CONTINUE" ELSE "QUIET"}]
    [] error = "UNEXPECTED_TEXT" -> [s EXCEPT !.fl = @ \union {"REWIND"}]
    [] OTHER -> s

\* A pattern on top that has not matched yet is only tried: no report.
Tried(s) == s.stack # <<>> /\ Type(s, Len(s.stack)) # "NAME" /\ Top(s).ac = 1 /\ ~Top(s).hm
Recover(s, error, at, ac) ==
  CASE s.rep = "none" \/ s.err -> [ok |-> FALSE, s |-> s]
    [] "QUIET" \in s.fl -> [ok |-> TRUE, s |-> s]
    [] Tried(s) -> [ok |-> FALSE, s |-> s]
    [] s.rep = "error" -> [ok |-> FALSE, s |-> [s EXCEPT !.err = TRUE, !.told = TRUE]]
    [] OTHER -> [ok |-> TRUE, s |-> Recovered([s EXCEPT !.told = TRUE], error, at, ac)]

\* Outcomes of a match: 1 found, 0 an error, -1 the pattern is through.
Outcome(r) == [rc |-> IF r.ok THEN 1 ELSE 0, s |-> r.s]
Is(rc, s) == [rc |-> rc, s |-> s]

(* --------------------------- start of an element ------------------------- *)
RECURSIVE MatchElementStart(_, _), StartAt(_, _, _, _, _), StartChoice(_, _, _, _, _, _),
          StartInterleave(_, _, _, _, _), StartChild(_, _, _, _)

\* A particle probed on a stack element of its own, which is popped if it failed.
PopUnlessFound(r) == IF r.rc = 1 THEN r ELSE Is(r.rc, Pop(r.s))
StartProbe(s, n, d, p) ==
  IF def[p].type = "PATTERN" /\ RecursivePattern(s, d, p) THEN Is(-1, s)
  ELSE PopUnlessFound(MatchElementStart(Push(s, p), n))

StartChild(s, n, d, p) ==
  CASE def[p].type = "ANY" -> Is(1, [s EXCEPT !.skip = 1])
    [] def[p].type = "NAME" -> IF def[p].name = n THEN Is(1, Push(s, p)) ELSE Is(0, s)
    [] def[p].type = "TEXT" -> Is(0, s)
    [] OTHER -> StartProbe(s, n, d, p)

\* The alternatives in order; -1 if one of them may be missed.
AfterAlternative(r, n, d, p, i, mayskip) ==
  IF r.rc = 1 THEN r
  ELSE StartChoice(r.s, n, d, p, i + 1, mayskip \/ r.rc = -1 \/ MayMiss(def[p].q[i]))
StartChoice(s, n, d, p, i, mayskip) ==
  IF i > Len(def[p].c) THEN Is(IF mayskip THEN -1 ELSE 0, s)
  ELSE AfterAlternative(StartChild(s, n, d, def[p].c[i]), n, d, p, i, mayskip)

\* The particles of an element or pattern from ac on.
MissingElement(e, d, p, ac) ==
  IF ~e.ok THEN Is(0, e.s)
  ELSE Is(1, IF "IGNORE" \in e.s.fl THEN UpdateStack(e.s, d, p, ac) ELSE e.s)
\* After the answer r of particle ac, or after one that matches no element.
AfterParticle(r, n, d, p, ac, hm) ==
  CASE r.rc = 1 -> Is(1, UpdateStack(r.s, d, p, ac))
    [] r.rc = 0 /\ MustMatch(def[p].q[ac], hm) ->
         MissingElement(Recover(r.s, "MISSING_ELEMENT", "start", ac), d, p, ac)
    [] OTHER -> StartAt(r.s, n, d, ac + 1, FALSE)
AfterOther(r, n, d, ac) == IF r.ok THEN StartAt(r.s, n, d, ac + 1, FALSE) ELSE Is(0, r.s)
StartAt(s, n, d, ac, hm) ==
  LET p == s.stack[d].p
      c == def[p].c[ac]
  IN CASE ac > Len(def[p].c) ->
            IF def[p].type = "NAME"
            THEN Outcome(Recover(s, "UNEXPECTED_ELEMENT", "start", 1)) ELSE Is(-1, s)
       [] ac <= Len(def[p].c) /\ def[c].type \in {"KEYSPACE", "KEYSPACE_END"} ->
            AfterOther([ok |-> TRUE, s |-> Keyspace(s, c)], n, d, ac)
       [] ac <= Len(def[p].c) /\ def[c].type = "TEXT" /\ "" \notin def[c].txt ->
            AfterOther(Recover(s, "MISSING_TEXT", "start", ac), n, d, ac)
       [] OTHER ->
            AfterParticle(IF def[c].type = "CHOICE" THEN StartChoice(s, n, d, c, 1, FALSE)
                          ELSE StartChild(s, n, d, c), n, d, p, ac, hm)

\* The children of an interleave in the order of the schema; a child that must
\* match and does not now, even if it matched before, makes it mandatory.
MissingChild(r, d, q, miss) ==
  IF ~r.ok THEN Is(0, r.s)
  ELSE IF "IGNORE" \notin r.s.fl \/ miss = {} THEN Is(1, r.s)
  ELSE Is(1, [r.s EXCEPT !.stack[d].il = @ \union {CHOOSE j \in miss : \A k \in miss : j <= k}])
AfterInterleaved(r, n, d, i, mayskip, q) ==
  IF r.rc = 1 THEN Is(1, MarkInterleaved(r.s, d, i))
  ELSE StartInterleave(r.s, n, d, i + 1, mayskip /\ (r.rc = -1 \/ ~MinOne(q)))
StartInterleave(s, n, d, i, mayskip) ==
  LET p == s.stack[d].p
      q == def[p].q
      c == def[p].c[i]
  IN CASE i > Len(q) ->
            IF mayskip THEN Is(-1, s)
            ELSE MissingChild(Recover(s, "MISSING_ELEMENT", "start", Len(q)), d, q,
                              {j \in 1 .. Len(q) : j \notin s.stack[d].il /\ MinOne(q[j])})
       [] i <= Len(q) /\ i \in s.stack[d].il /\ MaxOne(q[i]) ->
            StartInterleave(s, n, d, i + 1, mayskip)
       [] OTHER ->
            AfterInterleaved(IF def[c].type = "TEXT" THEN Is(IF "" \in def[c].txt THEN -1 ELSE 0, s)
                             ELSE StartChild(s, n, d, c), n, d, i, mayskip, q[i])

MatchElementStart(s, n) ==
  LET d == Len(s.stack) IN
  CASE d = 0 -> Is(0, s)
    [] d > 0 /\ Type(s, d) = "INTERLEAVE" -> StartInterleave(s, n, d, 1, TRUE)
    [] OTHER -> LET x == Context(s, d) IN StartAt(s, n, d, x.ac, x.hm)

(* ---------------------------- end of an element -------------------------- *)
RECURSIVE CheckElementEnd(_), EndAt(_, _, _), EndChoice(_, _, _, _)

AfterEndChoice(r, d, p, i) ==
  IF r.rc = -1 THEN Is(1, Pop(r.s)) ELSE EndChoice(Pop(r.s), d, p, i + 1)
\* Whether one of the alternatives may be empty.
EndChoice(s, d, p, i) ==
  IF i > Len(def[p].c) THEN Is(0, s)
  ELSE LET c == def[p].c[i] IN
    CASE MayMiss(def[p].q[i]) -> Is(1, s)
      [] ~MayMiss(def[p].q[i]) /\ def[c].type = "TEXT" /\ "" \in def[c].txt -> Is(1, s)
      [] ~MayMiss(def[p].q[i]) /\ def[c].type \in {"PATTERN", "INTERLEAVE"} ->
           IF def[c].type = "PATTERN" /\ RecursivePattern(s, d, c) THEN Is(1, s)
           ELSE AfterEndChoice(CheckElementEnd(Push(s, c)), d, p, i)
      [] OTHER -> EndChoice(s, d, p, i + 1)

\* The error of a particle that is missing, after the probe of it.
AfterMissing(r, error, d, ac) ==
  CASE ~r.ok -> Is(0, r.s)
    [] r.ok /\ error = "MISSING_ELEMENT" /\ "CONTINUE" \in r.s.fl ->
         Is(2, UpdateStack(r.s, d, r.s.stack[d].p, ac))
    [] OTHER -> EndAt(r.s, d, ac + 1)
Missing(t, error, d, ac) == AfterMissing(Recover(t, error, "end", 0), error, d, ac)

AfterEndProbe(rc, s, t, d, p, ac) ==
  CASE rc = 0 /\ (Type(t, Len(t.stack)) = "NAME" \/ Top(t).ac > 1 \/ Top(t).hm) ->
         Missing(t, "MISSING_ELEMENT", d, ac)
    [] rc = 0 /\ Type(t, Len(t.stack)) # "NAME" /\ Top(t).ac = 1 /\ ~Top(t).hm -> Is(0, t)
    [] rc = 2 -> Is(2, UpdateStack(s, d, p, ac))
    [] OTHER -> EndAt(t, d, ac + 1)
EndProbe(r, d, p, ac) == AfterEndProbe(r.rc, r.s, Pop(r.s), d, p, ac)
EndOfChoice(r, d, ac) ==
  IF r.rc = 1 THEN EndAt(r.s, d, ac + 1) ELSE Missing(r.s, "MISSING_ELEMENT", d, ac)

EndAt(s, d, ac) ==
  LET p == s.stack[d].p
  IN IF ac > Len(def[p].c) THEN Is(IF def[p].type = "NAME" THEN 1 ELSE -1, s)
     ELSE IF ac \in s.stack[d].il \/ MayMiss(def[p].q[ac]) THEN EndAt(s, d, ac + 1)
     ELSE LET c == def[p].c[ac] IN
       CASE def[c].type \in {"KEYSPACE", "KEYSPACE_END"} -> EndAt(Keyspace(s, c), d, ac + 1)
         [] def[c].type = "TEXT" ->
              IF "" \in def[c].txt THEN EndAt(s, d, ac + 1) ELSE Missing(s, "MISSING_TEXT", d, ac)
         [] def[c].type = "CHOICE" -> EndOfChoice(EndChoice(s, d, c, 1), d, ac)
         [] def[c].type \in {"NAME", "ANY"} -> Missing(s, "MISSING_ELEMENT", d, ac)
         [] def[c].type = "PATTERN" /\ RecursivePattern(s, d, c) -> EndAt(s, d, ac + 1)
         [] OTHER -> EndProbe(CheckElementEnd(Push(s, c)), d, p, ac)

CheckElementEnd(s) ==
  LET d == Len(s.stack)
      x == IF Type(s, d) = "INTERLEAVE" THEN [ac |-> 1, hm |-> FALSE] ELSE Context(s, d)
      q == def[s.stack[d].p].q
  IN EndAt(s, d, IF x.ac <= Len(q) /\ HasMatched(q[x.ac], x.hm) THEN x.ac + 1 ELSE x.ac)

(* --------------------------------- text ---------------------------------- *)
RECURSIVE MatchText(_, _), TextAt(_, _, _, _, _), TextChoice(_, _, _, _, _),
          TextInterleave(_, _, _, _, _), TextOfParent(_, _), TextChild(_, _, _, _)

TextPopUnlessFound(r) == IF r.rc = 1 THEN r ELSE Is(0, Pop(r.s))
\* Text is matched by the first particle that accepts it; 1 found, 0 not.
TextProbe(s, t, d, p) ==
  IF def[p].type = "PATTERN" /\ RecursivePattern(s, d, p) THEN Is(0, s)
  ELSE TextPopUnlessFound(MatchText(Push(s, p), t))

TextChild(s, t, d, p) ==
  CASE def[p].type = "TEXT" -> Is(IF t \in def[p].txt THEN 1 ELSE 0, s)
    [] def[p].type \in {"NAME", "ANY"} -> Is(0, s)
    [] OTHER -> TextProbe(s, t, d, p)

AfterTextChoice(r, t, d, p, i) == IF r.rc = 1 THEN r ELSE TextChoice(r.s, t, d, p, i + 1)
TextChoice(s, t, d, p, i) ==
  IF i > Len(def[p].c) THEN Is(0, s)
  ELSE AfterTextChoice(TextChild(s, t, d, def[p].c[i]), t, d, p, i)

AfterTextParticle(r, t, d, p, ac, hm) ==
  CASE r.rc = 1 -> Is(1, UpdateStack(r.s, d, p, ac))
    [] r.rc # 1 /\ (d > Len(r.s.stack) \/ r.s.lost) -> Is(0, [r.s EXCEPT !.lost = TRUE])
    [] OTHER -> IF MustMatch(def[p].q[ac], hm)
                THEN Outcome(Recover(r.s, "UNEXPECTED_TEXT", "text", ac))
                ELSE TextAt(r.s, t, d, ac + 1, hm)
\* The particle is a text: the only one that takes it.
OfText(r, d, p, ac) == Is(IF r.ok THEN 1 ELSE 0, IF r.ok THEN UpdateStack(r.s, d, p, ac) ELSE r.s)

TextAt(s, t, d, ac, hm) ==
  LET p == s.stack[d].p IN
  IF ac > Len(def[p].c)
  THEN IF def[p].type = "NAME" THEN Outcome(Recover(s, "UNEXPECTED_TEXT", "text", 0))
       ELSE TextOfParent(Pop(s), t)
  ELSE LET c == def[p].c[ac] IN
    CASE def[c].type \in {"KEYSPACE", "KEYSPACE_END"} -> TextAt(Keyspace(s, c), t, d, ac + 1, hm)
      [] def[c].type = "TEXT" ->
           OfText(IF t \in def[c].txt THEN [ok |-> TRUE, s |-> s]
                  ELSE Recover(s, "INVALID_VALUE", "text", ac), d, p, ac)
      \* a pattern inside of itself is passed over even where it must match
      [] def[c].type = "PATTERN" /\ RecursivePattern(s, d, c) -> TextAt(s, t, d, ac + 1, hm)
      [] OTHER ->
           AfterTextParticle(
             CASE def[c].type = "CHOICE" /\ def[c].name = "mixed" -> Is(1, s)
               [] def[c].type = "CHOICE" /\ def[c].name # "mixed" -> TextChoice(s, t, d, c, 1)
               [] OTHER -> TextChild(s, t, d, c), t, d, p, ac, hm)

\* The pattern is through: on with the particle after it in its parent.  The
\* context has moved on already if the pattern may match only once.
TextOfParent(s, t) ==
  IF s.lost \/ s.stack = <<>> THEN Is(0, [s EXCEPT !.lost = TRUE])
  ELSE LET d == Len(s.stack)
           x == Context(s, d)
       IN IF Type(s, d) = "INTERLEAVE" THEN TextInterleave(s, t, d, 1, TRUE)
          ELSE TextAt(s, t, d, x.ac + 1, x.hm)

AfterTextInterleaved(r, t, d, p, i, skips, ac) ==
  CASE r.rc = 1 /\ def[def[p].c[i]].type = "TEXT" -> Is(1, MarkInterleaved(r.s, d, i))
    [] r.rc = 1 /\ def[def[p].c[i]].type # "TEXT" -> Is(1, UpdateStack(r.s, d, p, ac))
    [] OTHER -> TextInterleave(r.s, t, d, i + 1, skips)
TextInterleave(s, t, d, i, mayskip) ==
  LET p == s.stack[d].p
      q == def[p].q
      used == i \in s.stack[d].il
      skips == mayskip /\ (used \/ ~MinOne(q[i]))
  IN IF i > Len(q)
     THEN IF mayskip THEN TextOfParent(Pop(s), t)
          ELSE Outcome(Recover(s, "UNEXPECTED_TEXT", "text", Len(q)))
     ELSE IF used /\ MaxOne(q[i]) THEN TextInterleave(s, t, d, i + 1, mayskip)
     ELSE AfterTextInterleaved(TextChild(s, t, d, def[p].c[i]), t, d, p, i, skips, Context(s, d).ac)

MatchText(s, t) ==
  LET d == Len(s.stack)
      x == Context(s, d)
  IN IF Type(s, d) = "INTERLEAVE" THEN TextInterleave(s, t, d, 1, TRUE)
     ELSE TextAt(s, t, d, x.ac, x.hm)

(* -------------------------------- events --------------------------------- *)
\* Up the stack until a pattern or the element decides.
RECURSIVE ProbeUp(_, _), EndUp(_)
ProbedUp(r, s, n) ==
  CASE r.rc = -1 -> ProbeUp(Pop(r.s), n)
    [] r.rc = 1 /\ "IGNORE" \in r.s.fl ->
         IF r.s.stack = s.stack THEN Is(0, [r.s EXCEPT !.fl = @ \ {"IGNORE"}, !.lost = TRUE])
         ELSE ProbeUp([r.s EXCEPT !.fl = @ \ {"IGNORE"}], n)
    [] r.rc = 1 /\ "IGNORE" \notin r.s.fl -> Is(1, CheckRewind(r.s))
    [] OTHER -> r
ProbeUp(s, n) == ProbedUp(MatchElementStart(s, n), s, n)

EndedUpMutKeepsQuiet(r, s) ==
  CASE r.rc = -1 -> EndUp(Pop(r.s))
    [] r.rc = 2 -> IF r.s.stack = s.stack THEN Is(0, [r.s EXCEPT !.lost = TRUE])
                   ELSE EndUp([r.s EXCEPT !.fl = @ \ {"CONTINUE"}])
    [] r.rc = 1 -> Is(1, Pop(r.s))
    [] OTHER -> Is(0, r.s)
EndedUp(r, s) ==
  CASE r.rc = -1 -> EndUp(Pop(r.s))
    [] r.rc = 2 ->
         IF r.s.stack = s.stack
         THEN Is(0, [r.s EXCEPT !.fl = @ \ {"QUIET", "CONTINUE"}, !.lost = TRUE])
         ELSE EndUp([r.s EXCEPT !.fl = @ \ {"QUIET", "CONTINUE"}])
    [] r.rc = 1 -> Is(1, Pop([r.s EXCEPT !.fl = @ \ {"QUIET"}]))
    [] OTHER -> Is(0, [r.s EXCEPT !.fl = @ \ {"QUIET"}])
EndUp(s) == EndedUp(CheckElementEnd(s), s)

\* The attributes of the element just pushed; kind and v: an ID or a reference.
\* The check goes on after a report, and even after a report that failed if only
\* required attributes are missing.
Duplicate(kind, v) == kind = "id" /\ v \in DOMAIN ids /\ ids[v] = 1
Check(r, bad, error) == IF r.ok /\ bad THEN Recover(r.s, error, "start", 0) ELSE r
CheckRequired(r, missing) ==
  IF ~r.ok \/ ~missing THEN r
  ELSE [ok |-> r.s.rep # "none", s |-> Recover(r.s, "MISSING_ATTRIBUTE", "start", 0).s]
ProbeAttributes(s, given, kind, v) ==
  CheckRequired(Check(Check([ok |-> TRUE, s |-> s], "z" \in given, "UNKNOWN_ATTRIBUTE"),
                      Duplicate(kind, v), "INVALID_ATTRIBUTE_VALUE"),
                ~ def[Top(s).p].req \subseteq given)

\* What the constraints id and idref do with a value.
ProbeId(kind, v) ==
  CASE kind = "id" /\ v \in DOMAIN ids /\ ~Duplicate(kind, v) ->
         ids' = [ids EXCEPT ![v] = 1] /\ unknownIDrefs' = unknownIDrefs - 1
    [] kind # "none" /\ v \notin DOMAIN ids ->
         /\ ids' = [w \in DOMAIN ids \union {v} |->
                      IF w = v THEN (IF kind = "id" THEN 1 ELSE 0) ELSE ids[w]]
         /\ unknownIDrefs' = unknownIDrefs + (IF kind = "ref" THEN 1 ELSE 0)
    [] OTHER -> UNCHANGED <<ids, unknownIDrefs>>

\* The report command, if there is one, answers each event anew.
Asked(s) == {[s EXCEPT !.rep = a] : a \in IF s.rep = "none" THEN {"none"} ELSE Answers \ {"none"}}
HasAttributes == \E p \in DOMAIN def : def[p].req # {}
Attributes == IF HasAttributes THEN SUBSET {"x", "z"} ELSE {{}}
Ids == IF HasAttributes THEN {<<"none", 0>>, <<"id", 1>>, <<"ref", 1>>, <<"ref", 2>>} ELSE {<<"none", 0>>}

\* History: the answer to the next word of the content of the innermost element.
Judge(item, s, ok) ==
  verdict' = IF open = <<>> \/ s.told \/ Last(open).el = "" THEN NoVerdict
             ELSE [el |-> Last(open).el, word |-> Append(Last(open).word, item), ok |-> ok]
Tell(item) == IF open = <<>> THEN <<>>
              ELSE [open EXCEPT ![Len(open)].word =
                      IF m.told \/ Last(open).el = "" THEN <<item>> ELSE Append(@, item)]
Done(ok) == result' = IF ok THEN "ok" ELSE "error"

\* An error ends the validation: the parser is stopped.
Running == state \in {"READY", "STARTED", "FINISHED"} /\ result = "ok"
Fits == Len(m.stack) < MaxStack /\ m.ks \in -1 .. 2 /\ (open # <<>> => Len(Last(open).word) < MaxKids)

StartSkipped(n) ==
  /\ m.skip > 0 /\ m' = [m EXCEPT !.skip = @ + 1] /\ open' = Append(Tell(n), [el |-> "", word |-> <<>>])
  /\ verdict' = NoVerdict
  /\ UNCHANGED <<def, state, ids, unknownIDrefs, result>>

\* The first element: an unknown one is skipped, one that is not the element
\* named by start ends the validation.
StartRoot(n) ==
  /\ state = "READY" /\ m.skip = 0 /\ open = <<>>
  /\ \E s \in Asked(m) :
       LET known == n \in DOMAIN def /\ def[n].type = "NAME"
           wrong == "start" \in DOMAIN def /\ n # def["start"].name
           r == Recover(s, "UNKNOWN_ROOT_ELEMENT", "start", 0)
       IN /\ state' = IF ~wrong THEN (IF known \/ r.ok THEN "STARTED" ELSE "ERROR")
                      ELSE IF r.ok THEN "FINISHED" ELSE "ERROR"
          /\ m' = CASE wrong -> r.s
                    [] ~wrong /\ known -> Push(s, n)
                    [] OTHER -> IF r.ok THEN [r.s EXCEPT !.skip = 1] ELSE r.s
          /\ Done(r.ok \/ (known /\ ~wrong))
          /\ open' = <<[el |-> IF known /\ ~wrong THEN n ELSE "", word |-> <<>>]>>
  /\ verdict' = NoVerdict /\ UNCHANGED <<def, ids, unknownIDrefs>>

StartElement(n, given, kind, v) ==
  /\ state = "STARTED" /\ m.skip = 0 /\ open # <<>>
  /\ \E s \in Asked(m) : \E r \in {ProbeUp(s, n)} :
     LET inside == r.rc = 1 /\ r.s.skip = 0 /\ r.s.stack # <<>>
     IN \E a \in {IF inside THEN ProbeAttributes(r.s, given, kind, v)
                  ELSE [ok |-> r.rc = 1, s |-> r.s]} :
          /\ m' = a.s /\ Done(a.ok) /\ state' = IF a.ok THEN state ELSE "ERROR"
          /\ Judge(n, r.s, r.rc = 1)
          /\ open' = Append(Tell(n), [el |-> IF inside THEN Top(r.s).p ELSE "", word |-> <<>>])
          /\ IF inside THEN ProbeId(kind, v)
             ELSE given = {} /\ kind = "none" /\ UNCHANGED <<ids, unknownIDrefs>>
  /\ UNCHANGED def

ElementStart ==
  /\ Running /\ Fits /\ Len(open) < MaxDepth
  /\ \E n \in Names : \/ StartSkipped(n) \/ StartRoot(n)
                      \/ \E given \in Attributes, i \in Ids : StartElement(n, given, i[1], i[2])

EndSkipped ==
  /\ m.skip > 0 /\ m' = [m EXCEPT !.skip = @ - 1] /\ verdict' = NoVerdict /\ result' = "ok"
  /\ UNCHANGED <<def, state, ids, unknownIDrefs>>

\* The end of the root element asks for the references to unknown IDs.
EndElement ==
  /\ m.skip = 0 /\ UNCHANGED <<def, ids, unknownIDrefs>>
  /\ IF state = "FINISHED" THEN /\ result' = "error" /\ state' = "ERROR" /\ verdict' = NoVerdict
                                /\ UNCHANGED m
     ELSE \E s \in Asked(m) : \E r \in {EndUp(s)} :
       LET last == r.rc = 1 /\ r.s.stack = <<>>
       IN \E k \in {IF last /\ unknownIDrefs > 0 THEN Recover(r.s, "UNKNOWN_ID", "global", 0)
                    ELSE [ok |-> r.rc = 1, s |-> r.s]} :
          /\ m' = k.s /\ Done(k.ok) /\ Judge("end", r.s, r.rc = 1)
          /\ state' = IF ~k.ok THEN "ERROR" ELSE IF last THEN "FINISHED" ELSE state

ElementEnd == /\ Running /\ open # <<>> /\ open' = Front(open)
              /\ EndSkipped \/ EndElement

\* Adjacent texts are one.
Text ==
  /\ Running /\ open # <<>> /\ Fits /\ ~(Last(open).word # <<>> /\ Last(Last(open).word) \in Texts)
  /\ \E t \in Texts :
       /\ open' = Tell(t)
       /\ IF m.skip > 0 THEN UNCHANGED <<m, state, result>> /\ verdict' = NoVerdict
          ELSE IF state = "FINISHED" THEN /\ result' = "error" /\ state' = "ERROR"
                                          /\ verdict' = NoVerdict /\ UNCHANGED m
          ELSE \E s \in Asked(m) : \E r \in {MatchText(s, t)} :
                    /\ m' = CheckRewind(r.s) /\ Done(r.rc = 1) /\ Judge(t, r.s, r.rc = 1)
                    /\ state' = IF r.rc = 1 THEN state ELSE "ERROR"
  /\ UNCHANGED <<def, ids, unknownIDrefs>>

\* reset, or the end of a validation: everything but the definitions.
SchemaReset ==
  /\ state # "READY" /\ state' = "READY" /\ \E a \in {"none", "ok"} \intersect Answers : m' = [Matcher EXCEPT !.rep = a]
  /\ ids' = <<>> /\ unknownIDrefs' = 0
  /\ open' = <<>> /\ verdict' = NoVerdict /\ result' = "ok" /\ UNCHANGED def

Next == ElementStart \/ ElementEnd \/ Text \/ SchemaReset
Spec == Init /\ [][Next]_vars

(* -------------------------- info expected -------------------------------- *)
\* What a stack element may be followed by, without options.  seen: the patterns
\* already looked into; rc: the pattern may be through.  chain is the list of
\* stack elements recursivePattern walks.
Nothing == [items |-> {}, seen |-> {}, rc |-> FALSE]
Listed(acc, item, rc) == [acc EXCEPT !.items = @ \union {item}, !.rc = rc]
RECURSIVE NextExpectedWorker(_, _)

\* Into a pattern or interleave, once.
ExpectedInside(chain, p, acc) ==
  IF p \in acc.seen THEN [acc EXCEPT !.rc = FALSE]
  ELSE NextExpectedWorker(<<[p |-> p, ac |-> 1, hm |-> FALSE, il |-> {}]>>, [acc EXCEPT !.seen = @ \union {p}])
ExpectedRecursive(chain, p) == def[p].type = "PATTERN" /\ RecursivePattern([stack |-> chain], Len(chain), p)
\* An alternative; only a pattern changes rc.
ExpectedAlternative(chain, p, acc) ==
  CASE def[p].type = "NAME" -> Listed(acc, def[p].name, acc.rc)
    [] def[p].type = "ANY" -> Listed(acc, "<any>", acc.rc)
    [] def[p].type = "TEXT" -> Listed(acc, "#text", acc.rc)
    [] OTHER -> IF ExpectedRecursive(chain, p) \/ p \in acc.seen THEN acc ELSE ExpectedInside(chain, p, acc)
ExpectedChoice(chain, p, acc) ==
  FoldLeft(LAMBDA a, c : ExpectedAlternative(chain, c, a),
           IF def[p].name = "mixed" THEN Listed(acc, "#text", FALSE) ELSE [acc EXCEPT !.rc = FALSE], def[p].c)
ExpectedChild(chain, p, acc) ==
  CASE def[p].type = "NAME" -> Listed(acc, def[p].name, FALSE)
    [] def[p].type = "ANY" -> Listed(acc, "<any>", FALSE)
    [] def[p].type = "TEXT" -> Listed(acc, "#text", "" \in def[p].txt)
    [] def[p].type = "CHOICE" -> ExpectedChoice(chain, p, acc)
    [] def[p].type \in {"KEYSPACE", "KEYSPACE_END"} -> [acc EXCEPT !.rc = TRUE]
    [] OTHER -> IF ExpectedRecursive(chain, p) THEN [acc EXCEPT !.rc = FALSE]
                ELSE ExpectedInside(chain, p, acc)

RECURSIVE ExpectedFrom(_, _, _, _)
\* The particles in order up to one that is mandatory.
StopsAtMutOptional(rc, q, hm) == ~rc /\ ~hm
StopsAt(rc, q, hm) == ~rc /\ ~hm /\ MinOne(q)
ExpectedFrom(chain, ac, hm, acc) ==
  LET p == Last(chain).p
      r == ExpectedChild(chain, def[p].c[ac], acc)
  IN CASE ac > Len(def[p].c) -> IF def[p].type = "NAME" THEN Listed(acc, "<elementend>", FALSE)
                                ELSE [acc EXCEPT !.rc = TRUE]
       [] ac <= Len(def[p].c) /\ StopsAt(r.rc, def[p].q[ac], hm) -> [r EXCEPT !.rc = FALSE]
       [] OTHER -> ExpectedFrom(chain, ac + 1, FALSE, r)
\* All children of an interleave that may come.
ExpectedInterleave(chain, acc) ==
  LET e == Last(chain)
      q == def[e.p].q
      may == {i \in DOMAIN q : ~(i \in e.il /\ MaxOne(q[i]))}
      Add(a, i) == ExpectedChild(chain, def[e.p].c[i], a)
  IN [FoldLeft(Add, acc, SetToSortSeq(may, <)) EXCEPT !.rc = ~\E i \in may : MinOne(q[i])]

NextExpectedWorker(chain, acc) ==
  IF def[Last(chain).p].type = "INTERLEAVE" THEN ExpectedInterleave(chain, acc)
  ELSE LET x == Context([stack |-> chain], Len(chain)) IN ExpectedFrom(chain, x.ac, x.hm, acc)

\* First what was popped by the last event, from the innermost on, then the stack.
RECURSIVE ExpectedPopped(_, _, _), ExpectedOnStack(_, _, _)
ExpectedPopped(s, k, acc) ==
  IF k = 0 THEN acc
  ELSE LET r == NextExpectedWorker(Reverse(SubSeq(s.last, k, Len(s.last))), acc)
       IN IF r.rc THEN ExpectedPopped(s, k - 1, r) ELSE r
ExpectedOnStack(s, d, acc) ==
  IF d = 0 THEN acc
  ELSE IF ~s.stack[d].hm /\ Type(s, d) # "NAME" THEN ExpectedOnStack(s, d - 1, acc)
  ELSE LET r == NextExpectedWorker(SubSeq(s.stack, 1, d), acc)
       IN IF r.rc /\ Type(s, d) # "NAME" THEN ExpectedOnStack(s, d - 1, r) ELSE r
GetNextExpected(s) ==
  ExpectedOnStack(s, Len(s.stack), ExpectedPopped(s, Len(s.last), Nothing)).items

(* ----------------------- the language of a schema ------------------------ *)
Reach == MaxKids + 2
Cut(W) == {w \in W : Len(w) <= Reach}
Cat(A, B) == Cut({u \o w : u \in A, w \in B})
Star(A) == LET pow[i \in 0 .. Reach] == IF i = 0 THEN {<<>>} ELSE pow[i - 1] \union Cat(A, pow[i - 1])
           IN pow[Reach]
Quantified(A, q) == CASE q = "!" -> A [] q = "?" -> A \union {<<>>}
                      [] q = "*" -> Star(A) [] q = "+" -> Cat(A, Star(A))

\* k bounds how often a pattern that contains itself is opened.
RECURSIVE Child(_, _, _)
InOrder(D, p, k) ==
  LET to[i \in 0 .. Len(D[p].c)] ==
        IF i = 0 THEN {<<>>} ELSE Cat(to[i - 1], Quantified(Child(D, D[p].c[i], k - 1), D[p].q[i]))
  IN to[Len(D[p].c)]
\* The children of an interleave as often as their quantifiers say, in any order.
AnyOrder(D, p, k) ==
  LET n == Len(D[p].c)
      Times(is, i) == Cardinality({j \in DOMAIN is : is[j] = i})
      fits(is) == \A i \in 1 .. n : /\ MinOne(D[p].q[i]) => Times(is, i) > 0
                                    /\ MaxOne(D[p].q[i]) => Times(is, i) < 2
      word(is) == FoldLeft(LAMBDA W, i : Cat(W, Child(D, D[p].c[i], k - 1)), {<<>>}, is)
  IN UNION {word(is) : is \in {x \in SeqOf(1 .. n, Reach) : fits(x)}}
Child(D, p, k) ==
  CASE k = 0 -> {}
    [] D[p].type = "NAME" -> {<<D[p].name>>}
    [] D[p].type = "ANY" -> {<<n>> : n \in Names}
    [] D[p].type = "TEXT" -> {IF t = "" THEN <<>> ELSE <<t>> : t \in D[p].txt}
    [] D[p].type = "CHOICE" ->
         UNION {Quantified(Child(D, D[p].c[i], k - 1), D[p].q[i]) : i \in DOMAIN D[p].c}
         \union (IF D[p].name = "mixed" THEN {<<t>> : t \in Texts} ELSE {})
    [] D[p].type = "PATTERN" -> InOrder(D, p, k)
    [] D[p].type = "INTERLEAVE" -> AnyOrder(D, p, k)
    [] OTHER -> {<<>>}
Lang == [D \in Schemas |-> [p \in {e \in DOMAIN D : D[e].type = "NAME"} |-> InOrder(D, p, 4 * Reach)]]

(* ------------------------------ properties ------------------------------- *)
\* The matcher's state has the values its code gives it.
TypeOK ==
  /\ state \in {"READY", "STARTED", "ERROR", "FINISHED"} /\ m.skip \in Nat
  /\ m.fl \subseteq {"REWIND", "IGNORE", "CONTINUE", "QUIET"}
  /\ \A e \in Range(m.stack) \union Range(m.last) :
       e.p \in DOMAIN def /\ e.ac \in 1 .. Len(def[e.p].c) + 1 /\ e.il \subseteq DOMAIN def[e.p].c
  /\ unknownIDrefs \in Nat

\* Without looking ahead, an event is accepted only if the content told so far
\* can still become, and an element end only if it is, what the schema describes.
Described(v) == IF Last(v.word) = "end" THEN Front(v.word) \in Lang[def][v.el]
                ELSE \E w \in Lang[def][v.el] : IsPrefix(v.word, w)
Sound == verdict # NoVerdict /\ verdict.ok => Described(verdict)

\* What the schema describes is accepted.
Complete == verdict # NoVerdict /\ ~verdict.ok => ~Described(verdict)

\* An event is accepted if and only if the schema describes what was told so far.
AcceptsExactly == Sound /\ Complete

\* What the schema describes as the next event after these.
Accepted(word) ==
  LET more == {w \in Lang[def][Last(open).el] : IsPrefix(word, w)}
      next == {w[Len(word) + 1] : w \in {w \in more : Len(w) > Len(word)}}
  IN (next \ Texts) \union (IF next \intersect Texts # {} THEN {"#text"} ELSE {})
     \union (IF word \in more THEN {"<elementend>"} ELSE {})
\* An interleave with a child that was there and may come again.
AgainMandatory == \E e \in Range(m.stack) : \E i \in e.il : def[e.p].q[i] = "+"
\* info expected names the events that would be accepted next, and no others,
\* however deep the patterns are that the last event was matched in.
ExpectedIsAccepted ==
  (~AgainMandatory /\ open # <<>> /\ state = "STARTED" /\ m.skip = 0 /\ ~m.told /\ Last(open).el # "" /\ result = "ok") =>
    LET told == GetNextExpected(m)
    IN (told \ {"<any>"}) \union (IF "<any>" \in told THEN Names ELSE {}) = Accepted(Last(open).word)

\* Whatever is reported, skipped or ended early, the elements on the stack and
\* those skipped are together the open elements of the document.
StackFollowsDocument ==
  state = "STARTED" =>
    Cardinality({d \in DOMAIN m.stack : Type(m, d) = "NAME"}) + m.skip = Len(open)

\* Between events unknownIDrefs is the number of IDs that are only referred to.
IdsCounted == unknownIDrefs = Cardinality({v \in DOMAIN ids : ids[v] = 0})

\* Between events the state is that of the document so far, whatever was reported.
StateFollowsDocument == TypeOK /\ StackFollowsDocument /\ IdsCounted
=============================================================================
