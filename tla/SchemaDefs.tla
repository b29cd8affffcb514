----------------------------- MODULE SchemaDefs -----------------------------
(* The definitions of a schema command (generic/schema.c): scripts, nested in  *)
(* each other, build content particles, refer to what is not defined yet, and  *)
(* may fail at every point; then what they made is taken back.  The script     *)
(* around a failed one may catch the error and go on.  There is one namespace. *)
EXTENDS Integers, Sequences, FiniteSets, SequencesExt

CONSTANTS Elements, Types, Patterns, Texts, \* the names definitions use
          Groups, \* the kinds of patterns without a name
          MaxParticles, MaxDepth, MaxContent \* bounds: particles, open scripts, content

\* A particle: where it is found by name, its flags, the type of an instance, its
\* content.  "early" is history: an instance made while its type was defined.
Particle(type, table, name, fl, typ) ==
  [type |-> type, table |-> table, name |-> name, fl |-> fl, typ |-> typ, c |-> <<>>,
   live |-> TRUE]

VARIABLES d,       \* cps: all particles, list: patternList, forward: forwardPatternDefs
          frames,  \* the running scripts: what they define and where the list was
          evals,   \* currentEvals
          deleted, \* the schema command: "no", "asked" (cleanupAfterUse), "freed"
          leaked,  \* history: keyspace scripts that failed
          tainted  \* history: definitions a failed script around them completed

vars == <<d, frames, evals, deleted, leaked, tainted>>

Init == /\ d = [cps |-> <<>>, list |-> <<>>, forward |-> 0] /\ frames = <<>> /\ evals = 0
        /\ deleted = "no" /\ leaked = 0 /\ tainted = {}

(* ------------------------------- particles ------------------------------- *)
Ids(s) == 1 .. Len(s.cps)
\* The text table keeps its entries when the particle is freed.
InTable(s, table, name) ==
  {i \in Ids(s) : /\ s.cps[i].table = table /\ s.cps[i].name = name
                  /\ s.cps[i].live \/ table = "text"
                  /\ "hash_entry_deleted" \notin s.cps[i].fl}
Forward(s, i) == "forward" \in s.cps[i].fl

Make(s, cp) == [s EXCEPT !.cps = Append(@, cp)]
New(s) == Len(s.cps)
Remember(s, i) == [s EXCEPT !.list = Append(@, i)]
MakeForward(s, cp) ==
  LET t == Make(s, [cp EXCEPT !.fl = @ \union {"forward"}])
  IN [Remember(t, New(t)) EXCEPT !.forward = @ + 1]
\* The entry of the table, or one made by f.
Find(s, table, name, f) ==
  LET found == InTable(s, table, name)
  IN IF found # {} THEN [s |-> s, i |-> CHOOSE i \in found : TRUE]
     ELSE LET t == f IN [s |-> t, i |-> New(t)]

Wrap(s, i) ==
  LET t == Make(s, [Particle("PATTERN", "", "", {}, 0) EXCEPT !.c = IF i = 0 THEN <<>> ELSE <<i>>])
  IN Remember(t, New(t))
Put(s, to, i) == [s EXCEPT !.cps[to].c = Append(@, i)]

\* A choice in a choice or an interleave is wrapped, and so is the child of a
\* choice that may come more or less than once.
AddToContent(s, to, i, one) ==
  LET nested == s.cps[to].type \in {"CHOICE", "INTERLEAVE"} /\ s.cps[i].type = "CHOICE"
      t == IF nested THEN Wrap(s, i) ELSE s
      j == IF nested THEN New(t) ELSE i
      u == Wrap(t, 0)
  IN IF t.cps[to].type = "CHOICE" /\ ~one THEN Put(Put(u, to, New(u)), New(u), j)
     ELSE Put(t, to, j)

\* What is taken back with particle i: its forward count, the note of an instance
\* and of all after it in the forward definition of the type, and, with the entry
\* of an element, the entry of the instances that use its name.
Dead(p) == IF p.type = "TEXT" THEN [p EXCEPT !.live = FALSE]
           ELSE [Particle("", "", "", {}, 0) EXCEPT !.live = FALSE]
Counted(s, i) == Forward(s, i) /\ s.cps[i].table \in {"elem", "type", "pat"}
Orphaned(s, i, j) == /\ s.cps[i].table = "elem" /\ s.cps[j].table = "inst" /\ s.cps[j].live
                     /\ s.cps[j].name = s.cps[i].name
UpTo(c, i) == LET at == {k \in DOMAIN c : c[k] = i}
              IN IF at = {} THEN c ELSE SubSeq(c, 1, (CHOOSE k \in at : \A l \in at : k <= l) - 1)
TakeBackMutUncounted(s, i) ==
  [s EXCEPT !.cps = [j \in DOMAIN @ |->
     CASE j = i -> Dead(@[j])
       [] j = s.cps[i].typ /\ @[j].live /\ Forward(s, j) -> [@[j] EXCEPT !.c = UpTo(@, i)]
       [] OTHER -> @[j]]]
TakeBack(s, i) ==
  LET first == "hash_entry_deleted" \notin s.cps[i].fl
  IN [s EXCEPT
       !.forward = @ - (IF Counted(s, i) THEN 1 ELSE 0),
       !.cps = [j \in DOMAIN @ |->
          CASE j = i -> Dead(@[j])
            [] first /\ j = s.cps[i].typ /\ @[j].live /\ Forward(s, j) -> [@[j] EXCEPT !.c = UpTo(@, i)]
            [] Orphaned(s, i, j) -> [@[j] EXCEPT !.fl = @ \union {"hash_entry_deleted"}]
            [] OTHER -> @[j]]]
CleanupLastPattern(s, from) ==
  [FoldLeft(LAMBDA t, i : TakeBack(t, i), s, SubSeq(s.list, from + 1, Len(s.list)))
    EXCEPT !.list = SubSeq(@, 1, from)]

(* ------------------------------ definitions ------------------------------ *)
Top == Last(frames)
Cp == Top.cp
Open == deleted = "no" /\ Len(d.cps) < MaxParticles /\ Len(frames) < MaxDepth
\* A content command: inside a definition, not directly inside define.  Bound: once
\* the schema command is deleted, the running scripts only end.
InContent == /\ frames # <<>> /\ Top.kind # "define" /\ deleted = "no"
             /\ Len(d.cps) < MaxParticles /\ Len(d.cps[Cp].c) < MaxContent
\* As a method outside of all scripts, or as a command at the top of define.
AtToplevel == Open /\ IF frames = <<>> THEN TRUE ELSE Top.kind = "define"
Frame(kind, cp, fwd, inst) ==
  [kind |-> kind, cp |-> cp, from |-> Len(d.list), fwd |-> fwd, inst |-> inst]
Run(f, s) == /\ d' = s /\ frames' = Append(frames, f) /\ evals' = evals + 1
             /\ UNCHANGED <<deleted, leaked, tainted>>

Define == /\ Open /\ frames = <<>> /\ evals = 0
          /\ Run(Frame("define", 0, FALSE, <<>>), d)

\* defelement and defpattern: a forward definition or a place holder is completed.
DefNamedMutForgets(table, type, n) ==
  LET found == InTable(d, table, n)
      r == Find(d, table, n, LET t == Make(d, Particle(type, table, n, {}, 0)) IN Remember(t, New(t)))
  IN /\ AtToplevel /\ \A i \in found : d.cps[i].fl \intersect {"forward", "placeholder"} # {}
     /\ Run(Frame("def", r.i, FALSE, <<>>), r.s)
DefNamed(table, type, n) ==
  LET found == InTable(d, table, n)
      r == Find(d, table, n, LET t == Make(d, Particle(type, table, n, {}, 0)) IN Remember(t, New(t)))
  IN /\ AtToplevel /\ \A i \in found : d.cps[i].fl \intersect {"forward", "placeholder"} # {}
     /\ Run(Frame("def", r.i, found # {}, <<>>), r.s)
DefElement == \E n \in Elements : DefNamed("elem", "NAME", n)
DefPattern == \E n \in Patterns : DefNamed("pat", "PATTERN", n)

\* The instances noted in a forward definition are kept aside.
DefElementType ==
  \E n \in Types :
    LET found == InTable(d, "type", n)
        r == Find(d, "type", n, LET t == Make(d, Particle("NAME", "type", n, {}, 0)) IN Remember(t, New(t)))
    IN /\ AtToplevel /\ \A i \in found : Forward(d, i)
       /\ Run(Frame("type", r.i, found # {}, r.s.cps[r.i].c), [r.s EXCEPT !.cps[r.i].c = <<>>])

\* deftexttype: one script, no particles of its own.  A failed one is forgotten.
DefTextType ==
  \E n \in Texts, ok \in BOOLEAN :
    LET found == InTable(d, "text", n)
        i == CHOOSE j \in found : TRUE
        t == Make(d, Particle("TEXT", IF ok THEN "text" ELSE "", n, {}, 0))
    IN /\ AtToplevel /\ \A j \in found : Forward(d, j) /\ d.cps[j].live
       /\ d' = CASE found # {} /\ ok -> [d EXCEPT !.cps[i].fl = {}, !.forward = @ - 1]
                 [] found # {} /\ ~ok -> d
                 [] OTHER -> Remember(t, New(t))
       /\ UNCHANGED <<frames, evals, deleted, leaked, tainted>>

(* ----------------------------- content commands -------------------------- *)
Content(s) == d' = s /\ UNCHANGED <<frames, evals, deleted, leaked, tainted>>
\* A reference makes what it refers to, if need be.
RefTo(table, type, n, one) ==
  LET r == Find(d, table, n, MakeForward(d, Particle(type, table, n, {}, 0)))
  IN InContent /\ Content(AddToContent(r.s, Cp, r.i, one))
ElementRef == \E n \in Elements, one \in BOOLEAN :
                RefTo("elem", "NAME", n, one) /\ (one \/ d.cps[Cp].type = "CHOICE")
PatternRef == \E n \in Patterns : RefTo("pat", "PATTERN", n, TRUE)
TextTypeRef == \E n \in Texts : RefTo("text", "TEXT", n, TRUE)

PlaceHolder(n) ==
  Find(d, "elem", n,
       LET t == Make(d, Particle("NAME", "elem", n, {"placeholder"}, 0)) IN Remember(t, New(t))).s

\* An instance takes over the content its type has now, or is noted in the type
\* if that is to come.  A forward type whose script runs notes it in the content
\* under construction, beyond the memory it has: not modelled further.
TypeOf(s, n) == Find(s, "type", n, MakeForward(s, Particle("NAME", "type", n, {}, 0)))
UnderWay(i) == \E f \in DOMAIN frames : frames[f].kind = "type" /\ frames[f].cp = i
TypedElementMutAnew(n, t) ==
  LET y == TypeOf(PlaceHolder(n), t)
      s == Make(y.s, [Particle("NAME", "inst", n, {}, y.i) EXCEPT !.c = y.s.cps[y.i].c])
  IN /\ InContent /\ ~(Forward(y.s, y.i) /\ UnderWay(y.i))
     /\ Content(AddToContent(Remember(s, New(s)), Cp, New(s), TRUE))
TypedElement(n, t) ==
  LET y == TypeOf(PlaceHolder(n), t)
      found == {i \in InTable(y.s, "inst", n) : y.s.cps[i].typ = y.i}
      fresh == Make(y.s, Particle("NAME", "inst", n, IF UnderWay(y.i) THEN {"early"} ELSE {}, y.i))
      s == IF found = {} THEN Remember(fresh, New(fresh)) ELSE y.s
      i == IF found = {} THEN New(fresh) ELSE CHOOSE j \in found : TRUE
      u == IF Forward(s, y.i) THEN Put(s, y.i, i) ELSE [s EXCEPT !.cps[i].c = s.cps[y.i].c]
  IN /\ InContent /\ ~(Forward(s, y.i) /\ UnderWay(y.i)) /\ Len(s.cps[y.i].c) <= MaxContent
     /\ Content(AddToContent(u, Cp, i, TRUE))
ElementOfType == \E n \in Elements, t \in Types : TypedElement(n, t)

\* Scripts inside of scripts; their particle is remembered when they are through.
LocalElement ==
  \E n \in Elements :
    LET s == Make(PlaceHolder(n), Particle("NAME", "", n, {"local"}, 0))
    IN InContent /\ Open /\ Run(Frame("anon", New(s), FALSE, <<>>), s)
AnonPattern ==
  \E type \in Groups :
    LET s == Make(d, Particle(type, "", "", {}, 0))
    IN InContent /\ Open /\ Run(Frame("anon", New(s), FALSE, <<>>), s)
Marker(s, to) == LET t == Make(s, Particle("KEYSPACE", "", "", {}, 0)) IN Put(Remember(t, New(t)), to, New(t))
Keyspace == /\ InContent /\ Open /\ d.cps[Cp].type \in {"NAME", "PATTERN"}
            /\ Run(Frame("keyspace", Cp, FALSE, <<>>), Marker(d, Cp))

(* ---------------------------- ends of scripts ---------------------------- *)
\* The last command that ends frees a deleted schema.
Ended(e, fs) == /\ frames' = fs /\ evals' = e
                /\ deleted' = IF deleted = "asked" /\ e = 0 THEN "freed" ELSE deleted

\* The instances noted get the content of the type they were made for.
Complete(f, s) ==
  LET t == [s EXCEPT !.forward = @ - (IF Forward(s, f.cp) THEN 1 ELSE 0),
                     !.cps[f.cp].fl = @ \ {"forward", "placeholder"}]
  IN IF f.kind # "type" THEN t
     ELSE [t EXCEPT !.cps = [i \in DOMAIN @ |->
             IF i \in Range(f.inst) THEN [@[i] EXCEPT !.c = t.cps[f.cp].c] ELSE @[i]]]
EndScript ==
  /\ frames # <<>>
  /\ d' = CASE Top.kind = "define" -> d
            [] Top.kind \in {"def", "type"} -> IF Top.fwd THEN Complete(Top, d) ELSE d
            [] Top.kind = "anon" -> AddToContent(Remember(d, Cp), frames[Len(frames) - 1].cp, Cp, TRUE)
            [] OTHER -> Marker(d, Cp)
  /\ Ended(evals - 1, Front(frames)) /\ UNCHANGED leaked
  /\ tainted' = IF Top.kind \in {"def", "type"} /\ Top.fwd /\ Len(frames) > 1
                THEN tainted \union {Cp} \union {i \in Ids(d) : i \in Range(Top.inst)} ELSE tainted

\* A keyspace command forgets to count its script out.
FailScript ==
  /\ frames # <<>> /\ (Top.kind = "keyspace" => leaked < 1)
  /\ Ended(evals - (IF Top.kind = "keyspace" THEN 0 ELSE 1), Front(frames))
  /\ leaked' = leaked + (IF Top.kind = "keyspace" THEN 1 ELSE 0) /\ UNCHANGED tainted
  /\ d' = CASE Top.kind = "anon" -> [d EXCEPT !.cps[Cp] = Dead(@)]
            [] Top.kind = "keyspace" -> d
            [] OTHER -> CleanupLastPattern(
                          IF Top.fwd THEN [d EXCEPT !.cps[Cp].c = Top.inst] ELSE d, Top.from)

\* The Tcl command is deleted: at once, or when all scripts are through.
Delete == /\ deleted = "no" /\ deleted' = IF evals > 0 THEN "asked" ELSE "freed"
          /\ UNCHANGED <<d, frames, evals, leaked, tainted>>

Next == \/ Define \/ DefElement \/ DefPattern \/ DefElementType \/ DefTextType
        \/ ElementRef \/ PatternRef \/ TextTypeRef \/ ElementOfType
        \/ LocalElement \/ AnonPattern \/ Keyspace \/ EndScript \/ FailScript \/ Delete
Spec == Init /\ [][Next]_vars

(* ------------------------------ properties ------------------------------- *)
\* Particles and scripts are well formed.
TypeOK ==
  /\ \A i \in Ids(d) : Range(d.cps[i].c) \subseteq Ids(d)
  /\ Range(d.list) \subseteq Ids(d) /\ d.forward \in Nat /\ evals \in Nat
  /\ \A f \in DOMAIN frames : frames[f].from <= Len(d.list) /\ frames[f].cp \in 0 .. Len(d.cps)

\* info nrForwardDefinitions tells how many names are used but not defined yet,
\* whatever was defined, failed and was taken back.  A forward text type that was
\* taken back stays counted.
ForwardCounted ==
  d.forward = Cardinality({i \in Ids(d) : Forward(d, i) /\ (d.cps[i].live \/ d.cps[i].type = "TEXT")})

\* What is left after a failed script refers to nothing that it freed, except the
\* definitions that it had completed itself, text types and the notes of types.
Noting(i) == d.cps[i].table = "type" /\ Forward(d, i) /\ ~UnderWay(i)
NothingDangles ==
  \A i \in Ids(d) : d.cps[i].live /\ i \notin tainted /\ ~Noting(i) =>
    \A j \in Range(d.cps[i].c) : d.cps[j].live \/ d.cps[j].type = "TEXT"

\* Between definitions an element of a type has the content of the type, made
\* before or after it, except inside of the definition of the type itself.
InstancesFollowType ==
  \A i \in Ids(d) :
    LET t == d.cps[i].typ
    IN d.cps[i].table = "inst" /\ d.cps[i].live /\ "early" \notin d.cps[i].fl /\ ~UnderWay(t) =>
         IF Forward(d, t) THEN i \in Range(d.cps[t].c) /\ d.cps[i].c = <<>>
         ELSE d.cps[i].c = d.cps[t].c

\* Scripts are counted in and out: a deleted schema is freed with the last one.
\* Each failed keyspace script leaves the count too high.
EvalsCounted == evals = Len(frames) + leaked

\* Both counts survive nested and failing scripts.
CountsAreExact == TypeOK /\ ForwardCounted /\ EvalsCounted

\* Nested, repeated and failing definition scripts leave neither a wrong count nor
\* a reference to a pattern that was given back.
DefinitionsAreSound == CountsAreExact /\ NothingDangles
=============================================================================
