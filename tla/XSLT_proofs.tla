----------------------------- MODULE XSLT_proofs -----------------------------
(* That the calls of a transformation, however they end, leave behind the      *)
(* stacks their callers had, for every stylesheet and every sequence of        *)
(* instructions.  The inductive invariant, StacksInv, says of the run what     *)
(* StacksFollowCalls says of the stacks, and what the calls saved: the rule    *)
(* each template puts back is the one current below it (IsRule), only the      *)
(* calls listed in Above nest, and the variables in process are those of the   *)
(* evaluations in progress, innermost first (Mirrors).  FollowsPush and        *)
(* FollowsPop are the two steps of the argument; one lemma per action shows    *)
(* that it is one of the two, or changes nothing that the invariant sees.      *)
(*                                                                             *)
(* And that variables have the scope the nesting of the instructions gives     *)
(* them (LookupsAreLexical), for stylesheets that are Untangled.  LexInv adds  *)
(* to StacksInv the scope of every call in progress; LexPush, LexReplace and   *)
(* LexPop are the steps of that argument.                                      *)
EXTENDS XSLT, FiniteSetTheorems, TLAPS

(* --------------------------------- types ---------------------------------- *)
Place == Nat \X Nat
VarSet == [name : VarNames, active : BOOLEAN, decl : {"global", "local"}]
FrameSet == [vars : Seq(VarSet), stop : {0, 1, 2}, polluted : BOOLEAN]
Kinds == {"globals", "main", "select", "content", "params", "template", "foreach", "scope",
          "apply", "applied"}
CallSet == [kind : Kinds, env : [VarNames -> Place], pending : SUBSET VarNames,
            passed : SUBSET VarNames, var : VarNames \cup {""},
            of : {"", "again", "imports", "global", "local"}, saved : Nat]

Causes == {"none", "other", "depth", "imports", "circular", "undeclared", "declared"}

TypeOK ==
  /\ frames \in Seq(FrameSet) /\ inProcess \in Seq(VarNames) /\ nested \in Int
  /\ rule \in Nat /\ run \in Seq(CallSet) /\ Globals \subseteq VarNames
  /\ error \in [why : Causes, right : BOOLEAN]

(* ------------------------- what a run does to stacks ----------------------- *)
\* Of a run r: the calls up to the n-th that have a frame, that apply templates,
\* that evaluate a top-level variable.
Owns(a) == a.kind \notin {"select", "apply"}
OwnedTo(r, n) == {i \in 1 .. n : Owns(r[i])}
AppliesTo(r, n) == {i \in 1 .. n : r[i].kind \in {"apply", "applied"}}
EvaluatesTo(r, n) == {i \in 1 .. n : r[i].of = "global"}
Depth(r, n) == Cardinality(OwnedTo(r, n))

Restores(r, i) == r[i].kind = "template" /\ r[i - 1].kind = "apply"
Setter(r, i) == r[i].kind = "foreach" \/ r[i].of = "imports" \/ Restores(r, i)

\* v is the current rule behind the first n calls.
IsRule(r, n, v) ==
  \/ v = 0 /\ \A i \in 2 .. n : ~Setter(r, i)
  \/ \E i \in 2 .. n : /\ Setter(r, i) /\ \A j \in i + 1 .. n : ~Setter(r, j)
                       /\ v = IF r[i].kind = "foreach" THEN 0 ELSE i

\* What may be on top of b, in a run with this first call.
Above(a, b, i, first) ==
  /\ a.kind \notin {"globals", "main"} /\ b.kind # "applied"
  /\ a.kind \in {"select", "content"} =>
       a.var \in VarNames /\ b.kind \in Expressions \cup {"globals"}
  /\ a.kind = "select" => a.of = "global"
  /\ a.kind = "content" => a.of \in {"global", "local"}
  /\ a.kind \in {"params", "template"} => b.kind \in Body \cup {"apply"}
  /\ a.kind \in {"apply", "applied"} => b.kind \in Body \cup {"main"}
  /\ a.kind \in {"scope", "foreach"} => b.kind \in Body
  /\ a.kind \notin {"select", "content"} => a.of \in {"", "again", "imports"}
  /\ a.of = "imports" => a.kind = "template" /\ b.kind \in Body
  /\ a.of = "global" => first.kind = "globals"
  /\ first.kind = "globals" /\ i = 2 => a.of = "global"

Nests(r, i) ==
  /\ Above(r[i], r[i - 1], i, r[1])
  /\ r[i].kind \in {"template", "foreach"} => IsRule(r, i - 1, r[i].saved)
  /\ r[i].of = "imports" => \E j \in 2 .. i - 1 : Restores(r, j)

NestedRun(r) ==
  /\ Len(r) > 0 => r[1].kind \in {"globals", "main"} /\ r[1].of = ""
  /\ \A i \in 2 .. Len(r) : Nests(r, i)

SinceIn(r, i) == Cardinality({j \in EvaluatesTo(r, Len(r)) : i <= j})

Mirrors(r, ip) ==
  /\ r[1].kind = "main" => ip = <<>>
  /\ r[1].kind = "globals" /\ Len(r) > 1 =>
       /\ Len(ip) = Cardinality(EvaluatesTo(r, Len(r)))
       /\ \A i \in EvaluatesTo(r, Len(r)) : ip[SinceIn(r, i)] = r[i].var
       /\ \A k \in 1 .. Len(ip) : \E i \in EvaluatesTo(r, Len(r)) : SinceIn(r, i) = k

Follows(top, ip, n, v, r) ==
  /\ NestedRun(r)
  /\ top = Depth(r, Len(r))
  /\ IsRule(r, Len(r), v)
  /\ Len(r) > 0 => n = Cardinality(AppliesTo(r, Len(r))) /\ Mirrors(r, ip)

StacksInv == TypeOK /\ Follows(Top, inProcess, nested, rule, run)

\* The same calls, but for what they can see.
Alike(r, s, n) ==
  \A i \in 1 .. n : /\ s[i].kind = r[i].kind /\ s[i].of = r[i].of
                    /\ s[i].saved = r[i].saved /\ s[i].var = r[i].var

(* --------------------------------- counting ------------------------------- *)
LEMMA Counts ==
  ASSUME NEW r, NEW n \in Nat
  PROVE  /\ IsFiniteSet(OwnedTo(r, n)) /\ Depth(r, n) \in Nat
         /\ IsFiniteSet(AppliesTo(r, n)) /\ Cardinality(AppliesTo(r, n)) \in Nat
         /\ IsFiniteSet(EvaluatesTo(r, n)) /\ Cardinality(EvaluatesTo(r, n)) \in Nat
         /\ Depth(r, n + 1) = Depth(r, n) + (IF Owns(r[n + 1]) THEN 1 ELSE 0)
         /\ Cardinality(AppliesTo(r, n + 1)) = Cardinality(AppliesTo(r, n))
               + (IF r[n + 1].kind \in {"apply", "applied"} THEN 1 ELSE 0)
         /\ Cardinality(EvaluatesTo(r, n + 1)) = Cardinality(EvaluatesTo(r, n))
               + (IF r[n + 1].of = "global" THEN 1 ELSE 0)
<1>1. ASSUME NEW T, T \in SUBSET (1 .. n) PROVE IsFiniteSet(T) /\ Cardinality(T) \in Nat
  <2>1. IsFiniteSet(1 .. n)
    BY FS_Interval
  <2>2. IsFiniteSet(T)
    BY <1>1, <2>1, FS_Subset
  <2> QED BY <2>2, FS_CardinalityType
<1>2. ASSUME NEW T, T \in SUBSET (1 .. n), NEW U, NEW b \in BOOLEAN,
             U = IF b THEN T \cup {n + 1} ELSE T
      PROVE  Cardinality(U) = Cardinality(T) + (IF b THEN 1 ELSE 0)
  <2>1. IsFiniteSet(T) /\ Cardinality(T) \in Nat
    BY <1>2, <1>1
  <2>2. n + 1 \notin T
    BY <1>2
  <2>3. CASE b
    BY <2>1, <2>2, <2>3, <1>2, FS_AddElement
  <2>4. CASE ~b
    BY <2>1, <2>4, <1>2
  <2> QED BY <2>3, <2>4
<1>3. OwnedTo(r, n) \in SUBSET (1 .. n) /\ AppliesTo(r, n) \in SUBSET (1 .. n)
      /\ EvaluatesTo(r, n) \in SUBSET (1 .. n)
  BY DEF OwnedTo, AppliesTo, EvaluatesTo
<1>4. OwnedTo(r, n + 1) = IF Owns(r[n + 1]) THEN OwnedTo(r, n) \cup {n + 1} ELSE OwnedTo(r, n)
  BY DEF OwnedTo
<1>5. AppliesTo(r, n + 1) = IF r[n + 1].kind \in {"apply", "applied"}
                            THEN AppliesTo(r, n) \cup {n + 1} ELSE AppliesTo(r, n)
  BY DEF AppliesTo
<1>6. EvaluatesTo(r, n + 1) = IF r[n + 1].of = "global"
                              THEN EvaluatesTo(r, n) \cup {n + 1} ELSE EvaluatesTo(r, n)
  BY DEF EvaluatesTo
<1>7. Depth(r, n + 1) = Depth(r, n) + (IF Owns(r[n + 1]) THEN 1 ELSE 0)
  BY <1>2, <1>3, <1>4 DEF Depth, Owns
<1>8. Cardinality(AppliesTo(r, n + 1)) = Cardinality(AppliesTo(r, n))
               + (IF r[n + 1].kind \in {"apply", "applied"} THEN 1 ELSE 0)
  BY <1>2, <1>3, <1>5
<1>9. Cardinality(EvaluatesTo(r, n + 1)) = Cardinality(EvaluatesTo(r, n))
               + (IF r[n + 1].of = "global" THEN 1 ELSE 0)
  BY <1>2, <1>3, <1>6
<1> QED BY <1>1, <1>3, <1>7, <1>8, <1>9 DEF Depth

\* Runs that differ in what their calls see count the same.
LEMMA CountsAlike ==
  ASSUME NEW r, NEW s, NEW n \in Nat, Alike(r, s, n), NEW k \in 0 .. n
  PROVE  /\ OwnedTo(s, k) = OwnedTo(r, k) /\ AppliesTo(s, k) = AppliesTo(r, k)
         /\ EvaluatesTo(s, k) = EvaluatesTo(r, k) /\ Depth(s, k) = Depth(r, k)
<1>1. OwnedTo(s, k) = OwnedTo(r, k)
  BY DEF OwnedTo, Alike, Owns
<1>2. AppliesTo(s, k) = AppliesTo(r, k) /\ EvaluatesTo(s, k) = EvaluatesTo(r, k)
  BY DEF AppliesTo, EvaluatesTo, Alike
<1> QED BY <1>1, <1>2 DEF Depth

\* ... and have the same current rule.
LEMMA RuleAlike ==
  ASSUME NEW r, NEW s, NEW n \in Nat, Alike(r, s, n), NEW k \in 0 .. n, NEW v, IsRule(r, k, v)
  PROVE  IsRule(s, k, v)
<1>1. \A i \in 2 .. k : /\ Setter(s, i) <=> Setter(r, i)
                        /\ s[i].kind = r[i].kind
  BY DEF Alike, Setter, Restores
<1> QED BY <1>1 DEF IsRule

\* ... and nest in the same way.
LEMMA NestsAlike ==
  ASSUME NEW r, NEW s, NEW n \in Nat, Alike(r, s, n), NEW i \in 2 .. n, Nests(r, i)
  PROVE  Nests(s, i)
<1>1. Above(s[i], s[i - 1], i, s[1])
  <2>1. /\ s[i].kind = r[i].kind /\ s[i].of = r[i].of /\ s[i].var = r[i].var
        /\ s[i - 1].kind = r[i - 1].kind /\ s[1].kind = r[1].kind
    BY DEF Alike
  <2> QED BY <2>1 DEF Nests, Above
<1>2. s[i].kind \in {"template", "foreach"} => IsRule(s, i - 1, s[i].saved)
  <2>1. s[i].kind = r[i].kind /\ s[i].saved = r[i].saved
    BY DEF Alike
  <2> QED BY <2>1, RuleAlike DEF Nests
<1>3. s[i].of = "imports" => \E j \in 2 .. i - 1 : Restores(s, j)
  BY DEF Alike, Nests, Restores
<1> QED BY <1>1, <1>2, <1>3 DEF Nests

\* The same calls with the same rules nest as well.
LEMMA NestedAlike ==
  ASSUME NEW r \in Seq(CallSet), NEW s \in Seq(CallSet), NEW n \in Nat,
         n <= Len(r), n <= Len(s), Alike(r, s, n), NestedRun(r)
  PROVE  /\ n > 0 => s[1].kind \in {"globals", "main"} /\ s[1].of = ""
         /\ \A i \in 2 .. n : Nests(s, i)
<1>1. n > 0 => s[1].kind \in {"globals", "main"} /\ s[1].of = ""
  <2> SUFFICES ASSUME n > 0 PROVE s[1].kind \in {"globals", "main"} /\ s[1].of = ""
    OBVIOUS
  <2>1. 1 \in 1 .. n /\ Len(r) \in Nat /\ Len(r) > 0
    OBVIOUS
  <2> QED BY <2>1 DEF NestedRun, Alike
<1>2. ASSUME NEW i \in 2 .. n PROVE Nests(s, i)
  <2>1. i \in 2 .. Len(r)
    OBVIOUS
  <2>2. Nests(r, i)
    BY <2>1 DEF NestedRun
  <2> QED BY <2>2, NestsAlike
<1> QED BY <1>1, <1>2

\* One call more: its rule is the current one when it sets a rule.
Sets(r, a) == \/ a.kind = "foreach" \/ a.of = "imports"
              \/ a.kind = "template" /\ r[Len(r)].kind = "apply"
RuleWith(r, a, v) == IF ~Sets(r, a) THEN v ELSE IF a.kind = "foreach" THEN 0 ELSE Len(r) + 1

\* The current rule when a call begins.
LEMMA RulePush ==
  ASSUME NEW r \in Seq(CallSet), NEW s \in Seq(CallSet), Len(r) > 0,
         Len(s) = Len(r) + 1, Alike(r, s, Len(r)), NEW v, IsRule(r, Len(r), v)
  PROVE  IsRule(s, Len(s), RuleWith(r, s[Len(s)], v))
<1> DEFINE n == Len(r)
<1>1. n \in Nat \ {0} /\ Len(s) = n + 1
  OBVIOUS
<1>2. IsRule(s, n, v)
  BY <1>1, RuleAlike
<1>3. Setter(s, n + 1) <=> Sets(r, s[n + 1])
  <2>1. s[(n + 1) - 1].kind = r[n].kind
    BY <1>1 DEF Alike
  <2> QED BY <2>1, <1>1 DEF Setter, Sets, Restores
<1>4. CASE Sets(r, s[n + 1])
  <2>1. n + 1 \in 2 .. n + 1 /\ ~ \E j \in (n + 1) + 1 .. n + 1 : TRUE
    BY <1>1
  <2> QED BY <1>1, <1>3, <1>4, <2>1 DEF IsRule, RuleWith
<1>5. CASE ~Sets(r, s[n + 1])
  <2>1. \A j \in 2 .. n + 1 : j \in 2 .. n \/ ~Setter(s, j)
    BY <1>1, <1>3, <1>5
  <2>2. CASE v = 0 /\ \A i \in 2 .. n : ~Setter(s, i)
    BY <1>1, <1>5, <2>1, <2>2 DEF IsRule, RuleWith
  <2>3. CASE \E i \in 2 .. n : /\ Setter(s, i) /\ \A j \in i + 1 .. n : ~Setter(s, j)
                               /\ v = IF s[i].kind = "foreach" THEN 0 ELSE i
    <3>1. PICK i \in 2 .. n : /\ Setter(s, i) /\ \A j \in i + 1 .. n : ~Setter(s, j)
                              /\ v = IF s[i].kind = "foreach" THEN 0 ELSE i
      BY <2>3
    <3>2. \A j \in i + 1 .. n + 1 : ~Setter(s, j)
      BY <1>1, <2>1, <3>1
    <3>3. RuleWith(r, s[n + 1], v) = v /\ i \in 2 .. n + 1
      BY <1>5, <1>1 DEF RuleWith
    <3> QED BY <1>1, <3>1, <3>2, <3>3 DEF IsRule
  <2> QED BY <1>2, <2>2, <2>3 DEF IsRule
<1> QED BY <1>1, <1>4, <1>5

\* The rule without the last call, when that has set none.
LEMMA RulePop ==
  ASSUME NEW r, NEW n \in Nat, n > 1, ~Setter(r, n), NEW v, IsRule(r, n, v)
  PROVE  IsRule(r, n - 1, v)
<1>1. CASE v = 0 /\ \A i \in 2 .. n : ~Setter(r, i)
  BY <1>1 DEF IsRule
<1>2. CASE \E i \in 2 .. n : /\ Setter(r, i) /\ \A j \in i + 1 .. n : ~Setter(r, j)
                             /\ v = IF r[i].kind = "foreach" THEN 0 ELSE i
  <2>1. PICK i \in 2 .. n : /\ Setter(r, i) /\ \A j \in i + 1 .. n : ~Setter(r, j)
                            /\ v = IF r[i].kind = "foreach" THEN 0 ELSE i
    BY <1>2
  <2>2. i \in 2 .. n - 1 /\ \A j \in i + 1 .. n - 1 : j \in i + 1 .. n
    BY <2>1
  <2> QED BY <2>1, <2>2 DEF IsRule
<1> QED BY <1>1, <1>2 DEF IsRule

(* -------------------------- variables in process -------------------------- *)
\* Evaluations from i on, with one call more.
LEMMA SinceAlike ==
  ASSUME NEW r \in Seq(CallSet), NEW s \in Seq(CallSet), Len(s) = Len(r) + 1,
         Alike(r, s, Len(r)), NEW i \in EvaluatesTo(r, Len(r))
  PROVE  /\ i \in EvaluatesTo(s, Len(s)) /\ SinceIn(r, i) \in Nat \ {0}
         /\ SinceIn(r, i) <= Cardinality(EvaluatesTo(r, Len(r)))
         /\ SinceIn(s, i) = SinceIn(r, i) + (IF s[Len(s)].of = "global" THEN 1 ELSE 0)
<1> DEFINE n == Len(r)
           T == {j \in EvaluatesTo(r, n) : i <= j}
           U == {j \in EvaluatesTo(s, n + 1) : i <= j}
<1>1. n \in Nat /\ Len(s) = n + 1 /\ i \in 1 .. n
  BY DEF EvaluatesTo
<1>2. EvaluatesTo(s, n) = EvaluatesTo(r, n)
  BY <1>1, CountsAlike
<1>3. EvaluatesTo(s, n + 1) = IF s[n + 1].of = "global" THEN EvaluatesTo(r, n) \cup {n + 1}
                              ELSE EvaluatesTo(r, n)
  BY <1>1, <1>2 DEF EvaluatesTo
<1>4. IsFiniteSet(T) /\ Cardinality(T) \in Nat
      /\ Cardinality(T) <= Cardinality(EvaluatesTo(r, n))
  BY <1>1, Counts, FS_Subset, FS_CardinalityType
<1>5. i \in T /\ n + 1 \notin T
  BY <1>1 DEF EvaluatesTo
<1>6. Cardinality(T) # 0
  BY <1>4, <1>5, FS_EmptySet
<1>7. CASE s[n + 1].of = "global"
  <2>1. U = T \cup {n + 1}
    BY <1>1, <1>3, <1>7
  <2>2. Cardinality(U) = Cardinality(T) + 1
    <3> HIDE DEF T, U
    <3> QED BY <2>1, <1>4, <1>5, FS_AddElement
  <2>3. SinceIn(r, i) = Cardinality(T) /\ SinceIn(s, i) = Cardinality(U)
    BY <1>1 DEF SinceIn
  <2>4. i \in EvaluatesTo(s, Len(s))
    BY <1>1, <1>3
  <2> HIDE DEF T, U
  <2> QED BY <2>2, <2>3, <2>4, <1>1, <1>4, <1>6, <1>7
<1>8. CASE s[n + 1].of # "global"
  <2>1. U = T
    BY <1>3, <1>8
  <2>3. SinceIn(r, i) = Cardinality(T) /\ SinceIn(s, i) = Cardinality(U)
    BY <1>1 DEF SinceIn
  <2>4. i \in EvaluatesTo(s, Len(s))
    BY <1>1, <1>3
  <2> HIDE DEF T, U
  <2> QED BY <2>1, <2>3, <2>4, <1>1, <1>4, <1>6, <1>8
<1> QED BY <1>7, <1>8

\* One more evaluation is the first of those that go on from it.
LEMMA SinceLast ==
  ASSUME NEW r \in Seq(CallSet), Len(r) > 0, r[Len(r)].of = "global"
  PROVE  Len(r) \in EvaluatesTo(r, Len(r)) /\ SinceIn(r, Len(r)) = 1
<1>1. {j \in EvaluatesTo(r, Len(r)) : Len(r) <= j} = {Len(r)}
  BY DEF EvaluatesTo
<1> QED BY <1>1, FS_Singleton DEF SinceIn, EvaluatesTo

\* Pushing an evaluation puts its variable in front.
LEMMA MirrorPush ==
  ASSUME NEW r \in Seq(CallSet), NEW s \in Seq(CallSet), NEW ip \in Seq(VarNames),
         Len(r) > 0, Len(s) = Len(r) + 1, Alike(r, s, Len(r)), r[1].of # "global",
         Mirrors(r, ip), r[1].kind \in {"globals", "main"},
         NEW new \in Seq(VarNames),
         IF s[Len(s)].of = "global"
         THEN /\ r[1].kind = "globals" /\ s[Len(s)].var \in VarNames
              /\ new = IF Len(r) = 1 THEN <<s[Len(s)].var>> ELSE <<s[Len(s)].var>> \o ip
         ELSE new = ip /\ (Len(r) = 1 => r[1].kind = "main")
  PROVE  Mirrors(s, new)
<1> DEFINE n == Len(r)
           E == EvaluatesTo(r, n)
           F == EvaluatesTo(s, n + 1)
           x == s[n + 1].var
<1>1. n \in Nat \ {0} /\ Len(s) = n + 1 /\ s[1].kind = r[1].kind
  BY DEF Alike
<1>0. IF s[n + 1].of = "global"
      THEN r[1].kind = "globals" /\ x \in VarNames
           /\ new = IF n = 1 THEN <<x>> ELSE <<x>> \o ip
      ELSE new = ip /\ (n = 1 => r[1].kind = "main")
  BY <1>1
<1>2. Cardinality(E) \in Nat /\ EvaluatesTo(s, n) = E
      /\ Cardinality(F) = Cardinality(E) + (IF s[n + 1].of = "global" THEN 1 ELSE 0)
  <2>1. EvaluatesTo(s, n) = E
    BY <1>1, CountsAlike
  <2>2. /\ Cardinality(EvaluatesTo(s, n)) \in Nat
        /\ Cardinality(F) = Cardinality(EvaluatesTo(s, n))
              + (IF s[n + 1].of = "global" THEN 1 ELSE 0)
    BY <1>1, Counts
  <2> QED BY <2>1, <2>2
<1>3. F = IF s[n + 1].of = "global" THEN E \cup {n + 1} ELSE E
  BY <1>1, <1>2 DEF EvaluatesTo
<1>4. \A i \in E : /\ SinceIn(r, i) \in Nat \ {0} /\ SinceIn(r, i) <= Cardinality(E)
                   /\ SinceIn(s, i) = SinceIn(r, i) + (IF s[n + 1].of = "global" THEN 1 ELSE 0)
                   /\ s[i].var = r[i].var /\ i \in 1 .. n
  BY <1>1, SinceAlike, SMTT(30) DEF Alike, EvaluatesTo
<1>5. s[n + 1].of = "global" => n + 1 \in F /\ SinceIn(s, n + 1) = 1
  BY <1>1, SinceLast
<1>6. CASE r[1].kind = "main"
  BY <1>1, <1>6 DEF Mirrors
<1>7. CASE r[1].kind = "globals" /\ s[n + 1].of # "global"
  <2>1. n > 1 /\ new = ip /\ F = E
    <3> HIDE DEF E, F, n
    <3> QED BY <1>0, <1>1, <1>3, <1>7
  <2>2. /\ Len(ip) = Cardinality(E) /\ \A i \in E : ip[SinceIn(r, i)] = r[i].var
        /\ \A k \in 1 .. Len(ip) : \E i \in E : SinceIn(r, i) = k
    BY <2>1, <1>7 DEF Mirrors
  <2>3. \A i \in E : SinceIn(s, i) = SinceIn(r, i)
    BY <1>4, <1>7
  <2>4. \A i \in F : new[SinceIn(s, i)] = s[i].var
    BY <2>1, <2>2, <2>3, <1>4
  <2>5. \A k \in 1 .. Len(new) : \E i \in F : SinceIn(s, i) = k
    BY <2>1, <2>2, <2>3
  <2> QED BY <1>1, <1>7, <2>1, <2>2, <2>4, <2>5 DEF Mirrors
<1>8. CASE r[1].kind = "globals" /\ s[n + 1].of = "global" /\ n = 1
  <2>1. E = {}
    BY <1>1, <1>8 DEF EvaluatesTo
  <2>2. F = {n + 1} /\ new = <<x>> /\ Cardinality(F) = 1
    BY <2>1, <1>3, <1>8, FS_Singleton, ZenonT(40)
  <2>3. \A i \in F : new[SinceIn(s, i)] = s[i].var
    BY <2>2, <1>5, <1>8
  <2>4. \A k \in 1 .. Len(new) : \E i \in F : SinceIn(s, i) = k
    BY <2>2, <1>5, <1>8
  <2> QED BY <1>1, <1>8, <2>2, <2>3, <2>4 DEF Mirrors
<1>9. CASE r[1].kind = "globals" /\ s[n + 1].of = "global" /\ n > 1
  <2>1. F = E \cup {n + 1} /\ new = <<x>> \o ip /\ x \in VarNames
    <3> HIDE DEF E, F, n, x
    <3> QED BY <1>0, <1>1, <1>3, <1>9
  <2>2. /\ Len(ip) = Cardinality(E) /\ \A i \in E : ip[SinceIn(r, i)] = r[i].var
        /\ \A k \in 1 .. Len(ip) : \E i \in E : SinceIn(r, i) = k
    BY <1>9 DEF Mirrors
  <2>3. /\ Len(new) = Len(ip) + 1 /\ new[1] = x
        /\ \A k \in 1 .. Len(ip) : new[k + 1] = ip[k]
    BY <2>1
  <2>4. \A i \in F : new[SinceIn(s, i)] = s[i].var
    <3> TAKE i \in F
    <3>1. CASE i = n + 1
      BY <3>1, <2>3, <1>5, <1>9
    <3>2. CASE i \in E
      <4>1. SinceIn(r, i) \in 1 .. Len(ip) /\ SinceIn(s, i) = SinceIn(r, i) + 1
        BY <3>2, <1>2, <1>4, <1>9, <2>2
      <4> QED BY <4>1, <3>2, <2>2, <2>3, <1>4
    <3> QED BY <3>1, <3>2, <2>1
  <2>5. \A k \in 1 .. Len(new) : \E i \in F : SinceIn(s, i) = k
    <3> TAKE k \in 1 .. Len(new)
    <3>1. CASE k = 1
      BY <3>1, <1>5, <1>9
    <3>2. CASE k > 1
      <4>1. k - 1 \in 1 .. Len(ip)
        BY <3>2, <2>3
      <4>2. PICK i \in E : SinceIn(r, i) = k - 1
        BY <4>1, <2>2
      <4>3. SinceIn(s, i) = k /\ i \in F
        BY <4>2, <1>4, <1>9, <2>1
      <4> QED BY <4>3
    <3> QED BY <3>1, <3>2
  <2>6. Len(new) = Cardinality(F)
    BY <2>2, <2>3, <1>2, <1>9
  <2> QED BY <1>1, <1>9, <2>4, <2>5, <2>6 DEF Mirrors
<1> QED BY <1>1, <1>6, <1>7, <1>8, <1>9

\* Leaving one takes its variable away again, if there are others.
LEMMA MirrorPop ==
  ASSUME NEW r \in Seq(CallSet), NEW s \in Seq(CallSet), NEW ip \in Seq(VarNames),
         Len(s) > 0, Len(r) = Len(s) + 1, Alike(s, r, Len(s)), r[1].of # "global",
         Mirrors(r, ip), r[1].kind \in {"globals", "main"},
         r[Len(r)].of = "global" => r[1].kind = "globals",
         Len(r) > 1 /\ r[1].kind = "globals" => r[2].of = "global"
  PROVE  Mirrors(s, IF r[Len(r)].of = "global" /\ Len(ip) > 1 THEN Tail(ip) ELSE ip)
<1> DEFINE n == Len(s)
           E == EvaluatesTo(r, n + 1)
           F == EvaluatesTo(s, n)
           new == IF r[n + 1].of = "global" /\ Len(ip) > 1 THEN Tail(ip) ELSE ip
<1>1. n \in Nat \ {0} /\ Len(r) = n + 1 /\ s[1].kind = r[1].kind
  BY DEF Alike
<1>0. SUFFICES Mirrors(s, new)
  BY <1>1
<1>2. Cardinality(F) \in Nat /\ EvaluatesTo(r, n) = F
      /\ Cardinality(E) = Cardinality(F) + (IF r[n + 1].of = "global" THEN 1 ELSE 0)
  <2>1. EvaluatesTo(r, n) = F
    BY <1>1, CountsAlike
  <2>2. /\ Cardinality(EvaluatesTo(r, n)) \in Nat
        /\ Cardinality(E) = Cardinality(EvaluatesTo(r, n))
              + (IF r[n + 1].of = "global" THEN 1 ELSE 0)
    BY <1>1, Counts
  <2> QED BY <2>1, <2>2
<1>3. E = IF r[n + 1].of = "global" THEN F \cup {n + 1} ELSE F
  BY <1>1, <1>2 DEF EvaluatesTo
<1>4. \A i \in F : /\ SinceIn(s, i) \in Nat \ {0} /\ SinceIn(s, i) <= Cardinality(F)
                   /\ SinceIn(r, i) = SinceIn(s, i) + (IF r[n + 1].of = "global" THEN 1 ELSE 0)
                   /\ s[i].var = r[i].var /\ i \in 1 .. n
  <2>1. \A i \in F : i \in 1 .. n
    BY DEF EvaluatesTo
  <2>2. \A i \in F : s[i].var = r[i].var
    BY <2>1 DEF Alike
  <2>3. ASSUME NEW i \in F
        PROVE  /\ SinceIn(s, i) \in Nat \ {0} /\ SinceIn(s, i) <= Cardinality(F)
               /\ SinceIn(r, i) = SinceIn(s, i) + (IF r[Len(r)].of = "global" THEN 1 ELSE 0)
    BY <2>3, SinceAlike
  <2> QED BY <2>1, <2>2, <2>3, <1>1
<1>5. r[n + 1].of = "global" => SinceIn(r, n + 1) = 1
  BY <1>1, SinceLast
<1>6. CASE r[1].kind = "main"
  <2>1. r[Len(r)].of # "global" /\ r[1].kind = "main" /\ s[1].kind # "globals"
    BY <1>1, <1>6
  <2>2. new = ip
    BY <2>1, <1>1
  <2> QED BY <1>1, <2>1, <2>2, <1>6 DEF Mirrors
<1>7. CASE r[1].kind = "globals" /\ n = 1
  BY <1>1, <1>7 DEF Mirrors
<1>8. CASE r[1].kind = "globals" /\ n > 1
  <2>1. /\ Len(ip) = Cardinality(E) /\ \A i \in E : ip[SinceIn(r, i)] = r[i].var
        /\ \A k \in 1 .. Len(ip) : \E i \in E : SinceIn(r, i) = k
    BY <1>1, <1>8 DEF Mirrors
  <2>2. CASE r[n + 1].of # "global"
    <3>1. new = ip /\ E = F /\ \A i \in F : SinceIn(r, i) = SinceIn(s, i)
      BY <2>2, <1>3, <1>4
    <3>2. \A i \in F : new[SinceIn(s, i)] = s[i].var
      BY <3>1, <2>1, <1>4
    <3>3. \A k \in 1 .. Len(new) : \E i \in F : SinceIn(s, i) = k
      BY <3>1, <2>1
    <3> QED BY <1>1, <1>8, <2>1, <3>1, <3>2, <3>3 DEF Mirrors
  <2>3. CASE r[n + 1].of = "global"
    <3>1. 2 \in F
      BY <1>1, <1>2, <1>8 DEF EvaluatesTo
    <3>2. Cardinality(F) >= 1 /\ Len(ip) = Cardinality(F) + 1
      BY <3>1, <2>1, <2>3, <1>2, <1>4
    <3>3. /\ new = Tail(ip) /\ Len(new) = Cardinality(F)
          /\ \A k \in 1 .. Len(new) : new[k] = ip[k + 1]
      BY <3>2, <2>3, <1>2, SMTT(30)
    <3> HIDE DEF new
    <3>4. \A i \in F : new[SinceIn(s, i)] = s[i].var
      <4> TAKE i \in F
      <4>1. SinceIn(s, i) \in 1 .. Len(new) /\ SinceIn(r, i) = SinceIn(s, i) + 1
        BY <3>3, <2>3, <1>2, <1>4
      <4>2. ip[SinceIn(r, i)] = r[i].var
        BY <2>1, <1>3, <2>3
      <4> QED BY <4>1, <4>2, <3>3, <1>4
    <3>5. \A k \in 1 .. Len(new) : \E i \in F : SinceIn(s, i) = k
      <4> TAKE k \in 1 .. Len(new)
      <4>1. k + 1 \in 1 .. Len(ip)
        BY <3>2, <3>3, <1>2
      <4>2. PICK i \in E : SinceIn(r, i) = k + 1
        BY <4>1, <2>1
      <4>3. i # n + 1
        BY <4>2, <1>5, <2>3
      <4>4. i \in F /\ SinceIn(s, i) = k
        BY <4>2, <4>3, <1>3, <1>4, <2>3
      <4> QED BY <4>4
    <3> QED BY <1>1, <1>8, <3>3, <3>4, <3>5 DEF Mirrors
  <2> QED BY <2>2, <2>3
<1> HIDE DEF n, new, E, F
<1> QED BY <1>1, <1>6, <1>7, <1>8

(* ------------------------- one call more, one less ------------------------ *)
Own(a) == IF Owns(a) THEN 1 ELSE 0
Apply(a) == IF a.kind \in {"apply", "applied"} THEN 1 ELSE 0
InProcess(r, a, ip) ==
  IF a.of # "global" THEN ip ELSE IF Len(r) = 1 THEN <<a.var>> ELSE <<a.var>> \o ip

\* A call may start on top of the run r, while v is the current rule.
MayCall(r, a, v) ==
  /\ Above(a, r[Len(r)], Len(r) + 1, r[1])
  /\ a.kind \in {"template", "foreach"} => a.saved = v
  /\ a.of = "imports" => v # 0

\* A call that begins: what its frame, its depth and its variable must become.
LEMMA FollowsPush ==
  ASSUME NEW r \in Seq(CallSet), NEW s \in Seq(CallSet), NEW ip \in Seq(VarNames),
         NEW top \in Nat, NEW n \in Int, NEW v, NEW a,
         Len(r) > 0, Len(s) = Len(r) + 1, Alike(r, s, Len(r)), s[Len(s)] = a,
         Follows(top, ip, n, v, r), MayCall(r, a, v)
  PROVE  Follows(top + Own(a), InProcess(r, a, ip), n + Apply(a), RuleWith(r, a, v), s)
<1> DEFINE m == Len(r)
<1>1. m \in Nat \ {0} /\ Len(s) = m + 1 /\ r \in Seq(CallSet) /\ s[m + 1] = a
  OBVIOUS
<1>2. /\ NestedRun(r) /\ top = Depth(r, m) /\ IsRule(r, m, v)
      /\ n = Cardinality(AppliesTo(r, m)) /\ Mirrors(r, ip)
  BY <1>1 DEF Follows
<1>3. /\ s[1].kind \in {"globals", "main"} /\ s[1].of = ""
      /\ \A i \in 2 .. m : Nests(s, i)
  <2>1. m \in Nat /\ m > 0 /\ m <= Len(r) /\ m <= Len(s)
    BY <1>1
  <2> HIDE DEF m
  <2>2. Alike(r, s, m)
    BY DEF m
  <2> QED BY <2>1, <2>2, <1>2, NestedAlike
<1>4. IsRule(s, m + 1, RuleWith(r, a, v))
  BY <1>1, <1>2, RulePush
<1>5. IsRule(s, m, v)
  BY <1>1, <1>2, RuleAlike
<1>6. Nests(s, m + 1)
  <2>1. s[m].kind = r[m].kind /\ s[1].kind = r[1].kind
    BY <1>1 DEF Alike
  <2>2. Above(s[m + 1], s[(m + 1) - 1], m + 1, s[1])
    <3>1. Above(a, r[m], m + 1, r[1]) /\ (m + 1) - 1 = m
      BY <1>1 DEF MayCall
    <3> HIDE DEF m
    <3> QED BY <1>1, <2>1, <3>1 DEF Above
  <2>3. s[m + 1].kind \in {"template", "foreach"} => IsRule(s, m, s[m + 1].saved)
    BY <1>1, <1>5 DEF MayCall
  <2>4. ASSUME a.of = "imports" PROVE \E j \in 2 .. m : Restores(s, j)
    <3>1. PICK i \in 2 .. m : Setter(s, i) /\ v = IF s[i].kind = "foreach" THEN 0 ELSE i
      BY <1>5, <2>4 DEF IsRule, MayCall
    <3>2. s[i].kind # "foreach"
      BY <3>1, <2>4 DEF MayCall
    <3>3. s[i].of = "imports" \/ Restores(s, i)
      BY <3>1, <3>2 DEF Setter
    <3>4. Nests(s, i)
      BY <1>3
    <3>5. s[i].of = "imports" => \E j \in 2 .. i - 1 : Restores(s, j)
      BY <3>4 DEF Nests
    <3>6. \A j \in 2 .. i - 1 : j \in 2 .. m
      OBVIOUS
    <3> QED BY <3>3, <3>5, <3>6
  <2> QED BY <1>1, <2>2, <2>3, <2>4 DEF Nests
<1>7. NestedRun(s)
  <2>1. \A i \in 2 .. m + 1 : i \in 2 .. m \/ i = m + 1
    BY <1>1
  <2> QED BY <1>1, <1>3, <1>6, <2>1 DEF NestedRun
<1>8. top + Own(a) = Depth(s, m + 1) /\ n + Apply(a) = Cardinality(AppliesTo(s, m + 1))
  <2>1. Depth(s, m) = Depth(r, m) /\ AppliesTo(s, m) = AppliesTo(r, m)
    BY <1>1, CountsAlike
  <2>2. /\ Depth(s, m + 1) = Depth(s, m) + (IF Owns(s[m + 1]) THEN 1 ELSE 0)
        /\ Cardinality(AppliesTo(s, m + 1)) = Cardinality(AppliesTo(s, m))
               + (IF s[m + 1].kind \in {"apply", "applied"} THEN 1 ELSE 0)
    BY <1>1, Counts
  <2> QED BY <1>1, <1>2, <2>1, <2>2 DEF Own, Apply
<1>9. Mirrors(s, InProcess(r, a, ip))
  <2>1. r[1].kind \in {"globals", "main"} /\ r[1].of = ""
    BY <1>1, <1>2 DEF NestedRun
  <2>2. Above(a, r[m], m + 1, r[1])
    BY DEF MayCall
  <2>3. /\ a.of = "global" => r[1].kind = "globals" /\ a.var \in VarNames
        /\ m = 1 /\ a.of # "global" => r[1].kind = "main"
    <3>1. a.of = "global" => a.kind \in {"select", "content"}
      BY <2>2 DEF Above
    <3>2. m = 1 => m + 1 = 2
      OBVIOUS
    <3> HIDE DEF m
    <3> QED BY <3>1, <3>2, <2>1, <2>2 DEF Above
  <2>4. InProcess(r, a, ip) \in Seq(VarNames)
    BY <2>3 DEF InProcess
  <2> DEFINE new == InProcess(r, a, ip)
  <2>5. IF a.of = "global"
        THEN /\ r[1].kind = "globals" /\ a.var \in VarNames
             /\ new = IF m = 1 THEN <<a.var>> ELSE <<a.var>> \o ip
        ELSE new = ip /\ (m = 1 => r[1].kind = "main")
    BY <2>3 DEF InProcess
  <2> HIDE DEF new
  <2>6. Mirrors(s, new)
    BY <1>1, <1>2, <2>1, <2>4, <2>5, MirrorPush DEF new
  <2> QED BY <2>6 DEF new
<1> QED BY <1>1, <1>4, <1>7, <1>8, <1>9 DEF Follows

\* A call that ends: what its caller must find again.
LEMMA FollowsPop ==
  ASSUME NEW r \in Seq(CallSet), NEW s \in Seq(CallSet), NEW ip \in Seq(VarNames),
         NEW top \in Nat, NEW n \in Int, NEW v, NEW a,
         Len(s) > 0, Len(r) = Len(s) + 1, Alike(s, r, Len(s)), r[Len(r)] = a,
         Follows(top, ip, n, v, r)
  PROVE  LET w == IF a.kind \in {"template", "foreach"} THEN a.saved ELSE v
             jp == IF a.of = "global" /\ Len(ip) > 1 THEN Tail(ip) ELSE ip
         IN Follows(top - Own(a), jp, n - Apply(a), w, s)
<1> DEFINE m == Len(s)
           w == IF a.kind \in {"template", "foreach"} THEN a.saved ELSE v
           jp == IF a.of = "global" /\ Len(ip) > 1 THEN Tail(ip) ELSE ip
<1>1. m \in Nat \ {0} /\ Len(r) = m + 1 /\ r[m + 1] = a
  OBVIOUS
<1>2. /\ NestedRun(r) /\ top = Depth(r, m + 1) /\ IsRule(r, m + 1, v)
      /\ n = Cardinality(AppliesTo(r, m + 1)) /\ Mirrors(r, ip)
  BY <1>1 DEF Follows
<1>0. Alike(r, s, m)
  BY DEF Alike
<1>3. /\ s[1].kind \in {"globals", "main"} /\ s[1].of = ""
      /\ \A i \in 2 .. m : Nests(s, i)
  <2>1. m \in Nat /\ m > 0 /\ m <= Len(r) /\ m <= Len(s)
    BY <1>1
  <2> HIDE DEF m
  <2> QED BY <2>1, <1>0, <1>2, NestedAlike
<1>4. NestedRun(s)
  BY <1>3 DEF NestedRun
<1>5. Nests(r, m + 1) /\ r[1].kind \in {"globals", "main"} /\ r[1].of = ""
  <2>1. m + 1 \in 2 .. Len(r) /\ Len(r) > 0
    BY <1>1
  <2> HIDE DEF m
  <2> QED BY <2>1, <1>2 DEF NestedRun
<1>6. IsRule(s, m, w)
  <2>1. IsRule(r, m, w)
    <3>1. CASE a.kind \in {"template", "foreach"}
      <4>0. (m + 1) - 1 = m
        BY <1>1
      <4>1. IsRule(r, (m + 1) - 1, a.saved)
        <5> HIDE DEF m, w
        <5> QED BY <1>1, <1>5, <3>1 DEF Nests
      <4>2. w = a.saved
        BY <3>1
      <4> HIDE DEF m, w
      <4> QED BY <4>0, <4>1, <4>2
    <3>2. CASE a.kind \notin {"template", "foreach"}
      <4>1. ~Setter(r, m + 1)
        BY <1>1, <1>5, <3>2 DEF Nests, Above, Setter, Restores
      <4>2. IsRule(r, (m + 1) - 1, v)
        BY <4>1, <1>1, <1>2, RulePop
      <4>3. (m + 1) - 1 = m /\ w = v
        BY <1>1, <3>2
      <4> HIDE DEF m, w
      <4> QED BY <4>2, <4>3
    <3> QED BY <3>1, <3>2
  <2> QED BY <2>1, <1>0, <1>1, RuleAlike
<1>7. top - Own(a) = Depth(s, m) /\ n - Apply(a) = Cardinality(AppliesTo(s, m))
  <2>1. Depth(s, m) = Depth(r, m) /\ AppliesTo(s, m) = AppliesTo(r, m)
    BY <1>0, <1>1, CountsAlike
  <2>2. /\ Depth(r, m + 1) = Depth(r, m) + (IF Owns(r[m + 1]) THEN 1 ELSE 0)
        /\ Cardinality(AppliesTo(r, m + 1)) = Cardinality(AppliesTo(r, m))
               + (IF r[m + 1].kind \in {"apply", "applied"} THEN 1 ELSE 0)
        /\ Depth(r, m) \in Nat /\ Cardinality(AppliesTo(r, m)) \in Nat
    BY <1>1, Counts
  <2> QED BY <1>1, <1>2, <2>1, <2>2 DEF Own, Apply
<1>8. Mirrors(s, jp)
  <2>1. r[1].of # "global" /\ (r[Len(r)].of = "global" => r[1].kind = "globals")
    BY <1>1, <1>5 DEF Nests, Above
  <2>2. Len(r) > 1 /\ r[1].kind = "globals" => r[2].of = "global"
    <3>1. Nests(r, 2)
      <4>1. 2 \in 2 .. Len(r)
        BY <1>1
      <4> QED BY <4>1, <1>2 DEF NestedRun
    <3> QED BY <3>1 DEF Nests, Above
  <2> QED BY <1>1, <1>2, <1>5, <2>1, <2>2, MirrorPop
<1> HIDE DEF w, jp
<1>9. Follows(top - Own(a), jp, n - Apply(a), w, s)
  BY <1>4, <1>6, <1>7, <1>8 DEF Follows
<1> QED BY <1>9 DEF w, jp

\* What the calls can see does not matter here.
LEMMA FollowsAlike ==
  ASSUME NEW r \in Seq(CallSet), NEW s \in Seq(CallSet), NEW ip, NEW top, NEW n, NEW v,
         Len(s) = Len(r), Alike(r, s, Len(r)), Follows(top, ip, n, v, r)
  PROVE  Follows(top, ip, n, v, s)
<1> DEFINE m == Len(r)
<1>1. m \in Nat /\ Len(s) = m
  OBVIOUS
<1>2. NestedRun(s)
  <2>1. NestedRun(r) /\ m <= Len(r) /\ m <= Len(s) /\ Alike(r, s, m)
    BY <1>1 DEF Follows
  <2>2. /\ m > 0 => s[1].kind \in {"globals", "main"} /\ s[1].of = ""
        /\ \A i \in 2 .. m : Nests(s, i)
    <3> HIDE DEF m
    <3> QED BY <2>1, <1>1, NestedAlike
  <2> QED BY <2>2, <1>1 DEF NestedRun
<1>3. /\ Depth(s, m) = Depth(r, m) /\ AppliesTo(s, m) = AppliesTo(r, m)
      /\ EvaluatesTo(s, m) = EvaluatesTo(r, m)
  BY <1>1, CountsAlike
<1>4. IsRule(s, m, v)
  BY <1>1, RuleAlike DEF Follows
<1>5. ASSUME m > 0, Mirrors(r, ip) PROVE Mirrors(s, ip)
  <2>1. s[1].kind = r[1].kind
    BY <1>5, <1>1 DEF Alike
  <2>2. \A i \in EvaluatesTo(r, m) : s[i].var = r[i].var /\ SinceIn(s, i) = SinceIn(r, i)
    BY <1>1, <1>3 DEF EvaluatesTo, Alike, SinceIn
  <2> QED BY <1>1, <1>3, <1>5, <2>1, <2>2 DEF Mirrors
<1> QED BY <1>1, <1>2, <1>3, <1>4, <1>5 DEF Follows

(* ------------------------------- sequences -------------------------------- *)
LEMMA Replacing ==
  ASSUME NEW S, NEW s \in Seq(S), Len(s) > 0, NEW v \in S
  PROVE  /\ Replaced(s, v) \in Seq(S) /\ Len(Replaced(s, v)) = Len(s)
         /\ Replaced(s, v)[Len(s)] = v
         /\ \A i \in 1 .. Len(s) - 1 : Replaced(s, v)[i] = s[i]
<1>1. Replaced(s, v) = [s EXCEPT ![Len(s)] = v]
  BY DEF Replaced, ReplaceAt
<1> QED BY <1>1

\* What is left of a sequence without its last element.
LEMMA Fronts ==
  ASSUME NEW S, NEW s \in Seq(S), NEW n \in 0 .. Len(s)
  PROVE  /\ SubSeq(s, 1, n) \in Seq(S) /\ Len(SubSeq(s, 1, n)) = n
         /\ \A i \in 1 .. n : SubSeq(s, 1, n)[i] = s[i]
  OBVIOUS

\* The elements of a sequence that has grown by one.
LEMMA Appending ==
  ASSUME NEW S, NEW s \in Seq(S), NEW v \in S
  PROVE  /\ Append(s, v) \in Seq(S) /\ Len(Append(s, v)) = Len(s) + 1
         /\ Append(s, v)[Len(s) + 1] = v
         /\ \A i \in 1 .. Len(s) : Append(s, v)[i] = s[i]
         /\ s \o <<v>> = Append(s, v)
  OBVIOUS

(* Every set of numbers that is not empty has a least element.               *)
LEMMA LeastNumber ==
  ASSUME NEW T \in SUBSET Nat, T # {}
  PROVE  \E n \in T : \A m \in T : n <= m
<1> DEFINE U == {0 .. n : n \in T}
<1>1. U \subseteq FiniteSubsetsOf(Nat)
  <2> SUFFICES ASSUME NEW n \in T PROVE 0 .. n \in SUBSET Nat /\ IsFiniteSet(0 .. n)
    BY DEF FiniteSubsetsOf
  <2> QED BY FS_Interval
<1>2. U # {}
  OBVIOUS
<1>3. IsWellFoundedOn(StrictSubsetOrdering(Nat), FiniteSubsetsOf(Nat))
  BY FS_StrictSubsetOrderingWellFounded
<1> HIDE DEF U
<1>4. PICK x \in U : \A y \in U : ~ (<<y, x>> \in StrictSubsetOrdering(Nat))
  BY <1>1, <1>2, <1>3, WFMin
<1>5. PICK n \in T : x = 0 .. n
  BY DEF U
<1>6. ASSUME NEW m \in T, m < n PROVE FALSE
  <2>1. 0 .. m \in U
    BY DEF U
  <2>2. <<0 .. m, x>> \in StrictSubsetOrdering(Nat)
    BY <1>5, <1>6 DEF StrictSubsetOrdering
  <2> QED BY <2>1, <2>2, <1>4
<1> QED BY <1>6

\* A nonempty finite set of numbers has a greatest one.
LEMMA GreatestNumber ==
  ASSUME NEW n \in Nat, NEW T \in SUBSET (1 .. n), T # {}
  PROVE  \E i \in T : \A j \in T : j <= i
<1> DEFINE U == {n - i : i \in T}
<1>1. U \in SUBSET Nat /\ U # {}
  <2>1. ASSUME NEW i \in T PROVE n - i \in Nat
    OBVIOUS
  <2>2. PICK i \in T : TRUE
    OBVIOUS
  <2>3. n - i \in U
    BY <2>2
  <2> QED BY <2>1, <2>3
<1> HIDE DEF U
<1>2. PICK m \in U : \A k \in U : m <= k
  BY <1>1, LeastNumber
<1>3. PICK i \in T : m = n - i
  BY DEF U
<1>4. \A j \in T : n - i <= n - j
  BY <1>2, <1>3 DEF U
<1> QED BY <1>4

(* ----------------------------- the frames' depth --------------------------- *)
LEMMA Depths ==
  ASSUME NEW r, NEW n \in Nat, NEW m \in 0 .. n
  PROVE  /\ Depth(r, m) \in Nat /\ Depth(r, n) \in Nat /\ Depth(r, m) <= Depth(r, n)
         /\ m < n /\ Owns(r[n]) => Depth(r, m) < Depth(r, n)
<1>1. OwnedTo(r, m) \in SUBSET OwnedTo(r, n)
  BY DEF OwnedTo
<1>2. IsFiniteSet(OwnedTo(r, n)) /\ Depth(r, n) \in Nat /\ Depth(r, m) \in Nat
  BY Counts
<1>3. /\ Cardinality(OwnedTo(r, m)) <= Cardinality(OwnedTo(r, n))
      /\ Cardinality(OwnedTo(r, n)) = Cardinality(OwnedTo(r, m)) => OwnedTo(r, n) = OwnedTo(r, m)
  BY <1>1, <1>2, FS_Subset
<1>4. m < n /\ Owns(r[n]) => n \in OwnedTo(r, n) /\ n \notin OwnedTo(r, m)
  BY DEF OwnedTo
<1> QED BY <1>2, <1>3, <1>4 DEF Depth

\* The types of what a transformation works on, and how the call in progress nests.
LEMMA Going_ ==
  ASSUME StacksInv, Going
  PROVE  /\ Len(run) \in Nat \ {0} /\ Act \in CallSet /\ Act = run[Len(run)]
         /\ Top \in Nat \ {0} /\ Frame \in FrameSet
         /\ Act.kind \notin {"globals", "main"} =>
              Len(run) > 1 /\ Nests(run, Len(run)) /\ (Owns(Act) => Top > 1)
         /\ Len(run) > 1 => Act.kind \notin {"globals", "main"}
         /\ run[1].kind \in {"globals", "main"} /\ run[1].of = ""
<1>1. /\ Len(run) \in Nat \ {0} /\ Act \in CallSet /\ Act = run[Len(run)]
      /\ run \in Seq(CallSet) /\ frames \in Seq(FrameSet)
  BY DEF StacksInv, TypeOK, Going, Act
<1>2. NestedRun(run) /\ Top = Depth(run, Len(run))
  BY DEF StacksInv, Follows
<1>3. run[1].kind \in {"globals", "main"} /\ run[1].of = ""
  <2>1. Len(run) > 0
    BY <1>1
  <2> QED BY <2>1, <1>2 DEF NestedRun
<1>4. Owns(run[1])
  BY <1>3 DEF Owns
<1>5. Depth(run, 0) < Depth(run, 1) /\ Depth(run, 0) \in Nat /\ Depth(run, 1) \in Nat
  BY <1>4, Depths
<1>6. Depth(run, 1) <= Depth(run, Len(run)) /\ Depth(run, Len(run)) \in Nat
      /\ (Len(run) > 1 /\ Owns(Act) => Depth(run, 1) < Depth(run, Len(run)))
  BY <1>1, Depths
<1>7. Top \in Nat \ {0} /\ Frame \in FrameSet
  BY <1>1, <1>2, <1>5, <1>6 DEF Frame, Top
<1>8. ASSUME Act.kind \notin {"globals", "main"} PROVE Len(run) > 1
  <2>1. Len(run) # 1
    BY <1>1, <1>3, <1>8
  <2>2. Len(run) \in Nat \ {0}
    BY <1>1
  <2> QED BY <2>1, <2>2
<1>9. ASSUME Len(run) > 1 PROVE Nests(run, Len(run)) /\ Act.kind \notin {"globals", "main"}
  <2>1. Len(run) \in 2 .. Len(run)
    BY <1>1, <1>9
  <2>2. Nests(run, Len(run))
    BY <2>1, <1>2 DEF NestedRun
  <2> QED BY <2>2, <1>1 DEF Nests, Above
<1>10. Act.kind \notin {"globals", "main"} /\ Owns(Act) => Top > 1
  BY <1>2, <1>5, <1>6, <1>8, <1>1
<1> HIDE DEF Act, Top, Frame
<1> QED BY <1>1, <1>3, <1>7, <1>8, <1>9, <1>10

(* --------------------------------- steps ---------------------------------- *)
LEMMA StepPush ==
  ASSUME StacksInv, Going, NEW a \in CallSet, run' = Append(run, a), MayCall(run, a, rule),
         inProcess' = InProcess(run, a, inProcess), nested' = nested + Apply(a),
         rule' = RuleWith(run, a, rule), frames' \in Seq(FrameSet),
         Len(frames') = Top + Own(a), error' = error, UNCHANGED sheetVars
  PROVE  StacksInv'
<1>1. TypeOK /\ Follows(Top, inProcess, nested, rule, run) /\ Len(run) > 0 /\ Top \in Nat
      /\ Len(run) \in Nat
  <2>1. Top \in Nat \ {0} /\ Len(run) \in Nat \ {0}
    BY Going_
  <2>2. Len(run) > 0
    BY <2>1
  <2> QED BY <2>1, <2>2 DEF StacksInv
<1>2. /\ run' \in Seq(CallSet) /\ Len(run') = Len(run) + 1 /\ run'[Len(run')] = a
      /\ Alike(run, run', Len(run))
  BY <1>1, Appending DEF TypeOK, Alike
<1>3. Follows(Top + Own(a), inProcess', nested', rule', run')
  BY <1>1, <1>2, FollowsPush DEF TypeOK
<1>4. inProcess' \in Seq(VarNames)
  <2>1. a.of = "global" => a.kind \in {"select", "content"}
    BY DEF MayCall, Above
  <2>2. a.of = "global" => a.var \in VarNames
    BY <2>1 DEF MayCall, Above
  <2> QED BY <1>1, <2>2 DEF InProcess, TypeOK
<1>5. nested' \in Int /\ rule' \in Nat
  BY <1>1 DEF Apply, RuleWith, TypeOK
<1>6. Globals' = Globals
  BY DEF Globals, sheetVars, tables
<1>7. TypeOK'
  BY <1>1, <1>2, <1>4, <1>5, <1>6 DEF TypeOK
<1> QED BY <1>3, <1>7 DEF StacksInv, Top

\* A step that ends the call in progress.
LEMMA StepPop ==
  ASSUME StacksInv, Len(run) > 1, run' \in Seq(CallSet), Len(run') = Len(run) - 1,
         Alike(run', run, Len(run')),
         inProcess' = IF Act.of = "global" /\ Len(inProcess) > 1 THEN Tail(inProcess) ELSE inProcess,
         nested' = nested - Apply(Act),
         rule' = IF Act.kind \in {"template", "foreach"} THEN Act.saved ELSE rule,
         frames' \in Seq(FrameSet), Len(frames') = Top - Own(Act), error' = error,
         UNCHANGED sheetVars
  PROVE  StacksInv'
<1>1. TypeOK /\ Follows(Top, inProcess, nested, rule, run) /\ Act \in CallSet /\ Top \in Nat
      /\ Len(run) \in Nat /\ Act = run[Len(run)]
  <2>1. TypeOK /\ Follows(Top, inProcess, nested, rule, run)
    BY DEF StacksInv
  <2>2. run \in Seq(CallSet)
    BY <2>1 DEF TypeOK
  <2>3. Going
    BY <2>2 DEF Going
  <2>4. Top \in Nat /\ Len(run) \in Nat /\ Act \in CallSet /\ Act = run[Len(run)]
    BY <2>3, Going_
  <2> QED BY <2>1, <2>4
<1>2. Len(run') > 0 /\ Len(run) = Len(run') + 1
  BY <1>1
<1>3. Follows(Top - Own(Act), inProcess', nested', rule', run')
  <2> HIDE DEF Act, Top
  <2> QED BY <1>1, <1>2, FollowsPop DEF TypeOK
<1>4. inProcess' \in Seq(VarNames)
  BY <1>1 DEF TypeOK
<1>5. nested' \in Int /\ rule' \in Nat
  <2>1. Act.saved \in Nat
    BY <1>1 DEF CallSet
  <2> HIDE DEF Act
  <2> QED BY <2>1, <1>1 DEF Apply, TypeOK
<1>6. Globals' = Globals
  BY DEF Globals, sheetVars, tables
<1>7. TypeOK'
  BY <1>1, <1>4, <1>5, <1>6 DEF TypeOK
<1> QED BY <1>3, <1>7 DEF StacksInv, Top

\* A step that only changes what the call in progress sees.
LEMMA StepTop ==
  ASSUME StacksInv, run' \in Seq(CallSet), Len(run') = Len(run), Alike(run, run', Len(run)),
         frames' \in Seq(FrameSet), Len(frames') = Top,
         UNCHANGED <<inProcess, nested, rule, error>>, UNCHANGED sheetVars
  PROVE  StacksInv'
<1>1. Follows(Top', inProcess', nested', rule', run')
  BY FollowsAlike DEF StacksInv, TypeOK, Top
<1>2. Globals' = Globals
  BY DEF Globals, sheetVars, tables
<1> QED BY <1>1, <1>2 DEF StacksInv, TypeOK

\* Between transformations no call has left anything.
LEMMA NothingGoingOn == Follows(0, inProcess, nested, 0, <<>>)
<1>1. OwnedTo(<<>>, 0) = {}
  BY DEF OwnedTo
<1>2. Depth(<<>>, 0) = 0
  BY <1>1, FS_EmptySet DEF Depth
<1> QED BY <1>2 DEF Follows, NestedRun, IsRule

\* Behind a failure the rule is the one from before the transformation: none.
LEMMA StepRaise ==
  ASSUME StacksInv, Going, NEW why \in Causes, NEW right \in BOOLEAN, Raise(why, right),
         UNCHANGED sheetVars
  PROVE  StacksInv' /\ run' = <<>> /\ frames' = <<>>
<1> DEFINE rs == {i \in DOMAIN run : RestoresRule(i)}
           n == Len(run)
<1>1. TypeOK /\ NestedRun(run) /\ IsRule(run, n, rule) /\ Top = Depth(run, n)
      /\ n \in Nat \ {0} /\ DOMAIN run = 1 .. n /\ run \in Seq(CallSet)
      /\ run[1].kind \in {"globals", "main"}
  <2>1. n \in Nat \ {0} /\ run[1].kind \in {"globals", "main"}
    BY Going_
  <2> QED BY <2>1 DEF StacksInv, Follows, TypeOK
<1>2. Owned(run) = Top
  BY <1>1 DEF Owned, Depth, OwnedTo, Owns
<1>3. frames' = <<>> /\ run' = <<>>
  BY <1>1, <1>2 DEF Raise, TypeOK, Top
<1>4. rs \in SUBSET (2 .. n) /\ \A i \in 2 .. n : i \in rs <=> Restores(run, i)
  BY <1>1 DEF RestoresRule, Restores
<1>5. \A i \in 2 .. n : run[i].of = "imports" => \E j \in 2 .. i - 1 : j \in rs
  <2> TAKE i \in 2 .. n
  <2>1. Nests(run, i)
    BY <1>1 DEF NestedRun
  <2>2. run[i].of = "imports" => \E j \in 2 .. i - 1 : Restores(run, j)
    BY <2>1 DEF Nests
  <2>3. \A j \in 2 .. i - 1 : j \in 2 .. n
    BY <1>1
  <2> QED BY <2>2, <2>3, <1>4
<1> HIDE DEF rs, n
<1>6. ASSUME rs = {} PROVE rule' = 0
  <2>1. \A i \in 2 .. n : Setter(run, i) => run[i].kind = "foreach"
    BY <1>4, <1>5, <1>6 DEF Setter
  <2>2. rule = 0
    BY <1>1, <2>1 DEF IsRule
  <2>3. rule' = 0
    BY <1>6, <2>2 DEF Raise, rs
  <2> QED BY <2>3
<1>7. ASSUME rs # {} PROVE rule' = 0
  <2>1. rs \in SUBSET Nat
    BY <1>1, <1>4
  <2>2. PICK i \in rs : \A j \in rs : i <= j
    BY <1>7, <2>1, LeastNumber
  <2>3. i = CHOOSE k \in rs : \A j \in rs : k <= j
    <3>1. \A k \in rs : (\A j \in rs : k <= j) => k = i
      BY <2>1, <2>2
    <3> QED BY <2>2, <3>1
  <2>4. rule' = run[i].saved
    BY <1>7, <2>3 DEF Raise, rs
  <2>5. i \in 2 .. n /\ run[i].kind = "template"
    BY <1>4, <2>2 DEF Restores
  <2>6. IsRule(run, i - 1, run[i].saved)
    BY <1>1, <2>5 DEF NestedRun, Nests, n
  <2>7. \A j \in 2 .. i - 1 : Setter(run, j) => run[j].kind = "foreach"
    <3> TAKE j \in 2 .. i - 1
    <3>1. j \in 2 .. n /\ j < i
      BY <1>1, <2>5
    <3>2. j \notin rs
      BY <2>1, <2>2, <3>1
    <3>3. run[j].of # "imports"
      <4> SUFFICES ASSUME run[j].of = "imports" PROVE FALSE
        OBVIOUS
      <4>1. PICK k \in 2 .. j - 1 : k \in rs
        BY <1>5, <3>1
      <4> QED BY <4>1, <2>2, <3>1
    <3> QED BY <3>1, <3>2, <3>3, <1>4 DEF Setter
  <2>8. run[i].saved = 0
    BY <2>6, <2>7 DEF IsRule
  <2> QED BY <2>4, <2>8
<1>8. rule' = 0
  BY <1>6, <1>7
<1>9. Top' = 0 /\ Globals' = Globals
  BY <1>3 DEF Top, Globals, sheetVars, tables
<1>10. TypeOK'
  <2>1. error' \in [why : Causes, right : BOOLEAN] /\ inProcess' = inProcess /\ nested' = nested
    BY DEF Raise
  <2> QED BY <2>1, <1>1, <1>3, <1>8, <1>9 DEF TypeOK
<1>11. Follows(Top', inProcess', nested', rule', run')
  <2>1. inProcess' = inProcess /\ nested' = nested
    BY DEF Raise
  <2> QED BY <2>1, <1>3, <1>8, <1>9, NothingGoingOn
<1> QED BY <1>3, <1>10, <1>11 DEF StacksInv

\* Every error: the callers pop what they pushed and put back the rule.
LEMMA RaiseKeeps ==
  ASSUME StacksInv, Going, UNCHANGED sheetVars,
         \/ Raise("other", TRUE) \/ Raise("depth", TRUE) \/ Raise("imports", TRUE)
         \/ Raise("circular", FALSE)
         \/ \E why \in {"circular", "undeclared", "declared"}, right \in BOOLEAN : Raise(why, right)
  PROVE  StacksInv'
<1>1. \E why \in Causes, right \in BOOLEAN : Raise(why, right)
  BY Zenon DEF Causes
<1> QED BY <1>1, StepRaise

(* ------------------------------ the operators ------------------------------ *)
LEMMA FrameVars ==
  ASSUME NEW f \in FrameSet, NEW vs
  PROVE  [f EXCEPT !.vars = vs] = [vars |-> vs, stop |-> f.stop, polluted |-> f.polluted]
  BY DEF FrameSet

\* Setting two fields of a frame is setting one after the other.
LEMMA FrameVarsPolluted ==
  ASSUME NEW f \in FrameSet, NEW vs, NEW p
  PROVE  [f EXCEPT !.vars = vs, !.polluted = p] = [vars |-> vs, stop |-> f.stop, polluted |-> p]
<1>1. [f EXCEPT !.vars = vs, !.polluted = p] = [[f EXCEPT !.vars = vs] EXCEPT !.polluted = p]
  OBVIOUS
<1>2. ASSUME NEW q PROVE [[vars |-> vs, stop |-> f.stop, polluted |-> q] EXCEPT !.polluted = p]
                          = [vars |-> vs, stop |-> f.stop, polluted |-> p]
  OBVIOUS
<1> QED BY <1>1, <1>2, FrameVars

\* ... also these two.
LEMMA FrameStopPolluted ==
  ASSUME NEW f \in FrameSet, NEW stop, NEW p
  PROVE  [f EXCEPT !.stop = stop, !.polluted = p] = [vars |-> f.vars, stop |-> stop, polluted |-> p]
<1>1. [f EXCEPT !.stop = stop, !.polluted = p] = [[f EXCEPT !.stop = stop] EXCEPT !.polluted = p]
  OBVIOUS
<1>2. ASSUME NEW q PROVE [[vars |-> f.vars, stop |-> stop, polluted |-> q] EXCEPT !.polluted = p]
                          = [vars |-> f.vars, stop |-> stop, polluted |-> p]
  OBVIOUS
<1>3. [f EXCEPT !.stop = stop] = [vars |-> f.vars, stop |-> stop, polluted |-> f.polluted]
  BY DEF FrameSet
<1> QED BY <1>1, <1>2, <1>3

\* A frame as it is pushed, and with one variable more.
Empty(stop) == [vars |-> <<>>, stop |-> stop, polluted |-> FALSE]
WithVar(f, v) == [vars |-> Append(f.vars, v), stop |-> f.stop, polluted |-> TRUE]

\* The frame of xsl:for-each is emptied in place.
LEMMA Emptied ==
  ASSUME NEW stop \in {0, 1, 2}
  PROVE  [Owning(<<>>) EXCEPT !.stop = stop] = Empty(stop) /\ Empty(stop) \in FrameSet
<1>1. ASSUME NEW vs, NEW p
      PROVE  [[vars |-> vs, stop |-> 0, polluted |-> p] EXCEPT !.stop = stop]
               = [vars |-> vs, stop |-> stop, polluted |-> p]
  OBVIOUS
<1>2. [Owning(<<>>) EXCEPT !.stop = stop] = Empty(stop)
  BY <1>1, Zenon DEF Owning, Empty
<1> QED BY <1>2 DEF Empty, FrameSet

\* The frames that the steps push, and pop, are frames.
LEMMA Frames ==
  ASSUME StacksInv, Going
  PROVE  /\ \A stop \in {0, 1, 2} :
              /\ Pushed(stop) = Append(frames, Empty(stop)) /\ Empty(stop) \in FrameSet
              /\ Pushed(stop) \in Seq(FrameSet) /\ Len(Pushed(stop)) = Top + 1
         /\ Front(frames) \in Seq(FrameSet) /\ Len(Front(frames)) = Top - 1
         /\ \A i \in 1 .. Top - 1 : Front(frames)[i] = frames[i]
<1>1. frames \in Seq(FrameSet) /\ Top \in Nat \ {0} /\ Top = Len(frames)
  BY Going_ DEF StacksInv, TypeOK, Top
<1>2. ASSUME NEW stop \in {0, 1, 2}
      PROVE  Pushed(stop) = Append(frames, Empty(stop)) /\ Empty(stop) \in FrameSet
  BY Emptied DEF Pushed
<1>3. 0 <= Top - 1 /\ Top - 1 \in 0 .. Len(frames)
  BY <1>1
<1>4. Front(frames) = SubSeq(frames, 1, Top - 1)
  BY <1>1 DEF Front
<1> HIDE DEF Top
<1>5. ASSUME NEW stop \in {0, 1, 2}
      PROVE  Pushed(stop) \in Seq(FrameSet) /\ Len(Pushed(stop)) = Top + 1
  <2> DEFINE f == Empty(stop)
  <2>1. Pushed(stop) = Append(frames, f) /\ f \in FrameSet
    BY <1>2
  <2> HIDE DEF f
  <2>2. Append(frames, f) \in Seq(FrameSet) /\ Len(Append(frames, f)) = Len(frames) + 1
    BY <1>1, <2>1, Appending
  <2> QED BY <1>1, <2>1, <2>2
<1> QED BY <1>1, <1>2, <1>3, <1>4, <1>5, Fronts

\* xsltSetVar changes the last frame only.
LEMMA SetVarIs ==
  ASSUME NEW fs \in Seq(FrameSet), Len(fs) > 0, NEW v \in VarSet
  PROVE  /\ SetVar(fs, v) \in Seq(FrameSet) /\ Len(SetVar(fs, v)) = Len(fs)
         /\ \A i \in 1 .. Len(fs) - 1 : SetVar(fs, v)[i] = fs[i]
         /\ SetVar(fs, v)[Len(fs)] = WithVar(fs[Len(fs)], v)
<1> DEFINE f == fs[Len(fs)]
<1>1. f \in FrameSet
  OBVIOUS
<1>2. [f EXCEPT !.vars = Append(@, v), !.polluted = TRUE] = WithVar(f, v)
  <2> HIDE DEF f
  <2>1. ASSUME NEW p
        PROVE  [f EXCEPT !.vars = Append(@, v), !.polluted = p]
                 = [vars |-> Append(f.vars, v), stop |-> f.stop, polluted |-> p]
    BY <1>1, FrameVarsPolluted
  <2> QED BY <2>1, Zenon DEF WithVar
<1>3. WithVar(f, v) \in FrameSet
  <2> HIDE DEF f
  <2>1. Append(f.vars, v) \in Seq(VarSet) /\ f.stop \in {0, 1, 2}
    BY <1>1 DEF FrameSet
  <2> QED BY <2>1 DEF WithVar, FrameSet
<1>4. SetVar(fs, v) = Replaced(fs, WithVar(f, v))
  BY <1>2 DEF SetVar, Last
<1> DEFINE w == WithVar(f, v)
<1>5. w \in FrameSet /\ SetVar(fs, v) = Replaced(fs, w)
  BY <1>3, <1>4
<1> HIDE DEF w
<1>6. /\ Replaced(fs, w) \in Seq(FrameSet) /\ Len(Replaced(fs, w)) = Len(fs)
      /\ Replaced(fs, w)[Len(fs)] = w
      /\ \A i \in 1 .. Len(fs) - 1 : Replaced(fs, w)[i] = fs[i]
  BY <1>5, Replacing
<1> QED BY <1>5, <1>6 DEF w

\* x is the k-th variable of the frame f, the first of that name.
FirstIn(f, x, All, k) ==
  /\ k \in DOMAIN f.vars /\ f.vars[k].name = x /\ (All \/ f.vars[k].active)
  /\ \A j \in DOMAIN f.vars : f.vars[j].name = x /\ (All \/ f.vars[j].active) => k <= j

\* A variable that is found in a frame has a place there.
LEMMA FirstIs ==
  ASSUME NEW f \in FrameSet, NEW x, NEW All \in BOOLEAN, Has(f, x, All)
  PROVE  FirstIn(f, x, All, First(f, x, All)) /\ First(f, x, All) \in Nat \ {0}
<1> DEFINE ks == {k \in DOMAIN f.vars : f.vars[k].name = x /\ (All \/ f.vars[k].active)}
<1>1. ks # {} /\ ks \in SUBSET Nat /\ \A k \in ks : k # 0
  BY DEF Has, FrameSet
<1>2. First(f, x, All) = CHOOSE k \in ks : \A j \in ks : k <= j
  BY DEF First
<1>3. \E k \in ks : \A j \in ks : k <= j
  <2> HIDE DEF ks
  <2> QED BY <1>1, LeastNumber
<1>4. First(f, x, All) \in ks /\ \A j \in ks : First(f, x, All) <= j
  <2> HIDE DEF ks
  <2> QED BY <1>2, <1>3
<1> QED BY <1>1, <1>4 DEF FirstIn

\* xsltVarExists finds the first variable of that name in the innermost near
\* frame that has one.
LEMMA FoundIs ==
  ASSUME StacksInv, Going, NEW x \in VarNames
  PROVE  /\ VarExists(x) <=> \E i \in Near : Has(frames[i], x, TRUE)
         /\ VarExists(x) => \E i \in Near, k \in Nat \ {0} :
              /\ Found(x) = <<i, k>> /\ FirstIn(frames[i], x, TRUE, k)
              /\ \A j \in Near : j > i => ~Has(frames[j], x, TRUE)
<1> DEFINE is == {i \in Near : Has(frames[i], x, TRUE)}
           i == CHOOSE i \in is : \A j \in is : j <= i
<1>1. is \in SUBSET (1 .. Top) /\ Top \in Nat /\ frames \in Seq(FrameSet) /\ Top = Len(frames)
  BY Going_ DEF Near, StacksInv, TypeOK, Top
<1>2. Found(x) = IF is = {} THEN NoVar ELSE <<i, First(frames[i], x, TRUE)>>
  BY DEF Found
<1>3. CASE is = {}
  BY <1>2, <1>3 DEF VarExists
<1>4. CASE is # {}
  <2>1. \E k \in is : \A j \in is : j <= k
    <3> HIDE DEF is
    <3> QED BY <1>1, <1>4, GreatestNumber
  <2>2. i \in is /\ \A j \in is : j <= i
    <3> HIDE DEF is
    <3> QED BY <2>1
  <2>3. frames[i] \in FrameSet /\ Has(frames[i], x, TRUE) /\ i \in Near /\ i \in Nat \ {0}
    <3>1. i \in Near /\ Has(frames[i], x, TRUE)
      <4> HIDE DEF i
      <4> QED BY <2>2
    <3>2. i \in 1 .. Top
      BY <3>1 DEF Near
    <3> HIDE DEF i, is
    <3>3. frames[i] \in FrameSet
      BY <1>1, <3>2
    <3>4. i \in Nat \ {0}
      BY <1>1, <3>2
    <3> QED BY <3>1, <3>3, <3>4
  <2> DEFINE k == First(frames[i], x, TRUE)
  <2>4. FirstIn(frames[i], x, TRUE, k) /\ k \in Nat \ {0}
    <3> HIDE DEF i
    <3> QED BY <2>3, FirstIs
  <2>5. Found(x) = <<i, k>>
    BY <1>2, <1>4
  <2>6. \A j \in Near : j > i => ~Has(frames[j], x, TRUE)
    <3> TAKE j \in Near
    <3> SUFFICES ASSUME j > i, Has(frames[j], x, TRUE) PROVE FALSE
      OBVIOUS
    <3>1. j \in is
      OBVIOUS
    <3>2. j <= i /\ j \in 1 .. Top
      BY <3>1, <2>2, <1>1
    <3> QED BY <3>2, <2>3, <1>1
  <2> HIDE DEF i, k, is
  <2>7. Found(x) # NoVar
    BY <2>3, <2>5 DEF NoVar
  <2> QED BY <2>3, <2>4, <2>5, <2>6, <2>7 DEF VarExists
<1> QED BY <1>3, <1>4

(* --------------------------------- calls ---------------------------------- *)
\* b is the call a, but for what it can see and pass.
Like(a, b) == b.kind = a.kind /\ b.of = a.of /\ b.saved = a.saved /\ b.var = a.var

\* a is a call that has neither passed nor saved anything.
Bare(a, kind, env, pending) ==
  /\ a \in CallSet /\ a.kind = kind /\ a.env = env /\ a.pending = pending
  /\ a.passed = {} /\ a.var = "" /\ a.of = "" /\ a.saved = 0

\* Calls, and calls with one field changed, are calls.
LEMMA CallIs ==
  ASSUME NEW kind \in Kinds, NEW env \in [VarNames -> Place], NEW pending \in SUBSET VarNames
  PROVE  Bare(Call(kind, env, pending), kind, env, pending)
  BY DEF Bare, Call, CallSet

\* A call with another kind.
LEMMA WithKind ==
  ASSUME NEW a \in CallSet, NEW kind \in Kinds
  PROVE  LET b == [a EXCEPT !.kind = kind]
         IN /\ b \in CallSet /\ b.kind = kind /\ b.of = a.of /\ b.saved = a.saved
            /\ b.var = a.var /\ b.passed = a.passed /\ b.env = a.env /\ b.pending = a.pending
  BY DEF CallSet

\* A call with another purpose.
LEMMA WithOf ==
  ASSUME NEW a \in CallSet, NEW of \in {"", "again", "imports", "global", "local"}
  PROVE  LET b == [a EXCEPT !.of = of]
         IN /\ b \in CallSet /\ b.kind = a.kind /\ b.of = of /\ b.saved = a.saved
            /\ b.var = a.var /\ b.passed = a.passed /\ b.env = a.env /\ b.pending = a.pending
  BY DEF CallSet

\* A call that saves another rule.
LEMMA WithSaved ==
  ASSUME NEW a \in CallSet, NEW saved \in Nat
  PROVE  LET b == [a EXCEPT !.saved = saved]
         IN /\ b \in CallSet /\ b.kind = a.kind /\ b.of = a.of /\ b.saved = saved
            /\ b.var = a.var /\ b.passed = a.passed /\ b.env = a.env /\ b.pending = a.pending
  BY DEF CallSet

\* A call for another variable.
LEMMA WithName ==
  ASSUME NEW a \in CallSet, NEW x \in VarNames
  PROVE  LET b == [a EXCEPT !.var = x]
         IN /\ b \in CallSet /\ b.kind = a.kind /\ b.of = a.of /\ b.saved = a.saved
            /\ b.var = x /\ b.passed = a.passed /\ b.env = a.env /\ b.pending = a.pending
  BY DEF CallSet

\* A call that passes other parameters.
LEMMA WithPassed ==
  ASSUME NEW a \in CallSet, NEW passed \in SUBSET VarNames
  PROVE  LET b == [a EXCEPT !.passed = passed]
         IN /\ b \in CallSet /\ Like(a, b) /\ b.passed = passed /\ b.env = a.env
            /\ b.pending = a.pending
  BY DEF CallSet, Like

\* A call that sees other variables.
LEMMA WithEnv ==
  ASSUME NEW a \in CallSet, NEW env \in [VarNames -> Place]
  PROVE  LET b == [a EXCEPT !.env = env]
         IN /\ b \in CallSet /\ Like(a, b) /\ b.passed = a.passed /\ b.env = env
            /\ b.pending = a.pending
  BY DEF CallSet, Like

\* A call that waits for other parameters.
LEMMA WithPending ==
  ASSUME NEW a \in CallSet, NEW pending \in SUBSET VarNames
  PROVE  LET b == [a EXCEPT !.pending = pending]
         IN /\ b \in CallSet /\ Like(a, b) /\ b.passed = a.passed /\ b.env = a.env
            /\ b.pending = pending
  BY DEF CallSet, Like

\* A call that sees one more variable.
LEMMA WithBinding ==
  ASSUME NEW a \in CallSet, NEW x \in VarNames, NEW p \in Place
  PROVE  LET b == [a EXCEPT !.env[x] = p]
         IN /\ b \in CallSet /\ Like(a, b) /\ b.passed = a.passed
            /\ b.env = [a.env EXCEPT ![x] = p] /\ b.pending = a.pending
<1>1. [a EXCEPT !.env[x] = p] = [a EXCEPT !.env = [a.env EXCEPT ![x] = p]]
  OBVIOUS
<1>2. [a.env EXCEPT ![x] = p] \in [VarNames -> Place]
  BY DEF CallSet
<1> DEFINE e == [a.env EXCEPT ![x] = p]
<1> HIDE DEF e
<1>3. LET b == [a EXCEPT !.env = e]
      IN /\ b \in CallSet /\ Like(a, b) /\ b.passed = a.passed
         /\ b.env = e /\ b.pending = a.pending
  BY <1>2, WithEnv DEF e
<1> QED BY <1>1, <1>3 DEF e

\* A variable declared in the call a, and a parameter that it has got.
LEMMA WithDeclared ==
  ASSUME NEW a \in CallSet, NEW x \in VarNames, NEW p \in Place
  PROVE  LET b == [a EXCEPT !.env[x] = p, !.pending = @ \ {x}]
         IN /\ b \in CallSet /\ Like(a, b) /\ b.passed = a.passed
            /\ b.env = [a.env EXCEPT ![x] = p] /\ b.pending = a.pending \ {x}
<1> DEFINE c == [a EXCEPT !.env[x] = p]
<1>1. [a EXCEPT !.env[x] = p, !.pending = @ \ {x}] = [c EXCEPT !.pending = @ \ {x}]
  OBVIOUS
<1>2. /\ c \in CallSet /\ Like(a, c) /\ c.passed = a.passed
      /\ c.env = [a.env EXCEPT ![x] = p] /\ c.pending = a.pending
  BY WithBinding
<1> HIDE DEF c
<1> DEFINE q == c.pending \ {x}
<1>3. q \in SUBSET VarNames /\ [c EXCEPT !.pending = @ \ {x}] = [c EXCEPT !.pending = q]
  BY <1>2 DEF CallSet
<1>4. q = a.pending \ {x}
  BY <1>2
<1> HIDE DEF q
<1>5. LET b == [c EXCEPT !.pending = q]
      IN /\ b \in CallSet /\ Like(c, b) /\ b.passed = c.passed /\ b.env = c.env
         /\ b.pending = q
  BY <1>2, <1>3, WithPending
<1> QED BY <1>1, <1>2, <1>3, <1>4, <1>5 DEF Like

\* The same of the call by name: the call a with the declaration p of x.
Declaring(a, x, p) == [a EXCEPT !.env[x] = p, !.pending = @ \ {x}]

LEMMA DeclaringIs ==
  ASSUME NEW a \in CallSet, NEW x \in VarNames, NEW p \in Place
  PROVE  LET b == Declaring(a, x, p)
         IN /\ b \in CallSet /\ Like(a, b)
            /\ b.env = [a.env EXCEPT ![x] = p] /\ b.pending = a.pending \ {x}
<1>1. LET b == [a EXCEPT !.env[x] = p, !.pending = @ \ {x}]
      IN /\ b \in CallSet /\ Like(a, b) /\ b.passed = a.passed
         /\ b.env = [a.env EXCEPT ![x] = p] /\ b.pending = a.pending \ {x}
  BY WithDeclared, Zenon
<1> QED BY <1>1, Zenon DEF Declaring

\* A call that sees what its caller sees.
LEMMA InnerIs ==
  ASSUME StacksInv, Going, NEW kind \in Kinds
  PROVE  Bare(Inner(kind), kind, Act.env, Act.pending)
<1>1. Act.env \in [VarNames -> Place] /\ Act.pending \in SUBSET VarNames
  <2>1. Act \in CallSet
    BY Going_
  <2> HIDE DEF Act
  <2> QED BY <2>1 DEF CallSet
<1> DEFINE e == Act.env
           q == Act.pending
<1>2. e \in [VarNames -> Place] /\ q \in SUBSET VarNames /\ Inner(kind) = Call(kind, e, q)
  BY <1>1 DEF Inner
<1> HIDE DEF e, q
<1>3. Bare(Call(kind, e, q), kind, e, q)
  BY <1>2, CallIs
<1> QED BY <1>2, <1>3 DEF e, q

\* The calls of templates begin without variables.
LEMMA NothingDeclared == NoLocals \in [VarNames -> Place] /\ NoVar \in Place
  BY DEF NoLocals, NoVar, Place

\* The call of a template saves the current rule.
LEMMA TemplateIs ==
  ASSUME StacksInv, NEW passed \in SUBSET VarNames
  PROVE  LET a == Template(passed)
         IN /\ a \in CallSet /\ a.kind = "template" /\ a.env = NoLocals /\ a.pending = passed
            /\ a.passed = {} /\ a.var = "" /\ a.of = "" /\ a.saved = rule
<1> DEFINE c == Call("template", NoLocals, passed)
<1>1. /\ c \in CallSet /\ c.kind = "template" /\ c.env = NoLocals /\ c.pending = passed
      /\ c.passed = {} /\ c.var = "" /\ c.of = ""
  <2> DEFINE k == "template"
  <2>1. k \in Kinds
    BY DEF Kinds
  <2> HIDE DEF k
  <2>2. Bare(Call(k, NoLocals, passed), k, NoLocals, passed)
    BY <2>1, NothingDeclared, CallIs
  <2> QED BY <2>2 DEF k, Bare
<1>2. rule \in Nat
  BY DEF StacksInv, TypeOK
<1>3. Template(passed) = [c EXCEPT !.saved = rule]
  BY DEF Template
<1> HIDE DEF c
<1>4. LET b == [c EXCEPT !.saved = rule]
      IN /\ b \in CallSet /\ b.kind = c.kind /\ b.of = c.of /\ b.saved = rule
         /\ b.var = c.var /\ b.passed = c.passed /\ b.env = c.env /\ b.pending = c.pending
  BY <1>1, <1>2, WithSaved
<1> QED BY <1>1, <1>3, <1>4

\* The call on top of the run gives way to another one.
LEMMA FollowsSwap ==
  ASSUME NEW r \in Seq(CallSet), NEW q \in Seq(CallSet), NEW s \in Seq(CallSet),
         NEW ip \in Seq(VarNames), NEW top \in Nat, NEW n \in Int, NEW v, NEW a, NEW b, NEW w,
         Len(q) > 0, Len(r) = Len(q) + 1, Alike(q, r, Len(q)), r[Len(r)] = a,
         Follows(top, ip, n, v, r), a.of # "global", Own(a) <= top,
         w = (IF a.kind \in {"template", "foreach"} THEN a.saved ELSE v),
         Len(s) = Len(q) + 1, Alike(q, s, Len(q)), s[Len(s)] = b, b.of # "global",
         MayCall(q, b, w)
  PROVE  Follows((top - Own(a)) + Own(b), ip, (n - Apply(a)) + Apply(b), RuleWith(q, b, w), s)
<1>1. Follows(top - Own(a), ip, n - Apply(a), w, q)
  <2>1. LET u == IF a.kind \in {"template", "foreach"} THEN a.saved ELSE v
            jp == IF a.of = "global" /\ Len(ip) > 1 THEN Tail(ip) ELSE ip
        IN Follows(top - Own(a), jp, n - Apply(a), u, q)
    BY FollowsPop
  <2> QED BY <2>1
<1> DEFINE t == top - Own(a)
           m == n - Apply(a)
<1>2. t \in Nat /\ m \in Int
  BY DEF Own, Apply
<1>3. Follows(t, ip, m, w, q)
  BY <1>1
<1>4. InProcess(q, b, ip) = ip
  BY DEF InProcess
<1> HIDE DEF t, m
<1>5. Follows(t + Own(b), InProcess(q, b, ip), m + Apply(b), RuleWith(q, b, w), s)
  BY <1>2, <1>3, FollowsPush
<1> QED BY <1>4, <1>5 DEF t, m

\* What stays of the invariant once the stacks are known to follow the calls.
LEMMA StepFollows ==
  ASSUME StacksInv, run' \in Seq(CallSet), frames' \in Seq(FrameSet), inProcess' \in Seq(VarNames),
         nested' \in Int, rule' \in Nat, error' = error, UNCHANGED sheetVars,
         Follows(Len(frames'), inProcess', nested', rule', run')
  PROVE  StacksInv'
<1>1. Globals' = Globals
  BY DEF Globals, sheetVars, tables
<1> QED BY <1>1 DEF StacksInv, TypeOK, Top

\* The calls but the last one, with the last of these changed in what it sees.
LEMMA Lower_ ==
  ASSUME StacksInv, Len(run) > 1, NEW b \in CallSet, Like(Below, b)
  PROVE  LET r == Append(SubSeq(run, 1, Len(run) - 2), b)
         IN /\ r \in Seq(CallSet) /\ Len(r) = Len(run) - 1 /\ Alike(r, run, Len(r))
            /\ r[Len(r)] = b
<1> DEFINE n == Len(run)
           q == SubSeq(run, 1, n - 2)
           r == Append(q, b)
<1>1. run \in Seq(CallSet) /\ n \in Nat /\ n - 2 \in 0 .. Len(run)
  BY DEF StacksInv, TypeOK
<1>2. q \in Seq(CallSet) /\ Len(q) = n - 2 /\ \A i \in 1 .. n - 2 : q[i] = run[i]
  BY <1>1, Fronts
<1>3. r \in Seq(CallSet) /\ Len(r) = n - 1 /\ r[n - 1] = b /\ \A i \in 1 .. n - 2 : r[i] = q[i]
  <2> HIDE DEF q, n
  <2>1. /\ r \in Seq(CallSet) /\ Len(r) = Len(q) + 1 /\ r[Len(q) + 1] = b
        /\ \A i \in 1 .. Len(q) : r[i] = q[i]
    BY <1>2, Appending
  <2>2. (n - 2) + 1 = n - 1
    BY <1>1
  <2> QED BY <2>1, <2>2, <1>2
<1>4. Alike(r, run, n - 1)
  <2>1. \A i \in 1 .. n - 1 : i \in 1 .. n - 2 \/ i = n - 1
    BY <1>1
  <2>2. Like(run[n - 1], b)
    BY DEF Below
  <2> HIDE DEF q, r, n
  <2>3. ASSUME NEW i \in 1 .. n - 1 PROVE Like(r[i], run[i])
    <3>1. CASE i \in 1 .. n - 2
      BY <3>1, <1>2, <1>3 DEF Like
    <3>2. CASE i = n - 1
      BY <3>2, <1>3, <2>2 DEF Like
    <3> QED BY <3>1, <3>2, <2>1
  <2> QED BY <2>3 DEF Alike, Like
<1> HIDE DEF q, n
<1>5. r[Len(r)] = b /\ Len(r) = Len(run) - 1 /\ Alike(r, run, Len(r)) /\ r \in Seq(CallSet)
  BY <1>3, <1>4 DEF n
<1> QED BY <1>5 DEF q, n

\* The call on top changed in what it sees or passes.
LEMMA Topmost ==
  ASSUME StacksInv, Going, NEW b \in CallSet, Like(Act, b)
  PROVE  LET r == Replaced(run, b)
         IN r \in Seq(CallSet) /\ Len(r) = Len(run) /\ Alike(run, r, Len(run))
<1>1. run \in Seq(CallSet) /\ Len(run) \in Nat \ {0} /\ Act = run[Len(run)] /\ Len(run) > 0
  <2>1. Len(run) \in Nat \ {0} /\ Act = run[Len(run)]
    BY Going_
  <2>2. run \in Seq(CallSet)
    BY DEF StacksInv, TypeOK
  <2> QED BY <2>1, <2>2
<1>2. /\ Replaced(run, b) \in Seq(CallSet) /\ Len(Replaced(run, b)) = Len(run)
      /\ Replaced(run, b)[Len(run)] = b
      /\ \A i \in 1 .. Len(run) - 1 : Replaced(run, b)[i] = run[i]
  BY <1>1, Replacing
<1>3. ASSUME NEW i \in 1 .. Len(run) PROVE Like(run[i], Replaced(run, b)[i])
  <2>1. i \in 1 .. Len(run) - 1 \/ i = Len(run)
    BY <1>1
  <2> QED BY <2>1, <1>1, <1>2 DEF Like
<1> QED BY <1>2, <1>3 DEF Alike, Like

\* The calls but the last one.
LEMMA Fewer ==
  ASSUME StacksInv, Len(run) > 1
  PROVE  LET r == Front(run)
         IN /\ r \in Seq(CallSet) /\ Len(r) = Len(run) - 1 /\ Alike(r, run, Len(r))
            /\ r[Len(r)] = Below
<1>1. run \in Seq(CallSet) /\ Len(run) \in Nat /\ Len(run) - 1 \in 0 .. Len(run)
  BY DEF StacksInv, TypeOK
<1>2. Front(run) = SubSeq(run, 1, Len(run) - 1)
  BY <1>1 DEF Front
<1>3. /\ Front(run) \in Seq(CallSet) /\ Len(Front(run)) = Len(run) - 1
      /\ \A i \in 1 .. Len(run) - 1 : Front(run)[i] = run[i]
  BY <1>1, <1>2, Fronts
<1>4. Len(run) - 1 \in 1 .. Len(run) - 1
  BY <1>1
<1> QED BY <1>3, <1>4 DEF Alike, Below

(* --------------------------- instructions that push ------------------------ *)
\* A call that neither sets a rule nor evaluates a top-level variable.
LEMMA PlainCall ==
  ASSUME StacksInv, Going, NEW kind \in {"scope", "params", "apply"},
         Act.kind \in Body \/ (kind = "params" /\ Act.kind = "apply"),
         NEW a, a = Inner(kind)
  PROVE  /\ a \in CallSet /\ MayCall(run, a, rule)
         /\ InProcess(run, a, inProcess) = inProcess /\ RuleWith(run, a, rule) = rule
         /\ Apply(a) = IF kind = "apply" THEN 1 ELSE 0
         /\ Own(a) = IF kind = "apply" THEN 0 ELSE 1
<1>1. Bare(a, kind, Act.env, Act.pending)
  <2>1. kind \in Kinds
    BY DEF Kinds
  <2> QED BY <2>1, InnerIs
<1>2. a \in CallSet /\ a.kind = kind /\ a.of = ""
  BY <1>1 DEF Bare
<1>3. Act = run[Len(run)] /\ Len(run) > 1 /\ Len(run) + 1 # 2
  <2>1. Act = run[Len(run)] /\ Len(run) > 1 /\ Len(run) \in Nat
    BY Going_ DEF Body
  <2> QED BY <2>1
<1>4. MayCall(run, a, rule)
  <2>1. Above(a, Act, Len(run) + 1, run[1])
    BY <1>2, <1>3 DEF Above, Body
  <2> QED BY <1>2, <1>3, <2>1 DEF MayCall
<1>5. /\ InProcess(run, a, inProcess) = inProcess /\ RuleWith(run, a, rule) = rule
      /\ Apply(a) = IF kind = "apply" THEN 1 ELSE 0
      /\ Own(a) = IF kind = "apply" THEN 0 ELSE 1
  BY <1>2 DEF InProcess, Apply, Own, Owns, RuleWith, Sets
<1> QED BY <1>2, <1>4, <1>5

\* A scope of variables begins.
LEMMA EnterKeeps ==
  ASSUME StacksInv, Enter, UNCHANGED sheetVars PROVE StacksInv'
<1> DEFINE k == "scope"
           a == Inner(k)
<1>0. k \in {"scope", "params", "apply"} /\ k = "scope"
  OBVIOUS
<1> HIDE DEF k
<1>1. Going /\ Act.kind \in Body /\ run' = Append(run, a) /\ frames' = Pushed(0)
      /\ UNCHANGED <<inProcess, nested, rule, error>>
  BY DEF Enter, Instruction, Executing, k
<1>2. /\ a \in CallSet /\ MayCall(run, a, rule)
      /\ InProcess(run, a, inProcess) = inProcess /\ RuleWith(run, a, rule) = rule
      /\ Apply(a) = 0 /\ Own(a) = 1
  BY <1>0, <1>1, PlainCall
<1> HIDE DEF a
<1>3. frames' \in Seq(FrameSet) /\ Len(frames') = Top + 1
  BY <1>1, Frames
<1>4. nested' = nested + Apply(a)
  BY <1>1, <1>2 DEF StacksInv, TypeOK
<1>5. /\ inProcess' = InProcess(run, a, inProcess) /\ rule' = RuleWith(run, a, rule)
      /\ Len(frames') = Top + Own(a) /\ error' = error
  BY <1>1, <1>2, <1>3
<1> QED BY <1>1, <1>2, <1>3, <1>4, <1>5, StepPush

\* xsl:call-template begins.
LEMMA CallTemplateKeeps ==
  ASSUME StacksInv, CallTemplate, UNCHANGED sheetVars PROVE StacksInv'
<1> DEFINE k == "params"
           a == Inner(k)
<1>0. k \in {"scope", "params", "apply"} /\ k = "params"
  OBVIOUS
<1> HIDE DEF k
<1>1. Going /\ Act.kind \in Body /\ run' = Append(run, a) /\ frames' = Pushed(2)
      /\ UNCHANGED <<inProcess, nested, rule, error>>
  BY DEF CallTemplate, Instruction, Executing, k
<1>2. /\ a \in CallSet /\ MayCall(run, a, rule)
      /\ InProcess(run, a, inProcess) = inProcess /\ RuleWith(run, a, rule) = rule
      /\ Apply(a) = 0 /\ Own(a) = 1
  BY <1>0, <1>1, PlainCall
<1> HIDE DEF a
<1>3. frames' \in Seq(FrameSet) /\ Len(frames') = Top + 1
  BY <1>1, Frames
<1>4. nested' = nested + Apply(a)
  BY <1>1, <1>2 DEF StacksInv, TypeOK
<1>5. /\ inProcess' = InProcess(run, a, inProcess) /\ rule' = RuleWith(run, a, rule)
      /\ Len(frames') = Top + Own(a) /\ error' = error
  BY <1>1, <1>2, <1>3
<1> QED BY <1>1, <1>2, <1>3, <1>4, <1>5, StepPush

\* xsl:apply-templates begins, or is nested too deep.
LEMMA ApplyTemplatesKeeps ==
  ASSUME StacksInv, ApplyTemplates, UNCHANGED sheetVars PROVE StacksInv'
<1> DEFINE k == "apply"
           a == Inner(k)
<1>0. k \in {"scope", "params", "apply"} /\ k = "apply"
  OBVIOUS
<1> HIDE DEF k
<1>1. Going /\ Act.kind \in Body
  BY DEF ApplyTemplates, Instruction, Executing
<1>2. CASE nested > MaxNested
  BY <1>1, <1>2, RaiseKeeps DEF ApplyTemplates
<1>3. CASE ~(nested > MaxNested)
  <2>1. run' = Append(run, a) /\ nested' = nested + 1
        /\ UNCHANGED <<frames, inProcess, rule, error>>
    BY <1>3 DEF ApplyTemplates, k
  <2>2. /\ a \in CallSet /\ MayCall(run, a, rule)
        /\ InProcess(run, a, inProcess) = inProcess /\ RuleWith(run, a, rule) = rule
        /\ Apply(a) = 1 /\ Own(a) = 0
    BY <1>0, <1>1, PlainCall
  <2> HIDE DEF a
  <2>3. frames' \in Seq(FrameSet) /\ Len(frames') = Top /\ Top \in Nat
    BY <2>1 DEF StacksInv, TypeOK, Top
  <2>4. nested' = nested + Apply(a)
    BY <2>1, <2>2
  <2>5. /\ inProcess' = InProcess(run, a, inProcess) /\ rule' = RuleWith(run, a, rule)
        /\ Len(frames') = Top + Own(a) /\ error' = error
    BY <2>1, <2>2, <2>3
  <2> QED BY <1>1, <2>1, <2>2, <2>3, <2>4, <2>5, StepPush
<1> QED BY <1>2, <1>3

\* A call that sets the rule has kept the one of its caller.
LEMMA ForEachKeeps ==
  ASSUME StacksInv, ForEach, UNCHANGED sheetVars PROVE StacksInv'
<1> DEFINE k == "foreach"
           c == Inner(k)
           a == [c EXCEPT !.saved = rule]
<1>1. Going /\ Act.kind \in Body /\ run' = Append(run, a) /\ frames' = Pushed(0) /\ rule' = 0
      /\ UNCHANGED <<inProcess, nested, error>>
  BY DEF ForEach, Instruction, Executing
<1>2. k \in Kinds /\ k = "foreach"
  BY DEF Kinds
<1> HIDE DEF k
<1>3. Bare(c, k, Act.env, Act.pending)
  BY <1>1, <1>2, InnerIs
<1>4. c \in CallSet /\ c.kind = "foreach" /\ c.of = "" /\ rule \in Nat /\ nested \in Int
  BY <1>2, <1>3 DEF Bare, StacksInv, TypeOK
<1> HIDE DEF c
<1>5. a \in CallSet /\ a.kind = "foreach" /\ a.of = "" /\ a.saved = rule
  <2>1. LET b == [c EXCEPT !.saved = rule]
        IN /\ b \in CallSet /\ b.kind = c.kind /\ b.of = c.of /\ b.saved = rule
           /\ b.var = c.var /\ b.passed = c.passed /\ b.env = c.env /\ b.pending = c.pending
    BY <1>4, WithSaved
  <2> QED BY <2>1, <1>4
<1> HIDE DEF a
<1>6. Act = run[Len(run)] /\ Len(run) > 1 /\ Len(run) + 1 # 2
  <2>1. Act = run[Len(run)] /\ Len(run) > 1 /\ Len(run) \in Nat
    BY <1>1, Going_ DEF Body
  <2> QED BY <2>1
<1>7. MayCall(run, a, rule)
  <2>1. Above(a, Act, Len(run) + 1, run[1])
    BY <1>1, <1>5, <1>6 DEF Above, Body
  <2> QED BY <1>5, <1>6, <2>1 DEF MayCall
<1>8. InProcess(run, a, inProcess) = inProcess /\ RuleWith(run, a, rule) = 0
  BY <1>5 DEF InProcess, RuleWith, Sets
<1>13. Apply(a) = 0 /\ Own(a) = 1
  BY <1>5 DEF Apply, Own, Owns
<1>9. frames' \in Seq(FrameSet) /\ Len(frames') = Top + 1
  BY <1>1, Frames
<1>10. nested' = nested + Apply(a)
  <2>1. nested' = nested
    BY <1>1
  <2>2. nested \in Int
    BY <1>4
  <2> QED BY <2>1, <2>2, <1>13
<1>11. rule' = RuleWith(run, a, rule)
  BY <1>1, <1>8
<1>12. inProcess' = InProcess(run, a, inProcess) /\ Len(frames') = Top + Own(a) /\ error' = error
  BY <1>1, <1>8, <1>9, <1>13
<1> QED BY <1>1, <1>5, <1>7, <1>9, <1>10, <1>11, <1>12, StepPush

\* xsl:apply-imports begins, or has no rule.
LEMMA ApplyImportsKeeps ==
  ASSUME StacksInv, ApplyImports, UNCHANGED sheetVars PROVE StacksInv'
<1> DEFINE c == Template({})
           of == "imports"
           a == [c EXCEPT !.of = of]
<1>1. Going /\ Act.kind \in Body
  BY DEF ApplyImports, Instruction, Executing
<1>2. CASE rule = 0
  BY <1>1, <1>2, RaiseKeeps DEF ApplyImports
<1>3. CASE rule # 0
  <2>1. /\ run' = Append(run, a) /\ frames' = Pushed(1) /\ rule' = Len(run) + 1
        /\ UNCHANGED <<inProcess, nested, error>>
    BY <1>3 DEF ApplyImports
  <2>2. of = "imports" /\ of \in {"", "again", "imports", "global", "local"}
    OBVIOUS
  <2> HIDE DEF of
  <2>3. c \in CallSet /\ c.kind = "template" /\ c.saved = rule
    BY TemplateIs
  <2> HIDE DEF c
  <2>4. a \in CallSet /\ a.kind = "template" /\ a.of = of /\ a.saved = rule
    BY <2>2, <2>3, WithOf
  <2>5. a.of = "imports"
    BY <2>2, <2>4
  <2> HIDE DEF a
  <2>6. Act = run[Len(run)] /\ Len(run) > 1 /\ Len(run) + 1 # 2
    <3>1. Act = run[Len(run)] /\ Len(run) > 1 /\ Len(run) \in Nat
      BY <1>1, Going_ DEF Body
    <3> QED BY <3>1
  <2>7. MayCall(run, a, rule)
    <3>1. Above(a, Act, Len(run) + 1, run[1])
      BY <1>1, <2>4, <2>5, <2>6 DEF Above, Body
    <3> QED BY <1>3, <2>4, <2>5, <2>6, <3>1 DEF MayCall
  <2>8. InProcess(run, a, inProcess) = inProcess /\ RuleWith(run, a, rule) = Len(run) + 1
    BY <2>4, <2>5 DEF InProcess, RuleWith, Sets
  <2>9. Apply(a) = 0 /\ Own(a) = 1
    BY <2>4 DEF Apply, Own, Owns
  <2>10. nested' = nested + Apply(a)
    <3>1. nested' = nested
      BY <2>1
    <3>2. nested \in Int
      BY DEF StacksInv, TypeOK
    <3> QED BY <3>1, <3>2, <2>9
  <2>11. frames' \in Seq(FrameSet) /\ Len(frames') = Top + Own(a)
    BY <1>1, <2>1, <2>9, Frames
  <2>12. inProcess' = InProcess(run, a, inProcess) /\ rule' = RuleWith(run, a, rule) /\ error' = error
    BY <2>1, <2>8
  <2> QED BY <1>1, <2>1, <2>4, <2>7, <2>10, <2>11, <2>12, StepPush
<1> QED BY <1>2, <1>3

(* ---------------------------- calls that return ---------------------------- *)
LEMMA EndOfApplyKeeps ==
  ASSUME StacksInv, EndOfApply, UNCHANGED sheetVars PROVE StacksInv'
<1>1. /\ Going /\ Act.kind \in {"apply", "applied"} /\ run' = Front(run) /\ nested' = nested - 1
      /\ frames' = IF Act.kind = "applied" THEN Front(frames) ELSE frames
      /\ UNCHANGED <<inProcess, rule, error>>
  BY DEF EndOfApply
<1>2. /\ Len(run) > 1 /\ Nests(run, Len(run)) /\ Act = run[Len(run)] /\ Act \in CallSet
      /\ Top \in Nat
  BY <1>1, Going_
<1>3. Act.of # "global" /\ Act.kind \notin {"template", "foreach"}
  <2>1. Act.kind \notin {"select", "content"} => Act.of \in {"", "again", "imports"}
    BY <1>2 DEF Nests, Above
  <2> QED BY <1>1, <2>1
<1>4. Apply(Act) = 1
  BY <1>1 DEF Apply
<1>5. Own(Act) = IF Act.kind = "applied" THEN 1 ELSE 0
  BY <1>1 DEF Own, Owns
<1>6. run' \in Seq(CallSet) /\ Len(run') = Len(run) - 1 /\ Alike(run', run, Len(run'))
  BY <1>1, <1>2, Fewer
<1>7. frames' \in Seq(FrameSet) /\ Len(frames') = Top - Own(Act)
  <2>1. CASE Act.kind = "applied"
    BY <2>1, <1>1, <1>5, Frames
  <2>2. CASE Act.kind = "apply"
    <3>1. frames' = frames /\ Own(Act) = 0 /\ frames \in Seq(FrameSet) /\ Len(frames) = Top
      BY <2>2, <1>1, <1>5 DEF StacksInv, TypeOK, Top
    <3> QED BY <3>1, <1>2
  <2> QED BY <2>1, <2>2, <1>1
<1>8. nested' = nested - Apply(Act)
  BY <1>1, <1>4
<1>9. /\ inProcess' = (IF Act.of = "global" /\ Len(inProcess) > 1 THEN Tail(inProcess) ELSE inProcess)
      /\ rule' = (IF Act.kind \in {"template", "foreach"} THEN Act.saved ELSE rule) /\ error' = error
  BY <1>1, <1>3
<1> QED BY <1>2, <1>6, <1>7, <1>8, <1>9, StepPop

\* The transformation ends.
LEMMA FinishKeeps ==
  ASSUME StacksInv, Finish, UNCHANGED sheetVars PROVE StacksInv'
<1>1. /\ Going /\ Act.kind = "main" /\ frames' = Front(frames) /\ run' = <<>>
      /\ UNCHANGED <<inProcess, nested, rule, error>>
  BY DEF Finish
<1>2. Len(run) = 1 /\ run[1].kind = "main" /\ Top \in Nat
  <2>1. Len(run) \in Nat \ {0} /\ ~(Len(run) > 1) /\ Act = run[Len(run)] /\ Top \in Nat
    BY <1>1, Going_
  <2>2. Len(run) = 1
    BY <2>1
  <2> QED BY <1>1, <2>1, <2>2
<1>3. Top = Depth(run, 1) /\ IsRule(run, 1, rule)
  BY <1>2 DEF StacksInv, Follows
<1>4. OwnedTo(run, 1) = {1}
  BY <1>2 DEF OwnedTo, Owns
<1>5. Top = 1
  BY <1>3, <1>4, FS_Singleton DEF Depth
<1>6. rule = 0
  BY <1>3 DEF IsRule
<1>7. frames' \in Seq(FrameSet) /\ Len(frames') = 0
  <2>1. frames' \in Seq(FrameSet) /\ Len(frames') = Top - 1
    BY <1>1, Frames
  <2> QED BY <2>1, <1>5
<1>8. Follows(Len(frames'), inProcess', nested', rule', run')
  <2>1. Follows(0, inProcess, nested, 0, <<>>)
    BY NothingGoingOn
  <2>2. inProcess' = inProcess /\ nested' = nested /\ rule' = 0 /\ error' = error
    BY <1>1, <1>6
  <2> QED BY <2>1, <2>2, <1>1, <1>7
<1>9. /\ run' \in Seq(CallSet) /\ inProcess' \in Seq(VarNames) /\ nested' \in Int /\ rule' \in Nat
      /\ error' = error
  BY <1>1 DEF StacksInv, TypeOK
<1> QED BY <1>7, <1>8, <1>9, StepFollows

\* The call on top gives way to another one.
LEMMA StepSwap ==
  ASSUME StacksInv, Len(run) > 1, Act.of # "global",
         NEW q \in Seq(CallSet), Len(q) = Len(run) - 1, Alike(q, run, Len(q)),
         NEW b \in CallSet, b.of # "global",
         NEW w, w = (IF Act.kind \in {"template", "foreach"} THEN Act.saved ELSE rule),
         MayCall(q, b, w), run' \in Seq(CallSet), Len(run') = Len(q) + 1,
         Alike(q, run', Len(q)), run'[Len(run')] = b,
         nested' = (nested - Apply(Act)) + Apply(b), rule' = RuleWith(q, b, w), rule' \in Nat,
         frames' \in Seq(FrameSet), Len(frames') = (Top - Own(Act)) + Own(b),
         UNCHANGED <<inProcess, error>>, UNCHANGED sheetVars
  PROVE  StacksInv'
<1>1. /\ run \in Seq(CallSet) /\ inProcess \in Seq(VarNames) /\ nested \in Int
      /\ Follows(Top, inProcess, nested, rule, run)
  BY DEF StacksInv, TypeOK
<1>2. Len(run) \in Nat /\ Len(q) > 0 /\ Len(run) = Len(q) + 1 /\ Going /\ Act = run[Len(run)]
  BY <1>1 DEF Going, Act
<1>3. Top \in Nat /\ Own(Act) <= Top
  <2>1. Top \in Nat \ {0}
    BY <1>2, Going_
  <2> QED BY <2>1 DEF Own
<1>4. Follows((Top - Own(Act)) + Own(b), inProcess, (nested - Apply(Act)) + Apply(b),
              RuleWith(q, b, w), run')
  <2> HIDE DEF Act, Top
  <2> QED BY <1>1, <1>2, <1>3, FollowsSwap
<1>5. Follows(Len(frames'), inProcess', nested', rule', run')
  BY <1>4
<1>6. inProcess' \in Seq(VarNames)
  BY <1>1
<1>7. nested' \in Int
  BY <1>1 DEF Apply
<1> QED BY <1>5, <1>6, <1>7, StepFollows

\* The parameters are known: their frame becomes the one of the template.
LEMMA StartOfTemplateKeeps ==
  ASSUME StacksInv, StartOfTemplate, UNCHANGED sheetVars PROVE StacksInv'
<1> DEFINE b == Template(Act.passed)
           f == [Frame EXCEPT !.stop = 1, !.polluted = FALSE]
<1>1. /\ Going /\ Act.kind = "params" /\ frames' = Replaced(frames, f)
      /\ UNCHANGED <<inProcess, nested, error>>
  BY DEF StartOfTemplate
<1>2. /\ Len(run) > 1 /\ Nests(run, Len(run)) /\ Act = run[Len(run)] /\ Act \in CallSet
      /\ Top \in Nat \ {0} /\ Frame \in FrameSet /\ Len(run) \in Nat
  BY <1>1, Going_
<1>3. Act.of # "global" /\ Below.kind \in Body \cup {"apply"} /\ Own(Act) = 1 /\ Apply(Act) = 0
  <2>1. Above(Act, Below, Len(run), run[1])
    BY <1>2 DEF Nests, Below
  <2> QED BY <1>1, <2>1 DEF Above, Own, Apply, Owns
<1>4. b \in CallSet /\ b.kind = "template" /\ b.of = "" /\ b.saved = rule
  <2>1. Act.passed \in SUBSET VarNames
    BY <1>2 DEF CallSet
  <2> QED BY <2>1, TemplateIs
<1> HIDE DEF b
<1>5. frames' \in Seq(FrameSet) /\ Len(frames') = Top
  <2>1. f \in FrameSet
    <3> DEFINE g(p) == [vars |-> Frame.vars, stop |-> 1, polluted |-> p]
    <3>1. ASSUME NEW p PROVE [Frame EXCEPT !.stop = 1, !.polluted = p] = g(p)
      <4> DEFINE one == 1
      <4>1. [Frame EXCEPT !.stop = one, !.polluted = p]
              = [vars |-> Frame.vars, stop |-> one, polluted |-> p]
        <5> HIDE DEF one, Frame
        <5> QED BY <1>2, FrameStopPolluted
      <4> QED BY <4>1
    <3>2. f = g(FALSE)
      BY <3>1, Zenon
    <3>3. Frame.vars \in Seq(VarSet)
      BY <1>2 DEF FrameSet
    <3>4. g(FALSE) \in FrameSet
      <4> HIDE DEF Frame
      <4> QED BY <3>3 DEF FrameSet
    <3> HIDE DEF f, g
    <3> QED BY <3>2, <3>4
  <2>2. frames \in Seq(FrameSet) /\ Len(frames) = Top /\ Len(frames) > 0
    BY <1>2 DEF StacksInv, TypeOK, Top
  <2> HIDE DEF f
  <2> QED BY <1>1, <2>1, <2>2, Replacing
<1>6. b.of # "global" /\ Own(b) = 1 /\ Apply(b) = 0
  BY <1>4 DEF Own, Apply, Owns
<1>7. rule \in Nat /\ nested \in Int /\ run \in Seq(CallSet)
  BY DEF StacksInv, TypeOK
<1>8. nested' = (nested - Apply(Act)) + Apply(b)
  <2>1. nested' = nested
    BY <1>1
  <2> HIDE DEF Act
  <2> QED BY <2>1, <1>3, <1>6, <1>7
<1>9. Len(frames') = (Top - Own(Act)) + Own(b)
  <2> HIDE DEF Act, Top
  <2> QED BY <1>2, <1>3, <1>5, <1>6
<1>10. rule = (IF Act.kind \in {"template", "foreach"} THEN Act.saved ELSE rule)
  BY <1>1
<1>11. CASE Below.kind # "apply"
  <2> DEFINE q == Front(run)
  <2>1. run' = Replaced(run, b) /\ rule' = rule
    BY <1>11 DEF StartOfTemplate, b
  <2>2. q \in Seq(CallSet) /\ Len(q) = Len(run) - 1 /\ Alike(q, run, Len(q)) /\ q[Len(q)] = Below
    BY <1>2, Fewer
  <2>3. /\ run' \in Seq(CallSet) /\ Len(run') = Len(run) /\ run'[Len(run)] = b
        /\ \A i \in 1 .. Len(run) - 1 : run'[i] = run[i]
    <3>0. b \in CallSet
      BY <1>4
    <3>1. Len(run) > 0 /\ run \in Seq(CallSet) /\ b \in CallSet
      BY <3>0, <1>2, <1>7
    <3> HIDE DEF q, f
    <3>2. /\ Replaced(run, b) \in Seq(CallSet) /\ Len(Replaced(run, b)) = Len(run)
          /\ Replaced(run, b)[Len(run)] = b
          /\ \A i \in 1 .. Len(run) - 1 : Replaced(run, b)[i] = run[i]
      BY <3>1, Replacing
    <3> QED BY <2>1, <3>2
  <2> HIDE DEF q
  <2>4. Alike(q, run', Len(q)) /\ Len(run') = Len(q) + 1 /\ run'[Len(run')] = b
    <3>1. Len(q) + 1 = Len(run)
      BY <2>2, <1>2
    <3>2. Alike(q, run', Len(q))
      BY <2>2, <2>3 DEF Alike
    <3> QED BY <3>1, <3>2, <2>3
  <2>5. MayCall(q, b, rule)
    <3>1. Above(b, Below, Len(q) + 1, q[1])
      <4>1. Above(Act, Below, Len(run), run[1])
        BY <1>2 DEF Nests, Below
      <4>2. Len(q) + 1 = Len(run) /\ q[1].kind = run[1].kind
        <5>1. Len(q) + 1 = Len(run) /\ 1 \in 1 .. Len(q)
          BY <2>2, <1>2
        <5> QED BY <5>1, <2>2 DEF Alike
      <4> HIDE DEF Act, Below
      <4> QED BY <4>1, <4>2, <1>1, <1>3, <1>4 DEF Above, Body
    <3> QED BY <3>1, <2>2, <1>4 DEF MayCall
  <2>6. rule' = RuleWith(q, b, rule) /\ rule' \in Nat
    <3>1. RuleWith(q, b, rule) = rule
      BY <2>2, <1>4, <1>11 DEF RuleWith, Sets
    <3> QED BY <3>1, <2>1, <1>7
  <2>7. UNCHANGED <<inProcess, error>>
    BY <1>1
  <2> HIDE DEF Act
  <2> QED BY <1>2, <1>3, <1>4, <1>5, <1>6, <1>8, <1>9, <1>10, <2>2, <2>3, <2>4, <2>5, <2>6, <2>7, StepSwap
<1>12. CASE Below.kind = "apply"
  <2> DEFINE c == [Below EXCEPT !.passed = Act.passed]
             q == Append(SubSeq(run, 1, Len(run) - 2), c)
  <2>1. run' = q \o <<b>> /\ rule' = Len(run)
    BY <1>12 DEF StartOfTemplate, b
  <2>2. Below \in CallSet /\ Act.passed \in SUBSET VarNames
    <3>1. Len(run) - 1 \in 1 .. Len(run)
      BY <1>2
    <3>2. Below \in CallSet
      BY <3>1, <1>7 DEF Below
    <3>3. Act.passed \in SUBSET VarNames
      <4> HIDE DEF Act
      <4> QED BY <1>2 DEF CallSet
    <3> QED BY <3>2, <3>3
  <2>3. c \in CallSet /\ Like(Below, c)
    <3> DEFINE p == Act.passed
               d == Below
    <3> HIDE DEF p, d
    <3>1. LET e == [d EXCEPT !.passed = p]
          IN /\ e \in CallSet /\ Like(d, e) /\ e.passed = p /\ e.env = d.env
             /\ e.pending = d.pending
      BY <2>2, WithPassed DEF p, d
    <3> QED BY <3>1 DEF p, d
  <2> HIDE DEF c
  <2>4. q \in Seq(CallSet) /\ Len(q) = Len(run) - 1 /\ Alike(q, run, Len(q)) /\ q[Len(q)] = c
    BY <1>2, <2>3, Lower_
  <2> HIDE DEF q
  <2>5. run' = Append(q, b)
    <3> HIDE DEF f
    <3> QED BY <2>1, <2>4, <1>4, Appending
  <2>6. /\ run' \in Seq(CallSet) /\ Len(run') = Len(q) + 1 /\ run'[Len(run')] = b
        /\ Alike(q, run', Len(q))
    <3> HIDE DEF f
    <3>1. /\ Append(q, b) \in Seq(CallSet) /\ Len(Append(q, b)) = Len(q) + 1
          /\ Append(q, b)[Len(q) + 1] = b /\ \A i \in 1 .. Len(q) : Append(q, b)[i] = q[i]
      <4>1. q \in Seq(CallSet) /\ b \in CallSet
        BY <2>4, <1>4
      <4> QED BY <4>1, Appending
    <3> QED BY <2>5, <3>1 DEF Alike
  <2>7. MayCall(q, b, rule)
    <3>1. Above(b, c, Len(q) + 1, q[1])
      <4>1. Above(Act, Below, Len(run), run[1])
        BY <1>2 DEF Nests, Below
      <4>2. Len(q) + 1 = Len(run) /\ q[1].kind = run[1].kind /\ c.kind = "apply"
        <5>1. Len(q) + 1 = Len(run) /\ 1 \in 1 .. Len(q)
          BY <2>4, <1>2
        <5> QED BY <5>1, <2>3, <2>4, <1>12 DEF Alike, Like
      <4> HIDE DEF Act, Below
      <4> QED BY <4>1, <4>2, <1>1, <1>3, <1>4 DEF Above, Body
    <3> QED BY <3>1, <2>4, <1>4 DEF MayCall
  <2>8. rule' = RuleWith(q, b, rule) /\ rule' \in Nat
    <3>1. RuleWith(q, b, rule) = Len(q) + 1
      BY <2>3, <2>4, <1>4, <1>12 DEF RuleWith, Sets, Like
    <3>2. Len(q) + 1 = Len(run)
      BY <2>4, <1>2
    <3> QED BY <3>1, <3>2, <2>1, <1>2
  <2>9. UNCHANGED <<inProcess, error>>
    BY <1>1
  <2> HIDE DEF Act
  <2> QED BY <1>2, <1>3, <1>4, <1>5, <1>6, <1>8, <1>9, <1>10, <2>4, <2>6, <2>7, <2>8, <2>9, StepSwap
<1> QED BY <1>11, <1>12

\* xsl:apply-templates goes on to the next node.
LEMMA NextNodeKeeps ==
  ASSUME StacksInv, NextNode, UNCHANGED sheetVars PROVE StacksInv'
<1>1. Going /\ UNCHANGED <<inProcess, nested, error>>
  BY DEF NextNode
<1>2. CASE Act.kind = "apply"
  <2> DEFINE k == "params"
             a == Inner(k)
  <2>0. k \in {"scope", "params", "apply"} /\ k = "params"
    OBVIOUS
  <2>1. run' = Append(run, a) /\ frames' = Pushed(2) /\ rule' = rule
    BY <1>2 DEF NextNode
  <2> HIDE DEF k
  <2>2. /\ a \in CallSet /\ MayCall(run, a, rule)
        /\ InProcess(run, a, inProcess) = inProcess /\ RuleWith(run, a, rule) = rule
        /\ Apply(a) = 0 /\ Own(a) = 1
    BY <2>0, <1>1, <1>2, PlainCall
  <2> HIDE DEF a
  <2>3. frames' \in Seq(FrameSet) /\ Len(frames') = Top + 1
    BY <1>1, <2>1, Frames
  <2>4. nested' = nested + Apply(a)
    BY <1>1, <2>2 DEF StacksInv, TypeOK
  <2>5. /\ inProcess' = InProcess(run, a, inProcess) /\ rule' = RuleWith(run, a, rule)
        /\ Len(frames') = Top + Own(a) /\ error' = error
    BY <1>1, <2>1, <2>2, <2>3
  <2> QED BY <1>1, <2>1, <2>2, <2>3, <2>4, <2>5, StepPush
<1>3. CASE Act.kind # "apply"
  <2> DEFINE k == "apply"
             b == [Act EXCEPT !.kind = k]
             a == Template(Act.passed)
             q == Front(run)
             s == Replaced(run, b)
  <2>1. /\ Act.kind = "applied" /\ run' = Append(s, a) /\ rule' = Len(run) + 1 /\ frames' = frames
    BY <1>3 DEF NextNode
  <2>2. /\ Len(run) > 1 /\ Nests(run, Len(run)) /\ Act = run[Len(run)] /\ Act \in CallSet
        /\ Top \in Nat \ {0} /\ Len(run) \in Nat
    BY <1>1, <2>1, Going_
  <2>3. k \in Kinds /\ k = "apply"
    BY DEF Kinds
  <2> HIDE DEF k
  <2>4. b \in CallSet /\ b.kind = "apply" /\ b.of = Act.of
    <3> HIDE DEF Act
    <3> QED BY <2>2, <2>3, WithKind
  <2>5. a \in CallSet /\ a.kind = "template" /\ a.of = "" /\ a.saved = rule
    <3>1. Act.passed \in SUBSET VarNames
      <4> HIDE DEF Act
      <4> QED BY <2>2 DEF CallSet
    <3> QED BY <3>1, TemplateIs
  <2> HIDE DEF a, b
  <2>6. Above(Act, Below, Len(run), run[1])
    BY <2>2 DEF Nests, Below
  <2>7. Act.of # "global" /\ b.of # "global" /\ Own(Act) = 1 /\ Apply(Act) = 1
        /\ Own(b) = 0 /\ Apply(b) = 1 /\ Own(a) = 1 /\ Apply(a) = 0
    <3>1. Act.of # "global"
      BY <2>1, <2>6 DEF Above
    <3>2. Own(Act) = 1 /\ Apply(Act) = 1
      BY <2>1 DEF Own, Apply, Owns
    <3>3. Own(b) = 0 /\ Apply(b) = 1
      BY <2>4 DEF Own, Apply, Owns
    <3>4. Own(a) = 1 /\ Apply(a) = 0
      BY <2>5 DEF Own, Apply, Owns
    <3> QED BY <3>1, <3>2, <3>3, <3>4, <2>4
  <2>8. q \in Seq(CallSet) /\ Len(q) = Len(run) - 1 /\ Alike(q, run, Len(q)) /\ q[Len(q)] = Below
    BY <2>2, Fewer
  <2>9. /\ run \in Seq(CallSet) /\ inProcess \in Seq(VarNames) /\ nested \in Int /\ rule \in Nat
        /\ Follows(Top, inProcess, nested, rule, run) /\ frames \in Seq(FrameSet)
    BY DEF StacksInv, TypeOK
  <2>10. /\ s \in Seq(CallSet) /\ Len(s) = Len(run) /\ s[Len(run)] = b
         /\ \A i \in 1 .. Len(run) - 1 : s[i] = run[i]
    <3>1. Len(run) > 0
      BY <2>2
    <3>2. b \in CallSet /\ run \in Seq(CallSet)
      BY <2>4, <2>9
    <3> QED BY <3>1, <3>2, Replacing
  <2> HIDE DEF q, s, Act
  <2>11. Len(q) > 0 /\ Len(run) = Len(q) + 1 /\ Len(s) = Len(q) + 1
    BY <2>2, <2>8, <2>10
  <2>12. Alike(q, s, Len(q)) /\ s[Len(s)] = b
    BY <2>8, <2>10 DEF Alike
  <2>13. MayCall(q, b, rule)
    <3>1. q[1].kind = run[1].kind
      BY <2>8, <2>11 DEF Alike
    <3>2. Above(b, Below, Len(q) + 1, q[1])
      <4> HIDE DEF Below
      <4> QED BY <3>1, <2>1, <2>4, <2>6, <2>11 DEF Above
    <3>3. b.of # "imports"
      BY <2>1, <2>4, <2>6 DEF Above
    <3> QED BY <3>2, <3>3, <2>4, <2>8 DEF MayCall
  <2>14. Follows((Top - Own(Act)) + Own(b), inProcess, (nested - Apply(Act)) + Apply(b),
                 RuleWith(q, b, rule), s)
    <3>1. rule = (IF Act.kind \in {"template", "foreach"} THEN Act.saved ELSE rule)
      BY <2>1
    <3>2. Top \in Nat /\ Own(Act) <= Top /\ run[Len(run)] = Act
      BY <2>2, <2>7
    <3> HIDE DEF Top
    <3> QED BY <3>1, <3>2, <2>7, <2>8, <2>9, <2>10, <2>11, <2>12, <2>13, FollowsSwap
  <2>15. RuleWith(q, b, rule) = rule
    <3>1. b.of # "imports"
      BY <2>1, <2>4, <2>6 DEF Above
    <3> QED BY <3>1, <2>4 DEF RuleWith, Sets
  <2>16. Top - 1 \in Nat /\ Follows(Top - 1, inProcess, nested, rule, s)
    <3>1. (Top - Own(Act)) + Own(b) = Top - 1 /\ Top - 1 \in Nat
      <4> HIDE DEF Top
      <4> QED BY <2>2, <2>7
    <3>2. (nested - Apply(Act)) + Apply(b) = nested
      BY <2>7, <2>9
    <3> QED BY <3>1, <3>2, <2>14, <2>15
  <2>17. /\ run' \in Seq(CallSet) /\ Len(run') = Len(s) + 1 /\ run'[Len(run')] = a
         /\ Alike(s, run', Len(s))
    <3>1. s \in Seq(CallSet) /\ a \in CallSet
      BY <2>5, <2>10
    <3>2. /\ Append(s, a) \in Seq(CallSet) /\ Len(Append(s, a)) = Len(s) + 1
          /\ Append(s, a)[Len(s) + 1] = a /\ \A i \in 1 .. Len(s) : Append(s, a)[i] = s[i]
      BY <3>1, Appending
    <3> QED BY <2>1, <3>2 DEF Alike
  <2>18. MayCall(s, a, rule)
    <3>1. Len(s) + 1 # 2 /\ s[Len(s)].kind = "apply"
      BY <2>2, <2>4, <2>10
    <3>2. Above(a, s[Len(s)], Len(s) + 1, s[1])
      BY <3>1, <2>5 DEF Above
    <3> QED BY <3>2, <2>5 DEF MayCall
  <2>19. /\ InProcess(s, a, inProcess) = inProcess /\ RuleWith(s, a, rule) = Len(run) + 1
    <3>1. s[Len(s)].kind = "apply"
      BY <2>4, <2>10
    <3> QED BY <3>1, <2>5, <2>10 DEF InProcess, RuleWith, Sets
  <2>20. Follows((Top - 1) + Own(a), InProcess(s, a, inProcess), nested + Apply(a),
                 RuleWith(s, a, rule), run')
    <3> DEFINE t == Top - 1
    <3>1. t \in Nat /\ Follows(t, inProcess, nested, rule, s) /\ Len(s) > 0
      BY <2>2, <2>10, <2>16
    <3> HIDE DEF t
    <3>2. Follows(t + Own(a), InProcess(s, a, inProcess), nested + Apply(a),
                  RuleWith(s, a, rule), run')
      BY <3>1, <2>9, <2>10, <2>17, <2>18, FollowsPush
    <3> QED BY <3>2 DEF t
  <2>21. Follows(Len(frames'), inProcess', nested', rule', run')
    <3>1. (Top - 1) + Own(a) = Top /\ nested + Apply(a) = nested
      <4> HIDE DEF Top
      <4> QED BY <2>2, <2>7, <2>9
    <3>2. Len(frames') = Top /\ inProcess' = inProcess /\ nested' = nested
      BY <2>1, <1>1 DEF Top
    <3> QED BY <3>1, <3>2, <2>1, <2>19, <2>20
  <2>22. /\ frames' \in Seq(FrameSet) /\ inProcess' \in Seq(VarNames) /\ nested' \in Int
         /\ rule' \in Nat /\ error' = error
    BY <2>1, <2>2, <2>9, <1>1
  <2> QED BY <2>17, <2>21, <2>22, StepFollows
<1> QED BY <1>2, <1>3

\* A template over apply-templates ends: the frame may serve the next node.
LEMMA AfterNodeIs ==
  ASSUME NEW c \in CallSet
  PROVE  /\ AfterNode(c) \in CallSet /\ AfterNode(c).of = "again"
         /\ AfterNode(c).kind = (IF Frame.polluted THEN "apply" ELSE "applied")
<1> DEFINE k == IF Frame.polluted THEN "apply" ELSE "applied"
           again == "again"
           d == [c EXCEPT !.kind = k]
           e == [d EXCEPT !.of = again]
<1>1. k \in Kinds /\ again \in {"", "again", "imports", "global", "local"}
  BY DEF Kinds
<1>2. AfterNode(c) = e
  <2>1. [c EXCEPT !.kind = k, !.of = again] = [[c EXCEPT !.kind = k] EXCEPT !.of = again]
    <3> HIDE DEF k, again
    <3> QED OBVIOUS
  <2> QED BY <2>1 DEF AfterNode
<1> HIDE DEF k, again
<1>3. d \in CallSet /\ d.kind = k
  BY <1>1, WithKind
<1> HIDE DEF d
<1>4. e \in CallSet /\ e.kind = d.kind /\ e.of = again
  BY <1>1, <1>3, WithOf
<1> QED BY <1>2, <1>3, <1>4 DEF k, again

\* A scope, an iteration or a template ends.
LEMMA LeaveKeeps ==
  ASSUME StacksInv, Leave, UNCHANGED sheetVars PROVE StacksInv'
<1>1. /\ Going /\ Act.kind \in {"template", "foreach", "scope"}
      /\ rule' = (IF Act.kind = "scope" THEN rule ELSE Act.saved)
      /\ UNCHANGED <<inProcess, nested, error>>
  BY DEF Leave, Executing, Body
<1>2. /\ Len(run) > 1 /\ Nests(run, Len(run)) /\ Act = run[Len(run)] /\ Act \in CallSet
      /\ Top \in Nat \ {0} /\ Len(run) \in Nat
  BY <1>1, Going_
<1>3. Above(Act, Below, Len(run), run[1])
  BY <1>2 DEF Nests, Below
<1>4. Act.of # "global" /\ Own(Act) = 1 /\ Apply(Act) = 0
  BY <1>1, <1>3 DEF Above, Own, Apply, Owns
<1>5. /\ run \in Seq(CallSet) /\ inProcess \in Seq(VarNames) /\ nested \in Int /\ rule \in Nat
      /\ Follows(Top, inProcess, nested, rule, run) /\ frames \in Seq(FrameSet)
  BY DEF StacksInv, TypeOK
<1> DEFINE r == Front(run)
<1>6. r \in Seq(CallSet) /\ Len(r) = Len(run) - 1 /\ Alike(r, run, Len(r)) /\ r[Len(r)] = Below
  BY <1>2, Fewer
<1>7. Front(frames) \in Seq(FrameSet) /\ Len(Front(frames)) = Top - 1
  BY <1>1, Frames
<1>8. CASE ~(Act.kind = "template" /\ Below.kind = "apply")
  <2>1. run' = r /\ frames' = Front(frames)
    BY <1>8 DEF Leave
  <2>2. nested' = nested - Apply(Act)
    <3> HIDE DEF Act
    <3> QED BY <1>1, <1>4, <1>5
  <2>3. Len(frames') = Top - Own(Act) /\ frames' \in Seq(FrameSet)
    BY <2>1, <1>4, <1>7
  <2>4. /\ inProcess' = (IF Act.of = "global" /\ Len(inProcess) > 1 THEN Tail(inProcess) ELSE inProcess)
        /\ error' = error
    BY <1>1, <1>4
  <2>5. rule' = (IF Act.kind \in {"template", "foreach"} THEN Act.saved ELSE rule)
    BY <1>1
  <2> HIDE DEF r
  <2> QED BY <1>2, <1>6, <2>1, <2>2, <2>3, <2>4, <2>5, StepPop
<1>9. CASE Act.kind = "template" /\ Below.kind = "apply"
  <2> DEFINE b == AfterNode(Below)
             q == SubSeq(run, 1, Len(run) - 2)
             w == Act.saved
  <2>1. run' = Append(q, b) /\ rule' = w
        /\ frames' = IF Frame.polluted THEN Front(frames) ELSE frames
    BY <1>1, <1>9 DEF Leave
  <2>2. Below \in CallSet /\ Len(run) > 2 /\ run[1].kind \in {"globals", "main"} /\ w \in Nat
    <3>1. Len(run) - 1 \in 1 .. Len(run)
      BY <1>2
    <3>2. Below \in CallSet
      BY <3>1, <1>5 DEF Below
    <3>3. run[1].kind \in {"globals", "main"}
      BY <1>1, Going_
    <3>4. Len(run) # 2
      <4>1. Len(run) = 2 => Len(run) - 1 = 1
        OBVIOUS
      <4>2. run[Len(run) - 1].kind = "apply"
        BY <1>9 DEF Below
      <4> QED BY <4>1, <4>2, <3>3
    <3>6. Len(run) > 2
      <4> DEFINE n == Len(run)
      <4>1. n \in Nat /\ n > 1 /\ n # 2
        BY <1>2, <3>4
      <4>2. n > 2
        <5> HIDE DEF n, b, q, w, r
        <5> QED BY <4>1
      <4> QED BY <4>2
    <3>5. w \in Nat
      <4> HIDE DEF Act
      <4> QED BY <1>2 DEF CallSet
    <3> QED BY <3>2, <3>3, <3>5, <3>6
  <2>3. b \in CallSet /\ b.of = "again" /\ b.kind = (IF Frame.polluted THEN "apply" ELSE "applied")
    BY <2>2, AfterNodeIs
  <2> HIDE DEF b, w, Act
  <2>4. q \in Seq(CallSet) /\ Len(q) = Len(run) - 2 /\ \A i \in 1 .. Len(run) - 2 : q[i] = run[i]
    <3>1. Len(run) - 2 \in 0 .. Len(run)
      BY <1>2
    <3> QED BY <3>1, <1>5, Fronts
  <2> HIDE DEF q
  <2>5. Len(q) > 0 /\ Len(r) = Len(q) + 1 /\ Len(run) = Len(r) + 1 /\ Len(r) > 0
    BY <2>2, <2>4, <1>2, <1>6
  <2>6. Alike(q, r, Len(q))
    BY <2>4, <2>5, <1>6 DEF Alike
  <2>7. /\ run' \in Seq(CallSet) /\ Len(run') = Len(q) + 1 /\ run'[Len(run')] = b
        /\ Alike(q, run', Len(q))
    <3>1. q \in Seq(CallSet) /\ b \in CallSet
      BY <2>3, <2>4
    <3>2. /\ Append(q, b) \in Seq(CallSet) /\ Len(Append(q, b)) = Len(q) + 1
          /\ Append(q, b)[Len(q) + 1] = b /\ \A i \in 1 .. Len(q) : Append(q, b)[i] = q[i]
      BY <3>1, Appending
    <3> QED BY <2>1, <3>2 DEF Alike
  <2>8. Nests(run, Len(r)) /\ run[Len(r)] = Below /\ run[Len(r) - 1] = q[Len(q)]
    <3>1. Len(r) \in 2 .. Len(run) /\ Len(r) - 1 = Len(run) - 2 /\ Len(run) - 2 \in 1 .. Len(run) - 2
      BY <2>2, <2>5, <1>2, <1>6
    <3>2. NestedRun(run)
      BY <1>5 DEF Follows
    <3> QED BY <3>1, <3>2, <2>4, <1>6 DEF NestedRun, Below
  <2>9. Above(Below, q[Len(q)], Len(r), run[1])
    BY <2>8 DEF Nests
  <2>10. Below.of # "global" /\ q[Len(q)].kind \in Body \cup {"main"} /\ b.of # "global"
    <3> HIDE DEF Below
    <3> QED BY <1>9, <2>3, <2>9 DEF Above
  <2>11. Own(Below) = 0 /\ Apply(Below) = 1 /\ Apply(b) = 1
         /\ Own(b) = IF Frame.polluted THEN 0 ELSE 1
    <3>1. Own(Below) = 0 /\ Apply(Below) = 1
      BY <1>9 DEF Own, Apply, Owns
    <3>2. Apply(b) = 1 /\ Own(b) = IF Frame.polluted THEN 0 ELSE 1
      BY <2>3 DEF Own, Apply, Owns
    <3> QED BY <3>1, <3>2
  <2>12. Top - 1 \in Nat /\ Follows(Top - 1, inProcess, nested, w, r)
    <3>1. Follows(Top - Own(Act), inProcess, nested - Apply(Act), w, r)
      <4>1. LET u == IF Act.kind \in {"template", "foreach"} THEN Act.saved ELSE rule
                jp == IF Act.of = "global" /\ Len(inProcess) > 1 THEN Tail(inProcess) ELSE inProcess
            IN Follows(Top - Own(Act), jp, nested - Apply(Act), u, r)
        <5>1. Top \in Nat /\ run[Len(run)] = Act
          BY <1>2
        <5> HIDE DEF r, Top
        <5> QED BY <5>1, <1>5, <1>6, <2>5, FollowsPop
      <4>2. Act.kind \in {"template", "foreach"} /\ Act.of # "global"
        BY <1>4, <1>9
      <4> QED BY <4>1, <4>2 DEF w
    <3>2. Top - Own(Act) = Top - 1 /\ Top - 1 \in Nat
      <4> HIDE DEF Top
      <4> QED BY <1>2, <1>4
    <3>3. nested - Apply(Act) = nested
      BY <1>4, <1>5
    <3> QED BY <3>1, <3>2, <3>3
  <2>13. MayCall(q, b, w)
    <3>1. Above(b, q[Len(q)], Len(q) + 1, q[1])
      <4>1. Len(q) + 1 = Len(r) /\ q[1].kind = run[1].kind
        <5>1. 1 \in 1 .. Len(run) - 2
          BY <2>2, <1>2
        <5> QED BY <5>1, <2>4, <2>5
      <4> HIDE DEF Below
      <4> QED BY <4>1, <2>3, <2>9, <2>10, <1>9 DEF Above, Body
    <3>2. b.kind \notin {"template", "foreach"} /\ b.of # "imports"
      BY <2>3
    <3> QED BY <3>1, <3>2 DEF MayCall
  <2>14. RuleWith(q, b, w) = w
    BY <2>3 DEF RuleWith, Sets
  <2>15. Follows(((Top - 1) - Own(Below)) + Own(b), inProcess, (nested - Apply(Below)) + Apply(b),
                 RuleWith(q, b, w), run')
    <3> DEFINE t == Top - 1
               c == Below
    <3>1. t \in Nat /\ Follows(t, inProcess, nested, w, r) /\ Own(c) <= t /\ c.of # "global"
      BY <2>10, <2>11, <2>12
    <3>2. r[Len(r)] = c /\ w = (IF c.kind \in {"template", "foreach"} THEN c.saved ELSE w)
      BY <1>6, <1>9
    <3> HIDE DEF t, c, r
    <3>3. Follows((t - Own(c)) + Own(b), inProcess, (nested - Apply(c)) + Apply(b),
                  RuleWith(q, b, w), run')
      BY <3>1, <3>2, <1>5, <1>6, <2>4, <2>5, <2>6, <2>7, <2>10, <2>13, FollowsSwap
    <3> QED BY <3>3 DEF t, c
  <2>16. frames' \in Seq(FrameSet) /\ Len(frames') = ((Top - 1) - Own(Below)) + Own(b)
    <3>1. CASE Frame.polluted
      <4>1. frames' = Front(frames)
        BY <3>1, <2>1
      <4>2. ((Top - 1) - Own(Below)) + Own(b) = Top - 1
        <5>1. Own(b) = 0 /\ Own(Below) = 0
          BY <3>1, <2>11
        <5> HIDE DEF Top, Below
        <5> QED BY <5>1, <1>2
      <4> QED BY <4>1, <4>2, <1>7
    <3>2. CASE ~Frame.polluted
      <4>1. frames' = frames /\ Len(frames) = Top
        BY <3>2, <2>1 DEF Top
      <4>2. ((Top - 1) - Own(Below)) + Own(b) = Top
        <5>1. Own(b) = 1 /\ Own(Below) = 0
          BY <3>2, <2>11
        <5> HIDE DEF Top, Below
        <5> QED BY <5>1, <1>2
      <4> QED BY <4>1, <4>2, <1>5
    <3> QED BY <3>1, <3>2
  <2>17. (nested - Apply(Below)) + Apply(b) = nested
    <3> HIDE DEF Below
    <3> QED BY <2>11, <1>5
  <2>18. Follows(Len(frames'), inProcess', nested', rule', run')
    <3>1. inProcess' = inProcess /\ nested' = nested /\ rule' = w
      BY <1>1, <2>1
    <3> QED BY <3>1, <2>14, <2>15, <2>16, <2>17
  <2>19. inProcess' \in Seq(VarNames) /\ nested' \in Int /\ rule' \in Nat /\ error' = error
    BY <1>1, <1>5, <2>1, <2>2
  <2> QED BY <2>7, <2>16, <2>18, <2>19, StepFollows
<1> QED BY <1>8, <1>9

(* -------------------------------- variables ------------------------------- *)
\* The call that a value needs.
LEMMA EvaluateIs ==
  ASSUME StacksInv, Going, NEW x \in VarNames, NEW how \in {"select", "content"},
         NEW active, NEW decl \in {"global", "local"}, Evaluate(x, how, active, decl)
  PROVE  \E a \in CallSet :
           /\ run' = Append(run, a) /\ a.kind = how /\ a.var = x /\ a.of = decl
           /\ a.env = (IF decl = "global" THEN NoLocals ELSE Act.env)
           /\ a.pending = (IF decl = "global" THEN {} ELSE Act.pending)
           /\ frames' \in Seq(FrameSet) /\ Len(frames') = Top + Own(a) /\ Apply(a) = 0
<1> DEFINE c == Inner(how)
           d == [c EXCEPT !.var = x]
           e == [d EXCEPT !.of = decl]
           f == [e EXCEPT !.env = NoLocals]
           none == {}
           g == [f EXCEPT !.pending = none]
           a == IF decl = "global" THEN g ELSE e
<1>1. [c EXCEPT !.var = x, !.of = decl] = e
  <2> HIDE DEF c
  <2> QED OBVIOUS
<1>2. [e EXCEPT !.env = NoLocals, !.pending = {}] = g
  <2> HIDE DEF e
  <2> QED OBVIOUS
<1>3. run' = Append(run, a) /\ frames' = IF how = "content" THEN Pushed(0) ELSE frames
  <2> HIDE DEF c
  <2>1. frames' = IF how = "content" THEN Pushed(0) ELSE frames
    BY DEF Evaluate
  <2>2. run' = Append(run, IF decl = "global"
                      THEN [[Inner(how) EXCEPT !.var = x, !.of = decl]
                               EXCEPT !.env = NoLocals, !.pending = {}]
                      ELSE [Inner(how) EXCEPT !.var = x, !.of = decl])
    BY DEF Evaluate
  <2>3. run' = Append(run, a)
    <3> HIDE DEF e, g
    <3> QED BY <2>2, <1>1, <1>2 DEF c
  <2> QED BY <2>1, <2>3
<1>4. c \in CallSet /\ c.kind = how /\ c.env = Act.env /\ c.pending = Act.pending
  <2>1. how \in Kinds
    BY DEF Kinds
  <2>2. Bare(c, how, Act.env, Act.pending)
    BY <2>1, InnerIs
  <2> QED BY <2>2 DEF Bare
<1> HIDE DEF c
<1>5. d \in CallSet /\ d.kind = c.kind /\ d.var = x /\ d.env = c.env /\ d.pending = c.pending
  BY <1>4, WithName
<1> HIDE DEF d
<1>6. e \in CallSet /\ e.kind = d.kind /\ e.var = d.var /\ e.env = d.env /\ e.pending = d.pending
      /\ e.of = decl
  <2>1. decl \in {"", "again", "imports", "global", "local"}
    OBVIOUS
  <2> QED BY <2>1, <1>5, WithOf
<1> HIDE DEF e
<1>7. f \in CallSet /\ Like(e, f) /\ f.env = NoLocals
  BY <1>6, NothingDeclared, WithEnv
<1> HIDE DEF f
<1>8. g \in CallSet /\ Like(f, g) /\ g.env = f.env /\ g.pending = none
  <2>1. none \in SUBSET VarNames
    OBVIOUS
  <2> HIDE DEF none
  <2> QED BY <2>1, <1>7, WithPending
<1> HIDE DEF g
<1>9. a \in CallSet /\ a.kind = how /\ a.var = x /\ a.of = decl
      /\ a.env = (IF decl = "global" THEN NoLocals ELSE Act.env)
      /\ a.pending = (IF decl = "global" THEN {} ELSE Act.pending)
  <2>1. CASE decl = "global"
    <3>1. a = g
      BY <2>1
    <3>2. g.kind = how /\ g.var = x /\ g.of = decl
      BY <1>4, <1>5, <1>6, <1>7, <1>8 DEF Like
    <3> HIDE DEF a
    <3> QED BY <2>1, <3>1, <3>2, <1>7, <1>8
  <2>2. CASE decl # "global"
    <3>1. a = e
      BY <2>2
    <3>2. e.kind = how /\ e.var = x /\ e.of = decl /\ e.env = Act.env /\ e.pending = Act.pending
      BY <1>4, <1>5, <1>6
    <3> HIDE DEF a
    <3> QED BY <2>2, <3>1, <3>2, <1>6
  <2> QED BY <2>1, <2>2
<1> HIDE DEF a
<1>10. Apply(a) = 0 /\ Own(a) = IF how = "content" THEN 1 ELSE 0
  BY <1>9 DEF Apply, Own, Owns
<1>11. frames' \in Seq(FrameSet) /\ Len(frames') = Top + Own(a)
  <2>1. CASE how = "content"
    BY <2>1, <1>3, <1>10, Frames
  <2>2. CASE how # "content"
    <3>1. frames' = frames /\ frames \in Seq(FrameSet) /\ Len(frames) = Top /\ Top \in Nat
      BY <2>2, <1>3, Going_ DEF StacksInv, TypeOK, Top
    <3> QED BY <3>1, <1>10, <2>2
  <2> QED BY <2>1, <2>2
<1> QED BY <1>3, <1>9, <1>10, <1>11

\* The evaluation of a variable begins.
LEMMA StepEvaluate ==
  ASSUME StacksInv, Going, NEW x \in VarNames, NEW how \in {"select", "content"},
         NEW active, NEW decl \in {"global", "local"}, Evaluate(x, how, active, decl),
         decl = "global" => /\ run[1].kind = "globals" /\ Act.kind \in Expressions \cup {"globals"}
                            /\ inProcess' = IF Len(run) = 1 THEN <<x>> ELSE <<x>> \o inProcess,
         decl = "local" => how = "content" /\ Act.kind \in Body \cup {"params"} /\ inProcess' = inProcess,
         UNCHANGED <<nested, rule, error>>, UNCHANGED sheetVars
  PROVE  StacksInv'
<1>1. PICK a \in CallSet :
           /\ run' = Append(run, a) /\ a.kind = how /\ a.var = x /\ a.of = decl
           /\ frames' \in Seq(FrameSet) /\ Len(frames') = Top + Own(a) /\ Apply(a) = 0
  BY EvaluateIs
<1>2. /\ Act = run[Len(run)] /\ Len(run) \in Nat \ {0}
      /\ Act.kind \notin {"globals", "main"} => Len(run) > 1
  BY Going_
<1>3. MayCall(run, a, rule)
  <2>1. Above(a, Act, Len(run) + 1, run[1])
    <3>1. CASE decl = "global"
      BY <3>1, <1>1, <1>2 DEF Above, Expressions
    <3>2. CASE decl = "local"
      <4>1. Len(run) > 1 /\ Len(run) + 1 # 2 /\ Act.kind \in Expressions
        BY <3>2, <1>2 DEF Body, Expressions
      <4> QED BY <3>2, <4>1, <1>1 DEF Above, Expressions, Body
    <3> QED BY <3>1, <3>2
  <2> QED BY <2>1, <1>1, <1>2 DEF MayCall
<1>4. inProcess' = InProcess(run, a, inProcess)
  <2>1. CASE decl = "global"
    BY <2>1, <1>1 DEF InProcess
  <2>2. CASE decl = "local"
    BY <2>2, <1>1 DEF InProcess
  <2> QED BY <2>1, <2>2
<1>5. rule' = RuleWith(run, a, rule)
  <2>1. rule' = rule /\ a.kind \notin {"foreach", "template"} /\ a.of # "imports"
    BY <1>1
  <2> QED BY <2>1 DEF RuleWith, Sets
<1>6. nested' = nested + Apply(a)
  <2>1. nested' = nested /\ nested \in Int /\ Apply(a) = 0
    BY <1>1 DEF StacksInv, TypeOK
  <2> QED BY <2>1
<1> QED BY <1>1, <1>3, <1>4, <1>5, <1>6, StepPush

\* processTopLevelVars evaluates a variable.
LEMMA EvaluateGlobalKeeps ==
  ASSUME StacksInv, NEW x \in VarNames, NEW how \in {"select", "content"}, EvaluateGlobal(x, how),
         UNCHANGED sheetVars
  PROVE  StacksInv'
<1> DEFINE g == "global"
           t == TRUE
<1>1. /\ Going /\ Act.kind = "globals" /\ inProcess' = <<x>> /\ Evaluate(x, how, t, g)
      /\ UNCHANGED <<nested, rule, error>>
  BY DEF EvaluateGlobal
<1>2. Len(run) = 1 /\ run[1].kind = "globals"
  <2>1. Len(run) \in Nat \ {0} /\ ~(Len(run) > 1) /\ Act = run[Len(run)]
    BY <1>1, Going_
  <2>2. Len(run) = 1
    BY <2>1
  <2> QED BY <2>1, <2>2, <1>1
<1>3. g = "global" /\ g \in {"global", "local"} /\ g # "local"
  OBVIOUS
<1>4. inProcess' = IF Len(run) = 1 THEN <<x>> ELSE <<x>> \o inProcess
  BY <1>1, <1>2
<1> HIDE DEF g, t
<1> QED BY <1>1, <1>2, <1>3, <1>4, StepEvaluate

\* Where a variable is being evaluated, that has been asked for by a top-level one.
LEMMA InGlobals ==
  ASSUME StacksInv, Going, inProcess # <<>>
  PROVE  run[1].kind = "globals"
<1>1. run[1].kind \in {"globals", "main"} /\ Len(run) \in Nat \ {0}
  BY Going_
<1>2. Mirrors(run, inProcess)
  BY <1>1 DEF StacksInv, Follows
<1> QED BY <1>1, <1>2 DEF Mirrors

\* A use forces a top-level variable, or is an error.
LEMMA UseKeeps ==
  ASSUME StacksInv, NEW x \in VarNames, NEW how \in {"select", "content"}, Use(x, how),
         UNCHANGED sheetVars
  PROVE  StacksInv'
<1>1. Going /\ Act.kind \in Expressions /\ Uses(x, how)
  BY DEF Use
<1>2. CASE Forces(x, how)
  <2> DEFINE g == "global"
             t == TRUE
  <2>1. /\ inProcess # <<>> /\ inProcess' = <<x>> \o inProcess /\ Evaluate(x, how, t, g)
        /\ UNCHANGED <<nested, rule, error>>
    BY <1>2 DEF Forces
  <2>2. run[1].kind = "globals" /\ Len(run) # 1
    <3>1. Act.kind \notin {"globals", "main"}
      BY <1>1 DEF Expressions
    <3>2. Len(run) > 1 /\ Len(run) \in Nat
      BY <1>1, <3>1, Going_
    <3>3. run[1].kind = "globals"
      <4> HIDE DEF g, t
      <4> QED BY <1>1, <2>1, InGlobals
    <3> DEFINE n == Len(run)
    <3>4. n \in Nat /\ n > 1
      BY <3>2
    <3>5. n # 1
      <4> HIDE DEF n, g, t
      <4> QED BY <3>4
    <3> QED BY <3>3, <3>5
  <2>3. g = "global" /\ g \in {"global", "local"} /\ g # "local"
    OBVIOUS
  <2>4. inProcess' = IF Len(run) = 1 THEN <<x>> ELSE <<x>> \o inProcess
    BY <2>1, <2>2
  <2> HIDE DEF g, t
  <2> QED BY <1>1, <2>1, <2>2, <2>3, <2>4, StepEvaluate
<1>3. CASE ~Forces(x, how)
  <2>1. \E why \in {"circular", "undeclared", "declared"}, right \in BOOLEAN : Raise(why, right)
    <3>1. BeingEvaluated(x) \in BOOLEAN /\ (Act.env[x] = NoVar /\ x \notin Globals) \in BOOLEAN
      BY DEF BeingEvaluated
    <3>2. \/ Raise("circular", BeingEvaluated(x))
          \/ Raise("undeclared", Act.env[x] = NoVar /\ x \notin Globals)
      BY <1>1, <1>3 DEF Uses
    <3> QED BY <3>1, <3>2, Zenon
  <2> QED BY <1>1, <2>1, RaiseKeeps
<1> QED BY <1>2, <1>3

\* Variables are variables,
LEMMA VariableIs ==
  ASSUME NEW x \in VarNames, NEW active \in BOOLEAN, NEW decl \in {"global", "local"}
  PROVE  LET v == Variable(x, active, decl)
         IN v \in VarSet /\ v.name = x /\ v.active = active /\ v.decl = decl
  BY DEF Variable, VarSet

\* and their places are places.
LEMMA HereIs ==
  ASSUME NEW fs \in Seq(FrameSet), Len(fs) > 0
  PROVE  Here(fs) \in Place
<1>1. fs[Len(fs)] \in FrameSet /\ Len(fs) \in Nat
  OBVIOUS
<1>2. Len(fs[Len(fs)].vars) \in Nat
  BY <1>1 DEF FrameSet
<1> QED BY <1>1, <1>2 DEF Here, Last, Place

\* A variable whose value is known is declared.
LEMMA Declare1Keeps ==
  ASSUME StacksInv, Going, NEW x \in VarNames, NEW active \in BOOLEAN,
         NEW decl \in {"global", "local"}, Declare1(x, decl, active),
         UNCHANGED <<inProcess, nested, rule, error>>, UNCHANGED sheetVars
  PROVE  StacksInv'
<1> DEFINE v == Variable(x, active, decl)
           p == Here(frames)
           b == IF active THEN [Act EXCEPT !.env[x] = p, !.pending = @ \ {x}]
                ELSE [Act EXCEPT !.passed = @ \union {x}]
<1>1. frames' = SetVar(frames, v) /\ run' = Replaced(run, b)
  BY DEF Declare1
<1>2. frames \in Seq(FrameSet) /\ Len(frames) > 0 /\ Top = Len(frames) /\ Act \in CallSet
  <2>1. Top \in Nat \ {0} /\ Act \in CallSet
    BY Going_
  <2> QED BY <2>1 DEF StacksInv, TypeOK, Top
<1>3. v \in VarSet
  BY VariableIs
<1>4. p \in Place
  BY <1>2, HereIs
<1> HIDE DEF v, p
<1>5. frames' \in Seq(FrameSet) /\ Len(frames') = Top
  BY <1>1, <1>2, <1>3, SetVarIs
<1>6. b \in CallSet /\ Like(Act, b)
  <2> DEFINE d == Act
             e == [d EXCEPT !.env[x] = p, !.pending = @ \ {x}]
             q == d.passed \cup {x}
             f == [d EXCEPT !.passed = q]
  <2>1. b = IF active THEN e ELSE f
    OBVIOUS
  <2>2. d \in CallSet
    BY <1>2
  <2> HIDE DEF d, b
  <2>3. e \in CallSet /\ Like(d, e)
    BY <2>2, <1>4, WithDeclared
  <2>4. q \in SUBSET VarNames
    BY <2>2 DEF CallSet
  <2> HIDE DEF q
  <2>5. f \in CallSet /\ Like(d, f)
    BY <2>2, <2>4, WithPassed
  <2> HIDE DEF e, f
  <2>6. b \in CallSet /\ Like(d, b)
    BY <2>1, <2>3, <2>5
  <2> QED BY <2>6 DEF d
<1> HIDE DEF b
<1>7. run' \in Seq(CallSet) /\ Len(run') = Len(run) /\ Alike(run, run', Len(run))
  BY <1>1, <1>6, Topmost
<1> QED BY <1>5, <1>7, StepTop

\* xsl:variable.
LEMMA DeclareVariableKeeps ==
  ASSUME StacksInv, NEW x \in VarNames, NEW how \in {"select", "content"}, DeclareVariable(x, how),
         UNCHANGED sheetVars
  PROVE  StacksInv'
<1>1. Going /\ Act.kind \in Body
  BY DEF DeclareVariable, Instruction, Executing
<1> DEFINE t == TRUE
           l == "local"
<1>2. t \in BOOLEAN /\ l = "local" /\ l \in {"global", "local"} /\ l # "global"
  OBVIOUS
<1>3. \/ VarExists(x) /\ Raise("declared", Act.env[x] # NoVar)
      \/ /\ IF how = "select" THEN Declare1(x, l, t) ELSE Evaluate(x, how, t, l)
         /\ UNCHANGED <<inProcess, nested, rule, error>>
  BY DEF DeclareVariable
<1> HIDE DEF t, l
<1>4. CASE VarExists(x) /\ Raise("declared", Act.env[x] # NoVar)
  <2>1. \E why \in {"circular", "undeclared", "declared"}, right \in BOOLEAN : Raise(why, right)
    <3>1. (Act.env[x] # NoVar) \in BOOLEAN
      OBVIOUS
    <3> QED BY <3>1, <1>4, Zenon
  <2> QED BY <1>1, <2>1, RaiseKeeps
<1>5. CASE /\ IF how = "select" THEN Declare1(x, l, t) ELSE Evaluate(x, how, t, l)
           /\ UNCHANGED <<inProcess, nested, rule, error>>
  <2>1. CASE how = "select"
    <3>1. Declare1(x, l, t) /\ UNCHANGED <<inProcess, nested, rule, error>>
      BY <1>5, <2>1
    <3> QED BY <1>1, <1>2, <3>1, Declare1Keeps
  <2>2. CASE how = "content"
    <3>1. Evaluate(x, how, t, l) /\ UNCHANGED <<inProcess, nested, rule, error>>
      BY <1>5, <2>2
    <3> QED BY <1>1, <1>2, <2>2, <3>1, StepEvaluate
  <2> QED BY <2>1, <2>2
<1> QED BY <1>3, <1>4, <1>5

\* xsl:with-param.
LEMMA PassParamKeeps ==
  ASSUME StacksInv, NEW x \in VarNames, NEW how \in {"select", "content"}, PassParam(x, how),
         UNCHANGED sheetVars
  PROVE  StacksInv'
<1> DEFINE t == FALSE
           l == "local"
<1>1. t \in BOOLEAN /\ l = "local" /\ l \in {"global", "local"} /\ l # "global"
  OBVIOUS
<1>2. /\ Going /\ Act.kind = "params"
      /\ IF how = "select" THEN Declare1(x, l, t) ELSE Evaluate(x, how, t, l)
      /\ UNCHANGED <<inProcess, nested, rule, error>>
  BY DEF PassParam
<1> HIDE DEF t, l
<1>3. CASE how = "select"
  BY <1>1, <1>2, <1>3, Declare1Keeps
<1>4. CASE how = "content"
  BY <1>1, <1>2, <1>4, StepEvaluate
<1> QED BY <1>3, <1>4

\* xsl:for-each goes on to the next node.
LEMMA AgainKeeps ==
  ASSUME StacksInv, Again, UNCHANGED sheetVars PROVE StacksInv'
<1> DEFINE e == run[Len(run) - 1].env
           b == [Act EXCEPT !.env = e]
<1>1. /\ Going /\ Act.kind = "foreach" /\ frames' = NextIteration(frames) /\ run' = Replaced(run, b)
      /\ UNCHANGED <<inProcess, nested, rule, error>>
  BY DEF Again, Executing
<1>2. /\ frames \in Seq(FrameSet) /\ Len(frames) > 0 /\ Top = Len(frames) /\ Act \in CallSet
      /\ Len(run) > 1 /\ Len(run) \in Nat /\ run \in Seq(CallSet)
  <2>1. Top \in Nat \ {0} /\ Act \in CallSet /\ Len(run) > 1 /\ Len(run) \in Nat
    BY <1>1, Going_
  <2> QED BY <2>1 DEF StacksInv, TypeOK, Top
<1>3. b \in CallSet /\ Like(Act, b)
  <2>1. Len(run) - 1 \in 1 .. Len(run)
    BY <1>2
  <2>2. run[Len(run) - 1] \in CallSet
    BY <1>2, <2>1
  <2>3. e \in [VarNames -> Place]
    BY <2>2 DEF CallSet
  <2> HIDE DEF e, Act
  <2> QED BY <2>3, <1>2, WithEnv
<1> HIDE DEF b
<1>4. run' \in Seq(CallSet) /\ Len(run') = Len(run) /\ Alike(run, run', Len(run))
  BY <1>1, <1>3, Topmost
<1>5. frames' \in Seq(FrameSet) /\ Len(frames') = Top
  <2> DEFINE f == Owning(<<>>)
  <2>1. f \in FrameSet
    BY DEF Owning, FrameSet
  <2>2. frames' = IF Last(frames).polluted THEN Replaced(frames, f) ELSE frames
    BY <1>1 DEF NextIteration
  <2> HIDE DEF f
  <2>3. Replaced(frames, f) \in Seq(FrameSet) /\ Len(Replaced(frames, f)) = Len(frames)
    BY <1>2, <2>1, Replacing
  <2> QED BY <1>2, <2>2, <2>3
<1> QED BY <1>1, <1>4, <1>5, StepTop

\* What xsl:param makes visible, with the other variables of its frame as they are.
LEMMA ActivatedIs ==
  ASSUME StacksInv, Going, NEW x \in VarNames, VarExists(x)
  PROVE  /\ Activated(x) \in Seq(FrameSet) /\ Len(Activated(x)) = Top /\ Found(x) \in Place
<1>1. PICK i \in Near, k \in Nat \ {0} :
              /\ Found(x) = <<i, k>> /\ FirstIn(frames[i], x, TRUE, k)
  BY FoundIs
<1>2. frames \in Seq(FrameSet) /\ i \in 1 .. Len(frames) /\ Top = Len(frames) /\ i \in Nat
  <2>1. frames \in Seq(FrameSet) /\ Top = Len(frames)
    BY DEF StacksInv, TypeOK, Top
  <2>2. i \in 1 .. Top
    BY DEF Near
  <2>3. Len(frames) \in Nat
    BY <2>1
  <2> QED BY <2>1, <2>2, <2>3
<1>3. Found(x)[1] = i /\ Found(x)[2] = k /\ Found(x) \in Place
  BY <1>1, <1>2 DEF Place
<1> DEFINE f == frames[i]
           t == TRUE
           v == [f.vars[k] EXCEPT !.active = t]
           vs == [f.vars EXCEPT ![k] = v]
           g == [f EXCEPT !.vars = vs]
<1>4. f \in FrameSet
  BY <1>2
<1>5. k \in DOMAIN f.vars /\ f.vars \in Seq(VarSet)
  BY <1>1, <1>4 DEF FirstIn, FrameSet
<1>6. v \in VarSet
  <2>1. t \in BOOLEAN
    OBVIOUS
  <2> HIDE DEF t, f
  <2>2. f.vars[k] \in VarSet
    BY <1>5
  <2> QED BY <2>1, <2>2 DEF VarSet
<1>7. vs \in Seq(VarSet)
  <2> HIDE DEF f, v
  <2> QED BY <1>5, <1>6
<1>8. g \in FrameSet
  <2> HIDE DEF f, vs
  <2> QED BY <1>4, <1>7 DEF FrameSet
<1>9. Activated(x) = [frames EXCEPT ![i] = g]
  <2>1. Activated(x) = [frames EXCEPT ![i].vars[k].active = t]
    BY <1>3 DEF Activated
  <2> HIDE DEF t
  <2> QED BY <2>1
<1> HIDE DEF g
<1>10. [frames EXCEPT ![i] = g] \in Seq(FrameSet) /\ Len([frames EXCEPT ![i] = g]) = Len(frames)
  BY <1>2, <1>8
<1> QED BY <1>2, <1>3, <1>9, <1>10

\* xsl:param.
LEMMA DeclareParamKeeps ==
  ASSUME StacksInv, NEW x \in VarNames, DeclareParam(x), UNCHANGED sheetVars
  PROVE  StacksInv'
<1> DEFINE t == TRUE
           l == "local"
<1>1. t \in BOOLEAN /\ l \in {"global", "local"}
  OBVIOUS
<1>2. Going /\ UNCHANGED <<inProcess, nested, rule, error>>
  BY DEF DeclareParam, Executing
<1>3. CASE VarExists(x)
  <2> DEFINE p == Found(x)
             b == IF x \in Act.pending THEN [Act EXCEPT !.env[x] = p, !.pending = @ \ {x}] ELSE Act
  <2>1. frames' = Activated(x) /\ run' = Replaced(run, b)
    BY <1>3 DEF DeclareParam
  <2>2. frames' \in Seq(FrameSet) /\ Len(frames') = Top /\ p \in Place
    BY <1>2, <1>3, <2>1, ActivatedIs
  <2> HIDE DEF p
  <2>3. b \in CallSet /\ Like(Act, b)
    <3> DEFINE d == Act
               e == [d EXCEPT !.env[x] = p, !.pending = @ \ {x}]
    <3>1. b = IF x \in d.pending THEN e ELSE d
      OBVIOUS
    <3>2. d \in CallSet
      BY <1>2, Going_
    <3> HIDE DEF d, b
    <3>3. e \in CallSet /\ Like(d, e)
      BY <3>2, <2>2, WithDeclared
    <3>4. Like(d, d)
      BY DEF Like
    <3> HIDE DEF e
    <3>5. b \in CallSet /\ Like(d, b)
      BY <3>1, <3>2, <3>3, <3>4
    <3> QED BY <3>5 DEF d
  <2> HIDE DEF b
  <2>4. run' \in Seq(CallSet) /\ Len(run') = Len(run) /\ Alike(run, run', Len(run))
    BY <1>2, <2>1, <2>3, Topmost
  <2> QED BY <1>2, <2>2, <2>4, StepTop
<1>4. CASE ~VarExists(x)
  <2>1. Declare1(x, l, t)
    BY <1>4 DEF DeclareParam
  <2> HIDE DEF l, t
  <2> QED BY <1>1, <1>2, <2>1, Declare1Keeps
<1> QED BY <1>3, <1>4

\* The value of a variable is known.
LEMMA EndOfValueKeeps ==
  ASSUME StacksInv, EndOfValue, UNCHANGED sheetVars PROVE StacksInv'
<1> DEFINE below == IF Act.kind = "content" THEN Front(frames) ELSE frames
           forced == Act.of = "global" /\ Len(inProcess) > 1
           active == Below.kind # "params" \/ Act.of = "global"
           v == Variable(Act.var, active, Act.of)
           p == Here(below)
           b == IF Act.of = "global" THEN Below
                ELSE IF active THEN [Below EXCEPT !.env[Act.var] = p]
                ELSE [Below EXCEPT !.passed = @ \union {Act.var}]
<1>1. Going /\ Act.kind \in {"select", "content"}
  BY DEF EndOfValue
<1>2. CASE forced /\ Last(below).stop = 2
  <2>1. Raise("circular", FALSE)
    BY <1>2 DEF EndOfValue
  <2> QED BY <1>1, <2>1, RaiseKeeps
<1>3. CASE ~(forced /\ Last(below).stop = 2)
  <2>1. /\ frames' = SetVar(below, v) /\ run' = Append(SubSeq(run, 1, Len(run) - 2), b)
        /\ inProcess' = (IF forced THEN Tail(inProcess) ELSE inProcess)
        /\ UNCHANGED <<nested, rule, error>>
    BY <1>3 DEF EndOfValue, Below
  <2>2. /\ Len(run) > 1 /\ Nests(run, Len(run)) /\ Act = run[Len(run)] /\ Act \in CallSet
        /\ Top \in Nat \ {0} /\ Len(run) \in Nat /\ (Owns(Act) => Top > 1)
    BY <1>1, Going_
  <2>3. Above(Act, Below, Len(run), run[1])
    BY <2>2 DEF Nests, Below
  <2>4. Act.var \in VarNames /\ Act.of \in {"global", "local"} /\ Apply(Act) = 0
        /\ Own(Act) = (IF Act.kind = "content" THEN 1 ELSE 0) /\ (Act.kind = "content" => Top > 1)
    <3> HIDE DEF Act
    <3> QED BY <1>1, <2>2, <2>3 DEF Above, Apply, Own, Owns
  <2>5. Below \in CallSet
    <3>1. Len(run) - 1 \in 1 .. Len(run)
      BY <2>2
    <3>2. run \in Seq(CallSet)
      BY DEF StacksInv, TypeOK
    <3> QED BY <3>1, <3>2 DEF Below
  <2>6. below \in Seq(FrameSet) /\ Len(below) = Top - Own(Act) /\ Len(below) > 0
    <3>1. CASE Act.kind = "content"
      <4>1. Front(frames) \in Seq(FrameSet) /\ Len(Front(frames)) = Top - 1 /\ Top > 1 /\ Own(Act) = 1
        BY <1>1, <2>4, <3>1, Frames
      <4>2. below = Front(frames)
        BY <3>1
      <4> HIDE DEF below, Top
      <4> QED BY <4>1, <4>2, <2>2
    <3>2. CASE Act.kind # "content"
      <4>1. below = frames /\ Own(Act) = 0 /\ frames \in Seq(FrameSet) /\ Len(frames) = Top
        BY <2>4, <3>2 DEF StacksInv, TypeOK, Top
      <4> HIDE DEF below, Top
      <4> QED BY <4>1, <2>2
    <3> QED BY <3>1, <3>2
  <2> HIDE DEF below
  <2>7. v \in VarSet
    <3> DEFINE x == Act.var
               d == Act.of
    <3>1. active \in BOOLEAN /\ x \in VarNames /\ d \in {"global", "local"}
      BY <2>4
    <3> HIDE DEF x, d, active
    <3>2. Variable(x, active, d) \in VarSet
      BY <3>1, VariableIs
    <3> QED BY <3>2 DEF x, d
  <2>8. p \in Place
    BY <2>6, HereIs
  <2> HIDE DEF v, p
  <2>9. frames' \in Seq(FrameSet) /\ Len(frames') = Top - Own(Act)
    BY <2>1, <2>6, <2>7, SetVarIs
  <2>10. b \in CallSet /\ Like(Below, b)
    <3> DEFINE d == Below
               x == Act.var
               e == [d EXCEPT !.env[x] = p]
               q == d.passed \cup {x}
               f == [d EXCEPT !.passed = q]
    <3>1. b = IF Act.of = "global" THEN d ELSE IF active THEN e ELSE f
      OBVIOUS
    <3>2. d \in CallSet /\ x \in VarNames
      BY <2>4, <2>5
    <3> HIDE DEF d, b, x, active
    <3>3. e \in CallSet /\ Like(d, e)
      BY <3>2, <2>8, WithBinding
    <3>4. q \in SUBSET VarNames
      BY <3>2 DEF CallSet
    <3> HIDE DEF q
    <3>5. f \in CallSet /\ Like(d, f)
      BY <3>2, <3>4, WithPassed
    <3>6. Like(d, d)
      BY DEF Like
    <3> HIDE DEF e, f
    <3>7. b \in CallSet /\ Like(d, b)
      BY <3>1, <3>2, <3>3, <3>5, <3>6
    <3> QED BY <3>7 DEF d
  <2> HIDE DEF b
  <2>11. run' \in Seq(CallSet) /\ Len(run') = Len(run) - 1 /\ Alike(run', run, Len(run'))
    BY <2>1, <2>2, <2>10, Lower_
  <2>12. nested' = nested - Apply(Act)
    <3>1. nested' = nested /\ nested \in Int
      BY <2>1 DEF StacksInv, TypeOK
    <3> HIDE DEF Act
    <3> QED BY <3>1, <2>4
  <2>13. /\ inProcess' = (IF Act.of = "global" /\ Len(inProcess) > 1 THEN Tail(inProcess) ELSE inProcess)
         /\ rule' = (IF Act.kind \in {"template", "foreach"} THEN Act.saved ELSE rule) /\ error' = error
    BY <1>1, <2>1
  <2> QED BY <2>2, <2>9, <2>11, <2>12, <2>13, StepPop
<1> QED BY <1>2, <1>3

(* ----------------------- the start of a transformation --------------------- *)
LEMMA Listed ==
  ASSUME NEW S \in SUBSET VarNames
  PROVE  Cardinality(S) \in Nat /\ SetToSeq(S) \in [1 .. Cardinality(S) -> S]
<1>1. IsFiniteSet(S)
  BY Bounds, FS_Subset
<1>2. PICK n \in Nat : ExistsBijection(1 .. n, S)
  BY <1>1, FS_NatBijection
<1>3. Cardinality(S) = n
  BY <1>2, FS_CountingElements
<1>4. PICK h \in [1 .. n -> S] : IsInjective(h)
  <2>1. PICK g \in Bijection(1 .. n, S) : TRUE
    BY <1>2 DEF ExistsBijection
  <2>2. g \in [1 .. n -> S] /\ IsInjective(g)
    BY <2>1 DEF Bijection, Injection, IsInjective
  <2> QED BY <2>2
<1>5. SetToSeq(S) = CHOOSE f \in [1 .. Cardinality(S) -> S] : IsInjective(f)
  BY DEF SetToSeq
<1> QED BY <1>3, <1>4, <1>5

\* Intervals of one and of no number.
LEMMA Single == 1 .. 1 = {1} /\ 2 .. 1 = {} /\ ~(1 > 1)
<1>1. \A i \in Int : i \in 1 .. 1 <=> i = 1
  OBVIOUS
<1>2. \A i \in Int : i \notin 2 .. 1
  OBVIOUS
<1>3. 1 .. 1 \subseteq Int /\ 2 .. 1 \subseteq Int /\ 1 \in Int
  OBVIOUS
<1>4. ~(1 > 1)
  OBVIOUS
<1> QED BY <1>1, <1>2, <1>3, <1>4, Zenon

\* Sequences of one and of two calls.
LEMMA One ==
  ASSUME NEW S, NEW a \in S
  PROVE  <<a>> \in Seq(S) /\ Len(<<a>>) = 1 /\ <<a>>[1] = a
OBVIOUS

\* ... of two.
LEMMA Two ==
  ASSUME NEW S, NEW a \in S, NEW b \in S
  PROVE  /\ <<a, b>> \in Seq(S) /\ Len(<<a, b>>) = 2
         /\ <<a, b>>[1] = a /\ <<a, b>>[2] = b
OBVIOUS

\* The first call of a transformation.
LEMMA FirstCall ==
  ASSUME NEW s \in Seq(CallSet), Len(s) = 1, s[1].kind \in {"globals", "main"}, s[1].of = "",
         NEW ip, s[1].kind = "main" => ip = <<>>
  PROVE  Follows(1, ip, 0, 0, s)
<1>1. 1 .. 1 = {1} /\ 2 .. 1 = {} /\ ~(1 > 1)
  BY Single
<1>2. NestedRun(s)
  BY <1>1 DEF NestedRun
<1>3. Depth(s, 1) = 1
  <2>1. OwnedTo(s, 1) = {1}
    BY <1>1 DEF OwnedTo, Owns
  <2> QED BY <2>1, FS_Singleton DEF Depth
<1>4. IsRule(s, 1, 0)
  BY <1>1 DEF IsRule
<1>5. Cardinality(AppliesTo(s, 1)) = 0
  <2>1. AppliesTo(s, 1) = {}
    BY <1>1 DEF AppliesTo
  <2> QED BY <2>1, FS_EmptySet
<1>6. Mirrors(s, ip)
  <2>1. ~(Len(s) > 1)
    BY <1>1, Zenon
  <2> QED BY <2>1, Zenon DEF Mirrors
<1> QED BY <1>2, <1>3, <1>4, <1>5, <1>6 DEF Follows

\* The first call is alone while it evaluates top-level variables, and at the end.
LEMMA OnlyCall ==
  ASSUME StacksInv, Going, Act.kind \in {"globals", "main"}
  PROVE  Len(run) = 1 /\ Act = run[1] /\ Act.of = "" /\ Top = 1 /\ nested = 0 /\ rule = 0
<1>1. Len(run) = 1 /\ Act = run[1]
  <2> DEFINE n == Len(run)
  <2>1. n \in Nat \ {0} /\ ~(n > 1) /\ Act = run[n]
    BY Going_
  <2>2. n = 1
    <3> HIDE DEF n
    <3> QED BY <2>1
  <2> QED BY <2>1, <2>2
<1>2. Act.of = ""
  BY <1>1, Going_
<1>3. Top = Depth(run, 1) /\ IsRule(run, 1, rule) /\ nested = Cardinality(AppliesTo(run, 1))
  BY <1>1 DEF StacksInv, Follows
<1>4. OwnedTo(run, 1) = {1} /\ AppliesTo(run, 1) = {}
  BY <1>1 DEF OwnedTo, Owns, AppliesTo
<1>5. Top = 1 /\ nested = 0
  BY <1>3, <1>4, FS_Singleton, FS_EmptySet DEF Depth
<1>6. rule = 0
  BY <1>3 DEF IsRule
<1> QED BY <1>1, <1>2, <1>5, <1>6

\* A transformation begins.
LEMMA StartKeeps ==
  ASSUME StacksInv, NEW passed \in SUBSET Globals, Start(passed), UNCHANGED sheetVars
  PROVE  StacksInv'
<1> DEFINE n == Cardinality(passed)
           t == TRUE
           d == "global"
           vs == [i \in 1 .. n |-> Variable(SetToSeq(passed)[i], t, d)]
           f == Owning(vs)
           k == "globals"
           none == {}
           a == Call(k, NoLocals, none)
<1>1. /\ frames' = <<f>> /\ nested' = 0 /\ error' = NoError /\ run' = <<a>>
      /\ UNCHANGED <<inProcess, rule>> /\ run = <<>>
  BY DEF Start, Going
<1>2. passed \in SUBSET VarNames
  BY DEF StacksInv, TypeOK
<1>3. n \in Nat /\ SetToSeq(passed) \in [1 .. n -> passed]
  BY <1>2, Listed
<1>4. f \in FrameSet
  <2>1. t \in BOOLEAN /\ d \in {"global", "local"}
    OBVIOUS
  <2> HIDE DEF t, d, n, k, none
  <2>2. \A i \in 1 .. n : Variable(SetToSeq(passed)[i], t, d) \in VarSet
    BY <1>2, <1>3, <2>1, VariableIs
  <2>3. vs \in Seq(VarSet)
    BY <1>3, <2>2
  <2> HIDE DEF vs
  <2> QED BY <2>3 DEF Owning, FrameSet
<1>5. a \in CallSet /\ a.kind = "globals" /\ a.of = ""
  <2>1. k \in Kinds /\ none \in SUBSET VarNames
    BY DEF Kinds
  <2> HIDE DEF k, none, vs, n
  <2>2. Bare(a, k, NoLocals, none)
    BY <2>1, NothingDeclared, CallIs
  <2> QED BY <2>2 DEF Bare, k
<1> HIDE DEF f, a, vs, n, k, none, t, d
<1>6. frames' \in Seq(FrameSet) /\ Len(frames') = 1
  BY <1>1, <1>4
<1>7. rule = 0
  BY <1>1 DEF StacksInv, Follows, IsRule
<1>8. Follows(1, inProcess', 0, 0, run') /\ run' \in Seq(CallSet)
  <2> DEFINE ip == inProcess'
  <2> HIDE DEF ip
  <2>1. Follows(1, ip, 0, 0, <<a>>) /\ <<a>> \in Seq(CallSet)
    <3> DEFINE s == <<a>>
    <3>1. s \in Seq(CallSet) /\ Len(s) = 1 /\ s[1] = a
      BY <1>5, One
    <3> HIDE DEF s
    <3>2. Follows(1, ip, 0, 0, s)
      BY <3>1, <1>5, FirstCall
    <3> QED BY <3>1, <3>2 DEF s
  <2> QED BY <2>1, <1>1 DEF ip
<1>9. Follows(Len(frames'), inProcess', nested', rule', run')
  <2>1. Len(frames') = 1 /\ nested' = 0 /\ rule' = 0
    BY <1>1, <1>6, <1>7
  <2> QED BY <2>1, <1>8
<1>10. TypeOK'
  <2>1. error' \in [why : Causes, right : BOOLEAN]
    BY <1>1 DEF NoError, Causes
  <2>2. Globals' = Globals
    BY DEF Globals, sheetVars, tables
  <2>3. inProcess' \in Seq(VarNames) /\ rule' \in Nat /\ Globals \subseteq VarNames
    BY <1>1, <1>7 DEF StacksInv, TypeOK
  <2>4. nested' \in Int
    BY <1>1
  <2> QED BY <1>6, <1>8, <2>1, <2>2, <2>3, <2>4 DEF TypeOK
<1> QED BY <1>9, <1>10 DEF StacksInv, Top

\* All top-level variables have values: the root node is processed.
LEMMA EndOfGlobalsKeeps ==
  ASSUME StacksInv, EndOfGlobals, UNCHANGED sheetVars PROVE StacksInv'
<1> DEFINE k == "main"
           b == [Act EXCEPT !.kind = k]
           l == "apply"
           none == {}
           a == Call(l, NoLocals, none)
           ip == <<>>
           q == <<b>>
<1>1. /\ Going /\ Act.kind = "globals" /\ inProcess' = ip /\ nested' = nested + 1
      /\ run' = <<b, a>> /\ UNCHANGED <<frames, rule, error>>
  BY DEF EndOfGlobals
<1>2. Act \in CallSet /\ Act.of = "" /\ Top = 1 /\ nested = 0 /\ rule = 0
  <2>1. Act \in CallSet
    BY <1>1, Going_
  <2>2. Act.kind \in {"globals", "main"}
    BY <1>1
  <2> QED BY <1>1, <2>1, <2>2, OnlyCall
<1>3. b \in CallSet /\ b.kind = "main" /\ b.of = ""
  <2>1. k \in Kinds
    BY DEF Kinds
  <2> HIDE DEF k, Act
  <2>2. b \in CallSet /\ b.kind = k /\ b.of = Act.of
    BY <2>1, <1>2, WithKind
  <2> QED BY <2>2, <1>2 DEF k
<1>4. a \in CallSet /\ a.kind = "apply" /\ a.of = ""
  <2>1. l \in Kinds /\ none \in SUBSET VarNames
    BY DEF Kinds
  <2> HIDE DEF l, none
  <2>2. Bare(a, l, NoLocals, none)
    BY <2>1, NothingDeclared, CallIs
  <2> QED BY <2>2 DEF Bare, l
<1> HIDE DEF a, b, k, l, none
<1>5. q \in Seq(CallSet) /\ Len(q) = 1 /\ q[1] = b /\ Follows(1, ip, 0, 0, q)
  <2>1. q \in Seq(CallSet) /\ Len(q) = 1 /\ q[1] = b
    BY <1>3, One
  <2> HIDE DEF q, ip
  <2>2. Follows(1, ip, 0, 0, q)
    BY <2>1, <1>3, FirstCall DEF ip
  <2> QED BY <2>1, <2>2
<1>6. /\ run' \in Seq(CallSet) /\ Len(run') = 2 /\ run'[1] = b /\ run'[2] = a
  <2> DEFINE s == <<b, a>>
  <2>1. s \in Seq(CallSet) /\ Len(s) = 2 /\ s[1] = b /\ s[2] = a
    BY <1>3, <1>4, Two
  <2>2. run' = s
    BY <1>1
  <2> HIDE DEF s
  <2> QED BY <2>1, <2>2
<1> HIDE DEF q
<1>7. MayCall(q, a, 0)
  BY <1>3, <1>4, <1>5 DEF MayCall, Above
<1>8. /\ InProcess(q, a, ip) = ip /\ RuleWith(q, a, 0) = 0 /\ Own(a) = 0 /\ Apply(a) = 1
  BY <1>4 DEF InProcess, RuleWith, Sets, Own, Apply, Owns
<1>9. Follows(1 + Own(a), InProcess(q, a, ip), 0 + Apply(a), RuleWith(q, a, 0), run')
  <2>1. Alike(q, run', Len(q)) /\ Len(run') = Len(q) + 1 /\ run'[Len(run')] = a /\ Len(q) > 0
    BY <1>5, <1>6 DEF Alike
  <2>2. ip \in Seq(VarNames)
    OBVIOUS
  <2> DEFINE one == 1
             zero == 0
  <2>3. one \in Nat /\ zero \in Int
    OBVIOUS
  <2> HIDE DEF ip, one, zero
  <2>4. Follows(one + Own(a), InProcess(q, a, ip), zero + Apply(a), RuleWith(q, a, zero), run')
    <3>1. Follows(one, ip, zero, zero, q) /\ MayCall(q, a, zero)
      BY <1>5, <1>7 DEF one, zero
    <3> QED BY <2>1, <2>2, <2>3, <3>1, <1>5, <1>6, FollowsPush
  <2> QED BY <2>4 DEF one, zero
<1>10. Follows(Len(frames'), inProcess', nested', rule', run')
  <2>1. Len(frames') = 1 /\ rule' = 0 /\ nested' = 1
    <3>1. Top = 1 /\ rule = 0 /\ nested = 0 /\ Top = Len(frames)
      BY <1>2 DEF Top
    <3>2. frames' = frames /\ rule' = rule /\ nested' = nested + 1
      BY <1>1
    <3> QED BY <3>1, <3>2
  <2>2. 1 + Own(a) = 1 /\ 0 + Apply(a) = 1
    BY <1>8
  <2> QED BY <2>1, <2>2, <1>1, <1>8, <1>9
<1>11. frames' \in Seq(FrameSet) /\ inProcess' \in Seq(VarNames)
  BY <1>1 DEF StacksInv, TypeOK
<1>12. nested' \in Int /\ rule' \in Nat /\ error' = error
  <2>1. nested' = nested + 1 /\ rule' = rule /\ error' = error
    BY <1>1
  <2>2. nested' \in Int
    <3>1. nested \in Int
      BY DEF StacksInv, TypeOK
    <3> QED BY <3>1, <2>1
  <2>3. rule' \in Nat
    <3>1. rule \in Nat
      BY DEF StacksInv, TypeOK
    <3> QED BY <3>1, <2>1
  <2> QED BY <2>1, <2>2, <2>3
<1> QED BY <1>6, <1>10, <1>11, <1>12, StepFollows

\* Reading the stylesheet declares top-level variables.
LEMMA LoadKeeps ==
  ASSUME StacksInv, Load, UNCHANGED xsltVars PROVE StacksInv'
<1>1. Globals' \subseteq VarNames
  <2>1. Globals \subseteq VarNames
    BY DEF StacksInv, TypeOK
  <2>2. ASSUME UNCHANGED toplevel PROVE Globals' \subseteq VarNames
    BY <2>1, <2>2 DEF Globals
  <2>3. ASSUME NEW x \in VarNames, NEW kind \in {"variable", "param"}, TopLevelVariable(x, kind)
        PROVE  Globals' \subseteq VarNames
    <3>1. CASE failed'
      BY <3>1, <2>1, <2>3 DEF TopLevelVariable, Globals
    <3>2. CASE ~failed'
      BY <3>2, <2>1, <2>3 DEF TopLevelVariable, Globals, Put
    <3> QED BY <3>1, <3>2
  <2>4. (Import \/ Include \/ EndOfSheet) => UNCHANGED toplevel
    BY DEF Import, Include, EndOfSheet, Nest, tables
  <2>5. \A u \in TemplateDecls : AddTemplate(u) => UNCHANGED toplevel
    BY DEF AddTemplate
  <2>6. \A x \in Names : NameTemplate(x) \/ NamespaceAlias(x) => UNCHANGED toplevel
    BY DEF NameTemplate, NamespaceAlias
  <2>7. \A strip \in BOOLEAN, x \in Names \cup {"*"} : Space(strip, x) => UNCHANGED toplevel
    BY DEF Space
  <2> QED BY <2>2, <2>3, <2>4, <2>5, <2>6, <2>7 DEF Load
<1>2. UNCHANGED <<frames, inProcess, nested, rule, error, run>>
  BY DEF xsltVars
<1>3. TypeOK'
  BY <1>1, <1>2 DEF StacksInv, TypeOK
<1>4. Follows(Top', inProcess', nested', rule', run')
  BY <1>2 DEF StacksInv, Top
<1> QED BY <1>3, <1>4 DEF StacksInv

(* -------------------------------- the theorem ----------------------------- *)
\* Every step keeps the invariant.
LEMMA TransformKeeps ==
  ASSUME StacksInv, Transform, UNCHANGED sheetVars PROVE StacksInv'
<1>1. ASSUME NEW passed \in SUBSET Globals, Start(passed) PROVE StacksInv'
  BY <1>1, StartKeeps
<1>2. CASE EndOfGlobals
  BY <1>2, EndOfGlobalsKeeps
<1>3. CASE Finish
  BY <1>3, FinishKeeps
<1>4. CASE Fail
  <2>1. Going /\ Raise("other", TRUE)
    BY <1>4 DEF Fail
  <2> QED BY <2>1, RaiseKeeps
<1>5. ASSUME NEW x \in VarNames, NEW how \in {"select", "content"},
             EvaluateGlobal(x, how) \/ Use(x, how) \/ DeclareVariable(x, how) \/ PassParam(x, how)
      PROVE  StacksInv'
  <2>1. CASE EvaluateGlobal(x, how)
    BY <2>1, EvaluateGlobalKeeps
  <2>2. CASE Use(x, how)
    BY <2>2, UseKeeps
  <2>3. CASE DeclareVariable(x, how)
    BY <2>3, DeclareVariableKeeps
  <2>4. CASE PassParam(x, how)
    BY <2>4, PassParamKeeps
  <2> QED BY <1>5, <2>1, <2>2, <2>3, <2>4
<1>6. ASSUME NEW x \in VarNames, DeclareParam(x) PROVE StacksInv'
  BY <1>6, DeclareParamKeeps
<1>7. CASE Enter
  BY <1>7, EnterKeeps
<1>8. CASE ForEach
  BY <1>8, ForEachKeeps
<1>9. CASE Again
  BY <1>9, AgainKeeps
<1>10. CASE EndOfValue
  BY <1>10, EndOfValueKeeps
<1>11. CASE CallTemplate
  BY <1>11, CallTemplateKeeps
<1>12. CASE StartOfTemplate
  BY <1>12, StartOfTemplateKeeps
<1>13. CASE ApplyTemplates
  BY <1>13, ApplyTemplatesKeeps
<1>14. CASE NextNode
  BY <1>14, NextNodeKeeps
<1>15. CASE EndOfApply
  BY <1>15, EndOfApplyKeeps
<1>16. CASE ApplyImports
  BY <1>16, ApplyImportsKeeps
<1>17. CASE Leave
  BY <1>17, LeaveKeeps
<1> QED BY <1>1, <1>2, <1>3, <1>4, <1>5, <1>6, <1>7, <1>8, <1>9, <1>10, <1>11, <1>12, <1>13,
           <1>14, <1>15, <1>16, <1>17 DEF Transform

\* StacksInv is inductive,
LEMMA StepKeeps == StacksInv /\ [Next]_vars => StacksInv'
<1> SUFFICES ASSUME StacksInv, [Next]_vars PROVE StacksInv'
  OBVIOUS
<1>1. CASE Load /\ UNCHANGED xsltVars
  BY <1>1, LoadKeeps
<1>2. CASE Transform /\ UNCHANGED sheetVars
  BY <1>2, TransformKeeps
<1>3. CASE UNCHANGED vars
  <2>1. UNCHANGED <<frames, inProcess, nested, rule, error, run, toplevel>>
    BY <1>3 DEF vars, xsltVars, sheetVars, tables
  <2>2. TypeOK'
    BY <2>1 DEF StacksInv, TypeOK, Globals
  <2> QED BY <2>1, <2>2 DEF StacksInv, Top
<1> QED BY <1>1, <1>2, <1>3 DEF Next

\* and holds initially.
LEMMA AtFirst == XSLTInit => StacksInv
<1> SUFFICES ASSUME XSLTInit PROVE StacksInv
  OBVIOUS
<1>1. /\ frames = <<>> /\ inProcess = <<>> /\ nested = 0 /\ rule = 0 /\ error = NoError
      /\ run = <<>> /\ toplevel = <<>>
  BY DEF XSLTInit, Init
<1>2. TypeOK
  <2>1. Globals = {}
    BY <1>1 DEF Globals
  <2>2. error \in [why : Causes, right : BOOLEAN]
    BY <1>1 DEF NoError, Causes
  <2>3. frames \in Seq(FrameSet) /\ inProcess \in Seq(VarNames) /\ run \in Seq(CallSet)
    BY <1>1
  <2> QED BY <1>1, <2>1, <2>2, <2>3 DEF TypeOK
<1>3. Top = 0
  BY <1>1 DEF Top
<1> QED BY <1>1, <1>2, <1>3, NothingGoingOn DEF StacksInv

\* The counts of the invariant are those of the property.
LEMMA StacksFollow == StacksInv => StacksFollowCalls
<1> SUFFICES ASSUME StacksInv PROVE StacksFollowCalls
  OBVIOUS
<1> DEFINE n == Len(run)
<1>1. run \in Seq(CallSet) /\ n \in Nat /\ DOMAIN run = 1 .. n
  BY DEF StacksInv, TypeOK
<1>2. /\ NestedRun(run) /\ Top = Depth(run, n) /\ IsRule(run, n, rule)
      /\ n > 0 => nested = Cardinality(AppliesTo(run, n)) /\ Mirrors(run, inProcess)
  BY DEF StacksInv, Follows
<1> HIDE DEF n
<1>3. Top = Owned(run)
  <2>1. {i \in DOMAIN run : run[i].kind \notin {"select", "apply"}} = OwnedTo(run, n)
    BY <1>1 DEF OwnedTo, Owns
  <2> QED BY <1>2, <2>1 DEF Depth, Owned
<1>4. rule = CurrentRule
  <2>1. \A i : i \in RuleSetters <=> i \in 2 .. n /\ Setter(run, i)
    <3>1. ASSUME NEW i \in RuleSetters PROVE i \in 2 .. n /\ Setter(run, i)
      <4>1. i \in 1 .. n /\ (run[i].kind = "foreach" \/ run[i].of = "imports" \/ Restores(run, i))
        BY <3>1, <1>1 DEF RuleSetters, RestoresRule, Restores
      <4>2. i # 1
        <5>1. n > 0
          BY <4>1, <1>1
        <5>2. run[1].kind \in {"globals", "main"} /\ run[1].of = ""
          BY <5>1, <1>2 DEF NestedRun, n
        <5> QED BY <5>2, <4>1 DEF Restores
      <4>3. i \in 2 .. n
        BY <4>1, <4>2, <1>1
      <4> QED BY <4>1, <4>3 DEF Setter
    <3>2. ASSUME NEW i \in 2 .. n, Setter(run, i) PROVE i \in RuleSetters
      <4>1. i \in DOMAIN run
        BY <1>1
      <4> QED BY <4>1, <3>2 DEF RuleSetters, Setter, RestoresRule, Restores
    <3> QED BY <3>1, <3>2
  <2>2. CASE rule = 0 /\ \A i \in 2 .. n : ~Setter(run, i)
    <3>1. RuleSetters = {}
      BY <2>1, <2>2
    <3> QED BY <2>2, <3>1 DEF CurrentRule
  <2>3. ASSUME NEW i \in 2 .. n, Setter(run, i), \A j \in i + 1 .. n : ~Setter(run, j),
               rule = IF run[i].kind = "foreach" THEN 0 ELSE i
        PROVE  rule = CurrentRule
    <3>1. i \in RuleSetters
      BY <2>1, <2>3
    <3>2. \A j \in RuleSetters : j <= i /\ j \in Nat
      <4> SUFFICES ASSUME NEW j \in RuleSetters PROVE j <= i /\ j \in Nat
        OBVIOUS
      <4>1. j \in 2 .. n /\ Setter(run, j)
        BY <2>1
      <4> QED BY <4>1, <2>3, <1>1
    <3>3. (CHOOSE k \in RuleSetters : \A j \in RuleSetters : j <= k) = i
      <4> DEFINE P(k) == \A j \in RuleSetters : j <= k
                 m == CHOOSE k \in RuleSetters : P(k)
      <4>1. P(i)
        BY <3>2
      <4>2. m \in RuleSetters /\ P(m)
        <5> HIDE DEF P
        <5> QED BY <3>1, <4>1
      <4>3. m <= i /\ i <= m /\ m \in Nat /\ i \in Nat
        BY <4>2, <3>1, <3>2
      <4>4. m = i
        <5> HIDE DEF m
        <5> QED BY <4>3
      <4> QED BY <4>4
    <3> DEFINE m == CHOOSE k \in RuleSetters : \A j \in RuleSetters : j <= k
    <3>4. CurrentRule = IF RuleSetters = {} THEN 0 ELSE IF run[m].kind = "foreach" THEN 0 ELSE m
      BY DEF CurrentRule
    <3>5. m = i /\ RuleSetters # {}
      BY <3>3, <3>1
    <3> HIDE DEF m
    <3> QED BY <3>4, <3>5, <2>3
  <2> QED BY <1>2, <2>2, <2>3 DEF IsRule
<1>5. ASSUME Going
      PROVE  /\ nested = Cardinality({i \in DOMAIN run : run[i].kind \in {"apply", "applied"}})
             /\ run[1].kind = "main" => inProcess = <<>>
             /\ run[1].kind = "globals" /\ Len(run) > 1 =>
                  /\ Len(inProcess) = Cardinality(Evaluations)
                  /\ \A i \in Evaluations : inProcess[Since(i)] = run[i].var
  <2>1. n > 0
    BY <1>1, <1>5 DEF Going, n
  <2>2. nested = Cardinality(AppliesTo(run, n)) /\ Mirrors(run, inProcess)
    BY <1>2, <2>1
  <2>3. {i \in DOMAIN run : run[i].kind \in {"apply", "applied"}} = AppliesTo(run, n)
    BY <1>1 DEF AppliesTo
  <2>4. Evaluations = EvaluatesTo(run, Len(run))
    BY <1>1 DEF EvaluatesTo, Evaluations, n
  <2>5. \A i : Since(i) = SinceIn(run, i)
    BY <2>4 DEF Since, SinceIn
  <2>6. /\ run[1].kind = "main" => inProcess = <<>>
        /\ run[1].kind = "globals" /\ Len(run) > 1 =>
             /\ Len(inProcess) = Cardinality(EvaluatesTo(run, Len(run)))
             /\ \A i \in EvaluatesTo(run, Len(run)) : inProcess[SinceIn(run, i)] = run[i].var
    BY <2>2 DEF Mirrors
  <2> QED BY <2>2, <2>3, <2>4, <2>5, <2>6, Zenon
<1> QED BY <1>3, <1>4, <1>5 DEF StacksFollowCalls

\* StacksInv holds in every state of every transformation.
THEOREM Invariance == Spec => []StacksInv
<1>1. StacksInv /\ [Next]_vars => StacksInv'
  BY StepKeeps
<1> QED BY <1>1, AtFirst, PTL DEF Spec

\* Whatever way a call of the processor ends - its last instruction, an error, a
\* node that is applied again - the frames, the depth of xsl:apply-templates, the
\* variables in process and the current template rule are those of its caller
\* (domxslt.c: ApplyTemplates, ApplyTemplate, ExecAction, evalXPath, setParamVars).
THEOREM StacksReturn == Spec => []StacksFollowCalls
BY Invariance, StacksFollow, PTL

(* ------------------------------- the scopes -------------------------------- *)
\* That a variable is looked up where the nesting of the instructions says is not
\* inductive by itself: when a call ends, its caller sees its own variables again
\* only if every call in progress, not the last one alone, has in the frames below
\* it what its scope says.  LexInv says that of each of them.
\*
\* Of a frame f: it has no variable x, only top-level ones, no local x, no active one.
Lacks(f, x) == \A q \in DOMAIN f.vars : f.vars[q].name # x
AllGlobal(f) == \A q \in DOMAIN f.vars : f.vars[q].decl = "global"
OnlyGlobal(f, x) == \A q \in DOMAIN f.vars : f.vars[q].name = x => f.vars[q].decl = "global"
Inactive(f) == \A q \in DOMAIN f.vars : ~f.vars[q].active

\* It holds x, and as a parameter or local variable only.
Given(f, x) ==
  /\ ~Lacks(f, x)
  /\ \A q \in DOMAIN f.vars : f.vars[q].name = x => f.vars[q].decl = "local"

\* It holds the parameters xs and nothing else.
Passes(f, xs) ==
  /\ \A q \in DOMAIN f.vars : f.vars[q].decl = "local" /\ f.vars[q].name \in xs
  /\ \A x \in xs : ~Lacks(f, x)

\* Of k frames, those of the instructions around the last one in its template, or
\* in the evaluation of a top-level variable.
Seen(fs, k) == {j \in 1 .. k : fs[j].stop # 2 /\ \A m \in j + 1 .. k : fs[m].stop # 1}

\* None of them has a local variable.
SeesGlobals(fs, k) == \A j \in Seen(fs, k) : AllGlobal(fs[j])

\* A lookup of x in k frames finds the local variable at this place.
Binds(fs, k, x, j, p) ==
  /\ j \in Seen(fs, k) /\ p \in DOMAIN fs[j].vars
  /\ fs[j].vars[p].name = x /\ fs[j].vars[p].active /\ fs[j].vars[p].decl = "local"
  /\ \A q \in 1 .. p - 1 : fs[j].vars[q].name # x
  /\ \A m \in Seen(fs, k) : m > j => Lacks(fs[m], x)

\* Lookups in k frames find what the scope env says, but for the parameters pending.
Scoped(fs, k, env, pending) ==
  \A x \in VarNames :
    IF env[x] # NoVar THEN Binds(fs, k, x, env[x][1], env[x][2])
    ELSE x \in pending \/ \A j \in Seen(fs, k) : OnlyGlobal(fs[j], x)

\* The mark on the frame of a call, and the frames it sees: one kept for the next
\* node is not among them.
StopOf(a) == IF a.kind \in {"template", "applied"} THEN 1 ELSE IF a.kind = "params" THEN 2 ELSE 0
Sees(a, d) == IF a.kind = "applied" THEN d - 1 ELSE d

\* A call a of d frames on top of the call b of c frames: its own frame has its mark
\* and what was passed to it, it sees its scope, only a template waits for
\* parameters, and where the value of a variable goes there is room for it.
Well(fs, d, a, c, b, G) ==
  /\ Owns(a) => fs[d].stop = StopOf(a)
  /\ Scoped(fs, Sees(a, d), a.env, a.pending)
  /\ a.pending # {} => a.kind = "template" /\ \A x \in a.pending : Given(fs[d], x)
  /\ a.kind \notin {"globals", "main"} => b.pending = {}
  /\ a.kind \in {"params", "applied"} => Passes(fs[d], a.passed)
  /\ a.kind = "template" /\ b.kind = "apply" /\ ~fs[d].polluted => Passes(fs[d], b.passed)
  /\ a.kind = "foreach" /\ ~fs[d].polluted => fs[d].vars = <<>>
  /\ a.of = "global" => a.var \in G /\ fs[c].stop # 2 /\ SeesGlobals(fs, c)
  /\ a.of = "local" => a.kind = "content" /\ b.kind \in Body \cup {"params"}
  /\ a.of = "local" /\ b.kind # "params" => Lacks(fs[c], a.var)

\* The frames as such; phase is the kind of the first call, G the top-level variables.
Base(fs, phase, G) ==
  /\ Len(fs) > 0 /\ fs[1].stop = 0
  /\ \A q \in DOMAIN fs[1].vars : fs[1].vars[q].active /\ fs[1].vars[q].decl = "global"
  /\ \A m \in DOMAIN fs : fs[m].stop = 2 => Inactive(fs[m])
  /\ \A m \in DOMAIN fs : \A q \in DOMAIN fs[m].vars :
        fs[m].vars[q].decl = "global" => fs[m].vars[q].name \in G /\ (phase = "main" => m = 1)
  /\ phase = "main" => \A x \in G : ~Lacks(fs[1], x)

\* All calls of a run.
Lex(fs, r, G) ==
  Len(r) > 0 =>
    /\ Base(fs, r[1].kind, G)
    /\ \A i \in 1 .. Len(r) : Well(fs, Depth(r, i), r[i], Depth(r, i - 1), r[i - 1], G)

\* The inductive invariant, for stylesheets that are Untangled.
LexInv ==
  /\ Lex(frames, run, Globals) /\ error.right /\ (run # <<>> => open = <<>>)

\* The first k frames are the same.
Agree(fs, gs, k) == \A j \in 1 .. k : gs[j] = fs[j]

\* Whether a frame is seen depends on the frames up to the last one.
LEMMA SeenAgree ==
  ASSUME NEW fs, NEW gs, NEW k \in Nat, Agree(fs, gs, k)
  PROVE  Seen(gs, k) = Seen(fs, k)
<1>1. ASSUME NEW j \in 1 .. k PROVE /\ gs[j] = fs[j]
                                    /\ \A m \in j + 1 .. k : m \in 1 .. k /\ gs[m] = fs[m]
  BY DEF Agree
<1> QED BY <1>1 DEF Seen

\* A frame that is seen is one of them, and not one of parameters.
LEMMA SeenFrames ==
  ASSUME NEW fs, NEW k \in Nat, NEW j \in Seen(fs, k)
  PROVE  j \in 1 .. k /\ j \in Nat /\ fs[j].stop # 2
BY DEF Seen

\* One frame more: it is seen as well, or alone, or not at all.
LEMMA SeenNext ==
  ASSUME NEW fs, NEW k \in Nat
  PROVE  /\ fs[k + 1].stop = 0 => Seen(fs, k + 1) = Seen(fs, k) \cup {k + 1}
         /\ fs[k + 1].stop = 1 => Seen(fs, k + 1) = {k + 1}
         /\ fs[k + 1].stop = 2 => Seen(fs, k + 1) = Seen(fs, k)
<1>1. k + 1 \in 1 .. k + 1 /\ (k + 1) + 1 .. k + 1 = {}
  OBVIOUS
<1>2. fs[k + 1].stop # 2 => k + 1 \in Seen(fs, k + 1)
  BY <1>1 DEF Seen
<1>3. fs[k + 1].stop = 2 => k + 1 \notin Seen(fs, k + 1)
  BY DEF Seen
<1>4. ASSUME NEW j \in 1 .. k PROVE j \in Seen(fs, k + 1) <=> j \in Seen(fs, k) /\ fs[k + 1].stop # 1
  <2>1. \A m : m \in j + 1 .. k + 1 <=> m \in j + 1 .. k \/ m = k + 1
    OBVIOUS
  <2>2. j \in 1 .. k + 1
    OBVIOUS
  <2> QED BY <2>1, <2>2 DEF Seen
<1>5. /\ \A j \in Seen(fs, k + 1) : j \in 1 .. k \/ j = k + 1
      /\ \A j \in Seen(fs, k) : j \in 1 .. k
  BY DEF Seen
<1> QED BY <1>2, <1>3, <1>4, <1>5

\* The last frame is seen unless it is one of parameters.
LEMMA SeenTop ==
  ASSUME NEW fs, NEW k \in Nat \ {0}, fs[k].stop # 2
  PROVE  k \in Seen(fs, k)
BY DEF Seen

(* ------------------------- what a step does to scopes ---------------------- *)
LEMMA ScopedAgree ==
  ASSUME NEW fs, NEW gs, NEW k \in Nat, Agree(fs, gs, k), NEW env, NEW pending,
         Scoped(fs, k, env, pending)
  PROVE  Scoped(gs, k, env, pending)
<1>1. Seen(gs, k) = Seen(fs, k) /\ \A j \in Seen(fs, k) : gs[j] = fs[j]
  BY SeenAgree DEF Seen, Agree
<1>2. ASSUME NEW x, NEW j, NEW p, Binds(fs, k, x, j, p) PROVE Binds(gs, k, x, j, p)
  BY <1>1, <1>2 DEF Binds
<1> QED BY <1>1, <1>2 DEF Scoped

\* A frame is pushed, or emptied, that hides nothing and has nothing.
LEMMA ScopedEmpty ==
  ASSUME NEW fs, NEW gs, NEW k \in Nat, Agree(fs, gs, k), NEW env, NEW pending,
         Scoped(fs, k, env, pending), gs[k + 1].stop = 0, gs[k + 1].vars = <<>>
  PROVE  Scoped(gs, k + 1, env, pending)
<1>1. Scoped(gs, k, env, pending)
  BY ScopedAgree
<1>2. Seen(gs, k + 1) = Seen(gs, k) \cup {k + 1}
  BY SeenNext
<1>3. \A x : Lacks(gs[k + 1], x) /\ OnlyGlobal(gs[k + 1], x)
  BY DEF Lacks, OnlyGlobal
<1>4. ASSUME NEW x, NEW j, NEW p, Binds(gs, k, x, j, p) PROVE Binds(gs, k + 1, x, j, p)
  BY <1>2, <1>3, <1>4 DEF Binds
<1> QED BY <1>1, <1>2, <1>3, <1>4 DEF Scoped

\* A frame of parameters is pushed.
LEMMA ScopedParams ==
  ASSUME NEW fs, NEW gs, NEW k \in Nat, Agree(fs, gs, k), NEW env, NEW pending,
         Scoped(fs, k, env, pending), gs[k + 1].stop = 2
  PROVE  Scoped(gs, k + 1, env, pending)
<1>1. Scoped(gs, k, env, pending)
  BY ScopedAgree
<1>2. Seen(gs, k + 1) = Seen(gs, k)
  BY SeenNext
<1> QED BY <1>1, <1>2 DEF Scoped, Binds

\* A template begins: it sees the parameters it declares, and nothing else.
LEMMA ScopedTemplate ==
  ASSUME NEW gs, NEW k \in Nat, NEW pending, gs[k + 1].stop = 1,
         \A x \in VarNames : x \in pending \/ OnlyGlobal(gs[k + 1], x)
  PROVE  Scoped(gs, k + 1, NoLocals, pending)
<1>1. Seen(gs, k + 1) = {k + 1}
  BY SeenNext
<1> QED BY <1>1 DEF Scoped, NoLocals

\* Where only top-level variables are seen no other is in scope.
LEMMA GlobalScope ==
  ASSUME NEW fs, NEW k \in Nat, NEW env, NEW pending, Scoped(fs, k, env, pending), SeesGlobals(fs, k)
  PROVE  \A x \in VarNames : env[x] = NoVar
<1> SUFFICES ASSUME NEW x \in VarNames, env[x] # NoVar PROVE FALSE
  OBVIOUS
<1>1. Binds(fs, k, x, env[x][1], env[x][2])
  BY DEF Scoped
<1> QED BY <1>1 DEF Binds, SeesGlobals, AllGlobal

\* ... and conversely.
LEMMA GlobalsScoped ==
  ASSUME NEW fs, NEW k \in Nat, NEW env, NEW pending, \A x \in VarNames : env[x] = NoVar,
         SeesGlobals(fs, k)
  PROVE  Scoped(fs, k, env, pending)
BY DEF Scoped, SeesGlobals, AllGlobal, OnlyGlobal

\* The last frame gets the variable v.
Gets(fs, gs, k, v) ==
  /\ Agree(fs, gs, k - 1) /\ gs[k].stop = fs[k].stop
  /\ gs[k].vars = Append(fs[k].vars, v)

\* The variables of a frame that gets one more.
LEMMA GetsVars ==
  ASSUME NEW f \in FrameSet, NEW g, NEW v, g.vars = Append(f.vars, v)
  PROVE  /\ DOMAIN g.vars = 1 .. Len(f.vars) + 1 /\ DOMAIN f.vars = 1 .. Len(f.vars)
         /\ Len(f.vars) \in Nat /\ g.vars[Len(f.vars) + 1] = v
         /\ \A q \in DOMAIN f.vars : q \in DOMAIN g.vars /\ g.vars[q] = f.vars[q]
         /\ \A q \in DOMAIN g.vars : q \in DOMAIN f.vars \/ q = Len(f.vars) + 1
         /\ \A p \in DOMAIN f.vars : \A q \in 1 .. p - 1 : q \in DOMAIN f.vars
BY DEF FrameSet

\* What their names and kinds say stays so, but for the new name.
LEMMA GetsNames ==
  ASSUME NEW f \in FrameSet, NEW g, NEW v, g.vars = Append(f.vars, v)
  PROVE  /\ \A y : v.name # y /\ OnlyGlobal(f, y) => OnlyGlobal(g, y)
         /\ \A y : v.name # y /\ Lacks(f, y) => Lacks(g, y)
         /\ AllGlobal(f) /\ v.decl = "global" => AllGlobal(g)
<1> DEFINE n == Len(f.vars) + 1
<1>1. /\ \A q \in DOMAIN f.vars : g.vars[q] = f.vars[q]
      /\ \A q \in DOMAIN g.vars : q \in DOMAIN f.vars \/ q = n
      /\ g.vars[n] = v
  BY GetsVars
<1> HIDE DEF n
<1>2. ASSUME NEW y, v.name # y, OnlyGlobal(f, y) PROVE OnlyGlobal(g, y)
  BY <1>1, <1>2, Zenon DEF OnlyGlobal
<1>3. ASSUME NEW y, v.name # y, Lacks(f, y) PROVE Lacks(g, y)
  BY <1>1, <1>3, Zenon DEF Lacks
<1>4. ASSUME AllGlobal(f), v.decl = "global" PROVE AllGlobal(g)
  BY <1>1, <1>4, Zenon DEF AllGlobal
<1> QED BY <1>2, <1>3, <1>4

\* A new variable hides no frame.
LEMMA SeenGets ==
  ASSUME NEW fs, NEW gs, NEW k \in Nat \ {0}, NEW v, Gets(fs, gs, k, v)
  PROVE  /\ Seen(gs, k) = Seen(fs, k)
         /\ \A j \in Seen(fs, k) : j # k => gs[j] = fs[j]
<1>1. \A j \in 1 .. k : gs[j].stop = fs[j].stop /\ (j # k => gs[j] = fs[j])
  BY DEF Gets, Agree
<1>2. ASSUME NEW j \in 1 .. k PROVE \A m \in j + 1 .. k : m \in 1 .. k
  OBVIOUS
<1> QED BY <1>1, <1>2 DEF Seen

\* A local variable is declared.
LEMMA ScopedLocal ==
  ASSUME NEW fs \in Seq(FrameSet), NEW gs, NEW k \in Nat \ {0}, k <= Len(fs), NEW v,
         Gets(fs, gs, k, v), NEW env \in [VarNames -> Place], NEW pending, NEW x \in VarNames,
         Scoped(fs, k, env, pending), fs[k].stop # 2, Lacks(fs[k], x),
         v.name = x, v.active, v.decl = "local",
         NEW env2, env2 = [env EXCEPT ![x] = <<k, Len(fs[k].vars) + 1>>],
         NEW pending2, pending \ {x} \subseteq pending2
  PROVE  Scoped(gs, k, env2, pending2)
<1> DEFINE n == Len(fs[k].vars) + 1
<1>0. fs[k] \in FrameSet /\ gs[k].vars = Append(fs[k].vars, v)
  BY DEF Gets
<1>1. /\ n \in DOMAIN gs[k].vars /\ gs[k].vars[n] = v /\ n \in Nat \ {0}
      /\ \A q \in 1 .. n - 1 : q \in DOMAIN fs[k].vars
  <2> DEFINE f == fs[k]
             g == gs[k]
  <2>1. f \in FrameSet /\ g.vars = Append(f.vars, v)
    BY <1>0
  <2> HIDE DEF f, g
  <2>2. /\ DOMAIN g.vars = 1 .. Len(f.vars) + 1 /\ DOMAIN f.vars = 1 .. Len(f.vars)
        /\ Len(f.vars) \in Nat /\ g.vars[Len(f.vars) + 1] = v
    BY <2>1, GetsVars
  <2>3. /\ Len(f.vars) + 1 \in DOMAIN g.vars /\ Len(f.vars) + 1 \in Nat \ {0}
        /\ \A q \in 1 .. (Len(f.vars) + 1) - 1 : q \in DOMAIN f.vars
    BY <2>2
  <2> QED BY <2>2, <2>3 DEF f, g
<1>7. /\ \A q \in DOMAIN fs[k].vars : q \in DOMAIN gs[k].vars /\ gs[k].vars[q] = fs[k].vars[q]
      /\ \A p \in DOMAIN fs[k].vars : \A q \in 1 .. p - 1 : q \in DOMAIN fs[k].vars
  BY <1>0, GetsVars, SMTT(40)
<1> HIDE DEF n
<1>2. Seen(gs, k) = Seen(fs, k) /\ \A j \in Seen(fs, k) : j # k => gs[j] = fs[j]
  BY SeenGets
<1>3. k \in Seen(fs, k) /\ \A j \in Seen(fs, k) : j \in Nat /\ j <= k
  BY SeenTop, SeenFrames
<1>4. Binds(gs, k, x, k, n)
  <2>1. gs[k].vars[n].name = x /\ gs[k].vars[n].active /\ gs[k].vars[n].decl = "local"
    BY <1>1, Zenon
  <2>2. \A q \in 1 .. n - 1 : gs[k].vars[q].name # x
    <3>1. \A q \in 1 .. n - 1 : gs[k].vars[q] = fs[k].vars[q]
      BY <1>1, <1>7, Zenon
    <3> QED BY <1>1, <3>1, ZenonT(40) DEF Lacks
  <2>3. \A m \in Seen(gs, k) : ~(m > k)
    BY <1>2, <1>3
  <2>4. n \in DOMAIN gs[k].vars /\ k \in Seen(gs, k)
    BY <1>1, <1>2, <1>3
  <2> QED BY <2>1, <2>2, <2>3, <2>4, Zenon DEF Binds
<1>5. env2[x] = <<k, n>> /\ <<k, n>> # NoVar /\ \A y \in VarNames : y # x => env2[y] = env[y]
  BY DEF NoVar, n
<1>6. ASSUME NEW y \in VarNames, y # x
      PROVE  IF env[y] # NoVar THEN Binds(gs, k, y, env[y][1], env[y][2])
             ELSE y \in pending2 \/ \A j \in Seen(gs, k) : OnlyGlobal(gs[j], y)
  <2>1. OnlyGlobal(fs[k], y) => OnlyGlobal(gs[k], y)
    BY <1>0, <1>6, GetsNames, Zenon
  <2>2. Lacks(fs[k], y) => Lacks(gs[k], y)
    BY <1>0, <1>6, GetsNames, Zenon
  <2>3. ASSUME NEW j, NEW p, Binds(fs, k, y, j, p) PROVE Binds(gs, k, y, j, p)
    <3>1. CASE j = k
      <4>1. p \in DOMAIN fs[k].vars /\ p \in DOMAIN gs[k].vars /\ gs[k].vars[p] = fs[k].vars[p]
        <5>1. p \in DOMAIN fs[k].vars
          BY <3>1, <2>3, Zenon DEF Binds
        <5> QED BY <5>1, <1>7, Zenon
      <4>2. \A q \in 1 .. p - 1 : q \in DOMAIN fs[k].vars /\ gs[k].vars[q] = fs[k].vars[q]
        BY <4>1, <1>7, Zenon
      <4>3. \A m \in Seen(gs, k) : m > j => Lacks(gs[m], y)
        BY <3>1, <1>2, <1>3
      <4>4. /\ fs[k].vars[p].name = y /\ fs[k].vars[p].active /\ fs[k].vars[p].decl = "local"
            /\ \A q \in 1 .. p - 1 : fs[k].vars[q].name # y
        BY <3>1, <2>3, Zenon DEF Binds
      <4>5. \A q \in 1 .. p - 1 : gs[k].vars[q].name # y
        BY <4>2, <4>4, Zenon
      <4>6. gs[k].vars[p].name = y /\ gs[k].vars[p].active /\ gs[k].vars[p].decl = "local"
        BY <4>1, <4>4, Zenon
      <4>7. j \in Seen(gs, k)
        BY <3>1, <1>2, <1>3
      <4> QED BY <3>1, <4>1, <4>3, <4>5, <4>6, <4>7, Zenon DEF Binds
    <3>2. CASE j # k
      <4>1. j \in Seen(fs, k) /\ gs[j] = fs[j]
        BY <3>2, <2>3, <1>2 DEF Binds
      <4>2. \A m \in Seen(gs, k) : m > j => Lacks(gs[m], y)
        <5>1. \A m \in Seen(fs, k) : m > j => Lacks(fs[m], y)
          BY <2>3 DEF Binds
        <5> QED BY <5>1, <2>2, <1>2
      <4> QED BY <2>3, <4>1, <4>2, <1>2 DEF Binds
    <3> QED BY <3>1, <3>2
  <2>4. CASE env[y] # NoVar
    BY <2>4, <2>3 DEF Scoped
  <2>5. CASE env[y] = NoVar
    <3>1. y \in pending \/ \A j \in Seen(fs, k) : OnlyGlobal(fs[j], y)
      BY <2>5 DEF Scoped
    <3>2. CASE y \in pending
      BY <3>2, <2>5, <1>6
    <3>3. CASE \A j \in Seen(fs, k) : OnlyGlobal(fs[j], y)
      BY <3>3, <2>1, <2>5, <1>2
    <3> QED BY <3>1, <3>2, <3>3
  <2> QED BY <2>4, <2>5
<1>8. ASSUME NEW y \in VarNames
      PROVE  IF env2[y] # NoVar THEN Binds(gs, k, y, env2[y][1], env2[y][2])
             ELSE y \in pending2 \/ \A j \in Seen(gs, k) : OnlyGlobal(gs[j], y)
  <2>1. CASE y = x
    BY <2>1, <1>4, <1>5
  <2>2. CASE y # x
    <3>1. env2[y] = env[y]
      BY <1>5, <2>2
    <3> QED BY <3>1, <1>6, <2>2
  <2> QED BY <2>1, <2>2
<1> QED BY <1>8 DEF Scoped

\* A top-level variable gets its value where only such variables are seen.
LEMMA SeesGlobalsGets ==
  ASSUME NEW fs \in Seq(FrameSet), NEW gs, NEW k \in Nat \ {0}, k <= Len(fs), NEW v,
         Gets(fs, gs, k, v), v.decl = "global", SeesGlobals(fs, k)
  PROVE  SeesGlobals(gs, k)
<1>1. Seen(gs, k) = Seen(fs, k) /\ \A j \in Seen(fs, k) : j # k => gs[j] = fs[j]
  BY SeenGets
<1>2. AllGlobal(fs[k]) => AllGlobal(gs[k])
  <2>1. fs[k] \in FrameSet /\ gs[k].vars = Append(fs[k].vars, v)
    BY DEF Gets
  <2> QED BY <2>1, GetsNames
<1> QED BY <1>1, <1>2, Zenon DEF SeesGlobals

\* A frame of parameters gets one more.
LEMMA ScopedHidden ==
  ASSUME NEW fs, NEW gs, NEW k \in Nat \ {0}, NEW env, NEW pending, Scoped(fs, k, env, pending),
         Agree(fs, gs, k - 1), gs[k].stop = 2, fs[k].stop = 2
  PROVE  Scoped(gs, k, env, pending)
<1>1. k - 1 \in Nat /\ (k - 1) + 1 = k
  OBVIOUS
<1>2. Seen(fs, k) = Seen(fs, k - 1)
  BY <1>1, SeenNext
<1>3. Scoped(fs, k - 1, env, pending)
  BY <1>2 DEF Scoped, Binds
<1>4. Scoped(gs, (k - 1) + 1, env, pending)
  BY <1>1, <1>3, ScopedParams
<1> QED BY <1>1, <1>4

\* In the last frame some variables have become active.
Shows(fs, gs, k) ==
  /\ Agree(fs, gs, k - 1) /\ gs[k].stop = fs[k].stop
  /\ DOMAIN gs[k].vars = DOMAIN fs[k].vars
  /\ \A q \in DOMAIN fs[k].vars :
        /\ gs[k].vars[q].name = fs[k].vars[q].name /\ gs[k].vars[q].decl = fs[k].vars[q].decl
        /\ fs[k].vars[q].active => gs[k].vars[q].active

\* Nor does one that becomes active.
LEMMA SeenShows ==
  ASSUME NEW fs, NEW gs, NEW k \in Nat \ {0}, Shows(fs, gs, k)
  PROVE  /\ Seen(gs, k) = Seen(fs, k)
         /\ \A j \in Seen(fs, k) : j # k => gs[j] = fs[j]
<1>1. \A j \in 1 .. k : gs[j].stop = fs[j].stop /\ (j # k => gs[j] = fs[j])
  BY DEF Shows, Agree
<1>2. ASSUME NEW j \in 1 .. k PROVE \A m \in j + 1 .. k : m \in 1 .. k
  OBVIOUS
<1> QED BY <1>1, <1>2 DEF Seen

\* A parameter that nobody waits for becomes active.
LEMMA ScopedShows ==
  ASSUME NEW fs \in Seq(FrameSet), NEW gs, NEW k \in Nat \ {0}, k <= Len(fs), Shows(fs, gs, k),
         NEW env, NEW pending, Scoped(fs, k, env, pending)
  PROVE  Scoped(gs, k, env, pending)
<1>1. Seen(gs, k) = Seen(fs, k) /\ \A j \in Seen(fs, k) : j # k => gs[j] = fs[j]
  BY SeenShows
<1>2. /\ \A x : Lacks(fs[k], x) => Lacks(gs[k], x)
      /\ \A x : OnlyGlobal(fs[k], x) => OnlyGlobal(gs[k], x)
  BY Zenon DEF Shows, Lacks, OnlyGlobal
<1>3. /\ \A j \in Seen(fs, k) : \A x : Lacks(fs[j], x) => Lacks(gs[j], x)
      /\ \A j \in Seen(fs, k) : \A x : OnlyGlobal(fs[j], x) => OnlyGlobal(gs[j], x)
  BY <1>1, <1>2, Zenon
<1>4. ASSUME NEW j \in Seen(fs, k), NEW p \in DOMAIN fs[j].vars
      PROVE  /\ p \in DOMAIN gs[j].vars /\ gs[j].vars[p].name = fs[j].vars[p].name
             /\ gs[j].vars[p].decl = fs[j].vars[p].decl
             /\ fs[j].vars[p].active => gs[j].vars[p].active
  BY <1>1, Zenon DEF Shows
<1>5. ASSUME NEW j \in Seen(fs, k), NEW p \in DOMAIN fs[j].vars
      PROVE  \A q \in 1 .. p - 1 : q \in DOMAIN fs[j].vars
  <2>1. j \in 1 .. Len(fs)
    BY SeenFrames
  <2>2. fs[j] \in FrameSet
    BY <2>1
  <2> QED BY <2>2 DEF FrameSet
<1>6. ASSUME NEW x, NEW j, NEW p, Binds(fs, k, x, j, p) PROVE Binds(gs, k, x, j, p)
  <2>1. j \in Seen(fs, k) /\ p \in DOMAIN fs[j].vars
    BY <1>6 DEF Binds
  <2>2. \A q \in 1 .. p - 1 : gs[j].vars[q].name = fs[j].vars[q].name
    BY <2>1, <1>4, <1>5, Zenon
  <2>3. /\ fs[j].vars[p].name = x /\ fs[j].vars[p].active /\ fs[j].vars[p].decl = "local"
        /\ \A q \in 1 .. p - 1 : fs[j].vars[q].name # x
        /\ \A m \in Seen(fs, k) : m > j => Lacks(fs[m], x)
    BY <1>6, Zenon DEF Binds
  <2>4. \A q \in 1 .. p - 1 : gs[j].vars[q].name # x
    BY <2>2, <2>3, Zenon
  <2>5. \A m \in Seen(gs, k) : m > j => Lacks(gs[m], x)
    BY <2>3, <1>1, <1>3, Zenon
  <2>6. /\ p \in DOMAIN gs[j].vars /\ gs[j].vars[p].name = x /\ gs[j].vars[p].active
        /\ gs[j].vars[p].decl = "local" /\ j \in Seen(gs, k)
    <3>1. /\ p \in DOMAIN gs[j].vars /\ gs[j].vars[p].name = fs[j].vars[p].name
          /\ gs[j].vars[p].decl = fs[j].vars[p].decl
          /\ fs[j].vars[p].active => gs[j].vars[p].active
      BY <2>1, <1>4
    <3>2. j \in Seen(gs, k)
      BY <2>1, <1>1
    <3>3. fs[j].vars[p].name = x /\ fs[j].vars[p].active /\ fs[j].vars[p].decl = "local"
      BY <2>3
    <3>4. gs[j].vars[p].active
      BY <3>1, <3>3, Zenon
    <3>5. gs[j].vars[p].name = x /\ gs[j].vars[p].decl = "local"
      BY <3>1, <3>3
    <3> QED BY <3>1, <3>2, <3>4, <3>5
  <2> QED BY <2>4, <2>5, <2>6, Zenon DEF Binds
<1>7. ASSUME NEW x \in VarNames
      PROVE  IF env[x] # NoVar THEN Binds(gs, k, x, env[x][1], env[x][2])
             ELSE x \in pending \/ \A j \in Seen(gs, k) : OnlyGlobal(gs[j], x)
  <2>1. CASE env[x] # NoVar
    <3>1. Binds(fs, k, x, env[x][1], env[x][2])
      BY <2>1 DEF Scoped
    <3> QED BY <2>1, <3>1, <1>6
  <2>2. CASE env[x] = NoVar
    <3>1. x \in pending \/ \A j \in Seen(fs, k) : OnlyGlobal(fs[j], x)
      BY <2>2 DEF Scoped
    <3> QED BY <2>2, <3>1, <1>1, <1>3
  <2> QED BY <2>1, <2>2
<1> QED BY <1>7 DEF Scoped

\* A parameter that was passed is declared.
LEMMA ScopedShown ==
  ASSUME NEW fs \in Seq(FrameSet), NEW gs, NEW k \in Nat \ {0}, k <= Len(fs), Shows(fs, gs, k),
         NEW env \in [VarNames -> Place], NEW pending, Scoped(fs, k, env, pending),
         NEW x \in VarNames, Given(fs[k], x), NEW p \in Nat \ {0}, FirstIn(fs[k], x, TRUE, p),
         gs[k].vars[p].active, fs[k].stop # 2,
         NEW env2, env2 = [env EXCEPT ![x] = <<k, p>>]
  PROVE  Scoped(gs, k, env2, pending \ {x})
<1>1. Scoped(gs, k, env, pending)
  BY ScopedShows
<1>2. Seen(gs, k) = Seen(fs, k) /\ \A j \in Seen(fs, k) : j \in Nat /\ j <= k
  BY SeenShows, SeenFrames
<1>3. k \in Seen(fs, k)
  BY SeenTop
<1>4. /\ p \in DOMAIN fs[k].vars /\ fs[k].vars[p].name = x /\ fs[k].vars[p].decl = "local"
      /\ \A q \in DOMAIN fs[k].vars : fs[k].vars[q].name = x => p <= q
  BY Zenon DEF FirstIn, Given
<1>5. /\ p \in DOMAIN gs[k].vars /\ gs[k].vars[p].name = x /\ gs[k].vars[p].decl = "local"
      /\ \A q \in DOMAIN fs[k].vars : gs[k].vars[q].name = fs[k].vars[q].name
  BY <1>4, Zenon DEF Shows
<1>6. \A q \in 1 .. p - 1 : gs[k].vars[q].name # x
  <2>1. fs[k] \in FrameSet
    OBVIOUS
  <2>2. \A q \in 1 .. p - 1 : q \in DOMAIN fs[k].vars /\ ~(p <= q)
    BY <2>1, <1>4 DEF FrameSet
  <2> QED BY <2>2, <1>4, <1>5, Zenon
<1>7. \A m \in Seen(gs, k) : ~(m > k)
  BY <1>2
<1>8. Binds(gs, k, x, k, p)
  BY <1>2, <1>3, <1>5, <1>6, <1>7, Zenon DEF Binds
<1>9. env2[x] = <<k, p>> /\ <<k, p>> # NoVar /\ \A y \in VarNames : y # x => env2[y] = env[y]
  BY DEF NoVar
<1>10. ASSUME NEW y \in VarNames
       PROVE  IF env2[y] # NoVar THEN Binds(gs, k, y, env2[y][1], env2[y][2])
              ELSE y \in pending \ {x} \/ \A j \in Seen(gs, k) : OnlyGlobal(gs[j], y)
  <2>1. CASE y = x
    BY <2>1, <1>8, <1>9
  <2>2. CASE y # x
    <3>1. env2[y] = env[y]
      BY <1>9, <2>2
    <3> QED BY <3>1, <2>2, <1>1 DEF Scoped
  <2> QED BY <2>1, <2>2
<1> QED BY <1>10 DEF Scoped

(* --------------------------------- lookups --------------------------------- *)
\* xsltGetVar finds the first active variable of that name in the innermost of the
\* frames it visits that has one.
LEMMA GetVarIs ==
  ASSUME frames \in Seq(FrameSet), Top > 0, NEW x \in VarNames
  PROVE  \/ GetVar(x) = NoVar /\ \A i \in Visited : ~Has(frames[i], x, FALSE)
         \/ \E i \in Visited, k \in Nat \ {0} :
              /\ GetVar(x) = <<i, k>> /\ GetVar(x) # NoVar /\ FirstIn(frames[i], x, FALSE, k)
              /\ \A j \in Visited : j > i => ~Has(frames[j], x, FALSE)
<1> DEFINE is == {i \in Visited : Has(frames[i], x, FALSE)}
           i == CHOOSE i \in is : \A j \in is : j <= i
<1>1. is \in SUBSET (1 .. Top) /\ Top \in Nat /\ Top = Len(frames)
  <2>1. Top \in Nat /\ Top = Len(frames)
    BY DEF Top
  <2>2. Bottom \in 1 .. Top
    <3> DEFINE starts == {j \in 2 .. Top : frames[j].stop = 1}
    <3>1. CASE starts = {}
      <4>1. Bottom = 1
        BY <3>1, Zenon DEF Bottom
      <4> QED BY <4>1, <2>1
    <3>2. CASE starts # {}
      <4>1. starts \in SUBSET (1 .. Top)
        BY <2>1
      <4> DEFINE m == CHOOSE j \in starts : \A l \in starts : l <= j
      <4>2. \E j \in starts : \A l \in starts : l <= j
        <5> HIDE DEF starts
        <5> QED BY <4>1, <3>2, <2>1, GreatestNumber
      <4>3. m \in starts
        <5> HIDE DEF starts
        <5> QED BY <4>2
      <4>4. Bottom = m
        BY <3>2, Zenon DEF Bottom
      <4> QED BY <4>1, <4>3, <4>4
    <3> QED BY <3>1, <3>2
  <2>3. Visited \subseteq 1 .. Top
    BY <2>1, <2>2 DEF Visited
  <2> QED BY <2>1, <2>3
<1>2. GetVar(x) = IF is = {} THEN NoVar ELSE <<i, First(frames[i], x, FALSE)>>
  BY DEF GetVar
<1>3. CASE is = {}
  BY <1>2, <1>3
<1>4. CASE is # {}
  <2>1. \E k \in is : \A j \in is : j <= k
    <3> HIDE DEF is
    <3> QED BY <1>1, <1>4, GreatestNumber
  <2>2. i \in is /\ \A j \in is : j <= i
    <3> HIDE DEF is
    <3> QED BY <2>1
  <2>3. frames[i] \in FrameSet /\ Has(frames[i], x, FALSE) /\ i \in Visited /\ i \in Nat \ {0}
    <3>1. i \in Visited /\ Has(frames[i], x, FALSE) /\ i \in 1 .. Top
      <4> HIDE DEF i
      <4> QED BY <2>2, <1>1
    <3> HIDE DEF i, is
    <3>2. frames[i] \in FrameSet
      BY <3>1, <1>1
    <3>3. i \in Nat \ {0}
      BY <3>1, <1>1
    <3> QED BY <3>1, <3>2, <3>3
  <2> DEFINE k == First(frames[i], x, FALSE)
  <2>4. FirstIn(frames[i], x, FALSE, k) /\ k \in Nat \ {0}
    <3> HIDE DEF i
    <3> QED BY <2>3, FirstIs
  <2>5. GetVar(x) = <<i, k>>
    BY <1>2, <1>4
  <2>6. \A j \in Visited : j > i => ~Has(frames[j], x, FALSE)
    <3> TAKE j \in Visited
    <3> SUFFICES ASSUME j > i, Has(frames[j], x, FALSE) PROVE FALSE
      OBVIOUS
    <3>1. j \in is
      OBVIOUS
    <3>2. j <= i /\ j \in 1 .. Top
      BY <3>1, <2>2, <1>1
    <3> QED BY <3>2, <2>3, <1>1
  <2> HIDE DEF i, k, is
  <2>7. GetVar(x) # NoVar
    BY <2>3, <2>5 DEF NoVar
  <2> QED BY <2>3, <2>4, <2>5, <2>6, <2>7
<1> QED BY <1>3, <1>4

\* It visits what the call in progress sees, the outermost frame, and parameters.
LEMMA VisitedIs ==
  ASSUME frames \in Seq(FrameSet), Top > 0, frames[1].stop = 0
  PROVE  /\ 1 \in Visited /\ Seen(frames, Top) \subseteq Visited
         /\ \A i \in Visited : i \in Seen(frames, Top) \/ i = 1 \/ frames[i].stop = 2
         /\ \A i \in Visited : i \in 1 .. Top /\ i \in Nat
<1> DEFINE starts == {i \in 2 .. Top : frames[i].stop = 1}
<1>1. Top \in Nat \ {0} /\ starts \in SUBSET (1 .. Top)
  BY DEF Top
<1>2. /\ Bottom \in 1 .. Top /\ (Bottom > 1 => frames[Bottom].stop = 1)
      /\ \A m \in Bottom + 1 .. Top : frames[m].stop # 1
  <2>1. CASE starts = {}
    <3>1. Bottom = 1
      BY <2>1, Zenon DEF Bottom
    <3>2. \A m \in 2 .. Top : frames[m].stop # 1
      BY <2>1
    <3> QED BY <3>1, <3>2, <1>1
  <2>2. CASE starts # {}
    <3> DEFINE b == CHOOSE i \in starts : \A j \in starts : j <= i
    <3>1. \E i \in starts : \A j \in starts : j <= i
      <4> HIDE DEF starts
      <4> QED BY <1>1, <2>2, GreatestNumber
    <3>2. b \in starts /\ \A j \in starts : j <= b
      <4> HIDE DEF starts
      <4> QED BY <3>1
    <3>3. Bottom = b
      BY <2>2, Zenon DEF Bottom
    <3> HIDE DEF b
    <3>4. \A m \in b + 1 .. Top : frames[m].stop # 1
      <4> SUFFICES ASSUME NEW m \in b + 1 .. Top, frames[m].stop = 1 PROVE FALSE
        OBVIOUS
      <4>1. b \in 2 .. Top
        BY <3>2
      <4>2. m \in starts
        BY <4>1, <1>1
      <4> QED BY <4>1, <4>2, <3>2, <1>1
    <3>5. b \in 1 .. Top /\ frames[b].stop = 1
      BY <3>2, <1>1
    <3> QED BY <3>3, <3>4, <3>5
  <2> QED BY <2>1, <2>2
<1> HIDE DEF starts
<1>3. ASSUME NEW j \in Seen(frames, Top) PROVE j \in Bottom .. Top /\ frames[j].stop # 2
  <2>1. /\ j \in 1 .. Top /\ frames[j].stop # 2
        /\ \A m \in j + 1 .. Top : frames[m].stop # 1
    BY DEF Seen
  <2>2. ~(j < Bottom)
    BY <2>1, <1>1, <1>2
  <2> QED BY <2>1, <2>2, <1>1, <1>2
<1>4. ASSUME NEW j \in Bottom .. Top, frames[j].stop # 2 PROVE j \in Seen(frames, Top)
  <2>1. j \in 1 .. Top /\ \A m \in j + 1 .. Top : m \in Bottom + 1 .. Top
    BY <1>1, <1>2
  <2> QED BY <2>1, <1>2, <1>4 DEF Seen
<1>5. \A i : i \in Visited <=> \/ i = 1
                               \/ /\ i \in Bottom .. Top
                                  /\ ~(/\ i \in {j \in Bottom .. Top : frames[j].stop = 2}
                                       /\ \A j \in {j \in Bottom .. Top : frames[j].stop = 2} : j <= i)
  BY DEF Visited
<1>6. Seen(frames, Top) \subseteq Visited
  BY <1>3, <1>5
<1>7. \A i \in Visited : i \in Seen(frames, Top) \/ i = 1 \/ frames[i].stop = 2
  BY <1>4, <1>5
<1>8. \A i \in Visited : i \in 1 .. Top /\ i \in Nat
  BY <1>1, <1>2, <1>5
<1> QED BY <1>5, <1>6, <1>7, <1>8

\* A lookup finds what the scope says.
LEMMA LookupIs ==
  ASSUME frames \in Seq(FrameSet), NEW phase, Base(frames, phase, Globals), NEW env \in [VarNames -> Place],
         NEW pending, Scoped(frames, Top, env, pending), NEW x \in VarNames
  PROVE  /\ env[x] # NoVar => GetVar(x) = env[x]
         /\ env[x] = NoVar /\ x \notin pending /\ GetVar(x) # NoVar
              => Declared(GetVar(x)).decl = "global"
         /\ phase = "main" /\ x \in Globals => GetVar(x) # NoVar
<1>1. /\ Top > 0 /\ frames[1].stop = 0 /\ Top \in Nat \ {0} /\ Top = Len(frames)
      /\ \A i \in 1 .. Top : frames[i].stop = 2 => Inactive(frames[i])
      /\ \A q \in DOMAIN frames[1].vars : frames[1].vars[q].active /\ frames[1].vars[q].decl = "global"
  <2>1. Top \in Nat /\ Top = Len(frames) /\ DOMAIN frames = 1 .. Top
    BY DEF Top
  <2>2. /\ Len(frames) > 0 /\ frames[1].stop = 0
        /\ \A i \in DOMAIN frames : frames[i].stop = 2 => Inactive(frames[i])
        /\ \A q \in DOMAIN frames[1].vars : frames[1].vars[q].active /\ frames[1].vars[q].decl = "global"
    BY DEF Base
  <2> QED BY <2>1, <2>2
<1>2. /\ 1 \in Visited /\ Seen(frames, Top) \subseteq Visited
      /\ \A i \in Visited : i \in Seen(frames, Top) \/ i = 1 \/ frames[i].stop = 2
      /\ \A i \in Visited : i \in 1 .. Top /\ i \in Nat
  BY <1>1, VisitedIs
<1>3. ASSUME NEW i \in Visited, frames[i].stop = 2 PROVE ~Has(frames[i], x, FALSE)
  <2>1. Inactive(frames[i])
    BY <1>1, <1>2, <1>3
  <2> QED BY <2>1 DEF Inactive, Has
<1>4. ASSUME NEW i \in Visited, NEW k, FirstIn(frames[i], x, FALSE, k)
      PROVE  k \in DOMAIN frames[i].vars /\ frames[i].vars[k].name = x /\ frames[i].vars[k].active
             /\ Has(frames[i], x, FALSE) /\ frames[i].stop # 2
  <2>1. k \in DOMAIN frames[i].vars /\ frames[i].vars[k].name = x /\ frames[i].vars[k].active
    BY <1>4, Zenon DEF FirstIn
  <2>2. Has(frames[i], x, FALSE)
    BY <2>1, Zenon DEF Has
  <2> QED BY <2>1, <2>2, <1>3, Zenon
<1>5. ASSUME env[x] # NoVar PROVE GetVar(x) = env[x]
  <2> DEFINE j == env[x][1]
             p == env[x][2]
  <2>1. Binds(frames, Top, x, j, p)
    BY <1>5 DEF Scoped
  <2>2. env[x] = <<j, p>>
    BY DEF Place
  <2> HIDE DEF j, p
  <2>3. /\ j \in Seen(frames, Top) /\ j \in Visited /\ j \in Nat /\ p \in DOMAIN frames[j].vars
        /\ frames[j].vars[p].name = x /\ frames[j].vars[p].active /\ frames[j].vars[p].decl = "local"
        /\ \A q \in 1 .. p - 1 : frames[j].vars[q].name # x
        /\ \A m \in Seen(frames, Top) : m > j => Lacks(frames[m], x)
    BY <2>1, <1>2, SeenFrames, <1>1 DEF Binds
  <2>4. Has(frames[j], x, FALSE)
    BY <2>3, Zenon DEF Has
  <2>5. j # 1
    BY <2>3, <1>1
  <2>6. PICK i \in Visited, k \in Nat \ {0} :
          /\ GetVar(x) = <<i, k>> /\ FirstIn(frames[i], x, FALSE, k)
          /\ \A m \in Visited : m > i => ~Has(frames[m], x, FALSE)
    BY <1>1, <2>3, <2>4, GetVarIs
  <2>7. i = j
    <3>1. ~(j > i)
      BY <2>3, <2>4, <2>6
    <3>2. ~(i > j)
      <4> SUFFICES ASSUME i > j PROVE FALSE
        OBVIOUS
      <4>1. frames[i].stop # 2 /\ k \in DOMAIN frames[i].vars /\ frames[i].vars[k].name = x
        BY <2>6, <1>4
      <4>2. i # 1
        BY <2>3, <2>5, <1>2
      <4>3. i \in Seen(frames, Top)
        BY <4>1, <4>2, <1>2
      <4>4. Lacks(frames[i], x)
        BY <4>3, <2>3
      <4> QED BY <4>1, <4>4 DEF Lacks
    <3>3. i \in Nat /\ j \in Nat
      BY <1>2, <2>3
    <3> QED BY <3>1, <3>2, <3>3
  <2>8. k = p
    <3>1. k \in DOMAIN frames[j].vars /\ frames[j].vars[k].name = x
      BY <2>6, <2>7, <1>4
    <3>2. k <= p
      <4>1. FirstIn(frames[j], x, FALSE, k)
        BY <2>6, <2>7
      <4> QED BY <4>1, <2>3, Zenon DEF FirstIn
    <3>3. p \in Nat
      <4>1. frames[j] \in FrameSet
        BY <2>3, <1>1, <1>2
      <4> QED BY <4>1, <2>3 DEF FrameSet
    <3>4. ~(k \in 1 .. p - 1)
      BY <3>1, <2>3
    <3> QED BY <3>2, <3>3, <3>4
  <2> QED BY <2>2, <2>6, <2>7, <2>8
<1>6. ASSUME env[x] = NoVar, x \notin pending, GetVar(x) # NoVar
      PROVE  Declared(GetVar(x)).decl = "global"
  <2>1. PICK i \in Visited, k \in Nat \ {0} :
          GetVar(x) = <<i, k>> /\ FirstIn(frames[i], x, FALSE, k)
    BY <1>1, <1>6, GetVarIs
  <2>2. k \in DOMAIN frames[i].vars /\ frames[i].vars[k].name = x /\ frames[i].stop # 2
    BY <2>1, <1>4
  <2>3. Declared(GetVar(x)) = frames[i].vars[k]
    BY <2>1 DEF Declared
  <2>4. CASE i = 1
    BY <2>2, <2>3, <2>4, <1>1
  <2>5. CASE i \in Seen(frames, Top)
    <3>1. OnlyGlobal(frames[i], x)
      BY <2>5, <1>6 DEF Scoped
    <3> QED BY <3>1, <2>2, <2>3, Zenon DEF OnlyGlobal
  <2> QED BY <2>2, <2>4, <2>5, <1>2
<1>7. ASSUME phase = "main", x \in Globals PROVE GetVar(x) # NoVar
  <2>1. ~Lacks(frames[1], x)
    BY <1>7 DEF Base
  <2>2. PICK q \in DOMAIN frames[1].vars : frames[1].vars[q].name = x
    BY <2>1 DEF Lacks
  <2>3. Has(frames[1], x, FALSE)
    BY <2>2, <1>1, Zenon DEF Has
  <2> QED BY <2>3, <1>1, <1>2, GetVarIs
<1> QED BY <1>5, <1>6, <1>7

(* ----------------------------- what a step keeps --------------------------- *)
LEMMA SeesGlobalsAgree ==
  ASSUME NEW fs, NEW gs, NEW k \in Nat, Agree(fs, gs, k), SeesGlobals(fs, k)
  PROVE  SeesGlobals(gs, k)
<1>1. Seen(gs, k) = Seen(fs, k) /\ \A j \in Seen(fs, k) : gs[j] = fs[j]
  BY SeenAgree DEF Seen, Agree
<1> QED BY <1>1, Zenon DEF SeesGlobals

\* A call whose frames stay, with those below them.
LEMMA WellAgree ==
  ASSUME NEW fs, NEW gs, NEW k \in Nat, Agree(fs, gs, k), NEW d \in 1 .. k, NEW c \in 0 .. d,
         NEW a, NEW b, NEW G, Well(fs, d, a, c, b, G), a.of \in {"global", "local"} => c > 0
  PROVE  Well(gs, d, a, c, b, G)
<1>1. gs[d] = fs[d] /\ (a.of \in {"global", "local"} => gs[c] = fs[c])
  BY DEF Agree
<1>2. Sees(a, d) \in Nat /\ Agree(fs, gs, Sees(a, d)) /\ c \in Nat /\ Agree(fs, gs, c)
  BY DEF Sees, Agree
<1>3. Scoped(gs, Sees(a, d), a.env, a.pending)
  <2>1. Scoped(fs, Sees(a, d), a.env, a.pending)
    BY DEF Well
  <2> QED BY <1>2, <2>1, ScopedAgree
<1>4. a.of = "global" => SeesGlobals(gs, c)
  BY <1>2, SeesGlobalsAgree DEF Well
<1>5. ASSUME a.of = "global" PROVE a.var \in G /\ gs[c].stop # 2
  BY <1>1, <1>5 DEF Well
<1>6. ASSUME a.of = "local", b.kind # "params" PROVE Lacks(gs[c], a.var)
  BY <1>1, <1>6 DEF Well
<1>7. /\ Owns(a) => gs[d].stop = StopOf(a)
      /\ a.pending # {} => a.kind = "template" /\ \A x \in a.pending : Given(gs[d], x)
      /\ a.kind \notin {"globals", "main"} => b.pending = {}
      /\ a.kind \in {"params", "applied"} => Passes(gs[d], a.passed)
      /\ a.kind = "template" /\ b.kind = "apply" /\ ~gs[d].polluted => Passes(gs[d], b.passed)
      /\ a.kind = "foreach" /\ ~gs[d].polluted => gs[d].vars = <<>>
      /\ a.of = "local" => a.kind = "content" /\ b.kind \in Body \cup {"params"}
  BY <1>1, Zenon DEF Well
<1> QED BY <1>3, <1>4, <1>5, <1>6, <1>7, Zenon DEF Well

\* What is below the first call does not matter.
Opens(a) == a.kind \in {"globals", "main"} /\ a.of \notin {"global", "local"}

\* What Well says of the first call.
LEMMA WellFirst ==
  ASSUME NEW fs, NEW d, NEW c, NEW a, NEW b, NEW G, Opens(a)
  PROVE  Well(fs, d, a, c, b, G) <=>
         /\ fs[d].stop = 0 /\ Scoped(fs, d, a.env, a.pending) /\ a.pending = {}
<1>1. /\ Owns(a) /\ StopOf(a) = 0 /\ Sees(a, d) = d
      /\ a.kind \notin {"template", "params", "applied", "foreach"}
      /\ a.of # "global" /\ a.of # "local" /\ a.kind \in {"globals", "main"}
  BY DEF Owns, StopOf, Sees, Opens
<1>2. ASSUME Well(fs, d, a, c, b, G)
      PROVE  fs[d].stop = 0 /\ Scoped(fs, d, a.env, a.pending) /\ a.pending = {}
  <2>1. fs[d].stop = 0 /\ Scoped(fs, d, a.env, a.pending)
    BY <1>1, <1>2, Zenon DEF Well
  <2>2. a.pending = {}
    BY <1>1, <1>2, Zenon DEF Well
  <2> QED BY <2>1, <2>2
<1>3. ASSUME fs[d].stop = 0, Scoped(fs, d, a.env, a.pending), a.pending = {}
      PROVE  Well(fs, d, a, c, b, G)
  BY <1>1, <1>3, Zenon DEF Well
<1> QED BY <1>2, <1>3

\* The last frame suits the first call.
Suits(fs, m, phase, G) ==
  /\ fs[m].stop = 2 => Inactive(fs[m])
  /\ \A q \in DOMAIN fs[m].vars :
        fs[m].vars[q].decl = "global" => fs[m].vars[q].name \in G /\ (phase = "main" => m = 1)
  /\ m = 1 => /\ fs[1].stop = 0
              /\ \A q \in DOMAIN fs[1].vars : fs[1].vars[q].active /\ fs[1].vars[q].decl = "global"
              /\ phase = "main" => \A x \in G : ~Lacks(fs[1], x)

\* Base says this of every frame.
LEMMA BaseSuits ==
  ASSUME NEW fs \in Seq(FrameSet), NEW phase, NEW G, Base(fs, phase, G), NEW m \in 1 .. Len(fs)
  PROVE  Suits(fs, m, phase, G)
<1>1. m \in DOMAIN fs
  OBVIOUS
<1> QED BY <1>1, Zenon DEF Base, Suits

\* Of the frames a step leaves, only the last one can be new.
LEMMA BaseStep ==
  ASSUME NEW fs \in Seq(FrameSet), NEW gs \in Seq(FrameSet), NEW phase, NEW G, Base(fs, phase, G),
         Len(gs) > 0, Len(gs) - 1 <= Len(fs), Agree(fs, gs, Len(gs) - 1),
         Suits(gs, Len(gs), phase, G)
  PROVE  Base(gs, phase, G)
<1> DEFINE n == Len(gs)
<1>1. n \in Nat \ {0} /\ DOMAIN gs = 1 .. n /\ Len(fs) \in Nat /\ n - 1 <= Len(fs)
  OBVIOUS
<1>0. Agree(fs, gs, n - 1) /\ Suits(gs, n, phase, G)
  OBVIOUS
<1> HIDE DEF n
<1>2. ASSUME NEW m \in 1 .. n PROVE Suits(gs, m, phase, G)
  <2>1. CASE m = n
    BY <2>1, <1>0
  <2>2. CASE m # n
    <3>0. m \in 1 .. n - 1 /\ m \in 1 .. Len(fs)
      BY <1>1, <2>2
    <3>1. gs[m] = fs[m] /\ m \in 1 .. Len(fs)
      BY <3>0, <1>0 DEF Agree
    <3>2. Suits(fs, m, phase, G)
      BY <3>1, BaseSuits
    <3>3. m = 1 => gs[1] = fs[1]
      BY <3>1
    <3> QED BY <3>1, <3>2, <3>3, Zenon DEF Suits
  <2> QED BY <2>1, <2>2
<1>3. 1 \in 1 .. n /\ n > 0
  BY <1>1
<1>4. /\ gs[1].stop = 0
      /\ \A q \in DOMAIN gs[1].vars : gs[1].vars[q].active /\ gs[1].vars[q].decl = "global"
      /\ phase = "main" => \A x \in G : ~Lacks(gs[1], x)
  BY <1>2, <1>3, Zenon DEF Suits
<1>5. \A m \in 1 .. n : gs[m].stop = 2 => Inactive(gs[m])
  BY <1>2, Zenon DEF Suits
<1>6. \A m \in 1 .. n : \A q \in DOMAIN gs[m].vars :
        gs[m].vars[q].decl = "global" => gs[m].vars[q].name \in G /\ (phase = "main" => m = 1)
  BY <1>2, Zenon DEF Suits
<1>7. Len(gs) > 0
  OBVIOUS
<1> QED BY <1>1, <1>4, <1>5, <1>6, <1>7, Zenon DEF Base

\* A frame without variables, above the first.
LEMMA EmptySuits ==
  ASSUME NEW gs, NEW m, m # 1, gs[m].vars = <<>>, NEW phase, NEW G
  PROVE  Suits(gs, m, phase, G)
<1>1. DOMAIN gs[m].vars = {}
  OBVIOUS
<1> QED BY <1>1 DEF Suits, Inactive

\* The first n calls of s are those of r; the frames of these calls are shared.
Shares(fs, gs, r, s, n) ==
  /\ \A i \in 1 .. n : s[i] = r[i]
  /\ Agree(fs, gs, Depth(r, n))

\* A call among these has what it had.
LEMMA WellShared ==
  ASSUME NEW fs, NEW gs, NEW r, NEW s, NEW G, NEW n \in Nat, Shares(fs, gs, r, s, n),
         Opens(r[1]), NEW i \in 1 .. n,
         Well(fs, Depth(r, i), r[i], Depth(r, i - 1), r[i - 1], G)
  PROVE  Well(gs, Depth(s, i), s[i], Depth(s, i - 1), s[i - 1], G)
<1>1. Alike(r, s, n) /\ i \in 0 .. n /\ i - 1 \in 0 .. n /\ i \in Nat /\ i - 1 \in 0 .. i
      /\ 0 \in 0 .. 1 /\ 1 \in 0 .. i /\ i - 1 \in Nat
  BY DEF Alike, Shares
<1>2. Depth(s, i) = Depth(r, i) /\ Depth(s, i - 1) = Depth(r, i - 1)
  BY <1>1, CountsAlike
<1>3. /\ Depth(r, i) \in Nat /\ Depth(r, i) <= Depth(r, n) /\ Depth(r, n) \in Nat
      /\ Depth(r, i - 1) \in Nat /\ Depth(r, i - 1) <= Depth(r, i)
  BY <1>1, Depths
<1>4. Depth(r, 0) < Depth(r, 1) /\ Depth(r, 0) \in Nat /\ Depth(r, 1) \in Nat
  <2>1. Owns(r[1])
    BY DEF Owns, Opens
  <2> QED BY <1>1, <2>1, Depths
<1>5. Depth(r, 1) <= Depth(r, i)
  BY <1>1, Depths
<1>6. Depth(r, i) \in 1 .. Depth(r, n) /\ Depth(r, i - 1) \in 0 .. Depth(r, i)
  BY <1>3, <1>4, <1>5
<1>7. r[i].of \in {"global", "local"} => Depth(r, i - 1) > 0
  <2> SUFFICES ASSUME r[i].of \in {"global", "local"} PROVE Depth(r, i - 1) > 0
    OBVIOUS
  <2>1. i # 1
    BY DEF Opens
  <2>2. 1 \in 0 .. i - 1
    BY <2>1
  <2>3. Depth(r, 1) <= Depth(r, i - 1)
    BY <1>1, <2>2, Depths
  <2> QED BY <2>3, <1>3, <1>4
<1>8. Agree(fs, gs, Depth(r, n)) /\ s[i] = r[i]
  BY DEF Shares
<1>9. Well(gs, Depth(r, i), r[i], Depth(r, i - 1), r[i - 1], G)
  BY <1>3, <1>6, <1>7, <1>8, WellAgree
<1>10. CASE i = 1
  <2>1. Opens(r[i]) /\ Opens(s[i])
    BY <1>10, <1>8
  <2> QED BY <1>2, <1>8, <1>9, <2>1, WellFirst
<1>11. CASE i # 1
  <2>1. s[i - 1] = r[i - 1]
    BY <1>11 DEF Shares
  <2> QED BY <1>2, <1>8, <1>9, <2>1
<1> QED BY <1>10, <1>11

\* A step keeps the first calls and their frames, and the call on top of them is well.
LEMMA LexStep ==
  ASSUME NEW fs, NEW gs, NEW r, NEW s, NEW G, NEW n \in Nat, Len(s) = n + 1,
         n <= Len(r), Len(r) \in Nat \ {0}, Opens(r[1]),
         Lex(fs, r, G), Shares(fs, gs, r, s, n), Base(gs, s[1].kind, G),
         NEW D, D = Depth(r, n), NEW a, a = s[n + 1], NEW b, b = s[n],
         Well(gs, D + Own(a), a, D, b, G)
  PROVE  Lex(gs, s, G) /\ Depth(s, n + 1) = D + Own(a)
<1>1. Alike(r, s, n) /\ n \in 0 .. n
  BY DEF Alike, Shares
<1>2. Depth(s, n) = Depth(r, n)
  BY <1>1, CountsAlike
<1>3. Depth(s, n + 1) = D + Own(a)
  <2>1. Depth(s, n + 1) = Depth(s, n) + (IF Owns(s[n + 1]) THEN 1 ELSE 0)
    BY Counts
  <2> QED BY <1>2, <2>1 DEF Own
<1>4. ASSUME NEW i \in 1 .. n
      PROVE  Well(gs, Depth(s, i), s[i], Depth(s, i - 1), s[i - 1], G)
  <2>1. i \in 1 .. Len(r) /\ Len(r) > 0
    OBVIOUS
  <2>2. Well(fs, Depth(r, i), r[i], Depth(r, i - 1), r[i - 1], G)
    BY <2>1 DEF Lex
  <2> QED BY <2>2, WellShared
<1>5. Well(gs, Depth(s, n + 1), s[n + 1], Depth(s, n), s[n], G)
  BY <1>2, <1>3
<1>6. ASSUME NEW i \in 1 .. n + 1
      PROVE  Well(gs, Depth(s, i), s[i], Depth(s, i - 1), s[i - 1], G)
  <2>1. CASE i \in 1 .. n
    BY <1>4, <2>1
  <2>2. CASE i = n + 1
    <3>1. i - 1 = n
      BY <2>2
    <3> QED BY <1>5, <2>2, <3>1
  <2>3. i \in 1 .. n \/ i = n + 1
    OBVIOUS
  <2> QED BY <2>1, <2>2, <2>3
<1> QED BY <1>3, <1>6 DEF Lex

\* What the invariants say of the call in progress, and of the one below it.
LEMMA LexTop ==
  ASSUME StacksInv, LexInv, Going
  PROVE  /\ Lex(frames, run, Globals) /\ error.right /\ open = <<>>
         /\ frames \in Seq(FrameSet) /\ run \in Seq(CallSet) /\ Top = Len(frames) /\ Top \in Nat \ {0}
         /\ Len(run) \in Nat \ {0} /\ Opens(run[1]) /\ Base(frames, run[1].kind, Globals)
         /\ Depth(run, Len(run)) = Top /\ Act = run[Len(run)]
         /\ Depth(run, Len(run) - 1) = Top - Own(Act)
         /\ Well(frames, Top, Act, Top - Own(Act), Below, Globals)
         /\ Len(run) > 1 =>
              /\ Depth(run, Len(run) - 2) = (Top - Own(Act)) - Own(Below)
              /\ Top - Own(Act) \in Nat \ {0} /\ (Top - Own(Act)) - Own(Below) \in Nat
              /\ Well(frames, Top - Own(Act), Below, (Top - Own(Act)) - Own(Below),
                      run[Len(run) - 2], Globals)
<1> DEFINE n == Len(run)
<1>1. /\ frames \in Seq(FrameSet) /\ run \in Seq(CallSet) /\ n \in Nat \ {0}
      /\ Top = Len(frames) /\ Top \in Nat \ {0} /\ Act = run[n] /\ Top = Depth(run, n)
  BY Going_ DEF StacksInv, TypeOK, Top, Follows
<1>2. Lex(frames, run, Globals) /\ error.right /\ open = <<>>
  BY Zenon DEF LexInv, Going
<1>3. Opens(run[1])
  BY Going_, Zenon DEF Opens
<1> HIDE DEF n
<1>4. Base(frames, run[1].kind, Globals) /\ \A i \in 1 .. n :
        Well(frames, Depth(run, i), run[i], Depth(run, i - 1), run[i - 1], Globals)
  <2>1. Len(run) > 0
    BY <1>1 DEF n
  <2> QED BY <1>2, <2>1 DEF Lex, n
<1>5. Depth(run, n - 1) = Top - Own(Act)
  <2>1. n - 1 \in Nat /\ (n - 1) + 1 = n
    BY <1>1
  <2>2. /\ Depth(run, (n - 1) + 1) = Depth(run, n - 1) + (IF Owns(run[(n - 1) + 1]) THEN 1 ELSE 0)
        /\ Depth(run, n - 1) \in Nat
    BY <2>1, Counts
  <2> QED BY <1>1, <2>1, <2>2 DEF Own
<1>6. Well(frames, Top, Act, Top - Own(Act), Below, Globals)
  <2>1. n \in 1 .. n
    BY <1>1
  <2>2. Well(frames, Depth(run, n), run[n], Depth(run, n - 1), run[n - 1], Globals)
    BY <1>4, <2>1
  <2> QED BY <1>1, <1>5, <2>2 DEF Below, n
<1>7. ASSUME n > 1
      PROVE  /\ Depth(run, n - 2) = (Top - Own(Act)) - Own(Below)
             /\ Top - Own(Act) \in Nat \ {0} /\ (Top - Own(Act)) - Own(Below) \in Nat
             /\ Well(frames, Top - Own(Act), Below, (Top - Own(Act)) - Own(Below),
                     run[n - 2], Globals)
  <2>1. /\ n - 2 \in Nat /\ (n - 2) + 1 = n - 1 /\ n - 1 \in 1 .. n /\ (n - 1) - 1 = n - 2
        /\ n - 1 \in Nat /\ 1 \in 0 .. n - 1 /\ 0 \in 0 .. 1
    BY <1>1, <1>7
  <2>2. Below = run[n - 1]
    BY DEF Below, n
  <2>3. /\ Depth(run, (n - 2) + 1) = Depth(run, n - 2) + (IF Owns(run[(n - 2) + 1]) THEN 1 ELSE 0)
        /\ Depth(run, n - 2) \in Nat
    BY <2>1, Counts
  <2>4. Depth(run, n - 2) = (Top - Own(Act)) - Own(Below)
    BY <1>1, <1>5, <2>1, <2>2, <2>3 DEF Own
  <2>5. Well(frames, Depth(run, n - 1), run[n - 1], Depth(run, n - 2), run[n - 2], Globals)
    BY <1>4, <2>1
  <2>6. Depth(run, 1) <= Depth(run, n - 1) /\ Depth(run, n - 1) \in Nat
    BY <2>1, Depths
  <2>7. Depth(run, 0) < Depth(run, 1) /\ Depth(run, 0) \in Nat /\ Depth(run, 1) \in Nat
    <3>1. Owns(run[1])
      BY <1>3 DEF Owns, Opens
    <3> QED BY <2>1, <3>1, Depths
  <2> QED BY <1>5, <2>2, <2>3, <2>4, <2>5, <2>6, <2>7
<1> QED BY <1>1, <1>2, <1>3, <1>4, <1>5, <1>6, <1>7 DEF n

\* A step to frames and calls that are lexical.
LEMMA LexPrime ==
  ASSUME StacksInv, LexInv, Going, Lex(frames', run', Globals), error'.right, UNCHANGED sheetVars
  PROVE  LexInv'
<1>1. open = <<>>
  BY LexTop
<1>2. Globals' = Globals /\ open' = open
  BY DEF Globals, sheetVars, tables
<1> QED BY <1>1, <1>2, Zenon DEF LexInv

\* A call begins.
LEMMA LexPush ==
  ASSUME StacksInv, LexInv, Going, NEW a \in CallSet, run' = Append(run, a),
         Agree(frames, frames', Top), Base(frames', run[1].kind, Globals),
         Well(frames', Top + Own(a), a, Top, Act, Globals), error' = error, UNCHANGED sheetVars
  PROVE  LexInv'
<1> DEFINE n == Len(run)
<1>1. /\ run \in Seq(CallSet) /\ n \in Nat \ {0} /\ Opens(run[1]) /\ Lex(frames, run, Globals)
      /\ error.right /\ Depth(run, n) = Top /\ Act = run[n]
  BY LexTop
<1>2. /\ Len(run') = n + 1 /\ run'[n + 1] = a /\ \A i \in 1 .. n : run'[i] = run[i]
  BY <1>1, Appending
<1>3. run'[n] = Act /\ run'[1] = run[1] /\ n \in Nat /\ n <= n
  BY <1>1, <1>2
<1>4. Shares(frames, frames', run, run', n)
  BY <1>1, <1>2 DEF Shares
<1> HIDE DEF n
<1>5. Lex(frames', run', Globals)
  <2>1. n <= Len(run) /\ Len(run) \in Nat \ {0}
    BY <1>1, <1>3 DEF n
  <2>2. /\ Len(run') = n + 1 /\ Base(frames', run'[1].kind, Globals)
        /\ Well(frames', Top + Own(a), a, Top, Act, Globals)
    BY <1>2, <1>3
  <2> QED BY <1>1, <1>2, <1>3, <1>4, <2>1, <2>2, LexStep
<1> QED BY <1>1, <1>5, LexPrime

\* One less than a number above one.
LEMMA OneLess ==
  ASSUME NEW m \in Nat \ {0}, m > 1
  PROVE  m - 1 \in Nat \ {0}
OBVIOUS

\* The call in progress becomes b.
LEMMA LexReplace ==
  ASSUME StacksInv, LexInv, Going, Len(run) > 1, NEW b \in CallSet, run' = Replaced(run, b),
         NEW k \in Nat, k = Top - Own(Act), Agree(frames, frames', k), Base(frames', run[1].kind, Globals),
         Well(frames', k + Own(b), b, k, Below, Globals), error' = error, UNCHANGED sheetVars
  PROVE  LexInv'
<1> DEFINE n == Len(run) - 1
<1>1. /\ run \in Seq(CallSet) /\ n \in Nat \ {0} /\ Opens(run[1]) /\ Lex(frames, run, Globals)
      /\ error.right /\ Depth(run, n) = k /\ Below = run[n]
  <2>1. /\ run \in Seq(CallSet) /\ Opens(run[1]) /\ Lex(frames, run, Globals)
        /\ error.right /\ Depth(run, n) = k /\ Len(run) \in Nat \ {0}
    BY LexTop
  <2>2. n \in Nat \ {0}
    <3>1. Len(run) \in Nat \ {0}
      BY <2>1
    <3> QED BY <3>1, OneLess
  <2>3. Below = run[n]
    BY DEF Below
  <2> QED BY <2>1, <2>2, <2>3
<1>2. /\ Len(run') = n + 1 /\ run'[n + 1] = b /\ \A i \in 1 .. n : run'[i] = run[i]
  <2>1. /\ Len(run') = Len(run) /\ run'[Len(run)] = b
        /\ \A i \in 1 .. Len(run) - 1 : run'[i] = run[i]
    <3>1. run \in Seq(CallSet) /\ Len(run) > 0
      BY <1>1
    <3> QED BY <3>1, Replacing, ZenonT(40)
  <2>2. n + 1 = Len(run)
    BY <1>1
  <2> QED BY <2>1, <2>2
<1>3. run'[n] = Below /\ run'[1] = run[1]
  BY <1>1, <1>2
<1>4. Shares(frames, frames', run, run', n)
  BY <1>1, <1>2 DEF Shares
<1>5. n <= Len(run) /\ Len(run) \in Nat \ {0}
  BY <1>1
<1> HIDE DEF n
<1>6. Lex(frames', run', Globals)
  <2>1. /\ Len(run') = n + 1 /\ Base(frames', run'[1].kind, Globals)
        /\ Well(frames', k + Own(b), b, k, Below, Globals) /\ n \in Nat
    BY <1>1, <1>2, <1>3
  <2> QED BY <1>1, <1>2, <1>3, <1>4, <1>5, <2>1, LexStep
<1> QED BY <1>1, <1>6, LexPrime

\* The call in progress ends, and the one below becomes b.
LEMMA LexPop ==
  ASSUME StacksInv, LexInv, Going, Len(run) > 1, NEW b, b.kind = Below.kind \/ Len(run) > 2,
         Len(run') = Len(run) - 1, run'[Len(run) - 1] = b,
         \A i \in 1 .. Len(run) - 2 : run'[i] = run[i],
         NEW k \in Nat, k = (Top - Own(Act)) - Own(Below), Agree(frames, frames', k),
         Base(frames', run[1].kind, Globals),
         Well(frames', k + Own(b), b, k, run[Len(run) - 2], Globals),
         Len(run) = 2 => Well(frames', k + Own(b), b, k, run'[0], Globals),
         error' = error, UNCHANGED sheetVars
  PROVE  LexInv'
<1> DEFINE n == Len(run) - 2
<1>1. /\ run \in Seq(CallSet) /\ n \in Nat /\ Opens(run[1]) /\ Lex(frames, run, Globals)
      /\ error.right /\ Depth(run, n) = k /\ Len(run) \in Nat \ {0} /\ n <= Len(run)
      /\ Below = run[n + 1] /\ Len(run') = n + 1 /\ run'[n + 1] = b
  <2>1. /\ run \in Seq(CallSet) /\ Opens(run[1]) /\ Lex(frames, run, Globals)
        /\ error.right /\ Depth(run, n) = k /\ Len(run) \in Nat \ {0}
    BY LexTop
  <2>2. n \in Nat /\ n <= Len(run) /\ n + 1 = Len(run) - 1
    BY <2>1
  <2>3. Below = run[n + 1] /\ Len(run') = n + 1 /\ run'[n + 1] = b
    BY <2>2 DEF Below
  <2> QED BY <2>1, <2>2, <2>3
<1>2. Shares(frames, frames', run, run', n)
  BY <1>1 DEF Shares
<1>3. run'[1].kind = run[1].kind
  <2>1. CASE n = 0
    BY <2>1, <1>1
  <2>2. CASE n # 0
    <3>1. 1 \in 1 .. Len(run) - 2
      BY <2>2, <1>1
    <3>2. run'[1] = run[1]
      BY <3>1
    <3> QED BY <3>2
  <2> QED BY <2>1, <2>2
<1>4. Well(frames', k + Own(b), b, k, run'[n], Globals)
  <2>1. CASE n = 0
    BY <2>1, <1>1
  <2>2. CASE n # 0
    <3>1. n \in 1 .. Len(run) - 2
      BY <2>2, <1>1
    <3>2. run'[n] = run[n]
      BY <3>1
    <3> QED BY <3>2
  <2> QED BY <2>1, <2>2
<1> HIDE DEF n
<1>5. Lex(frames', run', Globals)
  <2>1. Base(frames', run'[1].kind, Globals)
    BY <1>3
  <2> QED BY <1>1, <1>2, <1>4, <2>1, LexStep
<1> QED BY <1>1, <1>5, LexPrime

\* The frames with an empty one on top.
LEMMA PushedBase ==
  ASSUME StacksInv, LexInv, Going, NEW stop \in {0, 1, 2}
  PROVE  LET gs == Pushed(stop)
         IN /\ gs \in Seq(FrameSet) /\ Len(gs) = Top + 1
            /\ Agree(frames, gs, Top) /\ Base(gs, run[1].kind, Globals)
            /\ gs[Top + 1].stop = stop /\ gs[Top + 1].vars = <<>>
<1> DEFINE gs == Pushed(stop)
<1>1. /\ frames \in Seq(FrameSet) /\ Top = Len(frames) /\ Top \in Nat \ {0}
      /\ Base(frames, run[1].kind, Globals)
  BY LexTop
<1>2. gs = Append(frames, Empty(stop)) /\ Empty(stop) \in FrameSet
  BY Frames
<1>3. /\ gs \in Seq(FrameSet) /\ Len(gs) = Top + 1 /\ gs[Top + 1] = Empty(stop)
      /\ \A i \in 1 .. Top : gs[i] = frames[i]
  <2> HIDE DEF gs
  <2> QED BY <1>1, <1>2, Appending
<1> HIDE DEF gs
<1>4. gs[Top + 1].stop = stop /\ gs[Top + 1].vars = <<>>
  BY <1>3 DEF Empty
<1>5. Agree(frames, gs, Top)
  BY <1>3 DEF Agree
<1>6. Suits(gs, Top + 1, run[1].kind, Globals)
  BY <1>1, <1>4, EmptySuits
<1>7. Base(gs, run[1].kind, Globals)
  <2>1. Len(gs) > 0 /\ Len(gs) - 1 = Top /\ Len(gs) - 1 <= Len(frames)
    BY <1>1, <1>3
  <2> QED BY <1>1, <1>3, <1>5, <1>6, <2>1, BaseStep
<1> QED BY <1>3, <1>4, <1>5, <1>7 DEF gs

\* The frames without the last one.
LEMMA FrontBase ==
  ASSUME StacksInv, LexInv, Going, Top > 1
  PROVE  LET gs == Front(frames)
         IN /\ gs \in Seq(FrameSet) /\ Len(gs) = Top - 1
            /\ Agree(frames, gs, Top - 1) /\ Base(gs, run[1].kind, Globals)
<1> DEFINE gs == Front(frames)
<1>1. /\ frames \in Seq(FrameSet) /\ Top = Len(frames) /\ Top \in Nat \ {0}
      /\ Base(frames, run[1].kind, Globals)
  BY LexTop
<1>2. gs \in Seq(FrameSet) /\ Len(gs) = Top - 1 /\ \A i \in 1 .. Top - 1 : gs[i] = frames[i]
  BY Frames
<1> HIDE DEF gs
<1>3. Agree(frames, gs, Top - 1) /\ Agree(frames, gs, Len(gs) - 1)
  BY <1>1, <1>2 DEF Agree
<1>4. Suits(gs, Top - 1, run[1].kind, Globals)
  <2>1. Top - 1 \in 1 .. Len(frames) /\ gs[Top - 1] = frames[Top - 1]
        /\ (Top - 1 = 1 => gs[1] = frames[1])
    BY <1>1, <1>2
  <2>2. Suits(frames, Top - 1, run[1].kind, Globals)
    BY <1>1, <2>1, BaseSuits
  <2> QED BY <2>1, <2>2, Zenon DEF Suits
<1>5. Base(gs, run[1].kind, Globals)
  <2>1. Len(gs) > 0 /\ Len(gs) - 1 <= Len(frames)
    BY <1>1, <1>2
  <2> QED BY <1>1, <1>2, <1>3, <1>4, <2>1, BaseStep
<1> QED BY <1>2, <1>3, <1>5 DEF gs

(* --------------------------- instructions that push ------------------------ *)
\* A call that sees what the call in progress sees.
LEMMA InnerWell ==
  ASSUME StacksInv, LexInv, Going, Act.kind # "applied", Act.pending = {},
         NEW a \in CallSet, a.kind \in {"scope", "foreach", "params", "apply"},
         a.env = Act.env, a.pending = {}, a.passed = {}, a.of \notin {"global", "local"},
         NEW gs, gs = IF a.kind = "apply" THEN frames
                      ELSE Pushed(IF a.kind = "params" THEN 2 ELSE 0)
  PROVE  /\ Agree(frames, gs, Top) /\ Base(gs, run[1].kind, Globals)
         /\ Well(gs, Top + Own(a), a, Top, Act, Globals)
<1>1. /\ Top \in Nat \ {0} /\ Base(frames, run[1].kind, Globals)
      /\ Well(frames, Top, Act, Top - Own(Act), Below, Globals)
  BY LexTop
<1>2. Scoped(frames, Top, a.env, {})
  BY <1>1, Zenon DEF Well, Sees
<1> DEFINE stop == IF a.kind = "params" THEN 2 ELSE 0
<1>3. CASE a.kind = "apply"
  <2>1. gs = frames /\ Own(a) = 0 /\ ~Owns(a) /\ Sees(a, Top + Own(a)) = Top
    BY <1>3, <1>1 DEF Own, Owns, Sees
  <2>2. Agree(frames, gs, Top)
    BY <2>1 DEF Agree
  <2>3. Scoped(gs, Sees(a, Top + Own(a)), a.env, a.pending)
    BY <2>1, <1>2
  <2>4. Well(gs, Top + Own(a), a, Top, Act, Globals)
    BY <1>3, <2>1, <2>3, Zenon DEF Well
  <2> QED BY <1>1, <2>1, <2>2, <2>4
<1>4. CASE a.kind # "apply"
  <2>1. stop \in {0, 1, 2} /\ gs = Pushed(stop)
    BY <1>4
  <2>2. /\ Agree(frames, gs, Top) /\ Base(gs, run[1].kind, Globals)
        /\ gs[Top + 1].stop = stop /\ gs[Top + 1].vars = <<>>
    <3> HIDE DEF stop
    <3> QED BY <2>1, PushedBase
  <2>3. Own(a) = 1 /\ Owns(a) /\ StopOf(a) = stop /\ Sees(a, Top + 1) = Top + 1
    BY <1>4 DEF Own, Owns, StopOf, Sees
  <2>4. Scoped(gs, Top + 1, a.env, {})
    <3>1. CASE a.kind = "params"
      BY <3>1, <1>1, <1>2, <2>2, ScopedParams
    <3>2. CASE a.kind # "params"
      BY <3>2, <1>1, <1>2, <2>2, ScopedEmpty
    <3> QED BY <3>1, <3>2
  <2> HIDE DEF stop
  <2>5. Passes(gs[Top + 1], {})
    <3>1. DOMAIN gs[Top + 1].vars = {}
      BY <2>2
    <3> QED BY <3>1 DEF Passes
  <2>6. Well(gs, Top + 1, a, Top, Act, Globals)
    <3>1. a.kind # "template" /\ a.of # "global" /\ a.of # "local"
      OBVIOUS
    <3>2. Scoped(gs, Sees(a, Top + 1), a.env, a.pending)
      BY <2>3, <2>4
    <3>3. Passes(gs[Top + 1], a.passed)
      BY <2>5
    <3> QED BY <2>2, <2>3, <3>1, <3>2, <3>3, Zenon DEF Well
  <2> QED BY <2>2, <2>3, <2>6
<1> QED BY <1>3, <1>4

\* What an inner call is.
LEMMA InnerHas ==
  ASSUME StacksInv, Going, NEW kind \in Kinds
  PROVE  LET a == Inner(kind)
         IN /\ a \in CallSet /\ a.kind = kind /\ a.env = Act.env /\ a.pending = Act.pending
            /\ a.passed = {} /\ a.of \notin {"global", "local"}
<1> DEFINE a == Inner(kind)
<1>1. Bare(a, kind, Act.env, Act.pending)
  BY InnerIs
<1> HIDE DEF a
<1> QED BY <1>1, Zenon DEF Bare, a

\* xsl:if, a branch of xsl:choose, a literal element.
LEMMA EnterLex ==
  ASSUME StacksInv, LexInv, Untangled, Enter, UNCHANGED sheetVars PROVE LexInv'
<1> DEFINE a == Inner("scope")
<1>1. Going /\ Act.kind \in Body /\ Act.pending = {} /\ run' = Append(run, a)
      /\ frames' = Pushed(0) /\ error' = error
  BY DEF Enter, Instruction, Executing
<1>2. /\ a \in CallSet /\ a.kind = "scope" /\ a.env = Act.env /\ a.pending = {}
      /\ a.passed = {} /\ a.of \notin {"global", "local"}
  <2>1. "scope" \in Kinds
    BY DEF Kinds
  <2> QED BY <1>1, <2>1, InnerHas
<1> HIDE DEF a
<1>3. /\ Agree(frames, frames', Top) /\ Base(frames', run[1].kind, Globals)
      /\ Well(frames', Top + Own(a), a, Top, Act, Globals)
  BY <1>1, <1>2, InnerWell DEF Body
<1> QED BY <1>1, <1>2, <1>3, LexPush

\* xsl:for-each.
LEMMA ForEachLex ==
  ASSUME StacksInv, LexInv, Untangled, ForEach, UNCHANGED sheetVars PROVE LexInv'
<1> DEFINE b == Inner("foreach")
           a == [b EXCEPT !.saved = rule]
<1>1. Going /\ Act.kind \in Body /\ Act.pending = {} /\ run' = Append(run, a)
      /\ frames' = Pushed(0) /\ error' = error
  BY DEF ForEach, Instruction, Executing
<1>2. /\ b \in CallSet /\ b.kind = "foreach" /\ b.env = Act.env /\ b.pending = {}
      /\ b.passed = {} /\ b.of \notin {"global", "local"}
  <2>1. "foreach" \in Kinds
    BY DEF Kinds
  <2> QED BY <1>1, <2>1, InnerHas
<1>3. /\ a \in CallSet /\ a.kind = "foreach" /\ a.env = Act.env /\ a.pending = {}
      /\ a.passed = {} /\ a.of \notin {"global", "local"}
  <2> HIDE DEF b
  <2>1. rule \in Nat
    BY DEF StacksInv, TypeOK
  <2> QED BY <1>2, <2>1, WithSaved
<1> HIDE DEF a, b
<1>4. /\ Agree(frames, frames', Top) /\ Base(frames', run[1].kind, Globals)
      /\ Well(frames', Top + Own(a), a, Top, Act, Globals)
  BY <1>1, <1>3, InnerWell DEF Body
<1> QED BY <1>1, <1>3, <1>4, LexPush

\* xsl:call-template.
LEMMA CallTemplateLex ==
  ASSUME StacksInv, LexInv, Untangled, CallTemplate, UNCHANGED sheetVars PROVE LexInv'
<1> DEFINE a == Inner("params")
<1>1. Going /\ Act.kind \in Body /\ Act.pending = {} /\ run' = Append(run, a)
      /\ frames' = Pushed(2) /\ error' = error
  BY DEF CallTemplate, Instruction, Executing
<1>2. /\ a \in CallSet /\ a.kind = "params" /\ a.env = Act.env /\ a.pending = {}
      /\ a.passed = {} /\ a.of \notin {"global", "local"}
  <2>1. "params" \in Kinds
    BY DEF Kinds
  <2> QED BY <1>1, <2>1, InnerHas
<1> HIDE DEF a
<1>3. /\ Agree(frames, frames', Top) /\ Base(frames', run[1].kind, Globals)
      /\ Well(frames', Top + Own(a), a, Top, Act, Globals)
  BY <1>1, <1>2, InnerWell DEF Body
<1> QED BY <1>1, <1>2, <1>3, LexPush

\* An error that is right.
LEMMA LexRight ==
  ASSUME StacksInv, LexInv, Going, NEW why, NEW right, right, Raise(why, right), UNCHANGED sheetVars
  PROVE  LexInv'
<1>1. run' = <<>> /\ error' = [why |-> why, right |-> right]
  BY DEF Raise
<1>2. error'.right
  BY <1>1, Zenon
<1>3. Len(run') = 0
  BY <1>1
<1>4. (Lex(frames, run, Globals))'
  BY <1>3 DEF Lex
<1> QED BY <1>1, <1>2, <1>4, Zenon DEF LexInv

\* xsl:apply-templates.
LEMMA ApplyTemplatesLex ==
  ASSUME StacksInv, LexInv, Untangled, ApplyTemplates, UNCHANGED sheetVars PROVE LexInv'
<1> DEFINE a == Inner("apply")
<1>1. Going /\ Act.kind \in Body /\ Act.pending = {}
  BY DEF ApplyTemplates, Instruction, Executing
<1>2. CASE nested > MaxNested
  <2>1. Raise("depth", TRUE)
    BY <1>2 DEF ApplyTemplates
  <2> QED BY <1>1, <2>1, LexRight
<1>3. CASE ~(nested > MaxNested)
  <2>1. run' = Append(run, a) /\ frames' = frames /\ error' = error
    BY <1>3 DEF ApplyTemplates
  <2>2. /\ a \in CallSet /\ a.kind = "apply" /\ a.env = Act.env /\ a.pending = {}
        /\ a.passed = {} /\ a.of \notin {"global", "local"}
    <3>1. "apply" \in Kinds
      BY DEF Kinds
    <3> QED BY <1>1, <3>1, InnerHas
  <2> HIDE DEF a
  <2>3. /\ Agree(frames, frames', Top) /\ Base(frames', run[1].kind, Globals)
        /\ Well(frames', Top + Own(a), a, Top, Act, Globals)
    BY <1>1, <2>1, <2>2, InnerWell DEF Body
  <2> QED BY <1>1, <2>1, <2>2, <2>3, LexPush
<1> QED BY <1>2, <1>3

\* A template begins in a frame of its own.
LEMMA TemplateWell ==
  ASSUME NEW gs, NEW d \in Nat, NEW a, a.kind = "template", a.env = NoLocals,
         a.of \notin {"global", "local"}, NEW b, b.pending = {}, NEW G,
         gs[d + 1].stop = 1, Passes(gs[d + 1], a.pending),
         b.kind = "apply" => b.passed = a.pending
  PROVE  Well(gs, d + 1, a, d, b, G)
<1>1. \A x \in VarNames : x \in a.pending \/ OnlyGlobal(gs[d + 1], x)
  BY Zenon DEF Passes, OnlyGlobal
<1>2. Scoped(gs, d + 1, a.env, a.pending)
  BY <1>1, ScopedTemplate
<1>3. \A x \in a.pending : Given(gs[d + 1], x)
  BY Zenon DEF Passes, Given
<1>4. StopOf(a) = 1 /\ Sees(a, d + 1) = d + 1 /\ a.of # "global" /\ a.of # "local"
      /\ a.kind # "params" /\ a.kind # "applied" /\ a.kind # "foreach"
  BY DEF StopOf, Sees
<1>5. b.kind = "apply" => Passes(gs[d + 1], b.passed)
  OBVIOUS
<1> QED BY <1>2, <1>3, <1>4, <1>5, Zenon DEF Well

\* xsl:apply-imports.
LEMMA ApplyImportsLex ==
  ASSUME StacksInv, LexInv, Untangled, ApplyImports, UNCHANGED sheetVars PROVE LexInv'
<1> DEFINE b == Template({})
           a == [b EXCEPT !.of = "imports"]
<1>1. Going /\ Act.kind \in Body /\ Act.pending = {}
  BY DEF ApplyImports, Instruction, Executing
<1>2. CASE rule = 0
  <2>1. Raise("imports", TRUE)
    BY <1>2 DEF ApplyImports
  <2> QED BY <1>1, <2>1, LexRight
<1>3. CASE rule # 0
  <2>1. run' = Append(run, a) /\ frames' = Pushed(1) /\ error' = error
    BY <1>3 DEF ApplyImports
  <2>2. b \in CallSet /\ b.kind = "template" /\ b.env = NoLocals /\ b.pending = {}
    <3>1. {} \in SUBSET VarNames
      OBVIOUS
    <3> QED BY <3>1, TemplateIs, Zenon
  <2>3. a \in CallSet /\ a.kind = "template" /\ a.env = NoLocals /\ a.pending = {}
        /\ a.of \notin {"global", "local"}
    <3>1. LET c == [b EXCEPT !.of = "imports"]
          IN /\ c \in CallSet /\ c.kind = b.kind /\ c.of = "imports"
             /\ c.env = b.env /\ c.pending = b.pending
      <4> HIDE DEF b
      <4> QED BY <2>2, WithOf, Zenon
    <3> HIDE DEF b
    <3> QED BY <2>2, <3>1
  <2> HIDE DEF a, b
  <2>4. /\ Agree(frames, frames', Top) /\ Base(frames', run[1].kind, Globals)
        /\ frames'[Top + 1].stop = 1 /\ frames'[Top + 1].vars = <<>>
    BY <1>1, <2>1, PushedBase
  <2>5. Passes(frames'[Top + 1], {})
    <3>1. DOMAIN frames'[Top + 1].vars = {}
      BY <2>4
    <3> QED BY <3>1 DEF Passes
  <2>6. Own(a) = 1 /\ Top \in Nat /\ Act.kind # "apply"
    <3>1. Own(a) = 1
      BY <2>3 DEF Own, Owns
    <3>2. Top \in Nat
      BY <1>1, LexTop
    <3> QED BY <1>1, <3>1, <3>2 DEF Body
  <2>7. Well(frames', Top + Own(a), a, Top, Act, Globals)
    BY <1>1, <2>3, <2>4, <2>5, <2>6, TemplateWell
  <2> QED BY <1>1, <2>1, <2>3, <2>4, <2>7, LexPush
<1> QED BY <1>2, <1>3

\* Nothing waits to be declared where only top-level variables are seen.
LEMMA NonePending ==
  ASSUME StacksInv, LexInv, Going, frames[Top].stop # 2, SeesGlobals(frames, Top)
  PROVE  Act.pending = {}
<1>1. Top \in Nat \ {0} /\ Well(frames, Top, Act, Top - Own(Act), Below, Globals)
  BY LexTop
<1>2. AllGlobal(frames[Top])
  BY <1>1, SeenTop DEF SeesGlobals
<1> SUFFICES ASSUME NEW x \in Act.pending PROVE FALSE
  OBVIOUS
<1>3. Given(frames[Top], x)
  BY <1>1, Zenon DEF Well
<1> QED BY <1>2, <1>3, Zenon DEF Given, AllGlobal, Lacks

\* The evaluation of a variable begins.
LEMMA EvaluateLex ==
  ASSUME StacksInv, LexInv, Going, NEW x \in VarNames, NEW how \in {"select", "content"},
         NEW active, NEW decl \in {"global", "local"}, Evaluate(x, how, active, decl),
         Act.kind # "applied", Act.pending = {},
         decl = "global" => x \in Globals /\ frames[Top].stop # 2 /\ SeesGlobals(frames, Top),
         decl = "local" => /\ how = "content" /\ Act.kind \in Body \cup {"params"}
                           /\ Act.kind = "params" \/ Lacks(frames[Top], x),
         error' = error, UNCHANGED sheetVars
  PROVE  LexInv'
<1>1. /\ Top \in Nat \ {0} /\ Base(frames, run[1].kind, Globals)
      /\ Well(frames, Top, Act, Top - Own(Act), Below, Globals)
  BY LexTop
<1>2. PICK a \in CallSet :
         /\ run' = Append(run, a) /\ a.kind = how /\ a.var = x /\ a.of = decl
         /\ a.env = (IF decl = "global" THEN NoLocals ELSE Act.env)
         /\ a.pending = (IF decl = "global" THEN {} ELSE Act.pending)
  BY EvaluateIs
<1>3. frames' = IF how = "content" THEN Pushed(0) ELSE frames
  BY DEF Evaluate
<1>4. Scoped(frames, Top, a.env, {}) /\ a.pending = {}
  <2>1. CASE decl = "global"
    <3>1. \A y \in VarNames : NoLocals[y] = NoVar
      BY DEF NoLocals
    <3> QED BY <1>1, <1>2, <2>1, <3>1, GlobalsScoped
  <2>2. CASE decl = "local"
    <3>1. Scoped(frames, Top, Act.env, {})
      BY <1>1, Zenon DEF Well, Sees
    <3> QED BY <1>2, <2>2, <3>1
  <2> QED BY <2>1, <2>2
<1>5. /\ Agree(frames, frames', Top) /\ Base(frames', run[1].kind, Globals)
      /\ Scoped(frames', Top + Own(a), a.env, {})
      /\ Owns(a) => frames'[Top + Own(a)].stop = 0
  <2>1. CASE how = "content"
    <3>1. /\ Agree(frames, frames', Top) /\ Base(frames', run[1].kind, Globals)
          /\ frames'[Top + 1].stop = 0 /\ frames'[Top + 1].vars = <<>>
      BY <1>3, <2>1, PushedBase
    <3>2. Own(a) = 1
      BY <1>2, <2>1 DEF Own, Owns
    <3>3. Scoped(frames', Top + 1, a.env, {})
      BY <1>1, <1>4, <3>1, ScopedEmpty
    <3> QED BY <3>1, <3>2, <3>3
  <2>2. CASE how = "select"
    <3>1. frames' = frames /\ Own(a) = 0 /\ ~Owns(a) /\ Top + Own(a) = Top
      BY <1>1, <1>2, <1>3, <2>2 DEF Own, Owns
    <3> QED BY <1>1, <1>4, <3>1 DEF Agree
  <2> QED BY <2>1, <2>2
<1>6. Well(frames', Top + Own(a), a, Top, Act, Globals)
  <2>1. /\ StopOf(a) = 0 /\ Sees(a, Top + Own(a)) = Top + Own(a)
        /\ a.kind \notin {"globals", "main", "params", "applied", "template", "foreach"}
    BY <1>2 DEF StopOf, Sees
  <2>2. a.kind # "template" /\ a.kind # "foreach"
    BY <2>1
  <2>3. frames'[Top] = frames[Top]
    BY <1>1, <1>5 DEF Agree
  <2>4. a.of = "global" => a.var \in Globals /\ frames'[Top].stop # 2 /\ SeesGlobals(frames', Top)
    <3> SUFFICES ASSUME a.of = "global"
                 PROVE  a.var \in Globals /\ frames'[Top].stop # 2 /\ SeesGlobals(frames', Top)
      OBVIOUS
    <3>1. a.var \in Globals /\ frames[Top].stop # 2 /\ SeesGlobals(frames, Top)
      BY <1>2
    <3> QED BY <3>1, <2>3, <1>1, <1>5, SeesGlobalsAgree
  <2>5. a.of = "local" /\ Act.kind # "params" => Lacks(frames'[Top], a.var)
    BY <1>2, <2>3
  <2>6. a.of = "local" => a.kind = "content" /\ Act.kind \in Body \cup {"params"}
    BY <1>2
  <2> QED BY <1>4, <1>5, <2>1, <2>2, <2>4, <2>5, <2>6, Zenon DEF Well
<1> QED BY <1>2, <1>5, <1>6, LexPush

\* The evaluation of a top-level variable.
LEMMA EvaluateGlobalLex ==
  ASSUME StacksInv, LexInv, NEW x \in VarNames, NEW how \in {"select", "content"},
         EvaluateGlobal(x, how), UNCHANGED sheetVars
  PROVE  LexInv'
<1>1. Going /\ Act.kind = "globals" /\ x \in Globals /\ Evaluate(x, how, TRUE, "global") /\ error' = error
  BY DEF EvaluateGlobal
<1>2. Top = 1 /\ Base(frames, run[1].kind, Globals)
  <2>1. Base(frames, run[1].kind, Globals)
    BY <1>1, LexTop
  <2>2. Top = 1
    BY <1>1, OnlyCall, Zenon
  <2> QED BY <2>1, <2>2
<1>3. frames[1].stop # 2 /\ AllGlobal(frames[1])
  <2>1. frames[1].stop = 0
    BY <1>2, Zenon DEF Base
  <2>2. AllGlobal(frames[1])
    BY <1>2, Zenon DEF Base, AllGlobal
  <2> QED BY <2>1, <2>2
<1>4. frames[Top].stop # 2 /\ SeesGlobals(frames, Top)
  BY <1>2, <1>3 DEF SeesGlobals, Seen
<1>5. Act.pending = {}
  BY <1>1, <1>4, NonePending
<1> DEFINE decl == "global"
<1>6. decl \in {"global", "local"} /\ decl = "global" /\ Evaluate(x, how, TRUE, decl)
  BY <1>1
<1> HIDE DEF decl
<1> QED BY <1>1, <1>4, <1>5, <1>6, EvaluateLex

\* A use of a variable is an error only if its own value needs it, or there is none.
LEMMA ForcesLex ==
  ASSUME StacksInv, LexInv, Untangled, Going, Act.kind \in Expressions, NEW x \in VarNames,
         NEW how \in {"select", "content"}, Forces(x, how), UNCHANGED sheetVars
  PROVE  LexInv'
<1>1. /\ x \in Globals /\ NothingLocal /\ Frame.stop # 2 /\ Evaluate(x, how, TRUE, "global")
      /\ error' = error
  BY DEF Forces
<1>2. /\ frames \in Seq(FrameSet) /\ Top \in Nat \ {0} /\ Base(frames, run[1].kind, Globals)
  BY LexTop
<1>3. Top > 0 /\ frames[1].stop = 0
  BY <1>2 DEF Base
<1>4. Seen(frames, Top) \subseteq Visited
  BY <1>2, <1>3, VisitedIs
<1>5. frames[Top].stop # 2 /\ SeesGlobals(frames, Top)
  <2>1. \A j \in Visited : AllGlobal(frames[j])
    BY <1>1, Zenon DEF NothingLocal, AllGlobal
  <2>2. frames[Top].stop # 2
    BY <1>1 DEF Frame
  <2> QED BY <1>4, <2>1, <2>2 DEF SeesGlobals
<1>6. Act.pending = {}
  BY <1>5, NonePending
<1> DEFINE decl == "global"
<1>7. decl \in {"global", "local"} /\ decl = "global" /\ Evaluate(x, how, TRUE, decl)
  BY <1>1
<1>8. Act.kind # "applied"
  BY DEF Expressions
<1> HIDE DEF decl
<1> QED BY <1>1, <1>5, <1>6, <1>7, <1>8, EvaluateLex

\* A variable in process is being evaluated.
LEMMA InProcessIs ==
  ASSUME StacksInv, Going, Act.kind \in Expressions, inProcess # <<>>, NEW x,
         Contains(inProcess, x)
  PROVE  BeingEvaluated(x)
<1>1. /\ run \in Seq(CallSet) /\ Mirrors(run, inProcess) /\ run[1].kind = "globals" /\ Len(run) > 1
      /\ inProcess \in Seq(VarNames)
  <2>1. Len(run) > 1
    BY Going_ DEF Expressions
  <2>2. run \in Seq(CallSet) /\ inProcess \in Seq(VarNames)
    BY DEF StacksInv, TypeOK
  <2>3. Mirrors(run, inProcess)
    BY <2>1 DEF StacksInv, Follows
  <2> QED BY <2>1, <2>2, <2>3, InGlobals
<1>2. PICK k \in 1 .. Len(inProcess) : inProcess[k] = x
  BY DEF Contains
<1>3. PICK i \in EvaluatesTo(run, Len(run)) : SinceIn(run, i) = k
  BY <1>1, <1>2 DEF Mirrors
<1>4. inProcess[SinceIn(run, i)] = run[i].var
  BY <1>1, <1>3 DEF Mirrors
<1>5. i \in DOMAIN run /\ run[i].of = "global" /\ run[i].var = x
  BY <1>1, <1>2, <1>3, <1>4 DEF EvaluatesTo
<1> QED BY <1>5, Zenon DEF BeingEvaluated

\* Without variables in process the transformation proper has begun.
LEMMA InMain ==
  ASSUME StacksInv, Going, Len(run) > 1, inProcess = <<>>
  PROVE  run[1].kind = "main"
<1>1. /\ run \in Seq(CallSet) /\ Mirrors(run, inProcess) /\ Len(run) \in Nat
      /\ run[1].kind \in {"globals", "main"} /\ Nests(run, 2)
  <2>1. run \in Seq(CallSet)
    BY DEF StacksInv, TypeOK
  <2>2. 2 \in 2 .. Len(run) /\ Len(run) \in Nat /\ Len(run) > 0
    BY <2>1
  <2>3. Mirrors(run, inProcess) /\ NestedRun(run)
    BY <2>2 DEF StacksInv, Follows
  <2>4. run[1].kind \in {"globals", "main"}
    BY <2>2, <2>3, Zenon DEF NestedRun
  <2>5. Nests(run, 2)
    BY <2>2, <2>3, Zenon DEF NestedRun
  <2> QED BY <2>1, <2>2, <2>3, <2>4, <2>5
<1> SUFFICES ASSUME run[1].kind = "globals" PROVE FALSE
  BY <1>1
<1>2. run[2].of = "global"
  <2>1. Above(run[2], run[2 - 1], 2, run[1])
    BY <1>1, Zenon DEF Nests
  <2> QED BY <2>1 DEF Above
<1>3. 2 \in EvaluatesTo(run, Len(run))
  BY <1>1, <1>2 DEF EvaluatesTo
<1>4. Cardinality(EvaluatesTo(run, Len(run))) = 0
  BY <1>1 DEF Mirrors
<1>5. IsFiniteSet(EvaluatesTo(run, Len(run)))
  BY <1>1, Counts
<1> QED BY <1>3, <1>4, <1>5, FS_EmptySet

\* A use of a variable that is not found.
LEMMA UseLex ==
  ASSUME StacksInv, LexInv, Untangled, NEW x \in VarNames, NEW how \in {"select", "content"},
         Use(x, how), UNCHANGED sheetVars
  PROVE  LexInv'
<1>1. Going /\ Act.kind \in Expressions /\ GetVar(x) = NoVar /\ Uses(x, how)
  BY DEF Use
<1>2. CASE Forces(x, how)
  BY <1>1, <1>2, ForcesLex
<1>3. CASE inProcess # <<>> /\ Contains(inProcess, x) /\ Raise("circular", BeingEvaluated(x))
  <2>1. BeingEvaluated(x)
    BY <1>1, <1>3, InProcessIs
  <2> QED BY <1>1, <1>3, <2>1, LexRight
<1>4. CASE /\ inProcess = <<>> \/ x \notin Globals
           /\ Raise("undeclared", Act.env[x] = NoVar /\ x \notin Globals)
  <2>1. /\ frames \in Seq(FrameSet) /\ Base(frames, run[1].kind, Globals) /\ Act \in CallSet
        /\ Well(frames, Top, Act, Top - Own(Act), Below, Globals)
    BY <1>1, LexTop, Going_, Zenon
  <2>2. Scoped(frames, Top, Act.env, Act.pending)
    <3>1. Act.kind # "applied"
      BY <1>1 DEF Expressions
    <3> QED BY <2>1, <3>1, Zenon DEF Well, Sees
  <2>3. Act.env \in [VarNames -> Place]
    BY <2>1 DEF CallSet
  <2>4. /\ Act.env[x] # NoVar => GetVar(x) = Act.env[x]
        /\ run[1].kind = "main" /\ x \in Globals => GetVar(x) # NoVar
    BY <2>1, <2>2, <2>3, LookupIs, Zenon
  <2>5. Act.env[x] = NoVar
    BY <1>1, <2>4
  <2>6. x \notin Globals
    <3> SUFFICES ASSUME x \in Globals PROVE FALSE
      OBVIOUS
    <3>1. inProcess = <<>>
      BY <1>4
    <3>2. Len(run) > 1
      <4>1. Act.kind \notin {"globals", "main"}
        BY <1>1 DEF Expressions
      <4> QED BY <1>1, <4>1, Going_, Zenon
    <3>3. run[1].kind = "main"
      BY <1>1, <3>1, <3>2, InMain
    <3> QED BY <1>1, <2>4, <3>3
  <2>7. Act.env[x] = NoVar /\ x \notin Globals
    BY <2>5, <2>6
  <2> QED BY <1>1, <1>4, <2>7, LexRight
<1> QED BY <1>1, <1>2, <1>3, <1>4 DEF Uses

\* The end of the transformation.
LEMMA FinishLex ==
  ASSUME StacksInv, LexInv, Finish, UNCHANGED sheetVars PROVE LexInv'
<1>1. run' = <<>> /\ error' = error
  BY DEF Finish
<1>2. Len(run') = 0
  BY <1>1
<1>3. (Lex(frames, run, Globals))'
  BY <1>2 DEF Lex
<1> QED BY <1>1, <1>3, Zenon DEF LexInv

(* ---------------------------- instructions that end ------------------------ *)
\* The call in progress ends, and those below it stay as they are.
LEMMA LexReturn ==
  ASSUME StacksInv, LexInv, Going, Len(run) > 1, run' = Front(run),
         NEW k \in Nat, k = Top - Own(Act), Agree(frames, frames', k),
         Base(frames', run[1].kind, Globals), error' = error, UNCHANGED sheetVars
  PROVE  LexInv'
<1> DEFINE n == Len(run) - 1
<1>1. /\ run \in Seq(CallSet) /\ Opens(run[1]) /\ Lex(frames, run, Globals)
      /\ error.right /\ Depth(run, n) = k /\ Len(run) \in Nat \ {0}
  BY LexTop
<1>2. n \in Nat \ {0} /\ n \in 0 .. Len(run) /\ 1 \in 1 .. n
  <2>1. n \in Nat \ {0}
    BY <1>1, OneLess
  <2> QED BY <1>1, <2>1
<1>3. Len(run') = n /\ \A i \in 1 .. n : run'[i] = run[i]
  <2>1. run' = SubSeq(run, 1, n)
    BY DEF Front
  <2> QED BY <1>1, <1>2, <2>1, Fronts
<1>4. Shares(frames, frames', run, run', n)
  BY <1>1, <1>3 DEF Shares
<1> HIDE DEF n
<1>5. ASSUME NEW i \in 1 .. n
      PROVE  Well(frames', Depth(run', i), run'[i], Depth(run', i - 1), run'[i - 1], Globals)
  <2>1. i \in 1 .. Len(run) /\ Len(run) > 0
    BY <1>1, <1>2
  <2>2. Well(frames, Depth(run, i), run[i], Depth(run, i - 1), run[i - 1], Globals)
    BY <1>1, <2>1 DEF Lex
  <2> QED BY <1>1, <1>2, <1>4, <2>2, WellShared
<1>6. Base(frames', run'[1].kind, Globals)
  BY <1>2, <1>3
<1>7. Lex(frames', run', Globals)
  BY <1>3, <1>5, <1>6 DEF Lex
<1> QED BY <1>1, <1>7, LexPrime

\* The end of xsl:apply-templates.
LEMMA EndOfApplyLex ==
  ASSUME StacksInv, LexInv, EndOfApply, UNCHANGED sheetVars PROVE LexInv'
<1>1. /\ Going /\ Act.kind \in {"apply", "applied"} /\ run' = Front(run) /\ error' = error
      /\ frames' = IF Act.kind = "applied" THEN Front(frames) ELSE frames
  BY DEF EndOfApply
<1>2. /\ Len(run) > 1 /\ Top \in Nat \ {0} /\ (Owns(Act) => Top > 1)
      /\ Base(frames, run[1].kind, Globals)
  <2>1. Act.kind \notin {"globals", "main"}
    BY <1>1
  <2> QED BY <1>1, <2>1, Going_, LexTop
<1>3. CASE Act.kind = "applied"
  <2>1. Own(Act) = 1 /\ Top > 1
    BY <1>2, <1>3 DEF Own, Owns
  <2>2. Agree(frames, frames', Top - 1) /\ Base(frames', run[1].kind, Globals)
    BY <1>1, <1>3, <2>1, FrontBase
  <2>3. Top - 1 \in Nat /\ Top - 1 = Top - Own(Act)
    BY <1>2, <2>1
  <2> QED BY <1>1, <1>2, <2>2, <2>3, LexReturn
<1>4. CASE Act.kind = "apply"
  <2>1. Own(Act) = 0 /\ frames' = frames
    BY <1>1, <1>4 DEF Own, Owns
  <2>2. Top \in Nat /\ Top = Top - Own(Act)
    BY <1>2, <2>1
  <2>3. Agree(frames, frames', Top) /\ Base(frames', run[1].kind, Globals)
    BY <1>2, <2>1 DEF Agree
  <2> QED BY <1>1, <1>2, <2>2, <2>3, LexReturn
<1> QED BY <1>1, <1>3, <1>4

\* The next iteration sees what the first one has seen.
LEMMA AgainLex ==
  ASSUME StacksInv, LexInv, Again, UNCHANGED sheetVars PROVE LexInv'
<1> DEFINE b == [Act EXCEPT !.env = Below.env]
           k == Top - 1
<1>1. /\ Going /\ Act.kind = "foreach" /\ frames' = NextIteration(frames)
      /\ run' = Replaced(run, b) /\ error' = error
  BY DEF Again, Executing, Below
<1>2. /\ Len(run) > 1 /\ Top \in Nat \ {0} /\ Top > 1 /\ frames \in Seq(FrameSet)
      /\ Top = Len(frames) /\ Act \in CallSet /\ Nests(run, Len(run))
      /\ Base(frames, run[1].kind, Globals) /\ run \in Seq(CallSet)
  <2>1. Act.kind \notin {"globals", "main"} /\ Owns(Act)
    BY <1>1 DEF Owns
  <2> QED BY <1>1, <2>1, Going_, LexTop
<1>3. k \in Nat \ {0} /\ k + 1 = Top /\ Own(Act) = 1 /\ k = Top - Own(Act)
  <2>1. Own(Act) = 1
    BY <1>1 DEF Own, Owns
  <2> QED BY <1>2, <2>1
<1>4. /\ Well(frames, Top, Act, k, Below, Globals)
      /\ Well(frames, k, Below, k - Own(Below), run[Len(run) - 2], Globals)
  <2>1. /\ Well(frames, Top, Act, Top - Own(Act), Below, Globals)
        /\ Well(frames, Top - Own(Act), Below, (Top - Own(Act)) - Own(Below),
                run[Len(run) - 2], Globals)
    BY <1>1, <1>2, LexTop
  <2>2. Top - Own(Act) = k
    BY <1>3
  <2> QED BY <2>1, <2>2
<1>5. Below \in CallSet /\ Below.kind # "applied"
  <2>1. Len(run) - 1 \in 1 .. Len(run)
    BY <1>2
  <2>2. Below \in CallSet
    BY <1>2, <2>1 DEF Below
  <2>3. Above(Act, Below, Len(run), run[1])
    BY <1>1, <1>2, Going_ DEF Nests, Below
  <2> QED BY <2>2, <2>3, Zenon DEF Above
<1>6. b \in CallSet /\ Like(Act, b) /\ b.env = Below.env /\ b.pending = Act.pending
  <2> DEFINE e == Below.env
  <2>1. e \in [VarNames -> Place]
    BY <1>5 DEF CallSet
  <2> HIDE DEF e
  <2>2. LET d == [Act EXCEPT !.env = e]
        IN /\ d \in CallSet /\ Like(Act, d) /\ d.passed = Act.passed /\ d.env = e
           /\ d.pending = Act.pending
    BY <1>2, <2>1, WithEnv
  <2> QED BY <2>2 DEF e
<1> HIDE DEF b
<1>7. b.kind = "foreach" /\ b.of = Act.of /\ b.var = Act.var /\ b.pending = {}
      /\ Below.pending = {}
  <2>1. Act.pending = {}
    BY <1>1, <1>4, Zenon DEF Well
  <2>2. Below.pending = {}
    BY <1>1, <1>4, Zenon DEF Well
  <2> QED BY <1>1, <1>6, <2>1, <2>2 DEF Like
<1>8. /\ frames' \in Seq(FrameSet) /\ Len(frames') = Top /\ Agree(frames, frames', k)
      /\ frames'[Top].vars = <<>> /\ frames'[Top].stop = 0
  <2> DEFINE f == Owning(<<>>)
  <2>1. f \in FrameSet /\ f.vars = <<>> /\ f.stop = 0
    BY DEF Owning, FrameSet
  <2>2. frames' = IF frames[Top].polluted THEN Replaced(frames, f) ELSE frames
    BY <1>1, <1>2 DEF NextIteration, Last
  <2> HIDE DEF f
  <2>3. CASE frames[Top].polluted
    <3>1. /\ frames' \in Seq(FrameSet) /\ Len(frames') = Len(frames)
          /\ frames'[Len(frames)] = f /\ \A i \in 1 .. Len(frames) - 1 : frames'[i] = frames[i]
      <4>1. frames' = Replaced(frames, f)
        BY <2>2, <2>3, Zenon
      <4>2. frames \in Seq(FrameSet) /\ Len(frames) > 0 /\ f \in FrameSet
        BY <1>2, <2>1
      <4>3. /\ Replaced(frames, f) \in Seq(FrameSet) /\ Len(Replaced(frames, f)) = Len(frames)
            /\ Replaced(frames, f)[Len(frames)] = f
            /\ \A i \in 1 .. Len(frames) - 1 : Replaced(frames, f)[i] = frames[i]
        BY <4>2, Replacing
      <4> QED BY <4>1, <4>3
    <3> QED BY <1>2, <2>1, <3>1 DEF Agree
  <2>4. CASE ~frames[Top].polluted
    <3>1. frames' = frames
      BY <2>2, <2>4, Zenon
    <3>2. frames[Top].vars = <<>>
      BY <1>1, <1>4, <2>4, Zenon DEF Well
    <3>3. frames[Top].stop = 0
      <4>1. Owns(Act) /\ StopOf(Act) = 0
        BY <1>1 DEF Owns, StopOf
      <4> QED BY <1>4, <4>1, Zenon DEF Well
    <3> QED BY <1>2, <3>1, <3>2, <3>3 DEF Agree
  <2> QED BY <2>3, <2>4
<1>9. Base(frames', run[1].kind, Globals)
  <2>1. Top # 1 /\ Len(frames') > 0 /\ Len(frames') - 1 = k /\ Len(frames') - 1 <= Len(frames)
    BY <1>2, <1>8
  <2>2. Suits(frames', Top, run[1].kind, Globals)
    BY <1>8, <2>1, EmptySuits
  <2> QED BY <1>2, <1>8, <2>1, <2>2, BaseStep
<1>10. Scoped(frames', k + 1, b.env, {})
  <2>1. Scoped(frames, k, Below.env, {})
    <3>1. Sees(Below, k) = k
      BY <1>5 DEF Sees
    <3>2. Scoped(frames, Sees(Below, k), Below.env, Below.pending)
      BY <1>4, Zenon DEF Well
    <3> QED BY <1>7, <3>1, <3>2
  <2>2. frames'[k + 1].stop = 0 /\ frames'[k + 1].vars = <<>>
    BY <1>3, <1>8
  <2> QED BY <1>3, <1>6, <1>8, <2>1, <2>2, ScopedEmpty
<1>11. Well(frames', Top, b, k, Below, Globals)
  <2>1. StopOf(b) = 0 /\ Sees(b, Top) = Top
    BY <1>7 DEF StopOf, Sees
  <2>2. Act.of # "global" /\ Act.of # "local"
    <3>1. Above(Act, Below, Len(run), run[1])
      BY <1>1, <1>2, Going_ DEF Nests, Below
    <3>2. Act.of \in {"", "again", "imports"}
      BY <1>1, <3>1, Zenon DEF Above
    <3>3. \A o \in {"", "again", "imports"} : o # "global" /\ o # "local"
      OBVIOUS
    <3> QED BY <3>2, <3>3, Zenon
  <2>3. Scoped(frames', Sees(b, Top), b.env, b.pending)
    BY <1>3, <1>7, <1>10, <2>1
  <2>4. /\ b.kind # "params" /\ b.kind # "applied" /\ b.kind # "template"
        /\ b.kind \notin {"params", "applied"} /\ b.of # "global" /\ b.of # "local"
    BY <1>7, <2>2
  <2> QED BY <1>7, <1>8, <2>1, <2>3, <2>4, Zenon DEF Well
<1>12. Top = k + Own(b)
  <2>1. Own(b) = 1
    BY <1>7 DEF Own, Owns
  <2> QED BY <1>3, <2>1
<1>13. Going /\ Len(run) > 1 /\ b \in CallSet /\ run' = Replaced(run, b) /\ k \in Nat
       /\ k = Top - Own(Act) /\ error' = error
  BY <1>1, <1>2, <1>3, <1>6
<1>14. Agree(frames, frames', k) /\ Well(frames', k + Own(b), b, k, Below, Globals)
  BY <1>8, <1>11, <1>12
<1> HIDE DEF k
<1> QED BY <1>9, <1>13, <1>14, LexReplace

\* Any other failure.
LEMMA FailLex ==
  ASSUME StacksInv, LexInv, Fail, UNCHANGED sheetVars PROVE LexInv'
<1> DEFINE right == TRUE
<1>1. Going /\ Raise("other", right) /\ right
  BY DEF Fail
<1> HIDE DEF right
<1> QED BY <1>1, LexRight

(* ---------------------------- beginning and phases ------------------------- *)
\* At first the outermost frame has the parameters of the transformation.
LEMMA StartLex ==
  ASSUME StacksInv, LexInv, NEW passed \in SUBSET Globals, Start(passed), UNCHANGED sheetVars
  PROVE  LexInv'
<1> DEFINE n == Cardinality(passed)
           t == TRUE
           d == "global"
           vs == [i \in 1 .. n |-> Variable(SetToSeq(passed)[i], t, d)]
           f == Owning(vs)
           k == "globals"
           none == {}
           a == Call(k, NoLocals, none)
<1>1. frames' = <<f>> /\ error' = NoError /\ run' = <<a>> /\ open = <<>>
  BY DEF Start, Runs
<1>2. passed \in SUBSET VarNames
  BY DEF StacksInv, TypeOK
<1>3. n \in Nat /\ SetToSeq(passed) \in [1 .. n -> passed]
  BY <1>2, Listed
<1>4. /\ f.stop = 0
      /\ \A q \in DOMAIN f.vars : f.vars[q].active /\ f.vars[q].decl = "global" /\ f.vars[q].name \in Globals
  <2>1. t \in BOOLEAN /\ d \in {"global", "local"} /\ t /\ d = "global"
    OBVIOUS
  <2> HIDE DEF t, d, n, k, none
  <2>2. ASSUME NEW i \in 1 .. n
        PROVE  LET v == Variable(SetToSeq(passed)[i], t, d)
               IN v.active = t /\ v.decl = d /\ v.name \in Globals
    <3> DEFINE x == SetToSeq(passed)[i]
    <3>1. x \in VarNames /\ x \in Globals
      BY <1>2, <1>3
    <3> HIDE DEF x
    <3>2. LET v == Variable(x, t, d)
          IN v \in VarSet /\ v.name = x /\ v.active = t /\ v.decl = d
      BY <2>1, <3>1, VariableIs
    <3> QED BY <3>1, <3>2 DEF x
  <2>3. DOMAIN vs = 1 .. n /\ \A i \in 1 .. n : vs[i] = Variable(SetToSeq(passed)[i], t, d)
    OBVIOUS
  <2> HIDE DEF vs
  <2>4. f.vars = vs /\ f.stop = 0
    BY DEF Owning
  <2>5. \A q \in DOMAIN vs : vs[q].active = t /\ vs[q].decl = d /\ vs[q].name \in Globals
    BY <2>2, <2>3
  <2> HIDE DEF f
  <2>6. \A q \in DOMAIN f.vars : f.vars[q].active = t /\ f.vars[q].decl = d /\ f.vars[q].name \in Globals
    BY <2>4, <2>5
  <2> QED BY <2>1, <2>4, <2>6, Zenon
<1>5. /\ a.kind = "globals" /\ a.env = NoLocals /\ a.pending = {} /\ Opens(a)
  <2>1. k \in Kinds /\ none \in SUBSET VarNames
    BY DEF Kinds
  <2> HIDE DEF k, none, vs, n, f
  <2>2. Bare(a, k, NoLocals, none)
    BY <2>1, NothingDeclared, CallIs
  <2>3. Opens(a)
    <3>1. "" \notin {"global", "local"}
      BY Zenon
    <3> QED BY <2>2, <3>1, Zenon DEF Bare, Opens, k
  <2> QED BY <2>2, <2>3, Zenon DEF Bare, k, none
<1> HIDE DEF f, a, vs, n, k, none, t, d
<1>6. Len(frames') = 1 /\ frames'[1] = f /\ DOMAIN frames' = {1} /\ Len(run') = 1 /\ run'[1] = a
  BY <1>1
<1>7. Base(frames', "globals", Globals)
  <2>1. f.stop # 2 /\ "globals" # "main" /\ Len(frames') > 0
    BY <1>4, <1>6
  <2> QED BY <1>4, <1>6, <2>1, Zenon DEF Base
<1>8. SeesGlobals(frames', 1)
  BY <1>4, <1>6 DEF SeesGlobals, Seen, AllGlobal
<1>9. ASSUME NEW c, NEW b PROVE Well(frames', 1, a, c, b, Globals)
  <2>1. \A y \in VarNames : NoLocals[y] = NoVar
    BY DEF NoLocals
  <2>2. Scoped(frames', 1, a.env, a.pending)
    BY <1>5, <1>8, <2>1, GlobalsScoped
  <2> QED BY <1>4, <1>5, <1>6, <2>2, WellFirst
<1>10. Depth(run', 1) = 1
  <2>1. OwnedTo(run', 1) = {1}
    <3>1. Owns(run'[1])
      BY <1>5, <1>6 DEF Owns
    <3> QED BY <3>1 DEF OwnedTo
  <2> QED BY <2>1, FS_Singleton DEF Depth
<1>11. Lex(frames', run', Globals)
  <2>1. \A i \in 1 .. Len(run') : i = 1
    BY <1>6
  <2> QED BY <1>5, <1>6, <1>7, <1>9, <1>10, <2>1 DEF Lex
<1>12. error'.right /\ open' = <<>> /\ Globals' = Globals
  BY <1>1, Zenon DEF NoError, sheetVars, Globals, tables
<1> QED BY <1>11, <1>12, Zenon DEF LexInv

\* In the transformation proper every top-level variable has a value.
LEMMA EndOfGlobalsLex ==
  ASSUME StacksInv, LexInv, EndOfGlobals, UNCHANGED sheetVars PROVE LexInv'
<1> DEFINE k == "main"
           b == [Act EXCEPT !.kind = k]
           l == "apply"
           none == {}
           a == Call(l, NoLocals, none)
<1>1. /\ Going /\ Act.kind = "globals" /\ \A x \in Globals : VarExists(x)
      /\ run' = <<b, a>> /\ frames' = frames /\ error' = error
  BY DEF EndOfGlobals
<1>2. Act \in CallSet /\ Act = run[1] /\ Top = 1 /\ Len(run) = 1
  <2>1. Act \in CallSet
    BY <1>1, Going_
  <2>2. Act.kind \in {"globals", "main"}
    BY <1>1
  <2> QED BY <1>1, <2>1, <2>2, OnlyCall, Zenon
<1>3. /\ Base(frames, run[1].kind, Globals) /\ Opens(run[1]) /\ frames \in Seq(FrameSet)
      /\ Len(frames) = 1 /\ Globals \subseteq VarNames
      /\ Well(frames, 1, Act, Top - Own(Act), Below, Globals)
  <2>1. Globals \subseteq VarNames
    BY DEF StacksInv, TypeOK
  <2> QED BY <1>1, <1>2, <2>1, LexTop
<1>4. /\ frames[1].stop = 0 /\ Scoped(frames, 1, Act.env, Act.pending) /\ Act.pending = {}
      /\ SeesGlobals(frames, 1)
  <2>1. AllGlobal(frames[1])
    BY <1>3, Zenon DEF Base, AllGlobal
  <2> QED BY <1>2, <1>3, <2>1, WellFirst DEF SeesGlobals, Seen
<1>5. b.kind = "main" /\ b.of = Act.of /\ b.env = Act.env /\ b.pending = Act.pending
  <2>1. k \in Kinds
    BY DEF Kinds
  <2> HIDE DEF k, Act
  <2> QED BY <2>1, <1>2, WithKind DEF k
<1>6. a.kind = "apply" /\ a.env = NoLocals /\ a.pending = {} /\ a.of \notin {"global", "local"}
  <2>1. l \in Kinds /\ none \in SUBSET VarNames
    BY DEF Kinds
  <2> HIDE DEF l, none, b, k
  <2>2. Bare(a, l, NoLocals, none)
    BY <2>1, NothingDeclared, CallIs
  <2> QED BY <2>2, Zenon DEF Bare, l, none
<1> HIDE DEF a, b, k, l, none
<1>7. Len(run') = 2 /\ run'[1] = b /\ run'[2] = a
  BY <1>1
<1>8. Depth(run', 1) = 1 /\ Depth(run', 2) = 1
  <2>1. OwnedTo(run', 1) = {1} /\ OwnedTo(run', 2) = {1}
    <3>1. Owns(run'[1]) /\ ~Owns(run'[2])
      BY <1>5, <1>6, <1>7 DEF Owns
    <3> QED BY <3>1 DEF OwnedTo
  <2> QED BY <2>1, FS_Singleton DEF Depth
<1>9. Opens(b)
  BY <1>2, <1>3, <1>5 DEF Opens
<1>10. ASSUME NEW c, NEW r PROVE Well(frames', 1, b, c, r, Globals)
  BY <1>1, <1>4, <1>5, <1>9, WellFirst
<1>11. Well(frames', 1, a, 1, b, Globals)
  <2>1. \A y \in VarNames : NoLocals[y] = NoVar
    BY DEF NoLocals
  <2>2. Scoped(frames', 1, a.env, a.pending)
    BY <1>1, <1>4, <1>6, <2>1, GlobalsScoped
  <2>3. /\ ~Owns(a) /\ Sees(a, 1) = 1 /\ a.of # "global" /\ a.of # "local"
        /\ a.kind # "params" /\ a.kind # "applied" /\ a.kind # "template" /\ a.kind # "foreach"
    BY <1>6 DEF Owns, Sees
  <2> QED BY <1>4, <1>5, <1>6, <2>2, <2>3, Zenon DEF Well
<1>12. Base(frames', "main", Globals)
  <2>1. ASSUME NEW x \in Globals PROVE ~Lacks(frames[1], x)
    <3>1. x \in VarNames /\ VarExists(x)
      BY <1>1, <1>3
    <3>2. PICK i \in Near : Has(frames[i], x, TRUE)
      BY <1>1, <3>1, FoundIs
    <3>3. i = 1
      BY <1>2 DEF Near
    <3>4. Has(frames[1], x, TRUE)
      BY <3>2, <3>3
    <3> QED BY <3>4, Zenon DEF Has, Lacks
  <2>2. \A m \in DOMAIN frames : m = 1
    BY <1>3
  <2> QED BY <1>1, <1>3, <2>1, <2>2, Zenon DEF Base
<1>13. Lex(frames', run', Globals)
  <2>1. \A i \in 1 .. Len(run') : i = 1 \/ i = 2
    BY <1>7
  <2>2. Well(frames', Depth(run', 1), run'[1], Depth(run', 1 - 1), run'[1 - 1], Globals)
    BY <1>7, <1>8, <1>10
  <2>3. Well(frames', Depth(run', 2), run'[2], Depth(run', 2 - 1), run'[2 - 1], Globals)
    <3>1. 2 - 1 = 1
      OBVIOUS
    <3> QED BY <1>7, <1>8, <1>11, <3>1
  <2>4. Base(frames', run'[1].kind, Globals)
    BY <1>5, <1>7, <1>12
  <2> QED BY <2>1, <2>2, <2>3, <2>4 DEF Lex
<1>14. error'.right
  BY <1>1, LexTop
<1> QED BY <1>1, <1>13, <1>14, LexPrime

(* ------------------------------ templates and nodes ------------------------ *)
\* Of the calls m are left, and there are two others on top of them.
LEMMA LexTwo ==
  ASSUME StacksInv, LexInv, Going, NEW m \in Nat \ {0}, m < Len(run), NEW k, k = Depth(run, m),
         run' \in Seq(CallSet), Len(run') = m + 2, \A i \in 1 .. m : run'[i] = run[i],
         NEW b, b = run'[m + 1], NEW a, a = run'[m + 2],
         Agree(frames, frames', k), Base(frames', run[1].kind, Globals),
         Well(frames', k + Own(b), b, k, run[m], Globals),
         Well(frames', (k + Own(b)) + Own(a), a, k + Own(b), b, Globals),
         error' = error, UNCHANGED sheetVars
  PROVE  LexInv'
<1> DEFINE q == SubSeq(run', 1, m + 1)
           e == m + 1
           kb == k + Own(b)
<1>1. /\ Opens(run[1]) /\ Lex(frames, run, Globals) /\ error.right /\ Len(run) \in Nat \ {0}
  BY LexTop
<1>2. Len(q) = e /\ \A i \in 1 .. e : q[i] = run'[i]
  <2>1. m + 1 \in 0 .. Len(run')
    OBVIOUS
  <2> QED BY <2>1, Fronts
<1>3. /\ e \in Nat \ {0} /\ q[e] = b /\ \A i \in 1 .. m : q[i] = run[i]
      /\ q[m] = run[m] /\ q[1] = run[1] /\ run'[1] = run[1] /\ Len(run') = e + 1 /\ run'[e + 1] = a
      /\ run'[e] = b
  <2>1. m + 1 \in 1 .. m + 1 /\ m \in 1 .. m /\ 1 \in 1 .. m /\ \A i \in 1 .. m : i \in 1 .. m + 1
    OBVIOUS
  <2>2. (m + 1) + 1 = m + 2
    OBVIOUS
  <2> HIDE DEF q
  <2> QED BY <2>1, <2>2, <1>2
<1> HIDE DEF q
<1>4. Lex(frames', q, Globals) /\ Depth(q, m + 1) = k + Own(b)
  <2>1. Shares(frames, frames', run, q, m)
    BY <1>3 DEF Shares
  <2>2. /\ m \in Nat /\ Len(q) = m + 1 /\ m <= Len(run) /\ b = q[m + 1] /\ run[m] = q[m]
        /\ Base(frames', q[1].kind, Globals)
    BY <1>1, <1>2, <1>3
  <2> QED BY <1>1, <2>1, <2>2, LexStep
<1>5. Lex(frames', run', Globals)
  <2>1. Shares(frames', frames', q, run', e)
    BY <1>2 DEF Shares, Agree
  <2>2. /\ Len(run') = e + 1 /\ e <= Len(q) /\ Len(q) \in Nat \ {0} /\ Opens(q[1]) /\ e \in Nat
        /\ Base(frames', run'[1].kind, Globals) /\ kb = Depth(q, e) /\ a = run'[e + 1] /\ b = run'[e]
    BY <1>1, <1>2, <1>3, <1>4
  <2>3. Well(frames', kb + Own(a), a, kb, b, Globals)
    OBVIOUS
  <2>4. Lex(frames', q, Globals)
    BY <1>4
  <2> HIDE DEF kb, e
  <2> QED BY <2>1, <2>2, <2>3, <2>4, LexStep
<1> QED BY <1>1, <1>5, LexPrime

\* What xsl:apply-templates needs between two nodes.
LEMMA ApplyWell ==
  ASSUME NEW gs, NEW d, NEW b, b.kind = "apply", b.of \notin {"global", "local"}, b.pending = {},
         NEW c, NEW r, r.pending = {}, NEW G, Scoped(gs, d, b.env, {})
  PROVE  Well(gs, d, b, c, r, G)
<1>1. /\ ~Owns(b) /\ Sees(b, d) = d /\ b.of # "global" /\ b.of # "local"
      /\ b.kind # "params" /\ b.kind # "applied" /\ b.kind # "template" /\ b.kind # "foreach"
  BY DEF Owns, Sees
<1> QED BY <1>1, Zenon DEF Well

\* What it has while a node is processed.
LEMMA OverApply ==
  ASSUME StacksInv, LexInv, Going, Act.kind \in {"params", "template"}, Below.kind = "apply",
         NEW m, m = Len(run) - 2
  PROVE  /\ m \in Nat \ {0} /\ m < Len(run) /\ Own(Act) = 1 /\ Own(Below) = 0
         /\ Depth(run, m) = Top - 1 /\ Top - 1 \in Nat \ {0}
         /\ Below \in CallSet /\ Below.of \notin {"global", "local"} /\ Below.pending = {}
         /\ run[m].pending = {} /\ Scoped(frames, Top - 1, Below.env, {})
         /\ Well(frames, Top, Act, Top - 1, Below, Globals)
<1>1. /\ Len(run) > 1 /\ run \in Seq(CallSet) /\ Len(run) \in Nat \ {0} /\ Top \in Nat \ {0}
      /\ Opens(run[1]) /\ Well(frames, Top, Act, Top - Own(Act), Below, Globals)
      /\ Act.kind \notin {"globals", "main"} /\ NestedRun(run)
  <2>1. Act.kind \notin {"globals", "main"}
    OBVIOUS
  <2>2. NestedRun(run)
    BY DEF StacksInv, Follows
  <2> QED BY <2>1, <2>2, Going_, LexTop
<1>2. Len(run) > 2
  <2> SUFFICES ASSUME Len(run) = 2 PROVE FALSE
    BY <1>1
  <2>1. Below = run[1]
    BY DEF Below
  <2> QED BY <2>1, <1>1 DEF Opens
<1>3. m \in Nat \ {0} /\ m < Len(run) /\ Len(run) - 1 \in 2 .. Len(run) /\ (Len(run) - 1) - 1 = m
      /\ Len(run) - 1 \in 1 .. Len(run)
  BY <1>1, <1>2
<1>4. Own(Act) = 1 /\ Own(Below) = 0
  BY DEF Own, Owns
<1>5. /\ Depth(run, m) = (Top - Own(Act)) - Own(Below) /\ Top - Own(Act) \in Nat \ {0}
      /\ Well(frames, Top - Own(Act), Below, (Top - Own(Act)) - Own(Below), run[m], Globals)
  BY <1>1, LexTop
<1>6. Depth(run, m) = Top - 1 /\ Top - 1 \in Nat \ {0}
  BY <1>1, <1>4, <1>5
<1>7. Well(frames, Top, Act, Top - 1, Below, Globals)
  BY <1>1, <1>4
<1>8. Below \in CallSet
  BY <1>1, <1>3 DEF Below
<1>9. Below.of \notin {"global", "local"}
  <2>1. Nests(run, Len(run) - 1)
    BY <1>1, <1>3 DEF NestedRun
  <2>2. Above(Below, run[m], Len(run) - 1, run[1])
    BY <1>3, <2>1 DEF Nests, Below
  <2>3. Below.of \in {"", "again", "imports"}
    BY <2>2, Zenon DEF Above
  <2>4. \A o \in {"", "again", "imports"} : o \notin {"global", "local"}
    BY Zenon
  <2> QED BY <2>3, <2>4, Zenon
<1>10. Below.pending = {}
  BY <1>1, <1>7, Zenon DEF Well
<1>11. run[m].pending = {}
  <2>1. Below.kind \notin {"globals", "main"}
    OBVIOUS
  <2> QED BY <1>5, <2>1, Zenon DEF Well
<1>12. Scoped(frames, Top - 1, Below.env, {})
  <2>1. Sees(Below, Top - Own(Act)) = Top - 1
    BY <1>4 DEF Sees
  <2>2. Scoped(frames, Sees(Below, Top - Own(Act)), Below.env, Below.pending)
    BY <1>5, Zenon DEF Well
  <2> QED BY <1>10, <2>1, <2>2
<1> QED BY <1>3, <1>4, <1>6, <1>7, <1>8, <1>9, <1>10, <1>11, <1>12

\* Frames with the same variables pass the same parameters.
LEMMA PassesSame ==
  ASSUME NEW f, NEW g, g.vars = f.vars, NEW xs, Passes(f, xs)
  PROVE  Passes(g, xs)
BY DEF Passes, Lacks

\* The parameters become the variables of the template, which waits for them.
LEMMA StartOfTemplateLex ==
  ASSUME StacksInv, LexInv, StartOfTemplate, UNCHANGED sheetVars PROVE LexInv'
<1> DEFINE a == Template(Act.passed)
           f == [Frame EXCEPT !.stop = 1, !.polluted = FALSE]
           k == Top - 1
<1>1. Going /\ Act.kind = "params" /\ frames' = Replaced(frames, f) /\ error' = error
  BY DEF StartOfTemplate
<1>2. /\ Len(run) > 1 /\ Top \in Nat \ {0} /\ Top > 1 /\ frames \in Seq(FrameSet)
      /\ Top = Len(frames) /\ Act \in CallSet /\ Frame \in FrameSet
      /\ Base(frames, run[1].kind, Globals) /\ run \in Seq(CallSet)
      /\ Well(frames, Top, Act, Top - Own(Act), Below, Globals)
  <2>1. Act.kind \notin {"globals", "main"} /\ Owns(Act)
    BY <1>1 DEF Owns
  <2> QED BY <1>1, <2>1, Going_, LexTop
<1>3. k \in Nat \ {0} /\ k + 1 = Top /\ Own(Act) = 1 /\ k = Top - Own(Act)
  <2>1. Own(Act) = 1
    BY <1>1 DEF Own, Owns
  <2> QED BY <1>2, <2>1
<1>4. Passes(frames[Top], Act.passed) /\ Below.pending = {}
  BY <1>1, <1>2, Zenon DEF Well
<1>5. /\ a \in CallSet /\ a.kind = "template" /\ a.env = NoLocals /\ a.pending = Act.passed
      /\ a.of \notin {"global", "local"} /\ Act.passed \in SUBSET VarNames
  <2>1. Act.passed \in SUBSET VarNames
    BY <1>2 DEF CallSet
  <2>2. "" \notin {"global", "local"}
    BY Zenon
  <2> QED BY <2>1, <2>2, TemplateIs, Zenon
<1>6. /\ frames' \in Seq(FrameSet) /\ Len(frames') = Top /\ Agree(frames, frames', k)
      /\ frames'[Top].vars = frames[Top].vars /\ frames'[Top].stop = 1
  <2>1. f \in FrameSet /\ f.vars = Frame.vars /\ f.stop = 1
    <3> DEFINE g == Frame
               one == 1
               no == FALSE
    <3>1. g \in FrameSet /\ one \in {0, 1, 2} /\ no \in BOOLEAN
      BY <1>2
    <3> HIDE DEF g, one, no
    <3>2. [g EXCEPT !.stop = one, !.polluted = no] = [vars |-> g.vars, stop |-> one, polluted |-> no]
      BY <3>1, FrameStopPolluted
    <3>3. [vars |-> g.vars, stop |-> one, polluted |-> no] \in FrameSet
      BY <3>1 DEF FrameSet
    <3>4. LET h == [g EXCEPT !.stop = one, !.polluted = no]
          IN h \in FrameSet /\ h.vars = g.vars /\ h.stop = one
      BY <3>2, <3>3
    <3> QED BY <3>4 DEF g, one, no
  <2> HIDE DEF f, a, k
  <2>2. frames \in Seq(FrameSet) /\ Len(frames) > 0 /\ f \in FrameSet
    BY <1>2, <2>1
  <2>3. /\ Replaced(frames, f) \in Seq(FrameSet) /\ Len(Replaced(frames, f)) = Len(frames)
        /\ Replaced(frames, f)[Len(frames)] = f
        /\ \A i \in 1 .. Len(frames) - 1 : Replaced(frames, f)[i] = frames[i]
    BY <2>2, Replacing
  <2>4. Agree(frames, frames', Len(frames) - 1)
    BY <1>1, <2>3 DEF Agree
  <2>5. Frame = frames[Top]
    BY DEF Frame
  <2> QED BY <1>1, <1>2, <2>1, <2>3, <2>4, <2>5 DEF k
<1> HIDE DEF a, f
<1>7. Base(frames', run[1].kind, Globals)
  <2>1. Top # 1 /\ Len(frames') > 0 /\ Len(frames') - 1 = k /\ Len(frames') - 1 <= Len(frames)
        /\ frames'[Top].stop # 2
    BY <1>2, <1>6
  <2>2. \A q \in DOMAIN frames'[Top].vars : frames'[Top].vars[q].decl # "global"
    <3>1. \A q \in DOMAIN frames[Top].vars : frames[Top].vars[q].decl = "local"
      BY <1>4, Zenon DEF Passes
    <3> QED BY <1>6, <3>1
  <2>3. Suits(frames', Top, run[1].kind, Globals)
    BY <2>1, <2>2, Zenon DEF Suits
  <2> QED BY <1>2, <1>6, <2>1, <2>3, BaseStep
<1>8. frames'[k + 1].stop = 1 /\ Passes(frames'[k + 1], a.pending)
  <2>1. Passes(frames'[Top], Act.passed)
    BY <1>4, <1>6, PassesSame
  <2> QED BY <1>3, <1>5, <1>6, <2>1
<1>9. Own(a) = 1
  BY <1>5 DEF Own, Owns
<1>10. CASE Below.kind # "apply"
  <2>1. run' = Replaced(run, a)
    BY <1>10 DEF StartOfTemplate, a
  <2>2. Well(frames', k + 1, a, k, Below, Globals)
    BY <1>3, <1>4, <1>5, <1>8, <1>10, TemplateWell
  <2>3. Well(frames', k + Own(a), a, k, Below, Globals) /\ k \in Nat /\ k = Top - Own(Act)
    BY <1>3, <1>9, <2>2
  <2>4. Agree(frames, frames', k)
    BY <1>6
  <2> HIDE DEF k
  <2> QED BY <1>1, <1>2, <1>5, <1>7, <2>1, <2>3, <2>4, LexReplace
<1>11. CASE Below.kind = "apply"
  <2> DEFINE m == Len(run) - 2
             b == [Below EXCEPT !.passed = Act.passed]
             q == Append(SubSeq(run, 1, m), b)
  <2>1. run' = q \o <<a>>
    BY <1>11 DEF StartOfTemplate, a
  <2>2. /\ m \in Nat \ {0} /\ m < Len(run) /\ Depth(run, m) = k
        /\ Below \in CallSet /\ Below.of \notin {"global", "local"} /\ Below.pending = {}
        /\ run[m].pending = {} /\ Scoped(frames, k, Below.env, {})
    <3>1. Act.kind \in {"params", "template"}
      BY <1>1
    <3> QED BY <1>1, <1>11, <3>1, OverApply
  <2>3. /\ b \in CallSet /\ b.kind = "apply" /\ b.of \notin {"global", "local"} /\ b.pending = {}
        /\ b.env = Below.env /\ b.passed = a.pending
    <3> DEFINE p == Act.passed
    <3>1. p \in SUBSET VarNames /\ p = a.pending
      BY <1>5
    <3> HIDE DEF p
    <3>2. LET e == [Below EXCEPT !.passed = p]
          IN /\ e \in CallSet /\ Like(Below, e) /\ e.passed = p /\ e.env = Below.env
             /\ e.pending = Below.pending
      BY <2>2, <3>1, WithPassed
    <3>3. b.kind = Below.kind /\ b.of = Below.of
      BY <3>2 DEF Like, p
    <3> QED BY <1>11, <2>2, <3>1, <3>2, <3>3 DEF p
  <2> HIDE DEF b
  <2>4. /\ q \in Seq(CallSet) /\ Len(q) = m + 1 /\ q[m + 1] = b
        /\ \A i \in 1 .. m : q[i] = run[i]
    <3>1. m \in 0 .. Len(run)
      BY <2>2
    <3> DEFINE p == SubSeq(run, 1, m)
    <3>2. p \in Seq(CallSet) /\ Len(p) = m /\ \A i \in 1 .. m : p[i] = run[i]
      BY <1>2, <3>1, Fronts
    <3> HIDE DEF p, m
    <3>3. /\ Append(p, b) \in Seq(CallSet) /\ Len(Append(p, b)) = Len(p) + 1
          /\ Append(p, b)[Len(p) + 1] = b /\ \A i \in 1 .. Len(p) : Append(p, b)[i] = p[i]
      BY <2>3, <3>2, Appending
    <3> QED BY <3>2, <3>3 DEF p
  <2> HIDE DEF q
  <2>5. /\ run' \in Seq(CallSet) /\ Len(run') = m + 2 /\ run'[m + 2] = a /\ run'[m + 1] = b
        /\ \A i \in 1 .. m : run'[i] = run[i]
    <3>1. /\ Append(q, a) \in Seq(CallSet) /\ Len(Append(q, a)) = Len(q) + 1
          /\ Append(q, a)[Len(q) + 1] = a /\ \A i \in 1 .. Len(q) : Append(q, a)[i] = q[i]
          /\ q \o <<a>> = Append(q, a)
      BY <1>5, <2>4, Appending
    <3> DEFINE s == Append(q, a)
    <3>2. /\ s \in Seq(CallSet) /\ Len(s) = Len(q) + 1
          /\ s[Len(q) + 1] = a /\ (\A i \in 1 .. Len(q) : s[i] = q[i]) /\ run' = s
      BY <2>1, <3>1
    <3>3. (m + 1) + 1 = m + 2 /\ m + 1 \in 1 .. m + 1 /\ \A i \in 1 .. m : i \in 1 .. m + 1
      BY <2>2
    <3> HIDE DEF s, m
    <3> QED BY <2>4, <3>2, <3>3
  <2> HIDE DEF m
  <2>6. Scoped(frames', k, b.env, {})
    BY <1>3, <1>6, <2>2, <2>3, ScopedAgree
  <2>7. Own(b) = 0 /\ k + Own(b) = k
    BY <1>3, <2>3 DEF Own, Owns
  <2>8. Well(frames', k + Own(b), b, k, run[m], Globals)
    BY <2>2, <2>3, <2>6, <2>7, ApplyWell
  <2>9. Well(frames', (k + Own(b)) + Own(a), a, k + Own(b), b, Globals)
    <3>1. Well(frames', k + 1, a, k, b, Globals)
      BY <1>3, <1>5, <1>8, <2>3, TemplateWell
    <3> QED BY <3>1, <2>7, <1>9
  <2>10. Agree(frames, frames', k)
    BY <1>6
  <2> HIDE DEF k
  <2> QED BY <1>1, <1>7, <2>2, <2>5, <2>8, <2>9, <2>10, LexTwo
<1> QED BY <1>10, <1>11

\* The next node of xsl:apply-templates.
LEMMA NextNodeLex ==
  ASSUME StacksInv, LexInv, NextNode, UNCHANGED sheetVars PROVE LexInv'
<1>1. Going /\ error' = error
  BY DEF NextNode
<1>2. /\ Top \in Nat \ {0} /\ frames \in Seq(FrameSet) /\ run \in Seq(CallSet) /\ Act \in CallSet
      /\ Len(run) \in Nat \ {0} /\ Base(frames, run[1].kind, Globals) /\ Act = run[Len(run)]
      /\ Well(frames, Top, Act, Top - Own(Act), Below, Globals)
  BY <1>1, Going_, LexTop
<1>3. CASE Act.kind = "apply" /\ run' = Append(run, Inner("params")) /\ frames' = Pushed(2)
  <2> DEFINE a == Inner("params")
  <2>1. Act.pending = {} /\ Act.kind # "applied"
    <3>1. Act.kind # "template" /\ Act.kind # "applied"
      BY <1>3
    <3> QED BY <1>2, <3>1, Zenon DEF Well
  <2>2. /\ a \in CallSet /\ a.kind = "params" /\ a.env = Act.env /\ a.pending = {}
        /\ a.passed = {} /\ a.of \notin {"global", "local"}
    <3>1. "params" \in Kinds
      BY DEF Kinds
    <3> QED BY <1>1, <2>1, <3>1, InnerHas
  <2> HIDE DEF a
  <2>3. /\ Agree(frames, frames', Top) /\ Base(frames', run[1].kind, Globals)
        /\ Well(frames', Top + Own(a), a, Top, Act, Globals)
    BY <1>1, <1>3, <2>1, <2>2, InnerWell
  <2>4. run' = Append(run, a)
    BY <1>3 DEF a
  <2> QED BY <1>1, <2>2, <2>3, <2>4, LexPush
<1>4. CASE /\ Act.kind = "applied" /\ frames' = frames
           /\ run' = Append(Replaced(run, [Act EXCEPT !.kind = "apply"]), Template(Act.passed))
  <2> DEFINE l == "apply"
             b == [Act EXCEPT !.kind = l]
             a == Template(Act.passed)
             m == Len(run) - 1
             k == Top - 1
             q == Replaced(run, b)
  <2>1. run' = Append(q, a)
    BY <1>4
  <2>2. Len(run) > 1 /\ Top > 1 /\ Own(Act) = 1 /\ NestedRun(run)
    <3>1. Act.kind \notin {"globals", "main"} /\ Owns(Act) /\ Own(Act) = 1
      BY <1>4 DEF Owns, Own
    <3>2. NestedRun(run)
      BY DEF StacksInv, Follows
    <3> QED BY <1>1, <3>1, <3>2, Going_
  <2>3. m \in Nat \ {0} /\ m < Len(run) /\ m + 1 = Len(run) /\ k \in Nat \ {0} /\ k + 1 = Top
        /\ Depth(run, m) = k /\ Below = run[m] /\ k = Top - Own(Act)
    <3>1. Depth(run, Len(run) - 1) = Top - Own(Act)
      BY <1>1, LexTop
    <3>2. Below = run[m]
      BY DEF Below
    <3> QED BY <1>2, <2>2, <3>1, <3>2
  <2>4. /\ Passes(frames[Top], Act.passed) /\ Below.pending = {} /\ Act.pending = {}
        /\ Scoped(frames, k, Act.env, {}) /\ frames[Top].stop = 1
    <3>1. Sees(Act, Top) = k /\ Owns(Act) /\ StopOf(Act) = 1
      BY <1>4 DEF Sees, Owns, StopOf
    <3>2. Act.pending = {}
      <4>1. Act.kind # "template"
        BY <1>4
      <4> QED BY <1>2, <4>1, Zenon DEF Well
    <3>3. Below.pending = {} /\ Passes(frames[Top], Act.passed)
      <4>1. Act.kind \notin {"globals", "main"} /\ Act.kind \in {"params", "applied"}
        BY <1>4
      <4> QED BY <1>2, <4>1, Zenon DEF Well
    <3>4. Scoped(frames, Sees(Act, Top), Act.env, Act.pending) /\ frames[Top].stop = StopOf(Act)
      BY <1>2, <3>1, Zenon DEF Well
    <3> QED BY <3>1, <3>2, <3>3, <3>4
  <2>5. /\ a \in CallSet /\ a.kind = "template" /\ a.env = NoLocals /\ a.pending = Act.passed
        /\ a.of \notin {"global", "local"}
    <3>1. Act.passed \in SUBSET VarNames
      BY <1>2 DEF CallSet
    <3>2. "" \notin {"global", "local"}
      BY Zenon
    <3> QED BY <3>1, <3>2, TemplateIs, Zenon
  <2>6. Act.of \notin {"global", "local"}
    <3>1. Len(run) \in 2 .. Len(run)
      BY <1>2, <2>2
    <3>2. Nests(run, Len(run))
      BY <2>2, <3>1 DEF NestedRun
    <3>3. Above(Act, Below, Len(run), run[1])
      BY <1>2, <3>2 DEF Nests, Below
    <3>4. Act.of \in {"", "again", "imports"}
      <4>1. Act.kind \notin {"select", "content"}
        BY <1>4
      <4> QED BY <3>3, <4>1, Zenon DEF Above
    <3>5. \A o \in {"", "again", "imports"} : o \notin {"global", "local"}
      BY Zenon
    <3> QED BY <3>4, <3>5, Zenon
  <2>7. /\ b \in CallSet /\ b.kind = "apply" /\ b.of \notin {"global", "local"} /\ b.pending = {}
        /\ b.env = Act.env /\ b.passed = a.pending
    <3>1. l \in Kinds
      BY DEF Kinds
    <3> HIDE DEF l
    <3>2. /\ b \in CallSet /\ b.kind = l /\ b.of = Act.of /\ b.passed = Act.passed
          /\ b.env = Act.env /\ b.pending = Act.pending
      BY <1>2, <3>1, WithKind
    <3> QED BY <2>4, <2>5, <2>6, <3>2 DEF l
  <2> HIDE DEF a, b
  <2>8. q \in Seq(CallSet) /\ Len(q) = Len(run) /\ q[Len(run)] = b
        /\ \A i \in 1 .. Len(run) - 1 : q[i] = run[i]
    <3>1. run \in Seq(CallSet) /\ Len(run) > 0
      BY <1>2
    <3> QED BY <2>7, <3>1, Replacing
  <2> HIDE DEF q
  <2>9. /\ run' \in Seq(CallSet) /\ Len(run') = m + 2 /\ run'[m + 2] = a /\ run'[m + 1] = b
        /\ \A i \in 1 .. m : run'[i] = run[i]
    <3>1. /\ Append(q, a) \in Seq(CallSet) /\ Len(Append(q, a)) = Len(q) + 1
          /\ Append(q, a)[Len(q) + 1] = a /\ \A i \in 1 .. Len(q) : Append(q, a)[i] = q[i]
      BY <2>5, <2>8, Appending
    <3>2. Len(run) + 1 = m + 2 /\ m + 1 = Len(run) /\ m + 1 \in 1 .. Len(run)
          /\ \A i \in 1 .. m : i \in 1 .. Len(run)
      BY <2>3
    <3>3. \A i \in 1 .. m : q[i] = run[i]
      BY <2>8
    <3> HIDE DEF m
    <3> QED BY <2>1, <2>8, <3>1, <3>2, <3>3
  <2> HIDE DEF m
  <2>10. Own(b) = 0 /\ k + Own(b) = k /\ Own(a) = 1
    BY <2>3, <2>5, <2>7 DEF Own, Owns
  <2>11. Well(frames', k + Own(b), b, k, run[m], Globals)
    BY <1>4, <2>3, <2>4, <2>7, <2>10, ApplyWell
  <2>12. Well(frames', (k + Own(b)) + Own(a), a, k + Own(b), b, Globals)
    <3>1. frames'[k + 1].stop = 1 /\ Passes(frames'[k + 1], a.pending)
      BY <1>4, <2>3, <2>4, <2>5
    <3>2. Well(frames', k + 1, a, k, b, Globals)
      BY <2>3, <2>5, <2>7, <3>1, TemplateWell
    <3> QED BY <2>10, <3>2
  <2>13. Agree(frames, frames', k) /\ Base(frames', run[1].kind, Globals)
    BY <1>2, <1>4 DEF Agree
  <2> HIDE DEF k
  <2> QED BY <1>1, <2>3, <2>9, <2>11, <2>12, <2>13, LexTwo
<1> QED BY <1>3, <1>4 DEF NextNode

\* What becomes of an xsl:apply-templates after a node.
LEMMA AfterNodeHas ==
  ASSUME NEW c \in CallSet
  PROVE  /\ AfterNode(c).env = c.env /\ AfterNode(c).pending = c.pending
         /\ AfterNode(c).passed = c.passed
<1> DEFINE k == IF Frame.polluted THEN "apply" ELSE "applied"
           again == "again"
           d == [c EXCEPT !.kind = k]
           e == [d EXCEPT !.of = again]
<1>1. k \in Kinds /\ again \in {"", "again", "imports", "global", "local"}
  BY DEF Kinds
<1>2. AfterNode(c) = e
  <2>1. [c EXCEPT !.kind = k, !.of = again] = [[c EXCEPT !.kind = k] EXCEPT !.of = again]
    <3> HIDE DEF k, again
    <3> QED OBVIOUS
  <2> QED BY <2>1 DEF AfterNode
<1> HIDE DEF k, again
<1>3. d \in CallSet /\ d.env = c.env /\ d.pending = c.pending /\ d.passed = c.passed
  BY <1>1, WithKind
<1> HIDE DEF d
<1>4. e.env = d.env /\ e.pending = d.pending /\ e.passed = d.passed
  BY <1>1, <1>3, WithOf
<1> QED BY <1>2, <1>3, <1>4

\* Two less than a number.
LEMMA TwoLess ==
  ASSUME NEW n \in Nat \ {0}, n - 2 \in Nat \ {0}
  PROVE  n > 2 /\ n # 2
OBVIOUS

\* A frame that no variable has polluted has the parameters of the next node.
LEMMA LeaveLex ==
  ASSUME StacksInv, LexInv, Untangled, Leave, UNCHANGED sheetVars PROVE LexInv'
<1>1. /\ Going /\ Act.kind \in {"template", "foreach", "scope"} /\ error' = error
      /\ Act.kind = "template" => Act.pending = {}
  BY DEF Leave, Executing, Body
<1>2. /\ Len(run) > 1 /\ Len(run) \in Nat \ {0} /\ Top \in Nat \ {0} /\ Top > 1 /\ Own(Act) = 1
      /\ run \in Seq(CallSet) /\ Base(frames, run[1].kind, Globals)
  <2>1. Act.kind \notin {"globals", "main"} /\ Owns(Act) /\ Own(Act) = 1
    BY <1>1 DEF Owns, Own
  <2> QED BY <1>1, <2>1, Going_, LexTop
<1>3. CASE ~(Act.kind = "template" /\ Below.kind = "apply")
  <2>1. run' = Front(run) /\ frames' = Front(frames)
    BY <1>3 DEF Leave
  <2>2. Agree(frames, frames', Top - 1) /\ Base(frames', run[1].kind, Globals)
    BY <1>1, <1>2, <2>1, FrontBase
  <2>3. Top - 1 \in Nat /\ Top - 1 = Top - Own(Act)
    BY <1>2
  <2> QED BY <1>1, <1>2, <2>1, <2>2, <2>3, LexReturn
<1>4. CASE Act.kind = "template" /\ Below.kind = "apply"
  <2> DEFINE b == AfterNode(Below)
             m == Len(run) - 2
             k == Top - 1
  <2>1. /\ run' = Append(SubSeq(run, 1, m), b)
        /\ frames' = IF Frame.polluted THEN Front(frames) ELSE frames
    BY <1>4 DEF Leave
  <2>2. /\ m \in Nat \ {0} /\ m < Len(run) /\ Own(Below) = 0 /\ k \in Nat \ {0}
        /\ Below \in CallSet /\ Below.pending = {}
        /\ run[m].pending = {} /\ Scoped(frames, k, Below.env, {})
        /\ Well(frames, Top, Act, k, Below, Globals)
    BY <1>1, <1>4, OverApply
  <2>3. /\ b \in CallSet /\ b.of = "again" /\ b.kind = (IF Frame.polluted THEN "apply" ELSE "applied")
        /\ b.env = Below.env /\ b.pending = {} /\ b.passed = Below.passed
    BY <2>2, AfterNodeIs, AfterNodeHas
  <2> HIDE DEF b
  <2>4. Len(run') = Len(run) - 1 /\ run'[Len(run) - 1] = b
        /\ \A i \in 1 .. Len(run) - 2 : run'[i] = run[i]
    <3>1. m \in 0 .. Len(run) /\ m + 1 = Len(run) - 1
      BY <1>2, <2>2
    <3> DEFINE p == SubSeq(run, 1, m)
    <3>2. p \in Seq(CallSet) /\ Len(p) = m /\ \A i \in 1 .. m : p[i] = run[i]
      BY <1>2, <3>1, Fronts
    <3> HIDE DEF p
    <3>3. /\ Append(p, b) \in Seq(CallSet) /\ Len(Append(p, b)) = Len(p) + 1
          /\ Append(p, b)[Len(p) + 1] = b /\ \A i \in 1 .. Len(p) : Append(p, b)[i] = p[i]
      BY <2>3, <3>2, Appending
    <3>4. run' = Append(p, b)
      BY <2>1 DEF p
    <3> QED BY <3>1, <3>2, <3>3, <3>4
  <2>5. Len(run) > 2 /\ Len(run) # 2 /\ k = (Top - Own(Act)) - Own(Below)
    <3>1. Len(run) - 2 \in Nat \ {0} /\ Len(run) \in Nat \ {0}
      BY <1>2, <2>2
    <3>2. Top \in Nat \ {0} /\ Own(Act) = 1 /\ Own(Below) = 0
      BY <1>2, <2>2
    <3>3. Len(run) > 2 /\ Len(run) # 2
      BY <3>1, TwoLess
    <3>4. k = (Top - Own(Act)) - Own(Below)
      BY <3>2
    <3> QED BY <3>3, <3>4
  <2>6. b.of # "global" /\ b.of # "local" /\ b.of \notin {"global", "local"}
    BY <2>3
  <2>7. /\ Agree(frames, frames', k) /\ Base(frames', run[1].kind, Globals)
        /\ Well(frames', k + Own(b), b, k, run[m], Globals)
    <3>1. CASE Frame.polluted
      <4>1. frames' = Front(frames) /\ b.kind = "apply"
        BY <2>1, <2>3, <3>1, Zenon
      <4>2. Agree(frames, frames', k) /\ Base(frames', run[1].kind, Globals)
        BY <1>1, <1>2, <4>1, FrontBase
      <4>3. Own(b) = 0 /\ k + Own(b) = k
        BY <2>2, <4>1 DEF Own, Owns
      <4>4. Scoped(frames', k, b.env, {})
        BY <2>2, <2>3, <4>2, ScopedAgree
      <4>5. Well(frames', k, b, k, run[m], Globals)
        BY <2>2, <2>3, <2>6, <4>1, <4>4, ApplyWell
      <4> QED BY <4>2, <4>3, <4>5
    <3>2. CASE ~Frame.polluted
      <4>1. frames' = frames /\ b.kind = "applied"
        BY <2>1, <2>3, <3>2, Zenon
      <4>2. Agree(frames, frames', k) /\ Base(frames', run[1].kind, Globals)
        BY <1>2, <4>1 DEF Agree
      <4>3. Own(b) = 1 /\ k + Own(b) = Top /\ StopOf(b) = 1 /\ Sees(b, Top) = k /\ StopOf(Act) = 1
            /\ Owns(Act)
        BY <1>2, <1>4, <4>1 DEF Own, Owns, StopOf, Sees
      <4>4. frames[Top].stop = 1 /\ Passes(frames[Top], Below.passed)
        <5>1. ~frames[Top].polluted
          BY <3>2 DEF Frame
        <5>2. frames[Top].stop = StopOf(Act) /\ Passes(frames[Top], Below.passed)
          BY <1>4, <2>2, <4>3, <5>1, Zenon DEF Well
        <5> QED BY <4>3, <5>2
      <4>5. Scoped(frames', Sees(b, Top), b.env, b.pending)
        BY <2>2, <2>3, <4>1, <4>3
      <4>6. b.kind # "template" /\ b.kind # "foreach"
        BY <4>1
      <4>7. frames'[Top].stop = StopOf(b) /\ Passes(frames'[Top], b.passed)
        BY <2>3, <4>1, <4>3, <4>4
      <4>8. Well(frames', Top, b, k, run[m], Globals)
        BY <2>2, <2>3, <2>6, <4>5, <4>6, <4>7, Zenon DEF Well
      <4> QED BY <4>2, <4>3, <4>8
    <3> QED BY <3>1, <3>2
  <2>8. k \in Nat
    BY <2>2
  <2> HIDE DEF k
  <2> QED BY <1>1, <1>2, <2>4, <2>5, <2>7, <2>8, LexPop
<1> QED BY <1>3, <1>4

(* ------------------------- variables get their values ---------------------- *)
\* xsltSetVar adds the variable to the last frame, which is polluted from then on.
LEMMA GetsTop ==
  ASSUME NEW fs \in Seq(FrameSet), NEW k \in Nat \ {0}, k = Len(fs), NEW v \in VarSet,
         NEW gs, gs = SetVar(fs, v)
  PROVE  Gets(fs, gs, k, v) /\ gs \in Seq(FrameSet) /\ Len(gs) = k /\ gs[k].polluted
<1>1. Len(fs) > 0
  OBVIOUS
<1>2. /\ gs \in Seq(FrameSet) /\ Len(gs) = k /\ \A i \in 1 .. k - 1 : gs[i] = fs[i]
      /\ gs[k] = WithVar(fs[k], v)
  BY <1>1, SetVarIs
<1>3. gs[k].vars = Append(fs[k].vars, v) /\ gs[k].stop = fs[k].stop /\ gs[k].polluted
  BY <1>2 DEF WithVar
<1> QED BY <1>2, <1>3 DEF Gets, Agree

\* The frames stay what they must be.
LEMMA GetsBase ==
  ASSUME NEW fs \in Seq(FrameSet), NEW gs \in Seq(FrameSet), NEW k \in Nat \ {0}, k = Len(fs),
         Len(gs) = k, NEW v, Gets(fs, gs, k, v), NEW phase, NEW G, Base(fs, phase, G),
         fs[k].stop = 2 => ~v.active, v.decl = "local" => k # 1, v.decl \in {"local", "global"},
         v.decl = "global" => v.name \in G /\ v.active /\ phase # "main"
  PROVE  Base(gs, phase, G)
<1> DEFINE n == Len(fs[k].vars) + 1
<1>1. k \in 1 .. Len(fs) /\ fs[k] \in FrameSet
  OBVIOUS
<1>2. Suits(fs, k, phase, G)
  BY <1>1, BaseSuits
<1>3. /\ \A q \in DOMAIN fs[k].vars : gs[k].vars[q] = fs[k].vars[q]
      /\ \A q \in DOMAIN gs[k].vars : q \in DOMAIN fs[k].vars \/ q = n
      /\ gs[k].vars[n] = v /\ gs[k].stop = fs[k].stop
  <2>1. gs[k].vars = Append(fs[k].vars, v) /\ gs[k].stop = fs[k].stop
    BY DEF Gets
  <2> QED BY <1>1, <2>1, GetsVars
<1> HIDE DEF n
<1>4. gs[k].stop = 2 => Inactive(gs[k])
  BY <1>2, <1>3, Zenon DEF Suits, Inactive
<1>5. ASSUME NEW q \in DOMAIN gs[k].vars, gs[k].vars[q].decl = "global"
      PROVE  gs[k].vars[q].name \in G /\ (phase = "main" => k = 1)
  BY <1>2, <1>3, <1>5, Zenon DEF Suits
<1>6. ASSUME k = 1
      PROVE  /\ gs[1].stop = 0
             /\ \A q \in DOMAIN gs[1].vars : gs[1].vars[q].active /\ gs[1].vars[q].decl = "global"
             /\ phase # "main"
  <2>1. v.decl = "global" /\ v.active /\ phase # "main"
    BY <1>6
  <2> QED BY <1>2, <1>3, <1>6, <2>1, Zenon DEF Suits
<1>7. Suits(gs, k, phase, G)
  BY <1>4, <1>5, <1>6, Zenon DEF Suits
<1>8. Len(gs) > 0 /\ Len(gs) - 1 <= Len(fs) /\ Agree(fs, gs, Len(gs) - 1)
  BY DEF Gets
<1> QED BY <1>7, <1>8, BaseStep

\* The call that declares a local variable.
LEMMA WellLocal ==
  ASSUME NEW fs \in Seq(FrameSet), NEW gs, NEW k \in Nat \ {0}, k <= Len(fs), k > 1, NEW v,
         Gets(fs, gs, k, v), gs[k].polluted, NEW x \in VarNames,
         v.name = x, v.active, v.decl = "local", fs[k].stop # 2, Lacks(fs[k], x),
         NEW a \in CallSet, NEW c, c = k - 1, NEW r, NEW G, Well(fs, k, a, c, r, G), Own(a) = 1,
         a.kind \notin {"params", "applied"}, NEW b, Like(a, b),
         b.env = [a.env EXCEPT ![x] = <<k, Len(fs[k].vars) + 1>>],
         b.pending \subseteq a.pending, a.pending \ {x} \subseteq b.pending
  PROVE  Well(gs, k, b, c, r, G)
<1>1. b.kind = a.kind /\ b.of = a.of /\ b.var = a.var
  BY DEF Like
<1>2. c \in Nat \ {0} /\ Agree(fs, gs, c) /\ gs[c] = fs[c]
  BY DEF Gets, Agree
<1>3. Scoped(gs, k, b.env, b.pending)
  <2>1. Scoped(fs, k, a.env, a.pending)
    BY Zenon DEF Well, Sees
  <2>2. a.env \in [VarNames -> Place]
    BY DEF CallSet
  <2> QED BY <2>1, <2>2, ScopedLocal
<1>4. gs[k].stop = fs[k].stop /\ Sees(b, k) = k /\ StopOf(b) = StopOf(a) /\ (Owns(b) <=> Owns(a))
  BY <1>1 DEF Gets, Sees, StopOf, Owns
<1>5. ASSUME NEW y, Given(fs[k], y) PROVE Given(gs[k], y)
  <2> DEFINE n == Len(fs[k].vars) + 1
  <2>1. /\ \A q \in DOMAIN fs[k].vars : q \in DOMAIN gs[k].vars /\ gs[k].vars[q] = fs[k].vars[q]
        /\ \A q \in DOMAIN gs[k].vars : q \in DOMAIN fs[k].vars \/ q = n
        /\ gs[k].vars[n] = v
    <3>1. gs[k].vars = Append(fs[k].vars, v) /\ fs[k] \in FrameSet
      BY DEF Gets
    <3> QED BY <3>1, GetsVars
  <2> HIDE DEF n
  <2>2. ~Lacks(gs[k], y)
    <3>1. PICK q \in DOMAIN fs[k].vars : fs[k].vars[q].name = y
      BY <1>5, Zenon DEF Given, Lacks
    <3>2. q \in DOMAIN gs[k].vars /\ gs[k].vars[q].name = y
      BY <2>1, <3>1
    <3> QED BY <3>2, Zenon DEF Lacks
  <2>3. \A q \in DOMAIN gs[k].vars : gs[k].vars[q].name = y => gs[k].vars[q].decl = "local"
    <3>1. \A q \in DOMAIN fs[k].vars : fs[k].vars[q].name = y => fs[k].vars[q].decl = "local"
      BY <1>5, Zenon DEF Given
    <3> TAKE q \in DOMAIN gs[k].vars
    <3>2. CASE q = n
      BY <2>1, <3>2
    <3>3. CASE q \in DOMAIN fs[k].vars
      BY <2>1, <3>1, <3>3
    <3> QED BY <2>1, <3>2, <3>3
  <2> QED BY <2>2, <2>3, Zenon DEF Given
<1>6. ASSUME b.of = "global"
      PROVE  b.var \in G /\ gs[c].stop # 2 /\ SeesGlobals(gs, c)
  <2>1. a.var \in G /\ fs[c].stop # 2 /\ SeesGlobals(fs, c)
    BY <1>1, <1>6, Zenon DEF Well
  <2> QED BY <1>1, <1>2, <2>1, SeesGlobalsAgree
<1>7. b.pending # {} => b.kind = "template" /\ \A y \in b.pending : Given(gs[k], y)
  <2>1. b.pending # {} => a.pending # {}
    OBVIOUS
  <2>2. \A y \in b.pending : y \in a.pending
    OBVIOUS
  <2> QED BY <1>1, <1>5, <2>1, <2>2, Zenon DEF Well
<1>8. b.of = "local" => b.kind = "content" /\ r.kind \in Body \cup {"params"}
  BY <1>1, Zenon DEF Well
<1>9. b.of = "local" /\ r.kind # "params" => Lacks(gs[c], b.var)
  BY <1>1, <1>2, Zenon DEF Well
<1>10. b.kind \notin {"globals", "main"} => r.pending = {}
  BY <1>1, Zenon DEF Well
<1>11. Owns(b) => gs[k].stop = StopOf(b)
  BY <1>4, Zenon DEF Well
<1>12. b.kind \notin {"params", "applied"}
  BY <1>1
<1> QED BY <1>3, <1>4, <1>6, <1>7, <1>8, <1>9, <1>10, <1>11, <1>12, Zenon DEF Well

\* The call that sets a parameter: nothing sees it yet.
LEMMA WellParam ==
  ASSUME NEW fs \in Seq(FrameSet), NEW gs, NEW k \in Nat \ {0}, k <= Len(fs), NEW v,
         Gets(fs, gs, k, v), NEW x \in VarNames, v.name = x, v.decl = "local",
         NEW a \in CallSet, a.kind = "params", a.of \notin {"global", "local"},
         NEW c, NEW r, NEW G, Well(fs, k, a, c, r, G), NEW b, Like(a, b),
         b.env = a.env, b.pending = a.pending, b.passed = a.passed \cup {x}
  PROVE  Well(gs, k, b, c, r, G)
<1>1. b.kind = "params" /\ b.of = a.of /\ b.of # "global" /\ b.of # "local"
  BY DEF Like
<1>2. Owns(a) /\ Owns(b) /\ StopOf(a) = 2 /\ StopOf(b) = 2 /\ Sees(a, k) = k /\ Sees(b, k) = k
  BY <1>1 DEF Owns, StopOf, Sees
<1>3. fs[k].stop = 2 /\ gs[k].stop = 2 /\ Agree(fs, gs, k - 1)
  <2>1. fs[k].stop = 2
    BY <1>2, Zenon DEF Well
  <2> QED BY <2>1 DEF Gets
<1>4. Scoped(gs, k, b.env, b.pending)
  <2>1. Scoped(fs, k, a.env, a.pending)
    BY <1>2, Zenon DEF Well
  <2> QED BY <1>3, <2>1, ScopedHidden
<1>5. Passes(gs[k], b.passed)
  <2> DEFINE n == Len(fs[k].vars) + 1
  <2>1. /\ \A q \in DOMAIN fs[k].vars : q \in DOMAIN gs[k].vars /\ gs[k].vars[q] = fs[k].vars[q]
        /\ \A q \in DOMAIN gs[k].vars : q \in DOMAIN fs[k].vars \/ q = n
        /\ gs[k].vars[n] = v /\ n \in DOMAIN gs[k].vars
    <3>1. gs[k].vars = Append(fs[k].vars, v) /\ fs[k] \in FrameSet
      BY DEF Gets
    <3> QED BY <3>1, GetsVars
  <2> HIDE DEF n
  <2>2. Passes(fs[k], a.passed)
    BY Zenon DEF Well
  <2>3. \A y \in b.passed : y \in a.passed \/ y = x
    OBVIOUS
  <2>4. \A q \in DOMAIN gs[k].vars : gs[k].vars[q].decl = "local" /\ gs[k].vars[q].name \in b.passed
    <3> TAKE q \in DOMAIN gs[k].vars
    <3>1. CASE q = n
      <4>1. v.name \in b.passed
        OBVIOUS
      <4> QED BY <2>1, <3>1, <4>1
    <3>2. CASE q \in DOMAIN fs[k].vars
      <4>1. fs[k].vars[q].decl = "local" /\ fs[k].vars[q].name \in a.passed
        BY <2>2, <3>2, Zenon DEF Passes
      <4> QED BY <2>1, <3>2, <4>1
    <3> QED BY <2>1, <3>1, <3>2
  <2>5. \A y \in b.passed : ~Lacks(gs[k], y)
    BY <2>1, <2>2, <2>3, ZenonT(40) DEF Passes, Lacks
  <2> QED BY <2>4, <2>5, Zenon DEF Passes
<1>6. a.pending = {} /\ b.pending = {} /\ r.pending = {}
  <2>1. a.kind # "template" /\ a.kind \notin {"globals", "main"}
    OBVIOUS
  <2>2. a.pending = {} /\ r.pending = {}
    BY <2>1, Zenon DEF Well
  <2> QED BY <2>2
<1>7. b.kind # "template" /\ b.kind # "foreach"
  BY <1>1
<1> QED BY <1>1, <1>2, <1>3, <1>4, <1>5, <1>6, <1>7, Zenon DEF Well

\* A local variable, or a parameter that was not passed, is declared.
LEMMA Declare1Lex ==
  ASSUME StacksInv, LexInv, Going, Act.kind \in Body, NEW x \in VarNames, Lacks(frames[Top], x),
         NEW active, active = TRUE, NEW decl, decl = "local", Declare1(x, decl, active),
         error' = error, UNCHANGED sheetVars
  PROVE  LexInv'
<1> DEFINE v == Variable(x, active, decl)
           p == Here(frames)
           a == Act
           b == [a EXCEPT !.env[x] = p, !.pending = @ \ {x}]
           k == Top
           m == Top - 1
<1>1. frames' = SetVar(frames, v) /\ run' = Replaced(run, b)
  BY DEF Declare1
<1>2. /\ frames \in Seq(FrameSet) /\ k \in Nat \ {0} /\ k = Len(frames) /\ Base(frames, run[1].kind, Globals)
      /\ Well(frames, k, a, k - Own(a), Below, Globals) /\ a \in CallSet
      /\ Len(run) > 1 /\ k > 1 /\ Own(a) = 1 /\ Owns(a)
  <2>1. Act.kind \notin {"globals", "main"} /\ Owns(Act) /\ Own(Act) = 1
    BY DEF Body, Owns, Own
  <2>2. Len(run) > 1 /\ Top > 1 /\ Act \in CallSet
    BY <2>1, Going_, Zenon
  <2> QED BY <2>1, <2>2, LexTop
<1>3. v \in VarSet /\ v.name = x /\ v.active /\ v.decl = "local"
  <2>1. active \in BOOLEAN /\ decl \in {"global", "local"}
    OBVIOUS
  <2>2. v \in VarSet /\ v.name = x /\ v.active = active /\ v.decl = decl
    BY <2>1, VariableIs
  <2> HIDE DEF v
  <2> QED BY <2>2
<1>4. p \in Place /\ p = <<k, Len(frames[k].vars) + 1>>
  <2>1. Len(frames) > 0 /\ Last(frames) = frames[k]
    BY <1>2 DEF Last
  <2> QED BY <1>2, <2>1, HereIs DEF Here
<1>5. frames[k].stop # 2 /\ a.kind \notin {"params", "applied"}
  <2>1. frames[k].stop = StopOf(a)
    BY <1>2, Zenon DEF Well
  <2>2. StopOf(a) # 2 /\ a.kind \notin {"params", "applied"}
    BY DEF StopOf, Body
  <2> QED BY <2>1, <2>2
<1>6. Lacks(frames[k], x)
  OBVIOUS
<1> HIDE DEF v, p, a, k
<1>7. b \in CallSet /\ Like(a, b) /\ b.env = [a.env EXCEPT ![x] = p] /\ b.pending = a.pending \ {x}
  <2>1. a \in CallSet
    BY <1>2
  <2>2. p \in Place
    BY <1>4
  <2>3. b = Declaring(a, x, p)
    BY Zenon DEF Declaring
  <2> HIDE DEF b
  <2> QED BY <2>1, <2>2, <2>3, DeclaringIs, Zenon
<1> HIDE DEF b
<1>8. Gets(frames, frames', k, v) /\ frames' \in Seq(FrameSet) /\ Len(frames') = k /\ frames'[k].polluted
  BY <1>1, <1>2, <1>3, GetsTop
<1>9. Base(frames', run[1].kind, Globals)
  <2>1. k # 1
    BY <1>2
  <2>2. v.decl # "global"
    BY <1>3
  <2> QED BY <1>2, <1>3, <1>5, <1>8, <2>1, <2>2, GetsBase
<1>10. m \in Nat /\ m = k - 1 /\ m = Top - Own(Act) /\ m + Own(b) = k
  <2>1. Own(b) = Own(a)
    BY <1>7 DEF Own, Owns, Like
  <2>2. k = Top /\ a = Act
    BY DEF k, a
  <2> QED BY <1>2, <2>1, <2>2
<1> HIDE DEF m
<1>11. Well(frames', k, b, m, Below, Globals)
  <2>1. Well(frames, k, a, m, Below, Globals)
    BY <1>2, <1>10 DEF a
  <2>2. k <= Len(frames) /\ b.pending \subseteq a.pending /\ a.pending \ {x} \subseteq b.pending
    BY <1>2, <1>7
  <2>3. b.env = [a.env EXCEPT ![x] = <<k, Len(frames[k].vars) + 1>>]
    BY <1>4, <1>7
  <2> QED BY <1>2, <1>3, <1>5, <1>6, <1>7, <1>8, <1>10, <2>1, <2>2, <2>3, WellLocal
<1>12. Agree(frames, frames', m)
  BY <1>8, <1>10 DEF Gets
<1> QED BY <1>1, <1>2, <1>7, <1>9, <1>10, <1>11, <1>12, LexReplace

\* The top frame is always near: where a variable is not found there is none.
LEMMA NotNear ==
  ASSUME StacksInv, Going, NEW x \in VarNames, ~VarExists(x)
  PROVE  Lacks(frames[Top], x)
<1>1. Top \in Near
  <2>1. Top \in Nat \ {0}
    BY Going_
  <2> HIDE DEF Top
  <2> QED BY <2>1 DEF Near
<1>2. ~Has(frames[Top], x, TRUE)
  BY <1>1, FoundIs
<1> QED BY <1>2, Zenon DEF Has, Lacks

\* xsl:with-param.
LEMMA PassParamLex ==
  ASSUME StacksInv, LexInv, NEW x \in VarNames, NEW how \in {"select", "content"},
         PassParam(x, how), UNCHANGED sheetVars
  PROVE  LexInv'
<1> DEFINE l == "local"
           f == FALSE
<1>1. Going /\ Act.kind = "params" /\ error' = error
  BY DEF PassParam
<1>2. /\ frames \in Seq(FrameSet) /\ Top \in Nat \ {0} /\ Top = Len(frames)
      /\ Base(frames, run[1].kind, Globals)
      /\ Well(frames, Top, Act, Top - Own(Act), Below, Globals) /\ Act \in CallSet
      /\ Len(run) > 1 /\ Top > 1 /\ Own(Act) = 1 /\ Owns(Act) /\ Nests(run, Len(run))
  <2>1. Act.kind \notin {"globals", "main"} /\ Owns(Act) /\ Own(Act) = 1
    BY <1>1 DEF Owns, Own
  <2>2. Len(run) > 1 /\ Top > 1 /\ Act \in CallSet /\ Nests(run, Len(run))
    BY <1>1, <2>1, Going_, Zenon
  <2> QED BY <1>1, <2>1, <2>2, LexTop
<1>3. Act.pending = {} /\ frames[Top].stop = 2
  <2>1. Act.kind # "template" /\ StopOf(Act) = 2
    BY <1>1 DEF StopOf
  <2> QED BY <1>2, <2>1, Zenon DEF Well
<1>4. Act.of \notin {"global", "local"}
  <2>1. Above(Act, Below, Len(run), run[1])
    BY <1>2 DEF Nests, Act, Below
  <2>2. Act.of \in {"", "again", "imports"}
    BY <1>1, <2>1 DEF Above
  <2>3. \A o \in {"", "again", "imports"} : o \notin {"global", "local"}
    BY Zenon
  <2> QED BY <2>2, <2>3, Zenon
<1>5. CASE how = "select"
  <2> DEFINE v == Variable(x, f, l)
             a == Act
             q == a.passed \cup {x}
             b == [a EXCEPT !.passed = q]
             k == Top
             m == Top - 1
  <2>1. frames' = SetVar(frames, v) /\ run' = Replaced(run, b)
    BY <1>5 DEF PassParam, Declare1
  <2>2. v \in VarSet /\ v.name = x /\ ~v.active /\ v.decl = "local"
    <3>1. f \in BOOLEAN /\ l \in {"global", "local"}
      OBVIOUS
    <3>2. v \in VarSet /\ v.name = x /\ v.active = f /\ v.decl = l
      BY <3>1, VariableIs
    <3> HIDE DEF v
    <3> QED BY <3>2
  <2>3. k \in Nat \ {0} /\ k = Len(frames) /\ k > 1 /\ frames[k].stop = 2
    BY <1>2, <1>3
  <2>4. q \in SUBSET VarNames
    BY <1>2 DEF CallSet
  <2>5. a \in CallSet /\ a.kind = "params" /\ a.of \notin {"global", "local"}
    BY <1>1, <1>2, <1>4
  <2>6. Well(frames, k, a, m, Below, Globals)
    BY <1>2
  <2>7. m \in Nat /\ m = k - 1 /\ m = Top - Own(Act)
    BY <1>2
  <2>8. Own(a) = 1
    BY <1>2
  <2> HIDE DEF v, a, k, m, q
  <2>9. b \in CallSet /\ Like(a, b) /\ b.passed = q /\ b.env = a.env /\ b.pending = a.pending
    BY <2>4, <2>5, WithPassed
  <2> HIDE DEF b
  <2>10. Gets(frames, frames', k, v) /\ frames' \in Seq(FrameSet) /\ Len(frames') = k
    BY <1>2, <2>1, <2>2, <2>3, GetsTop
  <2>11. Base(frames', run[1].kind, Globals)
    <3>1. k # 1 /\ v.decl # "global"
      BY <2>2, <2>3
    <3> QED BY <1>2, <2>2, <2>3, <2>10, <3>1, GetsBase
  <2>12. Well(frames', k, b, m, Below, Globals)
    <3>1. k <= Len(frames) /\ b.passed = a.passed \cup {x}
      BY <2>3, <2>9 DEF q
    <3> QED BY <1>2, <2>2, <2>3, <2>5, <2>6, <2>9, <2>10, <3>1, WellParam
  <2>13. Agree(frames, frames', m) /\ m + Own(b) = k
    <3>1. Own(b) = Own(a)
      BY <2>9 DEF Own, Owns, Like
    <3> QED BY <2>3, <2>7, <2>8, <2>10, <3>1 DEF Gets
  <2> QED BY <1>1, <1>2, <2>1, <2>7, <2>9, <2>11, <2>12, <2>13, LexReplace
<1>6. CASE how = "content"
  <2>1. Evaluate(x, how, f, l)
    BY <1>6 DEF PassParam
  <2>2. l = "local" /\ l \in {"global", "local"} /\ l # "global"
    OBVIOUS
  <2>3. Act.kind # "applied" /\ Act.kind \in Body \cup {"params"}
    BY <1>1
  <2> HIDE DEF l, f
  <2> QED BY <1>1, <1>3, <1>6, <2>1, <2>2, <2>3, EvaluateLex
<1> QED BY <1>5, <1>6

\* In the transformation proper a body has a frame of its template, or of the
\* parameters it is called with, below it.
LEMMA InTemplate ==
  ASSUME StacksInv, LexInv, Going, Act.kind \in Body, run[1].kind = "main"
  PROVE  \E m \in 2 .. Top : frames[m].stop # 0
<1> DEFINE n == Len(run)
<1>1. /\ n \in Nat \ {0} /\ Act = run[n] /\ Depth(run, n) = Top /\ Opens(run[1])
      /\ Lex(frames, run, Globals) /\ Top \in Nat \ {0}
  BY LexTop
<1>2. \A i \in 2 .. n : Above(run[i], run[i - 1], i, run[1])
  BY <1>1 DEF StacksInv, Follows, NestedRun, Nests
<1> HIDE DEF n
<1>3. n > 1
  <2>1. n # 1
    BY <1>1 DEF Body
  <2> QED BY <1>1, <2>1
<1>4. run[2].kind \in {"apply", "applied"}
  <2>1. 2 \in 2 .. n /\ 2 - 1 = 1
    BY <1>1, <1>3
  <2>2. Above(run[2], run[1], 2, run[1])
    BY <1>2, <2>1
  <2>3. run[2].kind \in Kinds
    <3>1. run \in Seq(CallSet) /\ 2 \in 1 .. Len(run)
      BY <1>1, <1>3 DEF n, StacksInv, TypeOK
    <3>2. run[2] \in CallSet
      BY <3>1
    <3> QED BY <3>2 DEF CallSet
  <2> QED BY <2>2, <2>3 DEF Above, Body, Kinds, Expressions
<1>5. n > 2
  <2>1. n # 2
    BY <1>1, <1>4 DEF Body
  <2> QED BY <1>1, <1>3, <2>1
<1>6. run[3].kind \in {"params", "template"}
  <2>1. 3 \in 2 .. n /\ 3 - 1 = 2
    BY <1>1, <1>5
  <2>2. Above(run[3], run[2], 3, run[1])
    BY <1>2, <2>1
  <2>3. run[3].kind \in Kinds
    <3>1. run \in Seq(CallSet) /\ 3 \in 1 .. Len(run)
      BY <1>1, <1>5 DEF n, StacksInv, TypeOK
    <3>2. run[3] \in CallSet
      BY <3>1
    <3> QED BY <3>2 DEF CallSet
  <2> QED BY <1>4, <2>2, <2>3 DEF Above, Body, Kinds, Expressions
<1>7. Depth(run, 3) \in 2 .. Top
  <2>1. Depth(run, 0) \in Nat /\ Depth(run, 1) \in Nat /\ Depth(run, 0) < Depth(run, 1)
    <3>1. Owns(run[1])
      BY <1>1 DEF Opens, Owns
    <3>2. 1 \in Nat /\ 0 \in 0 .. 1 /\ 0 < 1
      OBVIOUS
    <3> QED BY <3>1, <3>2, Depths
  <2>2. Depth(run, 3) \in Nat /\ Depth(run, 1) < Depth(run, 3)
    <3>1. Owns(run[3])
      BY <1>6 DEF Owns
    <3>2. 3 \in Nat /\ 1 \in 0 .. 3 /\ 1 < 3
      OBVIOUS
    <3> QED BY <3>1, <3>2, Depths
  <2>3. Depth(run, 3) <= Depth(run, n)
    <3>1. n \in Nat /\ 3 \in 0 .. n
      BY <1>1, <1>5
    <3> QED BY <3>1, Depths
  <2> QED BY <1>1, <2>1, <2>2, <2>3
<1>8. frames[Depth(run, 3)].stop = StopOf(run[3])
  <2>1. 3 \in 1 .. Len(run) /\ Len(run) > 0
    BY <1>1, <1>5 DEF n
  <2>2. Well(frames, Depth(run, 3), run[3], Depth(run, 3 - 1), run[3 - 1], Globals)
    BY <1>1, <2>1 DEF Lex
  <2>3. Owns(run[3])
    BY <1>6 DEF Owns
  <2> QED BY <2>2, <2>3, Zenon DEF Well
<1>9. StopOf(run[3]) # 0
  BY <1>6 DEF StopOf
<1> QED BY <1>7, <1>8, <1>9

\* A variable is refused because this template has declared one of that name.
LEMMA DeclaredBefore ==
  ASSUME StacksInv, LexInv, Going, Act.kind \in Body, Act.pending = {}, NEW x \in VarNames,
         ~Tangles(x), VarExists(x)
  PROVE  Act.env[x] # NoVar
<1>1. PICK i \in Near, k \in Nat \ {0} : FirstIn(frames[i], x, TRUE, k)
  BY FoundIs
<1>2. /\ Top \in Nat \ {0} /\ Base(frames, run[1].kind, Globals) /\ frames \in Seq(FrameSet)
      /\ Top = Len(frames) /\ Well(frames, Top, Act, Top - Own(Act), Below, Globals)
  BY LexTop
<1>3. i \in 1 .. Top /\ \A m \in i + 1 .. Top : frames[m].stop = 0
  BY DEF Near
<1>4. k \in DOMAIN frames[i].vars /\ frames[i].vars[k].name = x /\ Has(frames[i], x, TRUE)
  BY <1>1, Zenon DEF FirstIn, Has
<1>5. i \in Seen(frames, Top)
  <2>1. frames[i].stop # 2
    BY <1>4, Zenon DEF Tangles
  <2>2. \A m \in i + 1 .. Top : frames[m].stop # 1
    BY <1>3
  <2> QED BY <1>3, <2>1, <2>2 DEF Seen
<1> SUFFICES ASSUME Act.env[x] = NoVar PROVE FALSE
  OBVIOUS
<1>6. frames[i].vars[k].decl = "global"
  <2>1. Act.kind # "applied"
    BY DEF Body
  <2>2. Scoped(frames, Top, Act.env, Act.pending)
    BY <1>2, <2>1, Zenon DEF Well, Sees
  <2>3. x \in Act.pending \/ \A j \in Seen(frames, Top) : OnlyGlobal(frames[j], x)
    BY <2>2, Zenon DEF Scoped
  <2>4. OnlyGlobal(frames[i], x)
    BY <1>5, <2>3
  <2> QED BY <1>4, <2>4, Zenon DEF OnlyGlobal
<1>7. x \in Globals /\ (run[1].kind = "main" => i = 1)
  <2>1. i \in DOMAIN frames
    BY <1>2, <1>3
  <2> QED BY <1>2, <1>4, <1>6, <2>1, Zenon DEF Base
<1>8. inProcess = <<>>
  BY <1>7, Zenon DEF Tangles
<1>9. run[1].kind = "main"
  <2>1. Act.kind \notin {"globals", "main"}
    BY DEF Body
  <2>2. Len(run) > 1
    BY <2>1, Going_, Zenon
  <2> QED BY <1>8, <2>2, InMain
<1>10. PICK m \in 2 .. Top : frames[m].stop # 0
  BY <1>9, InTemplate
<1>11. m \in i + 1 .. Top
  BY <1>2, <1>7, <1>9
<1> QED BY <1>3, <1>10, <1>11

\* xsl:variable.
LEMMA DeclareVariableLex ==
  ASSUME StacksInv, LexInv, Untangled, NEW x \in VarNames, NEW how \in {"select", "content"},
         DeclareVariable(x, how), UNCHANGED sheetVars
  PROVE  LexInv'
<1> DEFINE l == "local"
           t == TRUE
<1>1. Going /\ Act.kind \in Body /\ Act.pending = {} /\ ~Tangles(x)
  BY DEF DeclareVariable, Instruction, Executing
<1>2. CASE VarExists(x)
  <2>1. Act.env[x] # NoVar
    BY <1>1, <1>2, DeclaredBefore
  <2>2. Raise("declared", Act.env[x] # NoVar)
    BY <1>2 DEF DeclareVariable
  <2> QED BY <1>1, <2>1, <2>2, LexRight
<1>3. CASE ~VarExists(x)
  <2>1. /\ error' = error
        /\ IF how = "select" THEN Declare1(x, l, t) ELSE Evaluate(x, how, t, l)
    BY <1>3 DEF DeclareVariable
  <2>2. Lacks(frames[Top], x)
    BY <1>1, <1>3, NotNear
  <2>3. l = "local" /\ l \in {"global", "local"} /\ l # "global" /\ t = TRUE
    OBVIOUS
  <2> HIDE DEF l, t
  <2>4. CASE how = "select"
    BY <1>1, <2>1, <2>2, <2>3, <2>4, Declare1Lex
  <2>5. CASE how = "content"
    <3>1. Evaluate(x, how, t, l)
      BY <2>1, <2>5
    <3>2. Act.kind # "applied" /\ Act.kind \in Body \cup {"params"}
      BY <1>1 DEF Body
    <3> QED BY <1>1, <2>1, <2>2, <2>3, <2>5, <3>1, <3>2, EvaluateLex
  <2> QED BY <2>4, <2>5
<1> QED BY <1>2, <1>3

\* A parameter that was passed becomes visible.
LEMMA ActivatedShows ==
  ASSUME StacksInv, Going, NEW x \in VarNames, NEW k \in Nat \ {0}, Found(x) = <<Top, k>>,
         FirstIn(frames[Top], x, TRUE, k), NEW gs, gs = Activated(x)
  PROVE  /\ Shows(frames, gs, Top) /\ gs[Top].polluted = frames[Top].polluted
         /\ gs[Top].vars[k].active
<1> DEFINE d == Top
           f == frames[d]
           t == TRUE
           w == f.vars[k]
           v == [w EXCEPT !.active = t]
           vs == [f.vars EXCEPT ![k] = v]
           g == [f EXCEPT !.vars = vs]
<1>1. d \in Nat \ {0} /\ d = Len(frames) /\ frames \in Seq(FrameSet) /\ f \in FrameSet
  <2>1. Top \in Nat \ {0} /\ frames \in Seq(FrameSet) /\ Top = Len(frames)
    BY Going_ DEF StacksInv, TypeOK, Top
  <2> HIDE DEF Top
  <2> QED BY <2>1
<1>2. gs = [frames EXCEPT ![d] = g]
  <2>1. gs = [frames EXCEPT ![Found(x)[1]].vars[Found(x)[2]].active = t]
    BY DEF Activated
  <2>2. Found(x)[1] = d /\ Found(x)[2] = k
    OBVIOUS
  <2> HIDE DEF t, d
  <2>3. gs = [frames EXCEPT ![d].vars[k].active = t]
    BY <2>1, <2>2
  <2> QED BY <2>3
<1>3. k \in DOMAIN f.vars
  BY DEF FirstIn
<1> HIDE DEF d
<1>4. gs[d] = g /\ \A j \in 1 .. d - 1 : gs[j] = frames[j]
  <2> HIDE DEF g, f
  <2>1. DOMAIN frames = 1 .. d
    BY <1>1
  <2> QED BY <1>1, <1>2, <2>1
<1>5. w \in VarSet /\ f.vars \in Seq(VarSet)
  <2> HIDE DEF f
  <2> QED BY <1>1, <1>3 DEF FrameSet
<1>6. g.vars = vs /\ g.stop = f.stop /\ g.polluted = f.polluted
  <2> HIDE DEF f, vs
  <2> QED BY <1>1 DEF FrameSet
<1>7. v.name = w.name /\ v.decl = w.decl /\ v.active
  <2> HIDE DEF w
  <2>1. v.name = w.name /\ v.decl = w.decl /\ v.active = t
    <3> HIDE DEF t
    <3> QED BY <1>5 DEF VarSet
  <2> QED BY <2>1
<1>8. DOMAIN vs = DOMAIN f.vars /\ \A q \in DOMAIN f.vars : vs[q] = IF q = k THEN v ELSE f.vars[q]
  <2> HIDE DEF f, v
  <2> QED OBVIOUS
<1> HIDE DEF v, vs, g
<1>9. \A q \in DOMAIN f.vars : /\ vs[q].name = f.vars[q].name /\ vs[q].decl = f.vars[q].decl
                               /\ f.vars[q].active => vs[q].active
  BY <1>7, <1>8, Zenon
<1>10. vs[k].active
  BY <1>3, <1>7, <1>8, Zenon
<1> HIDE DEF w
<1>11. Agree(frames, gs, d - 1)
  BY <1>4 DEF Agree
<1>12. Shows(frames, gs, d)
  BY <1>4, <1>6, <1>8, <1>9, <1>11, Zenon DEF Shows
<1>13. gs[d].polluted = f.polluted /\ gs[d].vars[k].active
  BY <1>4, <1>6, <1>10, Zenon
<1> QED BY <1>12, <1>13 DEF d

\* The template that declares it.
LEMMA WellShown ==
  ASSUME NEW fs, NEW gs, NEW k \in Nat \ {0}, Shows(fs, gs, k), gs[k].polluted = fs[k].polluted,
         NEW a, a.kind = "template", a.of \notin {"global", "local"},
         NEW c, NEW r, NEW G, Well(fs, k, a, c, r, G), NEW b, Like(a, b),
         b.pending \subseteq a.pending, Scoped(gs, k, b.env, b.pending)
  PROVE  Well(gs, k, b, c, r, G)
<1>1. b.kind = "template" /\ b.of # "global" /\ b.of # "local"
  BY DEF Like
<1>2. /\ Owns(a) /\ Owns(b) /\ StopOf(a) = 1 /\ StopOf(b) = 1 /\ Sees(b, k) = k
      /\ b.kind \notin {"params", "applied"} /\ b.kind # "foreach"
      /\ a.kind \notin {"globals", "main"}
  BY <1>1 DEF Owns, StopOf, Sees
<1>3. /\ gs[k].stop = fs[k].stop /\ DOMAIN gs[k].vars = DOMAIN fs[k].vars
      /\ \A q \in DOMAIN fs[k].vars :
           gs[k].vars[q].name = fs[k].vars[q].name /\ gs[k].vars[q].decl = fs[k].vars[q].decl
  BY Zenon DEF Shows
<1>4. \A y : Given(fs[k], y) => Given(gs[k], y)
  BY <1>3, Zenon DEF Given, Lacks
<1>5. ASSUME NEW xs, Passes(fs[k], xs) PROVE Passes(gs[k], xs)
  <2>1. ASSUME NEW y \in xs PROVE ~Lacks(gs[k], y)
    <3>1. ~Lacks(fs[k], y)
      BY <1>5, Zenon DEF Passes
    <3> QED BY <1>3, <3>1, Zenon DEF Lacks
  <2>2. \A q \in DOMAIN gs[k].vars : gs[k].vars[q].decl = "local" /\ gs[k].vars[q].name \in xs
    <3> TAKE q \in DOMAIN gs[k].vars
    <3>1. q \in DOMAIN fs[k].vars
      BY <1>3, Zenon
    <3>2. fs[k].vars[q].decl = "local" /\ fs[k].vars[q].name \in xs
      BY <1>5, <3>1, Zenon DEF Passes
    <3>3. gs[k].vars[q].name = fs[k].vars[q].name /\ gs[k].vars[q].decl = fs[k].vars[q].decl
      BY <1>3, <3>1, Zenon
    <3> QED BY <3>2, <3>3
  <2> QED BY <2>1, <2>2, Zenon DEF Passes
<1>6. \A y \in b.pending : y \in a.pending
  OBVIOUS
<1>7. b.pending # {} => a.pending # {}
  OBVIOUS
<1>8. gs[k].stop = 1 /\ r.pending = {}
  BY <1>2, <1>3, Zenon DEF Well
<1>9. \A y \in b.pending : Given(gs[k], y)
  BY <1>4, <1>6, <1>7, Zenon DEF Well
<1>10. r.kind = "apply" /\ ~gs[k].polluted => Passes(gs[k], r.passed)
  BY <1>5, Zenon DEF Well
<1> QED BY <1>1, <1>2, <1>8, <1>9, <1>10, Zenon DEF Well

\* xsl:param.
LEMMA DeclareParamLex ==
  ASSUME StacksInv, LexInv, NEW x \in VarNames, DeclareParam(x), UNCHANGED sheetVars
  PROVE  LexInv'
<1> DEFINE l == "local"
           t == TRUE
<1>1. Going /\ Act.kind = "template" /\ Act.kind \in Body /\ error' = error
  BY DEF DeclareParam, Executing
<1>2. CASE ~VarExists(x)
  <2>1. Declare1(x, l, t)
    BY <1>2 DEF DeclareParam
  <2>2. Lacks(frames[Top], x)
    BY <1>1, <1>2, NotNear
  <2>3. l = "local" /\ t = TRUE
    OBVIOUS
  <2> HIDE DEF l, t
  <2> QED BY <1>1, <2>1, <2>2, <2>3, Declare1Lex
<1>3. CASE VarExists(x)
  <2> DEFINE p == Found(x)
             a == Act
             e == [a EXCEPT !.env[x] = p, !.pending = @ \ {x}]
             b == IF x \in a.pending THEN e ELSE a
             k == Top
             m == Top - 1
  <2>1. frames' = Activated(x) /\ run' = Replaced(run, b)
    BY <1>3 DEF DeclareParam
  <2>2. /\ frames \in Seq(FrameSet) /\ Top \in Nat \ {0} /\ Top = Len(frames)
        /\ Base(frames, run[1].kind, Globals) /\ Act \in CallSet
        /\ Well(frames, Top, Act, Top - Own(Act), Below, Globals)
        /\ Len(run) > 1 /\ Top > 1 /\ Own(Act) = 1 /\ Owns(Act) /\ Nests(run, Len(run))
    <3>1. Act.kind \notin {"globals", "main"} /\ Owns(Act) /\ Own(Act) = 1
      BY <1>1 DEF Owns, Own
    <3>2. Len(run) > 1 /\ Top > 1 /\ Act \in CallSet /\ Nests(run, Len(run))
      BY <1>1, <3>1, Going_, Zenon
    <3> QED BY <1>1, <3>1, <3>2, LexTop
  <2>3. Act.of \notin {"global", "local"}
    <3>1. Above(Act, Below, Len(run), run[1])
      BY <2>2 DEF Nests, Act, Below
    <3>2. Act.of \in {"", "again", "imports"}
      BY <1>1, <3>1 DEF Above
    <3>3. \A o \in {"", "again", "imports"} : o \notin {"global", "local"}
      BY Zenon
    <3> QED BY <3>2, <3>3, Zenon
  <2>4. frames[Top].stop = 1
    <3>1. StopOf(Act) = 1
      BY <1>1 DEF StopOf
    <3> QED BY <2>2, <3>1, Zenon DEF Well
  <2>5. PICK q \in Nat \ {0} : Found(x) = <<Top, q>> /\ FirstIn(frames[Top], x, TRUE, q)
    <3>1. PICK i \in Near, q \in Nat \ {0} : Found(x) = <<i, q>> /\ FirstIn(frames[i], x, TRUE, q)
      BY <1>1, <1>3, FoundIs
    <3>2. i = Top
      <4>1. i \in 1 .. Top /\ \A j \in i + 1 .. Top : frames[j].stop = 0
        BY DEF Near
      <4> QED BY <4>1, <2>2, <2>4
    <3> QED BY <3>1, <3>2
  <2>6. /\ Shows(frames, frames', Top) /\ frames'[Top].polluted = frames[Top].polluted
        /\ frames'[Top].vars[q].active /\ frames' \in Seq(FrameSet) /\ Len(frames') = Top
        /\ Found(x) \in Place
    BY <1>1, <1>3, <2>1, <2>5, ActivatedShows, ActivatedIs
  <2>7. a \in CallSet /\ a.kind = "template" /\ a.of \notin {"global", "local"} /\ Own(a) = 1
    BY <1>1, <2>2, <2>3
  <2>8. Well(frames, k, a, m, Below, Globals) /\ m \in Nat /\ m = k - 1 /\ m = Top - Own(Act)
    BY <2>2
  <2>9. /\ k \in Nat \ {0} /\ k <= Len(frames) /\ Shows(frames, frames', k) /\ k > 1 /\ k = Len(frames)
        /\ frames'[k].polluted = frames[k].polluted /\ frames'[k].vars[q].active
        /\ frames[k].stop = 1 /\ FirstIn(frames[k], x, TRUE, q) /\ p = <<k, q>> /\ Len(frames') = k
    <3>1. k = Top /\ k \in Nat \ {0} /\ k <= Len(frames) /\ k > 1 /\ k = Len(frames)
      BY <2>2
    <3>2. p = <<k, q>>
      BY <2>5
    <3> HIDE DEF k, p
    <3>3. Shows(frames, frames', k) /\ frames'[k].polluted = frames[k].polluted
      BY <2>6, <3>1, Zenon
    <3>4. frames'[k].vars[q].active
      BY <2>6, <3>1, Zenon
    <3>5. frames[k].stop = 1 /\ Len(frames') = k
      BY <2>4, <2>6, <3>1, Zenon
    <3>6. FirstIn(frames[k], x, TRUE, q)
      BY <2>5, <3>1, Zenon
    <3> QED BY <3>1, <3>2, <3>3, <3>4, <3>5, <3>6, Zenon
  <2>10. p \in Place
    BY <2>6
  <2> HIDE DEF p, a, k, m
  <2>11. e \in CallSet /\ Like(a, e) /\ e.env = [a.env EXCEPT ![x] = p] /\ e.pending = a.pending \ {x}
    <3>1. a \in CallSet
      BY <2>7
    <3>2. e = Declaring(a, x, p)
      BY Zenon DEF Declaring
    <3> HIDE DEF e
    <3> QED BY <3>1, <3>2, <2>10, DeclaringIs, Zenon
  <2> HIDE DEF e
  <2>12. Scoped(frames, k, a.env, a.pending) /\ a.env \in [VarNames -> Place]
    <3>1. Scoped(frames, Sees(a, k), a.env, a.pending)
      BY <2>8, Zenon DEF Well
    <3>2. Sees(a, k) = k
      BY <2>7 DEF Sees
    <3>3. a.env \in [VarNames -> Place]
      BY <2>7 DEF CallSet
    <3> QED BY <3>1, <3>2, <3>3
  <2>13. b \in CallSet /\ Like(a, b) /\ b.pending \subseteq a.pending /\ Scoped(frames', k, b.env, b.pending)
    <3>1. CASE x \in a.pending
      <4>1. b = e
        BY <3>1
      <4>2. Given(frames[k], x)
        <5>1. a.pending # {}
          BY <3>1
        <5> QED BY <3>1, <5>1, <2>8, Zenon DEF Well
      <4>3. frames[k].stop # 2
        BY <2>9
      <4>4. e.env = [a.env EXCEPT ![x] = <<k, q>>]
        BY <2>9, <2>11
      <4>5. Scoped(frames', k, e.env, a.pending \ {x})
        BY <2>2, <2>9, <2>12, <4>2, <4>3, <4>4, ScopedShown
      <4>6. e.pending \subseteq a.pending /\ Scoped(frames', k, e.env, e.pending)
        BY <2>11, <4>5
      <4> QED BY <4>1, <4>6, <2>11
    <3>2. CASE x \notin a.pending
      <4>1. b = a /\ Like(a, a)
        BY <3>2 DEF Like
      <4>2. Scoped(frames', k, a.env, a.pending)
        BY <2>2, <2>9, <2>12, ScopedShows
      <4> QED BY <4>1, <4>2, <2>7
    <3> QED BY <3>1, <3>2
  <2> HIDE DEF b
  <2>14. Well(frames', k, b, m, Below, Globals)
    BY <2>7, <2>8, <2>9, <2>13, WellShown
  <2>15. Base(frames', run[1].kind, Globals)
    <3>1. Suits(frames, k, run[1].kind, Globals)
      <4>1. k \in 1 .. Len(frames)
        BY <2>9
      <4> QED BY <2>2, <4>1, BaseSuits
    <3>2. frames'[k].stop # 2 /\ k # 1
      <4>1. frames'[k].stop = frames[k].stop
        BY <2>9 DEF Shows
      <4> QED BY <2>9, <4>1
    <3>3. \A j \in DOMAIN frames'[k].vars :
            /\ j \in DOMAIN frames[k].vars /\ frames'[k].vars[j].decl = frames[k].vars[j].decl
            /\ frames'[k].vars[j].name = frames[k].vars[j].name
      BY <2>9, Zenon DEF Shows
    <3>4. Suits(frames', k, run[1].kind, Globals)
      BY <3>1, <3>2, <3>3, Zenon DEF Suits
    <3>5. Len(frames') > 0 /\ Len(frames') - 1 <= Len(frames) /\ Agree(frames, frames', Len(frames') - 1)
      BY <2>9 DEF Shows
    <3> QED BY <2>2, <2>6, <2>9, <3>4, <3>5, BaseStep
  <2>16. Agree(frames, frames', m) /\ m + Own(b) = k
    <3>1. Own(b) = Own(a)
      BY <2>13 DEF Own, Owns, Like
    <3> QED BY <2>7, <2>8, <2>9, <3>1 DEF Shows
  <2> QED BY <1>1, <2>1, <2>2, <2>8, <2>13, <2>14, <2>15, <2>16, LexReplace
<1> QED BY <1>2, <1>3

\* The first call has a frame.
LEMMA DepthAbove ==
  ASSUME NEW r, Opens(r[1]), NEW n \in Nat \ {0}
  PROVE  Depth(r, n) \in Nat \ {0}
<1>1. Owns(r[1])
  BY DEF Opens, Owns
<1>2. Depth(r, 0) \in Nat /\ Depth(r, 1) \in Nat /\ Depth(r, 0) < Depth(r, 1)
  <2>1. 1 \in Nat /\ 0 \in 0 .. 1 /\ 0 < 1
    OBVIOUS
  <2> QED BY <1>1, <2>1, Depths
<1>3. Depth(r, n) \in Nat /\ Depth(r, 1) <= Depth(r, n)
  <2>1. n \in Nat /\ 1 \in 0 .. n
    OBVIOUS
  <2> QED BY <2>1, Depths
<1> QED BY <1>2, <1>3

\* A call that sees a top-level variable get its value.
LEMMA WellGlobal ==
  ASSUME NEW fs \in Seq(FrameSet), NEW gs, NEW k \in Nat \ {0}, k <= Len(fs), NEW v,
         Gets(fs, gs, k, v), gs[k].polluted, v.decl = "global", fs[k].stop # 2, SeesGlobals(fs, k),
         NEW a, a.kind # "applied", NEW c \in 0 .. k, NEW b, NEW G, Well(fs, k, a, c, b, G),
         a.of \in {"global", "local"} => c # 0, a.of = "local" => c = k - 1
  PROVE  Well(gs, k, a, c, b, G)
<1>1. SeesGlobals(gs, k) /\ gs[k].stop = fs[k].stop /\ Agree(fs, gs, k - 1)
  BY SeesGlobalsGets DEF Gets
<1>2. AllGlobal(fs[k])
  BY SeenTop DEF SeesGlobals
<1>3. a.pending = {}
  <2> SUFFICES ASSUME NEW x \in a.pending PROVE FALSE
    OBVIOUS
  <2>1. Given(fs[k], x)
    BY Zenon DEF Well
  <2> QED BY <1>2, <2>1, Zenon DEF Given, AllGlobal, Lacks
<1>4. Sees(a, k) = k
  BY DEF Sees
<1>5. Scoped(gs, k, a.env, a.pending)
  <2>1. Scoped(fs, k, a.env, a.pending)
    BY <1>4, Zenon DEF Well
  <2>2. \A x \in VarNames : a.env[x] = NoVar
    BY <2>1, GlobalScope
  <2> QED BY <1>1, <2>2, GlobalsScoped
<1>6. a.kind # "params"
  <2> SUFFICES ASSUME a.kind = "params" PROVE FALSE
    OBVIOUS
  <2>1. Owns(a) /\ StopOf(a) = 2
    BY DEF Owns, StopOf
  <2>2. fs[k].stop = 2
    BY <2>1, Zenon DEF Well
  <2> QED BY <2>2
<1>7. ASSUME a.of = "global"
      PROVE  a.var \in G /\ gs[c].stop # 2 /\ SeesGlobals(gs, c)
  <2>1. a.var \in G /\ fs[c].stop # 2 /\ SeesGlobals(fs, c)
    BY <1>7, Zenon DEF Well
  <2>2. CASE c = k
    BY <1>1, <2>1, <2>2
  <2>3. CASE c # k
    <3>1. c \in Nat /\ c \in 1 .. k - 1 /\ Agree(fs, gs, c)
      BY <1>1, <1>7, <2>3 DEF Agree
    <3>2. gs[c] = fs[c]
      BY <1>1, <3>1 DEF Agree
    <3> QED BY <2>1, <3>1, <3>2, SeesGlobalsAgree
  <2> QED BY <2>2, <2>3
<1>8. ASSUME a.of = "local", b.kind # "params" PROVE Lacks(gs[c], a.var)
  <2>1. Lacks(fs[c], a.var)
    BY <1>8, Zenon DEF Well
  <2>2. c \in 1 .. k - 1
    BY <1>8
  <2>3. gs[c] = fs[c]
    BY <1>1, <2>2 DEF Agree
  <2> QED BY <2>1, <2>3
<1>9. Owns(a) => gs[k].stop = StopOf(a)
  BY <1>1, Zenon DEF Well
<1>10. a.kind \notin {"globals", "main"} => b.pending = {}
  BY Zenon DEF Well
<1>11. a.of = "local" => a.kind = "content" /\ b.kind \in Body \cup {"params"}
  BY Zenon DEF Well
<1>12. a.kind \notin {"params", "applied"}
  BY <1>6
<1> QED BY <1>3, <1>4, <1>5, <1>7, <1>8, <1>9, <1>10, <1>11, <1>12, Zenon DEF Well

\* The value of a variable: what is known of the calls and frames below.
LEMMA BelowValue ==
  ASSUME StacksInv, LexInv, Going, Act.kind \in {"select", "content"},
         NEW fs, fs = IF Act.kind = "content" THEN Front(frames) ELSE frames,
         NEW k, k = Top - Own(Act)
  PROVE  /\ fs \in Seq(FrameSet) /\ Len(fs) = k /\ k \in Nat \ {0} /\ Agree(frames, fs, k)
         /\ Base(fs, run[1].kind, Globals) /\ Len(run) > 1 /\ Len(run) \in Nat
         /\ Act.var \in VarNames /\ Below \in CallSet /\ Below.pending = {}
         /\ Act.of = "global" => /\ run[1].kind = "globals" /\ Act.var \in Globals
                                 /\ fs[k].stop # 2 /\ SeesGlobals(fs, k)
         /\ Act.of # "global" => /\ Act.of = "local" /\ Act.kind = "content"
                                 /\ Below.kind \in Body \cup {"params"}
                                 /\ Below.kind # "params" => Lacks(fs[k], Act.var)
<1>1. /\ frames \in Seq(FrameSet) /\ Top = Len(frames) /\ Top \in Nat \ {0}
      /\ Base(frames, run[1].kind, Globals) /\ run \in Seq(CallSet)
      /\ Well(frames, Top, Act, Top - Own(Act), Below, Globals)
  BY LexTop
<1>2. Len(run) > 1 /\ Len(run) \in Nat /\ Nests(run, Len(run)) /\ (Owns(Act) => Top > 1)
  <2>1. Act.kind \notin {"globals", "main"}
    OBVIOUS
  <2> QED BY <2>1, Going_, Zenon
<1>3. Top - Own(Act) \in Nat \ {0}
  BY <1>2, LexTop
<1>4. Above(Act, Below, Len(run), run[1])
  BY <1>2 DEF Nests, Act, Below
<1>5. Act.var \in VarNames /\ Act.of \in {"global", "local"}
      /\ (Act.of = "global" => run[1].kind = "globals")
  BY <1>4 DEF Above
<1>6. Below \in CallSet
  <2>1. Len(run) - 1 \in 1 .. Len(run)
    BY <1>2
  <2> QED BY <1>1, <2>1 DEF Below
<1>7. fs \in Seq(FrameSet) /\ Len(fs) = k /\ Agree(frames, fs, k) /\ Base(fs, run[1].kind, Globals)
  <2>1. CASE Act.kind = "content"
    <3>1. Own(Act) = 1 /\ Top > 1
      BY <1>2, <2>1 DEF Own, Owns
    <3> QED BY <2>1, <3>1, FrontBase
  <2>2. CASE Act.kind # "content"
    <3>1. Own(Act) = 0 /\ fs = frames
      BY <2>2 DEF Own, Owns
    <3>2. k = Top
      BY <1>1, <3>1
    <3> QED BY <1>1, <3>1, <3>2 DEF Agree
  <2> QED BY <2>1, <2>2
<1>8. k \in Nat \ {0} /\ Well(frames, Top, Act, k, Below, Globals) /\ fs[k] = frames[k]
  <2>1. k \in Nat \ {0}
    BY <1>3
  <2>2. fs[k] = frames[k]
    BY <1>7, <2>1 DEF Agree
  <2> QED BY <1>1, <2>1, <2>2
<1>9. Below.pending = {}
  <2>1. Act.kind \notin {"globals", "main"}
    OBVIOUS
  <2> QED BY <1>8, <2>1, Zenon DEF Well
<1>10. ASSUME Act.of = "global"
       PROVE  Act.var \in Globals /\ fs[k].stop # 2 /\ SeesGlobals(fs, k)
  <2>1. Act.var \in Globals /\ frames[k].stop # 2 /\ SeesGlobals(frames, k)
    BY <1>8, <1>10, Zenon DEF Well
  <2>2. k \in Nat
    BY <1>8
  <2> QED BY <1>7, <1>8, <2>1, <2>2, SeesGlobalsAgree
<1>11. ASSUME Act.of # "global"
       PROVE  /\ Act.of = "local" /\ Act.kind = "content" /\ Below.kind \in Body \cup {"params"}
              /\ Below.kind # "params" => Lacks(fs[k], Act.var)
  <2>1. Act.of = "local"
    BY <1>5, <1>11
  <2> QED BY <1>8, <2>1, Zenon DEF Well
<1> QED BY <1>2, <1>5, <1>6, <1>7, <1>8, <1>9, <1>10, <1>11

\* The content of a local variable or of a parameter ends.
LEMMA EndOfLocalLex ==
  ASSUME StacksInv, LexInv, EndOfValue, Act.of # "global", UNCHANGED sheetVars
  PROVE  LexInv'
<1> DEFINE fs == Front(frames)
           k == Top - Own(Act)
           n == Len(run)
           m == k - 1
           x == Act.var
           a == Below
           r == run[n - 2]
           active == a.kind # "params"
           l == "local"
           v == Variable(x, active, l)
           p == Here(fs)
           q == a.passed \cup {x}
           d == [a EXCEPT !.env[x] = p]
           e == [a EXCEPT !.passed = q]
           b == IF active THEN d ELSE e
<1>1. Going /\ Act.kind \in {"select", "content"}
  BY DEF EndOfValue
<1>2. /\ Act.of = "local" /\ Act.kind = "content" /\ a.kind \in Body \cup {"params"}
      /\ a.kind # "params" => Lacks(fs[k], x)
      /\ fs \in Seq(FrameSet) /\ Len(fs) = k /\ k \in Nat \ {0} /\ Agree(frames, fs, k)
      /\ Base(fs, run[1].kind, Globals) /\ n > 1 /\ n \in Nat
      /\ x \in VarNames /\ a \in CallSet /\ a.pending = {}
  <2> DEFINE gs == IF Act.kind = "content" THEN Front(frames) ELSE frames
  <2>1. Act.of = "local" /\ Act.kind = "content" /\ a.kind \in Body \cup {"params"}
    BY <1>1, BelowValue
  <2>2. gs = fs
    BY <2>1
  <2> QED BY <1>1, <2>1, <2>2, BelowValue
<1>3. frames' = SetVar(fs, v) /\ run' = Append(SubSeq(run, 1, n - 2), b) /\ error' = error
  BY <1>1, <1>2 DEF EndOfValue, Below
<1>4. /\ run \in Seq(CallSet) /\ Opens(run[1]) /\ NestedRun(run)
      /\ Well(frames, k, a, k - Own(a), r, Globals) /\ Depth(run, n - 2) = k - Own(a)
  <2>1. run \in Seq(CallSet) /\ Opens(run[1])
    BY <1>1, LexTop
  <2>2. Well(frames, k, a, k - Own(a), r, Globals) /\ Depth(run, n - 2) = k - Own(a)
    BY <1>1, <1>2, LexTop
  <2>3. NestedRun(run)
    BY DEF StacksInv, Follows
  <2> QED BY <2>1, <2>2, <2>3
<1>5. Own(a) = 1 /\ Owns(a) /\ a.kind \notin {"globals", "main", "applied"}
      /\ (active => StopOf(a) # 2) /\ (~active => StopOf(a) = 2)
  <2>1. a.kind \in Body \cup {"params"}
    BY <1>2
  <2> HIDE DEF a
  <2> QED BY <2>1 DEF Own, Owns, Body, StopOf
<1>n. n \in Nat /\ n > 1
  BY <1>2
<1>k. k \in Nat \ {0} /\ Len(fs) = k
  BY <1>2
<1>6. n > 2
  <2>1. n # 2
    <3> SUFFICES ASSUME n = 2 PROVE FALSE
      OBVIOUS
    <3>1. a = run[1]
      BY DEF Below
    <3>2. Opens(a)
      BY <3>1, <1>4
    <3> HIDE DEF a
    <3> QED BY <3>2, <1>5 DEF Opens
  <2> HIDE DEF n
  <2> QED BY <1>n, <2>1
<1>7. m \in Nat \ {0} /\ m = k - Own(a)
  <2>1. n - 2 \in Nat \ {0}
    <3> HIDE DEF n
    <3> QED BY <1>n, <1>6
  <2>2. Depth(run, n - 2) \in Nat \ {0}
    BY <1>4, <2>1, DepthAbove
  <2> QED BY <1>2, <1>4, <1>5, <2>2
<1>8. a.kind = "params" => a.of \notin {"global", "local"}
  <2>1. n - 1 \in 2 .. Len(run) /\ (n - 1) - 1 = n - 2
    BY <1>2, <1>6
  <2>2. Above(run[n - 1], run[(n - 1) - 1], n - 1, run[1])
    BY <1>4, <2>1 DEF NestedRun, Nests
  <2>3. a = run[n - 1]
    BY DEF Below
  <2>4. a.kind = "params" => a.of \in {"", "again", "imports"}
    BY <2>2, <2>3 DEF Above
  <2>5. \A o \in {"", "again", "imports"} : o \notin {"global", "local"}
    BY Zenon
  <2> QED BY <2>4, <2>5, Zenon
<1>9. v \in VarSet /\ v.name = x /\ v.active = active /\ v.decl = "local"
  <2>1. active \in BOOLEAN /\ l \in {"global", "local"} /\ x \in VarNames
    BY <1>2
  <2> HIDE DEF active, l, x
  <2>2. v \in VarSet /\ v.name = x /\ v.active = active /\ v.decl = l
    BY <2>1, VariableIs
  <2> HIDE DEF v
  <2> QED BY <2>2 DEF l
<1>10. p \in Place /\ p = <<k, Len(fs[k].vars) + 1>>
  <2>1. Len(fs) > 0 /\ Last(fs) = fs[k]
    BY <1>2 DEF Last
  <2> QED BY <1>2, <2>1, HereIs DEF Here
<1>11. q \in SUBSET VarNames
  BY <1>2 DEF CallSet
<1>12. Well(fs, k, a, m, r, Globals)
  <2>1. k \in Nat /\ k \in 1 .. k /\ m \in 0 .. k /\ m > 0
    BY <1>2, <1>7
  <2> HIDE DEF fs, k, m, a, r
  <2>2. Well(frames, k, a, m, r, Globals)
    BY <1>4, <1>7
  <2> QED BY <1>2, <2>1, <2>2, WellAgree
<1> HIDE DEF fs, p, q, v
<1>13. /\ d \in CallSet /\ Like(a, d) /\ d.env = [a.env EXCEPT ![x] = p] /\ d.pending = a.pending
       /\ e \in CallSet /\ Like(a, e) /\ e.env = a.env /\ e.pending = a.pending /\ e.passed = q
  <2>1. a \in CallSet /\ x \in VarNames /\ p \in Place /\ q \in SUBSET VarNames
    BY <1>2, <1>10, <1>11
  <2> HIDE DEF a, x
  <2>2. d \in CallSet /\ Like(a, d) /\ d.env = [a.env EXCEPT ![x] = p] /\ d.pending = a.pending
    BY <2>1, WithBinding
  <2>3. e \in CallSet /\ Like(a, e) /\ e.env = a.env /\ e.pending = a.pending /\ e.passed = q
    BY <2>1, WithPassed
  <2> QED BY <2>2, <2>3
<1> HIDE DEF d, e
<1>14. Gets(fs, frames', k, v) /\ frames' \in Seq(FrameSet) /\ Len(frames') = k /\ frames'[k].polluted
  <2> HIDE DEF k
  <2> QED BY <1>2, <1>3, <1>9, GetsTop
<1>15. fs[k].stop = StopOf(a)
  BY <1>5, <1>12, Zenon DEF Well
<1>16. Base(frames', run[1].kind, Globals)
  <2>1. k # 1
    BY <1>2, <1>7
  <2>2. fs[k].stop = 2 => ~v.active
    <3>1. active => fs[k].stop # 2
      BY <1>5, <1>15
    <3> HIDE DEF active
    <3> QED BY <1>9, <3>1
  <2>3. v.decl # "global"
    BY <1>9
  <2> HIDE DEF k
  <2> QED BY <1>2, <1>9, <1>14, <2>1, <2>2, <2>3, GetsBase
<1>17. b \in CallSet /\ Like(a, b) /\ Well(frames', k, b, m, r, Globals)
  <2>1. CASE active
    <3>1. b = d /\ v.active /\ Lacks(fs[k], x)
      BY <2>1, <1>2, <1>9
    <3>2. k > 1 /\ k <= Len(fs) /\ m = k - 1 /\ fs[k].stop # 2
      <4>1. m = k - 1 /\ m \in Nat \ {0}
        BY <1>7
      <4>2. fs[k].stop # 2
        BY <2>1, <1>5, <1>15
      <4> HIDE DEF m, k
      <4> QED BY <1>k, <4>1, <4>2
    <3>3. d.pending \subseteq a.pending /\ a.pending \ {x} \subseteq d.pending
      BY <1>13
    <3>4. d.env = [a.env EXCEPT ![x] = <<k, Len(fs[k].vars) + 1>>]
      BY <1>10, <1>13
    <3>5. a.kind \notin {"params", "applied"}
      BY <2>1, <1>5
    <3> HIDE DEF b, a, k, m, x, r
    <3>6. Well(frames', k, d, m, r, Globals)
      BY <1>2, <1>5, <1>9, <1>12, <1>13, <1>14, <3>1, <3>2, <3>3, <3>4, <3>5, WellLocal, ZenonT(40)
    <3> QED BY <1>13, <3>1, <3>6
  <2>2. CASE ~active
    <3>1. b = e /\ a.kind = "params" /\ e.passed = a.passed \cup {x}
      BY <2>2, <1>13 DEF q
    <3>2. k <= Len(fs)
      BY <1>2
    <3>3. a.of \notin {"global", "local"}
      BY <1>8, <3>1
    <3> HIDE DEF b, a, k, m, x, r
    <3>4. Well(frames', k, e, m, r, Globals)
      BY <1>2, <1>9, <1>12, <1>13, <1>14, <3>1, <3>2, <3>3, WellParam
    <3> QED BY <1>13, <3>1, <3>4
  <2> QED BY <2>1, <2>2
<1> HIDE DEF b
<1>18. /\ Len(run') = n - 1 /\ run'[n - 1] = b /\ \A i \in 1 .. n - 2 : run'[i] = run[i]
  <2> DEFINE s == SubSeq(run, 1, n - 2)
  <2>1. n - 2 \in 0 .. Len(run) /\ (n - 2) + 1 = n - 1
    BY <1>2, <1>6
  <2>2. s \in Seq(CallSet) /\ Len(s) = n - 2 /\ \A i \in 1 .. n - 2 : s[i] = run[i]
    BY <1>4, <2>1, Fronts
  <2> HIDE DEF s
  <2>3. /\ Len(Append(s, b)) = Len(s) + 1 /\ Append(s, b)[Len(s) + 1] = b
        /\ \A i \in 1 .. Len(s) : Append(s, b)[i] = s[i]
    BY <1>17, <2>2, Appending
  <2>4. run' = Append(s, b)
    BY <1>3 DEF s
  <2> QED BY <2>1, <2>2, <2>3, <2>4
<1>19. /\ b.kind = Below.kind /\ m + Own(b) = k /\ m \in Nat /\ m = (Top - Own(Act)) - Own(Below)
       /\ Agree(frames, frames', m)
  <2>1. b.kind = Below.kind /\ Own(b) = Own(a)
    BY <1>17 DEF Like, Own, Owns
  <2>2. m + Own(b) = k /\ m \in Nat
    <3>1. m = k - 1 /\ m \in Nat /\ Own(b) = 1
      BY <1>5, <1>7, <2>1
    <3> HIDE DEF m, k
    <3> QED BY <1>k, <3>1
  <2>3. m = (Top - Own(Act)) - Own(Below)
    BY <1>7
  <2>4. Agree(frames, frames', m)
    <3>1. Agree(fs, frames', m) /\ Agree(frames, fs, k)
      BY <1>2, <1>14 DEF Gets
    <3>2. \A j \in 1 .. m : j \in 1 .. k
      BY <1>2, <1>7
    <3> QED BY <3>1, <3>2, Zenon DEF Agree
  <2> QED BY <2>1, <2>2, <2>3, <2>4
<1>20. n = 2 => FALSE
  BY <1>6
<1>21. Len(run) > 1 /\ Len(run') = Len(run) - 1 /\ run'[Len(run) - 1] = b
       /\ \A i \in 1 .. Len(run) - 2 : run'[i] = run[i]
  BY <1>2, <1>18
<1>22. Well(frames', m + Own(b), b, m, run[Len(run) - 2], Globals)
  BY <1>17, <1>19
<1>23. Len(run) = 2 => Well(frames', m + Own(b), b, m, run'[0], Globals)
  BY <1>20
<1> HIDE DEF m
<1> QED BY <1>1, <1>3, <1>16, <1>19, <1>21, <1>22, <1>23, LexPop

\* The evaluation of a top-level variable ends: every call in progress sees it, or
\* has frames below.
LEMMA EndOfGlobalLex ==
  ASSUME StacksInv, LexInv, EndOfValue, Act.of = "global", UNCHANGED sheetVars
  PROVE  LexInv'
<1> DEFINE fs == IF Act.kind = "content" THEN Front(frames) ELSE frames
           k == Top - Own(Act)
           n == Len(run) - 1
           t == TRUE
           g == "global"
           v == Variable(Act.var, t, g)
<1>1. Going /\ Act.kind \in {"select", "content"}
  BY DEF EndOfValue
<1>2. /\ fs \in Seq(FrameSet) /\ Len(fs) = k /\ k \in Nat \ {0} /\ Agree(frames, fs, k)
      /\ Base(fs, run[1].kind, Globals) /\ Len(run) > 1 /\ Len(run) \in Nat
      /\ Act.var \in VarNames /\ Below \in CallSet /\ run[1].kind = "globals"
      /\ Act.var \in Globals /\ fs[k].stop # 2 /\ SeesGlobals(fs, k)
  BY <1>1, BelowValue
<1>3. /\ run \in Seq(CallSet) /\ Opens(run[1]) /\ Lex(frames, run, Globals) /\ NestedRun(run)
      /\ Depth(run, n) = k /\ error.right
  <2>1. /\ run \in Seq(CallSet) /\ Opens(run[1]) /\ Lex(frames, run, Globals)
        /\ Depth(run, n) = k /\ error.right
    BY <1>1, LexTop
  <2>2. NestedRun(run)
    BY DEF StacksInv, Follows
  <2> QED BY <2>1, <2>2
<1>4. n \in Nat \ {0} /\ n + 1 = Len(run) /\ n - 1 \in 0 .. Len(run) /\ (n - 1) + 1 = n /\ n \in 1 .. Len(run)
      /\ n - 1 = Len(run) - 2
  <2>1. ASSUME NEW l \in Nat, l > 1
        PROVE  /\ l - 1 \in Nat \ {0} /\ (l - 1) + 1 = l /\ (l - 1) - 1 \in 0 .. l
               /\ ((l - 1) - 1) + 1 = l - 1 /\ l - 1 \in 1 .. l /\ (l - 1) - 1 = l - 2
    BY <2>1
  <2>2. Len(run) \in Nat /\ Len(run) > 1
    BY <1>2
  <2> QED BY <2>1, <2>2
<1>5. /\ frames' = SetVar(fs, v) /\ run' = Append(SubSeq(run, 1, n - 1), Below) /\ error' = error
  <2>1. Last(fs).stop # 2
    BY <1>2 DEF Last
  <2>2. /\ frames' = SetVar(fs, Variable(Act.var, Below.kind # "params" \/ Act.of = "global", Act.of))
        /\ run' = Append(SubSeq(run, 1, Len(run) - 2), Below) /\ error' = error
    BY <2>1 DEF EndOfValue, Below
  <2>3. (Below.kind # "params" \/ Act.of = "global") = t
    OBVIOUS
  <2> HIDE DEF fs, t
  <2> QED BY <1>4, <2>2, <2>3
<1>6. Len(run') = n /\ \A i \in 1 .. n : run'[i] = run[i]
  <2> DEFINE s == SubSeq(run, 1, n - 1)
  <2>1. s \in Seq(CallSet) /\ Len(s) = n - 1 /\ \A i \in 1 .. n - 1 : s[i] = run[i]
    BY <1>3, <1>4, Fronts
  <2>2. run' = Append(s, Below) /\ Below = run[n]
    BY <1>5 DEF Below
  <2>3. n \in Nat \ {0} /\ (n - 1) + 1 = n /\ Below \in CallSet
    BY <1>2, <1>4
  <2> HIDE DEF s, n
  <2>4. /\ Len(Append(s, Below)) = Len(s) + 1 /\ Append(s, Below)[Len(s) + 1] = Below
        /\ \A i \in 1 .. Len(s) : Append(s, Below)[i] = s[i]
    BY <2>1, <2>3, Appending
  <2>5. Len(run') = n /\ run'[n] = run[n] /\ \A i \in 1 .. n - 1 : run'[i] = run[i]
    BY <2>1, <2>2, <2>3, <2>4
  <2>6. \A i \in 1 .. n : i \in 1 .. n - 1 \/ i = n
    BY <2>3
  <2> QED BY <2>5, <2>6
<1>7. v \in VarSet /\ v.name = Act.var /\ v.active /\ v.decl = "global"
  <2>1. t \in BOOLEAN /\ g \in {"global", "local"} /\ Act.var \in VarNames
    BY <1>2
  <2> HIDE DEF t, g
  <2>2. v \in VarSet /\ v.name = Act.var /\ v.active = t /\ v.decl = g
    BY <2>1, VariableIs
  <2> HIDE DEF v
  <2> QED BY <2>2 DEF t, g
<1> HIDE DEF fs, v
<1>8. Gets(fs, frames', k, v) /\ frames' \in Seq(FrameSet) /\ Len(frames') = k /\ frames'[k].polluted
  <2> HIDE DEF k
  <2> QED BY <1>2, <1>5, <1>7, GetsTop
<1>9. Base(frames', run[1].kind, Globals)
  <2>1. v.decl # "local" /\ v.name \in Globals /\ run[1].kind # "main"
    BY <1>2, <1>7
  <2> HIDE DEF k
  <2> QED BY <1>2, <1>7, <1>8, <2>1, GetsBase
<1> HIDE DEF k, n
<1>10. ASSUME NEW i \in 1 .. n
       PROVE  Well(frames', Depth(run', i), run'[i], Depth(run', i - 1), run'[i - 1], Globals)
  <2>1. /\ i \in 1 .. Len(run) /\ i \in Nat \ {0} /\ n \in Nat /\ i \in 0 .. n /\ i - 1 \in 0 .. n
        /\ i - 1 \in Nat /\ i - 1 \in 0 .. i /\ (i - 1) + 1 = i /\ Len(run) > 0
    BY <1>4
  <2>2. Well(frames, Depth(run, i), run[i], Depth(run, i - 1), run[i - 1], Globals)
    BY <1>3, <2>1 DEF Lex
  <2>3. /\ Depth(run, i) \in Nat \ {0} /\ Depth(run, i) <= k /\ Depth(run, i - 1) \in Nat
        /\ Depth(run, i - 1) <= Depth(run, i)
    <3>1. Depth(run, i) \in Nat \ {0}
      BY <1>3, <2>1, DepthAbove
    <3>2. Depth(run, i) <= Depth(run, n)
      BY <2>1, Depths
    <3>3. Depth(run, i - 1) \in Nat /\ Depth(run, i - 1) <= Depth(run, i)
      BY <2>1, Depths
    <3> QED BY <1>3, <3>1, <3>2, <3>3
  <2>4. CASE Depth(run, i) < k
    <3>1. Agree(frames, frames', Depth(run, i))
      <4>1. Agree(fs, frames', k - 1) /\ Agree(frames, fs, k)
        BY <1>2, <1>8 DEF Gets
      <4>2. \A j \in 1 .. Depth(run, i) : j \in 1 .. k - 1 /\ j \in 1 .. k
        BY <1>2, <2>3, <2>4
      <4> QED BY <4>1, <4>2, Zenon DEF Agree
    <3>2. \A j \in 1 .. i : run'[j] = run[j]
      <4>1. \A j \in 1 .. i : j \in 1 .. n
        BY <1>4
      <4> QED BY <1>6, <4>1
    <3>3. Shares(frames, frames', run, run', i) /\ i \in 1 .. i /\ i \in Nat
      BY <2>1, <3>1, <3>2 DEF Shares
    <3> QED BY <1>3, <2>2, <3>3, WellShared
  <2>5. CASE Depth(run, i) = k
    <3>1. Alike(run, run', n)
      BY <1>6 DEF Alike
    <3>2. Depth(run', i) = k /\ Depth(run', i - 1) = Depth(run, i - 1)
      BY <2>1, <2>5, <3>1, CountsAlike
    <3> DEFINE c == Depth(run, i - 1)
               a == run[i]
               b == run[i - 1]
    <3>3. c \in 0 .. k
      BY <1>2, <2>3, <2>5
    <3>4. Well(fs, k, a, c, b, Globals)
      <4>1. Shares(frames, fs, run, run, n)
        BY <1>2, <1>3 DEF Shares
      <4>2. Well(fs, Depth(run, i), run[i], Depth(run, i - 1), run[i - 1], Globals)
        BY <1>3, <2>1, <2>2, <4>1, WellShared
      <4> QED BY <2>5, <4>2
    <3>5. a.kind # "applied"
      <4>1. i + 1 \in 2 .. Len(run) /\ (i + 1) - 1 = i
        BY <1>4
      <4>2. Above(run[i + 1], run[(i + 1) - 1], i + 1, run[1])
        BY <1>3, <4>1 DEF NestedRun, Nests
      <4>3. Above(run[i + 1], run[i], i + 1, run[1])
        BY <4>1, <4>2
      <4> QED BY <4>3 DEF Above
    <3>6. a.of \in {"global", "local"} => c # 0
      <4> SUFFICES ASSUME a.of \in {"global", "local"} PROVE c # 0
        OBVIOUS
      <4>1. i # 1
        BY <1>3 DEF Opens
      <4>2. i - 1 \in Nat \ {0}
        BY <2>1, <4>1
      <4> QED BY <1>3, <4>2, DepthAbove
    <3>7. a.of = "local" => c = k - 1
      <4> SUFFICES ASSUME a.of = "local" PROVE c = k - 1
        OBVIOUS
      <4>1. a.kind = "content"
        BY <3>4, Zenon DEF Well
      <4>2. Owns(a)
        BY <4>1 DEF Owns
      <4>3. Depth(run, (i - 1) + 1) = Depth(run, i - 1) + (IF Owns(run[(i - 1) + 1]) THEN 1 ELSE 0)
        BY <2>1, Counts
      <4>4. Depth(run, i) = Depth(run, i - 1) + 1
        BY <2>1, <4>2, <4>3
      <4> QED BY <2>3, <2>5, <4>4
    <3>8. k <= Len(fs)
      BY <1>2
    <3>9. Well(frames', k, a, c, b, Globals)
      <4> HIDE DEF a, b, c
      <4> QED BY <1>2, <1>7, <1>8, <3>3, <3>4, <3>5, <3>6, <3>7, <3>8, WellGlobal
    <3>10. run'[i] = run[i]
      BY <1>6
    <3>11. CASE i = 1
      <4>1. Opens(a)
        BY <1>3, <3>11
      <4> QED BY <3>2, <3>9, <3>10, <4>1, WellFirst
    <3>12. CASE i # 1
      <4>1. i - 1 \in 1 .. n
        BY <2>1, <3>12
      <4>2. run'[i - 1] = run[i - 1]
        BY <1>6, <4>1
      <4> QED BY <3>2, <3>9, <3>10, <4>2
    <3> QED BY <3>11, <3>12
  <2> QED BY <1>2, <2>3, <2>4, <2>5
<1>11. run'[1] = run[1] /\ Len(run') > 0
  <2>1. 1 \in 1 .. n
    BY <1>4
  <2> QED BY <1>4, <1>6, <2>1
<1>12. Lex(frames', run', Globals)
  BY <1>6, <1>9, <1>10, <1>11 DEF Lex
<1> QED BY <1>1, <1>3, <1>5, <1>12, LexPrime

\* The value of a variable is known.
LEMMA EndOfValueLex ==
  ASSUME StacksInv, LexInv, EndOfValue, UNCHANGED sheetVars PROVE LexInv'
BY EndOfLocalLex, EndOfGlobalLex

(* ----------------------------- lexical lookups ----------------------------- *)
\* Stylesheets are read before a transformation.
LEMMA LoadLex ==
  ASSUME LexInv, Load, UNCHANGED xsltVars PROVE LexInv'
<1>1. open # <<>>
  BY DEF Load, Import, Include, EndOfSheet, AddTemplate, NameTemplate, NamespaceAlias,
         TopLevelVariable, Space, Nest, Declare, Reading
<1>2. run = <<>> /\ error.right
  BY <1>1, Zenon DEF LexInv
<1>3. run' = <<>> /\ error' = error
  BY <1>2 DEF xsltVars
<1>4. Len(run') = 0
  BY <1>3
<1>5. (Lex(frames, run, Globals))'
  BY <1>4 DEF Lex
<1> QED BY <1>2, <1>3, <1>5, Zenon DEF LexInv

\* Every step of a transformation keeps the scopes.
LEMMA TransformLex ==
  ASSUME StacksInv, LexInv, Untangled, Transform, UNCHANGED sheetVars PROVE LexInv'
<1>1. ASSUME NEW passed \in SUBSET Globals, Start(passed) PROVE LexInv'
  BY <1>1, StartLex
<1>2. CASE EndOfGlobals
  BY <1>2, EndOfGlobalsLex
<1>3. CASE Finish
  BY <1>3, FinishLex
<1>4. CASE Fail
  BY <1>4, FailLex
<1>5. ASSUME NEW x \in VarNames, NEW how \in {"select", "content"},
             EvaluateGlobal(x, how) \/ Use(x, how) \/ DeclareVariable(x, how) \/ PassParam(x, how)
      PROVE  LexInv'
  <2>1. CASE EvaluateGlobal(x, how)
    BY <2>1, EvaluateGlobalLex
  <2>2. CASE Use(x, how)
    BY <2>2, UseLex
  <2>3. CASE DeclareVariable(x, how)
    BY <2>3, DeclareVariableLex
  <2>4. CASE PassParam(x, how)
    BY <2>4, PassParamLex
  <2> QED BY <1>5, <2>1, <2>2, <2>3, <2>4
<1>6. ASSUME NEW x \in VarNames, DeclareParam(x) PROVE LexInv'
  BY <1>6, DeclareParamLex
<1>7. CASE Enter
  BY <1>7, EnterLex
<1>8. CASE ForEach
  BY <1>8, ForEachLex
<1>9. CASE Again
  BY <1>9, AgainLex
<1>10. CASE EndOfValue
  BY <1>10, EndOfValueLex
<1>11. CASE CallTemplate
  BY <1>11, CallTemplateLex
<1>12. CASE StartOfTemplate
  BY <1>12, StartOfTemplateLex
<1>13. CASE ApplyTemplates
  BY <1>13, ApplyTemplatesLex
<1>14. CASE NextNode
  BY <1>14, NextNodeLex
<1>15. CASE EndOfApply
  BY <1>15, EndOfApplyLex
<1>16. CASE ApplyImports
  BY <1>16, ApplyImportsLex
<1>17. CASE Leave
  BY <1>17, LeaveLex
<1> QED BY <1>1, <1>2, <1>3, <1>4, <1>5, <1>6, <1>7, <1>8, <1>9, <1>10, <1>11, <1>12, <1>13,
           <1>14, <1>15, <1>16, <1>17 DEF Transform

\* LexInv is inductive in the presence of StacksInv,
LEMMA StepLex ==
  ASSUME Untangled PROVE StacksInv /\ LexInv /\ [Next]_vars => LexInv'
<1> SUFFICES ASSUME StacksInv, LexInv, [Next]_vars PROVE LexInv'
  OBVIOUS
<1>1. CASE Load /\ UNCHANGED xsltVars
  BY <1>1, LoadLex
<1>2. CASE Transform /\ UNCHANGED sheetVars
  BY <1>2, TransformLex
<1>3. CASE UNCHANGED vars
  <2>1. UNCHANGED <<frames, error, run, toplevel, open>>
    BY <1>3 DEF vars, xsltVars, sheetVars, tables
  <2>2. Globals' = Globals
    BY <2>1 DEF Globals
  <2> QED BY <2>1, <2>2, Zenon DEF LexInv
<1> QED BY <1>1, <1>2, <1>3 DEF Next

\* and holds initially.
LEMMA FirstLex == XSLTInit => LexInv
<1> SUFFICES ASSUME XSLTInit PROVE LexInv
  OBVIOUS
<1>1. run = <<>> /\ error.right
  BY DEF XSLTInit, NoError
<1>2. Len(run) = 0
  BY <1>1
<1>3. Lex(frames, run, Globals)
  BY <1>2 DEF Lex
<1> QED BY <1>1, <1>3, Zenon DEF LexInv

\* Scopes decide what a lookup finds.
LEMMA LexLookups == StacksInv /\ LexInv => LookupsAreLexical
<1> SUFFICES ASSUME StacksInv, LexInv PROVE LookupsAreLexical
  OBVIOUS
<1>1. error.right
  BY Zenon DEF LexInv
<1>2. ASSUME Going, Act.kind \in Expressions, NEW x \in VarNames \ Act.pending PROVE Lexical(x)
  <2>1. /\ frames \in Seq(FrameSet) /\ Base(frames, run[1].kind, Globals) /\ Act \in CallSet
        /\ Well(frames, Top, Act, Top - Own(Act), Below, Globals)
    BY <1>2, LexTop, Going_, Zenon
  <2>2. Act.kind # "applied"
    BY <1>2 DEF Expressions
  <2>3. Scoped(frames, Top, Act.env, Act.pending)
    BY <2>1, <2>2, Zenon DEF Well, Sees
  <2>4. Act.env \in [VarNames -> Place]
    BY <2>1 DEF CallSet
  <2>5. x \in VarNames /\ x \notin Act.pending
    OBVIOUS
  <2>6. /\ Act.env[x] # NoVar => GetVar(x) = Act.env[x]
        /\ Act.env[x] = NoVar /\ x \notin Act.pending /\ GetVar(x) # NoVar
             => Declared(GetVar(x)).decl = "global"
        /\ run[1].kind = "main" /\ x \in Globals => GetVar(x) # NoVar
    BY <2>1, <2>3, <2>4, <2>5, LookupIs
  <2> QED BY <2>5, <2>6, Zenon DEF Lexical
<1> QED BY <1>1, <1>2, Zenon DEF LookupsAreLexical

\* Every call in progress of a transformation has, in the frames of xsltPushVarFrame
\* and xsltPopVarFrame below it, the scope that the nesting of the instructions gives
\* it, for every stylesheet in which each template declares what it is passed first.
THEOREM LexInvariance == ASSUME Untangled PROVE Spec => []LexInv
<1>1. XSLTInit => LexInv
  BY FirstLex
<1>2. StacksInv /\ LexInv /\ [Next]_vars => LexInv'
  BY StepLex
<1> QED BY <1>1, <1>2, Invariance, PTL DEF Spec

\* xsltGetVar finds the variable that the nesting of the instructions says, though
\* it looks through a stack of frames at run time, and the errors about variables
\* that are declared twice, not at all, or by themselves are right.
THEOREM LookupsLexical == ASSUME Untangled PROVE Spec => []LookupsAreLexical
<1>1. StacksInv /\ LexInv => LookupsAreLexical
  BY LexLookups
<1> QED BY <1>1, Invariance, LexInvariance, PTL
=============================================================================
