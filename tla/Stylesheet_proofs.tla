-------------------------- MODULE Stylesheet_proofs --------------------------
(* Proofs about module Stylesheet: import precedences, got by halving the      *)
(* distance between two bounds, order declarations as the tree of imports      *)
(* does; and the tables that keep one declaration of each name keep the one    *)
(* of the highest precedence.                                                  *)
(*                                                                             *)
(* The distance is a power of two that opening a sheet halves at most once,    *)
(* so no two units get the same precedence (Gap, Chained).  Every declaration  *)
(* read so far is of a sheet that is still being read or, in the tree of       *)
(* imports, turns off to the left of the next import of the innermost of them  *)
(* (Ongoing, Before).  Lower is brought into a form without sequences that are *)
(* cut from others (Within, Turn).                                             *)
EXTENDS XSLT_proofs

(* --------------------------------- types ---------------------------------- *)
Unit == Seq(Nat)
Hows == {"main", "import", "include"}
SheetSet == [doc : Nat, prec : Nat, low : Nat, how : Hows, seen : BOOLEAN, unit : Unit, imports : Nat]
Whats == TemplateDecls \cup Names \cup VarNames \cup [strip : BOOLEAN, test : Names \cup {"*"}]
DeclKinds == {"template", "named", "variable", "alias", "space"}
DeclSet == [kind : DeclKinds, what : Whats, unit : Unit, prec : Nat, doc : Nat]

(* ------------------------- the sheets being read --------------------------- *)
\* What is left of the distance between two bounds, halved k times.
Gap(k) == Power[Bits - k]

\* Unit u is inside v; or it turns off before v at place k.
Within(u, v) == Len(v) < Len(u) /\ \A j \in 1 .. Len(v) : u[j] = v[j]
Turn(u, v, k) ==
  k \in 1 .. Len(u) /\ k \in 1 .. Len(v) /\ u[k] < v[k] /\ \A j \in 1 .. k - 1 : u[j] = v[j]

\* s is the sheet that imports or includes t, or is around it.
Link(s, t, gap) ==
  IF t.how = "import"
  THEN t.unit = Append(s.unit, s.imports + 1) /\ s.prec - t.prec >= gap
  ELSE t.unit = s.unit /\ t.prec = s.prec
Around(s, t) ==
  \/ s.unit = t.unit /\ s.prec = t.prec
  \/ IsStrictPrefix(s.unit, t.unit) /\ s.prec > t.prec
Chained(op, gap) ==
  /\ \A k \in 1 .. Len(op) - 1 : Link(op[k], op[k + 1], gap)
  /\ \A j, k \in 1 .. Len(op) : j <= k => Around(op[j], op[k])
  /\ \A k \in 1 .. Len(op) : op[k].prec - op[k].low >= gap

\* Declaration d is of a sheet being read, or before all that s will import.
Ongoing(op, d) == \E k \in 1 .. Len(op) : d.unit = op[k].unit /\ d.prec = op[k].prec
Before(d, s) ==
  d.prec <= s.low /\ \E k \in Nat : Turn(d.unit, Append(s.unit, s.imports + 1), k)
Known(op, ds) ==
  op # <<>> => \A i \in 1 .. Len(ds) : Ongoing(op, ds[i]) \/ Before(ds[i], op[Len(op)])

\* Without late imports, nothing that has been read is of higher precedence.
Rising(op, ds) ==
  /\ \A i, j \in 1 .. Len(ds) : i <= j => ds[i].prec <= ds[j].prec
  /\ op # <<>> => \A i \in 1 .. Len(ds) : ds[i].prec <= op[Len(op)].prec

ImportsInv ==
  /\ opened \in 1 .. Bits + 1 /\ (opened = 1 \/ opened <= MaxSheets)
  /\ open \in Seq(SheetSet) /\ declared \in Seq(DeclSet)
  /\ Chained(open, Gap(opened - 1)) /\ Known(open, declared)
  /\ PrecedencesFollowImports
  /\ ~LateImports => Rising(open, declared)

(* -------------------------------- the tables ------------------------------- *)
\* Of declarations ds, those of x of a kind, and those of white space in x.
Of(ds, kind, x) == {i \in 1 .. Len(ds) : ds[i].kind = kind /\ ds[i].what = x}
OfSpace(ds, x) == {i \in 1 .. Len(ds) : ds[i].kind = "space" /\ ds[i].what.test = x}
IsLastOf(i, T) == i \in T /\ \A j \in T : j <= i

\* The table has the last declaration of every name of S.
Latest(ds, table, kind, S) ==
  /\ \A x \in DOMAIN table : /\ IsLastOf(table[x].at, Of(ds, kind, x))
                              /\ table[x].prec = ds[table[x].at].prec
  /\ \A x \in S : x \notin DOMAIN table => Of(ds, kind, x) = {}

LatestStrip(ds, x, strip, prec) ==
  \E i \in 1 .. Len(ds) : /\ IsLastOf(i, OfSpace(ds, x))
                          /\ strip = ds[i].what.strip /\ prec = ds[i].prec
LatestSpace(ds, all, prec, tokens) ==
  /\ \A x \in DOMAIN tokens : x # "*" /\ LatestStrip(ds, x, tokens[x].strip, tokens[x].prec)
  /\ \A x \in Names : x # "*" /\ x \notin DOMAIN tokens => OfSpace(ds, x) = {}
  /\ \/ OfSpace(ds, "*") = {} /\ all = FALSE /\ prec = 0
     \/ LatestStrip(ds, "*", all, prec)

TablesInv ==
  ~failed =>
    /\ Latest(declared, named, "named", Names) /\ Latest(declared, toplevel, "variable", VarNames)
    /\ Latest(declared, aliases, "alias", Names)
    /\ wsInfo = [stripAll |-> wsInfo.stripAll, wildcardPrec |-> wsInfo.wildcardPrec,
                 tokens |-> wsInfo.tokens]
    /\ LatestSpace(declared, wsInfo.stripAll, wsInfo.wildcardPrec, wsInfo.tokens)
(* ------------------------------ the order of units ------------------------- *)
LEMMA SameStart ==
  ASSUME NEW u \in Unit, NEW v \in Unit, NEW k \in Nat, k <= Len(u), k <= Len(v)
  PROVE  SubSeq(u, 1, k) = SubSeq(v, 1, k) <=> \A j \in 1 .. k : u[j] = v[j]
<1>1. /\ SubSeq(u, 1, k) \in Unit /\ Len(SubSeq(u, 1, k)) = k
      /\ \A j \in 1 .. k : SubSeq(u, 1, k)[j] = u[j]
  BY Fronts DEF Unit
<1>2. /\ SubSeq(v, 1, k) \in Unit /\ Len(SubSeq(v, 1, k)) = k
      /\ \A j \in 1 .. k : SubSeq(v, 1, k)[j] = v[j]
  BY Fronts DEF Unit
<1>3. ASSUME \A j \in 1 .. k : u[j] = v[j] PROVE SubSeq(u, 1, k) = SubSeq(v, 1, k)
  <2> DEFINE a == SubSeq(u, 1, k)
             b == SubSeq(v, 1, k)
  <2>1. a \in Seq(Nat) /\ b \in Seq(Nat) /\ Len(a) = k /\ Len(b) = k /\ \A j \in 1 .. k : a[j] = b[j]
    BY <1>1, <1>2, <1>3 DEF Unit
  <2> HIDE DEF a, b
  <2>2. a = b
    BY <2>1
  <2> QED BY <2>2 DEF a, b
<1> QED BY <1>1, <1>2, <1>3

LEMMA InsideIs ==
  ASSUME NEW u \in Unit, NEW v \in Unit
  PROVE  IsStrictPrefix(v, u) <=> Within(u, v)
<1>0. Len(u) \in Nat /\ Len(v) \in Nat /\ DOMAIN u = 1 .. Len(u) /\ DOMAIN v = 1 .. Len(v)
  BY DEF Unit
<1>1. ASSUME Len(v) <= Len(u)
      PROVE  SubSeq(v, 1, Len(v)) = SubSeq(u, 1, Len(v)) <=> \A j \in 1 .. Len(v) : v[j] = u[j]
  BY <1>0, <1>1, SameStart
<1>2. ASSUME Len(v) = Len(u), \A j \in 1 .. Len(v) : v[j] = u[j] PROVE u = v
  BY <1>2 DEF Unit
<1>3. ASSUME IsStrictPrefix(v, u) PROVE Within(u, v)
  <2>1. Len(v) <= Len(u) /\ u # v /\ SubSeq(v, 1, Len(v)) = SubSeq(u, 1, Len(v))
    BY <1>3 DEF IsStrictPrefix, IsPrefix
  <2>2. \A j \in 1 .. Len(v) : v[j] = u[j]
    BY <2>1, <1>1
  <2>3. Len(v) # Len(u)
    <3>1. SUFFICES ASSUME Len(v) = Len(u) PROVE FALSE
      OBVIOUS
    <3>2. u = v
      BY <3>1, <2>2, <1>2
    <3> QED BY <3>2, <2>1
  <2>4. Len(v) < Len(u)
    <3>1. Len(v) <= Len(u) /\ Len(v) \in Nat /\ Len(u) \in Nat
      BY <2>1, <1>0
    <3> QED BY <3>1, <2>3
  <2> QED BY <2>2, <2>4 DEF Within
<1>4. ASSUME Within(u, v) PROVE IsStrictPrefix(v, u)
  BY <1>0, <1>1, <1>4 DEF Within, IsStrictPrefix, IsPrefix
<1> QED BY <1>3, <1>4

LEMMA LowerIs ==
  ASSUME NEW u \in Unit, NEW v \in Unit
  PROVE  Lower(u, v) <=> Within(u, v) \/ \E k \in Nat : Turn(u, v, k)
<1>0. Len(u) \in Nat /\ Len(v) \in Nat /\ DOMAIN u = 1 .. Len(u) /\ DOMAIN v = 1 .. Len(v)
  BY DEF Unit
<1>1. ASSUME NEW k \in DOMAIN u \intersect DOMAIN v
      PROVE  k \in Nat /\ (SubSeq(u, 1, k - 1) = SubSeq(v, 1, k - 1) <=> \A j \in 1 .. k - 1 : u[j] = v[j])
  <2>1. k \in Nat /\ k - 1 \in Nat /\ k - 1 <= Len(u) /\ k - 1 <= Len(v)
    BY <1>0
  <2> QED BY <2>1, SameStart
<1>2. (\E k \in DOMAIN u \intersect DOMAIN v : SubSeq(u, 1, k - 1) = SubSeq(v, 1, k - 1) /\ u[k] < v[k])
         <=> \E k \in Nat : Turn(u, v, k)
  BY <1>0, <1>1 DEF Turn
<1> QED BY <1>2, InsideIs DEF Lower

\* A unit is not lower than itself or than a unit lower than it.
LEMMA LowerOneWay ==
  ASSUME NEW u \in Unit, NEW v \in Unit, Lower(u, v)
  PROVE  ~Lower(v, u) /\ u # v
<1>0. Len(u) \in Nat /\ Len(v) \in Nat /\ (\A j \in 1 .. Len(u) : u[j] \in Nat) /\ \A j \in 1 .. Len(v) : v[j] \in Nat
  BY DEF Unit
<1>1. ~(Within(u, v) /\ Within(v, u))
  BY <1>0 DEF Within
<1>2. ASSUME NEW k \in Nat, Turn(u, v, k) PROVE ~Within(v, u) /\ ~Within(u, v)
  BY <1>0, <1>2 DEF Within, Turn
<1>3. ASSUME NEW k \in Nat, Turn(v, u, k) PROVE ~Within(v, u) /\ ~Within(u, v)
  BY <1>0, <1>3 DEF Within, Turn
<1>4. ASSUME NEW k \in Nat, NEW l \in Nat, Turn(u, v, k), Turn(v, u, l) PROVE FALSE
  <2>1. k < l \/ l < k \/ k = l
    OBVIOUS
  <2> QED BY <2>1, <1>0, <1>4 DEF Turn
<1>5. u # v
  <2>1. ~Within(u, u) /\ \A k \in Nat : ~Turn(u, u, k)
    BY <1>0 DEF Within, Turn
  <2> QED BY <2>1, LowerIs
<1>6. Within(u, v) \/ \E k \in Nat : Turn(u, v, k)
  BY LowerIs
<1>7. ~(Within(v, u) \/ \E k \in Nat : Turn(v, u, k))
  BY <1>1, <1>2, <1>3, <1>4, <1>6
<1> QED BY <1>5, <1>7, LowerIs

LEMMA LowerChain ==
  ASSUME NEW u \in Unit, NEW v \in Unit, NEW w \in Unit, Lower(u, v), Lower(v, w)
  PROVE  Lower(u, w)
<1>0. /\ Len(u) \in Nat /\ Len(v) \in Nat /\ Len(w) \in Nat /\ \A j \in 1 .. Len(u) : u[j] \in Nat
      /\ (\A j \in 1 .. Len(v) : v[j] \in Nat) /\ \A j \in 1 .. Len(w) : w[j] \in Nat
  BY DEF Unit
<1>1. ASSUME Within(u, v), Within(v, w) PROVE Within(u, w)
  BY <1>0, <1>1 DEF Within
<1>2. ASSUME Within(u, v), NEW k \in Nat, Turn(v, w, k) PROVE Turn(u, w, k)
  BY <1>0, <1>2 DEF Within, Turn
<1>3. ASSUME NEW k \in Nat, Turn(u, v, k), Within(v, w) PROVE Within(u, w) \/ Turn(u, w, k)
  <2>1. k <= Len(w) \/ k > Len(w)
    BY <1>0
  <2>2. CASE k <= Len(w)
    BY <2>2, <1>0, <1>3 DEF Within, Turn
  <2>3. CASE k > Len(w)
    BY <2>3, <1>0, <1>3 DEF Within, Turn
  <2> QED BY <2>1, <2>2, <2>3
<1>4. ASSUME NEW k \in Nat, NEW l \in Nat, Turn(u, v, k), Turn(v, w, l)
      PROVE  \E m \in Nat : Turn(u, w, m)
  <2>1. CASE k <= l
    <3>1. Turn(u, w, k)
      BY <2>1, <1>0, <1>4 DEF Turn
    <3> QED BY <3>1
  <2>2. CASE l < k
    <3>1. Turn(u, w, l)
      BY <2>2, <1>0, <1>4 DEF Turn
    <3> QED BY <3>1
  <2> QED BY <2>1, <2>2
<1>5. Within(u, v) \/ \E k \in Nat : Turn(u, v, k)
  BY LowerIs
<1>6. Within(v, w) \/ \E k \in Nat : Turn(v, w, k)
  BY LowerIs
<1>7. Within(u, w) \/ \E k \in Nat : Turn(u, w, k)
  BY <1>1, <1>2, <1>3, <1>4, <1>5, <1>6
<1> QED BY <1>7, LowerIs

\* Of two units, one is lower.
LEMMA LowerEither ==
  ASSUME NEW u \in Unit, NEW v \in Unit, u # v
  PROVE  Lower(u, v) \/ Lower(v, u)
<1> DEFINE T == {k \in Nat : k \in 1 .. Len(u) /\ k \in 1 .. Len(v) /\ u[k] # v[k]}
<1>0. Len(u) \in Nat /\ Len(v) \in Nat /\ (\A j \in 1 .. Len(u) : u[j] \in Nat) /\ \A j \in 1 .. Len(v) : v[j] \in Nat
  BY DEF Unit
<1>1. CASE T = {}
  <2>1. \A k \in 1 .. Len(u) : k \in 1 .. Len(v) => u[k] = v[k]
    BY <1>1, <1>0
  <2>2. Len(u) # Len(v)
    <3>1. ASSUME Len(u) = Len(v) PROVE u = v
      BY <3>1, <2>1 DEF Unit
    <3> QED BY <3>1
  <2>3. Within(u, v) \/ Within(v, u)
    BY <2>1, <2>2, <1>0 DEF Within
  <2> QED BY <2>3, LowerIs
<1>2. CASE T # {}
  <2>1. T \in SUBSET Nat
    OBVIOUS
  <2> HIDE DEF T
  <2>2. PICK k \in T : \A l \in T : k <= l
    BY <2>1, <1>2, LeastNumber
  <2>3. k \in Nat /\ k \in 1 .. Len(u) /\ k \in 1 .. Len(v) /\ u[k] # v[k]
    BY <2>2 DEF T
  <2>4. \A j \in 1 .. k - 1 : u[j] = v[j]
    <3> TAKE j \in 1 .. k - 1
    <3>1. j \in Nat /\ j \in 1 .. Len(u) /\ j \in 1 .. Len(v) /\ ~(k <= j)
      BY <2>3, <1>0
    <3>2. j \notin T
      BY <3>1, <2>2
    <3> QED BY <3>1, <3>2 DEF T
  <2>5. Turn(u, v, k) \/ Turn(v, u, k)
    BY <2>3, <2>4, <1>0 DEF Turn
  <2> QED BY <2>3, <2>5, LowerIs
<1> QED BY <1>1, <1>2

\* An import is lower than the sheet that imports it and than its later imports.
LEMMA LowerImport ==
  ASSUME NEW u \in Unit, NEW m \in Nat, NEW n \in Nat
  PROVE  /\ Append(u, m) \in Unit /\ IsStrictPrefix(u, Append(u, m)) /\ Lower(Append(u, m), u)
         /\ m < n => Lower(Append(u, m), Append(u, n))
<1> DEFINE a == Append(u, m)
           b == Append(u, n)
<1>1. /\ a \in Unit /\ b \in Unit /\ Len(a) = Len(u) + 1 /\ Len(b) = Len(u) + 1 /\ Len(u) \in Nat
      /\ a[Len(u) + 1] = m /\ b[Len(u) + 1] = n
      /\ \A j \in 1 .. Len(u) : a[j] = u[j] /\ b[j] = u[j]
  BY Appending DEF Unit
<1> HIDE DEF a, b
<1>2. Within(a, u)
  BY <1>1 DEF Within
<1>3. m < n => Turn(a, b, Len(u) + 1)
  BY <1>1 DEF Turn
<1>4. m < n => \E k \in Nat : Turn(a, b, k)
  BY <1>1, <1>3
<1> QED BY <1>1, <1>2, <1>4, LowerIs, InsideIs DEF a, b

(* ------------------------------ powers of two ------------------------------ *)
\* f is the powers of two up to the n-th.
Powers(f, n) ==
  /\ f \in [0 .. n -> Nat \ {0}] /\ f[0] = 1
  /\ \A k \in 1 .. n : f[k] = 2 * f[k - 1]

LEMMA PowersExist == \A n \in Nat : \E f : Powers(f, n)
<1> DEFINE T == {n \in Nat : ~\E f : Powers(f, n)}
<1>1. SUFFICES ASSUME T # {} PROVE FALSE
  OBVIOUS
<1>2. PICK n \in T : \A m \in T : n <= m
  <2>1. T \in SUBSET Nat
    OBVIOUS
  <2> HIDE DEF T
  <2> QED BY <1>1, <2>1, LeastNumber
<1>3. n # 0
  <2>1. Powers([k \in 0 .. 0 |-> 1], 0)
    BY DEF Powers
  <2>2. \E f : Powers(f, 0)
    BY <2>1
  <2> QED BY <2>2
<1>4. n \in Nat /\ n - 1 \in Nat /\ n - 1 \notin T
  BY <1>2, <1>3
<1>5. PICK f : Powers(f, n - 1)
  BY <1>4
<1> DEFINE g == [k \in 0 .. n |-> IF k = n THEN 2 * f[n - 1] ELSE f[k]]
<1>6. f \in [0 .. n - 1 -> Nat \ {0}] /\ f[0] = 1 /\ \A k \in 1 .. n - 1 : f[k] = 2 * f[k - 1]
  BY <1>5 DEF Powers
<1>7. g \in [0 .. n -> Nat \ {0}]
  <2> SUFFICES ASSUME NEW k \in 0 .. n PROVE (IF k = n THEN 2 * f[n - 1] ELSE f[k]) \in Nat \ {0}
    OBVIOUS
  <2>1. CASE k = n
    <3>1. f[n - 1] \in Nat \ {0}
      BY <1>3, <1>4, <1>6
    <3> QED BY <2>1, <3>1
  <2>2. CASE k # n
    <3>1. k \in 0 .. n - 1
      BY <2>2, <1>4
    <3> QED BY <2>2, <3>1, <1>6
  <2> QED BY <2>1, <2>2
<1>8. g[0] = 1
  BY <1>3, <1>4, <1>6
<1>9. ASSUME NEW k \in 1 .. n PROVE g[k] = 2 * g[k - 1]
  <2>1. k \in 0 .. n /\ k - 1 \in 0 .. n /\ k - 1 # n
    BY <1>4
  <2>2. g[k - 1] = f[k - 1]
    BY <2>1
  <2>3. CASE k = n
    BY <2>1, <2>2, <2>3
  <2>4. CASE k # n
    <3>1. k \in 1 .. n - 1
      BY <2>4, <1>4
    <3> QED BY <2>1, <2>2, <2>4, <3>1, <1>6
  <2> QED BY <2>3, <2>4
<1>10. Powers(g, n)
  <2> HIDE DEF g
  <2> QED BY <1>7, <1>8, <1>9 DEF Powers
<1> QED BY <1>2, <1>10

LEMMA PowerIs == Powers(Power, Bits)
<1> DEFINE Is(f) == f = [k \in 0 .. Bits |-> IF k = 0 THEN 1 ELSE 2 * f[k - 1]]
<1>1. PICK f : Powers(f, Bits)
  BY Precision, PowersExist
<1>2. Is(f)
  <2>1. f \in [0 .. Bits -> Nat \ {0}] /\ f[0] = 1 /\ \A k \in 1 .. Bits : f[k] = 2 * f[k - 1]
    BY <1>1 DEF Powers
  <2>2. \A k \in 0 .. Bits : f[k] = IF k = 0 THEN 1 ELSE 2 * f[k - 1]
    BY <2>1, Precision
  <2> QED BY <2>1, <2>2
<1>3. Power = CHOOSE g : Is(g)
  BY DEF Power
<1> HIDE DEF Is
<1>4. Is(Power)
  BY <1>2, <1>3
<1>5. Power = [k \in 0 .. Bits |-> IF k = 0 THEN 1 ELSE 2 * Power[k - 1]]
  BY <1>4 DEF Is
<1>6. Power[0] = 1
  BY <1>5, Precision
<1>7. \A k \in 1 .. Bits : Power[k] = 2 * Power[k - 1]
  <2> TAKE k \in 1 .. Bits
  <2>1. k \in 0 .. Bits /\ k # 0
    BY Precision
  <2> QED BY <2>1, <1>5
<1>8. \A k \in 0 .. Bits : Power[k] \in Nat \ {0}
  <2> DEFINE T == {k \in Nat : k <= Bits /\ Power[k] \notin Nat \ {0}}
  <2>1. SUFFICES ASSUME T # {} PROVE FALSE
    BY Precision
  <2>2. PICK n \in T : \A m \in T : n <= m
    <3>1. T \in SUBSET Nat
      OBVIOUS
    <3> HIDE DEF T
    <3> QED BY <2>1, <3>1, LeastNumber
  <2>3. n \in Nat /\ n <= Bits /\ Power[n] \notin Nat \ {0}
    BY <2>2
  <2>4. n # 0
    BY <2>3, <1>6
  <2>5. n - 1 \in Nat /\ n - 1 <= Bits /\ n - 1 \notin T
    BY <2>2, <2>3, <2>4, Precision
  <2>6. Power[n - 1] \in Nat \ {0} /\ Power[n] = 2 * Power[n - 1]
    BY <2>3, <2>4, <2>5, <1>7, Precision
  <2> QED BY <2>3, <2>6
<1>9. Power \in [0 .. Bits -> Nat \ {0}]
  BY <1>5, <1>8
<1> QED BY <1>6, <1>7, <1>9 DEF Powers

\* Gaps are positive, and each is twice the next.
LEMMA Gaps ==
  ASSUME NEW k \in 0 .. Bits
  PROVE  /\ Gap(k) \in Nat /\ Gap(k) >= 1
         /\ k < Bits => Gap(k) = 2 * Gap(k + 1)
<1>1. /\ Power \in [0 .. Bits -> Nat \ {0}] /\ \A j \in 1 .. Bits : Power[j] = 2 * Power[j - 1]
  BY PowerIs DEF Powers
<1>2. Bits - k \in 0 .. Bits /\ Bits \in Nat
  BY Precision
<1>3. Power[Bits - k] \in Nat \ {0}
  BY <1>1, <1>2
<1>4. k < Bits => Power[Bits - k] = 2 * Power[Bits - (k + 1)]
  <2> SUFFICES ASSUME k < Bits PROVE Power[Bits - k] = 2 * Power[Bits - (k + 1)]
    OBVIOUS
  <2>1. Bits - k \in 1 .. Bits /\ (Bits - k) - 1 = Bits - (k + 1)
    BY <1>2
  <2> QED BY <2>1, <1>1
<1> QED BY <1>3, <1>4 DEF Gap

(* ------------------------------ stacks of sheets --------------------------- *)
LEMMA SheetIs ==
  ASSUME NEW s \in SheetSet
  PROVE  /\ s.doc \in Nat /\ s.prec \in Nat /\ s.low \in Nat /\ s.how \in Hows /\ s.seen \in BOOLEAN
         /\ s.unit \in Unit /\ s.imports \in Nat
BY DEF SheetSet

\* s2 differs from s at most in what has been seen.
SheetAlike(s, s2) ==
  /\ s2 \in SheetSet /\ s2.prec = s.prec /\ s2.low = s.low /\ s2.how = s.how
  /\ s2.unit = s.unit /\ s2.imports = s.imports
SameSheets(op, op2) ==
  /\ op2 \in Seq(SheetSet) /\ Len(op2) = Len(op) /\ op2 # <<>>
  /\ \A k \in 1 .. Len(op) : SheetAlike(op[k], op2[k])
Grown(op, t, op2) ==
  /\ op2 \in Seq(SheetSet) /\ Len(op2) = Len(op) + 1 /\ op2[Len(op) + 1] = t
  /\ \A k \in 1 .. Len(op) : op2[k] = op[k]

LEMMA SeenIs ==
  ASSUME NEW s \in SheetSet, NEW v \in BOOLEAN
  PROVE  SheetAlike(s, [s EXCEPT !.seen = v])
BY DEF SheetAlike, SheetSet

LEMMA SeenAlike ==
  ASSUME NEW op \in Seq(SheetSet), op # <<>>, NEW v \in BOOLEAN
  PROVE  SameSheets(op, ReplaceAt(op, Len(op), [Last(op) EXCEPT !.seen = v]))
<1>1. Len(op) \in Nat /\ Len(op) > 0 /\ op[Len(op)] \in SheetSet /\ \A k \in 1 .. Len(op) : op[k] \in SheetSet
  OBVIOUS
<1> DEFINE x == [Last(op) EXCEPT !.seen = v]
           op2 == ReplaceAt(op, Len(op), x)
<1>2. SheetAlike(op[Len(op)], x)
  BY <1>1, SeenIs DEF Last
<1>3. x \in SheetSet
  BY <1>2 DEF SheetAlike
<1> HIDE DEF x
<1>4. op2 = Replaced(op, x)
  BY DEF Replaced
<1>5. /\ op2 \in Seq(SheetSet) /\ Len(op2) = Len(op) /\ op2[Len(op)] = x
      /\ \A k \in 1 .. Len(op) - 1 : op2[k] = op[k]
  BY <1>1, <1>3, <1>4, Replacing
<1>6. \A s \in SheetSet : SheetAlike(s, s)
  BY DEF SheetAlike
<1> HIDE DEF op2
<1>7. \A k \in 1 .. Len(op) : SheetAlike(op[k], op2[k])
  <2> TAKE k \in 1 .. Len(op)
  <2>1. k = Len(op) \/ k \in 1 .. Len(op) - 1
    BY <1>1
  <2> QED BY <2>1, <1>1, <1>2, <1>5, <1>6
<1>8. op2 # <<>>
  BY <1>1, <1>5
<1> QED BY <1>5, <1>7, <1>8 DEF SameSheets, op2, x

LEMMA ChainAlike ==
  ASSUME NEW op \in Seq(SheetSet), NEW op2, SameSheets(op, op2), NEW gap, Chained(op, gap)
  PROVE  Chained(op2, gap)
<1>1. /\ Len(op2) = Len(op) /\ Len(op) \in Nat
      /\ \A k \in 1 .. Len(op) : /\ op2[k].prec = op[k].prec /\ op2[k].low = op[k].low /\ op2[k].how = op[k].how
                                 /\ op2[k].unit = op[k].unit /\ op2[k].imports = op[k].imports
  BY DEF SameSheets, SheetAlike
<1>2. ASSUME NEW k \in 1 .. Len(op) - 1 PROVE Link(op2[k], op2[k + 1], gap)
  <2>1. k \in 1 .. Len(op) /\ k + 1 \in 1 .. Len(op)
    BY <1>1
  <2>2. Link(op[k], op[k + 1], gap)
    BY DEF Chained
  <2> QED BY <2>1, <2>2, <1>1 DEF Link
<1>3. ASSUME NEW j \in 1 .. Len(op), NEW k \in 1 .. Len(op), j <= k PROVE Around(op2[j], op2[k])
  <2>1. Around(op[j], op[k])
    BY <1>3 DEF Chained
  <2> QED BY <2>1, <1>1 DEF Around
<1>4. \A k \in 1 .. Len(op) : op2[k].prec - op2[k].low >= gap
  BY <1>1 DEF Chained
<1> QED BY <1>1, <1>2, <1>3, <1>4 DEF Chained

LEMMA KnownAlike ==
  ASSUME NEW op \in Seq(SheetSet), NEW op2, SameSheets(op, op2), NEW d, op # <<>>
  PROVE  /\ Ongoing(op2, d) <=> Ongoing(op, d)
         /\ Before(d, op2[Len(op2)]) <=> Before(d, op[Len(op)])
         /\ op2[Len(op2)].prec = op[Len(op)].prec
<1>1. Len(op) \in Nat /\ Len(op) > 0 /\ Len(op2) = Len(op) /\ Len(op) \in 1 .. Len(op)
  BY DEF SameSheets
<1>2. \A k \in 1 .. Len(op) : /\ op2[k].prec = op[k].prec /\ op2[k].low = op[k].low
                               /\ op2[k].unit = op[k].unit /\ op2[k].imports = op[k].imports
  BY DEF SameSheets, SheetAlike
<1>3. Ongoing(op2, d) <=> Ongoing(op, d)
  BY <1>1, <1>2 DEF Ongoing
<1>4. Before(d, op2[Len(op2)]) <=> Before(d, op[Len(op)])
  BY <1>1, <1>2 DEF Before
<1> QED BY <1>1, <1>2, <1>3, <1>4

(* What is around s is around the sheet it imports or includes.              *)
LEMMA AroundInner ==
  ASSUME NEW r \in SheetSet, NEW s \in SheetSet, NEW t \in SheetSet, NEW gap \in Nat, gap >= 1,
         Around(r, s), Link(s, t, gap)
  PROVE  Around(r, t)
<1>1. /\ r.unit \in Unit /\ s.unit \in Unit /\ t.unit \in Unit /\ r.prec \in Nat /\ s.prec \in Nat /\ t.prec \in Nat
      /\ s.imports + 1 \in Nat
  BY SheetIs
<1>2. CASE t.how # "import"
  BY <1>2 DEF Link, Around
<1>3. CASE t.how = "import"
  <2>1. t.unit = Append(s.unit, s.imports + 1) /\ s.prec > t.prec
    BY <1>1, <1>3 DEF Link
  <2>2. IsStrictPrefix(s.unit, t.unit)
    BY <2>1, <1>1, LowerImport
  <2>3. IsStrictPrefix(r.unit, t.unit)
    <3>1. CASE r.unit = s.unit
      BY <3>1, <2>2
    <3>2. CASE IsStrictPrefix(r.unit, s.unit)
      <4>1. Within(s.unit, r.unit) /\ Within(t.unit, s.unit)
        BY <3>2, <2>2, <1>1, InsideIs
      <4>2. Len(r.unit) \in Nat /\ Len(s.unit) \in Nat /\ Len(t.unit) \in Nat
        BY <1>1 DEF Unit
      <4>3. Within(t.unit, r.unit)
        BY <4>1, <4>2 DEF Within
      <4> QED BY <4>3, <1>1, InsideIs
    <3> QED BY <3>1, <3>2 DEF Around
  <2>4. r.prec > t.prec
    BY <2>1, <1>1 DEF Around
  <2> QED BY <2>3, <2>4 DEF Around
<1> QED BY <1>2, <1>3

LEMMA ChainPush ==
  ASSUME NEW op \in Seq(SheetSet), op # <<>>, NEW gap \in Nat, NEW less \in Nat, less >= 1, less <= gap,
         Chained(op, gap), NEW t \in SheetSet, Link(op[Len(op)], t, less), t.prec - t.low >= less,
         NEW op2, Grown(op, t, op2)
  PROVE  Chained(op2, less)
<1> DEFINE n == Len(op)
<1>1. n \in Nat /\ n \in 1 .. n /\ \A k \in 1 .. n : op[k] \in SheetSet
  OBVIOUS
<1>2. Len(op2) = n + 1 /\ op2[n + 1] = t /\ \A k \in 1 .. n : op2[k] = op[k]
  BY DEF Grown
<1>3. /\ \A k \in 1 .. n - 1 : Link(op[k], op[k + 1], gap)
      /\ \A j, k \in 1 .. n : j <= k => Around(op[j], op[k])
      /\ \A k \in 1 .. n : op[k].prec - op[k].low >= gap
  BY DEF Chained
<1>4. Link(op[n], t, less)
  OBVIOUS
<1> HIDE DEF n
<1>5. ASSUME NEW k \in 1 .. n PROVE Link(op2[k], op2[k + 1], less)
  <2>1. CASE k = n
    BY <2>1, <1>1, <1>2, <1>4
  <2>2. CASE k # n
    <3>1. k \in 1 .. n - 1 /\ k + 1 \in 1 .. n
      BY <2>2, <1>1
    <3>2. op[k].prec \in Nat /\ op[k + 1].prec \in Nat
      BY <3>1, <1>1, SheetIs
    <3>3. Link(op[k], op[k + 1], gap)
      BY <3>1, <1>3
    <3>4. Link(op[k], op[k + 1], less)
      BY <3>2, <3>3 DEF Link
    <3>5. op2[k] = op[k] /\ op2[k + 1] = op[k + 1]
      BY <3>1, <1>2
    <3> QED BY <3>4, <3>5
  <2> QED BY <2>1, <2>2
<1>6. ASSUME NEW j \in 1 .. n + 1, NEW k \in 1 .. n + 1, j <= k PROVE Around(op2[j], op2[k])
  <2>1. CASE k \in 1 .. n
    <3>1. j \in 1 .. n
      BY <2>1, <1>1, <1>6
    <3> QED BY <2>1, <3>1, <1>2, <1>3, <1>6
  <2>2. CASE k = n + 1 /\ j = n + 1
    BY <2>2, <1>2 DEF Around
  <2>3. CASE k = n + 1 /\ j \in 1 .. n
    <3>1. Around(op[j], op[n])
      BY <2>3, <1>1, <1>3
    <3>2. Around(op[j], t)
      BY <2>3, <3>1, <1>1, <1>4, AroundInner
    <3> QED BY <2>3, <3>2, <1>2
  <2>4. (k \in 1 .. n \/ k = n + 1) /\ (j \in 1 .. n \/ j = n + 1)
    BY <1>1
  <2> QED BY <2>1, <2>2, <2>3, <2>4, <1>1, <1>6
<1>7. ASSUME NEW k \in 1 .. n + 1 PROVE op2[k].prec - op2[k].low >= less
  <2>1. CASE k = n + 1
    BY <2>1, <1>2
  <2>2. CASE k # n + 1
    <3>1. k \in 1 .. n
      BY <2>2, <1>1
    <3>2. op[k].prec \in Nat /\ op[k].low \in Nat /\ op[k].prec - op[k].low >= gap
      BY <3>1, <1>1, <1>3, SheetIs
    <3> QED BY <3>1, <3>2, <1>2
  <2> QED BY <2>1, <2>2
<1>8. (n + 1) - 1 = n
  BY <1>1
<1> QED BY <1>2, <1>5, <1>6, <1>7, <1>8 DEF Chained

\* The innermost sheet ends, and the one around it, now x, goes on.
Ended(op, x, op2) ==
  /\ op2 \in Seq(SheetSet) /\ Len(op2) = Len(op) - 1 /\ op2[Len(op) - 1] = x
  /\ \A k \in 1 .. Len(op) - 2 : op2[k] = op[k]

LEMMA ChainPop ==
  ASSUME NEW op \in Seq(SheetSet), Len(op) > 1, NEW gap \in Nat, Chained(op, gap), NEW x \in SheetSet,
         x.unit = op[Len(op) - 1].unit, x.prec = op[Len(op) - 1].prec, x.how = op[Len(op) - 1].how,
         x.prec - x.low >= gap, NEW op2, Ended(op, x, op2)
  PROVE  Chained(op2, gap)
<1> DEFINE n == Len(op) - 1
<1>1. n \in Nat /\ n \in 1 .. n /\ (\A k \in 1 .. n + 1 : op[k] \in SheetSet) /\ Len(op) = n + 1
  OBVIOUS
<1>2. Len(op2) = n /\ op2[n] = x /\ \A k \in 1 .. n - 1 : op2[k] = op[k]
  BY <1>1 DEF Ended
<1>3. /\ \A k \in 1 .. n : Link(op[k], op[k + 1], gap)
      /\ \A j, k \in 1 .. n + 1 : j <= k => Around(op[j], op[k])
      /\ \A k \in 1 .. n + 1 : op[k].prec - op[k].low >= gap
  BY <1>1 DEF Chained
<1>4. x.unit = op[n].unit /\ x.prec = op[n].prec /\ x.how = op[n].how
  OBVIOUS
<1> HIDE DEF n
<1>5. \A k \in 1 .. n : op2[k].unit = op[k].unit /\ op2[k].prec = op[k].prec /\ op2[k].how = op[k].how
  <2> TAKE k \in 1 .. n
  <2>1. k = n \/ k \in 1 .. n - 1
    BY <1>1
  <2> QED BY <2>1, <1>2, <1>4
<1>6. ASSUME NEW k \in 1 .. n - 1 PROVE Link(op2[k], op2[k + 1], gap)
  <2>1. k \in 1 .. n /\ k + 1 \in 1 .. n /\ op2[k] = op[k]
    BY <1>1, <1>2
  <2>2. Link(op[k], op[k + 1], gap)
    BY <2>1, <1>3
  <2> QED BY <2>1, <2>2, <1>5 DEF Link
<1>7. ASSUME NEW j \in 1 .. n, NEW k \in 1 .. n, j <= k PROVE Around(op2[j], op2[k])
  <2>1. j \in 1 .. n + 1 /\ k \in 1 .. n + 1
    BY <1>1
  <2>2. Around(op[j], op[k])
    BY <2>1, <1>3, <1>7
  <2> QED BY <2>2, <1>5 DEF Around
<1>8. ASSUME NEW k \in 1 .. n PROVE op2[k].prec - op2[k].low >= gap
  <2>1. CASE k = n
    BY <2>1, <1>2
  <2>2. CASE k # n
    <3>1. k \in 1 .. n - 1 /\ k \in 1 .. n + 1
      BY <2>2, <1>1
    <3> QED BY <3>1, <1>2, <1>3
  <2> QED BY <2>1, <2>2
<1> QED BY <1>2, <1>6, <1>7, <1>8 DEF Chained

(* --------------------- what is known of declarations ----------------------- *)
LEMMA AppendedUnit ==
  ASSUME NEW v \in Unit, NEW m \in Nat
  PROVE  /\ Append(v, m) \in Unit /\ Len(Append(v, m)) = Len(v) + 1 /\ Append(v, m)[Len(v) + 1] = m
         /\ Len(v) \in Nat /\ \A j \in 1 .. Len(v) : Append(v, m)[j] = v[j] /\ v[j] \in Nat
BY DEF Unit

LEMMA TurnDeeper ==
  ASSUME NEW u \in Unit, NEW v \in Unit, NEW m \in Nat, NEW k \in Nat, Turn(u, v, k)
  PROVE  Turn(u, Append(v, m), k)
<1> DEFINE a == Append(v, m)
<1>1. Len(a) = Len(v) + 1 /\ Len(v) \in Nat /\ \A j \in 1 .. Len(v) : a[j] = v[j]
  BY AppendedUnit
<1> HIDE DEF a
<1>2. Turn(u, a, k)
  BY <1>1 DEF Turn
<1> QED BY <1>2 DEF a

\* What turns off before an import of v's p-th import turns off before its next.
LEMMA TurnNext ==
  ASSUME NEW u \in Unit, NEW v \in Unit, NEW p \in Nat, NEW m \in Nat, NEW k \in Nat,
         Turn(u, Append(Append(v, p), m), k)
  PROVE  \E l \in Nat : Turn(u, Append(v, p + 1), l)
<1> DEFINE a == Append(v, p)
           b == Append(a, m)
           c == Append(v, p + 1)
           n == Len(v)
<1>0. p + 1 \in Nat /\ a \in Unit
  BY AppendedUnit
<1>1. /\ n \in Nat /\ Len(a) = n + 1 /\ a[n + 1] = p /\ \A j \in 1 .. n : a[j] = v[j]
  BY AppendedUnit
<1>2. /\ Len(b) = Len(a) + 1 /\ b[Len(a) + 1] = m /\ \A j \in 1 .. Len(a) : b[j] = a[j]
  BY <1>0, AppendedUnit
<1>3. /\ Len(c) = n + 1 /\ c[n + 1] = p + 1 /\ \A j \in 1 .. n : c[j] = v[j]
  BY <1>0, AppendedUnit
<1>4. Turn(u, b, k) /\ Len(u) \in Nat /\ \A j \in 1 .. Len(u) : u[j] \in Nat
  BY DEF Unit
<1> HIDE DEF a, b, c, n
<1>5. b[n + 1] = p /\ Len(b) = n + 2 /\ \A j \in 1 .. n : b[j] = c[j]
  <2>1. \A j \in 1 .. n + 1 : b[j] = a[j]
    BY <1>1, <1>2
  <2> QED BY <2>1, <1>1, <1>2, <1>3
<1>6. k \in 1 .. Len(u) /\ k \in 1 .. n + 2 /\ u[k] < b[k] /\ \A j \in 1 .. k - 1 : u[j] = b[j]
  BY <1>4, <1>5 DEF Turn
<1>7. ASSUME k <= n PROVE \E l \in Nat : Turn(u, c, l)
  <2>1. Turn(u, c, k)
    <3>1. k \in 1 .. n /\ k \in 1 .. n + 1 /\ \A j \in 1 .. k - 1 : j \in 1 .. n
      BY <1>1, <1>6, <1>7
    <3> QED BY <3>1, <1>3, <1>5, <1>6 DEF Turn
  <2> QED BY <2>1
<1>8. ASSUME k > n PROVE \E l \in Nat : Turn(u, c, l)
  <2>1. k = n + 1 \/ n + 1 \in 1 .. k - 1
    BY <1>1, <1>4, <1>6, <1>8
  <2>2. n + 1 \in 1 .. Len(u) /\ u[n + 1] <= p
    <3>1. n + 1 \in 1 .. Len(u)
      BY <1>1, <1>4, <1>6, <1>8
    <3>2. u[n + 1] \in Nat
      BY <3>1, <1>4
    <3>3. CASE k = n + 1
      BY <3>1, <3>2, <3>3, <1>5, <1>6
    <3>4. CASE n + 1 \in 1 .. k - 1
      BY <3>1, <3>2, <3>4, <1>5, <1>6
    <3> QED BY <2>1, <3>3, <3>4
  <2>3. u[n + 1] \in Nat /\ u[n + 1] < c[n + 1]
    BY <2>2, <1>3, <1>4
  <2>4. \A j \in 1 .. n : j \in 1 .. k - 1 /\ u[j] = c[j]
    BY <1>1, <1>5, <1>6, <1>8
  <2>5. Turn(u, c, n + 1)
    BY <2>2, <2>3, <2>4, <1>1, <1>3 DEF Turn
  <2> QED BY <2>5, <1>1
<1> QED BY <1>1, <1>6, <1>7, <1>8 DEF c

LEMMA TurnLower ==
  ASSUME NEW u \in Unit, NEW v \in Unit, NEW m \in Nat, NEW k \in Nat, Turn(u, Append(v, m), k)
  PROVE  Lower(u, v)
<1>1. Append(v, m) \in Unit /\ Lower(Append(v, m), v)
  BY LowerImport
<1>2. Lower(u, Append(v, m))
  BY <1>1, LowerIs
<1> QED BY <1>1, <1>2, LowerChain

\* A declaration with the unit and precedence of the innermost sheet takes its place.
LEMMA PairsRight ==
  ASSUME NEW op \in Seq(SheetSet), op # <<>>, NEW gap \in Nat, gap >= 1, Chained(op, gap),
         NEW d, d.unit \in Unit, d.prec \in Nat, Ongoing(op, d) \/ Before(d, op[Len(op)]),
         NEW e, e.unit = op[Len(op)].unit, e.prec = op[Len(op)].prec
  PROVE  /\ Lower(d.unit, e.unit) <=> d.prec < e.prec
         /\ Lower(e.unit, d.unit) <=> e.prec < d.prec
<1> DEFINE s == op[Len(op)]
<1>1. s \in SheetSet /\ Len(op) \in 1 .. Len(op) /\ \A k \in 1 .. Len(op) : op[k] \in SheetSet /\ k <= Len(op)
  OBVIOUS
<1>2. s.unit \in Unit /\ s.prec \in Nat /\ s.low \in Nat /\ s.imports + 1 \in Nat
  BY <1>1, SheetIs
<1>3. s.prec - s.low >= gap
  BY <1>1 DEF Chained
<1>4. e.unit = s.unit /\ e.prec = s.prec
  OBVIOUS
<1>5. CASE Ongoing(op, d)
  <2>1. PICK k \in 1 .. Len(op) : d.unit = op[k].unit /\ d.prec = op[k].prec
    BY <1>5 DEF Ongoing
  <2>2. Around(op[k], s)
    BY <1>1 DEF Chained
  <2> HIDE DEF s
  <2>3. CASE d.unit = s.unit /\ d.prec = s.prec
    <3>1. ~Lower(s.unit, s.unit)
      BY <1>2, LowerOneWay
    <3> QED BY <3>1, <2>3, <1>2, <1>4
  <2>4. CASE IsStrictPrefix(d.unit, s.unit) /\ d.prec > s.prec
    <3>1. Lower(s.unit, d.unit)
      BY <2>4 DEF Lower
    <3>2. ~Lower(d.unit, s.unit)
      BY <3>1, <1>2, LowerOneWay
    <3> QED BY <3>1, <3>2, <2>4, <1>2, <1>4
  <2> QED BY <2>1, <2>2, <2>3, <2>4 DEF Around
<1>6. CASE Before(d, s)
  <2> HIDE DEF s
  <2>1. PICK k \in Nat : Turn(d.unit, Append(s.unit, s.imports + 1), k)
    BY <1>6 DEF Before
  <2>2. d.prec <= s.low
    BY <1>6 DEF Before
  <2>3. Lower(d.unit, s.unit)
    BY <2>1, <1>2, TurnLower
  <2>4. ~Lower(s.unit, d.unit)
    BY <2>3, <1>2, LowerOneWay
  <2>5. d.prec < s.prec
    BY <2>2, <1>2, <1>3
  <2> QED BY <2>3, <2>4, <2>5, <1>2, <1>4
<1> QED BY <1>5, <1>6

\* ... also when a sheet is imported or included,
LEMMA KnownPush ==
  ASSUME NEW op \in Seq(SheetSet), op # <<>>, NEW d, d.unit \in Unit,
         NEW t \in SheetSet, t.low = op[Len(op)].low,
         \/ t.unit = Append(op[Len(op)].unit, op[Len(op)].imports + 1)
         \/ t.unit = op[Len(op)].unit /\ t.imports = op[Len(op)].imports,
         NEW op2, Grown(op, t, op2), Ongoing(op, d) \/ Before(d, op[Len(op)])
  PROVE  Ongoing(op2, d) \/ Before(d, op2[Len(op2)])
<1> DEFINE s == op[Len(op)]
<1>1. /\ s \in SheetSet /\ Len(op) \in Nat /\ Len(op2) = Len(op) + 1 /\ op2[Len(op2)] = t
      /\ \A k \in 1 .. Len(op) : op2[k] = op[k]
  BY DEF Grown
<1>2. s.unit \in Unit /\ s.imports + 1 \in Nat /\ t.unit \in Unit /\ t.imports + 1 \in Nat
  BY <1>1, SheetIs
<1>3. /\ t.low = s.low
      /\ \/ t.unit = Append(s.unit, s.imports + 1)
         \/ t.unit = s.unit /\ t.imports = s.imports
  OBVIOUS
<1>4. CASE Ongoing(op, d)
  <2>1. PICK k \in 1 .. Len(op) : d.unit = op[k].unit /\ d.prec = op[k].prec
    BY <1>4 DEF Ongoing
  <2>2. k \in 1 .. Len(op2) /\ op2[k] = op[k]
    BY <1>1
  <2> QED BY <2>1, <2>2 DEF Ongoing
<1>5. CASE Before(d, s)
  <2> HIDE DEF s
  <2>1. PICK k \in Nat : Turn(d.unit, Append(s.unit, s.imports + 1), k)
    BY <1>5 DEF Before
  <2>2. d.prec <= s.low
    BY <1>5 DEF Before
  <2>3. CASE t.unit = Append(s.unit, s.imports + 1)
    <3>1. Turn(d.unit, Append(t.unit, t.imports + 1), k)
      BY <2>1, <2>3, <1>2, TurnDeeper
    <3> QED BY <3>1, <2>2, <1>1, <1>3 DEF Before
  <2>4. CASE t.unit = s.unit /\ t.imports = s.imports
    BY <2>1, <2>2, <2>4, <1>1, <1>3 DEF Before
  <2> QED BY <2>3, <2>4, <1>3
<1> QED BY <1>4, <1>5

\* ... and when one ends.
LEMMA KnownPop ==
  ASSUME NEW op \in Seq(SheetSet), Len(op) > 1, NEW gap \in Nat, gap >= 1, Chained(op, gap), NEW x \in SheetSet,
         x.unit = op[Len(op) - 1].unit, x.prec = op[Len(op) - 1].prec,
         IF op[Len(op)].how = "import"
         THEN x.low = op[Len(op)].prec /\ x.imports = op[Len(op) - 1].imports + 1
         ELSE x.low = op[Len(op)].low /\ x.imports = op[Len(op)].imports,
         NEW op2, Ended(op, x, op2), NEW d, d.unit \in Unit, d.prec \in Nat,
         Ongoing(op, d) \/ Before(d, op[Len(op)])
  PROVE  Ongoing(op2, d) \/ Before(d, op2[Len(op2)])
<1> DEFINE n == Len(op) - 1
           s == op[n]
           t == op[n + 1]
<1>1. /\ n \in Nat /\ n \in 1 .. n /\ Len(op) = n + 1 /\ s \in SheetSet /\ t \in SheetSet
  OBVIOUS
<1>2. Len(op2) = n /\ op2[n] = x /\ \A k \in 1 .. n - 1 : op2[k] = op[k]
  BY <1>1 DEF Ended
<1>3. /\ s.unit \in Unit /\ s.imports \in Nat /\ s.imports + 1 \in Nat /\ t.unit \in Unit /\ t.imports + 1 \in Nat
      /\ t.prec \in Nat /\ t.low \in Nat
  BY <1>1, SheetIs, SMTT(30)
<1>4. Link(s, t, gap) /\ t.prec - t.low >= gap
  BY <1>1 DEF Chained
<1>5. /\ x.unit = s.unit /\ x.prec = s.prec
      /\ IF t.how = "import" THEN x.low = t.prec /\ x.imports = s.imports + 1
         ELSE x.low = t.low /\ x.imports = t.imports
  BY <1>1
<1>6. Ongoing(op, d) \/ Before(d, t)
  BY <1>1
<1>7. ASSUME Ongoing(op, d) PROVE Ongoing(op2, d) \/ (d.unit = t.unit /\ d.prec = t.prec)
  <2>1. PICK k \in 1 .. n + 1 : d.unit = op[k].unit /\ d.prec = op[k].prec
    BY <1>1, <1>7 DEF Ongoing
  <2>2. CASE k = n + 1
    BY <2>1, <2>2
  <2>3. CASE k = n
    <3>1. d.unit = op2[n].unit /\ d.prec = op2[n].prec
      BY <2>1, <2>3, <1>2, <1>5
    <3> QED BY <3>1, <1>1, <1>2 DEF Ongoing
  <2>4. CASE k \in 1 .. n - 1
    <3>1. k \in 1 .. n /\ d.unit = op2[k].unit /\ d.prec = op2[k].prec
      BY <2>1, <2>4, <1>1, <1>2
    <3> QED BY <3>1, <1>2 DEF Ongoing
  <2>5. k = n + 1 \/ k = n \/ k \in 1 .. n - 1
    <3>1. n \in Nat /\ k \in 1 .. n + 1
      BY <1>1
    <3> HIDE DEF n
    <3> QED BY <3>1
  <2> QED BY <2>2, <2>3, <2>4, <2>5
<1> HIDE DEF n, s, t
<1>8. CASE t.how = "import"
  <2>1. t.unit = Append(s.unit, s.imports + 1) /\ x.low = t.prec /\ x.imports = s.imports + 1
    BY <1>4, <1>5, <1>8 DEF Link
  <2>2. ASSUME d.unit = t.unit, d.prec = t.prec PROVE Before(d, x)
    <3> DEFINE a == Append(s.unit, s.imports + 1)
               b == Append(s.unit, (s.imports + 1) + 1)
    <3>1. /\ Len(a) = Len(s.unit) + 1 /\ a[Len(s.unit) + 1] = s.imports + 1 /\ Len(s.unit) \in Nat
          /\ \A j \in 1 .. Len(s.unit) : a[j] = s.unit[j]
      BY <1>3, AppendedUnit
    <3>2. /\ Len(b) = Len(s.unit) + 1 /\ b[Len(s.unit) + 1] = (s.imports + 1) + 1
          /\ \A j \in 1 .. Len(s.unit) : b[j] = s.unit[j]
      <4>1. (s.imports + 1) + 1 \in Nat
        BY <1>3
      <4> QED BY <4>1, <1>3, AppendedUnit
    <3> HIDE DEF a, b
    <3>3. Turn(a, b, Len(s.unit) + 1)
      <4>1. s.imports + 1 < (s.imports + 1) + 1
        BY <1>3
      <4> DEFINE m == Len(s.unit) + 1
      <4>2. m \in Nat /\ m \in 1 .. Len(a) /\ m \in 1 .. Len(b) /\ \A j \in 1 .. m - 1 : a[j] = b[j]
        BY <3>1, <3>2
      <4>3. a[m] < b[m]
        BY <3>1, <3>2, <4>1
      <4> HIDE DEF m
      <4>4. Turn(a, b, m)
        BY <4>2, <4>3 DEF Turn
      <4> QED BY <4>4 DEF m
    <3>4. Turn(d.unit, Append(x.unit, x.imports + 1), Len(s.unit) + 1)
      BY <3>3, <2>1, <2>2, <1>5 DEF a, b
    <3>5. d.prec <= x.low
      BY <2>1, <2>2, <1>3
    <3>6. Len(s.unit) + 1 \in Nat
      BY <3>1
    <3> QED BY <3>4, <3>5, <3>6 DEF Before
  <2>3. ASSUME Before(d, t) PROVE Before(d, x)
    <3>1. PICK k \in Nat : Turn(d.unit, Append(t.unit, t.imports + 1), k)
      BY <2>3 DEF Before
    <3>2. d.prec <= t.low
      BY <2>3 DEF Before
    <3>3. \E l \in Nat : Turn(d.unit, Append(s.unit, (s.imports + 1) + 1), l)
      BY <3>1, <2>1, <1>3, TurnNext
    <3>4. d.prec <= x.low
      BY <3>2, <2>1, <1>3, <1>4
    <3> QED BY <3>3, <3>4, <2>1, <1>5 DEF Before
  <2> QED BY <2>2, <2>3, <1>2, <1>6, <1>7
<1>9. CASE t.how # "import"
  <2>1. t.unit = s.unit /\ t.prec = s.prec /\ x.low = t.low /\ x.imports = t.imports
    BY <1>4, <1>5, <1>9 DEF Link
  <2>2. ASSUME d.unit = t.unit, d.prec = t.prec PROVE Ongoing(op2, d)
    BY <2>1, <2>2, <1>1, <1>2, <1>5 DEF Ongoing
  <2>3. ASSUME Before(d, t) PROVE Before(d, x)
    BY <2>1, <2>3, <1>5 DEF Before
  <2> QED BY <2>2, <2>3, <1>2, <1>6, <1>7
<1> QED BY <1>8, <1>9

(* -------------------------------- the steps -------------------------------- *)
LEMMA DeclarationIs ==
  ASSUME NEW d \in DeclSet
  PROVE  d.unit \in Unit /\ d.prec \in Nat /\ d.kind \in DeclKinds /\ d.doc \in Nat
BY DEF DeclSet

LEMMA DocIs ==
  ASSUME NEW s \in SheetSet, NEW n \in Nat
  PROVE  /\ [s EXCEPT !.doc = n] \in SheetSet /\ [s EXCEPT !.doc = n].how = s.how
         /\ [s EXCEPT !.doc = n].prec = s.prec /\ [s EXCEPT !.doc = n].low = s.low
         /\ [s EXCEPT !.doc = n].unit = s.unit /\ [s EXCEPT !.doc = n].imports = s.imports
BY DEF SheetSet

\* t is what an import or include in s opens.
OpenedFrom(s, how, t) ==
  /\ t \in SheetSet /\ t.how = how /\ t.low = s.low
  /\ how = "import" => t.unit = Append(s.unit, s.imports + 1) /\ t.prec = (s.prec + s.low) \div 2
  /\ how = "include" => t.unit = s.unit /\ t.prec = s.prec /\ t.imports = s.imports

LEMMA OpenedIs ==
  ASSUME NEW s \in SheetSet, NEW how \in {"import", "include"}, NEW n \in Nat
  PROVE  OpenedFrom(s, how, [Opened(s, how) EXCEPT !.doc = n])
<1>1. s.prec \in Nat /\ s.low \in Nat /\ s.unit \in Unit /\ s.imports \in Nat /\ s.imports + 1 \in Nat
  BY SheetIs
<1>2. (s.prec + s.low) \div 2 \in Nat
  BY <1>1
<1>3. Append(s.unit, s.imports + 1) \in Unit
  BY <1>1, AppendedUnit
<1>4. OpenedFrom(s, how, Opened(s, how))
  <2>1. CASE how = "import"
    <3> DEFINE p == (s.prec + s.low) \div 2
               u == Append(s.unit, s.imports + 1)
               o == [doc |-> 0, prec |-> p, low |-> s.low, how |-> how, seen |-> FALSE, unit |-> u, imports |-> 0]
    <3>1. Opened(s, how) = o
      BY <2>1 DEF Opened, ChildPrecedence
    <3>2. p \in Nat /\ u \in Unit
      BY <1>2, <1>3
    <3> HIDE DEF p, u
    <3>3. o \in SheetSet /\ o.how = how /\ o.low = s.low /\ o.unit = u /\ o.prec = p
      BY <3>2, <2>1, <1>1 DEF SheetSet, Hows
    <3> HIDE DEF o
    <3> QED BY <3>1, <3>3, <2>1 DEF OpenedFrom, p, u
  <2>2. CASE how = "include"
    <3> DEFINE o == [doc |-> 0, prec |-> s.prec, low |-> s.low, how |-> how, seen |-> FALSE,
                     unit |-> s.unit, imports |-> s.imports]
    <3>1. Opened(s, how) = o
      BY <2>2 DEF Opened
    <3>2. /\ o \in SheetSet /\ o.how = how /\ o.low = s.low /\ o.unit = s.unit /\ o.prec = s.prec
          /\ o.imports = s.imports
      BY <2>2, <1>1 DEF SheetSet, Hows
    <3> HIDE DEF o
    <3> QED BY <3>1, <3>2, <2>2 DEF OpenedFrom
  <2> QED BY <2>1, <2>2
<1> DEFINE o == Opened(s, how)
<1>5. OpenedFrom(s, how, o) /\ o \in SheetSet
  BY <1>4 DEF OpenedFrom
<1> HIDE DEF o
<1>6. OpenedFrom(s, how, [o EXCEPT !.doc = n])
  BY <1>5, DocIs DEF OpenedFrom
<1> QED BY <1>6 DEF o

\* Between two bounds, half way leaves half the gap on both sides.
LEMMA HalfWay ==
  ASSUME NEW p \in Nat, NEW l \in Nat, NEW g \in Nat, p - l >= 2 * g
  PROVE  p - (p + l) \div 2 >= g /\ (p + l) \div 2 - l >= g /\ (p + l) \div 2 >= l
OBVIOUS

LEMMA GrownIs ==
  ASSUME NEW op \in Seq(SheetSet), NEW t \in SheetSet
  PROVE  Grown(op, t, Append(op, t))
BY Appending DEF Grown

\* A sheet is opened.
LEMMA NestKeeps ==
  ASSUME ImportsInv, NEW how \in {"import", "include"}, Nest(how),
         how = "import" => LateImports \/ \A i \in DOMAIN declared :
                             ~Lower(Append(Sheet.unit, Sheet.imports + 1), declared[i].unit)
  PROVE  ImportsInv'
<1> DEFINE s0 == Sheet
           op == ReplaceAt(open, Len(open), [Sheet EXCEPT !.seen = how = "include" \/ @])
           t == [Opened(Sheet, how) EXCEPT !.doc = opened + 1]
           s == op[Len(op)]
           big == Gap(opened - 1)
           small == Gap(opened)
<1>1. /\ open # <<>> /\ opened < MaxSheets /\ opened' = opened + 1 /\ open' = Append(op, t)
      /\ declared' = declared
  BY DEF Nest, Reading
<1>2. /\ opened \in 1 .. Bits + 1 /\ open \in Seq(SheetSet) /\ declared \in Seq(DeclSet)
      /\ Chained(open, big) /\ Known(open, declared) /\ PrecedencesFollowImports
      /\ ~LateImports => Rising(open, declared)
  BY DEF ImportsInv
<1>3. opened \in 0 .. Bits /\ opened - 1 \in 0 .. Bits /\ opened \in Nat /\ (opened + 1) - 1 = opened /\ opened - 1 < Bits
  BY <1>1, <1>2, Precision
<1>4. big = 2 * small /\ small \in Nat /\ small >= 1 /\ big \in Nat /\ big >= 1
  <2>1. (opened - 1) + 1 = opened
    BY <1>3
  <2> QED BY <1>2, <1>3, <2>1, Gaps
<1>5. Sheet \in SheetSet /\ Sheet = open[Len(open)]
  <2>1. Sheet = open[Len(open)]
    BY DEF Sheet, Last
  <2> QED BY <2>1, <1>1, <1>2
<1>6. SameSheets(open, op)
  <2>1. (how = "include" \/ Sheet.seen) \in BOOLEAN
    OBVIOUS
  <2>2. SameSheets(open, ReplaceAt(open, Len(open), [Last(open) EXCEPT !.seen = (how = "include" \/ Sheet.seen)]))
    BY <2>1, <1>1, <1>2, SeenAlike
  <2>3. [Last(open) EXCEPT !.seen = (how = "include" \/ Sheet.seen)] = [Sheet EXCEPT !.seen = how = "include" \/ @]
    BY DEF Sheet
  <2> QED BY <2>2, <2>3
<1>7. /\ t \in SheetSet /\ t.how = how /\ t.low = Sheet.low
      /\ how = "import" => t.unit = Append(Sheet.unit, Sheet.imports + 1) /\ t.prec = (Sheet.prec + Sheet.low) \div 2
      /\ how = "include" => t.unit = Sheet.unit /\ t.prec = Sheet.prec /\ t.imports = Sheet.imports
  <2>1. opened + 1 \in Nat
    BY <1>3
  <2>2. OpenedFrom(Sheet, how, t)
    BY <2>1, <1>5, OpenedIs
  <2> HIDE DEF t
  <2> QED BY <2>2 DEF OpenedFrom
<1> HIDE DEF op, t, big, small
<1>8. /\ op \in Seq(SheetSet) /\ op # <<>> /\ Len(op) = Len(open) /\ Len(open) \in 1 .. Len(open) /\ s \in SheetSet
      /\ SheetAlike(open[Len(open)], s)
  <2>1. Len(open) \in Nat /\ Len(open) > 0
    BY <1>1, <1>2
  <2> QED BY <2>1, <1>6 DEF SameSheets
<1>9. /\ s.prec = Sheet.prec /\ s.low = Sheet.low /\ s.unit = Sheet.unit /\ s.imports = Sheet.imports
  BY <1>5, <1>8 DEF SheetAlike
<1>10. Sheet.prec - Sheet.low >= big /\ Sheet.prec \in Nat /\ Sheet.low \in Nat
  BY <1>2, <1>5, <1>8, SheetIs DEF Chained
<1>11. Chained(op, big)
  BY <1>2, <1>6, ChainAlike
<1>12. Link(s, t, small) /\ t.prec - t.low >= small /\ t.low <= t.prec
  <2>1. CASE how = "import"
    <3>1. /\ Sheet.prec - (Sheet.prec + Sheet.low) \div 2 >= small
          /\ (Sheet.prec + Sheet.low) \div 2 - Sheet.low >= small
          /\ (Sheet.prec + Sheet.low) \div 2 >= Sheet.low
      BY <1>4, <1>10, HalfWay
    <3> QED BY <3>1, <2>1, <1>7, <1>9 DEF Link
  <2>2. CASE how = "include"
    <3>1. Sheet.prec - Sheet.low >= small /\ Sheet.low <= Sheet.prec
      BY <1>4, <1>10
    <3> QED BY <3>1, <2>2, <1>7, <1>9 DEF Link
  <2> QED BY <2>1, <2>2
<1>13. Grown(op, t, open') /\ open' \in Seq(SheetSet) /\ open' # <<>> /\ open'[Len(open')] = t
  <2>1. Grown(op, t, open')
    BY <1>1, <1>7, <1>8, GrownIs
  <2>2. Len(op) \in Nat /\ Len(op) > 0
    BY <1>8
  <2> QED BY <2>1, <2>2 DEF Grown
<1>14. Chained(open', small)
  <2>1. small <= big
    BY <1>4
  <2> QED BY <2>1, <1>4, <1>7, <1>8, <1>11, <1>12, <1>13, ChainPush
<1>15. \A i \in 1 .. Len(declared) : declared[i].unit \in Unit /\ declared[i].prec \in Nat
  <2> TAKE i \in 1 .. Len(declared)
  <2>1. declared[i] \in DeclSet
    BY <1>2
  <2> QED BY <2>1, DeclarationIs
<1>16. Known(open', declared)
  <2>1. ASSUME NEW i \in 1 .. Len(declared) PROVE Ongoing(open', declared[i]) \/ Before(declared[i], open'[Len(open')])
    <3>1. Ongoing(open, declared[i]) \/ Before(declared[i], open[Len(open)])
      BY <1>1, <1>2 DEF Known
    <3>2. Ongoing(op, declared[i]) \/ Before(declared[i], op[Len(op)])
      BY <3>1, <1>1, <1>2, <1>6, KnownAlike
    <3>3. \/ t.unit = Append(s.unit, s.imports + 1)
          \/ t.unit = s.unit /\ t.imports = s.imports
      BY <1>7, <1>9
    <3>4. t.low = s.low
      BY <1>7, <1>9
    <3> QED BY <3>2, <3>3, <3>4, <1>7, <1>8, <1>13, <1>15, KnownPush
  <2> QED BY <2>1 DEF Known
<1>17. ~LateImports => Rising(open', declared)
  <2> SUFFICES ASSUME ~LateImports PROVE Rising(open', declared)
    OBVIOUS
  <2>1. /\ \A i, j \in 1 .. Len(declared) : i <= j => declared[i].prec <= declared[j].prec
        /\ \A i \in 1 .. Len(declared) : declared[i].prec <= Sheet.prec
    BY <1>1, <1>2, <1>5 DEF Rising
  <2>2. ASSUME NEW i \in 1 .. Len(declared) PROVE declared[i].prec <= t.prec
    <3>1. CASE how = "include"
      BY <3>1, <2>1, <1>7
    <3>2. CASE how = "import"
      <4>1. Ongoing(open, declared[i]) \/ Before(declared[i], open[Len(open)])
        BY <1>1, <1>2 DEF Known
      <4>2. CASE Before(declared[i], open[Len(open)])
        <5>1. declared[i].prec <= Sheet.low
          BY <4>2, <1>5 DEF Before
        <5>2. t.prec \in Nat /\ Sheet.low <= t.prec
          BY <1>7, <1>12, SheetIs
        <5> QED BY <5>1, <5>2, <1>10, <1>15
      <4>3. CASE Ongoing(open, declared[i])
        <5>1. PICK k \in 1 .. Len(open) : declared[i].unit = open[k].unit
          BY <4>3 DEF Ongoing
        <5>2. k <= Len(open)
          BY <1>8
        <5>3. Around(open[k], Sheet)
          BY <5>2, <1>2, <1>5, <1>8 DEF Chained
        <5>4. Sheet.unit \in Unit /\ open[k].unit \in Unit /\ Sheet.imports + 1 \in Nat
          <6>1. open[k] \in SheetSet
            BY <1>2
          <6> QED BY <6>1, <1>5, SheetIs
        <5>5. Append(Sheet.unit, Sheet.imports + 1) \in Unit /\ Lower(Append(Sheet.unit, Sheet.imports + 1), Sheet.unit)
          BY <5>4, LowerImport
        <5>6. open[k].unit = Sheet.unit \/ Lower(Sheet.unit, open[k].unit)
          BY <5>3 DEF Around, Lower
        <5>7. Lower(Append(Sheet.unit, Sheet.imports + 1), declared[i].unit)
          BY <5>1, <5>4, <5>5, <5>6, LowerChain
        <5>8. i \in DOMAIN declared
          BY <1>2
        <5> QED BY <5>7, <5>8, <3>2
      <4> QED BY <4>1, <4>2, <4>3
    <3> QED BY <3>1, <3>2
  <2> QED BY <2>1, <2>2, <1>13 DEF Rising
<1>18. PrecedencesFollowImports'
  BY <1>1, <1>2 DEF PrecedencesFollowImports
<1>19. opened' \in 1 .. Bits + 1 /\ opened' <= MaxSheets /\ Gap(opened' - 1) = small
  <2>1. opened' - 1 = opened /\ opened' <= MaxSheets /\ opened' \in 1 .. Bits + 1
    BY <1>1, <1>3, Precision
  <2> QED BY <2>1, <1>3 DEF small
<1> QED BY <1>1, <1>2, <1>13, <1>14, <1>16, <1>17, <1>18, <1>19 DEF ImportsInv

\* s with other bounds: low is l, and m imports are counted.
Lowered(s, l, m, x) ==
  /\ x \in SheetSet /\ x.prec = s.prec /\ x.unit = s.unit /\ x.how = s.how
  /\ x.low = l /\ x.imports = m

LEMMA LowIs ==
  ASSUME NEW s \in SheetSet, NEW l \in Nat, NEW m \in Nat
  PROVE  Lowered(s, l, m, [s EXCEPT !.low = l, !.imports = m])
BY DEF SheetSet, Lowered

\* g is f with another last sheet x.
Turned(f, x, g) ==
  /\ g \in Seq(SheetSet) /\ Len(g) = Len(f) /\ g[Len(f)] = x
  /\ \A k \in 1 .. Len(f) - 1 : g[k] = f[k]

LEMMA SheetReplaced ==
  ASSUME NEW f \in Seq(SheetSet), Len(f) > 0, NEW x \in SheetSet, NEW g, g = Replaced(f, x)
  PROVE  Turned(f, x, g)
<1>1. g = [f EXCEPT ![Len(f)] = x]
  BY DEF Replaced, ReplaceAt
<1> QED BY <1>1 DEF Turned

LEMMA EndedOf ==
  ASSUME NEW op \in Seq(SheetSet), NEW r \in Seq(SheetSet), Len(r) > 0, Len(op) = Len(r) + 1,
         \A k \in 1 .. Len(r) : r[k] = op[k], NEW x \in SheetSet, NEW g, g = Replaced(r, x)
  PROVE  Ended(op, x, g)
<1>1. Turned(r, x, g)
  BY SheetReplaced
<1>2. Len(r) = Len(op) - 1 /\ Len(r) - 1 = Len(op) - 2 /\ \A k \in 1 .. Len(r) - 1 : k \in 1 .. Len(r)
  OBVIOUS
<1> QED BY <1>1, <1>2 DEF Ended, Turned

LEMMA EndedIs ==
  ASSUME NEW op \in Seq(SheetSet), Len(op) > 1, NEW x \in SheetSet
  PROVE  /\ Ended(op, x, ReplaceAt(Front(op), Len(Front(op)), x))
         /\ Last(Front(op)) = op[Len(op) - 1] /\ Front(op) # <<>>
<1>1. PICK r : r = Front(op)
  OBVIOUS
<1>2. PICK g : g = Replaced(r, x)
  OBVIOUS
<1>3. Len(op) - 1 \in 0 .. Len(op) /\ Len(op) \in Nat
  OBVIOUS
<1>4. r \in Seq(SheetSet) /\ Len(r) = Len(op) - 1 /\ \A k \in 1 .. Len(op) - 1 : r[k] = op[k]
  BY <1>1, <1>3, Fronts DEF Front
<1>5. Len(r) > 0 /\ Len(op) = Len(r) + 1 /\ \A k \in 1 .. Len(r) : r[k] = op[k]
  BY <1>3, <1>4
<1>6. Ended(op, x, g)
  BY <1>2, <1>4, <1>5, EndedOf
<1>7. Last(r) = op[Len(op) - 1] /\ r # <<>>
  BY <1>3, <1>4, <1>5 DEF Last
<1> QED BY <1>1, <1>2, <1>6, <1>7 DEF Replaced

\* The innermost sheet ends.
LEMMA EndOfSheetKeeps ==
  ASSUME ImportsInv, EndOfSheet PROVE ImportsInv'
<1> DEFINE gap == Gap(opened - 1)
           n == Len(open)
           t == Sheet
           s == open[n - 1]
           x == IF t.how = "import"
                THEN [Last(Front(open)) EXCEPT !.low = t.prec, !.imports = @ + 1]
                ELSE [Last(Front(open)) EXCEPT !.low = t.low, !.imports = t.imports]
<1>1. /\ open # <<>> /\ UNCHANGED <<opened, declared>>
      /\ open' = IF Front(open) = <<>> THEN <<>> ELSE ReplaceAt(Front(open), Len(Front(open)), x)
  BY DEF EndOfSheet, Reading
<1>2. /\ opened \in 1 .. Bits + 1 /\ (opened = 1 \/ opened <= MaxSheets)
      /\ open \in Seq(SheetSet) /\ declared \in Seq(DeclSet)
      /\ Chained(open, gap) /\ Known(open, declared) /\ PrecedencesFollowImports
      /\ ~LateImports => Rising(open, declared)
  BY DEF ImportsInv
<1>3. gap \in Nat /\ gap >= 1
  <2>1. opened - 1 \in 0 .. Bits
    BY <1>2, Precision
  <2> QED BY <2>1, Gaps
<1> HIDE DEF gap
<1>4. opened' \in 1 .. Bits + 1 /\ (opened' = 1 \/ opened' <= MaxSheets) /\ declared' \in Seq(DeclSet)
      /\ Gap(opened' - 1) = gap
  BY <1>1, <1>2 DEF gap
<1>5. PrecedencesFollowImports'
  BY <1>1, <1>2 DEF PrecedencesFollowImports
<1>6. n \in Nat /\ n > 0 /\ t = open[n] /\ t \in SheetSet
  BY <1>1, <1>2 DEF Sheet, Last
<1>7. CASE n = 1
  <2>1. Front(open) = <<>>
    <3>1. 0 \in 0 .. Len(open) /\ n - 1 = 0
      BY <1>7
    <3>2. Len(SubSeq(open, 1, 0)) = 0 /\ SubSeq(open, 1, 0) \in Seq(SheetSet)
      BY <3>1, <1>2, Fronts
    <3>3. Front(open) = SubSeq(open, 1, 0)
      BY <3>1 DEF Front
    <3>4. SubSeq(open, 1, 0) = <<>>
      <4> HIDE DEF n, t, s, x
      <4> QED BY <3>2, Z3
    <3> QED BY <3>3, <3>4
  <2>2. open' = <<>>
    BY <2>1, <1>1
  <2>3. open' \in Seq(SheetSet) /\ Len(open') = 0
    BY <2>2
  <2>4. Chained(open', gap)
    BY <2>3 DEF Chained
  <2>5. Known(open', declared')
    BY <2>2 DEF Known
  <2>6. ~LateImports => Rising(open', declared')
    BY <2>2, <1>1, <1>2 DEF Rising
  <2> QED BY <2>3, <2>4, <2>5, <2>6, <1>4, <1>5 DEF ImportsInv
<1>8. CASE n > 1
  <2>1. s \in SheetSet /\ n - 1 \in Nat /\ n - 1 \in 1 .. n - 1
    BY <1>2, <1>6, <1>8
  <2>2. Last(Front(open)) = s /\ Front(open) # <<>>
    BY <2>1, <1>2, <1>8, EndedIs
  <2>3. /\ s.prec \in Nat /\ s.imports \in Nat /\ s.imports + 1 \in Nat /\ t.prec \in Nat /\ t.low \in Nat
        /\ t.imports \in Nat
    BY <2>1, <1>6, SheetIs
  <2>4. /\ x \in SheetSet /\ x.unit = s.unit /\ x.prec = s.prec /\ x.how = s.how
        /\ IF t.how = "import" THEN x.low = t.prec /\ x.imports = s.imports + 1
           ELSE x.low = t.low /\ x.imports = t.imports
    <3>1. CASE t.how = "import"
      <4>1. x = [s EXCEPT !.low = t.prec, !.imports = s.imports + 1]
        BY <3>1, <2>2
      <4> HIDE DEF x, s, t
      <4>2. Lowered(s, t.prec, s.imports + 1, x)
        BY <4>1, <2>1, <2>3, LowIs
      <4> QED BY <4>2, <3>1 DEF Lowered
    <3>2. CASE t.how # "import"
      <4>1. x = [s EXCEPT !.low = t.low, !.imports = t.imports]
        BY <3>2, <2>2
      <4> HIDE DEF x, s, t
      <4>2. Lowered(s, t.low, t.imports, x)
        BY <4>1, <2>1, <2>3, LowIs
      <4> QED BY <4>2, <3>2 DEF Lowered
    <3> QED BY <3>1, <3>2
  <2>5. open' = ReplaceAt(Front(open), Len(Front(open)), x)
    BY <2>2, <1>1
  <2> HIDE DEF x
  <2>6. Ended(open, x, open')
    BY <2>4, <2>5, <1>2, <1>8, EndedIs
  <2>7. Link(s, t, gap) /\ t.prec - t.low >= gap
    <3>1. n - 1 \in 1 .. Len(open) - 1 /\ (n - 1) + 1 = n /\ n \in 1 .. Len(open)
      BY <1>6, <1>8
    <3>2. Link(open[n - 1], open[(n - 1) + 1], gap) /\ open[n].prec - open[n].low >= gap
      BY <3>1, <1>2 DEF Chained
    <3> QED BY <3>1, <3>2, <1>6
  <2>8. x.prec - x.low >= gap /\ t.prec <= x.prec
    <3>1. CASE t.how = "import"
      BY <3>1, <2>3, <2>4, <2>7, <1>3 DEF Link
    <3>2. CASE t.how # "import"
      BY <3>2, <2>3, <2>4, <2>7, <1>3 DEF Link
    <3> QED BY <3>1, <3>2
  <2> HIDE DEF s, t
  <2>9. open[Len(open)] = t /\ open[Len(open) - 1] = s
    BY <1>6 DEF s
  <2>10. Chained(open', gap)
    BY <2>4, <2>6, <2>8, <2>9, <1>2, <1>3, <1>8, ChainPop
  <2>11. open' \in Seq(SheetSet) /\ open'[Len(open')] = x
    BY <2>6 DEF Ended
  <2>12. Known(open', declared')
    <3>1. ASSUME NEW i \in 1 .. Len(declared)
          PROVE  Ongoing(open', declared[i]) \/ Before(declared[i], open'[Len(open')])
      <4>1. Ongoing(open, declared[i]) \/ Before(declared[i], open[Len(open)])
        BY <1>1, <1>2 DEF Known
      <4>2. declared[i] \in DeclSet
        BY <1>2
      <4>3. declared[i].unit \in Unit /\ declared[i].prec \in Nat
        BY <4>2, DeclarationIs
      <4> QED BY <4>1, <4>3, <2>4, <2>6, <2>9, <1>2, <1>3, <1>8, KnownPop
    <3> QED BY <3>1, <1>1 DEF Known
  <2>13. ~LateImports => Rising(open', declared')
    <3> SUFFICES ASSUME ~LateImports PROVE Rising(open', declared')
      OBVIOUS
    <3>1. /\ \A i, j \in 1 .. Len(declared) : i <= j => declared[i].prec <= declared[j].prec
          /\ \A i \in 1 .. Len(declared) : declared[i].prec <= t.prec
      BY <2>9, <1>1, <1>2 DEF Rising
    <3>2. ASSUME NEW i \in 1 .. Len(declared) PROVE declared[i].prec <= x.prec
      <4>1. declared[i] \in DeclSet
        BY <1>2
      <4>2. declared[i].prec \in Nat /\ x.prec \in Nat
        BY <4>1, <2>4, DeclarationIs, SheetIs
      <4> QED BY <4>2, <3>1, <2>3, <2>8
    <3> QED BY <3>1, <3>2, <2>11, <1>1 DEF Rising
  <2> QED BY <2>10, <2>11, <2>12, <2>13, <1>4, <1>5 DEF ImportsInv
<1> QED BY <1>6, <1>7, <1>8

\* Something is declared.
LEMMA DeclareKeeps ==
  ASSUME ImportsInv, NEW kind \in DeclKinds, NEW what \in Whats, Declare(kind, what)
  PROVE  ImportsInv'
<1> DEFINE gap == Gap(opened - 1)
           m == Len(declared)
           s == open[Len(open)]
           e == [kind |-> kind, what |-> what, unit |-> Sheet.unit, prec |-> Sheet.prec, doc |-> Sheet.doc]
<1>1. /\ open # <<>> /\ UNCHANGED opened /\ declared' = Append(declared, e)
      /\ open' = ReplaceAt(open, Len(open), [Sheet EXCEPT !.seen = TRUE])
  BY DEF Declare, Reading
<1>2. /\ opened \in 1 .. Bits + 1 /\ (opened = 1 \/ opened <= MaxSheets)
      /\ open \in Seq(SheetSet) /\ declared \in Seq(DeclSet)
      /\ Chained(open, gap) /\ Known(open, declared) /\ PrecedencesFollowImports
      /\ ~LateImports => Rising(open, declared)
  BY DEF ImportsInv
<1>3. gap \in Nat /\ gap >= 1
  <2>1. opened - 1 \in 0 .. Bits
    BY <1>2, Precision
  <2> QED BY <2>1, Gaps
<1>4. Sheet = s /\ s \in SheetSet /\ Len(open) \in 1 .. Len(open)
  BY <1>1, <1>2 DEF Sheet, Last
<1>5. e \in DeclSet /\ e.unit = s.unit /\ e.prec = s.prec
  <2>1. Sheet.unit \in Unit /\ Sheet.prec \in Nat /\ Sheet.doc \in Nat
    BY <1>4, SheetIs
  <2> QED BY <2>1, <1>4 DEF DeclSet
<1> HIDE DEF e, gap
<1>6. /\ declared' \in Seq(DeclSet) /\ Len(declared') = m + 1 /\ declared'[m + 1] = e /\ m \in Nat
      /\ \A i \in 1 .. m : declared'[i] = declared[i]
  BY <1>1, <1>2, <1>5, Appending
<1>7. SameSheets(open, open')
  <2>1. open' = ReplaceAt(open, Len(open), [Last(open) EXCEPT !.seen = TRUE])
    BY <1>1 DEF Sheet
  <2> QED BY <2>1, <1>1, <1>2, SeenAlike
<1> HIDE DEF m, s
<1>8. \A i \in 1 .. m : /\ declared[i].unit \in Unit /\ declared[i].prec \in Nat
                        /\ Ongoing(open, declared[i]) \/ Before(declared[i], s)
  <2> TAKE i \in 1 .. m
  <2>1. declared[i] \in DeclSet
    BY <1>2 DEF m
  <2>2. Ongoing(open, declared[i]) \/ Before(declared[i], s)
    BY <1>1, <1>2 DEF Known, m, s
  <2> QED BY <2>1, <2>2, DeclarationIs
<1>9. Ongoing(open, e)
  BY <1>4, <1>5 DEF Ongoing, s
<1>10. \A i \in 1 .. m + 1 : /\ Ongoing(open, declared'[i]) \/ Before(declared'[i], s)
                             /\ declared'[i].unit \in Unit /\ declared'[i].prec \in Nat
  <2> TAKE i \in 1 .. m + 1
  <2>1. CASE i = m + 1
    BY <2>1, <1>5, <1>6, <1>9, DeclarationIs
  <2>2. CASE i \in 1 .. m
    BY <2>2, <1>6, <1>8
  <2> QED BY <2>1, <2>2, <1>6
<1>11. Known(open', declared')
  <2>1. ASSUME NEW i \in 1 .. Len(declared')
        PROVE  Ongoing(open', declared'[i]) \/ Before(declared'[i], open'[Len(open')])
    <3>1. Ongoing(open, declared'[i]) \/ Before(declared'[i], open[Len(open)])
      BY <1>6, <1>10 DEF s
    <3> QED BY <3>1, <1>1, <1>2, <1>7, KnownAlike
  <2> QED BY <2>1 DEF Known
<1>12. Chained(open', gap)
  BY <1>2, <1>7, ChainAlike
<1>13. \A i \in 1 .. m + 1 : /\ Lower(declared'[i].unit, e.unit) <=> declared'[i].prec < e.prec
                             /\ Lower(e.unit, declared'[i].unit) <=> e.prec < declared'[i].prec
  <2> TAKE i \in 1 .. m + 1
  <2>1. Ongoing(open, declared'[i]) \/ Before(declared'[i], open[Len(open)])
    BY <1>10 DEF s
  <2>2. e.unit = open[Len(open)].unit /\ e.prec = open[Len(open)].prec
    BY <1>5 DEF s
  <2>3. declared'[i].unit \in Unit /\ declared'[i].prec \in Nat
    BY <1>10
  <2> QED BY <2>1, <2>2, <2>3, <1>1, <1>2, <1>3, PairsRight
<1>14. PrecedencesFollowImports'
  <2>1. DOMAIN declared' = 1 .. m + 1 /\ DOMAIN declared = 1 .. m
    BY <1>2, <1>6 DEF m
  <2>2. ASSUME NEW i \in 1 .. m + 1, NEW j \in 1 .. m + 1
        PROVE  Lower(declared'[i].unit, declared'[j].unit) <=> declared'[i].prec < declared'[j].prec
    <3>1. CASE j = m + 1
      BY <3>1, <1>6, <1>13
    <3>2. CASE i = m + 1
      BY <3>2, <1>6, <1>13
    <3>3. CASE i \in 1 .. m /\ j \in 1 .. m
      BY <3>3, <2>1, <1>2, <1>6 DEF PrecedencesFollowImports
    <3> QED BY <3>1, <3>2, <3>3, <1>6
  <2> QED BY <2>1, <2>2 DEF PrecedencesFollowImports
<1>15. ~LateImports => Rising(open', declared')
  <2> SUFFICES ASSUME ~LateImports PROVE Rising(open', declared')
    OBVIOUS
  <2>1. /\ \A i, j \in 1 .. m : i <= j => declared[i].prec <= declared[j].prec
        /\ \A i \in 1 .. m : declared[i].prec <= s.prec
    BY <1>1, <1>2 DEF Rising, m, s
  <2>2. ASSUME NEW i \in 1 .. m + 1 PROVE declared'[i].prec <= s.prec
    <3>1. CASE i = m + 1
      <4>1. s.prec \in Nat
        BY <1>4, SheetIs
      <4> QED BY <3>1, <4>1, <1>5, <1>6
    <3>2. CASE i \in 1 .. m
      BY <3>2, <2>1, <1>6
    <3> QED BY <3>1, <3>2, <1>6
  <2>3. ASSUME NEW i \in 1 .. m + 1, NEW j \in 1 .. m + 1, i <= j
        PROVE  declared'[i].prec <= declared'[j].prec
    <3>1. CASE j = m + 1
      BY <3>1, <2>2, <1>5, <1>6
    <3>2. CASE j # m + 1
      <4>1. i \in 1 .. m /\ j \in 1 .. m
        BY <3>2, <2>3, <1>6
      <4> QED BY <4>1, <2>1, <2>3, <1>6
    <3> QED BY <3>1, <3>2
  <2>4. open'[Len(open')].prec = s.prec
    BY <1>1, <1>2, <1>7, KnownAlike DEF s
  <2> QED BY <2>2, <2>3, <2>4, <1>6 DEF Rising
<1>16. open' \in Seq(SheetSet)
  BY <1>7 DEF SameSheets
<1>17. opened' \in 1 .. Bits + 1 /\ (opened' = 1 \/ opened' <= MaxSheets) /\ Gap(opened' - 1) = gap
  BY <1>1, <1>2 DEF gap
<1> QED BY <1>6, <1>11, <1>12, <1>14, <1>15, <1>16, <1>17 DEF ImportsInv

\* The invariant sees nothing of the tables.
LEMMA ImportsAlike ==
  ASSUME ImportsInv, UNCHANGED <<open, opened, declared>> PROVE ImportsInv'
<1>1. open' = open /\ opened' = opened /\ declared' = declared
  OBVIOUS
<1>2. PrecedencesFollowImports' <=> PrecedencesFollowImports
  BY <1>1 DEF PrecedencesFollowImports
<1> QED BY <1>1, <1>2 DEF ImportsInv

LEMMA LoadKeepsImports ==
  ASSUME ImportsInv, Load PROVE ImportsInv'
<1>1. ASSUME Import PROVE ImportsInv'
  BY <1>1, NestKeeps DEF Import
<1>2. ASSUME Include PROVE ImportsInv'
  BY <1>2, NestKeeps DEF Include
<1>3. ASSUME NEW t \in TemplateDecls, AddTemplate(t) PROVE ImportsInv'
  <2>1. "template" \in DeclKinds /\ t \in Whats /\ Declare("template", t)
    BY <1>3 DEF AddTemplate, DeclKinds, Whats
  <2> QED BY <2>1, DeclareKeeps
<1>4. ASSUME NEW x \in Names, NameTemplate(x) PROVE ImportsInv'
  <2>1. "named" \in DeclKinds /\ x \in Whats /\ Declare("named", x)
    BY <1>4 DEF NameTemplate, DeclKinds, Whats
  <2> QED BY <2>1, DeclareKeeps
<1>5. ASSUME NEW x \in Names, NamespaceAlias(x) PROVE ImportsInv'
  <2>1. "alias" \in DeclKinds /\ x \in Whats /\ Declare("alias", x)
    BY <1>5 DEF NamespaceAlias, DeclKinds, Whats
  <2> QED BY <2>1, DeclareKeeps
<1>6. ASSUME NEW x \in VarNames, NEW kind \in {"variable", "param"}, TopLevelVariable(x, kind) PROVE ImportsInv'
  <2>1. "variable" \in DeclKinds /\ x \in Whats /\ Declare("variable", x)
    BY <1>6 DEF TopLevelVariable, DeclKinds, Whats
  <2> QED BY <2>1, DeclareKeeps
<1>7. ASSUME NEW strip \in BOOLEAN, NEW x \in Names \cup {"*"}, Space(strip, x) PROVE ImportsInv'
  <2> DEFINE w == [strip |-> strip, test |-> x]
  <2>1. "space" \in DeclKinds /\ w \in Whats /\ Declare("space", w)
    BY <1>7 DEF Space, DeclKinds, Whats
  <2> HIDE DEF w
  <2> QED BY <2>1, DeclareKeeps
<1> QED BY <1>1, <1>2, <1>3, <1>4, <1>5, <1>6, <1>7, EndOfSheetKeeps DEF Load

LEMMA ImportsKept == ImportsInv /\ [Next]_vars => ImportsInv'
<1> SUFFICES ASSUME ImportsInv, [Next]_vars PROVE ImportsInv'
  OBVIOUS
<1>1. CASE Load
  BY <1>1, LoadKeepsImports
<1>2. CASE UNCHANGED sheetVars
  BY <1>2, ImportsAlike DEF sheetVars
<1> QED BY <1>1, <1>2 DEF Next, vars

LEMMA ImportsAtFirst == XSLTInit => ImportsInv
<1> SUFFICES ASSUME Init PROVE ImportsInv
  BY DEF XSLTInit
<1> DEFINE s == [doc |-> 1, prec |-> Power[Bits], low |-> 0, how |-> "main", seen |-> FALSE,
                 unit |-> <<>>, imports |-> 0]
<1>1. open = <<s>> /\ opened = 1 /\ declared = <<>>
  BY DEF Init
<1>2. Power[Bits] \in Nat /\ Gap(0) = Power[Bits] /\ Gap(0) >= 1 /\ opened \in 1 .. Bits + 1 /\ opened - 1 = 0
  <2>1. 0 \in 0 .. Bits /\ Bits - 0 = Bits /\ 1 \in 1 .. Bits + 1
    BY Precision
  <2>2. Gap(0) \in Nat /\ Gap(0) >= 1 /\ Gap(0) = Power[Bits]
    BY <2>1, Gaps DEF Gap
  <2> QED BY <2>1, <2>2, <1>1
<1>3. s \in SheetSet /\ s.prec = Gap(0) /\ s.low = 0
  <2>1. <<>> \in Unit
    BY DEF Unit
  <2> QED BY <2>1, <1>2 DEF SheetSet, Hows
<1> HIDE DEF s
<1>4. open \in Seq(SheetSet) /\ Len(open) = 1 /\ open[1] = s
  BY <1>1, <1>3
<1>5. declared \in Seq(DeclSet) /\ Len(declared) = 0 /\ DOMAIN declared = {}
  BY <1>1
<1>6. Around(s, s)
  BY DEF Around
<1>7. Gap(0) - 0 >= Gap(0)
  BY <1>2
<1>8. Chained(open, Gap(opened - 1))
  <2>1. \A k \in 1 .. 1 : k = 1
    OBVIOUS
  <2>2. \A k \in 1 .. 1 - 1 : FALSE
    OBVIOUS
  <2> QED BY <2>1, <2>2, <1>2, <1>3, <1>4, <1>6, <1>7 DEF Chained
<1>9. Known(open, declared)
  BY <1>5 DEF Known
<1>10. Rising(open, declared)
  BY <1>5 DEF Rising
<1>11. PrecedencesFollowImports
  BY <1>5 DEF PrecedencesFollowImports
<1> QED BY <1>1, <1>2, <1>4, <1>5, <1>8, <1>9, <1>10, <1>11 DEF ImportsInv

\* What is known of the sheets being read, of the precedences given and of what has
\* been read is kept by every step (domxslt.c: processTopLevel).
THEOREM ImportsInvariance == Spec => []ImportsInv
<1>1. ImportsInv /\ [Next]_vars => ImportsInv'
  BY ImportsKept
<1> QED BY <1>1, ImportsAtFirst, PTL DEF Spec

\* However stylesheets import and include each other, two declarations are in the
\* order of the tree of imports just when the precedences they got, each half way
\* between two bounds, are (domxslt.c: xsl:import in processTopLevel).
THEOREM ImportsOrder == Spec => []PrecedencesFollowImports
<1>1. ImportsInv => PrecedencesFollowImports
  BY DEF ImportsInv
<1> QED BY <1>1, ImportsInvariance, PTL

(* -------------------------------- the tables ------------------------------- *)
\* Declaration e is added to ds.
Added(ds, e, ds2) ==
  /\ Len(ds) \in Nat /\ Len(ds2) = Len(ds) + 1 /\ ds2[Len(ds) + 1] = e
  /\ \A i \in 1 .. Len(ds) : ds2[i] = ds[i]

LEMMA OfOthers ==
  ASSUME NEW ds, NEW e, NEW ds2, Added(ds, e, ds2), NEW kind, NEW x, ~(e.kind = kind /\ e.what = x)
  PROVE  Of(ds2, kind, x) = Of(ds, kind, x)
<1>1. \A i : i \in 1 .. Len(ds2) <=> i \in 1 .. Len(ds) \/ i = Len(ds) + 1
  BY DEF Added
<1>2. ds2[Len(ds) + 1] = e /\ (\A i \in 1 .. Len(ds) : ds2[i] = ds[i])
  BY DEF Added
<1> QED BY <1>1, <1>2 DEF Of

LEMMA OfAdded ==
  ASSUME NEW ds, NEW e, NEW ds2, Added(ds, e, ds2)
  PROVE  IsLastOf(Len(ds) + 1, Of(ds2, e.kind, e.what))
<1>1. ds2[Len(ds) + 1] = e /\ Len(ds) \in Nat /\ Len(ds2) = Len(ds) + 1
  BY DEF Added
<1>2. Len(ds) + 1 \in 1 .. Len(ds2) /\ \A i \in 1 .. Len(ds2) : i <= Len(ds) + 1
  BY <1>1
<1> QED BY <1>1, <1>2 DEF IsLastOf, Of

LEMMA LatestKept ==
  ASSUME NEW ds, NEW e, NEW ds2, Added(ds, e, ds2), NEW table, NEW kind, NEW S, e.kind # kind,
         Latest(ds, table, kind, S)
  PROVE  Latest(ds2, table, kind, S)
<1>1. \A x : Of(ds2, kind, x) = Of(ds, kind, x)
  BY OfOthers
<1>2. ASSUME NEW x \in DOMAIN table
      PROVE  IsLastOf(table[x].at, Of(ds2, kind, x)) /\ table[x].prec = ds2[table[x].at].prec
  <2>1. IsLastOf(table[x].at, Of(ds, kind, x)) /\ table[x].prec = ds[table[x].at].prec
    BY DEF Latest
  <2>2. table[x].at \in 1 .. Len(ds)
    BY <2>1 DEF IsLastOf, Of
  <2>3. ds2[table[x].at] = ds[table[x].at]
    BY <2>2 DEF Added
  <2> QED BY <2>1, <2>3, <1>1
<1>3. \A x \in S : x \notin DOMAIN table => Of(ds2, kind, x) = {}
  BY <1>1 DEF Latest
<1> QED BY <1>2, <1>3 DEF Latest

LEMMA LatestPut ==
  ASSUME NEW ds, NEW e, NEW ds2, Added(ds, e, ds2), NEW table, NEW S, Latest(ds, table, e.kind, S),
         NEW v, v.at = Len(ds) + 1, v.prec = e.prec
  PROVE  Latest(ds2, Put(table, e.what, v), e.kind, S)
<1> DEFINE new == Put(table, e.what, v)
<1>1. /\ DOMAIN new = DOMAIN table \cup {e.what} /\ new[e.what] = v
      /\ \A y \in DOMAIN table : y # e.what => new[y] = table[y]
  BY DEF Put
<1> HIDE DEF new
<1>2. \A x : x # e.what => Of(ds2, e.kind, x) = Of(ds, e.kind, x)
  BY OfOthers
<1>3. ASSUME NEW x \in DOMAIN new
      PROVE  IsLastOf(new[x].at, Of(ds2, e.kind, x)) /\ new[x].prec = ds2[new[x].at].prec
  <2>1. CASE x = e.what
    <3>1. IsLastOf(Len(ds) + 1, Of(ds2, e.kind, x)) /\ ds2[Len(ds) + 1] = e
      BY <2>1, OfAdded DEF Added
    <3> QED BY <3>1, <2>1, <1>1
  <2>2. CASE x # e.what
    <3>1. x \in DOMAIN table /\ new[x] = table[x]
      BY <2>2, <1>1
    <3>2. IsLastOf(table[x].at, Of(ds, e.kind, x)) /\ table[x].prec = ds[table[x].at].prec
      BY <3>1 DEF Latest
    <3>3. table[x].at \in 1 .. Len(ds)
      BY <3>2 DEF IsLastOf, Of
    <3>4. ds2[table[x].at] = ds[table[x].at]
      BY <3>3 DEF Added
    <3> QED BY <3>1, <3>2, <3>4, <2>2, <1>2
  <2> QED BY <2>1, <2>2
<1>4. \A x \in S : x \notin DOMAIN new => Of(ds2, e.kind, x) = {}
  BY <1>1, <1>2 DEF Latest
<1>5. Latest(ds2, new, e.kind, S)
  BY <1>3, <1>4 DEF Latest
<1> QED BY <1>5 DEF new

LEMMA SpaceOthers ==
  ASSUME NEW ds, NEW e, NEW ds2, Added(ds, e, ds2), NEW x, ~(e.kind = "space" /\ e.what.test = x)
  PROVE  /\ OfSpace(ds2, x) = OfSpace(ds, x)
         /\ \A strip, prec : LatestStrip(ds, x, strip, prec) => LatestStrip(ds2, x, strip, prec)
<1>1. \A i : i \in 1 .. Len(ds2) <=> i \in 1 .. Len(ds) \/ i = Len(ds) + 1
  BY DEF Added
<1>2. ds2[Len(ds) + 1] = e /\ (\A i \in 1 .. Len(ds) : ds2[i] = ds[i])
  BY DEF Added
<1>3. OfSpace(ds2, x) = OfSpace(ds, x)
  BY <1>1, <1>2 DEF OfSpace
<1>4. ASSUME NEW strip, NEW prec, LatestStrip(ds, x, strip, prec) PROVE LatestStrip(ds2, x, strip, prec)
  <2>1. PICK i \in 1 .. Len(ds) : /\ IsLastOf(i, OfSpace(ds, x))
                                  /\ strip = ds[i].what.strip /\ prec = ds[i].prec
    BY <1>4 DEF LatestStrip
  <2>2. i \in 1 .. Len(ds2) /\ ds2[i] = ds[i]
    BY <1>1, <1>2
  <2> QED BY <2>1, <2>2, <1>3 DEF LatestStrip
<1> QED BY <1>3, <1>4

LEMMA SpaceAdded ==
  ASSUME NEW ds, NEW e, NEW ds2, Added(ds, e, ds2), e.kind = "space"
  PROVE  LatestStrip(ds2, e.what.test, e.what.strip, e.prec)
<1>1. ds2[Len(ds) + 1] = e /\ Len(ds) \in Nat /\ Len(ds2) = Len(ds) + 1
  BY DEF Added
<1>2. Len(ds) + 1 \in 1 .. Len(ds2) /\ \A i \in 1 .. Len(ds2) : i <= Len(ds) + 1
  BY <1>1
<1>3. IsLastOf(Len(ds) + 1, OfSpace(ds2, e.what.test))
  BY <1>1, <1>2 DEF IsLastOf, OfSpace
<1> QED BY <1>1, <1>2, <1>3 DEF LatestStrip

LEMMA SpaceKept ==
  ASSUME NEW ds, NEW e, NEW ds2, Added(ds, e, ds2), e.kind # "space", NEW all, NEW prec, NEW tokens,
         LatestSpace(ds, all, prec, tokens)
  PROVE  LatestSpace(ds2, all, prec, tokens)
<1>1. \A x : /\ OfSpace(ds2, x) = OfSpace(ds, x)
             /\ \A a, p : LatestStrip(ds, x, a, p) => LatestStrip(ds2, x, a, p)
  BY SpaceOthers
<1> QED BY <1>1, Zenon DEF LatestSpace

LEMMA SpaceAll ==
  ASSUME NEW ds, NEW e, NEW ds2, Added(ds, e, ds2), e.kind = "space", e.what.test = "*",
         NEW all, NEW prec, NEW tokens, LatestSpace(ds, all, prec, tokens)
  PROVE  LatestSpace(ds2, e.what.strip, e.prec, tokens)
<1>1. \A x : x # "*" =>
             /\ OfSpace(ds2, x) = OfSpace(ds, x)
             /\ \A a, p : LatestStrip(ds, x, a, p) => LatestStrip(ds2, x, a, p)
  BY SpaceOthers
<1>2. LatestStrip(ds2, "*", e.what.strip, e.prec)
  BY SpaceAdded
<1> QED BY <1>1, <1>2, Zenon DEF LatestSpace

LEMMA SpaceNamed ==
  ASSUME NEW ds, NEW e, NEW ds2, Added(ds, e, ds2), e.kind = "space", e.what.test # "*",
         NEW all, NEW prec, NEW tokens, LatestSpace(ds, all, prec, tokens),
         NEW v, v.strip = e.what.strip, v.prec = e.prec
  PROVE  LatestSpace(ds2, all, prec, Put(tokens, e.what.test, v))
<1> DEFINE y == e.what.test
           new == Put(tokens, y, v)
<1>1. /\ DOMAIN new = DOMAIN tokens \cup {y} /\ new[y] = v
      /\ \A z \in DOMAIN tokens : z # y => new[z] = tokens[z]
  BY DEF Put
<1>2. \A x : x # y => /\ OfSpace(ds2, x) = OfSpace(ds, x)
                      /\ \A a, p : LatestStrip(ds, x, a, p) => LatestStrip(ds2, x, a, p)
  BY SpaceOthers
<1>3. LatestStrip(ds2, y, v.strip, v.prec)
  BY SpaceAdded
<1>4. y # "*"
  OBVIOUS
<1> HIDE DEF new, y
<1>5. ASSUME NEW x \in DOMAIN new PROVE x # "*" /\ LatestStrip(ds2, x, new[x].strip, new[x].prec)
  <2>1. CASE x = y
    BY <2>1, <1>1, <1>3, <1>4
  <2>2. CASE x # y
    BY <2>2, <1>1, <1>2 DEF LatestSpace
  <2> QED BY <2>1, <2>2
<1>6. \A x \in Names : x # "*" /\ x \notin DOMAIN new => OfSpace(ds2, x) = {}
  BY <1>1, <1>2 DEF LatestSpace
<1>7. \/ OfSpace(ds2, "*") = {} /\ all = FALSE /\ prec = 0
      \/ LatestStrip(ds2, "*", all, prec)
  BY <1>2, <1>4 DEF LatestSpace
<1>8. LatestSpace(ds2, all, prec, new)
  BY <1>5, <1>6, <1>7 DEF LatestSpace
<1> QED BY <1>8 DEF new, y

(* ----------------------------- the tables' steps --------------------------- *)
Item(kind, what) ==
  [kind |-> kind, what |-> what, unit |-> Sheet.unit, prec |-> Sheet.prec, doc |-> Sheet.doc]

LEMMA DeclareAdds ==
  ASSUME ImportsInv, NEW kind, NEW what, Declare(kind, what)
  PROVE  /\ Added(declared, Item(kind, what), declared') /\ ~failed
         /\ Item(kind, what).kind = kind /\ Item(kind, what).what = what
         /\ Item(kind, what).prec = Sheet.prec
<1> DEFINE e == Item(kind, what)
<1>1. declared' = Append(declared, e) /\ ~failed
  BY DEF Declare, Reading, Item
<1>2. e.kind = kind /\ e.what = what /\ e.prec = Sheet.prec
  BY DEF Item
<1> HIDE DEF e
<1>3. declared \in Seq(DeclSet)
  BY DEF ImportsInv
<1>4. Added(declared, e, Append(declared, e))
  <2>1. declared \in Seq(DeclSet \cup {e}) /\ e \in DeclSet \cup {e}
    <3>1. Len(declared) \in Nat /\ declared \in [1 .. Len(declared) -> DeclSet \cup {e}]
      BY <1>3
    <3> QED BY <3>1
  <2>2. /\ Len(Append(declared, e)) = Len(declared) + 1 /\ Append(declared, e)[Len(declared) + 1] = e
        /\ \A i \in 1 .. Len(declared) : Append(declared, e)[i] = declared[i]
    BY <2>1, Appending
  <2> QED BY <1>3, <2>2 DEF Added
<1> QED BY <1>1, <1>2, <1>4 DEF e

LEMMA NowIs ==
  ASSUME NEW v
  PROVE  Now(v).at = Len(declared) + 1 /\ Now(v).prec = Sheet.prec
BY DEF Now

WsInfoIs(w) == w = [stripAll |-> w.stripAll, wildcardPrec |-> w.wildcardPrec, tokens |-> w.tokens]

LEMMA TablesParts ==
  TablesInv <=>
    (~failed => /\ Latest(declared, named, "named", Names)
                /\ Latest(declared, toplevel, "variable", VarNames)
                /\ Latest(declared, aliases, "alias", Names) /\ WsInfoIs(wsInfo)
                /\ LatestSpace(declared, wsInfo.stripAll, wsInfo.wildcardPrec, wsInfo.tokens))
BY DEF TablesInv, WsInfoIs

LEMMA TablesAlike ==
  ASSUME TablesInv, UNCHANGED <<tables, failed, declared>> PROVE TablesInv'
BY DEF TablesInv, tables

\* A declaration of a template, or of a name in one of three tables.
LEMMA AddTemplateTables ==
  ASSUME ImportsInv, TablesInv, NEW t, AddTemplate(t) PROVE TablesInv'
<1> DEFINE e == Item("template", t)
<1>1. Added(declared, e, declared') /\ ~failed /\ e.kind = "template"
  BY DeclareAdds DEF AddTemplate
<1>2. UNCHANGED <<named, toplevel, aliases, wsInfo>>
  BY DEF AddTemplate
<1> HIDE DEF e
<1>3. /\ Latest(declared, named, "named", Names) /\ Latest(declared, toplevel, "variable", VarNames)
      /\ Latest(declared, aliases, "alias", Names) /\ WsInfoIs(wsInfo)
      /\ LatestSpace(declared, wsInfo.stripAll, wsInfo.wildcardPrec, wsInfo.tokens)
  BY <1>1, TablesParts
<1>4. e.kind # "named" /\ e.kind # "variable" /\ e.kind # "alias" /\ e.kind # "space"
  BY <1>1
<1>5. /\ Latest(declared', named, "named", Names) /\ Latest(declared', toplevel, "variable", VarNames)
      /\ Latest(declared', aliases, "alias", Names)
  BY <1>1, <1>3, <1>4, LatestKept
<1>6. LatestSpace(declared', wsInfo.stripAll, wsInfo.wildcardPrec, wsInfo.tokens)
  BY <1>1, <1>3, <1>4, SpaceKept
<1> QED BY <1>2, <1>3, <1>5, <1>6 DEF TablesInv, WsInfoIs

LEMMA NameTemplateTables ==
  ASSUME ImportsInv, TablesInv, NEW x, NameTemplate(x) PROVE TablesInv'
<1> DEFINE e == Item("named", x)
<1>1. /\ Added(declared, e, declared') /\ ~failed /\ e.kind = "named" /\ e.what = x /\ e.prec = Sheet.prec
  BY DeclareAdds DEF NameTemplate
<1>2. UNCHANGED <<toplevel, aliases, wsInfo>> /\ named' = IF failed' THEN named ELSE Put(named, x, Now(x))
  BY DEF NameTemplate
<1> HIDE DEF e
<1>3. /\ Latest(declared, named, "named", Names) /\ Latest(declared, toplevel, "variable", VarNames)
      /\ Latest(declared, aliases, "alias", Names) /\ WsInfoIs(wsInfo)
      /\ LatestSpace(declared, wsInfo.stripAll, wsInfo.wildcardPrec, wsInfo.tokens)
  BY <1>1, TablesParts
<1>4. e.kind # "variable" /\ e.kind # "alias" /\ e.kind # "space"
  BY <1>1
<1>5. Latest(declared', toplevel, "variable", VarNames) /\ Latest(declared', aliases, "alias", Names)
  BY <1>1, <1>3, <1>4, LatestKept
<1>6. LatestSpace(declared', wsInfo.stripAll, wsInfo.wildcardPrec, wsInfo.tokens)
  BY <1>1, <1>3, <1>4, SpaceKept
<1>7. Latest(declared', Put(named, x, Now(x)), "named", Names)
  <2>1. Now(x).at = Len(declared) + 1 /\ Now(x).prec = e.prec
    BY <1>1, NowIs
  <2>2. Latest(declared', Put(named, e.what, Now(x)), e.kind, Names)
    BY <2>1, <1>1, <1>3, LatestPut
  <2> QED BY <2>2, <1>1
<1>8. failed' \/ named' = Put(named, x, Now(x))
  BY <1>2
<1> QED BY <1>2, <1>3, <1>5, <1>6, <1>7, <1>8 DEF TablesInv, WsInfoIs

LEMMA TopLevelVariableTables ==
  ASSUME ImportsInv, TablesInv, NEW x, NEW kind, TopLevelVariable(x, kind) PROVE TablesInv'
<1> DEFINE e == Item("variable", x)
<1>1. /\ Added(declared, e, declared') /\ ~failed /\ e.kind = "variable" /\ e.what = x /\ e.prec = Sheet.prec
  BY DeclareAdds DEF TopLevelVariable
<1>2. /\ UNCHANGED <<named, aliases, wsInfo>>
      /\ toplevel' = IF failed' THEN toplevel ELSE Put(toplevel, x, Now(kind))
  BY DEF TopLevelVariable
<1> HIDE DEF e
<1>3. /\ Latest(declared, named, "named", Names) /\ Latest(declared, toplevel, "variable", VarNames)
      /\ Latest(declared, aliases, "alias", Names) /\ WsInfoIs(wsInfo)
      /\ LatestSpace(declared, wsInfo.stripAll, wsInfo.wildcardPrec, wsInfo.tokens)
  BY <1>1, TablesParts
<1>4. e.kind # "named" /\ e.kind # "alias" /\ e.kind # "space"
  BY <1>1
<1>5. Latest(declared', named, "named", Names) /\ Latest(declared', aliases, "alias", Names)
  BY <1>1, <1>3, <1>4, LatestKept
<1>6. LatestSpace(declared', wsInfo.stripAll, wsInfo.wildcardPrec, wsInfo.tokens)
  BY <1>1, <1>3, <1>4, SpaceKept
<1>7. Latest(declared', Put(toplevel, x, Now(kind)), "variable", VarNames)
  <2>1. Now(kind).at = Len(declared) + 1 /\ Now(kind).prec = e.prec
    BY <1>1, NowIs
  <2>2. Latest(declared', Put(toplevel, e.what, Now(kind)), e.kind, VarNames)
    BY <2>1, <1>1, <1>3, LatestPut
  <2> QED BY <2>2, <1>1
<1>8. failed' \/ toplevel' = Put(toplevel, x, Now(kind))
  BY <1>2
<1> QED BY <1>2, <1>3, <1>5, <1>6, <1>7, <1>8 DEF TablesInv, WsInfoIs

\* Without late imports no alias is of a higher precedence than the new one.
LEMMA NamespaceAliasTables ==
  ASSUME ImportsInv, ~LateImports, TablesInv, NEW x, NamespaceAlias(x) PROVE TablesInv'
<1> DEFINE e == Item("alias", x)
<1>1. /\ Added(declared, e, declared') /\ ~failed /\ e.kind = "alias" /\ e.what = x /\ e.prec = Sheet.prec
  BY DeclareAdds DEF NamespaceAlias
<1>2. /\ UNCHANGED <<named, toplevel, wsInfo>>
      /\ aliases' = IF x \in DOMAIN aliases /\ aliases[x].prec > Sheet.prec THEN aliases
                    ELSE Put(aliases, x, Now(x))
  BY DEF NamespaceAlias
<1> HIDE DEF e
<1>3. /\ Latest(declared, named, "named", Names) /\ Latest(declared, toplevel, "variable", VarNames)
      /\ Latest(declared, aliases, "alias", Names) /\ WsInfoIs(wsInfo)
      /\ LatestSpace(declared, wsInfo.stripAll, wsInfo.wildcardPrec, wsInfo.tokens)
  BY <1>1, TablesParts
<1>4. e.kind # "named" /\ e.kind # "variable" /\ e.kind # "space"
  BY <1>1
<1>5. Latest(declared', named, "named", Names) /\ Latest(declared', toplevel, "variable", VarNames)
  BY <1>1, <1>3, <1>4, LatestKept
<1>6. LatestSpace(declared', wsInfo.stripAll, wsInfo.wildcardPrec, wsInfo.tokens)
  BY <1>1, <1>3, <1>4, SpaceKept
<1>7. Latest(declared', Put(aliases, x, Now(x)), "alias", Names)
  <2>1. Now(x).at = Len(declared) + 1 /\ Now(x).prec = e.prec
    BY <1>1, NowIs
  <2>2. Latest(declared', Put(aliases, e.what, Now(x)), e.kind, Names)
    BY <2>1, <1>1, <1>3, LatestPut
  <2> QED BY <2>2, <1>1
<1>8. ~(x \in DOMAIN aliases /\ aliases[x].prec > Sheet.prec)
  <2> SUFFICES ASSUME x \in DOMAIN aliases PROVE ~(aliases[x].prec > Sheet.prec)
    OBVIOUS
  <2>1. IsLastOf(aliases[x].at, Of(declared, "alias", x)) /\ aliases[x].prec = declared[aliases[x].at].prec
    BY <1>3 DEF Latest
  <2>2. aliases[x].at \in 1 .. Len(declared)
    BY <2>1 DEF IsLastOf, Of
  <2>3. open # <<>> /\ Sheet = open[Len(open)] /\ open \in Seq(SheetSet) /\ declared \in Seq(DeclSet)
        /\ Rising(open, declared)
    BY DEF ImportsInv, NamespaceAlias, Declare, Reading, Sheet, Last
  <2>4. declared[aliases[x].at].prec <= Sheet.prec
    BY <2>2, <2>3 DEF Rising
  <2>5. Sheet \in SheetSet /\ declared[aliases[x].at] \in DeclSet
    BY <2>2, <2>3
  <2>6. Sheet.prec \in Nat /\ declared[aliases[x].at].prec \in Nat
    BY <2>5, SheetIs, DeclarationIs
  <2> QED BY <2>1, <2>4, <2>6
<1>9. aliases' = Put(aliases, x, Now(x))
  BY <1>2, <1>8
<1> QED BY <1>2, <1>3, <1>5, <1>6, <1>7, <1>9 DEF TablesInv, WsInfoIs

\* w has these parts.
WsNow(w, a, p, tokens) ==
  WsInfoIs(w) /\ w.stripAll = a /\ w.wildcardPrec = p /\ w.tokens = tokens

LEMMA WsInfoOf ==
  ASSUME NEW A, NEW P, NEW T, NEW w \in [stripAll : A, wildcardPrec : P, tokens : T]
  PROVE  WsInfoIs(w)
BY DEF WsInfoIs

LEMMA WsInfoAll ==
  ASSUME NEW w, WsInfoIs(w), NEW a, NEW p
  PROVE  WsNow([w EXCEPT !.stripAll = a, !.wildcardPrec = p], a, p, w.tokens)
<1> DEFINE S == [stripAll : {a, w.stripAll}, wildcardPrec : {p, w.wildcardPrec}, tokens : {w.tokens}]
           v == [w EXCEPT !.stripAll = a, !.wildcardPrec = p]
<1>1. w \in S
  BY DEF WsInfoIs
<1>2. v \in S /\ v.stripAll = a /\ v.wildcardPrec = p /\ v.tokens = w.tokens
  BY <1>1
<1> HIDE DEF v
<1>3. WsInfoIs(v)
  BY <1>2, WsInfoOf
<1>4. WsNow(v, a, p, w.tokens)
  BY <1>2, <1>3 DEF WsNow
<1> QED BY <1>4 DEF v

LEMMA WsInfoTokens ==
  ASSUME NEW w, WsInfoIs(w), NEW tokens
  PROVE  WsNow([w EXCEPT !.tokens = tokens], w.stripAll, w.wildcardPrec, tokens)
<1> DEFINE S == [stripAll : {w.stripAll}, wildcardPrec : {w.wildcardPrec}, tokens : {tokens, w.tokens}]
           v == [w EXCEPT !.tokens = tokens]
<1>1. w \in S
  BY DEF WsInfoIs
<1>2. v \in S /\ v.stripAll = w.stripAll /\ v.wildcardPrec = w.wildcardPrec /\ v.tokens = tokens
  BY <1>1
<1> HIDE DEF v
<1>3. WsInfoIs(v)
  BY <1>2, WsInfoOf
<1>4. WsNow(v, w.stripAll, w.wildcardPrec, tokens)
  BY <1>2, <1>3 DEF WsNow
<1> QED BY <1>4 DEF v

LEMMA SpaceTables ==
  ASSUME ImportsInv, TablesInv, NEW strip, NEW x, Space(strip, x) PROVE TablesInv'
<1> DEFINE w == [strip |-> strip, test |-> x]
           e == Item("space", w)
<1>1. /\ Added(declared, e, declared') /\ ~failed /\ e.kind = "space" /\ e.what = w /\ e.prec = Sheet.prec
  BY DeclareAdds DEF Space
<1>2. UNCHANGED <<named, toplevel, aliases>> /\ wsInfo' = Fill(strip, x)
  BY DEF Space
<1>3. w.strip = strip /\ w.test = x
  OBVIOUS
<1> HIDE DEF e, w
<1>4. /\ Latest(declared, named, "named", Names) /\ Latest(declared, toplevel, "variable", VarNames)
      /\ Latest(declared, aliases, "alias", Names) /\ WsInfoIs(wsInfo)
      /\ LatestSpace(declared, wsInfo.stripAll, wsInfo.wildcardPrec, wsInfo.tokens)
  BY <1>1, TablesParts
<1>5. e.kind # "named" /\ e.kind # "variable" /\ e.kind # "alias"
  BY <1>1
<1>6. /\ Latest(declared', named, "named", Names) /\ Latest(declared', toplevel, "variable", VarNames)
      /\ Latest(declared', aliases, "alias", Names)
  BY <1>1, <1>4, <1>5, LatestKept
<1>7. /\ WsInfoIs(wsInfo')
      /\ LatestSpace(declared', wsInfo'.stripAll, wsInfo'.wildcardPrec, wsInfo'.tokens)
  <2>1. CASE x = "*"
    <3>1. wsInfo' = [wsInfo EXCEPT !.stripAll = strip, !.wildcardPrec = Sheet.prec]
      BY <2>1, <1>2 DEF Fill
    <3>2. WsNow(wsInfo', strip, Sheet.prec, wsInfo.tokens)
      BY <3>1, <1>4, WsInfoAll
    <3>3. LatestSpace(declared', e.what.strip, e.prec, wsInfo.tokens)
      BY <2>1, <1>1, <1>3, <1>4, SpaceAll
    <3> QED BY <3>2, <3>3, <1>1, <1>3 DEF WsNow
  <2>2. CASE x # "*"
    <3> DEFINE v == [strip |-> strip, prec |-> Sheet.prec]
               new == Put(wsInfo.tokens, x, v)
    <3>1. wsInfo' = [wsInfo EXCEPT !.tokens = new]
      BY <2>2, <1>2 DEF Fill
    <3>2. v.strip = strip /\ v.prec = Sheet.prec
      OBVIOUS
    <3> HIDE DEF v
    <3>3. LatestSpace(declared', wsInfo.stripAll, wsInfo.wildcardPrec, Put(wsInfo.tokens, e.what.test, v))
      BY <2>2, <3>2, <1>1, <1>3, <1>4, SpaceNamed
    <3> HIDE DEF new
    <3>4. WsNow(wsInfo', wsInfo.stripAll, wsInfo.wildcardPrec, new)
      BY <3>1, <1>4, WsInfoTokens
    <3> QED BY <3>3, <3>4, <1>1, <1>3 DEF new, WsNow
  <2> QED BY <2>1, <2>2
<1> QED BY <1>2, <1>6, <1>7 DEF TablesInv, WsInfoIs

LEMMA TablesKept ==
  ASSUME ~LateImports PROVE ImportsInv /\ TablesInv /\ [Next]_vars => TablesInv'
<1> SUFFICES ASSUME ImportsInv, TablesInv, [Next]_vars PROVE TablesInv'
  OBVIOUS
<1>1. CASE Load
  <2>1. ASSUME Import \/ Include \/ EndOfSheet PROVE TablesInv'
    BY <2>1, TablesAlike DEF Import, Include, EndOfSheet, Nest
  <2> QED BY <1>1, <2>1, AddTemplateTables, NameTemplateTables, NamespaceAliasTables, TopLevelVariableTables,
             SpaceTables DEF Load
<1>2. CASE UNCHANGED sheetVars
  BY <1>2, TablesAlike DEF sheetVars
<1> QED BY <1>1, <1>2 DEF Next, vars

LEMMA TablesAtFirst == XSLTInit => TablesInv
<1> SUFFICES ASSUME Init PROVE TablesInv
  BY DEF XSLTInit
<1>1. /\ declared = <<>> /\ named = << >> /\ toplevel = << >> /\ aliases = << >>
      /\ wsInfo = [stripAll |-> FALSE, wildcardPrec |-> 0, tokens |-> << >>]
  BY DEF Init
<1>2. 1 .. Len(declared) = {} /\ DOMAIN named = {} /\ DOMAIN toplevel = {} /\ DOMAIN aliases = {}
  BY <1>1
<1>3. \A kind, x : Of(declared, kind, x) = {} /\ OfSpace(declared, x) = {}
  BY <1>2 DEF Of, OfSpace
<1>4. /\ Latest(declared, named, "named", Names) /\ Latest(declared, toplevel, "variable", VarNames)
      /\ Latest(declared, aliases, "alias", Names)
  BY <1>2, <1>3 DEF Latest
<1>5. wsInfo.stripAll = FALSE /\ wsInfo.wildcardPrec = 0 /\ DOMAIN wsInfo.tokens = {} /\ WsInfoIs(wsInfo)
  BY <1>1 DEF WsInfoIs
<1>6. LatestSpace(declared, wsInfo.stripAll, wsInfo.wildcardPrec, wsInfo.tokens)
  BY <1>3, <1>5 DEF LatestSpace
<1> QED BY <1>4, <1>5, <1>6 DEF TablesInv, WsInfoIs

(* --------------------- the highest declaration holds ----------------------- *)
LEMMA UnitsFollow ==
  ASSUME ImportsInv, NEW i \in 1 .. Len(declared), NEW j \in 1 .. Len(declared)
  PROVE  /\ declared[i].prec \in Nat /\ declared[j].prec \in Nat
         /\ Lower(declared[i].unit, declared[j].unit) <=> declared[i].prec < declared[j].prec
         /\ declared[i].unit = declared[j].unit <=> declared[i].prec = declared[j].prec
<1> DEFINE u == declared[i].unit
           v == declared[j].unit
<1>1. declared[i] \in DeclSet /\ declared[j] \in DeclSet /\ i \in DOMAIN declared /\ j \in DOMAIN declared
  BY DEF ImportsInv
<1>2. u \in Unit /\ v \in Unit /\ declared[i].prec \in Nat /\ declared[j].prec \in Nat
  BY <1>1, DeclarationIs
<1>3. /\ Lower(u, v) <=> declared[i].prec < declared[j].prec
      /\ Lower(v, u) <=> declared[j].prec < declared[i].prec
  BY <1>1 DEF ImportsInv, PrecedencesFollowImports
<1> HIDE DEF u, v
<1>4. Lower(u, v) \/ Lower(v, u) => u # v
  BY <1>2, LowerOneWay
<1>5. u # v => Lower(u, v) \/ Lower(v, u)
  BY <1>2, LowerEither
<1>6. u = v <=> declared[i].prec = declared[j].prec
  BY <1>2, <1>3, <1>4, <1>5
<1> QED BY <1>2, <1>3, <1>6 DEF u, v

\* Of the declarations in T the last one, i, is of the highest precedence.
LEMMA LastIsHighest ==
  ASSUME ImportsInv, ~LateImports, NEW T \in SUBSET (1 .. Len(declared)), NEW i, IsLastOf(i, T)
  PROVE  {a \in T : \A b \in T : /\ ~Lower(declared[a].unit, declared[b].unit)
                                 /\ declared[a].unit = declared[b].unit => b <= a} = {i}
<1>1. i \in T /\ \A b \in T : b \in 1 .. Len(declared) /\ b <= i
  BY DEF IsLastOf
<1>2. \A b \in T : declared[b].prec <= declared[i].prec
  BY <1>1 DEF ImportsInv, Rising
<1>3. \A a, b \in T : /\ declared[a].prec \in Nat
                      /\ Lower(declared[a].unit, declared[b].unit) <=> declared[a].prec < declared[b].prec
                      /\ declared[a].unit = declared[b].unit <=> declared[a].prec = declared[b].prec
  BY UnitsFollow
<1>4. \A b \in T : /\ ~Lower(declared[i].unit, declared[b].unit)
                   /\ declared[i].unit = declared[b].unit => b <= i
  BY <1>1, <1>2, <1>3
<1>5. ASSUME NEW a \in T, ~Lower(declared[a].unit, declared[i].unit),
             declared[a].unit = declared[i].unit => i <= a
      PROVE  a = i
  <2>1. declared[a].prec <= declared[i].prec /\ ~(declared[a].prec < declared[i].prec)
    BY <1>1, <1>2, <1>3, <1>5
  <2>2. declared[a].prec = declared[i].prec
    BY <2>1, <1>1, <1>3
  <2>3. i <= a /\ a <= i /\ a \in 1 .. Len(declared) /\ i \in 1 .. Len(declared)
    BY <2>2, <1>1, <1>3, <1>5
  <2>4. Len(declared) \in Nat
    BY DEF ImportsInv
  <2> QED BY <2>3, <2>4
<1> QED BY <1>1, <1>4, <1>5

LEMMA TableHolds ==
  ASSUME ImportsInv, ~LateImports, NEW table, NEW kind, NEW S, Latest(declared, table, kind, S), NEW x \in S
  PROVE  Holds(table, kind, x)
<1> DEFINE T == Of(declared, kind, x)
           H == {a \in T : \A b \in T : /\ ~Lower(declared[a].unit, declared[b].unit)
                                        /\ declared[a].unit = declared[b].unit => b <= a}
<1>1. DOMAIN declared = 1 .. Len(declared)
  BY DEF ImportsInv
<1>2. Holder(kind, x) = H
  BY <1>1 DEF Holder, Of
<1>3. T \in SUBSET (1 .. Len(declared))
  BY DEF Of
<1> HIDE DEF T
<1>4. CASE x \in DOMAIN table
  <2>1. IsLastOf(table[x].at, T)
    BY <1>4 DEF Latest, T
  <2>2. H = {table[x].at}
    BY <2>1, <1>3, LastIsHighest
  <2>3. {table[y].at : y \in DOMAIN table \intersect {x}} = {table[x].at}
    BY <1>4
  <2> QED BY <2>2, <2>3, <1>2 DEF Holds
<1>5. CASE x \notin DOMAIN table
  <2>1. T = {}
    BY <1>5 DEF Latest, T
  <2>2. {table[y].at : y \in DOMAIN table \intersect {x}} = {}
    BY <1>5
  <2> QED BY <2>1, <2>2, <1>2 DEF Holds
<1> QED BY <1>4, <1>5

(* White space: n holds among the declarations N of a name, s among those of  *)
(* *, and one that names the element comes before one that says *.            *)
AsSpace(N, T, a) ==
  \A b \in T : /\ ~Lower(declared[a].unit, declared[b].unit)
               /\ declared[a].unit = declared[b].unit =>
                    \/ a \in N /\ b \notin N
                    \/ (a \in N <=> b \in N) /\ b <= a

LEMMA SpaceHolderIs ==
  ASSUME NEW x, DOMAIN declared = 1 .. Len(declared)
  PROVE  LET N == OfSpace(declared, x)  T == N \cup OfSpace(declared, "*")
         IN SpaceHolder(x) = {a \in T : AsSpace(N, T, a)}
<1> DEFINE N == OfSpace(declared, x)
           T == N \cup OfSpace(declared, "*")
           rank(i) == IF declared[i].what.test = x THEN 1 ELSE 0
<1>1. T = {i \in DOMAIN declared : declared[i].kind = "space" /\ declared[i].what.test \in {x, "*"}}
  BY DEF OfSpace
<1>2. \A a \in T : a \in N <=> declared[a].what.test = x
  BY DEF OfSpace
<1>3. SpaceHolder(x) = {i \in T : \A j \in T :
                          /\ ~Lower(declared[i].unit, declared[j].unit)
                          /\ declared[i].unit = declared[j].unit =>
                               \/ rank(i) > rank(j)
                               \/ rank(i) = rank(j) /\ j <= i}
  BY <1>1 DEF SpaceHolder
<1> HIDE DEF N, T
<1>4. \A a, b \in T : /\ rank(a) > rank(b) <=> a \in N /\ b \notin N
                      /\ rank(a) = rank(b) <=> (a \in N <=> b \in N)
  BY <1>2
<1> HIDE DEF rank
<1>5. SpaceHolder(x) = {a \in T : AsSpace(N, T, a)}
  BY <1>3, <1>4 DEF AsSpace
<1> QED BY <1>5 DEF N, T

\* i is the only one in T that holds, when those in N hold before the others.
LEMMA OnlyHolder ==
  ASSUME ImportsInv, NEW T \in SUBSET (1 .. Len(declared)), NEW N, NEW i \in T,
         \A b \in T : \/ declared[b].prec < declared[i].prec
                      \/ declared[b].prec = declared[i].prec /\ i \in N /\ b \notin N
                      \/ declared[b].prec = declared[i].prec /\ (i \in N <=> b \in N) /\ b <= i
  PROVE  {a \in T : AsSpace(N, T, a)} = {i}
<1>1. \A a, b \in T : /\ declared[a].prec \in Nat
                      /\ Lower(declared[a].unit, declared[b].unit) <=> declared[a].prec < declared[b].prec
                      /\ declared[a].unit = declared[b].unit <=> declared[a].prec = declared[b].prec
  BY UnitsFollow
<1>2. AsSpace(N, T, i)
  BY <1>1 DEF AsSpace
<1>3. ASSUME NEW a \in T, AsSpace(N, T, a) PROVE a = i
  <2>1. /\ ~Lower(declared[a].unit, declared[i].unit)
        /\ declared[a].unit = declared[i].unit =>
             \/ a \in N /\ i \notin N
             \/ (a \in N <=> i \in N) /\ i <= a
    BY <1>3 DEF AsSpace
  <2>2. declared[a].prec = declared[i].prec /\ (i \in N <=> a \in N) /\ a <= i /\ i <= a
    BY <2>1, <1>1
  <2>3. a \in 1 .. Len(declared) /\ i \in 1 .. Len(declared) /\ Len(declared) \in Nat
    BY DEF ImportsInv
  <2> QED BY <2>2, <2>3
<1> QED BY <1>2, <1>3

\* The last declaration of white space in x, and no other of x is above it.
LEMMA LastStrip ==
  ASSUME ImportsInv, ~LateImports, NEW x, NEW strip, NEW prec, LatestStrip(declared, x, strip, prec)
  PROVE  \E i \in OfSpace(declared, x) :
            /\ strip = declared[i].what.strip /\ prec = declared[i].prec /\ prec \in Nat
            /\ \A b \in OfSpace(declared, x) : b <= i /\ declared[b].prec \in Nat /\ declared[b].prec <= prec
<1>1. PICK i \in 1 .. Len(declared) : /\ IsLastOf(i, OfSpace(declared, x))
                                      /\ strip = declared[i].what.strip /\ prec = declared[i].prec
  BY DEF LatestStrip
<1>2. i \in OfSpace(declared, x) /\ \A b \in OfSpace(declared, x) : b \in 1 .. Len(declared) /\ b <= i
  BY <1>1 DEF IsLastOf, OfSpace
<1>3. \A b \in OfSpace(declared, x) : declared[b].prec <= declared[i].prec
  BY <1>1, <1>2 DEF ImportsInv, Rising
<1>4. \A b \in OfSpace(declared, x) : declared[b].prec \in Nat
  BY <1>2, UnitsFollow
<1> QED BY <1>1, <1>2, <1>3, <1>4

LEMMA StripHolds ==
  ASSUME ImportsInv, ~LateImports, TablesInv, ~failed, NEW x \in Names
  PROVE  Strips(x) <=> \E i \in SpaceHolder(x) : declared[i].what.strip
<1> DEFINE N == OfSpace(declared, x)
           M == OfSpace(declared, "*")
           T == N \cup M
           tokens == wsInfo.tokens
           all == wsInfo.stripAll
           p == wsInfo.wildcardPrec
<1>1. LatestSpace(declared, all, p, tokens)
  BY TablesParts
<1>2. DOMAIN declared = 1 .. Len(declared)
  BY DEF ImportsInv
<1>3. SpaceHolder(x) = {a \in T : AsSpace(N, T, a)}
  BY <1>2, SpaceHolderIs
<1>4. T \in SUBSET (1 .. Len(declared))
  BY DEF OfSpace
<1>5. \A b \in N : b \in M => x = "*"
  BY DEF OfSpace
<1>6. Strips(x) = IF x \in DOMAIN tokens /\ tokens[x].prec >= p THEN tokens[x].strip ELSE all
  BY DEF Strips
<1>7. x = "*" => M = N /\ x \notin DOMAIN tokens
  BY <1>1 DEF LatestSpace
<1>8. x # "*" /\ x \notin DOMAIN tokens => N = {}
  BY <1>1 DEF LatestSpace
<1>9. (M = {} /\ all = FALSE /\ p = 0) \/ LatestStrip(declared, "*", all, p)
  BY <1>1 DEF LatestSpace
<1>10. x \in DOMAIN tokens => LatestStrip(declared, x, tokens[x].strip, tokens[x].prec)
  BY <1>1 DEF LatestSpace
<1>11. x \in DOMAIN tokens =>
         \E n \in N : /\ tokens[x].strip = declared[n].what.strip
                      /\ tokens[x].prec = declared[n].prec /\ tokens[x].prec \in Nat
                      /\ \A b \in N : /\ b <= n /\ declared[b].prec \in Nat
                                      /\ declared[b].prec <= tokens[x].prec
  BY <1>10, LastStrip
<1>12. LatestStrip(declared, "*", all, p) =>
         \E s \in M : /\ all = declared[s].what.strip /\ p = declared[s].prec /\ p \in Nat
                      /\ \A b \in M : b <= s /\ declared[b].prec \in Nat /\ declared[b].prec <= p
  BY LastStrip
<1>13. p \in Nat /\ \A b \in M : declared[b].prec \in Nat /\ declared[b].prec <= p
  BY <1>9, <1>12
<1>14. N \subseteq T /\ M \subseteq T /\ \A b \in T : b \in N \/ b \in M
  OBVIOUS
<1> HIDE DEF N, M, T, tokens, all, p
<1>15. CASE x \in DOMAIN tokens /\ tokens[x].prec >= p
  <2>1. PICK n \in N : /\ tokens[x].strip = declared[n].what.strip
                       /\ tokens[x].prec = declared[n].prec /\ tokens[x].prec \in Nat
                       /\ \A b \in N : /\ b <= n /\ declared[b].prec \in Nat
                                       /\ declared[b].prec <= tokens[x].prec
    BY <1>11, <1>15
  <2>2. \A b \in M : b \notin N
    BY <1>5, <1>7, <1>15
  <2>3. \A b \in T : \/ declared[b].prec < declared[n].prec
                     \/ declared[b].prec = declared[n].prec /\ n \in N /\ b \notin N
                     \/ declared[b].prec = declared[n].prec /\ (n \in N <=> b \in N) /\ b <= n
    BY <2>1, <2>2, <1>13, <1>15, <1>14
  <2>4. {a \in T : AsSpace(N, T, a)} = {n}
    BY <2>3, <1>4, <1>14, OnlyHolder
  <2> QED BY <2>1, <2>4, <1>3, <1>6, <1>15
<1>16. CASE ~(x \in DOMAIN tokens /\ tokens[x].prec >= p) /\ LatestStrip(declared, "*", all, p)
  <2>1. PICK s \in M : /\ all = declared[s].what.strip /\ p = declared[s].prec /\ p \in Nat
                       /\ \A b \in M : b <= s /\ declared[b].prec \in Nat /\ declared[b].prec <= p
    BY <1>12, <1>16
  <2>2. CASE x = "*"
    <3>1. \A b \in T : b \in M /\ b \in N /\ s \in N
      BY <2>2, <1>7, <1>14
    <3>2. \A b \in T : \/ declared[b].prec < declared[s].prec
                       \/ declared[b].prec = declared[s].prec /\ (s \in N <=> b \in N) /\ b <= s
      BY <3>1, <2>1
    <3>3. {a \in T : AsSpace(N, T, a)} = {s}
      BY <3>2, <1>4, <1>14, OnlyHolder
    <3> QED BY <3>3, <2>1, <1>3, <1>6, <1>16
  <2>3. CASE x # "*"
    <3>1. s \notin N /\ \A b \in M : b \notin N
      BY <2>3, <1>5
    <3>2. \A b \in N : declared[b].prec < p
      BY <2>3, <1>8, <1>11, <1>13, <1>16
    <3>3. \A b \in T : \/ declared[b].prec < declared[s].prec
                       \/ declared[b].prec = declared[s].prec /\ (s \in N <=> b \in N) /\ b <= s
      BY <3>1, <3>2, <2>1, <1>14
    <3>4. {a \in T : AsSpace(N, T, a)} = {s}
      BY <3>3, <1>4, <1>14, OnlyHolder
    <3> QED BY <3>4, <2>1, <1>3, <1>6, <1>16
  <2> QED BY <2>2, <2>3
<1>17. CASE ~(x \in DOMAIN tokens /\ tokens[x].prec >= p) /\ M = {} /\ all = FALSE /\ p = 0
  <2>1. x \notin DOMAIN tokens
    BY <1>11, <1>17
  <2>2. T = {}
    BY <2>1, <1>7, <1>8, <1>17, <1>14
  <2> QED BY <2>2, <1>3, <1>6, <1>17
<1> QED BY <1>9, <1>15, <1>16, <1>17

\* Of several declarations of one name, the one that a table holds is of the
\* highest import precedence and the last of these; and for white space one that
\* names the element comes before one that says * (domxslt.c: the tables filled
\* by processTopLevel, and StripXMLSpace).  Of a sheet that, once included, goes on
\* to import below what its includer has declared, this is not said.
THEOREM HighestHolds == ASSUME ~LateImports PROVE Spec => []HighestDeclarationHolds
<1>1. ImportsInv /\ TablesInv => HighestDeclarationHolds
  <2> SUFFICES ASSUME ImportsInv, TablesInv, ~failed
               PROVE  /\ PrecedencesFollowImports
                      /\ \A x \in VarNames : Holds(toplevel, "variable", x)
                      /\ \A x \in Names :
                           /\ Holds(named, "named", x) /\ Holds(aliases, "alias", x)
                           /\ Strips(x) <=> \E i \in SpaceHolder(x) : declared[i].what.strip
    BY DEF HighestDeclarationHolds
  <2>1. /\ Latest(declared, named, "named", Names) /\ Latest(declared, toplevel, "variable", VarNames)
        /\ Latest(declared, aliases, "alias", Names)
    BY TablesParts
  <2>2. /\ \A x \in VarNames : Holds(toplevel, "variable", x)
        /\ \A x \in Names : Holds(named, "named", x) /\ Holds(aliases, "alias", x)
    BY <2>1, TableHolds
  <2> QED BY <2>2, StripHolds DEF ImportsInv
<1>2. ImportsInv /\ TablesInv /\ [Next]_vars => TablesInv'
  BY TablesKept
<1>3. Spec => []TablesInv
  BY <1>2, TablesAtFirst, ImportsInvariance, PTL DEF Spec
<1> QED BY <1>1, <1>3, ImportsInvariance, PTL
=============================================================================
