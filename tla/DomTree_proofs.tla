--------------------------- MODULE DomTree_proofs ---------------------------
(* The pointers of dom.c make trees, for any number of documents and nodes.    *)
(* Every node in use has a place: a list H[x], the children of a document or   *)
(* of an element, or for x in F the fragment list of a document.  Toward,      *)
(* Stops and Ends say what the sibling pointers of places look like; an        *)
(* operation takes a node out (Cut...), lets it float, and puts it back        *)
(* (Put...); searches are the least sets closed under a step (ReachIsLeast).   *)
EXTENDS DomTree, FiniteSetTheorems, TLAPS

(* Every set of numbers that is not empty has a least element.               *)
LEMMA LeastNumber ==
  ASSUME NEW T \in SUBSET Nat, T # {}
  PROVE  \E n \in T : \A m \in T : n <= m
<1> DEFINE U == {0 .. n : n \in T}
<1>1. U \subseteq FiniteSubsetsOf(Nat)
  <2> SUFFICES ASSUME NEW n \in T PROVE 0 .. n \in SUBSET Nat /\ IsFiniteSet(0 .. n)
    BY DEF FiniteSubsetsOf
  <2> QED BY FS_Interval
<1>2. U # {}
  OBVIOUS
<1>3. IsWellFoundedOn(StrictSubsetOrdering(Nat), FiniteSubsetsOf(Nat))
  BY FS_StrictSubsetOrderingWellFounded
<1> HIDE DEF U
<1>4. PICK x \in U : \A y \in U : ~ (<<y, x>> \in StrictSubsetOrdering(Nat))
  BY <1>1, <1>2, <1>3, WFMin
<1>5. PICK n \in T : x = 0 .. n
  BY DEF U
<1>6. ASSUME NEW m \in T, m < n PROVE FALSE
  <2>1. 0 .. m \in U
    BY DEF U
  <2>2. <<0 .. m, x>> \in StrictSubsetOrdering(Nat)
    BY <1>5, <1>6 DEF StrictSubsetOrdering
  <2> QED BY <2>1, <2>2, <1>4
<1> QED BY <1>6

(* Induction over the numbers, for sets.                                     *)
LEMMA NumberSet ==
  ASSUME NEW T, 0 \in T, \A n \in Nat : n \in T => n + 1 \in T
  PROVE  Nat \subseteq T
<1> SUFFICES ASSUME Nat \ T # {} PROVE FALSE
  OBVIOUS
<1>1. PICK n \in Nat \ T : \A m \in Nat \ T : n <= m
  BY LeastNumber
<1>2. n # 0 /\ n - 1 \in Nat /\ n - 1 \in T
  BY <1>1
<1> QED BY <1>2

(* What Reach computes, step by step: such a function exists.                *)
Search(step, S, N, met) ==
  met = [k \in 0 .. N |-> IF k = 0 THEN S
                          ELSE met[k - 1] \cup UNION {step[y] : y \in met[k - 1]}]

(* The function that Reach counts up to exists, for every number of steps.   *)
LEMMA SearchExists ==
  ASSUME NEW step, NEW S, NEW N \in Nat
  PROVE  \E met : Search(step, S, N, met)
<1> DEFINE T == {n \in Nat : \E met : Search(step, S, n, met)}
<1>1. 0 \in T
  <2>1. Search(step, S, 0, [k \in 0 .. 0 |-> S])
    BY DEF Search
  <2> QED BY <2>1
<1>2. ASSUME NEW n \in Nat, n \in T PROVE n + 1 \in T
  <2>1. PICK met : Search(step, S, n, met)
    BY <1>2
  <2> DEFINE new == [k \in 0 .. (n + 1) |->
                       IF k = n + 1 THEN met[n] \cup UNION {step[y] : y \in met[n]}
                       ELSE met[k]]
  <2>2. Search(step, S, n + 1, new)
    <3>1. \A k \in 0 .. (n + 1) : new[k] = IF k = 0 THEN S
                          ELSE new[k - 1] \cup UNION {step[y] : y \in new[k - 1]}
      <4> TAKE k \in 0 .. (n + 1)
      <4>1. CASE k = n + 1
        BY <4>1
      <4>2. CASE k \in 0 .. n
        <5>1. met[k] = IF k = 0 THEN S
                       ELSE met[k - 1] \cup UNION {step[y] : y \in met[k - 1]}
          BY <2>1, <4>2 DEF Search
        <5>2. new[k] = met[k] /\ (k # 0 => new[k - 1] = met[k - 1])
          BY <4>2
        <5> HIDE DEF new
        <5> QED BY <5>1, <5>2
      <4>3. k = n + 1 \/ k \in 0 .. n
        OBVIOUS
      <4> HIDE DEF new
      <4> QED BY <4>1, <4>2, <4>3
    <3> HIDE DEF new
    <3>2. new = [k \in 0 .. (n + 1) |-> new[k]]
      BY DEF new
    <3> QED BY <3>1, <3>2 DEF Search
  <2> QED BY <2>2
<1>3. Nat \subseteq T
  <2> HIDE DEF T
  <2> QED BY <1>1, <1>2, NumberSet
<1> QED BY <1>3

\* No step leads out of T.
Closed(step, T) == \A y \in T : step[y] \subseteq T

(* What Reach finds is closed, and nothing closed is smaller: as long as the *)
(* search finds something new, it finds one node more.                       *)
LEMMA ReachIsLeast ==
  ASSUME NEW step \in [Nodes -> SUBSET Nodes], NEW S \in SUBSET Nodes
  PROVE  /\ Reach(step, S) \in SUBSET Nodes
         /\ S \subseteq Reach(step, S)
         /\ Closed(step, Reach(step, S))
         /\ \A T \in SUBSET Nodes : S \subseteq T /\ Closed(step, T)
                                     => Reach(step, S) \subseteq T
<1> DEFINE N == Cardinality(Nodes)
           met == CHOOSE met : Search(step, S, N, met)
           more(T) == T \cup UNION {step[y] : y \in T}
<1>1. N \in Nat /\ IsFiniteSet(Nodes)
  BY Disjoint, FS_CardinalityType
<1>2. Reach(step, S) = met[N]
  BY Zenon DEF Reach, Search
<1>3. Search(step, S, N, met)
  <2> HIDE DEF N
  <2>1. \E m : Search(step, S, N, m)
    BY <1>1, SearchExists
  <2> QED BY <2>1, Zenon
<1> HIDE DEF met, N
<1>4. met[0] = S /\ \A k \in 1 .. N : met[k] = more(met[k - 1])
  <2>1. \A k \in 0 .. N : met[k] = IF k = 0 THEN S ELSE more(met[k - 1])
    BY <1>1, <1>3 DEF Search
  <2> HIDE DEF more
  <2>2. met[0] = S
    BY <2>1, <1>1
  <2>3. ASSUME NEW k \in 1 .. N PROVE met[k] = more(met[k - 1])
    BY <2>1, <1>1
  <2> QED BY <2>2, <2>3
<1>5. ASSUME NEW T \in SUBSET Nodes, S \subseteq T, Closed(step, T)
      PROVE  \A k \in 0 .. N : met[k] \subseteq T
  <2> DEFINE K == {k \in Nat : k <= N => met[k] \subseteq T}
  <2>1. 0 \in K
    BY <1>4, <1>5
  <2>2. ASSUME NEW k \in Nat, k \in K, k + 1 <= N PROVE k + 1 \in K
    <3>1. met[k] \subseteq T
      BY <2>2, <1>1
    <3>2. met[k + 1] = more(met[k])
      BY <2>2, <1>1, <1>4
    <3>3. met[k + 1] \subseteq T
      BY <3>1, <3>2, <1>5 DEF Closed
    <3> QED BY <3>3
  <2>3. ASSUME NEW k \in Nat, k \in K PROVE k + 1 \in K
    BY <2>2, <2>3, <1>1
  <2>4. Nat \subseteq K
    <3> HIDE DEF K
    <3> QED BY <2>1, <2>3, NumberSet
  <2> QED BY <2>4, <1>1
<1>6. \A k \in 0 .. N : met[k] \subseteq Nodes
  <2>1. S \subseteq Nodes /\ Closed(step, Nodes)
    BY DEF Closed
  <2> QED BY <1>5, <2>1
<1>7. \A k \in 1 .. N : met[k - 1] \subseteq met[k]
  BY <1>4
<1>8. ASSUME NEW j \in 0 .. N, more(met[j]) = met[j]
      PROVE  met[N] = met[j]
  <2> DEFINE K == {k \in Nat : j + k <= N => met[j + k] = met[j]}
  <2>1. 0 \in K
    BY <1>1
  <2>2. ASSUME NEW k \in Nat, k \in K, j + k + 1 <= N PROVE k + 1 \in K
    <3>1. met[j + k] = met[j]
      BY <2>2, <1>1
    <3>2. met[j + k + 1] = more(met[j + k])
      BY <2>2, <1>1, <1>4
    <3>3. met[j + k + 1] = met[j]
      BY <3>1, <3>2, <1>8
    <3>4. j + (k + 1) = j + k + 1
      OBVIOUS
    <3>5. met[j + (k + 1)] = met[j]
      BY <3>3, <3>4
    <3> QED BY <3>5
  <2>3. ASSUME NEW k \in Nat, k \in K PROVE k + 1 \in K
    BY <2>2, <2>3, <1>1
  <2>4. Nat \subseteq K
    <3> HIDE DEF K
    <3> QED BY <2>1, <2>3, NumberSet
  <2>5. N - j \in Nat
    BY <1>1
  <2> QED BY <2>4, <2>5, <1>1
<1>9. ASSUME \A j \in 0 .. N : more(met[j]) # met[j] PROVE FALSE
  <2> DEFINE K == {k \in Nat : k <= N => Cardinality(met[k]) >= k}
  <2>1. 0 \in K
    <3>1. IsFiniteSet(S)
      BY <1>1, FS_Subset
    <3> QED BY <3>1, <1>4, FS_CardinalityType
  <2>2. ASSUME NEW k \in Nat, k \in K, k + 1 <= N PROVE k + 1 \in K
    <3>1. met[k + 1] = more(met[k]) /\ more(met[k]) # met[k]
      BY <2>2, <1>1, <1>4, <1>9
    <3>2. met[k] \subseteq met[k + 1] /\ met[k] # met[k + 1] /\ met[k + 1] \subseteq Nodes
      BY <3>1, <1>6, <2>2, <1>1
    <3>3. IsFiniteSet(met[k + 1])
      BY <3>2, <1>1, FS_Subset
    <3>4. Cardinality(met[k]) <= Cardinality(met[k + 1])
          /\ Cardinality(met[k]) # Cardinality(met[k + 1]) /\ IsFiniteSet(met[k])
      BY <3>2, <3>3, FS_Subset
    <3>5. Cardinality(met[k]) \in Nat /\ Cardinality(met[k + 1]) \in Nat
      BY <3>3, <3>4, FS_CardinalityType
    <3>6. Cardinality(met[k]) >= k
      BY <2>2, <1>1
    <3>7. Cardinality(met[k + 1]) >= k + 1
      BY <3>4, <3>5, <3>6
    <3> QED BY <3>7
  <2>3. ASSUME NEW k \in Nat, k \in K PROVE k + 1 \in K
    BY <2>2, <2>3, <1>1
  <2>4. Nat \subseteq K
    <3> HIDE DEF K
    <3> QED BY <2>1, <2>3, NumberSet
  <2>5. Cardinality(met[N]) >= N
    BY <2>4, <1>1
  <2>6. met[N] \subseteq Nodes /\ Cardinality(met[N]) <= N
    BY <1>6, <1>1, FS_Subset DEF N
  <2>7. Cardinality(met[N]) \in Nat
    BY <2>6, <1>1, FS_Subset, FS_CardinalityType
  <2>8. met[N] = Nodes
    BY <2>5, <2>6, <2>7, <1>1, FS_Subset DEF N
  <2>9. more(met[N]) = met[N]
    BY <2>8
  <2> QED BY <2>9, <1>9, <1>1
<1>10. PICK j \in 0 .. N : more(met[j]) = met[j]
  BY <1>9
<1>11. Closed(step, met[N])
  BY <1>10, <1>8 DEF Closed
<1>12. S \subseteq met[N]
  <2> DEFINE K == {k \in Nat : k <= N => S \subseteq met[k]}
  <2>1. 0 \in K
    BY <1>4
  <2>2. ASSUME NEW k \in Nat, k \in K PROVE k + 1 \in K
    BY <1>1, <1>4, <2>2
  <2>3. Nat \subseteq K
    <3> HIDE DEF K
    <3> QED BY <2>1, <2>2, NumberSet
  <2> QED BY <2>3, <1>1
<1>13. met[N] \subseteq Nodes
  BY <1>6, <1>1
<1>14. \A T \in SUBSET Nodes : S \subseteq T /\ Closed(step, T) => met[N] \subseteq T
  BY <1>5, <1>1
<1> QED BY <1>2, <1>11, <1>12, <1>13, <1>14

----------------------------------------------------------------------------
(* What the searches of the model find.                                      *)
Pointer == Nodes \cup {NULL}

(* The chain from x by a pointer f is the least set with x that f stays in.  *)
LEMMA ChainIsLeast ==
  ASSUME NEW f \in [Nodes -> Pointer], NEW x \in Pointer
  PROVE  /\ InChain(f, x) \in SUBSET Nodes
         /\ x # NULL => x \in InChain(f, x)
         /\ \A y \in InChain(f, x) : f[y] # NULL => f[y] \in InChain(f, x)
         /\ \A T \in SUBSET Nodes :
               /\ x # NULL => x \in T
               /\ \A y \in T : f[y] # NULL => f[y] \in T
               => InChain(f, x) \subseteq T
<1> DEFINE step == [y \in Nodes |-> Maybe(f[y])]
<1>1. step \in [Nodes -> SUBSET Nodes] /\ Maybe(x) \in SUBSET Nodes
  BY Disjoint DEF Maybe, Pointer, All
<1>2. \A y \in Nodes : step[y] = Maybe(f[y])
  OBVIOUS
<1>3. InChain(f, x) = Reach(step, Maybe(x))
  BY DEF InChain
<1> HIDE DEF step
<1>4. /\ InChain(f, x) \in SUBSET Nodes
      /\ Maybe(x) \subseteq InChain(f, x)
      /\ Closed(step, InChain(f, x))
      /\ \A T \in SUBSET Nodes : Maybe(x) \subseteq T /\ Closed(step, T)
                                  => InChain(f, x) \subseteq T
  BY <1>1, <1>3, ReachIsLeast
<1> QED BY <1>2, <1>4 DEF Maybe, Closed

(* Ancestors holds the node, and the parents of what it holds.               *)
LEMMA AncestorsClosed ==
  ASSUME NEW t, t.parent \in [Nodes -> Pointer], NEW p \in All
  PROVE  /\ p \in Ancestors(t, p)
         /\ \A y \in Ancestors(t, p) \cap Nodes : t.parent[y] # NULL =>
                                         t.parent[y] \in Ancestors(t, p)
         /\ p \in Nodes => Ancestors(t, p) \subseteq Nodes
<1> DEFINE step == [y \in Nodes |-> Maybe(t.parent[y])]
<1>1. step \in [Nodes -> SUBSET Nodes] /\ {p} \cap Nodes \in SUBSET Nodes
  BY Disjoint DEF Maybe, Pointer, All
<1>2. \A y \in Nodes : step[y] = Maybe(t.parent[y])
  OBVIOUS
<1>3. Ancestors(t, p) = {p} \cup Reach(step, {p} \cap Nodes)
  BY DEF Ancestors
<1> HIDE DEF step
<1>4. /\ Reach(step, {p} \cap Nodes) \in SUBSET Nodes
      /\ {p} \cap Nodes \subseteq Reach(step, {p} \cap Nodes)
      /\ Closed(step, Reach(step, {p} \cap Nodes))
  BY <1>1, ReachIsLeast
<1>5. \A y \in Ancestors(t, p) \cap Nodes : y \in Reach(step, {p} \cap Nodes)
  BY <1>3, <1>4
<1> QED BY <1>2, <1>3, <1>4, <1>5 DEF Maybe, Closed

\* What is visited from x: x, the ends of what is visited, and the siblings of
\* all but x; and nothing that this does not force.
Met(e, f, x, R) ==
  /\ Visited(e, f, x) = {x} \cup R
  /\ \A y \in (R \cup {x}) \cap Elems : e[y] # NULL => e[y] \in R
  /\ \A y \in R : f[y] # NULL => f[y] \in R
  /\ \A T \in SUBSET Nodes :
        /\ x \in Elems /\ e[x] # NULL => e[x] \in T
        /\ \A y \in T : /\ f[y] # NULL => f[y] \in T
                        /\ y \in Elems /\ e[y] # NULL => e[y] \in T
        => R \subseteq T

(* Visited finds that and no more.                                           *)
LEMMA VisitedIsLeast ==
  ASSUME NEW e \in [Parents -> Pointer], NEW f \in [Nodes -> Pointer], NEW x \in Nodes
  PROVE  \E R \in SUBSET Nodes : Met(e, f, x, R)
<1> DEFINE inside(y) == IF y \in Elems THEN Maybe(e[y]) ELSE {}
           step == [y \in Nodes |-> Maybe(f[y]) \cup inside(y)]
           R == Reach(step, inside(x))
<1>1. \A y \in Nodes : inside(y) \in SUBSET Nodes
  BY Disjoint DEF Maybe, Pointer, All, Parents
<1>2. \A y \in Nodes : step[y] = Maybe(f[y]) \cup inside(y)
  OBVIOUS
<1>3. step \in [Nodes -> SUBSET Nodes]
  <2> SUFFICES \A y \in Nodes : Maybe(f[y]) \cup inside(y) \in SUBSET Nodes
    OBVIOUS
  <2> HIDE DEF inside
  <2> QED BY <1>1, Disjoint DEF Maybe, Pointer, All
<1>4. Visited(e, f, x) = {x} \cup R
  BY DEF Visited
<1>5. \A y \in Nodes : inside(y) = IF y \in Elems THEN Maybe(e[y]) ELSE {}
  OBVIOUS
<1> HIDE DEF step, inside
<1>6. /\ R \in SUBSET Nodes
      /\ inside(x) \subseteq R
      /\ Closed(step, R)
      /\ \A T \in SUBSET Nodes : inside(x) \subseteq T /\ Closed(step, T) => R \subseteq T
  BY <1>1, <1>3, ReachIsLeast
<1> HIDE DEF R
<1>7. \A y \in R \cup {x} : inside(y) \subseteq R
  BY <1>2, <1>6 DEF Closed
<1>8. \A y \in (R \cup {x}) \cap Elems : e[y] # NULL => e[y] \in R
  BY <1>5, <1>6, <1>7 DEF Maybe
<1>9. \A y \in R : f[y] # NULL => f[y] \in R
  BY <1>2, <1>6 DEF Closed, Maybe
<1>10. ASSUME NEW T \in SUBSET Nodes, x \in Elems /\ e[x] # NULL => e[x] \in T,
              \A y \in T : /\ f[y] # NULL => f[y] \in T
                           /\ y \in Elems /\ e[y] # NULL => e[y] \in T
       PROVE  R \subseteq T
  <2>1. inside(x) \subseteq T
    BY <1>5, <1>10 DEF Maybe
  <2>2. Closed(step, T)
    BY <1>2, <1>5, <1>10 DEF Maybe, Closed
  <2> QED BY <2>1, <2>2, <1>6
<1> QED BY <1>4, <1>6, <1>8, <1>9, <1>10 DEF Met

----------------------------------------------------------------------------
(* Sibling chains.  M are the nodes that have a place, H says in which list: *)
(* that of the children of H[y], or for y in F the fragment list of H[y].    *)
(* f and g stand for nextSibling and previousSibling, or the other way.      *)

\* f leads from a node to another of its list, and g back.
Toward(f, g, M, H, F) ==
  \A y \in M : f[y] # NULL => /\ f[y] \in M /\ g[f[y]] = y
                              /\ H[f[y]] = H[y] /\ (f[y] \in F <=> y \in F)

\* No chain goes round: each set of nodes has one that f leads out of.
Stops(f, M) == \A S \in SUBSET M : S # {} => \E y \in S : f[y] \notin S

\* e names an end of each of the lists of D, whose nodes are K: one that g does
\* not lead on from, and the only one.
Ends(e, g, D, K, H) ==
  /\ \A p \in D : e[p] # NULL => e[p] \in K /\ g[e[p]] = NULL /\ H[e[p]] = p
  /\ \A y \in K : g[y] = NULL => e[H[y]] = y

\* x is taken out of its chain, as f shows it, or as the list ends e show it.
CutLink(f, g, ff, x) == \A y \in Nodes : ff[y] = IF y = g[x] THEN f[x] ELSE f[y]
CutEnd(e, f, g, ee, D, K, H, x) ==
  \A p \in D : ee[p] = IF x \in K /\ g[x] = NULL /\ p = H[x] THEN f[x] ELSE e[p]

\* x is put between a and b, there or at the end e of the list h.
PutLink(f, ff, M, x, a, b) ==
  \A y \in M \cup {x} : ff[y] = IF y = a THEN x ELSE IF y = x THEN b ELSE f[y]
PutEnd(e, ee, D, a, h, x) == \A p \in D : ee[p] = IF a = NULL /\ p = h THEN x ELSE e[p]

InLists(K, D, H) == \A y \in K : H[y] \in D

USE DEF CutLink, CutEnd, PutLink, PutEnd, InLists

(* A node that is taken out leaves a chain that is sound.                    *)
LEMMA CutToward ==
  ASSUME NEW M \in SUBSET Nodes, NEW H, NEW F, NEW x \in M, NEW f, NEW g, NEW ff, NEW gg,
         Toward(f, g, M, H, F), Toward(g, f, M, H, F), f[x] # x, g[x] # x,
         CutLink(f, g, ff, x), CutLink(g, f, gg, x)
  PROVE  Toward(ff, gg, M \ {x}, H, F \ {x})
<1> SUFFICES ASSUME NEW y \in M \ {x}, ff[y] # NULL
             PROVE  /\ ff[y] \in M \ {x} /\ gg[ff[y]] = y
                    /\ H[ff[y]] = H[y] /\ (ff[y] \in F \ {x} <=> y \in F \ {x})
  BY Zenon DEF Toward
<1>0. NULL \notin Nodes
  BY Disjoint DEF All
<1>1. CASE y = g[x]
  <2>1. ff[y] = f[x] /\ f[x] \in M /\ f[x] \in Nodes
    BY <1>1 DEF Toward
  <2>2. gg[f[x]] = g[x]
    BY <2>1
  <2>3. H[f[x]] = H[x] /\ H[g[x]] = H[x] /\ (f[x] \in F <=> x \in F) /\ (g[x] \in F <=> x \in F)
    BY <1>1, <2>1, <1>0 DEF Toward
  <2> QED BY <1>1, <2>1, <2>2, <2>3
<1>2. CASE y # g[x]
  <2>1. ff[y] = f[y] /\ f[y] \in M /\ g[f[y]] = y
    BY <1>2 DEF Toward
  <2>2. f[y] # x
    BY <2>1, <1>2
  <2>3. f[y] # f[x]
    BY <2>1, <1>2, <1>0 DEF Toward
  <2>4. gg[f[y]] = y
    BY <2>1, <2>3
  <2> QED BY <2>1, <2>2, <2>4, <1>2 DEF Toward
<1> QED BY <1>1, <1>2

(* Without it no chain goes round that did not before.                       *)
LEMMA CutStops ==
  ASSUME NEW M \in SUBSET Nodes, NEW H, NEW F, NEW x \in M, NEW f, NEW g, NEW ff, Stops(f, M),
         Toward(g, f, M, H, F), CutLink(f, g, ff, x)
  PROVE  Stops(ff, M \ {x})
<1>0. NULL \notin Nodes
  BY Disjoint DEF All
<1> SUFFICES ASSUME NEW S \in SUBSET (M \ {x}), S # {}, \A y \in S : ff[y] \in S
             PROVE  FALSE
  BY DEF Stops
<1>1. CASE g[x] \in S
  <2>1. f[g[x]] = x /\ f[x] \in S
    BY <1>1, <1>0 DEF Toward
  <2>2. \A y \in S \cup {x} : f[y] \in S \cup {x}
    BY <2>1
  <2>3. S \cup {x} \in SUBSET M /\ S \cup {x} # {}
    OBVIOUS
  <2> QED BY <2>2, <2>3 DEF Stops
<1>2. CASE g[x] \notin S
  <2>1. \A y \in S : f[y] \in S
    BY <1>2
  <2> QED BY <2>1, <1>2 DEF Stops
<1> QED BY <1>1, <1>2

\* x goes out of the list of its kind in which e names the ends.
(* The ends of the lists follow when they are moved on from it.              *)
LEMMA CutEnds ==
  ASSUME NEW M \in SUBSET Nodes, NEW H, NEW F, NEW D, NEW K \in SUBSET M, NEW x \in M,
         NEW f, NEW g, NEW gg, NEW e, NEW ee,
         Toward(f, g, M, H, F), Toward(g, f, M, H, F), f[x] # x,
         Ends(e, g, D, K, H), InLists(K, D, H),
         f[x] # NULL => (f[x] \in K <=> x \in K),
         CutLink(g, f, gg, x), CutEnd(e, f, g, ee, D, K, H, x)
  PROVE  Ends(ee, gg, D, K \ {x}, H)
<1>0. NULL \notin Nodes
  BY Disjoint DEF All
<1>1. ASSUME NEW p \in D, ee[p] # NULL
      PROVE  ee[p] \in K \ {x} /\ gg[ee[p]] = NULL /\ H[ee[p]] = p
  <2>1. CASE x \in K /\ g[x] = NULL /\ p = H[x]
    <3>1. ee[p] = f[x] /\ f[x] \in M /\ H[f[x]] = H[x] /\ f[x] \in K
      BY <2>1, <1>1 DEF Toward
    <3> QED BY <3>1, <2>1
  <2>2. CASE ~(x \in K /\ g[x] = NULL /\ p = H[x])
    <3>1. ee[p] = e[p] /\ e[p] \in K /\ g[e[p]] = NULL /\ H[e[p]] = p
      BY <2>2, <1>1 DEF Ends
    <3>2. e[p] # x
      BY <3>1, <2>2
    <3>3. e[p] # f[x]
      BY <3>1, <1>0 DEF Toward
    <3> QED BY <3>1, <3>2, <3>3
  <2> QED BY <2>1, <2>2
<1>2. ASSUME NEW y \in K \ {x}, gg[y] = NULL PROVE ee[H[y]] = y
  <2>1. CASE y = f[x]
    <3>1. g[x] = NULL /\ H[y] = H[x] /\ x \in K
      BY <2>1, <1>2, <1>0 DEF Toward
    <3> QED BY <3>1, <2>1, <1>2
  <2>2. CASE y # f[x]
    <3>1. g[y] = NULL /\ e[H[y]] = y /\ H[y] \in D
      BY <2>2, <1>2 DEF Ends
    <3>2. ~(x \in K /\ g[x] = NULL /\ H[y] = H[x])
      BY <3>1, <1>2 DEF Ends
    <3> QED BY <3>1, <3>2
  <2> QED BY <2>1, <2>2
<1> QED BY <1>1, <1>2 DEF Ends

(* A node x is put between a and b, neighbours in its list h.                *)
LEMMA PutToward ==
  ASSUME NEW M \in SUBSET Nodes, NEW H, NEW F, NEW x \in Nodes \ M,
         NEW f, NEW g, NEW ff, NEW gg, NEW HH, NEW FF, NEW a \in M \cup {NULL}, NEW b \in M \cup {NULL},
         Toward(f, g, M, H, F), a # NULL => f[a] = b, b # NULL => g[b] = a,
         \A y \in M : HH[y] = H[y] /\ (y \in FF <=> y \in F),
         a # NULL => HH[x] = H[a] /\ (x \in FF <=> a \in F),
         b # NULL => HH[x] = H[b] /\ (x \in FF <=> b \in F),
         PutLink(f, ff, M, x, a, b), PutLink(g, gg, M, x, b, a)
  PROVE  Toward(ff, gg, M \cup {x}, HH, FF)
<1>0. NULL \notin Nodes
  BY Disjoint DEF All
<1> SUFFICES ASSUME NEW y \in M \cup {x}, ff[y] # NULL
             PROVE  /\ ff[y] \in M \cup {x} /\ gg[ff[y]] = y
                    /\ HH[ff[y]] = HH[y] /\ (ff[y] \in FF <=> y \in FF)
  BY Zenon DEF Toward
<1>1. CASE y = a
  <2>1. ff[y] = x /\ gg[x] = a /\ x # b
    BY <1>1
  <2> QED BY <2>1, <1>1, <1>0
<1>2. CASE y = x
  <2>1. ff[y] = b /\ x # a /\ b # NULL /\ b \in M
    BY <1>2
  <2> QED BY <2>1, <1>2
<1>3. CASE y # a /\ y # x
  <2>1. ff[y] = f[y] /\ y \in M /\ f[y] \in M /\ g[f[y]] = y
    BY <1>3 DEF Toward
  <2>2. f[y] # b
    BY <2>1, <1>3, <1>0
  <2>3. gg[f[y]] = y
    BY <2>1, <2>2
  <2> QED BY <2>1, <2>3, <1>3 DEF Toward
<1> QED BY <1>1, <1>2, <1>3

(* A node that is put in makes no chain go round.                            *)
LEMMA PutStops ==
  ASSUME NEW M \in SUBSET Nodes, NEW H, NEW F, NEW x \in Nodes \ M, NEW f, NEW g, NEW ff,
         Stops(f, M),
         NEW a \in M \cup {NULL}, NEW b \in M \cup {NULL}, a # NULL => f[a] = b,
         Toward(f, g, M, H, F), PutLink(f, ff, M, x, a, b)
  PROVE  Stops(ff, M \cup {x})
<1>0. NULL \notin Nodes
  BY Disjoint DEF All
<1> SUFFICES ASSUME NEW S \in SUBSET (M \cup {x}), S # {}, \A y \in S : ff[y] \in S
             PROVE  FALSE
  BY DEF Stops
<1>1. CASE x \in S
  <2>1. ff[x] = b /\ b \in S /\ b \in M
    BY <1>1, <1>0
  <2>2. b \in S \ {x} /\ S \ {x} \subseteq M
    BY <2>1
  <2>3. \A y \in S \ {x} : f[y] \in S \ {x}
    <3> TAKE y \in S \ {x}
    <3>1. CASE y = a
      BY <3>1, <2>2, <1>0
    <3>2. CASE y # a
      <4>1. ff[y] = f[y] /\ f[y] \in S /\ f[y] \in M
        BY <3>2, <1>0 DEF Toward
      <4> QED BY <4>1
    <3> QED BY <3>1, <3>2
  <2> QED BY <2>2, <2>3 DEF Stops
<1>2. CASE x \notin S
  <2>1. \A y \in S : f[y] \in S
    BY <1>2
  <2> QED BY <2>1, <1>2 DEF Stops
<1> QED BY <1>1, <1>2

(* The ends of the lists follow when it becomes one where it has no          *)
(* neighbour.                                                                *)
LEMMA PutEnds ==
  ASSUME NEW M \in SUBSET Nodes, NEW H, NEW D, NEW K \in SUBSET M, NEW x \in Nodes \ M,
         NEW g, NEW gg, NEW e, NEW ee, NEW HH, NEW KK,
         NEW a \in M \cup {NULL}, NEW b \in M \cup {NULL},
         Ends(e, g, D, K, H), HH[x] \in D, InLists(K, D, H),
         \A y \in M : HH[y] = H[y],
         KK = K \cup {x}, a = NULL => b = e[HH[x]], b # NULL => g[b] = a /\ HH[x] = H[b],
         PutLink(g, gg, M, x, b, a), PutEnd(e, ee, D, a, HH[x], x)
  PROVE  Ends(ee, gg, D, KK, HH)
<1>0. NULL \notin Nodes
  BY Disjoint DEF All
<1>1. ASSUME NEW p \in D, ee[p] # NULL
      PROVE  ee[p] \in KK /\ gg[ee[p]] = NULL /\ HH[ee[p]] = p
  <2>1. CASE a = NULL /\ p = HH[x]
    BY <2>1
  <2>2. CASE ~(a = NULL /\ p = HH[x])
    <3>1. ee[p] = e[p] /\ e[p] \in K /\ g[e[p]] = NULL /\ H[e[p]] = p
      BY <2>2, <1>1 DEF Ends
    <3>2. e[p] # b
      BY <3>1, <2>2, <1>0
    <3> QED BY <3>1, <3>2
  <2> QED BY <2>1, <2>2
<1>2. ASSUME NEW y \in KK, gg[y] = NULL PROVE ee[HH[y]] = y
  <2>1. CASE y = x
    BY <2>1, <1>2, <1>0
  <2>2. CASE y # x
    <3>1. y \in K /\ g[y] = NULL /\ y # b /\ e[H[y]] = y /\ HH[y] = H[y]
      BY <2>2, <1>2, <1>0 DEF Ends
    <3>2. HH[y] \in D /\ ~(a = NULL /\ HH[y] = HH[x])
      BY <3>1
    <3> QED BY <3>1, <3>2
  <2> QED BY <2>1, <2>2
<1> QED BY <1>1, <1>2 DEF Ends

HIDE DEF CutLink, CutEnd, PutLink, PutEnd, InLists

----------------------------------------------------------------------------
(* The state between the steps of an operation.  Of the nodes L in use those *)
(* of M have a place, one node at most floats.                               *)

Trees == [parent : [Nodes -> Elems \cup {NULL}], prev : [Nodes -> Nodes \cup {NULL}],
          next : [Nodes -> Nodes \cup {NULL}],
          first : [Parents -> Nodes \cup {NULL}], last : [Parents -> Nodes \cup {NULL}],
          doc : [Nodes -> Docs \cup {NULL}],
          frag : [Docs -> Nodes \cup {NULL}], docel : [Docs -> Nodes \cup {NULL}]]

Lists(L) == Docs \cup (L \cap Elems)

Homes(t, L, M, H, F) ==
  /\ L \in SUBSET Nodes /\ M \in SUBSET L /\ F \in SUBSET M /\ H \in [Nodes -> Parents \cup {NULL}]
  /\ \A y \in M : H[y] \in Lists(L) /\ t.parent[y] = ParentFieldOf(H[y])
  /\ \A y \in F : H[y] \in Docs

Chains(t, M, H, F) ==
  /\ Toward(t.next, t.prev, M, H, F) /\ Toward(t.prev, t.next, M, H, F)
  /\ Stops(t.next, M) /\ Stops(t.prev, M)

ListEnds(t, L, M, H, F) ==
  /\ Ends(t.first, t.prev, Lists(L), M \ F, H)
  /\ Ends(t.last, t.next, Lists(L), M \ F, H)
  /\ Ends(t.frag, t.prev, Docs, F, H)
  /\ \A p \in Parents : t.first[p] = NULL <=> t.last[p] = NULL
  /\ \A y \in Elems \ L : t.first[y] = NULL

Placed(t, L, M, H, F) ==
  /\ t \in Trees /\ Homes(t, L, M, H, F) /\ Chains(t, M, H, F) /\ ListEnds(t, L, M, H, F)
  /\ Stops(t.parent, M)

\* ownerDocument of a node is that of the list it is in.
Owners(t, L, M, H) ==
  /\ \A y \in L : t.doc[y] \in Docs
  /\ \A y \in M : t.doc[y] = DocOf(t, H[y])

DocumentElements(t, L) ==
  \A d \in Docs : t.docel[d] # NULL =>
     t.docel[d] \in L /\ t.doc[t.docel[d]] = d /\ t.parent[t.docel[d]] = NULL

(* What Unlink changes, field by field.                                      *)
LEMMA UnlinkFields ==
  ASSUME NEW t \in Trees, NEW x \in Nodes, t.doc[x] \in Docs
  PROVE  LET u == Unlink(t, x)
             p == t.parent[x]
             d == t.doc[x]
             list == IF p # NULL THEN p ELSE d
             head == t.prev[x] = NULL
             detached == p = NULL /\ t.frag[d] = x
         IN  /\ u \in Trees
             /\ u.parent = t.parent /\ u.doc = t.doc /\ u.docel = t.docel
             /\ \A y \in Nodes : u.next[y] = IF y = t.prev[x] THEN t.next[x] ELSE t.next[y]
             /\ \A y \in Nodes : u.prev[y] = IF y = t.next[x] THEN t.prev[x] ELSE t.prev[y]
             /\ \A q \in Parents : u.first[q] = IF head /\ ~detached /\ q = list
                                                THEN t.next[x] ELSE t.first[q]
             /\ \A q \in Parents : u.last[q] =
                   IF t.next[x] = NULL /\ (p # NULL \/ t.last[d] = x) /\ q = list
                   THEN t.prev[x] ELSE t.last[q]
             /\ \A q \in Docs : u.frag[q] = IF head /\ detached /\ q = d
                                            THEN t.next[x] ELSE t.frag[q]
<1> DEFINE u == Unlink(t, x)
           p == t.parent[x]
           d == t.doc[x]
           l == t.prev[x]
           r == t.next[x]
           list == IF p # NULL THEN p ELSE d
           left == IF l # NULL THEN [t EXCEPT !.next[l] = r]
                   ELSE IF p = NULL /\ t.frag[d] = x THEN [t EXCEPT !.frag[d] = r]
                   ELSE [t EXCEPT !.first[list] = r]
<1>0. NULL \notin Nodes /\ NULL \notin Docs
  BY Disjoint DEF All
<1>1. /\ p \in Elems \cup {NULL} /\ d \in Docs /\ l \in Nodes \cup {NULL}
      /\ r \in Nodes \cup {NULL} /\ list \in Parents
  BY DEF Trees, Parents
<1>2. /\ left \in Trees
      /\ left.parent = t.parent /\ left.doc = t.doc /\ left.docel = t.docel
      /\ left.prev = t.prev /\ left.last = t.last
      /\ \A y \in Nodes : left.next[y] = IF y = l THEN r ELSE t.next[y]
      /\ \A q \in Parents : left.first[q] = IF l = NULL /\ ~(p = NULL /\ t.frag[d] = x) /\ q = list
                                            THEN r ELSE t.first[q]
      /\ \A q \in Docs : left.frag[q] = IF l = NULL /\ (p = NULL /\ t.frag[d] = x) /\ q = d
                                        THEN r ELSE t.frag[q]
  <2> HIDE DEF p, d, l, r, list
  <2>1. CASE l # NULL
    BY <2>1, <1>0, <1>1 DEF Trees
  <2>2. CASE l = NULL /\ p = NULL /\ t.frag[d] = x
    BY <2>2, <1>0, <1>1 DEF Trees
  <2>3. CASE l = NULL /\ ~(p = NULL /\ t.frag[d] = x)
    BY <2>3, <1>0, <1>1 DEF Trees
  <2> QED BY <2>1, <2>2, <2>3
<1>3. u = IF r # NULL THEN [left EXCEPT !.prev[r] = l]
          ELSE IF p # NULL \/ t.last[d] = x THEN [left EXCEPT !.last[list] = l]
          ELSE left
  BY DEF Unlink
<1> HIDE DEF u, left, p, d, l, r, list
<1>4. /\ u \in Trees
      /\ u.parent = t.parent /\ u.doc = t.doc /\ u.docel = t.docel
      /\ u.next = left.next /\ u.first = left.first /\ u.frag = left.frag
      /\ \A y \in Nodes : u.prev[y] = IF y = r THEN l ELSE t.prev[y]
      /\ \A q \in Parents : u.last[q] = IF r = NULL /\ (p # NULL \/ t.last[d] = x) /\ q = list
                                        THEN l ELSE t.last[q]
  <2>1. CASE r # NULL
    BY <2>1, <1>0, <1>1, <1>2, <1>3 DEF Trees
  <2>2. CASE r = NULL /\ (p # NULL \/ t.last[d] = x)
    BY <2>2, <1>0, <1>1, <1>2, <1>3 DEF Trees
  <2>3. CASE r = NULL /\ ~(p # NULL \/ t.last[d] = x)
    BY <2>3, <1>0, <1>1, <1>2, <1>3 DEF Trees
  <2> QED BY <2>1, <2>2, <2>3
<1> QED BY <1>2, <1>4 DEF u, p, d, l, r, list

(* What the pointers of a placed node say of its place.                      *)
LEMMA PlaceOf ==
  ASSUME NEW t, NEW L, NEW M, NEW H, NEW F, NEW x \in M,
         Placed(t, L, M, H, F), Owners(t, L, M, H)
  PROVE  /\ x \in Nodes /\ x \in L /\ t.doc[x] \in Docs
         /\ H[x] = IF t.parent[x] # NULL THEN t.parent[x] ELSE t.doc[x]
         /\ H[x] \in Docs <=> t.parent[x] = NULL
         /\ t.next[x] # x /\ t.prev[x] # x
         /\ t.prev[x] = NULL => (x \in F <=> (t.parent[x] = NULL /\ t.frag[t.doc[x]] = x))
         /\ t.next[x] = NULL => (x \notin F <=> (t.parent[x] # NULL \/ t.last[t.doc[x]] = x))
<1>0. NULL \notin Nodes /\ NULL \notin Docs /\ Docs \cap Nodes = {} /\ Elems \subseteq Nodes
  BY Disjoint DEF All, Nodes
<1>1. x \in Nodes /\ x \in L /\ t.doc[x] \in Docs
  BY DEF Placed, Homes, Owners
<1>2. H[x] \in Lists(L) /\ t.parent[x] = ParentFieldOf(H[x]) /\ t.doc[x] = DocOf(t, H[x])
  BY DEF Placed, Homes, Owners
<1>3. /\ H[x] = IF t.parent[x] # NULL THEN t.parent[x] ELSE t.doc[x]
      /\ H[x] \in Docs <=> t.parent[x] = NULL
  BY <1>0, <1>2 DEF ParentFieldOf, DocOf, Lists
<1>4. t.next[x] # x /\ t.prev[x] # x
  <2>1. {x} \in SUBSET M /\ {x} # {}
    OBVIOUS
  <2> QED BY <2>1 DEF Placed, Chains, Stops
<1>5. ASSUME t.prev[x] = NULL
      PROVE  x \in F <=> (t.parent[x] = NULL /\ t.frag[t.doc[x]] = x)
  <2>1. x \in F => H[x] \in Docs /\ t.frag[H[x]] = x
    BY <1>5 DEF Placed, Homes, ListEnds, Ends
  <2>2. t.frag[t.doc[x]] = x => x \in F
    BY <1>0, <1>1 DEF Placed, ListEnds, Ends
  <2> QED BY <2>1, <2>2, <1>3
<1>6. ASSUME t.next[x] = NULL
      PROVE  x \notin F <=> (t.parent[x] # NULL \/ t.last[t.doc[x]] = x)
  <2>1. x \notin F => t.last[H[x]] = x
    BY <1>6 DEF Placed, Homes, ListEnds, Ends
  <2>2. t.last[t.doc[x]] = x => x \notin F
    BY <1>0, <1>1 DEF Placed, ListEnds, Ends, Lists
  <2>3. t.parent[x] # NULL => x \notin F
    BY <1>3 DEF Placed, Homes
  <2> QED BY <2>1, <2>2, <2>3, <1>3
<1> QED BY <1>1, <1>3, <1>4, <1>5, <1>6

(* A node that is unlinked floats, and the rest keeps its places.            *)
LEMMA UnlinkPlaced ==
  ASSUME NEW t, NEW L, NEW M, NEW H, NEW F, NEW x \in M,
         Placed(t, L, M, H, F), Owners(t, L, M, H)
  PROVE  Placed(Unlink(t, x), L, M \ {x}, H, F \ {x})
<1> DEFINE u == Unlink(t, x)
<1>0. NULL \notin Nodes /\ NULL \notin Docs /\ Docs \cap Nodes = {} /\ Elems \subseteq Nodes
  BY Disjoint DEF All, Nodes
<1>1. /\ t \in Trees /\ Homes(t, L, M, H, F) /\ Chains(t, M, H, F) /\ ListEnds(t, L, M, H, F)
      /\ Stops(t.parent, M)
  BY DEF Placed
<1>2. /\ x \in Nodes /\ x \in L /\ t.doc[x] \in Docs
      /\ H[x] = IF t.parent[x] # NULL THEN t.parent[x] ELSE t.doc[x]
      /\ H[x] \in Docs <=> t.parent[x] = NULL
      /\ t.next[x] # x /\ t.prev[x] # x
      /\ t.prev[x] = NULL => (x \in F <=> (t.parent[x] = NULL /\ t.frag[t.doc[x]] = x))
      /\ t.next[x] = NULL => (x \notin F <=> (t.parent[x] # NULL \/ t.last[t.doc[x]] = x))
  BY PlaceOf
<1>3. /\ u \in Trees
      /\ u.parent = t.parent /\ u.doc = t.doc /\ u.docel = t.docel
      /\ \A y \in Nodes : u.next[y] = IF y = t.prev[x] THEN t.next[x] ELSE t.next[y]
      /\ \A y \in Nodes : u.prev[y] = IF y = t.next[x] THEN t.prev[x] ELSE t.prev[y]
      /\ \A q \in Parents : u.first[q] = IF t.prev[x] = NULL /\ x \notin F /\ q = H[x]
                                         THEN t.next[x] ELSE t.first[q]
      /\ \A q \in Parents : u.last[q] = IF t.next[x] = NULL /\ x \notin F /\ q = H[x]
                                        THEN t.prev[x] ELSE t.last[q]
      /\ \A q \in Docs : u.frag[q] = IF t.prev[x] = NULL /\ x \in F /\ q = H[x]
                                     THEN t.next[x] ELSE t.frag[q]
  BY <1>1, <1>2, UnlinkFields
<1> HIDE DEF u
<1>4. /\ Toward(t.next, t.prev, M, H, F) /\ Toward(t.prev, t.next, M, H, F)
      /\ Stops(t.next, M) /\ Stops(t.prev, M)
      /\ M \in SUBSET Nodes /\ L \in SUBSET Nodes /\ F \in SUBSET M /\ M \in SUBSET L
      /\ H \in [Nodes -> Parents \cup {NULL}] /\ \A y \in M : H[y] \in Lists(L)
  BY <1>1 DEF Chains, Homes
<1>5. Homes(u, L, M \ {x}, H, F \ {x})
  BY <1>1, <1>3 DEF Homes
<1>9. CutLink(t.next, t.prev, u.next, x) /\ CutLink(t.prev, t.next, u.prev, x)
  BY <1>3 DEF CutLink
<1>6. Chains(u, M \ {x}, H, F \ {x})
  <2>1. Toward(u.next, u.prev, M \ {x}, H, F \ {x})
    BY <1>2, <1>4, <1>9, CutToward
  <2>2. Toward(u.prev, u.next, M \ {x}, H, F \ {x})
    BY <1>2, <1>4, <1>9, CutToward
  <2>5. Stops(u.next, M \ {x})
    BY <1>4, <1>9, CutStops
  <2>6. Stops(u.prev, M \ {x})
    BY <1>4, <1>9, CutStops
  <2> QED BY <2>1, <2>2, <2>5, <2>6 DEF Chains
<1>7. ListEnds(u, L, M \ {x}, H, F \ {x})
  <2>1. (M \ {x}) \ (F \ {x}) = (M \ F) \ {x}
    OBVIOUS
  <2>2. M \ F \in SUBSET M /\ InLists(M \ F, Lists(L), H) /\ (x \in M \ F <=> x \notin F)
        /\ \A p \in Lists(L) : p \in Parents
    BY <1>4 DEF Lists, Parents, InLists
  <2>3. /\ t.next[x] # NULL => (t.next[x] \in M \ F <=> x \in M \ F)
        /\ t.prev[x] # NULL => (t.prev[x] \in M \ F <=> x \in M \ F)
        /\ t.next[x] # NULL => (t.next[x] \in F <=> x \in F)
    BY <1>4 DEF Toward
  <2>4. Ends(t.first, t.prev, Lists(L), M \ F, H) /\ Ends(t.last, t.next, Lists(L), M \ F, H)
        /\ Ends(t.frag, t.prev, Docs, F, H) /\ InLists(F, Docs, H)
    BY <1>1 DEF ListEnds, Homes, InLists
  <2>5. /\ CutEnd(t.first, t.next, t.prev, u.first, Lists(L), M \ F, H, x)
        /\ CutEnd(t.last, t.prev, t.next, u.last, Lists(L), M \ F, H, x)
        /\ CutEnd(t.frag, t.next, t.prev, u.frag, Docs, F, H, x)
    BY <1>3, <2>2 DEF CutEnd
  <2>8. Ends(u.first, u.prev, Lists(L), (M \ F) \ {x}, H)
    BY <1>2, <1>4, <1>9, <2>2, <2>3, <2>4, <2>5, CutEnds
  <2>9. Ends(u.last, u.next, Lists(L), (M \ F) \ {x}, H)
    BY <1>2, <1>4, <1>9, <2>2, <2>3, <2>4, <2>5, CutEnds
  <2>10. Ends(u.frag, u.prev, Docs, F \ {x}, H)
    BY <1>2, <1>4, <1>9, <2>3, <2>4, <2>5, CutEnds
  <2>11. ASSUME NEW p \in Parents PROVE u.first[p] = NULL <=> u.last[p] = NULL
    <3>1. t.first[p] = NULL <=> t.last[p] = NULL
      BY <1>1 DEF ListEnds
    <3>2. CASE x \in F \/ p # H[x]
      BY <3>1, <3>2, <1>3
    <3>3. CASE x \notin F /\ p = H[x]
      <4>1. t.prev[x] = NULL => t.first[p] = x
        BY <3>3, <2>4 DEF Ends
      <4>2. t.next[x] = NULL => t.last[p] = x
        BY <3>3, <2>4 DEF Ends
      <4> QED BY <4>1, <4>2, <3>1, <3>3, <1>0, <1>2, <1>3
    <3> QED BY <3>2, <3>3
  <2>12. ASSUME NEW y \in Elems \ L PROVE u.first[y] = NULL
    <3>1. t.first[y] = NULL /\ y # H[x] /\ y \in Parents
      BY <1>0, <1>1, <1>4 DEF ListEnds, Lists, Parents
    <3> QED BY <3>1, <1>3
  <2> QED BY <2>1, <2>8, <2>9, <2>10, <2>11, <2>12 DEF ListEnds
<1>8. Stops(u.parent, M \ {x})
  BY <1>1, <1>3 DEF Stops
<1> QED BY <1>3, <1>5, <1>6, <1>7, <1>8 DEF Placed, u

\* a and b are neighbours in a child list, or an end of it where one is missing.
Between(t, K, H, h, a, b) ==
  /\ a \in K \cup {NULL} /\ b \in K \cup {NULL}
  /\ a # NULL => t.next[a] = b /\ H[a] = h
  /\ b # NULL => t.prev[b] = a /\ H[b] = h

(* So put, the node has its place among the children, if its parent closes   *)
(* no cycle.                                                                 *)
LEMMA PutChild ==
  ASSUME NEW t, NEW L, NEW M, NEW H, NEW F, NEW x \in L \ M, NEW h \in Lists(L),
         NEW a, NEW b, NEW u \in Trees,
         Placed(t, L, M, H, F), Between(t, M \ F, H, h, a, b),
         a = NULL /\ b = NULL => t.first[h] = NULL,
         PutLink(t.next, u.next, M, x, a, b), PutLink(t.prev, u.prev, M, x, b, a),
         PutEnd(t.first, u.first, Parents, a, h, x), PutEnd(t.last, u.last, Parents, b, h, x),
         u.frag = t.frag, u.parent = [t.parent EXCEPT ![x] = ParentFieldOf(h)],
         Stops(u.parent, M \cup {x})
  PROVE  Placed(u, L, M \cup {x}, [H EXCEPT ![x] = h], F)
<1> DEFINE HH == [H EXCEPT ![x] = h]
           K == M \ F
<1>0. NULL \notin Nodes /\ NULL \notin Docs /\ Docs \cap Nodes = {} /\ Elems \subseteq Nodes
  BY Disjoint DEF All, Nodes
<1>1. /\ t \in Trees /\ Homes(t, L, M, H, F) /\ Chains(t, M, H, F) /\ ListEnds(t, L, M, H, F)
  BY DEF Placed
<1>2. /\ M \in SUBSET Nodes /\ x \in Nodes \ M /\ F \in SUBSET M /\ L \in SUBSET Nodes /\ M \in SUBSET L
      /\ H \in [Nodes -> Parents \cup {NULL}] /\ h \in Parents
  BY <1>1 DEF Homes, Lists, Parents
<1>3. HH[x] = h /\ (\A y \in M : HH[y] = H[y]) /\ HH \in [Nodes -> Parents \cup {NULL}]
  BY <1>2
<1> HIDE DEF HH
<1>4. /\ Toward(t.next, t.prev, M, H, F) /\ Toward(t.prev, t.next, M, H, F)
      /\ Stops(t.next, M) /\ Stops(t.prev, M)
  BY <1>1 DEF Chains
<1>5. /\ a \in M \cup {NULL} /\ b \in M \cup {NULL}
      /\ a # NULL => t.next[a] = b /\ HH[x] = H[a] /\ a \notin F
      /\ b # NULL => t.prev[b] = a /\ HH[x] = H[b] /\ b \notin F
  BY <1>0, <1>2, <1>3 DEF Between
<1>6. \A y \in M : HH[y] = H[y] /\ (y \in F <=> y \in F)
  BY <1>3
<1>7. x \notin F
  BY <1>2
<1>8. Toward(u.next, u.prev, M \cup {x}, HH, F)
  BY <1>2, <1>4, <1>5, <1>6, <1>7, PutToward
<1>9. Toward(u.prev, u.next, M \cup {x}, HH, F)
  BY <1>2, <1>4, <1>5, <1>6, <1>7, PutToward
<1>10. Stops(u.next, M \cup {x})
  BY <1>2, <1>4, <1>5, PutStops
<1>11. Stops(u.prev, M \cup {x})
  BY <1>2, <1>4, <1>5, PutStops
<1>12. Chains(u, M \cup {x}, HH, F)
  BY <1>8, <1>9, <1>10, <1>11 DEF Chains
<1>13. Homes(u, L, M \cup {x}, HH, F)
  <2>1. \A y \in M \cup {x} : HH[y] \in Lists(L) /\ u.parent[y] = ParentFieldOf(HH[y])
    BY <1>1, <1>2, <1>3 DEF Homes, Trees
  <2>2. \A y \in F : HH[y] \in Docs
    BY <1>1, <1>2, <1>3 DEF Homes
  <2> QED BY <1>2, <1>3, <2>1, <2>2 DEF Homes
<1>14. /\ Ends(t.first, t.prev, Lists(L), K, H) /\ Ends(t.last, t.next, Lists(L), K, H)
       /\ Ends(t.frag, t.prev, Docs, F, H)
       /\ InLists(K, Lists(L), H) /\ InLists(F, Docs, H)
  BY <1>1 DEF ListEnds, Homes, InLists
<1>15. \A p \in Lists(L) : p \in Parents
  BY DEF Lists, Parents
<1>16. a = NULL => b = t.first[HH[x]]
  BY <1>3, <1>5, <1>14 DEF Ends, Between
<1>17. b = NULL => a = t.last[HH[x]]
  <2>1. a = NULL => (b = NULL => t.last[h] = NULL)
    BY <1>1, <1>2 DEF ListEnds
  <2> QED BY <2>1, <1>3, <1>5, <1>14 DEF Ends, Between
<1>18. /\ PutEnd(t.first, u.first, Lists(L), a, HH[x], x)
       /\ PutEnd(t.last, u.last, Lists(L), b, HH[x], x)
  BY <1>3, <1>15 DEF PutEnd
<1>19. K \in SUBSET M /\ K \cup {x} = (M \cup {x}) \ F /\ HH[x] \in Lists(L)
  BY <1>2, <1>3, <1>7
<1> HIDE DEF K
<1>20. Ends(u.first, u.prev, Lists(L), K \cup {x}, HH)
  BY <1>2, <1>3, <1>5, <1>14, <1>16, <1>18, <1>19, PutEnds
<1>21. Ends(u.last, u.next, Lists(L), K \cup {x}, HH)
  BY <1>2, <1>3, <1>5, <1>14, <1>17, <1>18, <1>19, PutEnds
<1>22. Ends(u.frag, u.prev, Docs, F, HH)
  <2>1. ASSUME NEW y \in F PROVE HH[y] = H[y] /\ (u.prev[y] = NULL <=> t.prev[y] = NULL)
    <3>1. y \in M /\ y # x /\ y # b
      BY <1>2, <1>5, <1>0
    <3>2. u.prev[y] = t.prev[y]
      BY <3>1 DEF PutLink
    <3> QED BY <3>1, <3>2, <1>3
  <2> QED BY <2>1, <1>14 DEF Ends
<1>23. ASSUME NEW p \in Parents PROVE u.first[p] = NULL <=> u.last[p] = NULL
  <2>1. t.first[p] = NULL <=> t.last[p] = NULL
    BY <1>1 DEF ListEnds
  <2>2. /\ u.first[p] = IF a = NULL /\ p = h THEN x ELSE t.first[p]
        /\ u.last[p] = IF b = NULL /\ p = h THEN x ELSE t.last[p]
    BY DEF PutEnd
  <2>3. (a = NULL => b = t.first[h]) /\ (b = NULL => a = t.last[h])
    BY <1>16, <1>17, <1>3
  <2> QED BY <2>1, <2>2, <2>3, <1>0, <1>2
<1>24. ASSUME NEW y \in Elems \ L PROVE u.first[y] = NULL
  <2>1. t.first[y] = NULL /\ y \in Parents /\ y # h
    BY <1>0, <1>1 DEF ListEnds, Parents, Lists
  <2> QED BY <2>1 DEF PutEnd
<1>25. ListEnds(u, L, M \cup {x}, HH, F)
  BY <1>19, <1>20, <1>21, <1>22, <1>23, <1>24 DEF ListEnds
<1> QED BY <1>12, <1>13, <1>25 DEF Placed, HH

(* A floating node is put at the head of the fragment list of a document.    *)
LEMMA PutFragment ==
  ASSUME NEW t, NEW L, NEW M, NEW H, NEW F, NEW x \in L \ M, NEW h \in Docs,
         NEW u \in Trees, Placed(t, L, M, H, F),
         PutLink(t.next, u.next, M, x, NULL, t.frag[h]),
         PutLink(t.prev, u.prev, M, x, t.frag[h], NULL),
         PutEnd(t.frag, u.frag, Docs, NULL, h, x),
         u.first = t.first, u.last = t.last, u.parent = [t.parent EXCEPT ![x] = NULL]
  PROVE  Placed(u, L, M \cup {x}, [H EXCEPT ![x] = h], F \cup {x})
<1> DEFINE HH == [H EXCEPT ![x] = h]
           FF == F \cup {x}
           a == NULL
           b == t.frag[h]
<1>0. NULL \notin Nodes /\ NULL \notin Docs /\ Docs \cap Nodes = {} /\ Elems \subseteq Nodes
  BY Disjoint DEF All, Nodes
<1>1. /\ t \in Trees /\ Homes(t, L, M, H, F) /\ Chains(t, M, H, F) /\ ListEnds(t, L, M, H, F)
      /\ Stops(t.parent, M)
  BY DEF Placed
<1>2. /\ M \in SUBSET Nodes /\ x \in Nodes \ M /\ F \in SUBSET M /\ L \in SUBSET Nodes /\ M \in SUBSET L
      /\ H \in [Nodes -> Parents \cup {NULL}] /\ h \in Parents
  BY <1>1 DEF Homes, Parents
<1>3. HH[x] = h /\ (\A y \in M : HH[y] = H[y]) /\ HH \in [Nodes -> Parents \cup {NULL}] /\ x \in FF
  BY <1>2
<1> HIDE DEF HH
<1>4. /\ Toward(t.next, t.prev, M, H, F) /\ Toward(t.prev, t.next, M, H, F)
      /\ Stops(t.next, M) /\ Stops(t.prev, M)
  BY <1>1 DEF Chains
<1>5. /\ a \in M \cup {NULL} /\ b \in M \cup {NULL} /\ b \in F \cup {NULL}
      /\ a # NULL => t.next[a] = b /\ HH[x] = H[a] /\ (x \in FF <=> a \in F)
      /\ b # NULL => t.prev[b] = a /\ HH[x] = H[b] /\ (x \in FF <=> b \in F)
  BY <1>0, <1>1, <1>2, <1>3 DEF ListEnds, Ends
<1>6. \A y \in M : HH[y] = H[y] /\ (y \in FF <=> y \in F)
  BY <1>2, <1>3
<1> HIDE DEF a, b, FF
<1>7. PutLink(t.next, u.next, M, x, a, b) /\ PutLink(t.prev, u.prev, M, x, b, a)
      /\ PutEnd(t.frag, u.frag, Docs, a, HH[x], x)
  BY <1>3 DEF a, b
<1>8. Toward(u.next, u.prev, M \cup {x}, HH, FF)
  BY <1>2, <1>4, <1>5, <1>6, <1>7, PutToward
<1>9. Toward(u.prev, u.next, M \cup {x}, HH, FF)
  BY <1>2, <1>4, <1>5, <1>6, <1>7, PutToward
<1>10. Stops(u.next, M \cup {x})
  BY <1>2, <1>4, <1>5, <1>7, PutStops
<1>11. Stops(u.prev, M \cup {x})
  BY <1>2, <1>4, <1>5, <1>7, PutStops
<1>12. Chains(u, M \cup {x}, HH, FF)
  BY <1>8, <1>9, <1>10, <1>11 DEF Chains
<1>13. Homes(u, L, M \cup {x}, HH, FF)
  <2>1. \A y \in M \cup {x} : HH[y] \in Lists(L) /\ u.parent[y] = ParentFieldOf(HH[y])
    BY <1>0, <1>1, <1>2, <1>3 DEF Homes, Trees, Lists, ParentFieldOf
  <2>2. (\A y \in FF : HH[y] \in Docs) /\ FF \in SUBSET (M \cup {x})
    BY <1>1, <1>2, <1>3 DEF Homes, FF
  <2> QED BY <1>2, <1>3, <2>1, <2>2 DEF Homes
<1>14. /\ Ends(t.first, t.prev, Lists(L), M \ F, H) /\ Ends(t.last, t.next, Lists(L), M \ F, H)
       /\ Ends(t.frag, t.prev, Docs, F, H)
       /\ InLists(F, Docs, H)
  BY <1>1 DEF ListEnds, Homes, InLists
<1>15. (a = NULL => b = t.frag[HH[x]]) /\ HH[x] \in Docs /\ FF = F \cup {x}
  BY <1>3 DEF b, FF
<1>16. Ends(u.frag, u.prev, Docs, FF, HH)
  BY <1>2, <1>3, <1>5, <1>7, <1>14, <1>15, PutEnds
<1>17. (M \cup {x}) \ FF = M \ F
  BY <1>2 DEF FF
<1>18. ASSUME NEW y \in M \ F
       PROVE  HH[y] = H[y] /\ u.prev[y] = t.prev[y] /\ u.next[y] = t.next[y]
  <2>1. y \in M /\ y # x /\ y # b /\ y # a
    BY <1>0, <1>2, <1>5 DEF a
  <2> QED BY <2>1, <1>3, <1>7 DEF PutLink
<1>19. Ends(u.first, u.prev, Lists(L), M \ F, HH) /\ Ends(u.last, u.next, Lists(L), M \ F, HH)
  BY <1>14, <1>18 DEF Ends
<1>20. ListEnds(u, L, M \cup {x}, HH, FF)
  BY <1>1, <1>16, <1>17, <1>19 DEF ListEnds
<1>21. Stops(u.parent, M \cup {x})
  <2> SUFFICES ASSUME NEW S \in SUBSET (M \cup {x}), S # {}, \A y \in S : u.parent[y] \in S
               PROVE  FALSE
    BY DEF Stops
  <2>1. u.parent[x] = NULL /\ \A y \in M : u.parent[y] = t.parent[y]
    BY <1>1, <1>2 DEF Trees
  <2>2. x \notin S
    BY <2>1, <1>0, <1>2
  <2>3. S \in SUBSET M /\ \A y \in S : t.parent[y] \in S
    BY <2>1, <2>2
  <2> QED BY <2>3, <1>1 DEF Stops
<1> QED BY <1>12, <1>13, <1>20, <1>21 DEF Placed, HH, FF

----------------------------------------------------------------------------
(* Subtrees.                                                                 *)

(* The search through the children of x, in either direction, finds x and    *)
(* what has a parent that it finds; the parent of x is not found.            *)
LEMMA SubtreeFrom ==
  ASSUME NEW t, NEW L, NEW M, NEW H, NEW F, NEW x \in M, Placed(t, L, M, H, F),
         NEW e \in [Parents -> Pointer], NEW f \in [Nodes -> Pointer], NEW g,
         Toward(f, g, M, H, F), Toward(g, f, M, H, F), Stops(g, M),
         Ends(e, g, Lists(L), M \ F, H)
  PROVE  /\ Visited(e, f, x) \in SUBSET M /\ x \in Visited(e, f, x)
         /\ H[x] \notin Visited(e, f, x)
         /\ \A y \in M \ {x} : y \in Visited(e, f, x) <=> H[y] \in Visited(e, f, x)
<1> DEFINE V == Visited(e, f, x)
<1>0. NULL \notin Nodes /\ NULL \notin Docs /\ Docs \cap Nodes = {} /\ Elems \subseteq Nodes
  BY Disjoint DEF All, Nodes
<1>1. /\ L \in SUBSET Nodes /\ M \in SUBSET L /\ F \in SUBSET M
      /\ \A y \in M : H[y] \in Lists(L) /\ t.parent[y] = ParentFieldOf(H[y])
      /\ \A y \in F : H[y] \in Docs
  BY DEF Placed, Homes
<1>2. x \in Nodes
  BY <1>1
<1>14. PICK R \in SUBSET Nodes : Met(e, f, x, R)
  BY <1>2, VisitedIsLeast
<1>3. /\ Visited(e, f, x) = {x} \cup R
      /\ \A y \in (R \cup {x}) \cap Elems : e[y] # NULL => e[y] \in R
      /\ \A y \in R : f[y] # NULL => f[y] \in R
      /\ \A T \in SUBSET Nodes :
            /\ x \in Elems /\ e[x] # NULL => e[x] \in T
            /\ \A y \in T : /\ f[y] # NULL => f[y] \in T
                            /\ y \in Elems /\ e[y] # NULL => e[y] \in T
            => R \subseteq T
  BY <1>14 DEF Met
<1>4. \A y \in M \cap Elems : e[y] # NULL => e[y] \in M \ F /\ H[e[y]] = y
  BY <1>1 DEF Ends, Lists
<1>5. \A y \in M : f[y] # NULL => f[y] \in M /\ H[f[y]] = H[y]
  BY DEF Toward
<1>6. R \subseteq {y \in R \cap M : H[y] \in R \cup {x}}
  <2> DEFINE T == {y \in R \cap M : H[y] \in R \cup {x}}
  <2>1. x \in Elems /\ e[x] # NULL => e[x] \in T
    BY <1>3, <1>4
  <2>2. ASSUME NEW y \in T PROVE f[y] # NULL => f[y] \in T
    BY <1>3, <1>5
  <2>3. ASSUME NEW y \in T PROVE y \in Elems /\ e[y] # NULL => e[y] \in T
    BY <1>3, <1>4
  <2>4. T \in SUBSET Nodes
    OBVIOUS
  <2> HIDE DEF T
  <2>5. R \subseteq T
    BY <1>3, <2>1, <2>2, <2>3, <2>4
  <2> QED BY <2>5 DEF T
<1>7. R \subseteq M /\ \A y \in R : H[y] \in R \cup {x}
  BY <1>6
<1>8. \A y \in M : H[y] \in Nodes => t.parent[y] = H[y]
  BY <1>0, <1>1 DEF ParentFieldOf
<1>9. x \notin R
  <2> SUFFICES ASSUME x \in R PROVE FALSE
    OBVIOUS
  <2>1. \A y \in R : t.parent[y] \in R
    BY <1>7, <1>8
  <2> QED BY <2>1, <1>7 DEF Placed, Stops
<1>10. H[x] \notin V
  <2> SUFFICES ASSUME H[x] \in R \cup {x} PROVE FALSE
    BY <1>3
  <2>1. \A y \in R \cup {x} : t.parent[y] \in R \cup {x}
    BY <1>2, <1>7, <1>8
  <2>2. R \cup {x} \in SUBSET M /\ R \cup {x} # {}
    BY <1>7
  <2> QED BY <2>1, <2>2 DEF Placed, Stops
<1>11. ASSUME NEW y \in M \ {x}, y \in V PROVE H[y] \in V
  BY <1>3, <1>7, <1>11
<1>12. ASSUME NEW y \in M \ {x}, H[y] \in V PROVE y \in V
  <2> DEFINE S == {z \in M \ {x} : H[z] = H[y] /\ z \notin V}
  <2>1. H[y] \in Elems /\ H[y] \in R \cup {x}
    BY <1>0, <1>1, <1>2, <1>3, <1>12 DEF Lists
  <2>2. ASSUME NEW z \in S PROVE g[z] \in S
    <3>1. z \in M \ F
      BY <1>0, <1>1, <2>1
    <3>2. CASE g[z] = NULL
      <4>1. e[H[y]] = z
        BY <3>1, <3>2 DEF Ends
      <4>2. z \in R
        BY <4>1, <2>1, <1>0, <1>1, <1>3
      <4> QED BY <4>2, <1>3
    <3>3. CASE g[z] # NULL
      <4>1. g[z] \in M /\ H[g[z]] = H[y] /\ f[g[z]] = z
        BY <3>3 DEF Toward
      <4>2. g[z] # x
        BY <4>1, <1>10, <1>12
      <4>3. g[z] \notin R
        BY <4>1, <1>0, <1>1, <1>3
      <4> QED BY <4>1, <4>2, <4>3, <1>3
    <3> QED BY <3>2, <3>3
  <2>3. S = {}
    BY <2>2 DEF Stops
  <2> QED BY <2>3
<1>13. x \in V /\ V \in SUBSET M
  BY <1>3, <1>7
<1> QED BY <1>10, <1>11, <1>12, <1>13

\* V are x and what has a parent in V.
Below(V, M, H, x) ==
  /\ V \in SUBSET M /\ x \in V /\ H[x] \notin V
  /\ \A y \in M \ {x} : y \in V <=> H[y] \in V

(* Both searches for a subtree, forward to change its document and backward  *)
(* to free it, find what is below the node.                                  *)
LEMMA Subtree ==
  ASSUME NEW t, NEW L, NEW M, NEW H, NEW F, NEW x \in M, Placed(t, L, M, H, F)
  PROVE  /\ Below(Visited(t.first, t.next, x), M, H, x)
         /\ Below(Visited(t.last, t.prev, x), M, H, x)
<1>1. /\ t.first \in [Parents -> Pointer] /\ t.last \in [Parents -> Pointer]
      /\ t.next \in [Nodes -> Pointer] /\ t.prev \in [Nodes -> Pointer]
  BY DEF Placed, Trees, Pointer
<1>2. /\ Toward(t.next, t.prev, M, H, F) /\ Toward(t.prev, t.next, M, H, F)
      /\ Stops(t.next, M) /\ Stops(t.prev, M)
      /\ Ends(t.first, t.prev, Lists(L), M \ F, H) /\ Ends(t.last, t.next, Lists(L), M \ F, H)
  BY DEF Placed, Chains, ListEnds
<1>3. /\ Visited(t.first, t.next, x) \in SUBSET M /\ x \in Visited(t.first, t.next, x)
      /\ H[x] \notin Visited(t.first, t.next, x)
      /\ \A y \in M \ {x} : y \in Visited(t.first, t.next, x) <=> H[y] \in Visited(t.first, t.next, x)
  BY <1>1, <1>2, SubtreeFrom
<1>4. /\ Visited(t.last, t.prev, x) \in SUBSET M /\ x \in Visited(t.last, t.prev, x)
      /\ H[x] \notin Visited(t.last, t.prev, x)
      /\ \A y \in M \ {x} : y \in Visited(t.last, t.prev, x) <=> H[y] \in Visited(t.last, t.prev, x)
  BY <1>1, <1>2, SubtreeFrom
<1> QED BY <1>3, <1>4 DEF Below

(* A node moved below one that it is not an ancestor of closes no cycle.     *)
LEMMA PutGrounded ==
  ASSUME NEW par, NEW M \in SUBSET Nodes, NEW x \in Nodes \ M, Stops(par, M),
         NEW A, x \notin A,
         \A y \in A \cap Nodes : par[y] # NULL => par[y] \in A,
         NEW pp, \A y \in M : pp[y] = par[y], pp[x] # NULL => pp[x] \in A
  PROVE  Stops(pp, M \cup {x})
<1>0. NULL \notin Nodes
  BY Disjoint DEF All
<1> SUFFICES ASSUME NEW S \in SUBSET (M \cup {x}), S # {}, \A y \in S : pp[y] \in S
             PROVE  FALSE
  BY DEF Stops
<1>1. CASE x \notin S
  <2>1. S \in SUBSET M /\ \A y \in S : par[y] \in S
    BY <1>1
  <2> QED BY <2>1 DEF Stops
<1>2. CASE x \in S
  <2>1. pp[x] \in S \cap A
    BY <1>0, <1>2
  <2>2. S \cap A \in SUBSET M
    OBVIOUS
  <2>3. \A y \in S \cap A : par[y] \in S \cap A
    BY <1>0, <2>2
  <2> QED BY <2>1, <2>2, <2>3 DEF Stops
<1> QED BY <1>1, <1>2

(* A subtree that gets the document of its new place keeps documents right.  *)
LEMMA AdoptOwners ==
  ASSUME NEW w, NEW L, NEW M, NEW H, NEW F, NEW x \in M, Placed(w, L, M, H, F),
         NEW doc, NEW V, Below(V, M, H, x), NEW d \in Docs,
         d = IF H[x] \in Docs THEN H[x] ELSE doc[H[x]],
         \A y \in L : doc[y] \in Docs,
         \A y \in M \ {x} : doc[y] = IF H[y] \in Docs THEN H[y] ELSE doc[H[y]],
         w.doc = [y \in Nodes |-> IF y \in V THEN d ELSE doc[y]]
  PROVE  Owners(w, L, M, H)
<1>0. NULL \notin Nodes /\ NULL \notin Docs /\ Docs \cap Nodes = {} /\ Elems \subseteq Nodes
  BY Disjoint DEF All, Nodes
<1>1. /\ L \in SUBSET Nodes /\ M \in SUBSET L
      /\ \A y \in M : H[y] \in Docs \/ H[y] \in Nodes
  BY <1>0 DEF Placed, Homes, Lists
<1>2. \A y \in Nodes : w.doc[y] = IF y \in V THEN d ELSE doc[y]
  OBVIOUS
<1>3. \A y \in L : w.doc[y] \in Docs
  BY <1>1, <1>2
<1>4. V \subseteq Nodes
  BY <1>1 DEF Below
<1>5. ASSUME NEW y \in M PROVE w.doc[y] = IF H[y] \in Docs THEN H[y] ELSE w.doc[H[y]]
  <2>1. CASE y = x
    <3>1. w.doc[x] = d /\ H[x] \notin V
      BY <1>1, <1>2 DEF Below
    <3> QED BY <3>1, <2>1, <1>1, <1>2
  <2>2. CASE y # x /\ H[y] \in Docs
    <3>1. y \notin V
      BY <2>2, <1>0, <1>4 DEF Below
    <3> QED BY <3>1, <2>2, <1>1, <1>2
  <2>3. CASE y # x /\ H[y] \notin Docs
    <3>1. y \in V <=> H[y] \in V
      BY <2>3 DEF Below
    <3> QED BY <3>1, <2>3, <1>1, <1>2
  <2> QED BY <2>1, <2>2, <2>3
<1> QED BY <1>3, <1>5 DEF Owners, DocOf

\* What a move does to the documents, the parents and documentElement.
NewOwners(t, w, V, d) == w.doc = [y \in Nodes |-> IF y \in V THEN d ELSE t.doc[y]]
NewParent(t, w, x, q) == w.parent = [t.parent EXCEPT ![x] = q]
NewDocumentElement(t, w, x, c) ==
  \A k \in Docs : w.docel[k] = IF t.parent[x] = NULL /\ k = t.doc[x] /\ t.docel[k] = x
                               THEN c ELSE t.docel[k]

(* documentElement stays right when the moved node is replaced there.        *)
LEMMA AdoptDocumentElements ==
  ASSUME NEW t, NEW w, NEW L, NEW M, NEW H, NEW F, NEW x \in M, Placed(w, L, M, H, F),
         DocumentElements(t, L), NEW V, Below(V, M, H, x), NEW d \in Docs, NewOwners(t, w, V, d),
         t.parent \in [Nodes -> Elems \cup {NULL}], NEW q, NewParent(t, w, x, q), NEW c,
         c # NULL => c \in L /\ w.doc[c] = t.doc[x] /\ w.parent[c] = NULL,
         NewDocumentElement(t, w, x, c)
  PROVE  DocumentElements(w, L)
<1> USE DEF NewOwners, NewParent, NewDocumentElement
<1>0. NULL \notin Nodes /\ NULL \notin Docs /\ Docs \cap Nodes = {} /\ Elems \subseteq Nodes
  BY Disjoint DEF All, Nodes
<1>1. /\ L \in SUBSET Nodes /\ M \in SUBSET L
      /\ \A y \in M : w.parent[y] = ParentFieldOf(H[y])
  BY DEF Placed, Homes
<1> SUFFICES ASSUME NEW k \in Docs, w.docel[k] # NULL
             PROVE  /\ w.docel[k] \in L /\ w.doc[w.docel[k]] = k
                    /\ w.parent[w.docel[k]] = NULL
  BY DEF DocumentElements
<1>2. CASE t.parent[x] = NULL /\ k = t.doc[x] /\ t.docel[k] = x
  BY <1>2
<1>3. CASE ~(t.parent[x] = NULL /\ k = t.doc[x] /\ t.docel[k] = x)
  <2> DEFINE e == t.docel[k]
  <2>1. w.docel[k] = e /\ e \in L /\ t.doc[e] = k /\ t.parent[e] = NULL
    BY <1>3 DEF DocumentElements
  <2>2. e # x /\ e \in Nodes
    BY <2>1, <1>1, <1>3
  <2>3. w.parent[e] = NULL
    BY <2>1, <2>2
  <2>4. e \notin V
    <3> SUFFICES ASSUME e \in V PROVE FALSE
      OBVIOUS
    <3>1. e \in M /\ H[e] \in V /\ H[e] \in Nodes
      BY <2>2, <1>1 DEF Below
    <3> QED BY <3>1, <2>3, <1>0, <1>1 DEF ParentFieldOf
  <2> QED BY <2>1, <2>2, <2>3, <2>4
<1> QED BY <1>2, <1>3

----------------------------------------------------------------------------
(* The operations.                                                           *)

(* What LinkLast changes, field by field.                                    *)
LEMMA LinkLastFields ==
  ASSUME NEW t \in Trees, NEW p \in Parents, NEW x \in Nodes, NEW M \in SUBSET Nodes,
         t.last[p] # x
  PROVE  LET v == LinkLast(t, p, x)
         IN  /\ v \in Trees
             /\ v.parent = t.parent /\ v.doc = t.doc /\ v.docel = t.docel /\ v.frag = t.frag
             /\ PutLink(t.next, v.next, M, x, t.last[p], NULL)
             /\ PutLink(t.prev, v.prev, M, x, NULL, t.last[p])
             /\ PutEnd(t.first, v.first, Parents, t.last[p], p, x)
             /\ PutEnd(t.last, v.last, Parents, NULL, p, x)
<1> DEFINE v == LinkLast(t, p, x)
           tail == t.last[p]
           t1 == IF tail # NULL THEN [t EXCEPT !.next[tail] = x] ELSE [t EXCEPT !.first[p] = x]
<1>0. NULL \notin Nodes /\ tail \in Nodes \cup {NULL}
  BY Disjoint DEF All, Trees
<1>1. v = [t1 EXCEPT !.prev[x] = tail, !.next[x] = NULL, !.last[p] = x]
  BY DEF LinkLast
<1> HIDE DEF tail, v
<1>2. /\ t1 \in Trees
      /\ t1.parent = t.parent /\ t1.doc = t.doc /\ t1.docel = t.docel /\ t1.frag = t.frag
      /\ t1.prev = t.prev /\ t1.last = t.last
      /\ \A y \in Nodes : t1.next[y] = IF y = tail THEN x ELSE t.next[y]
      /\ \A q \in Parents : t1.first[q] = IF tail = NULL /\ q = p THEN x ELSE t.first[q]
  <2>1. CASE tail # NULL
    BY <2>1, <1>0 DEF Trees
  <2>2. CASE tail = NULL
    BY <2>2, <1>0 DEF Trees
  <2> QED BY <2>1, <2>2
<1> HIDE DEF t1
<1>3. /\ v \in Trees
      /\ v.parent = t.parent /\ v.doc = t.doc /\ v.docel = t.docel /\ v.frag = t.frag
      /\ v.first = t1.first
      /\ \A y \in Nodes : v.next[y] = IF y = x THEN NULL ELSE t1.next[y]
      /\ \A y \in Nodes : v.prev[y] = IF y = x THEN tail ELSE t.prev[y]
      /\ \A q \in Parents : v.last[q] = IF q = p THEN x ELSE t.last[q]
  BY <1>0, <1>1, <1>2 DEF Trees
<1>4. tail # x
  BY DEF tail
<1>5. PutLink(t.next, v.next, M, x, tail, NULL) /\ PutLink(t.prev, v.prev, M, x, NULL, tail)
  BY <1>0, <1>2, <1>3, <1>4 DEF PutLink
<1>6. PutEnd(t.first, v.first, Parents, tail, p, x) /\ PutEnd(t.last, v.last, Parents, NULL, p, x)
  BY <1>2, <1>3 DEF PutEnd
<1> QED BY <1>3, <1>5, <1>6 DEF tail, v

(* What LinkBefore changes, field by field.                                  *)
LEMMA LinkBeforeFields ==
  ASSUME NEW t \in Trees, NEW p \in Parents, NEW x \in Nodes, NEW ref \in Nodes,
         NEW M \in SUBSET Nodes, x # ref, t.prev[ref] # x
  PROVE  LET v == LinkBefore(t, p, x, ref)
         IN  /\ v \in Trees
             /\ v.parent = t.parent /\ v.doc = t.doc /\ v.docel = t.docel /\ v.frag = t.frag
             /\ PutLink(t.next, v.next, M, x, t.prev[ref], ref)
             /\ PutLink(t.prev, v.prev, M, x, ref, t.prev[ref])
             /\ PutEnd(t.first, v.first, Parents, t.prev[ref], p, x)
             /\ PutEnd(t.last, v.last, Parents, ref, p, x)
<1> DEFINE v == LinkBefore(t, p, x, ref)
           l == t.prev[ref]
           t1 == IF l # NULL THEN [t EXCEPT !.next[l] = x] ELSE [t EXCEPT !.first[p] = x]
<1>0. NULL \notin Nodes /\ l \in Nodes \cup {NULL} /\ l # x
  BY Disjoint DEF All, Trees
<1>1. v = [t1 EXCEPT !.next[x] = ref, !.prev[x] = l, !.prev[ref] = x]
  BY DEF LinkBefore
<1> HIDE DEF l, v
<1>2. /\ t1 \in Trees
      /\ t1.parent = t.parent /\ t1.doc = t.doc /\ t1.docel = t.docel /\ t1.frag = t.frag
      /\ t1.prev = t.prev /\ t1.last = t.last
      /\ \A y \in Nodes : t1.next[y] = IF y = l THEN x ELSE t.next[y]
      /\ \A q \in Parents : t1.first[q] = IF l = NULL /\ q = p THEN x ELSE t.first[q]
  <2>1. CASE l # NULL
    BY <2>1, <1>0 DEF Trees
  <2>2. CASE l = NULL
    BY <2>2, <1>0 DEF Trees
  <2> QED BY <2>1, <2>2
<1> HIDE DEF t1
<1>3. /\ v \in Trees
      /\ v.parent = t.parent /\ v.doc = t.doc /\ v.docel = t.docel /\ v.frag = t.frag
      /\ v.first = t1.first /\ v.last = t.last
      /\ \A y \in Nodes : v.next[y] = IF y = x THEN ref ELSE t1.next[y]
      /\ \A y \in Nodes : v.prev[y] = IF y = ref THEN x ELSE IF y = x THEN l ELSE t.prev[y]
  BY <1>0, <1>1, <1>2 DEF Trees
<1>5. PutLink(t.next, v.next, M, x, l, ref) /\ PutLink(t.prev, v.prev, M, x, ref, l)
  BY <1>0, <1>2, <1>3 DEF PutLink
<1>6. PutEnd(t.first, v.first, Parents, l, p, x) /\ PutEnd(t.last, v.last, Parents, ref, p, x)
  BY <1>0, <1>2, <1>3 DEF PutEnd
<1> QED BY <1>3, <1>5, <1>6 DEF l, v

(* What PushFragment changes, field by field.                                *)
LEMMA PushFragmentFields ==
  ASSUME NEW t \in Trees, NEW x \in Nodes, NEW clearPrev \in BOOLEAN,
         NEW M \in SUBSET Nodes, t.doc[x] \in Docs, t.frag[t.doc[x]] # x,
         clearPrev \/ t.prev[x] = NULL
  PROVE  LET v == PushFragment(t, x, clearPrev)
             d == t.doc[x]
         IN  /\ v \in Trees
             /\ v.doc = t.doc /\ v.docel = t.docel /\ v.first = t.first /\ v.last = t.last
             /\ v.parent = [t.parent EXCEPT ![x] = NULL]
             /\ PutLink(t.next, v.next, M, x, NULL, t.frag[d])
             /\ PutLink(t.prev, v.prev, M, x, t.frag[d], NULL)
             /\ PutEnd(t.frag, v.frag, Docs, NULL, d, x)
<1> DEFINE v == PushFragment(t, x, clearPrev)
           d == t.doc[x]
           f == t.frag[d]
           t1 == IF f # NULL THEN [t EXCEPT !.prev[f] = x] ELSE t
<1>0. NULL \notin Nodes /\ d \in Docs /\ f \in Nodes \cup {NULL} /\ f # x
  BY Disjoint DEF All, Trees
<1>1. v = [t1 EXCEPT !.next[x] = f, !.frag[d] = x, !.parent[x] = NULL,
                     !.prev[x] = IF clearPrev THEN NULL ELSE @]
  BY DEF PushFragment
<1> HIDE DEF d, f, v
<1>2. /\ t1 \in Trees
      /\ t1.parent = t.parent /\ t1.doc = t.doc /\ t1.docel = t.docel /\ t1.frag = t.frag
      /\ t1.next = t.next /\ t1.last = t.last /\ t1.first = t.first
      /\ \A y \in Nodes : t1.prev[y] = IF y = f THEN x ELSE t.prev[y]
  <2>1. CASE f # NULL
    BY <2>1, <1>0 DEF Trees
  <2>2. CASE f = NULL
    BY <2>2, <1>0 DEF Trees
  <2> QED BY <2>1, <2>2
<1> HIDE DEF t1
<1>3. (IF clearPrev THEN NULL ELSE t1.prev[x]) = NULL
  BY <1>0, <1>2
<1>4. v = [t1 EXCEPT !.next[x] = f, !.frag[d] = x, !.parent[x] = NULL, !.prev[x] = NULL]
  BY <1>0, <1>1, <1>2, <1>3 DEF Trees
<1>5. /\ v \in Trees
      /\ v.doc = t.doc /\ v.docel = t.docel /\ v.first = t.first /\ v.last = t.last
      /\ v.parent = [t.parent EXCEPT ![x] = NULL]
      /\ \A y \in Nodes : v.next[y] = IF y = x THEN f ELSE t.next[y]
      /\ \A y \in Nodes : v.prev[y] = IF y = x THEN NULL ELSE t1.prev[y]
      /\ \A q \in Docs : v.frag[q] = IF q = d THEN x ELSE t.frag[q]
  BY <1>0, <1>2, <1>4 DEF Trees
<1>6. PutLink(t.next, v.next, M, x, NULL, f) /\ PutLink(t.prev, v.prev, M, x, f, NULL)
  BY <1>0, <1>2, <1>5 DEF PutLink
<1>7. PutEnd(t.frag, v.frag, Docs, NULL, d, x)
  BY <1>5 DEF PutEnd
<1> QED BY <1>5, <1>6, <1>7 DEF d, f, v

(* What Adopt changes, field by field.                                       *)
LEMMA AdoptFields ==
  ASSUME NEW t \in Trees, NEW p \in Parents, NEW x \in Nodes, t.doc[x] \in Docs,
         DocOf(t, p) \in Docs
  PROVE  LET w == Adopt(t, p, x)
         IN  /\ w \in Trees
             /\ w.next = t.next /\ w.prev = t.prev /\ w.first = t.first /\ w.last = t.last
             /\ w.frag = t.frag
             /\ w.parent = [t.parent EXCEPT ![x] = ParentFieldOf(p)]
             /\ w.doc = [y \in Nodes |-> IF y \in Visited(t.first, t.next, x) THEN DocOf(t, p)
                                         ELSE t.doc[y]]
             /\ \A k \in Docs : w.docel[k] =
                   IF t.parent[x] = NULL /\ k = t.doc[x] /\ t.docel[k] = x
                   THEN t.first[t.doc[x]] ELSE t.docel[k]
<1> DEFINE w == Adopt(t, p, x)
           d == t.doc[x]
           t1 == IF t.parent[x] = NULL /\ t.docel[d] = x THEN [t EXCEPT !.docel[d] = t.first[d]] ELSE t
           q == ParentFieldOf(p)
           t2 == [t1 EXCEPT !.parent[x] = q]
           S == Visited(t2.first, t2.next, x)
<1>0. NULL \notin Nodes /\ d \in Docs /\ d \in Parents /\ q \in Elems \cup {NULL}
  BY Disjoint DEF All, Trees, Parents, ParentFieldOf
<1>1. w = [t2 EXCEPT !.doc = [y \in Nodes |-> IF y \in S THEN DocOf(t, p) ELSE t2.doc[y]]]
  BY DEF Adopt, SetDocument, ForgetDocumentElement
<1> HIDE DEF d, q, w, S
<1>2. /\ t1 \in Trees
      /\ t1.parent = t.parent /\ t1.doc = t.doc /\ t1.frag = t.frag
      /\ t1.next = t.next /\ t1.prev = t.prev /\ t1.last = t.last /\ t1.first = t.first
      /\ \A k \in Docs : t1.docel[k] = IF t.parent[x] = NULL /\ k = d /\ t.docel[k] = x
                                       THEN t.first[d] ELSE t.docel[k]
  <2>1. CASE t.parent[x] = NULL /\ t.docel[d] = x
    BY <2>1, <1>0 DEF Trees
  <2>2. CASE ~(t.parent[x] = NULL /\ t.docel[d] = x)
    BY <2>2, <1>0 DEF Trees
  <2> QED BY <2>1, <2>2
<1> HIDE DEF t1
<1>3. /\ t2 \in Trees
      /\ t2.parent = [t.parent EXCEPT ![x] = q] /\ t2.doc = t.doc /\ t2.frag = t.frag
      /\ t2.next = t.next /\ t2.prev = t.prev /\ t2.last = t.last /\ t2.first = t.first
      /\ t2.docel = t1.docel
  BY <1>0, <1>2 DEF Trees
<1> HIDE DEF t2
<1>4. S = Visited(t.first, t.next, x)
  BY <1>3 DEF S
<1>5. /\ w \in Trees
      /\ w.next = t.next /\ w.prev = t.prev /\ w.first = t.first /\ w.last = t.last
      /\ w.frag = t.frag /\ w.parent = t2.parent /\ w.docel = t2.docel
      /\ w.doc = [y \in Nodes |-> IF y \in S THEN DocOf(t, p) ELSE t.doc[y]]
  BY <1>1, <1>3 DEF Trees
<1> QED BY <1>2, <1>3, <1>4, <1>5 DEF w, q, d

\* Every node has its place, its document and its document's documentElement.
SoundAt(t, L, H, F) ==
  Placed(t, L, L, H, F) /\ Owners(t, L, L, H) /\ DocumentElements(t, L)

Sound(t, L) == \E H \in [Nodes -> Parents \cup {NULL}], F \in SUBSET Nodes : SoundAt(t, L, H, F)

(* A chain from the first of a list stays in the list.                       *)
LEMMA ChainOfList ==
  ASSUME NEW t, NEW L, NEW M, NEW H, NEW F, Placed(t, L, M, H, F)
  PROVE  /\ \A p \in Lists(L) : InChain(t.next, t.first[p]) \subseteq {c \in M \ F : H[c] = p}
         /\ \A d \in Docs : InChain(t.next, t.frag[d]) \subseteq {c \in F : H[c] = d}
<1>0. NULL \notin Nodes /\ Elems \subseteq Nodes /\ L \subseteq Nodes /\ F \subseteq M /\ M \subseteq L
  BY Disjoint DEF All, Nodes, Placed, Homes
<1>1. t.next \in [Nodes -> Pointer] /\ (\A p \in Lists(L) : t.first[p] \in Pointer)
      /\ (\A d \in Docs : t.frag[d] \in Pointer)
  BY DEF Placed, Trees, Pointer, Lists, Parents
<1>2. \A y \in M : t.next[y] # NULL => /\ t.next[y] \in M /\ H[t.next[y]] = H[y]
                                       /\ (t.next[y] \in F <=> y \in F)
  BY DEF Placed, Chains, Toward
<1>3. ASSUME NEW p \in Lists(L)
      PROVE  InChain(t.next, t.first[p]) \subseteq {c \in M \ F : H[c] = p}
  <2> DEFINE T == {c \in M \ F : H[c] = p}
  <2>1. t.first[p] # NULL => t.first[p] \in T
    BY DEF Placed, ListEnds, Ends
  <2>2. \A y \in T : t.next[y] # NULL => t.next[y] \in T
    BY <1>2
  <2>3. T \in SUBSET Nodes
    BY <1>0
  <2> HIDE DEF T
  <2>4. InChain(t.next, t.first[p]) \subseteq T
    BY <1>1, <2>1, <2>2, <2>3, ChainIsLeast
  <2> QED BY <2>4 DEF T
<1>4. ASSUME NEW d \in Docs
      PROVE  InChain(t.next, t.frag[d]) \subseteq {c \in F : H[c] = d}
  <2> DEFINE T == {c \in F : H[c] = d}
  <2>1. t.frag[d] # NULL => t.frag[d] \in T
    BY DEF Placed, ListEnds, Ends
  <2>2. \A y \in T : t.next[y] # NULL => t.next[y] \in T
    BY <1>0, <1>2
  <2>3. T \in SUBSET Nodes
    BY <1>0
  <2> HIDE DEF T
  <2>4. InChain(t.next, t.frag[d]) \subseteq T
    BY <1>1, <2>1, <2>2, <2>3, ChainIsLeast
  <2> QED BY <2>4 DEF T
<1> QED BY <1>3, <1>4

(* The test for a child finds a node of the child list.                      *)
LEMMA ChildOf ==
  ASSUME NEW t, NEW L, NEW H, NEW F, Placed(t, L, L, H, F),
         NEW p \in Lists(L), NEW x \in L, IsChild(t, p, x)
  PROVE  H[x] = p /\ x \notin F
<1>0. NULL \notin Nodes /\ NULL \notin Docs /\ Docs \cap Nodes = {} /\ Elems \subseteq Nodes
  BY Disjoint DEF All, Nodes
<1>1. CASE t.parent[x] = p
  <2>1. t.parent[x] = ParentFieldOf(H[x]) /\ H[x] \in Lists(L) /\ (x \in F => H[x] \in Docs)
    BY DEF Placed, Homes
  <2> QED BY <2>1, <1>0, <1>1 DEF ParentFieldOf, Lists
<1>2. CASE x \in InChain(t.next, t.first[p])
  BY <1>2, ChainOfList
<1> QED BY <1>1, <1>2 DEF IsChild

(* A node that floats is linked into a child list and adopted.               *)
LEMMA AdoptSound ==
  ASSUME NEW t, NEW L, NEW H, NEW F, SoundAt(t, L, H, F), NEW x \in L, NEW p \in Lists(L),
         x \notin Ancestors(t, p),
         NEW u, NEW G, Placed(u, L, L \ {x}, H, G), u.parent = t.parent,
         NEW v \in Trees, v.parent = t.parent, v.doc = t.doc, v.docel = t.docel, v.frag = u.frag,
         NEW a, NEW b, Between(u, (L \ {x}) \ G, H, p, a, b),
         a = NULL /\ b = NULL => u.first[p] = NULL,
         PutLink(u.next, v.next, L \ {x}, x, a, b), PutLink(u.prev, v.prev, L \ {x}, x, b, a),
         PutEnd(u.first, v.first, Parents, a, p, x), PutEnd(u.last, v.last, Parents, b, p, x)
  PROVE  SoundAt(Adopt(v, p, x), L, [H EXCEPT ![x] = p], G)
<1> DEFINE w == Adopt(v, p, x)
           HH == [H EXCEPT ![x] = p]
           V == Visited(w.first, w.next, x)
           M == L \ {x}
           d == DocOf(t, p)
           c == w.first[t.doc[x]]
<1>0. NULL \notin Nodes /\ NULL \notin Docs /\ Docs \cap Nodes = {} /\ Elems \subseteq Nodes
  BY Disjoint DEF All, Nodes
<1>1. /\ Placed(t, L, L, H, F) /\ Owners(t, L, L, H) /\ DocumentElements(t, L)
      /\ t \in Trees /\ L \in SUBSET Nodes /\ H \in [Nodes -> Parents \cup {NULL}]
  BY DEF SoundAt, Placed, Homes
<1>2. x \in Nodes /\ p \in Parents /\ t.doc[x] \in Docs /\ d \in Docs
  BY <1>1 DEF Owners, Lists, Parents, DocOf
<1>3. DocOf(v, p) = d
  BY DEF DocOf
<1>4. /\ w \in Trees
      /\ w.next = v.next /\ w.prev = v.prev /\ w.first = v.first /\ w.last = v.last
      /\ w.frag = v.frag
      /\ w.parent = [t.parent EXCEPT ![x] = ParentFieldOf(p)]
      /\ w.doc = [y \in Nodes |-> IF y \in V THEN d ELSE t.doc[y]]
      /\ \A k \in Docs : w.docel[k] = IF t.parent[x] = NULL /\ k = t.doc[x] /\ t.docel[k] = x
                                      THEN c ELSE t.docel[k]
  <2>1. v.doc[x] \in Docs /\ DocOf(v, p) \in Docs
    BY <1>2, <1>3
  <2> HIDE DEF V, c, d
  <2>2. /\ w \in Trees
        /\ w.next = v.next /\ w.prev = v.prev /\ w.first = v.first /\ w.last = v.last
        /\ w.frag = v.frag
        /\ w.parent = [v.parent EXCEPT ![x] = ParentFieldOf(p)]
        /\ w.doc = [y \in Nodes |-> IF y \in Visited(v.first, v.next, x) THEN DocOf(v, p)
                                    ELSE v.doc[y]]
        /\ \A k \in Docs : w.docel[k] =
              IF v.parent[x] = NULL /\ k = v.doc[x] /\ v.docel[k] = x
              THEN v.first[v.doc[x]] ELSE v.docel[k]
    BY <1>2, <2>1, AdoptFields
  <2> HIDE DEF w
  <2>3. V = Visited(v.first, v.next, x) /\ c = v.first[v.doc[x]]
    BY <2>2 DEF V, c
  <2> QED BY <1>3, <2>2, <2>3
<1> HIDE DEF w
<1>5. Stops(w.parent, M \cup {x})
  <2>1. t.parent \in [Nodes -> Pointer] /\ p \in All
    BY <1>0, <1>1, <1>2 DEF Trees, Pointer, All, Parents
  <2>2. /\ p \in Ancestors(t, p)
        /\ \A y \in Ancestors(t, p) \cap Nodes : t.parent[y] # NULL =>
                                         t.parent[y] \in Ancestors(t, p)
    BY <2>1, AncestorsClosed
  <2>3. w.parent[x] # NULL => w.parent[x] \in Ancestors(t, p)
    BY <1>2, <1>4, <2>1, <2>2 DEF ParentFieldOf
  <2>4. \A y \in M : w.parent[y] = t.parent[y]
    BY <1>1, <1>4, <2>1
  <2>5. M \in SUBSET Nodes /\ x \in Nodes \ M /\ Stops(t.parent, M)
    BY <1>1, <1>2 DEF Placed, Stops
  <2> HIDE DEF M
  <2> QED BY <2>2, <2>3, <2>4, <2>5, PutGrounded
<1>6. M \cup {x} = L /\ x \in L \ M
  OBVIOUS
<1>7. Placed(w, L, M \cup {x}, HH, G)
  <2>1. w.frag = u.frag /\ w.parent = [u.parent EXCEPT ![x] = ParentFieldOf(p)]
    BY <1>4
  <2>2. /\ PutLink(u.next, w.next, M, x, a, b) /\ PutLink(u.prev, w.prev, M, x, b, a)
        /\ PutEnd(u.first, w.first, Parents, a, p, x) /\ PutEnd(u.last, w.last, Parents, b, p, x)
    BY <1>4
  <2>3. Placed(u, L, M, H, G) /\ Between(u, M \ G, H, p, a, b)
    OBVIOUS
  <2> HIDE DEF M, HH
  <2> QED BY <1>4, <1>5, <1>6, <2>1, <2>2, <2>3, PutChild DEF HH
<1>8. Placed(w, L, L, HH, G)
  BY <1>6, <1>7
<1>9. HH[x] = p /\ \A y \in L \ {x} : HH[y] = H[y]
  BY <1>1, <1>2
<1> HIDE DEF HH
<1>10. Below(V, L, HH, x)
  BY <1>8, Subtree
<1> HIDE DEF V
<1>11. Owners(w, L, L, HH)
  <2>1. d = IF HH[x] \in Docs THEN HH[x] ELSE t.doc[HH[x]]
    BY <1>9 DEF DocOf
  <2>2. (\A y \in L : t.doc[y] \in Docs)
        /\ \A y \in L \ {x} : t.doc[y] = IF HH[y] \in Docs THEN HH[y] ELSE t.doc[HH[y]]
    BY <1>1, <1>9 DEF Owners, DocOf
  <2> HIDE DEF d
  <2> QED BY <1>2, <1>4, <1>8, <1>10, <2>1, <2>2, AdoptOwners
<1>12. c # NULL => c \in L /\ w.doc[c] = t.doc[x] /\ w.parent[c] = NULL
  <2>1. c # NULL => c \in L /\ HH[c] = t.doc[x]
    BY <1>2, <1>8 DEF Placed, ListEnds, Ends, Lists
  <2> QED BY <2>1, <1>2, <1>8, <1>11 DEF Owners, DocOf, Placed, Homes, ParentFieldOf
<1>13. DocumentElements(w, L)
  <2>1. t.parent \in [Nodes -> Elems \cup {NULL}]
    BY <1>1 DEF Trees
  <2>2. /\ NewOwners(t, w, V, d) /\ NewParent(t, w, x, ParentFieldOf(p))
        /\ NewDocumentElement(t, w, x, c)
    BY <1>4 DEF NewOwners, NewParent, NewDocumentElement
  <2> HIDE DEF c, d
  <2> QED BY <1>1, <1>2, <1>8, <1>10, <1>12, <2>1, <2>2, AdoptDocumentElements
<1> QED BY <1>8, <1>11, <1>13 DEF SoundAt, w, HH

(* appendChild leaves a sound tree.                                          *)
LEMMA AppendSound ==
  ASSUME NEW t, NEW L, Sound(t, L), NEW x \in L, NEW p \in Lists(L), x \notin Ancestors(t, p)
  PROVE  Sound(Adopt(LinkLast(Unlink(t, x), p, x), p, x), L)
<1>1. PICK H \in [Nodes -> Parents \cup {NULL}], F \in SUBSET Nodes : SoundAt(t, L, H, F)
  BY DEF Sound
<1> DEFINE u == Unlink(t, x)
           v == LinkLast(u, p, x)
           M == L \ {x}
           G == F \ {x}
           a == u.last[p]
<1>2. /\ Placed(t, L, L, H, F) /\ Owners(t, L, L, H) /\ t \in Trees /\ L \in SUBSET Nodes
      /\ x \in Nodes /\ p \in Parents /\ t.doc[x] \in Docs /\ M \in SUBSET Nodes
  BY <1>1 DEF SoundAt, Placed, Homes, Owners, Lists, Parents
<1>3. u \in Trees /\ u.parent = t.parent /\ u.doc = t.doc /\ u.docel = t.docel
  BY <1>2, UnlinkFields
<1>4. Placed(u, L, M, H, G)
  BY <1>2, UnlinkPlaced
<1> HIDE DEF u
<1>5. /\ a # NULL => a \in M \ G /\ u.next[a] = NULL /\ H[a] = p
      /\ a = NULL => u.first[p] = NULL
  BY <1>2, <1>4 DEF Placed, ListEnds, Ends
<1>6. Between(u, M \ G, H, p, a, NULL)
  BY <1>5 DEF Between
<1>7. a # x
  <2>1. NULL \notin Nodes
    BY Disjoint DEF All
  <2> QED BY <1>2, <1>5, <2>1
<1> HIDE DEF M, G
<1>8. /\ v \in Trees
      /\ v.parent = u.parent /\ v.doc = u.doc /\ v.docel = u.docel /\ v.frag = u.frag
      /\ PutLink(u.next, v.next, M, x, a, NULL)
      /\ PutLink(u.prev, v.prev, M, x, NULL, a)
      /\ PutEnd(u.first, v.first, Parents, a, p, x)
      /\ PutEnd(u.last, v.last, Parents, NULL, p, x)
  BY <1>2, <1>3, <1>7, LinkLastFields
<1> HIDE DEF v, a
<1>9. SoundAt(Adopt(v, p, x), L, [H EXCEPT ![x] = p], G)
  BY <1>1, <1>3, <1>4, <1>5, <1>6, <1>8, AdoptSound DEF M
<1>10. [H EXCEPT ![x] = p] \in [Nodes -> Parents \cup {NULL}] /\ G \in SUBSET Nodes
  BY <1>2 DEF G
<1> QED BY <1>9, <1>10 DEF Sound, u, v

(* insertBefore leaves a sound tree.                                         *)
LEMMA InsertSound ==
  ASSUME NEW t, NEW L, Sound(t, L), NEW x \in L, NEW p \in Lists(L), x \notin Ancestors(t, p),
         NEW ref \in L, ref # x, IsChild(t, p, ref)
  PROVE  Sound(Adopt(LinkBefore(Unlink(t, x), p, x, ref), p, x), L)
<1>1. PICK H \in [Nodes -> Parents \cup {NULL}], F \in SUBSET Nodes : SoundAt(t, L, H, F)
  BY DEF Sound
<1> DEFINE u == Unlink(t, x)
           v == LinkBefore(u, p, x, ref)
           M == L \ {x}
           G == F \ {x}
           a == u.prev[ref]
<1>2. /\ Placed(t, L, L, H, F) /\ Owners(t, L, L, H) /\ t \in Trees /\ L \in SUBSET Nodes
      /\ x \in Nodes /\ p \in Parents /\ t.doc[x] \in Docs /\ M \in SUBSET Nodes /\ ref \in Nodes
  BY <1>1 DEF SoundAt, Placed, Homes, Owners, Lists, Parents
<1>3. u \in Trees /\ u.parent = t.parent /\ u.doc = t.doc /\ u.docel = t.docel
  BY <1>2, UnlinkFields
<1>4. Placed(u, L, M, H, G)
  BY <1>2, UnlinkPlaced
<1>5. H[ref] = p /\ ref \in M \ G
  BY <1>2, ChildOf
<1> HIDE DEF u
<1>6. a # NULL => a \in M \ G /\ u.next[a] = ref /\ H[a] = p
  BY <1>4, <1>5 DEF Placed, Chains, Toward
<1>7. Between(u, M \ G, H, p, a, ref)
  BY <1>5, <1>6 DEF Between
<1>8. a # x /\ ref # NULL
  <2>1. NULL \notin Nodes
    BY Disjoint DEF All
  <2> QED BY <1>2, <1>6, <2>1
<1> HIDE DEF M, G
<1>9. /\ v \in Trees
      /\ v.parent = u.parent /\ v.doc = u.doc /\ v.docel = u.docel /\ v.frag = u.frag
      /\ PutLink(u.next, v.next, M, x, a, ref)
      /\ PutLink(u.prev, v.prev, M, x, ref, a)
      /\ PutEnd(u.first, v.first, Parents, a, p, x)
      /\ PutEnd(u.last, v.last, Parents, ref, p, x)
  BY <1>2, <1>3, <1>8, LinkBeforeFields
<1> HIDE DEF v, a
<1>10. SoundAt(Adopt(v, p, x), L, [H EXCEPT ![x] = p], G)
  BY <1>1, <1>3, <1>4, <1>7, <1>8, <1>9, AdoptSound DEF M
<1>11. [H EXCEPT ![x] = p] \in [Nodes -> Parents \cup {NULL}] /\ G \in SUBSET Nodes
  BY <1>2 DEF G
<1> QED BY <1>10, <1>11 DEF Sound, u, v

(* A node that floats is put in the fragment list of its document.           *)
LEMMA FragmentSound ==
  ASSUME NEW u, NEW L, NEW H, NEW F, NEW x \in L, Placed(u, L, L \ {x}, H, F),
         Owners(u, L, L \ {x}, H), DocumentElements(u, L),
         NEW clearPrev \in BOOLEAN, clearPrev \/ u.prev[x] = NULL
  PROVE  Sound(PushFragment(u, x, clearPrev), L)
<1> DEFINE w == PushFragment(u, x, clearPrev)
           M == L \ {x}
           h == u.doc[x]
           HH == [H EXCEPT ![x] = h]
<1>0. NULL \notin Nodes /\ NULL \notin Docs /\ Docs \cap Nodes = {} /\ Elems \subseteq Nodes
  BY Disjoint DEF All, Nodes
<1>1. /\ u \in Trees /\ x \in Nodes /\ h \in Docs /\ M \in SUBSET Nodes /\ x \in L \ M
      /\ H \in [Nodes -> Parents \cup {NULL}] /\ F \in SUBSET Nodes /\ h \in Parents /\ L \in SUBSET Nodes
  BY DEF Placed, Homes, Owners, Parents
<1>2. u.frag[h] # x
  BY <1>0, <1>1 DEF Placed, ListEnds, Ends, Homes
<1> HIDE DEF h
<1>3. /\ w \in Trees
      /\ w.doc = u.doc /\ w.docel = u.docel /\ w.first = u.first /\ w.last = u.last
      /\ w.parent = [u.parent EXCEPT ![x] = NULL]
      /\ PutLink(u.next, w.next, M, x, NULL, u.frag[h])
      /\ PutLink(u.prev, w.prev, M, x, u.frag[h], NULL)
      /\ PutEnd(u.frag, w.frag, Docs, NULL, h, x)
  <2> HIDE DEF M
  <2> QED BY <1>1, <1>2, PushFragmentFields DEF h
<1> HIDE DEF w
<1>4. Placed(w, L, M \cup {x}, HH, F \cup {x})
  <2>1. Placed(u, L, M, H, F)
    OBVIOUS
  <2> HIDE DEF M
  <2> QED BY <1>1, <1>3, <2>1, PutFragment
<1>5. M \cup {x} = L
  OBVIOUS
<1>6. HH[x] = h /\ (\A y \in M : HH[y] = H[y]) /\ HH \in [Nodes -> Parents \cup {NULL}]
  BY <1>1
<1> HIDE DEF HH
<1>7. Owners(w, L, L, HH)
  BY <1>1, <1>3, <1>6 DEF Owners, DocOf, h
<1>8. DocumentElements(w, L)
  BY <1>1, <1>3 DEF DocumentElements, Trees
<1>9. SoundAt(w, L, HH, F \cup {x})
  BY <1>4, <1>5, <1>7, <1>8 DEF SoundAt
<1> QED BY <1>1, <1>6, <1>9 DEF Sound, w

\* removeChild up to the place where the node goes to the fragment list: it is
\* unlinked as by the other moves.
RemoveLinks(t, p, x) ==
  LET l == t.prev[x]  r == t.next[x]
      t1 == IF l # NULL THEN [t EXCEPT !.next[l] = r] ELSE [t EXCEPT !.first[p] = r]
  IN  IF r # NULL THEN [t1 EXCEPT !.prev[r] = l] ELSE [t1 EXCEPT !.last[p] = l]

(* removeChild leaves a sound tree.                                          *)
LEMMA RemoveSound ==
  ASSUME NEW t, NEW L, Sound(t, L), NEW x \in L, NEW p \in Lists(L), IsChild(t, p, x)
  PROVE  Sound(PushFragment(RemoveLinks(t, p, x), x, TRUE), L)
<1>1. PICK H \in [Nodes -> Parents \cup {NULL}], F \in SUBSET Nodes : SoundAt(t, L, H, F)
  BY DEF Sound
<1>2. /\ Placed(t, L, L, H, F) /\ Owners(t, L, L, H) /\ DocumentElements(t, L)
      /\ t \in Trees /\ L \in SUBSET Nodes /\ x \in Nodes /\ t.doc[x] \in Docs
  BY <1>1 DEF SoundAt, Placed, Homes, Owners
<1>3. H[x] = p /\ x \notin F
  BY <1>2, ChildOf
<1>4. /\ p = IF t.parent[x] # NULL THEN t.parent[x] ELSE t.doc[x]
      /\ t.prev[x] = NULL => ~(t.parent[x] = NULL /\ t.frag[t.doc[x]] = x)
      /\ t.next[x] = NULL => t.parent[x] # NULL \/ t.last[t.doc[x]] = x
  BY <1>2, <1>3, PlaceOf
<1>5. RemoveLinks(t, p, x) = Unlink(t, x)
  BY <1>4 DEF RemoveLinks, Unlink
<1> DEFINE u == Unlink(t, x)
<1>6. u.parent = t.parent /\ u.doc = t.doc /\ u.docel = t.docel
  BY <1>2, UnlinkFields
<1>7. Placed(u, L, L \ {x}, H, F \ {x})
  BY <1>2, UnlinkPlaced
<1> HIDE DEF u
<1>8. Owners(u, L, L \ {x}, H) /\ DocumentElements(u, L)
  BY <1>2, <1>6 DEF Owners, DocumentElements, DocOf
<1>9. Sound(PushFragment(u, x, TRUE), L)
  BY <1>7, <1>8, FragmentSound
<1> QED BY <1>5, <1>9 DEF u

\* replaceChild: the parent of new, and the pointers of the neighbours of old.
LinkedOver(t2, u, p, new, old) ==
  LET l == u.prev[old]  r == u.next[old]
      t3 == [t2 EXCEPT !.parent[new] = ParentFieldOf(p)]
      t4 == IF l # NULL THEN [t3 EXCEPT !.next[l] = new] ELSE [t3 EXCEPT !.first[p] = new]
  IN  IF r # NULL THEN [t4 EXCEPT !.prev[r] = new] ELSE [t4 EXCEPT !.last[p] = new]

\* All of it up to the place where old goes to the fragment list.
ReplaceLinks(u, p, new, old, d) ==
  SetDocument(LinkedOver(ForgetDocumentElement([u EXCEPT !.next[new] = u.next[old],
                                                       !.prev[new] = u.prev[old]], new),
                       u, p, new, old), new, d)

\* What that comes to, field by field.
Replaced(u, w, p, new, old, d) ==
  LET l == u.prev[old]
      r == u.next[old]
  IN  /\ w \in Trees
      /\ w.frag = u.frag /\ w.parent = [u.parent EXCEPT ![new] = ParentFieldOf(p)]
      /\ \A y \in Nodes : w.next[y] = IF y = l THEN new ELSE IF y = new THEN r ELSE u.next[y]
      /\ \A y \in Nodes : w.prev[y] = IF y = r THEN new ELSE IF y = new THEN l ELSE u.prev[y]
      /\ \A q \in Parents : w.first[q] = IF l = NULL /\ q = p THEN new ELSE u.first[q]
      /\ \A q \in Parents : w.last[q] = IF r = NULL /\ q = p THEN new ELSE u.last[q]
      /\ w.doc = [y \in Nodes |-> IF y \in Visited(w.first, w.next, new) THEN d ELSE u.doc[y]]
      /\ \A k \in Docs : w.docel[k] =
            IF u.parent[new] = NULL /\ k = u.doc[new] /\ u.docel[k] = new
            THEN u.first[u.doc[new]] ELSE u.docel[k]

(* What replaceChild changes till then, field by field.                      *)
LEMMA ReplaceFields ==
  ASSUME NEW u \in Trees, NEW p \in Parents, NEW new \in Nodes, NEW old \in Nodes,
         NEW d \in Docs, u.doc[new] \in Docs, new # old, u.prev[old] # new, u.next[old] # new
  PROVE  Replaced(u, ReplaceLinks(u, p, new, old, d), p, new, old, d)
<1> DEFINE w == ReplaceLinks(u, p, new, old, d)
           l == u.prev[old]
           r == u.next[old]
           h == u.doc[new]
           q0 == ParentFieldOf(p)
           t1 == [u EXCEPT !.next[new] = r, !.prev[new] = l]
           t2 == IF t1.parent[new] = NULL /\ t1.docel[h] = new
                 THEN [t1 EXCEPT !.docel[h] = t1.first[h]] ELSE t1
           t3 == [t2 EXCEPT !.parent[new] = q0]
           t4 == IF l # NULL THEN [t3 EXCEPT !.next[l] = new] ELSE [t3 EXCEPT !.first[p] = new]
           t5 == IF r # NULL THEN [t4 EXCEPT !.prev[r] = new] ELSE [t4 EXCEPT !.last[p] = new]
           S == Visited(t5.first, t5.next, new)
<1>0. /\ NULL \notin Nodes /\ l \in Nodes \cup {NULL} /\ r \in Nodes \cup {NULL}
      /\ h \in Docs /\ h \in Parents /\ q0 \in Elems \cup {NULL}
      /\ l # new /\ r # new
  BY Disjoint DEF All, Trees, Parents, ParentFieldOf
<1>1. w = [t5 EXCEPT !.doc = [y \in Nodes |-> IF y \in S THEN d ELSE t5.doc[y]]]
  <2>1. t1.doc[new] = h
    BY DEF Trees
  <2>2. ForgetDocumentElement(t1, new) = t2
    <3> HIDE DEF t1, h
    <3> QED BY <2>1 DEF ForgetDocumentElement
  <2> HIDE DEF t2
  <2>3. w = SetDocument(LinkedOver(t2, u, p, new, old), new, d)
    BY <2>2 DEF ReplaceLinks
  <2>4. LinkedOver(t2, u, p, new, old) = t5
    BY DEF LinkedOver
  <2> HIDE DEF t5, w
  <2> QED BY <2>3, <2>4 DEF SetDocument
<1> HIDE DEF w, l, r, h, q0, S
<1>2. /\ t1 \in Trees
      /\ t1.parent = u.parent /\ t1.doc = u.doc /\ t1.docel = u.docel /\ t1.frag = u.frag
      /\ t1.first = u.first /\ t1.last = u.last
      /\ \A y \in Nodes : t1.next[y] = IF y = new THEN r ELSE u.next[y]
      /\ \A y \in Nodes : t1.prev[y] = IF y = new THEN l ELSE u.prev[y]
  BY <1>0 DEF Trees
<1> HIDE DEF t1
<1>3. /\ t2 \in Trees
      /\ t2.parent = u.parent /\ t2.doc = u.doc /\ t2.frag = u.frag
      /\ t2.first = u.first /\ t2.last = u.last /\ t2.next = t1.next /\ t2.prev = t1.prev
      /\ \A k \in Docs : t2.docel[k] = IF u.parent[new] = NULL /\ k = h /\ u.docel[k] = new
                                       THEN u.first[h] ELSE u.docel[k]
  <2>1. CASE u.parent[new] = NULL /\ u.docel[h] = new
    BY <2>1, <1>0, <1>2 DEF Trees
  <2>2. CASE ~(u.parent[new] = NULL /\ u.docel[h] = new)
    BY <2>2, <1>0, <1>2 DEF Trees
  <2> QED BY <2>1, <2>2
<1> HIDE DEF t2
<1>4. /\ t3 \in Trees
      /\ t3.parent = [u.parent EXCEPT ![new] = q0] /\ t3.doc = u.doc /\ t3.frag = u.frag
      /\ t3.first = u.first /\ t3.last = u.last /\ t3.next = t1.next /\ t3.prev = t1.prev
      /\ t3.docel = t2.docel
  BY <1>0, <1>3 DEF Trees
<1> HIDE DEF t3
<1>5. /\ t4 \in Trees
      /\ t4.parent = t3.parent /\ t4.doc = u.doc /\ t4.frag = u.frag
      /\ t4.last = u.last /\ t4.prev = t1.prev /\ t4.docel = t2.docel
      /\ \A y \in Nodes : t4.next[y] = IF y = l THEN new ELSE t1.next[y]
      /\ \A q \in Parents : t4.first[q] = IF l = NULL /\ q = p THEN new ELSE u.first[q]
  <2>1. CASE l # NULL
    BY <2>1, <1>0, <1>4 DEF Trees
  <2>2. CASE l = NULL
    BY <2>2, <1>0, <1>4 DEF Trees
  <2> QED BY <2>1, <2>2
<1> HIDE DEF t4
<1>6. /\ t5 \in Trees
      /\ t5.parent = t3.parent /\ t5.doc = u.doc /\ t5.frag = u.frag
      /\ t5.next = t4.next /\ t5.first = t4.first /\ t5.docel = t2.docel
      /\ \A y \in Nodes : t5.prev[y] = IF y = r THEN new ELSE t1.prev[y]
      /\ \A q \in Parents : t5.last[q] = IF r = NULL /\ q = p THEN new ELSE u.last[q]
  <2>1. CASE r # NULL
    BY <2>1, <1>0, <1>5 DEF Trees
  <2>2. CASE r = NULL
    BY <2>2, <1>0, <1>5 DEF Trees
  <2> QED BY <2>1, <2>2
<1> HIDE DEF t5
<1>7. /\ w \in Trees
      /\ w.parent = t5.parent /\ w.frag = t5.frag /\ w.next = t5.next /\ w.prev = t5.prev
      /\ w.first = t5.first /\ w.last = t5.last /\ w.docel = t5.docel
      /\ w.doc = [y \in Nodes |-> IF y \in S THEN d ELSE u.doc[y]]
  BY <1>1, <1>6 DEF Trees
<1>8. S = Visited(w.first, w.next, new)
  BY <1>7 DEF S
<1>9. \A y \in Nodes : w.next[y] = IF y = l THEN new ELSE IF y = new THEN r ELSE u.next[y]
  BY <1>2, <1>5, <1>6, <1>7
<1>10. \A y \in Nodes : w.prev[y] = IF y = r THEN new ELSE IF y = new THEN l ELSE u.prev[y]
  BY <1>2, <1>6, <1>7
<1>11. \A k \in Docs : w.docel[k] = IF u.parent[new] = NULL /\ k = h /\ u.docel[k] = new
                                    THEN u.first[h] ELSE u.docel[k]
  BY <1>3, <1>6, <1>7
<1> QED BY <1>4, <1>5, <1>6, <1>7, <1>8, <1>9, <1>10, <1>11 DEF Replaced, w, l, r, h, q0

(* replaceChild leaves a sound tree when no node of the fragment list would  *)
(* keep the previousSibling that old has.                                    *)
LEMMA ReplaceSound ==
  ASSUME NEW t, NEW L, Sound(t, L), NEW new \in L, NEW old \in L, NEW p \in Lists(L),
         IsChild(t, p, old), new # old, new \notin Ancestors(t, p),
         NEW empty \in BOOLEAN, empty \/ Unlink(t, new).prev[old] = NULL
  PROVE  Sound(PushFragment(ReplaceLinks(Unlink(t, new), p, new, old, DocOf(t, p)), old, empty), L)
<1>1. PICK H \in [Nodes -> Parents \cup {NULL}], F \in SUBSET Nodes : SoundAt(t, L, H, F)
  BY DEF Sound
<1> DEFINE u == Unlink(t, new)
           N == L \ {new}
           G == F \ {new}
           c0 == Unlink(u, old)
           M == N \ {old}
           K == G \ {old}
           l == u.prev[old]
           r == u.next[old]
           d == DocOf(t, p)
           w == ReplaceLinks(u, p, new, old, d)
           V == Visited(w.first, w.next, new)
           HH == [H EXCEPT ![new] = p]
           c == u.first[t.doc[new]]
<1>0. NULL \notin Nodes /\ NULL \notin Docs /\ Docs \cap Nodes = {} /\ Elems \subseteq Nodes
  BY Disjoint DEF All, Nodes
<1>2. /\ Placed(t, L, L, H, F) /\ Owners(t, L, L, H) /\ DocumentElements(t, L)
      /\ t \in Trees /\ L \in SUBSET Nodes
      /\ new \in Nodes /\ old \in Nodes /\ p \in Parents /\ t.doc[new] \in Docs /\ t.doc[old] \in Docs
      /\ d \in Docs
  BY <1>1 DEF SoundAt, Placed, Homes, Owners, Lists, Parents, DocOf
<1>3. u \in Trees /\ u.parent = t.parent /\ u.doc = t.doc /\ u.docel = t.docel
  BY <1>2, UnlinkFields
<1>4. Placed(u, L, N, H, G)
  BY <1>2, UnlinkPlaced
<1> HIDE DEF u
<1>5. H[old] = p /\ old \in N /\ old \notin G /\ K = G
  BY <1>2, ChildOf
<1>6. Owners(u, L, N, H)
  BY <1>2, <1>3 DEF Owners, DocOf
<1> HIDE DEF N, G
<1>7. Placed(c0, L, M, H, K)
  BY <1>4, <1>5, <1>6, UnlinkPlaced
<1>8. /\ p = IF u.parent[old] # NULL THEN u.parent[old] ELSE u.doc[old]
      /\ l = NULL => ~(u.parent[old] = NULL /\ u.frag[u.doc[old]] = old)
      /\ r = NULL => u.parent[old] # NULL \/ u.last[u.doc[old]] = old
      /\ l # old /\ r # old
  BY <1>4, <1>5, <1>6, PlaceOf
<1>9. /\ c0.parent = u.parent /\ c0.frag = u.frag
      /\ \A y \in Nodes : c0.next[y] = IF y = l THEN r ELSE u.next[y]
      /\ \A y \in Nodes : c0.prev[y] = IF y = r THEN l ELSE u.prev[y]
      /\ \A q \in Parents : c0.first[q] = IF l = NULL /\ q = p THEN r ELSE u.first[q]
      /\ \A q \in Parents : c0.last[q] = IF r = NULL /\ q = p THEN l ELSE u.last[q]
  <2>1. u.doc[old] \in Docs
    BY <1>2, <1>3
  <2> HIDE DEF l, r
  <2>2. /\ c0 \in Trees /\ c0.parent = u.parent
        /\ \A y \in Nodes : c0.next[y] = IF y = l THEN r ELSE u.next[y]
        /\ \A y \in Nodes : c0.prev[y] = IF y = r THEN l ELSE u.prev[y]
        /\ \A q \in Parents : c0.first[q] = IF l = NULL /\ q = p THEN r ELSE u.first[q]
        /\ \A q \in Parents : c0.last[q] = IF r = NULL /\ q = p THEN l ELSE u.last[q]
        /\ \A q \in Docs : c0.frag[q] = u.frag[q]
    BY <1>2, <1>3, <1>8, <2>1, UnlinkFields DEF l, r
  <2> HIDE DEF c0
  <2>3. c0.frag = u.frag
    BY <2>2, <1>3 DEF Trees
  <2> QED BY <2>2, <2>3
<1> HIDE DEF c0
<1>10. /\ l # NULL => l \in M \ K /\ H[l] = p
       /\ r # NULL => r \in M \ K /\ H[r] = p
       /\ l # NULL => l # r
       /\ l # new /\ r # new
  <2>1. /\ l # NULL => l \in N \ G /\ H[l] = p /\ u.next[l] = old
        /\ r # NULL => r \in N \ G /\ H[r] = p /\ u.prev[r] = old
    BY <1>4, <1>5 DEF Placed, Chains, Toward
  <2>2. l # NULL /\ l = r => {l, old} \in SUBSET N /\ \A y \in {l, old} : u.next[y] \in {l, old}
    BY <2>1, <1>5
  <2>3. ~(l # NULL /\ l = r)
    <3>1. SUFFICES ASSUME l # NULL /\ l = r PROVE FALSE
      OBVIOUS
    <3> DEFINE two == {l, old}
    <3>2. two \in SUBSET N /\ two # {} /\ \A y \in two : u.next[y] \in two
      BY <3>1, <2>2
    <3> HIDE DEF two
    <3> QED BY <3>2, <1>4 DEF Placed, Chains, Stops
  <2> QED BY <2>1, <2>3, <1>2, <1>0, <1>5, <1>8 DEF N
<1>11. Between(c0, M \ K, H, p, l, r)
  <2>1. M \subseteq Nodes
    BY <1>2 DEF N
  <2> HIDE DEF M, l, r
  <2>2. /\ l # NULL => c0.next[l] = r
        /\ r # NULL => c0.prev[r] = l
    BY <1>9, <1>10, <2>1
  <2> QED BY <1>10, <2>2 DEF Between
<1>12. /\ w \in Trees
       /\ w.frag = u.frag /\ w.parent = [u.parent EXCEPT ![new] = ParentFieldOf(p)]
       /\ \A y \in Nodes : w.next[y] = IF y = l THEN new ELSE IF y = new THEN r ELSE u.next[y]
       /\ \A y \in Nodes : w.prev[y] = IF y = r THEN new ELSE IF y = new THEN l ELSE u.prev[y]
       /\ \A q \in Parents : w.first[q] = IF l = NULL /\ q = p THEN new ELSE u.first[q]
       /\ \A q \in Parents : w.last[q] = IF r = NULL /\ q = p THEN new ELSE u.last[q]
       /\ w.doc = [y \in Nodes |-> IF y \in V THEN d ELSE t.doc[y]]
       /\ \A k \in Docs : w.docel[k] =
             IF t.parent[new] = NULL /\ k = t.doc[new] /\ t.docel[k] = new
             THEN c ELSE t.docel[k]
  <2> HIDE DEF d, c, V
  <2>1. u.doc[new] \in Docs
    BY <1>2, <1>3
  <2>2. Replaced(u, w, p, new, old, d)
    BY <1>2, <1>3, <1>10, <2>1, ReplaceFields
  <2> HIDE DEF w, l, r
  <2>3. /\ w \in Trees
        /\ w.frag = u.frag /\ w.parent = [u.parent EXCEPT ![new] = ParentFieldOf(p)]
        /\ \A y \in Nodes : w.next[y] = IF y = l THEN new ELSE IF y = new THEN r ELSE u.next[y]
        /\ \A y \in Nodes : w.prev[y] = IF y = r THEN new ELSE IF y = new THEN l ELSE u.prev[y]
        /\ \A q \in Parents : w.first[q] = IF l = NULL /\ q = p THEN new ELSE u.first[q]
        /\ \A q \in Parents : w.last[q] = IF r = NULL /\ q = p THEN new ELSE u.last[q]
        /\ w.doc = [y \in Nodes |-> IF y \in V THEN d ELSE u.doc[y]]
    BY <2>2 DEF Replaced, V, l, r
  <2>4. \A k \in Docs : w.docel[k] =
             IF u.parent[new] = NULL /\ k = u.doc[new] /\ u.docel[k] = new
             THEN u.first[u.doc[new]] ELSE u.docel[k]
    BY <2>2 DEF Replaced
  <2>5. c = u.first[u.doc[new]]
    BY <1>3 DEF c
  <2> QED BY <1>3, <2>3, <2>4, <2>5
<1> HIDE DEF w
<1>13. M \subseteq Nodes /\ new \in L \ M /\ M \cup {new} \in SUBSET Nodes
  BY <1>2 DEF N
<1>14. Stops(w.parent, M \cup {new})
  <2>1. t.parent \in [Nodes -> Pointer] /\ p \in All
    BY <1>0, <1>2 DEF Trees, Pointer, All, Parents
  <2>2. /\ p \in Ancestors(t, p)
        /\ \A y \in Ancestors(t, p) \cap Nodes : t.parent[y] # NULL =>
                                         t.parent[y] \in Ancestors(t, p)
    BY <2>1, AncestorsClosed
  <2>3. w.parent[new] # NULL => w.parent[new] \in Ancestors(t, p)
    BY <1>2, <1>3, <1>12, <2>1, <2>2 DEF ParentFieldOf
  <2>4. \A y \in M : w.parent[y] = t.parent[y]
    BY <1>2, <1>3, <1>12, <1>13, <2>1
  <2>5. M \in SUBSET Nodes /\ new \in Nodes \ M /\ Stops(t.parent, M)
    BY <1>2, <1>3, <1>7, <1>9, <1>13 DEF Placed
  <2> HIDE DEF M
  <2> QED BY <2>2, <2>3, <2>4, <2>5, PutGrounded
<1>15. /\ PutLink(c0.next, w.next, M, new, l, r) /\ PutLink(c0.prev, w.prev, M, new, r, l)
       /\ PutEnd(c0.first, w.first, Parents, l, p, new)
       /\ PutEnd(c0.last, w.last, Parents, r, p, new)
  <2> HIDE DEF l, r, M
  <2>1. PutLink(c0.next, w.next, M, new, l, r)
    BY <1>2, <1>9, <1>12, <1>13 DEF PutLink
  <2>2. PutLink(c0.prev, w.prev, M, new, r, l)
    BY <1>2, <1>9, <1>12, <1>13 DEF PutLink
  <2>3. PutEnd(c0.first, w.first, Parents, l, p, new)
    BY <1>9, <1>12 DEF PutEnd
  <2>4. PutEnd(c0.last, w.last, Parents, r, p, new)
    BY <1>9, <1>12 DEF PutEnd
  <2> QED BY <2>1, <2>2, <2>3, <2>4
<1>16. Placed(w, L, M \cup {new}, HH, K)
  <2>1. w.frag = c0.frag /\ w.parent = [c0.parent EXCEPT ![new] = ParentFieldOf(p)]
    BY <1>9, <1>12
  <2>2. l = NULL /\ r = NULL => c0.first[p] = NULL
    BY <1>2, <1>9
  <2> HIDE DEF M, K, l, r
  <2> QED BY <1>7, <1>11, <1>12, <1>13, <1>14, <1>15, <2>1, <2>2, PutChild
<1>17. M \cup {new} = L \ {old}
  BY <1>5 DEF N
<1>18. /\ HH[new] = p /\ (\A y \in L \ {new} : HH[y] = H[y]) /\ HH \in [Nodes -> Parents \cup {NULL}]
  BY <1>2
<1> HIDE DEF HH, M
<1> DEFINE A == L \ {old}
<1>19. Placed(w, L, A, HH, K) /\ new \in A
  BY <1>16, <1>17
<1>20. Below(V, A, HH, new)
  <2> HIDE DEF A, V, K
  <2> QED BY <1>19, Subtree DEF V
<1> HIDE DEF V
<1>21. Owners(w, L, A, HH)
  <2>1. d = IF HH[new] \in Docs THEN HH[new] ELSE t.doc[HH[new]]
    BY <1>18 DEF DocOf
  <2>2. (\A y \in L : t.doc[y] \in Docs)
        /\ \A y \in A \ {new} : t.doc[y] = IF HH[y] \in Docs THEN HH[y] ELSE t.doc[HH[y]]
    BY <1>2, <1>18 DEF Owners, DocOf
  <2> HIDE DEF d, A, K
  <2> QED BY <1>2, <1>12, <1>19, <1>20, <2>1, <2>2, AdoptOwners
<1>22. c # NULL => c \in L /\ w.doc[c] = t.doc[new] /\ w.parent[c] = NULL
  <2> SUFFICES ASSUME c # NULL PROVE c \in L /\ w.doc[c] = t.doc[new] /\ w.parent[c] = NULL
    OBVIOUS
  <2>1. c \in N /\ H[c] = t.doc[new]
    BY <1>2, <1>4 DEF Placed, ListEnds, Ends, Lists
  <2>2. c \in L /\ c # new /\ c \in Nodes
    BY <2>1, <1>2 DEF N
  <2>3. u.parent[c] = NULL /\ u.doc[c] = t.doc[new]
    BY <1>2, <1>4, <1>6, <2>1 DEF Placed, Homes, Owners, DocOf, ParentFieldOf
  <2>4. c \notin V
    <3>1. HH[c] = t.doc[new] /\ V \subseteq Nodes
      BY <1>18, <1>20, <1>2, <2>1, <2>2 DEF Below
    <3>2. c \in V => HH[c] \in V
      BY <1>20, <2>2 DEF Below
    <3> QED BY <3>1, <3>2, <1>0, <1>2
  <2> HIDE DEF c
  <2> QED BY <1>2, <1>3, <1>12, <2>2, <2>3, <2>4
<1>23. DocumentElements(w, L)
  <2>1. t.parent \in [Nodes -> Elems \cup {NULL}]
    BY <1>2 DEF Trees
  <2>2. /\ NewOwners(t, w, V, d) /\ NewParent(t, w, new, ParentFieldOf(p))
        /\ NewDocumentElement(t, w, new, c)
    BY <1>3, <1>12 DEF NewOwners, NewParent, NewDocumentElement
  <2>3. DocumentElements(t, L) /\ d \in Docs
    BY <1>2
  <2> HIDE DEF c, d, A, K
  <2> QED BY <1>19, <1>20, <1>22, <2>1, <2>2, <2>3, AdoptDocumentElements
<1>24. empty \/ w.prev[old] = NULL
  <2>1. w.prev[old] = l
    BY <1>2, <1>8, <1>12
  <2> QED BY <2>1 DEF u
<1>25. Sound(PushFragment(w, old, empty), L)
  <2> HIDE DEF K
  <2> QED BY <1>19, <1>21, <1>23, <1>24, FragmentSound
<1> QED BY <1>25 DEF w, u

(* A node that is new floats until it is linked.                             *)
LEMMA NewPlaced ==
  ASSUME NEW t, NEW L, NEW H, NEW F, SoundAt(t, L, H, F), NEW x \in Nodes \ L,
         NEW d \in Docs, NEW u \in Trees,
         u.next = t.next, u.prev = t.prev, u.first = t.first, u.last = t.last, u.frag = t.frag,
         u.docel = t.docel, \A y \in Nodes : y # x => u.parent[y] = t.parent[y],
         \A y \in Nodes : u.doc[y] = IF y = x THEN d ELSE t.doc[y]
  PROVE  LET N == L \cup {x}
         IN  Placed(u, N, N \ {x}, H, F) /\ Owners(u, N, N \ {x}, H) /\ DocumentElements(u, N)
<1> DEFINE N == L \cup {x}
<1>0. NULL \notin Nodes /\ NULL \notin Docs /\ Docs \cap Nodes = {} /\ Elems \subseteq Nodes
  BY Disjoint DEF All, Nodes
<1>1. /\ t \in Trees /\ Homes(t, L, L, H, F) /\ Chains(t, L, H, F) /\ ListEnds(t, L, L, H, F)
      /\ Stops(t.parent, L) /\ Owners(t, L, L, H) /\ DocumentElements(t, L)
  BY DEF SoundAt, Placed
<1>2. L \in SUBSET Nodes /\ F \in SUBSET L /\ H \in [Nodes -> Parents \cup {NULL}] /\ N \ {x} = L
  BY <1>1 DEF Homes
<1>3. Homes(u, N, L, H, F)
  BY <1>1, <1>2 DEF Homes, Lists
<1>4. Chains(u, L, H, F)
  BY <1>1 DEF Chains
<1>5. Stops(u.parent, L)
  BY <1>1, <1>2 DEF Stops
<1>6. ListEnds(u, N, L, H, F)
  <2>1. x \in Elems => t.first[x] = NULL /\ t.last[x] = NULL
    BY <1>1 DEF ListEnds, Parents
  <2>2. \A y \in L \ F : H[y] \in Lists(L)
    BY <1>1 DEF Homes
  <2>3. Ends(u.first, u.prev, Lists(N), L \ F, H)
    BY <1>1, <2>1 DEF ListEnds, Ends, Lists
  <2>4. Ends(u.last, u.next, Lists(N), L \ F, H)
    BY <1>1, <2>1 DEF ListEnds, Ends, Lists
  <2> QED BY <1>1, <2>3, <2>4 DEF ListEnds
<1>7. Placed(u, N, L, H, F)
  BY <1>3, <1>4, <1>5, <1>6 DEF Placed
<1>8. Owners(u, N, L, H)
  <2>1. \A y \in L : H[y] \in Docs \/ H[y] \in L
    BY <1>1 DEF Homes, Lists
  <2> QED BY <1>1, <1>2, <2>1 DEF Owners, DocOf
<1>9. DocumentElements(u, N)
  BY <1>1, <1>2 DEF DocumentElements
<1> QED BY <1>2, <1>7, <1>8, <1>9

(* The creation of a detached node leaves a sound tree.                      *)
LEMMA CreateSound ==
  ASSUME NEW t, NEW L, Sound(t, L), NEW x \in Nodes \ L, NEW d \in Docs
  PROVE  Sound(PushFragment([t EXCEPT !.doc[x] = d], x, TRUE), L \cup {x})
<1>1. PICK H \in [Nodes -> Parents \cup {NULL}], F \in SUBSET Nodes : SoundAt(t, L, H, F)
  BY DEF Sound
<1> DEFINE u == [t EXCEPT !.doc[x] = d]
           N == L \cup {x}
<1>2. t \in Trees
  BY <1>1 DEF SoundAt, Placed
<1>3. /\ u \in Trees
      /\ u.next = t.next /\ u.prev = t.prev /\ u.first = t.first /\ u.last = t.last
      /\ u.frag = t.frag /\ u.docel = t.docel /\ u.parent = t.parent
      /\ \A y \in Nodes : u.doc[y] = IF y = x THEN d ELSE t.doc[y]
  BY <1>2 DEF Trees
<1> HIDE DEF u
<1>4. Placed(u, N, N \ {x}, H, F) /\ Owners(u, N, N \ {x}, H) /\ DocumentElements(u, N)
  BY <1>1, <1>3, NewPlaced
<1>5. x \in N
  OBVIOUS
<1> HIDE DEF N
<1>6. Sound(PushFragment(u, x, TRUE), N)
  BY <1>4, <1>5, FragmentSound
<1> QED BY <1>6 DEF u, N

(* A new last child is linked below a node in use, so its parent leads on.   *)
LEMMA NewLastSound ==
  ASSUME NEW t, NEW L, Sound(t, L), NEW x \in Nodes \ L, NEW p \in Lists(L)
  PROVE  Sound(NewLast(t, p, x), L \cup {x})
<1>1. PICK H \in [Nodes -> Parents \cup {NULL}], F \in SUBSET Nodes : SoundAt(t, L, H, F)
  BY DEF Sound
<1> DEFINE d == DocOf(t, p)
           q == ParentFieldOf(p)
           u == [t EXCEPT !.doc[x] = d, !.parent[x] = q]
           N == L \cup {x}
           v == LinkLast(u, p, x)
           a == u.last[p]
           HH == [H EXCEPT ![x] = p]
<1>0. NULL \notin Nodes /\ NULL \notin Docs /\ Docs \cap Nodes = {} /\ Elems \subseteq Nodes
  BY Disjoint DEF All, Nodes
<1>2. /\ t \in Trees /\ Placed(t, L, L, H, F) /\ Owners(t, L, L, H) /\ L \in SUBSET Nodes
      /\ F \in SUBSET L /\ p \in Parents /\ d \in Docs /\ q \in Elems \cup {NULL}
  BY <1>1 DEF SoundAt, Placed, Homes, Owners, Lists, Parents, DocOf, ParentFieldOf
<1>3. /\ u \in Trees
      /\ u.next = t.next /\ u.prev = t.prev /\ u.first = t.first /\ u.last = t.last
      /\ u.frag = t.frag /\ u.docel = t.docel
      /\ u.parent = [t.parent EXCEPT ![x] = q]
      /\ \A y \in Nodes : u.doc[y] = IF y = x THEN d ELSE t.doc[y]
  <2> HIDE DEF d, q
  <2> QED BY <1>2 DEF Trees
<1> HIDE DEF u
<1>4. \A y \in Nodes : u.parent[y] = IF y = x THEN q ELSE t.parent[y]
  BY <1>2, <1>3 DEF Trees
<1>5. Placed(u, N, N \ {x}, H, F) /\ Owners(u, N, N \ {x}, H) /\ DocumentElements(u, N)
  <2>1. \A y \in Nodes : y # x => u.parent[y] = t.parent[y]
    BY <1>4
  <2>2. /\ u \in Trees
        /\ u.next = t.next /\ u.prev = t.prev /\ u.first = t.first /\ u.last = t.last
        /\ u.frag = t.frag /\ u.docel = t.docel
        /\ \A y \in Nodes : u.doc[y] = IF y = x THEN d ELSE t.doc[y]
    BY <1>3
  <2>3. d \in Docs
    BY <1>2
  <2> HIDE DEF d
  <2> QED BY <1>1, <2>1, <2>2, <2>3, NewPlaced
<1>6. N \ {x} = L /\ x \in N \ L
  OBVIOUS
<1>7. /\ a # NULL => a \in L \ F /\ u.next[a] = NULL /\ H[a] = p
      /\ a = NULL => u.first[p] = NULL
      /\ a # x
  <2>1. p \in Lists(N)
    BY DEF Lists
  <2> QED BY <1>0, <1>2, <1>5, <1>6, <2>1 DEF Placed, ListEnds, Ends
<1>8. Between(u, L \ F, H, p, a, NULL)
  BY <1>7 DEF Between
<1>9. /\ v \in Trees
      /\ v.parent = u.parent /\ v.doc = u.doc /\ v.docel = u.docel /\ v.frag = u.frag
      /\ PutLink(u.next, v.next, L, x, a, NULL)
      /\ PutLink(u.prev, v.prev, L, x, NULL, a)
      /\ PutEnd(u.first, v.first, Parents, a, p, x)
      /\ PutEnd(u.last, v.last, Parents, NULL, p, x)
  BY <1>2, <1>3, <1>7, LinkLastFields
<1> HIDE DEF v, a
<1>10. Stops(v.parent, N)
  <2> SUFFICES ASSUME NEW S \in SUBSET N, S # {}, \A y \in S : u.parent[y] \in S
               PROVE  FALSE
    BY <1>9 DEF Stops
  <2>1. \A y \in L : t.parent[y] = NULL \/ t.parent[y] \in L
    BY <1>2 DEF Placed, Homes, Lists, ParentFieldOf
  <2>2. q # x
    BY <1>0, <1>2 DEF ParentFieldOf, Lists
  <2>3. \A y \in S \cap L : u.parent[y] \in S \cap L
    BY <1>0, <1>2, <1>4, <2>1
  <2>4. S \cap L \in SUBSET L /\ \A y \in S \cap L : t.parent[y] \in S \cap L
    BY <1>2, <1>4, <2>3
  <2>5. S \cap L = {}
    BY <1>2, <2>4 DEF Placed, Stops
  <2> HIDE DEF q
  <2> QED BY <1>4, <2>2, <2>5
<1>11. Placed(v, N, N, HH, F)
  <2>1. L \cup {x} = N /\ p \in Lists(N)
    BY DEF Lists
  <2>2. v.frag = u.frag /\ v.parent = [u.parent EXCEPT ![x] = ParentFieldOf(p)]
    <3>1. u.parent = [u.parent EXCEPT ![x] = q]
      BY <1>3, <1>4 DEF Trees
    <3> QED BY <3>1, <1>9
  <2>3. Placed(u, N, L, H, F) /\ Stops(v.parent, L \cup {x})
    BY <1>5, <1>6, <1>10
  <2>4. a = NULL /\ NULL = NULL => u.first[p] = NULL
    BY <1>7
  <2> HIDE DEF N, HH
  <2>5. Placed(v, N, L \cup {x}, HH, F)
    BY <1>6, <1>8, <1>9, <2>1, <2>2, <2>3, <2>4, PutChild DEF HH
  <2> QED BY <2>1, <2>5
<1>12. HH[x] = p /\ (\A y \in L : HH[y] = H[y]) /\ HH \in [Nodes -> Parents \cup {NULL}]
  BY <1>2
<1> HIDE DEF HH
<1>13. Owners(v, N, N, HH)
  <2>1. \A y \in N : v.doc[y] \in Docs
    BY <1>5, <1>9 DEF Owners
  <2>2. ASSUME NEW y \in L PROVE v.doc[y] = DocOf(v, HH[y])
    BY <1>5, <1>6, <1>9, <1>12 DEF Owners, DocOf
  <2>3. v.doc[x] = DocOf(v, HH[x])
    <3>1. v.doc[x] = d
      BY <1>3, <1>9
    <3>2. p \in Docs \/ p \in L
      BY DEF Lists
    <3> QED BY <1>2, <1>3, <1>9, <1>12, <3>1, <3>2 DEF DocOf
  <2> QED BY <2>1, <2>2, <2>3 DEF Owners
<1>14. DocumentElements(v, N)
  BY <1>5, <1>9 DEF DocumentElements
<1>15. Sound(v, N)
  BY <1>2, <1>11, <1>12, <1>13, <1>14 DEF Sound, SoundAt
<1> QED BY <1>15 DEF NewLast, v, u

(* The search for an element of a chain ends with one, when there is one.    *)
LEMMA FirstElement ==
  ASSUME NEW f \in [Nodes -> Pointer], NEW x \in Pointer, NEW E, InChain(f, x) \cap E # {}
  PROVE  \E e \in InChain(f, x) \cap E : InChain(f, x) \cap E \subseteq InChain(f, e)
<1> DEFINE C == InChain(f, x)
           K == C \cap E
           T == {y \in C : K \subseteq InChain(f, y)}
<1>1. /\ C \in SUBSET Nodes
      /\ x # NULL => x \in C
      /\ \A y \in C : f[y] # NULL => f[y] \in C
      /\ \A S \in SUBSET Nodes : (x # NULL => x \in S) /\ (\A y \in S : f[y] # NULL => f[y] \in S)
                                  => C \subseteq S
  BY ChainIsLeast
<1> HIDE DEF C
<1> SUFFICES ASSUME T \cap E = {} PROVE FALSE
  BY DEF C
<1>2. K # {}
  BY DEF C
<1>3. x # NULL => x \in T
  BY <1>1 DEF C
<1>4. ASSUME NEW y \in T, f[y] # NULL PROVE f[y] \in T
  <2>1. y \in Nodes /\ f[y] \in C /\ f[y] \in Pointer /\ K \subseteq InChain(f, y) /\ y \notin E
    BY <1>1, <1>4
  <2>2. f[y] \in InChain(f, f[y]) /\ InChain(f, f[y]) \in SUBSET Nodes
        /\ \A z \in InChain(f, f[y]) : f[z] # NULL => f[z] \in InChain(f, f[y])
    BY <1>4, <2>1, ChainIsLeast
  <2> DEFINE S == {y} \cup InChain(f, f[y])
  <2>3. S \in SUBSET Nodes /\ y \in S /\ \A z \in S : f[z] # NULL => f[z] \in S
    BY <2>1, <2>2
  <2>4. InChain(f, y) \subseteq S
    <3> HIDE DEF S
    <3> QED BY <2>1, <2>3, ChainIsLeast DEF Pointer
  <2>5. K \subseteq InChain(f, f[y])
    BY <2>1, <2>4
  <2> QED BY <2>1, <2>5
<1>5. C \subseteq T
  <2>1. T \in SUBSET Nodes
    BY <1>1
  <2> HIDE DEF T
  <2> QED BY <1>1, <1>3, <1>4, <2>1
<1> QED BY <1>2, <1>5

(* Looking for the documentElement changes that alone, to a top-level node.  *)
LEMMA FindFields ==
  ASSUME NEW t, NEW L, NEW M, NEW H, NEW F, Placed(t, L, M, H, F), NEW d \in Docs
  PROVE  LET w == SetDocumentElement(t, d)
         IN  /\ w \in Trees
             /\ w.next = t.next /\ w.prev = t.prev /\ w.first = t.first /\ w.last = t.last
             /\ w.frag = t.frag /\ w.parent = t.parent /\ w.doc = t.doc
             /\ \A k \in Docs : k # d => w.docel[k] = t.docel[k]
             /\ w.docel[d] # NULL => w.docel[d] \in M \ F /\ H[w.docel[d]] = d
<1> DEFINE w == SetDocumentElement(t, d)
           C == InChain(t.next, t.first[d])
           elems == C \cap Elems
           e == CHOOSE e \in elems : elems \subseteq InChain(t.next, e)
           c == IF elems = {} THEN t.first[d] ELSE e
<1>1. w = [t EXCEPT !.docel[d] = c]
  BY DEF SetDocumentElement
<1>2. t \in Trees /\ t.next \in [Nodes -> Pointer] /\ t.first[d] \in Pointer
  BY DEF Placed, Trees, Pointer, Parents
<1>3. /\ C \subseteq {y \in M \ F : H[y] = d}
      /\ C \in SUBSET Nodes
      /\ t.first[d] # NULL => t.first[d] \in C
  BY <1>2, ChainOfList, ChainIsLeast DEF Lists
<1>4. elems # {} => e \in elems
  <2>1. elems # {} => \E y \in elems : elems \subseteq InChain(t.next, y)
    BY <1>2, FirstElement
  <2> HIDE DEF elems
  <2> QED BY <2>1
<1>5. c # NULL => c \in C
  <2> HIDE DEF C, e
  <2> QED BY <1>3, <1>4
<1>6. c \in Pointer
  <2> HIDE DEF C, c
  <2> QED BY <1>3, <1>5 DEF Pointer
<1> HIDE DEF c, C, w
<1>7. /\ w \in Trees
      /\ w.next = t.next /\ w.prev = t.prev /\ w.first = t.first /\ w.last = t.last
      /\ w.frag = t.frag /\ w.parent = t.parent /\ w.doc = t.doc
      /\ \A k \in Docs : w.docel[k] = IF k = d THEN c ELSE t.docel[k]
  BY <1>1, <1>2, <1>6 DEF Trees, Pointer
<1> QED BY <1>3, <1>5, <1>7 DEF w

(* Looking for the documentElement leaves a sound tree.                      *)
LEMMA FindSound ==
  ASSUME NEW t, NEW L, Sound(t, L), NEW d \in Docs
  PROVE  Sound(SetDocumentElement(t, d), L)
<1>1. PICK H \in [Nodes -> Parents \cup {NULL}], F \in SUBSET Nodes : SoundAt(t, L, H, F)
  BY DEF Sound
<1> DEFINE w == SetDocumentElement(t, d)
<1>0. NULL \notin Docs
  BY Disjoint DEF All
<1>2. Placed(t, L, L, H, F) /\ Owners(t, L, L, H) /\ DocumentElements(t, L)
  BY <1>1 DEF SoundAt
<1>3. /\ w \in Trees
      /\ w.next = t.next /\ w.prev = t.prev /\ w.first = t.first /\ w.last = t.last
      /\ w.frag = t.frag /\ w.parent = t.parent /\ w.doc = t.doc
      /\ \A k \in Docs : k # d => w.docel[k] = t.docel[k]
      /\ w.docel[d] # NULL => w.docel[d] \in L \ F /\ H[w.docel[d]] = d
  BY <1>2, FindFields
<1> HIDE DEF w
<1>4. Placed(w, L, L, H, F)
  BY <1>2, <1>3 DEF Placed, Homes, Chains, ListEnds
<1>5. Owners(w, L, L, H)
  BY <1>2, <1>3 DEF Owners, DocOf
<1>6. DocumentElements(w, L)
  <2>1. w.docel[d] # NULL => w.doc[w.docel[d]] = d /\ w.parent[w.docel[d]] = NULL
    BY <1>3, <1>4, <1>5 DEF Placed, Homes, Owners, DocOf, ParentFieldOf
  <2> QED BY <1>2, <1>3, <2>1 DEF DocumentElements
<1>7. SoundAt(w, L, H, F)
  BY <1>4, <1>5, <1>6 DEF SoundAt
<1> QED BY <1>7 DEF Sound, w

\* domDeleteNode before it looks for the documentElement again.
Dropped(t, x) ==
  LET p == t.parent[x]  d == t.doc[x]  l == t.prev[x]  r == t.next[x]
      t1 == IF l # NULL THEN [t EXCEPT !.next[l] = r]
            ELSE IF p # NULL THEN [t EXCEPT !.first[p] = r]
            ELSE IF t.first[d] = x THEN [t EXCEPT !.first[d] = r] ELSE t
      t2 == IF r # NULL THEN [t1 EXCEPT !.prev[r] = l]
            ELSE IF p # NULL THEN [t1 EXCEPT !.last[p] = l]
            ELSE IF t1.last[d] = x THEN [t1 EXCEPT !.last[d] = l] ELSE t1
  IN  IF t2.frag[d] = x THEN [t2 EXCEPT !.frag[d] = r] ELSE t2

(* domDeleteNode unlinks its node as the moves do: of a sound tree the three *)
(* ways of telling a fragment from a top-level node say the same.            *)
LEMMA DropIsUnlink ==
  ASSUME NEW t, NEW L, NEW H, NEW F, NEW x \in L, Placed(t, L, L, H, F), Owners(t, L, L, H)
  PROVE  Dropped(t, x) = Unlink(t, x)
<1> DEFINE p == t.parent[x]
           d == t.doc[x]
           l == t.prev[x]
           r == t.next[x]
           list == IF p # NULL THEN p ELSE d
           left == IF l # NULL THEN [t EXCEPT !.next[l] = r]
                   ELSE IF p = NULL /\ t.frag[d] = x THEN [t EXCEPT !.frag[d] = r]
                   ELSE [t EXCEPT !.first[list] = r]
           t1 == IF l # NULL THEN [t EXCEPT !.next[l] = r]
                 ELSE IF p # NULL THEN [t EXCEPT !.first[p] = r]
                 ELSE IF t.first[d] = x THEN [t EXCEPT !.first[d] = r] ELSE t
           t2 == IF r # NULL THEN [t1 EXCEPT !.prev[r] = l]
                 ELSE IF p # NULL THEN [t1 EXCEPT !.last[p] = l]
                 ELSE IF t1.last[d] = x THEN [t1 EXCEPT !.last[d] = l] ELSE t1
<1>0. NULL \notin Nodes /\ NULL \notin Docs /\ Docs \cap Nodes = {} /\ Elems \subseteq Nodes
  BY Disjoint DEF All, Nodes
<1>1. /\ x \in Nodes /\ t.doc[x] \in Docs
      /\ H[x] = IF t.parent[x] # NULL THEN t.parent[x] ELSE t.doc[x]
      /\ H[x] \in Docs <=> t.parent[x] = NULL
      /\ t.prev[x] = NULL => (x \in F <=> (t.parent[x] = NULL /\ t.frag[t.doc[x]] = x))
      /\ t.next[x] = NULL => (x \notin F <=> (t.parent[x] # NULL \/ t.last[t.doc[x]] = x))
  BY PlaceOf
<1>2. t.frag[t.doc[x]] = x => x \in F /\ t.prev[x] = NULL
  BY <1>0, <1>1 DEF Placed, ListEnds, Ends
<1>3. t.first[t.doc[x]] = x => x \notin F
  BY <1>0, <1>1 DEF Placed, ListEnds, Ends, Lists
<1>4. t.prev[x] = NULL /\ x \notin F => t.first[H[x]] = x
  BY DEF Placed, ListEnds, Ends
<1>5. x \in F => t.parent[x] = NULL
  BY <1>1 DEF Placed, Homes
<1>6. t \in Trees
  BY DEF Placed
<1>7. /\ Unlink(t, x) = IF r # NULL THEN [left EXCEPT !.prev[r] = l]
                        ELSE IF p # NULL \/ t.last[d] = x THEN [left EXCEPT !.last[list] = l]
                        ELSE left
      /\ Dropped(t, x) = IF t2.frag[d] = x THEN [t2 EXCEPT !.frag[d] = r] ELSE t2
  BY DEF Unlink, Dropped
<1>8. l \in Nodes \cup {NULL} /\ r \in Nodes \cup {NULL} /\ p \in Elems \cup {NULL} /\ d \in Docs
  BY <1>1, <1>6 DEF Trees
<1>9. CASE l = NULL /\ p = NULL /\ t.frag[d] = x
  <2>1. t1 = t /\ left = [t EXCEPT !.frag[d] = r]
    BY <1>0, <1>1, <1>2, <1>3, <1>9
  <2> HIDE DEF p, d, l, r, t1, left
  <2>2. CASE r # NULL
    <3>1. t2 = [t EXCEPT !.prev[r] = l]
      BY <2>1, <2>2
    <3>2. t2.frag[d] = x
      BY <3>1, <1>6, <1>9 DEF Trees
    <3> HIDE DEF t2
    <3>3. Dropped(t, x) = [t2 EXCEPT !.frag[d] = r] /\ Unlink(t, x) = [left EXCEPT !.prev[r] = l]
      BY <1>7, <2>2, <3>2
    <3> QED BY <2>1, <3>1, <3>3, <1>6 DEF Trees
  <2>3. CASE r = NULL
    <3>1. x \in F /\ ~(p # NULL \/ t.last[d] = x)
      BY <1>1, <1>2, <1>9, <2>3 DEF p, d, r
    <3>2. t2 = t
      BY <2>1, <2>3, <3>1
    <3> HIDE DEF t2
    <3> QED BY <1>7, <1>9, <2>1, <2>3, <3>1, <3>2
  <2> QED BY <2>2, <2>3
<1>10. CASE ~(l = NULL /\ p = NULL /\ t.frag[d] = x)
  <2>1. t.frag[d] # x
    BY <1>2, <1>5, <1>10
  <2>2. l = NULL /\ p = NULL => t.first[d] = x
    BY <1>1, <1>4, <1>10
  <2>3. t1 = left
    <3> HIDE DEF p, d, l, r
    <3> QED BY <2>1, <2>2
  <2> HIDE DEF p, d, l, r
  <2>4. t1.last = t.last
    BY <1>6, <1>8 DEF Trees
  <2>5. t1.frag = t.frag
    BY <1>6 DEF Trees
  <2> HIDE DEF t1, left
  <2>6. t2 = Unlink(t, x)
    BY <1>7, <2>3, <2>4
  <2>7. t2.frag = t1.frag
    BY <1>6 DEF Trees
  <2> HIDE DEF t2
  <2> QED BY <1>7, <2>1, <2>5, <2>6, <2>7
<1> QED BY <1>9, <1>10

\* The pointers of the nodes of V are forgotten.
Forgets(f, ff, D, V) == \A y \in D : ff[y] = IF y \in V THEN NULL ELSE f[y]

(* What giving memory back changes, field by field.                          *)
LEMMA ClearedFields ==
  ASSUME NEW t \in Trees, NEW V \in SUBSET Nodes
  PROVE  LET w == Cleared(t, V)
         IN  /\ w \in Trees /\ w.frag = t.frag /\ w.docel = t.docel
             /\ Forgets(t.parent, w.parent, Nodes, V) /\ Forgets(t.prev, w.prev, Nodes, V)
             /\ Forgets(t.next, w.next, Nodes, V) /\ Forgets(t.doc, w.doc, Nodes, V)
             /\ Forgets(t.first, w.first, Parents, V) /\ Forgets(t.last, w.last, Parents, V)
<1> DEFINE w == Cleared(t, V)
           null(f) == [x \in DOMAIN f |-> IF x \in V THEN NULL ELSE f[x]]
<1>1. w = [t EXCEPT !.parent = null(t.parent), !.prev = null(t.prev), !.next = null(t.next),
                    !.first = null(t.first), !.last = null(t.last), !.doc = null(t.doc)]
  BY DEF Cleared, Trees
<1>2. /\ null(t.parent) = [y \in Nodes |-> IF y \in V THEN NULL ELSE t.parent[y]]
      /\ null(t.prev) = [y \in Nodes |-> IF y \in V THEN NULL ELSE t.prev[y]]
      /\ null(t.next) = [y \in Nodes |-> IF y \in V THEN NULL ELSE t.next[y]]
      /\ null(t.doc) = [y \in Nodes |-> IF y \in V THEN NULL ELSE t.doc[y]]
      /\ null(t.first) = [q \in Parents |-> IF q \in V THEN NULL ELSE t.first[q]]
      /\ null(t.last) = [q \in Parents |-> IF q \in V THEN NULL ELSE t.last[q]]
  BY DEF Trees
<1>3. /\ null(t.parent) \in [Nodes -> Elems \cup {NULL}]
      /\ null(t.prev) \in [Nodes -> Nodes \cup {NULL}]
      /\ null(t.next) \in [Nodes -> Nodes \cup {NULL}]
      /\ null(t.doc) \in [Nodes -> Docs \cup {NULL}]
      /\ null(t.first) \in [Parents -> Nodes \cup {NULL}]
      /\ null(t.last) \in [Parents -> Nodes \cup {NULL}]
  <2> HIDE DEF null
  <2> QED BY <1>2 DEF Trees
<1> HIDE DEF null, w
<1>4. /\ w \in Trees /\ w.frag = t.frag /\ w.docel = t.docel
      /\ w.parent = null(t.parent) /\ w.prev = null(t.prev) /\ w.next = null(t.next)
      /\ w.doc = null(t.doc) /\ w.first = null(t.first) /\ w.last = null(t.last)
  BY <1>1, <1>3 DEF Trees
<1> QED BY <1>2, <1>4 DEF Forgets, w

(* A deleted subtree leaves its places, and no pointer to it stays.          *)
LEMMA ClearedPlaced ==
  ASSUME NEW u, NEW L, NEW H, NEW F, NEW x \in L, Placed(u, L, L \ {x}, H, F \ {x}),
         NEW V, Below(V, L, H, x), NEW w \in Trees, F \subseteq L,
         \A y \in F : H[y] \in Docs, H[x] \in Lists(L), w.frag = u.frag,
         Forgets(u.parent, w.parent, Nodes, V), Forgets(u.prev, w.prev, Nodes, V),
         Forgets(u.next, w.next, Nodes, V),
         Forgets(u.first, w.first, Parents, V), Forgets(u.last, w.last, Parents, V)
  PROVE  Placed(w, L \ V, L \ V, H, F \ V)
<1> DEFINE N == L \ V
           M == L \ {x}
           G == F \ {x}
<1>0. NULL \notin Nodes /\ NULL \notin Docs /\ Docs \cap Nodes = {} /\ Elems \subseteq Nodes
  BY Disjoint DEF All, Nodes
<1>1. /\ u \in Trees /\ Homes(u, L, M, H, G) /\ Chains(u, M, H, G) /\ ListEnds(u, L, M, H, G)
      /\ Stops(u.parent, M) /\ L \in SUBSET Nodes /\ H \in [Nodes -> Parents \cup {NULL}]
  BY DEF Placed, Homes
<1>2. /\ V \subseteq L /\ x \in V /\ N \subseteq M /\ H[x] \notin V
      /\ \A y \in M : y \in V <=> H[y] \in V
  BY DEF Below
<1>3. G \cap V = {} /\ F \ V = G /\ G \subseteq N
  BY <1>0, <1>1, <1>2 DEF Homes
<1>4. \A y \in N : /\ w.parent[y] = u.parent[y] /\ w.prev[y] = u.prev[y] /\ w.next[y] = u.next[y]
                   /\ H[y] \notin V /\ H[y] \in Lists(N)
  BY <1>1, <1>2 DEF Homes, Lists, Forgets
<1>5. Homes(w, N, N, H, G)
  BY <1>1, <1>2, <1>3, <1>4 DEF Homes
<1>6. Toward(w.next, w.prev, N, H, G) /\ Toward(w.prev, w.next, N, H, G)
  <2>1. ASSUME NEW y \in N, u.next[y] # NULL
        PROVE  /\ u.next[y] \in N /\ u.prev[u.next[y]] = y
               /\ H[u.next[y]] = H[y] /\ (u.next[y] \in G <=> y \in G)
    <3>1. /\ u.next[y] \in M /\ u.prev[u.next[y]] = y
          /\ H[u.next[y]] = H[y] /\ (u.next[y] \in G <=> y \in G)
      BY <1>1, <1>2, <2>1 DEF Chains, Toward
    <3> QED BY <3>1, <1>2, <1>4
  <2>2. ASSUME NEW y \in N, u.prev[y] # NULL
        PROVE  /\ u.prev[y] \in N /\ u.next[u.prev[y]] = y
               /\ H[u.prev[y]] = H[y] /\ (u.prev[y] \in G <=> y \in G)
    <3>1. /\ u.prev[y] \in M /\ u.next[u.prev[y]] = y
          /\ H[u.prev[y]] = H[y] /\ (u.prev[y] \in G <=> y \in G)
      BY <1>1, <1>2, <2>2 DEF Chains, Toward
    <3> QED BY <3>1, <1>2, <1>4
  <2> HIDE DEF N, G
  <2> QED BY <1>4, <2>1, <2>2 DEF Toward
<1>7. Stops(w.next, N) /\ Stops(w.prev, N) /\ Stops(w.parent, N)
  <2> SUFFICES ASSUME NEW S \in SUBSET N, S # {}
               PROVE  /\ \E y \in S : w.next[y] \notin S
                      /\ \E y \in S : w.prev[y] \notin S
                      /\ \E y \in S : w.parent[y] \notin S
    BY DEF Stops
  <2>1. S \in SUBSET M
    BY <1>2
  <2>2. /\ \E y \in S : u.next[y] \notin S
        /\ \E y \in S : u.prev[y] \notin S
        /\ \E y \in S : u.parent[y] \notin S
    BY <1>1, <2>1 DEF Chains, Stops
  <2> QED BY <1>4, <2>2
<1>8. ListEnds(w, N, N, H, G)
  <2>0. \A p \in Lists(N) : p \in Lists(L) /\ p \in Parents /\ p \notin V
    BY <1>0, <1>1, <1>2 DEF Lists, Parents
  <2>1. /\ Ends(u.first, u.prev, Lists(L), M \ G, H)
        /\ Ends(u.last, u.next, Lists(L), M \ G, H)
        /\ Ends(u.frag, u.prev, Docs, G, H)
        /\ \A p \in Parents : u.first[p] = NULL <=> u.last[p] = NULL
        /\ \A y \in Elems \ L : u.first[y] = NULL
    BY <1>1 DEF ListEnds
  <2>2. ASSUME NEW e, NEW ee, NEW g, NEW gg, Ends(e, g, Lists(L), M \ G, H),
               Forgets(e, ee, Parents, V), Forgets(g, gg, Nodes, V)
        PROVE  Ends(ee, gg, Lists(N), N \ G, H)
    <3>1. ASSUME NEW p \in Lists(N), ee[p] # NULL
          PROVE  ee[p] \in N \ G /\ gg[ee[p]] = NULL /\ H[ee[p]] = p
      <4>1. ee[p] = e[p]
        BY <2>0, <2>2 DEF Forgets
      <4>2. e[p] \in M \ G /\ g[e[p]] = NULL /\ H[e[p]] = p
        BY <2>0, <2>2, <3>1, <4>1 DEF Ends
      <4>3. PICK c \in M \ G : c = e[p]
        BY <4>2
      <4>4. c \in M /\ H[c] \notin V
        BY <2>0, <4>2, <4>3
      <4>5. c \notin V
        BY <1>2, <4>4
      <4>6. c \in N /\ c \in Nodes
        BY <1>1, <4>4, <4>5
      <4> QED BY <2>2, <4>1, <4>2, <4>3, <4>5, <4>6 DEF Forgets
    <3>2. ASSUME NEW y \in N \ G, gg[y] = NULL PROVE ee[H[y]] = y
      <4>1. y \in M \ G /\ g[y] = NULL
        BY <1>1, <1>2, <2>2, <3>2 DEF Forgets
      <4>2. e[H[y]] = y
        BY <2>2, <4>1 DEF Ends
      <4>3. H[y] \in Parents /\ H[y] \notin V
        BY <1>4, <2>0, <3>2
      <4> QED BY <2>2, <4>2, <4>3 DEF Forgets
    <3> HIDE DEF N, G, M
    <3> QED BY <3>1, <3>2 DEF Ends
  <2>3. Ends(w.first, w.prev, Lists(N), N \ G, H)
    BY <2>1, <2>2
  <2>4. Ends(w.last, w.next, Lists(N), N \ G, H)
    BY <2>1, <2>2
  <2>5. Ends(w.frag, w.prev, Docs, G, H)
    BY <1>3, <1>4, <2>1 DEF Ends
  <2>6. \A p \in Parents : w.first[p] = NULL <=> w.last[p] = NULL
    BY <2>1 DEF Forgets
  <2>7. \A y \in Elems \ N : w.first[y] = NULL
    BY <2>1 DEF Parents, Forgets
  <2> QED BY <2>3, <2>4, <2>5, <2>6, <2>7 DEF ListEnds
<1> QED BY <1>3, <1>5, <1>6, <1>7, <1>8 DEF Placed, Chains

(* delete frees nodes only, and leaves a sound tree of the others.           *)
LEMMA DeleteSound ==
  ASSUME NEW t, NEW L, Sound(t, L), NEW x \in L
  PROVE  /\ Freed(t, x) \subseteq Nodes
         /\ Sound(Cleared(Unlinked(t, x), Freed(t, x)), L \ Freed(t, x))
<1>1. PICK H \in [Nodes -> Parents \cup {NULL}], F \in SUBSET Nodes : SoundAt(t, L, H, F)
  BY DEF Sound
<1> DEFINE u == Unlink(t, x)
           s == Unlinked(t, x)
           V == Freed(t, x)
           w == Cleared(s, V)
           d == t.doc[x]
           N == L \ V
<1>0. NULL \notin Nodes /\ NULL \notin Docs /\ Docs \cap Nodes = {} /\ Elems \subseteq Nodes
  BY Disjoint DEF All, Nodes
<1>2. /\ Placed(t, L, L, H, F) /\ Owners(t, L, L, H) /\ DocumentElements(t, L)
      /\ t \in Trees /\ L \in SUBSET Nodes /\ x \in Nodes /\ d \in Docs
      /\ F \subseteq L /\ (\A y \in F : H[y] \in Docs) /\ H[x] \in Lists(L)
      /\ (\A y \in L : H[y] \in Lists(L) /\ t.parent[y] = ParentFieldOf(H[y]))
  BY <1>1 DEF SoundAt, Placed, Homes, Owners
<1>3. Below(V, L, H, x)
  BY <1>2, Subtree DEF Freed
<1>4. u \in Trees /\ u.parent = t.parent /\ u.doc = t.doc /\ u.docel = t.docel
  BY <1>2, UnlinkFields
<1>5. Placed(u, L, L \ {x}, H, F \ {x})
  BY <1>2, UnlinkPlaced
<1>6. s = IF t.parent[x] = NULL THEN SetDocumentElement(u, d) ELSE u
  <2>1. Dropped(t, x) = u
    BY <1>2, DropIsUnlink
  <2>2. s = IF t.parent[x] = NULL THEN SetDocumentElement(Dropped(t, x), d) ELSE Dropped(t, x)
    BY DEF Unlinked, Dropped
  <2> HIDE DEF u, s
  <2> QED BY <2>1, <2>2
<1> HIDE DEF u, s, V, d
<1>7. /\ s \in Trees
      /\ s.next = u.next /\ s.prev = u.prev /\ s.first = u.first /\ s.last = u.last
      /\ s.frag = u.frag /\ s.parent = t.parent /\ s.doc = t.doc
      /\ \A k \in Docs : k # d => s.docel[k] = t.docel[k]
      /\ t.parent[x] # NULL => s.docel[d] = t.docel[d]
      /\ t.parent[x] = NULL /\ s.docel[d] # NULL =>
            s.docel[d] \in L \ {x} /\ H[s.docel[d]] = d
  <2>1. CASE t.parent[x] # NULL
    BY <2>1, <1>4, <1>6
  <2>2. CASE t.parent[x] = NULL
    BY <2>2, <1>2, <1>4, <1>5, <1>6, FindFields
  <2> QED BY <2>1, <2>2
<1>8. V \in SUBSET Nodes
  BY <1>2, <1>3 DEF Below
<1>9. /\ w \in Trees /\ w.frag = s.frag /\ w.docel = s.docel
      /\ Forgets(s.parent, w.parent, Nodes, V) /\ Forgets(s.prev, w.prev, Nodes, V)
      /\ Forgets(s.next, w.next, Nodes, V) /\ Forgets(s.doc, w.doc, Nodes, V)
      /\ Forgets(s.first, w.first, Parents, V) /\ Forgets(s.last, w.last, Parents, V)
  BY <1>7, <1>8, ClearedFields
<1> HIDE DEF w
<1>10. Placed(w, N, N, H, F \ V)
  <2>1. /\ w.frag = u.frag
        /\ Forgets(u.parent, w.parent, Nodes, V) /\ Forgets(u.prev, w.prev, Nodes, V)
        /\ Forgets(u.next, w.next, Nodes, V)
        /\ Forgets(u.first, w.first, Parents, V) /\ Forgets(u.last, w.last, Parents, V)
    BY <1>4, <1>7, <1>9
  <2> QED BY <1>2, <1>3, <1>5, <1>9, <2>1, ClearedPlaced
<1>11. \A y \in N : /\ y \in L /\ y # x /\ y \in Nodes /\ H[y] \notin V
                    /\ w.doc[y] = t.doc[y] /\ w.parent[y] = t.parent[y]
  BY <1>2, <1>3, <1>7, <1>9 DEF Below, Forgets
<1>12. Owners(w, N, N, H)
  <2>1. \A y \in N : w.doc[y] \in Docs
    BY <1>2, <1>11 DEF Owners
  <2>2. ASSUME NEW y \in N PROVE w.doc[y] = DocOf(w, H[y])
    <3>1. w.doc[y] = DocOf(t, H[y]) /\ H[y] \in Lists(L) /\ H[y] \notin V
      BY <1>2, <1>11 DEF Owners
    <3>2. H[y] \in Docs \/ H[y] \in N
      BY <3>1 DEF Lists
    <3> QED BY <3>1, <3>2, <1>11 DEF DocOf
  <2> HIDE DEF N
  <2> QED BY <2>1, <2>2 DEF Owners
<1>13. DocumentElements(w, N)
  <2> SUFFICES ASSUME NEW k \in Docs, w.docel[k] # NULL
               PROVE  /\ w.docel[k] \in N /\ w.doc[w.docel[k]] = k
                      /\ w.parent[w.docel[k]] = NULL
    BY DEF DocumentElements
  <2> DEFINE e == w.docel[k]
  <2>1. ASSUME e \in L \ {x}, t.doc[e] = k, t.parent[e] = NULL
        PROVE  e \in N /\ w.doc[e] = k /\ w.parent[e] = NULL
    <3>1. H[e] \in Docs
      BY <1>0, <1>2, <2>1 DEF ParentFieldOf, Lists
    <3>2. e \notin V
      BY <3>1, <1>0, <1>3, <1>8, <2>1 DEF Below
    <3> HIDE DEF e
    <3> QED BY <3>2, <1>11, <2>1
  <2>2. CASE k = d /\ t.parent[x] = NULL
    <3>1. e \in L \ {x} /\ H[e] = d
      BY <2>2, <1>7, <1>9
    <3>2. t.doc[e] = d /\ t.parent[e] = NULL
      BY <3>1, <1>2 DEF Owners, DocOf, ParentFieldOf
    <3> HIDE DEF e
    <3>3. e \in N /\ w.doc[e] = k /\ w.parent[e] = NULL
      BY <2>1, <2>2, <3>1, <3>2
    <3> QED BY <3>3 DEF e
  <2>3. CASE ~(k = d /\ t.parent[x] = NULL)
    <3>1. e = t.docel[k]
      BY <2>3, <1>7, <1>9
    <3>2. e \in L /\ t.doc[e] = k /\ t.parent[e] = NULL
      BY <3>1, <1>2 DEF DocumentElements
    <3>3. e # x
      BY <3>2, <2>3 DEF d
    <3> HIDE DEF e
    <3>4. e \in N /\ w.doc[e] = k /\ w.parent[e] = NULL
      BY <2>1, <3>2, <3>3
    <3> QED BY <3>4 DEF e
  <2> QED BY <2>2, <2>3
<1>14. SoundAt(w, N, H, F \ V)
  BY <1>10, <1>12, <1>13 DEF SoundAt
<1>15. F \ V \in SUBSET Nodes
  BY <1>2
<1>16. Sound(w, N)
  BY <1>14, <1>15 DEF Sound
<1> QED BY <1>8, <1>16 DEF w, s, V

----------------------------------------------------------------------------
(* The invariant.                                                            *)

\* Every node in use has its place, in a sound tree of such nodes.
Inv == live \subseteq Nodes /\ Sound(tree, live)

(* Called by a node or a document command, an operation leaves a sound tree. *)
LEMMA CalledSound ==
  ASSUME NEW p, NEW t, NEW L, Called(p, t), Sound(t, L)
  PROVE  Sound(tree', L)
BY FindSound DEF Called

(* The empty tree is sound.                                                  *)
LEMMA InitSound == Init => Inv
<1> SUFFICES ASSUME Init PROVE Inv
  OBVIOUS
<1> DEFINE H == [x \in Nodes |-> NULL]
<1>0. NULL \notin Nodes /\ NULL \notin Docs /\ Docs \cap Nodes = {} /\ Elems \subseteq Nodes
  BY Disjoint DEF All, Nodes
<1>1. /\ tree \in Trees /\ live = {}
      /\ \A p \in Parents : tree.first[p] = NULL /\ tree.last[p] = NULL
      /\ \A d \in Docs : tree.frag[d] = NULL /\ tree.docel[d] = NULL
  BY DEF Init, EmptyTree, Trees
<1>2. H \in [Nodes -> Parents \cup {NULL}]
  OBVIOUS
<1> HIDE DEF H
<1>3. \A p \in Lists({}) : tree.first[p] = NULL /\ tree.last[p] = NULL
  BY <1>1 DEF Lists, Parents
<1>4. Homes(tree, {}, {}, H, {}) /\ Chains(tree, {}, H, {}) /\ Stops(tree.parent, {})
  BY <1>2 DEF Homes, Chains, Toward, Stops
<1>5. ListEnds(tree, {}, {}, H, {})
  BY <1>1, <1>3 DEF ListEnds, Ends, Parents
<1>6. SoundAt(tree, {}, H, {})
  BY <1>1, <1>4, <1>5 DEF SoundAt, Placed, Owners, DocumentElements
<1> QED BY <1>1, <1>2, <1>6 DEF Inv, Sound

(* Every operation leaves a sound tree, if replaceChild is not used on a     *)
(* later sibling while there are fragments.                                  *)
LEMMA NextSound ==
  ASSUME ~ReplaceWithFragments, Inv, Next
  PROVE  Inv'
<1>0. NULL \notin Nodes /\ NULL \notin Docs /\ Docs \cap Nodes = {} /\ Elems \subseteq Nodes
  BY Disjoint DEF All, Nodes
<1>1. live \subseteq Nodes /\ Sound(tree, live)
  BY DEF Inv
<1>2. \A p \in Parents : Usable(p) => p \in Lists(live)
  BY <1>0 DEF Usable, Lists, Parents
<1>3. ASSUME NEW x \in Nodes, NEW d \in Docs, CreateNode(x, d) PROVE Inv'
  <2>1. x \in Nodes \ live /\ live' = live \cup {x}
        /\ tree' = PushFragment([tree EXCEPT !.doc[x] = d], x, TRUE)
    BY <1>3 DEF CreateNode
  <2>2. Sound(tree', live \cup {x})
    BY <1>1, <2>1, CreateSound
  <2> QED BY <1>1, <2>1, <2>2 DEF Inv
<1>4. ASSUME NEW x \in Nodes, DeleteNode(x) PROVE Inv'
  <2>1. x \in live /\ live' = live \ Freed(tree, x)
        /\ tree' = Cleared(Unlinked(tree, x), Freed(tree, x))
    BY <1>4 DEF DeleteNode
  <2>2. Sound(tree', live \ Freed(tree, x))
    BY <1>1, <2>1, DeleteSound
  <2> QED BY <1>1, <2>1, <2>2 DEF Inv
<1>5. ASSUME NEW x \in Nodes, NEW p \in Parents, AppendNew(x, p) PROVE Inv'
  <2>1. x \in Nodes \ live /\ p \in Lists(live) /\ live' = live \cup {x}
        /\ Called(p, NewLast(tree, p, x))
    BY <1>2, <1>5 DEF AppendNew
  <2>2. Sound(NewLast(tree, p, x), live \cup {x})
    BY <1>1, <2>1, NewLastSound
  <2>3. Sound(tree', live \cup {x})
    BY <2>1, <2>2, CalledSound
  <2> QED BY <1>1, <2>1, <2>3 DEF Inv
<1>6. ASSUME NEW x \in Nodes, NEW p \in Parents, AppendChild(p, x) PROVE Inv'
  <2> DEFINE t == Adopt(LinkLast(Unlink(tree, x), p, x), p, x)
  <2>1. x \in live /\ p \in Lists(live) /\ live' = live /\ x \notin Ancestors(tree, p)
        /\ Called(p, t)
    BY <1>2, <1>6 DEF AppendChild
  <2>2. Sound(t, live)
    BY <1>1, <2>1, AppendSound
  <2> HIDE DEF t
  <2>3. Sound(tree', live)
    BY <2>1, <2>2, CalledSound
  <2> QED BY <1>1, <2>1, <2>3 DEF Inv
<1>7. ASSUME NEW x \in Nodes, NEW p \in Parents, RemoveChild(p, x) PROVE Inv'
  <2> DEFINE t == PushFragment(RemoveLinks(tree, p, x), x, TRUE)
  <2>1. x \in live /\ p \in Lists(live) /\ live' = live /\ IsChild(tree, p, x)
        /\ Called(p, t)
    BY <1>2, <1>7 DEF RemoveChild, RemoveLinks
  <2>2. Sound(t, live)
    BY <1>1, <2>1, RemoveSound
  <2> HIDE DEF t
  <2>3. Sound(tree', live)
    BY <2>1, <2>2, CalledSound
  <2> QED BY <1>1, <2>1, <2>3 DEF Inv
<1>8. ASSUME NEW x \in Nodes, NEW p \in Parents, NEW ref \in Nodes, InsertBefore(p, x, ref)
      PROVE  Inv'
  <2> DEFINE t == Adopt(LinkBefore(Unlink(tree, x), p, x, ref), p, x)
  <2>1. x \in live /\ p \in Lists(live) /\ live' = live /\ x \notin Ancestors(tree, p)
        /\ ref \in live /\ ref # x /\ IsChild(tree, p, ref) /\ Called(p, t)
    BY <1>2, <1>8 DEF InsertBefore
  <2>2. Sound(t, live)
    BY <1>1, <2>1, InsertSound
  <2> HIDE DEF t
  <2>3. Sound(tree', live)
    BY <2>1, <2>2, CalledSound
  <2> QED BY <1>1, <2>1, <2>3 DEF Inv
<1>9. ASSUME NEW new \in Nodes, NEW p \in Parents, NEW old \in Nodes, ReplaceChild(p, new, old)
      PROVE  Inv'
  <2> DEFINE u == Unlink(tree, new)
             w == ReplaceLinks(u, p, new, old, DocOf(tree, p))
             empty == w.frag[w.doc[old]] = NULL
             t == PushFragment(w, old, empty)
  <2>1. /\ new \in live /\ old \in live /\ p \in Lists(live) /\ live' = live
        /\ new \notin Ancestors(tree, p) /\ new # old /\ IsChild(tree, p, old)
    BY <1>2, <1>9 DEF ReplaceChild
  <2>2. (empty \/ u.prev[old] = NULL) /\ Called(p, t)
    BY <1>9 DEF ReplaceChild, ReplaceLinks, LinkedOver
  <2>3. empty \in BOOLEAN
    OBVIOUS
  <2> HIDE DEF empty
  <2>4. Sound(t, live)
    BY <1>1, <2>1, <2>2, <2>3, ReplaceSound
  <2> HIDE DEF t
  <2>5. Sound(tree', live)
    BY <2>2, <2>4, CalledSound
  <2> QED BY <1>1, <2>1, <2>5 DEF Inv
<1> QED BY <1>3, <1>4, <1>5, <1>6, <1>7, <1>8, <1>9 DEF Next

----------------------------------------------------------------------------
(* What a sound tree is to its users.                                        *)

(* Every part of TreeIsSound follows from the places of the nodes.           *)
LEMMA SoundIsTreeIsSound ==
  ASSUME Inv
  PROVE  TreeIsSound
<1>0. NULL \notin Nodes /\ NULL \notin Docs /\ Docs \cap Nodes = {} /\ Elems \subseteq Nodes
  BY Disjoint DEF All, Nodes
<1>1. PICK H \in [Nodes -> Parents \cup {NULL}], F \in SUBSET Nodes : SoundAt(tree, live, H, F)
  BY DEF Inv, Sound
<1>2. /\ Placed(tree, live, live, H, F) /\ Owners(tree, live, live, H)
      /\ DocumentElements(tree, live) /\ tree \in Trees /\ live \in SUBSET Nodes
      /\ \A y \in live : H[y] \in Lists(live) /\ tree.parent[y] = ParentFieldOf(H[y])
  BY <1>1 DEF Inv, SoundAt, Placed, Homes
<1>3. TypeOK
  BY <1>2 DEF TypeOK, Trees
<1>4. SiblingsConsistent
  <2>1. \A x \in live :
          /\ tree.next[x] # NULL => tree.next[x] \in live /\ tree.prev[tree.next[x]] = x
          /\ tree.prev[x] # NULL => tree.prev[x] \in live /\ tree.next[tree.prev[x]] = x
    BY <1>2 DEF Placed, Chains, Toward
  <2>2. \A p \in Lists(live) :
          /\ tree.first[p] # NULL => tree.first[p] \in live /\ tree.prev[tree.first[p]] = NULL
          /\ tree.last[p] # NULL => tree.last[p] \in live /\ tree.next[tree.last[p]] = NULL
    BY <1>2 DEF Placed, ListEnds, Ends
  <2>3. \A p \in Parents : tree.first[p] = NULL <=> tree.last[p] = NULL
    BY <1>2 DEF Placed, ListEnds
  <2>4. \A d \in Docs :
          tree.frag[d] # NULL => tree.frag[d] \in F /\ tree.prev[tree.frag[d]] = NULL
    BY <1>2 DEF Placed, ListEnds, Ends
  <2>5. F \subseteq live
    BY <1>2 DEF Placed, Homes
  <2> QED BY <2>1, <2>2, <2>3, <2>4, <2>5 DEF SiblingsConsistent, Lists, Parents
<1>5. ASSUME NEW x \in live PROVE \E y \in Ancestors(tree, x) : tree.parent[y] = NULL
  <2>1. tree.parent \in [Nodes -> Pointer] /\ x \in All /\ x \in Nodes
    BY <1>2 DEF Trees, Pointer, All, Nodes
  <2>2. /\ x \in Ancestors(tree, x)
        /\ \A y \in Ancestors(tree, x) \cap Nodes : tree.parent[y] # NULL =>
                                         tree.parent[y] \in Ancestors(tree, x)
    BY <2>1, AncestorsClosed
  <2>3. \A y \in live : tree.parent[y] = NULL \/ tree.parent[y] \in live
    BY <1>2 DEF Lists, ParentFieldOf
  <2> DEFINE S == Ancestors(tree, x) \cap live
  <2>4. S \in SUBSET live /\ S # {}
    BY <2>2
  <2>5. PICK y \in S : tree.parent[y] \notin S
    BY <1>2, <2>4 DEF Placed, Stops
  <2> QED BY <1>2, <2>2, <2>3, <2>5
<1>6. NoCycle
  BY <1>5 DEF NoCycle
<1>7. /\ \A p \in Lists(live) :
            InChain(tree.next, tree.first[p]) \subseteq {c \in live \ F : H[c] = p}
      /\ \A d \in Docs : InChain(tree.next, tree.frag[d]) \subseteq {c \in F : H[c] = d}
      /\ F \subseteq live
  BY <1>2, ChainOfList DEF Placed, Homes
<1>8. ChildrenAreMine
  BY <1>2, <1>7 DEF ChildrenAreMine, Lists
<1>9. ASSUME NEW d \in Docs, NEW x \in live, tree.doc[x] = d,
             NEW y \in Visited(tree.first, tree.next, x)
      PROVE  tree.doc[y] = d
  <2> DEFINE T == {z \in live : tree.doc[z] = d}
  <2>1. tree.first \in [Parents -> Pointer] /\ tree.next \in [Nodes -> Pointer] /\ x \in Nodes
    BY <1>2 DEF Trees, Pointer
  <2>2. PICK R \in SUBSET Nodes : Met(tree.first, tree.next, x, R)
    BY <2>1, VisitedIsLeast
  <2>3. ASSUME NEW z \in T
        PROVE  /\ tree.next[z] # NULL => tree.next[z] \in T
               /\ z \in Elems /\ tree.first[z] # NULL => tree.first[z] \in T
    <3>1. tree.next[z] # NULL => tree.next[z] \in live /\ H[tree.next[z]] = H[z]
      BY <1>2 DEF Placed, Chains, Toward
    <3>2. z \in Elems /\ tree.first[z] # NULL => tree.first[z] \in live /\ H[tree.first[z]] = z
      BY <1>2 DEF Placed, ListEnds, Ends, Lists
    <3>3. \A c \in live : tree.doc[c] = IF H[c] \in Docs THEN H[c] ELSE tree.doc[H[c]]
      BY <1>2 DEF Owners, DocOf
    <3> QED BY <1>0, <3>1, <3>2, <3>3
  <2>4. T \in SUBSET Nodes /\ x \in T
    BY <1>2, <1>9
  <2> HIDE DEF T
  <2>5. R \subseteq T
    BY <2>2, <2>3, <2>4 DEF Met
  <2> QED BY <2>2, <2>4, <2>5 DEF Met, T
<1>10. ASSUME NEW d \in Docs,
              NEW x \in InChain(tree.next, tree.first[d]) \cup InChain(tree.next, tree.frag[d])
       PROVE  x \in live /\ tree.doc[x] = d
  <2>1. x \in live /\ H[x] = d
    BY <1>7 DEF Lists
  <2> QED BY <1>2, <2>1 DEF Owners, DocOf
<1>11. OwnerHoldsNode
  BY <1>9, <1>10 DEF OwnerHoldsNode
<1>12. DocumentElementNotDangling
  BY <1>2 DEF DocumentElements, DocumentElementNotDangling
<1> QED BY <1>3, <1>4, <1>6, <1>8, <1>11, <1>12 DEF TreeIsSound

(* The invariant holds of every number of documents and nodes.               *)
THEOREM Invariance == ~ReplaceWithFragments => (Spec => []Inv)
<1> SUFFICES ASSUME ~ReplaceWithFragments PROVE Spec => []Inv
  OBVIOUS
<1>1. Init => Inv
  BY InitSound
<1>2. Inv /\ [Next]_vars => Inv'
  <2> SUFFICES ASSUME Inv, [Next]_vars PROVE Inv'
    OBVIOUS
  <2>1. CASE Next
    BY <2>1, NextSound
  <2>2. CASE UNCHANGED vars
    BY <2>2 DEF vars, Inv
  <2> QED BY <2>1, <2>2
<1> QED BY <1>1, <1>2, PTL DEF Spec

(* Whatever is called, in whatever order, on any number of documents and     *)
(* nodes, the pointers make trees: see TreeIsSound.  replaceChild on a later *)
(* sibling while there are fragments is left out, since old then keeps its   *)
(* previousSibling (dom.c:4164).                                             *)
THEOREM TreesStaySound == ~ReplaceWithFragments => (Spec => []TreeIsSound)
<1> SUFFICES ASSUME ~ReplaceWithFragments PROVE Spec => []TreeIsSound
  OBVIOUS
<1>1. Inv => TreeIsSound
  BY SoundIsTreeIsSound
<1>2. Spec => []Inv
  BY Invariance
<1> QED BY <1>1, <1>2, PTL
=============================================================================
