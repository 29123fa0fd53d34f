---------------------------- MODULE Layout_proofs ----------------------------
(***************************************************************************)
(* Proofs about LayoutTree within FloatingGroups, for any finite groups,   *)
(* nodes and workspaces, any screen, policies and places of the pointer.   *)
(*                                                                         *)
(* A labelling W of the nodes by workspaces carries the proof: a node has  *)
(* the label of the node above it and a root that of its workspace         *)
(* (Labelled), a split and its two nodes point at each other (Paired), and *)
(* nobody is above itself (Grounded).  Each rewriting of a tree hangs a    *)
(* pair of nodes on it or takes one off, and the lemmas AttachedForest,    *)
(* PlantedForest, UprootedForest and DetachedForest say which labelling it *)
(* leaves.  A split is free when it is needed because there are as many    *)
(* splits and trees as there are leaves (Counted).                         *)
(*                                                                         *)
(* The functions that walk a tree, up or down, are recursive functions:    *)
(* Solution says that one whose values on a grounded tree follow from      *)
(* those of the nodes above, or below, is what its definition says.        *)
(*                                                                         *)
(* Boxes are computed for the workspace shown and remembered for the       *)
(* others.  Laid says that those shown are the ones its tree gives; what a *)
(* handler of another workspace changes does not reach it (Elsewhere).     *)
(***************************************************************************)
EXTENDS FloatingGroups, SequenceTheorems, FiniteSetTheorems, WellFoundedInduction, TLAPS

-----------------------------------------------------------------------------
(* Sequences without duplicates.                                           *)

\* Every set of numbers that is not empty has a least one.
LEMMA LeastOf ==
  ASSUME NEW I \in SUBSET Nat, I # {}
  PROVE  \E m \in I : \A i \in I : m <= i
  <1> DEFINE R == OpToRel(<, Nat)
  <1>1. \A x, y \in Nat : x < y => <<x, y>> \in R
    BY DEF OpToRel
  <1>2. IsWellFoundedOn(R, Nat)
    BY NatLessThanWellFounded
  <1> HIDE DEF R
  <1>3. PICK m \in I : \A k \in I : ~(<<k, m>> \in R)
    BY <1>2, WFMin
  <1>4. \A i \in I : m <= i
    <2> TAKE i \in I
    <2>1. i \in Nat /\ m \in Nat
      OBVIOUS
    <2>2. ~(i < m)
      BY <1>1, <1>3, <2>1
    <2> QED
      BY <2>1, <2>2
  <1> QED
    BY <1>4

\* What the community module's Min and Max return.
LEMMA MinOf ==
  ASSUME NEW I \in SUBSET Nat, I # {}
  PROVE  Min(I) \in I /\ \A i \in I : Min(I) <= i
  BY LeastOf DEF Min

LEMMA MaxOf ==
  ASSUME NEW n \in Nat, NEW I \in SUBSET (1..n), I # {}
  PROVE  Max(I) \in I /\ \A i \in I : Max(I) >= i
  <1> DEFINE D == {k \in Nat : n - k \in I}
  <1>1. \A i \in I : n - i \in D
    OBVIOUS
  <1>2. PICK m \in D : \A k \in D : m <= k
    <2> HIDE DEF D
    <2>1. D \in SUBSET Nat /\ D # {}
      BY <1>1 DEF D
    <2> QED
      BY <2>1, LeastOf
  <1>3. n - m \in I /\ m \in Nat
    OBVIOUS
  <1>4. \A i \in I : n - m >= i
    <2> TAKE i \in I
    <2>1. m <= n - i /\ i \in 1..n
      BY <1>1, <1>2
    <2> QED
      BY <1>3, <2>1
  <1> QED
    BY <1>3, <1>4 DEF Max

\* SelectInSeq finds the one place of an element.
LEMMA PlaceOf ==
  ASSUME NEW S, NEW s \in Seq(S), NEW k \in 1..Len(s), IsInjective(s)
  PROVE  /\ {i \in 1..Len(s) : s[i] = s[k]} # {}
         /\ Min({i \in 1..Len(s) : s[i] = s[k]}) = k
  <1> DEFINE I == {i \in 1..Len(s) : s[i] = s[k]}
  <1>1. Len(s) \in Nat /\ DOMAIN s = 1..Len(s)
    BY LenProperties
  <1>2. I = {k}
    BY <1>1 DEF IsInjective
  <1> HIDE DEF I
  <1>3. I \in SUBSET Nat /\ I # {}
    BY <1>1, <1>2
  <1>4. Min(I) \in I
    BY <1>3, MinOf
  <1>5. Min(I) = k
    BY <1>2, <1>4
  <1> QED
    BY <1>3, <1>5 DEF I

\* What is left of a sequence without its member at k.
LEMMA RemovedAt ==
  ASSUME NEW S, NEW s \in Seq(S), IsInjective(s), NEW e, NEW k \in 1..Len(s), s[k] = e
  PROVE  /\ RemoveFirst(s, e) \in Seq(S) /\ Len(RemoveFirst(s, e)) = Len(s) - 1
         /\ \A i \in 1..(Len(s) - 1) :
              RemoveFirst(s, e)[i] = IF i < k THEN s[i] ELSE s[i + 1]
  <1> DEFINE r == RemoveFirst(s, e)
             n == Len(s)
  <1>0. n \in Nat /\ DOMAIN s = 1..n
    BY LenProperties
  <1>1. r = SubSeq(s, 1, k - 1) \o SubSeq(s, k + 1, n)
    <2>1. k = IF {i \in 1..Len(s) : s[i] = e} # {} THEN Min({i \in 1..Len(s) : s[i] = e}) ELSE 0
      BY PlaceOf
    <2> QED
      BY <2>1 DEF RemoveFirst, RemoveAt, SelectInSeq
  <1> HIDE DEF r
  <1>2. /\ r \in Seq(S) /\ Len(r) = n - 1
        /\ \A i \in 1..(n - 1) : r[i] = IF i < k THEN s[i] ELSE s[i + 1]
    <2> DEFINE a == SubSeq(s, 1, k - 1)
               b == SubSeq(s, k + 1, n)
    <2>1. /\ a \in Seq(S) /\ Len(a) = k - 1
          /\ \A i \in 1..(k - 1) : a[i] = s[i]
      <3>1. \A i \in 1..(k - 1) : s[i] \in S
        BY <1>0
      <3> QED
        BY <1>0, <3>1, SubSeqProperties
    <2>2. /\ b \in Seq(S) /\ Len(b) = n - k
          /\ \A i \in 1..(n - k) : b[i] = s[k + i]
      <3>1. PICK m \in Int : m = k + 1
        BY <1>0
      <3>2. n \in Int /\ n - m + 1 = n - k /\ n - k \in Nat /\ \A i \in m..n : s[i] \in S
        BY <1>0, <3>1
      <3> DEFINE f == SubSeq(s, m, n)
      <3>3. /\ f \in Seq(S)
            /\ Len(f) = IF m <= n THEN n - m + 1 ELSE 0
            /\ \A i \in 1..(n - m + 1) : f[i] = s[m + i - 1]
        BY <3>2, SubSeqProperties
      <3>4. b = f
        BY <3>1
      <3> HIDE DEF b, f
      <3>5. n \in Nat /\ k \in 1..n
        BY <1>0
      <3> HIDE DEF n
      <3>6. Len(f) = n - k
        BY <3>1, <3>2, <3>3, <3>5
      <3>7. \A i \in 1..(n - k) : f[i] = s[k + i]
        <4> TAKE i \in 1..(n - k)
        <4>1. m + i - 1 = k + i
          BY <3>1, <3>5
        <4>2. f[i] = s[m + i - 1]
          BY <3>2, <3>3
        <4> QED
          BY <4>1, <4>2
      <3> QED
        BY <3>3, <3>4, <3>6, <3>7
    <2> HIDE DEF a, b
    <2>3. r = a \o b
      BY <1>1 DEF a, b
    <2>4. /\ r \in Seq(S) /\ Len(r) = (k - 1) + (n - k)
          /\ \A i \in 1..((k - 1) + (n - k)) :
                r[i] = IF i <= k - 1 THEN a[i] ELSE b[i - (k - 1)]
      <3>1. /\ r \in Seq(S) /\ Len(r) = Len(a) + Len(b)
            /\ \A i \in 1..(Len(a) + Len(b)) :
                  r[i] = IF i <= Len(a) THEN a[i] ELSE b[i - Len(a)]
        BY <2>1, <2>2, <2>3, ConcatProperties
      <3> QED
        BY <2>1, <2>2, <3>1
    <2>5. (k - 1) + (n - k) = n - 1
      BY <1>0
    <2>6. ASSUME NEW i \in 1..(n - 1) PROVE r[i] = IF i < k THEN s[i] ELSE s[i + 1]
      <3>1. CASE i < k
        <4>1. i \in 1..(k - 1) /\ i \in 1..((k - 1) + (n - k)) /\ i <= k - 1
          BY <1>0, <2>5, <3>1
        <4> HIDE DEF n
        <4>2. r[i] = a[i] /\ a[i] = s[i]
          BY <2>1, <2>4, <4>1
        <4> QED
          BY <3>1, <4>2
      <3>2. CASE ~(i < k)
        <4>1. i - (k - 1) \in 1..(n - k) /\ k + (i - (k - 1)) = i + 1 /\ ~(i <= k - 1)
          BY <1>0, <3>2
        <4> QED
          BY <2>2, <2>4, <2>5, <3>2, <4>1
      <3> QED
        BY <3>1, <3>2
    <2> QED
      BY <2>4, <2>5, <2>6
  <1> QED
    BY <1>2 DEF r

\* What RemoveFirst leaves of a sequence without duplicates.
LEMMA RemoveFirstIs ==
  ASSUME NEW S, NEW s \in Seq(S), IsInjective(s), NEW e
  PROVE  /\ RemoveFirst(s, e) \in Seq(S)
         /\ IsInjective(RemoveFirst(s, e))
         /\ ToSet(RemoveFirst(s, e)) = ToSet(s) \ {e}
  <1> DEFINE r == RemoveFirst(s, e)
             n == Len(s)
  <1>1. n \in Nat /\ DOMAIN s = 1..n
    BY LenProperties
  <1>2. CASE ~ \E i \in 1..n : s[i] = e
    <2>1. r = s
      BY <1>2 DEF RemoveFirst
    <2> QED
      BY <1>1, <1>2, <2>1 DEF ToSet
  <1>3. ASSUME NEW k \in 1..n, s[k] = e
        PROVE  r \in Seq(S) /\ IsInjective(r) /\ ToSet(r) = ToSet(s) \ {e}
    <2>2. /\ r \in Seq(S) /\ Len(r) = n - 1
          /\ \A i \in 1..(n - 1) : r[i] = IF i < k THEN s[i] ELSE s[i + 1]
      BY <1>3, RemovedAt
    <2> HIDE DEF r
    <2>3. DOMAIN r = 1..(n - 1)
      BY <2>2, LenProperties
    <2>4. IsInjective(r)
      <3>1. \A i, j \in 1..n : s[i] = s[j] => i = j
        BY <1>1 DEF IsInjective
      <3>2. \A i, j \in 1..(n - 1) : r[i] = r[j] => i = j
        BY <1>1, <2>2, <3>1
      <3> QED
        BY <2>3, <3>2 DEF IsInjective
    <2>5. ASSUME NEW x \in ToSet(r) PROVE x \in ToSet(s) \ {e}
      <3>1. PICK i \in 1..(n - 1) : r[i] = x
        BY <2>3, <2>5 DEF ToSet
      <3>2. PICK j \in 1..n : j # k /\ s[j] = x
        <4>1. CASE i < k
          <5>1. i \in 1..n /\ i # k
            BY <1>1, <4>1
          <5>2. s[i] = x
            BY <2>2, <3>1, <4>1
          <5> QED
            BY <5>1, <5>2
        <4>2. CASE ~(i < k)
          <5>1. i + 1 \in 1..n /\ i + 1 # k
            BY <1>1, <4>2
          <5>2. s[i + 1] = x
            BY <2>2, <3>1, <4>2
          <5> QED
            BY <5>1, <5>2
        <4> QED
          BY <4>1, <4>2
      <3> QED
        BY <1>1, <1>3, <3>2 DEF ToSet, IsInjective
    <2>6. ASSUME NEW x \in ToSet(s), x # e PROVE x \in ToSet(r)
      <3>1. PICK j \in 1..n : s[j] = x
        BY <1>1 DEF ToSet
      <3>2. j # k
        BY <1>3, <2>6, <3>1
      <3>3. \E i \in 1..(n - 1) : r[i] = x
        <4>1. CASE j < k
          BY <1>1, <2>2, <3>1, <4>1
        <4>2. CASE j > k
          <5>1. j - 1 \in 1..(n - 1) /\ ~(j - 1 < k) /\ (j - 1) + 1 = j
            BY <1>1, <4>2
          <5> QED
            BY <2>2, <3>1, <5>1
        <4> QED
          BY <1>1, <3>2, <4>1, <4>2
      <3> QED
        BY <2>3, <3>3 DEF ToSet
    <2> QED
      BY <2>2, <2>4, <2>5, <2>6
  <1> QED
    BY <1>2, <1>3

\* What Append makes of one.
LEMMA AppendIs ==
  ASSUME NEW S, NEW s \in Seq(S), NEW e \in S
  PROVE  /\ Append(s, e) \in Seq(S)
         /\ Append(s, e) # << >>
         /\ IsInjective(s) /\ e \notin ToSet(s) => IsInjective(Append(s, e))
         /\ ToSet(Append(s, e)) = ToSet(s) \cup {e}
  <1> DEFINE r == Append(s, e)
             n == Len(s)
  <1>1. n \in Nat /\ DOMAIN s = 1..n
    BY LenProperties
  <1>2. /\ r \in Seq(S) /\ Len(r) = n + 1 /\ DOMAIN r = 1..(n + 1)
        /\ \A i \in 1..n : r[i] = s[i]
        /\ r[n + 1] = e
    BY <1>1
  <1> HIDE DEF r, n
  <1>3. r # << >>
    BY <1>1, <1>2
  <1>4. IsInjective(s) /\ e \notin ToSet(s) => IsInjective(r)
    BY <1>1, <1>2 DEF IsInjective, ToSet
  <1>5. ToSet(r) \subseteq ToSet(s) \cup {e}
    BY <1>1, <1>2 DEF ToSet
  <1>6. ToSet(s) \subseteq ToSet(r)
    BY <1>1, <1>2 DEF ToSet
  <1>7. e \in ToSet(r)
    BY <1>1, <1>2 DEF ToSet
  <1> QED
    BY <1>2, <1>3, <1>4, <1>5, <1>6, <1>7 DEF r
\* The parts of LayoutAssumption that are used most.
LEMMA Constants ==
  /\ Leaves \cap Splits = {} /\ Leaves \subseteq Nodes /\ Splits \subseteq Nodes
  /\ Nodes = Leaves \cup Splits
  /\ None \notin Nodes /\ None \notin Leaves /\ None \notin Splits
  /\ None \notin Groups /\ None \notin Workspaces
  /\ None \notin SplitRecord /\ None \notin BorderRecord
  /\ IsFiniteSet(Nodes) /\ IsFiniteSet(Leaves) /\ IsFiniteSet(Splits)
  <1>1. Leaves \in SUBSET Nodes /\ Splits \in SUBSET Nodes
    BY DEF Nodes
  <1>2. IsFiniteSet(Nodes)
    BY LayoutAssumption
  <1>3. IsFiniteSet(Leaves) /\ IsFiniteSet(Splits)
    BY <1>1, <1>2, FS_Subset
  <1> QED
    BY <1>1, <1>2, <1>3, LayoutAssumption DEF Nodes

-----------------------------------------------------------------------------
(* Functions defined by recursion on the nodes of a tree.                  *)

\* The functions that walk the tree and return something in V.
Maps(V) == [Nodes -> V]

\* F gives the value at a node n from those at the nodes of K[n].
LooksAt(K, V, F) ==
    /\ K \in [Nodes -> SUBSET Nodes]
    /\ F \in [Nodes -> [Maps(V) -> V]]
    /\ \A n \in Nodes : \A f, g \in Maps(V) :
        (\A m \in K[n] : f[m] = g[m]) => F[n][f] = F[n][g]

Solves(F, f, A) == \A n \in A : f[n] = F[n][f]
\* The nodes of A look at nothing outside of A.
Closed(K, A) == \A n \in A : K[n] \subseteq A

\* A solution on A can be extended by a node that looks only at A.
LEMMA OneMore ==
  ASSUME NEW K, NEW V, NEW F, LooksAt(K, V, F), NEW A, A \subseteq Nodes, Closed(K, A),
         NEW f, f \in Maps(V), Solves(F, f, A), NEW n \in Nodes \ A, K[n] \subseteq A
  PROVE  \E g \in Maps(V) : Solves(F, g, A \cup {n})
  <1> DEFINE v == F[n][f]
             g == [f EXCEPT ![n] = v]
  <1>1. v \in V
    BY DEF LooksAt
  <1> HIDE DEF v
  <1>2. g \in Maps(V) /\ g[n] = v /\ \A m \in A : g[m] = f[m]
    BY <1>1 DEF Maps
  <1> HIDE DEF g
  <1>3. ASSUME NEW m \in A \cup {n} PROVE F[m][f] = F[m][g]
    <2>1. m \in Nodes /\ \A k \in K[m] : f[k] = g[k]
      BY <1>2 DEF Closed
    <2> QED
      BY <1>2, <2>1 DEF LooksAt
  <1>4. Solves(F, g, A \cup {n})
    BY <1>2, <1>3 DEF Solves, v
  <1> QED
    BY <1>2, <1>4

\* When no node comes to look at itself there is a function with a value at each
\* node: a greatest set of nodes on which there is one lacks none.
LEMMA Solution ==
  ASSUME NEW K, NEW V, V # {}, NEW F, LooksAt(K, V, F),
         \A S \in SUBSET Nodes : S # {} => \E n \in S : K[n] \cap S = {}
  PROVE  \E f \in Maps(V) : Solves(F, f, Nodes)
  <1> DEFINE Solved(S) == Closed(K, S) /\ \E f \in Maps(V) : Solves(F, f, S)
             T == {U \in SUBSET Nodes : Solved(Nodes \ U)}
             R == StrictSubsetOrdering(Nodes)
  <1>1. Nodes \in T
    <2>1. PICK v \in V : TRUE
      OBVIOUS
    <2>2. [n \in Nodes |-> v] \in Maps(V)
      BY DEF Maps
    <2>3. Solved({})
      BY <2>2 DEF Closed, Solves
    <2>4. Nodes \ Nodes = {}
      OBVIOUS
    <2> HIDE DEF Solved
    <2> QED
      BY <2>3, <2>4
  <1>2. PICK U \in T : \A X \in T : ~(<<X, U>> \in R)
    <2>1. IsWellFoundedOn(R, SUBSET Nodes)
      <3>1. FiniteSubsetsOf(Nodes) = SUBSET Nodes
        BY Constants, FS_FiniteSubsetsOfFinite
      <3>2. IsWellFoundedOn(R, FiniteSubsetsOf(Nodes))
        BY FS_StrictSubsetOrderingWellFounded
      <3> QED
        BY <3>1, <3>2
    <2>2. T \subseteq SUBSET Nodes
      OBVIOUS
    <2> HIDE DEF T, R
    <2> QED
      BY <1>1, <2>1, <2>2, WFMin
  <1> DEFINE A == Nodes \ U
  <1>3. A \subseteq Nodes /\ Solved(A)
    OBVIOUS
  <1>4. U = {}
    <2>1. SUFFICES ASSUME U # {} PROVE FALSE
      OBVIOUS
    <2>2. PICK n \in U : K[n] \cap U = {}
      BY <2>1
    <2>3. K \in [Nodes -> SUBSET Nodes]
      BY DEF LooksAt
    <2>4. n \in Nodes \ A /\ K[n] \subseteq A
      BY <2>2, <2>3
    <2>5. Nodes \ (U \ {n}) = A \cup {n}
      BY <2>4
    <2> HIDE DEF A
    <2>6. \E g \in Maps(V) : Solves(F, g, A \cup {n})
      BY <1>3, <2>4, OneMore
    <2>7. Solved(A \cup {n})
      BY <1>3, <2>4, <2>6 DEF Closed
    <2>8. U \ {n} \in T
      <3> HIDE DEF Solved
      <3> QED
        BY <2>5, <2>7
    <2>9. <<U \ {n}, U>> \in R
      BY DEF StrictSubsetOrdering
    <2> QED
      BY <1>2, <2>8, <2>9
  <1>5. A = Nodes
    BY <1>4
  <1> QED
    BY <1>3, <1>5

-----------------------------------------------------------------------------
(* Trees.  W says of each node whose tree it is in, None of what is in no  *)
(* tree.                                                                   *)

\* The heap of nodes, and the two nodes below a split.
Trees == [root : [Workspaces -> Nodes \cup {None}],
          parent : [Nodes -> Splits \cup {None}],
          split : [Splits -> SplitRecord \cup {None}]]

Kids(t, s) == {t.split[s].first, t.split[s].second}

Parents == [Nodes -> Splits \cup {None}]

\* Neither upwards nor downwards do the nodes go in circles.
Grounded(parent) ==
    \A S \in SUBSET Nodes : S # {} =>
        /\ \E n \in S : parent[n] \notin S
        /\ \E n \in S : \A m \in S : parent[m] # n

\* A node has the label of the node above it, a root that of its workspace,
\* and a node without a label is not in use.
Labelled(t, W) ==
    /\ \A s \in Splits : t.split[s] # None <=> W[s] # None
    /\ \A n \in Nodes :
        IF t.parent[n] = None THEN W[n] # None => t.root[W[n]] = n
        ELSE /\ W[n] # None /\ W[t.parent[n]] = W[n]
             /\ n \in Kids(t, t.parent[n])
    /\ \A w \in Workspaces :
        t.root[w] # None => W[t.root[w]] = w /\ t.parent[t.root[w]] = None

\* The two nodes of a split point back at it.
Paired(t) ==
    \A s \in Splits : t.split[s] # None =>
        /\ t.split[s].first # t.split[s].second
        /\ \A k \in Kids(t, s) : t.parent[k] = s

\* The trees of the workspaces, node n belonging to the workspace W[n].
Forest(t, W) ==
    /\ t \in Trees
    /\ W \in [Nodes -> Workspaces \cup {None}]
    /\ Labelled(t, W)
    /\ Paired(t)
    /\ Grounded(t.parent)

\* No node is above itself.
LEMMA GroundedSelf ==
  ASSUME NEW parent, Grounded(parent), NEW n \in Nodes
  PROVE  parent[n] # n
  <1>1. {n} \in SUBSET Nodes
    OBVIOUS
  <1> QED
    BY <1>1 DEF Grounded

\* The split s takes the place of the node a and holds it and n.
LEMMA GroundedAttached ==
  ASSUME NEW parent, parent \in Parents, Grounded(parent),
         NEW a \in Nodes, NEW s \in Splits, NEW n \in Leaves, a # s, a # n,
         \A m \in Nodes : parent[m] \notin {s, n},
         NEW after, after \in Parents, after[s] = parent[a],
         after[a] = s, after[n] = s,
         \A m \in Nodes \ {s, a, n} : after[m] = parent[m]
  PROVE  Grounded(after)
  <1>1. SUFFICES ASSUME NEW S \in SUBSET Nodes, S # {}
                 PROVE  /\ \E m \in S : after[m] \notin S
                        /\ \E m \in S : \A k \in S : after[k] # m
    BY DEF Grounded
  <1> DEFINE Q == S \ {s, n}
  <1>2. s # n /\ s \in Nodes /\ n \in Nodes /\ None \notin Nodes
    BY Constants
  <1>3. Q \in SUBSET Nodes
    OBVIOUS
  <1>4. \E m \in S : after[m] \notin S
    <2>1. CASE Q = {}
      BY <1>1, <1>2, <2>1
    <2>2. CASE Q # {}
      <3>1. PICK m \in Q : parent[m] \notin Q
        BY <1>3, <2>2 DEF Grounded
      <3>2. parent[m] \notin S
        BY <3>1 DEF Parents
      <3>3. CASE m = a
        BY <1>2, <3>2, <3>3
      <3>4. CASE m # a
        BY <3>2, <3>4
      <3> QED
        BY <3>3, <3>4
    <2> QED
      BY <2>1, <2>2
  <1>5. \E m \in S : \A k \in S : after[k] # m
    <2>1. \A k \in Nodes : after[k] # n
      <3>1. n \notin Splits \cup {None}
        BY Constants
      <3> QED
        BY <3>1 DEF Parents
    <2>2. CASE n \in S
      BY <2>1, <2>2
    <2>3. CASE n \notin S /\ Q = {}
      <3>1. S = {s}
        BY <1>1, <2>3
      <3>2. after[s] # s
        BY <1>2
      <3> QED
        BY <3>1, <3>2
    <2>4. CASE n \notin S /\ Q # {}
      <3>1. PICK m \in Q : \A k \in Q : parent[k] # m
        BY <1>3, <2>4 DEF Grounded
      <3>2. CASE s \in S /\ parent[a] = m
        <4>1. a \notin S
          BY <3>1, <3>2
        <4>2. \A k \in S : after[k] # s
          BY <1>2, <2>4, <4>1
        <4> QED
          BY <3>2, <4>2
      <3>3. CASE ~(s \in S /\ parent[a] = m)
        <4>1. \A k \in S : after[k] # m
          <5> TAKE k \in S
          <5>1. CASE k = s
            BY <3>3, <5>1
          <5>2. CASE k = a
            BY <3>1, <5>2
          <5>3. CASE k # s /\ k # a
            BY <2>4, <3>1, <5>3
          <5> QED
            BY <5>1, <5>2, <5>3
        <4> QED
          BY <4>1
      <3> QED
        BY <3>2, <3>3
    <2> QED
      BY <2>2, <2>3, <2>4
  <1> QED
    BY <1>4, <1>5

\* The node b takes the place of the split p above it; p and n go.
LEMMA GroundedDetached ==
  ASSUME NEW parent, parent \in Parents, Grounded(parent),
         NEW n \in Leaves, NEW b \in Nodes, NEW p \in Splits, b # n,
         parent[n] = p, parent[b] = p,
         \A m \in Nodes : parent[m] = p => m \in {n, b},
         NEW after, after \in Parents, after[b] = parent[p],
         after[p] = None, after[n] = None,
         \A m \in Nodes \ {p, b, n} : after[m] = parent[m]
  PROVE  Grounded(after)
  <1>1. SUFFICES ASSUME NEW S \in SUBSET Nodes, S # {}
                 PROVE  /\ \E m \in S : after[m] \notin S
                        /\ \E m \in S : \A k \in S : after[k] # m
    BY DEF Grounded
  <1> DEFINE Q == IF b \in S THEN S \cup {p} ELSE S
  <1>2. p # n /\ p \in Nodes /\ n \in Nodes /\ None \notin Nodes
    BY Constants
  <1>3. b # p
    BY <1>2, GroundedSelf
  <1>4. Q \in SUBSET Nodes /\ Q # {}
    BY <1>1, <1>2
  <1>5. \E m \in S : after[m] \notin S
    <2>1. CASE p \in S \/ n \in S
      BY <1>2, <2>1
    <2>2. CASE p \notin S /\ n \notin S
      <3>1. PICK m \in Q : parent[m] \notin Q
        BY <1>4 DEF Grounded
      <3>2. CASE m = p
        <4>1. b \in S /\ after[b] \notin S
          BY <2>2, <3>1, <3>2
        <4> QED
          BY <4>1
      <3>3. CASE m # p
        <4>1. m \in S /\ m # b
          BY <3>1, <3>3
        <4>2. after[m] = parent[m]
          BY <2>2, <3>3, <4>1
        <4> QED
          BY <3>1, <4>1, <4>2
      <3> QED
        BY <3>2, <3>3
    <2> QED
      BY <2>1, <2>2
  <1>6. \E m \in S : \A k \in S : after[k] # m
    <2>1. \A k \in Nodes : after[k] # n
      <3>1. n \notin Splits \cup {None}
        BY Constants
      <3> QED
        BY <3>1 DEF Parents
    <2>2. \A k \in Nodes : after[k] # p
      <3>1. parent[p] # p
        BY <1>2, GroundedSelf
      <3> QED
        BY <1>2, <3>1
    <2>3. CASE p \in S \/ n \in S
      BY <2>1, <2>2, <2>3
    <2>4. CASE p \notin S /\ n \notin S
      <3>1. PICK m \in Q : \A k \in Q : parent[k] # m
        BY <1>4 DEF Grounded
      <3>2. m # p
        <4>1. CASE b \in S
          BY <3>1, <4>1
        <4>2. CASE b \notin S
          BY <2>4, <4>2
        <4> QED
          BY <4>1, <4>2
      <3>3. m \in S
        BY <3>2
      <3>4. \A k \in S : after[k] # m
        <4> TAKE k \in S
        <4>1. CASE k = b
          BY <3>1, <4>1
        <4>2. CASE k # b
          BY <2>4, <3>1, <4>2
        <4> QED
          BY <4>1, <4>2
      <3> QED
        BY <3>3, <3>4
    <2> QED
      BY <2>3, <2>4
  <1> QED
    BY <1>5, <1>6

-----------------------------------------------------------------------------
(* What the surgery on a tree leaves.                                      *)

LEMMA RatioFacts == Initial \in Ratio /\ Low \in Ratio /\ High \in Ratio
  BY LayoutAssumption

\* What the code knows of a node: where it is, what is below and above.
LEMMA ForestFacts ==
  ASSUME NEW t, NEW W, Forest(t, W)
  PROVE  /\ t = [root |-> t.root, parent |-> t.parent, split |-> t.split]
         /\ t.root \in [Workspaces -> Nodes \cup {None}]
         /\ t.parent \in [Nodes -> Splits \cup {None}]
         /\ t.split \in [Splits -> SplitRecord \cup {None}]
         /\ W \in [Nodes -> Workspaces \cup {None}]
         /\ \A s \in Splits : t.split[s] # None <=> W[s] # None
         /\ \A s \in Splits : t.split[s] # None => t.split[s] \in SplitRecord
         /\ \A n \in Nodes : t.parent[n] = None /\ W[n] # None => t.root[W[n]] = n
         /\ \A n \in Nodes : t.parent[n] # None =>
              /\ W[n] # None /\ W[t.parent[n]] = W[n] /\ t.parent[n] \in Splits
              /\ t.split[t.parent[n]] # None /\ t.split[t.parent[n]] \in SplitRecord
              /\ n \in Kids(t, t.parent[n])
         /\ \A w \in Workspaces : t.root[w] # None =>
              /\ t.root[w] \in Nodes /\ W[t.root[w]] = w /\ t.parent[t.root[w]] = None
         /\ \A s \in Splits : t.split[s] # None =>
              /\ t.split[s].first # t.split[s].second
              /\ t.split[s].first \in Nodes /\ t.split[s].second \in Nodes
              /\ t.parent[t.split[s].first] = s /\ t.parent[t.split[s].second] = s
         /\ Grounded(t.parent)
  <1>1. t \in Trees /\ Labelled(t, W) /\ Paired(t) /\ Grounded(t.parent)
        /\ W \in [Nodes -> Workspaces \cup {None}]
    BY DEF Forest
  <1>2. /\ t = [root |-> t.root, parent |-> t.parent, split |-> t.split]
        /\ t.root \in [Workspaces -> Nodes \cup {None}]
        /\ t.parent \in [Nodes -> Splits \cup {None}]
        /\ t.split \in [Splits -> SplitRecord \cup {None}]
    BY <1>1 DEF Trees
  <1>3. None \notin Nodes /\ None \notin Splits
    BY Constants
  <1>4. \A s \in Splits : t.split[s] # None => t.split[s] \in SplitRecord
    BY <1>2
  <1>5. \A s \in Splits : t.split[s] # None =>
              /\ t.split[s].first # t.split[s].second
              /\ t.split[s].first \in Nodes /\ t.split[s].second \in Nodes
              /\ t.parent[t.split[s].first] = s /\ t.parent[t.split[s].second] = s
    BY <1>1, <1>4 DEF Paired, Kids, SplitRecord
  <1>6. \A n \in Nodes : t.parent[n] = None /\ W[n] # None => t.root[W[n]] = n
    BY <1>1 DEF Labelled
  <1>7. \A s \in Splits : t.split[s] # None <=> W[s] # None
    BY <1>1 DEF Labelled
  <1>8. \A n \in Nodes : t.parent[n] # None =>
              /\ W[n] # None /\ W[t.parent[n]] = W[n] /\ t.parent[n] \in Splits
              /\ t.split[t.parent[n]] # None /\ t.split[t.parent[n]] \in SplitRecord
              /\ n \in Kids(t, t.parent[n])
    <2> TAKE n \in Nodes
    <2>1. HAVE t.parent[n] # None
    <2>2. W[n] # None /\ W[t.parent[n]] = W[n] /\ n \in Kids(t, t.parent[n])
      BY <1>1, <2>1 DEF Labelled
    <2>3. t.parent[n] \in Splits
      BY <1>2, <2>1
    <2>4. t.split[t.parent[n]] # None
      BY <1>7, <2>2, <2>3
    <2> QED
      BY <1>4, <2>2, <2>3, <2>4
  <1>9. \A w \in Workspaces : t.root[w] # None =>
              /\ t.root[w] \in Nodes /\ W[t.root[w]] = w /\ t.parent[t.root[w]] = None
    BY <1>1, <1>2 DEF Labelled
  <1> QED
    BY <1>1, <1>2, <1>4, <1>5, <1>6, <1>7, <1>8, <1>9

\* What is in no tree has nothing above and nothing below.
LEMMA LooseNode ==
  ASSUME NEW t, NEW W, Forest(t, W), NEW n \in Nodes, W[n] = None
  PROVE  /\ t.parent[n] = None
         /\ \A m \in Nodes : t.parent[m] # n
         /\ \A w \in Workspaces : t.root[w] # n
  BY ForestFacts, Constants

\* What replace_node changes: a pointer to old and the pointer up of new.
LEMMA ReplacedIs ==
  ASSUME NEW t, NEW W, Forest(t, W), NEW w \in Workspaces, NEW old \in Nodes, NEW new \in Nodes
  PROVE  LET r == ReplaceNode(t, w, old, new)
             p == t.parent[old]
         IN /\ r = [root |-> r.root, parent |-> r.parent, split |-> r.split]
            /\ r.parent = [t.parent EXCEPT ![new] = p]
            /\ r.root = IF p = None THEN [t.root EXCEPT ![w] = new] ELSE t.root
            /\ p = None => r.split = t.split
            /\ p # None => r.split = [t.split EXCEPT ![p] =
                 [first |-> IF @.first = old THEN new ELSE @.first,
                  second |-> IF @.first = old THEN @.second ELSE new,
                  orientation |-> @.orientation, ratio |-> @.ratio]]
  <1> DEFINE r == ReplaceNode(t, w, old, new)
             p == t.parent[old]
  <1>1. /\ t = [root |-> t.root, parent |-> t.parent, split |-> t.split]
        /\ t.root \in [Workspaces -> Nodes \cup {None}]
        /\ t.parent \in [Nodes -> Splits \cup {None}]
        /\ t.split \in [Splits -> SplitRecord \cup {None}]
        /\ p # None => p \in Splits /\ t.split[p] \in SplitRecord
    BY ForestFacts
  <1>2. CASE p = None
    <2>1. r = [t EXCEPT !.parent[new] = None, !.root[w] = new]
      BY <1>2 DEF ReplaceNode
    <2>2. r = [root |-> [t.root EXCEPT ![w] = new], parent |-> [t.parent EXCEPT ![new] = None],
               split |-> t.split]
      BY <1>1, <2>1
    <2> QED
      BY <1>2, <2>2
  <1>3. CASE p # None /\ t.split[p].first = old
    <2>1. r = [t EXCEPT !.parent[new] = p, !.split[p].first = new]
      BY <1>3 DEF ReplaceNode
    <2>2. r = [root |-> t.root, parent |-> [t.parent EXCEPT ![new] = p],
               split |-> [t.split EXCEPT ![p].first = new]]
      BY <1>1, <2>1
    <2>3. [t.split EXCEPT ![p].first = new] = [t.split EXCEPT ![p] =
                 [first |-> new, second |-> @.second,
                  orientation |-> @.orientation, ratio |-> @.ratio]]
      <3>1. [t.split[p] EXCEPT !.first = new] =
               [first |-> new, second |-> t.split[p].second,
                orientation |-> t.split[p].orientation, ratio |-> t.split[p].ratio]
        BY <1>1, <1>3 DEF SplitRecord
      <3> QED
        BY <1>1, <3>1
    <2> QED
      BY <1>3, <2>2, <2>3
  <1>4. CASE p # None /\ t.split[p].first # old
    <2>1. r = [t EXCEPT !.parent[new] = p, !.split[p].second = new]
      BY <1>4 DEF ReplaceNode
    <2>2. r = [root |-> t.root, parent |-> [t.parent EXCEPT ![new] = p],
               split |-> [t.split EXCEPT ![p].second = new]]
      BY <1>1, <2>1
    <2>3. [t.split EXCEPT ![p].second = new] = [t.split EXCEPT ![p] =
                 [first |-> @.first, second |-> new,
                  orientation |-> @.orientation, ratio |-> @.ratio]]
      <3>1. [t.split[p] EXCEPT !.second = new] =
               [first |-> t.split[p].first, second |-> new,
                orientation |-> t.split[p].orientation, ratio |-> t.split[p].ratio]
        BY <1>1, <1>4 DEF SplitRecord
      <3> QED
        BY <1>1, <3>1
    <2> QED
      BY <1>4, <2>2, <2>3
  <1> QED
    BY <1>2, <1>3, <1>4

\* The split p with the node new where it had old.
Exchanged(s, old, new) ==
    [first |-> IF s.first = old THEN new ELSE s.first,
     second |-> IF s.first = old THEN s.second ELSE new,
     orientation |-> s.orientation, ratio |-> s.ratio]

LEMMA ExchangedIs ==
  ASSUME NEW s, NEW old, NEW new
  PROVE  LET e == Exchanged(s, old, new) IN
         /\ e.first = (IF s.first = old THEN new ELSE s.first)
         /\ e.second = (IF s.first = old THEN s.second ELSE new)
         /\ e.orientation = s.orientation /\ e.ratio = s.ratio
  BY DEF Exchanged

\* The tree r is t with the node new, whose parent is then p, for old.
Replaces(r, t, w, old, new, p) ==
    /\ r = [root |-> r.root, parent |-> r.parent, split |-> r.split]
    /\ r.parent = [t.parent EXCEPT ![new] = p]
    /\ r.root = IF p = None THEN [t.root EXCEPT ![w] = new] ELSE t.root
    /\ p = None => r.split = t.split
    /\ p # None => r.split = [t.split EXCEPT ![p] = Exchanged(t.split[p], old, new)]

LEMMA ReplacedAs ==
  ASSUME NEW t, NEW W, Forest(t, W), NEW w \in Workspaces, NEW old \in Nodes, NEW new \in Nodes
  PROVE  Replaces(ReplaceNode(t, w, old, new), t, w, old, new, t.parent[old])
  <1>1. /\ t.split \in [Splits -> SplitRecord \cup {None}]
        /\ t.parent[old] # None => t.parent[old] \in Splits
    BY ForestFacts
  <1> QED
    BY <1>1, ReplacedIs DEF Replaces, Exchanged

LEMMA AttachedIs ==
  ASSUME NEW t, NEW W, Forest(t, W), NEW w \in Workspaces, NEW s \in Splits,
         NEW a \in Leaves, NEW n \in Leaves, a # n, NEW o \in Orientations,
         NEW nFirst \in BOOLEAN, t.parent[a] # s
  PROVE  LET r == Attached(t, w, s, a, n, o, nFirst)
             p == t.parent[a]
         IN /\ r = [root |-> r.root, parent |-> r.parent, split |-> r.split]
            /\ r.root = IF p = None THEN [t.root EXCEPT ![w] = s] ELSE t.root
            /\ r.parent \in [Nodes -> Splits \cup {None}]
            /\ r.parent[a] = s /\ r.parent[n] = s /\ r.parent[s] = p
            /\ \A m \in Nodes \ {a, n, s} : r.parent[m] = t.parent[m]
            /\ r.split \in [Splits -> SplitRecord \cup {None}]
            /\ r.split[s] \in SplitRecord
            /\ r.split[s].first = (IF nFirst THEN n ELSE a)
            /\ r.split[s].second = (IF nFirst THEN a ELSE n)
            /\ p # None => r.split[p] = Exchanged(t.split[p], a, s) /\ r.split[p] \in SplitRecord
            /\ \A q \in Splits \ {s, p} : r.split[q] = t.split[q]
  <1> DEFINE e == ReplaceNode(t, w, a, s)
             r == Attached(t, w, s, a, n, o, nFirst)
             p == t.parent[a]
             x == [first |-> IF nFirst THEN n ELSE a, second |-> IF nFirst THEN a ELSE n,
                   orientation |-> o, ratio |-> Initial]
  <1>0. a \in Nodes /\ s \in Nodes /\ n \in Nodes /\ a # s /\ n # s
    BY Constants
  <1>1. /\ t.root \in [Workspaces -> Nodes \cup {None}]
        /\ t.parent \in [Nodes -> Splits \cup {None}]
        /\ t.split \in [Splits -> SplitRecord \cup {None}]
        /\ p # None => p \in Splits /\ t.split[p] \in SplitRecord
    BY <1>0, ForestFacts
  <1>2. /\ e = [root |-> e.root, parent |-> e.parent, split |-> e.split]
        /\ e.parent = [t.parent EXCEPT ![s] = p]
        /\ e.root = IF p = None THEN [t.root EXCEPT ![w] = s] ELSE t.root
        /\ p = None => e.split = t.split
        /\ p # None => e.split = [t.split EXCEPT ![p] = Exchanged(t.split[p], a, s)]
    BY <1>0, <1>1, ReplacedIs DEF Exchanged
  <1>3. r = [e EXCEPT !.split[s] = x, !.parent[a] = s, !.parent[n] = s]
    BY DEF Attached
  <1>4. x \in SplitRecord /\ x.first = (IF nFirst THEN n ELSE a)
        /\ x.second = (IF nFirst THEN a ELSE n)
    BY <1>0, RatioFacts DEF SplitRecord
  <1> HIDE DEF x, e, r
  <1>5. r = [root |-> e.root, parent |-> [e.parent EXCEPT ![a] = s, ![n] = s],
             split |-> [e.split EXCEPT ![s] = x]]
    BY <1>2, <1>3
  <1>6. p # None => Exchanged(t.split[p], a, s) \in SplitRecord
    BY <1>0, <1>1 DEF Exchanged, SplitRecord
  <1>7. /\ e.split \in [Splits -> SplitRecord \cup {None}]
        /\ p # None => e.split[p] = Exchanged(t.split[p], a, s)
        /\ \A q \in Splits \ {p} : e.split[q] = t.split[q]
    BY <1>1, <1>2, <1>6
  <1>8. /\ r.split \in [Splits -> SplitRecord \cup {None}]
        /\ r.split[s] = x
        /\ \A q \in Splits \ {s} : r.split[q] = e.split[q]
    BY <1>4, <1>5, <1>7
  <1>9. /\ r.parent \in [Nodes -> Splits \cup {None}]
        /\ r.parent[a] = s /\ r.parent[n] = s /\ r.parent[s] = p
        /\ \A m \in Nodes \ {a, n, s} : r.parent[m] = t.parent[m]
    BY <1>0, <1>1, <1>2, <1>5
  <1> QED
    BY <1>1, <1>2, <1>4, <1>5, <1>6, <1>7, <1>8, <1>9 DEF r

\* W once the split s and the leaf n are in the tree of w.
Grown(W, s, n, w) == [m \in Nodes |-> IF m \in {s, n} THEN w ELSE W[m]]

\* A new pair of leaf and split in the place of the anchor leaves a forest.
LEMMA AttachedForest ==
  ASSUME NEW t, NEW W, Forest(t, W), NEW w \in Workspaces, NEW s \in Splits,
         NEW a \in Leaves, W[a] = w, t.split[s] = None, NEW n \in Leaves, W[n] = None,
         NEW o \in Orientations, NEW nFirst \in BOOLEAN
  PROVE  Forest(Attached(t, w, s, a, n, o, nFirst), Grown(W, s, n, w))
  <1> DEFINE r == Attached(t, w, s, a, n, o, nFirst)
             X == Grown(W, s, n, w)
             p == t.parent[a]
  <1>1. /\ a \in Nodes /\ s \in Nodes /\ n \in Nodes /\ a # s /\ n # s /\ a # n
        /\ None \notin Nodes /\ w # None /\ None \notin Splits
    BY Constants
  <1>f. /\ t.root \in [Workspaces -> Nodes \cup {None}]
        /\ t.parent \in [Nodes -> Splits \cup {None}]
        /\ t.split \in [Splits -> SplitRecord \cup {None}]
        /\ W \in [Nodes -> Workspaces \cup {None}]
        /\ \A q \in Splits : t.split[q] # None <=> W[q] # None
        /\ \A m \in Nodes : t.parent[m] = None /\ W[m] # None => t.root[W[m]] = m
        /\ \A m \in Nodes : t.parent[m] # None =>
              /\ W[m] # None /\ W[t.parent[m]] = W[m] /\ t.parent[m] \in Splits
              /\ t.split[t.parent[m]] # None /\ m \in Kids(t, t.parent[m])
        /\ \A x \in Workspaces : t.root[x] # None =>
              /\ t.root[x] \in Nodes /\ W[t.root[x]] = x /\ t.parent[t.root[x]] = None
        /\ \A q \in Splits : t.split[q] # None =>
              /\ t.split[q].first # t.split[q].second
              /\ t.split[q].first \in Nodes /\ t.split[q].second \in Nodes
              /\ t.parent[t.split[q].first] = q /\ t.parent[t.split[q].second] = q
        /\ Grounded(t.parent)
    BY ForestFacts
  <1>2. /\ t.parent[s] = None /\ t.parent[n] = None /\ W[s] = None
        /\ \A m \in Nodes : t.parent[m] \notin {s, n}
        /\ \A x \in Workspaces : t.root[x] \notin {s, n}
    <2>1. W[s] = None
      BY <1>f
    <2> QED
      BY <1>1, <2>1, LooseNode
  <1>3. /\ r = [root |-> r.root, parent |-> r.parent, split |-> r.split]
        /\ r.root = IF p = None THEN [t.root EXCEPT ![w] = s] ELSE t.root
        /\ r.parent \in [Nodes -> Splits \cup {None}]
        /\ r.parent[a] = s /\ r.parent[n] = s /\ r.parent[s] = p
        /\ \A m \in Nodes \ {a, n, s} : r.parent[m] = t.parent[m]
        /\ r.split \in [Splits -> SplitRecord \cup {None}]
        /\ r.split[s] \in SplitRecord
        /\ r.split[s].first = (IF nFirst THEN n ELSE a)
        /\ r.split[s].second = (IF nFirst THEN a ELSE n)
        /\ p # None => r.split[p] = Exchanged(t.split[p], a, s) /\ r.split[p] \in SplitRecord
        /\ \A q \in Splits \ {s, p} : r.split[q] = t.split[q]
    BY <1>1, <1>2, AttachedIs
  <1>4. /\ X \in [Nodes -> Workspaces \cup {None}] /\ X[s] = w /\ X[n] = w
        /\ \A m \in Nodes \ {s, n} : X[m] = W[m]
    BY <1>1, <1>f DEF Grown
  <1>5. p # None => /\ p \in Splits /\ p \in Nodes /\ p # s /\ t.split[p] # None
                    /\ W[p] = w /\ a \in Kids(t, p)
    BY <1>1, <1>2, <1>f, Constants
  <1> HIDE DEF r, X, p
  <1>6. Grounded(r.parent)
    <2>1. t.parent \in Parents /\ r.parent \in Parents
      BY <1>3, <1>f DEF Parents
    <2>2. /\ Grounded(t.parent) /\ a # s /\ a # n /\ a \in Nodes
          /\ \A m \in Nodes : t.parent[m] \notin {s, n}
      BY <1>1, <1>2, <1>f
    <2>3. /\ r.parent[s] = t.parent[a] /\ r.parent[a] = s /\ r.parent[n] = s
          /\ \A m \in Nodes \ {s, a, n} : r.parent[m] = t.parent[m]
      BY <1>3 DEF p
    <2> QED
      BY <2>1, <2>2, <2>3, GroundedAttached
  <1>7. Labelled(r, X)
    <2>1. \A q \in Splits : r.split[q] # None <=> X[q] # None
      <3> TAKE q \in Splits
      <3>1. CASE q = s
        BY <1>1, <1>3, <1>4, <3>1, Constants
      <3>2. CASE q # s /\ q = p
        <4>2. r.split[q] # None /\ W[q] # None
          BY <1>1, <1>3, <1>5, <3>2, Constants
        <4>3. X[q] = W[q]
          BY <1>1, <1>4, <3>2, Constants
        <4> QED
          BY <4>2, <4>3
      <3>3. CASE q # s /\ q # p
        <4>1. r.split[q] = t.split[q] /\ X[q] = W[q]
          BY <1>1, <1>3, <1>4, <3>3, Constants
        <4> QED
          BY <1>f, <4>1
      <3> QED
        BY <3>1, <3>2, <3>3
    <2>2. ASSUME NEW m \in Nodes
          PROVE  IF r.parent[m] = None THEN X[m] # None => r.root[X[m]] = m
                 ELSE /\ X[m] # None /\ X[r.parent[m]] = X[m]
                      /\ m \in Kids(r, r.parent[m])
      <3>1. CASE m = s
        BY <1>1, <1>3, <1>4, <1>5, <1>f, <3>1, ExchangedIs DEF Kids
      <3>2. CASE m \in {a, n}
        BY <1>1, <1>3, <1>4, <3>2 DEF Kids
      <3>3. CASE m \notin {a, n, s} /\ t.parent[m] = None
        <4>1. r.parent[m] = None /\ X[m] = W[m]
          BY <1>3, <1>4, <3>3
        <4>2. ASSUME X[m] # None PROVE r.root[X[m]] = m
          <5>1. t.root[W[m]] = m /\ W[m] \in Workspaces
            BY <1>f, <3>3, <4>1, <4>2
          <5>2. p = None => W[m] # w
            BY <1>1, <1>f, <3>3, <5>1 DEF p
          <5> QED
            BY <1>3, <1>f, <4>1, <5>1, <5>2
        <4> QED
          BY <4>1, <4>2
      <3>4. CASE m \notin {a, n, s} /\ t.parent[m] # None
        <4> DEFINE q == t.parent[m]
        <4>0. /\ q \in Splits /\ q # s /\ q # n
              /\ W[m] # None /\ W[q] = W[m] /\ m \in Kids(t, q) /\ t.split[q] # None
          BY <1>2, <1>f, <3>4
        <4>1. r.parent[m] = q /\ X[m] = W[m]
          BY <1>3, <1>4, <3>4
        <4>2. q \in Nodes
          BY <4>0, Constants
        <4> HIDE DEF q
        <4>3. X[q] = W[q]
          BY <1>4, <4>0, <4>2
        <4>4. m \in Kids(r, q)
          <5>1. CASE q = p
            <6>1. a \in Kids(t, p) /\ r.split[p] = Exchanged(t.split[p], a, s)
              BY <1>1, <1>3, <1>5, <4>0, <5>1
            <6> QED
              BY <3>4, <4>0, <5>1, <6>1, ExchangedIs DEF Kids
          <5>2. CASE q # p
            BY <1>3, <4>0, <5>2 DEF Kids
          <5> QED
            BY <5>1, <5>2
        <4> QED
          BY <1>1, <4>0, <4>1, <4>3, <4>4
      <3> QED
        BY <3>1, <3>2, <3>3, <3>4
    <2>3. ASSUME NEW x \in Workspaces, r.root[x] # None
          PROVE  X[r.root[x]] = x /\ r.parent[r.root[x]] = None
      <3>1. CASE x = w /\ p = None
        BY <1>3, <1>4, <1>f, <3>1
      <3>2. CASE ~(x = w /\ p = None)
        <4>1. r.root[x] = t.root[x]
          BY <1>3, <1>f, <3>2
        <4>2. /\ t.root[x] \in Nodes /\ W[t.root[x]] = x /\ t.parent[t.root[x]] = None
              /\ t.root[x] \notin {s, n}
          BY <1>2, <1>f, <2>3, <4>1
        <4>3. t.root[x] # a
          BY <3>2, <4>2 DEF p
        <4> QED
          BY <1>3, <1>4, <4>1, <4>2, <4>3
      <3> QED
        BY <3>1, <3>2
    <2> QED
      BY <2>1, <2>2, <2>3 DEF Labelled
  <1>8. Paired(r)
    <2> SUFFICES ASSUME NEW q \in Splits, r.split[q] # None
                 PROVE  /\ r.split[q].first # r.split[q].second
                        /\ r.parent[r.split[q].first] = q /\ r.parent[r.split[q].second] = q
      BY DEF Paired, Kids
    <2>1. CASE q = s
      BY <1>1, <1>3, <2>1
    <2>2. CASE q # s /\ q = p
      <3>1. /\ t.split[p].first # t.split[p].second /\ t.split[p] # None
            /\ t.split[p].first \in Nodes /\ t.split[p].second \in Nodes
            /\ t.parent[t.split[p].first] = p /\ t.parent[t.split[p].second] = p
            /\ a \in {t.split[p].first, t.split[p].second}
        BY <1>1, <1>5, <1>f, <2>2 DEF Kids
      <3>2. /\ t.split[p].first \notin {s, n} /\ t.split[p].second \notin {s, n}
        BY <1>2, <1>5, <1>1, <2>2, <3>1, Constants
      <3> QED
        BY <1>1, <1>3, <2>2, <3>1, <3>2, ExchangedIs
    <2>3. CASE q # s /\ q # p
      <3>1. r.split[q] = t.split[q] /\ q # None
        BY <1>1, <1>3, <2>3
      <3>2. /\ t.split[q].first # t.split[q].second
            /\ t.split[q].first \in Nodes /\ t.split[q].second \in Nodes
            /\ t.parent[t.split[q].first] = q /\ t.parent[t.split[q].second] = q
        BY <1>f, <3>1
      <3>3. /\ t.split[q].first \notin {a, s, n} /\ t.split[q].second \notin {a, s, n}
        BY <1>2, <2>3, <3>1, <3>2 DEF p
      <3> QED
        BY <1>3, <3>1, <3>2, <3>3
    <2> QED
      BY <2>1, <2>2, <2>3
  <1>9. r \in Trees
    <2>1. r.root \in [Workspaces -> Nodes \cup {None}]
      BY <1>1, <1>3, <1>f
    <2> QED
      BY <1>3, <2>1 DEF Trees
  <1> QED
    BY <1>4, <1>6, <1>7, <1>8, <1>9 DEF Forest, r, X

\* A leaf alone on its workspace is a tree.
LEMMA PlantedForest ==
  ASSUME NEW t, NEW W, Forest(t, W), NEW w \in Workspaces, t.root[w] = None,
         NEW n \in Leaves, W[n] = None
  PROVE  Forest(Planted(t, w, n), Grown(W, n, n, w))
  <1> DEFINE r == Planted(t, w, n)
             X == Grown(W, n, n, w)
  <1>1. n \in Nodes /\ n \notin Splits /\ None \notin Nodes /\ w # None
    BY Constants
  <1>f. /\ t = [root |-> t.root, parent |-> t.parent, split |-> t.split]
        /\ t.root \in [Workspaces -> Nodes \cup {None}]
        /\ t.parent \in [Nodes -> Splits \cup {None}]
        /\ t.split \in [Splits -> SplitRecord \cup {None}]
        /\ W \in [Nodes -> Workspaces \cup {None}]
        /\ \A q \in Splits : t.split[q] # None <=> W[q] # None
        /\ \A m \in Nodes : t.parent[m] = None /\ W[m] # None => t.root[W[m]] = m
        /\ \A m \in Nodes : t.parent[m] # None =>
              /\ W[m] # None /\ W[t.parent[m]] = W[m] /\ t.parent[m] \in Splits
              /\ m \in Kids(t, t.parent[m])
        /\ \A x \in Workspaces : t.root[x] # None =>
              /\ t.root[x] \in Nodes /\ W[t.root[x]] = x /\ t.parent[t.root[x]] = None
    BY ForestFacts
  <1>2. t.parent[n] = None /\ Paired(t) /\ Grounded(t.parent)
    BY <1>1, LooseNode DEF Forest
  <1>3. r = [root |-> [t.root EXCEPT ![w] = n], parent |-> t.parent, split |-> t.split]
    BY <1>f DEF Planted
  <1>4. /\ r.root \in [Workspaces -> Nodes \cup {None}] /\ r.root[w] = n
        /\ \A x \in Workspaces \ {w} : r.root[x] = t.root[x]
        /\ r.parent = t.parent /\ r.split = t.split
    BY <1>1, <1>3, <1>f
  <1>5. /\ X \in [Nodes -> Workspaces \cup {None}] /\ X[n] = w
        /\ \A m \in Nodes \ {n} : X[m] = W[m]
    BY <1>1, <1>f DEF Grown
  <1> HIDE DEF r, X
  <1>6. Labelled(r, X)
    <2>1. \A q \in Splits : r.split[q] # None <=> X[q] # None
      BY <1>1, <1>4, <1>5, <1>f, Constants
    <2>2. ASSUME NEW m \in Nodes
          PROVE  IF r.parent[m] = None THEN X[m] # None => r.root[X[m]] = m
                 ELSE /\ X[m] # None /\ X[r.parent[m]] = X[m]
                      /\ m \in Kids(r, r.parent[m])
      <3>1. CASE m = n
        BY <1>2, <1>4, <1>5, <3>1
      <3>2. CASE m # n /\ t.parent[m] = None
        <4>1. X[m] = W[m] /\ (W[m] # None => t.root[W[m]] = m /\ W[m] # w /\ W[m] \in Workspaces)
          BY <1>1, <1>5, <1>f, <3>2
        <4> QED
          BY <1>4, <3>2, <4>1
      <3>3. CASE m # n /\ t.parent[m] # None
        <4>1. /\ W[m] # None /\ W[t.parent[m]] = W[m] /\ t.parent[m] \in Splits
              /\ m \in Kids(t, t.parent[m])
          BY <1>f, <3>3
        <4>2. X[t.parent[m]] = W[t.parent[m]]
          BY <1>1, <1>5, <4>1, Constants
        <4> QED
          BY <1>4, <1>5, <3>3, <4>1, <4>2 DEF Kids
      <3> QED
        BY <3>1, <3>2, <3>3
    <2>3. ASSUME NEW x \in Workspaces, r.root[x] # None
          PROVE  X[r.root[x]] = x /\ r.parent[r.root[x]] = None
      <3>1. CASE x = w
        BY <1>2, <1>4, <1>5, <3>1
      <3>2. CASE x # w
        <4>1. /\ r.root[x] = t.root[x] /\ t.root[x] \in Nodes /\ W[t.root[x]] = x
              /\ t.parent[t.root[x]] = None
          BY <1>4, <1>f, <2>3, <3>2
        <4>2. t.root[x] # n
          BY <4>1, Constants
        <4> QED
          BY <1>4, <1>5, <4>1, <4>2
      <3> QED
        BY <3>1, <3>2
    <2> QED
      BY <2>1, <2>2, <2>3 DEF Labelled
  <1>7. Paired(r)
    BY <1>2, <1>4 DEF Paired, Kids
  <1>8. r \in Trees
    BY <1>3, <1>4, <1>f DEF Trees
  <1> QED
    BY <1>2, <1>4, <1>5, <1>6, <1>7, <1>8 DEF Forest, r, X

\* W once the leaf n is gone and the split p above it, if there is one.
Pruned(W, n, p) == [m \in Nodes |-> IF m \in {n, p} THEN None ELSE W[m]]

\* The sibling is the other node below the same split.
LEMMA SiblingIs ==
  ASSUME NEW t, NEW W, Forest(t, W), NEW n \in Nodes, t.parent[n] # None
  PROVE  LET p == t.parent[n]
             b == Sibling(t, n)
         IN /\ b \in Nodes /\ b # n /\ b # p /\ t.parent[b] = p /\ Kids(t, p) = {n, b}
            /\ \A m \in Nodes : t.parent[m] = p => m \in {n, b}
  <1> DEFINE p == t.parent[n]
             b == Sibling(t, n)
  <1>1. /\ p \in Splits /\ t.split[p] # None /\ n \in Kids(t, p)
        /\ t.split[p].first # t.split[p].second
        /\ t.split[p].first \in Nodes /\ t.split[p].second \in Nodes
        /\ t.parent[t.split[p].first] = p /\ t.parent[t.split[p].second] = p
    BY ForestFacts
  <1>2. b = IF t.split[p].first = n THEN t.split[p].second ELSE t.split[p].first
    BY DEF Sibling
  <1>3. b \in Nodes /\ b # n /\ t.parent[b] = p /\ Kids(t, p) = {n, b}
    BY <1>1, <1>2 DEF Kids
  <1> HIDE DEF b
  <1>4. b # p
    BY <1>3, ForestFacts, GroundedSelf
  <1>5. ASSUME NEW m \in Nodes, t.parent[m] = p PROVE m \in {n, b}
    <2>1. m \in Kids(t, p)
      BY <1>1, <1>5, ForestFacts
    <2> QED
      BY <1>3, <2>1
  <1> QED
    BY <1>3, <1>4, <1>5 DEF b

LEMMA DetachedIs ==
  ASSUME NEW t, NEW W, Forest(t, W), NEW w \in Workspaces, NEW n \in Leaves,
         t.parent[n] # None
  PROVE  LET r == Detached(t, w, n)
             p == t.parent[n]
             b == Sibling(t, n)
             q == t.parent[p]
         IN /\ r = [root |-> r.root, parent |-> r.parent, split |-> r.split]
            /\ r.root = IF q = None THEN [t.root EXCEPT ![w] = b] ELSE t.root
            /\ r.parent \in [Nodes -> Splits \cup {None}]
            /\ r.parent[b] = q /\ r.parent[p] = None /\ r.parent[n] = None
            /\ \A m \in Nodes \ {p, b, n} : r.parent[m] = t.parent[m]
            /\ r.split \in [Splits -> SplitRecord \cup {None}]
            /\ r.split[p] = None
            /\ q # None => r.split[q] = Exchanged(t.split[q], p, b) /\ r.split[q] \in SplitRecord
            /\ \A k \in Splits \ {p, q} : r.split[k] = t.split[k]
  <1> DEFINE r == Detached(t, w, n)
             p == t.parent[n]
             b == Sibling(t, n)
             q == t.parent[p]
             e == ReplaceNode(t, w, p, b)
  <1>0. n \in Nodes /\ None \notin Nodes
    BY Constants
  <1>1. b \in Nodes /\ b # n /\ b # p
    BY <1>0, SiblingIs
  <1>2. p \in Splits /\ p \in Nodes /\ p # n
    BY <1>0, ForestFacts, Constants
  <1>3. /\ t.root \in [Workspaces -> Nodes \cup {None}]
        /\ t.parent \in [Nodes -> Splits \cup {None}]
        /\ t.split \in [Splits -> SplitRecord \cup {None}]
        /\ q # None => q \in Splits /\ t.split[q] \in SplitRecord
    BY <1>2, ForestFacts
  <1>4. q # p
    BY <1>2, ForestFacts, GroundedSelf
  <1>5. /\ e = [root |-> e.root, parent |-> e.parent, split |-> e.split]
        /\ e.parent = [t.parent EXCEPT ![b] = q]
        /\ e.root = IF q = None THEN [t.root EXCEPT ![w] = b] ELSE t.root
        /\ q = None => e.split = t.split
        /\ q # None => e.split = [t.split EXCEPT ![q] = Exchanged(t.split[q], p, b)]
    <2>1. Replaces(e, t, w, p, b, q)
      <3> HIDE DEF b, p
      <3> QED
        BY <1>1, <1>2, ReplacedAs
    <2> HIDE DEF b, p, q, e
    <2> QED
      BY <2>1 DEF Replaces
  <1>6. r = [e EXCEPT !.split[p] = None, !.parent[p] = None, !.parent[n] = None]
    BY DEF Detached
  <1> HIDE DEF e, r, b
  <1>7. r = [root |-> e.root, parent |-> [e.parent EXCEPT ![p] = None, ![n] = None],
             split |-> [e.split EXCEPT ![p] = None]]
    BY <1>5, <1>6
  <1>8. q # None => Exchanged(t.split[q], p, b) \in SplitRecord
    BY <1>1, <1>3 DEF Exchanged, SplitRecord
  <1>9. /\ e.split \in [Splits -> SplitRecord \cup {None}]
        /\ q # None => e.split[q] = Exchanged(t.split[q], p, b)
        /\ \A k \in Splits \ {q} : e.split[k] = t.split[k]
    BY <1>3, <1>5, <1>8
  <1>10. /\ r.split \in [Splits -> SplitRecord \cup {None}]
         /\ r.split[p] = None
         /\ \A k \in Splits \ {p} : r.split[k] = e.split[k]
    BY <1>2, <1>7, <1>9
  <1>11. /\ r.parent \in [Nodes -> Splits \cup {None}]
         /\ r.parent[b] = q /\ r.parent[p] = None /\ r.parent[n] = None
         /\ \A m \in Nodes \ {p, b, n} : r.parent[m] = t.parent[m]
    BY <1>0, <1>1, <1>2, <1>3, <1>5, <1>7
  <1> QED
    BY <1>3, <1>4, <1>5, <1>7, <1>8, <1>9, <1>10, <1>11 DEF r, b

\* The only leaf of its tree.
LEMMA UprootedForest ==
  ASSUME NEW t, NEW W, Forest(t, W), NEW n \in Leaves, W[n] # None, t.parent[n] = None
  PROVE  Forest(Detached(t, W[n], n), Pruned(W, n, t.parent[n]))
  <1> DEFINE w == W[n]
             r == Detached(t, w, n)
             X == Pruned(W, n, t.parent[n])
  <1>1. n \in Nodes /\ n \notin Splits /\ None \notin Nodes /\ None \notin Splits
    BY Constants
  <1>f. /\ t = [root |-> t.root, parent |-> t.parent, split |-> t.split]
        /\ t.root \in [Workspaces -> Nodes \cup {None}]
        /\ t.parent \in [Nodes -> Splits \cup {None}]
        /\ t.split \in [Splits -> SplitRecord \cup {None}]
        /\ W \in [Nodes -> Workspaces \cup {None}]
        /\ \A q \in Splits : t.split[q] # None <=> W[q] # None
        /\ \A m \in Nodes : t.parent[m] = None /\ W[m] # None => t.root[W[m]] = m
        /\ \A m \in Nodes : t.parent[m] # None =>
              /\ W[m] # None /\ W[t.parent[m]] = W[m] /\ t.parent[m] \in Splits
              /\ m \in Kids(t, t.parent[m])
        /\ \A x \in Workspaces : t.root[x] # None =>
              /\ t.root[x] \in Nodes /\ W[t.root[x]] = x /\ t.parent[t.root[x]] = None
    BY ForestFacts
  <1>2. w \in Workspaces /\ t.root[w] = n /\ Paired(t) /\ Grounded(t.parent)
    BY <1>1, <1>f DEF Forest
  <1>3. r = [root |-> [t.root EXCEPT ![w] = None], parent |-> t.parent, split |-> t.split]
    <2>1. r = [t EXCEPT !.root[w] = None]
      BY DEF Detached
    <2> QED
      BY <1>f, <2>1
  <1>4. /\ r.root \in [Workspaces -> Nodes \cup {None}] /\ r.root[w] = None
        /\ \A x \in Workspaces \ {w} : r.root[x] = t.root[x]
        /\ r.parent = t.parent /\ r.split = t.split
    BY <1>2, <1>3, <1>f
  <1>5. /\ X \in [Nodes -> Workspaces \cup {None}] /\ X[n] = None
        /\ \A m \in Nodes \ {n} : X[m] = W[m]
    BY <1>1, <1>f DEF Pruned
  <1> HIDE DEF r, X, w
  <1>6. Labelled(r, X)
    <2>1. \A q \in Splits : r.split[q] # None <=> X[q] # None
      BY <1>1, <1>4, <1>5, <1>f, Constants
    <2>2. ASSUME NEW m \in Nodes
          PROVE  IF r.parent[m] = None THEN X[m] # None => r.root[X[m]] = m
                 ELSE /\ X[m] # None /\ X[r.parent[m]] = X[m]
                      /\ m \in Kids(r, r.parent[m])
      <3>1. CASE m = n
        BY <1>4, <1>5, <3>1
      <3>2. CASE m # n /\ t.parent[m] = None
        <4>1. X[m] = W[m] /\ (W[m] # None => t.root[W[m]] = m /\ W[m] # w /\ W[m] \in Workspaces)
          BY <1>1, <1>2, <1>5, <1>f, <3>2
        <4> QED
          BY <1>4, <3>2, <4>1
      <3>3. CASE m # n /\ t.parent[m] # None
        <4>1. /\ W[m] # None /\ W[t.parent[m]] = W[m] /\ t.parent[m] \in Splits
              /\ m \in Kids(t, t.parent[m])
          BY <1>f, <3>3
        <4>2. X[t.parent[m]] = W[t.parent[m]]
          BY <1>1, <1>5, <4>1, Constants
        <4> QED
          BY <1>4, <1>5, <3>3, <4>1, <4>2 DEF Kids
      <3> QED
        BY <3>1, <3>2, <3>3
    <2>3. ASSUME NEW x \in Workspaces, r.root[x] # None
          PROVE  X[r.root[x]] = x /\ r.parent[r.root[x]] = None
      <3>1. x # w /\ r.root[x] = t.root[x]
        BY <1>4, <2>3
      <3>2. t.root[x] \in Nodes /\ W[t.root[x]] = x /\ t.parent[t.root[x]] = None
        BY <1>f, <2>3, <3>1
      <3>3. t.root[x] # n
        BY <3>1, <3>2 DEF w
      <3> QED
        BY <1>4, <1>5, <3>1, <3>2, <3>3
    <2> QED
      BY <2>1, <2>2, <2>3 DEF Labelled
  <1>7. Paired(r)
    BY <1>2, <1>4 DEF Paired, Kids
  <1>8. r \in Trees
    BY <1>3, <1>4, <1>f DEF Trees
  <1> QED
    BY <1>2, <1>4, <1>5, <1>6, <1>7, <1>8 DEF Forest, r, X, w

\* A leaf taken off with the split above it leaves a forest.
LEMMA DetachedForest ==
  ASSUME NEW t, NEW W, Forest(t, W), NEW n \in Leaves, W[n] # None
  PROVE  Forest(Detached(t, W[n], n), Pruned(W, n, t.parent[n]))
  <1>u. SUFFICES ASSUME t.parent[n] # None
                 PROVE  Forest(Detached(t, W[n], n), Pruned(W, n, t.parent[n]))
    BY UprootedForest
  <1> DEFINE w == W[n]
             r == Detached(t, w, n)
             p == t.parent[n]
             X == Pruned(W, n, p)
             b == Sibling(t, n)
             q == t.parent[p]
  <1>1. n \in Nodes /\ None \notin Nodes /\ None \notin Splits
    BY Constants
  <1>f. /\ t.root \in [Workspaces -> Nodes \cup {None}]
        /\ t.parent \in [Nodes -> Splits \cup {None}]
        /\ t.split \in [Splits -> SplitRecord \cup {None}]
        /\ W \in [Nodes -> Workspaces \cup {None}]
        /\ \A k \in Splits : t.split[k] # None <=> W[k] # None
        /\ \A m \in Nodes : t.parent[m] = None /\ W[m] # None => t.root[W[m]] = m
        /\ \A m \in Nodes : t.parent[m] # None =>
              /\ W[m] # None /\ W[t.parent[m]] = W[m] /\ t.parent[m] \in Splits
              /\ t.split[t.parent[m]] # None /\ m \in Kids(t, t.parent[m])
        /\ \A x \in Workspaces : t.root[x] # None =>
              /\ t.root[x] \in Nodes /\ W[t.root[x]] = x /\ t.parent[t.root[x]] = None
        /\ \A k \in Splits : t.split[k] # None =>
              /\ t.split[k].first # t.split[k].second
              /\ t.split[k].first \in Nodes /\ t.split[k].second \in Nodes
              /\ t.parent[t.split[k].first] = k /\ t.parent[t.split[k].second] = k
        /\ Grounded(t.parent)
    BY ForestFacts
  <1>2. /\ p \in Splits /\ p \in Nodes /\ p # n /\ W[p] = w /\ w \in Workspaces /\ w # None
        /\ b \in Nodes /\ b # n /\ b # p /\ t.parent[b] = p /\ Kids(t, p) = {n, b}
        /\ \A m \in Nodes : t.parent[m] = p => m \in {n, b}
    BY <1>1, <1>u, <1>f, SiblingIs, Constants
  <1>3. /\ r = [root |-> r.root, parent |-> r.parent, split |-> r.split]
        /\ r.root = IF q = None THEN [t.root EXCEPT ![w] = b] ELSE t.root
        /\ r.parent \in [Nodes -> Splits \cup {None}]
        /\ r.parent[b] = q /\ r.parent[p] = None /\ r.parent[n] = None
        /\ \A m \in Nodes \ {p, b, n} : r.parent[m] = t.parent[m]
        /\ r.split \in [Splits -> SplitRecord \cup {None}]
        /\ r.split[p] = None
        /\ q # None => r.split[q] = Exchanged(t.split[q], p, b) /\ r.split[q] \in SplitRecord
        /\ \A k \in Splits \ {p, q} : r.split[k] = t.split[k]
    BY <1>2, <1>u, DetachedIs
  <1>4. /\ X \in [Nodes -> Workspaces \cup {None}] /\ X[p] = None /\ X[n] = None
        /\ \A m \in Nodes \ {p, n} : X[m] = W[m]
    BY <1>1, <1>2, <1>f DEF Pruned
  <1>n. t.parent[n] = p
    OBVIOUS
  <1> HIDE DEF r, X, p, b, w
  <1>5. W[b] = w
    BY <1>1, <1>2, <1>f
  <1>6. q # None => /\ q \in Splits /\ q \in Nodes /\ q # p /\ q # n /\ q # b /\ t.split[q] # None
                    /\ W[q] = w /\ p \in Kids(t, q)
    <2>1. q # p
      BY <1>2, <1>f, GroundedSelf
    <2>2. q # None => q # b
      <3> SUFFICES ASSUME q = b, q # None PROVE FALSE
        OBVIOUS
      <3>1. {p, b} \in SUBSET Nodes /\ {p, b} # {}
        BY <1>2
      <3>2. PICK m \in {p, b} : t.parent[m] \notin {p, b}
        BY <1>f, <3>1 DEF Grounded
      <3> QED
        BY <1>2, <3>2
    <2> QED
      BY <1>1, <1>2, <1>f, <2>1, <2>2, Constants
  <1> HIDE DEF q
  <1>q. q = t.parent[p]
    BY DEF q
  <1>7. Grounded(r.parent)
    <2>1. t.parent \in Parents /\ r.parent \in Parents
      BY <1>3, <1>f DEF Parents
    <2>2. r.parent[b] = t.parent[p]
      BY <1>3 DEF q
    <2>3. \A m \in Nodes \ {p, b, n} : r.parent[m] = t.parent[m]
      BY <1>3
    <2>4. /\ Grounded(t.parent) /\ b \in Nodes /\ p \in Splits /\ b # n
          /\ t.parent[n] = p /\ t.parent[b] = p /\ r.parent[p] = None /\ r.parent[n] = None
          /\ \A m \in Nodes : t.parent[m] = p => m \in {n, b}
      BY <1>2, <1>3, <1>f, <1>n
    <2> QED
      BY <2>1, <2>2, <2>3, <2>4, GroundedDetached
  <1>8. Labelled(r, X)
    <2>1. \A k \in Splits : r.split[k] # None <=> X[k] # None
      <3> TAKE k \in Splits
      <3>1. CASE k = p
        BY <1>3, <1>4, <3>1
      <3>2. CASE k # p /\ k = q
        BY <1>1, <1>2, <1>3, <1>4, <1>6, <3>2, Constants
      <3>3. CASE k # p /\ k # q
        BY <1>3, <1>4, <1>f, <3>3, Constants
      <3> QED
        BY <3>1, <3>2, <3>3
    <2>2. ASSUME NEW m \in Nodes
          PROVE  IF r.parent[m] = None THEN X[m] # None => r.root[X[m]] = m
                 ELSE /\ X[m] # None /\ X[r.parent[m]] = X[m]
                      /\ m \in Kids(r, r.parent[m])
      <3>1. CASE m \in {p, n}
        BY <1>3, <1>4, <3>1
      <3>2. CASE m = b /\ q = None
        BY <1>2, <1>3, <1>4, <1>5, <1>f, <3>2
      <3>3. CASE m = b /\ q # None
        <4>1. b \in Kids(r, q)
          <5>1. r.split[q] = Exchanged(t.split[q], p, b)
            BY <1>3, <3>3
          <5> QED
            BY <5>1, ExchangedIs DEF Kids
        <4> QED
          BY <1>2, <1>3, <1>4, <1>5, <1>6, <3>3, <4>1
      <3>4. CASE m \notin {p, b, n} /\ t.parent[m] = None
        <4>1. r.parent[m] = None /\ X[m] = W[m]
          BY <1>3, <1>4, <3>4
        <4>2. ASSUME X[m] # None PROVE r.root[X[m]] = m
          <5>1. t.root[W[m]] = m /\ W[m] \in Workspaces
            BY <1>f, <3>4, <4>1, <4>2
          <5>2. q = None => W[m] # w
            <6>1. q = None => t.root[w] = p
              BY <1>2, <1>f, <1>q
            <6> QED
              BY <3>4, <5>1, <6>1
          <5> QED
            BY <1>3, <1>f, <4>1, <5>1, <5>2
        <4> QED
          BY <4>1, <4>2
      <3>5. CASE m \notin {p, b, n} /\ t.parent[m] # None
        <4> DEFINE k == t.parent[m]
        <4>0. /\ k \in Splits /\ k # p /\ k # n
              /\ W[m] # None /\ W[k] = W[m] /\ m \in Kids(t, k) /\ t.split[k] # None
          BY <1>2, <1>f, <3>5, Constants
        <4>1. r.parent[m] = k /\ X[m] = W[m]
          BY <1>3, <1>4, <3>5
        <4>2. k \in Nodes
          BY <4>0, Constants
        <4> HIDE DEF k
        <4>3. X[k] = W[k]
          BY <1>4, <4>0, <4>2
        <4>4. m \in Kids(r, k)
          <5>1. CASE k = q
            <6>1. p \in Kids(t, q) /\ r.split[q] = Exchanged(t.split[q], p, b)
              BY <1>1, <1>3, <1>6, <4>0, <5>1
            <6> QED
              BY <3>5, <4>0, <5>1, <6>1, ExchangedIs DEF Kids
          <5>2. CASE k # q
            BY <1>3, <4>0, <5>2 DEF Kids
          <5> QED
            BY <5>1, <5>2
        <4> QED
          BY <1>1, <4>0, <4>1, <4>3, <4>4
      <3> QED
        BY <3>1, <3>2, <3>3, <3>4, <3>5
    <2>3. ASSUME NEW x \in Workspaces, r.root[x] # None
          PROVE  X[r.root[x]] = x /\ r.parent[r.root[x]] = None
      <3>1. CASE x = w /\ q = None
        BY <1>2, <1>3, <1>4, <1>5, <1>f, <3>1
      <3>2. CASE ~(x = w /\ q = None)
        <4>1. r.root[x] = t.root[x]
          BY <1>3, <1>f, <3>2
        <4>2. t.root[x] \in Nodes /\ W[t.root[x]] = x /\ t.parent[t.root[x]] = None
          BY <1>f, <2>3, <4>1
        <4>3. t.root[x] \notin {p, n, b}
          BY <1>2, <1>n, <1>q, <1>u, <3>2, <4>2, <1>1
        <4> QED
          BY <1>3, <1>4, <4>1, <4>2, <4>3
      <3> QED
        BY <3>1, <3>2
    <2> QED
      BY <2>1, <2>2, <2>3 DEF Labelled
  <1>9. Paired(r)
    <2> SUFFICES ASSUME NEW k \in Splits, r.split[k] # None
                 PROVE  /\ r.split[k].first # r.split[k].second
                        /\ r.parent[r.split[k].first] = k /\ r.parent[r.split[k].second] = k
      BY DEF Paired, Kids
    <2>0. k # p
      BY <1>3
    <2>2. CASE k = q
      <3>1. /\ t.split[q].first # t.split[q].second /\ t.split[q] # None
            /\ t.split[q].first \in Nodes /\ t.split[q].second \in Nodes
            /\ t.parent[t.split[q].first] = q /\ t.parent[t.split[q].second] = q
            /\ p \in {t.split[q].first, t.split[q].second}
        BY <1>1, <1>6, <1>f, <2>2 DEF Kids
      <3>2. t.split[q].first \notin {n, b} /\ t.split[q].second \notin {n, b}
        BY <1>2, <1>n, <2>0, <2>2, <3>1
      <3> QED
        BY <1>1, <1>2, <1>3, <2>2, <3>1, <3>2, ExchangedIs
    <2>3. CASE k # q
      <3>1. r.split[k] = t.split[k]
        BY <1>3, <2>0, <2>3
      <3>2. /\ t.split[k].first # t.split[k].second
            /\ t.split[k].first \in Nodes /\ t.split[k].second \in Nodes
            /\ t.parent[t.split[k].first] = k /\ t.parent[t.split[k].second] = k
        BY <1>f, <3>1
      <3>3. t.split[k].first \notin {p, b, n} /\ t.split[k].second \notin {p, b, n}
        BY <1>2, <1>n, <1>q, <2>0, <2>3, <3>2
      <3> QED
        BY <1>3, <3>1, <3>2, <3>3
    <2> QED
      BY <2>2, <2>3
  <1>10. r \in Trees
    <2>1. r.root \in [Workspaces -> Nodes \cup {None}]
      BY <1>2, <1>3, <1>f
    <2> QED
      BY <1>3, <2>1 DEF Trees
  <1> QED
    BY <1>4, <1>7, <1>8, <1>9, <1>10 DEF Forest, r, X, p, w

-----------------------------------------------------------------------------
(* The recursive functions on the nodes of a forest.                       *)

\* Among any nodes there is one with none of them below it.
LEMMA BottomUp ==
  ASSUME NEW t, NEW W, Forest(t, W), NEW S \in SUBSET Nodes, S # {}
  PROVE  \E n \in S : \A m \in S : t.parent[m] # n
  BY DEF Forest, Grounded

\* Among any nodes there is one with none of them above it.
LEMMA TopDown ==
  ASSUME NEW t, NEW W, Forest(t, W), NEW S \in SUBSET Nodes, S # {}
  PROVE  \E n \in S : t.parent[n] \notin S
  BY DEF Forest, Grounded

\* A split in use is above its two nodes, and in their tree.
LEMMA KidsOf ==
  ASSUME NEW t, NEW W, Forest(t, W), NEW s \in Splits, t.split[s] # None
  PROVE  \A k \in {t.split[s].first, t.split[s].second} :
           k \in Nodes /\ t.parent[k] = s /\ W[k] = W[s] /\ W[s] # None
  <1>1. /\ t.split[s].first \in Nodes /\ t.split[s].second \in Nodes
        /\ t.parent[t.split[s].first] = s /\ t.parent[t.split[s].second] = s
        /\ W[s] # None
    BY ForestFacts
  <1>2. \A k \in Nodes : t.parent[k] = s => W[k] = W[s]
    BY ForestFacts, Constants
  <1> QED
    BY <1>1, <1>2

\* The nodes of which a walk down, or up, reads the value.
Inner(t, n) == n \in Splits /\ t.split[n] # None
Downwards(t) ==
    [n \in Nodes |-> IF Inner(t, n) THEN {t.split[n].first, t.split[n].second} ELSE {}]

\* Walks down a forest end.
LEMMA DownwardsIs ==
  ASSUME NEW t, NEW W, Forest(t, W)
  PROVE  /\ Downwards(t) \in [Nodes -> SUBSET Nodes]
         /\ \A S \in SUBSET Nodes : S # {} => \E n \in S : Downwards(t)[n] \cap S = {}
  <1> DEFINE K == Downwards(t)
  <1>1. \A n \in Nodes : K[n] = IF Inner(t, n) THEN {t.split[n].first, t.split[n].second} ELSE {}
    BY DEF Downwards
  <1>2. \A n \in Nodes : Inner(t, n) => \A k \in {t.split[n].first, t.split[n].second} :
           k \in Nodes /\ t.parent[k] = n
    BY KidsOf DEF Inner
  <1>3. K \in [Nodes -> SUBSET Nodes]
    BY <1>2 DEF Downwards
  <1> HIDE DEF K
  <1>4. ASSUME NEW S \in SUBSET Nodes, S # {} PROVE \E n \in S : K[n] \cap S = {}
    <2>1. PICK n \in S : \A m \in S : t.parent[m] # n
      BY <1>4, BottomUp
    <2>2. n \in Nodes
      OBVIOUS
    <2>3. ASSUME NEW k \in K[n] PROVE k \notin S
      <3>1. Inner(t, n) /\ k \in {t.split[n].first, t.split[n].second}
        BY <1>1, <2>2
      <3>2. t.parent[k] = n
        BY <1>2, <2>2, <3>1
      <3> QED
        BY <2>1, <3>2
    <2> QED
      BY <2>3
  <1> QED
    BY <1>3, <1>4 DEF K

Upwards(parent) == [n \in Nodes |-> IF parent[n] = None THEN {} ELSE {parent[n]}]

\* Walks up a forest end.
LEMMA UpwardsIs ==
  ASSUME NEW t, NEW W, Forest(t, W)
  PROVE  /\ Upwards(t.parent) \in [Nodes -> SUBSET Nodes]
         /\ \A S \in SUBSET Nodes : S # {} => \E n \in S : Upwards(t.parent)[n] \cap S = {}
  <1> DEFINE K == Upwards(t.parent)
  <1>1. \A n \in Nodes : K[n] = IF t.parent[n] = None THEN {} ELSE {t.parent[n]}
    BY DEF Upwards
  <1>2. \A n \in Nodes : t.parent[n] # None => t.parent[n] \in Nodes
    BY ForestFacts, Constants
  <1>3. K \in [Nodes -> SUBSET Nodes]
    BY <1>2 DEF Upwards
  <1> HIDE DEF K
  <1>4. ASSUME NEW S \in SUBSET Nodes, S # {} PROVE \E n \in S : K[n] \cap S = {}
    <2>1. PICK n \in S : t.parent[n] \notin S
      BY <1>4, TopDown
    <2>2. n \in Nodes
      OBVIOUS
    <2>3. K[n] \cap S = {}
      BY <1>1, <2>1, <2>2
    <2> QED
      BY <2>3
  <1> QED
    BY <1>3, <1>4 DEF K

UnderAt(t, u, m) ==
    IF m \in Leaves THEN {m} ELSE IF t.split[m] = None THEN {}
    ELSE u[t.split[m].first] \cup u[t.split[m].second]

LEMMA UnderIs ==
  ASSUME NEW t, NEW W, Forest(t, W)
  PROVE  \E u \in Maps(SUBSET Leaves) :
           /\ \A m \in Nodes : u[m] = UnderAt(t, u, m)
           /\ \A n : LeavesUnder(t, n) = IF n = None THEN {} ELSE u[n]
  <1> DEFINE V == SUBSET Leaves
             K == Downwards(t)
             F == [m \in Nodes |-> [f \in Maps(V) |-> UnderAt(t, f, m)]]
  <1>1. ASSUME NEW m \in Nodes, NEW f \in Maps(V) PROVE UnderAt(t, f, m) \in V
    <2>1. m \notin Leaves => m \in Splits
      BY Constants
    <2>2. Inner(t, m) => t.split[m].first \in Nodes /\ t.split[m].second \in Nodes
      BY KidsOf DEF Inner
    <2> QED
      BY <2>1, <2>2 DEF UnderAt, Maps, Inner
  <1>2. ASSUME NEW m \in Nodes, NEW f \in Maps(V), NEW g \in Maps(V), \A k \in K[m] : f[k] = g[k]
        PROVE  UnderAt(t, f, m) = UnderAt(t, g, m)
    <2>1. m \notin Leaves => m \in Splits
      BY Constants
    <2>2. Inner(t, m) => K[m] = {t.split[m].first, t.split[m].second}
      BY DEF Downwards
    <2> QED
      BY <1>2, <2>1, <2>2 DEF UnderAt, Inner
  <1>3. F \in [Nodes -> [Maps(V) -> V]]
    BY <1>1
  <1>4. \A m \in Nodes : \A f \in Maps(V) : F[m][f] = UnderAt(t, f, m)
    OBVIOUS
  <1>5. K \in [Nodes -> SUBSET Nodes]
        /\ \A S \in SUBSET Nodes : S # {} => \E n \in S : K[n] \cap S = {}
    BY DownwardsIs
  <1>6. V # {}
    OBVIOUS
  <1> HIDE DEF F, K, V
  <1>7. LooksAt(K, V, F)
    BY <1>2, <1>3, <1>4, <1>5 DEF LooksAt
  <1>8. PICK u \in Maps(V) : Solves(F, u, Nodes)
    BY <1>5, <1>6, <1>7, Solution
  <1>9. \A m \in Nodes : u[m] = UnderAt(t, u, m)
    BY <1>4, <1>8 DEF Solves
  <1>10. u = [m \in Nodes |-> UnderAt(t, u, m)]
    BY <1>9 DEF Maps
  <1> DEFINE c == CHOOSE v : v = [m \in Nodes |-> UnderAt(t, v, m)]
  <1>11. c = [m \in Nodes |-> UnderAt(t, c, m)]
    BY <1>10
  <1> HIDE DEF c
  <1>12. \A n : LeavesUnder(t, n) = IF n = None THEN {} ELSE c[n]
    BY DEF LeavesUnder, UnderAt, c
  <1>13. \A m \in Nodes : c[m] = UnderAt(t, c, m)
    BY <1>11
  <1>14. \A m \in Nodes : c[m] \in V
    <2> DEFINE S == {m \in Nodes : c[m] \notin V}
    <2>1. SUFFICES ASSUME S # {} PROVE FALSE
      OBVIOUS
    <2>2. PICK m \in S : \A k \in S : t.parent[k] # m
      BY <2>1, BottomUp
    <2>3. m \in Nodes /\ m \notin Leaves => m \in Splits
      BY Constants
    <2>4. Inner(t, m) => /\ t.split[m].first \in Nodes /\ t.split[m].second \in Nodes
                         /\ t.parent[t.split[m].first] = m /\ t.parent[t.split[m].second] = m
      BY KidsOf DEF Inner
    <2>5. Inner(t, m) => c[t.split[m].first] \in V /\ c[t.split[m].second] \in V
      BY <2>2, <2>4
    <2>6. UnderAt(t, c, m) \in V
      BY <2>3, <2>5 DEF UnderAt, Inner, V
    <2> QED
      BY <1>13, <2>6
  <1>15. c \in Maps(SUBSET Leaves)
    BY <1>11, <1>14 DEF Maps, V
  <1> QED
    BY <1>12, <1>13, <1>15

\* A leaf holds itself, a split what its two nodes hold, and anything else none.
LEMMA UnderStep ==
  ASSUME NEW t, NEW W, Forest(t, W)
  PROVE  /\ \A n \in Nodes : LeavesUnder(t, n) \in SUBSET Leaves
         /\ \A l \in Leaves : LeavesUnder(t, l) = {l}
         /\ \A s \in Splits : t.split[s] = None => LeavesUnder(t, s) = {}
         /\ \A s \in Splits : t.split[s] # None =>
              LeavesUnder(t, s) = LeavesUnder(t, t.split[s].first)
                                    \cup LeavesUnder(t, t.split[s].second)
         /\ LeavesUnder(t, None) = {}
  <1>1. PICK u \in Maps(SUBSET Leaves) :
           /\ \A m \in Nodes : u[m] = UnderAt(t, u, m)
           /\ \A n : LeavesUnder(t, n) = IF n = None THEN {} ELSE u[n]
    BY UnderIs
  <1>2. LeavesUnder(t, None) = {} /\ \A n \in Nodes : LeavesUnder(t, n) = u[n]
    BY <1>1, Constants
  <1>3. \A s \in Splits : s \in Nodes /\ s \notin Leaves
    BY Constants
  <1>4. \A l \in Leaves : l \in Nodes
    BY Constants
  <1>5. \A s \in Splits : t.split[s] # None =>
              t.split[s].first \in Nodes /\ t.split[s].second \in Nodes
    BY ForestFacts
  <1>6. \A n \in Nodes : u[n] \in SUBSET Leaves
    BY <1>1 DEF Maps
  <1>7. \A n \in Nodes : LeavesUnder(t, n) \in SUBSET Leaves
    BY <1>2, <1>6
  <1>8. \A l \in Leaves : LeavesUnder(t, l) = {l}
    BY <1>1, <1>2, <1>4 DEF UnderAt
  <1>9. \A s \in Splits : t.split[s] = None => LeavesUnder(t, s) = {}
    BY <1>1, <1>2, <1>3 DEF UnderAt
  <1>10. ASSUME NEW s \in Splits, t.split[s] # None
         PROVE  LeavesUnder(t, s) = LeavesUnder(t, t.split[s].first)
                                      \cup LeavesUnder(t, t.split[s].second)
    <2>1. u[s] = u[t.split[s].first] \cup u[t.split[s].second]
      BY <1>1, <1>3, <1>10 DEF UnderAt
    <2> QED
      BY <1>2, <1>3, <1>5, <1>10, <2>1
  <1> QED
    BY <1>2, <1>7, <1>8, <1>9, <1>10

\* What is under a node of a tree is in that tree, and there is something.
LEMMA UnderWithin ==
  ASSUME NEW t, NEW W, Forest(t, W), NEW n \in Nodes, W[n] # None
  PROVE  /\ LeavesUnder(t, n) # {}
         /\ \A l \in LeavesUnder(t, n) : W[l] = W[n]
  <1> DEFINE Good(m) == LeavesUnder(t, m) # {} /\ \A l \in LeavesUnder(t, m) : W[l] = W[m]
             S == {m \in Nodes : W[m] # None /\ ~Good(m)}
  <1>1. SUFFICES ASSUME ~Good(n) PROVE FALSE
    OBVIOUS
  <1>2. PICK m \in S : \A k \in S : t.parent[k] # m
    <2> HIDE DEF Good
    <2>1. n \in S
      BY <1>1
    <2>2. S \in SUBSET Nodes /\ S # {}
      BY <2>1
    <2> HIDE DEF S
    <2> QED
      BY <2>2, BottomUp
  <1>3. m \in Nodes /\ W[m] # None
    OBVIOUS
  <1>4. CASE m \in Leaves
    <2>1. LeavesUnder(t, m) = {m}
      BY <1>4, UnderStep
    <2>2. Good(m)
      BY <2>1
    <2> QED
      BY <2>2
  <1>5. CASE m \in Splits
    <2>1. t.split[m] # None
      BY <1>3, <1>5, ForestFacts
    <2> DEFINE a == t.split[m].first
               b == t.split[m].second
    <2>2. /\ a \in Nodes /\ b \in Nodes /\ t.parent[a] = m /\ t.parent[b] = m
          /\ W[a] = W[m] /\ W[b] = W[m]
      BY <1>5, <2>1, KidsOf
    <2>3. LeavesUnder(t, m) = LeavesUnder(t, a) \cup LeavesUnder(t, b)
      BY <1>5, <2>1, UnderStep
    <2>4. a \notin S /\ b \notin S
      BY <1>2, <2>2
    <2> HIDE DEF a, b
    <2>5. Good(a) /\ Good(b)
      BY <1>3, <2>2, <2>4
    <2>6. Good(m)
      BY <2>2, <2>3, <2>5
    <2> QED
      BY <2>6
  <1> QED
    BY <1>3, <1>4, <1>5, Constants

\* Every leaf of a tree is under its root.
LEMMA UnderRoot ==
  ASSUME NEW t, NEW W, Forest(t, W), NEW w \in Workspaces
  PROVE  LeavesUnder(t, t.root[w]) = {l \in Leaves : W[l] = w}
  <1>0. w # None /\ None \notin Nodes
    BY Constants
  <1>1. ASSUME NEW l \in Leaves, W[l] = w
        PROVE  t.root[w] \in Nodes /\ l \in LeavesUnder(t, t.root[w])
    <2> DEFINE S == {n \in Nodes : l \in LeavesUnder(t, n)}
    <2>1. l \in S
      BY UnderStep, Constants
    <2>2. PICK n \in S : t.parent[n] \notin S
      BY <2>1, TopDown
    <2>3. n \in Nodes /\ l \in LeavesUnder(t, n)
      OBVIOUS
    <2>4. W[n] # None
      <3>1. n \in Splits => W[n] # None
        BY <2>3, UnderStep, ForestFacts
      <3>2. n \in Leaves => n = l
        BY <2>3, UnderStep
      <3> QED
        BY <1>0, <1>1, <2>3, <3>1, <3>2, Constants
    <2>5. W[n] = w
      BY <1>1, <2>3, <2>4, UnderWithin
    <2>6. t.parent[n] = None
      <3> SUFFICES ASSUME t.parent[n] # None PROVE FALSE
        OBVIOUS
      <3> DEFINE p == t.parent[n]
      <3>1. p \in Splits /\ t.split[p] # None /\ n \in {t.split[p].first, t.split[p].second}
        BY <2>3, ForestFacts DEF Kids
      <3>2. p \in Nodes
        BY <3>1, Constants
      <3>3. l \in LeavesUnder(t, p)
        BY <2>3, <3>1, UnderStep
      <3> QED
        BY <2>2, <3>2, <3>3
    <2>7. t.root[w] = n
      BY <1>0, <2>3, <2>5, <2>6, ForestFacts
    <2> QED
      BY <2>3, <2>7
  <1>2. CASE t.root[w] = None
    <2>1. LeavesUnder(t, t.root[w]) = {}
      BY <1>2, UnderStep
    <2> QED
      BY <1>0, <1>1, <1>2, <2>1
  <1>3. CASE t.root[w] # None
    <2>1. t.root[w] \in Nodes /\ W[t.root[w]] = w
      BY <1>3, ForestFacts
    <2>2. LeavesUnder(t, t.root[w]) \in SUBSET Leaves
      BY <2>1, UnderStep
    <2>3. \A l \in LeavesUnder(t, t.root[w]) : W[l] = w
      BY <1>0, <2>1, UnderWithin
    <2> QED
      BY <1>1, <2>2, <2>3
  <1> QED
    BY <1>2, <1>3

\* A workspace has a root when its tree has a leaf, and only then.
LEMMA Rooted ==
  ASSUME NEW t, NEW W, Forest(t, W), NEW w \in Workspaces
  PROVE  t.root[w] # None <=> \E l \in Leaves : W[l] = w
  <1>1. LeavesUnder(t, t.root[w]) = {l \in Leaves : W[l] = w}
    BY UnderRoot
  <1>2. t.root[w] = None => LeavesUnder(t, t.root[w]) = {}
    BY UnderStep
  <1>3. t.root[w] # None => LeavesUnder(t, t.root[w]) # {}
    <2>1. t.root[w] # None => t.root[w] \in Nodes /\ W[t.root[w]] = w /\ w # None
      BY ForestFacts, Constants
    <2> QED
      BY <2>1, UnderWithin
  <1> QED
    BY <1>1, <1>2, <1>3

-----------------------------------------------------------------------------
(* How many splits there are.                                              *)

\* The splits, leaves and trees in use.
SplitsIn(W) == {s \in Splits : W[s] # None}
LeavesIn(W) == {l \in Leaves : W[l] # None}
WorkspacesIn(W) == {w \in Workspaces : \E l \in Leaves : W[l] = w}

\* As many splits and trees as leaves.
Counted(W) ==
    Cardinality(SplitsIn(W)) + Cardinality(WorkspacesIn(W)) = Cardinality(LeavesIn(W))

LEMMA FiniteParts ==
  ASSUME NEW W
  PROVE  /\ IsFiniteSet(SplitsIn(W)) /\ Cardinality(SplitsIn(W)) \in Nat
         /\ IsFiniteSet(LeavesIn(W)) /\ Cardinality(LeavesIn(W)) \in Nat
         /\ IsFiniteSet(WorkspacesIn(W)) /\ Cardinality(WorkspacesIn(W)) \in Nat
  <1>1. /\ SplitsIn(W) \in SUBSET Splits /\ LeavesIn(W) \in SUBSET Leaves
        /\ WorkspacesIn(W) \in SUBSET Workspaces
    BY DEF SplitsIn, LeavesIn, WorkspacesIn
  <1>2. IsFiniteSet(Splits) /\ IsFiniteSet(Leaves) /\ IsFiniteSet(Workspaces)
    BY Constants, LayoutAssumption
  <1>3. IsFiniteSet(SplitsIn(W)) /\ IsFiniteSet(LeavesIn(W)) /\ IsFiniteSet(WorkspacesIn(W))
    BY <1>1, <1>2, FS_Subset
  <1> QED
    BY <1>3, FS_CardinalityType

\* Attaching adds a leaf and a split, planting a leaf and a tree.
LEMMA AttachedCounted ==
  ASSUME NEW W, W \in [Nodes -> Workspaces \cup {None}], Counted(W),
         NEW w \in Workspaces, NEW s \in Splits, W[s] = None,
         NEW a \in Leaves, W[a] = w, NEW n \in Leaves, W[n] = None
  PROVE  Counted(Grown(W, s, n, w))
  <1> DEFINE X == Grown(W, s, n, w)
  <1>1. w # None /\ s \in Nodes /\ n \in Nodes /\ a # n
        /\ Leaves \subseteq Nodes /\ Splits \subseteq Nodes /\ s \notin Leaves /\ n \notin Splits
    BY Constants
  <1>2. X[s] = w /\ X[n] = w /\ \A m \in Nodes \ {s, n} : X[m] = W[m]
    BY <1>1 DEF Grown
  <1> HIDE DEF X
  <1>3. SplitsIn(X) = SplitsIn(W) \cup {s} /\ s \notin SplitsIn(W)
    BY <1>1, <1>2 DEF SplitsIn
  <1>4. LeavesIn(X) = LeavesIn(W) \cup {n} /\ n \notin LeavesIn(W)
    BY <1>1, <1>2 DEF LeavesIn
  <1>5. WorkspacesIn(X) = WorkspacesIn(W)
    <2>1. \A l \in Leaves \ {n} : X[l] = W[l]
      BY <1>1, <1>2
    <2>2. \A v \in Workspaces : (\E l \in Leaves : X[l] = v) <=> (\E l \in Leaves : W[l] = v)
      <3> TAKE v \in Workspaces
      <3>1. v # None
        BY Constants
      <3>2. ASSUME NEW l \in Leaves, X[l] = v PROVE \E k \in Leaves : W[k] = v
        BY <1>2, <2>1, <3>2
      <3>3. ASSUME NEW l \in Leaves, W[l] = v PROVE \E k \in Leaves : X[k] = v
        BY <2>1, <3>1, <3>3
      <3> QED
        BY <3>2, <3>3
    <2> QED
      BY <2>2 DEF WorkspacesIn
  <1>6. Cardinality(SplitsIn(X)) = Cardinality(SplitsIn(W)) + 1
        /\ Cardinality(LeavesIn(X)) = Cardinality(LeavesIn(W)) + 1
    BY <1>3, <1>4, FiniteParts, FS_AddElement
  <1> QED
    BY <1>5, <1>6, FiniteParts DEF Counted, X

LEMMA PlantedCounted ==
  ASSUME NEW W, W \in [Nodes -> Workspaces \cup {None}], Counted(W),
         NEW w \in Workspaces, \A l \in Leaves : W[l] # w,
         NEW n \in Leaves, W[n] = None
  PROVE  Counted(Grown(W, n, n, w))
  <1> DEFINE X == Grown(W, n, n, w)
  <1>1. w # None /\ n \in Nodes /\ Leaves \subseteq Nodes /\ Splits \subseteq Nodes
        /\ n \notin Splits
    BY Constants
  <1>2. X[n] = w /\ \A m \in Nodes \ {n} : X[m] = W[m]
    BY <1>1 DEF Grown
  <1> HIDE DEF X
  <1>3. SplitsIn(X) = SplitsIn(W)
    BY <1>1, <1>2 DEF SplitsIn
  <1>4. LeavesIn(X) = LeavesIn(W) \cup {n} /\ n \notin LeavesIn(W)
    BY <1>1, <1>2 DEF LeavesIn
  <1>5. WorkspacesIn(X) = WorkspacesIn(W) \cup {w} /\ w \notin WorkspacesIn(W)
    <2>1. \A l \in Leaves \ {n} : X[l] = W[l]
      BY <1>1, <1>2
    <2>2. \A v \in Workspaces : (\E l \in Leaves : X[l] = v) <=>
                                  (v = w \/ \E l \in Leaves : W[l] = v)
      <3> TAKE v \in Workspaces
      <3>1. v # None
        BY Constants
      <3>2. ASSUME NEW l \in Leaves, X[l] = v PROVE v = w \/ \E k \in Leaves : W[k] = v
        BY <1>2, <2>1, <3>2
      <3>3. ASSUME NEW l \in Leaves, W[l] = v PROVE \E k \in Leaves : X[k] = v
        BY <2>1, <3>1, <3>3
      <3> QED
        BY <1>2, <3>2, <3>3
    <2> QED
      BY <2>2 DEF WorkspacesIn
  <1>6. Cardinality(WorkspacesIn(X)) = Cardinality(WorkspacesIn(W)) + 1
        /\ Cardinality(LeavesIn(X)) = Cardinality(LeavesIn(W)) + 1
    BY <1>4, <1>5, FiniteParts, FS_AddElement
  <1> QED
    BY <1>3, <1>6, FiniteParts DEF Counted, X

\* The tree of which n was the only leaf is no more.
LEMMA UprootedCounted ==
  ASSUME NEW W, W \in [Nodes -> Workspaces \cup {None}], Counted(W),
         NEW n \in Leaves, W[n] # None, \A l \in Leaves \ {n} : W[l] # W[n]
  PROVE  Counted(Pruned(W, n, None))
  <1> DEFINE X == Pruned(W, n, None)
             w == W[n]
  <1>1. w \in Workspaces /\ w # None /\ n \in Nodes /\ n \notin Splits /\ None \notin Nodes
        /\ Leaves \subseteq Nodes /\ Splits \subseteq Nodes
    BY Constants
  <1>2. X[n] = None /\ \A m \in Nodes \ {n} : X[m] = W[m]
    BY <1>1 DEF Pruned
  <1> HIDE DEF X
  <1>3. SplitsIn(X) = SplitsIn(W)
    BY <1>1, <1>2 DEF SplitsIn
  <1>4. LeavesIn(X) = LeavesIn(W) \ {n} /\ n \in LeavesIn(W)
    BY <1>1, <1>2 DEF LeavesIn
  <1>5. WorkspacesIn(X) = WorkspacesIn(W) \ {w} /\ w \in WorkspacesIn(W)
    <2>1. \A l \in Leaves \ {n} : X[l] = W[l]
      BY <1>1, <1>2
    <2>2. \A v \in Workspaces : (\E l \in Leaves : X[l] = v) <=>
                                  (v # w /\ \E l \in Leaves : W[l] = v)
      <3> TAKE v \in Workspaces
      <3>1. v # None
        BY Constants
      <3>2. ASSUME NEW l \in Leaves, X[l] = v PROVE v # w /\ \E k \in Leaves : W[k] = v
        BY <1>2, <2>1, <3>1, <3>2
      <3>3. ASSUME NEW l \in Leaves, W[l] = v, v # w PROVE \E k \in Leaves : X[k] = v
        BY <2>1, <3>3
      <3> QED
        BY <3>2, <3>3
    <2>3. \E l \in Leaves : W[l] = w
      OBVIOUS
    <2> QED
      BY <1>1, <2>2, <2>3 DEF WorkspacesIn
  <1>6. Cardinality(WorkspacesIn(X)) = Cardinality(WorkspacesIn(W)) - 1
        /\ Cardinality(LeavesIn(X)) = Cardinality(LeavesIn(W)) - 1
    <2>1. IsFiniteSet(WorkspacesIn(W)) /\ IsFiniteSet(LeavesIn(W))
      BY FiniteParts
    <2>2. Cardinality(WorkspacesIn(W) \ {w}) = Cardinality(WorkspacesIn(W)) - 1
      BY <1>5, <2>1, FS_RemoveElement
    <2>3. Cardinality(LeavesIn(W) \ {n}) = Cardinality(LeavesIn(W)) - 1
      BY <1>4, <2>1, FS_RemoveElement
    <2> QED
      BY <1>4, <1>5, <2>2, <2>3
  <1> QED
    BY <1>3, <1>6, FiniteParts DEF Counted, X

\* Detaching takes a leaf and a split away, or a leaf and a tree.
LEMMA PrunedCounted ==
  ASSUME NEW W, W \in [Nodes -> Workspaces \cup {None}], Counted(W),
         NEW n \in Leaves, W[n] # None, NEW p \in Splits, W[p] # None,
         NEW k \in Leaves, k # n, W[k] = W[n]
  PROVE  Counted(Pruned(W, n, p))
  <1> DEFINE X == Pruned(W, n, p)
             w == W[n]
  <1>1. w # None /\ n \in Nodes /\ n \notin Splits /\ p \in Nodes /\ p \notin Leaves
        /\ Leaves \subseteq Nodes /\ Splits \subseteq Nodes
    BY Constants
  <1>2. X[n] = None /\ X[p] = None /\ \A m \in Nodes \ {n, p} : X[m] = W[m]
    BY <1>1 DEF Pruned
  <1> HIDE DEF X
  <1>3. SplitsIn(X) = SplitsIn(W) \ {p} /\ p \in SplitsIn(W)
    BY <1>1, <1>2 DEF SplitsIn
  <1>4. LeavesIn(X) = LeavesIn(W) \ {n} /\ n \in LeavesIn(W)
    BY <1>1, <1>2 DEF LeavesIn
  <1>5. WorkspacesIn(X) = WorkspacesIn(W)
    <2>1. \A l \in Leaves \ {n} : X[l] = W[l]
      BY <1>1, <1>2
    <2>2. \A v \in Workspaces : (\E l \in Leaves : X[l] = v) <=> (\E l \in Leaves : W[l] = v)
      <3> TAKE v \in Workspaces
      <3>1. v # None
        BY Constants
      <3>2. ASSUME NEW l \in Leaves, X[l] = v PROVE \E m \in Leaves : W[m] = v
        BY <1>2, <2>1, <3>1, <3>2
      <3>3. ASSUME NEW l \in Leaves, W[l] = v PROVE \E m \in Leaves : X[m] = v
        BY <2>1, <3>3
      <3> QED
        BY <3>2, <3>3
    <2> QED
      BY <2>2 DEF WorkspacesIn
  <1>6. Cardinality(SplitsIn(X)) = Cardinality(SplitsIn(W)) - 1
        /\ Cardinality(LeavesIn(X)) = Cardinality(LeavesIn(W)) - 1
    <2>1. IsFiniteSet(SplitsIn(W)) /\ IsFiniteSet(LeavesIn(W))
      BY FiniteParts
    <2>2. Cardinality(SplitsIn(W) \ {p}) = Cardinality(SplitsIn(W)) - 1
      BY <1>3, <2>1, FS_RemoveElement
    <2>3. Cardinality(LeavesIn(W) \ {n}) = Cardinality(LeavesIn(W)) - 1
      BY <1>4, <2>1, FS_RemoveElement
    <2> QED
      BY <1>3, <1>4, <2>2, <2>3
  <1> QED
    BY <1>5, <1>6, FiniteParts DEF Counted, X

\* The other node of a split is in the same tree, and so is another leaf.
LEMMA OtherLeaf ==
  ASSUME NEW t, NEW W, Forest(t, W), NEW n \in Leaves, W[n] # None
  PROVE  t.parent[n] = None <=> \A l \in Leaves \ {n} : W[l] # W[n]
  <1>0. n \in Nodes
    BY Constants
  <1>1. ASSUME t.parent[n] # None PROVE \E l \in Leaves \ {n} : W[l] = W[n]
    <2> DEFINE p == t.parent[n]
               b == Sibling(t, n)
               r == Detached(t, W[n], n)
    <2>1. Forest(r, Pruned(W, n, p))
      BY DetachedForest
    <2>2. b \in Nodes /\ b # n /\ b # p /\ t.parent[b] = p
      BY <1>0, <1>1, SiblingIs
    <2>3. W[b] = W[n]
      BY <1>0, <1>1, <2>2, ForestFacts
    <2> DEFINE X == Pruned(W, n, p)
    <2>4. X[b] = W[b] /\ X[n] = None
      BY <1>0, <2>2 DEF Pruned
    <2> HIDE DEF b, r, X, p
    <2>5. Forest(r, X)
      BY <2>1 DEF X
    <2>6. LeavesUnder(r, b) # {} /\ \A l \in LeavesUnder(r, b) : X[l] = X[b]
      BY <1>0, <2>2, <2>3, <2>4, <2>5, UnderWithin
    <2>7. LeavesUnder(r, b) \in SUBSET Leaves
      BY <2>2, <2>5, UnderStep
    <2>8. PICK l \in Leaves : X[l] = W[n]
      BY <2>3, <2>4, <2>6, <2>7
    <2>9. l # n /\ l \in Nodes
      BY <2>4, <2>8, Constants
    <2>10. W[l] = W[n]
      BY <2>8, <2>9 DEF X, Pruned
    <2> QED
      BY <2>9, <2>10
  <1>2. ASSUME t.parent[n] = None, NEW l \in Leaves \ {n}, W[l] = W[n] PROVE FALSE
    <2>1. t.root[W[n]] = n /\ W[n] \in Workspaces
      BY <1>0, <1>2, ForestFacts
    <2>2. LeavesUnder(t, n) = {n}
      BY UnderStep
    <2>3. l \in LeavesUnder(t, n)
      BY <1>2, <2>1, UnderRoot
    <2> QED
      BY <2>2, <2>3
  <1> QED
    BY <1>1, <1>2

LEMMA DetachedCounted ==
  ASSUME NEW t, NEW W, Forest(t, W), Counted(W), NEW n \in Leaves, W[n] # None
  PROVE  Counted(Pruned(W, n, t.parent[n]))
  <1>0. W \in [Nodes -> Workspaces \cup {None}] /\ n \in Nodes
    BY ForestFacts, Constants
  <1>1. CASE t.parent[n] = None
    <2>1. \A l \in Leaves \ {n} : W[l] # W[n]
      BY <1>1, OtherLeaf
    <2> QED
      BY <1>0, <1>1, <2>1, UprootedCounted
  <1>2. CASE t.parent[n] # None
    <2>1. PICK k \in Leaves : k # n /\ W[k] = W[n]
      BY <1>2, OtherLeaf
    <2>2. t.parent[n] \in Splits /\ W[t.parent[n]] # None
      BY <1>0, <1>2, ForestFacts
    <2> QED
      BY <1>0, <2>1, <2>2, PrunedCounted
  <1> QED
    BY <1>1, <1>2

-----------------------------------------------------------------------------
(* The state.                                                              *)

Boxes == [x : Int, y : Int, w : Int, h : Int]

TileTypes(tl, of, ls, hm) ==
    /\ tl \in [Leaves -> Groups \cup {None}]
    /\ of \in [Groups -> Leaves \cup {None}]
    /\ ls \in [Workspaces -> Seq(Leaves)]
    /\ hm \in [Groups -> Workspaces \cup {None}]

ScreenTypes ==
    /\ active \in [Workspaces -> Groups \cup {None}]
    /\ visible \in Workspaces /\ bar \in Bars /\ gap \in Gaps
    /\ drag \in BorderRecord \cup {None}

\* A tiled group and its tile point at each other.
Matched(tl, of, hm) ==
    /\ \A l \in Leaves : tl[l] # None => of[tl[l]] = l
    /\ \A g \in Groups : of[g] # None => tl[of[g]] = g /\ hm[g] # None

\* The workspace of the leaf l.
Place(tl, hm, l) == IF tl[l] = None THEN None ELSE hm[tl[l]]

\* The leaves in use are the tiles of the groups of each workspace.
Hung(t, W, tl, hm) ==
    /\ Forest(t, W)
    /\ Counted(W)
    /\ \A l \in Leaves : W[l] = Place(tl, hm, l)

\* Each list of tiles has those of its workspace, each once.
Listed(ls, tl, hm) ==
    \A w \in Workspaces :
        /\ ToSet(ls[w]) = {l \in Leaves : Place(tl, hm, l) = w}
        /\ IsInjective(ls[w])

\* The active group of a workspace is one of its groups.
ActiveHome == \A w \in Workspaces : active[w] # None => home[active[w]] = w

TilesOK(t, tl, of, ls, hm) ==
    /\ TileTypes(tl, of, ls, hm)
    /\ Matched(tl, of, hm)
    /\ \E W : Hung(t, W, tl, hm)
    /\ Listed(ls, tl, hm)

IInv ==
    /\ TilesOK(tree, tile, tileOf, list, home)
    /\ ScreenTypes
    /\ ActiveHome

\* What TreesSound says is said of some labelling.
LEMMA TreesSoundFrom == TilesOK(tree, tile, tileOf, list, home) => TreesSound
  <1> SUFFICES ASSUME TilesOK(tree, tile, tileOf, list, home) PROVE TreesSound
    OBVIOUS
  <1>1. PICK W : Hung(tree, W, tile, home)
    BY DEF TilesOK
  <1>2. Forest(tree, W)
    BY <1>1 DEF Hung
  <1>3. \A l \in Leaves : W[l] = IF tile[l] = None THEN None ELSE home[tile[l]]
    BY <1>1 DEF Hung, Place
  <1>4. /\ TileTypes(tile, tileOf, list, home) /\ Matched(tile, tileOf, home)
        /\ Listed(list, tile, home)
    BY DEF TilesOK
  <1>5. \A l \in Leaves : tile[l] # None <=> W[l] # None
    <2>1. \A l \in Leaves : tile[l] # None =>
             tile[l] \in Groups /\ tileOf[tile[l]] = l /\ l # None
      BY <1>4, Constants DEF TileTypes, Matched
    <2>2. \A g \in Groups : tileOf[g] # None => home[g] # None
      BY <1>4 DEF Matched
    <2> QED
      BY <1>3, <2>1, <2>2
  <1>6. \A n \in Nodes : n \in Used <=> W[n] # None
    <2>1. \A n \in Nodes : n \in Leaves \/ n \in Splits
      BY Constants
    <2>2. \A s \in Splits : s \notin Leaves
      BY Constants
    <2>3. \A s \in Splits : tree.split[s] # None <=> W[s] # None
      BY <1>2, ForestFacts
    <2> QED
      BY <1>5, <2>1, <2>2, <2>3 DEF Used
  <1>7. ASSUME NEW n \in Used
        PROVE  LET p == tree.parent[n] IN
               IF p = None THEN \E w \in Workspaces : tree.root[w] = n
               ELSE p \in Used /\ n \in {tree.split[p].first, tree.split[p].second}
    <2>1. n \in Nodes /\ W[n] # None
      BY <1>6, Constants DEF Used
    <2>2. W[n] \in Workspaces
      BY <1>2, <2>1, ForestFacts
    <2>3. CASE tree.parent[n] = None
      BY <1>2, <2>1, <2>2, <2>3, ForestFacts
    <2>4. CASE tree.parent[n] # None
      BY <1>2, <2>1, <2>4, ForestFacts DEF Kids, Used
    <2> QED
      BY <2>3, <2>4
  <1>8. ASSUME NEW s \in Splits \cap Used
        PROVE  /\ tree.split[s].first # tree.split[s].second
               /\ \A n \in {tree.split[s].first, tree.split[s].second} :
                    n \in Used /\ tree.parent[n] = s
    <2>1. tree.split[s] # None
      BY Constants DEF Used
    <2>2. tree.split[s].first # tree.split[s].second
      BY <1>2, <2>1, ForestFacts
    <2>3. \A k \in {tree.split[s].first, tree.split[s].second} :
            k \in Nodes /\ tree.parent[k] = s /\ W[k] # None
      BY <1>2, <2>1, KidsOf
    <2> QED
      BY <1>6, <2>2, <2>3
  <1>9. \A n \in Nodes \ Used : tree.parent[n] = None
    BY <1>2, <1>6, LooseNode
  <1>10. \A g \in Tiled : home[g] # None /\ tile[tileOf[g]] = g
    BY <1>4 DEF Tiled, Matched
  <1>11. \A l \in Leaves \cap Used : tileOf[tile[l]] = l
    BY <1>4, Constants DEF Used, Matched
  <1>12. ASSUME NEW w \in Workspaces
         PROVE  /\ LeavesUnder(tree, tree.root[w]) = {tileOf[g] : g \in {h \in Tiled : home[h] = w}}
                /\ ToSet(list[w]) = LeavesUnder(tree, tree.root[w])
                /\ IsInjective(list[w])
    <2>1. LeavesUnder(tree, tree.root[w]) = {l \in Leaves : W[l] = w}
      BY <1>2, UnderRoot
    <2>2. {l \in Leaves : W[l] = w} = {tileOf[g] : g \in {h \in Tiled : home[h] = w}}
      <3>1. ASSUME NEW l \in Leaves, W[l] = w
            PROVE  \E g \in Groups : tileOf[g] # None /\ home[g] = w /\ tileOf[g] = l
        <4>1. tile[l] # None /\ tile[l] \in Groups /\ home[tile[l]] = w
          BY <1>3, <1>4, <3>1, Constants DEF TileTypes
        <4>2. tileOf[tile[l]] = l /\ l # None
          BY <1>4, <4>1, Constants DEF Matched
        <4> QED
          BY <4>1, <4>2
      <3>2. ASSUME NEW g \in Groups, tileOf[g] # None, home[g] = w
            PROVE  tileOf[g] \in Leaves /\ W[tileOf[g]] = w
        <4>1. tileOf[g] \in Leaves /\ tile[tileOf[g]] = g
          BY <1>4, <3>2 DEF TileTypes, Matched
        <4> QED
          BY <1>3, <3>2, <4>1, Constants
      <3> QED
        BY <3>1, <3>2 DEF Tiled
    <2>3. ToSet(list[w]) = {l \in Leaves : W[l] = w} /\ IsInjective(list[w])
      BY <1>1, <1>4 DEF Listed, Hung
    <2> QED
      BY <2>1, <2>2, <2>3
  <1> QED
    BY <1>7, <1>8, <1>9, <1>10, <1>11, <1>12 DEF TreesSound

\* What the invariant says of each leaf and each group.
LEMMA TilesAre ==
  ASSUME NEW t, NEW W, NEW tl, NEW of, NEW ls, NEW hm,
         TileTypes(tl, of, ls, hm), Matched(tl, of, hm), Hung(t, W, tl, hm), Listed(ls, tl, hm)
  PROVE  /\ tl \in [Leaves -> Groups \cup {None}]
         /\ of \in [Groups -> Leaves \cup {None}]
         /\ ls \in [Workspaces -> Seq(Leaves)]
         /\ hm \in [Groups -> Workspaces \cup {None}]
         /\ W \in [Nodes -> Workspaces \cup {None}]
         /\ \A l \in Leaves : tl[l] # None =>
              tl[l] \in Groups /\ of[tl[l]] = l /\ hm[tl[l]] \in Workspaces
         /\ \A g \in Groups : of[g] # None =>
              of[g] \in Leaves /\ tl[of[g]] = g /\ hm[g] \in Workspaces /\ W[of[g]] = hm[g]
         /\ \A l \in Leaves : W[l] = IF tl[l] = None THEN None ELSE hm[tl[l]]
         /\ \A l \in Leaves : tl[l] = None <=> W[l] = None
         /\ \A w \in Workspaces :
              ToSet(ls[w]) = {l \in Leaves : W[l] = w} /\ IsInjective(ls[w])
  <1>1. /\ tl \in [Leaves -> Groups \cup {None}]
        /\ of \in [Groups -> Leaves \cup {None}]
        /\ ls \in [Workspaces -> Seq(Leaves)]
        /\ hm \in [Groups -> Workspaces \cup {None}]
    BY DEF TileTypes
  <1>2. W \in [Nodes -> Workspaces \cup {None}]
    BY DEF Hung, Forest
  <1>3. \A g \in Groups : of[g] # None =>
              of[g] \in Leaves /\ tl[of[g]] = g /\ hm[g] \in Workspaces
    BY <1>1 DEF Matched
  <1>4. \A l \in Leaves : tl[l] # None =>
              tl[l] \in Groups /\ of[tl[l]] = l /\ hm[tl[l]] \in Workspaces
    BY <1>1, <1>3, Constants DEF Matched
  <1>5. \A l \in Leaves : W[l] = IF tl[l] = None THEN None ELSE hm[tl[l]]
    BY DEF Hung, Place
  <1>6. \A l \in Leaves : tl[l] = None <=> W[l] = None
    BY <1>4, <1>5, Constants
  <1>7. \A g \in Groups : of[g] # None => W[of[g]] = hm[g]
    BY <1>3, <1>5, Constants
  <1>8. \A w \in Workspaces :
              ToSet(ls[w]) = {l \in Leaves : W[l] = w} /\ IsInjective(ls[w])
    BY DEF Listed, Hung
  <1> QED
    BY <1>1, <1>2, <1>3, <1>4, <1>5, <1>6, <1>7, <1>8

\* There are no more leaves in use than groups but those without a tile.
LEMMA LeavesTaken ==
  ASSUME NEW W, NEW tl, NEW of, NEW hm, NEW ls, NEW t,
         TileTypes(tl, of, ls, hm), Matched(tl, of, hm), Hung(t, W, tl, hm), Listed(ls, tl, hm),
         NEW S \in SUBSET Groups, \A g \in Groups : of[g] # None => g \in S
  PROVE  IsFiniteSet(S) /\ Cardinality(LeavesIn(W)) <= Cardinality(S)
  <1>1. IsFiniteSet(S)
    BY LayoutAssumption, FS_Subset
  <1>2. SUFFICES ASSUME Cardinality(S) < Cardinality(LeavesIn(W)) PROVE FALSE
    <2>1. Cardinality(S) \in Nat /\ Cardinality(LeavesIn(W)) \in Nat
      BY <1>1, FiniteParts, FS_CardinalityType
    <2> QED
      BY <1>1, <2>1
  <1> DEFINE f == [l \in LeavesIn(W) |-> tl[l]]
  <1>3. \A l \in LeavesIn(W) : l \in Leaves /\ tl[l] \in Groups /\ of[tl[l]] = l /\ tl[l] \in S
    <2> TAKE l \in LeavesIn(W)
    <2>1. l \in Leaves /\ tl[l] # None
      BY TilesAre DEF LeavesIn
    <2>2. tl[l] \in Groups /\ of[tl[l]] = l /\ l # None
      BY <2>1, TilesAre, Constants
    <2> QED
      BY <2>1, <2>2
  <1>4. f \in [LeavesIn(W) -> S]
    BY <1>3
  <1> HIDE DEF f
  <1>5. \E x, y \in LeavesIn(W) : x # y /\ f[x] = f[y]
    BY <1>1, <1>2, <1>4, FiniteParts, FS_PigeonHole
  <1> QED
    BY <1>3, <1>5 DEF f

\* The smaller of two sets lacks something of the larger.
LEMMA Fewer ==
  ASSUME NEW S, IsFiniteSet(S), NEW T \in SUBSET S, Cardinality(T) < Cardinality(S)
  PROVE  \E x \in S : x \notin T
  <1>1. SUFFICES ASSUME S = T PROVE FALSE
    OBVIOUS
  <1> QED
    BY <1>1, FS_CardinalityType

\* For a group without a tile there is a leaf.
LEMMA NewLeafIs ==
  ASSUME TilesOK(tree, tile, tileOf, list, home), NEW g \in Groups, tileOf[g] = None
  PROVE  NewLeaf \in Leaves /\ tile[NewLeaf] = None
  <1>1. PICK W : Hung(tree, W, tile, home)
    BY DEF TilesOK
  <1>2. /\ TileTypes(tile, tileOf, list, home) /\ Matched(tile, tileOf, home)
        /\ Listed(list, tile, home)
    BY DEF TilesOK
  <1>3. Cardinality(LeavesIn(W)) <= Cardinality(Groups \ {g})
    <2>1. Groups \ {g} \in SUBSET Groups /\ \A h \in Groups : tileOf[h] # None => h \in Groups \ {g}
      OBVIOUS
    <2> DEFINE S == Groups \ {g}
    <2> HIDE DEF S
    <2>2. S \in SUBSET Groups /\ \A h \in Groups : tileOf[h] # None => h \in S
      BY <2>1 DEF S
    <2>3. Cardinality(LeavesIn(W)) <= Cardinality(S)
      BY <1>1, <1>2, <2>2, LeavesTaken
    <2> QED
      BY <2>3 DEF S
  <1>4. /\ IsFiniteSet(Groups) /\ Cardinality(Groups) \in Nat
        /\ Cardinality(Groups \ {g}) = Cardinality(Groups) - 1
    BY LayoutAssumption, FS_CardinalityType, FS_RemoveElement
  <1>5. Cardinality(LeavesIn(W)) < Cardinality(Leaves)
    <2>1. Cardinality(Leaves) \in Nat /\ Cardinality(Groups) <= Cardinality(Leaves)
      BY Constants, LayoutAssumption, FS_CardinalityType
    <2> QED
      BY <1>3, <1>4, <2>1, FiniteParts
  <1>6. \E l \in Leaves : l \notin LeavesIn(W)
    <2>1. LeavesIn(W) \in SUBSET Leaves /\ IsFiniteSet(Leaves)
      BY Constants DEF LeavesIn
    <2> QED
      BY <1>5, <2>1, Fewer
  <1>7. \E l \in Leaves : tile[l] = None
    BY <1>1, <1>2, <1>6, TilesAre DEF LeavesIn
  <1> QED
    BY <1>7 DEF NewLeaf

\* While there is a tile there is a split to put above it.
LEMMA NewSplitIs ==
  ASSUME TilesOK(tree, tile, tileOf, list, home), NEW l \in Leaves, tile[l] # None
  PROVE  NewSplit \in Splits /\ tree.split[NewSplit] = None
  <1>1. PICK W : Hung(tree, W, tile, home)
    BY DEF TilesOK
  <1>2. /\ TileTypes(tile, tileOf, list, home) /\ Matched(tile, tileOf, home)
        /\ Listed(list, tile, home)
    BY DEF TilesOK
  <1>3. Cardinality(LeavesIn(W)) <= Cardinality(Groups)
    <2> DEFINE S == Groups
    <2>1. S \in SUBSET Groups /\ \A h \in Groups : tileOf[h] # None => h \in S
      OBVIOUS
    <2> HIDE DEF S
    <2>2. Cardinality(LeavesIn(W)) <= Cardinality(S)
      BY <1>1, <1>2, <2>1, LeavesTaken
    <2> QED
      BY <2>2 DEF S
  <1>4. Cardinality(WorkspacesIn(W)) > 0
    <2>1. W[l] \in Workspaces
      BY <1>1, <1>2, TilesAre
    <2>2. WorkspacesIn(W) # {}
      BY <2>1 DEF WorkspacesIn
    <2>3. Cardinality(WorkspacesIn(W)) # 0
      BY <2>2, FiniteParts, FS_EmptySet
    <2> QED
      BY <2>3, FiniteParts
  <1>5. Cardinality(SplitsIn(W)) < Cardinality(Splits)
    <2>1. /\ Cardinality(Groups) \in Nat /\ Cardinality(Splits) \in Nat
          /\ Cardinality(Groups) <= Cardinality(Splits)
      BY Constants, LayoutAssumption, FS_CardinalityType
    <2>2. Cardinality(SplitsIn(W)) + Cardinality(WorkspacesIn(W)) = Cardinality(LeavesIn(W))
      BY <1>1 DEF Hung, Counted
    <2> QED
      BY <1>3, <1>4, <2>1, <2>2, FiniteParts
  <1>6. \E s \in Splits : s \notin SplitsIn(W)
    <2>1. SplitsIn(W) \in SUBSET Splits /\ IsFiniteSet(Splits)
      BY Constants DEF SplitsIn
    <2> QED
      BY <1>5, <2>1, Fewer
  <1>7. Forest(tree, W)
    BY <1>1 DEF Hung
  <1>8. \E s \in Splits : tree.split[s] = None
    BY <1>6, <1>7, ForestFacts DEF SplitsIn
  <1> QED
    BY <1>8 DEF NewSplit

\* A group enters beside a tile of the workspace.
LEMMA AnchorIs ==
  ASSUME IInv, NEW W, Hung(tree, W, tile, home), NEW w \in Workspaces, tree.root[w] # None
  PROVE  Anchor(w) \in Leaves /\ W[Anchor(w)] = w /\ tile[Anchor(w)] # None
  <1>1. /\ TileTypes(tile, tileOf, list, home) /\ Matched(tile, tileOf, home)
        /\ Listed(list, tile, home)
    BY DEF IInv, TilesOK
  <1>2. w # None
    BY Constants
  <1>3. CASE active[w] # None /\ tileOf[active[w]] # None
    <2>1. active[w] \in Groups /\ home[active[w]] = w
      BY <1>3 DEF IInv, ScreenTypes, ActiveHome
    <2>2. Anchor(w) = tileOf[active[w]]
      BY <1>3 DEF Anchor
    <2> QED
      BY <1>1, <1>2, <1>3, <2>1, <2>2, TilesAre, Constants
  <1>4. CASE ~(active[w] # None /\ tileOf[active[w]] # None)
    <2>1. Anchor(w) = list[w][Len(list[w])]
      BY <1>4 DEF Anchor
    <2>2. PICK l \in Leaves : W[l] = w
      BY Rooted DEF Hung
    <2>3. list[w] \in Seq(Leaves) /\ ToSet(list[w]) = {k \in Leaves : W[k] = w}
      BY <1>1, TilesAre
    <2>4. l \in ToSet(list[w])
      BY <2>2, <2>3
    <2>5. Len(list[w]) \in 1..Len(list[w]) /\ DOMAIN list[w] = 1..Len(list[w])
      <3>1. Len(list[w]) \in Nat /\ DOMAIN list[w] = 1..Len(list[w])
        BY <2>3, LenProperties
      <3>2. DOMAIN list[w] # {}
        BY <2>4 DEF ToSet
      <3> QED
        BY <3>1, <3>2
    <2>6. list[w][Len(list[w])] \in ToSet(list[w])
      BY <2>5 DEF ToSet
    <2>7. Anchor(w) \in Leaves /\ W[Anchor(w)] = w
      BY <2>1, <2>3, <2>6
    <2> QED
      BY <1>1, <1>2, <2>7, TilesAre
  <1> QED
    BY <1>3, <1>4

-----------------------------------------------------------------------------
(* A group gets a tile, gives it up, or takes it to another workspace.     *)

\* What TilesOK says, with the workspace of each node.
Sound(t, W, tl, of, ls, hm) ==
    TileTypes(tl, of, ls, hm) /\ Matched(tl, of, hm) /\ Hung(t, W, tl, hm) /\ Listed(ls, tl, hm)

LEMMA SoundIs ==
  ASSUME NEW t, NEW tl, NEW of, NEW ls, NEW hm
  PROVE  TilesOK(t, tl, of, ls, hm) <=> \E W : Sound(t, W, tl, of, ls, hm)
  BY DEF TilesOK, Sound

\* What an action needs to know of sound tiles.
LEMMA SoundFacts ==
  ASSUME NEW t, NEW W, NEW tl, NEW of, NEW ls, NEW hm, Sound(t, W, tl, of, ls, hm)
  PROVE  /\ tl \in [Leaves -> Groups \cup {None}]
         /\ of \in [Groups -> Leaves \cup {None}]
         /\ ls \in [Workspaces -> Seq(Leaves)]
         /\ hm \in [Groups -> Workspaces \cup {None}]
         /\ W \in [Nodes -> Workspaces \cup {None}]
         /\ \A l \in Leaves : tl[l] # None =>
              tl[l] \in Groups /\ of[tl[l]] = l /\ hm[tl[l]] \in Workspaces
         /\ \A g \in Groups : of[g] # None =>
              of[g] \in Leaves /\ tl[of[g]] = g /\ hm[g] \in Workspaces /\ W[of[g]] = hm[g]
         /\ \A l \in Leaves : W[l] = IF tl[l] = None THEN None ELSE hm[tl[l]]
         /\ \A l \in Leaves : tl[l] = None <=> W[l] = None
         /\ \A w \in Workspaces :
              ToSet(ls[w]) = {l \in Leaves : W[l] = w} /\ IsInjective(ls[w])
  <1>1. TileTypes(tl, of, ls, hm) /\ Matched(tl, of, hm) /\ Hung(t, W, tl, hm) /\ Listed(ls, tl, hm)
    BY DEF Sound
  <1> QED
    BY <1>1, TilesAre

\* The leaf n, and no other, may be in another tree than before: that of w.
Hangs(W, r, X, n, w) ==
    /\ Forest(r, X) /\ Counted(X)
    /\ X[n] = w /\ \A l \in Leaves \ {n} : X[l] = W[l]

\* Only the group g may be of another workspace than before.
Rehomed(hm, hm2, g) ==
    /\ hm2 \in [Groups -> Workspaces \cup {None}]
    /\ \A h \in Groups \ {g} : hm2[h] = hm[h]

\* A group becomes the tile of a leaf that was hung on the tree.
LEMMA Entered ==
  ASSUME NEW t, NEW W, NEW tl, NEW of, NEW ls, NEW hm, Sound(t, W, tl, of, ls, hm),
         NEW g \in Groups, of[g] = None, NEW n \in Leaves, tl[n] = None, NEW w \in Workspaces,
         NEW r, NEW X, Hangs(W, r, X, n, w),
         NEW hm2, Rehomed(hm, hm2, g), hm2[g] = w
  PROVE  Sound(r, X, [tl EXCEPT ![n] = g], [of EXCEPT ![g] = n],
               [ls EXCEPT ![w] = Append(@, n)], hm2)
  <1> DEFINE tl2 == [tl EXCEPT ![n] = g]
             of2 == [of EXCEPT ![g] = n]
             ls2 == [ls EXCEPT ![w] = Append(@, n)]
  <1>h. /\ hm2 \in [Groups -> Workspaces \cup {None}]
        /\ \A h \in Groups \ {g} : hm2[h] = hm[h]
    BY DEF Rehomed
  <1>x. /\ Forest(r, X) /\ Counted(X) /\ X[n] = w
        /\ \A l \in Leaves \ {n} : X[l] = W[l]
    BY DEF Hangs
  <1>0. w # None /\ n # None /\ g # None
    BY Constants
  <1>1. /\ tl \in [Leaves -> Groups \cup {None}]
        /\ of \in [Groups -> Leaves \cup {None}]
        /\ ls \in [Workspaces -> Seq(Leaves)]
        /\ \A l \in Leaves : tl[l] # None =>
             tl[l] \in Groups /\ of[tl[l]] = l /\ hm[tl[l]] \in Workspaces
        /\ \A h \in Groups : of[h] # None =>
             of[h] \in Leaves /\ tl[of[h]] = h /\ hm[h] \in Workspaces
        /\ \A l \in Leaves : W[l] = IF tl[l] = None THEN None ELSE hm[tl[l]]
        /\ \A v \in Workspaces :
             ToSet(ls[v]) = {l \in Leaves : W[l] = v} /\ IsInjective(ls[v])
    BY SoundFacts
  <1>2. /\ tl2 \in [Leaves -> Groups \cup {None}] /\ tl2[n] = g
        /\ \A l \in Leaves \ {n} : tl2[l] = tl[l]
        /\ of2 \in [Groups -> Leaves \cup {None}] /\ of2[g] = n
        /\ \A h \in Groups \ {g} : of2[h] = of[h]
    BY <1>1
  <1>3. /\ ls2[w] = Append(ls[w], n) /\ \A v \in Workspaces \ {w} : ls2[v] = ls[v]
        /\ ls2 \in [Workspaces -> Seq(Leaves)]
    BY <1>1, AppendIs
  <1> HIDE DEF tl2, of2, ls2
  <1>4. TileTypes(tl2, of2, ls2, hm2)
    BY <1>2, <1>3, <1>h DEF TileTypes
  <1>5. Matched(tl2, of2, hm2)
    <2>1. ASSUME NEW l \in Leaves, tl2[l] # None PROVE of2[tl2[l]] = l
      <3>1. CASE l = n
        BY <1>2, <3>1
      <3>2. CASE l # n
        <4>1. tl2[l] = tl[l] /\ tl[l] \in Groups /\ of[tl[l]] = l /\ tl[l] # g
          BY <1>1, <1>2, <2>1, <3>2, Constants
        <4> QED
          BY <1>2, <4>1
      <3> QED
        BY <3>1, <3>2
    <2>2. ASSUME NEW h \in Groups, of2[h] # None PROVE tl2[of2[h]] = h /\ hm2[h] # None
      <3>1. CASE h = g
        BY <1>0, <1>2, <3>1
      <3>2. CASE h # g
        <4>1. /\ of2[h] = of[h] /\ of[h] \in Leaves /\ tl[of[h]] = h /\ hm[h] \in Workspaces
              /\ of[h] # n
          BY <1>1, <1>2, <2>2, <3>2, Constants
        <4> QED
          BY <1>2, <1>h, <3>2, <4>1, Constants
      <3> QED
        BY <3>1, <3>2
    <2> QED
      BY <2>1, <2>2 DEF Matched
  <1>6. Hung(r, X, tl2, hm2)
    <2>1. ASSUME NEW l \in Leaves PROVE X[l] = Place(tl2, hm2, l)
      <3>1. CASE l = n
        BY <1>0, <1>2, <3>1, <1>x DEF Place
      <3>2. CASE l # n
        <4>1. tl2[l] = tl[l] /\ (tl[l] # None => tl[l] \in Groups /\ tl[l] # g)
          BY <1>1, <1>2, <3>2, Constants
        <4> QED
          BY <1>1, <1>h, <3>2, <4>1, <1>x DEF Place
      <3> QED
        BY <3>1, <3>2
    <2> QED
      BY <1>x, <2>1 DEF Hung
  <1>7. Listed(ls2, tl2, hm2)
    <2> SUFFICES ASSUME NEW v \in Workspaces
                 PROVE  ToSet(ls2[v]) = {l \in Leaves : X[l] = v} /\ IsInjective(ls2[v])
      BY <1>6 DEF Listed, Hung
    <2>1. CASE v = w
      <3>1. {l \in Leaves : X[l] = w} = {l \in Leaves : W[l] = w} \cup {n}
        BY <1>x
      <3>2. n \notin ToSet(ls[w])
        BY <1>0, <1>1
      <3>3. ls[w] \in Seq(Leaves) /\ IsInjective(ls[w])
        BY <1>1
      <3>4. ToSet(Append(ls[w], n)) = ToSet(ls[w]) \cup {n} /\ IsInjective(Append(ls[w], n))
        BY <3>2, <3>3, AppendIs
      <3> QED
        BY <1>1, <1>3, <2>1, <3>1, <3>4
    <2>2. CASE v # w
      <3>1. {l \in Leaves : X[l] = v} = {l \in Leaves : W[l] = v}
        <4>1. W[n] # v
          BY <1>1, Constants
        <4> QED
          BY <1>x, <2>2, <4>1
      <3> QED
        BY <1>1, <1>3, <2>2, <3>1
    <2> QED
      BY <2>1, <2>2
  <1> QED
    BY <1>4, <1>5, <1>6, <1>7 DEF Sound, tl2, of2, ls2

\* A group stops being the tile of a leaf that was taken off.
LEMMA Left ==
  ASSUME NEW t, NEW W, NEW tl, NEW of, NEW ls, NEW hm, Sound(t, W, tl, of, ls, hm),
         NEW g \in Groups, NEW n \in Leaves, of[g] = n, NEW w \in Workspaces, hm[g] = w,
         NEW r, NEW X, Hangs(W, r, X, n, None), NEW hm2, Rehomed(hm, hm2, g)
  PROVE  Sound(r, X, [tl EXCEPT ![n] = None], [of EXCEPT ![g] = None],
               [ls EXCEPT ![w] = RemoveFirst(@, n)], hm2)
  <1> DEFINE tl2 == [tl EXCEPT ![n] = None]
             of2 == [of EXCEPT ![g] = None]
             ls2 == [ls EXCEPT ![w] = RemoveFirst(@, n)]
  <1>x. /\ Forest(r, X) /\ Counted(X) /\ X[n] = None
        /\ \A l \in Leaves \ {n} : X[l] = W[l]
    BY DEF Hangs
  <1>h. /\ hm2 \in [Groups -> Workspaces \cup {None}]
        /\ \A h \in Groups \ {g} : hm2[h] = hm[h]
    BY DEF Rehomed
  <1>0. w # None /\ n # None /\ g # None
    BY Constants
  <1>1. /\ tl \in [Leaves -> Groups \cup {None}]
        /\ of \in [Groups -> Leaves \cup {None}]
        /\ ls \in [Workspaces -> Seq(Leaves)]
        /\ \A l \in Leaves : tl[l] # None =>
             tl[l] \in Groups /\ of[tl[l]] = l /\ hm[tl[l]] \in Workspaces
        /\ \A h \in Groups : of[h] # None =>
             of[h] \in Leaves /\ tl[of[h]] = h /\ hm[h] \in Workspaces /\ W[of[h]] = hm[h]
        /\ \A l \in Leaves : W[l] = IF tl[l] = None THEN None ELSE hm[tl[l]]
        /\ \A v \in Workspaces :
             ToSet(ls[v]) = {l \in Leaves : W[l] = v} /\ IsInjective(ls[v])
    BY SoundFacts
  <1>2. /\ tl2 \in [Leaves -> Groups \cup {None}] /\ tl2[n] = None
        /\ \A l \in Leaves \ {n} : tl2[l] = tl[l]
        /\ of2 \in [Groups -> Leaves \cup {None}] /\ of2[g] = None
        /\ \A h \in Groups \ {g} : of2[h] = of[h]
    BY <1>1
  <1>3. /\ ls2[w] = RemoveFirst(ls[w], n) /\ \A v \in Workspaces \ {w} : ls2[v] = ls[v]
        /\ ls2 \in [Workspaces -> Seq(Leaves)]
    BY <1>1, RemoveFirstIs
  <1> HIDE DEF tl2, of2, ls2
  <1>4. TileTypes(tl2, of2, ls2, hm2)
    BY <1>2, <1>3, <1>h DEF TileTypes
  <1>n. tl[n] = g /\ W[n] = w
    BY <1>0, <1>1
  <1>5. Matched(tl2, of2, hm2)
    <2>1. ASSUME NEW l \in Leaves, tl2[l] # None PROVE of2[tl2[l]] = l
      <3>1. tl2[l] = tl[l] /\ tl[l] \in Groups /\ of[tl[l]] = l /\ tl[l] # g
        BY <1>1, <1>2, <2>1
      <3> QED
        BY <1>2, <3>1
    <2>2. ASSUME NEW h \in Groups, of2[h] # None PROVE tl2[of2[h]] = h /\ hm2[h] # None
      <3>1. h # g /\ of2[h] = of[h] /\ of[h] \in Leaves /\ tl[of[h]] = h /\ hm[h] \in Workspaces
        BY <1>1, <1>2, <2>2
      <3>2. of[h] # n
        BY <1>n, <3>1
      <3> QED
        BY <1>2, <1>h, <3>1, <3>2, Constants
    <2> QED
      BY <2>1, <2>2 DEF Matched
  <1>6. Hung(r, X, tl2, hm2)
    <2>1. ASSUME NEW l \in Leaves PROVE X[l] = Place(tl2, hm2, l)
      <3>1. CASE l = n
        BY <1>0, <1>2, <3>1, <1>h, <1>x DEF Place
      <3>2. CASE l # n
        <4>1. tl2[l] = tl[l] /\ (tl[l] # None => tl[l] \in Groups /\ tl[l] # g)
          BY <1>1, <1>2, <3>2, Constants
        <4> QED
          BY <1>1, <3>2, <4>1, <1>h, <1>x DEF Place
      <3> QED
        BY <3>1, <3>2
    <2> QED
      BY <1>x, <2>1 DEF Hung
  <1>7. Listed(ls2, tl2, hm2)
    <2> SUFFICES ASSUME NEW v \in Workspaces
                 PROVE  ToSet(ls2[v]) = {l \in Leaves : X[l] = v} /\ IsInjective(ls2[v])
      BY <1>6 DEF Listed, Hung
    <2>1. CASE v = w
      <3>0. \A l \in Leaves : X[l] = w <=> W[l] = w /\ l # n
        BY <1>0, <1>x
      <3>1. {l \in Leaves : X[l] = w} = {l \in Leaves : W[l] = w} \ {n}
        BY <3>0
      <3>2. ls[w] \in Seq(Leaves) /\ IsInjective(ls[w])
        BY <1>1
      <3>3. ToSet(RemoveFirst(ls[w], n)) = ToSet(ls[w]) \ {n} /\ IsInjective(RemoveFirst(ls[w], n))
        BY <3>2, RemoveFirstIs
      <3>4. ToSet(ls[w]) = {l \in Leaves : W[l] = w}
        BY <1>1
      <3>5. ToSet(ls2[w]) = {l \in Leaves : X[l] = w} /\ IsInjective(ls2[w])
        BY <1>3, <3>1, <3>3, <3>4
      <3> QED
        BY <2>1, <3>5
    <2>2. CASE v # w
      <3>1. {l \in Leaves : X[l] = v} = {l \in Leaves : W[l] = v}
        BY <1>x, <1>n, <2>2, Constants
      <3> QED
        BY <1>1, <1>3, <2>2, <3>1
    <2> QED
      BY <2>1, <2>2
  <1> QED
    BY <1>4, <1>5, <1>6, <1>7 DEF Sound, tl2, of2, ls2

\* A tile goes with its leaf to another workspace.
LEMMA Moved ==
  ASSUME NEW t, NEW W, NEW tl, NEW of, NEW ls, NEW hm, Sound(t, W, tl, of, ls, hm),
         NEW g \in Groups, NEW n \in Leaves, of[g] = n, NEW from \in Workspaces, hm[g] = from,
         NEW w \in Workspaces, w # from,
         NEW r, NEW X, Hangs(W, r, X, n, w)
  PROVE  Sound(r, X, tl, of, [ls EXCEPT ![from] = RemoveFirst(@, n), ![w] = Append(@, n)],
               [hm EXCEPT ![g] = w])
  <1> DEFINE ls2 == [ls EXCEPT ![from] = RemoveFirst(@, n), ![w] = Append(@, n)]
             hm2 == [hm EXCEPT ![g] = w]
  <1>x. /\ Forest(r, X) /\ Counted(X) /\ X[n] = w
        /\ \A l \in Leaves \ {n} : X[l] = W[l]
    BY DEF Hangs
  <1>0. w # None /\ n # None /\ g # None
    BY Constants
  <1>1. /\ tl \in [Leaves -> Groups \cup {None}]
        /\ of \in [Groups -> Leaves \cup {None}]
        /\ ls \in [Workspaces -> Seq(Leaves)]
        /\ hm \in [Groups -> Workspaces \cup {None}]
        /\ \A l \in Leaves : tl[l] # None =>
             tl[l] \in Groups /\ of[tl[l]] = l /\ hm[tl[l]] \in Workspaces
        /\ \A h \in Groups : of[h] # None =>
             of[h] \in Leaves /\ tl[of[h]] = h /\ hm[h] \in Workspaces /\ W[of[h]] = hm[h]
        /\ \A l \in Leaves : W[l] = IF tl[l] = None THEN None ELSE hm[tl[l]]
        /\ \A v \in Workspaces :
             ToSet(ls[v]) = {l \in Leaves : W[l] = v} /\ IsInjective(ls[v])
    BY SoundFacts
  <1>2. /\ hm2 \in [Groups -> Workspaces \cup {None}] /\ hm2[g] = w
        /\ \A h \in Groups \ {g} : hm2[h] = hm[h]
    BY <1>1
  <1>3. /\ ls2[w] = Append(ls[w], n) /\ ls2[from] = RemoveFirst(ls[from], n)
        /\ \A v \in Workspaces \ {w, from} : ls2[v] = ls[v]
        /\ ls2 \in [Workspaces -> Seq(Leaves)]
    BY <1>1, AppendIs, RemoveFirstIs
  <1> HIDE DEF hm2, ls2
  <1>4. TileTypes(tl, of, ls2, hm2)
    BY <1>1, <1>2, <1>3 DEF TileTypes
  <1>n. tl[n] = g /\ W[n] = from
    BY <1>0, <1>1
  <1>5. Matched(tl, of, hm2)
    <2>1. ASSUME NEW h \in Groups, of[h] # None PROVE hm2[h] # None
      <3>1. hm[h] # None
        BY <1>1, <2>1, Constants
      <3> QED
        BY <1>0, <1>2, <3>1
    <2> QED
      BY <1>1, <2>1 DEF Matched
  <1>6. Hung(r, X, tl, hm2)
    <2>1. ASSUME NEW l \in Leaves PROVE X[l] = Place(tl, hm2, l)
      <3>1. CASE l = n
        BY <1>0, <1>2, <1>n, <3>1, <1>x DEF Place
      <3>2. CASE l # n
        <4>1. tl[l] # None => tl[l] \in Groups /\ tl[l] # g
          BY <1>1, <3>2
        <4> QED
          BY <1>1, <1>2, <3>2, <4>1, <1>x DEF Place
      <3> QED
        BY <3>1, <3>2
    <2> QED
      BY <1>x, <2>1 DEF Hung
  <1>7. Listed(ls2, tl, hm2)
    <2> SUFFICES ASSUME NEW v \in Workspaces
                 PROVE  ToSet(ls2[v]) = {l \in Leaves : X[l] = v} /\ IsInjective(ls2[v])
      BY <1>6 DEF Listed, Hung
    <2>0. ls[v] \in Seq(Leaves) /\ IsInjective(ls[v]) /\ ToSet(ls[v]) = {l \in Leaves : W[l] = v}
      BY <1>x, <1>1
    <2>1. CASE v = w
      <3>1. {l \in Leaves : X[l] = w} = {l \in Leaves : W[l] = w} \cup {n}
        BY <1>x
      <3>2. n \notin ToSet(ls[w])
        BY <1>n, <2>0, <2>1
      <3>3. ToSet(Append(ls[w], n)) = ToSet(ls[w]) \cup {n} /\ IsInjective(Append(ls[w], n))
        BY <2>0, <2>1, <3>2, AppendIs
      <3> QED
        BY <1>3, <2>0, <2>1, <3>1, <3>3
    <2>2. CASE v = from
      <3>1. {l \in Leaves : X[l] = from} = {l \in Leaves : W[l] = from} \ {n}
        BY <1>x
      <3>2. ToSet(RemoveFirst(ls[from], n)) = ToSet(ls[from]) \ {n}
            /\ IsInjective(RemoveFirst(ls[from], n))
        BY <2>0, <2>2, RemoveFirstIs
      <3> QED
        BY <1>3, <2>0, <2>2, <3>1, <3>2
    <2>3. CASE v \notin {w, from}
      <3>1. {l \in Leaves : X[l] = v} = {l \in Leaves : W[l] = v}
        BY <1>x, <1>n, <2>3
      <3> QED
        BY <1>3, <2>0, <2>3, <3>1
    <2> QED
      BY <2>1, <2>2, <2>3
  <1> QED
    BY <1>4, <1>5, <1>6, <1>7 DEF Sound, hm2, ls2

-----------------------------------------------------------------------------
(* What is looked for above and below a node.                              *)

AboveAt(parent, S, u, m) ==
    LET p == parent[m] IN IF p = None \/ p \in S THEN p ELSE u[p]

\* The walk up ends at one of the splits sought, or above the root.
LEMMA NearestAboveIs ==
  ASSUME NEW W, Forest(tree, W), NEW S \in SUBSET Splits, NEW n \in Nodes
  PROVE  NearestAbove(n, S) \in S \cup {None}
  <1> DEFINE V == Splits \cup {None}
             K == Upwards(tree.parent)
             F == [m \in Nodes |-> [f \in Maps(V) |-> AboveAt(tree.parent, S, f, m)]]
  <1>0. \A m \in Nodes : tree.parent[m] # None => tree.parent[m] \in Splits /\ tree.parent[m] \in Nodes
    BY ForestFacts, Constants
  <1>1. ASSUME NEW m \in Nodes, NEW f \in Maps(V) PROVE AboveAt(tree.parent, S, f, m) \in V
    BY <1>0 DEF AboveAt, Maps
  <1>2. ASSUME NEW m \in Nodes, NEW f \in Maps(V), NEW g \in Maps(V), \A k \in K[m] : f[k] = g[k]
        PROVE  AboveAt(tree.parent, S, f, m) = AboveAt(tree.parent, S, g, m)
    <2>1. tree.parent[m] # None => tree.parent[m] \in K[m]
      BY DEF Upwards
    <2> QED
      BY <1>2, <2>1 DEF AboveAt
  <1>3. F \in [Nodes -> [Maps(V) -> V]]
    BY <1>1
  <1>4. \A m \in Nodes : \A f \in Maps(V) : F[m][f] = AboveAt(tree.parent, S, f, m)
    OBVIOUS
  <1>5. K \in [Nodes -> SUBSET Nodes]
        /\ \A T \in SUBSET Nodes : T # {} => \E m \in T : K[m] \cap T = {}
    BY UpwardsIs
  <1>6. V # {}
    OBVIOUS
  <1> HIDE DEF F, K, V
  <1>7. LooksAt(K, V, F)
    BY <1>2, <1>3, <1>4, <1>5 DEF LooksAt
  <1>8. PICK u \in Maps(V) : Solves(F, u, Nodes)
    BY <1>5, <1>6, <1>7, Solution
  <1>9. \A m \in Nodes : u[m] = AboveAt(tree.parent, S, u, m)
    BY <1>4, <1>8 DEF Solves
  <1>10. u = [m \in Nodes |-> AboveAt(tree.parent, S, u, m)]
    BY <1>9 DEF Maps
  <1> DEFINE c == CHOOSE v : v = [m \in Nodes |-> AboveAt(tree.parent, S, v, m)]
  <1>11. c = [m \in Nodes |-> AboveAt(tree.parent, S, c, m)]
    BY <1>10
  <1> HIDE DEF c
  <1>12. NearestAbove(n, S) = c[n]
    BY DEF NearestAbove, AboveAt, c
  <1>13. \A m \in Nodes : c[m] = AboveAt(tree.parent, S, c, m)
    BY <1>11
  <1>14. \A m \in Nodes : c[m] \in S \cup {None}
    <2> DEFINE T == {m \in Nodes : c[m] \notin S \cup {None}}
    <2>1. SUFFICES ASSUME T # {} PROVE FALSE
      OBVIOUS
    <2>2. PICK m \in T : tree.parent[m] \notin T
      BY <2>1, TopDown
    <2>3. m \in Nodes /\ c[m] \notin S \cup {None}
      OBVIOUS
    <2>4. tree.parent[m] # None => tree.parent[m] \in Nodes /\ c[tree.parent[m]] \in S \cup {None}
      BY <1>0, <2>2, <2>3
    <2> QED
      BY <1>13, <2>3, <2>4 DEF AboveAt
  <1> QED
    BY <1>12, <1>14

GroupAt(t, tl, u, m) ==
    IF m \in Leaves THEN tl[m] ELSE IF t.split[m] = None THEN None ELSE u[t.split[m].first]

\* A node of a tree has a group under it.
LEMMA FirstGroupIs ==
  ASSUME NEW W, Forest(tree, W), tile \in [Leaves -> Groups \cup {None}],
         \A l \in Leaves : tile[l] = None <=> W[l] = None, NEW n \in Nodes, W[n] # None
  PROVE  FirstGroup(n) \in Groups
  <1> DEFINE V == Groups \cup {None}
             K == Downwards(tree)
             F == [m \in Nodes |-> [f \in Maps(V) |-> GroupAt(tree, tile, f, m)]]
  <1>0. \A m \in Nodes : m \notin Leaves => m \in Splits
    BY Constants
  <1>a. \A m \in Nodes : Inner(tree, m) => tree.split[m].first \in Nodes
    BY KidsOf DEF Inner
  <1>1. ASSUME NEW m \in Nodes, NEW f \in Maps(V) PROVE GroupAt(tree, tile, f, m) \in V
    BY <1>0, <1>a DEF GroupAt, Maps, Inner
  <1>2. ASSUME NEW m \in Nodes, NEW f \in Maps(V), NEW g \in Maps(V), \A k \in K[m] : f[k] = g[k]
        PROVE  GroupAt(tree, tile, f, m) = GroupAt(tree, tile, g, m)
    <2>1. Inner(tree, m) => tree.split[m].first \in K[m]
      BY DEF Downwards
    <2> QED
      BY <1>0, <1>2, <2>1 DEF GroupAt, Inner
  <1>3. F \in [Nodes -> [Maps(V) -> V]]
    BY <1>1
  <1>4. \A m \in Nodes : \A f \in Maps(V) : F[m][f] = GroupAt(tree, tile, f, m)
    OBVIOUS
  <1>5. K \in [Nodes -> SUBSET Nodes]
        /\ \A T \in SUBSET Nodes : T # {} => \E m \in T : K[m] \cap T = {}
    BY DownwardsIs
  <1>6. V # {}
    OBVIOUS
  <1> HIDE DEF F, K, V
  <1>7. LooksAt(K, V, F)
    BY <1>2, <1>3, <1>4, <1>5 DEF LooksAt
  <1>8. PICK u \in Maps(V) : Solves(F, u, Nodes)
    BY <1>5, <1>6, <1>7, Solution
  <1>9. \A m \in Nodes : u[m] = GroupAt(tree, tile, u, m)
    BY <1>4, <1>8 DEF Solves
  <1>10. u = [m \in Nodes |-> GroupAt(tree, tile, u, m)]
    BY <1>9 DEF Maps
  <1> DEFINE c == CHOOSE v : v = [m \in Nodes |-> GroupAt(tree, tile, v, m)]
  <1>11. c = [m \in Nodes |-> GroupAt(tree, tile, c, m)]
    BY <1>10
  <1> HIDE DEF c
  <1>12. FirstGroup(n) = c[n]
    BY DEF FirstGroup, GroupAt, c
  <1>13. \A m \in Nodes : c[m] = GroupAt(tree, tile, c, m)
    BY <1>11
  <1>14. \A m \in Nodes : W[m] # None => c[m] \in Groups
    <2> DEFINE T == {m \in Nodes : W[m] # None /\ c[m] \notin Groups}
    <2>1. SUFFICES ASSUME T # {} PROVE FALSE
      OBVIOUS
    <2>2. PICK m \in T : \A k \in T : tree.parent[k] # m
      <3>1. T \in SUBSET Nodes
        OBVIOUS
      <3> HIDE DEF T
      <3> QED
        BY <2>1, <3>1, BottomUp
    <2>3. m \in Nodes /\ W[m] # None /\ c[m] \notin Groups
      OBVIOUS
    <2>4. CASE m \in Leaves
      BY <1>13, <2>3, <2>4 DEF GroupAt
    <2>5. CASE m \in Splits
      <3>1. tree.split[m] # None
        BY <2>3, <2>5, ForestFacts
      <3>2. /\ tree.split[m].first \in Nodes /\ W[tree.split[m].first] # None
            /\ tree.parent[tree.split[m].first] = m
        BY <2>5, <3>1, KidsOf
      <3>3. c[tree.split[m].first] \in Groups
        BY <2>2, <3>2
      <3>4. m \notin Leaves
        BY <2>5, Constants
      <3> QED
        BY <1>13, <2>3, <3>1, <3>3, <3>4 DEF GroupAt
    <2> QED
      BY <1>0, <2>3, <2>4, <2>5
  <1> QED
    BY <1>12, <1>14

-----------------------------------------------------------------------------
(* Boxes.                                                                  *)

\* A box that is not inside out.
Upright == {b \in Boxes : b.w >= 0 /\ b.h >= 0}

\* The box b lies in the box c.
Within(b, c) ==
    /\ b.x >= c.x /\ b.x + b.w <= c.x + c.w
    /\ b.y >= c.y /\ b.y + b.h <= c.y + c.h

\* A part of a box lies within it.
LEMMA PartIs ==
  ASSUME NEW b \in Upright, NEW o \in Orientations, NEW from \in Int, NEW len \in Int,
         from >= 0, len >= 0, from + len <= Span(b, o)
  PROVE  Part(b, o, from, len) \in Upright /\ Within(Part(b, o, from, len), b)
  <1>1. /\ b = [x |-> b.x, y |-> b.y, w |-> b.w, h |-> b.h]
        /\ b.x \in Int /\ b.y \in Int /\ b.w \in Int /\ b.h \in Int /\ b.w >= 0 /\ b.h >= 0
    BY DEF Upright, Boxes
  <1>2. CASE o = "horizontal"
    <2>1. Part(b, o, from, len) = [x |-> b.x + from, y |-> b.y, w |-> len, h |-> b.h]
      BY <1>1, <1>2 DEF Part
    <2>2. from + len <= b.w
      BY <1>2 DEF Span
    <2> QED
      BY <1>1, <2>1, <2>2 DEF Upright, Boxes, Within
  <1>3. CASE o = "vertical"
    <2>1. Part(b, o, from, len) = [x |-> b.x, y |-> b.y + from, w |-> b.w, h |-> len]
      BY <1>1, <1>3 DEF Part
    <2>2. from + len <= b.h
      BY <1>3 DEF Span
    <2> QED
      BY <1>1, <2>1, <2>2 DEF Upright, Boxes, Within
  <1> QED
    BY <1>2, <1>3 DEF Orientations

\* A share is rounded down, so nobody has one of a single pixel.
LEMMA CutIs ==
  ASSUME NEW a \in Nat, NEW r \in Ratio
  PROVE  (a * r.n) \div r.d \in Nat /\ (a <= 1 => (a * r.n) \div r.d = 0)
  <1>1. r.n \in Nat /\ r.d \in Nat /\ 0 < r.n /\ r.n < r.d
    BY DEF Ratio
  <1> DEFINE n == r.n
             d == r.d
  <1>2. n \in Nat /\ d \in Nat /\ 0 < n /\ n < d
    BY <1>1
  <1> HIDE DEF n, d
  <1>3. a * n \in Nat
    BY <1>2
  <1>4. (a * n) \div d \in Nat
    BY <1>2, <1>3
  <1>5. a = 0 => (a * n) \div d = 0
    BY <1>2
  <1>6. a = 1 => (a * n) \div d = 0
    BY <1>2
  <1> QED
    BY <1>4, <1>5, <1>6 DEF n, d

Cut(a, r) == (a * r.n) \div r.d

\* A split gives its two nodes parts of its box that have no pixel in common.
LEMMA ShareIs ==
  ASSUME NEW s \in SplitRecord, NEW b \in Upright, NEW inner \in Nat
  PROVE  /\ \A isFirst \in BOOLEAN :
              Share(s, b, inner, isFirst) \in Upright /\ Within(Share(s, b, inner, isFirst), b)
         /\ \A c, e \in Upright :
              Within(c, Share(s, b, inner, TRUE)) /\ Within(e, Share(s, b, inner, FALSE)) =>
                Apart(c, e) /\ Apart(e, c)
  <1> DEFINE o == s.orientation
             g == BoundedGap(inner, Span(b, o))
             available == Span(b, o) - g
             cut == Cut(available, s.ratio)
             first == IF available > 1 THEN Least(Most(cut, 1), available - 1) ELSE cut
  <1>1. o \in Orientations /\ s.ratio \in Ratio
    BY DEF SplitRecord
  <1>2. Span(b, o) \in Nat
    BY DEF Span, Upright, Boxes
  <1>3. g \in Nat /\ g <= Span(b, o) /\ available \in Nat
    BY <1>2 DEF BoundedGap, Least
  <1>4. Share(s, b, inner, TRUE) = Part(b, o, 0, first)
        /\ Share(s, b, inner, FALSE) = Part(b, o, first + g, available - first)
    BY DEF Share, Cut
  <1> HIDE DEF available
  <1>5. cut \in Nat /\ (available <= 1 => cut = 0)
    BY <1>1, <1>3, CutIs DEF Cut
  <1> HIDE DEF cut
  <1>6. first \in Nat /\ first <= available
    BY <1>3, <1>5 DEF Least, Most
  <1> HIDE DEF o, g, first
  <1>7. available + g = Span(b, o)
    BY <1>2, <1>3 DEF available
  <1>8. /\ Part(b, o, 0, first) \in Upright /\ Within(Part(b, o, 0, first), b)
        /\ Part(b, o, first + g, available - first) \in Upright
        /\ Within(Part(b, o, first + g, available - first), b)
    <2>1. 0 + first <= Span(b, o) /\ first + g >= 0 /\ available - first >= 0
          /\ (first + g) + (available - first) <= Span(b, o)
          /\ first + g \in Int /\ available - first \in Int
      BY <1>2, <1>3, <1>6, <1>7
    <2> QED
      BY <1>1, <1>6, <2>1, PartIs
  <1>9. ASSUME NEW c \in Upright, NEW e \in Upright, Within(c, Part(b, o, 0, first)),
               Within(e, Part(b, o, first + g, available - first))
        PROVE  Apart(c, e) /\ Apart(e, c)
    <2>1. CASE o = "horizontal"
      BY <1>3, <1>6, <1>9, <2>1 DEF Part, Within, Apart, Upright, Boxes
    <2>2. CASE o = "vertical"
      BY <1>3, <1>6, <1>9, <2>2 DEF Part, Within, Apart, Upright, Boxes
    <2> QED
      BY <1>1, <2>1, <2>2 DEF Orientations
  <1> QED
    BY <1>4, <1>8, <1>9

BoxAt(t, area, inner, u, m) ==
    LET p == t.parent[m] IN
    IF p = None THEN area ELSE Share(t.split[p], u[p], inner, t.split[p].first = m)

\* Each node has its part of the box of the split above it.
LEMMA LayoutIs ==
  ASSUME NEW t, NEW W, Forest(t, W), NEW area \in Upright, NEW inner \in Nat
  PROVE  \A n \in Nodes :
           /\ LayoutNode(t, n, area, inner) \in Upright
           /\ t.parent[n] = None => LayoutNode(t, n, area, inner) = area
           /\ t.parent[n] # None =>
                LayoutNode(t, n, area, inner) =
                  Share(t.split[t.parent[n]], LayoutNode(t, t.parent[n], area, inner), inner,
                        t.split[t.parent[n]].first = n)
  <1> DEFINE V == Upright
             K == Upwards(t.parent)
             F == [m \in Nodes |-> [f \in Maps(V) |-> BoxAt(t, area, inner, f, m)]]
  <1>0. \A m \in Nodes : t.parent[m] # None =>
          t.parent[m] \in Splits /\ t.parent[m] \in Nodes /\ t.split[t.parent[m]] \in SplitRecord
    BY ForestFacts, Constants
  <1>a. \A m \in Nodes : \A f : t.parent[m] # None /\ f[t.parent[m]] \in V =>
          BoxAt(t, area, inner, f, m) \in V
    BY <1>0, ShareIs DEF BoxAt
  <1>1. ASSUME NEW m \in Nodes, NEW f \in Maps(V) PROVE BoxAt(t, area, inner, f, m) \in V
    <2>1. t.parent[m] # None => f[t.parent[m]] \in V
      BY <1>0 DEF Maps
    <2>2. t.parent[m] = None => BoxAt(t, area, inner, f, m) = area
      BY DEF BoxAt
    <2> QED
      BY <1>a, <2>1, <2>2
  <1>2. ASSUME NEW m \in Nodes, NEW f \in Maps(V), NEW g \in Maps(V), \A k \in K[m] : f[k] = g[k]
        PROVE  BoxAt(t, area, inner, f, m) = BoxAt(t, area, inner, g, m)
    <2>1. t.parent[m] # None => t.parent[m] \in K[m]
      BY DEF Upwards
    <2> QED
      BY <1>2, <2>1 DEF BoxAt
  <1>3. F \in [Nodes -> [Maps(V) -> V]]
    BY <1>1
  <1>4. \A m \in Nodes : \A f \in Maps(V) : F[m][f] = BoxAt(t, area, inner, f, m)
    OBVIOUS
  <1>5. K \in [Nodes -> SUBSET Nodes]
        /\ \A T \in SUBSET Nodes : T # {} => \E m \in T : K[m] \cap T = {}
    BY UpwardsIs
  <1>6. V # {}
    OBVIOUS
  <1> HIDE DEF F, K, V
  <1>7. LooksAt(K, V, F)
    BY <1>2, <1>3, <1>4, <1>5 DEF LooksAt
  <1>8. PICK u \in Maps(V) : Solves(F, u, Nodes)
    BY <1>5, <1>6, <1>7, Solution
  <1>9. \A m \in Nodes : u[m] = BoxAt(t, area, inner, u, m)
    BY <1>4, <1>8 DEF Solves
  <1>10. u = [m \in Nodes |-> BoxAt(t, area, inner, u, m)]
    BY <1>9 DEF Maps
  <1> DEFINE c == CHOOSE v : v = [m \in Nodes |-> BoxAt(t, area, inner, v, m)]
  <1>11. c = [m \in Nodes |-> BoxAt(t, area, inner, c, m)]
    BY <1>10
  <1> HIDE DEF c
  <1>12. \A n : LayoutNode(t, n, area, inner) = c[n]
    BY DEF LayoutNode, BoxAt, c
  <1>13. \A m \in Nodes : c[m] = BoxAt(t, area, inner, c, m)
    BY <1>11
  <1>14. \A m \in Nodes : c[m] \in V
    <2> DEFINE T == {m \in Nodes : c[m] \notin V}
    <2>1. SUFFICES ASSUME T # {} PROVE FALSE
      OBVIOUS
    <2>2. PICK m \in T : t.parent[m] \notin T
      BY <2>1, TopDown
    <2>3. m \in Nodes /\ c[m] \notin V
      OBVIOUS
    <2>4. t.parent[m] # None => c[t.parent[m]] \in V
      BY <1>0, <2>2, <2>3
    <2>5. t.parent[m] = None => BoxAt(t, area, inner, c, m) \in V
      BY DEF BoxAt, V
    <2> QED
      BY <1>13, <1>a, <2>3, <2>4, <2>5
  <1> QED
    BY <1>12, <1>13, <1>14 DEF BoxAt, V

\* The boxes of the leaves under a node are within its box, and apart.
LEMMA WithinTrans ==
  ASSUME NEW b \in Boxes, NEW c \in Boxes, NEW e \in Boxes, Within(b, c), Within(c, e)
  PROVE  Within(b, e)
  BY DEF Boxes, Within

\* The leaves below a node share its box without overlap.
LEMMA LeavesFit ==
  ASSUME NEW t, NEW W, Forest(t, W), NEW area \in Upright, NEW inner \in Nat,
         NEW n \in Nodes, W[n] # None
  PROVE  /\ \A l \in LeavesUnder(t, n) :
              Within(LayoutNode(t, l, area, inner), LayoutNode(t, n, area, inner))
         /\ \A l, k \in LeavesUnder(t, n) : l # k =>
              Apart(LayoutNode(t, l, area, inner), LayoutNode(t, k, area, inner))
  <1> DEFINE B(m) == LayoutNode(t, m, area, inner)
             Fit(m) == /\ \A l \in LeavesUnder(t, m) : Within(B(l), B(m))
                       /\ \A l, k \in LeavesUnder(t, m) : l # k => Apart(B(l), B(k))
             T == {m \in Nodes : W[m] # None /\ ~Fit(m)}
  <1>1. \A m \in Nodes : B(m) \in Upright /\ B(m) \in Boxes
    BY LayoutIs DEF Upright
  <1>2. \A m \in Nodes : t.parent[m] # None =>
          B(m) = Share(t.split[t.parent[m]], B(t.parent[m]), inner, t.split[t.parent[m]].first = m)
    BY LayoutIs
  <1> HIDE DEF B
  <1>3. SUFFICES ASSUME ~Fit(n) PROVE FALSE
    BY DEF B
  <1>4. PICK m \in T : \A k \in T : t.parent[k] # m
    <2> HIDE DEF Fit
    <2>1. T \in SUBSET Nodes /\ T # {}
      BY <1>3
    <2> HIDE DEF T
    <2> QED
      BY <2>1, BottomUp
  <1>5. m \in Nodes /\ W[m] # None /\ ~Fit(m)
    <2> HIDE DEF Fit
    <2> QED
      OBVIOUS
  <1>6. \A k \in Nodes : t.parent[k] = m /\ W[k] # None => Fit(k)
    <2> HIDE DEF Fit
    <2> QED
      BY <1>4
  <1>7. CASE m \in Leaves
    <2>1. LeavesUnder(t, m) = {m}
      BY <1>7, UnderStep
    <2>2. Within(B(m), B(m))
      BY <1>1, <1>5 DEF Within, Boxes
    <2>3. Fit(m)
      BY <2>1, <2>2
    <2> QED
      BY <1>5, <2>3
  <1>8. CASE m \in Splits
    <2>1. t.split[m] # None
      BY <1>5, <1>8, ForestFacts
    <2> DEFINE s == t.split[m]
               a == s.first
               b == s.second
    <2>2. /\ a \in Nodes /\ b \in Nodes /\ t.parent[a] = m /\ t.parent[b] = m
          /\ W[a] # None /\ W[b] # None
      BY <1>8, <2>1, KidsOf
    <2>3. LeavesUnder(t, m) = LeavesUnder(t, a) \cup LeavesUnder(t, b)
      BY <1>8, <2>1, UnderStep
    <2>4. s \in SplitRecord /\ a # b
      BY <1>8, <2>1, ForestFacts
    <2>5. Fit(a) /\ Fit(b)
      <3> HIDE DEF a, b, Fit
      <3> QED
        BY <1>6, <2>2
    <2>6. m # None
      BY <1>8, Constants
    <2>7. B(a) = Share(s, B(m), inner, TRUE) /\ B(b) = Share(s, B(m), inner, FALSE)
      <3>1. B(a) = Share(s, B(m), inner, s.first = a)
        BY <1>2, <2>2, <2>6
      <3>2. B(b) = Share(s, B(m), inner, s.first = b)
        BY <1>2, <2>2, <2>6
      <3>3. (s.first = a) = TRUE /\ (s.first = b) = FALSE
        BY <2>4
      <3> QED
        BY <3>1, <3>2, <3>3
    <2> DEFINE M == B(m)
    <2>8. M \in Upright
      BY <1>1, <1>5
    <2>m. M = B(m)
      OBVIOUS
    <2> HIDE DEF s, a, b, M
    <2>9. /\ Within(B(a), M) /\ Within(B(b), M)
          /\ \A c, e \in Upright : Within(c, B(a)) /\ Within(e, B(b)) => Apart(c, e) /\ Apart(e, c)
      <3>1. /\ \A isFirst \in BOOLEAN : Within(Share(s, M, inner, isFirst), M)
            /\ \A c, e \in Upright :
                 Within(c, Share(s, M, inner, TRUE)) /\ Within(e, Share(s, M, inner, FALSE)) =>
                   Apart(c, e) /\ Apart(e, c)
        BY <2>4, <2>8, ShareIs
      <3>2. B(a) = Share(s, M, inner, TRUE) /\ B(b) = Share(s, M, inner, FALSE)
        BY <2>7, <2>m
      <3> QED
        BY <3>1, <3>2
    <2>10. \A l \in LeavesUnder(t, a) \cup LeavesUnder(t, b) : B(l) \in Upright /\ B(l) \in Boxes
      <3>1. LeavesUnder(t, a) \in SUBSET Leaves /\ LeavesUnder(t, b) \in SUBSET Leaves
        BY <2>2, UnderStep
      <3> QED
        BY <1>1, <3>1, Constants
    <2>11. ASSUME NEW l \in LeavesUnder(t, m) PROVE Within(B(l), B(m))
      <3>1. B(a) \in Boxes /\ B(b) \in Boxes /\ M \in Boxes
        BY <1>1, <2>2, <2>8 DEF Upright
      <3>2. CASE l \in LeavesUnder(t, a)
        <4>1. Within(B(l), B(a)) /\ B(l) \in Boxes
          BY <2>5, <2>10, <3>2
        <4> QED
          BY <2>9, <2>m, <3>1, <4>1, WithinTrans
      <3>3. CASE l \in LeavesUnder(t, b)
        <4>1. Within(B(l), B(b)) /\ B(l) \in Boxes
          BY <2>5, <2>10, <3>3
        <4> QED
          BY <2>9, <2>m, <3>1, <4>1, WithinTrans
      <3> QED
        BY <2>3, <3>2, <3>3
    <2>12. ASSUME NEW l \in LeavesUnder(t, m), NEW k \in LeavesUnder(t, m), l # k
           PROVE  Apart(B(l), B(k))
      <3>0. B(l) \in Upright /\ B(k) \in Upright
        BY <2>3, <2>10
      <3>1. CASE l \in LeavesUnder(t, a) /\ k \in LeavesUnder(t, a)
        BY <2>5, <2>12, <3>1
      <3>2. CASE l \in LeavesUnder(t, b) /\ k \in LeavesUnder(t, b)
        BY <2>5, <2>12, <3>2
      <3>3. CASE l \in LeavesUnder(t, a) /\ k \in LeavesUnder(t, b)
        <4>1. Within(B(l), B(a)) /\ Within(B(k), B(b))
          BY <2>5, <3>3
        <4> QED
          BY <2>9, <3>0, <4>1
      <3>4. CASE l \in LeavesUnder(t, b) /\ k \in LeavesUnder(t, a)
        <4>1. Within(B(l), B(b)) /\ Within(B(k), B(a))
          BY <2>5, <3>4
        <4> QED
          BY <2>9, <3>0, <4>1
      <3> QED
        BY <2>3, <3>1, <3>2, <3>3, <3>4
    <2>13. Fit(m)
      BY <2>11, <2>12
    <2> QED
      BY <1>5, <2>13
  <1> QED
    BY <1>5, <1>7, <1>8, Constants

\* The tree of the workspace v is the same.
Elsewhere(t, r, W, v) ==
    \A m \in Nodes : W[m] = v =>
        r.parent[m] = t.parent[m] /\ (m \in Splits => r.split[m] = t.split[m])

\* The boxes of a workspace depend on its own tree only.
LEMMA SameBoxes ==
  ASSUME NEW t, NEW W, Forest(t, W), NEW r, NEW X, Forest(r, X), NEW v \in Workspaces,
         Elsewhere(t, r, W, v), NEW area \in Upright, NEW inner \in Nat,
         NEW n \in Nodes, W[n] = v
  PROVE  LayoutNode(r, n, area, inner) = LayoutNode(t, n, area, inner)
  <1> DEFINE T == {m \in Nodes : W[m] = v /\
                     LayoutNode(r, m, area, inner) # LayoutNode(t, m, area, inner)}
  <1>1. SUFFICES ASSUME T # {} PROVE FALSE
    OBVIOUS
  <1>2. PICK m \in T : t.parent[m] \notin T
    <2>1. T \in SUBSET Nodes
      OBVIOUS
    <2> HIDE DEF T
    <2> QED
      BY <1>1, <2>1, TopDown
  <1>3. /\ m \in Nodes /\ W[m] = v
        /\ LayoutNode(r, m, area, inner) # LayoutNode(t, m, area, inner)
    OBVIOUS
  <1>4. r.parent[m] = t.parent[m]
    BY <1>3 DEF Elsewhere
  <1>5. CASE t.parent[m] = None
    BY <1>3, <1>4, <1>5, LayoutIs
  <1>6. CASE t.parent[m] # None
    <2> DEFINE p == t.parent[m]
    <2>1. p \in Splits /\ p \in Nodes /\ W[p] = v
      BY <1>3, <1>6, ForestFacts, Constants
    <2>2. LayoutNode(r, p, area, inner) = LayoutNode(t, p, area, inner)
      BY <1>2, <2>1
    <2>3. r.split[p] = t.split[p]
      BY <2>1 DEF Elsewhere
    <2>4. LayoutNode(t, m, area, inner) =
            Share(t.split[p], LayoutNode(t, p, area, inner), inner, t.split[p].first = m)
      BY <1>3, <1>6, LayoutIs
    <2>5. LayoutNode(r, m, area, inner) =
            Share(r.split[p], LayoutNode(r, p, area, inner), inner, r.split[p].first = m)
      BY <1>3, <1>4, <1>6, LayoutIs
    <2> QED
      BY <1>3, <2>2, <2>3, <2>4, <2>5
  <1> QED
    BY <1>5, <1>6

\* What the roots have.
Area(thick, policy) == Inset(Usable(thick), policy.outer)

\* Whatever the panel and the gaps, the area has no negative side.
LEMMA AreaIs ==
  ASSUME NEW thick \in Bars, NEW policy \in Gaps
  PROVE  Area(thick, policy) \in Upright /\ policy.inner \in Nat
  <1>1. policy.outer \in Nat /\ policy.inner \in Nat
    BY LayoutAssumption
  <1>2. /\ thick \in Int /\ thick >= 0 /\ Height - thick > 0
        /\ Width \in Nat /\ Width > 0 /\ Height \in Nat
    BY LayoutAssumption
  <1> DEFINE b == Usable(thick)
             outer == policy.outer
  <1>3. b = [x |-> 0, y |-> thick, w |-> Width, h |-> Height - thick]
    BY DEF Usable
  <1>4. b.x \in Int /\ b.y \in Int /\ b.w \in Nat /\ b.h \in Nat
    BY <1>2, <1>3
  <1>5. b \in Upright
    BY <1>2, <1>3 DEF Upright, Boxes
  <1> HIDE DEF b
  <1>6. CASE outer <= 0 \/ b.w <= 1 \/ b.h <= 1
    BY <1>1, <1>5, <1>6 DEF Area, Inset, b
  <1>7. CASE ~(outer <= 0 \/ b.w <= 1 \/ b.h <= 1)
    <2> DEFINE ix == Least(outer, (b.w - 1) \div 2)
               iy == Least(outer, (b.h - 1) \div 2)
    <2>1. ix \in Int /\ 2 * ix <= b.w /\ iy \in Int /\ 2 * iy <= b.h
      BY <1>1, <1>4, <1>7 DEF Least
    <2>2. Area(thick, policy) =
            [x |-> b.x + ix, y |-> b.y + iy, w |-> b.w - 2 * ix, h |-> b.h - 2 * iy]
      BY <1>7 DEF Area, Inset, b
    <2> HIDE DEF ix, iy
    <2> QED
      BY <1>1, <1>4, <2>1, <2>2 DEF Upright, Boxes
  <1> QED
    BY <1>6, <1>7

\* A box in which something can be seen.
Pixels(b) == b.w > 0 /\ b.h > 0

LEMMA ContentIs ==
  ASSUME NEW b \in Boxes
  PROVE  Content(b) \in Boxes
  <1>1. b = [x |-> b.x, y |-> b.y, w |-> b.w, h |-> b.h]
        /\ b.x \in Int /\ b.y \in Int /\ b.w \in Int /\ b.h \in Int
    BY DEF Boxes
  <1> DEFINE top == IF Chrome >= b.h THEN b.h - 1 ELSE Chrome
  <1>2. top \in Int
    BY <1>1, LayoutAssumption
  <1>3. Content(b) = [b EXCEPT !.y = @ + top, !.h = @ - top]
    BY DEF Content
  <1> HIDE DEF top
  <1>4. Content(b) = [x |-> b.x, y |-> b.y + top, w |-> b.w, h |-> b.h - top]
    BY <1>1, <1>3
  <1> QED
    BY <1>1, <1>2, <1>4 DEF Boxes

BoxTypes(bx, td) == bx \in [Leaves -> Boxes] /\ td \in [Groups -> Boxes]

\* The tiles of the workspaces that are laid out get the boxes of their leaves,
\* and their windows are told; the others keep theirs.
Redone(t, X, tl, ws, thick, policy) ==
    /\ \A l \in Leaves : X[l] \in ws =>
         /\ box'[l] = LayoutNode(t, l, Area(thick, policy), policy.inner)
         /\ Pixels(box'[l]) => told'[tl[l]] = Content(box'[l])
    /\ \A l \in Leaves : X[l] # None /\ X[l] \notin ws =>
         box'[l] = box[l] /\ told'[tl[l]] = told[tl[l]]

\* A reflow lays out the workspaces it is for and leaves other boxes alone.
LEMMA ReflowIs ==
  ASSUME NEW t, NEW X, NEW tl, NEW of, NEW ls, NEW hm, Sound(t, X, tl, of, ls, hm),
         NEW ws \in SUBSET Workspaces, NEW thick \in Bars, NEW policy \in Gaps,
         BoxTypes(box, told), ReflowWith(ws, t, tl, thick, policy)
  PROVE  BoxTypes(box', told') /\ Redone(t, X, tl, ws, thick, policy)
  <1> DEFINE area == Area(thick, policy)
             laid == UNION {LeavesUnder(t, t.root[w]) : w \in ws}
             boxes == [l \in laid |-> LayoutNode(t, l, area, policy.inner)]
  <1>0. area \in Upright /\ policy.inner \in Nat
    BY AreaIs
  <1>t. /\ Forest(t, X) /\ tl \in [Leaves -> Groups \cup {None}]
        /\ \A l \in Leaves : X[l] = None <=> tl[l] = None
    BY SoundFacts DEF Sound, Hung
  <1>k. \A l, k \in Leaves : tl[l] # None /\ tl[l] = tl[k] => l = k
    <2>1. \A l \in Leaves : tl[l] # None => of[tl[l]] = l
      BY SoundFacts
    <2> QED
      BY <2>1
  <1>1. laid = {l \in Leaves : X[l] \in ws}
    <2>1. \A w \in ws : LeavesUnder(t, t.root[w]) = {l \in Leaves : X[l] = w}
      BY <1>t, UnderRoot
    <2> QED
      BY <2>1
  <1>2. /\ box' = [l \in Leaves |-> IF tl[l] = None THEN NoBox
                                    ELSE IF l \in DOMAIN boxes THEN boxes[l] ELSE box[l]]
        /\ told' = Applied(boxes, tl)
    BY DEF ReflowWith, Area
  <1>3. DOMAIN boxes = laid /\ \A l \in laid : boxes[l] = LayoutNode(t, l, area, policy.inner)
    OBVIOUS
  <1>4. \A l \in laid : l \in Leaves /\ boxes[l] \in Boxes
    BY <1>0, <1>1, <1>3, <1>t, LayoutIs, Constants DEF Upright
  <1> HIDE DEF area, laid, boxes
  <1>n. NoBox \in Boxes /\ ~Pixels(NoBox)
    BY DEF NoBox, Boxes, Pixels
  <1>5. \A l \in Leaves : box'[l] = IF tl[l] = None THEN NoBox
                                    ELSE IF l \in laid THEN boxes[l] ELSE box[l]
    BY <1>2, <1>3
  <1>6. box' \in [Leaves -> Boxes]
    <2>1. \A l \in Leaves : (IF tl[l] = None THEN NoBox
                             ELSE IF l \in laid THEN boxes[l] ELSE box[l]) \in Boxes
      BY <1>4, <1>n DEF BoxTypes
    <2> QED
      BY <1>2, <1>3, <2>1
  <1>7. ASSUME NEW l \in Leaves, tl[l] # None
        PROVE  told'[tl[l]] = IF l \in laid /\ Pixels(boxes[l]) THEN Content(boxes[l])
                              ELSE told[tl[l]]
    <2>1. tl[l] \in Groups /\ \E k \in Leaves : tl[k] = tl[l]
      BY <1>7, <1>t
    <2>2. (CHOOSE k \in Leaves : tl[k] = tl[l]) = l
      BY <1>7, <1>k
    <2>3. told'[tl[l]] = LET b == GroupBox(boxes, l)
                         IN IF b = NoBox THEN told[tl[l]] ELSE Content(b)
      BY <1>2, <2>1, <2>2 DEF Applied
    <2>4. CASE l \in laid /\ Pixels(boxes[l])
      <3>1. GroupBox(boxes, l) = boxes[l]
        BY <1>3, <2>4 DEF GroupBox, Pixels
      <3>2. boxes[l] # NoBox
        BY <1>n, <2>4
      <3> QED
        BY <2>3, <2>4, <3>1, <3>2
    <2>5. CASE ~(l \in laid /\ Pixels(boxes[l]))
      <3>1. GroupBox(boxes, l) = NoBox
        BY <1>3, <2>5 DEF GroupBox, Pixels
      <3> QED
        BY <2>3, <2>5, <3>1
    <2> QED
      BY <2>4, <2>5
  <1>8. told' \in [Groups -> Boxes]
    <2>1. ASSUME NEW g \in Groups
          PROVE  (IF ~\E l \in Leaves : tl[l] = g THEN NoBox
                  ELSE LET b == GroupBox(boxes, CHOOSE l \in Leaves : tl[l] = g)
                       IN IF b = NoBox THEN told[g] ELSE Content(b)) \in Boxes
      <3> DEFINE l == CHOOSE l \in Leaves : tl[l] = g
                 b == GroupBox(boxes, l)
      <3>1. b # NoBox => b \in Boxes
        BY <1>3, <1>4 DEF GroupBox
      <3>2. told[g] \in Boxes
        BY DEF BoxTypes
      <3> HIDE DEF b
      <3>3. (IF b = NoBox THEN told[g] ELSE Content(b)) \in Boxes
        BY <3>1, <3>2, ContentIs
      <3> QED
        BY <1>n, <3>3 DEF b
    <2> QED
      BY <1>2, <2>1 DEF Applied
  <1>9. ASSUME NEW l \in Leaves, X[l] \in ws
        PROVE  /\ box'[l] = LayoutNode(t, l, area, policy.inner)
               /\ Pixels(box'[l]) => told'[tl[l]] = Content(box'[l])
    <2>1. l \in laid /\ tl[l] # None
      BY <1>1, <1>9, <1>t, Constants
    <2>2. box'[l] = boxes[l]
      BY <1>5, <2>1
    <2> QED
      BY <1>3, <1>7, <2>1, <2>2
  <1>10. ASSUME NEW l \in Leaves, X[l] # None, X[l] \notin ws
         PROVE  box'[l] = box[l] /\ told'[tl[l]] = told[tl[l]]
    <2>1. l \notin laid /\ tl[l] # None
      BY <1>1, <1>10, <1>t
    <2> QED
      BY <1>5, <1>7, <2>1
  <1> QED
    BY <1>6, <1>8, <1>9, <1>10 DEF BoxTypes, Redone, area

-----------------------------------------------------------------------------
(* The boxes of the workspace shown are those of its tree.                 *)

\* The boxes of the workspace v are those its tree gives, and its windows
\* have been put into them.
Laid(t, tl, hm, bx, td, v, thick, policy) ==
    \A l \in Leaves : Place(tl, hm, l) = v =>
        /\ bx[l] = LayoutNode(t, l, Area(thick, policy), policy.inner)
        /\ Pixels(bx[l]) => td[tl[l]] = Content(bx[l])

\* Every tile shown got at least a pixel: layout_node gives one where there is
\* one, and cuts nothing out of a box that has none.
ShownHavePixels == \A l \in Shown : Pixels(box[l])

\* Boxes that a tree gives fit together.
LEMMA TilesFitFrom ==
  ASSUME IInv, Laid(tree, tile, home, box, told, visible, bar, gap)
  PROVE  ShownHavePixels => TilesFit
  <1> SUFFICES ASSUME ShownHavePixels PROVE TilesFit
    OBVIOUS
  <1>1. PICK W : Hung(tree, W, tile, home)
    BY DEF IInv, TilesOK
  <1>2. /\ TileTypes(tile, tileOf, list, home) /\ Matched(tile, tileOf, home)
        /\ Listed(list, tile, home) /\ Forest(tree, W)
    BY <1>1 DEF IInv, TilesOK, Hung
  <1>3. visible \in Workspaces /\ bar \in Bars /\ gap \in Gaps
    BY DEF IInv, ScreenTypes
  <1> DEFINE area == Area(bar, gap)
             B(m) == LayoutNode(tree, m, area, gap.inner)
  <1>4. area \in Upright /\ gap.inner \in Nat
    BY <1>3, AreaIs
  <1>5. \A l \in Shown : l \in Leaves /\ W[l] = visible /\ Place(tile, home, l) = visible
    <2>1. \A g \in Groups : tileOf[g] # None => tileOf[g] \in Leaves /\ W[tileOf[g]] = home[g]
      BY <1>1, <1>2, TilesAre
    <2>2. \A l \in Leaves : W[l] = Place(tile, home, l)
      BY <1>1 DEF Hung
    <2> QED
      BY <2>1, <2>2 DEF Shown, Tiled
  <1> HIDE DEF area
  <1>6. \A l \in Shown : /\ box[l] = B(l) /\ Pixels(box[l])
                         /\ told[tile[l]] = Content(box[l])
    BY <1>5 DEF Laid, ShownHavePixels, area
  <1>7. CASE tree.root[visible] = None
    <2>1. \A l \in Leaves : W[l] # visible
      BY <1>2, <1>3, <1>7, Rooted
    <2>2. Shown = {}
      BY <1>5, <2>1
    <2> QED
      BY <2>2 DEF TilesFit
  <1>8. CASE tree.root[visible] # None
    <2> DEFINE n == tree.root[visible]
    <2>1. n \in Nodes /\ W[n] = visible /\ W[n] # None /\ tree.parent[n] = None
      BY <1>2, <1>3, <1>8, ForestFacts, Constants
    <2>2. \A l \in Shown : l \in LeavesUnder(tree, n)
      BY <1>2, <1>3, <1>5, UnderRoot
    <2>3. B(n) = area
      BY <1>2, <1>4, <2>1, LayoutIs
    <2>4. /\ \A l \in LeavesUnder(tree, n) : Within(B(l), B(n))
          /\ \A l, k \in LeavesUnder(tree, n) : l # k => Apart(B(l), B(k))
      <3> HIDE DEF n
      <3> QED
        BY <1>2, <1>4, <2>1, LeavesFit
    <2> HIDE DEF n, B
    <2>5. ASSUME NEW l \in Shown
          PROVE  /\ told[tile[l]] = Content(box[l])
                 /\ box[l].w > 0 /\ box[l].h > 0
                 /\ box[l].x >= area.x /\ box[l].x + box[l].w <= area.x + area.w
                 /\ box[l].y >= area.y /\ box[l].y + box[l].h <= area.y + area.h
      BY <1>6, <2>2, <2>3, <2>4 DEF Pixels, Within
    <2>6. \A l, k \in Shown : l # k => Apart(box[l], box[k])
      BY <1>6, <2>2, <2>4
    <2> QED
      BY <2>5, <2>6 DEF TilesFit, area, Area
  <1> QED
    BY <1>7, <1>8

-----------------------------------------------------------------------------
(* Ratios.                                                                 *)

LEMMA LeastOfInts ==
  ASSUME NEW S \in SUBSET Int, IsFiniteSet(S), S # {}
  PROVE  \E m \in S : \A e \in S : m <= e
  <1> DEFINE R == StrictSubsetOrdering(S)
             Q == {T \in SUBSET S : T # {} /\ \A a \in T, b \in S : b < a => b \in T}
  <1>1. PICK T \in Q : \A X \in Q : ~(<<X, T>> \in R)
    <2>1. FiniteSubsetsOf(S) = SUBSET S
      BY FS_FiniteSubsetsOfFinite
    <2>2. IsWellFoundedOn(R, FiniteSubsetsOf(S))
      BY FS_StrictSubsetOrderingWellFounded
    <2>3. S \in Q /\ Q \subseteq SUBSET S
      OBVIOUS
    <2>4. IsWellFoundedOn(R, SUBSET S)
      BY <2>1, <2>2
    <2> HIDE DEF Q, R
    <2> QED
      BY <2>3, <2>4, WFMin
  <1>2. PICK m \in T : TRUE
    OBVIOUS
  <1> DEFINE X == {e \in S : e < m}
  <1>a. T \in SUBSET S /\ T # {} /\ \A a \in T, b \in S : b < a => b \in T
    OBVIOUS
  <1>b. m \in S /\ m \in Int
    BY <1>a
  <1>c. \A e \in S : e < m => e \in T
    BY <1>a
  <1>d. m \notin X
    <2>1. ~(m < m)
      BY <1>b
    <2> QED
      BY <2>1
  <1>e. X \subseteq T
    BY <1>c
  <1>3. X \subseteq T /\ m \notin X /\ m \in S
    BY <1>b, <1>d, <1>e
  <1>4. X = {}
    <2>1. SUFFICES ASSUME X # {} PROVE FALSE
      OBVIOUS
    <2>2. X \in Q
      <3>1. ASSUME NEW a \in X, NEW b \in S, b < a PROVE b \in X
        BY <1>3, <3>1
      <3> QED
        BY <2>1, <3>1
    <2>3. <<X, T>> \in R
      BY <1>3 DEF StrictSubsetOrdering
    <2> QED
      BY <1>1, <2>2, <2>3
  <1>5. \A e \in S : m <= e
    BY <1>3, <1>4
  <1> QED
    BY <1>3, <1>5

\* The values of a function on a finite set.
LEMMA FiniteValues ==
  ASSUME NEW S, IsFiniteSet(S), NEW f, f \in [S -> Int]
  PROVE  IsFiniteSet({f[e] : e \in S})
  <1> DEFINE T == {f[e] : e \in S}
  <1>1. f \in [S -> T]
    OBVIOUS
  <1>2. f \in Surjection(S, T)
    BY <1>1 DEF Surjection
  <1> HIDE DEF T
  <1>3. IsFiniteSet(T)
    BY <1>2, FS_Surjection
  <1> QED
    BY <1>3 DEF T

LEMMA MostOfInts ==
  ASSUME NEW S \in SUBSET Int, IsFiniteSet(S), S # {}
  PROVE  \E m \in S : \A e \in S : m >= e
  <1> DEFINE f == [e \in S |-> -e]
             T == {f[e] : e \in S}
  <1>1. f \in [S -> Int]
    OBVIOUS
  <1>2. T = {-e : e \in S}
    OBVIOUS
  <1>3. IsFiniteSet(T)
    BY <1>1, FiniteValues
  <1> HIDE DEF f, T
  <1>e. \A e \in S : -e \in Int
    OBVIOUS
  <1>4. T \in SUBSET Int /\ T # {}
    BY <1>2, <1>e
  <1>5. PICK k \in T : \A e \in T : k <= e
    BY <1>3, <1>4, LeastOfInts
  <1>6. PICK m \in S : k = -m
    BY <1>2
  <1>7. ASSUME NEW e \in S PROVE m >= e
    <2>1. -e \in T
      BY <1>2
    <2>2. k <= -e
      BY <1>5, <2>1
    <2> QED
      BY <1>6, <2>2
  <1> QED
    BY <1>7

LeastIn(S) == CHOOSE e \in S : \A f \in S : e <= f
MostIn(S) == CHOOSE e \in S : \A f \in S : e >= f

\* A finite set of numbers has its two ends.
LEMMA EndsOf ==
  ASSUME NEW S \in SUBSET Int, IsFiniteSet(S), S # {}
  PROVE  /\ LeastIn(S) \in S /\ \A e \in S : LeastIn(S) <= e
         /\ MostIn(S) \in S /\ \A e \in S : MostIn(S) >= e
  BY LeastOfInts, MostOfInts DEF LeastIn, MostIn

\* The box around a subtree has a size when one of its tiles has.
LEMMA BoundsIs ==
  ASSUME NEW W, Forest(tree, W), box \in [Leaves -> Boxes], NEW n \in Nodes, W[n] # None
  PROVE  /\ Bounds(n).x \in Int /\ Bounds(n).y \in Int
         /\ Bounds(n).w \in Int /\ Bounds(n).h \in Int
         /\ HasBounds(n) => Bounds(n).w > 0 /\ Bounds(n).h > 0
  <1> DEFINE ls == LeavesUnder(tree, n)
             xs == {box[l].x : l \in ls}
             ys == {box[l].y : l \in ls}
             rs == {box[l].x + box[l].w : l \in ls}
             bs == {box[l].y + box[l].h : l \in ls}
  <1>1. ls \in SUBSET Leaves /\ ls # {}
    BY UnderStep, UnderWithin
  <1>2. IsFiniteSet(ls)
    BY <1>1, Constants, FS_Subset
  <1> HIDE DEF ls
  <1>3. \A l \in ls : /\ box[l].x \in Int /\ box[l].y \in Int
                      /\ box[l].w \in Int /\ box[l].h \in Int
    BY <1>1 DEF Boxes
  <1>4. /\ xs \in SUBSET Int /\ ys \in SUBSET Int /\ rs \in SUBSET Int /\ bs \in SUBSET Int
        /\ xs # {} /\ ys # {} /\ rs # {} /\ bs # {}
    BY <1>1, <1>3
  <1>5. IsFiniteSet(xs) /\ IsFiniteSet(ys) /\ IsFiniteSet(rs) /\ IsFiniteSet(bs)
    <2> DEFINE fx == [l \in ls |-> box[l].x]
               fy == [l \in ls |-> box[l].y]
               fr == [l \in ls |-> box[l].x + box[l].w]
               fb == [l \in ls |-> box[l].y + box[l].h]
    <2>1. /\ fx \in [ls -> Int] /\ fy \in [ls -> Int]
          /\ fr \in [ls -> Int] /\ fb \in [ls -> Int]
      BY <1>3
    <2>2. /\ xs = {fx[l] : l \in ls} /\ ys = {fy[l] : l \in ls}
          /\ rs = {fr[l] : l \in ls} /\ bs = {fb[l] : l \in ls}
      OBVIOUS
    <2> HIDE DEF fx, fy, fr, fb, xs, ys, rs, bs
    <2> QED
      BY <1>2, <2>1, <2>2, FiniteValues
  <1>6. Bounds(n) = [x |-> LeastIn(xs), y |-> LeastIn(ys),
                     w |-> MostIn(rs) - LeastIn(xs), h |-> MostIn(bs) - LeastIn(ys)]
    BY DEF Bounds, LeastIn, MostIn, ls
  <1>7. /\ LeastIn(xs) \in xs /\ LeastIn(ys) \in ys /\ MostIn(rs) \in rs /\ MostIn(bs) \in bs
        /\ \A e \in rs : MostIn(rs) >= e
        /\ \A e \in bs : MostIn(bs) >= e
    <2> HIDE DEF xs, ys, rs, bs
    <2> QED
      BY <1>4, <1>5, EndsOf
  <1>8. /\ LeastIn(xs) \in Int /\ LeastIn(ys) \in Int /\ MostIn(rs) \in Int /\ MostIn(bs) \in Int
    <2> HIDE DEF xs, ys, rs, bs
    <2> QED
      BY <1>4, <1>7
  <1>9. ASSUME HasBounds(n) PROVE Bounds(n).w > 0 /\ Bounds(n).h > 0
    <2>1. \A l \in ls : box[l].w > 0 /\ box[l].h > 0
      BY <1>9 DEF HasBounds, ls
    <2>2. PICK l \in ls : LeastIn(xs) = box[l].x
      BY <1>7
    <2>3. PICK k \in ls : LeastIn(ys) = box[k].y
      BY <1>7
    <2>4. box[l].x + box[l].w \in rs /\ box[k].y + box[k].h \in bs
      OBVIOUS
    <2>5. MostIn(rs) >= box[l].x + box[l].w /\ MostIn(bs) >= box[k].y + box[k].h
      BY <1>7, <2>4
    <2> HIDE DEF xs, ys, rs, bs
    <2>6. MostIn(rs) - LeastIn(xs) > 0 /\ MostIn(bs) - LeastIn(ys) > 0
      BY <1>3, <1>8, <2>1, <2>2, <2>3, <2>5
    <2> QED
      BY <1>6, <2>6
  <1> HIDE DEF xs, ys, rs, bs
  <1> QED
    BY <1>6, <1>8, <1>9

\* A divisor leaves something.
LEMMA DividedBy ==
  ASSUME NEW n \in Nat \ {0}, NEW k \in Nat \ {0}, n % k = 0
  PROVE  n \div k \in Nat \ {0}
  <1>1. n \div k \in Int
    OBVIOUS
  <1>2. n = k * (n \div k) + (n % k)
    OBVIOUS
  <1> DEFINE q == n \div k
  <1>3. q \in Int /\ n = k * q
    BY <1>1, <1>2
  <1> HIDE DEF q
  <1>4. q > 0
    <2> SUFFICES ASSUME q <= 0 PROVE FALSE
      BY <1>3
    <2>1. k * q <= 0
      BY <1>3
    <2> QED
      BY <1>3, <2>1
  <1> QED
    BY <1>3, <1>4 DEF q

\* The lowest terms of a positive fraction are positive.
LEMMA FractionIs ==
  ASSUME NEW n \in Nat \ {0}, NEW d \in Nat \ {0}
  PROVE  /\ Fraction(n, d) = [n |-> Fraction(n, d).n, d |-> Fraction(n, d).d]
         /\ Fraction(n, d).n \in Nat \ {0} /\ Fraction(n, d).d \in Nat \ {0}
  <1> DEFINE I == {k \in 1 .. d : Divides(k, n) /\ Divides(k, d)}
  <1>1. I \in SUBSET (1 .. d) /\ I # {}
    <2>1. 1 \in 1 .. d /\ Divides(1, n) /\ Divides(1, d)
      BY DEF Divides
    <2> QED
      BY <2>1
  <1>2. Max(I) \in I /\ \A i \in I : Max(I) >= i
    BY <1>1, MaxOf
  <1>3. \E k \in 1 .. d : /\ Divides(k, n) /\ Divides(k, d)
                          /\ \A j \in (k + 1) .. d : ~(Divides(j, n) /\ Divides(j, d))
    <2> DEFINE k == Max(I)
    <2>1. k \in 1 .. d /\ Divides(k, n) /\ Divides(k, d)
      BY <1>2
    <2>2. ASSUME NEW j \in (k + 1) .. d, Divides(j, n) /\ Divides(j, d) PROVE FALSE
      <3>1. j \in I
        BY <2>1, <2>2
      <3>2. k >= j
        BY <1>2, <3>1
      <3> HIDE DEF k
      <3> QED
        BY <2>1, <3>2
    <2> QED
      BY <2>1, <2>2
  <1>4. /\ Divisor(n, d) \in 1 .. d /\ Divides(Divisor(n, d), n) /\ Divides(Divisor(n, d), d)
    BY <1>3 DEF Divisor
  <1> DEFINE k == Divisor(n, d)
  <1>5. k \in Nat \ {0} /\ n % k = 0 /\ d % k = 0
    BY <1>4 DEF Divides
  <1> HIDE DEF k
  <1>6. n \div k \in Nat \ {0} /\ d \div k \in Nat \ {0}
    BY <1>5, DividedBy
  <1>7. Fraction(n, d) = [n |-> n \div k, d |-> d \div k]
    BY DEF Fraction, k
  <1> QED
    BY <1>6, <1>7

\* A ratio that is clamped is a ratio.
LEMMA ClampIs ==
  ASSUME NEW r, r.n \in Nat \ {0}, r.d \in Nat \ {0}, r = [n |-> r.n, d |-> r.d]
  PROVE  Clamp(r) \in Ratio
  <1>1. CASE Below(r, Low) \/ Below(High, r)
    BY <1>1, RatioFacts DEF Clamp
  <1>2. CASE ~(Below(r, Low) \/ Below(High, r))
    <2>1. Clamp(r) = r
      BY <1>2 DEF Clamp
    <2>2. High.n \in Nat /\ High.d \in Nat /\ 0 < High.n /\ High.n < High.d
      BY RatioFacts DEF Ratio
    <2>3. ~(High.n * r.d < r.n * High.d)
      BY <1>2 DEF Below
    <2> DEFINE a == High.n
               b == High.d
               n == r.n
               d == r.d
    <2>4. a \in Nat /\ b \in Nat /\ a < b /\ n \in Nat /\ n > 0 /\ d \in Nat /\ d > 0
          /\ ~(a * d < n * b)
      BY <2>2, <2>3
    <2> HIDE DEF a, b, n, d
    <2>5. n < d
      <3> SUFFICES ASSUME n >= d PROVE FALSE
        BY <2>4
      <3>1. a * d < b * d
        BY <2>4
      <3>2. b * d <= b * n
        BY <2>4
      <3>3. b * n = n * b /\ a * d \in Int /\ b * d \in Int /\ b * n \in Int
        BY <2>4
      <3> QED
        BY <2>4, <3>1, <3>2, <3>3
    <2>6. r \in Ratio
      BY <2>4, <2>5 DEF Ratio, n, d
    <2> QED
      BY <2>1, <2>6
  <1> QED
    BY <1>1, <1>2

\* So is one that a command has moved by a step,
LEMMA SteppedIs ==
  ASSUME NEW r \in Ratio, NEW sign \in {1, -1}
  PROVE  Stepped(r, sign) \in Ratio
  <1> DEFINE n == r.n * Step.d + sign * Step.n * r.d
             d == r.d * Step.d
  <1>1. /\ r.n \in Nat /\ r.d \in Nat \ {0} /\ Step.n \in Int /\ Step.d \in Nat \ {0}
    BY LayoutAssumption DEF Ratio
  <1>2. n \in Int
    BY <1>1
  <1>3. d \in Nat \ {0}
    BY <1>1
  <1>4. Stepped(r, sign) = IF n <= 0 THEN Low ELSE Clamp(Fraction(n, d))
    BY DEF Stepped
  <1> HIDE DEF n, d
  <1>5. n > 0 => Clamp(Fraction(n, d)) \in Ratio
    <2> SUFFICES ASSUME n > 0 PROVE Clamp(Fraction(n, d)) \in Ratio
      OBVIOUS
    <2>1. n \in Nat \ {0}
      BY <1>2
    <2> DEFINE f == Fraction(n, d)
    <2>2. f = [n |-> f.n, d |-> f.d] /\ f.n \in Nat \ {0} /\ f.d \in Nat \ {0}
      BY <1>3, <2>1, FractionIs
    <2> HIDE DEF f
    <2>3. Clamp(f) \in Ratio
      BY <2>2, ClampIs
    <2> QED
      BY <2>3 DEF f
  <1> QED
    BY <1>2, <1>4, <1>5, RatioFacts

\* and the one at which the border is at the pointer.
LEMMA RatioAtIs ==
  ASSUME NEW W, Forest(tree, W), box \in [Leaves -> Boxes],
         NEW s \in Splits, tree.split[s] # None, HasBounds(s), NEW p \in Points
  PROVE  RatioAt(s, p) \in Ratio
  <1> DEFINE o == tree.split[s].orientation
             f == Bounds(tree.split[s].first)
             c == Bounds(tree.split[s].second)
             here == From(c, o) - From(f, o) - Span(f, o)
             n == 2 * (IF o = "horizontal" THEN p.x ELSE p.y) - 2 * From(f, o) - here
             d == 2 * (Span(f, o) + Span(c, o))
  <1>1. \A k \in {tree.split[s].first, tree.split[s].second} :
          /\ k \in Nodes /\ W[k] # None
          /\ LeavesUnder(tree, k) \subseteq LeavesUnder(tree, s)
    BY KidsOf, UnderStep
  <1>2. \A k \in {tree.split[s].first, tree.split[s].second} :
          /\ Bounds(k).x \in Int /\ Bounds(k).y \in Int
          /\ Bounds(k).w \in Nat \ {0} /\ Bounds(k).h \in Nat \ {0}
    <2> TAKE k \in {tree.split[s].first, tree.split[s].second}
    <2>1. HasBounds(k)
      BY <1>1 DEF HasBounds
    <2>2. k \in Nodes /\ W[k] # None
      BY <1>1
    <2>3. /\ Bounds(k).x \in Int /\ Bounds(k).y \in Int
          /\ Bounds(k).w \in Int /\ Bounds(k).h \in Int
          /\ Bounds(k).w > 0 /\ Bounds(k).h > 0
      BY <2>1, <2>2, BoundsIs
    <2> QED
      BY <2>3
  <1>3. /\ f.x \in Int /\ f.y \in Int /\ f.w \in Nat \ {0} /\ f.h \in Nat \ {0}
        /\ c.x \in Int /\ c.y \in Int /\ c.w \in Nat \ {0} /\ c.h \in Nat \ {0}
    BY <1>2
  <1>4. p.x \in Int /\ p.y \in Int
    BY LayoutAssumption
  <1>5. RatioAt(s, p) = IF n <= 0 THEN Low ELSE Clamp(Fraction(n, d))
    BY DEF RatioAt
  <1> HIDE DEF f, c, o
  <1>6. n \in Int /\ d \in Nat \ {0}
    BY <1>3, <1>4 DEF From, Span
  <1> HIDE DEF n, d
  <1>7. n > 0 => Clamp(Fraction(n, d)) \in Ratio
    <2> SUFFICES ASSUME n > 0 PROVE Clamp(Fraction(n, d)) \in Ratio
      OBVIOUS
    <2>1. n \in Nat \ {0}
      BY <1>6
    <2> DEFINE e == Fraction(n, d)
    <2>2. e = [n |-> e.n, d |-> e.d] /\ e.n \in Nat \ {0} /\ e.d \in Nat \ {0}
      BY <1>6, <2>1, FractionIs
    <2> HIDE DEF e
    <2>3. Clamp(e) \in Ratio
      BY <2>2, ClampIs
    <2> QED
      BY <2>3 DEF e
  <1> QED
    BY <1>5, <1>6, <1>7, RatioFacts

-----------------------------------------------------------------------------
(* What the moves make of the trees, and which they leave alone.           *)

\* r has the tree of t but that the leaf n is in the tree of w, and only the
\* trees of the workspaces ws may be others.
Moves(t, W, r, X, n, w, ws) ==
    /\ Hangs(W, r, X, n, w)
    /\ \A v \in Workspaces \ ws : Elsewhere(t, r, W, v)
    /\ \A v \in Workspaces \ ws : \A m \in Nodes : W[m] = v => X[m] = v

\* The rewritings of a tree are moves of one leaf, which concern the trees
\* they take it off or hang it on.
LEMMA AttachedMoves ==
  ASSUME NEW t, NEW W, Forest(t, W), Counted(W), NEW w \in Workspaces,
         NEW s \in Splits, t.split[s] = None,
         NEW a \in Leaves, W[a] = w, NEW n \in Leaves, W[n] = None,
         NEW o \in Orientations, NEW nFirst \in BOOLEAN
  PROVE  Moves(t, W, Attached(t, w, s, a, n, o, nFirst), Grown(W, s, n, w), n, w, {w})
  <1> DEFINE r == Attached(t, w, s, a, n, o, nFirst)
             X == Grown(W, s, n, w)
             p == t.parent[a]
  <1>0. /\ a \in Nodes /\ s \in Nodes /\ n \in Nodes /\ s \notin Leaves /\ w # None /\ a # n
        /\ Leaves \subseteq Nodes /\ Splits \subseteq Nodes /\ None \notin Workspaces
    BY Constants
  <1>1. W \in [Nodes -> Workspaces \cup {None}] /\ W[s] = None
    BY ForestFacts
  <1>2. Forest(r, X)
    BY AttachedForest
  <1>3. Counted(X)
    BY <1>1, AttachedCounted
  <1>4. X[n] = w /\ \A m \in Nodes \ {s, n} : X[m] = W[m]
    BY <1>0 DEF Grown
  <1>5. p # None => W[p] = w
    BY <1>0, ForestFacts
  <1>6. p # s
    BY <1>0, <1>1, <1>5, Constants
  <1>7. /\ \A m \in Nodes \ {a, n, s} : r.parent[m] = t.parent[m]
        /\ \A q \in Splits \ {s, p} : r.split[q] = t.split[q]
    <2>1. a # n /\ t.parent[a] # s
      BY <1>0, <1>6
    <2>2. /\ r = [root |-> r.root, parent |-> r.parent, split |-> r.split]
          /\ r.root = IF p = None THEN [t.root EXCEPT ![w] = s] ELSE t.root
          /\ r.parent \in [Nodes -> Splits \cup {None}]
          /\ r.parent[a] = s /\ r.parent[n] = s /\ r.parent[s] = p
          /\ \A m \in Nodes \ {a, n, s} : r.parent[m] = t.parent[m]
          /\ r.split \in [Splits -> SplitRecord \cup {None}]
          /\ r.split[s] \in SplitRecord
          /\ r.split[s].first = (IF nFirst THEN n ELSE a)
          /\ r.split[s].second = (IF nFirst THEN a ELSE n)
          /\ p # None => r.split[p] = Exchanged(t.split[p], a, s) /\ r.split[p] \in SplitRecord
          /\ \A q \in Splits \ {s, p} : r.split[q] = t.split[q]
      BY <2>1, AttachedIs
    <2> QED
      BY <2>2
  <1> HIDE DEF r, X, p
  <1>8. ASSUME NEW v \in Workspaces \ {w}, NEW m \in Nodes, W[m] = v
        PROVE  /\ r.parent[m] = t.parent[m] /\ (m \in Splits => r.split[m] = t.split[m])
               /\ X[m] = v
    <2>1. m \notin {a, n, s} /\ m # p
      BY <1>0, <1>1, <1>5, <1>8, Constants
    <2> QED
      BY <1>4, <1>7, <1>8, <2>1
  <1>9. \A v \in Workspaces \ {w} : Elsewhere(t, r, W, v)
    BY <1>8 DEF Elsewhere
  <1>10. \A l \in Leaves \ {n} : X[l] = W[l]
    BY <1>0, <1>4
  <1> QED
    BY <1>2, <1>3, <1>4, <1>8, <1>9, <1>10 DEF Moves, Hangs, r, X

LEMMA PlantedMoves ==
  ASSUME NEW t, NEW W, Forest(t, W), Counted(W), NEW w \in Workspaces, t.root[w] = None,
         NEW n \in Leaves, W[n] = None
  PROVE  Moves(t, W, Planted(t, w, n), Grown(W, n, n, w), n, w, {w})
  <1> DEFINE r == Planted(t, w, n)
             X == Grown(W, n, n, w)
  <1>0. n \in Nodes /\ n \notin Splits /\ w # None /\ Leaves \subseteq Nodes
        /\ None \notin Workspaces
    BY Constants
  <1>1. W \in [Nodes -> Workspaces \cup {None}] /\ \A l \in Leaves : W[l] # w
    BY ForestFacts, Rooted
  <1>2. Forest(r, X)
    BY PlantedForest
  <1>3. Counted(X)
    BY <1>1, PlantedCounted
  <1>4. X[n] = w /\ \A m \in Nodes \ {n} : X[m] = W[m]
    BY <1>0 DEF Grown
  <1>5. r.parent = t.parent /\ r.split = t.split
    <2>1. t = [root |-> t.root, parent |-> t.parent, split |-> t.split]
      BY ForestFacts
    <2>2. r = [t EXCEPT !.root[w] = n]
      BY DEF Planted
    <2> QED
      BY <2>1, <2>2
  <1> HIDE DEF r, X
  <1>6. \A v \in Workspaces \ {w} : Elsewhere(t, r, W, v)
    BY <1>5 DEF Elsewhere
  <1>7. ASSUME NEW v \in Workspaces \ {w}, NEW m \in Nodes, W[m] = v PROVE X[m] = v
    <2>1. m # n
      BY <1>0, <1>7
    <2> QED
      BY <1>4, <1>7, <2>1
  <1>8. \A l \in Leaves \ {n} : X[l] = W[l]
    BY <1>0, <1>4
  <1> QED
    BY <1>2, <1>3, <1>4, <1>6, <1>7, <1>8 DEF Moves, Hangs, r, X

LEMMA DetachedMoves ==
  ASSUME NEW t, NEW W, Forest(t, W), Counted(W), NEW n \in Leaves, W[n] # None
  PROVE  Moves(t, W, Detached(t, W[n], n), Pruned(W, n, t.parent[n]), n, None, {W[n]})
  <1> DEFINE w == W[n]
             r == Detached(t, w, n)
             p == t.parent[n]
             X == Pruned(W, n, p)
  <1>0. n \in Nodes /\ n \notin Splits /\ None \notin Workspaces /\ None \notin Nodes
        /\ Leaves \subseteq Nodes /\ Splits \subseteq Nodes
    BY Constants
  <1>1. W \in [Nodes -> Workspaces \cup {None}]
    BY ForestFacts
  <1>2. w \in Workspaces
    BY <1>0, <1>1
  <1>3. Forest(r, X)
    BY DetachedForest
  <1>4. Counted(X)
    BY DetachedCounted
  <1>5. p # None => p \in Splits /\ p \in Nodes /\ W[p] = w
    BY <1>0, ForestFacts
  <1>6. X[n] = None /\ \A m \in Nodes \ {n, p} : X[m] = W[m]
    BY <1>0 DEF Pruned
  <1>7. ASSUME NEW m \in Nodes, W[m] # w
        PROVE  r.parent[m] = t.parent[m] /\ (m \in Splits => r.split[m] = t.split[m])
    <2>1. CASE p = None
      <3>1. t = [root |-> t.root, parent |-> t.parent, split |-> t.split]
        BY ForestFacts
      <3>2. r = [t EXCEPT !.root[w] = None]
        BY <2>1 DEF Detached
      <3>3. r.parent = t.parent /\ r.split = t.split
        BY <3>1, <3>2
      <3> HIDE DEF r
      <3> QED
        BY <3>3
    <2>2. CASE p # None
      <3> DEFINE b == Sibling(t, n)
                 q == t.parent[p]
      <3>1. /\ \A k \in Nodes \ {p, b, n} : r.parent[k] = t.parent[k]
            /\ \A k \in Splits \ {p, q} : r.split[k] = t.split[k]
        <4>1. t.parent[n] # None
          BY <2>2
        <4>2. /\ r = [root |-> r.root, parent |-> r.parent, split |-> r.split]
              /\ r.root = IF q = None THEN [t.root EXCEPT ![w] = b] ELSE t.root
              /\ r.parent \in [Nodes -> Splits \cup {None}]
              /\ r.parent[b] = q /\ r.parent[p] = None /\ r.parent[n] = None
              /\ \A k \in Nodes \ {p, b, n} : r.parent[k] = t.parent[k]
              /\ r.split \in [Splits -> SplitRecord \cup {None}]
              /\ r.split[p] = None
              /\ q # None => r.split[q] = Exchanged(t.split[q], p, b) /\ r.split[q] \in SplitRecord
              /\ \A k \in Splits \ {p, q} : r.split[k] = t.split[k]
          BY <1>2, <4>1, DetachedIs
        <4> QED
          BY <4>2
      <3>2. b \in Nodes /\ t.parent[b] = p
        BY <1>0, <2>2, SiblingIs
      <3>3. W[b] = w
        BY <1>5, <2>2, <3>2, ForestFacts
      <3>4. q # None => W[q] = w
        BY <1>5, <2>2, ForestFacts
      <3> HIDE DEF r, b, q, p, w
      <3>5. m \notin {p, b, n}
        BY <1>5, <1>7, <2>2, <3>3 DEF w
      <3>6. m \in Splits => m \notin {p, q}
        BY <1>0, <1>7, <3>4, <3>5
      <3> QED
        BY <3>1, <3>5, <3>6
    <2> QED
      BY <2>1, <2>2
  <1> HIDE DEF r, X, p, w
  <1>8. \A v \in Workspaces \ {w} : Elsewhere(t, r, W, v)
    BY <1>7 DEF Elsewhere
  <1>9. ASSUME NEW v \in Workspaces \ {w}, NEW m \in Nodes, W[m] = v PROVE X[m] = v
    <2>1. m # n /\ m # p
      BY <1>0, <1>5, <1>9 DEF w
    <2> QED
      BY <1>6, <1>9, <2>1
  <1>10. \A l \in Leaves \ {n} : X[l] = W[l]
    <2>1. \A l \in Leaves : l # p
      BY <1>0, <1>5, Constants
    <2> QED
      BY <1>0, <1>6, <2>1
  <1> QED
    BY <1>3, <1>4, <1>6, <1>8, <1>9, <1>10 DEF Moves, Hangs, r, X, p, w

\* One move after another.
LEMMA MovesTwice ==
  ASSUME NEW t, NEW W, NEW r, NEW X, NEW q, NEW Y, NEW n \in Leaves, NEW w, NEW v,
         NEW ws, NEW us, Moves(t, W, r, X, n, w, ws), Moves(r, X, q, Y, n, v, us)
  PROVE  Moves(t, W, q, Y, n, v, ws \cup us)
  <1>1. /\ \A x \in Workspaces \ ws : Elsewhere(t, r, W, x)
        /\ \A x \in Workspaces \ ws : \A m \in Nodes : W[m] = x => X[m] = x
        /\ \A l \in Leaves \ {n} : X[l] = W[l]
    BY DEF Moves, Hangs
  <1>2. /\ \A x \in Workspaces \ us : Elsewhere(r, q, X, x)
        /\ \A x \in Workspaces \ us : \A m \in Nodes : X[m] = x => Y[m] = x
        /\ \A l \in Leaves \ {n} : Y[l] = X[l]
        /\ Forest(q, Y) /\ Counted(Y) /\ Y[n] = v
    BY DEF Moves, Hangs
  <1>3. ASSUME NEW x \in Workspaces \ (ws \cup us), NEW m \in Nodes, W[m] = x
        PROVE  /\ q.parent[m] = t.parent[m] /\ (m \in Splits => q.split[m] = t.split[m])
               /\ Y[m] = x
    <2>1. /\ X[m] = x
          /\ r.parent[m] = t.parent[m] /\ (m \in Splits => r.split[m] = t.split[m])
      BY <1>1, <1>3 DEF Elsewhere
    <2>2. /\ Y[m] = x
          /\ q.parent[m] = r.parent[m] /\ (m \in Splits => q.split[m] = r.split[m])
      BY <1>2, <1>3, <2>1 DEF Elsewhere
    <2> QED
      BY <2>1, <2>2
  <1>4. \A x \in Workspaces \ (ws \cup us) : Elsewhere(t, q, W, x)
    BY <1>3 DEF Elsewhere
  <1>5. \A l \in Leaves \ {n} : Y[l] = W[l]
    BY <1>1, <1>2
  <1> QED
    BY <1>2, <1>3, <1>4, <1>5 DEF Moves, Hangs

\* A split gets another ratio or orientation.
LEMMA Restyled ==
  ASSUME NEW t, NEW W, Forest(t, W), NEW s \in Splits, t.split[s] # None,
         NEW x \in SplitRecord, x.first = t.split[s].first, x.second = t.split[s].second,
         NEW r, r = [t EXCEPT !.split[s] = x]
  PROVE  /\ Forest(r, W)
         /\ \A v \in Workspaces \ {W[s]} : Elsewhere(t, r, W, v)
  <1>1. /\ t = [root |-> t.root, parent |-> t.parent, split |-> t.split]
        /\ t.root \in [Workspaces -> Nodes \cup {None}]
        /\ t.parent \in [Nodes -> Splits \cup {None}]
        /\ t.split \in [Splits -> SplitRecord \cup {None}]
    BY ForestFacts
  <1>2. r = [root |-> t.root, parent |-> t.parent, split |-> [t.split EXCEPT ![s] = x]]
    BY <1>1
  <1>3. /\ r.root = t.root /\ r.parent = t.parent
        /\ r.split \in [Splits -> SplitRecord \cup {None}]
        /\ r.split[s] = x /\ \A q \in Splits \ {s} : r.split[q] = t.split[q]
    BY <1>1, <1>2
  <1>4. x # None
    BY Constants
  <1>5. \A q \in Splits : /\ r.split[q] # None <=> t.split[q] # None
                          /\ r.split[q] # None => /\ r.split[q].first = t.split[q].first
                                                  /\ r.split[q].second = t.split[q].second
    BY <1>3, <1>4
  <1>6. \A q \in Splits : r.split[q] # None => Kids(r, q) = Kids(t, q)
    BY <1>5 DEF Kids
  <1>7. Labelled(t, W) /\ Paired(t) /\ Grounded(t.parent)
        /\ W \in [Nodes -> Workspaces \cup {None}]
    BY DEF Forest
  <1>8. Labelled(r, W)
    <2>1. \A q \in Splits : r.split[q] # None <=> W[q] # None
      BY <1>5, <1>7 DEF Labelled
    <2>2. \A n \in Nodes : t.parent[n] # None =>
             t.parent[n] \in Splits /\ r.split[t.parent[n]] # None
      BY <1>5, ForestFacts
    <2>3. ASSUME NEW n \in Nodes
          PROVE  IF r.parent[n] = None THEN W[n] # None => r.root[W[n]] = n
                 ELSE /\ W[n] # None /\ W[r.parent[n]] = W[n]
                      /\ n \in Kids(r, r.parent[n])
      <3>1. IF t.parent[n] = None THEN W[n] # None => t.root[W[n]] = n
            ELSE /\ W[n] # None /\ W[t.parent[n]] = W[n] /\ n \in Kids(t, t.parent[n])
        BY <1>7 DEF Labelled
      <3> QED
        BY <1>3, <1>6, <2>2, <3>1
    <2>4. \A w \in Workspaces : r.root[w] # None => W[r.root[w]] = w /\ r.parent[r.root[w]] = None
      BY <1>3, <1>7 DEF Labelled
    <2> QED
      BY <2>1, <2>3, <2>4 DEF Labelled
  <1>9. Paired(r)
    BY <1>3, <1>5, <1>6, <1>7 DEF Paired
  <1>10. Forest(r, W)
    BY <1>2, <1>3, <1>1, <1>7, <1>8, <1>9 DEF Forest, Trees
  <1>11. \A v \in Workspaces \ {W[s]} : Elsewhere(t, r, W, v)
    BY <1>3 DEF Elsewhere
  <1> QED
    BY <1>10, <1>11

-----------------------------------------------------------------------------
(* The invariant.                                                          *)

\* The tiles are sound, and those shown are where their tree puts them.
LInv ==
    /\ IInv
    /\ BoxTypes(box, told)
    /\ Laid(tree, tile, home, box, told, visible, bar, gap)

\* What is shown is laid out: it was laid out just now, or nothing that it is
\* laid out by has changed.
LEMMA Reflowed ==
  ASSUME LInv, NEW W, Sound(tree, W, tile, tileOf, list, home),
         NEW t, NEW X, NEW tl, NEW of, NEW ls, NEW hm, Sound(t, X, tl, of, ls, hm),
         NEW ws \in SUBSET Workspaces, NEW thick \in Bars, NEW policy \in Gaps,
         NEW v \in Workspaces, ReflowWith(ws, t, tl, thick, policy),
         v \notin ws => /\ v = visible /\ thick = bar /\ policy = gap
                        /\ Elsewhere(tree, t, W, v)
                        /\ \A l \in Leaves : X[l] = v => W[l] = v /\ tl[l] = tile[l]
  PROVE  BoxTypes(box', told') /\ Laid(t, tl, hm, box', told', v, thick, policy)
  <1>1. /\ tl \in [Leaves -> Groups \cup {None}]
        /\ \A l \in Leaves : tl[l] # None => of[tl[l]] = l
        /\ \A l \in Leaves : X[l] = IF tl[l] = None THEN None ELSE hm[tl[l]]
        /\ \A l \in Leaves : X[l] = None <=> tl[l] = None
    BY SoundFacts
  <1>2. Forest(t, X) /\ Forest(tree, W)
    BY DEF Sound, Hung
  <1>4. BoxTypes(box, told) /\ Laid(tree, tile, home, box, told, visible, bar, gap)
    BY DEF LInv
  <1>5. /\ BoxTypes(box', told')
        /\ \A l \in Leaves : X[l] \in ws =>
             /\ box'[l] = LayoutNode(t, l, Area(thick, policy), policy.inner)
             /\ Pixels(box'[l]) => told'[tl[l]] = Content(box'[l])
        /\ \A l \in Leaves : X[l] # None /\ X[l] \notin ws =>
             box'[l] = box[l] /\ told'[tl[l]] = told[tl[l]]
    <2>1. BoxTypes(box, told)
      BY <1>4
    <2>2. BoxTypes(box', told') /\ Redone(t, X, tl, ws, thick, policy)
      BY <2>1, ReflowIs
    <2> QED
      BY <2>2 DEF Redone
  <1>6. ASSUME NEW l \in Leaves, Place(tl, hm, l) = v
        PROVE  /\ box'[l] = LayoutNode(t, l, Area(thick, policy), policy.inner)
               /\ Pixels(box'[l]) => told'[tl[l]] = Content(box'[l])
    <2>1. X[l] = v /\ v # None
      BY <1>1, <1>6, Constants DEF Place
    <2>2. CASE v \in ws
      BY <1>5, <2>1, <2>2
    <2>3. CASE v \notin ws
      <3>1. W[l] = v /\ tl[l] = tile[l] /\ v = visible /\ thick = bar /\ policy = gap
        BY <2>1, <2>3
      <3>2. Place(tile, home, l) = v
        BY <3>1 DEF Sound, Hung
      <3>3. /\ box[l] = LayoutNode(tree, l, Area(thick, policy), policy.inner)
            /\ Pixels(box[l]) => told[tile[l]] = Content(box[l])
        BY <1>4, <3>1, <3>2 DEF Laid
      <3>4. box'[l] = box[l] /\ told'[tl[l]] = told[tl[l]]
        BY <1>5, <2>1, <2>3
      <3>5. LayoutNode(t, l, Area(thick, policy), policy.inner)
              = LayoutNode(tree, l, Area(thick, policy), policy.inner)
        <4>1. Area(thick, policy) \in Upright /\ policy.inner \in Nat
          BY AreaIs
        <4>2. Elsewhere(tree, t, W, v) /\ l \in Nodes
          BY <2>3, Constants
        <4> QED
          BY <1>2, <3>1, <4>1, <4>2, SameBoxes
      <3> QED
        BY <3>1, <3>3, <3>4, <3>5
    <2> QED
      BY <2>2, <2>3
  <1> QED
    BY <1>5, <1>6 DEF Laid

-----------------------------------------------------------------------------
(* The steps that change the trees.                                        *)

\* The part of the invariant that a change of the trees can disturb.
Fitting ==
    /\ TilesOK(tree, tile, tileOf, list, home)
    /\ BoxTypes(box, told)
    /\ Laid(tree, tile, home, box, told, visible, bar, gap)

LEMMA LInvParts == LInv <=> Fitting /\ ScreenTypes /\ ActiveHome
  BY DEF LInv, IInv, Fitting

\* A move of one leaf followed by the reflow of the workspaces it concerns
\* keeps the tiles and the boxes sound.
LEMMA MovedFits ==
  ASSUME LInv, NEW W, Sound(tree, W, tile, tileOf, list, home),
         NEW X, NEW n \in Leaves, NEW w, NEW ws \in SUBSET Workspaces, w \in ws \cup {None},
         Moves(tree, W, tree', X, n, w, ws), Sound(tree', X, tile', tileOf', list', home'),
         Reflow(ws, tree', tile'), \A l \in Leaves \ {n} : tile'[l] = tile[l],
         UNCHANGED screenVars
  PROVE  Fitting'
  <1>1. visible \in Workspaces /\ bar \in Bars /\ gap \in Gaps
    BY DEF LInv, IInv, ScreenTypes
  <1>2. /\ X[n] = w /\ \A l \in Leaves \ {n} : X[l] = W[l]
        /\ \A v \in Workspaces \ ws : Elsewhere(tree, tree', W, v)
    BY DEF Moves, Hangs
  <1>3. ReflowWith(ws, tree', tile', bar, gap)
    BY DEF Reflow
  <1>4. visible \notin ws => /\ visible = visible /\ bar = bar /\ gap = gap
                             /\ Elsewhere(tree, tree', W, visible)
                             /\ \A l \in Leaves : X[l] = visible =>
                                  W[l] = visible /\ tile'[l] = tile[l]
    <2>1. visible # None
      BY <1>1, Constants
    <2> QED
      BY <1>1, <1>2, <2>1
  <1>5. /\ BoxTypes(box', told')
        /\ Laid(tree', tile', home', box', told', visible, bar, gap)
    BY <1>1, <1>3, <1>4, Reflowed
  <1>6. TilesOK(tree', tile', tileOf', list', home')
    BY SoundIs
  <1>7. visible' = visible /\ bar' = bar /\ gap' = gap
    BY DEF screenVars
  <1> QED
    BY <1>5, <1>6, <1>7 DEF Fitting

\* onyrion_layout_add_group
LEMMA EnterFits ==
  ASSUME LInv, NEW g \in Groups, tileOf[g] = None, NEW w \in Workspaces,
         NEW o \in Orientations, Enter(g, w, o), UNCHANGED screenVars,
         home' \in [Groups -> Workspaces \cup {None}], home'[g] = w,
         \A h \in Groups \ {g} : home'[h] = home[h]
  PROVE  Fitting'
  <1> DEFINE n == NewLeaf
             s == NewSplit
             a == Anchor(w)
  <1>1. TilesOK(tree, tile, tileOf, list, home) /\ IInv
    BY DEF LInv, IInv
  <1>2. PICK W : Sound(tree, W, tile, tileOf, list, home)
    BY <1>1, SoundIs
  <1>3. /\ TileTypes(tile, tileOf, list, home) /\ Matched(tile, tileOf, home)
        /\ Hung(tree, W, tile, home) /\ Listed(list, tile, home)
        /\ Forest(tree, W) /\ Counted(W)
    BY <1>2 DEF Sound, Hung
  <1>4. n \in Leaves /\ tile[n] = None
    BY <1>1, NewLeafIs
  <1> HIDE DEF n
  <1>5. W[n] = None
    BY <1>2, <1>4, SoundFacts
  <1>6. /\ tile' = [tile EXCEPT ![n] = g] /\ tileOf' = [tileOf EXCEPT ![g] = n]
        /\ list' = [list EXCEPT ![w] = Append(@, n)]
        /\ tree' = IF tree.root[w] = None THEN Planted(tree, w, n)
                   ELSE Attached(tree, w, s, a, n, o, FALSE)
        /\ Reflow({w}, tree', tile')
    BY DEF Enter, n
  <1>7. \E X : Moves(tree, W, tree', X, n, w, {w})
    <2>1. CASE tree.root[w] = None
      <3>1. Moves(tree, W, Planted(tree, w, n), Grown(W, n, n, w), n, w, {w})
        BY <1>3, <1>4, <1>5, <2>1, PlantedMoves
      <3>2. tree' = Planted(tree, w, n)
        BY <1>6, <2>1
      <3> QED
        BY <3>1, <3>2
    <2>2. CASE tree.root[w] # None
      <3>1. a \in Leaves /\ W[a] = w /\ tile[a] # None
        BY <1>1, <1>3, <2>2, AnchorIs
      <3>2. s \in Splits /\ tree.split[s] = None
        BY <1>1, <3>1, NewSplitIs
      <3> HIDE DEF s, a
      <3>3. Moves(tree, W, Attached(tree, w, s, a, n, o, FALSE), Grown(W, s, n, w), n, w, {w})
        BY <1>3, <1>4, <1>5, <3>1, <3>2, AttachedMoves
      <3>4. tree' = Attached(tree, w, s, a, n, o, FALSE)
        BY <1>6, <2>2
      <3> QED
        BY <3>3, <3>4
    <2> QED
      BY <2>1, <2>2
  <1> HIDE DEF s, a
  <1>8. PICK X : Moves(tree, W, tree', X, n, w, {w})
    BY <1>7
  <1>10. Sound(tree', X, [tile EXCEPT ![n] = g], [tileOf EXCEPT ![g] = n],
               [list EXCEPT ![w] = Append(@, n)], home')
    <2>1. Rehomed(home, home', g)
      BY DEF Rehomed
    <2>2. Hangs(W, tree', X, n, w)
      BY <1>8 DEF Moves
    <2> QED
      BY <1>2, <1>4, <2>1, <2>2, Entered
  <1>11. Sound(tree', X, tile', tileOf', list', home')
    BY <1>6, <1>10
  <1>12. \A l \in Leaves \ {n} : tile'[l] = tile[l]
    BY <1>2, <1>6, SoundFacts
  <1>13. {w} \in SUBSET Workspaces /\ w \in {w} \cup {None} /\ Reflow({w}, tree', tile')
    BY <1>6
  <1> QED
    BY <1>2, <1>4, <1>8, <1>11, <1>12, <1>13, MovedFits

\* onyrion_layout_remove_group
LEMMA LeaveFits ==
  ASSUME LInv, NEW g \in Groups, tileOf[g] # None, Leave(g, home[g]), UNCHANGED screenVars,
         home' \in [Groups -> Workspaces \cup {None}],
         \A h \in Groups \ {g} : home'[h] = home[h]
  PROVE  Fitting'
  <1> DEFINE n == tileOf[g]
             w == home[g]
  <1>1. TilesOK(tree, tile, tileOf, list, home)
    BY DEF LInv, IInv
  <1>2. PICK W : Sound(tree, W, tile, tileOf, list, home)
    BY <1>1, SoundIs
  <1>3. /\ TileTypes(tile, tileOf, list, home) /\ Matched(tile, tileOf, home)
        /\ Hung(tree, W, tile, home) /\ Listed(list, tile, home)
        /\ Forest(tree, W) /\ Counted(W)
    BY <1>2 DEF Sound, Hung
  <1>4. /\ n \in Leaves /\ w \in Workspaces /\ W[n] = w /\ w # None
        /\ tileOf[g] = n /\ home[g] = w
    BY <1>2, SoundFacts, Constants
  <1>5. /\ tree' = Detached(tree, w, n)
        /\ tile' = [tile EXCEPT ![n] = None] /\ tileOf' = [tileOf EXCEPT ![g] = None]
        /\ list' = [list EXCEPT ![w] = RemoveFirst(@, n)]
        /\ Reflow({w}, tree', tile')
    BY DEF Leave
  <1> HIDE DEF n, w
  <1> DEFINE X == Pruned(W, n, tree.parent[n])
  <1>6. Moves(tree, W, tree', X, n, None, {w})
    <2>1. Moves(tree, W, Detached(tree, W[n], n), Pruned(W, n, tree.parent[n]), n, None, {W[n]})
      BY <1>3, <1>4, DetachedMoves
    <2> QED
      BY <1>4, <1>5, <2>1
  <1> HIDE DEF X
  <1>10. Sound(tree', X, [tile EXCEPT ![n] = None], [tileOf EXCEPT ![g] = None],
               [list EXCEPT ![w] = RemoveFirst(@, n)], home')
    <2>1. Rehomed(home, home', g)
      BY DEF Rehomed
    <2>2. Hangs(W, tree', X, n, None)
      BY <1>6 DEF Moves
    <2> QED
      BY <1>2, <1>4, <2>1, <2>2, Left
  <1>11. Sound(tree', X, tile', tileOf', list', home')
    BY <1>5, <1>10
  <1>12. \A l \in Leaves \ {n} : tile'[l] = tile[l]
    BY <1>2, <1>5, SoundFacts
  <1>13. {w} \in SUBSET Workspaces /\ None \in {w} \cup {None} /\ Reflow({w}, tree', tile')
    BY <1>4, <1>5
  <1> QED
    BY <1>2, <1>4, <1>6, <1>11, <1>12, <1>13, MovedFits

\* The sibling of the split stays where it is when a leaf goes, and what was
\* free stays free.
LEMMA OutIs ==
  ASSUME NEW W, Forest(tree, W), Counted(W), NEW n \in Leaves, NEW w \in Workspaces, W[n] = w
  PROVE  LET out == Detached(tree, w, n)
             X == Pruned(W, n, tree.parent[n])
         IN /\ Moves(tree, W, out, X, n, None, {w})
            /\ \A s \in Splits : tree.split[s] = None => out.split[s] = None
            /\ \A v \in Workspaces \ {w} : tree.root[v] = None <=> out.root[v] = None
  <1> DEFINE out == Detached(tree, w, n)
             X == Pruned(W, n, tree.parent[n])
  <1>0. w # None
    BY Constants
  <1>1. Moves(tree, W, out, X, n, None, {w})
    <2>1. Moves(tree, W, Detached(tree, W[n], n), Pruned(W, n, tree.parent[n]), n, None, {W[n]})
      BY <1>0, DetachedMoves
    <2> QED
      BY <2>1
  <1>2. \A m \in Nodes : W[m] = None => X[m] = None
    BY DEF Pruned
  <1> HIDE DEF out, X
  <1>3. Forest(out, X) /\ \A l \in Leaves \ {n} : X[l] = W[l] /\ X[n] = None
    BY <1>1 DEF Moves, Hangs
  <1>4. ASSUME NEW s \in Splits, tree.split[s] = None PROVE out.split[s] = None
    <2>1. W[s] = None
      BY <1>4, ForestFacts
    <2>2. X[s] = None
      BY <1>2, <2>1, Constants
    <2> QED
      BY <1>3, <2>2, ForestFacts
  <1>5. ASSUME NEW v \in Workspaces \ {w} PROVE tree.root[v] = None <=> out.root[v] = None
    <2>1. tree.root[v] # None <=> \E l \in Leaves : W[l] = v
      BY Rooted
    <2>2. out.root[v] # None <=> \E l \in Leaves : X[l] = v
      BY <1>3, Rooted
    <2>3. \A l \in Leaves : X[l] = v <=> W[l] = v
      <3>1. X[n] = None
        BY <1>1 DEF Moves, Hangs
      <3> QED
        BY <1>3, <3>1, <1>5, Constants
    <2> QED
      BY <2>1, <2>2, <2>3
  <1> QED
    BY <1>1, <1>4, <1>5 DEF out, X

\* A forest with the same leaves has the same tiles.
LEMMA SameTiles ==
  ASSUME NEW t, NEW W, NEW tl, NEW of, NEW ls, NEW hm, Sound(t, W, tl, of, ls, hm),
         NEW r, NEW X, Forest(r, X), Counted(X), \A l \in Leaves : X[l] = W[l]
  PROVE  Sound(r, X, tl, of, ls, hm)
  BY DEF Sound, Hung

\* A leaf is put beside another one.
LEMMA BesideMoves ==
  ASSUME NEW W, Forest(tree, W), Counted(W), NEW n \in Leaves, NEW from \in Workspaces,
         W[n] = from, NEW w \in Workspaces, NEW a \in Leaves, a # n, W[a] = w,
         NEW s \in Splits, tree.split[s] = None, NEW o \in Orientations, NEW nFirst \in BOOLEAN
  PROVE  \E Y : Moves(tree, W, Attached(Detached(tree, from, n), w, s, a, n, o, nFirst), Y,
                      n, w, {from} \cup {w})
  <1> DEFINE out == Detached(tree, from, n)
             X == Pruned(W, n, tree.parent[n])
  <1>1. /\ Moves(tree, W, out, X, n, None, {from})
        /\ out.split[s] = None
    BY OutIs
  <1> HIDE DEF out, X
  <1>2. Forest(out, X) /\ Counted(X) /\ X[n] = None /\ X[a] = w
    BY <1>1 DEF Moves, Hangs
  <1> DEFINE Y == Grown(X, s, n, w)
             r == Attached(out, w, s, a, n, o, nFirst)
  <1>3. Moves(out, X, r, Y, n, w, {w})
    BY <1>1, <1>2, AttachedMoves
  <1> HIDE DEF Y, r
  <1>4. Moves(tree, W, r, Y, n, w, {from} \cup {w})
    BY <1>1, <1>3, MovesTwice
  <1> QED
    BY <1>4 DEF r, out

\* A leaf becomes the tree of a workspace that has none.
LEMMA AloneMoves ==
  ASSUME NEW W, Forest(tree, W), Counted(W), NEW n \in Leaves, NEW from \in Workspaces,
         W[n] = from, NEW w \in Workspaces, w # from, tree.root[w] = None
  PROVE  \E Y : Moves(tree, W, Planted(Detached(tree, from, n), w, n), Y,
                      n, w, {from} \cup {w})
  <1> DEFINE out == Detached(tree, from, n)
             X == Pruned(W, n, tree.parent[n])
  <1>1. /\ Moves(tree, W, out, X, n, None, {from})
        /\ out.root[w] = None
    BY OutIs
  <1> HIDE DEF out, X
  <1>2. Forest(out, X) /\ Counted(X) /\ X[n] = None
    BY <1>1 DEF Moves, Hangs
  <1> DEFINE Y == Grown(X, n, n, w)
             r == Planted(out, w, n)
  <1>3. Moves(out, X, r, Y, n, w, {w})
    BY <1>1, <1>2, PlantedMoves
  <1> HIDE DEF Y, r
  <1>4. Moves(tree, W, r, Y, n, w, {from} \cup {w})
    BY <1>1, <1>3, MovesTwice
  <1> QED
    BY <1>4 DEF r, out

\* onyrion_layout_move_group_to_workspace
LEMMA MoveFits ==
  ASSUME LInv, NEW g \in Groups, NEW w \in Workspaces, MoveToWorkspace(g, w)
  PROVE  Fitting'
  <1> DEFINE n == tileOf[g]
             from == home[g]
             s == NewSplit
             a == Anchor(w)
  <1>1. TilesOK(tree, tile, tileOf, list, home) /\ IInv
    BY DEF LInv, IInv
  <1>2. PICK W : Sound(tree, W, tile, tileOf, list, home)
    BY <1>1, SoundIs
  <1>3. Hung(tree, W, tile, home) /\ Forest(tree, W) /\ Counted(W)
    BY <1>2 DEF Sound, Hung
  <1>4. /\ n \in Leaves /\ from \in Workspaces /\ W[n] = from /\ tile[n] = g
        /\ n # None /\ w # from
    BY <1>2, SoundFacts, Constants DEF MoveToWorkspace
  <1>5. /\ tree' = IF tree.root[w] = None THEN Planted(Detached(tree, from, n), w, n)
                   ELSE Attached(Detached(tree, from, n), w, s, a, n, "horizontal", FALSE)
        /\ list' = [list EXCEPT ![from] = RemoveFirst(@, n), ![w] = Append(@, n)]
        /\ home' = [home EXCEPT ![g] = w]
        /\ Reflow({from, w}, tree', tile)
        /\ tile' = tile /\ tileOf' = tileOf /\ UNCHANGED screenVars
    BY DEF MoveToWorkspace
  <1>6. \E Y : Moves(tree, W, tree', Y, n, w, {from} \cup {w})
    <2>1. CASE tree.root[w] = None
      <3>1. \E Y : Moves(tree, W, Planted(Detached(tree, from, n), w, n), Y, n, w,
                         {from} \cup {w})
        <4> HIDE DEF n, from
        <4> QED
          BY <1>3, <1>4, <2>1, AloneMoves
      <3> QED
        BY <1>5, <2>1, <3>1
    <2>2. CASE tree.root[w] # None
      <3>1. a \in Leaves /\ W[a] = w /\ tile[a] # None
        BY <1>1, <1>3, <2>2, AnchorIs
      <3>2. s \in Splits /\ tree.split[s] = None
        BY <1>1, <3>1, NewSplitIs
      <3>3. a # n
        BY <1>4, <3>1
      <3>4. "horizontal" \in Orientations /\ FALSE \in BOOLEAN
        BY DEF Orientations
      <3>5. \E Y : Moves(tree, W, Attached(Detached(tree, from, n), w, s, a, n, "horizontal", FALSE),
                         Y, n, w, {from} \cup {w})
        <4> HIDE DEF n, from, s, a
        <4> QED
          BY <1>3, <1>4, <3>1, <3>2, <3>3, <3>4, BesideMoves
      <3> QED
        BY <1>5, <2>2, <3>5
    <2> QED
      BY <2>1, <2>2
  <1> HIDE DEF n, from, s, a
  <1>7. PICK Y : Moves(tree, W, tree', Y, n, w, {from} \cup {w})
    BY <1>6
  <1>8. Sound(tree', Y, tile, tileOf,
              [list EXCEPT ![from] = RemoveFirst(@, n), ![w] = Append(@, n)],
              [home EXCEPT ![g] = w])
    <2>1. Hangs(W, tree', Y, n, w)
      BY <1>7 DEF Moves
    <2>2. tileOf[g] = n /\ home[g] = from
      BY DEF n, from
    <2> QED
      BY <1>2, <1>4, <2>1, <2>2, Moved
  <1>9. Sound(tree', Y, tile', tileOf', list', home')
    BY <1>5, <1>8
  <1>10. /\ {from} \cup {w} \in SUBSET Workspaces /\ w \in ({from} \cup {w}) \cup {None}
         /\ \A l \in Leaves \ {n} : tile'[l] = tile[l]
    BY <1>4, <1>5
  <1>11. Reflow({from} \cup {w}, tree', tile')
    <2>1. {from, w} = {from} \cup {w}
      OBVIOUS
    <2> QED
      BY <1>5, <2>1
  <1> QED
    BY <1>2, <1>4, <1>5, <1>7, <1>9, <1>10, <1>11, MovedFits

\* onyrion_layout_move_group_relative
LEMMA RelativeFits ==
  ASSUME LInv, NEW g \in Groups, NEW target \in Groups, NEW d, MoveRelative(g, target, d)
  PROVE  Fitting'
  <1> DEFINE n == tileOf[g]
             w == home[g]
             s == NewSplit
             a == tileOf[target]
             nFirst == (d \in {"left", "up"})
             o == Direction(d)
  <1>1. TilesOK(tree, tile, tileOf, list, home)
    BY DEF LInv, IInv
  <1>2. PICK W : Sound(tree, W, tile, tileOf, list, home)
    BY <1>1, SoundIs
  <1>3. Hung(tree, W, tile, home) /\ Forest(tree, W) /\ Counted(W)
    BY <1>2 DEF Sound, Hung
  <1>4. /\ n \in Leaves /\ w \in Workspaces /\ W[n] = w /\ tile[n] = g
        /\ a \in Leaves /\ W[a] = w /\ tile[a] = target /\ a # n
    BY <1>2, SoundFacts, Constants DEF MoveRelative
  <1>5. /\ tree' = Attached(Detached(tree, w, n), w, s, a, n, o, nFirst)
        /\ Reflow({w}, tree', tile)
        /\ tile' = tile /\ tileOf' = tileOf /\ list' = list /\ home' = home
        /\ UNCHANGED screenVars
    BY DEF MoveRelative
  <1>6. s \in Splits /\ tree.split[s] = None
    BY <1>1, <1>4, NewSplitIs, Constants
  <1>7. nFirst \in BOOLEAN /\ o \in Orientations
    BY DEF Direction, Orientations
  <1> HIDE DEF n, w, s, a, o, nFirst
  <1>8. PICK Y : Moves(tree, W, tree', Y, n, w, {w} \cup {w})
    <2>1. \E Y : Moves(tree, W, Attached(Detached(tree, w, n), w, s, a, n, o, nFirst), Y,
                       n, w, {w} \cup {w})
      BY <1>3, <1>4, <1>6, <1>7, BesideMoves
    <2> QED
      BY <1>5, <2>1
  <1>9. Sound(tree', Y, tile, tileOf, list, home)
    <2>1. Forest(tree', Y) /\ Counted(Y) /\ \A l \in Leaves : Y[l] = W[l]
      BY <1>4, <1>8 DEF Moves, Hangs
    <2> QED
      BY <1>2, <2>1, SameTiles
  <1>10. Sound(tree', Y, tile', tileOf', list', home')
    BY <1>5, <1>9
  <1>11. /\ {w} \cup {w} \in SUBSET Workspaces /\ w \in ({w} \cup {w}) \cup {None}
         /\ \A l \in Leaves \ {n} : tile'[l] = tile[l]
    BY <1>4, <1>5
  <1>12. Reflow({w} \cup {w}, tree', tile')
    <2>1. {w} = {w} \cup {w}
      OBVIOUS
    <2> QED
      BY <1>5, <2>1
  <1> QED
    BY <1>2, <1>4, <1>5, <1>8, <1>10, <1>11, <1>12, MovedFits

\* A split gets another ratio or orientation, and its workspace is laid out.
LEMMA RestyledFits ==
  ASSUME LInv, NEW s \in Splits, tree.split[s] # None,
         NEW x \in SplitRecord, x.first = tree.split[s].first, x.second = tree.split[s].second,
         tree' = [tree EXCEPT !.split[s] = x],
         NEW ws \in SUBSET Workspaces, Reflow(ws, tree', tile),
         \A W : Sound(tree, W, tile, tileOf, list, home) => W[s] \in ws,
         UNCHANGED <<tile, tileOf, list, home, screenVars>>
  PROVE  Fitting'
  <1>1. PICK W : Sound(tree, W, tile, tileOf, list, home)
    BY SoundIs DEF LInv, IInv
  <1>2. Forest(tree, W) /\ Counted(W)
    BY <1>1 DEF Sound, Hung
  <1>3. /\ Forest(tree', W)
        /\ \A v \in Workspaces \ {W[s]} : Elsewhere(tree, tree', W, v)
    BY <1>2, Restyled
  <1>4. Sound(tree', W, tile, tileOf, list, home)
    BY <1>1, <1>2, <1>3, SameTiles
  <1>5. /\ tile' = tile /\ tileOf' = tileOf /\ list' = list /\ home' = home
        /\ visible' = visible /\ bar' = bar /\ gap' = gap
    BY DEF screenVars
  <1>6. visible \in Workspaces /\ bar \in Bars /\ gap \in Gaps
    BY DEF LInv, IInv, ScreenTypes
  <1>7. visible \notin ws => /\ visible = visible /\ bar = bar /\ gap = gap
                             /\ Elsewhere(tree, tree', W, visible)
                             /\ \A l \in Leaves : W[l] = visible =>
                                  W[l] = visible /\ tile[l] = tile[l]
    BY <1>1, <1>3, <1>6
  <1>8. ReflowWith(ws, tree', tile, bar, gap)
    BY DEF Reflow
  <1>9. /\ BoxTypes(box', told')
        /\ Laid(tree', tile, home, box', told', visible, bar, gap)
    BY <1>1, <1>4, <1>6, <1>7, <1>8, Reflowed
  <1>10. TilesOK(tree', tile, tileOf, list, home)
    BY <1>4, SoundIs
  <1> QED
    BY <1>5, <1>9, <1>10 DEF Fitting

\* The screen changes, or another workspace is shown.
LEMMA ScreenFits ==
  ASSUME LInv, NEW v \in Workspaces, visible' = v, NEW thick \in Bars, bar' = thick,
         NEW policy \in Gaps, gap' = policy, ReflowWith({v}, tree, tile, thick, policy),
         UNCHANGED <<tree, tile, tileOf, list, home>>
  PROVE  Fitting'
  <1>1. PICK W : Sound(tree, W, tile, tileOf, list, home)
    BY SoundIs DEF LInv, IInv
  <1>2. {v} \in SUBSET Workspaces /\ v \in {v}
    OBVIOUS
  <1>3. BoxTypes(box', told') /\ Laid(tree, tile, home, box', told', v, thick, policy)
    BY <1>1, <1>2, Reflowed
  <1>4. TilesOK(tree, tile, tileOf, list, home)
    BY <1>1, SoundIs
  <1> QED
    BY <1>3, <1>4 DEF Fitting

-----------------------------------------------------------------------------
(* The steps.                                                              *)

\* A step that touches neither trees nor boxes keeps them sound.
LEMMA SameFits ==
  ASSUME LInv, UNCHANGED <<tree, tile, tileOf, list, home, box, told, screenVars>>
  PROVE  Fitting'
  <1>1. Fitting
    BY LInvParts
  <1> QED
    BY <1>1 DEF Fitting, TilesOK, TileTypes, Matched, Hung, Listed, Place, BoxTypes, Laid, screenVars

\* What is left to show of a step that keeps the tiles and boxes sound.
LEMMA StepTaken ==
  ASSUME LInv, Fitting', visible' \in Workspaces, bar' \in Bars, gap' \in Gaps,
         active' \in [Workspaces -> Groups \cup {None}], ActiveHome',
         drag' \in BorderRecord \cup {None}
  PROVE  LInv'
  BY DEF LInv, IInv, Fitting, ScreenTypes

LEMMA ScreenIs ==
  ASSUME LInv
  PROVE  /\ active \in [Workspaces -> Groups \cup {None}]
         /\ visible \in Workspaces /\ bar \in Bars /\ gap \in Gaps
         /\ drag \in BorderRecord \cup {None}
         /\ \A w \in Workspaces : active[w] # None => home[active[w]] = w
         /\ home \in [Groups -> Workspaces \cup {None}]
         /\ tileOf \in [Groups -> Leaves \cup {None}]
         /\ tile \in [Leaves -> Groups \cup {None}]
         /\ list \in [Workspaces -> Seq(Leaves)]
         /\ BoxTypes(box, told)
  BY DEF LInv, IInv, ScreenTypes, ActiveHome, TilesOK, TileTypes

\* A group of the workspace v, or none, becomes its active group.
LEMMA ActiveTaken ==
  ASSUME LInv, NEW v \in Workspaces, NEW a \in Groups \cup {None},
         a # None => home[a] = v,
         active' = [active EXCEPT ![v] = a], home' = home
  PROVE  active' \in [Workspaces -> Groups \cup {None}] /\ ActiveHome'
  <1>1. /\ active \in [Workspaces -> Groups \cup {None}]
        /\ \A w \in Workspaces : active[w] # None => home[active[w]] = w
    BY ScreenIs
  <1>2. active' \in [Workspaces -> Groups \cup {None}]
    BY <1>1
  <1>3. ASSUME NEW w \in Workspaces, active'[w] # None PROVE home'[active'[w]] = w
    <2>1. CASE w = v
      BY <1>1, <1>3, <2>1
    <2>2. CASE w # v
      BY <1>1, <1>3, <2>2
    <2> QED
      BY <2>1, <2>2
  <1> QED
    BY <1>2, <1>3 DEF ActiveHome

\* Which group follows one that leaves the workspace v.
LEMMA SuccessorIs ==
  ASSUME LInv, NEW g \in Groups, NEW v \in Workspaces, home[g] = v,
         NEW a \in Groups \cup {None}, Successor(v, g, a)
  PROVE  a # None => a \in Groups /\ a # g /\ home[a] = v
  <1>1. \A w \in Workspaces : active[w] # None => home[active[w]] = w
    BY ScreenIs
  <1> SUFFICES ASSUME a # None PROVE a \in Groups /\ a # g /\ home[a] = v
    OBVIOUS
  <1>2. CASE active[v] # g
    BY <1>1, <1>2 DEF Successor
  <1>3. CASE active[v] = g
    <2>1. a \in OthersOf(v, g)
      BY <1>3 DEF Successor
    <2> QED
      BY <2>1 DEF OthersOf, Live
  <1> QED
    BY <1>2, <1>3

\* The actions, one by one: groups that come and go, float and move,
LEMMA AddGroupStep ==
  ASSUME LInv, NEW g \in Groups, NEW o \in Orientations, AddGroup(g, o)
  PROVE  LInv'
  <1>1. /\ active \in [Workspaces -> Groups \cup {None}]
        /\ visible \in Workspaces /\ bar \in Bars /\ gap \in Gaps
        /\ drag \in BorderRecord \cup {None}
        /\ \A w \in Workspaces : active[w] # None => home[active[w]] = w
        /\ home \in [Groups -> Workspaces \cup {None}]
    BY ScreenIs
  <1>2. /\ home[g] = None /\ home' = [home EXCEPT ![g] = visible]
        /\ active' = [active EXCEPT ![visible] = g]
        /\ Enter(g, visible, o) /\ UNCHANGED screenVars /\ drag' = drag
    BY DEF AddGroup
  <1>3. tileOf[g] = None
    <2>1. Matched(tile, tileOf, home)
      BY DEF LInv, IInv, TilesOK
    <2> QED
      BY <1>2, <2>1 DEF Matched
  <1>4. /\ home' \in [Groups -> Workspaces \cup {None}] /\ home'[g] = visible
        /\ \A h \in Groups \ {g} : home'[h] = home[h]
    BY <1>1, <1>2
  <1>5. Fitting'
    BY <1>1, <1>2, <1>3, <1>4, EnterFits
  <1>6. active' \in [Workspaces -> Groups \cup {None}]
    BY <1>1, <1>2
  <1>7. ASSUME NEW w \in Workspaces, active'[w] # None PROVE home'[active'[w]] = w
    <2>1. CASE w = visible
      BY <1>1, <1>2, <1>4, <2>1
    <2>2. CASE w # visible
      <3>1. active'[w] = active[w] /\ active[w] \in Groups /\ home[active[w]] = w
        BY <1>1, <1>2, <1>7, <2>2
      <3>2. active[w] # g
        BY <1>2, <3>1, Constants
      <3> QED
        BY <1>4, <3>1, <3>2
    <2> QED
      BY <2>1, <2>2
  <1>8. ActiveHome'
    BY <1>7 DEF ActiveHome
  <1>9. visible' = visible /\ bar' = bar /\ gap' = gap
    BY <1>2 DEF screenVars
  <1> QED
    BY <1>1, <1>2, <1>5, <1>6, <1>8, <1>9, StepTaken

\* A group without a tile goes.
LEMMA FloatingGone ==
  ASSUME LInv, NEW g \in Groups, tileOf[g] = None, Rehomed(home, home', g),
         UNCHANGED <<tree, tile, tileOf, list, box, told, screenVars>>
  PROVE  Fitting'
  <1>1. PICK W : Sound(tree, W, tile, tileOf, list, home)
    BY SoundIs DEF LInv, IInv
  <1>2. /\ TileTypes(tile, tileOf, list, home) /\ Matched(tile, tileOf, home)
        /\ Hung(tree, W, tile, home) /\ Listed(list, tile, home)
    BY <1>1 DEF Sound
  <1>3. /\ home' \in [Groups -> Workspaces \cup {None}]
        /\ \A h \in Groups \ {g} : home'[h] = home[h]
    BY DEF Rehomed
  <1>4. \A l \in Leaves : tile[l] # None => tile[l] \in Groups /\ tile[l] # g
    <2>1. \A l \in Leaves : tile[l] # None => tile[l] \in Groups /\ tileOf[tile[l]] = l
      BY <1>1, SoundFacts
    <2> QED
      BY <2>1, Constants
  <1>5. \A l \in Leaves : Place(tile, home', l) = Place(tile, home, l)
    BY <1>3, <1>4 DEF Place
  <1>6. TileTypes(tile, tileOf, list, home')
    BY <1>2, <1>3 DEF TileTypes
  <1>7. Matched(tile, tileOf, home')
    <2>1. \A h \in Groups : tileOf[h] # None => tile[tileOf[h]] = h /\ home'[h] # None
      BY <1>2, <1>3 DEF Matched
    <2> QED
      BY <1>2, <2>1 DEF Matched
  <1>8. Hung(tree, W, tile, home') /\ Listed(list, tile, home')
    BY <1>2, <1>5 DEF Hung, Listed
  <1>9. TilesOK(tree, tile, tileOf, list, home')
    BY <1>6, <1>7, <1>8 DEF TilesOK
  <1>10. BoxTypes(box, told) /\ Laid(tree, tile, home, box, told, visible, bar, gap)
    BY DEF LInv
  <1>11. Laid(tree, tile, home', box, told, visible, bar, gap)
    BY <1>5, <1>10 DEF Laid
  <1>12. /\ tree' = tree /\ tile' = tile /\ tileOf' = tileOf /\ list' = list
         /\ box' = box /\ told' = told /\ visible' = visible /\ bar' = bar /\ gap' = gap
    BY DEF screenVars
  <1> QED
    BY <1>9, <1>10, <1>11, <1>12 DEF Fitting

LEMMA DestroyGroupStep ==
  ASSUME LInv, NEW g \in Groups, DestroyGroup(g)
  PROVE  LInv'
  <1> DEFINE v == home[g]
  <1>1. /\ active \in [Workspaces -> Groups \cup {None}]
        /\ visible \in Workspaces /\ bar \in Bars /\ gap \in Gaps
        /\ drag \in BorderRecord \cup {None}
        /\ \A w \in Workspaces : active[w] # None => home[active[w]] = w
        /\ home \in [Groups -> Workspaces \cup {None}]
    BY ScreenIs
  <1>2. /\ home[g] # None /\ home' = [home EXCEPT ![g] = None]
        /\ UNCHANGED screenVars /\ drag' = drag
    BY DEF DestroyGroup
  <1>3. PICK a \in Groups \cup {None} : Successor(v, g, a) /\ active' = [active EXCEPT ![v] = a]
    BY DEF DestroyGroup
  <1>4. /\ home' \in [Groups -> Workspaces \cup {None}]
        /\ \A h \in Groups \ {g} : home'[h] = home[h]
    BY <1>1, <1>2
  <1>5. Fitting'
    <2>1. CASE tileOf[g] # None
      <3>1. Leave(g, home[g])
        BY <2>1 DEF DestroyGroup
      <3> QED
        BY <1>2, <1>4, <2>1, <3>1, LeaveFits
    <2>2. CASE tileOf[g] = None
      <3>1. UNCHANGED <<tree, tile, tileOf, list, box, told>>
        BY <2>2 DEF DestroyGroup
      <3>2. Rehomed(home, home', g)
        BY <1>4 DEF Rehomed
      <3> QED
        BY <1>2, <2>2, <3>1, <3>2, FloatingGone
    <2> QED
      BY <2>1, <2>2
  <1>6. v \in Workspaces
    BY <1>1, <1>2
  <1>7. a # None => a \in Groups /\ a # g /\ home[a] = v
    BY <1>3, <1>6, SuccessorIs
  <1> HIDE DEF v
  <1>8. active' \in [Workspaces -> Groups \cup {None}]
    BY <1>1, <1>3
  <1>9. ASSUME NEW w \in Workspaces, active'[w] # None PROVE home'[active'[w]] = w
    <2>1. CASE w = v
      <3>1. active'[w] = a
        BY <1>1, <1>3, <2>1
      <3> QED
        BY <1>4, <1>7, <1>9, <2>1, <3>1
    <2>2. CASE w # v
      <3>1. active'[w] = active[w] /\ active[w] \in Groups /\ home[active[w]] = w
        BY <1>1, <1>3, <1>9, <2>2
      <3>2. active[w] # g
        BY <2>2, <3>1 DEF v
      <3> QED
        BY <1>4, <3>1, <3>2
    <2> QED
      BY <2>1, <2>2
  <1>10. ActiveHome'
    BY <1>9 DEF ActiveHome
  <1>11. visible' = visible /\ bar' = bar /\ gap' = gap
    BY <1>2 DEF screenVars
  <1> QED
    BY <1>1, <1>2, <1>5, <1>8, <1>10, <1>11, StepTaken

LEMMA FloatGroupStep ==
  ASSUME LInv, NEW g \in Groups, FloatGroup(g)
  PROVE  LInv'
  <1>1. /\ visible \in Workspaces /\ bar \in Bars /\ gap \in Gaps
        /\ drag \in BorderRecord \cup {None}
        /\ home \in [Groups -> Workspaces \cup {None}]
    BY ScreenIs
  <1>2. /\ tileOf[g] # None /\ Leave(g, home[g])
        /\ active' = [active EXCEPT ![home[g]] = g] /\ home' = home
        /\ UNCHANGED screenVars /\ drag' = drag
    BY DEF FloatGroup
  <1>3. home[g] \in Workspaces
    <2>1. Matched(tile, tileOf, home)
      BY DEF LInv, IInv, TilesOK
    <2> QED
      BY <1>1, <1>2, <2>1 DEF Matched
  <1>4. home' \in [Groups -> Workspaces \cup {None}] /\ \A h \in Groups \ {g} : home'[h] = home[h]
    BY <1>1, <1>2
  <1>5. Fitting'
    BY <1>2, <1>4, LeaveFits
  <1>6. active' \in [Workspaces -> Groups \cup {None}] /\ ActiveHome'
    BY <1>2, <1>3, ActiveTaken
  <1>7. visible' = visible /\ bar' = bar /\ gap' = gap
    BY <1>2 DEF screenVars
  <1> QED
    BY <1>1, <1>2, <1>5, <1>6, <1>7, StepTaken

LEMMA TileGroupStep ==
  ASSUME LInv, NEW g \in Groups, TileGroup(g)
  PROVE  LInv'
  <1>1. /\ visible \in Workspaces /\ bar \in Bars /\ gap \in Gaps
        /\ drag \in BorderRecord \cup {None}
        /\ home \in [Groups -> Workspaces \cup {None}]
    BY ScreenIs
  <1>2. /\ home[g] # None /\ tileOf[g] = None /\ Enter(g, home[g], "horizontal")
        /\ active' = [active EXCEPT ![home[g]] = g] /\ home' = home
        /\ UNCHANGED screenVars /\ drag' = drag
    BY DEF TileGroup
  <1>3. home[g] \in Workspaces /\ "horizontal" \in Orientations
    BY <1>1, <1>2 DEF Orientations
  <1>4. /\ home' \in [Groups -> Workspaces \cup {None}] /\ home'[g] = home[g]
        /\ \A h \in Groups \ {g} : home'[h] = home[h]
    BY <1>1, <1>2
  <1>5. Fitting'
    BY <1>2, <1>3, <1>4, EnterFits
  <1>6. active' \in [Workspaces -> Groups \cup {None}] /\ ActiveHome'
    BY <1>2, <1>3, ActiveTaken
  <1>7. visible' = visible /\ bar' = bar /\ gap' = gap
    BY <1>2 DEF screenVars
  <1> QED
    BY <1>1, <1>2, <1>5, <1>6, <1>7, StepTaken

LEMMA FocusGroupStep ==
  ASSUME LInv, NEW g \in Groups, FocusGroup(g)
  PROVE  LInv'
  <1>1. /\ visible \in Workspaces /\ bar \in Bars /\ gap \in Gaps
        /\ drag \in BorderRecord \cup {None}
    BY ScreenIs
  <1>2. /\ home[g] = visible /\ active' = [active EXCEPT ![visible] = g] /\ home' = home
        /\ UNCHANGED <<tree, tile, tileOf, list, home, box, told, screenVars>> /\ drag' = drag
    BY DEF FocusGroup
  <1>3. Fitting'
    BY <1>2, SameFits
  <1>4. active' \in [Workspaces -> Groups \cup {None}] /\ ActiveHome'
    BY <1>1, <1>2, ActiveTaken
  <1>5. visible' = visible /\ bar' = bar /\ gap' = gap
    BY <1>2 DEF screenVars
  <1> QED
    BY <1>1, <1>2, <1>3, <1>4, <1>5, StepTaken

LEMMA MoveToWorkspaceStep ==
  ASSUME LInv, NEW g \in Groups, NEW w \in Workspaces, MoveToWorkspace(g, w)
  PROVE  LInv'
  <1> DEFINE from == home[g]
  <1>1. /\ active \in [Workspaces -> Groups \cup {None}]
        /\ visible \in Workspaces /\ bar \in Bars /\ gap \in Gaps
        /\ drag \in BorderRecord \cup {None}
        /\ \A v \in Workspaces : active[v] # None => home[active[v]] = v
        /\ home \in [Groups -> Workspaces \cup {None}]
    BY ScreenIs
  <1>2. /\ tileOf[g] # None /\ from # w /\ home' = [home EXCEPT ![g] = w]
        /\ UNCHANGED screenVars /\ drag' = drag
    BY DEF MoveToWorkspace
  <1>3. PICK a \in Groups \cup {None} :
           /\ Successor(from, g, a)
           /\ active' = [active EXCEPT ![from] = a, ![w] = IF @ = None THEN g ELSE @]
    BY DEF MoveToWorkspace
  <1>4. from \in Workspaces
    <2>1. Matched(tile, tileOf, home)
      BY DEF LInv, IInv, TilesOK
    <2> QED
      BY <1>1, <1>2, <2>1 DEF Matched
  <1>5. Fitting'
    BY MoveFits
  <1>6. a # None => a \in Groups /\ a # g /\ home[a] = from
    BY <1>3, <1>4, SuccessorIs
  <1>7. home'[g] = w /\ \A h \in Groups \ {g} : home'[h] = home[h]
    BY <1>1, <1>2
  <1>8. home[g] = from
    OBVIOUS
  <1> HIDE DEF from
  <1>9. /\ active' \in [Workspaces -> Groups \cup {None}]
        /\ active'[from] = a /\ active'[w] = (IF active[w] = None THEN g ELSE active[w])
        /\ \A v \in Workspaces \ {from, w} : active'[v] = active[v]
    BY <1>1, <1>2, <1>3, <1>4
  <1>10. ASSUME NEW v \in Workspaces \ {from}, active[v] # None
         PROVE  active[v] \in Groups /\ home'[active[v]] = v
    <2>1. active[v] \in Groups /\ home[active[v]] = v
      BY <1>1, <1>10
    <2>2. active[v] # g
      BY <1>8, <1>10, <2>1
    <2> QED
      BY <1>7, <2>1, <2>2
  <1>11. ASSUME NEW v \in Workspaces, active'[v] # None PROVE home'[active'[v]] = v
    <2>1. CASE v = from
      BY <1>6, <1>7, <1>9, <1>11, <2>1
    <2>2. CASE v = w /\ active[w] = None
      BY <1>7, <1>9, <2>2
    <2>3. CASE v = w /\ active[w] # None
      BY <1>2, <1>9, <1>10, <2>3
    <2>4. CASE v \notin {from, w}
      BY <1>9, <1>10, <1>11, <2>4
    <2> QED
      BY <2>1, <2>2, <2>3, <2>4
  <1>12. ActiveHome'
    BY <1>11 DEF ActiveHome
  <1>13. visible' = visible /\ bar' = bar /\ gap' = gap
    BY <1>2 DEF screenVars
  <1> QED
    BY <1>1, <1>2, <1>5, <1>9, <1>12, <1>13, StepTaken

\* a group dropped beside a tile,
LEMMA DropGroupStep ==
  ASSUME LInv, NEW g \in Groups, NEW p, DropGroup(g, p)
  PROVE  LInv'
  <1>1. PICK h \in DropTargets(p) :
           LET d == EdgeAt(box[tileOf[h]], p) IN d # None /\ MoveRelative(g, h, d)
    BY DEF DropGroup
  <1> DEFINE d == EdgeAt(box[tileOf[h]], p)
  <1>2. MoveRelative(g, h, d)
    BY <1>1
  <1> HIDE DEF d
  <1>3. h \in Groups
    BY DEF DropTargets, Tiled
  <1>4. Fitting'
    BY <1>2, <1>3, RelativeFits
  <1>5. active' = active /\ home' = home /\ UNCHANGED screenVars /\ drag' = drag
    BY <1>2 DEF MoveRelative
  <1>6. /\ active \in [Workspaces -> Groups \cup {None}]
        /\ visible \in Workspaces /\ bar \in Bars /\ gap \in Gaps
        /\ drag \in BorderRecord \cup {None}
        /\ \A w \in Workspaces : active[w] # None => home[active[w]] = w
    BY ScreenIs
  <1>7. ActiveHome'
    BY <1>5, <1>6 DEF ActiveHome
  <1>8. visible' = visible /\ bar' = bar /\ gap' = gap
    BY <1>5 DEF screenVars
  <1> QED
    BY <1>4, <1>5, <1>6, <1>7, <1>8, StepTaken

\* The tile that commands are for.
LEMMA SourceIs ==
  ASSUME LInv, NEW W, Sound(tree, W, tile, tileOf, list, home), Source # None
  PROVE  /\ Source \in Leaves /\ Source \in Nodes /\ W[Source] = visible
         /\ tile[Source] \in Groups /\ tileOf[tile[Source]] = Source
         /\ home[tile[Source]] = visible
  <1>1. /\ active \in [Workspaces -> Groups \cup {None}] /\ visible \in Workspaces
        /\ \A w \in Workspaces : active[w] # None => home[active[w]] = w
    BY ScreenIs
  <1>2. active[visible] # None /\ Source = tileOf[active[visible]]
    BY DEF Source
  <1>3. active[visible] \in Groups /\ home[active[visible]] = visible
    BY <1>1, <1>2
  <1>4. \A g \in Groups : tileOf[g] # None =>
          tileOf[g] \in Leaves /\ tile[tileOf[g]] = g /\ W[tileOf[g]] = home[g]
    BY SoundFacts
  <1> QED
    BY <1>2, <1>3, <1>4, Constants

-----------------------------------------------------------------------------
(* The best of the tiles in a direction.                                   *)

\* Of a set, those with the least value.
FirstBy(T, S, f) ==
    /\ T # {} /\ \A a \in T, b \in S : f[a] <= f[b]
    /\ \A a \in T, b \in S \ T : f[a] < f[b]

\* Those of a finite set for which f is least.
LEMMA LeastBy ==
  ASSUME NEW S, IsFiniteSet(S), S # {}, NEW f, \A e \in S : f[e] \in Int
  PROVE  \E T \in SUBSET S : FirstBy(T, S, f)
  <1> DEFINE g == [e \in S |-> f[e]]
             V == {g[e] : e \in S}
  <1>1. IsFiniteSet(V)
    <2>1. g \in [S -> Int]
      OBVIOUS
    <2> HIDE DEF g
    <2> QED
      BY <2>1, FiniteValues
  <1>2. V \in SUBSET Int /\ V # {}
    OBVIOUS
  <1> HIDE DEF V
  <1>3. PICK m \in V : \A e \in V : m <= e
    BY <1>1, <1>2, LeastOfInts
  <1> DEFINE T == {e \in S : f[e] = m}
  <1>4. \A e \in S : m <= f[e] /\ f[e] \in Int
    BY <1>3 DEF V
  <1>5. m \in Int /\ \E e \in S : f[e] = m
    BY <1>2, <1>3 DEF V
  <1>6. T \in SUBSET S /\ T # {} /\ \A a \in T, b \in S : f[a] <= f[b]
    BY <1>4, <1>5
  <1>7. \A a \in T, b \in S \ T : f[a] < f[b]
    BY <1>4, <1>5
  <1> QED
    BY <1>6, <1>7 DEF FirstBy

\* A candidate's rank is four numbers.
LEMMA RankIs ==
  ASSUME NEW b \in Boxes, NEW c \in Boxes, NEW d
  PROVE  /\ \A k \in 1..4 : Rank(b, c, d)[k] \in Int
         /\ Rank(b, c, d) = <<Rank(b, c, d)[1], Rank(b, c, d)[2],
                              Rank(b, c, d)[3], Rank(b, c, d)[4]>>
  <1> DEFINE o == Direction(d)
             r1 == IF Overlap(b, c, Across(o)) > 0 THEN 0 ELSE 1
             r2 == Most(0, IF d \in {"left", "up"} THEN From(b, o) - End(c, o)
                           ELSE From(c, o) - End(b, o))
             r3 == Abs(Middle(c, Across(o)) - Middle(b, Across(o)))
             r4 == Abs(Middle(c, o) - Middle(b, o))
  <1>1. Rank(b, c, d) = <<r1, r2, r3, r4>>
    BY DEF Rank
  <1>2. \A e \in {b, c} : e.x \in Int /\ e.y \in Int /\ e.w \in Int /\ e.h \in Int
    BY DEF Boxes
  <1>3. \A e \in {b, c} : \A q : /\ From(e, q) \in Int /\ End(e, q) \in Int /\ Middle(e, q) \in Int
    BY <1>2 DEF From, End, Middle, Span
  <1>4. r1 \in Int
    OBVIOUS
  <1>5. r2 \in Int
    BY <1>3 DEF Most
  <1>6. r3 \in Int /\ r4 \in Int
    BY <1>3 DEF Abs
  <1> HIDE DEF r1, r2, r3, r4
  <1>7. \A k \in 1..4 : k = 1 \/ k = 2 \/ k = 3 \/ k = 4
    OBVIOUS
  <1> QED
    BY <1>1, <1>4, <1>5, <1>6, <1>7

\* find_directional_tile finds a tile of the list, and not the one it starts at.
LEMMA DirectionalIs ==
  ASSUME NEW w \in Workspaces, list \in [Workspaces -> Seq(Leaves)], box \in [Leaves -> Boxes],
         NEW source \in Leaves, NEW d, Directional(source, w, d) # None
  PROVE  /\ Directional(source, w, d) \in ToSet(list[w]) /\ Directional(source, w, d) # source
         /\ Directional(source, w, d) \in Leaves
  <1> DEFINE ls == list[w]
             seen == {i \in DOMAIN ls : ls[i] # source /\ Ahead(box[source], box[ls[i]], d)}
             R(i) == Rank(box[source], box[ls[i]], d)
             Best(i) == \A j \in seen \ {i} : Before(R(i), R(j)) \/ (R(i) = R(j) /\ i < j)
  <1>1. Directional(source, w, d) = IF seen = {} THEN None ELSE ls[CHOOSE i \in seen : Best(i)]
    BY DEF Directional
  <1>2. ls \in Seq(Leaves)
    OBVIOUS
  <1> HIDE DEF ls
  <1>3. DOMAIN ls = 1..Len(ls) /\ Len(ls) \in Nat /\ \A i \in DOMAIN ls : ls[i] \in Leaves
    BY <1>2
  <1>4. seen # {}
    BY <1>1
  <1>5. IsFiniteSet(seen)
    <2>1. IsFiniteSet(1..Len(ls))
      BY <1>3, FS_Interval
    <2> QED
      BY <1>3, <2>1, FS_Subset
  <1>6. \A i \in seen : i \in Int /\ i \in DOMAIN ls /\ ls[i] \in Leaves /\ ls[i] # source
    BY <1>3
  <1> DEFINE F(k) == [i \in seen |-> R(i)[k]]
  <1>7. \A i \in seen : /\ \A k \in 1..4 : R(i)[k] \in Int
                        /\ R(i) = <<R(i)[1], R(i)[2], R(i)[3], R(i)[4]>>
    <2> TAKE i \in seen
    <2>1. box[source] \in Boxes /\ box[ls[i]] \in Boxes
      BY <1>6
    <2> QED
      BY <2>1, RankIs
  <1> HIDE DEF seen, R
  <1>8. \A k \in 1..4 : \A S \in SUBSET seen : S # {} => \E T \in SUBSET S : FirstBy(T, S, F(k))
    <2> TAKE k \in 1..4
    <2> TAKE S \in SUBSET seen
    <2> HAVE S # {}
    <2> DEFINE f == F(k)
    <2>1. \A e \in S : f[e] \in Int
      BY <1>7
    <2>2. IsFiniteSet(S)
      BY <1>5, FS_Subset
    <2> HIDE DEF f
    <2>3. \E T \in SUBSET S : FirstBy(T, S, f)
      BY <2>1, <2>2, LeastBy
    <2> QED
      BY <2>3 DEF f
  <1>k. 1 \in 1..4 /\ 2 \in 1..4 /\ 3 \in 1..4 /\ 4 \in 1..4
    OBVIOUS
  <1>f. \A k \in 1..4 : \A i \in seen : F(k)[i] = R(i)[k]
    OBVIOUS
  <1> HIDE DEF F
  <1>p1. PICK S1 \in SUBSET seen : FirstBy(S1, seen, F(1))
    BY <1>8, <1>k, <1>4
  <1>9. /\ S1 \in SUBSET seen /\ S1 \in SUBSET seen /\ S1 # {}
        /\ \A a \in S1, b \in seen : R(a)[1] <= R(b)[1]
        /\ \A a \in S1, b \in seen \ S1 : R(a)[1] < R(b)[1]
    BY <1>p1, <1>f, <1>k DEF FirstBy
  <1>p2. PICK S2 \in SUBSET S1 : FirstBy(S2, S1, F(2))
    BY <1>8, <1>k, <1>9
  <1>10. /\ S2 \in SUBSET S1 /\ S2 \in SUBSET seen /\ S2 # {}
         /\ \A a \in S2, b \in S1 : R(a)[2] <= R(b)[2]
         /\ \A a \in S2, b \in S1 \ S2 : R(a)[2] < R(b)[2]
    BY <1>p2, <1>f, <1>k, <1>9 DEF FirstBy
  <1>p3. PICK S3 \in SUBSET S2 : FirstBy(S3, S2, F(3))
    BY <1>8, <1>k, <1>10
  <1>11. /\ S3 \in SUBSET S2 /\ S3 \in SUBSET seen /\ S3 # {}
         /\ \A a \in S3, b \in S2 : R(a)[3] <= R(b)[3]
         /\ \A a \in S3, b \in S2 \ S3 : R(a)[3] < R(b)[3]
    BY <1>p3, <1>f, <1>k, <1>10 DEF FirstBy
  <1>p4. PICK S4 \in SUBSET S3 : FirstBy(S4, S3, F(4))
    BY <1>8, <1>k, <1>11
  <1>12. /\ S4 \in SUBSET S3 /\ S4 \in SUBSET seen /\ S4 # {}
         /\ \A a \in S4, b \in S3 : R(a)[4] <= R(b)[4]
         /\ \A a \in S4, b \in S3 \ S4 : R(a)[4] < R(b)[4]
    BY <1>p4, <1>f, <1>k, <1>11 DEF FirstBy
  <1>13. S4 \in SUBSET seen
    BY <1>9, <1>10, <1>11, <1>12
  <1>14. PICK i \in S4 : \A j \in S4 : i <= j
    <2>1. IsFiniteSet(S4) /\ S4 \in SUBSET Int
      BY <1>5, <1>6, <1>13, FS_Subset
    <2> QED
      BY <1>12, <2>1, LeastOfInts
  <1>15. /\ i \in seen /\ i \in S1 /\ i \in S2 /\ i \in S3
    BY <1>9, <1>10, <1>11, <1>12
  <1>16. \A a, b \in seen : \A k \in 1..4 : R(a)[k] <= R(b)[k] /\ R(b)[k] <= R(a)[k]
                                               => R(a)[k] = R(b)[k]
    BY <1>7
  <1>17. ASSUME NEW j \in seen \ {i}
         PROVE  Before(R(i), R(j)) \/ (R(i) = R(j) /\ i < j)
    <2>1. CASE j \notin S1
      <3>1. R(i)[1] < R(j)[1]
        BY <1>9, <1>15, <2>1
      <3>2. 1 \in 1..4 /\ \A k \in 1..(1 - 1) : R(i)[k] = R(j)[k]
        OBVIOUS
      <3> QED
        BY <3>1, <3>2 DEF Before
    <2>2. CASE j \in S1 \ S2
      <3>1. R(i)[1] = R(j)[1]
        BY <1>9, <1>15, <1>16, <2>2
      <3>2. R(i)[2] < R(j)[2]
        BY <1>10, <1>15, <2>2
      <3>3. 2 \in 1..4 /\ \A k \in 1..(2 - 1) : R(i)[k] = R(j)[k]
        <4>1. \A k \in 1..(2 - 1) : k = 1
          OBVIOUS
        <4> QED
          BY <3>1, <4>1
      <3> QED
        BY <3>2, <3>3 DEF Before
    <2>3. CASE j \in S2 \ S3
      <3>1. R(i)[1] = R(j)[1]
        BY <1>9, <1>10, <1>15, <1>16, <2>3
      <3>2. R(i)[2] = R(j)[2]
        BY <1>9, <1>10, <1>15, <1>16, <2>3
      <3>3. R(i)[3] < R(j)[3]
        BY <1>11, <1>15, <2>3
      <3>4. 3 \in 1..4 /\ \A k \in 1..(3 - 1) : R(i)[k] = R(j)[k]
        <4>1. \A k \in 1..(3 - 1) : k = 1 \/ k = 2
          OBVIOUS
        <4> QED
          BY <3>1, <3>2, <4>1
      <3> QED
        BY <3>3, <3>4 DEF Before
    <2>4. CASE j \in S3
      <3>1. R(i)[1] = R(j)[1] /\ R(i)[2] = R(j)[2] /\ R(i)[3] = R(j)[3]
        <4>1. j \in S2 /\ j \in S1
          BY <1>10, <1>11, <2>4
        <4> QED
          BY <1>9, <1>10, <1>11, <1>15, <1>16, <2>4, <4>1
      <3>2. CASE j \notin S4
        <4>1. R(i)[4] < R(j)[4]
          BY <1>12, <2>4, <3>2
        <4>2. 4 \in 1..4 /\ \A k \in 1..(4 - 1) : R(i)[k] = R(j)[k]
          <5>1. \A k \in 1..(4 - 1) : k = 1 \/ k = 2 \/ k = 3
            OBVIOUS
          <5> QED
            BY <3>1, <5>1
        <4> QED
          BY <4>1, <4>2 DEF Before
      <3>3. CASE j \in S4
        <4>1. R(i)[4] = R(j)[4]
          BY <1>12, <1>15, <1>16, <2>4, <3>3
        <4>2. R(i) = R(j)
          BY <1>7, <1>15, <3>1, <4>1
        <4>3. i < j
          BY <1>6, <1>14, <1>15, <3>3
        <4> QED
          BY <4>2, <4>3
      <3> QED
        BY <3>2, <3>3
    <2> QED
      BY <2>1, <2>2, <2>3, <2>4
  <1>18. \E k \in seen : Best(k)
    BY <1>15, <1>17
  <1> HIDE DEF Best
  <1>19. (CHOOSE k \in seen : Best(k)) \in seen
    BY <1>18
  <1> DEFINE c == CHOOSE k \in seen : Best(k)
  <1>20. Directional(source, w, d) = ls[c] /\ c \in seen
    BY <1>1, <1>4, <1>19
  <1> HIDE DEF c
  <1>21. ls[c] \in Leaves /\ ls[c] # source /\ c \in DOMAIN ls
    BY <1>6, <1>20
  <1>22. ls[c] \in ToSet(list[w])
    <2>1. ls[c] \in {ls[k] : k \in DOMAIN ls}
      BY <1>21
    <2> QED
      BY <2>1 DEF ls, ToSet
  <1> QED
    BY <1>20, <1>21, <1>22

-----------------------------------------------------------------------------
(* Commands, drags and the screen.                                         *)

\* the commands with a direction,
LEMMA FocusDirectionStep ==
  ASSUME LInv, NEW d, FocusDirection(d)
  PROVE  LInv'
  <1> DEFINE target == Directional(Source, visible, d)
  <1>1. /\ visible \in Workspaces /\ bar \in Bars /\ gap \in Gaps
        /\ drag \in BorderRecord \cup {None}
        /\ list \in [Workspaces -> Seq(Leaves)] /\ box \in [Leaves -> Boxes]
    BY ScreenIs DEF BoxTypes
  <1>2. PICK W : Sound(tree, W, tile, tileOf, list, home)
    BY SoundIs DEF LInv, IInv
  <1>3. /\ Source # None /\ target # None /\ active' = [active EXCEPT ![visible] = tile[target]]
        /\ home' = home /\ drag' = drag
        /\ UNCHANGED <<tree, tile, tileOf, list, home, box, told, screenVars>>
    BY DEF FocusDirection
  <1>4. Source \in Leaves
    BY <1>2, <1>3, SourceIs
  <1>5. target \in ToSet(list[visible]) /\ target \in Leaves
    BY <1>1, <1>3, <1>4, DirectionalIs
  <1> HIDE DEF target
  <1>6. tile[target] \in Groups /\ home[tile[target]] = visible
    <2>1. W[target] = visible /\ visible # None
      BY <1>1, <1>2, <1>5, SoundFacts, Constants
    <2> QED
      BY <1>2, <1>5, <2>1, SoundFacts
  <1>7. active' \in [Workspaces -> Groups \cup {None}] /\ ActiveHome'
    BY <1>1, <1>3, <1>6, ActiveTaken
  <1>8. Fitting'
    BY <1>3, SameFits
  <1>9. visible' = visible /\ bar' = bar /\ gap' = gap
    BY <1>3 DEF screenVars
  <1> QED
    BY <1>1, <1>3, <1>7, <1>8, <1>9, StepTaken

\* The active groups stay at home when nothing moves.
LEMMA ActiveSame ==
  ASSUME LInv, active' = active, home' = home
  PROVE  active' \in [Workspaces -> Groups \cup {None}] /\ ActiveHome'
  BY ScreenIs DEF ActiveHome

\* Two groups of one workspace exchange their tiles.
LEMMA SwapDirectionStep ==
  ASSUME LInv, NEW d, SwapDirection(d)
  PROVE  LInv'
  <1> DEFINE a == Source
             b == Directional(Source, visible, d)
             g == tile[a]
             h == tile[b]
  <1>1. /\ visible \in Workspaces /\ bar \in Bars /\ gap \in Gaps
        /\ drag \in BorderRecord \cup {None}
        /\ list \in [Workspaces -> Seq(Leaves)]
        /\ box \in [Leaves -> Boxes] /\ told \in [Groups -> Boxes]
    BY ScreenIs DEF BoxTypes
  <1>2. PICK W : Sound(tree, W, tile, tileOf, list, home)
    BY SoundIs DEF LInv, IInv
  <1>3. /\ Source # None /\ b # None
        /\ tile' = [tile EXCEPT ![a] = h, ![b] = g]
        /\ tileOf' = [tileOf EXCEPT ![h] = a, ![g] = b]
        /\ told' = [told EXCEPT ![h] = Content(box[a]), ![g] = Content(box[b])]
        /\ UNCHANGED <<tree, list, home, active, box, screenVars, drag>>
    BY DEF SwapDirection
  <1>4. /\ a \in Leaves /\ W[a] = visible /\ g \in Groups /\ tileOf[g] = a /\ home[g] = visible
    BY <1>2, <1>3, SourceIs
  <1>5. b \in ToSet(list[visible]) /\ b # a /\ b \in Leaves
    BY <1>1, <1>3, <1>4, DirectionalIs
  <1> HIDE DEF a, b
  <1>6. /\ tile \in [Leaves -> Groups \cup {None}]
        /\ tileOf \in [Groups -> Leaves \cup {None}]
        /\ home \in [Groups -> Workspaces \cup {None}]
        /\ \A l \in Leaves : tile[l] # None =>
             tile[l] \in Groups /\ tileOf[tile[l]] = l /\ home[tile[l]] \in Workspaces
        /\ \A k \in Groups : tileOf[k] # None =>
             tileOf[k] \in Leaves /\ tile[tileOf[k]] = k /\ home[k] \in Workspaces
        /\ \A l \in Leaves : W[l] = IF tile[l] = None THEN None ELSE home[tile[l]]
    BY <1>2, SoundFacts
  <1>7. W[b] = visible /\ h \in Groups /\ tileOf[h] = b /\ home[h] = visible /\ h # g
    <2>1. W[b] = visible
      BY <1>1, <1>2, <1>5, SoundFacts
    <2>2. tile[b] # None
      BY <1>1, <1>5, <1>6, <2>1, Constants
    <2> QED
      BY <1>4, <1>5, <1>6, <2>1, <2>2
  <1> HIDE DEF g, h
  <1>8. /\ tile' \in [Leaves -> Groups \cup {None}]
        /\ tile'[a] = h /\ tile'[b] = g
        /\ \A l \in Leaves \ {a, b} : tile'[l] = tile[l]
    BY <1>3, <1>4, <1>5, <1>6, <1>7
  <1>9. /\ tileOf' \in [Groups -> Leaves \cup {None}]
        /\ tileOf'[h] = a /\ tileOf'[g] = b
        /\ \A k \in Groups \ {g, h} : tileOf'[k] = tileOf[k]
    BY <1>3, <1>4, <1>5, <1>6, <1>7
  <1>10. /\ told' \in [Groups -> Boxes]
         /\ told'[h] = Content(box[a]) /\ told'[g] = Content(box[b])
         /\ \A k \in Groups \ {g, h} : told'[k] = told[k]
    <2>1. Content(box[a]) \in Boxes /\ Content(box[b]) \in Boxes
      BY <1>1, <1>4, <1>5, ContentIs
    <2> QED
      BY <1>1, <1>3, <1>4, <1>7, <2>1
  <1>11. \A l \in Leaves \ {a, b} : tile[l] \notin {g, h}
    <2>1. g # None /\ h # None
      BY <1>4, <1>7, Constants
    <2> QED
      BY <1>4, <1>6, <1>7, <2>1
  <1>12. /\ tree' = tree /\ list' = list /\ home' = home /\ active' = active /\ box' = box
         /\ visible' = visible /\ bar' = bar /\ gap' = gap /\ drag' = drag
    BY <1>3 DEF screenVars
  <1>13. \A l \in Leaves : Place(tile', home, l) = W[l]
    <2> TAKE l \in Leaves
    <2>1. CASE l \in {a, b}
      BY <1>4, <1>7, <1>8, <2>1, Constants DEF Place
    <2>2. CASE l \notin {a, b}
      BY <1>6, <1>8, <2>2 DEF Place
    <2> QED
      BY <2>1, <2>2
  <1>14. \A l \in Leaves : Place(tile, home, l) = W[l]
    BY <1>6 DEF Place
  <1>15. Matched(tile', tileOf', home)
    <2>1. ASSUME NEW l \in Leaves, tile'[l] # None PROVE tileOf'[tile'[l]] = l
      <3>1. CASE l \in {a, b}
        BY <1>8, <1>9, <3>1
      <3>2. CASE l \notin {a, b}
        <4>1. tile'[l] = tile[l] /\ tile[l] \in Groups \ {g, h} /\ tileOf[tile[l]] = l
          BY <1>6, <1>8, <1>11, <2>1, <3>2
        <4> QED
          BY <1>9, <4>1
      <3> QED
        BY <3>1, <3>2
    <2>2. ASSUME NEW k \in Groups, tileOf'[k] # None PROVE tile'[tileOf'[k]] = k /\ home[k] # None
      <3>1. CASE k \in {g, h}
        BY <1>1, <1>4, <1>7, <1>8, <1>9, <3>1, Constants
      <3>2. CASE k \notin {g, h}
        <4>1. tileOf'[k] = tileOf[k] /\ tileOf[k] \in Leaves /\ tile[tileOf[k]] = k
              /\ home[k] \in Workspaces
          BY <1>6, <1>9, <2>2, <3>2
        <4>2. tileOf[k] \notin {a, b}
          BY <3>2, <4>1 DEF g, h
        <4> QED
          BY <1>8, <4>1, <4>2, Constants
      <3> QED
        BY <3>1, <3>2
    <2> QED
      BY <2>1, <2>2 DEF Matched
  <1>16. Sound(tree, W, tile', tileOf', list, home)
    <2>1. /\ Hung(tree, W, tile, home) /\ Listed(list, tile, home)
          /\ TileTypes(tile, tileOf, list, home)
      BY <1>2 DEF Sound
    <2>2. Hung(tree, W, tile', home)
      BY <1>13, <2>1 DEF Hung
    <2>3. Listed(list, tile', home)
      BY <1>13, <1>14, <2>1 DEF Listed
    <2>4. TileTypes(tile', tileOf', list, home)
      BY <1>8, <1>9, <2>1 DEF TileTypes
    <2> QED
      BY <1>15, <2>2, <2>3, <2>4 DEF Sound
  <1>17. Laid(tree, tile', home, box, told', visible, bar, gap)
    <2>1. Laid(tree, tile, home, box, told, visible, bar, gap)
      BY DEF LInv
    <2>2. ASSUME NEW l \in Leaves, Place(tile', home, l) = visible
          PROVE  /\ box[l] = LayoutNode(tree, l, Area(bar, gap), gap.inner)
                 /\ Pixels(box[l]) => told'[tile'[l]] = Content(box[l])
      <3>1. Place(tile, home, l) = visible
        BY <1>13, <1>14, <2>2
      <3>2. /\ box[l] = LayoutNode(tree, l, Area(bar, gap), gap.inner)
            /\ Pixels(box[l]) => told[tile[l]] = Content(box[l])
        BY <2>1, <3>1 DEF Laid
      <3>3. CASE l \in {a, b}
        BY <1>8, <1>10, <3>2, <3>3
      <3>4. CASE l \notin {a, b}
        <4>1. tile[l] # None
          BY <1>1, <3>1, Constants DEF Place
        <4>2. tile'[l] = tile[l] /\ tile[l] \in Groups \ {g, h}
          BY <1>6, <1>8, <1>11, <3>4, <4>1
        <4> QED
          BY <1>10, <3>2, <4>2
      <3> QED
        BY <3>3, <3>4
    <2> QED
      BY <2>2 DEF Laid
  <1>18. Fitting'
    <2>1. TilesOK(tree, tile', tileOf', list, home)
      BY <1>16, SoundIs
    <2>2. BoxTypes(box, told')
      BY <1>1, <1>10 DEF BoxTypes
    <2> QED
      BY <1>12, <1>17, <2>1, <2>2 DEF Fitting
  <1>19. active' \in [Workspaces -> Groups \cup {None}] /\ ActiveHome'
    BY <1>12, ActiveSame
  <1> QED
    BY <1>1, <1>12, <1>18, <1>19, StepTaken

\* The steps that leave the workspaces' active groups, the screen and the lists
\* alone.
LEMMA TreeStepTaken ==
  ASSUME LInv, Fitting', drag' \in BorderRecord \cup {None},
         UNCHANGED <<home, active, screenVars>>
  PROVE  LInv'
  <1>1. visible \in Workspaces /\ bar \in Bars /\ gap \in Gaps
    BY ScreenIs
  <1>2. visible' = visible /\ bar' = bar /\ gap' = gap
    BY DEF screenVars
  <1>3. active' \in [Workspaces -> Groups \cup {None}] /\ ActiveHome'
    BY ActiveSame
  <1> QED
    BY <1>1, <1>2, <1>3, StepTaken

\* A split with another ratio, and the reflow of its workspace.
LEMMA SetRatioFits ==
  ASSUME LInv, NEW s \in Splits, tree.split[s] # None, NEW r \in Ratio, SetRatio(s, r),
         UNCHANGED <<tile, tileOf, list, home, screenVars>>
  PROVE  Fitting'
  <1> DEFINE x == [first |-> tree.split[s].first, second |-> tree.split[s].second,
                   orientation |-> tree.split[s].orientation, ratio |-> r]
             ws == {home[tile[l]] : l \in LeavesUnder(tree, s)}
  <1> SUFFICES ASSUME r # tree.split[s].ratio
               PROVE  Fitting'
    BY SameFits DEF SetRatio
  <1>1. PICK W : Sound(tree, W, tile, tileOf, list, home)
    BY SoundIs DEF LInv, IInv
  <1>2. Forest(tree, W) /\ s \in Nodes
    BY <1>1, Constants DEF Sound, Hung
  <1>3. /\ tree = [root |-> tree.root, parent |-> tree.parent, split |-> tree.split]
        /\ tree.split[s] \in SplitRecord /\ W[s] # None
        /\ tree.split \in [Splits -> SplitRecord \cup {None}]
    BY <1>2, ForestFacts
  <1>4. x \in SplitRecord
    BY <1>3 DEF SplitRecord
  <1>5. tree' = [tree EXCEPT !.split[s] = x]
    <2>1. tree' = [tree EXCEPT !.split[s].ratio = r]
      BY DEF SetRatio
    <2>2. [tree.split[s] EXCEPT !.ratio = r] = x
      BY <1>3 DEF SplitRecord
    <2>3. [tree EXCEPT !.split[s].ratio = r] = [tree EXCEPT !.split[s] = [tree.split[s] EXCEPT !.ratio = r]]
      BY <1>3
    <2> QED
      BY <2>1, <2>2, <2>3
  <1>6. /\ LeavesUnder(tree, s) # {} /\ LeavesUnder(tree, s) \in SUBSET Leaves
        /\ \A l \in LeavesUnder(tree, s) : W[l] = W[s]
    BY <1>2, <1>3, UnderStep, UnderWithin
  <1>7. W[s] \in Workspaces
    BY <1>2, <1>3, ForestFacts
  <1>8. \A V : Sound(tree, V, tile, tileOf, list, home) =>
          V[s] \in ws /\ \A l \in LeavesUnder(tree, s) : home[tile[l]] \in Workspaces
    <2> SUFFICES ASSUME NEW V, Sound(tree, V, tile, tileOf, list, home)
                 PROVE  V[s] \in ws /\ \A l \in LeavesUnder(tree, s) : home[tile[l]] \in Workspaces
      OBVIOUS
    <2>1. Forest(tree, V)
      BY DEF Sound, Hung
    <2>2. V[s] # None
      BY <2>1, ForestFacts
    <2>3. \A l \in LeavesUnder(tree, s) : V[l] = V[s]
      BY <1>2, <2>1, <2>2, UnderWithin
    <2>4. \A l \in Leaves : V[l] # None => V[l] = home[tile[l]] /\ home[tile[l]] \in Workspaces
      BY SoundFacts
    <2> QED
      BY <1>6, <2>2, <2>3, <2>4
  <1>9. ws \in SUBSET Workspaces
    BY <1>1, <1>8
  <1>10. Reflow(ws, tree', tile)
    BY DEF SetRatio
  <1>11. x.first = tree.split[s].first /\ x.second = tree.split[s].second
    OBVIOUS
  <1>12. \A V : Sound(tree, V, tile, tileOf, list, home) => V[s] \in ws
    BY <1>8
  <1> HIDE DEF x, ws
  <1> QED
    BY <1>4, <1>5, <1>9, <1>10, <1>11, <1>12, RestyledFits

\* find_resize_split finds a split in use.
LEMMA TurnedIs ==
  ASSUME LInv, NEW n \in Nodes, NEW S \in SUBSET {s \in Splits : tree.split[s] # None},
         NearestAbove(n, S) # None
  PROVE  NearestAbove(n, S) \in S /\ NearestAbove(n, S) \in Splits
         /\ tree.split[NearestAbove(n, S)] # None
  <1>1. PICK W : Sound(tree, W, tile, tileOf, list, home)
    BY SoundIs DEF LInv, IInv
  <1>2. Forest(tree, W)
    BY <1>1 DEF Sound, Hung
  <1>3. NearestAbove(n, S) \in S \cup {None}
    BY <1>2, NearestAboveIs
  <1> QED
    BY <1>3

LEMMA ResizeSplitIs ==
  ASSUME LInv, Source # None, NEW o, ResizeSplit(Source, o) # None
  PROVE  ResizeSplit(Source, o) \in Splits /\ tree.split[ResizeSplit(Source, o)] # None
  <1>1. PICK W : Sound(tree, W, tile, tileOf, list, home)
    BY SoundIs DEF LInv, IInv
  <1>2. Source \in Nodes
    BY <1>1, SourceIs
  <1>3. Turned(o) \in SUBSET {s \in Splits : tree.split[s] # None}
    BY DEF Turned
  <1> QED
    BY <1>2, <1>3, TurnedIs DEF ResizeSplit

LEMMA ResizeDirectionStep ==
  ASSUME LInv, NEW d, ResizeDirection(d)
  PROVE  LInv'
  <1> DEFINE s == ResizeSplit(Source, Direction(d))
             sign == IF d \in {"right", "down"} THEN 1 ELSE -1
  <1>1. /\ Source # None /\ s # None
        /\ SetRatio(s, Stepped(tree.split[s].ratio, sign))
        /\ UNCHANGED <<tile, tileOf, list, home, active, screenVars, drag>>
    BY DEF ResizeDirection
  <1>2. s \in Splits /\ tree.split[s] # None
    BY <1>1, ResizeSplitIs
  <1>3. sign \in {1, -1}
    OBVIOUS
  <1> HIDE DEF s, sign
  <1>4. tree.split[s].ratio \in Ratio
    <2>1. PICK W : Sound(tree, W, tile, tileOf, list, home)
      BY SoundIs DEF LInv, IInv
    <2>2. Forest(tree, W)
      BY <2>1 DEF Sound, Hung
    <2>3. tree.split[s] \in SplitRecord
      BY <1>2, <2>2, ForestFacts
    <2> QED
      BY <2>3 DEF SplitRecord
  <1>5. Stepped(tree.split[s].ratio, sign) \in Ratio
    BY <1>3, <1>4, SteppedIs
  <1>6. Fitting'
    BY <1>1, <1>2, <1>5, SetRatioFits
  <1>7. drag' \in BorderRecord \cup {None}
    BY <1>1, ScreenIs
  <1> QED
    BY <1>1, <1>6, <1>7, TreeStepTaken

\* a split turned,
LEMMA FlipActiveSplitStep ==
  ASSUME LInv, FlipActiveSplit
  PROVE  LInv'
  <1> DEFINE s == tree.parent[Source]
             x == [first |-> tree.split[s].first, second |-> tree.split[s].second,
                   orientation |-> Across(tree.split[s].orientation),
                   ratio |-> tree.split[s].ratio]
  <1>1. /\ Source # None /\ s # None
        /\ tree' = [tree EXCEPT !.split[s].orientation = Across(@)]
        /\ Reflow({visible}, tree', tile)
        /\ UNCHANGED <<tile, tileOf, list, home, active, screenVars, drag>>
    BY DEF FlipActiveSplit
  <1>2. PICK W : Sound(tree, W, tile, tileOf, list, home)
    BY SoundIs DEF LInv, IInv
  <1>3. Forest(tree, W) /\ Source \in Nodes
    BY <1>1, <1>2, SourceIs DEF Sound, Hung
  <1>4. /\ tree = [root |-> tree.root, parent |-> tree.parent, split |-> tree.split]
        /\ s \in Splits /\ tree.split[s] # None /\ tree.split[s] \in SplitRecord
        /\ tree.split \in [Splits -> SplitRecord \cup {None}]
    BY <1>1, <1>3, ForestFacts
  <1>5. \A V : Sound(tree, V, tile, tileOf, list, home) => V[s] \in {visible}
    <2> SUFFICES ASSUME NEW V, Sound(tree, V, tile, tileOf, list, home) PROVE V[s] = visible
      OBVIOUS
    <2>1. Forest(tree, V) /\ V[Source] = visible
      BY <1>1, SourceIs DEF Sound, Hung
    <2> QED
      BY <1>1, <1>3, <2>1, ForestFacts
  <1> HIDE DEF s
  <1>6. x \in SplitRecord /\ x.first = tree.split[s].first /\ x.second = tree.split[s].second
    BY <1>4 DEF SplitRecord, Across, Orientations
  <1>7. tree' = [tree EXCEPT !.split[s] = x]
    <2>1. [tree.split[s] EXCEPT !.orientation = Across(@)] = x
      BY <1>4 DEF SplitRecord
    <2>2. [tree EXCEPT !.split[s].orientation = Across(@)]
            = [tree EXCEPT !.split[s] = [tree.split[s] EXCEPT !.orientation = Across(@)]]
      BY <1>4
    <2> QED
      BY <1>1, <2>1, <2>2
  <1> HIDE DEF x
  <1>8. visible \in Workspaces
    BY ScreenIs
  <1>9. {visible} \in SUBSET Workspaces
    BY <1>8
  <1>10. Fitting'
    BY <1>1, <1>4, <1>5, <1>6, <1>7, <1>9, RestyledFits
  <1>11. drag' \in BorderRecord \cup {None}
    BY <1>1, ScreenIs
  <1> QED
    BY <1>1, <1>10, <1>11, TreeStepTaken

\* The border of a split in use has a group on either side.
LEMMA TargetIs ==
  ASSUME LInv, NEW s \in Splits, tree.split[s] # None
  PROVE  Target(s) \in BorderRecord
  <1>1. PICK W : Sound(tree, W, tile, tileOf, list, home)
    BY SoundIs DEF LInv, IInv
  <1>2. Forest(tree, W)
    BY <1>1 DEF Sound, Hung
  <1>3. \A k \in {tree.split[s].first, tree.split[s].second} : k \in Nodes /\ W[k] # None
    BY <1>2, KidsOf
  <1>4. tile \in [Leaves -> Groups \cup {None}] /\ \A l \in Leaves : tile[l] = None <=> W[l] = None
    BY <1>1, SoundFacts
  <1>5. FirstGroup(tree.split[s].first) \in Groups /\ FirstGroup(tree.split[s].second) \in Groups
    BY <1>2, <1>3, <1>4, FirstGroupIs
  <1>6. tree.split[s].orientation \in Orientations
    <2>1. tree.split[s] \in SplitRecord
      BY <1>2, ForestFacts
    <2> QED
      BY <2>1 DEF SplitRecord
  <1> QED
    BY <1>5, <1>6 DEF Target, BorderRecord

\* a border taken, moved and released.
LEMMA BeginBorderDragStep ==
  ASSUME LInv, NEW p, BeginBorderDrag(p)
  PROVE  LInv'
  <1>1. PICK s \in Splits : BorderAt(p, s) /\ drag' = Target(s)
    BY DEF BeginBorderDrag
  <1>2. UNCHANGED <<tree, tile, tileOf, list, home, active, box, told, screenVars>>
    BY DEF BeginBorderDrag
  <1>3. tree.split[s] # None
    BY <1>1 DEF BorderAt
  <1>4. drag' \in BorderRecord \cup {None}
    BY <1>1, <1>3, TargetIs
  <1>5. Fitting'
    BY <1>2, SameFits
  <1> QED
    BY <1>2, <1>4, <1>5, TreeStepTaken

LEMMA BeginActiveDragStep ==
  ASSUME LInv, NEW p, BeginActiveDrag(p)
  PROVE  LInv'
  <1>1. /\ Source # None
        /\ UNCHANGED <<tree, tile, tileOf, list, home, active, box, told, screenVars>>
    BY DEF BeginActiveDrag
  <1>2. \E o : ResizeSplit(Source, o) # None /\ drag' = Target(ResizeSplit(Source, o))
    <2> DEFINE b == box[Source]
               dx == Abs(2 * p.x - 2 * b.x - b.w)
               dy == Abs(2 * p.y - 2 * b.y - b.h)
               o == IF dx * b.h >= dy * b.w THEN "horizontal" ELSE "vertical"
               s == IF ResizeSplit(Source, o) # None THEN ResizeSplit(Source, o)
                                                     ELSE ResizeSplit(Source, Across(o))
    <2>1. s # None /\ drag' = Target(s)
      BY DEF BeginActiveDrag
    <2> HIDE DEF o
    <2> QED
      BY <2>1
  <1>3. PICK o : ResizeSplit(Source, o) # None /\ drag' = Target(ResizeSplit(Source, o))
    BY <1>2
  <1>4. drag' \in BorderRecord \cup {None}
    BY <1>1, <1>3, ResizeSplitIs, TargetIs
  <1>5. Fitting'
    BY <1>1, SameFits
  <1> QED
    BY <1>1, <1>4, <1>5, TreeStepTaken

LEMMA DragToStep ==
  ASSUME LInv, NEW p \in Points, DragTo(p)
  PROVE  LInv'
  <1> DEFINE s == Resolve(drag)
  <1>1. /\ drag # None
        /\ UNCHANGED <<tile, tileOf, list, home, active, screenVars>>
    BY DEF DragTo
  <1>2. drag \in BorderRecord
    BY <1>1, ScreenIs
  <1>3. CASE s = None \/ ~HasBounds(s)
    <2>1. drag' = None /\ UNCHANGED <<tree, box, told>>
      BY <1>3 DEF DragTo
    <2>2. Fitting'
      BY <1>1, <2>1, SameFits
    <2> QED
      BY <1>1, <2>1, <2>2, TreeStepTaken
  <1>4. CASE s # None /\ HasBounds(s)
    <2>1. SetRatio(s, RatioAt(s, p)) /\ drag' = drag
      BY <1>4 DEF DragTo
    <2>2. s \in Splits /\ tree.split[s] # None
      <3> DEFINE n == tileOf[drag.first]
                 S == {c \in Turned(drag.orientation) :
                         /\ tileOf[drag.first] \in LeavesUnder(tree, tree.split[c].first)
                         /\ tileOf[drag.second] \in LeavesUnder(tree, tree.split[c].second)}
      <3>1. n # None /\ s = NearestAbove(n, S)
        BY <1>4 DEF Resolve
      <3>2. n \in Nodes
        <4>1. tileOf \in [Groups -> Leaves \cup {None}] /\ drag.first \in Groups
          BY <1>2, ScreenIs DEF BorderRecord
        <4> QED
          BY <3>1, <4>1, Constants
      <3>3. S \in SUBSET {c \in Splits : tree.split[c] # None}
        BY DEF Turned
      <3> HIDE DEF n, S
      <3>4. NearestAbove(n, S) # None
        BY <1>4, <3>1
      <3>5. NearestAbove(n, S) \in Splits /\ tree.split[NearestAbove(n, S)] # None
        BY <3>2, <3>3, <3>4, TurnedIs
      <3> QED
        BY <3>1, <3>5
    <2> HIDE DEF s
    <2>3. RatioAt(s, p) \in Ratio
      <3>1. PICK W : Sound(tree, W, tile, tileOf, list, home)
        BY SoundIs DEF LInv, IInv
      <3>2. Forest(tree, W)
        BY <3>1 DEF Sound, Hung
      <3>3. box \in [Leaves -> Boxes]
        BY ScreenIs DEF BoxTypes
      <3> QED
        BY <1>4, <2>2, <3>2, <3>3, RatioAtIs
    <2>4. Fitting'
      BY <1>1, <2>1, <2>2, <2>3, SetRatioFits
    <2> QED
      BY <1>1, <1>2, <2>1, <2>4, TreeStepTaken
  <1> QED
    BY <1>3, <1>4

LEMMA EndDragStep ==
  ASSUME LInv, EndDrag
  PROVE  LInv'
  <1>1. /\ drag' = None
        /\ UNCHANGED <<tree, tile, tileOf, list, home, active, box, told, screenVars>>
    BY DEF EndDrag
  <1>2. Fitting'
    BY <1>1, SameFits
  <1> QED
    BY <1>1, <1>2, TreeStepTaken

\* The panel, the policy or the workspace shown changes.
LEMMA ScreenStep ==
  ASSUME LInv, NEW v \in Workspaces, visible' = v, NEW thick \in Bars, bar' = thick,
         NEW policy \in Gaps, gap' = policy, ReflowWith({v}, tree, tile, thick, policy),
         UNCHANGED <<tree, tile, tileOf, list, home, active, drag>>
  PROVE  LInv'
  <1>1. Fitting'
    BY ScreenFits
  <1>2. active' \in [Workspaces -> Groups \cup {None}] /\ ActiveHome'
    BY ActiveSame
  <1>3. drag' \in BorderRecord \cup {None}
    BY ScreenIs
  <1> QED
    BY <1>1, <1>2, <1>3, StepTaken

-----------------------------------------------------------------------------
(* The invariant holds.                                                    *)

LEMMA Begins == Init => LInv
  <1> SUFFICES ASSUME Init PROVE LInv
    OBVIOUS
  <1> DEFINE W == [n \in Nodes |-> None]
  <1>1. /\ tree = [root |-> [w \in Workspaces |-> None], parent |-> [n \in Nodes |-> None],
                   split |-> [s \in Splits |-> None]]
        /\ tile = [l \in Leaves |-> None] /\ tileOf = [g \in Groups |-> None]
        /\ list = [w \in Workspaces |-> <<>>]
        /\ home = [g \in Groups |-> None] /\ active = [w \in Workspaces |-> None]
        /\ box = [l \in Leaves |-> NoBox] /\ told = [g \in Groups |-> NoBox]
        /\ visible \in Workspaces /\ bar \in Bars /\ gap \in Gaps
        /\ drag = None
    BY DEF Init
  <1>2. /\ tree.root \in [Workspaces -> Nodes \cup {None}]
        /\ tree.parent \in [Nodes -> Splits \cup {None}]
        /\ tree.split \in [Splits -> SplitRecord \cup {None}]
        /\ tree = [root |-> tree.root, parent |-> tree.parent, split |-> tree.split]
        /\ \A w \in Workspaces : tree.root[w] = None
        /\ \A n \in Nodes : tree.parent[n] = None
        /\ \A s \in Splits : tree.split[s] = None
    BY <1>1
  <1>3. W \in [Nodes -> Workspaces \cup {None}] /\ \A n \in Nodes : W[n] = None
    OBVIOUS
  <1> HIDE DEF W
  <1>4. Leaves \subseteq Nodes /\ Splits \subseteq Nodes /\ None \notin Nodes
        /\ None \notin Workspaces
    BY Constants
  <1>5. Forest(tree, W)
    <2>1. Grounded(tree.parent)
      BY <1>2, <1>4 DEF Grounded
    <2>2. Labelled(tree, W) /\ Paired(tree)
      BY <1>2, <1>3, <1>4 DEF Labelled, Paired
    <2> QED
      BY <1>2, <1>3, <2>1, <2>2 DEF Forest, Trees
  <1>6. Counted(W)
    <2>1. SplitsIn(W) = {} /\ LeavesIn(W) = {} /\ WorkspacesIn(W) = {}
      BY <1>3, <1>4 DEF SplitsIn, LeavesIn, WorkspacesIn
    <2> QED
      BY <2>1, FS_EmptySet DEF Counted
  <1>7. TileTypes(tile, tileOf, list, home)
    <2>1. list \in [Workspaces -> Seq(Leaves)]
      BY <1>1, EmptySeq
    <2> QED
      BY <1>1, <2>1 DEF TileTypes
  <1>8. Matched(tile, tileOf, home)
    BY <1>1 DEF Matched
  <1>9. \A l \in Leaves : tile[l] = None /\ Place(tile, home, l) = None
    BY <1>1 DEF Place
  <1>10. Hung(tree, W, tile, home)
    BY <1>3, <1>4, <1>5, <1>6, <1>9 DEF Hung
  <1>11. Listed(list, tile, home)
    <2> SUFFICES ASSUME NEW w \in Workspaces
                 PROVE  /\ ToSet(list[w]) = {l \in Leaves : Place(tile, home, l) = w}
                        /\ IsInjective(list[w])
      BY DEF Listed
    <2>1. list[w] = <<>>
      BY <1>1
    <2>2. ToSet(<<>>) = {} /\ IsInjective(<<>>)
      BY DEF ToSet, IsInjective
    <2>3. {l \in Leaves : Place(tile, home, l) = w} = {}
      BY <1>4, <1>9
    <2> QED
      BY <2>1, <2>2, <2>3
  <1>12. IInv
    <2>1. ScreenTypes
      BY <1>1 DEF ScreenTypes
    <2>2. ActiveHome
      BY <1>1 DEF ActiveHome
    <2> QED
      BY <1>7, <1>8, <1>10, <1>11, <2>1, <2>2 DEF IInv, TilesOK
  <1>13. BoxTypes(box, told)
    BY <1>1 DEF BoxTypes, Boxes, NoBox
  <1>14. Laid(tree, tile, home, box, told, visible, bar, gap)
    BY <1>1, <1>4, <1>9 DEF Laid
  <1> QED
    BY <1>12, <1>13, <1>14 DEF LInv

LEMMA Unchanged == LInv /\ UNCHANGED vars => LInv'
  <1> SUFFICES ASSUME LInv, UNCHANGED vars PROVE LInv'
    OBVIOUS
  <1>1. /\ UNCHANGED <<tree, tile, tileOf, list, home, box, told, screenVars>>
        /\ UNCHANGED <<home, active, screenVars>> /\ drag' = drag
    BY DEF vars, screenVars
  <1>2. Fitting'
    BY <1>1, SameFits
  <1>3. drag' \in BorderRecord \cup {None}
    BY <1>1, ScreenIs
  <1> QED
    BY <1>1, <1>2, <1>3, TreeStepTaken

\* Every action of LayoutTree keeps the invariant.
LEMMA NextKeeps == LInv /\ Next => LInv'
  <1> SUFFICES ASSUME LInv, Next PROVE LInv'
    OBVIOUS
  <1>1. ASSUME NEW g \in Groups, NEW o \in Orientations, AddGroup(g, o) PROVE LInv'
    BY <1>1, AddGroupStep
  <1>2. ASSUME NEW g \in Groups, DestroyGroup(g) PROVE LInv'
    BY <1>2, DestroyGroupStep
  <1>3. ASSUME NEW g \in Groups, FloatGroup(g) PROVE LInv'
    BY <1>3, FloatGroupStep
  <1>4. ASSUME NEW g \in Groups, TileGroup(g) PROVE LInv'
    BY <1>4, TileGroupStep
  <1>5. ASSUME NEW g \in Groups, FocusGroup(g) PROVE LInv'
    BY <1>5, FocusGroupStep
  <1>6. ASSUME NEW g \in Groups, NEW w \in Workspaces, MoveToWorkspace(g, w) PROVE LInv'
    BY <1>6, MoveToWorkspaceStep
  <1>7. ASSUME NEW g \in Groups, NEW p \in Drops, DropGroup(g, p) PROVE LInv'
    BY <1>7, DropGroupStep
  <1>8. ASSUME NEW d \in Directions, FocusDirection(d) PROVE LInv'
    BY <1>8, FocusDirectionStep
  <1>9. ASSUME NEW d \in Directions, SwapDirection(d) PROVE LInv'
    BY <1>9, SwapDirectionStep
  <1>10. ASSUME NEW d \in Directions, ResizeDirection(d) PROVE LInv'
    BY <1>10, ResizeDirectionStep
  <1>11. ASSUME FlipActiveSplit PROVE LInv'
    BY <1>11, FlipActiveSplitStep
  <1>12. ASSUME NEW p \in Points, BeginBorderDrag(p) PROVE LInv'
    BY <1>12, BeginBorderDragStep
  <1>13. ASSUME NEW p \in Points, BeginActiveDrag(p) PROVE LInv'
    BY <1>13, BeginActiveDragStep
  <1>14. ASSUME NEW p \in Points, DragTo(p) PROVE LInv'
    BY <1>14, DragToStep
  <1>15. ASSUME EndDrag PROVE LInv'
    BY <1>15, EndDragStep
  <1>s. visible \in Workspaces /\ bar \in Bars /\ gap \in Gaps
    BY ScreenIs
  <1>16. ASSUME NEW w \in Workspaces, Show(w) PROVE LInv'
    <2>1. /\ visible' = w /\ ReflowWith({w}, tree, tile, bar, gap) /\ bar' = bar /\ gap' = gap
          /\ UNCHANGED <<tree, tile, tileOf, list, home, active, drag>>
      BY <1>16 DEF Show, Reflow
    <2> QED
      BY <1>s, <2>1, ScreenStep
  <1>17. ASSUME NEW thick \in Bars, Arrange(thick) PROVE LInv'
    <2>1. /\ bar' = thick /\ ReflowWith({visible}, tree, tile, thick, gap)
          /\ visible' = visible /\ gap' = gap
          /\ UNCHANGED <<tree, tile, tileOf, list, home, active, drag>>
      BY <1>17 DEF Arrange
    <2> QED
      BY <1>s, <2>1, ScreenStep
  <1>18. ASSUME NEW policy \in Gaps, PolicyReload(policy) PROVE LInv'
    <2>1. /\ gap' = policy /\ ReflowWith({visible}, tree, tile, bar, policy)
          /\ visible' = visible /\ bar' = bar
          /\ UNCHANGED <<tree, tile, tileOf, list, home, active, drag>>
      BY <1>18 DEF PolicyReload
    <2> QED
      BY <1>s, <2>1, ScreenStep
  <1> QED
    BY <1>1, <1>2, <1>3, <1>4, <1>5, <1>6, <1>7, <1>8, <1>9, <1>10, <1>11, <1>12, <1>13,
       <1>14, <1>15, <1>16, <1>17, <1>18 DEF Next

\* A floating group that is grabbed becomes the active one; of what else happens
\* to floating groups the trees see nothing.
LEMMA FloatingKeeps == LInv /\ [FloatingNext]_<<vars, floatVars>> => LInv'
  <1> SUFFICES ASSUME LInv, [FloatingNext]_<<vars, floatVars>> PROVE LInv'
    OBVIOUS
  <1>1. CASE TreeStep
    BY <1>1, NextKeeps DEF TreeStep
  <1>2. ASSUME NEW g \in Groups, NEW l \in Limits, LimitsChange(g, l) PROVE LInv'
    BY <1>2, Unchanged DEF LimitsChange
  <1>3. ASSUME NEW g \in Groups, NEW edges \in EdgeSets \cup {{}}, BeginGrab(g, edges)
        PROVE  LInv'
    <2>1. /\ home[g] = visible /\ active' = [active EXCEPT ![visible] = g]
          /\ UNCHANGED <<tree, tile, tileOf, list, home, box, told, screenVars>>
          /\ home' = home /\ drag' = drag
      BY <1>3 DEF BeginGrab, screenVars
    <2>2. /\ visible \in Workspaces /\ bar \in Bars /\ gap \in Gaps
          /\ drag \in BorderRecord \cup {None}
      BY ScreenIs
    <2>3. active' \in [Workspaces -> Groups \cup {None}] /\ ActiveHome'
      BY <2>1, <2>2, ActiveTaken
    <2>4. Fitting'
      BY <2>1, SameFits
    <2>5. visible' = visible /\ bar' = bar /\ gap' = gap
      BY <2>1 DEF screenVars
    <2> QED
      BY <2>1, <2>2, <2>3, <2>4, <2>5, StepTaken
  <1>4. ASSUME NEW dx \in Deltas, NEW dy \in Deltas, Motion(dx, dy) PROVE LInv'
    BY <1>4, Unchanged DEF Motion
  <1>5. CASE EndGrab
    BY <1>5, Unchanged DEF EndGrab
  <1>6. CASE UNCHANGED <<vars, floatVars>>
    BY <1>6, Unchanged
  <1> QED
    BY <1>1, <1>2, <1>3, <1>4, <1>5, <1>6 DEF FloatingNext

(* The trees and the boxes fit together, whatever the groups, the workspaces, *)
(* the screen, the policies and the pointer (core/src/layout.c).              *)
THEOREM LayoutInvariance == FloatingSpec => []LInv
  <1>1. FloatingInit => LInv
    BY Begins DEF FloatingInit
  <1>2. LInv /\ [FloatingNext]_<<vars, floatVars>> => LInv'
    BY FloatingKeeps
  <1> QED
    BY <1>1, <1>2, PTL DEF FloatingSpec

(* Whatever groups come, go, float, move and trade places, the nodes of each  *)
(* workspace are one tree whose leaves are its tiles, each in its list once   *)
(* (replace_node, create_tile_leaf and the moves).                            *)
THEOREM TreesStaySound == FloatingSpec => []TreesSound
  <1>1. LInv => TreesSound
    BY TreesSoundFrom DEF LInv, IInv
  <1> QED
    BY <1>1, LayoutInvariance, PTL

(* Unless the screen has too few pixels for a tile of the workspace shown,    *)
(* its windows do not overlap, stay within what the panel and the policy      *)
(* leave, and are where their tiles are (onyrion_layout_reflow_workspace).    *)
THEOREM TilesStayFit == FloatingSpec => [](ShownHavePixels => TilesFit)
  <1>1. LInv => (ShownHavePixels => TilesFit)
    BY TilesFitFrom DEF LInv
  <1> QED
    BY <1>1, LayoutInvariance, PTL
=============================================================================
