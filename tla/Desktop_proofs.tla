--------------------------- MODULE Desktop_proofs ---------------------------
(***************************************************************************)
(* Proofs about Desktop, and about DesktopSnapshot, which adds dialogs and *)
(* the snapshot for the Shell to it, for any outputs, workspaces, groups,  *)
(* windows and affinities.                                                 *)
(*                                                                         *)
(* There is one inductive invariant of the desktop, Sound.  None of the    *)
(* invariants of Desktop is inductive: which workspace the keyboard falls  *)
(* back to when a group goes depends on the groups' list, on what outputs  *)
(* show and on what pointers name, and what an output shows depends on the *)
(* groups that are pinned to it.  Sound adds that a group which is not in  *)
(* use is blank (a new one takes over its pointers), that an output which  *)
(* is unplugged shows nothing, and that a workspace which does not exist   *)
(* yet is nowhere.                                                         *)
(*                                                                         *)
(* Sound(R, d) speaks of the desktop d and of a roster R: the windows that *)
(* must be on show (R.mapped) and in no group (R.outside), the workspaces  *)
(* that must exist (R.spaces), and whether the keyboard goes with the      *)
(* active group (R.kbd = "tabs") or may be with a dialog ("any").  The     *)
(* functions of the desktop are proved for any roster, so that both        *)
(* modules can use them.                                                   *)
(*                                                                         *)
(* A function of the code leaves the desktop unsound while it is under     *)
(* way.  Good(R, d, E, O) is Sound with the exceptions there are: the      *)
(* groups E may be without windows, the outputs O may show a workspace     *)
(* that is not theirs.  A lemma of a function says from which exceptions   *)
(* it starts and which it leaves, and the functions are taken in the order *)
(* in which they call each other.  Where a function is a long record of    *)
(* changes, a predicate names the fields it changes (Shown, Switched,      *)
(* Assigned, Removed, ...) and the lemmas speak of any two desktops so     *)
(* related.                                                                *)
(*                                                                         *)
(* Lists are walked in an order.  That a walk keeps what each step keeps   *)
(* is shown by the least number of steps that would not (LeastOf).         *)
(*                                                                         *)
(* The order of the tabs is a matter of the lists of windows alone.  Most  *)
(* functions leave them as they are (SameLists), or take one window out of *)
(* one and put it at the end of another; what moves several, moves them in *)
(* the order of the list they leave.                                       *)
(*                                                                         *)
(* With dialogs, the invariant is Tended: the desktop is sound, a window   *)
(* of no group is a dialog, a window with a parent is a dialog of one that *)
(* is on show, and nobody is above itself.                                 *)
(***************************************************************************)
EXTENDS DesktopSnapshot, SequenceTheorems, FiniteSetTheorems, WellFoundedInduction, TLAPS

-----------------------------------------------------------------------------
(* Sequences without duplicates.                                           *)

\* Every set of numbers that is not empty has a least one.
LEMMA LeastOf ==
  ASSUME NEW I \in SUBSET Nat, I # {}
  PROVE  \E m \in I : \A i \in I : m <= i
  <1> DEFINE R == OpToRel(<, Nat)
  <1>1. \A x, y \in Nat : x < y => <<x, y>> \in R
    BY DEF OpToRel
  <1>2. IsWellFoundedOn(R, Nat)
    BY NatLessThanWellFounded
  <1> HIDE DEF R
  <1>3. PICK m \in I : \A k \in I : ~(<<k, m>> \in R)
    BY <1>2, WFMin
  <1>4. \A i \in I : m <= i
    <2> TAKE i \in I
    <2>1. i \in Nat /\ m \in Nat
      OBVIOUS
    <2>2. ~(i < m)
      BY <1>1, <1>3, <2>1
    <2> QED
      BY <2>1, <2>2
  <1> QED
    BY <1>4

LEMMA MinOf ==
  ASSUME NEW I \in SUBSET Nat, I # {}
  PROVE  Min(I) \in I /\ \A i \in I : Min(I) <= i
  BY LeastOf DEF Min

LEMMA MaxOf ==
  ASSUME NEW n \in Nat, NEW I \in SUBSET (1..n), I # {}
  PROVE  Max(I) \in I /\ \A i \in I : Max(I) >= i
  <1> DEFINE D == {k \in Nat : n - k \in I}
  <1>1. \A i \in I : n - i \in D
    OBVIOUS
  <1>2. PICK m \in D : \A k \in D : m <= k
    <2> HIDE DEF D
    <2>1. D \in SUBSET Nat /\ D # {}
      BY <1>1 DEF D
    <2> QED
      BY <2>1, LeastOf
  <1>3. n - m \in I /\ m \in Nat
    OBVIOUS
  <1>4. \A i \in I : n - m >= i
    <2> TAKE i \in I
    <2>1. m <= n - i /\ i \in 1..n
      BY <1>1, <1>2
    <2> QED
      BY <1>3, <2>1
  <1> QED
    BY <1>3, <1>4 DEF Max

\* SelectInSeq finds the one place of an element.
LEMMA PlaceOf ==
  ASSUME NEW S, NEW s \in Seq(S), NEW k \in 1..Len(s), IsInjective(s)
  PROVE  /\ {i \in 1..Len(s) : s[i] = s[k]} # {}
         /\ Min({i \in 1..Len(s) : s[i] = s[k]}) = k
  <1> DEFINE I == {i \in 1..Len(s) : s[i] = s[k]}
  <1>1. Len(s) \in Nat /\ DOMAIN s = 1..Len(s)
    BY LenProperties
  <1>2. I = {k}
    BY <1>1 DEF IsInjective
  <1> HIDE DEF I
  <1>3. I \in SUBSET Nat /\ I # {}
    BY <1>1, <1>2
  <1>4. Min(I) \in I
    BY <1>3, MinOf
  <1>5. Min(I) = k
    BY <1>2, <1>4
  <1> QED
    BY <1>3, <1>5 DEF I

\* What is left of a sequence without its member at k.
LEMMA RemovedAt ==
  ASSUME NEW S, NEW s \in Seq(S), IsInjective(s), NEW e, NEW k \in 1..Len(s), s[k] = e
  PROVE  /\ RemoveFirst(s, e) \in Seq(S) /\ Len(RemoveFirst(s, e)) = Len(s) - 1
         /\ \A i \in 1..(Len(s) - 1) :
              RemoveFirst(s, e)[i] = IF i < k THEN s[i] ELSE s[i + 1]
  <1> DEFINE r == RemoveFirst(s, e)
             n == Len(s)
  <1>0. n \in Nat /\ DOMAIN s = 1..n
    BY LenProperties
  <1>1. r = SubSeq(s, 1, k - 1) \o SubSeq(s, k + 1, n)
    <2>1. k = IF {i \in 1..Len(s) : s[i] = e} # {} THEN Min({i \in 1..Len(s) : s[i] = e}) ELSE 0
      BY PlaceOf
    <2> QED
      BY <2>1 DEF RemoveFirst, RemoveAt, SelectInSeq
  <1> HIDE DEF r
  <1>2. /\ r \in Seq(S) /\ Len(r) = n - 1
        /\ \A i \in 1..(n - 1) : r[i] = IF i < k THEN s[i] ELSE s[i + 1]
    <2> DEFINE a == SubSeq(s, 1, k - 1)
               b == SubSeq(s, k + 1, n)
    <2>1. /\ a \in Seq(S) /\ Len(a) = k - 1
          /\ \A i \in 1..(k - 1) : a[i] = s[i]
      <3>1. \A i \in 1..(k - 1) : s[i] \in S
        BY <1>0
      <3> QED
        BY <1>0, <3>1, SubSeqProperties
    <2>2. /\ b \in Seq(S) /\ Len(b) = n - k
          /\ \A i \in 1..(n - k) : b[i] = s[k + i]
      <3>1. PICK m \in Int : m = k + 1
        BY <1>0
      <3>2. n \in Int /\ n - m + 1 = n - k /\ n - k \in Nat /\ \A i \in m..n : s[i] \in S
        BY <1>0, <3>1
      <3> DEFINE f == SubSeq(s, m, n)
      <3>3. /\ f \in Seq(S)
            /\ Len(f) = IF m <= n THEN n - m + 1 ELSE 0
            /\ \A i \in 1..(n - m + 1) : f[i] = s[m + i - 1]
        BY <3>2, SubSeqProperties
      <3>4. b = f
        BY <3>1
      <3> HIDE DEF b, f
      <3>5. n \in Nat /\ k \in 1..n
        BY <1>0
      <3> HIDE DEF n
      <3>6. Len(f) = n - k
        BY <3>1, <3>2, <3>3, <3>5
      <3>7. \A i \in 1..(n - k) : f[i] = s[k + i]
        <4> TAKE i \in 1..(n - k)
        <4>1. m + i - 1 = k + i
          BY <3>1, <3>5
        <4>2. f[i] = s[m + i - 1]
          BY <3>2, <3>3
        <4> QED
          BY <4>1, <4>2
      <3> QED
        BY <3>3, <3>4, <3>6, <3>7
    <2> HIDE DEF a, b
    <2>3. r = a \o b
      BY <1>1 DEF a, b
    <2>4. /\ r \in Seq(S) /\ Len(r) = (k - 1) + (n - k)
          /\ \A i \in 1..((k - 1) + (n - k)) :
                r[i] = IF i <= k - 1 THEN a[i] ELSE b[i - (k - 1)]
      <3>1. /\ r \in Seq(S) /\ Len(r) = Len(a) + Len(b)
            /\ \A i \in 1..(Len(a) + Len(b)) :
                  r[i] = IF i <= Len(a) THEN a[i] ELSE b[i - Len(a)]
        BY <2>1, <2>2, <2>3, ConcatProperties
      <3> QED
        BY <2>1, <2>2, <3>1
    <2>5. (k - 1) + (n - k) = n - 1
      BY <1>0
    <2>6. ASSUME NEW i \in 1..(n - 1) PROVE r[i] = IF i < k THEN s[i] ELSE s[i + 1]
      <3>1. CASE i < k
        <4>1. i \in 1..(k - 1) /\ i \in 1..((k - 1) + (n - k)) /\ i <= k - 1
          BY <1>0, <2>5, <3>1
        <4> HIDE DEF n
        <4>2. r[i] = a[i] /\ a[i] = s[i]
          BY <2>1, <2>4, <4>1
        <4> QED
          BY <3>1, <4>2
      <3>2. CASE ~(i < k)
        <4>1. i - (k - 1) \in 1..(n - k) /\ k + (i - (k - 1)) = i + 1 /\ ~(i <= k - 1)
          BY <1>0, <3>2
        <4> QED
          BY <2>2, <2>4, <2>5, <3>2, <4>1
      <3> QED
        BY <3>1, <3>2
    <2> QED
      BY <2>4, <2>5, <2>6
  <1> QED
    BY <1>2 DEF r

LEMMA RemoveFirstIs ==
  ASSUME NEW S, NEW s \in Seq(S), IsInjective(s), NEW e
  PROVE  /\ RemoveFirst(s, e) \in Seq(S)
         /\ IsInjective(RemoveFirst(s, e))
         /\ ToSet(RemoveFirst(s, e)) = ToSet(s) \ {e}
  <1> DEFINE r == RemoveFirst(s, e)
             n == Len(s)
  <1>1. n \in Nat /\ DOMAIN s = 1..n
    BY LenProperties
  <1>2. CASE ~ \E i \in 1..n : s[i] = e
    <2>1. r = s
      BY <1>2 DEF RemoveFirst
    <2> QED
      BY <1>1, <1>2, <2>1 DEF ToSet
  <1>3. ASSUME NEW k \in 1..n, s[k] = e
        PROVE  r \in Seq(S) /\ IsInjective(r) /\ ToSet(r) = ToSet(s) \ {e}
    <2>2. /\ r \in Seq(S) /\ Len(r) = n - 1
          /\ \A i \in 1..(n - 1) : r[i] = IF i < k THEN s[i] ELSE s[i + 1]
      BY <1>3, RemovedAt
    <2> HIDE DEF r
    <2>3. DOMAIN r = 1..(n - 1)
      BY <2>2, LenProperties
    <2>4. IsInjective(r)
      <3>1. \A i, j \in 1..n : s[i] = s[j] => i = j
        BY <1>1 DEF IsInjective
      <3>2. \A i, j \in 1..(n - 1) : r[i] = r[j] => i = j
        BY <1>1, <2>2, <3>1
      <3> QED
        BY <2>3, <3>2 DEF IsInjective
    <2>5. ASSUME NEW x \in ToSet(r) PROVE x \in ToSet(s) \ {e}
      <3>1. PICK i \in 1..(n - 1) : r[i] = x
        BY <2>3, <2>5 DEF ToSet
      <3>2. PICK j \in 1..n : j # k /\ s[j] = x
        <4>1. CASE i < k
          <5>1. i \in 1..n /\ i # k
            BY <1>1, <4>1
          <5>2. s[i] = x
            BY <2>2, <3>1, <4>1
          <5> QED
            BY <5>1, <5>2
        <4>2. CASE ~(i < k)
          <5>1. i + 1 \in 1..n /\ i + 1 # k
            BY <1>1, <4>2
          <5>2. s[i + 1] = x
            BY <2>2, <3>1, <4>2
          <5> QED
            BY <5>1, <5>2
        <4> QED
          BY <4>1, <4>2
      <3> QED
        BY <1>1, <1>3, <3>2 DEF ToSet, IsInjective
    <2>6. ASSUME NEW x \in ToSet(s), x # e PROVE x \in ToSet(r)
      <3>1. PICK j \in 1..n : s[j] = x
        BY <1>1 DEF ToSet
      <3>2. j # k
        BY <1>3, <2>6, <3>1
      <3>3. \E i \in 1..(n - 1) : r[i] = x
        <4>1. CASE j < k
          BY <1>1, <2>2, <3>1, <4>1
        <4>2. CASE j > k
          <5>1. j - 1 \in 1..(n - 1) /\ ~(j - 1 < k) /\ (j - 1) + 1 = j
            BY <1>1, <4>2
          <5> QED
            BY <2>2, <3>1, <5>1
        <4> QED
          BY <1>1, <3>2, <4>1, <4>2
      <3> QED
        BY <2>3, <3>3 DEF ToSet
    <2> QED
      BY <2>2, <2>4, <2>5, <2>6
  <1> QED
    BY <1>2, <1>3

LEMMA AppendIs ==
  ASSUME NEW S, NEW s \in Seq(S), NEW e \in S
  PROVE  /\ Append(s, e) \in Seq(S)
         /\ Append(s, e) # << >>
         /\ IsInjective(s) /\ e \notin ToSet(s) => IsInjective(Append(s, e))
         /\ ToSet(Append(s, e)) = ToSet(s) \cup {e}
  <1> DEFINE r == Append(s, e)
             n == Len(s)
  <1>1. n \in Nat /\ DOMAIN s = 1..n
    BY LenProperties
  <1>2. /\ r \in Seq(S) /\ Len(r) = n + 1 /\ DOMAIN r = 1..(n + 1)
        /\ \A i \in 1..n : r[i] = s[i]
        /\ r[n + 1] = e
    BY <1>1
  <1> HIDE DEF r, n
  <1>3. r # << >>
    BY <1>1, <1>2
  <1>4. IsInjective(s) /\ e \notin ToSet(s) => IsInjective(r)
    BY <1>1, <1>2 DEF IsInjective, ToSet
  <1>5. ToSet(r) \subseteq ToSet(s) \cup {e}
    BY <1>1, <1>2 DEF ToSet
  <1>6. ToSet(s) \subseteq ToSet(r)
    BY <1>1, <1>2 DEF ToSet
  <1>7. e \in ToSet(r)
    BY <1>1, <1>2 DEF ToSet
  <1> QED
    BY <1>2, <1>3, <1>4, <1>5, <1>6, <1>7 DEF r

LEMMA EmptyIs == /\ ToSet(<< >>) = {}
                 /\ IsInjective(<< >>)
  BY DEF ToSet, IsInjective

LEMMA MembersOf ==
  ASSUME NEW S, NEW s \in Seq(S)
  PROVE  /\ ToSet(s) \in SUBSET S
         /\ s # << >> <=> ToSet(s) # {}
         /\ \A i \in 1..Len(s) : s[i] \in ToSet(s)
         /\ s # << >> => 1 \in 1..Len(s) /\ Head(s) \in ToSet(s) /\ Head(s) = s[1]
  <1>1. Len(s) \in Nat /\ DOMAIN s = 1..Len(s)
    BY LenProperties
  <1>2. s # << >> => 1 \in 1..Len(s)
    BY <1>1
  <1>3. \A i \in 1..Len(s) : s[i] \in ToSet(s)
    BY <1>1 DEF ToSet
  <1>4. s # << >> => Head(s) = s[1]
    OBVIOUS
  <1>5. ToSet(s) \in SUBSET S
    BY <1>1 DEF ToSet
  <1>6. s = << >> => ToSet(s) = {}
    BY EmptyIs
  <1> QED
    BY <1>2, <1>3, <1>4, <1>5, <1>6

-----------------------------------------------------------------------------
(* Which of two windows stands before the other in a list.                 *)

\* v stands before w in the sequence s.
Before(s, v, w) == \E i, j \in DOMAIN s : i < j /\ s[i] = v /\ s[j] = w

LEMMA BeforeOnce ==
  ASSUME NEW s \in Seq(Windows), IsInjective(s), NEW v, NEW w, Before(s, v, w)
  PROVE  ~Before(s, w, v) /\ v \in ToSet(s) /\ w \in ToSet(s)
  <1>1. Len(s) \in Nat /\ DOMAIN s = 1..Len(s)
    BY LenProperties
  <1>2. ASSUME Before(s, w, v) PROVE FALSE
    <2>1. PICK i \in DOMAIN s, j \in DOMAIN s : i < j /\ s[i] = v /\ s[j] = w
      BY DEF Before
    <2>2. PICK p \in DOMAIN s, q \in DOMAIN s : p < q /\ s[p] = w /\ s[q] = v
      BY <1>2 DEF Before
    <2>3. p = j /\ q = i
      BY <2>1, <2>2 DEF IsInjective
    <2> QED
      BY <1>1, <2>1, <2>2, <2>3
  <1> QED
    BY <1>2 DEF Before, ToSet

\* Taking a window out of a list leaves the others in their order.
LEMMA BeforeRemoved ==
  ASSUME NEW s \in Seq(Windows), IsInjective(s), NEW x, NEW v, NEW w,
         Before(RemoveFirst(s, x), v, w)
  PROVE  Before(s, v, w)
  <1> DEFINE r == RemoveFirst(s, x)
             n == Len(s)
  <1>1. n \in Nat /\ DOMAIN s = 1..n
    BY LenProperties
  <1>2. CASE ~ \E k \in 1..n : s[k] = x
    <2>1. r = s
      BY <1>2 DEF RemoveFirst
    <2> QED
      BY <2>1
  <1>3. ASSUME NEW k \in 1..n, s[k] = x PROVE Before(s, v, w)
    <2>1. /\ r \in Seq(Windows) /\ Len(r) = n - 1
          /\ \A i \in 1..(n - 1) : r[i] = IF i < k THEN s[i] ELSE s[i + 1]
      BY <1>3, RemovedAt
    <2>2. DOMAIN r = 1..(n - 1)
      BY <2>1, LenProperties
    <2>3. PICK i \in 1..(n - 1), j \in 1..(n - 1) : i < j /\ r[i] = v /\ r[j] = w
      BY <2>2 DEF Before
    <2> HIDE DEF r
    <2> DEFINE p == IF i < k THEN i ELSE i + 1
               q == IF j < k THEN j ELSE j + 1
    <2>4. s[p] = v /\ s[q] = w
      BY <2>1, <2>3
    <2>5. p \in 1..n /\ q \in 1..n /\ p < q
      BY <1>1, <2>3
    <2> QED
      BY <1>1, <2>4, <2>5 DEF Before
  <1> QED
    BY <1>2, <1>3

\* A window that comes to a list stands behind the others.
LEMMA BeforeAppended ==
  ASSUME NEW s \in Seq(Windows), NEW x \in Windows, NEW v, NEW w, Before(Append(s, x), v, w)
  PROVE  Before(s, v, w) \/ (w = x /\ v \in ToSet(s))
  <1> DEFINE r == Append(s, x)
             n == Len(s)
  <1>1. n \in Nat /\ DOMAIN s = 1..n
    BY LenProperties
  <1>2. /\ DOMAIN r = 1..(n + 1)
        /\ \A i \in 1..n : r[i] = s[i]
        /\ r[n + 1] = x
    BY <1>1
  <1>3. PICK i \in 1..(n + 1), j \in 1..(n + 1) : i < j /\ r[i] = v /\ r[j] = w
    BY <1>2 DEF Before
  <1> HIDE DEF r
  <1>4. i \in 1..n /\ s[i] = v
    BY <1>1, <1>2, <1>3
  <1>5. CASE j = n + 1
    BY <1>1, <1>2, <1>3, <1>4, <1>5 DEF ToSet
  <1>6. CASE j # n + 1
    <2>1. j \in 1..n /\ s[j] = w
      BY <1>1, <1>2, <1>3, <1>6
    <2> QED
      BY <1>1, <1>3, <1>4, <2>1 DEF Before
  <1> QED
    BY <1>5, <1>6

\* Precedes of Desktop, list by list.
LEMMA PrecedesIs ==
  ASSUME NEW d, NEW v, NEW w
  PROVE  Precedes(d, v, w) <=> \E g \in Groups : Before(d.gwin[g], v, w)
  BY DEF Precedes, Before

-----------------------------------------------------------------------------
(* The invariant of a desktop, part by part.  E are groups that may be     *)
(* empty for the time being, X groups whose active window may have left    *)
(* or gone, O outputs that do not show a workspace yet.                    *)

Typed(d) ==
  /\ d \in Desk
  /\ IsInjective(d.outs) /\ IsInjective(d.groups)
  /\ \A g \in Groups : IsInjective(d.gwin[g])
  /\ \A o \in Outputs : IsInjective(d.asg[o])

\* The workspaces that exist.
Spaces(d) == 1..d.nws

\* Ownership of Desktop but for the windows on show; a group is on a workspace
\* that exists.
Owned(d, E) ==
  /\ \A g \in Groups : /\ d.gwin[g] # << >> => g \in Live(d)
                       /\ g \in Live(d) \ E => d.gwin[g] # << >>
                       /\ g \in Live(d) => d.gws[g] # NoWs /\ d.gws[g] \in Spaces(d)
  /\ \A w \in Windows, g \in Groups : w \in ToSet(d.gwin[g]) <=> d.own[w] = g
  /\ \A w \in Windows : d.own[w] # None => d.wws[w] = d.gws[d.own[w]]

\* Which windows are on show and which are in no group.
Housed(R, d) ==
  /\ d.mapped = R.mapped
  /\ \A w \in Windows : d.own[w] = None <=> w \in R.outside

\* ActiveGroups of Desktop.
Pointed(d) ==
  /\ \A ws \in Workspaces :
       /\ d.wact[ws] = None <=> \A g \in Live(d) : d.gws[g] # ws
       /\ d.wact[ws] # None => /\ d.wact[ws] \in Live(d)
                               /\ d.gws[d.wact[ws]] = ws
  /\ d.act # None => d.act \in Live(d)

\* A group object that is not in use is blank.
Blank(d) ==
  \A g \in Groups \ Live(d) : d.gact[g] = None /\ d.pin[g] = None /\ g \notin d.flt

\* ActiveTab of Desktop.
Tabbed(d, X) ==
  \A g \in Live(d) \ X :
     d.gact[g] # None => d.own[d.gact[g]] = g /\ d.gact[g] \in d.mapped

\* KeyboardIsActive of Desktop.
Keyed(R, d) ==
  R.kbd = "tabs" =>
    /\ d.act = None => d.kbd = None
    /\ d.act # None /\ d.gact[d.act] # None => d.kbd = d.gact[d.act]

\* PinnedShown of Desktop.
Pinned(d) ==
  \A g \in Live(d) : d.pin[g] # None => g \in d.flt /\ d.gws[g] = d.vis[d.pin[g]]

\* Screens of Desktop but for the focused output; an output that is not plugged
\* in shows nothing, and a workspace that does not exist yet is on no output.
Placed(R, d, O) ==
  /\ \A o \in ToSet(d.outs) \ O : d.vis[o] \in ToSet(d.asg[o])
  /\ \A o \in Outputs, ws \in Workspaces : d.home[ws] = o <=> ws \in ToSet(d.asg[o])
  /\ \A ws \in Workspaces : d.home[ws] \in ToSet(d.outs) \cup {None}
  /\ \A o \in Outputs \ ToSet(d.outs) : d.vis[o] = NoWs
  /\ d.nws >= Configured /\ \A ws \in R.spaces : ws \in Workspaces /\ ws <= d.nws
  /\ \A ws \in Workspaces : ws > d.nws => d.home[ws] = None

\* AffinityHonoured of Desktop.
Honoured(d) ==
  \A ws \in 1..d.nws :
     Affinity[ws] # None =>
        d.home[ws] = IF Affinity[ws] \in ToSet(d.outs) THEN Affinity[ws] ELSE None

\* Some output is focused while there is one.
Focused(d) == IF d.outs = << >> THEN d.fo = None ELSE d.fo \in ToSet(d.outs)

Linked(R, d, E) == Typed(d) /\ Owned(d, E) /\ Housed(R, d) /\ Pointed(d) /\ Blank(d)

Good(R, d, E, O) ==
  /\ Linked(R, d, E)
  /\ Tabbed(d, {})
  /\ Keyed(R, d)
  /\ Pinned(d)
  /\ Placed(R, d, O)
  /\ Honoured(d)

Sound(R, d) == Good(R, d, {}, {}) /\ Focused(d)

\* S is the roster R with other windows on show and in no group.
Recast(R, S, mapped, outside) ==
  /\ S.mapped = mapped /\ S.outside = outside
  /\ S.kbd = R.kbd /\ S.spaces = R.spaces

LEMMA RecastGood ==
  ASSUME NEW R, NEW S, NEW d, NEW E, NEW O, Good(R, d, E, O), Housed(S, d),
         S.kbd = R.kbd, S.spaces = R.spaces
  PROVE  Good(S, d, E, O)
  <1>1. Keyed(S, d) /\ Placed(S, d, O)
    BY DEF Good, Keyed, Placed
  <1> QED
    BY <1>1 DEF Good, Linked

-----------------------------------------------------------------------------
(* What the functions do, field by field.                                  *)

LEMMA DeskFields ==
  ASSUME NEW d \in Desk
  PROVE  /\ d.outs \in Seq(Outputs)
         /\ d.fo \in Outputs \cup {None}
         /\ d.nws \in 0..MaxWs
         /\ d.home \in [Workspaces -> Outputs \cup {None}]
         /\ d.asg \in [Outputs -> Seq(Workspaces)]
         /\ d.vis \in [Outputs -> Workspaces \cup {NoWs}]
         /\ d.wact \in [Workspaces -> Groups \cup {None}]
         /\ d.act \in Groups \cup {None}
         /\ d.groups \in Seq(Groups)
         /\ d.gws \in [Groups -> Workspaces \cup {NoWs}]
         /\ d.gwin \in [Groups -> Seq(Windows)]
         /\ d.gact \in [Groups -> Windows \cup {None}]
         /\ d.flt \in SUBSET Groups
         /\ d.pin \in [Groups -> Outputs \cup {None}]
         /\ d.own \in [Windows -> Groups \cup {None}]
         /\ d.wws \in [Windows -> Workspaces \cup {NoWs}]
         /\ d.mapped \in SUBSET Windows
         /\ d.full \in SUBSET Windows
         /\ d.kbd \in Windows \cup {None}
  BY DEF Desk

LEMMA Names ==
  /\ None \notin Outputs /\ None \notin Groups /\ None \notin Windows
  /\ NoWs \notin Workspaces
  BY DesktopAssumption DEF Workspaces, NoWs

LEMMA Numbers ==
  /\ MaxWs \in Nat /\ Configured \in 1..MaxWs
  /\ Workspaces = 1..MaxWs
  BY DesktopAssumption DEF Workspaces

\* w is the active window of g, and k has the keyboard.
Active(d, g, w, k) == [d EXCEPT !.gact[g] = w, !.kbd = k]

LEMMA SetActiveWindowIs ==
  ASSUME NEW d \in Desk, NEW g \in Groups, NEW w \in Windows \cup {None}
  PROVE  /\ d.act # g => SetActiveWindow(d, g, w) = Active(d, g, w, d.kbd)
         /\ d.act = g /\ w \in d.mapped => SetActiveWindow(d, g, w) = Active(d, g, w, w)
         /\ d.act = g /\ w \notin d.mapped => SetActiveWindow(d, g, w) = Active(d, g, w, None)
  BY DEF SetActiveWindow, InputFocusWindow, Desk, Active

\* g, with its window w, is active in the workspace ws and on the server.
FrontOf(d, g, ws, w, full) ==
  [d EXCEPT !.fo = d.home[ws], !.wact[ws] = g, !.act = g,
            !.full = full, !.gact[g] = w, !.kbd = w]

\* FocusWindow leaves the desktop alone, or w becomes the active window of its
\* group, and the group that of its workspace and of the server.
LEMMA FocusWindowIs ==
  ASSUME NEW d \in Desk, NEW w \in Windows,
         \A g \in Groups : d.own[w] = g => d.gws[g] # NoWs
  PROVE  \/ /\ FocusWindow(d, w) = d
            /\ \/ d.own[w] = None \/ w \notin d.mapped
               \/ ~IsVisible(d, d.gws[d.own[w]])
         \/ \E g \in Groups, ws \in Workspaces, full \in SUBSET Windows :
              /\ d.own[w] = g /\ d.gws[g] = ws
              /\ w \in d.mapped
              /\ d.home[ws] \in Outputs /\ d.vis[d.home[ws]] = ws
              /\ FocusWindow(d, w) = FrontOf(d, g, ws, w, full)
  <1> DEFINE g == d.own[w]
             ws == d.gws[g]
  <1>1. CASE g = None \/ w \notin d.mapped \/ ~IsVisible(d, ws)
    BY <1>1 DEF FocusWindow
  <1>2. CASE ~(g = None \/ w \notin d.mapped \/ ~IsVisible(d, ws))
    <2>1. g \in Groups /\ ws \in Workspaces
      BY <1>2, DeskFields
    <2>2. d.home[ws] \in Outputs /\ d.vis[d.home[ws]] = ws /\ w \in d.mapped
      <3>1. IsVisible(d, ws) /\ w \in d.mapped
        BY <1>2
      <3>2. d.home[ws] \in Outputs \cup {None}
        BY <2>1, DeskFields
      <3> QED
        BY <3>1, <3>2 DEF IsVisible
    <2>3. PICK full \in SUBSET Windows :
            FocusWindow(d, w) =
              SetActiveWindow([d EXCEPT !.fo = d.home[ws], !.wact[ws] = g, !.act = g,
                                        !.full = full], g, w)
      <3> DEFINE prev == IF d.act = None THEN None ELSE d.gact[d.act]
                 leaves == /\ prev \in d.full \ {w}
                           /\ d.own[prev] # None
                           /\ d.gws[d.own[prev]] = ws
                 full == IF leaves THEN d.full \ {prev} ELSE d.full
      <3>1. full \in SUBSET Windows
        BY DeskFields
      <3> HIDE DEF leaves
      <3>2. [d EXCEPT !.fo = d.home[ws], !.wact[ws] = g, !.act = g,
                      !.full = IF leaves THEN @ \ {prev} ELSE @]
              = [d EXCEPT !.fo = d.home[ws], !.wact[ws] = g, !.act = g, !.full = full]
        BY DEF Desk
      <3>3. FocusWindow(d, w) =
              SetActiveWindow([d EXCEPT !.fo = d.home[ws], !.wact[ws] = g, !.act = g,
                                        !.full = IF leaves THEN @ \ {prev} ELSE @], g, w)
        BY <1>2 DEF FocusWindow, leaves
      <3> QED
        BY <3>1, <3>2, <3>3
    <2> DEFINE e == [d EXCEPT !.fo = d.home[ws], !.wact[ws] = g, !.act = g, !.full = full]
    <2>4. e \in Desk /\ e.act = g /\ e.mapped = d.mapped /\ e.gact = d.gact
      BY <2>1, <2>2 DEF Desk
    <2>5. SetActiveWindow(e, g, w) = Active(e, g, w, w)
      <3> HIDE DEF e
      <3> QED
        BY <2>1, <2>2, <2>4, SetActiveWindowIs
    <2>6. Active(e, g, w, w) = FrontOf(d, g, ws, w, full)
      BY <2>4 DEF Desk, Active, FrontOf
    <2>7. FocusWindow(d, w) = FrontOf(d, g, ws, w, full)
      BY <2>3, <2>5, <2>6
    <2> QED
      BY <2>1, <2>2, <2>7
  <1> QED
    BY <1>1, <1>2

LEMMA LastMappedIs ==
  ASSUME NEW d \in Desk, NEW g \in Groups
  PROVE  \/ LastMapped(d, g) = None
         \/ /\ LastMapped(d, g) \in Windows
            /\ LastMapped(d, g) \in ToSet(d.gwin[g])
            /\ LastMapped(d, g) \in d.mapped
  <1> DEFINE s == d.gwin[g]
             I == {i \in 1..Len(s) : s[i] \in d.mapped}
  <1>1. s \in Seq(Windows) /\ Len(s) \in Nat
    BY DeskFields, LenProperties
  <1>2. LastMapped(d, g) = LET i == IF I # {} THEN Max(I) ELSE 0
                           IN  IF i = 0 THEN None ELSE s[i]
    BY DEF LastMapped, SelectLastInSeq
  <1>3. I \in SUBSET (1..Len(s))
    OBVIOUS
  <1> HIDE DEF s
  <1>4. CASE I = {}
    BY <1>2, <1>4
  <1>5. CASE I # {}
    <2>1. Max(I) \in I
      BY <1>1, <1>3, <1>5, MaxOf
    <2>2. LastMapped(d, g) = s[Max(I)]
      BY <1>1, <1>2, <1>3, <1>5, <2>1
    <2>3. s[Max(I)] \in ToSet(s) /\ s[Max(I)] \in Windows /\ s[Max(I)] \in d.mapped
      BY <1>1, <2>1, MembersOf
    <2> QED
      BY <2>2, <2>3 DEF s
  <1> QED
    BY <1>4, <1>5

LEMMA LastGroupInIs ==
  ASSUME NEW d \in Desk, NEW ws
  PROVE  \/ LastGroupIn(d, ws) = None /\ \A g \in Live(d) : d.gws[g] # ws
         \/ LastGroupIn(d, ws) \in Live(d) /\ d.gws[LastGroupIn(d, ws)] = ws
  <1> DEFINE s == d.groups
             I == {i \in 1..Len(s) : d.gws[s[i]] = ws}
  <1>1. s \in Seq(Groups) /\ Len(s) \in Nat /\ DOMAIN s = 1..Len(s)
    BY DeskFields, LenProperties
  <1>2. LastGroupIn(d, ws) = LET i == IF I # {} THEN Max(I) ELSE 0
                             IN  IF i = 0 THEN None ELSE s[i]
    BY DEF LastGroupIn, SelectLastInSeq
  <1>3. I \in SUBSET (1..Len(s))
    OBVIOUS
  <1>4. Live(d) = ToSet(s)
    BY DEF Live
  <1> HIDE DEF s
  <1>5. CASE I = {}
    BY <1>1, <1>2, <1>4, <1>5 DEF ToSet
  <1>6. CASE I # {}
    <2>1. Max(I) \in I
      BY <1>1, <1>3, <1>6, MaxOf
    <2>2. LastGroupIn(d, ws) = s[Max(I)]
      BY <1>1, <1>2, <1>3, <1>6, <2>1
    <2>3. s[Max(I)] \in ToSet(s) /\ d.gws[s[Max(I)]] = ws
      BY <1>1, <2>1, MembersOf
    <2> QED
      BY <1>4, <2>2, <2>3
  <1> QED
    BY <1>5, <1>6

\* What functions about groups leave alone, and what a change of focus does.
SameOutputs(d, e) ==
  /\ e.outs = d.outs /\ e.nws = d.nws /\ e.home = d.home
  /\ e.asg = d.asg /\ e.vis = d.vis

Still(d, e) ==
  /\ e.groups = d.groups /\ e.gws = d.gws /\ e.gwin = d.gwin /\ e.own = d.own
  /\ e.wws = d.wws /\ e.mapped = d.mapped /\ e.flt = d.flt /\ e.pin = d.pin

LEMMA ActiveFields ==
  ASSUME NEW d \in Desk, NEW g \in Groups, NEW w \in Windows \cup {None},
         NEW k \in Windows \cup {None}
  PROVE  /\ Active(d, g, w, k) \in Desk
         /\ SameOutputs(d, Active(d, g, w, k))
         /\ Still(d, Active(d, g, w, k))
         /\ Active(d, g, w, k).fo = d.fo
         /\ Active(d, g, w, k).wact = d.wact
         /\ Active(d, g, w, k).act = d.act
         /\ Active(d, g, w, k).full = d.full
         /\ Active(d, g, w, k).gact = [d.gact EXCEPT ![g] = w]
         /\ Active(d, g, w, k).kbd = k
  BY DEF Desk, Active, SameOutputs, Still

LEMMA FrontFields ==
  ASSUME NEW d \in Desk, NEW g \in Groups, NEW ws \in Workspaces, NEW w \in Windows,
         NEW full \in SUBSET Windows
  PROVE  /\ FrontOf(d, g, ws, w, full) \in Desk
         /\ SameOutputs(d, FrontOf(d, g, ws, w, full))
         /\ Still(d, FrontOf(d, g, ws, w, full))
         /\ FrontOf(d, g, ws, w, full).fo = d.home[ws]
         /\ FrontOf(d, g, ws, w, full).wact = [d.wact EXCEPT ![ws] = g]
         /\ FrontOf(d, g, ws, w, full).act = g
         /\ FrontOf(d, g, ws, w, full).full = full
         /\ FrontOf(d, g, ws, w, full).gact = [d.gact EXCEPT ![g] = w]
         /\ FrontOf(d, g, ws, w, full).kbd = w
  BY DEF Desk, FrontOf, SameOutputs, Still

\* The focused output moves, if it does, to one that is plugged in.
Near(d, e) ==
  /\ SameOutputs(d, e)
  /\ e.fo = d.fo \/ e.fo \in ToSet(d.outs)

\* The parts of the invariant that a change of focus leaves alone.
LEMMA SameSpaces ==
  ASSUME NEW d, NEW e, SameOutputs(d, e)
  PROVE  Spaces(e) = Spaces(d)
  BY DEF SameOutputs, Spaces

LEMMA SpaceOnOutput ==
  ASSUME NEW R, NEW O, NEW d \in Desk, Placed(R, d, O), NEW ws \in Workspaces, d.home[ws] # None
  PROVE  ws \in Spaces(d)
  <1>1. ~(ws > d.nws)
    BY DEF Placed
  <1> QED
    BY <1>1, DeskFields, Numbers DEF Spaces

LEMMA StillKeeps ==
  ASSUME NEW R, NEW d, NEW e \in Desk, NEW E, NEW O, Still(d, e), Near(d, e)
  PROVE  /\ Typed(d) => Typed(e)
         /\ Owned(d, E) => Owned(e, E)
         /\ Housed(R, d) => Housed(R, e)
         /\ Pinned(d) => Pinned(e)
         /\ Placed(R, d, O) => Placed(R, e, O)
         /\ Honoured(d) => Honoured(e)
         /\ Focused(d) => Focused(e)
         /\ Live(e) = Live(d)
  <1>1. Live(e) = Live(d)
    BY DEF Live, Still
  <1>2. Typed(d) => Typed(e)
    BY DEF Typed, Still, Near, SameOutputs
  <1>3. Owned(d, E) => Owned(e, E)
    BY <1>1, SameSpaces DEF Owned, Still, Near
  <1>0. Housed(R, d) => Housed(R, e)
    BY DEF Housed, Still
  <1>4. Pinned(d) => Pinned(e)
    BY <1>1 DEF Pinned, Still, Near, SameOutputs
  <1>5. Placed(R, d, O) => Placed(R, e, O)
    BY DEF Placed, Near, SameOutputs
  <1>6. Honoured(d) => Honoured(e)
    BY DEF Honoured, Near, SameOutputs
  <1>7. Focused(d) => Focused(e)
    <2>1. \A x : x \in ToSet(<< >>) => FALSE
      BY EmptyIs
    <2> QED
      BY <2>1 DEF Focused, Near, SameOutputs
  <1> QED
    BY <1>0, <1>1, <1>2, <1>3, <1>4, <1>5, <1>6, <1>7

LEMMA NearTransitive ==
  ASSUME NEW d, NEW e, NEW f, Near(d, e), Near(e, f)
  PROVE  Near(d, f)
  BY DEF Near, SameOutputs

LEMMA NearFocused ==
  ASSUME NEW d, NEW e, Near(d, e), Focused(d)
  PROVE  Focused(e)
  BY EmptyIs DEF Near, Focused, SameOutputs

\* Giving a window the focus.
LEMMA FocusWindowGood ==
  ASSUME NEW R, NEW d, NEW E, NEW O, Good(R, d, E, O), NEW w \in Windows
  PROVE  /\ Good(R, FocusWindow(d, w), E, O)
         /\ Near(d, FocusWindow(d, w))
         /\ Still(d, FocusWindow(d, w))
  <1> DEFINE f == FocusWindow(d, w)
  <1>1. /\ Typed(d) /\ Owned(d, E) /\ Housed(R, d) /\ Pointed(d) /\ Blank(d) /\ Tabbed(d, {})
        /\ Keyed(R, d) /\ Pinned(d) /\ Placed(R, d, O) /\ Honoured(d) /\ d \in Desk
    BY DEF Good, Linked, Typed
  <1>2. CASE f = d
    BY <1>2 DEF Near, Still, SameOutputs
  <1>3. ASSUME NEW g \in Groups, NEW ws \in Workspaces, NEW full \in SUBSET Windows,
               d.own[w] = g, d.gws[g] = ws, w \in d.mapped,
               d.home[ws] \in Outputs, f = FrontOf(d, g, ws, w, full)
        PROVE  Good(R, f, E, O) /\ Near(d, f) /\ Still(d, f)
    <2> HIDE DEF f
    <2>1. /\ f \in Desk /\ Still(d, f) /\ SameOutputs(d, f) /\ f.fo = d.home[ws]
          /\ f.wact = [d.wact EXCEPT ![ws] = g] /\ f.act = g
          /\ f.gact = [d.gact EXCEPT ![g] = w] /\ f.kbd = w
      BY <1>1, <1>3, FrontFields
    <2>2. d.home[ws] \in ToSet(d.outs) \cup {None}
      BY <1>1 DEF Placed
    <2>3. d.home[ws] \in ToSet(d.outs)
      BY <1>3, <2>2, Names
    <2>4. Near(d, f)
      BY <2>1, <2>3 DEF Near
    <2>6. /\ Typed(f) /\ Owned(f, E) /\ Housed(R, f) /\ Pinned(f) /\ Placed(R, f, O) /\ Honoured(f)
          /\ Live(f) = Live(d)
      BY <1>1, <2>1, <2>1, <2>4, StillKeeps
    <2>7. g \in Live(d)
      <3>1. w \in ToSet(d.gwin[g])
        BY <1>1, <1>3 DEF Owned
      <3>2. d.gwin[g] # << >>
        BY <3>1, EmptyIs
      <3> QED
        BY <1>1, <3>2 DEF Owned
    <2>8. Pointed(f)
      BY <1>1, <1>3, <2>1, <2>6, <2>7, DeskFields, Names DEF Pointed, Still
    <2>9. Blank(f)
      BY <1>1, <2>1, <2>6, <2>7, DeskFields DEF Blank, Still
    <2>10. Tabbed(f, {})
      BY <1>1, <1>3, <2>1, <2>6, DeskFields DEF Tabbed, Still
    <2>11. Keyed(R, f)
      BY <1>1, <2>1, DeskFields, Names DEF Keyed
    <2> QED
      BY <2>1, <2>4, <2>6, <2>8, <2>9, <2>10, <2>11 DEF Good, Linked
  <1>4. \A g \in Groups : d.own[w] = g => d.gws[g] # NoWs
    <2> SUFFICES ASSUME NEW g \in Groups, d.own[w] = g PROVE d.gws[g] # NoWs
      OBVIOUS
    <2>1. w \in ToSet(d.gwin[g])
      BY <1>1 DEF Owned
    <2>2. d.gwin[g] # << >>
      BY <2>1, EmptyIs
    <2> QED
      BY <1>1, <2>2 DEF Owned
  <1>5. \/ f = d
        \/ \E g \in Groups, ws \in Workspaces, full \in SUBSET Windows :
              /\ d.own[w] = g /\ d.gws[g] = ws /\ w \in d.mapped
              /\ d.home[ws] \in Outputs
              /\ f = FrontOf(d, g, ws, w, full)
    BY <1>1, <1>4, FocusWindowIs
  <1> QED
    BY <1>2, <1>3, <1>5

-----------------------------------------------------------------------------
(* Windows that leave a group and join one.                                *)

\* Everything but the windows' places in groups.
SamePlaces(d, e) ==
  /\ SameOutputs(d, e)
  /\ e.fo = d.fo /\ e.wact = d.wact /\ e.act = d.act /\ e.groups = d.groups
  /\ e.gws = d.gws /\ e.gact = d.gact /\ e.flt = d.flt /\ e.pin = d.pin
  /\ e.mapped = d.mapped /\ e.full = d.full /\ e.kbd = d.kbd

LEMMA AddWindowFields ==
  ASSUME NEW d \in Desk, NEW g \in Groups, NEW w \in Windows
  PROVE  /\ AddWindow(d, g, w) \in Desk
         /\ SamePlaces(d, AddWindow(d, g, w))
         /\ AddWindow(d, g, w).own = [d.own EXCEPT ![w] = g]
         /\ AddWindow(d, g, w).wws = [d.wws EXCEPT ![w] = d.gws[g]]
         /\ AddWindow(d, g, w).gwin = [d.gwin EXCEPT ![g] = Append(d.gwin[g], w)]
  <1> DEFINE own == [d.own EXCEPT ![w] = g]
             wws == [d.wws EXCEPT ![w] = d.gws[g]]
             gwin == [d.gwin EXCEPT ![g] = Append(d.gwin[g], w)]
  <1>1. /\ own \in [Windows -> Groups \cup {None}]
        /\ wws \in [Windows -> Workspaces \cup {NoWs}]
    BY DeskFields
  <1>2. gwin \in [Groups -> Seq(Windows)]
    <2>1. Append(d.gwin[g], w) \in Seq(Windows) /\ d.gwin \in [Groups -> Seq(Windows)]
      BY DeskFields
    <2> QED
      BY <2>1
  <1>3. AddWindow(d, g, w) = [d EXCEPT !.own = own, !.wws = wws, !.gwin = gwin]
    BY DEF AddWindow
  <1> HIDE DEF own, wws, gwin
  <1>4. /\ AddWindow(d, g, w) \in Desk
        /\ SamePlaces(d, AddWindow(d, g, w))
        /\ AddWindow(d, g, w).own = own
        /\ AddWindow(d, g, w).wws = wws
        /\ AddWindow(d, g, w).gwin = gwin
    BY <1>1, <1>2, <1>3, ZenonT(60) DEF Desk, SamePlaces, SameOutputs
  <1> QED
    BY <1>4 DEF own, wws, gwin

LEMMA UnlinkFields ==
  ASSUME NEW d \in Desk, NEW w \in Windows, NEW g \in Groups, d.own[w] = g,
         RemoveFirst(d.gwin[g], w) \in Seq(Windows)
  PROVE  /\ Unlink(d, w) \in Desk
         /\ SamePlaces(d, Unlink(d, w))
         /\ Unlink(d, w).own = [d.own EXCEPT ![w] = None]
         /\ Unlink(d, w).wws = d.wws
         /\ Unlink(d, w).gwin = [d.gwin EXCEPT ![g] = RemoveFirst(d.gwin[g], w)]
  BY DEF Desk, Unlink, SamePlaces, SameOutputs

\* What a change of the windows' places leaves alone.
LEMMA SamePlacesKeeps ==
  ASSUME NEW R, NEW d, NEW e, NEW O, SamePlaces(d, e)
  PROVE  /\ Pointed(d) => Pointed(e)
         /\ Blank(d) => Blank(e)
         /\ Keyed(R, d) => Keyed(R, e)
         /\ Pinned(d) => Pinned(e)
         /\ Placed(R, d, O) => Placed(R, e, O)
         /\ Honoured(d) => Honoured(e)
         /\ Near(d, e)
         /\ Live(e) = Live(d)
  <1>1. Live(e) = Live(d)
    BY DEF SamePlaces, Live
  <1>2. Pointed(d) => Pointed(e)
    BY <1>1 DEF SamePlaces, Pointed
  <1>3. Blank(d) => Blank(e)
    BY <1>1 DEF SamePlaces, Blank
  <1>4. Keyed(R, d) => Keyed(R, e)
    BY DEF SamePlaces, Keyed
  <1>5. Pinned(d) => Pinned(e)
    BY <1>1 DEF SamePlaces, SameOutputs, Pinned
  <1>6. Placed(R, d, O) => Placed(R, e, O)
    BY DEF SamePlaces, SameOutputs, Placed
  <1>7. Honoured(d) => Honoured(e)
    BY DEF SamePlaces, SameOutputs, Honoured
  <1>8. Near(d, e)
    BY DEF SamePlaces, Near
  <1> QED
    BY <1>1, <1>2, <1>3, <1>4, <1>5, <1>6, <1>7, <1>8

\* A window that is in no group joins one that is in use.
LEMMA AddWindowOwned ==
  ASSUME NEW d, NEW E, NEW g \in Live(d), NEW w \in Windows, d.own[w] = None,
         Typed(d), Owned(d, E)
  PROVE  /\ Typed(AddWindow(d, g, w))
         /\ Owned(AddWindow(d, g, w), E \ {g})
         /\ \A h \in Groups \ {g} : AddWindow(d, g, w).gwin[h] = d.gwin[h]
         /\ AddWindow(d, g, w).gwin[g] # << >>
  <1> DEFINE e == AddWindow(d, g, w)
  <1>1. d \in Desk /\ g \in Groups
    BY MembersOf, DeskFields DEF Typed, Live
  <1>2. /\ e \in Desk /\ SamePlaces(d, e)
        /\ e.own = [d.own EXCEPT ![w] = g]
        /\ e.wws = [d.wws EXCEPT ![w] = d.gws[g]]
        /\ e.gwin = [d.gwin EXCEPT ![g] = Append(d.gwin[g], w)]
    BY <1>1, AddWindowFields
  <1> HIDE DEF e
  <1>3. Live(e) = Live(d)
    BY <1>2 DEF SamePlaces, Live
  <1>4. w \notin ToSet(d.gwin[g]) /\ d.gwin[g] \in Seq(Windows) /\ IsInjective(d.gwin[g])
    BY <1>1, DeskFields, Names DEF Owned, Typed
  <1>5. /\ e.gwin[g] # << >> /\ IsInjective(e.gwin[g])
        /\ ToSet(e.gwin[g]) = ToSet(d.gwin[g]) \cup {w}
        /\ \A h \in Groups \ {g} : e.gwin[h] = d.gwin[h]
    <2>1. e.gwin[g] = Append(d.gwin[g], w) /\ \A h \in Groups \ {g} : e.gwin[h] = d.gwin[h]
      BY <1>1, <1>2, DeskFields
    <2>2. /\ Append(d.gwin[g], w) # << >> /\ IsInjective(Append(d.gwin[g], w))
          /\ ToSet(Append(d.gwin[g], w)) = ToSet(d.gwin[g]) \cup {w}
      BY <1>4, AppendIs
    <2> QED
      BY <2>1, <2>2
  <1>6. Typed(e)
    BY <1>1, <1>2, <1>5 DEF Typed, SamePlaces, SameOutputs
  <1>7. Owned(e, E \ {g})
    <2>1. \A h \in Groups : /\ e.gwin[h] # << >> => h \in Live(e)
                            /\ h \in Live(e) \ (E \ {g}) => e.gwin[h] # << >>
                            /\ h \in Live(e) => e.gws[h] # NoWs /\ e.gws[h] \in Spaces(e)
      BY <1>2, <1>3, <1>5, SameSpaces DEF Owned, SamePlaces
    <2>2. \A v \in Windows, h \in Groups : v \in ToSet(e.gwin[h]) <=> e.own[v] = h
      <3> TAKE v \in Windows, h \in Groups
      <3>1. v \in ToSet(d.gwin[h]) <=> d.own[v] = h
        BY DEF Owned
      <3>2. e.own[v] = IF v = w THEN g ELSE d.own[v]
        BY <1>1, <1>2, DeskFields
      <3>3. CASE h = g
        BY <1>5, <3>1, <3>2, <3>3
      <3>4. CASE h # g
        BY <1>1, <1>5, <3>1, <3>2, <3>4, Names
      <3> QED
        BY <3>3, <3>4
    <2>3. \A v \in Windows : e.own[v] # None => e.wws[v] = e.gws[e.own[v]]
      BY <1>1, <1>2, DeskFields DEF Owned, SamePlaces
    <2> QED
      BY <2>1, <2>2, <2>3 DEF Owned
  <1> QED
    BY <1>5, <1>6, <1>7 DEF e

\* A window leaves its group.
LEMMA UnlinkOwned ==
  ASSUME NEW d, NEW E, NEW w \in Windows, NEW g \in Groups, d.own[w] = g,
         Typed(d), Owned(d, E)
  PROVE  /\ Typed(Unlink(d, w))
         /\ Owned(Unlink(d, w), E \cup {g})
         /\ SamePlaces(d, Unlink(d, w))
         /\ Unlink(d, w).own = [d.own EXCEPT ![w] = None]
         /\ Unlink(d, w).wws = d.wws
         /\ \A h \in Groups \ {g} : Unlink(d, w).gwin[h] = d.gwin[h]
         /\ g \in Live(d)
  <1> DEFINE e == Unlink(d, w)
  <1>1. d \in Desk /\ d.gwin[g] \in Seq(Windows) /\ IsInjective(d.gwin[g])
    BY DeskFields DEF Typed
  <1>2. /\ RemoveFirst(d.gwin[g], w) \in Seq(Windows)
        /\ IsInjective(RemoveFirst(d.gwin[g], w))
        /\ ToSet(RemoveFirst(d.gwin[g], w)) = ToSet(d.gwin[g]) \ {w}
    BY <1>1, RemoveFirstIs
  <1>3. /\ e \in Desk /\ SamePlaces(d, e)
        /\ e.own = [d.own EXCEPT ![w] = None]
        /\ e.wws = d.wws
        /\ e.gwin = [d.gwin EXCEPT ![g] = RemoveFirst(d.gwin[g], w)]
    BY <1>1, <1>2, UnlinkFields
  <1> HIDE DEF e
  <1>4. Live(e) = Live(d)
    BY <1>3 DEF SamePlaces, Live
  <1>5. /\ IsInjective(e.gwin[g])
        /\ ToSet(e.gwin[g]) = ToSet(d.gwin[g]) \ {w}
        /\ \A h \in Groups \ {g} : e.gwin[h] = d.gwin[h]
    BY <1>1, <1>2, <1>3, DeskFields
  <1>6. Typed(e)
    BY <1>1, <1>3, <1>5 DEF Typed, SamePlaces, SameOutputs
  <1>7. g \in Live(d)
    <2>1. w \in ToSet(d.gwin[g])
      BY DEF Owned
    <2> QED
      BY <2>1, EmptyIs DEF Owned
  <1>8. Owned(e, E \cup {g})
    <2>1. \A h \in Groups : /\ e.gwin[h] # << >> => h \in Live(e)
                            /\ h \in Live(e) \ (E \cup {g}) => e.gwin[h] # << >>
                            /\ h \in Live(e) => e.gws[h] # NoWs /\ e.gws[h] \in Spaces(e)
      BY <1>3, <1>4, <1>5, <1>7, SameSpaces DEF Owned, SamePlaces
    <2>2. \A v \in Windows, h \in Groups : v \in ToSet(e.gwin[h]) <=> e.own[v] = h
      <3> TAKE v \in Windows, h \in Groups
      <3>1. v \in ToSet(d.gwin[h]) <=> d.own[v] = h
        BY DEF Owned
      <3>2. e.own[v] = IF v = w THEN None ELSE d.own[v]
        BY <1>1, <1>3, DeskFields
      <3>3. CASE h = g
        BY <1>5, <3>1, <3>2, <3>3, Names
      <3>4. CASE h # g
        BY <1>1, <1>5, <3>1, <3>2, <3>4, Names
      <3> QED
        BY <3>3, <3>4
    <2>3. \A v \in Windows : e.own[v] # None => e.wws[v] = e.gws[e.own[v]]
      BY <1>1, <1>3, DeskFields DEF Owned, SamePlaces
    <2> QED
      BY <2>1, <2>2, <2>3 DEF Owned
  <1> QED
    BY <1>3, <1>5, <1>6, <1>7, <1>8 DEF e

-----------------------------------------------------------------------------
(* A group that goes.                                                      *)

\* The windows' side of the desktop.
SameWindows(d, e) == e.own = d.own /\ e.wws = d.wws /\ e.mapped = d.mapped

\* e is d without the group g.
Gone(d, g, wact, a, k, e) ==
  /\ e \in Desk /\ SameOutputs(d, e) /\ SameWindows(d, e) /\ e.fo = d.fo
  /\ e.groups = RemoveFirst(d.groups, g)
  /\ e.gws = [d.gws EXCEPT ![g] = NoWs]
  /\ e.gwin = [d.gwin EXCEPT ![g] = << >>]
  /\ e.gact = [d.gact EXCEPT ![g] = None]
  /\ e.flt = d.flt \ {g}
  /\ e.pin = [d.pin EXCEPT ![g] = None]
  /\ e.wact = wact /\ e.act = a /\ e.kbd = k

\* The update that destroy_group starts with.
Blanked(d, g, e) ==
  e = [d EXCEPT !.groups = RemoveFirst(@, g), !.gws[g] = NoWs,
                !.gwin[g] = <<>>, !.gact[g] = None,
                !.flt = @ \ {g}, !.pin[g] = None]

LEMMA GoneFirst ==
  ASSUME NEW d \in Desk, NEW g \in Groups, IsInjective(d.groups), NEW e, Blanked(d, g, e)
  PROVE  Gone(d, g, d.wact, d.act, d.kbd, e)
  <1> DEFINE groups == RemoveFirst(d.groups, g)
             gws == [d.gws EXCEPT ![g] = NoWs]
             gwin == [d.gwin EXCEPT ![g] = << >>]
             gact == [d.gact EXCEPT ![g] = None]
             flt == d.flt \ {g}
             pin == [d.pin EXCEPT ![g] = None]
  <1>1. groups \in Seq(Groups)
    BY DeskFields, RemoveFirstIs
  <1>2. /\ gws \in [Groups -> Workspaces \cup {NoWs}]
        /\ gact \in [Groups -> Windows \cup {None}]
        /\ flt \in SUBSET Groups
        /\ pin \in [Groups -> Outputs \cup {None}]
    BY DeskFields
  <1>3. gwin \in [Groups -> Seq(Windows)]
    <2>1. << >> \in Seq(Windows) /\ d.gwin \in [Groups -> Seq(Windows)]
      BY DeskFields
    <2> QED
      BY <2>1
  <1>4. e = [d EXCEPT !.groups = groups, !.gws = gws, !.gwin = gwin, !.gact = gact, !.flt = flt,
                      !.pin = pin]
    BY DEF Blanked, Desk
  <1> HIDE DEF groups, gws, gwin, gact, flt, pin
  <1>5. /\ e \in Desk /\ SameOutputs(d, e) /\ SameWindows(d, e)
        /\ e.fo = d.fo
        /\ e.groups = groups /\ e.gws = gws /\ e.gwin = gwin /\ e.gact = gact
        /\ e.flt = flt /\ e.pin = pin /\ e.wact = d.wact /\ e.act = d.act /\ e.kbd = d.kbd
    BY <1>1, <1>2, <1>3, <1>4 DEF Desk, SameOutputs, SameWindows
  <1> QED
    BY <1>5 DEF groups, gws, gwin, gact, flt, pin, Gone

\* The workspace ws of a group that goes falls back to another of its groups b,
\* and the server with it.
FallsBack(d, g, ws, b, wact, a, k) ==
  /\ \/ b = None /\ \A h \in Live(d) \ {g} : d.gws[h] # ws
     \/ b \in Live(d) \ {g} /\ d.gws[b] = ws
  /\ wact = IF d.wact[ws] = g THEN [d.wact EXCEPT ![ws] = b] ELSE d.wact
  /\ d.act # g => a = d.act /\ k = d.kbd
  /\ d.act = g => \/ a = None /\ k = None
                  \/ /\ a = b /\ b # None
                     /\ d.gact[b] \in d.mapped => k = d.gact[b]

LEMMA DestroyGroupIs ==
  ASSUME NEW d \in Desk, NEW g \in Groups, IsInjective(d.groups),
         NEW ws \in Workspaces, d.gws[g] = ws
  PROVE  \E b \in Groups \cup {None}, wact \in [Workspaces -> Groups \cup {None}],
            a \in Groups \cup {None}, k \in Windows \cup {None} :
           FallsBack(d, g, ws, b, wact, a, k) /\ Gone(d, g, wact, a, k, DestroyGroup(d, g))
  <1> DEFINE e == [d EXCEPT !.groups = RemoveFirst(@, g), !.gws[g] = NoWs,
                            !.gwin[g] = <<>>, !.gact[g] = None,
                            !.flt = @ \ {g}, !.pin[g] = None]
             b == LastGroupIn(e, ws)
             fallback == IF d.wact[ws] = g THEN b ELSE None
             f == IF d.wact[ws] = g THEN [e EXCEPT !.wact[ws] = fallback] ELSE e
             wact == IF d.wact[ws] = g THEN [d.wact EXCEPT ![ws] = b] ELSE d.wact
  <1>1. DestroyGroup(d, g) =
          CASE d.act # g -> f
            [] d.act = g /\ fallback = None -> [f EXCEPT !.act = None, !.kbd = None]
            [] OTHER -> SetActiveWindow([f EXCEPT !.act = fallback], fallback, f.gact[fallback])
    BY DEF DestroyGroup
  <1>2. Gone(d, g, d.wact, d.act, d.kbd, e)
    <2>1. ASSUME NEW r, r = e PROVE Gone(d, g, d.wact, d.act, d.kbd, r)
      BY <2>1, GoneFirst DEF Blanked
    <2> QED
      BY <2>1
  <1> HIDE DEF e
  <1>3. /\ e \in Desk /\ e.groups = RemoveFirst(d.groups, g)
        /\ e.gws = [d.gws EXCEPT ![g] = NoWs] /\ e.wact = d.wact
    BY <1>2 DEF Gone
  <1>4. Live(e) = Live(d) \ {g} /\ Live(d) \in SUBSET Groups
    BY <1>3, DeskFields, RemoveFirstIs, MembersOf DEF Live
  <1>5. \/ b = None /\ \A h \in Live(d) \ {g} : d.gws[h] # ws
        \/ b \in Live(d) \ {g} /\ d.gws[b] = ws
    <2>1. \/ b = None /\ \A h \in Live(e) : e.gws[h] # ws
          \/ b \in Live(e) /\ e.gws[b] = ws
      BY <1>3, LastGroupInIs
    <2>2. \A h \in Live(e) : e.gws[h] = d.gws[h]
      BY <1>3, <1>4, DeskFields
    <2> QED
      BY <1>4, <2>1, <2>2
  <1> HIDE DEF b
  <1>6. /\ b \in Groups \cup {None}
        /\ wact \in [Workspaces -> Groups \cup {None}]
        /\ fallback \in Groups \cup {None}
    BY <1>4, <1>5, DeskFields
  <1>7. Gone(d, g, wact, d.act, d.kbd, f)
    <2>1. f = [e EXCEPT !.wact = wact]
      <3>1. CASE d.wact[ws] = g
        BY <1>3, <3>1 DEF Desk
      <3>2. CASE d.wact[ws] # g
        BY <1>3, <3>2 DEF Desk
      <3> QED
        BY <3>1, <3>2
    <2> HIDE DEF f, wact
    <2> QED
      BY <1>2, <1>6, <2>1 DEF Gone, Desk, SameOutputs, SameWindows
  <1> HIDE DEF f
  <1>8. f \in Desk /\ f.gact = [d.gact EXCEPT ![g] = None] /\ f.mapped = d.mapped
    BY <1>7 DEF Gone, SameWindows
  <1>9. \E a \in Groups \cup {None}, k \in Windows \cup {None} :
           /\ d.act # g => a = d.act /\ k = d.kbd
           /\ d.act = g => \/ a = None /\ k = None
                           \/ /\ a = b /\ b # None
                              /\ d.gact[b] \in d.mapped => k = d.gact[b]
           /\ Gone(d, g, wact, a, k, DestroyGroup(d, g))
    <2> HIDE DEF wact
    <2>1. CASE d.act # g
      <3>1. DestroyGroup(d, g) = f
        BY <1>1, <2>1
      <3> QED
        BY <1>7, <2>1, <3>1, DeskFields
    <2>2. CASE d.act = g /\ fallback = None
      <3>1. DestroyGroup(d, g) = [f EXCEPT !.act = None, !.kbd = None]
        BY <1>1, <2>2
      <3>2. ASSUME NEW r, r = [f EXCEPT !.act = None, !.kbd = None]
            PROVE  Gone(d, g, wact, None, None, r)
        BY <1>7, <3>2 DEF Gone, Desk, SameOutputs, SameWindows
      <3> QED
        BY <2>2, <3>1, <3>2
    <2>3. CASE d.act = g /\ fallback # None
      <3> DEFINE x == [f EXCEPT !.act = b]
                 w == f.gact[b]
                 k == IF w \in d.mapped THEN w ELSE None
      <3>0. fallback = b /\ b # None
        BY <2>3
      <3>1. DestroyGroup(d, g) = SetActiveWindow(x, b, w)
        BY <1>1, <2>3, <3>0
      <3>2. b \in Groups \ {g} /\ b # None
        BY <1>4, <1>5, <3>0
      <3>3. /\ x \in Desk /\ x.act = b /\ x.mapped = d.mapped
            /\ w \in Windows \cup {None} /\ w = d.gact[b] /\ k \in Windows \cup {None}
        BY <1>8, <3>2, DeskFields, ZenonT(60) DEF Desk
      <3>4. SetActiveWindow(x, b, w) = Active(x, b, w, k)
        <4> HIDE DEF x, w
        <4> QED
          BY <3>2, <3>3, SetActiveWindowIs
      <3>5. Active(x, b, w, k) = [f EXCEPT !.act = b, !.kbd = k]
        <4> HIDE DEF k
        <4> QED
          BY <1>8, <3>2, <3>3, ZenonT(60) DEF Desk, Active
      <3>6. ASSUME NEW r, r = [f EXCEPT !.act = b, !.kbd = k]
            PROVE  Gone(d, g, wact, b, k, r)
        <4> HIDE DEF k
        <4> QED
          BY <1>7, <3>2, <3>3, <3>6, ZenonT(60) DEF Gone, Desk, SameOutputs, SameWindows
      <3>7. Gone(d, g, wact, b, k, DestroyGroup(d, g))
        <4> HIDE DEF k, x, w
        <4> QED
          BY <3>1, <3>4, <3>5, <3>6
      <3>8. d.gact[b] \in d.mapped => k = d.gact[b]
        BY <3>3
      <3> QED
        BY <1>6, <2>3, <3>0, <3>3, <3>7, <3>8
    <2> QED
      BY <2>1, <2>2, <2>3
  <1>10. wact = IF d.wact[ws] = g THEN [d.wact EXCEPT ![ws] = b] ELSE d.wact
    OBVIOUS
  <1> HIDE DEF wact
  <1> QED
    BY <1>5, <1>6, <1>9, <1>10 DEF FallsBack

\* Good but for the active tab of the groups of X.
Almost(R, d, E, X, O) ==
  /\ Linked(R, d, E) /\ Tabbed(d, X)
  /\ Keyed(R, d) /\ Pinned(d) /\ Placed(R, d, O) /\ Honoured(d)

LEMMA OutputsKeep ==
  ASSUME NEW R, NEW d, NEW e, NEW O, SameOutputs(d, e)
  PROVE  /\ Placed(R, d, O) => Placed(R, e, O)
         /\ Honoured(d) => Honoured(e)
         /\ e.fo = d.fo => Near(d, e)
  BY DEF SameOutputs, Placed, Honoured, Near

LEMMA LiveGroups ==
  ASSUME NEW d \in Desk
  PROVE  Live(d) \in SUBSET Groups
  BY DeskFields, MembersOf DEF Live

\* A group whose last window has left goes.
LEMMA DestroyGroupGood ==
  ASSUME NEW R, NEW d, NEW O, NEW g \in Live(d), d.gwin[g] = << >>, Almost(R, d, {g}, {g}, O)
  PROVE  /\ Good(R, DestroyGroup(d, g), {}, O)
         /\ Near(d, DestroyGroup(d, g))
         /\ SameWindows(d, DestroyGroup(d, g))
         /\ \A h \in Live(d) : h # g => h \in Live(DestroyGroup(d, g))
  <1> DEFINE e == DestroyGroup(d, g)
  <1>1. /\ Typed(d) /\ Owned(d, {g}) /\ Housed(R, d) /\ Pointed(d) /\ Blank(d) /\ Tabbed(d, {g})
        /\ Keyed(R, d) /\ Pinned(d) /\ Placed(R, d, O) /\ Honoured(d) /\ d \in Desk
    BY DEF Almost, Linked, Typed
  <1>2. g \in Groups /\ Live(d) \in SUBSET Groups
    BY <1>1, LiveGroups
  <1>3. PICK ws \in Workspaces : d.gws[g] = ws
    BY <1>1, <1>2, DeskFields DEF Owned
  <1>4. PICK b \in Groups \cup {None}, wact \in [Workspaces -> Groups \cup {None}],
             a \in Groups \cup {None}, k \in Windows \cup {None} :
           FallsBack(d, g, ws, b, wact, a, k) /\ Gone(d, g, wact, a, k, e)
    <2>1. IsInjective(d.groups)
      BY <1>1 DEF Typed
    <2> QED
      BY <1>1, <1>2, <1>3, <2>1, DestroyGroupIs
  <1> HIDE DEF e
  <1>18. /\ \/ b = None /\ \A h \in Live(d) \ {g} : d.gws[h] # ws
            \/ b \in Live(d) \ {g} /\ d.gws[b] = ws
         /\ wact = IF d.wact[ws] = g THEN [d.wact EXCEPT ![ws] = b] ELSE d.wact
         /\ d.act # g => a = d.act /\ k = d.kbd
         /\ d.act = g => \/ a = None /\ k = None
                         \/ /\ a = b /\ b # None
                            /\ d.gact[b] \in d.mapped => k = d.gact[b]
    BY <1>4 DEF FallsBack
  <1>5. /\ e \in Desk /\ SameOutputs(d, e) /\ SameWindows(d, e) /\ e.fo = d.fo
        /\ e.groups = RemoveFirst(d.groups, g)
        /\ e.gws = [d.gws EXCEPT ![g] = NoWs]
        /\ e.gwin = [d.gwin EXCEPT ![g] = << >>]
        /\ e.gact = [d.gact EXCEPT ![g] = None]
        /\ e.flt = d.flt \ {g}
        /\ e.pin = [d.pin EXCEPT ![g] = None]
        /\ e.wact = wact /\ e.act = a /\ e.kbd = k
    BY <1>4 DEF Gone
  <1>6. IsInjective(e.groups) /\ Live(e) = Live(d) \ {g}
    BY <1>1, <1>5, DeskFields, RemoveFirstIs DEF Typed, Live
  <1>7. Typed(e)
    <2>1. \A h \in Groups : IsInjective(e.gwin[h])
      BY <1>1, <1>2, <1>5, DeskFields, EmptyIs DEF Typed
    <2> QED
      BY <1>1, <1>5, <1>6, <2>1 DEF Typed, SameOutputs
  <1>8. Owned(e, {})
    <2>1. \A w \in Windows : d.own[w] # g
      BY <1>1, <1>2, EmptyIs DEF Owned
    <2>2. \A h \in Groups : /\ e.gwin[h] # << >> => h \in Live(e)
                            /\ h \in Live(e) => e.gwin[h] # << >>
                            /\ h \in Live(e) => e.gws[h] # NoWs /\ e.gws[h] \in Spaces(e)
      BY <1>1, <1>2, <1>5, <1>6, SameSpaces, DeskFields DEF Owned
    <2>3. \A w \in Windows, h \in Groups : w \in ToSet(e.gwin[h]) <=> e.own[w] = h
      BY <1>1, <1>2, <1>5, <2>1, DeskFields, EmptyIs DEF Owned, SameWindows
    <2>4. \A w \in Windows : e.own[w] # None => e.wws[w] = e.gws[e.own[w]]
      BY <1>1, <1>2, <1>5, <2>1, DeskFields DEF Owned, SameWindows
    <2> QED
      BY <2>2, <2>3, <2>4 DEF Owned
  <1>9. Housed(R, e)
    BY <1>1, <1>5 DEF Housed, SameWindows
  <1>10. \A h \in Live(e) : /\ h \in Live(d) /\ h \in Groups /\ h # g /\ h # None
                            /\ e.gws[h] = d.gws[h] /\ e.gact[h] = d.gact[h]
                            /\ e.pin[h] = d.pin[h]
    BY <1>2, <1>5, <1>6, DeskFields, Names
  <1>11. Pointed(e)
    <2>1. b # None => b \in Live(e)
      BY <1>18, <1>6
    <2>2. ASSUME NEW x \in Workspaces
          PROVE  /\ e.wact[x] = None <=> \A h \in Live(e) : e.gws[h] # x
                 /\ e.wact[x] # None => e.wact[x] \in Live(e) /\ e.gws[e.wact[x]] = x
      <3>0. /\ d.wact[x] = None <=> \A h \in Live(d) : d.gws[h] # x
            /\ d.wact[x] # None => d.wact[x] \in Live(d) /\ d.gws[d.wact[x]] = x
        BY <1>1 DEF Pointed
      <3>1. CASE d.wact[ws] = g /\ x = ws
        <4>1. e.wact[x] = b
          BY <1>18, <1>5, <3>1, DeskFields
        <4> QED
          BY <1>18, <1>6, <1>10, <2>1, <3>1, <4>1, Names
      <3>2. CASE ~(d.wact[ws] = g /\ x = ws)
        <4>1. e.wact[x] = d.wact[x]
          BY <1>1, <1>18, <1>5, <3>2, DeskFields
        <4>2. d.wact[x] # g
          BY <1>3, <3>0, <3>2, <1>2, Names
        <4> QED
          BY <1>3, <1>6, <1>10, <3>0, <4>1, <4>2
      <3> QED
        BY <3>1, <3>2
    <2>3. e.act # None => e.act \in Live(e)
      BY <1>1, <1>18, <1>5, <1>6, <2>1 DEF Pointed
    <2> QED
      BY <2>2, <2>3 DEF Pointed
  <1>12. Blank(e)
    BY <1>1, <1>2, <1>5, <1>6, DeskFields DEF Blank
  <1>13. Tabbed(e, {})
    BY <1>1, <1>5, <1>6, <1>10 DEF Tabbed, SameWindows
  <1>14. Keyed(R, e)
    <2>1. CASE d.act # g
      <3>1. e.act = d.act /\ e.kbd = d.kbd /\ (d.act # None => e.gact[d.act] = d.gact[d.act])
        BY <1>1, <1>18, <1>5, <2>1, DeskFields
      <3> QED
        BY <1>1, <3>1 DEF Keyed
    <2>2. CASE d.act = g /\ a = None /\ k = None
      BY <1>5, <2>2 DEF Keyed
    <2>3. CASE d.act = g /\ a = b /\ b # None /\ (d.gact[b] \in d.mapped => k = d.gact[b])
      <3>1. b \in Live(d) \ {g} /\ e.gact[b] = d.gact[b]
        BY <1>18, <1>6, <1>10, <2>3
      <3>2. d.gact[b] # None => d.gact[b] \in d.mapped
        BY <1>1, <3>1 DEF Tabbed
      <3> QED
        BY <1>5, <2>3, <3>1, <3>2 DEF Keyed
    <2> QED
      BY <1>18, <2>1, <2>2, <2>3
  <1>15. Pinned(e)
    BY <1>1, <1>5, <1>6, <1>10 DEF Pinned, SameOutputs
  <1>16. Placed(R, e, O) /\ Honoured(e) /\ Near(d, e)
    BY <1>1, <1>5, OutputsKeep
  <1>17. Good(R, e, {}, O)
    BY <1>7, <1>8, <1>9, <1>11, <1>12, <1>13, <1>14, <1>15, <1>16 DEF Good, Linked
  <1> QED
    BY <1>5, <1>6, <1>16, <1>17 DEF e

LEMMA GoodIsAlmost ==
  ASSUME NEW R, NEW d, NEW E, NEW X, NEW O, Good(R, d, E, O)
  PROVE  Almost(R, d, E, X, O)
  BY DEF Good, Almost, Tabbed

\* A group gets an active window, or none.
LEMMA SetActiveGood ==
  ASSUME NEW R, NEW d, NEW E, NEW O, NEW g \in Live(d), NEW w \in Windows \cup {None},
         Almost(R, d, E, {g}, O),
         w # None => d.own[w] = g /\ w \in d.mapped
  PROVE  /\ Good(R, SetActiveWindow(d, g, w), E, O)
         /\ Near(d, SetActiveWindow(d, g, w))
         /\ Still(d, SetActiveWindow(d, g, w))
  <1> DEFINE e == SetActiveWindow(d, g, w)
  <1>1. /\ Typed(d) /\ Owned(d, E) /\ Housed(R, d) /\ Pointed(d) /\ Blank(d) /\ Tabbed(d, {g})
        /\ Keyed(R, d) /\ Pinned(d) /\ Placed(R, d, O) /\ Honoured(d) /\ d \in Desk
    BY DEF Almost, Linked, Typed
  <1>2. g \in Groups /\ d.mapped \in SUBSET Windows /\ d.kbd \in Windows \cup {None}
    BY <1>1, LiveGroups, DeskFields
  <1>3. PICK k \in Windows \cup {None} :
          /\ e = Active(d, g, w, k)
          /\ d.act # g => k = d.kbd
          /\ d.act = g => k = w
    <2>1. CASE d.act # g
      BY <1>1, <1>2, <2>1, SetActiveWindowIs
    <2>2. CASE d.act = g /\ w # None
      BY <1>1, <1>2, <2>2, SetActiveWindowIs
    <2>3. CASE d.act = g /\ w = None
      <3>1. w \notin d.mapped
        BY <1>2, <2>3, Names
      <3> QED
        BY <1>1, <1>2, <2>3, <3>1, SetActiveWindowIs
    <2> QED
      BY <2>1, <2>2, <2>3
  <1> HIDE DEF e
  <1>4. /\ e \in Desk /\ SameOutputs(d, e) /\ Still(d, e) /\ e.fo = d.fo
        /\ e.wact = d.wact /\ e.act = d.act
        /\ e.gact = [d.gact EXCEPT ![g] = w] /\ e.kbd = k
    BY <1>1, <1>2, <1>3, ActiveFields
  <1>5. Near(d, e)
    BY <1>4 DEF Near
  <1>6. /\ Typed(e) /\ Owned(e, E) /\ Housed(R, e) /\ Pinned(e) /\ Placed(R, e, O) /\ Honoured(e)
        /\ Live(e) = Live(d)
    BY <1>1, <1>4, <1>5, StillKeeps
  <1>7. Pointed(e)
    BY <1>1, <1>4, <1>6 DEF Pointed, Still
  <1>8. Blank(e)
    BY <1>1, <1>4, <1>6, DeskFields DEF Blank, Still
  <1>9. \A h \in Groups : e.gact[h] = IF h = g THEN w ELSE d.gact[h]
    BY <1>1, <1>2, <1>4, DeskFields
  <1>10. Live(d) \in SUBSET Groups
    BY <1>1, LiveGroups
  <1>11. Tabbed(e, {})
    BY <1>1, <1>4, <1>6, <1>9, <1>10 DEF Tabbed, Still
  <1>12. Keyed(R, e)
    <2>1. d.act # None => d.act \in Groups
      BY <1>1, DeskFields
    <2> QED
      BY <1>1, <1>3, <1>4, <1>9, <2>1, <1>2, Names DEF Keyed
  <1>13. Good(R, e, E, O)
    BY <1>6, <1>7, <1>8, <1>11, <1>12 DEF Good, Linked
  <1> QED
    BY <1>4, <1>5, <1>13 DEF e

\* The group falls back to its last window on show.
LEMMA SetLastGood ==
  ASSUME NEW R, NEW d, NEW E, NEW O, NEW g \in Live(d), Almost(R, d, E, {g}, O)
  PROVE  /\ Good(R, SetActiveWindow(d, g, LastMapped(d, g)), E, O)
         /\ Near(d, SetActiveWindow(d, g, LastMapped(d, g)))
         /\ Still(d, SetActiveWindow(d, g, LastMapped(d, g)))
  <1>1. d \in Desk /\ Owned(d, E) /\ g \in Groups
    BY LiveGroups DEF Almost, Linked, Typed
  <1>2. \/ LastMapped(d, g) = None
        \/ /\ LastMapped(d, g) \in Windows
           /\ LastMapped(d, g) \in ToSet(d.gwin[g])
           /\ LastMapped(d, g) \in d.mapped
    BY <1>1, LastMappedIs
  <1> DEFINE w == LastMapped(d, g)
  <1> HIDE DEF w
  <1>3. w \in Windows \cup {None} /\ (w # None => d.own[w] = g /\ w \in d.mapped)
    BY <1>1, <1>2 DEF Owned, w
  <1>4. /\ Good(R, SetActiveWindow(d, g, w), E, O)
        /\ Near(d, SetActiveWindow(d, g, w))
        /\ Still(d, SetActiveWindow(d, g, w))
    BY <1>3, SetActiveGood
  <1> QED
    BY <1>4 DEF w

\* Setting the active window once more.
LEMMA SetSameGood ==
  ASSUME NEW R, NEW d, NEW E, NEW O, NEW g \in Live(d), Good(R, d, E, O)
  PROVE  /\ Good(R, SetActiveWindow(d, g, d.gact[g]), E, O)
         /\ Near(d, SetActiveWindow(d, g, d.gact[g]))
         /\ Still(d, SetActiveWindow(d, g, d.gact[g]))
  <1>1. d \in Desk /\ Tabbed(d, {}) /\ Almost(R, d, E, {g}, O)
    BY GoodIsAlmost DEF Good, Linked, Typed
  <1>2. PICK w \in Windows \cup {None} : w = d.gact[g]
    BY <1>1, LiveGroups, DeskFields
  <1>3. w # None => d.own[w] = g /\ w \in d.mapped
    BY <1>1, <1>2 DEF Tabbed
  <1>4. /\ Good(R, SetActiveWindow(d, g, w), E, O)
        /\ Near(d, SetActiveWindow(d, g, w))
        /\ Still(d, SetActiveWindow(d, g, w))
    BY <1>1, <1>3, SetActiveGood
  <1> QED
    BY <1>2, <1>4

\* What a group loses with a window is made good.
LEMMA AfterLossGood ==
  ASSUME NEW R, NEW d, NEW O, NEW g \in Live(d), NEW lost \in BOOLEAN,
         Almost(R, d, {g}, {g}, O),
         ~lost => Tabbed(d, {})
  PROVE  /\ Good(R, AfterLoss(d, g, lost), {}, O)
         /\ Near(d, AfterLoss(d, g, lost))
         /\ SameWindows(d, AfterLoss(d, g, lost))
         /\ \A h \in Live(d) : h # g => h \in Live(AfterLoss(d, g, lost))
  <1> DEFINE e == AfterLoss(d, g, lost)
             Done == /\ Good(R, e, {}, O) /\ Near(d, e) /\ SameWindows(d, e)
                     /\ \A h \in Live(d) : h # g => h \in Live(e)
  <1>1. ASSUME d.gwin[g] = << >> PROVE Done
    <2>1. e = DestroyGroup(d, g)
      BY <1>1 DEF AfterLoss
    <2> HIDE DEF e
    <2>2. /\ Good(R, DestroyGroup(d, g), {}, O)
          /\ Near(d, DestroyGroup(d, g))
          /\ SameWindows(d, DestroyGroup(d, g))
          /\ \A h \in Live(d) : h # g => h \in Live(DestroyGroup(d, g))
      BY <1>1, DestroyGroupGood
    <2> QED
      BY <2>1, <2>2
  <1>2. ASSUME d.gwin[g] # << >> PROVE Almost(R, d, {}, {g}, O) /\ (~lost => Good(R, d, {}, O))
    <2>1. Linked(R, d, {})
      BY <1>2 DEF Almost, Linked, Owned
    <2> QED
      BY <2>1 DEF Almost, Good
  <1>3. ASSUME d.gwin[g] # << >>, lost PROVE Done
    <2>1. e = SetActiveWindow(d, g, LastMapped(d, g))
      BY <1>3 DEF AfterLoss
    <2>2. /\ Good(R, SetActiveWindow(d, g, LastMapped(d, g)), {}, O)
          /\ Near(d, SetActiveWindow(d, g, LastMapped(d, g)))
          /\ Still(d, SetActiveWindow(d, g, LastMapped(d, g)))
      BY <1>2, <1>3, SetLastGood
    <2> HIDE DEF e
    <2>3. Good(R, e, {}, O) /\ Near(d, e) /\ Still(d, e)
      BY <2>1, <2>2
    <2> QED
      BY <2>3 DEF Still, SameWindows, Live
  <1>4. ASSUME d.gwin[g] # << >>, ~lost PROVE Done
    <2>1. e = d
      BY <1>4 DEF AfterLoss
    <2> QED
      BY <1>2, <1>4, <2>1 DEF Near, SameOutputs, SameWindows
  <1> QED
    BY <1>1, <1>3, <1>4

-----------------------------------------------------------------------------
(* Moving windows between groups, and making groups.                       *)

\* The window w is in the group t, the others are where they were.
JoinsOnly(d, e, w, t) ==
  /\ e.own[w] = t
  /\ \A v \in Windows \ {w} : e.own[v] = d.own[v]
  /\ e.mapped = d.mapped
  /\ t \in Live(e)

LEMMA SamePlacesTransitive ==
  ASSUME NEW d, NEW e, NEW f, SamePlaces(d, e), SamePlaces(e, f)
  PROVE  SamePlaces(d, f)
  BY DEF SamePlaces, SameOutputs

LEMMA MoveWindowGood ==
  ASSUME NEW R, NEW d, NEW E, NEW O, NEW t \in Live(d), NEW w \in Windows, Good(R, d, E, O),
         \A h \in E : h = t,
         d.own[w] \notin {None, t}
  PROVE  /\ Good(R, MoveWindow(d, w, t), {}, O)
         /\ Near(d, MoveWindow(d, w, t))
         /\ JoinsOnly(d, MoveWindow(d, w, t), w, t)
  <1> DEFINE u == Unlink(d, w)
             e == AddWindow(u, t, w)
  <1>1. /\ Typed(d) /\ Owned(d, E) /\ Housed(R, d) /\ Pointed(d) /\ Blank(d) /\ Tabbed(d, {})
        /\ Keyed(R, d) /\ Pinned(d) /\ Placed(R, d, O) /\ Honoured(d) /\ d \in Desk
    BY DEF Good, Linked, Typed
  <1>2. PICK s \in Groups : s = d.own[w] /\ s # t
    BY <1>1, DeskFields
  <1>3. t \in Groups
    BY <1>1, LiveGroups
  <1>4. /\ Typed(u) /\ Owned(u, E \cup {s}) /\ SamePlaces(d, u)
        /\ u.own = [d.own EXCEPT ![w] = None] /\ s \in Live(d)
    BY <1>1, <1>2, UnlinkOwned
  <1> HIDE DEF u
  <1>5. /\ u \in Desk /\ u.own[w] = None /\ Live(u) = Live(d)
    <2>1. u \in Desk
      BY <1>4 DEF Typed
    <2>2. u.own[w] = None
      BY <1>1, <1>4, DeskFields
    <2>3. Live(u) = Live(d)
      BY <1>4 DEF SamePlaces, Live
    <2> QED
      BY <2>1, <2>2, <2>3
  <1>6. /\ Typed(e) /\ Owned(e, (E \cup {s}) \ {t})
    BY <1>4, <1>5, AddWindowOwned
  <1>7. /\ SamePlaces(u, e) /\ e.own = [u.own EXCEPT ![w] = t]
    BY <1>3, <1>5, AddWindowFields
  <1> HIDE DEF e
  <1>8. SamePlaces(d, e)
    BY <1>4, <1>7, SamePlacesTransitive
  <1>9. /\ Pointed(e) /\ Blank(e) /\ Keyed(R, e) /\ Pinned(e) /\ Placed(R, e, O) /\ Honoured(e)
        /\ Near(d, e) /\ Live(e) = Live(d)
    BY <1>1, <1>8, SamePlacesKeeps
  <1>10. \A v \in Windows : e.own[v] = IF v = w THEN t ELSE d.own[v]
    BY <1>1, <1>4, <1>7, DeskFields
  <1>11. /\ e.mapped = d.mapped /\ e.gact = d.gact /\ d.mapped \in SUBSET Windows
         /\ d.gact \in [Groups -> Windows \cup {None}] /\ Live(d) \in SUBSET Groups
    BY <1>1, <1>8, DeskFields, LiveGroups DEF SamePlaces
  <1>12. Owned(e, {s})
    BY <1>6 DEF Owned
  <1>13. Housed(R, e)
    BY <1>1, <1>3, <1>10, <1>11, Names DEF Housed
  <1>14. ASSUME NEW g \in Live(d), d.gact[g] # None, ~(g = s /\ d.gact[g] = w)
         PROVE  e.own[d.gact[g]] = g /\ d.gact[g] \in d.mapped
    <2>1. d.own[d.gact[g]] = g /\ d.gact[g] \in d.mapped /\ d.gact[g] \in Windows
      BY <1>1, <1>11, <1>14 DEF Tabbed
    <2> QED
      BY <1>2, <1>10, <1>14, <2>1
  <1> DEFINE lost == d.gact[s] = w
  <1>15. Tabbed(e, {s}) /\ (~lost => Tabbed(e, {}))
    BY <1>9, <1>11, <1>14 DEF Tabbed
  <1>16. Almost(R, e, {s}, {s}, O)
    BY <1>6, <1>9, <1>12, <1>13, <1>15 DEF Almost, Linked
  <1>17. lost \in BOOLEAN
    OBVIOUS
  <1> HIDE DEF lost
  <1> DEFINE f == AfterLoss(e, s, lost)
  <1>18. /\ Good(R, f, {}, O) /\ Near(e, f) /\ SameWindows(e, f)
         /\ \A h \in Live(e) : h # s => h \in Live(f)
    BY <1>4, <1>9, <1>15, <1>16, <1>17, AfterLossGood
  <1>19. MoveWindow(d, w, t) = FocusWindow(f, w)
    BY <1>2 DEF MoveWindow, u, e, lost
  <1> HIDE DEF f
  <1>20. /\ Good(R, FocusWindow(f, w), {}, O) /\ Near(f, FocusWindow(f, w))
         /\ Still(f, FocusWindow(f, w))
    BY <1>18, FocusWindowGood
  <1>21. Near(d, FocusWindow(f, w))
    BY <1>9, <1>18, <1>20, NearTransitive
  <1>22. JoinsOnly(d, FocusWindow(f, w), w, t)
    <2>1. t \in Live(f)
      BY <1>2, <1>9, <1>18
    <2> QED
      BY <1>10, <1>11, <1>18, <1>20, <2>1 DEF JoinsOnly, Still, SameWindows, Live
  <1> QED
    BY <1>19, <1>20, <1>21, <1>22

\* A window that is not on show leaves for good.
LEMMA RemoveWindowGood ==
  ASSUME NEW R, NEW d, NEW O, NEW w \in Windows, Good(R, d, {}, O),
         NEW S, Recast(R, S, R.mapped, R.outside \cup {w})
  PROVE  /\ Good(S, RemoveWindow(d, w), {}, O)
         /\ Near(d, RemoveWindow(d, w))
         /\ RemoveWindow(d, w).own[w] = None
         /\ RemoveWindow(d, w).mapped = d.mapped
  <1> DEFINE e == Unlink(d, w)
             r == RemoveWindow(d, w)
             Done == Good(S, r, {}, O) /\ Near(d, r) /\ r.own[w] = None /\ r.mapped = d.mapped
  <1>s. /\ S.mapped = R.mapped /\ S.outside = R.outside \cup {w}
        /\ S.kbd = R.kbd /\ S.spaces = R.spaces
    BY DEF Recast
  <1>1. /\ Typed(d) /\ Owned(d, {}) /\ Housed(R, d) /\ Pointed(d) /\ Blank(d) /\ Tabbed(d, {})
        /\ Keyed(R, d) /\ Pinned(d) /\ Placed(R, d, O) /\ Honoured(d) /\ d \in Desk
    BY DEF Good, Linked, Typed
  <1>2. ASSUME d.own[w] = None PROVE Done
    <2>1. r = d
      BY <1>2 DEF RemoveWindow
    <2>2. Housed(S, d) /\ Good(S, d, {}, O)
      BY <1>1, <1>2, <1>s, RecastGood DEF Housed
    <2> QED
      BY <1>2, <2>1, <2>2 DEF Near, SameOutputs
  <1>3. ASSUME NEW s \in Groups, s = d.own[w] PROVE Done
    <2>1. /\ Typed(e) /\ Owned(e, {} \cup {s}) /\ SamePlaces(d, e)
          /\ e.own = [d.own EXCEPT ![w] = None] /\ s \in Live(d)
      BY <1>1, <1>3, UnlinkOwned
    <2> DEFINE lost == d.gact[s] = w
    <2>2. r = AfterLoss(e, s, lost)
      BY <1>3, Names DEF RemoveWindow
    <2> HIDE DEF e, r
    <2>3. /\ Pointed(e) /\ Blank(e) /\ Keyed(R, e) /\ Pinned(e) /\ Placed(R, e, O) /\ Honoured(e)
          /\ Near(d, e) /\ Live(e) = Live(d)
      BY <1>1, <2>1, SamePlacesKeeps
    <2>4. \A v \in Windows : e.own[v] = IF v = w THEN None ELSE d.own[v]
      BY <1>1, <2>1, DeskFields
    <2>5. /\ e.mapped = d.mapped /\ e.gact = d.gact /\ d.mapped \in SUBSET Windows
      BY <1>1, <2>1, DeskFields DEF SamePlaces
    <2>6. Owned(e, {s})
      BY <2>1 DEF Owned
    <2>7. Housed(S, e)
      BY <1>1, <1>s, <2>4, <2>5 DEF Housed
    <2>h. \A g \in Live(d) : g # s /\ d.gact[g] # None => d.gact[g] # w
      BY <1>1, <1>3 DEF Tabbed
    <2>i. \A g \in Live(d) : d.gact[g] \in Windows \cup {None}
      BY <1>1, LiveGroups, DeskFields
    <2>8. Tabbed(e, {s}) /\ (~lost => Tabbed(e, {}))
      BY <1>1, <2>3, <2>4, <2>5, <2>h, <2>i DEF Tabbed
    <2>k. Keyed(S, e) /\ Placed(S, e, O)
      BY <1>s, <2>3 DEF Keyed, Placed
    <2>9. Almost(S, e, {s}, {s}, O)
      BY <2>1, <2>3, <2>6, <2>7, <2>8, <2>k DEF Almost, Linked
    <2>10. lost \in BOOLEAN
      OBVIOUS
    <2> HIDE DEF lost
    <2>11. Good(S, r, {}, O) /\ Near(e, r) /\ SameWindows(e, r)
      BY <2>1, <2>2, <2>3, <2>8, <2>9, <2>10, AfterLossGood
    <2>12. Near(d, r)
      BY <2>3, <2>11, NearTransitive
    <2> QED
      BY <2>4, <2>5, <2>11, <2>12 DEF SameWindows
  <1>4. d.own[w] \in Groups \cup {None}
    BY <1>1, DeskFields
  <1> HIDE DEF Done
  <1>5. Done
    BY <1>2, <1>3, <1>4
  <1> QED
    BY <1>5 DEF Done

\* A group object that is not in use is left: every group in use holds a window
\* of its own.
LEMMA NewGroupIs ==
  ASSUME NEW d \in Desk, Owned(d, {})
  PROVE  NewGroup(d) \in Groups /\ NewGroup(d) \notin Live(d)
  <1>1. \E g \in Groups : g \notin Live(d)
    <2> SUFFICES ASSUME Groups \subseteq Live(d) PROVE FALSE
      OBVIOUS
    <2> DEFINE f == [g \in Groups |-> d.gwin[g][1]]
    <2>1. \A g \in Groups : d.gwin[g] \in Seq(Windows) /\ d.gwin[g] # << >>
      BY DeskFields DEF Owned
    <2>2. \A g \in Groups : f[g] \in Windows /\ d.own[f[g]] = g
      <3> TAKE g \in Groups
      <3>1. f[g] \in ToSet(d.gwin[g])
        BY <2>1, MembersOf
      <3>2. f[g] \in Windows
        BY <2>1, <3>1, MembersOf
      <3> QED
        BY <3>1, <3>2 DEF Owned
    <2> HIDE DEF f
    <2>3. f \in [Groups -> Windows]
      BY <2>2 DEF f
    <2>4. Cardinality(Windows) < Cardinality(Groups)
      BY DesktopAssumption, FS_CardinalityType
    <2>5. \E g, h \in Groups : g # h /\ f[g] = f[h]
      BY <2>3, <2>4, DesktopAssumption, FS_PigeonHole
    <2> QED
      BY <2>2, <2>5
  <1> QED
    BY <1>1 DEF NewGroup

\* e is d with the new group g, active in ws.
Created(d, g, ws, a, e) ==
  /\ e \in Desk /\ SameOutputs(d, e) /\ SameWindows(d, e) /\ e.fo = d.fo
  /\ e.groups = Append(d.groups, g)
  /\ e.gws = [d.gws EXCEPT ![g] = ws]
  /\ e.wact = [d.wact EXCEPT ![ws] = g]
  /\ e.act = a
  /\ e.gwin = d.gwin /\ e.gact = d.gact /\ e.flt = d.flt /\ e.pin = d.pin /\ e.kbd = d.kbd

LEMMA CreateGroupIs ==
  ASSUME NEW d \in Desk, Owned(d, {}), NEW ws \in Workspaces
  PROVE  \E g \in Groups, a \in {NewGroup(d), d.act} :
           /\ g \notin Live(d) /\ g = NewGroup(d)
           /\ Created(d, g, ws, a, CreateGroup(d, ws))
  <1> DEFINE g == NewGroup(d)
             a == IF ws = FocusedWs(d) THEN g ELSE d.act
             groups == Append(d.groups, g)
             gws == [d.gws EXCEPT ![g] = ws]
             wact == [d.wact EXCEPT ![ws] = g]
             e == CreateGroup(d, ws)
  <1>1. g \in Groups /\ g \notin Live(d)
    BY NewGroupIs
  <1>2. e = [d EXCEPT !.groups = groups, !.gws = gws, !.wact = wact, !.act = a]
    BY DEF CreateGroup, Desk
  <1> HIDE DEF g, e
  <1>3. groups \in Seq(Groups)
    BY <1>1, AppendIs, DeskFields
  <1>4. /\ gws \in [Groups -> Workspaces \cup {NoWs}]
        /\ wact \in [Workspaces -> Groups \cup {None}]
        /\ a \in Groups \cup {None}
    BY <1>1, DeskFields
  <1>5. a \in {g, d.act}
    OBVIOUS
  <1> HIDE DEF groups, gws, wact, a
  <1>6. /\ e \in Desk /\ SameOutputs(d, e) /\ SameWindows(d, e) /\ e.fo = d.fo
        /\ e.groups = groups /\ e.gws = gws /\ e.wact = wact /\ e.act = a
        /\ e.gwin = d.gwin /\ e.gact = d.gact /\ e.flt = d.flt /\ e.pin = d.pin
        /\ e.kbd = d.kbd
    BY <1>2, <1>3, <1>4 DEF Desk, SameOutputs, SameWindows
  <1>7. Created(d, g, ws, a, e)
    BY <1>6 DEF Created, groups, gws, wact
  <1> QED
    BY <1>1, <1>5, <1>7 DEF g, e

\* A group is made, still empty.
LEMMA CreateGroupGood ==
  ASSUME NEW R, NEW d, NEW O, NEW ws \in Workspaces, ws \in Spaces(d), Good(R, d, {}, O)
  PROVE  /\ Good(R, CreateGroup(d, ws), {NewGroup(d)}, O)
         /\ Near(d, CreateGroup(d, ws))
         /\ SameWindows(d, CreateGroup(d, ws))
         /\ Live(CreateGroup(d, ws)) = Live(d) \cup {NewGroup(d)}
         /\ NewGroup(d) \in Groups /\ NewGroup(d) \notin Live(d)
  <1> DEFINE e == CreateGroup(d, ws)
  <1>1. /\ Typed(d) /\ Owned(d, {}) /\ Housed(R, d) /\ Pointed(d) /\ Blank(d) /\ Tabbed(d, {})
        /\ Keyed(R, d) /\ Pinned(d) /\ Placed(R, d, O) /\ Honoured(d) /\ d \in Desk
    BY DEF Good, Linked, Typed
  <1>2. PICK g \in Groups, a \in {NewGroup(d), d.act} :
          g \notin Live(d) /\ g = NewGroup(d) /\ Created(d, g, ws, a, e)
    BY <1>1, CreateGroupIs
  <1> HIDE DEF e
  <1>3. /\ e \in Desk /\ SameOutputs(d, e) /\ SameWindows(d, e) /\ e.fo = d.fo
        /\ e.groups = Append(d.groups, g)
        /\ e.gws = [d.gws EXCEPT ![g] = ws]
        /\ e.wact = [d.wact EXCEPT ![ws] = g]
        /\ e.act = a
        /\ e.gwin = d.gwin /\ e.gact = d.gact /\ e.flt = d.flt /\ e.pin = d.pin
        /\ e.kbd = d.kbd
    BY <1>2 DEF Created
  <1>4. IsInjective(e.groups) /\ Live(e) = Live(d) \cup {g}
    BY <1>1, <1>2, <1>3, DeskFields, AppendIs DEF Typed, Live
  <1>5. Typed(e)
    BY <1>1, <1>3, <1>4 DEF Typed, SameOutputs
  <1>6. Live(d) \in SUBSET Groups /\ g # None
    BY <1>1, LiveGroups, Names
  <1>7. \A h \in Live(d) : h # g /\ e.gws[h] = d.gws[h]
    BY <1>1, <1>2, <1>3, <1>6, DeskFields
  <1>8. e.gws[g] = ws /\ ws # NoWs
    BY <1>1, <1>3, DeskFields, Names
  <1>9. Owned(e, {g})
    <2>1. \A h \in Groups : /\ e.gwin[h] # << >> => h \in Live(e)
                            /\ h \in Live(e) \ {g} => e.gwin[h] # << >>
                            /\ h \in Live(e) => e.gws[h] # NoWs /\ e.gws[h] \in Spaces(e)
      BY <1>1, <1>3, <1>4, <1>7, <1>8, SameSpaces DEF Owned
    <2>2. \A w \in Windows, h \in Groups : w \in ToSet(e.gwin[h]) <=> e.own[w] = h
      BY <1>1, <1>3 DEF Owned, SameWindows
    <2>3. \A w \in Windows : e.own[w] # None => e.wws[w] = e.gws[e.own[w]]
      <3> SUFFICES ASSUME NEW w \in Windows, d.own[w] # None
                   PROVE  d.wws[w] = e.gws[d.own[w]]
        BY <1>3 DEF SameWindows
      <3>1. d.own[w] \in Groups
        BY <1>1, DeskFields
      <3>2. w \in ToSet(d.gwin[d.own[w]])
        BY <1>1, <3>1 DEF Owned
      <3>3. d.own[w] \in Live(d)
        BY <1>1, <3>1, <3>2, EmptyIs DEF Owned
      <3> QED
        BY <1>1, <1>7, <3>3 DEF Owned
    <2> QED
      BY <2>1, <2>2, <2>3 DEF Owned
  <1>10. Housed(R, e)
    BY <1>1, <1>3 DEF Housed, SameWindows
  <1>11. Pointed(e)
    <2>1. ASSUME NEW x \in Workspaces
          PROVE  /\ e.wact[x] = None <=> \A h \in Live(e) : e.gws[h] # x
                 /\ e.wact[x] # None => e.wact[x] \in Live(e) /\ e.gws[e.wact[x]] = x
      <3>1. e.wact[x] = IF x = ws THEN g ELSE d.wact[x]
        BY <1>1, <1>3, DeskFields
      <3> QED
        BY <1>1, <1>4, <1>6, <1>7, <1>8, <3>1 DEF Pointed
    <2>2. e.act # None => e.act \in Live(e)
      BY <1>1, <1>2, <1>3, <1>4 DEF Pointed
    <2> QED
      BY <2>1, <2>2 DEF Pointed
  <1>12. Blank(e)
    BY <1>1, <1>3, <1>4 DEF Blank
  <1>13. d.gact[g] = None /\ d.pin[g] = None
    BY <1>1, <1>2 DEF Blank
  <1>14. Tabbed(e, {})
    BY <1>1, <1>3, <1>4, <1>13 DEF Tabbed, SameWindows
  <1>15. Keyed(R, e)
    BY <1>1, <1>2, <1>3, <1>6, <1>13 DEF Keyed
  <1>16. Pinned(e)
    BY <1>1, <1>3, <1>4, <1>7, <1>13 DEF Pinned, SameOutputs
  <1>17. Placed(R, e, O) /\ Honoured(e) /\ Near(d, e)
    BY <1>1, <1>3, OutputsKeep
  <1>18. Good(R, e, {g}, O)
    BY <1>5, <1>9, <1>10, <1>11, <1>12, <1>14, <1>15, <1>16, <1>17 DEF Good, Linked
  <1> QED
    BY <1>2, <1>3, <1>4, <1>17, <1>18 DEF e

\* A window moves to a group made for it.
LEMMA DetachGood ==
  ASSUME NEW R, NEW d, NEW O, NEW ws \in Workspaces, ws \in Spaces(d),
         NEW w \in Windows, Good(R, d, {}, O),
         d.own[w] # None
  PROVE  /\ Good(R, Detach(d, w, ws), {}, O)
         /\ Near(d, Detach(d, w, ws))
         /\ JoinsOnly(d, Detach(d, w, ws), w, NewGroup(d))
  <1> DEFINE c == CreateGroup(d, ws)
             g == NewGroup(d)
  <1>1. /\ Good(R, c, {g}, O) /\ Near(d, c) /\ SameWindows(d, c)
        /\ Live(c) = Live(d) \cup {g} /\ g \in Groups /\ g \notin Live(d)
    BY CreateGroupGood
  <1>2. d.own[w] \in Live(d)
    <2>1. Owned(d, {}) /\ d \in Desk
      BY DEF Good, Linked, Typed
    <2>2. d.own[w] \in Groups
      BY <2>1, DeskFields
    <2>3. w \in ToSet(d.gwin[d.own[w]])
      BY <2>1, <2>2 DEF Owned
    <2> QED
      BY <2>1, <2>2, <2>3, EmptyIs DEF Owned
  <1>3. Detach(d, w, ws) = MoveWindow(c, w, g)
    BY DEF Detach
  <1> HIDE DEF c, g
  <1>4. c.own[w] \notin {None, g} /\ g \in Live(c)
    BY <1>1, <1>2 DEF SameWindows
  <1>5. /\ Good(R, MoveWindow(c, w, g), {}, O) /\ Near(c, MoveWindow(c, w, g))
        /\ JoinsOnly(c, MoveWindow(c, w, g), w, g)
    <2>1. \A h \in {g} : h = g
      OBVIOUS
    <2> QED
      BY <1>1, <1>4, <2>1, MoveWindowGood
  <1>6. Near(d, MoveWindow(c, w, g))
    BY <1>1, <1>5, NearTransitive
  <1>7. JoinsOnly(d, MoveWindow(c, w, g), w, g)
    BY <1>1, <1>5 DEF JoinsOnly, SameWindows
  <1> QED
    BY <1>3, <1>5, <1>6, <1>7 DEF g

\* The moves that MoveWindows makes, one after the other.
LEMMA MoveWindowsIs ==
  ASSUME NEW d, NEW list, NEW t, Len(list) \in Nat
  PROVE  \E f : /\ f[0] = d
                /\ \A n \in 1..Len(list) : f[n] = MoveWindow(f[n - 1], list[n], t)
                /\ MoveWindows(d, list, t) = f[Len(list)]
  <1> DEFINE N == Len(list)
             Step(f, n) == IF n = 0 THEN d ELSE MoveWindow(f[n - 1], list[n], t)
             Fits(k, f) == f = [n \in 0..k |-> Step(f, n)]
             Bad == {k \in 0..N : ~ \E f : Fits(k, f)}
  <1>1. N \in Nat
    OBVIOUS
  <1>2. Bad = {}
    <2> SUFFICES ASSUME Bad # {} PROVE FALSE
      OBVIOUS
    <2>1. PICK m \in Bad : \A k \in Bad : m <= k
      <3>1. Bad \in SUBSET Nat
        BY <1>1
      <3> HIDE DEF Bad
      <3> QED
        BY <3>1, LeastOf
    <2>2. m # 0
      <3> DEFINE f == [n \in 0..0 |-> d]
      <3>1. Fits(0, f)
        <4>1. [n \in 0..0 |-> Step(f, n)] = f
          OBVIOUS
        <4> QED
          BY <4>1
      <3> HIDE DEF Fits
      <3> QED
        BY <2>1, <3>1
    <2>3. m \in 1..N /\ m - 1 \in 0..N /\ m - 1 \notin Bad
      <3>1. Bad \in SUBSET (0..N)
        OBVIOUS
      <3> HIDE DEF Bad
      <3>2. m \in 1..N /\ m - 1 \in 0..N /\ ~(m <= m - 1)
        BY <1>1, <2>1, <2>2, <3>1
      <3> QED
        BY <2>1, <3>2
    <2>4. PICK f : Fits(m - 1, f)
      <3> HIDE DEF Fits
      <3> QED
        BY <2>3
    <2>5. \A n \in 0..(m - 1) : f[n] = Step(f, n)
      BY <2>4
    <2> DEFINE g == [n \in 0..m |-> IF n = m THEN MoveWindow(f[m - 1], list[m], t) ELSE f[n]]
    <2>6. \A n \in 0..m : g[n] = Step(g, n)
      <3> TAKE n \in 0..m
      <3>1. CASE n = m
        <4>1. g[n] = MoveWindow(f[m - 1], list[m], t) /\ g[n - 1] = f[m - 1]
          BY <2>3, <3>1
        <4> HIDE DEF g
        <4> QED
          BY <2>2, <3>1, <4>1
      <3>2. CASE n # m /\ n = 0
        <4>1. g[n] = f[n] /\ f[n] = d
          BY <2>3, <2>5, <3>2
        <4> QED
          BY <3>2, <4>1
      <3>3. CASE n # m /\ n # 0
        <4>1. g[n] = f[n] /\ g[n - 1] = f[n - 1] /\ n \in 0..(m - 1)
          BY <2>3, <3>3
        <4> HIDE DEF g
        <4>2. f[n] = MoveWindow(f[n - 1], list[n], t)
          BY <2>5, <3>3, <4>1
        <4> QED
          BY <3>3, <4>1, <4>2
      <3> QED
        BY <3>1, <3>2, <3>3
    <2>7. g = [n \in 0..m |-> g[n]]
      OBVIOUS
    <2>8. Fits(m, g)
      <3> HIDE DEF g, Step
      <3>1. [n \in 0..m |-> g[n]] = [n \in 0..m |-> Step(g, n)]
        BY <2>6
      <3> QED
        BY <2>7, <3>1
    <2> HIDE DEF Fits, g
    <2> QED
      BY <2>1, <2>8
  <1>3. \E f : Fits(N, f)
    <2> HIDE DEF Fits
    <2> QED
      BY <1>1, <1>2
  <1> DEFINE h == CHOOSE f : Fits(N, f)
  <1>4. Fits(N, h)
    <2> HIDE DEF Fits
    <2> QED
      BY <1>3
  <1>5. MoveWindows(d, list, t) = h[N]
    BY DEF MoveWindows
  <1> HIDE DEF h
  <1>6. \A n \in 0..N : h[n] = Step(h, n)
    BY <1>4
  <1>7. h[0] = d /\ \A n \in 1..N : h[n] = MoveWindow(h[n - 1], list[n], t)
    BY <1>1, <1>6
  <1> QED
    BY <1>5, <1>7

\* The desktop e that the first n moves of the list leave: the windows to come
\* are where they were in d, and the group t has got those that have come.
Moving(R, O, d, t, list, n, e) ==
  /\ \E F : Good(R, e, F, O) /\ (\A h \in F : h = t) /\ (n # 0 => F = {})
  /\ Near(d, e)
  /\ t \in Live(e)
  /\ \A i \in (n + 1)..Len(list) : e.own[list[i]] = d.own[list[i]]
  /\ \A v \in Windows : e.own[v] = t => d.own[v] = t \/ \E i \in 1..n : list[i] = v

\* Several windows move to a group, one after the other.
LEMMA MovesGood ==
  ASSUME NEW R, NEW d, NEW E, NEW O, NEW t \in Live(d), Good(R, d, E, O), \A h \in E : h = t,
         NEW list \in Seq(Windows), IsInjective(list),
         \A i \in 1..Len(list) : d.own[list[i]] \notin {None, t},
         NEW f, f[0] = d,
         \A n \in 1..Len(list) : f[n] = MoveWindow(f[n - 1], list[n], t)
  PROVE  \A n \in 0..Len(list) : Moving(R, O, d, t, list, n, f[n])
  <1> DEFINE N == Len(list)
  <1>1. N \in Nat /\ DOMAIN list = 1..N /\ \A i \in 1..N : list[i] \in Windows
    OBVIOUS
  <1>2. \A i, j \in 1..N : list[i] = list[j] => i = j
    BY <1>1 DEF IsInjective
  <1>3. \A n \in 1..N : f[n] = MoveWindow(f[n - 1], list[n], t)
    OBVIOUS
  <1> HIDE DEF N
  <1> DEFINE P(n) == /\ \E F : Good(R, f[n], F, O) /\ (\A h \in F : h = t) /\ (n # 0 => F = {})
                     /\ Near(d, f[n])
                     /\ t \in Live(f[n])
                     /\ \A i \in (n + 1)..N : f[n].own[list[i]] = d.own[list[i]]
                     /\ \A v \in Windows :
                          f[n].own[v] = t => d.own[v] = t \/ \E i \in 1..n : list[i] = v
             Bad == {n \in 0..N : ~P(n)}
  <1>4. P(0)
    BY DEF Near, SameOutputs
  <1>5. ASSUME NEW n \in 1..N, P(n - 1) PROVE P(n)
    <2> DEFINE e == f[n - 1]
               w == list[n]
    <2>1. PICK F : Good(R, e, F, O) /\ (\A h \in F : h = t)
      BY <1>5
    <2>2. /\ Near(d, e) /\ t \in Live(e)
          /\ \A i \in n..N : e.own[list[i]] = d.own[list[i]]
          /\ \A v \in Windows :
               e.own[v] = t => d.own[v] = t \/ \E i \in 1..(n - 1) : list[i] = v
      BY <1>1, <1>5
    <2>3. w \in Windows /\ e.own[w] \notin {None, t}
      BY <1>1, <2>2 DEF N
    <2>4. f[n] = MoveWindow(e, w, t)
      BY <1>3
    <2> HIDE DEF e
    <2>5. /\ Good(R, f[n], {}, O) /\ Near(e, f[n]) /\ JoinsOnly(e, f[n], w, t)
      BY <2>1, <2>2, <2>3, <2>4, MoveWindowGood
    <2>6. Near(d, f[n])
      BY <2>2, <2>5, NearTransitive
    <2>7. ASSUME NEW i \in (n + 1)..N PROVE f[n].own[list[i]] = d.own[list[i]]
      <3>1. i \in 1..N /\ n \in 1..N /\ i # n /\ i \in n..N
        BY <1>1, <2>7
      <3>2. list[i] # w /\ list[i] \in Windows
        BY <1>1, <1>2, <3>1
      <3> QED
        BY <2>2, <2>5, <3>1, <3>2 DEF JoinsOnly
    <2>8. t \in Live(f[n])
      BY <2>5 DEF JoinsOnly
    <2>9. ASSUME NEW v \in Windows, f[n].own[v] = t
          PROVE  d.own[v] = t \/ \E i \in 1..n : list[i] = v
      <3>1. CASE v = w
        BY <1>1, <3>1
      <3>2. CASE v # w
        <4>1. e.own[v] = t
          BY <2>5, <2>9, <3>2 DEF JoinsOnly
        <4> QED
          BY <1>1, <2>2, <4>1
      <3> QED
        BY <3>1, <3>2
    <2> QED
      BY <2>5, <2>6, <2>7, <2>8, <2>9
  <1> HIDE DEF P
  <1>6. Bad = {}
    <2> SUFFICES ASSUME Bad # {} PROVE FALSE
      OBVIOUS
    <2>1. Bad \in SUBSET Nat
      BY <1>1
    <2>2. PICK m \in Bad : \A k \in Bad : m <= k
      <3> HIDE DEF Bad
      <3> QED
        BY <2>1, LeastOf
    <2>3. m # 0
      BY <1>4, <2>2
    <2>4. m \in 1..N /\ m - 1 \in 0..N /\ ~(m <= m - 1)
      BY <1>1, <2>2, <2>3
    <2>5. P(m - 1)
      BY <2>2, <2>4
    <2> QED
      BY <1>5, <2>2, <2>4, <2>5
  <1>7. \A n \in 0..N : P(n)
    BY <1>6
  <1> QED
    BY <1>7 DEF P, N, Moving

LEMMA MoveWindowsGood ==
  ASSUME NEW R, NEW d, NEW E, NEW O, NEW t \in Live(d), Good(R, d, E, O), \A h \in E : h = t,
         NEW list \in Seq(Windows), list # << >>, IsInjective(list),
         \A i \in 1..Len(list) : d.own[list[i]] \notin {None, t}
  PROVE  /\ Good(R, MoveWindows(d, list, t), {}, O)
         /\ Near(d, MoveWindows(d, list, t))
  <1>1. Len(list) \in Nat \ {0}
    OBVIOUS
  <1>2. PICK f : /\ f[0] = d
                 /\ \A n \in 1..Len(list) : f[n] = MoveWindow(f[n - 1], list[n], t)
                 /\ MoveWindows(d, list, t) = f[Len(list)]
    BY <1>1, MoveWindowsIs
  <1>3. \A n \in 0..Len(list) : Moving(R, O, d, t, list, n, f[n])
    BY <1>2, MovesGood
  <1>4. Len(list) \in 0..Len(list) /\ Len(list) # 0
    BY <1>1
  <1>5. Good(R, f[Len(list)], {}, O) /\ Near(d, f[Len(list)])
    BY <1>3, <1>4 DEF Moving
  <1> QED
    BY <1>2, <1>5

\* A window joins a group that is in use.
LEMMA AddWindowGood ==
  ASSUME NEW R, NEW d, NEW E, NEW O, NEW g \in Live(d), NEW w \in Windows, d.own[w] = None,
         Good(R, d, E, O), NEW S, Recast(R, S, R.mapped, R.outside \ {w})
  PROVE  /\ Good(S, AddWindow(d, g, w), E \ {g}, O)
         /\ Near(d, AddWindow(d, g, w))
         /\ Live(AddWindow(d, g, w)) = Live(d)
         /\ AddWindow(d, g, w).own[w] = g
  <1> DEFINE e == AddWindow(d, g, w)
  <1>1. /\ Typed(d) /\ Owned(d, E) /\ Housed(R, d) /\ Pointed(d) /\ Blank(d) /\ Tabbed(d, {})
        /\ Keyed(R, d) /\ Pinned(d) /\ Placed(R, d, O) /\ Honoured(d) /\ d \in Desk
    BY DEF Good, Linked, Typed
  <1>2. g \in Groups /\ g # None
    BY <1>1, LiveGroups, Names
  <1>3. Typed(e) /\ Owned(e, E \ {g})
    BY <1>1, AddWindowOwned
  <1>4. SamePlaces(d, e) /\ e.own = [d.own EXCEPT ![w] = g]
    <2>1. d \in Desk /\ g \in Groups
      BY <1>1, <1>2
    <2>2. /\ e \in Desk /\ SamePlaces(d, e)
          /\ e.own = [d.own EXCEPT ![w] = g]
          /\ e.wws = [d.wws EXCEPT ![w] = d.gws[g]]
          /\ e.gwin = [d.gwin EXCEPT ![g] = Append(d.gwin[g], w)]
      BY <2>1, AddWindowFields
    <2> QED
      BY <2>2
  <1> HIDE DEF e
  <1>5. /\ Pointed(e) /\ Blank(e) /\ Keyed(R, e) /\ Pinned(e) /\ Placed(R, e, O) /\ Honoured(e)
        /\ Near(d, e) /\ Live(e) = Live(d)
    BY <1>1, <1>4, SamePlacesKeeps
  <1>6. \A v \in Windows : e.own[v] = IF v = w THEN g ELSE d.own[v]
    BY <1>1, <1>4, DeskFields
  <1>7. /\ e.mapped = d.mapped /\ e.gact = d.gact /\ d.mapped \in SUBSET Windows
        /\ Live(d) \in SUBSET Groups
    BY <1>1, <1>4, DeskFields, LiveGroups DEF SamePlaces
  <1>s. /\ S.mapped = R.mapped /\ S.outside = R.outside \ {w}
        /\ S.kbd = R.kbd /\ S.spaces = R.spaces
    BY DEF Recast
  <1>8. Housed(S, e)
    BY <1>1, <1>2, <1>6, <1>7, <1>s DEF Housed
  <1>h. \A h \in Live(d) : d.gact[h] # None => d.gact[h] # w
    BY <1>1, <1>7, Names DEF Tabbed
  <1>i. \A h \in Live(d) : d.gact[h] \in Windows \cup {None}
    BY <1>1, <1>7, DeskFields
  <1>9. Tabbed(e, {})
    BY <1>1, <1>5, <1>6, <1>7, <1>h, <1>i DEF Tabbed
  <1>10. Keyed(S, e) /\ Placed(S, e, O)
    BY <1>5, <1>s DEF Keyed, Placed
  <1>11. Good(S, e, E \ {g}, O)
    BY <1>3, <1>5, <1>8, <1>9, <1>10 DEF Good, Linked
  <1> QED
    BY <1>5, <1>6, <1>11 DEF e

-----------------------------------------------------------------------------
(* Floating and pinning.                                                   *)

\* e is d, but for the placement of the group g.
Replaced(d, e, g) ==
  /\ e \in Desk /\ SameOutputs(d, e) /\ SameWindows(d, e) /\ e.fo = d.fo
  /\ e.groups = d.groups /\ e.gws = d.gws /\ e.gwin = d.gwin /\ e.gact = d.gact
  /\ e.wact = d.wact /\ e.act = d.act /\ e.kbd = d.kbd
  /\ \A h \in Groups \ {g} : (h \in e.flt <=> h \in d.flt) /\ e.pin[h] = d.pin[h]

\* The invariant but for the pin of g.
Unpinned(d, g) ==
  \A h \in Live(d) \ {g} : d.pin[h] # None => h \in d.flt /\ d.gws[h] = d.vis[d.pin[h]]

LEMMA ReplacedKeeps ==
  ASSUME NEW R, NEW d, NEW e, NEW g \in Live(d), NEW E, NEW O, Good(R, d, E, O), Replaced(d, e, g)
  PROVE  /\ Linked(R, e, E) /\ Tabbed(e, {}) /\ Keyed(R, e) /\ Placed(R, e, O) /\ Honoured(e)
         /\ Unpinned(e, g) /\ Near(d, e) /\ Live(e) = Live(d)
  <1>1. /\ Typed(d) /\ Owned(d, E) /\ Housed(R, d) /\ Pointed(d) /\ Blank(d) /\ Tabbed(d, {})
        /\ Keyed(R, d) /\ Pinned(d) /\ Placed(R, d, O) /\ Honoured(d) /\ d \in Desk
    BY DEF Good, Linked, Typed
  <1>2. /\ e \in Desk /\ SameOutputs(d, e) /\ SameWindows(d, e) /\ e.fo = d.fo
        /\ e.groups = d.groups /\ e.gws = d.gws /\ e.gwin = d.gwin /\ e.gact = d.gact
        /\ e.wact = d.wact /\ e.act = d.act /\ e.kbd = d.kbd
        /\ \A h \in Groups \ {g} : (h \in e.flt <=> h \in d.flt) /\ e.pin[h] = d.pin[h]
    BY DEF Replaced
  <1>3. Live(e) = Live(d) /\ Live(d) \in SUBSET Groups
    BY <1>1, <1>2, LiveGroups DEF Live
  <1>4. Typed(e)
    BY <1>1, <1>2 DEF Typed, SameOutputs
  <1>5. Owned(e, E)
    BY <1>1, <1>2, <1>3, SameSpaces DEF Owned, SameWindows
  <1>6. Housed(R, e)
    BY <1>1, <1>2 DEF Housed, SameWindows
  <1>7. Pointed(e)
    BY <1>1, <1>2, <1>3 DEF Pointed
  <1>8. Blank(e)
    BY <1>1, <1>2, <1>3 DEF Blank
  <1>9. Tabbed(e, {})
    BY <1>1, <1>2, <1>3 DEF Tabbed, SameWindows
  <1>10. Keyed(R, e)
    BY <1>1, <1>2 DEF Keyed
  <1>11. Unpinned(e, g)
    BY <1>1, <1>2, <1>3 DEF Pinned, Unpinned, SameOutputs
  <1>12. Placed(R, e, O) /\ Honoured(e) /\ Near(d, e)
    BY <1>1, <1>2, OutputsKeep
  <1> QED
    BY <1>3, <1>4, <1>5, <1>6, <1>7, <1>8, <1>9, <1>10, <1>11, <1>12 DEF Linked

LEMMA ReplacedGood ==
  ASSUME NEW R, NEW d, NEW e, NEW g \in Live(d), NEW E, NEW O, Good(R, d, E, O), Replaced(d, e, g),
         e.pin[g] # None => g \in e.flt /\ e.gws[g] = e.vis[e.pin[g]]
  PROVE  Good(R, e, E, O) /\ Near(d, e)
  <1>1. /\ Linked(R, e, E) /\ Tabbed(e, {}) /\ Keyed(R, e) /\ Placed(R, e, O) /\ Honoured(e)
        /\ Unpinned(e, g) /\ Near(d, e)
    BY ReplacedKeeps
  <1>2. Pinned(e)
    BY <1>1 DEF Unpinned, Pinned
  <1> QED
    BY <1>1, <1>2 DEF Good

\* No window leaves the groups.
Keeps(d, e) ==
  /\ e.mapped = d.mapped
  /\ \A v \in Windows : d.own[v] # None => e.own[v] # None

LEMMA RefocusGood ==
  ASSUME NEW R, NEW d, NEW g \in Groups, NEW E, NEW O, Good(R, d, E, O)
  PROVE  /\ Good(R, Refocus(d, g), E, O)
         /\ Near(d, Refocus(d, g))
         /\ Keeps(d, Refocus(d, g))
  <1>1. d \in Desk /\ d.mapped \in SUBSET Windows
    BY DeskFields DEF Good, Linked, Typed
  <1>2. CASE d.gact[g] \in d.mapped
    <2>1. PICK w \in Windows : w = d.gact[g]
      BY <1>1, <1>2
    <2>2. Good(R, FocusWindow(d, w), E, O) /\ Near(d, FocusWindow(d, w)) /\ Still(d, FocusWindow(d, w))
      BY FocusWindowGood
    <2>3. Refocus(d, g) = FocusWindow(d, w)
      BY <1>2, <2>1 DEF Refocus
    <2>4. Keeps(d, FocusWindow(d, w))
      BY <2>2 DEF Keeps, Still
    <2> QED
      BY <2>2, <2>3, <2>4
  <1>3. CASE d.gact[g] \notin d.mapped
    <2>1. Refocus(d, g) = d
      BY <1>3 DEF Refocus
    <2> QED
      BY <2>1 DEF Near, SameOutputs, Keeps
  <1> QED
    BY <1>2, <1>3

LEMMA KeepsTransitive ==
  ASSUME NEW d, NEW e, NEW f, Keeps(d, e), Keeps(e, f)
  PROVE  Keeps(d, f)
  BY DEF Keeps

LEMMA FloatGroupGood ==
  ASSUME NEW R, NEW d, NEW g \in Live(d), NEW E, NEW O, Good(R, d, E, O)
  PROVE  /\ Good(R, FloatGroup(d, g), E, O)
         /\ Near(d, FloatGroup(d, g))
         /\ Keeps(d, FloatGroup(d, g))
  <1> DEFINE e == [d EXCEPT !.flt = @ \cup {g}, !.pin[g] = None]
  <1>1. d \in Desk /\ g \in Groups
    BY LiveGroups DEF Good, Linked, Typed
  <1>2. Replaced(d, e, g) /\ e.pin[g] = None
    BY <1>1 DEF Desk, Replaced, SameOutputs, SameWindows
  <1>3. FloatGroup(d, g) = IF CanFloat(d, g) THEN Refocus(e, g) ELSE d
    BY DEF FloatGroup
  <1> HIDE DEF e
  <1>4. Good(R, e, E, O) /\ Near(d, e)
    BY <1>2, ReplacedGood
  <1>5. Keeps(d, e)
    BY <1>2 DEF Replaced, SameWindows, Keeps
  <1>6. Good(R, Refocus(e, g), E, O) /\ Near(e, Refocus(e, g)) /\ Keeps(e, Refocus(e, g))
    BY <1>1, <1>4, RefocusGood
  <1>7. Near(d, Refocus(e, g)) /\ Keeps(d, Refocus(e, g))
    BY <1>4, <1>5, <1>6, NearTransitive, KeepsTransitive
  <1>8. Near(d, d) /\ Keeps(d, d)
    BY DEF Near, SameOutputs, Keeps
  <1> QED
    BY <1>3, <1>6, <1>7, <1>8

LEMMA TileGroupGood ==
  ASSUME NEW R, NEW d, NEW g \in Live(d), NEW E, NEW O, Good(R, d, E, O)
  PROVE  /\ Good(R, TileGroup(d, g), E, O)
         /\ Near(d, TileGroup(d, g))
         /\ Keeps(d, TileGroup(d, g))
  <1> DEFINE e == [d EXCEPT !.flt = @ \ {g}, !.pin[g] = None]
  <1>1. d \in Desk /\ g \in Groups
    BY LiveGroups DEF Good, Linked, Typed
  <1>2. Replaced(d, e, g) /\ e.pin[g] = None
    BY <1>1 DEF Desk, Replaced, SameOutputs, SameWindows
  <1>3. TileGroup(d, g) = IF CanTile(d, g) THEN Refocus(e, g) ELSE d
    BY DEF TileGroup
  <1> HIDE DEF e
  <1>4. Good(R, e, E, O) /\ Near(d, e)
    BY <1>2, ReplacedGood
  <1>5. Keeps(d, e)
    BY <1>2 DEF Replaced, SameWindows, Keeps
  <1>6. Good(R, Refocus(e, g), E, O) /\ Near(e, Refocus(e, g)) /\ Keeps(e, Refocus(e, g))
    BY <1>1, <1>4, RefocusGood
  <1>7. Near(d, Refocus(e, g)) /\ Keeps(d, Refocus(e, g))
    BY <1>4, <1>5, <1>6, NearTransitive, KeepsTransitive
  <1>8. Near(d, d) /\ Keeps(d, d)
    BY DEF Near, SameOutputs, Keeps
  <1> QED
    BY <1>3, <1>6, <1>7, <1>8

\* Where a window of a group is.
LEMMA OwnerIs ==
  ASSUME NEW d, NEW E, NEW w \in Windows, d \in Desk, Owned(d, E), d.own[w] # None
  PROVE  /\ d.own[w] \in Groups /\ d.own[w] \in Live(d)
         /\ w \in ToSet(d.gwin[d.own[w]])
         /\ d.gws[d.own[w]] \in Workspaces /\ d.gws[d.own[w]] \in Spaces(d)
  <1>1. d.own[w] \in Groups
    BY DeskFields
  <1>2. w \in ToSet(d.gwin[d.own[w]])
    BY <1>1 DEF Owned
  <1>3. d.own[w] \in Live(d)
    BY <1>1, <1>2, EmptyIs DEF Owned
  <1>4. d.gws[d.own[w]] \in Workspaces /\ d.gws[d.own[w]] \in Spaces(d)
    BY <1>1, <1>3, DeskFields DEF Owned
  <1> QED
    BY <1>1, <1>2, <1>3, <1>4

LEMMA JoinsOnlyKeeps ==
  ASSUME NEW d, NEW e, NEW w \in Windows, NEW t, t # None, JoinsOnly(d, e, w, t)
  PROVE  Keeps(d, e)
  BY DEF JoinsOnly, Keeps

LEMMA MakeFloatingGood ==
  ASSUME NEW R, NEW d, NEW w \in Windows, NEW O, Good(R, d, {}, O)
  PROVE  /\ Good(R, MakeFloating(d, w), {}, O)
         /\ Near(d, MakeFloating(d, w))
         /\ Keeps(d, MakeFloating(d, w))
  <1> DEFINE s == d.own[w]
             r == MakeFloating(d, w)
             Done == Good(R, r, {}, O) /\ Near(d, r) /\ Keeps(d, r)
  <1>1. d \in Desk /\ Owned(d, {})
    BY DEF Good, Linked, Typed
  <1>2. ASSUME s = None \/ s \in d.flt \/ w \in d.full PROVE Done
    <2>1. r = d
      BY <1>2 DEF MakeFloating
    <2> QED
      BY <2>1 DEF Near, SameOutputs, Keeps
  <1>3. ASSUME ~(s = None \/ s \in d.flt \/ w \in d.full), Len(d.gwin[s]) = 1 PROVE Done
    <2>1. r = FloatGroup(d, s)
      BY <1>3 DEF MakeFloating
    <2>2. s \in Live(d)
      BY <1>1, <1>3, OwnerIs
    <2> HIDE DEF s, r
    <2> QED
      BY <2>1, <2>2, FloatGroupGood
  <1>4. ASSUME ~(s = None \/ s \in d.flt \/ w \in d.full), Len(d.gwin[s]) # 1 PROVE Done
    <2> DEFINE e == Detach(d, w, d.gws[s])
               g == NewGroup(d)
    <2>1. r = FloatGroup(e, g)
      BY <1>3, <1>4 DEF MakeFloating
    <2>2. d.gws[s] \in Workspaces /\ d.gws[s] \in Spaces(d)
      BY <1>1, <1>4, OwnerIs
    <2>3. Good(R, e, {}, O) /\ Near(d, e) /\ JoinsOnly(d, e, w, g)
      BY <1>4, <2>2, DetachGood
    <2>4. g # None
      BY <1>1, NewGroupIs, Names
    <2> HIDE DEF e, g, r
    <2>5. Keeps(d, e) /\ g \in Live(e)
      BY <2>3, <2>4, JoinsOnlyKeeps DEF JoinsOnly
    <2>6. Good(R, r, {}, O) /\ Near(e, r) /\ Keeps(e, r)
      BY <2>1, <2>3, <2>5, FloatGroupGood
    <2> QED
      BY <2>3, <2>5, <2>6, NearTransitive, KeepsTransitive
  <1> HIDE DEF Done
  <1>5. Done
    BY <1>2, <1>3, <1>4
  <1> QED
    BY <1>5 DEF Done

LEMMA MakeTiledGood ==
  ASSUME NEW R, NEW d, NEW w \in Windows, NEW O, Good(R, d, {}, O)
  PROVE  /\ Good(R, MakeTiled(d, w), {}, O)
         /\ Near(d, MakeTiled(d, w))
         /\ Keeps(d, MakeTiled(d, w))
  <1> DEFINE s == d.own[w]
             r == MakeTiled(d, w)
             Done == Good(R, r, {}, O) /\ Near(d, r) /\ Keeps(d, r)
  <1>1. d \in Desk /\ Owned(d, {})
    BY DEF Good, Linked, Typed
  <1>2. ASSUME s = None \/ s \notin d.flt \/ w \in d.full PROVE Done
    <2>1. r = d
      BY <1>2 DEF MakeTiled
    <2> QED
      BY <2>1 DEF Near, SameOutputs, Keeps
  <1>3. ASSUME ~(s = None \/ s \notin d.flt \/ w \in d.full), Len(d.gwin[s]) = 1 PROVE Done
    <2>1. r = TileGroup(d, s)
      BY <1>3 DEF MakeTiled
    <2>2. s \in Live(d)
      BY <1>1, <1>3, OwnerIs
    <2> HIDE DEF s, r
    <2> QED
      BY <2>1, <2>2, TileGroupGood
  <1>4. ASSUME ~(s = None \/ s \notin d.flt \/ w \in d.full), Len(d.gwin[s]) # 1 PROVE Done
    <2> DEFINE g == NewGroup(d)
    <2>1. r = Detach(d, w, d.gws[s])
      BY <1>4 DEF MakeTiled
    <2>2. d.gws[s] \in Workspaces /\ d.gws[s] \in Spaces(d)
      BY <1>1, <1>4, OwnerIs
    <2>4. g # None
      BY <1>1, NewGroupIs, Names
    <2> HIDE DEF r
    <2>3. Good(R, r, {}, O) /\ Near(d, r) /\ JoinsOnly(d, r, w, g)
      BY <1>4, <2>1, <2>2, DetachGood
    <2> HIDE DEF g
    <2> QED
      BY <2>3, <2>4, JoinsOnlyKeeps
  <1> HIDE DEF Done
  <1>5. Done
    BY <1>2, <1>3, <1>4
  <1> QED
    BY <1>5 DEF Done

-----------------------------------------------------------------------------
(* The order of the windows of a group.                                    *)

LEMMA InsertAtIs ==
  ASSUME NEW S, NEW s \in Seq(S), IsInjective(s), NEW e \in S, e \notin ToSet(s),
         NEW k \in 1..(Len(s) + 1)
  PROVE  /\ InsertAt(s, k, e) \in Seq(S)
         /\ IsInjective(InsertAt(s, k, e))
         /\ ToSet(InsertAt(s, k, e)) = ToSet(s) \cup {e}
         /\ \A v, w : v # e /\ w # e /\ Before(InsertAt(s, k, e), v, w) => Before(s, v, w)
  <1> DEFINE n == Len(s)
             a == SubSeq(s, 1, k - 1)
             b == SubSeq(s, k, n)
             r == InsertAt(s, k, e)
  <1>1. n \in Nat /\ DOMAIN s = 1..n /\ \A i \in 1..n : s[i] \in S
    BY LenProperties
  <1>2. r = a \o <<e>> \o b
    BY DEF InsertAt
  <1>3. /\ a \in Seq(S) /\ Len(a) = k - 1
        /\ \A i \in 1..(k - 1) : a[i] = s[i]
    BY <1>1, SubSeqProperties
  <1>4. /\ b \in Seq(S) /\ Len(b) = n - k + 1
        /\ \A i \in 1..(n - k + 1) : b[i] = s[k + i - 1]
    BY <1>1, SubSeqProperties
  <1> HIDE DEF a, b, r, n
  <1>5. /\ r \in Seq(S) /\ Len(r) = n + 1
        /\ \A i \in 1..(n + 1) :
             r[i] = IF i < k THEN s[i] ELSE IF i = k THEN e ELSE s[i - 1]
    <2> DEFINE c == a \o <<e>>
    <2>1. /\ c \in Seq(S) /\ Len(c) = k
          /\ \A i \in 1..k : c[i] = IF i < k THEN a[i] ELSE e
      BY <1>1, <1>3
    <2> HIDE DEF c
    <2>2. /\ r \in Seq(S) /\ Len(r) = Len(c) + Len(b)
          /\ \A i \in 1..(Len(c) + Len(b)) : r[i] = IF i <= Len(c) THEN c[i] ELSE b[i - Len(c)]
      <3>1. r = c \o b
        BY <1>2 DEF c
      <3> QED
        BY <1>4, <2>1, <3>1, ConcatProperties
    <2>3. Len(c) + Len(b) = n + 1
      BY <1>1, <1>4, <2>1 DEF n
    <2>4. ASSUME NEW i \in 1..(n + 1)
          PROVE  r[i] = IF i < k THEN s[i] ELSE IF i = k THEN e ELSE s[i - 1]
      <3>1. CASE i <= k
        <4>1. i \in 1..k /\ r[i] = c[i]
          BY <1>1, <2>1, <2>2, <2>3, <3>1
        <4> QED
          BY <1>1, <1>3, <2>1, <3>1, <4>1
      <3>2. CASE i > k
        <4>1. i - k \in 1..(n - k + 1) /\ k + (i - k) - 1 = i - 1
          BY <1>1, <3>2 DEF n
        <4>2. r[i] = b[i - k]
          BY <1>1, <2>1, <2>2, <2>3, <3>2
        <4> QED
          BY <1>1, <1>4, <3>2, <4>1, <4>2
      <3> QED
        BY <1>1, <3>1, <3>2
    <2> QED
      BY <2>2, <2>3, <2>4
  <1>6. DOMAIN r = 1..(n + 1) /\ k \in 1..(n + 1)
    BY <1>5, LenProperties DEF n
  <1>7. \A i, j \in 1..n : s[i] = s[j] => i = j
    BY <1>1 DEF IsInjective
  <1>8. \A i \in 1..n : s[i] # e
    BY <1>1 DEF ToSet
  <1>9. \A i \in 1..(n + 1) : i # k => \E j \in 1..n : r[i] = s[j] /\ j = IF i < k THEN i ELSE i - 1
    <2> TAKE i \in 1..(n + 1)
    <2>1. CASE i < k
      BY <1>1, <1>5, <1>6, <2>1
    <2>2. CASE i > k
      <3>1. i - 1 \in 1..n /\ ~(i < k) /\ i # k
        BY <1>1, <1>6, <2>2
      <3> QED
        BY <1>5, <3>1
    <2> QED
      BY <1>1, <1>6, <2>1, <2>2
  <1>10. r[k] = e
    BY <1>1, <1>5, <1>6
  <1>11. IsInjective(r)
    <2>1. ASSUME NEW i \in 1..(n + 1), NEW j \in 1..(n + 1), r[i] = r[j] PROVE i = j
      <3>1. CASE i = k \/ j = k
        BY <1>8, <1>9, <1>10, <2>1, <3>1
      <3>2. CASE i # k /\ j # k
        <4>1. PICK x \in 1..n : r[i] = s[x] /\ x = IF i < k THEN i ELSE i - 1
          BY <1>9, <3>2
        <4>2. PICK y \in 1..n : r[j] = s[y] /\ y = IF j < k THEN j ELSE j - 1
          BY <1>9, <3>2
        <4>3. x = y
          BY <1>7, <2>1, <4>1, <4>2
        <4> QED
          BY <1>1, <1>6, <3>2, <4>1, <4>2, <4>3
      <3> QED
        BY <3>1, <3>2
    <2> QED
      BY <1>6, <2>1 DEF IsInjective
  <1>12. ToSet(r) \subseteq ToSet(s) \cup {e}
    BY <1>1, <1>6, <1>9, <1>10 DEF ToSet
  <1>13. ASSUME NEW j \in 1..n PROVE \E i \in 1..(n + 1) : r[i] = s[j]
    <2>1. CASE j < k
      BY <1>1, <1>5, <1>6, <2>1
    <2>2. CASE ~(j < k)
      <3>1. j + 1 \in 1..(n + 1) /\ ~(j + 1 < k) /\ j + 1 # k /\ (j + 1) - 1 = j
        BY <1>1, <1>6, <2>2
      <3> QED
        BY <1>5, <3>1
    <2> QED
      BY <2>1, <2>2
  <1>14. ToSet(s) \subseteq ToSet(r) /\ e \in ToSet(r)
    BY <1>1, <1>6, <1>10, <1>13 DEF ToSet
  <1>15. ASSUME NEW v, NEW w, v # e, w # e, Before(r, v, w) PROVE Before(s, v, w)
    <2>1. PICK i \in 1..(n + 1), j \in 1..(n + 1) : i < j /\ r[i] = v /\ r[j] = w
      BY <1>6, <1>15 DEF Before
    <2>2. i # k /\ j # k
      BY <1>10, <1>15, <2>1
    <2>3. PICK x \in 1..n : r[i] = s[x] /\ x = IF i < k THEN i ELSE i - 1
      BY <1>9, <2>2
    <2>4. PICK y \in 1..n : r[j] = s[y] /\ y = IF j < k THEN j ELSE j - 1
      BY <1>9, <2>2
    <2>5. x < y
      BY <1>1, <1>6, <2>1, <2>2, <2>3, <2>4
    <2> QED
      BY <1>1, <2>1, <2>3, <2>4, <2>5 DEF Before
  <1> QED
    BY <1>5, <1>11, <1>12, <1>14, <1>15 DEF r

\* e is d with the windows of g in another order.
Reordered(d, g, s, e) ==
  /\ e \in Desk /\ SamePlaces(d, e) /\ e.own = d.own /\ e.wws = d.wws
  /\ e.gwin[g] = s /\ \A h \in Groups \ {g} : e.gwin[h] = d.gwin[h]

LEMMA ReorderedGood ==
  ASSUME NEW R, NEW d, NEW E, NEW O, NEW g \in Groups, Good(R, d, E, O),
         NEW s \in Seq(Windows), IsInjective(s), ToSet(s) = ToSet(d.gwin[g]),
         NEW e, Reordered(d, g, s, e)
  PROVE  Good(R, e, E, O) /\ Near(d, e)
  <1>1. /\ Typed(d) /\ Owned(d, E) /\ Housed(R, d) /\ Pointed(d) /\ Blank(d) /\ Tabbed(d, {})
        /\ Keyed(R, d) /\ Pinned(d) /\ Placed(R, d, O) /\ Honoured(d) /\ d \in Desk
    BY DEF Good, Linked, Typed
  <1>2. /\ e \in Desk /\ SamePlaces(d, e) /\ e.own = d.own /\ e.wws = d.wws
        /\ e.gwin[g] = s /\ \A h \in Groups \ {g} : e.gwin[h] = d.gwin[h]
    BY DEF Reordered
  <1>3. /\ Pointed(e) /\ Blank(e) /\ Keyed(R, e) /\ Pinned(e) /\ Placed(R, e, O) /\ Honoured(e)
        /\ Near(d, e) /\ Live(e) = Live(d)
    BY <1>1, <1>2, SamePlacesKeeps
  <1>4. Typed(e)
    BY <1>1, <1>2 DEF Typed, SamePlaces, SameOutputs
  <1>5. s # << >> <=> d.gwin[g] # << >>
    <2>1. d.gwin[g] \in Seq(Windows)
      BY <1>1, DeskFields
    <2> QED
      BY <2>1, MembersOf
  <1>6. Owned(e, E)
    <2>1. \A h \in Groups : ToSet(e.gwin[h]) = ToSet(d.gwin[h])
                            /\ (e.gwin[h] # << >> <=> d.gwin[h] # << >>)
      BY <1>2, <1>5
    <2> QED
      BY <1>1, <1>2, <1>3, <2>1, SameSpaces DEF Owned, SamePlaces
  <1>7. Housed(R, e) /\ Tabbed(e, {})
    BY <1>1, <1>2, <1>3 DEF Housed, Tabbed, SamePlaces
  <1> QED
    BY <1>3, <1>4, <1>6, <1>7 DEF Good, Linked

LEMMA PlaceBesideGood ==
  ASSUME NEW R, NEW d, NEW E, NEW O, Good(R, d, E, O), NEW w \in Windows, NEW ref \in Windows,
         w # ref, NEW g \in Groups, d.own[w] = g, d.own[ref] = g, NEW before \in BOOLEAN
  PROVE  /\ Good(R, PlaceBeside(d, w, ref, before), E, O)
         /\ Near(d, PlaceBeside(d, w, ref, before))
         /\ \A v, x : v # w /\ x # w /\ Precedes(PlaceBeside(d, w, ref, before), v, x)
                        => Precedes(d, v, x)
  <1> DEFINE t == d.gwin[g]
             rest == RemoveFirst(t, w)
  <1>1. /\ d \in Desk /\ t \in Seq(Windows) /\ IsInjective(t)
        /\ w \in ToSet(t) /\ ref \in ToSet(t)
    <2>1. d \in Desk /\ Typed(d) /\ Owned(d, E)
      BY DEF Good, Linked, Typed
    <2> QED
      BY <2>1, DeskFields DEF Typed, Owned
  <1>2. /\ rest \in Seq(Windows) /\ IsInjective(rest) /\ ToSet(rest) = ToSet(t) \ {w}
    BY <1>1, RemoveFirstIs
  <1> HIDE DEF rest
  <1>3. PICK k \in 1..Len(rest) : rest[k] = ref
    <2>1. DOMAIN rest = 1..Len(rest) /\ ref \in ToSet(rest)
      BY <1>1, <1>2, LenProperties
    <2> QED
      BY <2>1 DEF ToSet
  <1> DEFINE I == {i \in 1..Len(rest) : rest[i] = ref}
             at == IF I # {} THEN Min(I) ELSE 0
             p == IF before THEN at ELSE at + 1
             s == InsertAt(rest, p, w)
             e == PlaceBeside(d, w, ref, before)
  <1>4. at = k
    <2>1. /\ {i \in 1..Len(rest) : rest[i] = rest[k]} # {}
          /\ Min({i \in 1..Len(rest) : rest[i] = rest[k]}) = k
      BY <1>2, PlaceOf
    <2>2. I # {} /\ Min(I) = k
      BY <1>3, <2>1
    <2> QED
      BY <2>2
  <1>5. e = [d EXCEPT !.gwin[g] = s]
    BY DEF PlaceBeside, SelectInSeq, rest
  <1> HIDE DEF at
  <1>6. p \in 1..(Len(rest) + 1)
    <2>1. Len(rest) \in Nat
      BY <1>2, LenProperties
    <2> QED
      BY <1>3, <1>4, <2>1
  <1> HIDE DEF p
  <1>7. /\ s \in Seq(Windows) /\ IsInjective(s) /\ ToSet(s) = ToSet(t)
        /\ \A v, x : v # w /\ x # w /\ Before(s, v, x) => Before(t, v, x)
    <2>1. /\ rest \in Seq(Windows) /\ IsInjective(rest) /\ w \notin ToSet(rest)
      BY <1>2
    <2>2. /\ s \in Seq(Windows) /\ IsInjective(s) /\ ToSet(s) = ToSet(rest) \cup {w}
          /\ \A v, x : v # w /\ x # w /\ Before(s, v, x) => Before(rest, v, x)
      BY <1>6, <2>1, InsertAtIs
    <2>3. \A v, x : Before(rest, v, x) => Before(t, v, x)
      BY <1>1, BeforeRemoved DEF rest
    <2> HIDE DEF s
    <2>4. ToSet(s) = ToSet(t)
      BY <1>1, <1>2, <2>2
    <2> QED
      BY <2>2, <2>3, <2>4
  <1> HIDE DEF s, e
  <1>8. Reordered(d, g, s, e)
    <2>1. [d.gwin EXCEPT ![g] = s] \in [Groups -> Seq(Windows)]
      BY <1>1, <1>7, DeskFields
    <2> DEFINE gwin == [d.gwin EXCEPT ![g] = s]
    <2>2. gwin[g] = s /\ \A h \in Groups \ {g} : gwin[h] = d.gwin[h]
      BY <1>1, DeskFields
    <2>3. e = [d EXCEPT !.gwin = gwin]
      BY <1>5
    <2> HIDE DEF gwin
    <2>4. gwin \in [Groups -> Seq(Windows)]
      BY <2>1 DEF gwin
    <2>5. /\ e \in Desk /\ SamePlaces(d, e) /\ e.own = d.own /\ e.wws = d.wws /\ e.gwin = gwin
      BY <1>1, <2>3, <2>4 DEF Desk, SamePlaces, SameOutputs
    <2> QED
      BY <2>2, <2>5 DEF Reordered
  <1>9. Good(R, e, E, O) /\ Near(d, e)
    BY <1>7, <1>8, ReorderedGood
  <1>10. ASSUME NEW v, NEW x, v # w, x # w, Precedes(e, v, x) PROVE Precedes(d, v, x)
    <2>1. PICK h \in Groups : Before(e.gwin[h], v, x)
      BY <1>10, PrecedesIs
    <2>2. Before(d.gwin[h], v, x)
      BY <1>7, <1>8, <1>10, <2>1 DEF Reordered
    <2> QED
      BY <2>2, PrecedesIs
  <1> QED
    BY <1>9, <1>10 DEF e

-----------------------------------------------------------------------------
(* Workspaces on outputs.                                                  *)

\* The workspace that has the focus exists.
LEMMA FocusedSpace ==
  ASSUME NEW R, NEW d, Sound(R, d), FocusedWs(d) # NoWs
  PROVE  FocusedWs(d) \in Workspaces /\ FocusedWs(d) \in Spaces(d)
  <1>d. d \in Desk /\ Placed(R, d, {}) /\ Focused(d)
    BY DEF Sound, Good, Linked, Typed
  <1>1. d.fo # None /\ FocusedWs(d) = d.vis[d.fo]
    BY DEF FocusedWs
  <1>2. d.fo \in Outputs /\ d.fo \in ToSet(d.outs)
    BY <1>d, <1>1, DeskFields DEF Focused
  <1>3. d.vis[d.fo] \in ToSet(d.asg[d.fo]) /\ d.asg[d.fo] \in Seq(Workspaces)
    BY <1>d, <1>2, DeskFields DEF Placed
  <1>4. d.vis[d.fo] \in Workspaces
    BY <1>3, MembersOf
  <1>5. d.home[d.vis[d.fo]] = d.fo
    BY <1>d, <1>2, <1>3, <1>4 DEF Placed
  <1> QED
    BY <1>d, <1>1, <1>4, <1>5, SpaceOnOutput

\* The invariant does not depend on the focused output, and on the active group
\* only for the keyboard.
LEMMA ActKbdGood ==
  ASSUME NEW R, NEW d, NEW E, NEW O, Good(R, d, E, O), NEW e \in Desk,
         SameOutputs(d, e), Still(d, e), e.wact = d.wact, e.gact = d.gact,
         e.act # None => e.act \in Live(d),
         Keyed(R, e)
  PROVE  Good(R, e, E, O)
  <1>1. /\ Typed(d) /\ Owned(d, E) /\ Housed(R, d) /\ Pointed(d) /\ Blank(d) /\ Tabbed(d, {})
        /\ Keyed(R, d) /\ Pinned(d) /\ Placed(R, d, O) /\ Honoured(d) /\ d \in Desk
    BY DEF Good, Linked, Typed
  <1>2. Live(e) = Live(d)
    BY DEF Live, Still
  <1>3. Typed(e) /\ Housed(R, e) /\ Pinned(e)
    BY <1>1, <1>2 DEF Typed, Housed, Pinned, Still, SameOutputs
  <1>4. Owned(e, E)
    BY <1>1, <1>2, SameSpaces DEF Owned, Still
  <1>5. Pointed(e)
    BY <1>1, <1>2 DEF Pointed, Still
  <1>6. Blank(e) /\ Tabbed(e, {})
    BY <1>1, <1>2 DEF Blank, Tabbed, Still
  <1>7. Placed(R, e, O) /\ Honoured(e)
    BY <1>1, OutputsKeep
  <1> QED
    BY <1>3, <1>4, <1>5, <1>6, <1>7 DEF Good, Linked

LEMMA FocusOutputGood ==
  ASSUME NEW R, NEW d, NEW E, NEW O, Good(R, d, E, O), NEW o \in Outputs \cup {None}
  PROVE  /\ Good(R, [d EXCEPT !.fo = o], E, O)
         /\ SameOutputs(d, [d EXCEPT !.fo = o])
         /\ Still(d, [d EXCEPT !.fo = o])
         /\ [d EXCEPT !.fo = o].fo = o
         /\ [d EXCEPT !.fo = o].wact = d.wact
         /\ [d EXCEPT !.fo = o].gact = d.gact
         /\ [d EXCEPT !.fo = o].act = d.act
  <1> DEFINE e == [d EXCEPT !.fo = o]
  <1>1. d \in Desk /\ Keyed(R, d) /\ Pointed(d)
    BY DEF Good, Linked, Typed
  <1>2. /\ e \in Desk /\ SameOutputs(d, e) /\ Still(d, e) /\ e.fo = o
        /\ e.wact = d.wact /\ e.gact = d.gact /\ e.act = d.act /\ e.kbd = d.kbd
    BY <1>1 DEF Desk, SameOutputs, Still
  <1> HIDE DEF e
  <1>3. Keyed(R, e)
    BY <1>1, <1>2 DEF Keyed
  <1>4. Good(R, e, E, O)
    BY <1>1, <1>2, <1>3, ActKbdGood DEF Pointed
  <1> QED
    BY <1>2, <1>4 DEF e

\* The focus goes to what an output shows.
LEMMA FocusVisibleGood ==
  ASSUME NEW R, NEW d, NEW E, NEW O, Good(R, d, E, O), NEW o \in Outputs, o \in ToSet(d.outs)
  PROVE  /\ Good(R, FocusVisible(d, o), E, O)
         /\ Near(d, FocusVisible(d, o))
         /\ Still(d, FocusVisible(d, o))
         /\ d.vis[o] # NoWs => FocusVisible(d, o).fo \in ToSet(d.outs)
  <1> DEFINE ws == d.vis[o]
             g == d.wact[ws]
             e == [d EXCEPT !.fo = o]
             r == FocusVisible(d, o)
             Done == /\ Good(R, r, E, O) /\ Near(d, r) /\ Still(d, r)
                     /\ ws # NoWs => r.fo \in ToSet(d.outs)
  <1>1. /\ d \in Desk /\ Pointed(d) /\ Tabbed(d, {})
        /\ d.mapped \in SUBSET Windows /\ ws \in Workspaces \cup {NoWs}
    BY DeskFields DEF Good, Linked, Typed
  <1>2. /\ Good(R, e, E, O) /\ SameOutputs(d, e) /\ Still(d, e) /\ e.fo = o
        /\ e.wact = d.wact /\ e.gact = d.gact /\ e.act = d.act
    BY FocusOutputGood
  <1>3. ASSUME ws = NoWs PROVE Done
    <2>1. r = d
      BY <1>3 DEF FocusVisible
    <2> QED
      BY <1>3, <2>1 DEF Near, SameOutputs, Still
  <1>4. ASSUME ws # NoWs, g # None, d.gact[g] \in d.mapped PROVE Done
    <2>1. PICK w \in Windows : w = d.gact[g]
      BY <1>1, <1>4
    <2>2. r = FocusWindow(e, w)
      BY <1>4, <2>1 DEF FocusVisible
    <2> HIDE DEF e, r
    <2>3. Good(R, r, E, O) /\ Near(e, r) /\ Still(e, r)
      BY <1>2, <2>2, FocusWindowGood
    <2>4. r.fo \in ToSet(d.outs)
      BY <1>2, <2>3 DEF Near, SameOutputs
    <2> QED
      BY <1>2, <2>3, <2>4 DEF Near, SameOutputs, Still
  <1>5. ASSUME ws # NoWs, ~(g # None /\ d.gact[g] \in d.mapped) PROVE Done
    <2>1. r = [e EXCEPT !.act = g, !.kbd = None]
      BY <1>5 DEF FocusVisible
    <2>2. g \in Groups \cup {None} /\ (g # None => g \in Live(d))
      BY <1>1, <1>5, DeskFields DEF Pointed
    <2>3. e \in Desk
      BY <1>2 DEF Good, Linked, Typed
    <2> HIDE DEF e, r, g
    <2>4. /\ r \in Desk /\ SameOutputs(e, r) /\ Still(e, r) /\ r.fo = e.fo
          /\ r.wact = e.wact /\ r.gact = e.gact /\ r.act = g /\ r.kbd = None
      BY <2>1, <2>2, <2>3 DEF Desk, SameOutputs, Still
    <2>5. Keyed(R, r)
      <3>1. g # None => d.gact[g] = None
        BY <1>1, <1>5, <2>2 DEF Tabbed
      <3> QED
        BY <1>2, <2>4, <3>1 DEF Keyed
    <2>6. Live(e) = Live(d)
      BY <1>2 DEF Still, Live
    <2>7. Good(R, r, E, O)
      BY <1>2, <2>2, <2>4, <2>5, <2>6, ActKbdGood
    <2> QED
      BY <1>2, <2>4, <2>7 DEF Near, SameOutputs, Still
  <1> HIDE DEF Done
  <1>6. Done
    BY <1>3, <1>4, <1>5
  <1> QED
    BY <1>6 DEF Done

\* e is d with the workspace ws on the output o, where the groups of P follow.
Shown(d, o, ws, P, e) ==
  /\ e \in Desk
  /\ e.outs = d.outs /\ e.fo = d.fo /\ e.nws = d.nws /\ e.home = d.home /\ e.asg = d.asg
  /\ e.act = d.act /\ e.groups = d.groups /\ e.gwin = d.gwin /\ e.gact = d.gact
  /\ e.flt = d.flt /\ e.pin = d.pin /\ e.own = d.own /\ e.mapped = d.mapped /\ e.kbd = d.kbd
  /\ \A p \in Outputs : e.vis[p] = IF p = o THEN ws ELSE d.vis[p]
  /\ \A g \in Groups : e.gws[g] = IF g \in P THEN ws ELSE d.gws[g]
  /\ \A w \in Windows : e.wws[w] = IF d.own[w] \in P THEN ws ELSE d.wws[w]
  /\ \A x \in Workspaces :
       /\ x = ws /\ d.wact[x] = None /\ P # {} => e.wact[x] \in P
       /\ x = ws /\ (d.wact[x] # None \/ P = {}) => e.wact[x] = d.wact[x]
       /\ x # ws /\ d.wact[x] \notin P => e.wact[x] = d.wact[x]
       /\ x # ws /\ d.wact[x] \in P =>
            \/ e.wact[x] = None /\ \A g \in Live(d) : e.gws[g] # x
            \/ e.wact[x] \in Live(d) /\ e.gws[e.wact[x]] = x

LEMMA ShownIs ==
  ASSUME NEW d \in Desk, NEW o \in Outputs, NEW ws \in Workspaces
  PROVE  Shown(d, o, ws, Followers(d, o, ws), [FollowPinned(d, o, ws) EXCEPT !.vis[o] = ws])
  <1> DEFINE P == Followers(d, o, ws)
             I == {i \in 1..Len(d.groups) : d.groups[i] \in P}
             first == IF I # {} THEN Min(I) ELSE 0
             gws == [g \in Groups |-> IF g \in P THEN ws ELSE d.gws[g]]
             wws == [w \in Windows |-> IF d.own[w] \in P THEN ws ELSE d.wws[w]]
             e == [d EXCEPT !.gws = gws, !.wws = wws]
             wact == [x \in Workspaces |->
                        CASE x = ws /\ d.wact[x] = None /\ P # {} -> d.groups[first]
                          [] x # ws /\ d.wact[x] \in P -> LastGroupIn(e, x)
                          [] OTHER -> d.wact[x]]
             vis == [d.vis EXCEPT ![o] = ws]
             r == [FollowPinned(d, o, ws) EXCEPT !.vis[o] = ws]
  <1>1. P \in SUBSET Live(d) /\ Live(d) \in SUBSET Groups
    BY LiveGroups DEF Followers
  <1>2. /\ gws \in [Groups -> Workspaces \cup {NoWs}]
        /\ wws \in [Windows -> Workspaces \cup {NoWs}]
        /\ vis \in [Outputs -> Workspaces \cup {NoWs}]
    BY DeskFields
  <1>3. FollowPinned(d, o, ws) = [e EXCEPT !.wact = wact]
    <2>1. FollowPinned(d, o, ws) =
            [[d EXCEPT
                !.gws = [g \in Groups |-> IF g \in P THEN ws ELSE @[g]],
                !.wws = [w \in Windows |-> IF d.own[w] \in P THEN ws ELSE @[w]]]
             EXCEPT !.wact = [x \in Workspaces |->
                CASE x = ws /\ @[x] = None /\ P # {} -> d.groups[first]
                  [] x # ws /\ @[x] \in P ->
                       LastGroupIn([d EXCEPT
                         !.gws = [g \in Groups |-> IF g \in P THEN ws ELSE @[g]],
                         !.wws = [w \in Windows |-> IF d.own[w] \in P THEN ws ELSE @[w]]], x)
                  [] OTHER -> @[x]]]
      BY DEF FollowPinned, SelectInSeq
    <2> QED
      BY <2>1
  <1> HIDE DEF P
  <1>4. e \in Desk /\ e.groups = d.groups /\ e.gws = gws
    <2> HIDE DEF gws, wws
    <2> QED
      BY <1>2 DEF Desk
  <1> HIDE DEF e
  <1>5. Live(e) = Live(d)
    BY <1>4 DEF Live
  <1>6. P # {} => d.groups[first] \in P
    <2> SUFFICES ASSUME P # {} PROVE d.groups[first] \in P
      OBVIOUS
    <2>1. d.groups \in Seq(Groups) /\ Len(d.groups) \in Nat /\ DOMAIN d.groups = 1..Len(d.groups)
      BY DeskFields, LenProperties
    <2>2. I \in SUBSET Nat /\ I # {}
      BY <1>1, <2>1 DEF Live, ToSet
    <2>3. Min(I) \in I
      <3> HIDE DEF I
      <3> QED
        BY <2>2, MinOf
    <2>4. first = Min(I)
      <3> HIDE DEF I
      <3> QED
        BY <2>2
    <2>5. d.groups[Min(I)] \in P
      BY <2>3
    <2> QED
      BY <2>4, <2>5
  <1> HIDE DEF first
  <1>7. \A x \in Workspaces :
           \/ LastGroupIn(e, x) = None /\ \A g \in Live(d) : gws[g] # x
           \/ LastGroupIn(e, x) \in Live(d) /\ gws[LastGroupIn(e, x)] = x
    <2> TAKE x \in Workspaces
    <2>1. \/ LastGroupIn(e, x) = None /\ \A g \in Live(e) : e.gws[g] # x
          \/ LastGroupIn(e, x) \in Live(e) /\ e.gws[LastGroupIn(e, x)] = x
      BY <1>4, LastGroupInIs
    <2> HIDE DEF gws
    <2> QED
      BY <1>4, <1>5, <2>1
  <1>8. \A x \in Workspaces :
          /\ x = ws /\ d.wact[x] = None /\ P # {} => wact[x] = d.groups[first]
          /\ x # ws /\ d.wact[x] \in P => wact[x] = LastGroupIn(e, x)
          /\ x = ws /\ (d.wact[x] # None \/ P = {}) => wact[x] = d.wact[x]
          /\ x # ws /\ d.wact[x] \notin P => wact[x] = d.wact[x]
    <2> TAKE x \in Workspaces
    <2>1. wact[x] = CASE x = ws /\ d.wact[x] = None /\ P # {} -> d.groups[first]
                      [] x # ws /\ d.wact[x] \in P -> LastGroupIn(e, x)
                      [] OTHER -> d.wact[x]
      OBVIOUS
    <2> HIDE DEF wact
    <2> QED
      BY <2>1
  <1>9. wact \in [Workspaces -> Groups \cup {None}]
    <2>1. ASSUME NEW x \in Workspaces PROVE wact[x] \in Groups \cup {None}
      <3>1. d.wact[x] \in Groups \cup {None}
        BY DeskFields
      <3>2. LastGroupIn(e, x) \in Groups \cup {None}
        BY <1>1, <1>7
      <3> HIDE DEF wact
      <3> QED
        BY <1>1, <1>6, <1>8, <3>1, <3>2
    <2>2. wact = [x \in Workspaces |-> wact[x]]
      OBVIOUS
    <2> HIDE DEF wact
    <2> QED
      BY <2>1, <2>2
  <1>10. r = [d EXCEPT !.gws = gws, !.wws = wws, !.wact = wact, !.vis = vis]
    <2>1. r = [[e EXCEPT !.wact = wact] EXCEPT !.vis[o] = ws]
      BY <1>3
    <2>2. e = [d EXCEPT !.gws = gws, !.wws = wws]
      BY DEF e
    <2> HIDE DEF wact, gws, wws, r
    <2> QED
      BY <2>1, <2>2 DEF Desk
  <1>11. /\ \A p \in Outputs : vis[p] = IF p = o THEN ws ELSE d.vis[p]
         /\ \A g \in Groups : gws[g] = IF g \in P THEN ws ELSE d.gws[g]
         /\ \A w \in Windows : wws[w] = IF d.own[w] \in P THEN ws ELSE d.wws[w]
    BY DeskFields
  <1>12. \A x \in Workspaces :
           /\ x = ws /\ d.wact[x] = None /\ P # {} => wact[x] \in P
           /\ x = ws /\ (d.wact[x] # None \/ P = {}) => wact[x] = d.wact[x]
           /\ x # ws /\ d.wact[x] \notin P => wact[x] = d.wact[x]
           /\ x # ws /\ d.wact[x] \in P =>
                \/ wact[x] = None /\ \A g \in Live(d) : gws[g] # x
                \/ wact[x] \in Live(d) /\ gws[wact[x]] = x
    <2> HIDE DEF wact, gws
    <2> QED
      BY <1>6, <1>7, <1>8
  <1> HIDE DEF gws, wws, wact, vis, r
  <1>13. /\ r \in Desk
         /\ r.outs = d.outs /\ r.fo = d.fo /\ r.nws = d.nws /\ r.home = d.home /\ r.asg = d.asg
         /\ r.act = d.act /\ r.groups = d.groups /\ r.gwin = d.gwin /\ r.gact = d.gact
         /\ r.flt = d.flt /\ r.pin = d.pin /\ r.own = d.own /\ r.mapped = d.mapped
         /\ r.kbd = d.kbd
         /\ r.vis = vis /\ r.gws = gws /\ r.wws = wws /\ r.wact = wact
    BY <1>2, <1>9, <1>10 DEF Desk
  <1>14. Shown(d, o, ws, P, r)
    BY <1>11, <1>12, <1>13 DEF Shown
  <1> QED
    BY <1>14 DEF P, r

\* What a switch of the workspace of an output leaves alone.
Switched(d, o, ws, e) ==
  /\ e.outs = d.outs /\ e.nws = d.nws /\ e.home = d.home /\ e.asg = d.asg
  /\ \A p \in Outputs : e.vis[p] = IF p = o THEN ws ELSE d.vis[p]
  /\ e.groups = d.groups /\ e.gwin = d.gwin /\ e.own = d.own /\ e.mapped = d.mapped
  /\ \A g \in Groups \ d.flt : e.gws[g] = d.gws[g]

\* The pinned groups of an output follow the workspace that it shows.
LEMMA ShownGood ==
  ASSUME NEW R, NEW d, NEW O, Good(R, d, {}, O), NEW o \in Outputs, o \in ToSet(d.outs),
         NEW ws \in Workspaces, d.home[ws] = o,
         NEW e, Shown(d, o, ws, Followers(d, o, ws), e)
  PROVE  Good(R, e, {}, O \ {o}) /\ Switched(d, o, ws, e) /\ e.fo = d.fo
  <1> DEFINE P == Followers(d, o, ws)
  <1>1. /\ Typed(d) /\ Owned(d, {}) /\ Housed(R, d) /\ Pointed(d) /\ Blank(d) /\ Tabbed(d, {})
        /\ Keyed(R, d) /\ Pinned(d) /\ Placed(R, d, O) /\ Honoured(d) /\ d \in Desk
    BY DEF Good, Linked, Typed
  <1>2. Live(d) \in SUBSET Groups
    BY <1>1, LiveGroups
  <1>3. \A g \in Groups : g \in P <=> g \in Live(d) /\ g \in d.flt /\ d.pin[g] = o /\ d.gws[g] # ws
    BY DEF Followers
  <1>4. P \in SUBSET Live(d)
    BY DEF Followers
  <1> HIDE DEF P
  <1>5. /\ e \in Desk
        /\ e.outs = d.outs /\ e.fo = d.fo /\ e.nws = d.nws /\ e.home = d.home /\ e.asg = d.asg
        /\ e.act = d.act /\ e.groups = d.groups /\ e.gwin = d.gwin /\ e.gact = d.gact
        /\ e.flt = d.flt /\ e.pin = d.pin /\ e.own = d.own /\ e.mapped = d.mapped
        /\ e.kbd = d.kbd
        /\ \A p \in Outputs : e.vis[p] = IF p = o THEN ws ELSE d.vis[p]
        /\ \A g \in Groups : e.gws[g] = IF g \in P THEN ws ELSE d.gws[g]
        /\ \A w \in Windows : e.wws[w] = IF d.own[w] \in P THEN ws ELSE d.wws[w]
    BY DEF Shown, P
  <1>6. \A x \in Workspaces :
          /\ x = ws /\ d.wact[x] = None /\ P # {} => e.wact[x] \in P
          /\ x = ws /\ (d.wact[x] # None \/ P = {}) => e.wact[x] = d.wact[x]
          /\ x # ws /\ d.wact[x] \notin P => e.wact[x] = d.wact[x]
          /\ x # ws /\ d.wact[x] \in P =>
               \/ e.wact[x] = None /\ \A g \in Live(d) : e.gws[g] # x
               \/ e.wact[x] \in Live(d) /\ e.gws[e.wact[x]] = x
    BY DEF Shown, P
  <1>7. Live(e) = Live(d)
    BY <1>5 DEF Live
  <1>8. Typed(e)
    BY <1>1, <1>5 DEF Typed
  <1>9. Owned(e, {})
    <2>1. \A h \in Groups : /\ e.gwin[h] # << >> => h \in Live(e)
                            /\ h \in Live(e) => e.gwin[h] # << >>
                            /\ h \in Live(e) => e.gws[h] # NoWs /\ e.gws[h] \in Spaces(e)
      <3>1. Spaces(e) = Spaces(d) /\ ws \in Spaces(d)
        BY <1>1, <1>5, SpaceOnOutput, Names DEF Spaces
      <3> QED
        BY <1>1, <1>5, <1>7, <3>1, Names DEF Owned
    <2>2. \A w \in Windows, h \in Groups : w \in ToSet(e.gwin[h]) <=> e.own[w] = h
      BY <1>1, <1>5 DEF Owned
    <2>3. \A w \in Windows : e.own[w] # None => e.wws[w] = e.gws[e.own[w]]
      <3> SUFFICES ASSUME NEW w \in Windows, d.own[w] # None
                   PROVE  e.wws[w] = e.gws[d.own[w]]
        BY <1>5
      <3>1. d.own[w] \in Groups /\ d.wws[w] = d.gws[d.own[w]]
        BY <1>1, DeskFields DEF Owned
      <3> QED
        BY <1>5, <3>1
    <2> QED
      BY <2>1, <2>2, <2>3 DEF Owned
  <1>10. Housed(R, e) /\ Blank(e) /\ Tabbed(e, {}) /\ Keyed(R, e)
    BY <1>1, <1>5, <1>7 DEF Housed, Blank, Tabbed, Keyed
  <1>11. Pointed(e)
    <2>1. ASSUME NEW x \in Workspaces
          PROVE  /\ e.wact[x] = None <=> \A h \in Live(d) : e.gws[h] # x
                 /\ e.wact[x] # None => e.wact[x] \in Live(d) /\ e.gws[e.wact[x]] = x
      <3>0. /\ d.wact[x] = None <=> \A h \in Live(d) : d.gws[h] # x
            /\ d.wact[x] # None => d.wact[x] \in Live(d) /\ d.gws[d.wact[x]] = x
        BY <1>1 DEF Pointed
      <3>1. None \notin Live(d)
        BY <1>2, Names
      <3>2. CASE x = ws /\ d.wact[x] = None /\ P # {}
        <4>1. e.wact[x] \in P
          BY <1>6, <3>2
        <4> QED
          BY <1>2, <1>4, <1>5, <3>1, <3>2, <4>1
      <3>3. CASE x = ws /\ d.wact[x] # None
        <4>1. e.wact[x] = d.wact[x]
          BY <1>6, <3>3
        <4> QED
          BY <1>2, <1>5, <3>0, <3>1, <3>3, <4>1
      <3>4. CASE x = ws /\ d.wact[x] = None /\ P = {}
        <4>1. e.wact[x] = d.wact[x]
          BY <1>6, <3>4
        <4> QED
          BY <1>2, <1>5, <3>0, <3>4, <4>1
      <3>5. CASE x # ws /\ d.wact[x] \notin P
        <4>1. e.wact[x] = d.wact[x]
          BY <1>6, <3>5
        <4> QED
          BY <1>2, <1>5, <3>0, <3>5, <4>1
      <3>6. CASE x # ws /\ d.wact[x] \in P
        BY <1>6, <3>1, <3>6
      <3> QED
        BY <3>2, <3>3, <3>4, <3>5, <3>6
    <2>2. e.act # None => e.act \in Live(e)
      BY <1>1, <1>5, <1>7 DEF Pointed
    <2> QED
      BY <1>7, <2>1, <2>2 DEF Pointed
  <1>12. Pinned(e)
    <2> SUFFICES ASSUME NEW g \in Live(d), d.pin[g] # None
                 PROVE  g \in d.flt /\ e.gws[g] = e.vis[d.pin[g]]
      BY <1>5, <1>7 DEF Pinned
    <2>1. g \in d.flt /\ d.gws[g] = d.vis[d.pin[g]] /\ g \in Groups /\ d.pin[g] \in Outputs
      BY <1>1, <1>2, DeskFields DEF Pinned
    <2> QED
      BY <1>3, <1>5, <2>1
  <1>13. Placed(R, e, O \ {o})
    <2>1. ws \in ToSet(d.asg[o])
      BY <1>1 DEF Placed
    <2>2. ToSet(d.outs) \in SUBSET Outputs
      BY <1>1, DeskFields, MembersOf
    <2>3. \A p \in ToSet(e.outs) \ (O \ {o}) : e.vis[p] \in ToSet(e.asg[p])
      BY <1>1, <1>5, <2>1, <2>2 DEF Placed
    <2>4. \A p \in Outputs \ ToSet(e.outs) : e.vis[p] = NoWs
      BY <1>1, <1>5 DEF Placed
    <2> QED
      BY <1>1, <1>5, <2>3, <2>4 DEF Placed
  <1>14. Honoured(e)
    BY <1>1, <1>5 DEF Honoured
  <1>15. Switched(d, o, ws, e)
    BY <1>3, <1>5 DEF Switched
  <1> QED
    BY <1>5, <1>8, <1>9, <1>10, <1>11, <1>12, <1>13, <1>14, <1>15 DEF Good, Linked

\* An output shows one of its workspaces.
LEMMA SwitchGood ==
  ASSUME NEW R, NEW d, NEW O, Good(R, d, {}, O), NEW o \in Outputs, o \in ToSet(d.outs),
         NEW ws \in Workspaces, d.home[ws] = o, NEW focus \in BOOLEAN
  PROVE  /\ Good(R, SwitchWorkspace(d, o, ws, focus), {}, O \ {o})
         /\ Switched(d, o, ws, SwitchWorkspace(d, o, ws, focus))
         /\ IF focus THEN SwitchWorkspace(d, o, ws, focus).fo \in ToSet(d.outs)
            ELSE SwitchWorkspace(d, o, ws, focus).fo = d.fo
  <1> DEFINE e == IF d.vis[o] = ws THEN d ELSE [FollowPinned(d, o, ws) EXCEPT !.vis[o] = ws]
             r == SwitchWorkspace(d, o, ws, focus)
  <1>1. d \in Desk /\ Placed(R, d, O)
    BY DEF Good, Linked, Typed
  <1>2. r = IF focus THEN FocusVisible(e, o) ELSE e
    BY DEF SwitchWorkspace
  <1>3. Good(R, e, {}, O \ {o}) /\ Switched(d, o, ws, e) /\ e.fo = d.fo
    <2>1. CASE d.vis[o] = ws
      <3>1. e = d
        BY <2>1
      <3>2. Placed(R, d, O \ {o})
        BY <1>1, <2>1 DEF Placed
      <3>3. Good(R, d, {}, O \ {o})
        BY <3>2 DEF Good
      <3> QED
        BY <2>1, <3>1, <3>3 DEF Switched
    <2>2. CASE d.vis[o] # ws
      <3>1. Shown(d, o, ws, Followers(d, o, ws), [FollowPinned(d, o, ws) EXCEPT !.vis[o] = ws])
        BY <1>1, ShownIs
      <3>2. e = [FollowPinned(d, o, ws) EXCEPT !.vis[o] = ws]
        BY <2>2
      <3>3. Shown(d, o, ws, Followers(d, o, ws), e)
        BY <3>1, <3>2
      <3> HIDE DEF e
      <3> QED
        BY <3>3, ShownGood
    <2> QED
      BY <2>1, <2>2
  <1> HIDE DEF e, r
  <1>4. CASE ~focus
    BY <1>2, <1>3, <1>4 DEF r
  <1>5. CASE focus
    <2>1. o \in ToSet(e.outs) /\ e.vis[o] # NoWs
      BY <1>3, Names DEF Switched
    <2>2. r = FocusVisible(e, o)
      BY <1>2, <1>5
    <2>3. Good(R, r, {}, O \ {o}) /\ Near(e, r) /\ Still(e, r) /\ r.fo \in ToSet(e.outs)
      BY <1>3, <2>1, <2>2, FocusVisibleGood
    <2>4. Switched(d, o, ws, r) /\ r.fo \in ToSet(d.outs)
      BY <1>3, <2>3 DEF Switched, Near, SameOutputs, Still
    <2> QED
      BY <1>5, <2>3, <2>4 DEF r
  <1> QED
    BY <1>4, <1>5

-----------------------------------------------------------------------------
(* The lists of windows: what leaves them alone.                           *)

\* e is a desktop with the lists of d.
SameLists(d, e) == DOMAIN e = DOMAIN d /\ e.gwin = d.gwin

HasLists(d) == "gwin" \in DOMAIN d

LEMMA SameListsTransitive ==
  ASSUME NEW d, NEW e, NEW f, SameLists(d, e), SameLists(e, f)
  PROVE  SameLists(d, f)
  BY DEF SameLists

LEMMA ListsFocus ==
  ASSUME NEW d, HasLists(d)
  PROVE  /\ \A g, w : SameLists(d, SetActiveWindow(d, g, w))
         /\ \A w : SameLists(d, FocusWindow(d, w))
  <1>1. ASSUME NEW e, HasLists(e), NEW g, NEW w PROVE SameLists(e, SetActiveWindow(e, g, w))
    BY <1>1 DEF HasLists, SameLists, SetActiveWindow, InputFocusWindow
  <1>2. ASSUME NEW w PROVE SameLists(d, FocusWindow(d, w))
    <2> DEFINE g == d.own[w]
               ws == d.gws[g]
               prev == IF d.act = None THEN None ELSE d.gact[d.act]
               leaves == /\ prev \in d.full \ {w}
                         /\ d.own[prev] # None
                         /\ d.gws[d.own[prev]] = ws
               full == IF leaves THEN d.full \ {prev} ELSE d.full
               e == [d EXCEPT !.fo = d.home[ws], !.wact[ws] = g, !.act = g,
                              !.full = IF leaves THEN @ \ {prev} ELSE @]
    <2>1. SameLists(d, e)
      <3> HIDE DEF leaves
      <3> QED
        BY DEF HasLists, SameLists
    <2>2. FocusWindow(d, w) = d \/ FocusWindow(d, w) = SetActiveWindow(e, g, w)
      BY DEF FocusWindow
    <2> HIDE DEF e
    <2>3. SameLists(e, SetActiveWindow(e, g, w))
      BY <1>1, <2>1 DEF HasLists, SameLists
    <2> QED
      BY <2>1, <2>2, <2>3, SameListsTransitive DEF SameLists
  <1> QED
    BY <1>1, <1>2

LEMMA ListsSwitch ==
  ASSUME NEW d, HasLists(d)
  PROVE  /\ \A o : SameLists(d, FocusVisible(d, o))
         /\ \A o, ws, focus : SameLists(d, SwitchWorkspace(d, o, ws, focus))
         /\ \A ws : SameLists(d, ActivateWorkspace(d, ws))
         /\ \A w : SameLists(d, FocusWindowId(d, w))
  <1>1. ASSUME NEW e, HasLists(e), NEW o PROVE SameLists(e, FocusVisible(e, o))
    <2> DEFINE g == e.wact[e.vis[o]]
               f == [e EXCEPT !.fo = o]
    <2>1. /\ SameLists(e, f) /\ SameLists(e, e)
          /\ SameLists(e, [f EXCEPT !.act = g, !.kbd = None])
      BY <1>1 DEF HasLists, SameLists
    <2>2. \/ FocusVisible(e, o) = e
          \/ FocusVisible(e, o) = FocusWindow(f, e.gact[g])
          \/ FocusVisible(e, o) = [f EXCEPT !.act = g, !.kbd = None]
      BY DEF FocusVisible
    <2> HIDE DEF f, g
    <2>3. SameLists(f, FocusWindow(f, e.gact[g]))
      BY <1>1, <2>1, ListsFocus DEF HasLists, SameLists
    <2> QED
      BY <2>1, <2>2, <2>3, SameListsTransitive
  <1>2. ASSUME NEW o, NEW ws, NEW focus PROVE SameLists(d, SwitchWorkspace(d, o, ws, focus))
    <2> DEFINE e == IF d.vis[o] = ws THEN d ELSE [FollowPinned(d, o, ws) EXCEPT !.vis[o] = ws]
    <2>1. SameLists(d, e)
      <3>1. SameLists(d, FollowPinned(d, o, ws))
        BY DEF FollowPinned, HasLists, SameLists
      <3> HIDE DEF FollowPinned
      <3>2. SameLists(d, [FollowPinned(d, o, ws) EXCEPT !.vis[o] = ws])
        BY <3>1 DEF HasLists, SameLists
      <3> QED
        BY <3>2 DEF SameLists
    <2>2. SwitchWorkspace(d, o, ws, focus) = e \/ SwitchWorkspace(d, o, ws, focus) = FocusVisible(e, o)
      BY DEF SwitchWorkspace
    <2> HIDE DEF e
    <2>3. SameLists(e, FocusVisible(e, o))
      BY <1>1, <2>1 DEF HasLists, SameLists
    <2> QED
      BY <2>1, <2>2, <2>3, SameListsTransitive
  <1>3. ASSUME NEW ws PROVE SameLists(d, ActivateWorkspace(d, ws))
    BY <1>2 DEF ActivateWorkspace, SameLists
  <1>4. ASSUME NEW w PROVE SameLists(d, FocusWindowId(d, w))
    <2> DEFINE e == ActivateWorkspace(d, d.gws[d.own[w]])
    <2>1. SameLists(d, e)
      BY <1>3
    <2>2. FocusWindowId(d, w) = d \/ FocusWindowId(d, w) = FocusWindow(e, w)
      BY DEF FocusWindowId
    <2> HIDE DEF e
    <2>3. SameLists(e, FocusWindow(e, w)) /\ SameLists(d, d)
      BY <2>1, ListsFocus DEF HasLists, SameLists
    <2> QED
      BY <2>1, <2>2, <2>3, SameListsTransitive
  <1> QED
    BY <1>1, <1>2, <1>3, <1>4

LEMMA ListsOutput ==
  ASSUME NEW d, HasLists(d)
  PROVE  /\ \A o : SameLists(d, OutputAdded(d, o))
         /\ \A o : SameLists(d, OutputRemoved(d, o))
         /\ SameLists(d, NextWorkspace(d))
         /\ SameLists(d, PreviousWorkspace(d))
  <1>0. /\ \A e, o, list : SameLists(d, e) => SameLists(d, Assign(e, o, list))
        /\ \A e : SameLists(d, e) => SameLists(d, CreateWorkspace(e))
    BY DEF HasLists, SameLists, Assign, CreateWorkspace
  <1>s. \A e, o, ws, focus : SameLists(d, e) => SameLists(d, SwitchWorkspace(e, o, ws, focus))
    BY ListsSwitch, SameListsTransitive DEF HasLists, SameLists
  <1>1. ASSUME NEW o PROVE SameLists(d, OutputAdded(d, o))
    <2>1. SameLists(d, [d EXCEPT !.outs = Append(@, o)])
      BY DEF HasLists, SameLists
    <2>2. \E e, list, ws, first :
            /\ \/ e = [d EXCEPT !.outs = Append(@, o)]
               \/ e = CreateWorkspace([d EXCEPT !.outs = Append(@, o)])
            /\ OutputAdded(d, o) = SwitchWorkspace(Assign(e, o, list), o, ws, first)
      BY Zenon DEF OutputAdded
    <2> QED
      BY <2>1, <2>2, <1>0, <1>s
  <1>2. ASSUME NEW o PROVE SameLists(d, OutputRemoved(d, o))
    <2> DEFINE e == [d EXCEPT
                !.outs = RemoveFirst(@, o), !.asg[o] = <<>>, !.vis[o] = NoWs,
                !.pin = [g \in Groups |-> IF @[g] = o THEN None ELSE @[g]],
                !.home = [ws \in Workspaces |->
                            IF ws \in ToSet(d.asg[o]) THEN None ELSE @[ws]]]
               f == [e EXCEPT !.fo = None]
               k == [f EXCEPT !.act = None, !.kbd = None]
    <2>1. SameLists(d, e)
      BY DEF HasLists, SameLists
    <2>2. \/ OutputRemoved(d, o) = e
          \/ OutputRemoved(d, o) = FocusVisible(f, Head(e.outs))
          \/ OutputRemoved(d, o) = k
      BY DEF OutputRemoved
    <2> HIDE DEF e
    <2>3. SameLists(d, f) /\ SameLists(d, k)
      BY <2>1 DEF HasLists, SameLists
    <2> HIDE DEF f, k
    <2>4. SameLists(d, FocusVisible(f, Head(e.outs)))
      BY <2>3, ListsSwitch, SameListsTransitive DEF HasLists, SameLists
    <2> QED
      BY <2>1, <2>2, <2>3, <2>4
  <1>3. SameLists(d, NextWorkspace(d)) /\ SameLists(d, PreviousWorkspace(d))
    <2>1. SameLists(d, d)
      BY DEF SameLists
    <2> QED
      BY <2>1, <1>0, <1>s DEF NextWorkspace, PreviousWorkspace
  <1> QED
    BY <1>1, <1>2, <1>3

LEMMA ListsPlace ==
  ASSUME NEW d, HasLists(d)
  PROVE  /\ \A g : SameLists(d, FloatGroup(d, g))
         /\ \A g : SameLists(d, TileGroup(d, g))
         /\ \A g, pinned : SameLists(d, SetPinned(d, g, pinned))
         /\ \A g, ws : SameLists(d, MoveGroupTo(d, g, ws))
         /\ \A ws : SameLists(d, CreateGroup(d, ws))
  <1>0. SameLists(d, d)
    BY DEF SameLists
  <1>f. \A e, g : SameLists(d, e) => SameLists(d, Refocus(e, g))
    BY ListsFocus, SameListsTransitive DEF HasLists, SameLists, Refocus
  <1>1. ASSUME NEW g PROVE SameLists(d, FloatGroup(d, g))
    <2>1. SameLists(d, [d EXCEPT !.flt = @ \cup {g}, !.pin[g] = None])
      BY DEF HasLists, SameLists
    <2> QED
      BY <1>0, <1>f, <2>1 DEF FloatGroup
  <1>2. ASSUME NEW g PROVE SameLists(d, TileGroup(d, g))
    <2>1. SameLists(d, [d EXCEPT !.flt = @ \ {g}, !.pin[g] = None])
      BY DEF HasLists, SameLists
    <2> QED
      BY <1>0, <1>f, <2>1 DEF TileGroup
  <1>r. ASSUME NEW e, SameLists(d, e), NEW g, NEW ws PROVE SameLists(d, Rehome(e, g, ws))
    BY <1>r DEF HasLists, SameLists, Rehome
  <1>s. ASSUME NEW e, SameLists(d, e), NEW g PROVE SameLists(d, StayOn(e, g))
    <2> DEFINE f == [e EXCEPT !.act = g]
               k == [f EXCEPT !.kbd = None]
    <2>1. SameLists(d, f) /\ SameLists(d, k)
      BY <1>s DEF HasLists, SameLists
    <2>2. StayOn(e, g) = k \/ StayOn(e, g) = SetActiveWindow(f, g, e.gact[g])
      BY DEF StayOn
    <2> HIDE DEF f, k
    <2> QED
      BY <2>1, <2>2, ListsFocus, SameListsTransitive DEF HasLists, SameLists
  <1>m. ASSUME NEW e, SameLists(d, e), NEW g, NEW ws, NEW follow
        PROVE  SameLists(d, MoveFloating(e, g, ws, follow))
    <2> DEFINE r == Rehome(e, g, ws)
               p == IF e.home[e.gws[g]] # e.home[ws] /\ r.pin[g] # e.home[ws] THEN None ELSE r.pin[g]
               f == [r EXCEPT !.pin[g] = p]
    <2>1. SameLists(d, r)
      BY <1>m, <1>r
    <2>2. /\ MoveFloating(e, g, ws, follow) = f
             \/ MoveFloating(e, g, ws, follow) = StayOn(f, f.wact[e.gws[g]])
      BY DEF MoveFloating
    <2> HIDE DEF r, p
    <2>3. SameLists(d, f)
      BY <2>1 DEF HasLists, SameLists
    <2> HIDE DEF f
    <2> QED
      BY <2>2, <2>3, <1>s
  <1>3. ASSUME NEW g, NEW pinned PROVE SameLists(d, SetPinned(d, g, pinned))
    <2> DEFINE o == d.home[d.gws[g]]
               e == [d EXCEPT !.pin[g] = IF pinned THEN o ELSE None]
    <2>1. SameLists(d, e)
      BY DEF HasLists, SameLists
    <2>2. SetPinned(d, g, pinned) = e \/ SetPinned(d, g, pinned) = MoveFloating(e, g, d.vis[o], TRUE)
      BY DEF SetPinned
    <2> HIDE DEF e
    <2> QED
      BY <2>1, <2>2, <1>m
  <1>4. ASSUME NEW g, NEW ws PROVE SameLists(d, MoveGroupTo(d, g, ws))
    <2>1. SameLists(d, MoveTiled(d, g, ws))
      <3> DEFINE e == Rehome(d, g, ws)
                 f == IF d.act = g THEN StayOn(e, LastGroupIn(e, d.gws[g])) ELSE e
      <3>1. SameLists(d, e)
        BY <1>0, <1>r
      <3> HIDE DEF e
      <3>2. SameLists(d, f)
        BY <3>1, <1>s
      <3>3. MoveTiled(d, g, ws) = SetActiveWindow(f, g, f.gact[g])
        BY DEF MoveTiled, e
      <3> HIDE DEF f
      <3> QED
        BY <3>2, <3>3, ListsFocus, SameListsTransitive DEF HasLists, SameLists
    <2> QED
      BY <2>1, <1>0, <1>m DEF MoveGroupTo
  <1>5. ASSUME NEW ws PROVE SameLists(d, CreateGroup(d, ws))
    BY DEF HasLists, SameLists, CreateGroup
  <1> QED
    BY <1>1, <1>2, <1>3, <1>4, <1>5

-----------------------------------------------------------------------------
(* The workspaces of windows: what leaves them alone.                      *)

\* But for the windows W, the windows of e are on the workspaces of d.
Settled(d, e, W) ==
  /\ DOMAIN e = DOMAIN d /\ DOMAIN e.wws = DOMAIN d.wws
  /\ \A v \in DOMAIN d.wws \ W : e.wws[v] = d.wws[v]

HasPlaces(d) == "wws" \in DOMAIN d

LEMMA SettledTransitive ==
  ASSUME NEW d, NEW e, NEW f, NEW W, Settled(d, e, W), Settled(e, f, W)
  PROVE  Settled(d, f, W)
  BY DEF Settled

LEMMA PlacesFocus ==
  ASSUME NEW d, HasPlaces(d), NEW W
  PROVE  /\ \A g, w : Settled(d, SetActiveWindow(d, g, w), W)
         /\ \A w : Settled(d, FocusWindow(d, w), W)
  <1>1. ASSUME NEW e, HasPlaces(e), NEW g, NEW w PROVE Settled(e, SetActiveWindow(e, g, w), W)
    BY <1>1 DEF HasPlaces, Settled, SetActiveWindow, InputFocusWindow
  <1>2. ASSUME NEW w PROVE Settled(d, FocusWindow(d, w), W)
    <2> DEFINE g == d.own[w]
               ws == d.gws[g]
               prev == IF d.act = None THEN None ELSE d.gact[d.act]
               leaves == /\ prev \in d.full \ {w}
                         /\ d.own[prev] # None
                         /\ d.gws[d.own[prev]] = ws
               e == [d EXCEPT !.fo = d.home[ws], !.wact[ws] = g, !.act = g,
                              !.full = IF leaves THEN @ \ {prev} ELSE @]
    <2>1. Settled(d, e, W) /\ Settled(d, d, W)
      <3> HIDE DEF leaves
      <3> QED
        BY DEF HasPlaces, Settled
    <2>2. FocusWindow(d, w) = d \/ FocusWindow(d, w) = SetActiveWindow(e, g, w)
      BY DEF FocusWindow
    <2> HIDE DEF e
    <2>3. Settled(e, SetActiveWindow(e, g, w), W)
      BY <1>1, <2>1 DEF HasPlaces, Settled
    <2> QED
      BY <2>1, <2>2, <2>3, SettledTransitive
  <1> QED
    BY <1>1, <1>2

LEMMA PlacesGroup ==
  ASSUME NEW d, HasPlaces(d), NEW W
  PROVE  /\ \A g : Settled(d, FloatGroup(d, g), W)
         /\ \A g : Settled(d, TileGroup(d, g), W)
         /\ \A ws : Settled(d, CreateGroup(d, ws), W)
         /\ \A g, lost : Settled(d, AfterLoss(d, g, lost), W)
  <1>0. Settled(d, d, W)
    BY DEF Settled
  <1>f. \A e, g : Settled(d, e, W) => Settled(d, Refocus(e, g), W)
    BY PlacesFocus, SettledTransitive DEF HasPlaces, Settled, Refocus
  <1>1. ASSUME NEW g PROVE Settled(d, FloatGroup(d, g), W)
    <2>1. Settled(d, [d EXCEPT !.flt = @ \cup {g}, !.pin[g] = None], W)
      BY DEF HasPlaces, Settled
    <2> QED
      BY <1>0, <1>f, <2>1 DEF FloatGroup
  <1>2. ASSUME NEW g PROVE Settled(d, TileGroup(d, g), W)
    <2>1. Settled(d, [d EXCEPT !.flt = @ \ {g}, !.pin[g] = None], W)
      BY DEF HasPlaces, Settled
    <2> QED
      BY <1>0, <1>f, <2>1 DEF TileGroup
  <1>3. ASSUME NEW ws PROVE Settled(d, CreateGroup(d, ws), W)
    BY DEF HasPlaces, Settled, CreateGroup
  <1>4. ASSUME NEW g PROVE Settled(d, DestroyGroup(d, g), W)
    <2> DEFINE ws == d.gws[g]
               x == [d EXCEPT !.groups = RemoveFirst(@, g), !.gws[g] = NoWs,
                              !.gwin[g] = <<>>, !.gact[g] = None,
                              !.flt = @ \ {g}, !.pin[g] = None]
               fallback == IF d.wact[ws] = g THEN LastGroupIn(x, ws) ELSE None
               y == IF d.wact[ws] = g THEN [x EXCEPT !.wact[ws] = fallback] ELSE x
               z == [y EXCEPT !.act = None, !.kbd = None]
               k == [y EXCEPT !.act = fallback]
               f == DestroyGroup(d, g)
    <2>1. \/ f = y
          \/ f = z
          \/ f = SetActiveWindow(k, fallback, y.gact[fallback])
      <3>1. f = CASE d.act # g -> y
                  [] d.act = g /\ fallback = None -> z
                  [] OTHER -> SetActiveWindow(k, fallback, y.gact[fallback])
        BY Zenon DEF DestroyGroup
      <3> HIDE DEF f, x, y, z, k, fallback
      <3> QED
        BY <3>1
    <2> HIDE DEF f
    <2>2. Settled(d, x, W)
      BY DEF HasPlaces, Settled
    <2> HIDE DEF x, fallback
    <2>3. Settled(d, y, W)
      BY <2>2 DEF HasPlaces, Settled
    <2> HIDE DEF y
    <2>4. Settled(d, z, W) /\ Settled(d, k, W)
      BY <2>3 DEF HasPlaces, Settled
    <2> HIDE DEF z, k
    <2>5. Settled(d, SetActiveWindow(k, fallback, y.gact[fallback]), W)
      BY <2>4, PlacesFocus, SettledTransitive DEF HasPlaces, Settled
    <2> QED
      BY <2>1, <2>3, <2>4, <2>5 DEF f
  <1>5. ASSUME NEW g, NEW lost PROVE Settled(d, AfterLoss(d, g, lost), W)
    BY <1>0, <1>4, PlacesFocus DEF AfterLoss
  <1> QED
    BY <1>1, <1>2, <1>3, <1>5

\* Only a window that moves is put on a workspace.
LEMMA PlacesMove ==
  ASSUME NEW d, HasPlaces(d), NEW w
  PROVE  /\ \A g : Settled(d, AddWindow(d, g, w), {w})
         /\ \A ws, g : Settled(d, AddWindow(CreateGroup(d, ws), g, w), {w})
         /\ Settled(d, RemoveWindow(d, w), {w})
         /\ Settled(d, MakeFloating(d, w), {w})
         /\ Settled(d, MakeTiled(d, w), {w})
  <1> DEFINE W == {w}
  <1>1. ASSUME NEW e, Settled(d, e, W), NEW g PROVE Settled(d, AddWindow(e, g, w), W)
    BY <1>1 DEF HasPlaces, Settled, AddWindow
  <1>2. ASSUME NEW e, Settled(d, e, W) PROVE Settled(d, Unlink(e, w), W)
    BY <1>2 DEF HasPlaces, Settled, Unlink
  <1>u. \A e : Settled(d, e, W) => HasPlaces(e)
    BY DEF HasPlaces, Settled
  <1>0. Settled(d, d, W)
    BY DEF Settled
  <1> HIDE DEF W
  <1>3. ASSUME NEW e, Settled(d, e, W)
        PROVE  /\ \A g, lost : Settled(d, AfterLoss(e, g, lost), W)
               /\ \A ws : Settled(d, CreateGroup(e, ws), W)
               /\ \A g : Settled(d, FloatGroup(e, g), W)
               /\ \A g : Settled(d, TileGroup(e, g), W)
               /\ \A v : Settled(d, FocusWindow(e, v), W)
    BY <1>3, <1>u, PlacesGroup, PlacesFocus, SettledTransitive
  <1>4. ASSUME NEW e, Settled(d, e, W), NEW g PROVE Settled(d, MoveWindow(e, w, g), W)
    BY <1>1, <1>2, <1>3, <1>4 DEF MoveWindow
  <1>5. ASSUME NEW ws PROVE Settled(d, Detach(d, w, ws), W)
    BY <1>0, <1>3, <1>4 DEF Detach
  <1>6. Settled(d, RemoveWindow(d, w), W)
    BY <1>0, <1>2, <1>3 DEF RemoveWindow
  <1>7. Settled(d, MakeFloating(d, w), W)
    BY <1>0, <1>3, <1>5 DEF MakeFloating
  <1>8. Settled(d, MakeTiled(d, w), W)
    BY <1>0, <1>3, <1>5 DEF MakeTiled
  <1> QED
    BY <1>0, <1>1, <1>3, <1>6, <1>7, <1>8 DEF W

-----------------------------------------------------------------------------
(* The order of the tabs.                                                  *)

\* What the lists of a desktop are, and that no two windows stand in both orders.
LEMMA ListsAre ==
  ASSUME NEW d, NEW E, Typed(d), Owned(d, E)
  PROVE  /\ \A g \in Groups : d.gwin[g] \in Seq(Windows) /\ IsInjective(d.gwin[g])
         /\ \A g \in Groups : \A v, w : Before(d.gwin[g], v, w) =>
               /\ v \in Windows /\ w \in Windows
               /\ d.own[v] = g /\ d.own[w] = g
         /\ \A v, w : ~(Precedes(d, v, w) /\ Precedes(d, w, v))
  <1>1. \A g \in Groups : d.gwin[g] \in Seq(Windows) /\ IsInjective(d.gwin[g])
    BY DeskFields DEF Typed
  <1>2. ASSUME NEW g \in Groups, NEW v, NEW w, Before(d.gwin[g], v, w)
        PROVE  v \in Windows /\ w \in Windows /\ d.own[v] = g /\ d.own[w] = g
    <2>1. v \in ToSet(d.gwin[g]) /\ w \in ToSet(d.gwin[g])
      BY <1>1, <1>2, BeforeOnce
    <2>2. v \in Windows /\ w \in Windows
      BY <1>1, <2>1, MembersOf
    <2> QED
      BY <2>1, <2>2 DEF Owned
  <1>3. ASSUME NEW v, NEW w, Precedes(d, v, w), Precedes(d, w, v) PROVE FALSE
    <2>1. PICK g \in Groups : Before(d.gwin[g], v, w)
      BY <1>3, PrecedesIs
    <2>2. PICK h \in Groups : Before(d.gwin[h], w, v)
      BY <1>3, PrecedesIs
    <2>3. h = g
      BY <1>2, <2>1, <2>2
    <2> QED
      BY <1>1, <2>1, <2>2, <2>3, BeforeOnce
  <1> QED
    BY <1>1, <1>2, <1>3

\* The window w leaves the list of its group for the end of that of t.
Shifted(d, e, w, t) ==
  \A g \in Groups :
     e.gwin[g] = CASE g = t -> Append(d.gwin[g], w)
                   [] g # t /\ g = d.own[w] -> RemoveFirst(d.gwin[g], w)
                   [] OTHER -> d.gwin[g]

LEMMA ShiftedPrecedes ==
  ASSUME NEW d, NEW E, Typed(d), Owned(d, E), NEW e, NEW w \in Windows, NEW t \in Groups,
         d.own[w] # t, Shifted(d, e, w, t), NEW v, NEW x, Precedes(e, v, x)
  PROVE  Precedes(d, v, x) \/ (x = w /\ v \in Windows /\ d.own[v] = t)
  <1>1. PICK g \in Groups : Before(e.gwin[g], v, x)
    BY PrecedesIs
  <1>2. d.gwin[g] \in Seq(Windows) /\ IsInjective(d.gwin[g])
    BY ListsAre
  <1>3. CASE g = t
    <2>1. Before(d.gwin[g], v, x) \/ (x = w /\ v \in ToSet(d.gwin[g]))
      BY <1>1, <1>2, <1>3, BeforeAppended DEF Shifted
    <2>2. v \in ToSet(d.gwin[g]) => v \in Windows /\ d.own[v] = t
      BY <1>2, <1>3, MembersOf DEF Owned
    <2> QED
      BY <2>1, <2>2, PrecedesIs
  <1>4. CASE g # t
    <2>1. Before(d.gwin[g], v, x)
      BY <1>1, <1>2, <1>4, BeforeRemoved DEF Shifted
    <2> QED
      BY <2>1, PrecedesIs
  <1> QED
    BY <1>3, <1>4

\* No two windows that share a group before and after turn round.
Straight(d, e) == \A v, w \in Windows : ~(Precedes(d, v, w) /\ Precedes(e, w, v))

LEMMA SameStraight ==
  ASSUME NEW d, NEW E, Typed(d), Owned(d, E), NEW e, SameLists(d, e)
  PROVE  Straight(d, e)
  <1>1. \A v, w : Precedes(e, v, w) => Precedes(d, v, w)
    BY PrecedesIs DEF SameLists
  <1> QED
    BY <1>1, ListsAre DEF Straight

\* Lists that are left alone before or after do not matter.
LEMMA SameThenStraight ==
  ASSUME NEW d, NEW c, NEW e, SameLists(d, c), Straight(c, e)
  PROVE  Straight(d, e)
  <1>1. \A v, w : Precedes(d, v, w) => Precedes(c, v, w)
    BY PrecedesIs DEF SameLists
  <1> QED
    BY <1>1 DEF Straight

LEMMA StraightThenSame ==
  ASSUME NEW d, NEW e, NEW f, Straight(d, e), SameLists(e, f)
  PROVE  Straight(d, f)
  <1>1. \A v, w : Precedes(f, v, w) => Precedes(e, v, w)
    BY PrecedesIs DEF SameLists
  <1> QED
    BY <1>1 DEF Straight

LEMMA ShiftedStraight ==
  ASSUME NEW d, NEW E, Typed(d), Owned(d, E), NEW e, NEW w \in Windows, NEW t \in Groups,
         d.own[w] # t, Shifted(d, e, w, t)
  PROVE  Straight(d, e)
  <1> SUFFICES ASSUME NEW v \in Windows, NEW x \in Windows, Precedes(d, v, x), Precedes(e, x, v)
               PROVE  FALSE
    BY DEF Straight
  <1>1. v = w /\ d.own[x] = t
    BY ShiftedPrecedes, ListsAre
  <1>2. d.own[v] = d.own[x]
    BY ListsAre, PrecedesIs
  <1> QED
    BY <1>1, <1>2

\* A group that has lost its last window has no list to lose.
LEMMA AfterLossLists ==
  ASSUME NEW e, HasLists(e), DOMAIN e.gwin = Groups, NEW s \in Groups, NEW lost \in BOOLEAN
  PROVE  /\ HasLists(AfterLoss(e, s, lost))
         /\ \A g \in Groups : AfterLoss(e, s, lost).gwin[g] = e.gwin[g]
  <1> DEFINE f == AfterLoss(e, s, lost)
  <1>1. ASSUME e.gwin[s] = << >> PROVE HasLists(f) /\ \A g \in Groups : f.gwin[g] = e.gwin[g]
    <2>1. f = DestroyGroup(e, s)
      BY <1>1 DEF AfterLoss
    <2> DEFINE ws == e.gws[s]
               x == [e EXCEPT !.groups = RemoveFirst(@, s), !.gws[s] = NoWs,
                              !.gwin[s] = <<>>, !.gact[s] = None,
                              !.flt = @ \ {s}, !.pin[s] = None]
               fallback == IF e.wact[ws] = s THEN LastGroupIn(x, ws) ELSE None
               y == IF e.wact[ws] = s THEN [x EXCEPT !.wact[ws] = fallback] ELSE x
               z == [y EXCEPT !.act = None, !.kbd = None]
               k == [y EXCEPT !.act = fallback]
    <2>2. \/ f = y
          \/ f = z
          \/ f = SetActiveWindow(k, fallback, y.gact[fallback])
      <3>1. f = CASE e.act # s -> y
                  [] e.act = s /\ fallback = None -> z
                  [] OTHER -> SetActiveWindow(k, fallback, y.gact[fallback])
        BY <2>1, Zenon DEF DestroyGroup
      <3> HIDE DEF f, x, y, z, k, fallback
      <3> QED
        BY <3>1
    <2> HIDE DEF f
    <2>3. HasLists(x) /\ x.gwin = [e.gwin EXCEPT ![s] = << >>]
      BY DEF HasLists
    <2> HIDE DEF x, fallback
    <2>4. SameLists(x, y)
      BY <2>3 DEF HasLists, SameLists
    <2> HIDE DEF y
    <2>5. SameLists(x, z) /\ SameLists(x, k)
      BY <2>3, <2>4 DEF HasLists, SameLists
    <2> HIDE DEF z, k
    <2>6. SameLists(x, SetActiveWindow(k, fallback, y.gact[fallback]))
      BY <2>3, <2>5, ListsFocus, SameListsTransitive DEF HasLists, SameLists
    <2>7. SameLists(x, f)
      BY <2>2, <2>4, <2>5, <2>6
    <2>8. HasLists(f) /\ f.gwin = [e.gwin EXCEPT ![s] = << >>]
      BY <2>3, <2>7 DEF HasLists, SameLists
    <2> QED
      BY <1>1, <2>8
  <1>2. ASSUME e.gwin[s] # << >> PROVE HasLists(f) /\ \A g \in Groups : f.gwin[g] = e.gwin[g]
    <2>1. f = SetActiveWindow(e, s, LastMapped(e, s)) \/ f = e
      BY <1>2 DEF AfterLoss
    <2>2. SameLists(e, SetActiveWindow(e, s, LastMapped(e, s))) /\ SameLists(e, e)
      BY ListsFocus DEF SameLists
    <2> HIDE DEF f
    <2>3. SameLists(e, f)
      BY <2>1, <2>2
    <2> QED
      BY <2>3 DEF HasLists, SameLists
  <1> QED
    BY <1>1, <1>2

LEMMA MoveWindowShifts ==
  ASSUME NEW d \in Desk, NEW w \in Windows, NEW t \in Groups, d.own[w] \notin {None, t}
  PROVE  Shifted(d, MoveWindow(d, w, t), w, t)
  <1> DEFINE s == d.own[w]
             u == Unlink(d, w)
             e == AddWindow(u, t, w)
             lost == d.gact[s] = w
             f == AfterLoss(e, s, lost)
             removed == [d.gwin EXCEPT ![s] = RemoveFirst(d.gwin[s], w)]
  <1>1. /\ s \in Groups /\ s # t
        /\ HasLists(d) /\ DOMAIN d.gwin = Groups
    BY DeskFields DEF HasLists, Desk
  <1>2. HasLists(u) /\ u.gwin = removed
    BY <1>1 DEF Unlink, HasLists
  <1>3. HasLists(e) /\ e.gwin = [u.gwin EXCEPT ![t] = Append(u.gwin[t], w)]
    <2> HIDE DEF u
    <2> QED
      BY <1>2 DEF AddWindow, HasLists
  <1>4. /\ DOMAIN e.gwin = Groups
        /\ \A g \in Groups : e.gwin[g] = CASE g = t -> Append(d.gwin[g], w)
                                           [] g # t /\ g = s -> RemoveFirst(d.gwin[g], w)
                                           [] OTHER -> d.gwin[g]
    BY <1>1, <1>2, <1>3
  <1>b. lost \in BOOLEAN
    OBVIOUS
  <1> HIDE DEF u, e, lost, removed
  <1>5. MoveWindow(d, w, t) = FocusWindow(f, w)
    BY <1>1 DEF MoveWindow, u, e, lost
  <1>6. HasLists(f) /\ \A g \in Groups : f.gwin[g] = e.gwin[g]
    <2>1. HasLists(e) /\ DOMAIN e.gwin = Groups /\ s \in Groups
      BY <1>1, <1>3, <1>4
    <2> HIDE DEF s
    <2> QED
      BY <2>1, <1>b, AfterLossLists
  <1> HIDE DEF f
  <1>7. \A g \in Groups : FocusWindow(f, w).gwin[g] = f.gwin[g]
    BY <1>6, ListsFocus DEF SameLists
  <1> QED
    BY <1>4, <1>5, <1>6, <1>7 DEF Shifted

LEMMA MoveStraight ==
  ASSUME NEW d, NEW E, Typed(d), Owned(d, E), NEW w \in Windows, NEW t \in Groups,
         d.own[w] \notin {None, t}
  PROVE  Straight(d, MoveWindow(d, w, t))
  BY MoveWindowShifts, ShiftedStraight DEF Typed

\* Windows that move one after the other, in an order that does not contradict
\* the one they stand in.
LEMMA MovesStraight ==
  ASSUME NEW R, NEW d, NEW E, NEW O, NEW t \in Live(d), Good(R, d, E, O), \A h \in E : h = t,
         NEW list \in Seq(Windows), IsInjective(list),
         \A i \in 1..Len(list) : d.own[list[i]] \notin {None, t},
         \A i, j \in 1..Len(list) : i < j => ~Precedes(d, list[j], list[i])
  PROVE  Straight(d, MoveWindows(d, list, t))
  <1> DEFINE N == Len(list)
  <1>1. N \in Nat /\ \A i \in 1..N : list[i] \in Windows
    OBVIOUS
  <1>2. PICK f : /\ f[0] = d
                 /\ \A n \in 1..Len(list) : f[n] = MoveWindow(f[n - 1], list[n], t)
                 /\ MoveWindows(d, list, t) = f[Len(list)]
    BY <1>1, MoveWindowsIs
  <1>3. \A n \in 0..N : Moving(R, O, d, t, list, n, f[n])
    BY <1>2, MovesGood
  <1>4. \A n \in 1..N : f[n] = MoveWindow(f[n - 1], list[n], t)
    BY <1>2
  <1>5. \A i \in 1..N : d.own[list[i]] \notin {None, t}
    OBVIOUS
  <1>6. \A i, j \in 1..N : i < j => ~Precedes(d, list[j], list[i])
    OBVIOUS
  <1>7. Typed(d) /\ Owned(d, E) /\ t \in Groups
    <2>1. Typed(d) /\ Owned(d, E)
      BY DEF Good, Linked
    <2> QED
      BY <2>1, LiveGroups DEF Typed
  <1> HIDE DEF N
  <1> DEFINE P(n) == Straight(d, f[n])
             Bad == {n \in 0..N : ~P(n)}
  <1>8. P(0)
    BY <1>2, <1>7, ListsAre DEF Straight
  <1>9. ASSUME NEW n \in 1..N, P(n - 1) PROVE P(n)
    <2> DEFINE e == f[n - 1]
               w == list[n]
    <2>1. n - 1 \in 0..N /\ n \in n..N /\ (n - 1) + 1 = n
      BY <1>1
    <2>0. Moving(R, O, d, t, list, n - 1, e)
      BY <1>3, <2>1
    <2>2. PICK F : Good(R, e, F, O)
      BY <2>0 DEF Moving
    <2>3. /\ w \in Windows /\ e.own[w] = d.own[w] /\ e.own[w] \notin {None, t}
          /\ \A v \in Windows :
               e.own[v] = t => d.own[v] = t \/ \E i \in 1..(n - 1) : list[i] = v
      BY <1>1, <1>5, <2>0, <2>1 DEF Moving, N
    <2>4. f[n] = MoveWindow(e, w, t) /\ Straight(d, e)
      BY <1>4, <1>9
    <2> HIDE DEF e, P
    <2>5. Typed(e) /\ Owned(e, F) /\ e \in Desk
      BY <2>2 DEF Good, Linked, Typed
    <2>6. Shifted(e, f[n], w, t)
      BY <1>7, <2>3, <2>4, <2>5, MoveWindowShifts
    <2>7. ASSUME NEW v \in Windows, NEW x \in Windows, Precedes(d, v, x), Precedes(f[n], x, v)
          PROVE  FALSE
      <3>1. Precedes(e, x, v) \/ (v = w /\ e.own[x] = t)
        BY <1>7, <2>3, <2>5, <2>6, <2>7, ShiftedPrecedes
      <3>2. v = w /\ e.own[x] = t
        BY <2>4, <2>7, <3>1 DEF Straight
      <3>3. d.own[x] = d.own[w]
        BY <1>7, <2>7, <3>2, PrecedesIs, ListsAre
      <3>4. d.own[x] # t
        BY <2>3, <3>3
      <3>5. PICK i \in 1..(n - 1) : list[i] = x
        BY <2>3, <3>2, <3>4
      <3>6. i \in 1..N /\ n \in 1..N /\ i < n
        BY <1>1
      <3>7. ~Precedes(d, w, x)
        BY <1>6, <3>5, <3>6
      <3> QED
        BY <2>7, <3>2, <3>7
    <2>8. Straight(d, f[n])
      BY <2>7 DEF Straight
    <2> QED
      BY <2>8 DEF P
  <1> HIDE DEF P
  <1>10. Bad = {}
    <2> SUFFICES ASSUME Bad # {} PROVE FALSE
      OBVIOUS
    <2>1. Bad \in SUBSET Nat
      BY <1>1
    <2>2. PICK m \in Bad : \A k \in Bad : m <= k
      <3> HIDE DEF Bad
      <3> QED
        BY <2>1, LeastOf
    <2>3. m # 0
      BY <1>8, <2>2
    <2>4. m \in 1..N /\ m - 1 \in 0..N /\ ~(m <= m - 1)
      BY <1>1, <2>2, <2>3
    <2>5. P(m - 1)
      BY <2>2, <2>4
    <2> QED
      BY <1>9, <2>2, <2>4, <2>5
  <1>11. P(N)
    BY <1>1, <1>10
  <1> QED
    BY <1>2, <1>11 DEF P, N

\* A window moves to a new group.
LEMMA DetachStraight ==
  ASSUME NEW R, NEW d, NEW O, NEW ws \in Workspaces, ws \in Spaces(d),
         NEW w \in Windows, Good(R, d, {}, O), d.own[w] # None
  PROVE  Straight(d, Detach(d, w, ws)) /\ HasLists(Detach(d, w, ws))
  <1> DEFINE c == CreateGroup(d, ws)
             g == NewGroup(d)
  <1>1. /\ Good(R, c, {g}, O) /\ SameWindows(d, c) /\ g \in Groups /\ g \notin Live(d)
    BY CreateGroupGood
  <1>2. Detach(d, w, ws) = MoveWindow(c, w, g)
    BY DEF Detach
  <1>3. d \in Desk /\ Owned(d, {}) /\ HasLists(d)
    BY DEF Good, Linked, Typed, Desk, HasLists
  <1>4. SameLists(d, c)
    BY <1>3, ListsPlace
  <1> HIDE DEF c, g
  <1>5. c.own[w] \notin {None, g}
    BY <1>1, <1>3, OwnerIs DEF SameWindows
  <1>6. Straight(c, MoveWindow(c, w, g))
    BY <1>1, <1>5, MoveStraight DEF Good, Linked
  <1>7. Good(R, Detach(d, w, ws), {}, O)
    BY DetachGood
  <1>8. HasLists(Detach(d, w, ws))
    BY <1>7 DEF Good, Linked, Typed, Desk, HasLists
  <1> QED
    BY <1>2, <1>4, <1>6, <1>8, SameThenStraight

\* The placement rules of a window.
LEMMA RuleStraight ==
  ASSUME NEW R, NEW d, NEW w \in Windows, NEW O, Good(R, d, {}, O)
  PROVE  Straight(d, MakeFloating(d, w)) /\ Straight(d, MakeTiled(d, w))
  <1> DEFINE s == d.own[w]
             e == Detach(d, w, d.gws[s])
  <1>1. d \in Desk /\ Owned(d, {}) /\ Typed(d) /\ HasLists(d) /\ SameLists(d, d)
    BY DEF Good, Linked, Typed, Desk, HasLists, SameLists
  <1>2. s # None => Straight(d, e) /\ HasLists(e)
    BY <1>1, OwnerIs, DetachStraight
  <1>3. /\ \A g : SameLists(d, FloatGroup(d, g)) /\ SameLists(d, TileGroup(d, g))
        /\ s # None => \A g : SameLists(e, FloatGroup(e, g))
    BY <1>1, <1>2, ListsPlace
  <1>4. \/ MakeFloating(d, w) = d
        \/ MakeFloating(d, w) = FloatGroup(d, s)
        \/ s # None /\ MakeFloating(d, w) = FloatGroup(e, NewGroup(d))
    BY Zenon DEF MakeFloating
  <1>5. \/ MakeTiled(d, w) = d
        \/ MakeTiled(d, w) = TileGroup(d, s)
        \/ s # None /\ MakeTiled(d, w) = e
    BY Zenon DEF MakeTiled
  <1> HIDE DEF s, e
  <1> QED
    BY <1>1, <1>2, <1>3, <1>4, <1>5, SameStraight, StraightThenSame

\* A window leaves for good.
LEMMA RemoveStraight ==
  ASSUME NEW d, NEW E, Typed(d), Owned(d, E), NEW w \in Windows
  PROVE  Straight(d, RemoveWindow(d, w)) /\ HasLists(RemoveWindow(d, w))
  <1> DEFINE s == d.own[w]
             e == Unlink(d, w)
             lost == d.gact[s] = w
             f == AfterLoss(e, s, lost)
  <1>1. HasLists(d) /\ DOMAIN d.gwin = Groups /\ d \in Desk
    BY DeskFields DEF Typed, Desk, HasLists
  <1>2. CASE s = None
    <2>1. RemoveWindow(d, w) = d
      BY <1>2 DEF RemoveWindow
    <2> QED
      BY <1>1, <2>1, SameStraight DEF SameLists
  <1>3. CASE s # None
    <2>1. s \in Groups
      BY <1>1, <1>3, DeskFields
    <2>2. HasLists(e) /\ e.gwin = [d.gwin EXCEPT ![s] = RemoveFirst(d.gwin[s], w)]
      BY <1>1 DEF Unlink, HasLists
    <2>3. RemoveWindow(d, w) = f
      BY <1>3 DEF RemoveWindow
    <2> HIDE DEF e, lost
    <2>4. /\ DOMAIN e.gwin = Groups
          /\ \A g \in Groups :
               e.gwin[g] = IF g = s THEN RemoveFirst(d.gwin[g], w) ELSE d.gwin[g]
      BY <1>1, <2>1, <2>2
    <2>5. lost \in BOOLEAN
      BY DEF lost
    <2>6. /\ HasLists(f)
          /\ \A g \in Groups :
               f.gwin[g] = IF g = s THEN RemoveFirst(d.gwin[g], w) ELSE d.gwin[g]
      BY <2>1, <2>2, <2>4, <2>5, AfterLossLists
    <2> HIDE DEF f, s
    <2>7. ASSUME NEW v, NEW x, Precedes(f, v, x) PROVE Precedes(d, v, x)
      <3>1. PICK g \in Groups : Before(f.gwin[g], v, x)
        BY <2>7, PrecedesIs
      <3>2. d.gwin[g] \in Seq(Windows) /\ IsInjective(d.gwin[g])
        BY ListsAre
      <3>3. Before(d.gwin[g], v, x)
        BY <2>6, <3>1, <3>2, BeforeRemoved
      <3> QED
        BY <3>3, PrecedesIs
    <2>8. Straight(d, f)
      BY <2>7, ListsAre DEF Straight
    <2> QED
      BY <2>3, <2>6, <2>8
  <1> QED
    BY <1>2, <1>3

\* A window that is in no group joins one.
LEMMA JoinStraight ==
  ASSUME NEW d, NEW E, Typed(d), Owned(d, E), NEW w \in Windows, d.own[w] = None, NEW t \in Groups
  PROVE  Straight(d, AddWindow(d, t, w))
  <1>1. d \in Desk /\ DOMAIN d.gwin = Groups
    BY DeskFields DEF Typed
  <1>2. AddWindow(d, t, w).gwin = [d.gwin EXCEPT ![t] = Append(d.gwin[t], w)]
    BY <1>1 DEF AddWindow, Desk
  <1>3. Shifted(d, AddWindow(d, t, w), w, t)
    BY <1>1, <1>2, Names DEF Shifted
  <1> QED
    BY <1>3, Names, ShiftedStraight

-----------------------------------------------------------------------------
(* Commands made of several steps.                                         *)

\* The windows, the groups and the tabs of two desktops are the same.
SameTabs(d, e) ==
  /\ e.groups = d.groups /\ e.gwin = d.gwin /\ e.own = d.own /\ e.mapped = d.mapped
  /\ e.nws = d.nws

\* Activating a workspace shows it on its output; a tile stays where it is.
LEMMA ActivateGood ==
  ASSUME NEW R, NEW d, Sound(R, d), NEW ws \in Workspaces
  PROVE  /\ Sound(R, ActivateWorkspace(d, ws))
         /\ SameTabs(d, ActivateWorkspace(d, ws))
         /\ ActivateWorkspace(d, ws).home = d.home
         /\ d.home[ws] # None => ActivateWorkspace(d, ws).vis[d.home[ws]] = ws
         /\ \A g \in Groups \ d.flt : ActivateWorkspace(d, ws).gws[g] = d.gws[g]
  <1>d. d \in Desk /\ Good(R, d, {}, {}) /\ Placed(R, d, {})
    BY DEF Sound, Good, Linked, Typed
  <1>1. CASE d.home[ws] = None
    <2>1. ActivateWorkspace(d, ws) = d
      BY <1>1 DEF ActivateWorkspace
    <2> QED
      BY <2>1, <1>1 DEF SameTabs
  <1>2. CASE d.home[ws] # None
    <2>1. PICK o \in Outputs : d.home[ws] = o
      BY <1>2, <1>d, DeskFields
    <2>2. o \in ToSet(d.outs)
      BY <2>1, <1>2, <1>d DEF Placed
    <2>3. d.outs # << >>
      BY <2>2, EmptyIs
    <2> DEFINE r == SwitchWorkspace(d, o, ws, TRUE)
    <2>4. ActivateWorkspace(d, ws) = r
      BY <1>2, <2>1 DEF ActivateWorkspace
    <2>5. /\ Good(R, r, {}, {} \ {o})
          /\ Switched(d, o, ws, r)
          /\ r.fo \in ToSet(d.outs)
      BY <1>d, <2>1, <2>2, SwitchGood
    <2> HIDE DEF r
    <2>6. {} \ {o} = {}
      OBVIOUS
    <2>7. Good(R, r, {}, {})
      BY <2>5, <2>6
    <2>8. Sound(R, r)
      BY <2>7, <2>5, <2>3 DEF Sound, Focused, Switched
    <2> QED
      BY <2>8, <2>5, <2>4, <2>1 DEF SameTabs, Switched
  <1> QED
    BY <1>1, <1>2

\* Focusing a window that may be on a hidden workspace.
LEMMA FocusIdGood ==
  ASSUME NEW R, NEW d, Sound(R, d), NEW w \in Windows, d.own[w] # None
  PROVE  /\ Sound(R, FocusWindowId(d, w))
         /\ SameTabs(d, FocusWindowId(d, w))
         /\ \A g \in Groups \ d.flt : FocusWindowId(d, w).gws[g] = d.gws[g]
  <1>d. d \in Desk /\ Owned(d, {})
    BY DEF Sound, Good, Linked, Typed
  <1>1. d.gws[d.own[w]] \in Workspaces /\ d.own[w] \in Groups
    BY <1>d, OwnerIs
  <1> DEFINE e == ActivateWorkspace(d, d.gws[d.own[w]])
  <1>2. /\ Sound(R, e) /\ SameTabs(d, e)
        /\ \A g \in Groups \ d.flt : e.gws[g] = d.gws[g]
    BY <1>1, ActivateGood
  <1> HIDE DEF e
  <1>3. Good(R, e, {}, {}) /\ Focused(e)
    BY <1>2 DEF Sound
  <1> DEFINE r == FocusWindow(e, w)
  <1>4. /\ Good(R, r, {}, {}) /\ Near(e, r) /\ Still(e, r)
    BY <1>3, FocusWindowGood
  <1> HIDE DEF r
  <1>5. Sound(R, r)
    BY <1>4, <1>3, NearFocused DEF Sound
  <1>6. CASE d.home[d.gws[d.own[w]]] = None
    <2>1. FocusWindowId(d, w) = d
      BY <1>6 DEF FocusWindowId
    <2> QED
      BY <2>1 DEF SameTabs
  <1>7. CASE d.home[d.gws[d.own[w]]] # None
    <2>1. FocusWindowId(d, w) = r
      BY <1>7 DEF FocusWindowId, r, e
    <2>2. SameTabs(d, r) /\ \A g \in Groups \ d.flt : r.gws[g] = d.gws[g]
      BY <1>4, <1>2 DEF Still, SameTabs, Near, SameOutputs
    <2> QED
      BY <2>1, <2>2, <1>5
  <1> QED
    BY <1>6, <1>7

\* A tab of a tile on an output that is focused becomes the active window of
\* the active group, and its workspace the focused one.
LEMMA FocusIdShows ==
  ASSUME NEW R, NEW d, Sound(R, d), NEW w \in d.mapped, NEW g \in Groups, d.own[w] = g, g \notin d.flt,
         d.home[d.gws[g]] # None
  PROVE  /\ FocusWindowId(d, w).act = g
         /\ FocusWindowId(d, w).gact[g] = w
         /\ FocusedWs(FocusWindowId(d, w)) = d.gws[g]
         /\ d.gws[g] \in Workspaces
  <1>d. d \in Desk /\ Owned(d, {})
    BY DEF Sound, Good, Linked, Typed
  <1>0. w \in Windows
    BY <1>d, DeskFields
  <1>1. d.gws[g] \in Workspaces /\ g # None
    BY <1>d, <1>0, OwnerIs, Names
  <1> DEFINE ws == d.gws[g]
             e == ActivateWorkspace(d, ws)
  <1>2. /\ Sound(R, e) /\ SameTabs(d, e)
        /\ e.home = d.home
        /\ e.vis[d.home[ws]] = ws
        /\ e.gws[g] = ws
    BY <1>1, ActivateGood
  <1>3. FocusWindowId(d, w) = FocusWindow(e, w)
    BY DEF FocusWindowId
  <1> HIDE DEF e
  <1>4. e \in Desk /\ Owned(e, {})
    BY <1>2 DEF Sound, Good, Linked, Typed
  <1>5. e.own[w] = g /\ w \in e.mapped
    BY <1>2 DEF SameTabs
  <1>6. \A h \in Groups : e.own[w] = h => e.gws[h] # NoWs
    BY <1>5, <1>2, <1>1, Names
  <1>7. IsVisible(e, e.gws[e.own[w]])
    BY <1>5, <1>2 DEF IsVisible
  <1>8. PICK h \in Groups, x \in Workspaces, full \in SUBSET Windows :
          /\ e.own[w] = h /\ e.gws[h] = x
          /\ e.home[x] \in Outputs /\ e.vis[e.home[x]] = x
          /\ FocusWindow(e, w) = FrontOf(e, h, x, w, full)
    BY <1>4, <1>0, <1>6, <1>7, <1>5, <1>1, FocusWindowIs
  <1>9. h = g /\ x = ws
    BY <1>8, <1>5, <1>2
  <1> DEFINE r == FrontOf(e, g, ws, w, full)
  <1>a. ws \in Workspaces
    BY <1>1
  <1> HIDE DEF ws
  <1>c. e \in Desk
    BY <1>4
  <1>b. /\ r \in Desk
        /\ SameOutputs(e, r)
        /\ Still(e, r)
        /\ r.fo = e.home[ws]
        /\ r.wact = [e.wact EXCEPT ![ws] = g]
        /\ r.act = g
        /\ r.full = full
        /\ r.gact = [e.gact EXCEPT ![g] = w]
        /\ r.kbd = w
    BY <1>c, <1>0, <1>a, FrontFields
  <1>10. /\ r.act = g /\ r.gact = [e.gact EXCEPT ![g] = w]
         /\ r.fo = e.home[ws] /\ r.vis = e.vis
    BY <1>b DEF SameOutputs
  <1>11. FocusWindowId(d, w) = r
    BY <1>3, <1>8, <1>9
  <1> HIDE DEF r
  <1>12. r.gact[g] = w
    BY <1>10, <1>4, DeskFields
  <1>13. r.fo # None
    BY <1>10, <1>8, <1>9, Names
  <1>14. FocusedWs(r) = ws
    BY <1>13, <1>10, <1>8, <1>9 DEF FocusedWs
  <1> QED
    BY <1>10, <1>11, <1>12, <1>14, <1>1 DEF ws

\* A part of a sequence.
LEMMA PartOf ==
  ASSUME NEW S, NEW s \in Seq(S), IsInjective(s), NEW i \in 1..Len(s), NEW j \in Int,
         j <= Len(s)
  PROVE  /\ SubSeq(s, i, j) \in Seq(S)
         /\ IsInjective(SubSeq(s, i, j))
         /\ i <= j => SubSeq(s, i, j) # << >>
         /\ \A k \in 1..Len(SubSeq(s, i, j)) : SubSeq(s, i, j)[k] \in ToSet(s)
         /\ \A k, l \in 1..Len(SubSeq(s, i, j)) :
              k < l => Before(s, SubSeq(s, i, j)[k], SubSeq(s, i, j)[l])
  <1>1. Len(s) \in Nat /\ DOMAIN s = 1..Len(s) /\ s \in [1..Len(s) -> S]
    BY LenProperties
  <1>2. i \in Int /\ i >= 1 /\ i <= Len(s)
    BY <1>1
  <1>3. \A k \in i..j : s[k] \in S
    BY <1>1, <1>2
  <1> DEFINE t == SubSeq(s, i, j)
  <1>4. /\ t \in Seq(S) /\ Len(t) = (IF i <= j THEN j - i + 1 ELSE 0)
        /\ \A k \in 1..(j - i + 1) : t[k] = s[i + k - 1]
    BY <1>2, <1>3, SubSeqProperties
  <1> HIDE DEF t
  <1>5. /\ DOMAIN t = 1..Len(t) /\ Len(t) \in Nat
    BY <1>4, LenProperties
  <1>6. \A k \in 1..Len(t) : i + k - 1 \in 1..Len(s) /\ t[k] = s[i + k - 1]
    BY <1>1, <1>2, <1>4
  <1>7. IsInjective(t)
    <2> SUFFICES ASSUME NEW a \in 1..Len(t), NEW b \in 1..Len(t), t[a] = t[b]
                 PROVE  a = b
      BY <1>5 DEF IsInjective
    <2>1. s[i + a - 1] = s[i + b - 1] /\ i + a - 1 \in DOMAIN s /\ i + b - 1 \in DOMAIN s
      BY <1>6, <1>1
    <2>2. i + a - 1 = i + b - 1
      BY <2>1 DEF IsInjective
    <2> QED
      BY <2>2, <1>2, <1>5
  <1>8. \A k \in 1..Len(t) : t[k] \in ToSet(s)
    BY <1>6, <1>1 DEF ToSet
  <1>9. i <= j => t # << >>
    <2> SUFFICES ASSUME i <= j PROVE Len(t) # 0
      BY <1>4, EmptySeq
    <2> QED
      BY <1>4, <1>2
  <1>10. ASSUME NEW k \in 1..Len(t), NEW l \in 1..Len(t), k < l PROVE Before(s, t[k], t[l])
    <2>1. /\ i + k - 1 \in DOMAIN s /\ i + l - 1 \in DOMAIN s
          /\ t[k] = s[i + k - 1] /\ t[l] = s[i + l - 1]
      BY <1>1, <1>6
    <2>2. i + k - 1 < i + l - 1
      BY <1>2, <1>5, <1>10
    <2> QED
      BY <2>1, <2>2 DEF Before
  <1> QED
    BY <1>4, <1>7, <1>8, <1>9, <1>10 DEF t

\* Tabs of a group move to another group of the same desktop.
LEMMA MoveTabsGood ==
  ASSUME NEW R, NEW d, NEW E, Good(R, d, E, {}), Focused(d), NEW s \in Groups, NEW t \in Live(d), s # t,
         \A h \in E : h = t,
         NEW list \in Seq(Windows), list # << >>, IsInjective(list),
         \A k \in 1..Len(list) : list[k] \in ToSet(d.gwin[s]),
         \A k, l \in 1..Len(list) : k < l => Before(d.gwin[s], list[k], list[l])
  PROVE  /\ Sound(R, MoveWindows(d, list, t))
         /\ Straight(d, MoveWindows(d, list, t))
  <1>d. d \in Desk /\ Owned(d, E)
    BY DEF Good, Linked, Typed
  <1>1. \A k \in 1..Len(list) : list[k] \in Windows
    BY LenProperties
  <1>2. \A k \in 1..Len(list) : d.own[list[k]] \notin {None, t}
    BY <1>1, <1>d, Names DEF Owned
  <1> DEFINE r == MoveWindows(d, list, t)
  <1>3. Good(R, r, {}, {}) /\ Near(d, r)
    BY <1>2, MoveWindowsGood
  <1> HIDE DEF r
  <1>4. Sound(R, r)
    BY <1>3, NearFocused DEF Sound
  <1>5. \A k, l \in 1..Len(list) : k < l => ~Precedes(d, list[l], list[k])
    <2>1. Typed(d)
      BY DEF Good, Linked
    <2>2. \A k, l \in 1..Len(list) : k < l => Precedes(d, list[k], list[l])
      BY PrecedesIs
    <2> QED
      BY <1>d, <2>1, <2>2, ListsAre
  <1>6. Straight(d, MoveWindows(d, list, t))
    BY <1>2, <1>5, MovesStraight
  <1> QED
    BY <1>4, <1>6 DEF r

LEMMA MergeSound ==
  ASSUME NEW R, NEW d, Sound(R, d), NEW s \in Live(d), NEW t \in Live(d), s # t
  PROVE  /\ Sound(R, MoveWindows(d, d.gwin[s], t))
         /\ Straight(d, MoveWindows(d, d.gwin[s], t))
  <1>d. d \in Desk /\ Owned(d, {}) /\ Typed(d) /\ Good(R, d, {}, {}) /\ Focused(d)
    BY DEF Sound, Good, Linked, Typed
  <1>1. s \in Groups
    BY <1>d, LiveGroups
  <1>2. d.gwin[s] \in Seq(Windows) /\ IsInjective(d.gwin[s]) /\ d.gwin[s] # << >>
    BY <1>d, <1>1, DeskFields DEF Typed, Owned
  <1>3. \A k \in 1..Len(d.gwin[s]) : d.gwin[s][k] \in ToSet(d.gwin[s])
    BY <1>2, MembersOf
  <1>4. \A h \in {} : h = t
    OBVIOUS
  <1>5. \A k, l \in 1..Len(d.gwin[s]) :
          k < l => Before(d.gwin[s], d.gwin[s][k], d.gwin[s][l])
    <2> DEFINE list == d.gwin[s]
    <2>1. DOMAIN list = 1..Len(list)
      BY <1>2, LenProperties
    <2> HIDE DEF list
    <2>2. \A k, l \in 1..Len(list) : k < l => Before(list, list[k], list[l])
      BY <2>1 DEF Before
    <2> QED
      BY <2>2 DEF list
  <1> QED
    BY <1>d, <1>1, <1>2, <1>3, <1>4, <1>5, MoveTabsGood

LEMMA RangeSound ==
  ASSUME NEW R, NEW d, Sound(R, d), NEW v \in Windows, NEW w \in Windows, NEW g \in Groups,
         d.own[v] = g, d.own[w] = g, NEW t \in Live(d), t # g, Between(d, v, w) # << >>
  PROVE  /\ Sound(R, MoveWindows(d, Between(d, v, w), t))
         /\ Straight(d, MoveWindows(d, Between(d, v, w), t))
  <1>d. d \in Desk /\ Owned(d, {}) /\ Typed(d) /\ Good(R, d, {}, {}) /\ Focused(d)
    BY DEF Sound, Good, Linked, Typed
  <1> DEFINE s == d.gwin[g]
  <1>1. s \in Seq(Windows) /\ IsInjective(s) /\ v \in ToSet(s) /\ w \in ToSet(s)
    BY <1>d, DeskFields DEF Typed, Owned
  <1>2. DOMAIN s = 1..Len(s) /\ Len(s) \in Nat
    BY <1>1, LenProperties
  <1>3. PICK i \in 1..Len(s) : s[i] = v
    BY <1>1, <1>2 DEF ToSet
  <1>4. PICK j \in 1..Len(s) : s[j] = w
    BY <1>1, <1>2 DEF ToSet
  <1>5. SelectInSeq(s, LAMBDA x : x = v) = i
    <2> HIDE DEF s
    <2>1. /\ {k \in 1..Len(s) : s[k] = s[i]} # {}
          /\ Min({k \in 1..Len(s) : s[k] = s[i]}) = i
      BY <1>1, PlaceOf
    <2>2. {k \in 1..Len(s) : s[k] = v} # {} /\ Min({k \in 1..Len(s) : s[k] = v}) = i
      BY <1>3, <2>1
    <2> QED
      BY <2>2 DEF SelectInSeq
  <1>6. SelectInSeq(s, LAMBDA x : x = w) = j
    <2> HIDE DEF s
    <2>1. /\ {k \in 1..Len(s) : s[k] = s[j]} # {}
          /\ Min({k \in 1..Len(s) : s[k] = s[j]}) = j
      BY <1>1, PlaceOf
    <2>2. {k \in 1..Len(s) : s[k] = w} # {} /\ Min({k \in 1..Len(s) : s[k] = w}) = j
      BY <1>4, <2>1
    <2> QED
      BY <2>2 DEF SelectInSeq
  <1>7. Between(d, v, w) = SubSeq(s, i, j)
    BY <1>5, <1>6 DEF Between
  <1>8. j \in Int /\ j <= Len(s)
    BY <1>2
  <1> DEFINE list == SubSeq(s, i, j)
  <1>9. /\ list \in Seq(Windows) /\ IsInjective(list)
        /\ \A k \in 1..Len(list) : list[k] \in ToSet(s)
        /\ \A k, l \in 1..Len(list) : k < l => Before(s, list[k], list[l])
    BY <1>1, <1>8, PartOf
  <1> HIDE DEF list
  <1>10. \A h \in {} : h = t
    OBVIOUS
  <1>11. Between(d, v, w) = list /\ list # << >>
    BY <1>7 DEF list
  <1>12. Sound(R, MoveWindows(d, list, t)) /\ Straight(d, MoveWindows(d, list, t))
    BY <1>d, <1>9, <1>10, <1>11, MoveTabsGood
  <1> QED
    BY <1>11, <1>12

\* A window moves to a new group of a workspace.
LEMMA DetachSound ==
  ASSUME NEW R, NEW d, Sound(R, d), NEW w \in Windows, d.own[w] # None, NEW ws \in Workspaces,
         ws \in Spaces(d)
  PROVE  Sound(R, Detach(d, w, ws))
  <1> DEFINE r == Detach(d, w, ws)
  <1>1. Good(R, d, {}, {}) /\ Focused(d)
    BY DEF Sound
  <1>2. Good(R, r, {}, {}) /\ Near(d, r)
    BY <1>1, DetachGood
  <1> HIDE DEF r
  <1>3. Sound(R, r)
    BY <1>1, <1>2, NearFocused DEF Sound
  <1> QED
    BY <1>3 DEF r

LEMMA SplitActiveSound ==
  ASSUME NEW R, NEW d, Sound(R, d), d.act # None, d.gact[d.act] # None, FocusedWs(d) \in Workspaces
  PROVE  Sound(R, SplitActive(d))
  <1>1. d \in Desk /\ Pointed(d) /\ Tabbed(d, {})
    BY DEF Sound, Good, Linked, Typed
  <1>2. d.act \in Groups /\ d.gact[d.act] \in Windows
    BY <1>1, DeskFields
  <1>3. d.act \in Live(d)
    BY <1>1 DEF Pointed
  <1>4. d.own[d.gact[d.act]] # None
    BY <1>1, <1>2, <1>3, Names DEF Tabbed
  <1>5. FocusedWs(d) \in Spaces(d)
    BY FocusedSpace, Names
  <1> QED
    BY <1>2, <1>4, <1>5, DetachSound DEF SplitActive

LEMMA SplitWindowSound ==
  ASSUME NEW R, NEW d, Sound(R, d), NEW w \in d.mapped, d.own[w] # None, d.own[w] \notin d.flt,
         d.home[d.gws[d.own[w]]] # None
  PROVE  Sound(R, SplitWindowOut(d, w))
  <1>1. w \in Windows /\ d.own[w] \in Groups
    BY DeskFields DEF Sound, Good, Linked, Typed
  <1> DEFINE e == FocusWindowId(d, w)
  <1>2. Sound(R, e)
    BY <1>1, FocusIdGood
  <1>3. e.act = d.own[w] /\ e.gact[e.act] = w /\ FocusedWs(e) \in Workspaces
    BY <1>1, FocusIdShows
  <1> HIDE DEF e
  <1>4. Sound(R, SplitActive(e))
    BY <1>1, <1>2, <1>3, Names, SplitActiveSound
  <1> QED
    BY <1>4 DEF SplitWindowOut, e

LEMMA SplitAtSound ==
  ASSUME NEW R, NEW d, Sound(R, d), NEW w \in Windows, NEW s \in Groups, d.own[w] = s
  PROVE  Sound(R, SplitGroupAt(d, w)) /\ Straight(d, SplitGroupAt(d, w))
  <1>d. d \in Desk /\ Owned(d, {}) /\ Typed(d)
    BY DEF Sound, Good, Linked, Typed
  <1>o. d.own[w] # None
    BY Names
  <1>a. s \in Live(d) /\ d.gws[s] \in Workspaces /\ d.gws[s] \in Spaces(d)
    BY <1>d, <1>o, OwnerIs
  <1> DEFINE t == d.gwin[s]
             e == FocusWindowId(d, w)
             c == CreateGroup(e, d.gws[s])
             n == NewGroup(e)
  <1>1. t \in Seq(Windows) /\ IsInjective(t) /\ w \in ToSet(t)
    BY <1>d, DeskFields DEF Typed, Owned
  <1>2. DOMAIN t = 1..Len(t) /\ Len(t) \in Nat
    BY <1>1, LenProperties
  <1>3. PICK i \in 1..Len(t) : t[i] = w
    BY <1>1, <1>2 DEF ToSet
  <1>4. SelectInSeq(t, LAMBDA x : x = w) = i
    <2> HIDE DEF t
    <2>1. /\ {k \in 1..Len(t) : t[k] = t[i]} # {}
          /\ Min({k \in 1..Len(t) : t[k] = t[i]}) = i
      BY <1>1, PlaceOf
    <2>2. {k \in 1..Len(t) : t[k] = w} # {} /\ Min({k \in 1..Len(t) : t[k] = w}) = i
      BY <1>3, <2>1
    <2> QED
      BY <2>2 DEF SelectInSeq
  <1> DEFINE list == SubSeq(t, i, Len(t))
  <1>5. SplitGroupAt(d, w) = MoveWindows(c, list, n)
    BY <1>4 DEF SplitGroupAt
  <1>6. Sound(R, e) /\ SameTabs(d, e)
    BY <1>o, FocusIdGood
  <1>7. Len(t) \in Int /\ Len(t) <= Len(t) /\ i <= Len(t)
    BY <1>2
  <1>8. /\ list \in Seq(Windows) /\ IsInjective(list) /\ list # << >>
        /\ \A k \in 1..Len(list) : list[k] \in ToSet(t)
        /\ \A k, l \in 1..Len(list) : k < l => Before(t, list[k], list[l])
    <2>1. PICK m \in Int : m = Len(t)
      BY <1>7
    <2> DEFINE r == SubSeq(t, i, m)
    <2> HIDE DEF t
    <2>2. /\ r \in Seq(Windows) /\ IsInjective(r) /\ r # << >>
          /\ \A k \in 1..Len(r) : r[k] \in ToSet(t)
          /\ \A k, l \in 1..Len(r) : k < l => Before(t, r[k], r[l])
      BY <1>1, <1>7, <2>1, PartOf
    <2>3. list = r
      BY <2>1
    <2> HIDE DEF r, list
    <2> QED
      BY <2>2, <2>3
  <1> HIDE DEF e, list
  <1>9. Good(R, e, {}, {}) /\ Focused(e)
    BY <1>6 DEF Sound
  <1>10. /\ Good(R, c, {n}, {}) /\ Near(e, c) /\ SameWindows(e, c)
         /\ Live(c) = Live(e) \cup {n} /\ n \notin Live(e)
    <2>1. d.gws[s] \in Spaces(e)
      BY <1>6, <1>a DEF SameTabs, Spaces
    <2> QED
      BY <1>9, <1>a, <2>1, CreateGroupGood
  <1>14. SameLists(d, c) /\ c.gwin[s] = t
    <2>1. HasLists(d) /\ SameLists(d, e)
      BY <1>d, ListsSwitch DEF e, HasLists, Desk
    <2>2. SameLists(e, c)
      BY <2>1, ListsPlace DEF HasLists, SameLists
    <2>3. SameLists(d, c)
      BY <2>1, <2>2, SameListsTransitive
    <2> QED
      BY <2>3 DEF SameLists
  <1> HIDE DEF c, n
  <1>11. Focused(c)
    BY <1>9, <1>10, NearFocused
  <1>12. s \in Live(e)
    BY <1>6, <1>a DEF SameTabs, Live
  <1>13. s # n /\ n \in Live(c) /\ \A h \in {n} : h = n
    BY <1>10, <1>12
  <1>15. Sound(R, MoveWindows(c, list, n)) /\ Straight(c, MoveWindows(c, list, n))
    BY <1>8, <1>10, <1>11, <1>13, <1>14, MoveTabsGood
  <1>16. Straight(d, MoveWindows(c, list, n))
    BY <1>14, <1>15, SameThenStraight
  <1> QED
    BY <1>5, <1>15, <1>16

-----------------------------------------------------------------------------
(* Workspaces for outputs.                                                 *)

LEMMA ConcatIs ==
  ASSUME NEW S, NEW s \in Seq(S), NEW t \in Seq(S), IsInjective(s), IsInjective(t),
         ToSet(s) \cap ToSet(t) = {}
  PROVE  /\ s \o t \in Seq(S)
         /\ IsInjective(s \o t)
         /\ ToSet(s \o t) = ToSet(s) \cup ToSet(t)
         /\ s # << >> \/ t # << >> => s \o t # << >>
  <1> DEFINE c == s \o t
  <1>1. /\ c \in Seq(S) /\ Len(c) = Len(s) + Len(t)
        /\ \A i \in 1..Len(s) + Len(t) : c[i] = IF i <= Len(s) THEN s[i] ELSE t[i - Len(s)]
    BY ConcatProperties
  <1> HIDE DEF c
  <1>2. /\ DOMAIN c = 1..Len(c) /\ Len(s) \in Nat /\ Len(t) \in Nat
        /\ DOMAIN s = 1..Len(s) /\ DOMAIN t = 1..Len(t)
    BY <1>1, LenProperties
  <1>3. \A i \in 1..Len(c) : \/ /\ i <= Len(s) /\ i \in DOMAIN s /\ c[i] = s[i]
                             \/ /\ i > Len(s) /\ i - Len(s) \in DOMAIN t
                                /\ c[i] = t[i - Len(s)]
    BY <1>1, <1>2
  <1>4. \A i \in DOMAIN s : i \in 1..Len(c) /\ c[i] = s[i]
    BY <1>1, <1>2
  <1>5. \A i \in DOMAIN t : i + Len(s) \in 1..Len(c) /\ c[i + Len(s)] = t[i]
    BY <1>1, <1>2
  <1>6. IsInjective(c)
    <2> SUFFICES ASSUME NEW a \in 1..Len(c), NEW b \in 1..Len(c), c[a] = c[b]
                 PROVE  a = b
      BY <1>2 DEF IsInjective
    <2>1. CASE a <= Len(s) /\ b <= Len(s)
      <3>1. a \in DOMAIN s /\ b \in DOMAIN s /\ s[a] = s[b]
        BY <2>1, <1>3, <1>2
      <3> QED
        BY <3>1 DEF IsInjective
    <2>2. CASE a > Len(s) /\ b > Len(s)
      <3>1. a - Len(s) \in DOMAIN t /\ b - Len(s) \in DOMAIN t /\ t[a - Len(s)] = t[b - Len(s)]
        BY <2>2, <1>3, <1>2
      <3>2. a - Len(s) = b - Len(s)
        BY <3>1 DEF IsInjective
      <3> QED
        BY <3>2, <1>2
    <2>3. CASE a <= Len(s) /\ b > Len(s)
      <3>1. a \in DOMAIN s /\ c[a] = s[a] /\ b - Len(s) \in DOMAIN t /\ c[b] = t[b - Len(s)]
        BY <2>3, <1>3, <1>2
      <3>2. c[a] \in ToSet(s) /\ c[b] \in ToSet(t)
        BY <3>1 DEF ToSet
      <3> QED
        BY <3>2
    <2>4. CASE a > Len(s) /\ b <= Len(s)
      <3>1. b \in DOMAIN s /\ c[b] = s[b] /\ a - Len(s) \in DOMAIN t /\ c[a] = t[a - Len(s)]
        BY <2>4, <1>3, <1>2
      <3>2. c[b] \in ToSet(s) /\ c[a] \in ToSet(t)
        BY <3>1 DEF ToSet
      <3> QED
        BY <3>2
    <2> QED
      BY <2>1, <2>2, <2>3, <2>4, <1>2
  <1>7. ToSet(c) = ToSet(s) \cup ToSet(t)
    <2>1. ToSet(c) \subseteq ToSet(s) \cup ToSet(t)
      BY <1>3, <1>2 DEF ToSet
    <2>2. ToSet(s) \subseteq ToSet(c)
      BY <1>4, <1>2 DEF ToSet
    <2>3. ToSet(t) \subseteq ToSet(c)
      BY <1>5, <1>2 DEF ToSet
    <2> QED
      BY <2>1, <2>2, <2>3
  <1>8. s # << >> \/ t # << >> => c # << >>
    BY <1>7, <1>1, MembersOf
  <1> QED
    BY <1>1, <1>6, <1>7, <1>8 DEF c

Ascends(s) == \A i, j \in DOMAIN s : i < j => s[i] < s[j]

\* Every set of workspaces can be written in its order: of a smallest set that
\* could not, all but the largest member can.
LEMMA SortedExists ==
  ASSUME NEW S \in SUBSET Workspaces
  PROVE  \E s \in [1..Cardinality(S) -> S] : Ascends(s)
  <1>w. Workspaces = 1..MaxWs /\ MaxWs \in Nat /\ \A x \in Workspaces : x \in Nat
    BY Numbers
  <1>f. \A T \in SUBSET Workspaces : IsFiniteSet(T) /\ Cardinality(T) \in Nat
    <2>1. IsFiniteSet(1..MaxWs)
      BY <1>w, FS_Interval
    <2> QED
      BY <1>w, <2>1, FS_Subset, FS_CardinalityType
  <1> DEFINE Has(T) == \E s \in [1..Cardinality(T) -> T] : Ascends(s)
             Bad == {n \in Nat : \E T \in SUBSET Workspaces : Cardinality(T) = n /\ ~Has(T)}
  <1>1. SUFFICES ASSUME Bad # {} PROVE FALSE
    BY <1>f
  <1>2. Bad \in SUBSET Nat
    OBVIOUS
  <1>3. PICK n \in Bad : \A i \in Bad : n <= i
    <2> HIDE DEF Bad
    <2> QED
      BY <1>1, <1>2, LeastOf
  <1>4. PICK T \in SUBSET Workspaces : Cardinality(T) = n /\ ~Has(T)
    BY <1>3
  <1>5. n \in Nat
    BY <1>3
  <1>6. CASE T = {}
    <2>1. 1..Cardinality(T) = {}
      BY <1>6, FS_EmptySet
    <2> DEFINE s == [i \in {} |-> 0]
    <2>2. s \in [1..Cardinality(T) -> T] /\ Ascends(s)
      BY <2>1 DEF Ascends
    <2> HIDE DEF s
    <2> QED
      BY <2>2, <1>4
  <1>7. CASE T # {}
    <2>1. Max(T) \in T /\ \A i \in T : Max(T) >= i
      BY <1>7, <1>w, MaxOf
    <2> DEFINE m == Max(T)
               U == T \ {m}
    <2> HIDE DEF m
    <2>2. m \in T /\ m \in Nat /\ \A i \in T : m >= i
      BY <2>1, <1>w DEF m
    <2>3. Cardinality(U) = n - 1 /\ U \in SUBSET Workspaces
      BY <1>4, <1>f, <2>2, FS_RemoveElement
    <2>4. Cardinality(U) \in Nat /\ U \subseteq T /\ m \notin U
      BY <2>3, <1>f
    <2> HIDE DEF U
    <2>5. n - 1 \notin Bad
      <3> HIDE DEF Bad
      <3> QED
        BY <1>3, <1>5
    <2>6. n - 1 \in Nat
      BY <2>3, <2>4
    <2>7. Has(U)
      BY <2>5, <2>6, <2>3
    <2>8. PICK s \in [1..(n - 1) -> U] : Ascends(s)
      BY <2>7, <2>3
    <2> DEFINE t == [i \in 1..n |-> IF i = n THEN m ELSE s[i]]
    <2>9. \A i \in 1..n : i # n => i \in 1..(n - 1)
      BY <1>5
    <2>10. t \in [1..n -> T]
      BY <2>9, <2>8, <2>4, <2>2
    <2>11. Ascends(t)
      <3> SUFFICES ASSUME NEW i \in 1..n, NEW j \in 1..n, i < j
                   PROVE  t[i] < t[j]
        BY DEF Ascends
      <3>1. i # n /\ i \in 1..(n - 1)
        BY <1>5
      <3>2. t[i] = s[i] /\ s[i] \in U
        BY <3>1, <2>8
      <3>3. CASE j = n
        <4>1. t[j] = m
          BY <3>3
        <4>2. s[i] \in Nat /\ s[i] <= m /\ s[i] # m
          BY <3>2, <2>4, <2>2, <1>w
        <4> QED
          BY <4>1, <4>2, <3>2, <2>2
      <3>4. CASE j # n
        <4>1. j \in 1..(n - 1) /\ t[j] = s[j]
          BY <3>4, <2>9
        <4>2. i \in DOMAIN s /\ j \in DOMAIN s
          BY <4>1, <3>1, <2>8
        <4> QED
          BY <4>1, <4>2, <3>2, <2>8 DEF Ascends
      <3> QED
        BY <3>3, <3>4
    <2> HIDE DEF t
    <2> QED
      BY <2>10, <2>11, <1>4
  <1> QED
    BY <1>6, <1>7

LEMMA SortedIs ==
  ASSUME NEW S \in SUBSET Workspaces
  PROVE  /\ Sorted(S) \in Seq(Workspaces)
         /\ IsInjective(Sorted(S))
         /\ ToSet(Sorted(S)) = S
  <1>w. Workspaces = 1..MaxWs /\ MaxWs \in Nat /\ \A x \in Workspaces : x \in Nat
    BY Numbers
  <1>f. IsFiniteSet(S) /\ Cardinality(S) \in Nat
    <2>1. IsFiniteSet(1..MaxWs)
      BY <1>w, FS_Interval
    <2> QED
      BY <1>w, <2>1, FS_Subset, FS_CardinalityType
  <1> DEFINE n == Cardinality(S)
             s == Sorted(S)
  <1>1. s \in [1..n -> S] /\ Ascends(s)
    <2>1. \E x \in [1..n -> S] : Ascends(x)
      BY SortedExists
    <2> QED
      BY <2>1 DEF Sorted, Ascends
  <1> HIDE DEF n, s
  <1>2. n \in Nat /\ n = Cardinality(S)
    BY <1>f DEF n
  <1>3. IsInjective(s)
    <2> SUFFICES ASSUME NEW a \in 1..n, NEW b \in 1..n, s[a] = s[b]
                 PROVE  a = b
      BY <1>1 DEF IsInjective
    <2>1. s[a] \in Nat /\ s[b] \in Nat
      BY <1>1, <1>w
    <2>2. a < b => s[a] < s[b]
      BY <1>1 DEF Ascends
    <2>3. b < a => s[b] < s[a]
      BY <1>1 DEF Ascends
    <2> QED
      BY <2>1, <2>2, <2>3, <1>2
  <1>4. s \in Injection(1..n, S)
    BY <1>1, <1>3 DEF Injection
  <1>5. Cardinality(1..n) = n
    BY <1>2, FS_Interval
  <1>6. s \in Surjection(1..n, S)
    BY <1>4, <1>5, <1>2, <1>f, FS_Injection
  <1>7. ToSet(s) = S
    BY <1>6, <1>1 DEF Surjection, ToSet
  <1>8. s \in Seq(Workspaces)
    <2>1. s \in [1..n -> Workspaces]
      BY <1>1
    <2> QED
      BY <2>1, <1>2, SeqDef
  <1> QED
    BY <1>3, <1>7, <1>8 DEF s

\* The workspaces of a list are now on o; n of them exist.
Assigned(d, o, n, outs, list, e) ==
  /\ e \in Desk /\ Still(d, e)
  /\ e.outs = outs /\ e.nws = n /\ e.vis = d.vis /\ e.fo = d.fo
  /\ e.wact = d.wact /\ e.act = d.act /\ e.gact = d.gact /\ e.kbd = d.kbd
  /\ \A p \in Outputs : e.asg[p] = IF p = o THEN d.asg[o] \o list ELSE d.asg[p]
  /\ \A ws \in Workspaces : e.home[ws] = IF ws \in ToSet(list) THEN o ELSE d.home[ws]

\* What assign_workspace leaves is sound but for the workspace that o shows.
LEMMA AssignedGood ==
  ASSUME NEW R, NEW d, Good(R, d, {}, {}), NEW o \in Outputs, NEW n \in d.nws..MaxWs,
         NEW list \in Seq(Workspaces), IsInjective(list),
         \A ws \in ToSet(list) : d.home[ws] = None /\ ws <= n /\ Affinity[ws] \in {None, o},
         \A ws \in 1..n : Affinity[ws] = o => d.home[ws] = o \/ ws \in ToSet(list),
         NEW outs \in Seq(Outputs), IsInjective(outs), ToSet(outs) = ToSet(d.outs) \cup {o},
         NEW e, Assigned(d, o, n, outs, list, e)
  PROVE  Good(R, e, {}, {o})
  <1>d. /\ d \in Desk /\ Typed(d) /\ Placed(R, d, {}) /\ Honoured(d)
    BY DEF Good, Linked, Typed
  <1>w. Workspaces = 1..MaxWs /\ MaxWs \in Nat /\ Configured \in Nat
        /\ \A ws \in Workspaces : ws \in Nat
    BY Numbers
  <1>n. /\ d.nws \in Nat /\ n \in Nat /\ n >= d.nws /\ d.nws >= Configured
        /\ \A ws \in 1..n : ws \in Workspaces
    BY <1>d, <1>w, DeskFields DEF Placed
  <1>e. e \in Desk /\ Live(e) = Live(d)
    BY DEF Assigned, Still, Live
  <1>l. ToSet(list) \in SUBSET Workspaces
    BY MembersOf
  <1>x. /\ d.asg[o] \o list \in Seq(Workspaces)
        /\ IsInjective(d.asg[o] \o list)
        /\ ToSet(d.asg[o] \o list) = ToSet(d.asg[o]) \cup ToSet(list)
    <2>1. d.asg[o] \in Seq(Workspaces) /\ IsInjective(d.asg[o])
      BY <1>d, DeskFields DEF Typed
    <2>2. ToSet(d.asg[o]) \cap ToSet(list) = {}
      BY <1>d, <1>l, Names DEF Placed
    <2> QED
      BY <2>1, <2>2, ConcatIs
  <1>1. Typed(e)
    <2>1. \A p \in Outputs : IsInjective(e.asg[p])
      BY <1>x, <1>d DEF Assigned, Typed
    <2>2. /\ IsInjective(e.outs) /\ IsInjective(e.groups)
          /\ \A g \in Groups : IsInjective(e.gwin[g])
      BY <1>d DEF Assigned, Still, Typed
    <2> QED
      BY <2>1, <2>2, <1>e DEF Typed
  <1>2. Owned(e, {})
    <2>1. Owned(d, {})
      BY DEF Good, Linked
    <2>2. \A ws \in Spaces(d) : ws \in Spaces(e)
      BY <1>n DEF Assigned, Spaces
    <2> QED
      BY <1>e, <2>1, <2>2 DEF Owned, Assigned, Still
  <1>3. Housed(R, e)
    BY <1>e DEF Good, Linked, Housed, Assigned, Still
  <1>4. Pointed(e)
    BY <1>e DEF Good, Linked, Pointed, Assigned, Still
  <1>5. Blank(e)
    BY <1>e DEF Good, Linked, Blank, Assigned, Still
  <1>6. Tabbed(e, {})
    BY <1>e DEF Good, Tabbed, Assigned, Still
  <1>7. Keyed(R, e)
    BY <1>e DEF Good, Keyed, Assigned, Still
  <1>8. Pinned(e)
    BY <1>e DEF Good, Pinned, Assigned, Still
  <1>o. e.outs = outs /\ e.nws = n /\ e.vis = d.vis
    BY DEF Assigned
  <1>9. Placed(R, e, {o})
    <2>1. \A p \in ToSet(e.outs) \ {o} : e.vis[p] \in ToSet(e.asg[p])
      <3> SUFFICES ASSUME NEW p \in ToSet(d.outs), p # o
                   PROVE  d.vis[p] \in ToSet(e.asg[p])
        BY <1>o
      <3>1. p \in Outputs
        BY <1>d, DeskFields, MembersOf
      <3> QED
        BY <3>1, <1>d DEF Placed, Assigned
    <2>2. \A p \in Outputs, ws \in Workspaces : e.home[ws] = p <=> ws \in ToSet(e.asg[p])
      <3> SUFFICES ASSUME NEW p \in Outputs, NEW ws \in Workspaces
                   PROVE  e.home[ws] = p <=> ws \in ToSet(e.asg[p])
        OBVIOUS
      <3>1. d.home[ws] = p <=> ws \in ToSet(d.asg[p])
        BY <1>d DEF Placed
      <3>2. ws \in ToSet(list) => d.home[ws] # p
        BY Names
      <3>3. e.home[ws] = IF ws \in ToSet(list) THEN o ELSE d.home[ws]
        BY DEF Assigned
      <3>4. CASE p = o
        <4>1. ToSet(e.asg[p]) = ToSet(d.asg[o]) \cup ToSet(list)
          BY <3>4, <1>x DEF Assigned
        <4> QED
          BY <4>1, <3>1, <3>3, <3>4
      <3>5. CASE p # o
        <4>1. e.asg[p] = d.asg[p]
          BY <3>5 DEF Assigned
        <4> QED
          BY <4>1, <3>1, <3>2, <3>3, <3>5
      <3> QED
        BY <3>4, <3>5
    <2>3. \A ws \in Workspaces : e.home[ws] \in ToSet(e.outs) \cup {None}
      BY <1>o, <1>d DEF Placed, Assigned
    <2>4. \A p \in Outputs \ ToSet(e.outs) : e.vis[p] = NoWs
      BY <1>o, <1>d DEF Placed
    <2>5. e.nws >= Configured /\ \A ws \in R.spaces : ws \in Workspaces /\ ws <= e.nws
      <3>1. \A ws \in R.spaces : ws <= d.nws /\ ws \in Workspaces
        BY <1>d DEF Placed
      <3> QED
        BY <1>o, <1>n, <1>w, <3>1
    <2>6. \A ws \in Workspaces : ws > e.nws => e.home[ws] = None
      <3> SUFFICES ASSUME NEW ws \in Workspaces, ws > n PROVE e.home[ws] = None
        BY <1>o
      <3>1. ws \notin ToSet(list)
        BY <1>w, <1>n
      <3>2. ws > d.nws
        BY <1>w, <1>n
      <3>3. d.home[ws] = None
        BY <3>2, <1>d DEF Placed
      <3> QED
        BY <3>1, <3>3 DEF Assigned
    <2> QED
      BY <2>1, <2>2, <2>3, <2>4, <2>5, <2>6 DEF Placed
  <1>10. Honoured(e)
    <2> SUFFICES ASSUME NEW ws \in 1..n, Affinity[ws] # None
                 PROVE  e.home[ws] = IF Affinity[ws] \in ToSet(outs) THEN Affinity[ws] ELSE None
      BY <1>o DEF Honoured
    <2>1. ws \in Workspaces /\ ws \in Nat
      BY <1>n, <1>w
    <2>2. ~(ws > Configured)
      BY <2>1, DesktopAssumption
    <2>3. ws \in 1..d.nws
      BY <2>1, <2>2, <1>n, <1>w
    <2>4. d.home[ws] = IF Affinity[ws] \in ToSet(d.outs) THEN Affinity[ws] ELSE None
      BY <2>3, <1>d DEF Honoured
    <2>5. e.home[ws] = IF ws \in ToSet(list) THEN o ELSE d.home[ws]
      BY <2>1 DEF Assigned
    <2>6. CASE Affinity[ws] = o
      BY <2>6, <2>5
    <2>7. CASE Affinity[ws] # o
      BY <2>7, <2>5, <2>4
    <2> QED
      BY <2>6, <2>7
  <1> QED
    BY <1>1, <1>2, <1>3, <1>4, <1>5, <1>6, <1>7, <1>8, <1>9, <1>10 DEF Good, Linked

LEMMA OneIs ==
  ASSUME NEW S, NEW x \in S
  PROVE  << x >> \in Seq(S) /\ IsInjective(<< x >>) /\ ToSet(<< x >>) = {x} /\ << x >> # << >>
  <1>1. << x >> \in Seq(S) /\ Len(<< x >>) = 1 /\ << x >>[1] = x
    OBVIOUS
  <1>2. DOMAIN << x >> = {1}
    BY <1>1
  <1> QED
    BY <1>1, <1>2 DEF IsInjective, ToSet

\* The outputs and the number of workspaces may have grown.
Grown(d, n, outs, e) ==
  /\ e \in Desk /\ Still(d, e)
  /\ e.outs = outs /\ e.nws = n /\ e.vis = d.vis /\ e.fo = d.fo
  /\ e.home = d.home /\ e.asg = d.asg
  /\ e.wact = d.wact /\ e.act = d.act /\ e.gact = d.gact /\ e.kbd = d.kbd

LEMMA AssignIs ==
  ASSUME NEW d \in Desk, NEW n \in 0..MaxWs, NEW outs \in Seq(Outputs), NEW o \in Outputs,
         NEW f, Grown(d, n, outs, f), NEW list \in Seq(Workspaces)
  PROVE  Assigned(d, o, n, outs, list, Assign(f, o, list))
  <1> DEFINE e == Assign(f, o, list)
             asg == [f.asg EXCEPT ![o] = f.asg[o] \o list]
             home == [ws \in Workspaces |-> IF ws \in ToSet(list) THEN o ELSE f.home[ws]]
  <1>1. f \in Desk
    BY DEF Grown
  <1>2. /\ f.asg \in [Outputs -> Seq(Workspaces)]
        /\ f.home \in [Workspaces -> Outputs \cup {None}]
    BY <1>1, DeskFields
  <1>3. f.asg[o] \o list \in Seq(Workspaces)
    BY <1>2, ConcatProperties
  <1>4. asg \in [Outputs -> Seq(Workspaces)] /\ home \in [Workspaces -> Outputs \cup {None}]
    BY <1>2, <1>3
  <1>5. \A p \in Outputs : asg[p] = IF p = o THEN f.asg[o] \o list ELSE f.asg[p]
    BY <1>2
  <1>6. \A ws \in Workspaces : home[ws] = IF ws \in ToSet(list) THEN o ELSE f.home[ws]
    OBVIOUS
  <1>7. e = [f EXCEPT !.asg = asg, !.home = home]
    BY <1>1 DEF Assign, Desk
  <1> HIDE DEF e, asg, home
  <1>8. /\ e \in Desk /\ e.asg = asg /\ e.home = home
        /\ e.outs = f.outs /\ e.nws = f.nws /\ e.vis = f.vis /\ e.fo = f.fo
        /\ e.wact = f.wact /\ e.act = f.act /\ e.gact = f.gact /\ e.kbd = f.kbd
        /\ Still(f, e)
    BY <1>1, <1>4, <1>7 DEF Desk, Still
  <1>9. Assigned(d, o, n, outs, list, e)
    BY <1>5, <1>6, <1>8 DEF Assigned, Grown, Still
  <1> QED
    BY <1>9 DEF e

\* The output o, with one workspace of the list on show.
LEMMA ShowAssigned ==
  ASSUME NEW R, NEW d, Sound(R, d), NEW o \in Outputs, NEW n \in d.nws..MaxWs,
         NEW list \in Seq(Workspaces), IsInjective(list), NEW ws \in ToSet(list),
         \A x \in ToSet(list) : d.home[x] = None /\ x <= n /\ Affinity[x] \in {None, o},
         \A x \in 1..n : Affinity[x] = o => d.home[x] = o \/ x \in ToSet(list),
         NEW outs \in Seq(Outputs), IsInjective(outs), ToSet(outs) = ToSet(d.outs) \cup {o},
         NEW f, Grown(d, n, outs, f),
         NEW focus \in BOOLEAN, d.outs = << >> => focus = TRUE
  PROVE  Sound(R, SwitchWorkspace(Assign(f, o, list), o, ws, focus))
  <1> DEFINE e == Assign(f, o, list)
  <1>1. Good(R, d, {}, {}) /\ Focused(d) /\ d \in Desk
    BY DEF Sound, Good, Linked, Typed
  <1>2. n \in 0..MaxWs
    BY <1>1, DeskFields, Numbers
  <1>3. Assigned(d, o, n, outs, list, e)
    BY <1>1, <1>2, AssignIs
  <1> HIDE DEF e
  <1>4. Good(R, e, {}, {o})
    BY <1>1, <1>3, AssignedGood
  <1>5. ws \in Workspaces
    BY MembersOf
  <1>6. e.home[ws] = o /\ e.outs = outs /\ e.fo = d.fo
    BY <1>3, <1>5 DEF Assigned
  <1>7. o \in ToSet(e.outs) /\ outs # << >>
    BY <1>6, EmptyIs
  <1> DEFINE r == SwitchWorkspace(e, o, ws, focus)
  <1>8. /\ Good(R, r, {}, {o} \ {o})
        /\ Switched(e, o, ws, r)
        /\ IF focus THEN r.fo \in ToSet(e.outs) ELSE r.fo = e.fo
    <2>1. /\ o \in ToSet(e.outs) /\ e.home[ws] = o
      BY <1>6, <1>7
    <2> HIDE DEF r
    <2>2. r = SwitchWorkspace(e, o, ws, focus)
      BY DEF r
    <2>3. /\ Good(R, SwitchWorkspace(e, o, ws, focus), {}, {o} \ {o})
          /\ Switched(e, o, ws, SwitchWorkspace(e, o, ws, focus))
          /\ IF focus THEN SwitchWorkspace(e, o, ws, focus).fo \in ToSet(e.outs)
             ELSE SwitchWorkspace(e, o, ws, focus).fo = e.fo
      BY <1>4, <1>5, <2>1, SwitchGood, SMTT(30)
    <2> QED
      BY <2>2, <2>3
  <1> HIDE DEF r
  <1>9. {o} \ {o} = {}
    OBVIOUS
  <1>10. r.outs = outs
    BY <1>8, <1>6 DEF Switched
  <1>11. r.fo \in ToSet(outs)
    <2>1. CASE focus
      BY <2>1, <1>8, <1>6
    <2>2. CASE ~focus
      BY <2>2, <1>8, <1>6, <1>1 DEF Focused
    <2> QED
      BY <2>1, <2>2
  <1>12. Sound(R, r)
    BY <1>8, <1>9, <1>10, <1>11, <1>7 DEF Sound, Focused
  <1> QED
    BY <1>12 DEF r, e

\* Where the workspace on show stands among those of the focused output.
LEMMA PlaceIs ==
  ASSUME NEW R, NEW d, Sound(R, d), FocusedWs(d) # NoWs
  PROVE  /\ d.fo \in Outputs /\ d.fo \in ToSet(d.outs)
         /\ d.asg[d.fo] \in Seq(Workspaces)
         /\ Place(d, d.fo) \in 1..Len(d.asg[d.fo])
         /\ \A x \in ToSet(d.asg[d.fo]) : x \in Workspaces /\ d.home[x] = d.fo
  <1>d. d \in Desk /\ Typed(d) /\ Placed(R, d, {}) /\ Focused(d)
    BY DEF Sound, Good, Linked, Typed
  <1>1. d.fo # None
    BY DEF FocusedWs
  <1>2. d.fo \in Outputs /\ d.fo \in ToSet(d.outs)
    BY <1>d, <1>1, DeskFields DEF Focused
  <1> DEFINE s == d.asg[d.fo]
  <1>3. s \in Seq(Workspaces) /\ IsInjective(s) /\ d.vis[d.fo] \in ToSet(s)
    BY <1>d, <1>2, DeskFields DEF Typed, Placed
  <1>4. DOMAIN s = 1..Len(s)
    BY <1>3, LenProperties
  <1>5. PICK k \in 1..Len(s) : s[k] = d.vis[d.fo]
    BY <1>3, <1>4 DEF ToSet
  <1>6. {i \in 1..Len(s) : s[i] = s[k]} # {} /\ Min({i \in 1..Len(s) : s[i] = s[k]}) = k
    BY <1>3, PlaceOf
  <1>7. Place(d, d.fo) = k
    BY <1>5, <1>6 DEF Place, SelectInSeq
  <1>8. \A x \in ToSet(s) : x \in Workspaces
    BY <1>3, MembersOf
  <1>9. \A x \in ToSet(s) : d.home[x] = d.fo
    BY <1>8, <1>2, <1>d DEF Placed
  <1> QED
    BY <1>2, <1>3, <1>5, <1>7, <1>8, <1>9

\* Switching the output to one of its workspaces, with the focus.
LEMMA SwitchSound ==
  ASSUME NEW R, NEW d, Sound(R, d), NEW ws \in Workspaces, NEW o \in Outputs, d.home[ws] = o
  PROVE  Sound(R, SwitchWorkspace(d, o, ws, TRUE))
  <1>1. SwitchWorkspace(d, o, ws, TRUE) = ActivateWorkspace(d, ws)
    BY Names DEF ActivateWorkspace
  <1>2. Sound(R, ActivateWorkspace(d, ws))
    BY ActivateGood
  <1> QED
    BY <1>1, <1>2

LEMMA PreviousSound ==
  ASSUME NEW R, NEW d, Sound(R, d), FocusedWs(d) # NoWs, Place(d, d.fo) > 1
  PROVE  Sound(R, PreviousWorkspace(d))
  <1> DEFINE s == d.asg[d.fo]
             i == Place(d, d.fo)
  <1>1. /\ d.fo \in Outputs /\ s \in Seq(Workspaces) /\ i \in 1..Len(s)
        /\ \A x \in ToSet(s) : x \in Workspaces /\ d.home[x] = d.fo
    BY PlaceIs
  <1>2. PreviousWorkspace(d) = SwitchWorkspace(d, d.fo, s[i - 1], TRUE)
    BY DEF PreviousWorkspace
  <1>3. i > 1
    OBVIOUS
  <1> HIDE DEF i
  <1>4. i - 1 \in 1..Len(s)
    BY <1>1, <1>3, LenProperties
  <1>5. s[i - 1] \in ToSet(s)
    BY <1>1, <1>4, MembersOf
  <1> QED
    BY <1>1, <1>2, <1>5, SwitchSound

LEMMA NextSound ==
  ASSUME NEW R, NEW d, Sound(R, d), FocusedWs(d) # NoWs,
         Place(d, d.fo) = Len(d.asg[d.fo]) => d.nws < MaxWs
  PROVE  Sound(R, NextWorkspace(d))
  <1> DEFINE o == d.fo
             s == d.asg[o]
             i == Place(d, o)
  <1>1. /\ o \in Outputs /\ o \in ToSet(d.outs) /\ s \in Seq(Workspaces) /\ i \in 1..Len(s)
        /\ \A x \in ToSet(s) : x \in Workspaces /\ d.home[x] = o
    BY PlaceIs
  <1>0. Len(s) \in Nat
    BY <1>1, LenProperties
  <1>2. CASE i < Len(s)
    <2>1. NextWorkspace(d) = SwitchWorkspace(d, o, s[i + 1], TRUE)
      BY <1>2 DEF NextWorkspace
    <2> HIDE DEF i
    <2>2. i + 1 \in 1..Len(s)
      BY <1>1, <1>2, <1>0
    <2>3. s[i + 1] \in ToSet(s)
      BY <1>1, <2>2, MembersOf
    <2> QED
      BY <1>1, <2>1, <2>3, SwitchSound
  <1>3. CASE ~(i < Len(s))
    <2>1. d.nws < MaxWs
      <3>1. i = Len(s)
        BY <1>1, <1>3, <1>0
      <3> QED
        BY <3>1
    <2> DEFINE f == CreateWorkspace(d)
               n == d.nws + 1
    <2>2. NextWorkspace(d) = SwitchWorkspace(Assign(f, o, <<f.nws>>), o, f.nws, TRUE)
      BY <1>3 DEF NextWorkspace
    <2>3. d \in Desk /\ Placed(R, d, {}) /\ Honoured(d) /\ Typed(d)
      BY DEF Sound, Good, Linked, Typed
    <2>4. d.nws \in Nat /\ MaxWs \in Nat /\ n \in d.nws..MaxWs /\ n \in 0..MaxWs
          /\ n \in Workspaces /\ n > d.nws /\ n > Configured
      BY <2>1, <2>3, DeskFields, Numbers DEF Placed
    <2>5. f = [d EXCEPT !.nws = n]
      BY <2>3 DEF CreateWorkspace, Desk
    <2> HIDE DEF n, f, i
    <2>6. Grown(d, n, d.outs, f) /\ f.nws = n
      BY <2>3, <2>4, <2>5 DEF Grown, Desk, Still
    <2> DEFINE list == << n >>
    <2>7. /\ list \in Seq(Workspaces) /\ IsInjective(list) /\ ToSet(list) = {n}
      BY <2>4, OneIs
    <2> HIDE DEF list
    <2>8. d.home[n] = None /\ Affinity[n] = None
      BY <2>3, <2>4, DesktopAssumption DEF Placed
    <2>9. \A x \in ToSet(list) : d.home[x] = None /\ x <= n /\ Affinity[x] \in {None, o}
      BY <2>7, <2>8, <2>4
    <2>10. \A x \in 1..n : Affinity[x] = o => d.home[x] = o \/ x \in ToSet(list)
      <3> SUFFICES ASSUME NEW x \in 1..n, Affinity[x] = o, x # n
                   PROVE  d.home[x] = o
        BY <2>7
      <3>1. x \in 1..d.nws
        BY <2>4 DEF n
      <3>2. o # None
        BY <1>1, Names
      <3> QED
        BY <3>1, <3>2, <2>3, <1>1 DEF Honoured
    <2>11. /\ d.outs \in Seq(Outputs) /\ IsInjective(d.outs)
           /\ ToSet(d.outs) = ToSet(d.outs) \cup {o} /\ d.outs # << >>
      BY <2>3, <1>1, DeskFields, EmptyIs DEF Typed
    <2>12. Sound(R, SwitchWorkspace(Assign(f, o, list), o, n, TRUE))
      BY <2>4, <2>6, <2>7, <2>9, <2>10, <2>11, <1>1, ShowAssigned
    <2> QED
      BY <2>2, <2>6, <2>12 DEF list
  <1> QED
    BY <1>2, <1>3

\* One set of workspaces in order, and then another.
LEMMA SortedTwo ==
  ASSUME NEW A \in SUBSET Workspaces, NEW B \in SUBSET Workspaces, A \cap B = {}
  PROVE  /\ Sorted(A) \o Sorted(B) \in Seq(Workspaces)
         /\ IsInjective(Sorted(A) \o Sorted(B))
         /\ ToSet(Sorted(A) \o Sorted(B)) = A \cup B
  <1> DEFINE s == Sorted(A)
             t == Sorted(B)
  <1>1. /\ s \in Seq(Workspaces) /\ IsInjective(s) /\ ToSet(s) = A
        /\ t \in Seq(Workspaces) /\ IsInjective(t) /\ ToSet(t) = B
    BY SortedIs
  <1> HIDE DEF s, t
  <1>2. ToSet(s) \cap ToSet(t) = {}
    BY <1>1
  <1>3. /\ s \o t \in Seq(Workspaces) /\ IsInjective(s \o t)
        /\ ToSet(s \o t) = ToSet(s) \cup ToSet(t)
    BY <1>1, <1>2, ConcatIs
  <1> QED
    BY <1>1, <1>3 DEF s, t

\* The list that assign_workspace is given for a new output.
Suits(d, o, n, list) ==
  /\ list \in Seq(Workspaces) /\ IsInjective(list) /\ list # << >>
  /\ \A x \in ToSet(list) : d.home[x] = None /\ x <= n /\ Affinity[x] \in {None, o}
  /\ \A x \in 1..n : Affinity[x] = o => d.home[x] = o \/ x \in ToSet(list)
  /\ n = IF d.nws + 1 \in ToSet(list) THEN d.nws + 1 ELSE d.nws
  /\ n \in d.nws..MaxWs

LEMMA ListSuits ==
  ASSUME NEW R, NEW d, Sound(R, d), NEW o \in Outputs, o \notin ToSet(d.outs),
         \/ d.nws < MaxWs
         \/ \E ws \in Unassigned(d) : Affinity[ws] \in {None, o},
         NEW A, A = {ws \in Unassigned(d) : Affinity[ws] = o},
         NEW spare, spare = {ws \in Unassigned(d) : Affinity[ws] = None},
         NEW mine, \/ mine = Sorted(A) \o Sorted(spare)
                   \/ mine = Sorted(A) \o << >>,
         NEW list, \/ mine # << >> /\ list = mine
                   \/ mine = << >> /\ spare # {} /\ list = <<Min(spare)>>
                   \/ mine = << >> /\ spare = {} /\ list = <<d.nws + 1>>
  PROVE  \E n \in Nat : Suits(d, o, n, list)
  <1>d. d \in Desk /\ Placed(R, d, {}) /\ Honoured(d)
    BY DEF Sound, Good, Linked, Typed
  <1>w. Workspaces = 1..MaxWs /\ MaxWs \in Nat /\ Configured \in Nat
        /\ \A ws \in Workspaces : ws \in Nat
    BY Numbers
  <1>n. /\ d.nws \in Nat /\ d.nws <= MaxWs /\ d.nws >= Configured
        /\ \A x \in 1..d.nws : x \in Workspaces
    BY <1>d, <1>w, DeskFields DEF Placed
  <1>u. /\ \A x \in Unassigned(d) : x \in Workspaces /\ x \in 1..d.nws /\ d.home[x] = None
        /\ \A x \in 1..d.nws : d.home[x] = None => x \in Unassigned(d)
    BY <1>n DEF Unassigned
  <1>a. A \in SUBSET Workspaces /\ spare \in SUBSET Workspaces /\ A \cap spare = {}
    BY <1>u, Names
  <1>h. \A x \in 1..d.nws : Affinity[x] = o => x \in A
    <2> SUFFICES ASSUME NEW x \in 1..d.nws, Affinity[x] = o PROVE d.home[x] = None
      BY <1>u
    <2> QED
      BY <1>d, Names DEF Honoured
  <1>1. /\ Sorted(A) \in Seq(Workspaces) /\ IsInjective(Sorted(A)) /\ ToSet(Sorted(A)) = A
        /\ Sorted(spare) \in Seq(Workspaces) /\ IsInjective(Sorted(spare))
        /\ ToSet(Sorted(spare)) = spare
    BY <1>a, SortedIs
  <1>2. /\ mine \in Seq(Workspaces) /\ IsInjective(mine)
        /\ ToSet(mine) = A \cup spare \/ ToSet(mine) = A
    <2>1. CASE mine = Sorted(A) \o Sorted(spare)
      BY <2>1, <1>a, SortedTwo
    <2>2. CASE mine = Sorted(A) \o << >>
      <3>1. mine = Sorted(A)
        BY <2>2, <1>1, ConcatEmptySeq
      <3> QED
        BY <3>1, <1>1
    <2> QED
      BY <2>1, <2>2
  <1>m. d.nws + 1 \notin Unassigned(d)
    BY <1>u, <1>n
  <1>3. CASE mine # << >> /\ list = mine
    <2>1. \A x \in ToSet(list) : x \in Unassigned(d) /\ Affinity[x] \in {None, o}
      BY <1>2, <1>3
    <2>2. \A x \in ToSet(list) : d.home[x] = None /\ x <= d.nws
      BY <2>1, <1>u, <1>n
    <2>3. d.nws + 1 \notin ToSet(list)
      BY <2>1, <1>m
    <2>4. d.nws \in d.nws..MaxWs
      BY <1>n, <1>w
    <2>5. \A x \in 1..d.nws : Affinity[x] = o => x \in ToSet(list)
      BY <1>h, <1>2, <1>3
    <2>6. Suits(d, o, d.nws, list)
      BY <1>2, <1>3, <2>1, <2>2, <2>3, <2>4, <2>5 DEF Suits
    <2> QED
      BY <2>6, <1>n
  <1>e. mine = << >> => A = {}
    BY <1>2, EmptyIs
  <1>4. CASE mine = << >> /\ spare # {} /\ list = <<Min(spare)>>
    <2>1. Min(spare) \in spare
      BY <1>4, <1>a, <1>w, MinOf
    <2>2. /\ list \in Seq(Workspaces) /\ IsInjective(list) /\ list # << >>
          /\ ToSet(list) = {Min(spare)}
      BY <2>1, <1>4, <1>a, OneIs
    <2>3. \A x \in ToSet(list) : x \in Unassigned(d) /\ Affinity[x] = None
      BY <2>1, <2>2
    <2>4. \A x \in ToSet(list) : d.home[x] = None /\ x <= d.nws
      BY <2>3, <1>u, <1>n
    <2>5. d.nws + 1 \notin ToSet(list)
      BY <2>3, <1>m
    <2>6. d.nws \in d.nws..MaxWs
      BY <1>n, <1>w
    <2>7. \A x \in 1..d.nws : Affinity[x] # o
      BY <1>h, <1>e, <1>4
    <2>8. Suits(d, o, d.nws, list)
      BY <2>2, <2>3, <2>4, <2>5, <2>6, <2>7 DEF Suits
    <2> QED
      BY <2>8, <1>n
  <1>5. CASE mine = << >> /\ spare = {} /\ list = <<d.nws + 1>>
    <2> DEFINE n == d.nws + 1
    <2>1. d.nws < MaxWs
      <3>1. ASSUME NEW ws \in Unassigned(d), Affinity[ws] \in {None, o} PROVE FALSE
        <4>1. ws \in spare \/ ws \in A
          BY <3>1
        <4> QED
          BY <4>1, <1>5, <1>e
      <3> QED
        BY <3>1
    <2>2. n \in Workspaces /\ n \in Nat /\ n \in d.nws..MaxWs /\ n > Configured /\ n > d.nws
      BY <2>1, <1>n, <1>w
    <2>3. \A x \in 1..n : x \in 1..d.nws \/ x = n
      BY <1>n
    <2>4. n = d.nws + 1
      OBVIOUS
    <2> HIDE DEF n
    <2>5. Affinity[n] = None /\ d.home[n] = None
      BY <2>2, <1>d, DesktopAssumption DEF Placed
    <2>6. /\ list \in Seq(Workspaces) /\ IsInjective(list) /\ list # << >>
          /\ ToSet(list) = {n}
      BY <2>2, <2>4, <1>5, OneIs
    <2>7. \A x \in 1..n : Affinity[x] # o
      BY <2>3, <2>5, <1>h, <1>e, <1>5, Names
    <2>8. \A x \in ToSet(list) : d.home[x] = None /\ x <= n /\ Affinity[x] \in {None, o}
      BY <2>6, <2>5, <2>2
    <2>9. Suits(d, o, n, list)
      BY <2>2, <2>4, <2>6, <2>7, <2>8 DEF Suits
    <2> QED
      BY <2>9, <2>2
  <1> QED
    BY <1>3, <1>4, <1>5

LEMMA OutputAddedSound ==
  ASSUME NEW R, NEW d, Sound(R, d), NEW o \in Outputs, o \notin ToSet(d.outs),
         \/ d.nws < MaxWs
         \/ \E ws \in Unassigned(d) : Affinity[ws] \in {None, o}
  PROVE  Sound(R, OutputAdded(d, o))
  <1> DEFINE first == d.fo = None
             A == {ws \in Unassigned(d) : Affinity[ws] = o}
             spare == {ws \in Unassigned(d) : Affinity[ws] = None}
             mine == Sorted(A) \o (IF first THEN Sorted(spare) ELSE <<>>)
             list == CASE mine # <<>> -> mine
                       [] mine = <<>> /\ spare # {} -> <<Min(spare)>>
                       [] OTHER -> <<d.nws + 1>>
             start == SelectInSeq(list, LAMBDA ws : ws \in Startup)
             new == [d EXCEPT !.outs = Append(@, o)]
             f == IF d.nws + 1 \in ToSet(list) THEN CreateWorkspace(new) ELSE new
             ws == IF start = 0 THEN Head(list) ELSE list[start]
  <1>1. OutputAdded(d, o) = SwitchWorkspace(Assign(f, o, list), o, ws, first)
    BY DEF OutputAdded
  <1>d. d \in Desk /\ Focused(d) /\ Typed(d)
    BY DEF Sound, Good, Linked, Typed
  <1>2. \/ mine = Sorted(A) \o Sorted(spare)
        \/ mine = Sorted(A) \o << >>
    OBVIOUS
  <1> HIDE DEF mine
  <1>3. \/ mine # << >> /\ list = mine
        \/ mine = << >> /\ spare # {} /\ list = <<Min(spare)>>
        \/ mine = << >> /\ spare = {} /\ list = <<d.nws + 1>>
    OBVIOUS
  <1> HIDE DEF list
  <1>4. A = {x \in Unassigned(d) : Affinity[x] = o} /\ spare = {x \in Unassigned(d) : Affinity[x] = None}
    OBVIOUS
  <1> HIDE DEF A, spare
  <1>5. PICK n \in Nat : Suits(d, o, n, list)
    BY <1>2, <1>3, <1>4, ListSuits
  <1>6. ws \in ToSet(list)
    <2>1. list \in Seq(Workspaces) /\ list # << >>
      BY <1>5 DEF Suits
    <2> DEFINE I == {i \in 1..Len(list) : list[i] \in Startup}
    <2>2. start = IF I # {} THEN Min(I) ELSE 0
      BY DEF SelectInSeq
    <2>3. I \in SUBSET Nat
      OBVIOUS
    <2>4. CASE start = 0
      BY <2>1, <2>4, MembersOf
    <2>5. CASE start # 0
      <3>1. I # {} /\ start = Min(I)
        BY <2>5, <2>2
      <3> HIDE DEF I, start
      <3>2. Min(I) \in I
        BY <3>1, <2>3, MinOf
      <3>3. start \in 1..Len(list)
        BY <3>1, <3>2 DEF I
      <3> QED
        BY <3>3, <2>1, <2>5, MembersOf
    <2> QED
      BY <2>4, <2>5
  <1> DEFINE outs == Append(d.outs, o)
  <1>7. outs \in Seq(Outputs) /\ IsInjective(outs) /\ ToSet(outs) = ToSet(d.outs) \cup {o}
    BY <1>d, DeskFields, AppendIs DEF Typed
  <1>8. new = [d EXCEPT !.outs = outs]
    BY <1>d DEF Desk
  <1> HIDE DEF outs, new, ws
  <1>9. new \in Desk /\ new.nws = d.nws /\ Grown(d, d.nws, outs, new)
    BY <1>d, <1>7, <1>8 DEF Grown, Desk, Still
  <1>10. n \in 0..MaxWs
    BY <1>5, <1>d, DeskFields, Numbers DEF Suits
  <1>11. Grown(d, n, outs, f)
    <2>1. CASE d.nws + 1 \in ToSet(list)
      <3>1. n = d.nws + 1
        BY <2>1, <1>5 DEF Suits
      <3>2. CreateWorkspace(new) = [new EXCEPT !.nws = n]
        BY <1>9, <3>1 DEF CreateWorkspace, Desk
      <3> DEFINE c == CreateWorkspace(new)
      <3> HIDE DEF c
      <3>3. c = [new EXCEPT !.nws = n]
        BY <3>2 DEF c
      <3>4. Grown(d, n, outs, c)
        BY <1>9, <1>10, <3>3 DEF Grown, Desk, Still
      <3> QED
        BY <3>4, <2>1 DEF c
    <2>2. CASE d.nws + 1 \notin ToSet(list)
      <3>1. n = d.nws
        BY <2>2, <1>5 DEF Suits
      <3> QED
        BY <3>1, <2>2, <1>9
    <2> QED
      BY <2>1, <2>2
  <1> HIDE DEF f
  <1>12. /\ n \in d.nws..MaxWs /\ list \in Seq(Workspaces) /\ IsInjective(list)
         /\ \A x \in ToSet(list) : d.home[x] = None /\ x <= n /\ Affinity[x] \in {None, o}
         /\ \A x \in 1..n : Affinity[x] = o => d.home[x] = o \/ x \in ToSet(list)
    BY <1>5 DEF Suits
  <1>13. CASE first
    <2>1. Sound(R, SwitchWorkspace(Assign(f, o, list), o, ws, TRUE))
      BY <1>6, <1>7, <1>11, <1>12, ShowAssigned
    <2>2. first = TRUE
      BY <1>13
    <2> QED
      BY <1>1, <2>1, <2>2
  <1>14. CASE ~first
    <2>0. d.outs # << >>
      BY <1>14, <1>d DEF Focused
    <2>1. Sound(R, SwitchWorkspace(Assign(f, o, list), o, ws, FALSE))
      BY <2>0, <1>6, <1>7, <1>11, <1>12, ShowAssigned
    <2>2. first = FALSE
      BY <1>14
    <2> QED
      BY <1>1, <2>1, <2>2
  <1> QED
    BY <1>13, <1>14

\* The output o is gone, its workspaces are on no output and its pins are undone.
Removed(d, o, e) ==
  /\ e \in Desk /\ e.outs = RemoveFirst(d.outs, o) /\ e.fo = d.fo /\ e.nws = d.nws
  /\ e.wact = d.wact /\ e.act = d.act /\ e.groups = d.groups /\ e.gws = d.gws
  /\ e.gwin = d.gwin /\ e.gact = d.gact /\ e.flt = d.flt /\ e.own = d.own
  /\ e.wws = d.wws /\ e.mapped = d.mapped /\ e.kbd = d.kbd
  /\ \A p \in Outputs : e.asg[p] = IF p = o THEN << >> ELSE d.asg[p]
  /\ \A p \in Outputs : e.vis[p] = IF p = o THEN NoWs ELSE d.vis[p]
  /\ \A g \in Groups : e.pin[g] = IF d.pin[g] = o THEN None ELSE d.pin[g]
  /\ \A ws \in Workspaces : e.home[ws] = IF ws \in ToSet(d.asg[o]) THEN None ELSE d.home[ws]

LEMMA RemovedIs ==
  ASSUME NEW d \in Desk, NEW o \in Outputs, RemoveFirst(d.outs, o) \in Seq(Outputs)
  PROVE  Removed(d, o, [d EXCEPT
                !.outs = RemoveFirst(@, o), !.asg[o] = <<>>, !.vis[o] = NoWs,
                !.pin = [g \in Groups |-> IF @[g] = o THEN None ELSE @[g]],
                !.home = [ws \in Workspaces |->
                            IF ws \in ToSet(d.asg[o]) THEN None ELSE @[ws]]])
  <1> DEFINE outs == RemoveFirst(d.outs, o)
             asg == [d.asg EXCEPT ![o] = << >>]
             vis == [d.vis EXCEPT ![o] = NoWs]
             pin == [g \in Groups |-> IF d.pin[g] = o THEN None ELSE d.pin[g]]
             home == [ws \in Workspaces |-> IF ws \in ToSet(d.asg[o]) THEN None ELSE d.home[ws]]
             e == [d EXCEPT
                !.outs = RemoveFirst(@, o), !.asg[o] = <<>>, !.vis[o] = NoWs,
                !.pin = [g \in Groups |-> IF @[g] = o THEN None ELSE @[g]],
                !.home = [ws \in Workspaces |->
                            IF ws \in ToSet(d.asg[o]) THEN None ELSE @[ws]]]
  <1>1. << >> \in Seq(Workspaces)
    OBVIOUS
  <1>2. /\ outs \in Seq(Outputs)
        /\ asg \in [Outputs -> Seq(Workspaces)]
        /\ vis \in [Outputs -> Workspaces \cup {NoWs}]
        /\ pin \in [Groups -> Outputs \cup {None}]
        /\ home \in [Workspaces -> Outputs \cup {None}]
    BY <1>1, DeskFields
  <1>3. /\ \A p \in Outputs : asg[p] = IF p = o THEN << >> ELSE d.asg[p]
        /\ \A p \in Outputs : vis[p] = IF p = o THEN NoWs ELSE d.vis[p]
        /\ \A g \in Groups : pin[g] = IF d.pin[g] = o THEN None ELSE d.pin[g]
        /\ \A ws \in Workspaces :
             home[ws] = IF ws \in ToSet(d.asg[o]) THEN None ELSE d.home[ws]
    BY DeskFields
  <1>4. e = [d EXCEPT !.outs = outs, !.asg = asg, !.vis = vis, !.pin = pin, !.home = home]
    BY DEF Desk
  <1>n. outs = RemoveFirst(d.outs, o)
    OBVIOUS
  <1> HIDE DEF e, outs, asg, vis, pin, home
  <1>5. /\ e \in Desk /\ e.outs = outs /\ e.asg = asg /\ e.vis = vis /\ e.pin = pin
        /\ e.home = home
        /\ e.fo = d.fo /\ e.nws = d.nws
        /\ e.wact = d.wact /\ e.act = d.act /\ e.groups = d.groups /\ e.gws = d.gws
        /\ e.gwin = d.gwin /\ e.gact = d.gact /\ e.flt = d.flt /\ e.own = d.own
        /\ e.wws = d.wws /\ e.mapped = d.mapped /\ e.kbd = d.kbd
    BY <1>2, <1>4 DEF Desk
  <1>6. Removed(d, o, e)
    BY <1>3, <1>5, <1>n DEF Removed
  <1> QED
    BY <1>6 DEF e

LEMMA RemovedGood ==
  ASSUME NEW R, NEW d, Good(R, d, {}, {}), NEW o \in Outputs, NEW e, Removed(d, o, e)
  PROVE  Good(R, e, {}, {}) /\ ToSet(e.outs) = ToSet(d.outs) \ {o}
  <1>d. /\ d \in Desk /\ Typed(d) /\ Placed(R, d, {}) /\ Honoured(d) /\ Pinned(d)
    BY DEF Good, Linked, Typed
  <1>e. e \in Desk /\ Live(e) = Live(d)
    BY DEF Removed, Live
  <1>o. /\ IsInjective(e.outs) /\ ToSet(e.outs) = ToSet(d.outs) \ {o}
    BY <1>d, DeskFields, RemoveFirstIs DEF Typed, Removed
  <1>1. Typed(e)
    <2>1. \A p \in Outputs : IsInjective(e.asg[p])
      BY <1>d, EmptyIs DEF Removed, Typed
    <2>2. /\ IsInjective(e.groups)
          /\ \A g \in Groups : IsInjective(e.gwin[g])
      BY <1>d DEF Removed, Typed
    <2> QED
      BY <2>1, <2>2, <1>e, <1>o DEF Typed
  <1>2. Owned(e, {})
    <2>1. Owned(d, {})
      BY DEF Good, Linked
    <2> QED
      BY <1>e, <2>1 DEF Owned, Removed, Spaces
  <1>3. Housed(R, e)
    BY <1>e DEF Good, Linked, Housed, Removed
  <1>4. Pointed(e)
    BY <1>e DEF Good, Linked, Pointed, Removed
  <1>5. Blank(e)
    BY <1>e DEF Good, Linked, Blank, Removed
  <1>6. Tabbed(e, {})
    BY <1>e DEF Good, Tabbed, Removed
  <1>7. Keyed(R, e)
    BY <1>e DEF Good, Keyed, Removed
  <1>8. Pinned(e)
    <2> SUFFICES ASSUME NEW g \in Live(d), e.pin[g] # None
                 PROVE  g \in e.flt /\ e.gws[g] = e.vis[e.pin[g]]
      BY <1>e DEF Pinned
    <2>1. g \in Groups
      BY <1>d, LiveGroups
    <2>2. e.pin[g] = d.pin[g] /\ d.pin[g] # o
      BY <2>1 DEF Removed
    <2>3. d.pin[g] \in Outputs
      BY <2>1, <2>2, <1>d, DeskFields
    <2>4. e.vis[e.pin[g]] = d.vis[d.pin[g]]
      BY <2>2, <2>3 DEF Removed
    <2> QED
      BY <2>2, <2>4, <1>d DEF Pinned, Removed
  <1>9. Placed(R, e, {})
    <2>1. \A p \in ToSet(e.outs) \ {} : e.vis[p] \in ToSet(e.asg[p])
      <3> SUFFICES ASSUME NEW p \in ToSet(d.outs), p # o
                   PROVE  e.vis[p] \in ToSet(e.asg[p])
        BY <1>o
      <3>1. p \in Outputs
        BY <1>d, DeskFields, MembersOf
      <3> QED
        BY <3>1, <1>d DEF Placed, Removed
    <2>2. \A p \in Outputs, ws \in Workspaces : e.home[ws] = p <=> ws \in ToSet(e.asg[p])
      <3> SUFFICES ASSUME NEW p \in Outputs, NEW ws \in Workspaces
                   PROVE  e.home[ws] = p <=> ws \in ToSet(e.asg[p])
        OBVIOUS
      <3>1. /\ d.home[ws] = p <=> ws \in ToSet(d.asg[p])
            /\ d.home[ws] = o <=> ws \in ToSet(d.asg[o])
        BY <1>d DEF Placed
      <3>2. /\ e.home[ws] = IF ws \in ToSet(d.asg[o]) THEN None ELSE d.home[ws]
            /\ e.asg[p] = IF p = o THEN << >> ELSE d.asg[p]
        BY DEF Removed
      <3> QED
        BY <3>1, <3>2, EmptyIs, Names
    <2>3. \A ws \in Workspaces : e.home[ws] \in ToSet(e.outs) \cup {None}
      BY <1>o, <1>d DEF Placed, Removed
    <2>4. \A p \in Outputs \ ToSet(e.outs) : e.vis[p] = NoWs
      BY <1>o, <1>d DEF Placed, Removed
    <2>5. e.nws >= Configured /\ \A ws \in R.spaces : ws \in Workspaces /\ ws <= e.nws
      BY <1>d DEF Placed, Removed
    <2>6. \A ws \in Workspaces : ws > e.nws => e.home[ws] = None
      BY <1>d DEF Placed, Removed
    <2> QED
      BY <2>1, <2>2, <2>3, <2>4, <2>5, <2>6 DEF Placed
  <1>10. Honoured(e)
    <2>n. e.nws = d.nws
      BY DEF Removed
    <2> SUFFICES ASSUME NEW ws \in 1..d.nws, Affinity[ws] # None
                 PROVE  e.home[ws] = IF Affinity[ws] \in ToSet(e.outs) THEN Affinity[ws] ELSE None
      BY <2>n DEF Honoured
    <2>1. ws \in Workspaces
      BY <1>d, DeskFields, Numbers
    <2>2. d.home[ws] = IF Affinity[ws] \in ToSet(d.outs) THEN Affinity[ws] ELSE None
      BY <1>d DEF Honoured
    <2>3. d.home[ws] = o <=> ws \in ToSet(d.asg[o])
      BY <2>1, <1>d DEF Placed
    <2>4. e.home[ws] = IF ws \in ToSet(d.asg[o]) THEN None ELSE d.home[ws]
      BY <2>1 DEF Removed
    <2> QED
      BY <2>2, <2>3, <2>4, <1>o, Names
  <1> QED
    BY <1>1, <1>2, <1>3, <1>4, <1>5, <1>6, <1>7, <1>8, <1>9, <1>10, <1>o DEF Good, Linked

LEMMA OutputRemovedSound ==
  ASSUME NEW R, NEW d, Sound(R, d), NEW o \in ToSet(d.outs)
  PROVE  Sound(R, OutputRemoved(d, o))
  <1>d. d \in Desk /\ Typed(d) /\ Good(R, d, {}, {}) /\ Focused(d)
    BY DEF Sound, Good, Linked, Typed
  <1>o. o \in Outputs /\ d.outs # << >>
    BY <1>d, DeskFields, MembersOf
  <1> DEFINE e == [d EXCEPT
                !.outs = RemoveFirst(@, o), !.asg[o] = <<>>, !.vis[o] = NoWs,
                !.pin = [g \in Groups |-> IF @[g] = o THEN None ELSE @[g]],
                !.home = [ws \in Workspaces |->
                            IF ws \in ToSet(d.asg[o]) THEN None ELSE @[ws]]]
             f == [e EXCEPT !.fo = None]
             h == [f EXCEPT !.act = None, !.kbd = None]
  <1>1. OutputRemoved(d, o) = CASE d.fo # o -> e
          [] d.fo = o /\ e.outs # <<>> -> FocusVisible(f, Head(e.outs))
          [] OTHER -> h
    BY DEF OutputRemoved
  <1>2. RemoveFirst(d.outs, o) \in Seq(Outputs)
    BY <1>d, DeskFields, RemoveFirstIs DEF Typed
  <1>3. Removed(d, o, e)
    BY <1>d, <1>o, <1>2, RemovedIs
  <1> HIDE DEF e
  <1>4. /\ Good(R, e, {}, {}) /\ ToSet(e.outs) = ToSet(d.outs) \ {o}
        /\ e.outs \in Seq(Outputs) /\ e.fo = d.fo /\ e \in Desk
    <2>1. Good(R, e, {}, {}) /\ ToSet(e.outs) = ToSet(d.outs) \ {o}
      BY <1>3, <1>d, <1>o, RemovedGood
    <2>2. e.outs \in Seq(Outputs) /\ e.fo = d.fo /\ e \in Desk
      BY <1>3, <1>2 DEF Removed
    <2> QED
      BY <2>1, <2>2
  <1>5. CASE d.fo # o
    <2>1. d.fo \in ToSet(e.outs)
      BY <1>4, <1>5, <1>d, <1>o DEF Focused
    <2>2. Sound(R, e)
      BY <1>4, <2>1, EmptyIs DEF Sound, Focused
    <2>3. OutputRemoved(d, o) = e
      BY <1>1, <1>5
    <2> QED
      BY <2>2, <2>3
  <1>f. /\ Good(R, f, {}, {}) /\ SameOutputs(e, f) /\ Still(e, f) /\ f.fo = None
        /\ f.wact = e.wact /\ f.gact = e.gact /\ f.act = e.act
    <2>1. None \in Outputs \cup {None}
      OBVIOUS
    <2>2. /\ Good(R, [e EXCEPT !.fo = None], {}, {})
          /\ SameOutputs(e, [e EXCEPT !.fo = None])
          /\ Still(e, [e EXCEPT !.fo = None])
          /\ [e EXCEPT !.fo = None].fo = None
          /\ [e EXCEPT !.fo = None].wact = e.wact
          /\ [e EXCEPT !.fo = None].gact = e.gact
          /\ [e EXCEPT !.fo = None].act = e.act
      BY <2>1, <1>4, FocusOutputGood
    <2> QED
      BY <2>2
  <1>6. CASE d.fo = o /\ e.outs # << >>
    <2> DEFINE p == Head(e.outs)
               r == FocusVisible(f, p)
    <2>1. p \in ToSet(e.outs) /\ p \in Outputs
      BY <1>6, <1>4, MembersOf
    <2>2. OutputRemoved(d, o) = r
      BY <1>1, <1>6
    <2> HIDE DEF f, p
    <2>3. f.outs = e.outs /\ f.vis = e.vis
      BY <1>f DEF SameOutputs
    <2>4. /\ Good(R, r, {}, {}) /\ Near(f, r)
          /\ f.vis[p] # NoWs => r.fo \in ToSet(f.outs)
      BY <1>f, <2>1, <2>3, FocusVisibleGood
    <2> HIDE DEF r
    <2>5. e.vis[p] \in ToSet(e.asg[p]) /\ e.asg[p] \in Seq(Workspaces)
      BY <1>4, <2>1, DeskFields DEF Good, Placed
    <2>6. e.vis[p] # NoWs
      BY <2>5, MembersOf, Names
    <2>7. Sound(R, r)
      BY <2>3, <2>4, <2>6, <1>6 DEF Sound, Focused, Near, SameOutputs
    <2> QED
      BY <2>7, <2>2
  <1>7. CASE d.fo = o /\ e.outs = << >>
    <2>1. OutputRemoved(d, o) = h
      BY <1>1, <1>7
    <2> HIDE DEF f
    <2>2. f \in Desk
      BY <1>f DEF Good, Linked, Typed
    <2>3. /\ h \in Desk /\ SameOutputs(f, h) /\ Still(f, h) /\ h.wact = f.wact
          /\ h.gact = f.gact /\ h.act = None /\ h.kbd = None /\ h.fo = f.fo
      BY <2>2 DEF Desk, SameOutputs, Still
    <2> HIDE DEF h
    <2>4. Keyed(R, h)
      BY <2>3 DEF Keyed
    <2>5. Good(R, h, {}, {})
      BY <2>3, <2>4, <1>f, ActKbdGood
    <2>6. Sound(R, h)
      BY <2>5, <2>3, <1>f, <1>7 DEF Sound, Focused, SameOutputs
    <2> QED
      BY <2>6, <2>1
  <1> QED
    BY <1>5, <1>6, <1>7

-----------------------------------------------------------------------------
(* Groups that change their workspace.                                     *)

\* g is now a group of the workspace ws, perhaps with another pin.
Rehomed(d, g, ws, e) ==
  /\ e \in Desk /\ SameOutputs(d, e) /\ e.fo = d.fo
  /\ e.act = d.act /\ e.groups = d.groups /\ e.gwin = d.gwin /\ e.gact = d.gact
  /\ e.flt = d.flt /\ e.own = d.own /\ e.mapped = d.mapped /\ e.kbd = d.kbd
  /\ \A h \in Groups \ {g} : e.pin[h] = d.pin[h]
  /\ \A h \in Groups : e.gws[h] = IF h = g THEN ws ELSE d.gws[h]
  /\ \A w \in Windows : e.wws[w] = IF d.own[w] = g THEN ws ELSE d.wws[w]
  /\ e.wact[ws] = IF d.wact[ws] = None THEN g ELSE d.wact[ws]
  /\ d.wact[d.gws[g]] # g => e.wact[d.gws[g]] = d.wact[d.gws[g]]
  /\ d.wact[d.gws[g]] = g =>
       \/ /\ e.wact[d.gws[g]] = None
          /\ \A h \in Live(d) \ {g} : d.gws[h] # d.gws[g]
       \/ /\ e.wact[d.gws[g]] \in Live(d) \ {g}
          /\ d.gws[e.wact[d.gws[g]]] = d.gws[g]
  /\ \A x \in Workspaces \ {ws, d.gws[g]} : e.wact[x] = d.wact[x]

LEMMA RehomeIs ==
  ASSUME NEW d \in Desk, NEW g \in Groups, NEW src \in Workspaces, d.gws[g] = src,
         NEW ws \in Workspaces, ws # src
  PROVE  Rehomed(d, g, ws, Rehome(d, g, ws)) /\ Rehome(d, g, ws).pin = d.pin
  <1> DEFINE gws == [d.gws EXCEPT ![g] = ws]
             wws == [w \in Windows |-> IF d.own[w] = g THEN ws ELSE d.wws[w]]
             e == [d EXCEPT !.gws = gws, !.wws = wws]
             b == LastGroupIn(e, src)
             one == [d.wact EXCEPT ![src] = IF d.wact[src] = g THEN b ELSE d.wact[src]]
             wact == [one EXCEPT ![ws] = IF one[ws] = None THEN g ELSE one[ws]]
             r == Rehome(d, g, ws)
  <1>1. /\ gws \in [Groups -> Workspaces \cup {NoWs}]
        /\ wws \in [Windows -> Workspaces \cup {NoWs}]
    BY DeskFields
  <1>2. /\ \A h \in Groups : gws[h] = IF h = g THEN ws ELSE d.gws[h]
        /\ \A w \in Windows : wws[w] = IF d.own[w] = g THEN ws ELSE d.wws[w]
    BY DeskFields
  <1>3. Rehome(d, g, ws) =
          [[d EXCEPT !.gws[g] = ws,
                !.wws = [w \in Windows |-> IF d.own[w] = g THEN ws ELSE @[w]]] EXCEPT
            !.wact[src] = IF @ = g THEN LastGroupIn([d EXCEPT !.gws[g] = ws,
                !.wws = [w \in Windows |-> IF d.own[w] = g THEN ws ELSE @[w]]], src) ELSE @,
            !.wact[ws] = IF @ = None THEN g ELSE @]
    BY DEF Rehome
  <1>4. e = [d EXCEPT !.gws[g] = ws,
                !.wws = [w \in Windows |-> IF d.own[w] = g THEN ws ELSE @[w]]]
    BY DEF Desk
  <1>5. e \in Desk /\ e.groups = d.groups /\ e.gws = gws /\ e.wact = d.wact
    <2> HIDE DEF gws, wws
    <2> QED
      BY <1>1 DEF Desk
  <1>6. r = [e EXCEPT
            !.wact[src] = IF @ = g THEN LastGroupIn(e, src) ELSE @,
            !.wact[ws] = IF @ = None THEN g ELSE @]
    BY <1>3, <1>4
  <1> HIDE DEF e
  <1>7. Live(e) = Live(d) /\ Live(d) \in SUBSET Groups
    BY <1>5, LiveGroups DEF Live
  <1>8. \/ b = None /\ \A h \in Live(e) : e.gws[h] # src
        \/ b \in Live(e) /\ e.gws[b] = src
    BY <1>5, LastGroupInIs
  <1> HIDE DEF b
  <1>9. \/ b = None /\ \A h \in Live(d) \ {g} : d.gws[h] # src
        \/ b \in Live(d) \ {g} /\ d.gws[b] = src
    <2> HIDE DEF gws
    <2>1. CASE b = None /\ \A h \in Live(e) : e.gws[h] # src
      BY <2>1, <1>2, <1>5, <1>7
    <2>2. CASE b \in Live(e) /\ e.gws[b] = src
      BY <2>2, <1>2, <1>5, <1>7
    <2> QED
      BY <1>8, <2>1, <2>2
  <1>10. /\ one \in [Workspaces -> Groups \cup {None}]
         /\ one[src] = (IF d.wact[src] = g THEN b ELSE d.wact[src])
         /\ \A x \in Workspaces \ {src} : one[x] = d.wact[x]
    BY <1>9, <1>7, DeskFields
  <1> HIDE DEF one
  <1>11. /\ wact \in [Workspaces -> Groups \cup {None}]
         /\ wact[ws] = (IF one[ws] = None THEN g ELSE one[ws])
         /\ \A x \in Workspaces \ {ws} : wact[x] = one[x]
    BY <1>10
  <1>12. r = [d EXCEPT !.gws = gws, !.wws = wws, !.wact = wact]
    <2>1. r = [e EXCEPT !.wact = wact]
      <3> DEFINE two == [e.wact EXCEPT ![src] = IF e.wact[src] = g THEN b ELSE e.wact[src]]
      <3>1. r = [e EXCEPT !.wact = [two EXCEPT ![ws] = IF two[ws] = None THEN g ELSE two[ws]]]
        BY <1>6, <1>5 DEF b, Desk
      <3>2. two = one
        BY <1>5 DEF one
      <3> HIDE DEF two, r
      <3> QED
        BY <3>1, <3>2
    <2> HIDE DEF r, wact, gws, wws
    <2> QED
      BY <2>1 DEF e, Desk
  <1> HIDE DEF r, wact, gws, wws
  <1>13. /\ r \in Desk /\ SameOutputs(d, r) /\ r.fo = d.fo
         /\ r.act = d.act /\ r.groups = d.groups /\ r.gwin = d.gwin /\ r.gact = d.gact
         /\ r.flt = d.flt /\ r.own = d.own /\ r.mapped = d.mapped /\ r.kbd = d.kbd
         /\ r.pin = d.pin /\ r.gws = gws /\ r.wws = wws /\ r.wact = wact
    BY <1>1, <1>11, <1>12 DEF Desk, SameOutputs
  <1>14. /\ wact[ws] = IF d.wact[ws] = None THEN g ELSE d.wact[ws]
         /\ wact[src] = IF d.wact[src] = g THEN b ELSE d.wact[src]
         /\ \A x \in Workspaces \ {ws, src} : wact[x] = d.wact[x]
    BY <1>10, <1>11
  <1>15. Rehomed(d, g, ws, r)
    BY <1>2, <1>9, <1>13, <1>14 DEF Rehomed
  <1> QED
    BY <1>13, <1>15 DEF r

\* The invariant but for the pin of one group.
Loose(R, d, g, O) ==
  /\ Linked(R, d, {}) /\ Tabbed(d, {}) /\ Keyed(R, d) /\ Placed(R, d, O) /\ Honoured(d)
  /\ Unpinned(d, g)

LEMMA GoodIsLoose ==
  ASSUME NEW R, NEW d, NEW g, NEW O, Good(R, d, {}, O)
  PROVE  Loose(R, d, g, O)
  BY DEF Good, Loose, Pinned, Unpinned

LEMMA RehomedGood ==
  ASSUME NEW R, NEW d, NEW O, NEW g \in Live(d), NEW ws \in Workspaces, ws # d.gws[g],
         ws \in Spaces(d), Loose(R, d, g, O), NEW e, Rehomed(d, g, ws, e),
         e.pin[g] # None => g \in d.flt /\ ws = d.vis[e.pin[g]]
  PROVE  Good(R, e, {}, O) /\ Near(d, e) /\ Live(e) = Live(d)
  <1>1. /\ Typed(d) /\ Owned(d, {}) /\ Housed(R, d) /\ Pointed(d) /\ Blank(d) /\ Tabbed(d, {})
        /\ Keyed(R, d) /\ Unpinned(d, g) /\ Placed(R, d, O) /\ Honoured(d) /\ d \in Desk
    BY DEF Loose, Linked, Typed
  <1>2. Live(d) \in SUBSET Groups /\ g \in Groups
    BY <1>1, LiveGroups
  <1>a. d.gws[g] \in Workspaces
    BY <1>1, <1>2, DeskFields DEF Owned
  <1> DEFINE src == d.gws[g]
  <1>3. /\ e \in Desk /\ SameOutputs(d, e) /\ e.fo = d.fo
        /\ e.act = d.act /\ e.groups = d.groups /\ e.gwin = d.gwin /\ e.gact = d.gact
        /\ e.flt = d.flt /\ e.own = d.own /\ e.mapped = d.mapped /\ e.kbd = d.kbd
        /\ \A h \in Groups \ {g} : e.pin[h] = d.pin[h]
        /\ \A h \in Groups : e.gws[h] = IF h = g THEN ws ELSE d.gws[h]
        /\ \A w \in Windows : e.wws[w] = IF d.own[w] = g THEN ws ELSE d.wws[w]
    BY DEF Rehomed
  <1>4. /\ e.wact[ws] = IF d.wact[ws] = None THEN g ELSE d.wact[ws]
        /\ d.wact[src] # g => e.wact[src] = d.wact[src]
        /\ d.wact[src] = g =>
             \/ e.wact[src] = None /\ \A h \in Live(d) \ {g} : d.gws[h] # src
             \/ e.wact[src] \in Live(d) \ {g} /\ d.gws[e.wact[src]] = src
        /\ \A x \in Workspaces \ {ws, src} : e.wact[x] = d.wact[x]
    BY DEF Rehomed
  <1> HIDE DEF src
  <1>5. Live(e) = Live(d)
    BY <1>3 DEF Live
  <1>6. Typed(e)
    BY <1>1, <1>3 DEF Typed, SameOutputs
  <1>7. Owned(e, {})
    <2>1. \A h \in Groups : /\ e.gwin[h] # << >> => h \in Live(e)
                            /\ h \in Live(e) => e.gwin[h] # << >>
                            /\ h \in Live(e) => e.gws[h] # NoWs /\ e.gws[h] \in Spaces(e)
      BY <1>1, <1>3, <1>5, Names, SameSpaces DEF Owned
    <2>2. \A w \in Windows, h \in Groups : w \in ToSet(e.gwin[h]) <=> e.own[w] = h
      BY <1>1, <1>3 DEF Owned
    <2>3. \A w \in Windows : e.own[w] # None => e.wws[w] = e.gws[e.own[w]]
      <3> SUFFICES ASSUME NEW w \in Windows, d.own[w] # None
                   PROVE  e.wws[w] = e.gws[d.own[w]]
        BY <1>3
      <3>1. d.own[w] \in Groups /\ d.wws[w] = d.gws[d.own[w]]
        BY <1>1, DeskFields DEF Owned
      <3> QED
        BY <1>3, <3>1
    <2> QED
      BY <2>1, <2>2, <2>3 DEF Owned
  <1>8. Housed(R, e) /\ Blank(e) /\ Tabbed(e, {}) /\ Keyed(R, e)
    BY <1>1, <1>2, <1>3, <1>5 DEF Housed, Blank, Tabbed, Keyed
  <1>9. Pointed(e)
    <2>1. ASSUME NEW x \in Workspaces
          PROVE  /\ e.wact[x] = None <=> \A h \in Live(d) : e.gws[h] # x
                 /\ e.wact[x] # None => e.wact[x] \in Live(d) /\ e.gws[e.wact[x]] = x
      <3>0. /\ d.wact[x] = None <=> \A h \in Live(d) : d.gws[h] # x
            /\ d.wact[x] # None => d.wact[x] \in Live(d) /\ d.gws[d.wact[x]] = x
        BY <1>1 DEF Pointed
      <3>1. None \notin Live(d) /\ d.gws[g] = src /\ ws # src
        BY <1>2, Names DEF src
      <3>2. CASE x = ws
        <4>1. CASE d.wact[x] = None
          BY <4>1, <3>2, <3>1, <1>2, <1>3, <1>4
        <4>2. CASE d.wact[x] # None
          <5>1. e.wact[x] = d.wact[x] /\ d.wact[x] # g
            BY <4>2, <3>0, <3>1, <3>2, <1>4
          <5> QED
            BY <5>1, <4>2, <3>0, <1>2, <1>3
        <4> QED
          BY <4>1, <4>2
      <3>3. CASE x = src
        <4>1. d.wact[x] # None
          BY <3>0, <3>1, <3>3
        <4>2. CASE d.wact[x] = g
          BY <4>2, <3>1, <3>3, <1>2, <1>3, <1>4
        <4>3. CASE d.wact[x] # g
          <5>1. e.wact[x] = d.wact[x]
            BY <4>3, <3>3, <1>4
          <5> QED
            BY <5>1, <4>1, <4>3, <3>0, <1>2, <1>3
        <4> QED
          BY <4>2, <4>3
      <3>4. CASE x # ws /\ x # src
        <4>1. e.wact[x] = d.wact[x]
          BY <3>4, <1>4
        <4> QED
          BY <4>1, <3>0, <3>1, <3>4, <1>2, <1>3
      <3> QED
        BY <3>2, <3>3, <3>4
    <2>2. e.act # None => e.act \in Live(e)
      BY <1>1, <1>3, <1>5 DEF Pointed
    <2> QED
      BY <1>5, <2>1, <2>2 DEF Pointed
  <1>10. Pinned(e)
    <2> SUFFICES ASSUME NEW h \in Live(d), e.pin[h] # None
                 PROVE  h \in d.flt /\ e.gws[h] = d.vis[e.pin[h]]
      BY <1>3, <1>5 DEF Pinned, SameOutputs
    <2>1. CASE h = g
      BY <2>1, <1>2, <1>3
    <2>2. CASE h # g
      <3>1. d.pin[h] # None /\ e.pin[h] = d.pin[h] /\ e.gws[h] = d.gws[h]
        BY <2>2, <1>2, <1>3
      <3> QED
        BY <3>1, <2>2, <1>1 DEF Unpinned
    <2> QED
      BY <2>1, <2>2
  <1>11. Placed(R, e, O) /\ Honoured(e) /\ Near(d, e)
    BY <1>1, <1>3, OutputsKeep
  <1> QED
    BY <1>5, <1>6, <1>7, <1>8, <1>9, <1>10, <1>11 DEF Good, Linked

LEMMA StayOnGood ==
  ASSUME NEW R, NEW d, NEW O, Good(R, d, {}, O), NEW a, a = None \/ a \in Live(d)
  PROVE  /\ Good(R, StayOn(d, a), {}, O) /\ Near(d, StayOn(d, a))
         /\ Live(StayOn(d, a)) = Live(d)
  <1>1. d \in Desk /\ Live(d) \in SUBSET Groups /\ Tabbed(d, {})
    BY LiveGroups DEF Good, Linked, Typed
  <1>2. a \in Groups \cup {None} /\ None \notin Groups
    BY <1>1, Names
  <1> DEFINE e == [d EXCEPT !.act = a]
             r == StayOn(d, a)
  <1>3. e \in Desk /\ e.act = a /\ e.gact = d.gact /\ e.mapped = d.mapped
    BY <1>1, <1>2 DEF Desk
  <1>4. \E k \in Windows \cup {None} :
           /\ r = [d EXCEPT !.act = a, !.kbd = k]
           /\ a = None => k = None
           /\ a # None /\ d.gact[a] # None => k = d.gact[a]
    <2>1. CASE a # None /\ d.gact[a] # None
      <3> DEFINE k == d.gact[a]
      <3>1. k \in Windows /\ a \in Groups
        BY <2>1, <1>1, <1>2, DeskFields
      <3>2. k \in e.mapped
        BY <2>1, <1>1, <1>3 DEF Tabbed
      <3>3. r = SetActiveWindow(e, a, k)
        BY <2>1 DEF StayOn
      <3> HIDE DEF e
      <3>4. SetActiveWindow(e, a, k) = Active(e, a, k, k)
        BY <3>1, <3>2, <1>3, SetActiveWindowIs
      <3>5. Active(e, a, k, k) = [e EXCEPT !.kbd = k]
        <4>1. [e.gact EXCEPT ![a] = k] = e.gact
          BY <1>3, <3>1, DeskFields
        <4>2. Active(e, a, k, k) = [e EXCEPT !.gact = [e.gact EXCEPT ![a] = k], !.kbd = k]
          BY DEF Active
        <4> QED
          BY <4>1, <4>2, <1>3 DEF Desk
      <3>6. [e EXCEPT !.kbd = k] = [d EXCEPT !.act = a, !.kbd = k]
        BY <1>1 DEF e, Desk
      <3>7. r = [d EXCEPT !.act = a, !.kbd = k]
        BY <3>3, <3>4, <3>5, <3>6
      <3> HIDE DEF r, k
      <3>8. a # None => k = d.gact[a]
        BY DEF k
      <3> QED
        BY <3>1, <3>7, <3>8, <2>1
    <2>2. CASE ~(a # None /\ d.gact[a] # None)
      <3>1. r = [e EXCEPT !.kbd = None]
        BY <2>2 DEF StayOn
      <3>2. r = [d EXCEPT !.act = a, !.kbd = None]
        BY <3>1, <1>1 DEF Desk
      <3> HIDE DEF r
      <3> QED
        BY <2>2, <3>2
    <2> QED
      BY <2>1, <2>2
  <1>5. PICK k \in Windows \cup {None} :
           /\ r = [d EXCEPT !.act = a, !.kbd = k]
           /\ a = None => k = None
           /\ a # None /\ d.gact[a] # None => k = d.gact[a]
    BY <1>4
  <1> HIDE DEF r, e
  <1>6. /\ r \in Desk /\ SameOutputs(d, r) /\ Still(d, r) /\ r.wact = d.wact
        /\ r.gact = d.gact /\ r.act = a /\ r.kbd = k /\ r.fo = d.fo
    BY <1>1, <1>2, <1>5 DEF Desk, SameOutputs, Still
  <1>7. Keyed(R, r)
    BY <1>5, <1>6 DEF Keyed
  <1>8. Good(R, r, {}, O)
    BY <1>6, <1>7, ActKbdGood
  <1>9. Near(d, r) /\ Live(r) = Live(d)
    BY <1>6 DEF Near, Still, Live
  <1> QED
    BY <1>8, <1>9 DEF r

LEMMA MoveFloatingGood ==
  ASSUME NEW R, NEW d, NEW O, NEW g \in Live(d), NEW ws \in Workspaces, ws # d.gws[g],
         ws \in Spaces(d),
         Loose(R, d, g, O), NEW follow \in BOOLEAN,
         d.pin[g] # None =>
           g \in d.flt /\ ws = d.vis[d.pin[g]] /\ d.home[d.gws[g]] = d.home[ws]
  PROVE  Good(R, MoveFloating(d, g, ws, follow), {}, O) /\ Near(d, MoveFloating(d, g, ws, follow))
  <1>1. d \in Desk /\ Owned(d, {})
    BY DEF Loose, Linked, Typed
  <1>2. g \in Groups /\ d.gws[g] \in Workspaces
    BY <1>1, LiveGroups, DeskFields DEF Owned
  <1> DEFINE src == d.gws[g]
             c == Rehome(d, g, ws)
             pin == IF d.home[src] # d.home[ws] /\ d.pin[g] # d.home[ws] THEN None ELSE d.pin[g]
             e == [c EXCEPT !.pin[g] = IF d.home[src] # d.home[ws] /\ @ # d.home[ws]
                                       THEN None ELSE @]
  <1>3. Rehomed(d, g, ws, c) /\ c.pin = d.pin
    BY <1>1, <1>2, RehomeIs
  <1> HIDE DEF c
  <1>4. c \in Desk
    BY <1>3 DEF Rehomed
  <1>5. e = [c EXCEPT !.pin = [d.pin EXCEPT ![g] = pin]]
    BY <1>3, <1>4 DEF Desk
  <1>6. /\ pin \in Outputs \cup {None}
        /\ pin # None => pin = d.pin[g]
    BY <1>1, <1>2, DeskFields
  <1> HIDE DEF pin, e
  <1>7. /\ [d.pin EXCEPT ![g] = pin] \in [Groups -> Outputs \cup {None}]
        /\ [d.pin EXCEPT ![g] = pin][g] = pin
        /\ \A h \in Groups \ {g} : [d.pin EXCEPT ![g] = pin][h] = d.pin[h]
    BY <1>1, <1>2, <1>6, DeskFields
  <1> DEFINE pins == [d.pin EXCEPT ![g] = pin]
  <1> HIDE DEF pins
  <1>8. /\ e \in Desk /\ SameOutputs(c, e) /\ e.fo = c.fo
        /\ e.act = c.act /\ e.groups = c.groups /\ e.gwin = c.gwin /\ e.gact = c.gact
        /\ e.flt = c.flt /\ e.own = c.own /\ e.mapped = c.mapped /\ e.kbd = c.kbd
        /\ e.gws = c.gws /\ e.wws = c.wws /\ e.wact = c.wact /\ e.pin = pins
    <2>1. e = [c EXCEPT !.pin = pins] /\ pins \in [Groups -> Outputs \cup {None}]
      BY <1>5, <1>7 DEF pins
    <2> QED
      BY <2>1, <1>4 DEF Desk, SameOutputs
  <1>9. e.pin[g] = pin /\ \A h \in Groups \ {g} : e.pin[h] = d.pin[h]
    BY <1>7, <1>8 DEF pins
  <1>10. Rehomed(d, g, ws, e)
    <2>1. SameOutputs(d, e)
      BY <1>3, <1>8 DEF Rehomed, SameOutputs
    <2> QED
      BY <2>1, <1>3, <1>8, <1>9 DEF Rehomed
  <1>11. e.pin[g] # None => g \in d.flt /\ ws = d.vis[e.pin[g]]
    BY <1>6, <1>9
  <1>12. Good(R, e, {}, O) /\ Near(d, e)
    BY <1>10, <1>11, RehomedGood
  <1>13. e.wact[src] = None \/ e.wact[src] \in Live(e)
    BY <1>2, <1>12 DEF Good, Linked, Pointed
  <1> DEFINE r == StayOn(e, e.wact[src])
  <1>14. Good(R, r, {}, O) /\ Near(e, r)
    BY <1>12, <1>13, StayOnGood
  <1> HIDE DEF r
  <1>15. Near(d, r)
    BY <1>12, <1>14, NearTransitive
  <1>16. MoveFloating(d, g, ws, follow) = r \/ MoveFloating(d, g, ws, follow) = e
    BY DEF MoveFloating, c, e, r
  <1> QED
    BY <1>12, <1>14, <1>15, <1>16

LEMMA MoveTiledGood ==
  ASSUME NEW R, NEW d, NEW O, NEW g \in Live(d), NEW ws \in Workspaces, ws # d.gws[g],
         ws \in Spaces(d),
         Good(R, d, {}, O), g \notin d.flt
  PROVE  Good(R, MoveTiled(d, g, ws), {}, O) /\ Near(d, MoveTiled(d, g, ws))
  <1>1. d \in Desk /\ Owned(d, {}) /\ Pinned(d) /\ Loose(R, d, g, O)
    BY GoodIsLoose DEF Good, Linked, Typed
  <1>2. g \in Groups /\ d.gws[g] \in Workspaces /\ d.pin[g] = None
    BY <1>1, LiveGroups, DeskFields DEF Owned, Pinned
  <1> DEFINE src == d.gws[g]
             e == Rehome(d, g, ws)
             b == LastGroupIn(e, src)
             f == IF d.act = g THEN StayOn(e, b) ELSE e
             r == SetActiveWindow(f, g, f.gact[g])
  <1>3. Rehomed(d, g, ws, e) /\ e.pin = d.pin
    BY <1>1, <1>2, RehomeIs
  <1> HIDE DEF e
  <1>4. Good(R, e, {}, O) /\ Near(d, e) /\ Live(e) = Live(d)
    BY <1>1, <1>2, <1>3, RehomedGood
  <1>5. b = None \/ b \in Live(e)
    BY <1>4, LastGroupInIs DEF Good, Linked, Typed
  <1> HIDE DEF b
  <1>6. Good(R, f, {}, O) /\ Near(d, f) /\ Live(f) = Live(d)
    <2>1. Good(R, StayOn(e, b), {}, O) /\ Near(e, StayOn(e, b)) /\ Live(StayOn(e, b)) = Live(e)
      BY <1>4, <1>5, StayOnGood
    <2>2. Near(d, StayOn(e, b))
      BY <2>1, <1>4, NearTransitive
    <2>3. f = StayOn(e, b) \/ f = e
      OBVIOUS
    <2> HIDE DEF f
    <2> QED
      BY <2>1, <2>2, <2>3, <1>4
  <1>7. MoveTiled(d, g, ws) = r
    BY DEF MoveTiled, e, b
  <1> HIDE DEF f
  <1>8. Good(R, r, {}, O) /\ Near(f, r)
    BY <1>6, SetSameGood
  <1> HIDE DEF r
  <1>9. Near(d, r)
    BY <1>6, <1>8, NearTransitive
  <1> QED
    BY <1>7, <1>8, <1>9

LEMMA MoveGroupSound ==
  ASSUME NEW R, NEW d, Sound(R, d), NEW g \in Live(d), NEW ws \in Workspaces, ws # d.gws[g],
         d.home[ws] # None,
         g \in d.flt => d.pin[g] = None
  PROVE  Sound(R, MoveGroupTo(d, g, ws))
  <1> DEFINE r == MoveGroupTo(d, g, ws)
  <1>1. Good(R, d, {}, {}) /\ Focused(d) /\ Loose(R, d, g, {})
    BY GoodIsLoose DEF Sound
  <1>s. ws \in Spaces(d)
    BY <1>1, SpaceOnOutput DEF Good, Linked, Typed
  <1>2. CASE g \in d.flt
    <2>1. r = MoveFloating(d, g, ws, FALSE)
      BY <1>2 DEF MoveGroupTo
    <2>2. Good(R, MoveFloating(d, g, ws, FALSE), {}, {}) /\ Near(d, MoveFloating(d, g, ws, FALSE))
      BY <1>1, <1>s, <1>2, MoveFloatingGood
    <2> HIDE DEF r
    <2>3. Good(R, r, {}, {}) /\ Near(d, r)
      BY <2>1, <2>2
    <2>4. Sound(R, r)
      BY <2>3, <1>1, NearFocused DEF Sound
    <2> QED
      BY <2>4 DEF r
  <1>3. CASE g \notin d.flt
    <2>1. r = MoveTiled(d, g, ws)
      BY <1>3 DEF MoveGroupTo
    <2>2. Good(R, MoveTiled(d, g, ws), {}, {}) /\ Near(d, MoveTiled(d, g, ws))
      BY <1>1, <1>s, <1>3, MoveTiledGood
    <2> HIDE DEF r
    <2>3. Good(R, r, {}, {}) /\ Near(d, r)
      BY <2>1, <2>2
    <2>4. Sound(R, r)
      BY <2>3, <1>1, NearFocused DEF Sound
    <2> QED
      BY <2>4 DEF r
  <1> QED
    BY <1>2, <1>3

LEMMA SetPinnedSound ==
  ASSUME NEW R, NEW d, Sound(R, d), NEW g \in Live(d), g \in d.flt, d.home[d.gws[g]] # None,
         NEW pinned \in BOOLEAN
  PROVE  Sound(R, SetPinned(d, g, pinned))
  <1>1. /\ d \in Desk /\ Owned(d, {}) /\ Placed(R, d, {}) /\ Good(R, d, {}, {}) /\ Focused(d)
    BY DEF Sound, Good, Linked, Typed
  <1>2. g \in Groups /\ d.gws[g] \in Workspaces
    BY <1>1, LiveGroups, DeskFields DEF Owned
  <1> DEFINE o == d.home[d.gws[g]]
             p == IF pinned THEN o ELSE None
             e == [d EXCEPT !.pin[g] = p]
  <1>3. o \in Outputs /\ o \in ToSet(d.outs)
    BY <1>1, <1>2, DeskFields DEF Placed
  <1>4. p \in Outputs \cup {None}
    BY <1>3
  <1>5. SetPinned(d, g, pinned) =
          IF pinned /\ d.vis[o] \notin {NoWs, d.gws[g]}
          THEN MoveFloating(e, g, d.vis[o], TRUE) ELSE e
    BY DEF SetPinned
  <1>6. d.vis[o] \in Workspaces /\ d.home[d.vis[o]] = o /\ d.vis[o] \in Spaces(d)
    <2>1. d.asg[o] \in Seq(Workspaces) /\ d.vis[o] \in ToSet(d.asg[o])
      BY <1>1, <1>3, DeskFields DEF Placed
    <2>2. d.vis[o] \in Workspaces
      BY <2>1, MembersOf
    <2>3. d.home[d.vis[o]] = o
      BY <2>1, <2>2, <1>1, <1>3 DEF Placed
    <2> QED
      BY <2>2, <2>3, <1>1, <1>3, SpaceOnOutput, Names
  <1> DEFINE pins == [d.pin EXCEPT ![g] = p]
  <1>7. /\ pins \in [Groups -> Outputs \cup {None}] /\ pins[g] = p
        /\ \A h \in Groups \ {g} : pins[h] = d.pin[h]
    BY <1>1, <1>2, <1>4, DeskFields
  <1>8. e = [d EXCEPT !.pin = pins]
    BY <1>1 DEF Desk
  <1>o. o = d.home[d.gws[g]] /\ (pinned => p = o) /\ (~pinned => p = None)
    OBVIOUS
  <1> HIDE DEF pins, p, o, e
  <1>9. /\ Replaced(d, e, g) /\ e.pin[g] = p /\ e.flt = d.flt
        /\ e.gws = d.gws /\ e.vis = d.vis /\ e.home = d.home /\ e.groups = d.groups
    BY <1>1, <1>7, <1>8 DEF Desk, Replaced, SameOutputs, SameWindows
  <1>10. CASE pinned /\ d.vis[o] \notin {NoWs, d.gws[g]}
    <2>1. Loose(R, e, g, {}) /\ Near(d, e) /\ Live(e) = Live(d)
      BY <1>1, <1>9, ReplacedKeeps DEF Loose
    <2>2. d.vis[o] # e.gws[g] /\ g \in Live(e) /\ d.vis[o] \in Spaces(e)
      BY <1>6, <1>9, <1>10, <2>1, SameSpaces DEF Near
    <2>3. e.pin[g] # None =>
            g \in e.flt /\ d.vis[o] = e.vis[e.pin[g]] /\ e.home[e.gws[g]] = e.home[d.vis[o]]
      BY <1>9, <1>10, <1>6, <1>o
    <2> DEFINE r == MoveFloating(e, g, d.vis[o], TRUE)
    <2>4. Good(R, r, {}, {}) /\ Near(e, r)
      BY <2>1, <2>2, <2>3, <1>6, MoveFloatingGood
    <2>5. SetPinned(d, g, pinned) = r
      BY <1>5, <1>10
    <2> HIDE DEF r
    <2>6. Sound(R, r)
      BY <2>1, <2>4, <1>1, NearTransitive, NearFocused DEF Sound
    <2> QED
      BY <2>5, <2>6
  <1>11. CASE ~(pinned /\ d.vis[o] \notin {NoWs, d.gws[g]})
    <2>1. SetPinned(d, g, pinned) = e
      BY <1>5, <1>11
    <2>2. e.pin[g] # None => g \in e.flt /\ e.gws[g] = e.vis[e.pin[g]]
      BY <1>9, <1>11, <1>6, <1>o, Names
    <2>3. Good(R, e, {}, {}) /\ Near(d, e)
      BY <1>1, <1>9, <2>2, ReplacedGood
    <2>4. Sound(R, e)
      BY <2>3, <1>1, NearFocused DEF Sound
    <2> QED
      BY <2>1, <2>4
  <1> QED
    BY <1>10, <1>11

LEMMA MoveSound ==
  ASSUME NEW R, NEW d, Sound(R, d), NEW w \in Windows, NEW t \in Live(d), d.own[w] \notin {None, t}
  PROVE  Sound(R, MoveWindow(d, w, t)) /\ JoinsOnly(d, MoveWindow(d, w, t), w, t)
  <1> DEFINE r == MoveWindow(d, w, t)
  <1>1. Good(R, d, {}, {}) /\ Focused(d) /\ \A h \in {} : h = t
    BY DEF Sound
  <1>2. Good(R, r, {}, {}) /\ Near(d, r) /\ JoinsOnly(d, r, w, t)
    BY <1>1, MoveWindowGood
  <1> HIDE DEF r
  <1>3. Sound(R, r)
    BY <1>1, <1>2, NearFocused DEF Sound
  <1> QED
    BY <1>2, <1>3 DEF r

LEMMA MoveToWsSound ==
  ASSUME NEW R, NEW d, Sound(R, d), NEW w \in Windows, d.own[w] # None, NEW ws \in Workspaces,
         d.gws[d.own[w]] # ws, d.home[ws] # None
  PROVE  Sound(R, MoveWindowToWs(d, w, ws))
  <1>1. d \in Desk /\ Pointed(d) /\ Placed(R, d, {})
    BY DEF Sound, Good, Linked, Typed
  <1>s. ws \in Spaces(d)
    BY <1>1, SpaceOnOutput
  <1>2. CASE d.wact[ws] # None
    <2>1. d.wact[ws] \in Live(d) /\ d.gws[d.wact[ws]] = ws
      BY <1>1, <1>2 DEF Pointed
    <2>2. d.own[w] # d.wact[ws]
      BY <2>1
    <2>3. MoveWindowToWs(d, w, ws) = MoveWindow(d, w, d.wact[ws])
      BY <1>2 DEF MoveWindowToWs
    <2>4. Sound(R, MoveWindow(d, w, d.wact[ws]))
      BY <2>1, <2>2, MoveSound
    <2> QED
      BY <2>3, <2>4
  <1>3. CASE d.wact[ws] = None
    <2>1. MoveWindowToWs(d, w, ws) = Detach(d, w, ws)
      BY <1>3 DEF MoveWindowToWs
    <2> QED
      BY <2>1, <1>s, DetachSound
  <1> QED
    BY <1>2, <1>3

LEMMA FocusSound ==
  ASSUME NEW R, NEW d, Sound(R, d), NEW w \in Windows
  PROVE  Sound(R, FocusWindow(d, w)) /\ Still(d, FocusWindow(d, w))
  <1> DEFINE r == FocusWindow(d, w)
  <1>1. Good(R, d, {}, {}) /\ Focused(d)
    BY DEF Sound
  <1>2. Good(R, r, {}, {}) /\ Near(d, r) /\ Still(d, r)
    BY <1>1, FocusWindowGood
  <1> HIDE DEF r
  <1>3. Sound(R, r)
    BY <1>1, <1>2, NearFocused DEF Sound
  <1> QED
    BY <1>2, <1>3 DEF r

\* The window next to the active one is one of those on show.
LEMMA AdjacentIs ==
  ASSUME NEW d \in Desk, NEW g \in Groups, NEW forward, Adjacent(d, g, forward) # None
  PROVE  Adjacent(d, g, forward) \in d.mapped
  <1> DEFINE s == d.gwin[g]
             n == Len(s)
             i == SelectInSeq(s, LAMBDA x : x = d.gact[g])
             At(k) == s[1 + ((IF forward THEN i - 1 + k ELSE i - 1 + n - k) % n)]
             ks == {k \in 1..(n - 1) : At(k) \in d.mapped}
  <1>1. Adjacent(d, g, forward) = IF d.gact[g] = None \/ ks = {} THEN None ELSE At(Min(ks))
    BY DEF Adjacent
  <1>2. ks # {} /\ Adjacent(d, g, forward) = At(Min(ks))
    BY <1>1
  <1>3. ks \in SUBSET Nat
    <2>1. n \in Nat
      BY DeskFields, LenProperties
    <2> HIDE DEF n, At
    <2>2. \A k \in 1..(n - 1) : k \in Nat
      BY <2>1
    <2> QED
      BY <2>2
  <1>4. Min(ks) \in ks
    <2> HIDE DEF ks
    <2> QED
      BY <1>2, <1>3, MinOf
  <1>5. At(Min(ks)) \in d.mapped
    BY <1>4
  <1> QED
    BY <1>2, <1>5

LEMMA CycleSound ==
  ASSUME NEW R, NEW d, Sound(R, d), d.act # None, NEW forward, Adjacent(d, d.act, forward) # None
  PROVE  Sound(R, CycleWindow(d, forward))
  <1>1. d \in Desk /\ d.act \in Groups
    BY DeskFields DEF Sound, Good, Linked, Typed
  <1> DEFINE w == Adjacent(d, d.act, forward)
  <1>2. w \in d.mapped
    BY <1>1, AdjacentIs
  <1> HIDE DEF w
  <1>3. w \in Windows
    BY <1>1, <1>2, DeskFields
  <1>4. Sound(R, FocusWindow(d, w))
    BY <1>3, FocusSound
  <1> QED
    BY <1>4 DEF CycleWindow, w

\* Nothing of the invariant is about fullscreen windows.
LEMMA FullscreenSound ==
  ASSUME NEW R, NEW d, Sound(R, d), NEW w \in Windows, NEW on \in BOOLEAN
  PROVE  Sound(R, SetFullscreen(d, w, on))
  <1>1. d \in Desk /\ Good(R, d, {}, {}) /\ Focused(d) /\ Keyed(R, d) /\ Pointed(d)
    BY DEF Sound, Good, Linked, Typed
  <1> DEFINE full == IF on THEN d.full \cup {w} ELSE d.full \ {w}
             e == SetFullscreen(d, w, on)
  <1>2. e = [d EXCEPT !.full = full] /\ full \in SUBSET Windows
    BY <1>1, DeskFields DEF SetFullscreen
  <1> HIDE DEF e, full
  <1>3. /\ e \in Desk /\ SameOutputs(d, e) /\ Still(d, e) /\ e.wact = d.wact
        /\ e.gact = d.gact /\ e.act = d.act /\ e.kbd = d.kbd /\ e.fo = d.fo
    BY <1>1, <1>2 DEF Desk, SameOutputs, Still
  <1>4. Keyed(R, e) /\ (e.act # None => e.act \in Live(d))
    BY <1>1, <1>3 DEF Keyed, Pointed
  <1>5. Good(R, e, {}, {})
    BY <1>1, <1>3, <1>4, ActKbdGood
  <1>6. Sound(R, e)
    BY <1>1, <1>3, <1>5 DEF Sound, Focused, SameOutputs
  <1> QED
    BY <1>6 DEF e

-----------------------------------------------------------------------------
(* Clients.                                                                *)

\* A window of no group joins one.
LEMMA JoinSound ==
  ASSUME NEW R, NEW d, Sound(R, d), NEW w \in Windows, d.own[w] = None, NEW g \in Live(d),
         NEW S, Recast(R, S, R.mapped, R.outside \ {w})
  PROVE  Sound(S, AddWindow(d, g, w))
  <1> DEFINE r == AddWindow(d, g, w)
  <1>1. Good(R, d, {}, {}) /\ Focused(d)
    BY DEF Sound
  <1>2. Good(S, r, {} \ {g}, {}) /\ Near(d, r)
    BY <1>1, AddWindowGood
  <1>3. {} \ {g} = {}
    OBVIOUS
  <1> HIDE DEF r
  <1>4. Sound(S, r)
    BY <1>1, <1>2, <1>3, NearFocused DEF Sound
  <1> QED
    BY <1>4 DEF r

\* A window of no group gets one of its own.
LEMMA FoundSound ==
  ASSUME NEW R, NEW d, Sound(R, d), NEW w \in Windows, d.own[w] = None, NEW ws \in Workspaces,
         ws \in Spaces(d), NEW S, Recast(R, S, R.mapped, R.outside \ {w})
  PROVE  Sound(S, AddWindow(CreateGroup(d, ws), NewGroup(d), w))
  <1> DEFINE g == NewGroup(d)
             c == CreateGroup(d, ws)
             r == AddWindow(c, g, w)
  <1>1. Good(R, d, {}, {}) /\ Focused(d)
    BY DEF Sound
  <1>2. /\ Good(R, c, {g}, {}) /\ Near(d, c) /\ SameWindows(d, c)
        /\ Live(c) = Live(d) \cup {g}
    BY <1>1, CreateGroupGood
  <1> HIDE DEF c, g
  <1>3. g \in Live(c) /\ c.own[w] = None
    BY <1>2 DEF SameWindows
  <1>4. Good(S, r, {g} \ {g}, {}) /\ Near(c, r)
    BY <1>2, <1>3, AddWindowGood
  <1>5. {g} \ {g} = {}
    OBVIOUS
  <1> HIDE DEF r
  <1>6. Sound(S, r)
    BY <1>1, <1>2, <1>4, <1>5, NearTransitive, NearFocused DEF Sound
  <1> QED
    BY <1>6 DEF r, c, g

\* A window joins the active group of a workspace, or a new one.
LEMMA NewToplevelSound ==
  ASSUME NEW R, NEW d, Sound(R, d), NEW w \in Windows, d.own[w] = None, NEW ws \in Workspaces,
         ws \in Spaces(d), NEW S, Recast(R, S, R.mapped, R.outside \ {w})
  PROVE  Sound(S, IF d.wact[ws] # None THEN AddWindow(d, d.wact[ws], w)
               ELSE AddWindow(CreateGroup(d, ws), NewGroup(d), w))
  <1>1. CASE d.wact[ws] # None
    <2>1. d.wact[ws] \in Live(d)
      BY <1>1 DEF Sound, Good, Linked, Pointed
    <2>2. Sound(S, AddWindow(d, d.wact[ws], w))
      BY <2>1, JoinSound
    <2> QED
      BY <1>1, <2>2
  <1>2. CASE d.wact[ws] = None
    <2>1. Sound(S, AddWindow(CreateGroup(d, ws), NewGroup(d), w))
      BY FoundSound
    <2> QED
      BY <1>2, <2>1
  <1> QED
    BY <1>1, <1>2

\* Other windows are on show.
Remapped(d, m, e) ==
  /\ e \in Desk /\ SameOutputs(d, e) /\ e.fo = d.fo
  /\ e.groups = d.groups /\ e.gws = d.gws /\ e.gwin = d.gwin /\ e.own = d.own
  /\ e.wws = d.wws /\ e.flt = d.flt /\ e.pin = d.pin /\ e.wact = d.wact
  /\ e.act = d.act /\ e.gact = d.gact /\ e.kbd = d.kbd
  /\ e.mapped = m

LEMMA RemappedIs ==
  ASSUME NEW d \in Desk, NEW m \in SUBSET Windows
  PROVE  Remapped(d, m, [d EXCEPT !.mapped = m])
  BY DEF Desk, Remapped, SameOutputs

LEMMA RemappedGood ==
  ASSUME NEW R, NEW d, Good(R, d, {}, {}), NEW m, NEW e, Remapped(d, m, e), NEW X,
         \A g \in Live(d) \ X : d.gact[g] # None => d.gact[g] \in m,
         NEW S, Recast(R, S, m, R.outside)
  PROVE  /\ Almost(S, e, {}, X, {}) /\ Near(d, e) /\ Live(e) = Live(d)
         /\ X = {} => Good(S, e, {}, {})
  <1>1. /\ Typed(d) /\ Owned(d, {}) /\ Housed(R, d) /\ Pointed(d) /\ Blank(d) /\ Tabbed(d, {})
        /\ Keyed(R, d) /\ Pinned(d) /\ Placed(R, d, {}) /\ Honoured(d)
    BY DEF Good, Linked, Typed
  <1>2. /\ e \in Desk /\ SameOutputs(d, e) /\ e.fo = d.fo
        /\ e.groups = d.groups /\ e.gws = d.gws /\ e.gwin = d.gwin /\ e.own = d.own
        /\ e.wws = d.wws /\ e.flt = d.flt /\ e.pin = d.pin /\ e.wact = d.wact
        /\ e.act = d.act /\ e.gact = d.gact /\ e.kbd = d.kbd
        /\ e.mapped = m
    BY DEF Remapped
  <1>3. Live(e) = Live(d)
    BY <1>2 DEF Live
  <1>4. Typed(e)
    BY <1>1, <1>2 DEF Typed, SameOutputs
  <1>5. Owned(e, {})
    BY <1>1, <1>2, <1>3, SameSpaces DEF Owned
  <1>6. Housed(S, e)
    BY <1>1, <1>2 DEF Housed, Recast
  <1>7. Pointed(e) /\ Blank(e) /\ Keyed(S, e)
    BY <1>1, <1>2, <1>3 DEF Pointed, Blank, Keyed, Recast
  <1>8. Tabbed(e, X)
    BY <1>1, <1>2, <1>3 DEF Tabbed
  <1>9. Pinned(e)
    BY <1>1, <1>2, <1>3 DEF Pinned, SameOutputs
  <1>10. Placed(S, e, {}) /\ Honoured(e) /\ Near(d, e)
    <2>1. Placed(S, d, {})
      BY <1>1 DEF Placed, Recast
    <2> QED
      BY <1>1, <1>2, <2>1, OutputsKeep
  <1>11. Almost(S, e, {}, X, {})
    BY <1>4, <1>5, <1>6, <1>7, <1>8, <1>9, <1>10 DEF Almost, Linked
  <1> QED
    BY <1>3, <1>10, <1>11 DEF Almost, Good

\* Any window is shown.
LEMMA ShowSound ==
  ASSUME NEW R, NEW d, NEW p, Focused(d), Good(R, p, {}, {}), Near(d, p),
         NEW w \in Windows, NEW S, Recast(R, S, R.mapped \cup {w}, R.outside)
  PROVE  Sound(S, [p EXCEPT !.mapped = @ \cup {w}])
  <1>1. p \in Desk /\ Housed(R, p) /\ Tabbed(p, {}) /\ Focused(p)
    BY NearFocused DEF Good, Linked, Typed
  <1> DEFINE m == p.mapped \cup {w}
             e == [p EXCEPT !.mapped = @ \cup {w}]
  <1>2. m \in SUBSET Windows /\ e = [p EXCEPT !.mapped = m]
    BY <1>1, DeskFields DEF Desk
  <1> HIDE DEF e
  <1>3. Remapped(p, m, e)
    BY <1>1, <1>2, RemappedIs
  <1>4. Recast(R, S, m, R.outside)
    BY <1>1 DEF Housed
  <1>5. \A g \in Live(p) \ {} : p.gact[g] # None => p.gact[g] \in m
    BY <1>1 DEF Tabbed
  <1> HIDE DEF m
  <1>6. Good(S, e, {}, {}) /\ Near(p, e)
    BY <1>3, <1>4, <1>5, RemappedGood
  <1>7. Sound(S, e)
    BY <1>1, <1>6, NearFocused DEF Sound
  <1> QED
    BY <1>7 DEF e

LEMMA MapSound ==
  ASSUME NEW R, NEW d, NEW p, Focused(d), Good(R, p, {}, {}), Near(d, p),
         NEW w \in Windows, NEW S, Recast(R, S, R.mapped \cup {w}, R.outside)
  PROVE  Sound(S, FocusWindow([p EXCEPT !.mapped = @ \cup {w}], w))
  <1> DEFINE e == [p EXCEPT !.mapped = @ \cup {w}]
  <1>1. Sound(S, e)
    BY ShowSound
  <1> HIDE DEF e
  <1>2. Sound(S, FocusWindow(e, w))
    BY <1>1, FocusSound
  <1> QED
    BY <1>2 DEF e

\* A window that is the active one of no group is hidden.
LEMMA HideSound ==
  ASSUME NEW R, NEW d, Sound(R, d), NEW w \in Windows,
         \A h \in Live(d) : d.gact[h] # w,
         NEW S, Recast(R, S, R.mapped \ {w}, R.outside)
  PROVE  Sound(S, [d EXCEPT !.mapped = @ \ {w}])
  <1> DEFINE e == [d EXCEPT !.mapped = @ \ {w}]
             m == d.mapped \ {w}
  <1>1. d \in Desk /\ Housed(R, d) /\ Tabbed(d, {}) /\ Focused(d) /\ Good(R, d, {}, {})
    BY DEF Sound, Good, Linked, Typed
  <1>2. m \in SUBSET Windows /\ e = [d EXCEPT !.mapped = m]
    BY <1>1, DeskFields DEF Desk
  <1> HIDE DEF e
  <1>3. Remapped(d, m, e)
    BY <1>1, <1>2, RemappedIs
  <1>4. Recast(R, S, m, R.outside)
    BY <1>1 DEF Housed
  <1>5. \A h \in Live(d) \ {} : d.gact[h] # None => d.gact[h] \in m
    BY <1>1 DEF Tabbed
  <1> HIDE DEF m
  <1>6. Good(S, e, {}, {}) /\ Near(d, e)
    BY <1>1, <1>3, <1>4, <1>5, RemappedGood
  <1>7. Sound(S, e)
    BY <1>1, <1>6, NearFocused DEF Sound
  <1> QED
    BY <1>7 DEF e

\* A window of a group is hidden.
LEMMA UnmapSound ==
  ASSUME NEW R, NEW d, Sound(R, d), NEW w \in Windows, NEW g \in Groups, d.own[w] = g,
         NEW e, e = [d EXCEPT !.mapped = @ \ {w}],
         NEW S, Recast(R, S, R.mapped \ {w}, R.outside)
  PROVE  Sound(S, IF d.gact[g] = w THEN SetActiveWindow(e, g, LastMapped(e, g)) ELSE e)
  <1>1. /\ d \in Desk /\ Housed(R, d) /\ Tabbed(d, {}) /\ Focused(d) /\ Good(R, d, {}, {})
        /\ Owned(d, {})
    BY DEF Sound, Good, Linked, Typed
  <1> DEFINE m == d.mapped \ {w}
  <1>2. m \in SUBSET Windows /\ e = [d EXCEPT !.mapped = m]
    BY <1>1, DeskFields DEF Desk
  <1>3. Remapped(d, m, e)
    BY <1>1, <1>2, RemappedIs
  <1>4. Recast(R, S, m, R.outside)
    BY <1>1 DEF Housed
  <1>g. g \in Live(d)
    BY <1>1, OwnerIs, Names
  <1>5. CASE d.gact[g] = w
    <2>1. \A h \in Live(d) \ {g} : d.gact[h] # None => d.gact[h] \in m
      BY <1>1 DEF Tabbed
    <2> HIDE DEF m
    <2>2. Almost(S, e, {}, {g}, {}) /\ Near(d, e) /\ Live(e) = Live(d)
      BY <1>1, <1>3, <1>4, <2>1, RemappedGood
    <2> DEFINE r == SetActiveWindow(e, g, LastMapped(e, g))
    <2>3. Good(S, r, {}, {}) /\ Near(e, r)
      BY <2>2, <1>g, SetLastGood
    <2> HIDE DEF r
    <2>4. Sound(S, r)
      BY <2>2, <2>3, <1>1, NearTransitive, NearFocused DEF Sound
    <2> QED
      BY <2>4, <1>5 DEF r
  <1>6. CASE d.gact[g] # w
    <2>1. \A h \in Live(d) : d.gact[h] # w
      BY <1>1, <1>6, LiveGroups, Names DEF Tabbed
    <2>2. Sound(S, e)
      BY <2>1, HideSound
    <2> QED
      BY <2>2, <1>6
  <1> QED
    BY <1>5, <1>6

LEMMA DestroySound ==
  ASSUME NEW R, NEW d, Sound(R, d), NEW w \in Windows, w \notin d.mapped,
         NEW S, Recast(R, S, R.mapped, R.outside \cup {w})
  PROVE  Sound(S, [RemoveWindow(d, w) EXCEPT
                  !.wws[w] = NoWs, !.full = @ \ {w},
                  !.kbd = IF @ = w THEN None ELSE @])
  <1> DEFINE r == RemoveWindow(d, w)
             e == [r EXCEPT !.wws[w] = NoWs, !.full = @ \ {w},
                            !.kbd = IF @ = w THEN None ELSE @]
             wws == [r.wws EXCEPT ![w] = NoWs]
             full == r.full \ {w}
             kbd == IF r.kbd = w THEN None ELSE r.kbd
  <1>1. Good(R, d, {}, {}) /\ Focused(d)
    BY DEF Sound
  <1>2. Good(S, r, {}, {}) /\ Near(d, r) /\ r.own[w] = None /\ r.mapped = d.mapped
    BY <1>1, RemoveWindowGood
  <1> HIDE DEF r
  <1>3. /\ r \in Desk /\ Typed(r) /\ Owned(r, {}) /\ Housed(S, r) /\ Pointed(r) /\ Blank(r)
        /\ Tabbed(r, {}) /\ Keyed(S, r) /\ Pinned(r) /\ Placed(S, r, {}) /\ Honoured(r)
    BY <1>2 DEF Good, Linked, Typed
  <1>4. /\ wws \in [Windows -> Workspaces \cup {NoWs}] /\ full \in SUBSET Windows
        /\ kbd \in Windows \cup {None}
        /\ \A v \in Windows \ {w} : wws[v] = r.wws[v]
    BY <1>3, DeskFields
  <1>5. e = [r EXCEPT !.wws = wws, !.full = full, !.kbd = kbd]
    BY <1>3 DEF Desk
  <1>k. kbd = (IF r.kbd = w THEN None ELSE r.kbd)
    OBVIOUS
  <1> HIDE DEF e, wws, full, kbd
  <1>6. /\ e \in Desk /\ SameOutputs(r, e) /\ e.fo = r.fo
        /\ e.groups = r.groups /\ e.gws = r.gws /\ e.gwin = r.gwin /\ e.own = r.own
        /\ e.flt = r.flt /\ e.pin = r.pin /\ e.wact = r.wact /\ e.mapped = r.mapped
        /\ e.act = r.act /\ e.gact = r.gact /\ e.wws = wws /\ e.kbd = kbd
    BY <1>3, <1>4, <1>5 DEF Desk, SameOutputs
  <1>7. Live(e) = Live(r)
    BY <1>6 DEF Live
  <1>8. Typed(e)
    BY <1>3, <1>6 DEF Typed, SameOutputs
  <1>9. Owned(e, {})
    BY <1>2, <1>3, <1>4, <1>6, <1>7, SameSpaces DEF Owned
  <1>10. Housed(S, e) /\ Pointed(e) /\ Blank(e) /\ Tabbed(e, {})
    BY <1>3, <1>6, <1>7 DEF Housed, Pointed, Blank, Tabbed
  <1>11. Keyed(S, e)
    <2>1. ASSUME r.act # None, r.gact[r.act] # None PROVE r.gact[r.act] # w
      BY <2>1, <1>2, <1>3 DEF Tabbed, Pointed
    <2> QED
      BY <2>1, <1>3, <1>6, <1>k DEF Keyed
  <1>12. Pinned(e)
    BY <1>3, <1>6, <1>7 DEF Pinned, SameOutputs
  <1>13. Placed(S, e, {}) /\ Honoured(e) /\ Near(r, e)
    BY <1>3, <1>6, OutputsKeep
  <1>14. Good(S, e, {}, {})
    BY <1>8, <1>9, <1>10, <1>11, <1>12, <1>13 DEF Good, Linked
  <1>15. Sound(S, e)
    BY <1>1, <1>2, <1>13, <1>14, NearTransitive, NearFocused DEF Sound
  <1> QED
    BY <1>15 DEF e, r

-----------------------------------------------------------------------------
(* The invariant of the desktop.                                           *)

LEMMA InitSound ==
  ASSUME NEW R, R.mapped = {}, R.outside = Windows, R.spaces = {}, Init
  PROVE  Sound(R, desk)
  <1> SUFFICES Sound(R, InitialDesk)
    BY DEF Init
  <1> DEFINE d == InitialDesk
  <1>1. d \in Desk
    <2>1. Configured \in 0..MaxWs
      BY Numbers
    <2>2. << >> \in Seq(Outputs) /\ << >> \in Seq(Groups) /\ << >> \in Seq(Workspaces)
          /\ << >> \in Seq(Windows)
      OBVIOUS
    <2> QED
      BY <2>1, <2>2 DEF InitialDesk, Desk
  <1>2. /\ d.outs = << >> /\ d.groups = << >> /\ d.fo = None /\ d.nws = Configured
        /\ d.act = None /\ d.kbd = None /\ d.mapped = {} /\ d.flt = {}
        /\ d.home = [ws \in Workspaces |-> None] /\ d.asg = [o \in Outputs |-> << >>]
        /\ d.vis = [o \in Outputs |-> NoWs] /\ d.wact = [ws \in Workspaces |-> None]
        /\ d.gwin = [g \in Groups |-> << >>] /\ d.gact = [g \in Groups |-> None]
        /\ d.pin = [g \in Groups |-> None] /\ d.own = [w \in Windows |-> None]
    BY DEF InitialDesk
  <1> HIDE DEF d
  <1>3. Live(d) = {} /\ ToSet(d.outs) = {} /\ ToSet(<< >>) = {}
    BY <1>2, EmptyIs DEF Live
  <1>4. Typed(d)
    BY <1>1, <1>2, EmptyIs DEF Typed
  <1>5. Owned(d, {})
    BY <1>2, <1>3, Names DEF Owned
  <1>6. Housed(R, d) /\ Pointed(d) /\ Blank(d) /\ Tabbed(d, {}) /\ Keyed(R, d) /\ Pinned(d)
    BY <1>2, <1>3 DEF Housed, Pointed, Blank, Tabbed, Keyed, Pinned
  <1>7. Placed(R, d, {})
    BY <1>2, <1>3, Names, Numbers DEF Placed
  <1>8. Honoured(d)
    <2>1. \A ws \in 1..Configured : ws \in Workspaces
      BY Numbers
    <2> QED
      BY <2>1, <1>2, <1>3 DEF Honoured
  <1>9. Focused(d)
    BY <1>2 DEF Focused
  <1> QED
    BY <1>4, <1>5, <1>6, <1>7, <1>8, <1>9 DEF Sound, Good, Linked, d

\* What Sound says of the windows of a group.
LEMMA TabsAre ==
  ASSUME NEW R, NEW d, Sound(R, d)
  PROVE  /\ d \in Desk /\ d.mapped \in SUBSET Windows
         /\ \A w \in Windows : d.own[w] # None =>
              /\ d.own[w] \in Groups /\ d.own[w] \in Live(d)
              /\ d.gws[d.own[w]] \in Workspaces
              /\ d.gws[d.own[w]] \in Spaces(d)
         /\ Live(d) \in SUBSET Groups
         /\ FocusedWs(d) \in Workspaces \cup {NoWs}
         /\ FocusedWs(d) # NoWs => FocusedWs(d) \in Spaces(d)
  <1>1. d \in Desk /\ Owned(d, {}) /\ Housed(R, d)
    BY DEF Sound, Good, Linked, Typed
  <1>2. \A w \in Windows : d.own[w] # None =>
          /\ d.own[w] \in Groups /\ d.own[w] \in Live(d)
          /\ d.gws[d.own[w]] \in Workspaces /\ d.gws[d.own[w]] \in Spaces(d)
    BY <1>1, OwnerIs
  <1>3. FocusedWs(d) \in Workspaces \cup {NoWs}
    BY <1>1, DeskFields DEF FocusedWs
  <1>4. FocusedWs(d) # NoWs => FocusedWs(d) \in Spaces(d)
    BY FocusedSpace
  <1> QED
    BY <1>1, <1>2, <1>3, <1>4, DeskFields, LiveGroups

LEMMA OutputStepSound ==
  ASSUME NEW R, Sound(R, desk), OutputStep
  PROVE  Sound(R, desk')
  <1>1. PICK o \in Outputs : OutputAdd(o) \/ OutputRemove(o)
    BY DEF OutputStep
  <1>2. CASE OutputAdd(o)
    BY <1>2, OutputAddedSound DEF OutputAdd, Plugged
  <1>3. CASE OutputRemove(o)
    BY <1>3, OutputRemovedSound DEF OutputRemove, Plugged
  <1> QED
    BY <1>1, <1>2, <1>3

LEMMA WindowMapSound ==
  ASSUME NEW R, Sound(R, desk), NEW w \in Windows, NEW rule, WindowMap(w, rule),
         NEW S, Recast(R, S, R.mapped \cup {w}, R.outside)
  PROVE  Sound(S, desk')
  <1> DEFINE p == CASE rule = "floating" -> MakeFloating(desk, w)
                    [] rule = "tiled" -> MakeTiled(desk, w)
                    [] OTHER -> desk
  <1>1. desk' = FocusWindow([p EXCEPT !.mapped = @ \cup {w}], w) /\ desk.own[w] # None
    BY DEF WindowMap, Managed
  <1>2. Good(R, desk, {}, {}) /\ Focused(desk)
    BY DEF Sound
  <1>3. Good(R, p, {}, {}) /\ Near(desk, p) /\ Keeps(desk, p)
    <2>1. /\ Good(R, MakeFloating(desk, w), {}, {}) /\ Near(desk, MakeFloating(desk, w))
          /\ Keeps(desk, MakeFloating(desk, w))
      BY <1>2, MakeFloatingGood
    <2>2. /\ Good(R, MakeTiled(desk, w), {}, {}) /\ Near(desk, MakeTiled(desk, w))
          /\ Keeps(desk, MakeTiled(desk, w))
      BY <1>2, MakeTiledGood
    <2>3. Near(desk, desk) /\ Keeps(desk, desk)
      BY DEF Near, SameOutputs, Keeps
    <2>4. p = MakeFloating(desk, w) \/ p = MakeTiled(desk, w) \/ p = desk
      OBVIOUS
    <2> HIDE DEF p
    <2> QED
      BY <1>2, <2>1, <2>2, <2>3, <2>4
  <1> HIDE DEF p
  <1>4. Sound(S, FocusWindow([p EXCEPT !.mapped = @ \cup {w}], w))
    BY <1>2, <1>3, MapSound
  <1> QED
    BY <1>1, <1>4

LEMMA NewWindowSound ==
  ASSUME NEW R, Sound(R, desk), NEW w \in Windows, NewToplevel(w),
         NEW S, Recast(R, S, R.mapped, R.outside \ {w})
  PROVE  Sound(S, desk')
  <1> DEFINE ws == FocusedWs(desk)
  <1>1. /\ desk' = IF desk.wact[ws] # None THEN AddWindow(desk, desk.wact[ws], w)
                   ELSE AddWindow(CreateGroup(desk, ws), NewGroup(desk), w)
        /\ ws # NoWs /\ desk.own[w] = None
    BY DEF NewToplevel, Managed
  <1>2. ws \in Workspaces /\ ws \in Spaces(desk)
    BY <1>1, FocusedSpace
  <1> HIDE DEF ws
  <1>3. Sound(S, IF desk.wact[ws] # None THEN AddWindow(desk, desk.wact[ws], w)
                 ELSE AddWindow(CreateGroup(desk, ws), NewGroup(desk), w))
    BY <1>1, <1>2, NewToplevelSound
  <1> QED
    BY <1>1, <1>3

LEMMA WindowUnmapSound ==
  ASSUME NEW R, Sound(R, desk), NEW w \in Windows, WindowUnmap(w),
         NEW S, Recast(R, S, R.mapped \ {w}, R.outside)
  PROVE  Sound(S, desk')
  <1> DEFINE g == desk.own[w]
             e == [desk EXCEPT !.mapped = @ \ {w}]
  <1>1. /\ desk' = IF desk.gact[g] = w THEN SetActiveWindow(e, g, LastMapped(e, g)) ELSE e
        /\ g # None
    BY DEF WindowUnmap, Tabs, Managed
  <1>2. g \in Groups /\ desk.own[w] = g /\ e = [desk EXCEPT !.mapped = @ \ {w}]
    BY <1>1, TabsAre
  <1> HIDE DEF e, g
  <1>3. Sound(S, IF desk.gact[g] = w THEN SetActiveWindow(e, g, LastMapped(e, g)) ELSE e)
    BY <1>2, UnmapSound
  <1> QED
    BY <1>1, <1>3

LEMMA WindowDestroySound ==
  ASSUME NEW R, Sound(R, desk), NEW w \in Windows, WindowDestroy(w),
         NEW S, Recast(R, S, R.mapped, R.outside \cup {w})
  PROVE  Sound(S, desk')
  <1>1. /\ w \notin desk.mapped
        /\ desk' = [RemoveWindow(desk, w) EXCEPT
                      !.wws[w] = NoWs, !.full = @ \ {w},
                      !.kbd = IF @ = w THEN None ELSE @]
    BY DEF WindowDestroy
  <1>2. Sound(S, [RemoveWindow(desk, w) EXCEPT
                    !.wws[w] = NoWs, !.full = @ \ {w},
                    !.kbd = IF @ = w THEN None ELSE @])
    BY <1>1, DestroySound
  <1> QED
    BY <1>1, <1>2

\* The requests of a window that is there.
LEMMA RequestSound ==
  ASSUME NEW R, Sound(R, desk), NEW w \in Windows
  PROVE  /\ RequestActivate(w) => Sound(R, desk')
         /\ \A on \in BOOLEAN : RequestFullscreen(w, on) => Sound(R, desk')
  <1>1. RequestActivate(w) => Sound(R, desk')
    BY FocusSound DEF RequestActivate
  <1>2. ASSUME NEW on \in BOOLEAN, RequestFullscreen(w, on) PROVE Sound(R, desk')
    BY <1>2, FullscreenSound DEF RequestFullscreen
  <1> QED
    BY <1>1, <1>2

LEMMA PointSound ==
  ASSUME NEW R, NEW d, Sound(R, d), NEW o \in ToSet(d.outs)
  PROVE  /\ Sound(R, [d EXCEPT !.fo = o])
         /\ [d EXCEPT !.fo = o] \in Desk
  <1>1. Good(R, d, {}, {}) /\ Focused(d) /\ d \in Desk
    BY DEF Sound, Good, Linked, Typed
  <1>2. o \in Outputs \cup {None}
    BY <1>1, DeskFields, MembersOf
  <1> DEFINE e == [d EXCEPT !.fo = o]
  <1>3. Good(R, e, {}, {}) /\ e \in Desk
    <2>1. Good(R, e, {}, {})
      BY <1>1, <1>2, FocusOutputGood
    <2> QED
      BY <2>1 DEF Good, Linked, Typed
  <1>4. e.outs = d.outs /\ e.fo = o
    BY <1>1 DEF Desk
  <1> HIDE DEF e
  <1>5. Sound(R, e)
    BY <1>3, <1>4, EmptyIs DEF Sound, Focused
  <1> QED
    BY <1>3, <1>5 DEF e

LEMMA PointerStepSound ==
  ASSUME NEW R, Sound(R, desk), PointerStep
  PROVE  Sound(R, desk')
  <1>1. CASE \E o \in Outputs : PointerOnOutput(o)
    BY <1>1, PointSound DEF PointerOnOutput, Plugged
  <1>2. CASE \E w \in Windows : PointerOnWindow(w)
    <2>1. PICK w \in Windows : PointerOnWindow(w)
      BY <1>2
    <2> DEFINE o == desk.home[WsOf(w)]
               e == [desk EXCEPT !.fo = o]
    <2>2. desk' = FocusWindow(e, w) /\ o # None /\ desk.own[w] # None
      BY <2>1 DEF PointerOnWindow, IsVisible, Tabs, Managed
    <2>3. WsOf(w) \in Workspaces
      BY <2>2, TabsAre DEF WsOf
    <2>4. o \in ToSet(desk.outs)
      BY <2>2, <2>3 DEF Sound, Good, Placed
    <2> HIDE DEF o
    <2>5. Sound(R, e)
      BY <2>4, PointSound
    <2> HIDE DEF e
    <2> QED
      BY <2>2, <2>5, FocusSound
  <1> QED
    BY <1>1, <1>2 DEF PointerStep

LEMMA FocusStepSound ==
  ASSUME NEW R, Sound(R, desk), FocusStep
  PROVE  Sound(R, desk')
  <1>t. /\ desk \in Desk /\ desk.mapped \in SUBSET Windows
        /\ Live(desk) \in SUBSET Groups
    BY TabsAre
  <1>1. CASE WorkspaceNext
    BY <1>1, NextSound DEF WorkspaceNext
  <1>2. CASE WorkspacePrevious
    BY <1>2, PreviousSound DEF WorkspacePrevious
  <1>3. CASE \E ws \in Workspaces : WorkspaceActivate(ws)
    BY <1>3, ActivateGood DEF WorkspaceActivate
  <1>4. CASE \E g \in Groups : GroupFocus(g)
    <2>1. PICK g \in Groups : GroupFocus(g)
      BY <1>4
    <2> DEFINE w == desk.gact[g]
    <2>2. desk' = FocusWindowId(desk, w) /\ w \in desk.mapped /\ g \in Live(desk)
      BY <2>1 DEF GroupFocus
    <2>3. w \in Windows
      BY <2>2, <1>t
    <2>4. desk.own[w] = g
      BY <2>2, <2>3, Names DEF Sound, Good, Tabbed
    <2>5. desk.own[w] # None
      BY <2>4, Names
    <2> HIDE DEF w
    <2> QED
      BY <2>2, <2>3, <2>5, FocusIdGood
  <1>5. CASE \E w \in Windows : WindowFocus(w)
    BY <1>5, FocusIdGood DEF WindowFocus, Tabs, Managed
  <1>6. CASE \E forward \in BOOLEAN : WindowCycle(forward)
    BY <1>6, CycleSound DEF WindowCycle
  <1>7. CASE \E g \in Groups : FocusDirection(g)
    <2>1. PICK g \in Groups : FocusDirection(g)
      BY <1>7
    <2> DEFINE w == desk.gact[g]
    <2>2. desk' = FocusWindow(desk, w) /\ w \in desk.mapped
      BY <2>1 DEF FocusDirection
    <2> HIDE DEF w
    <2> QED
      BY <2>2, <1>t, FocusSound
  <1>8. CASE ToggleFullscreen
    <2> DEFINE w == desk.gact[desk.act]
               on == w \notin desk.full
    <2>1. desk' = SetFullscreen(desk, w, on) /\ w \in desk.mapped
      BY <1>8 DEF ToggleFullscreen, ToggleActive
    <2>2. w \in Windows /\ on \in BOOLEAN
      BY <2>1, <1>t
    <2> HIDE DEF w, on
    <2> QED
      BY <2>1, <2>2, FullscreenSound
  <1> QED
    BY <1>1, <1>2, <1>3, <1>4, <1>5, <1>6, <1>7, <1>8 DEF FocusStep

LEMMA NearSound ==
  ASSUME NEW R, NEW d, NEW e, Sound(R, d), Good(R, e, {}, {}), Near(d, e)
  PROVE  Sound(R, e)
  BY NearFocused DEF Sound

LEMMA PlaceStepSound ==
  ASSUME NEW R, Sound(R, desk), PlaceStep
  PROVE  Sound(R, desk')
  <1>t. /\ Good(R, desk, {}, {}) /\ Live(desk) \in SUBSET Groups
    BY TabsAre DEF Sound
  <1>1. CASE \E w \in Windows : WindowFloat(w)
    BY <1>1, <1>t, MakeFloatingGood, NearSound DEF WindowFloat
  <1>2. CASE \E w \in Windows : WindowTile(w)
    BY <1>2, <1>t, MakeTiledGood, NearSound DEF WindowTile
  <1>3. CASE \E g \in Groups : GroupFloat(g)
    BY <1>3, <1>t, FloatGroupGood, NearSound DEF GroupFloat
  <1>4. CASE \E g \in Groups : GroupTile(g)
    BY <1>4, <1>t, TileGroupGood, NearSound DEF GroupTile
  <1>5. CASE \E g \in Groups, pinned \in BOOLEAN : GroupSetPinned(g, pinned)
    BY <1>5, SetPinnedSound DEF GroupSetPinned
  <1>6. CASE \E g \in Groups, ws \in Workspaces : GroupToWorkspace(g, ws)
    BY <1>6, MoveGroupSound DEF GroupToWorkspace
  <1>7. CASE \E w \in Windows, ws \in Workspaces : WindowToWorkspace(w, ws)
    BY <1>7, MoveToWsSound DEF WindowToWorkspace, WsOf, Managed
  <1> QED
    BY <1>1, <1>2, <1>3, <1>4, <1>5, <1>6, <1>7 DEF PlaceStep

LEMMA BesideSound ==
  ASSUME NEW R, Sound(R, desk), NEW w \in Windows, NEW ref \in Windows, NEW before \in BOOLEAN,
         WindowBeside(w, ref, before)
  PROVE  Sound(R, desk')
  <1> DEFINE t == desk.own[ref]
             e == MoveWindow(desk, w, t)
             r == PlaceBeside(e, w, ref, before)
  <1>1. /\ w # ref /\ desk.own[w] # None /\ desk.own[ref] # None
        /\ desk' = r
    BY DEF WindowBeside, Tabs, Managed
  <1>2. t \in Groups /\ t \in Live(desk) /\ t = desk.own[ref]
    BY <1>1, TabsAre
  <1>3. Sound(R, e) /\ e.own[w] = t /\ e.own[ref] = t
    <2>1. CASE desk.own[w] = t
      <3>1. e = desk
        BY <2>1 DEF MoveWindow
      <3> QED
        BY <3>1, <2>1
    <2>2. CASE desk.own[w] # t
      <3> HIDE DEF t
      <3>1. Sound(R, e) /\ JoinsOnly(desk, e, w, t)
        BY <2>2, <1>1, <1>2, MoveSound
      <3> HIDE DEF e
      <3> QED
        BY <3>1, <1>1, <1>2 DEF JoinsOnly
    <2> QED
      BY <2>1, <2>2
  <1> HIDE DEF e, t
  <1>4. Good(R, e, {}, {})
    BY <1>3 DEF Sound
  <1>5. Good(R, r, {}, {}) /\ Near(e, r)
    BY <1>1, <1>2, <1>3, <1>4, PlaceBesideGood
  <1> HIDE DEF r
  <1> QED
    BY <1>1, <1>3, <1>5, NearSound

LEMMA GroupingStepSound ==
  ASSUME NEW R, Sound(R, desk), GroupingStep
  PROVE  Sound(R, desk')
  <1>t. /\ desk \in Desk /\ desk.mapped \in SUBSET Windows
        /\ \A w \in Windows : desk.own[w] # None =>
             /\ desk.own[w] \in Groups /\ desk.own[w] \in Live(desk)
             /\ desk.gws[desk.own[w]] \in Workspaces
        /\ Live(desk) \in SUBSET Groups
    BY TabsAre
  <1>1. CASE \E w \in Windows, g \in Groups : WindowToGroup(w, g)
    <2>1. PICK w \in Windows, g \in Groups : WindowToGroup(w, g)
      BY <1>1
    <2>2. /\ desk.own[w] \notin {None, g} /\ g \in Live(desk)
          /\ desk' = MoveWindow(desk, w, g)
      BY <2>1 DEF WindowToGroup, Managed
    <2> QED
      BY <2>2, MoveSound
  <1>2. CASE \E w, ref \in Windows, before \in BOOLEAN : WindowBeside(w, ref, before)
    BY <1>2, BesideSound
  <1>3. CASE \E w \in Windows, target \in Groups : WindowToZone(w, target)
    <2>1. PICK w \in Windows, target \in Groups : WindowToZone(w, target)
      BY <1>3
    <2>2. desk.own[w] # None /\ desk' = Detach(desk, w, WsOf(w))
      BY <2>1 DEF WindowToZone, Tabs, Managed
    <2>3. WsOf(w) \in Workspaces /\ WsOf(w) \in Spaces(desk)
      BY <2>2, TabsAre DEF WsOf
    <2> QED
      BY <2>2, <2>3, DetachSound
  <1>4. CASE \E s, t \in Groups : GroupMerge(s, t)
    BY <1>4, MergeSound DEF GroupMerge
  <1>5. CASE \E v, w \in Windows, g \in Groups : WindowRangeToGroup(v, w, g)
    <2>1. PICK v \in Windows, w \in Windows, g \in Groups : WindowRangeToGroup(v, w, g)
      BY <1>5
    <2>2. /\ desk.own[v] # None /\ desk.own[w] = desk.own[v]
          /\ g \in Live(desk) /\ g # desk.own[v]
          /\ Between(desk, v, w) # << >>
          /\ desk' = MoveWindows(desk, Between(desk, v, w), g)
      BY <2>1 DEF WindowRangeToGroup, Managed
    <2>3. desk.own[v] \in Groups
      BY <2>2, <1>t
    <2> QED
      BY <2>2, <2>3, RangeSound
  <1>6. CASE SplitActiveWindow
    <2>1. FocusedWs(desk) \in Workspaces
      BY <1>6, TabsAre DEF SplitActiveWindow
    <2> QED
      BY <2>1, <1>6, SplitActiveSound DEF SplitActiveWindow
  <1>7. CASE \E w \in Windows : SplitWindow(w)
    <2>1. PICK w \in Windows : SplitWindow(w)
      BY <1>7
    <2>2. /\ w \in desk.mapped /\ desk.own[w] # None /\ desk.own[w] \notin desk.flt
          /\ desk.home[desk.gws[desk.own[w]]] # None
          /\ desk' = SplitWindowOut(desk, w)
      BY <2>1 DEF SplitWindow, Tabs, Managed, WsOf
    <2> QED
      BY <2>2, SplitWindowSound
  <1>8. CASE \E w \in Windows : SplitAt(w)
    <2>1. PICK w \in Windows : SplitAt(w)
      BY <1>8
    <2>2. desk.own[w] # None /\ desk' = SplitGroupAt(desk, w)
      BY <2>1 DEF SplitAt, Tabs, Managed
    <2>3. desk.own[w] \in Groups
      BY <2>2, <1>t
    <2> QED
      BY <2>2, <2>3, SplitAtSound
  <1> QED
    BY <1>1, <1>2, <1>3, <1>4, <1>5, <1>6, <1>7, <1>8 DEF GroupingStep

-----------------------------------------------------------------------------
(* The order of the tabs, action by action.                                *)

\* Of two tabs that changed sides on the way from d to e, one is x.
Turned(d, e, x) ==
  \A v, w \in Windows : Precedes(d, v, w) /\ Precedes(e, w, v) => x \in {v, w}

LEMMA BesideTurns ==
  ASSUME NEW R, Sound(R, desk), NEW w \in Windows, NEW ref \in Windows, NEW before \in BOOLEAN,
         WindowBeside(w, ref, before)
  PROVE  Turned(desk, desk', w)
  <1> DEFINE t == desk.own[ref]
             e == MoveWindow(desk, w, t)
             r == PlaceBeside(e, w, ref, before)
  <1>1. /\ w # ref /\ desk.own[w] # None /\ desk.own[ref] # None
        /\ desk' = r
    BY DEF WindowBeside, Tabs, Managed
  <1>2. t \in Groups /\ t \in Live(desk) /\ t = desk.own[ref]
    BY <1>1, TabsAre
  <1>3. Typed(desk) /\ Owned(desk, {})
    BY DEF Sound, Good, Linked
  <1>4. Sound(R, e) /\ e.own[w] = t /\ e.own[ref] = t /\ Straight(desk, e)
    <2>1. CASE desk.own[w] = t
      <3>1. e = desk
        BY <2>1 DEF MoveWindow
      <3>2. Straight(desk, desk)
        BY <1>3, SameStraight DEF SameLists
      <3> QED
        BY <2>1, <3>1, <3>2
    <2>2. CASE desk.own[w] # t
      <3> HIDE DEF t
      <3>1. Sound(R, e) /\ JoinsOnly(desk, e, w, t)
        BY <2>2, <1>1, <1>2, MoveSound
      <3>2. Straight(desk, e)
        BY <1>1, <1>2, <1>3, <2>2, MoveStraight
      <3> HIDE DEF e
      <3> QED
        BY <3>1, <3>2, <1>1, <1>2 DEF JoinsOnly
    <2> QED
      BY <2>1, <2>2
  <1> HIDE DEF e, t
  <1>5. Good(R, e, {}, {})
    BY <1>4 DEF Sound
  <1>6. \A v, x : v # w /\ x # w /\ Precedes(r, v, x) => Precedes(e, v, x)
    BY <1>1, <1>2, <1>4, <1>5, PlaceBesideGood
  <1> HIDE DEF r
  <1> QED
    BY <1>1, <1>4, <1>6 DEF Turned, Straight

LEMMA DestroyStraight ==
  ASSUME NEW R, Sound(R, desk), NEW w \in Windows, WindowDestroy(w)
  PROVE  Straight(desk, desk')
  <1> DEFINE r == RemoveWindow(desk, w)
  <1>1. Typed(desk) /\ Owned(desk, {})
    BY DEF Sound, Good, Linked
  <1>2. Straight(desk, r) /\ HasLists(r)
    BY <1>1, RemoveStraight
  <1>3. desk' = [r EXCEPT !.wws[w] = NoWs, !.full = @ \ {w},
                          !.kbd = IF @ = w THEN None ELSE @]
    BY DEF WindowDestroy
  <1> HIDE DEF r
  <1>4. SameLists(r, desk')
    BY <1>2, <1>3 DEF HasLists, SameLists
  <1> QED
    BY <1>2, <1>4, StraightThenSame

LEMMA ClientStepStraight ==
  ASSUME NEW R, Sound(R, desk), ClientStep
  PROVE  Straight(desk, desk')
  <1>t. /\ Typed(desk) /\ Owned(desk, {}) /\ HasLists(desk) /\ Good(R, desk, {}, {})
        /\ SameLists(desk, desk)
    BY DEF Sound, Good, Linked, Typed, Desk, HasLists, SameLists
  <1>1. PICK w \in Windows :
          \/ NewToplevel(w)
          \/ \E rule \in {"none", "floating", "tiled"} : WindowMap(w, rule)
          \/ WindowUnmap(w)
          \/ WindowDestroy(w)
          \/ \E on \in BOOLEAN : RequestFullscreen(w, on)
          \/ RequestActivate(w)
    BY DEF ClientStep
  <1>2. CASE NewToplevel(w)
    <2> DEFINE ws == FocusedWs(desk)
               c == CreateGroup(desk, ws)
               g == NewGroup(desk)
    <2>1. /\ ws # NoWs /\ desk.own[w] = None
          /\ desk' = IF desk.wact[ws] # None THEN AddWindow(desk, desk.wact[ws], w)
                     ELSE AddWindow(c, g, w)
      BY <1>2 DEF NewToplevel, Managed
    <2>2. ws \in Workspaces /\ ws \in Spaces(desk)
      BY <2>1, FocusedSpace
    <2> HIDE DEF ws
    <2>3. CASE desk.wact[ws] # None
      <3>1. desk.wact[ws] \in Groups
        BY <1>t, <2>2, <2>3, DeskFields DEF Typed
      <3> QED
        BY <1>t, <2>1, <2>3, <3>1, JoinStraight
    <2>4. CASE desk.wact[ws] = None
      <3>1. Good(R, c, {g}, {}) /\ SameWindows(desk, c) /\ g \in Groups
        BY <1>t, <2>2, CreateGroupGood
      <3>2. SameLists(desk, c)
        BY <1>t, ListsPlace
      <3> HIDE DEF c, g
      <3>3. Straight(c, AddWindow(c, g, w))
        BY <2>1, <3>1, JoinStraight DEF Good, Linked, SameWindows
      <3> QED
        BY <2>1, <2>4, <3>2, <3>3, SameThenStraight
    <2> QED
      BY <2>3, <2>4
  <1>3. CASE \E rule \in {"none", "floating", "tiled"} : WindowMap(w, rule)
    <2>1. PICK rule \in {"none", "floating", "tiled"} : WindowMap(w, rule)
      BY <1>3
    <2> DEFINE p == CASE rule = "floating" -> MakeFloating(desk, w)
                      [] rule = "tiled" -> MakeTiled(desk, w)
                      [] OTHER -> desk
               m == [p EXCEPT !.mapped = @ \cup {w}]
    <2>2. desk' = FocusWindow(m, w)
      BY <2>1 DEF WindowMap
    <2>3. Straight(desk, p) /\ HasLists(p)
      <3>1. /\ Good(R, MakeFloating(desk, w), {}, {}) /\ Good(R, MakeTiled(desk, w), {}, {})
        BY <1>t, MakeFloatingGood, MakeTiledGood
      <3>2. /\ Straight(desk, MakeFloating(desk, w)) /\ Straight(desk, MakeTiled(desk, w))
            /\ Straight(desk, desk)
        BY <1>t, RuleStraight, SameStraight
      <3>3. HasLists(MakeFloating(desk, w)) /\ HasLists(MakeTiled(desk, w))
        BY <3>1 DEF Good, Linked, Typed, Desk, HasLists
      <3>4. p = MakeFloating(desk, w) \/ p = MakeTiled(desk, w) \/ p = desk
        OBVIOUS
      <3> HIDE DEF p
      <3> QED
        BY <1>t, <3>2, <3>3, <3>4
    <2> HIDE DEF p
    <2>4. SameLists(p, m)
      BY <2>3 DEF HasLists, SameLists
    <2> HIDE DEF m
    <2>5. SameLists(p, FocusWindow(m, w))
      BY <2>3, <2>4, ListsFocus, SameListsTransitive DEF HasLists, SameLists
    <2> QED
      BY <2>2, <2>3, <2>5, StraightThenSame
  <1>4. CASE WindowUnmap(w)
    <2> DEFINE g == desk.own[w]
               e == [desk EXCEPT !.mapped = @ \ {w}]
    <2>1. desk' = SetActiveWindow(e, g, LastMapped(e, g)) \/ desk' = e
      BY <1>4 DEF WindowUnmap
    <2>2. SameLists(desk, e)
      BY <1>t DEF HasLists, SameLists
    <2> HIDE DEF e
    <2>3. SameLists(desk, desk')
      BY <1>t, <2>1, <2>2, ListsFocus, SameListsTransitive DEF HasLists, SameLists
    <2> QED
      BY <1>t, <2>3, SameStraight
  <1>5. CASE WindowDestroy(w)
    BY <1>5, DestroyStraight
  <1>6. CASE \E on \in BOOLEAN : RequestFullscreen(w, on)
    <2>1. SameLists(desk, desk')
      BY <1>t, <1>6 DEF RequestFullscreen, SetFullscreen, HasLists, SameLists
    <2> QED
      BY <1>t, <2>1, SameStraight
  <1>7. CASE RequestActivate(w)
    <2>1. SameLists(desk, desk')
      BY <1>t, <1>7, ListsFocus DEF RequestActivate
    <2> QED
      BY <1>t, <2>1, SameStraight
  <1> QED
    BY <1>1, <1>2, <1>3, <1>4, <1>5, <1>6, <1>7

\* Outputs, the pointer, and the actions that only show and focus.
LEMMA ShowStepLists ==
  ASSUME HasLists(desk), OutputStep \/ PointerStep \/ FocusStep
  PROVE  SameLists(desk, desk')
  <1>1. CASE OutputStep
    BY <1>1, ListsOutput DEF OutputStep, OutputAdd, OutputRemove
  <1>2. CASE PointerStep
    <2>1. CASE \E o \in Outputs : PointerOnOutput(o)
      BY <2>1 DEF PointerOnOutput, HasLists, SameLists
    <2>2. CASE \E w \in Windows : PointerOnWindow(w)
      <3>1. PICK w \in Windows : PointerOnWindow(w)
        BY <2>2
      <3> DEFINE e == [desk EXCEPT !.fo = desk.home[WsOf(w)]]
      <3>2. desk' = FocusWindow(e, w)
        BY <3>1 DEF PointerOnWindow
      <3>3. SameLists(desk, e)
        BY DEF HasLists, SameLists
      <3> HIDE DEF e
      <3> QED
        BY <3>2, <3>3, ListsFocus, SameListsTransitive DEF HasLists, SameLists
    <2> QED
      BY <1>2, <2>1, <2>2 DEF PointerStep
  <1>3. CASE FocusStep
    <2>1. CASE WorkspaceNext \/ WorkspacePrevious
      BY <2>1, ListsOutput DEF WorkspaceNext, WorkspacePrevious
    <2>2. CASE \E ws \in Workspaces : WorkspaceActivate(ws)
      BY <2>2, ListsSwitch DEF WorkspaceActivate
    <2>3. CASE (\E g \in Groups : GroupFocus(g)) \/ (\E w \in Windows : WindowFocus(w))
      BY <2>3, ListsSwitch DEF GroupFocus, WindowFocus
    <2>4. CASE \E forward \in BOOLEAN : WindowCycle(forward)
      BY <2>4, ListsFocus DEF WindowCycle, CycleWindow
    <2>5. CASE \E g \in Groups : FocusDirection(g)
      BY <2>5, ListsFocus DEF FocusDirection
    <2>6. CASE ToggleFullscreen
      BY <2>6 DEF ToggleFullscreen, ToggleActive, SetFullscreen, HasLists, SameLists
    <2> QED
      BY <1>3, <2>1, <2>2, <2>3, <2>4, <2>5, <2>6 DEF FocusStep
  <1> QED
    BY <1>1, <1>2, <1>3

LEMMA PlaceStepStraight ==
  ASSUME NEW R, Sound(R, desk), PlaceStep
  PROVE  Straight(desk, desk')
  <1>t. /\ Typed(desk) /\ Owned(desk, {}) /\ HasLists(desk) /\ Good(R, desk, {}, {})
        /\ Pointed(desk) /\ Placed(R, desk, {})
    BY DEF Sound, Good, Linked, Typed, Desk, HasLists
  <1>1. CASE (\E w \in Windows : WindowFloat(w)) \/ (\E w \in Windows : WindowTile(w))
    BY <1>1, <1>t, RuleStraight DEF WindowFloat, WindowTile
  <1>2. CASE \/ \E g \in Groups : GroupFloat(g)
             \/ \E g \in Groups : GroupTile(g)
             \/ \E g \in Groups, pinned \in BOOLEAN : GroupSetPinned(g, pinned)
             \/ \E g \in Groups, ws \in Workspaces : GroupToWorkspace(g, ws)
    <2>1. SameLists(desk, desk')
      BY <1>2, <1>t, ListsPlace DEF GroupFloat, GroupTile, GroupSetPinned, GroupToWorkspace
    <2> QED
      BY <1>t, <2>1, SameStraight
  <1>3. CASE \E w \in Windows, ws \in Workspaces : WindowToWorkspace(w, ws)
    <2>1. PICK w \in Windows, ws \in Workspaces : WindowToWorkspace(w, ws)
      BY <1>3
    <2>2. /\ desk.own[w] # None /\ desk.home[ws] # None /\ desk.gws[desk.own[w]] # ws
          /\ desk' = MoveWindowToWs(desk, w, ws)
      BY <2>1 DEF WindowToWorkspace, Managed, WsOf
    <2>3. CASE desk.wact[ws] # None
      <3>1. desk.wact[ws] \in Groups /\ desk.gws[desk.wact[ws]] = ws
        BY <1>t, <2>3, DeskFields DEF Pointed, Typed
      <3>2. desk' = MoveWindow(desk, w, desk.wact[ws])
        BY <2>2, <2>3 DEF MoveWindowToWs
      <3> QED
        BY <1>t, <2>2, <3>1, <3>2, MoveStraight
    <2>4. CASE desk.wact[ws] = None
      <3>1. desk' = Detach(desk, w, ws)
        BY <2>2, <2>4 DEF MoveWindowToWs
      <3>2. ws \in Spaces(desk)
        BY <1>t, <2>2, SpaceOnOutput DEF Typed
      <3> QED
        BY <1>t, <2>2, <3>1, <3>2, DetachStraight
    <2> QED
      BY <2>3, <2>4
  <1> QED
    BY <1>1, <1>2, <1>3 DEF PlaceStep

LEMMA SplitActiveStraight ==
  ASSUME NEW R, NEW d, Sound(R, d), d.act # None, d.gact[d.act] # None, FocusedWs(d) \in Workspaces
  PROVE  Straight(d, SplitActive(d))
  <1>1. d \in Desk /\ Pointed(d) /\ Tabbed(d, {}) /\ Good(R, d, {}, {})
    BY DEF Sound, Good, Linked, Typed
  <1>2. d.act \in Groups /\ d.gact[d.act] \in Windows
    BY <1>1, DeskFields
  <1>3. d.act \in Live(d)
    BY <1>1 DEF Pointed
  <1>4. d.own[d.gact[d.act]] # None
    BY <1>1, <1>2, <1>3, Names DEF Tabbed
  <1>5. FocusedWs(d) \in Spaces(d)
    BY FocusedSpace, Names
  <1> QED
    BY <1>1, <1>2, <1>4, <1>5, DetachStraight DEF SplitActive

LEMMA GroupingStepTurns ==
  ASSUME NEW R, Sound(R, desk), GroupingStep
  PROVE  \/ Straight(desk, desk')
         \/ \E w, ref \in Windows, before \in BOOLEAN :
              WindowBeside(w, ref, before) /\ Turned(desk, desk', w)
  <1>t. /\ Typed(desk) /\ Owned(desk, {}) /\ HasLists(desk) /\ Good(R, desk, {}, {})
        /\ desk.mapped \in SUBSET Windows
        /\ \A w \in Windows : desk.own[w] # None =>
             /\ desk.own[w] \in Groups /\ desk.own[w] \in Live(desk)
             /\ desk.gws[desk.own[w]] \in Workspaces
    BY TabsAre DEF Sound, Good, Linked, Typed, Desk, HasLists
  <1>1. CASE \E w \in Windows, g \in Groups : WindowToGroup(w, g)
    BY <1>1, <1>t, MoveStraight DEF WindowToGroup, Managed
  <1>2. CASE \E w, ref \in Windows, before \in BOOLEAN : WindowBeside(w, ref, before)
    BY <1>2, BesideTurns
  <1>3. CASE \E w \in Windows, target \in Groups : WindowToZone(w, target)
    <2>1. PICK w \in Windows, target \in Groups : WindowToZone(w, target)
      BY <1>3
    <2>2. desk.own[w] # None /\ desk' = Detach(desk, w, WsOf(w))
      BY <2>1 DEF WindowToZone, Tabs, Managed
    <2>3. WsOf(w) \in Workspaces /\ WsOf(w) \in Spaces(desk)
      BY <2>2, TabsAre DEF WsOf
    <2> QED
      BY <1>t, <2>2, <2>3, DetachStraight
  <1>4. CASE \E s, t \in Groups : GroupMerge(s, t)
    BY <1>4, MergeSound DEF GroupMerge
  <1>5. CASE \E v, w \in Windows, g \in Groups : WindowRangeToGroup(v, w, g)
    <2>1. PICK v \in Windows, w \in Windows, g \in Groups : WindowRangeToGroup(v, w, g)
      BY <1>5
    <2>2. /\ desk.own[v] # None /\ desk.own[w] = desk.own[v]
          /\ g \in Live(desk) /\ g # desk.own[v]
          /\ Between(desk, v, w) # << >>
          /\ desk' = MoveWindows(desk, Between(desk, v, w), g)
      BY <2>1 DEF WindowRangeToGroup, Managed
    <2>3. desk.own[v] \in Groups
      BY <2>2, <1>t
    <2> QED
      BY <2>2, <2>3, RangeSound
  <1>6. CASE SplitActiveWindow
    <2>1. FocusedWs(desk) \in Workspaces
      BY <1>6, TabsAre DEF SplitActiveWindow
    <2> QED
      BY <2>1, <1>6, SplitActiveStraight DEF SplitActiveWindow
  <1>7. CASE \E w \in Windows : SplitWindow(w)
    <2>1. PICK w \in Windows : SplitWindow(w)
      BY <1>7
    <2> DEFINE e == FocusWindowId(desk, w)
    <2>2. /\ w \in desk.mapped /\ desk.own[w] # None /\ desk.own[w] \notin desk.flt
          /\ desk.home[desk.gws[desk.own[w]]] # None
          /\ desk' = SplitActive(e)
      BY <2>1 DEF SplitWindow, Tabs, Managed, WsOf, SplitWindowOut
    <2>3. desk.own[w] \in Groups
      BY <1>t, <2>2
    <2>4. Sound(R, e)
      BY <2>2, FocusIdGood
    <2>5. e.act = desk.own[w] /\ e.gact[e.act] = w /\ FocusedWs(e) \in Workspaces
      BY <2>2, <2>3, FocusIdShows
    <2>6. SameLists(desk, e)
      BY <1>t, ListsSwitch
    <2> HIDE DEF e
    <2>7. Straight(e, SplitActive(e))
      BY <2>3, <2>4, <2>5, Names, SplitActiveStraight
    <2> QED
      BY <2>2, <2>6, <2>7, SameThenStraight
  <1>8. CASE \E w \in Windows : SplitAt(w)
    <2>1. PICK w \in Windows : SplitAt(w)
      BY <1>8
    <2>2. desk.own[w] # None /\ desk' = SplitGroupAt(desk, w)
      BY <2>1 DEF SplitAt, Tabs, Managed
    <2>3. desk.own[w] \in Groups
      BY <2>2, <1>t
    <2> QED
      BY <2>2, <2>3, SplitAtSound
  <1> QED
    BY <1>1, <1>2, <1>3, <1>4, <1>5, <1>6, <1>7, <1>8 DEF GroupingStep

LEMMA NextTurns ==
  ASSUME NEW R, Sound(R, desk), [Next]_desk
  PROVE  \/ Straight(desk, desk')
         \/ \E w, ref \in Windows, before \in BOOLEAN :
              WindowBeside(w, ref, before) /\ Turned(desk, desk', w)
  <1>1. Typed(desk) /\ Owned(desk, {}) /\ HasLists(desk)
    BY DEF Sound, Good, Linked, Typed, Desk, HasLists
  <1>2. CASE OutputStep \/ PointerStep \/ FocusStep
    BY <1>1, <1>2, ShowStepLists, SameStraight
  <1>3. CASE ClientStep
    BY <1>3, ClientStepStraight
  <1>4. CASE PlaceStep
    BY <1>4, PlaceStepStraight
  <1>5. CASE GroupingStep
    BY <1>5, GroupingStepTurns
  <1>6. CASE UNCHANGED desk
    <2>1. SameLists(desk, desk')
      BY <1>6 DEF SameLists
    <2> QED
      BY <1>1, <2>1, SameStraight
  <1> QED
    BY <1>2, <1>3, <1>4, <1>5, <1>6 DEF Next, ActionStep

\* The roster of the desktop d, with the rules k of the keyboard and the
\* workspaces that must exist.
Roster(d, k, spaces) ==
  [mapped |-> d.mapped, outside |-> {w \in Windows : d.own[w] = None},
   kbd |-> k, spaces |-> spaces]

\* A sound desktop is sound by its own roster.
LEMMA Resettle ==
  ASSUME NEW S, NEW e, Sound(S, e), NEW spaces,
         \A ws \in spaces : ws \in Workspaces /\ ws <= e.nws
  PROVE  /\ Sound(Roster(e, S.kbd, spaces), e)
         /\ e.mapped = S.mapped
         /\ \A w \in Windows : e.own[w] = None <=> w \in S.outside
  <1> DEFINE T == Roster(e, S.kbd, spaces)
  <1>1. /\ Typed(e) /\ Owned(e, {}) /\ Housed(S, e) /\ Pointed(e) /\ Blank(e) /\ Tabbed(e, {})
        /\ Keyed(S, e) /\ Pinned(e) /\ Placed(S, e, {}) /\ Honoured(e) /\ Focused(e)
    BY DEF Sound, Good, Linked
  <1>2. /\ T.mapped = e.mapped /\ T.outside = {w \in Windows : e.own[w] = None}
        /\ T.kbd = S.kbd /\ T.spaces = spaces
    BY DEF Roster
  <1> HIDE DEF T
  <1>3. Housed(T, e) /\ Keyed(T, e)
    BY <1>1, <1>2 DEF Housed, Keyed
  <1>4. Placed(T, e, {})
    BY <1>1, <1>2 DEF Placed
  <1>5. Sound(T, e)
    BY <1>1, <1>3, <1>4 DEF Sound, Good, Linked
  <1> QED
    BY <1>1, <1>5 DEF T, Housed

\* The invariant of the desktop without dialogs: the windows on show are those
\* of groups, and the keyboard goes with the active group.
Tabular(d) ==
  /\ Sound(Roster(d, "tabs", {}), d)
  /\ \A w \in d.mapped : d.own[w] # None

LEMMA TabularBy ==
  ASSUME NEW S, NEW e, Sound(S, e), S.kbd = "tabs", S.mapped \cap S.outside = {}
  PROVE  Tabular(e)
  <1>1. /\ Sound(Roster(e, "tabs", {}), e) /\ e.mapped = S.mapped
        /\ \A w \in Windows : e.own[w] = None <=> w \in S.outside
    BY Resettle
  <1>2. e.mapped \in SUBSET Windows
    BY TabsAre
  <1> QED
    BY <1>1, <1>2 DEF Tabular

LEMMA NextTabular ==
  ASSUME Tabular(desk), [Next]_desk
  PROVE  Tabular(desk')
  <1> DEFINE R == Roster(desk, "tabs", {})
             Remap(m) == [R EXCEPT !.mapped = m]
             Reown(o) == [R EXCEPT !.outside = o]
  <1>1. /\ Sound(R, desk) /\ R.kbd = "tabs"
        /\ R.mapped = desk.mapped /\ R.outside = {w \in Windows : desk.own[w] = None}
        /\ R.mapped \cap R.outside = {}
    BY DEF Tabular, Roster
  <1>2. \A m : /\ Recast(R, Remap(m), m, R.outside) /\ Remap(m).kbd = "tabs"
               /\ Remap(m).mapped = m /\ Remap(m).outside = R.outside
    BY DEF Recast, Roster
  <1>3. \A o : /\ Recast(R, Reown(o), R.mapped, o) /\ Reown(o).kbd = "tabs"
               /\ Reown(o).mapped = R.mapped /\ Reown(o).outside = o
    BY DEF Recast, Roster
  <1> HIDE DEF R, Remap, Reown
  <1>4. ASSUME Sound(R, desk') PROVE Tabular(desk')
    BY <1>1, <1>4, TabularBy
  <1>5. CASE OutputStep
    BY <1>1, <1>4, <1>5, OutputStepSound
  <1>6. CASE ClientStep
    <2>1. PICK w \in Windows :
            \/ NewToplevel(w)
            \/ \E rule \in {"none", "floating", "tiled"} : WindowMap(w, rule)
            \/ WindowUnmap(w)
            \/ WindowDestroy(w)
            \/ \E on \in BOOLEAN : RequestFullscreen(w, on)
            \/ RequestActivate(w)
      BY <1>6 DEF ClientStep
    <2>2. CASE NewToplevel(w)
      <3>1. Sound(Reown(R.outside \ {w}), desk')
        BY <1>1, <1>3, <2>2, NewWindowSound
      <3> QED
        BY <1>1, <1>3, <3>1, TabularBy
    <2>3. CASE \E rule \in {"none", "floating", "tiled"} : WindowMap(w, rule)
      <3>1. PICK rule \in {"none", "floating", "tiled"} : WindowMap(w, rule)
        BY <2>3
      <3>2. Sound(Remap(R.mapped \cup {w}), desk')
        BY <1>1, <1>2, <3>1, WindowMapSound
      <3>3. w \notin R.outside
        BY <1>1, <3>1 DEF WindowMap, Managed
      <3> QED
        BY <1>1, <1>2, <3>2, <3>3, TabularBy
    <2>4. CASE WindowUnmap(w)
      <3>1. Sound(Remap(R.mapped \ {w}), desk')
        BY <1>1, <1>2, <2>4, WindowUnmapSound
      <3> QED
        BY <1>1, <1>2, <3>1, TabularBy
    <2>5. CASE WindowDestroy(w)
      <3>1. Sound(Reown(R.outside \cup {w}), desk')
        BY <1>1, <1>3, <2>5, WindowDestroySound
      <3>2. w \notin R.mapped
        BY <1>1, <2>5 DEF WindowDestroy
      <3> QED
        BY <1>1, <1>3, <3>1, <3>2, TabularBy
    <2>6. CASE \E on \in BOOLEAN : RequestFullscreen(w, on)
      BY <1>1, <1>4, <2>6, RequestSound
    <2>7. CASE RequestActivate(w)
      BY <1>1, <1>4, <2>7, RequestSound
    <2> QED
      BY <2>1, <2>2, <2>3, <2>4, <2>5, <2>6, <2>7
  <1>7. CASE PointerStep
    BY <1>1, <1>4, <1>7, PointerStepSound
  <1>8. CASE FocusStep
    BY <1>1, <1>4, <1>8, FocusStepSound
  <1>9. CASE PlaceStep
    BY <1>1, <1>4, <1>9, PlaceStepSound
  <1>10. CASE GroupingStep
    BY <1>1, <1>4, <1>10, GroupingStepSound
  <1>11. CASE UNCHANGED desk
    BY <1>11
  <1> QED
    BY <1>5, <1>6, <1>7, <1>8, <1>9, <1>10, <1>11 DEF Next, ActionStep

LEMMA InitTabular ==
  ASSUME Init
  PROVE  Tabular(desk)
  <1> DEFINE R == [mapped |-> {}, outside |-> Windows, kbd |-> "tabs", spaces |-> {}]
  <1>1. /\ R.mapped = {} /\ R.outside = Windows /\ R.spaces = {} /\ R.kbd = "tabs"
    OBVIOUS
  <1> HIDE DEF R
  <1>2. Sound(R, desk)
    BY <1>1, InitSound
  <1> QED
    BY <1>1, <1>2, TabularBy

Invariant == Tabular(desk)

\* Every state of the desktop is sound: the invariant behind the theorems
\* below.
THEOREM AlwaysSound == Spec => []Invariant
  <1>1. Init => Invariant
    BY InitTabular DEF Invariant
  <1>2. Invariant /\ [Next]_desk => Invariant'
    BY NextTabular DEF Invariant
  <1> QED
    BY <1>1, <1>2, PTL DEF Spec

\* The pointers of windows, groups and workspaces agree between any two events,
\* for any number of outputs, workspaces, groups and windows: no group in use
\* is empty, no window is in two groups or in none that it names, nothing
\* active dangles (PointersAgree of Desktop).
THEOREM PointersAlwaysAgree == Spec => []PointersAgree
  <1>1. Invariant => PointersAgree
    <2> SUFFICES ASSUME Invariant PROVE PointersAgree
      OBVIOUS
    <2>1. /\ Typed(desk) /\ Owned(desk, {}) /\ Pointed(desk)
          /\ Tabbed(desk, {}) /\ desk \in Desk
          /\ \A w \in desk.mapped : desk.own[w] # None
      BY DEF Invariant, Tabular, Sound, Good, Linked, Typed
    <2>2. TypeOK
      BY <2>1 DEF TypeOK, Typed
    <2>3. Ownership
      <3>1. /\ \A g \in Groups : /\ g \in Live(desk) <=> desk.gwin[g] # << >>
                                 /\ g \in Live(desk) => desk.gws[g] # NoWs
            /\ \A w \in Windows, g \in Groups :
                 w \in ToSet(desk.gwin[g]) <=> desk.own[w] = g
        BY <2>1 DEF Owned
      <3>2. \A w \in Managed : desk.wws[w] = WsOf(w)
        BY <2>1 DEF Owned, Managed, WsOf
      <3>3. desk.mapped \subseteq Managed
        BY <2>1, DeskFields DEF Managed
      <3> QED
        BY <3>1, <3>2, <3>3 DEF Ownership
    <2>4. ActiveGroups
      BY <2>1 DEF ActiveGroups, Pointed
    <2>5. ActiveTab
      BY <2>1 DEF ActiveTab, Tabbed
    <2> QED
      BY <2>2, <2>3, <2>4, <2>5 DEF PointersAgree
  <1> QED
    BY <1>1, AlwaysSound, PTL

\* Every output shows a workspace of its own, a workspace configured for an
\* output is on it whenever it is plugged in, and pinned groups are where their
\* output shows them, through any sequence of plugging and unplugging
\* (WorkspacesPlaced of Desktop).
THEOREM WorkspacesAlwaysPlaced == Spec => []WorkspacesPlaced
  <1>1. Invariant => WorkspacesPlaced
    <2> SUFFICES ASSUME Invariant PROVE WorkspacesPlaced
      OBVIOUS
    <2>1. /\ Placed(Roster(desk, "tabs", {}), desk, {})
          /\ Honoured(desk) /\ Pinned(desk) /\ Focused(desk)
          /\ desk \in Desk
      BY DEF Invariant, Tabular, Sound, Good, Linked, Typed
    <2>2. desk.outs = << >> <=> Plugged = {}
      BY <2>1, DeskFields, MembersOf DEF Plugged
    <2>3. Screens
      BY <2>1, <2>2 DEF Screens, Placed, Focused, Plugged
    <2>4. AffinityHonoured
      BY <2>1 DEF AffinityHonoured, Honoured, Plugged
    <2>5. PinnedShown
      BY <2>1 DEF PinnedShown, Pinned
    <2> QED
      BY <2>3, <2>4, <2>5 DEF WorkspacesPlaced
  <1> QED
    BY <1>1, AlwaysSound, PTL

\* The keyboard goes with the active window of the active group, and to nobody
\* when no group is active, whichever function changed either of them
\* (KeyboardIsActive of Desktop).
THEOREM KeyboardAlwaysActive == Spec => []KeyboardIsActive
  <1>1. Invariant => KeyboardIsActive
    <2> SUFFICES ASSUME Invariant PROVE KeyboardIsActive
      OBVIOUS
    <2>1. Keyed(Roster(desk, "tabs", {}), desk)
      BY DEF Invariant, Tabular, Sound, Good
    <2> QED
      BY <2>1 DEF Keyed, Roster, KeyboardIsActive
  <1> QED
    BY <1>1, AlwaysSound, PTL

\* Whatever merging, splitting and moving takes tabs elsewhere, two of them that
\* share a group before and after keep their order, unless one of the two was
\* dragged beside another tab (TabOrder of Desktop).
THEOREM TabsKeepOrder == Spec => TabOrder
  <1>1. Invariant /\ [Next]_desk
          => [\A v, w \in Windows :
                Precedes(desk, v, w) /\ Precedes(desk', w, v) =>
                  \E x \in {v, w}, ref \in Windows, before \in BOOLEAN :
                     WindowBeside(x, ref, before)]_desk
    <2> SUFFICES ASSUME Invariant, [Next]_desk,
                        NEW v \in Windows, NEW w \in Windows,
                        Precedes(desk, v, w), Precedes(desk', w, v)
                 PROVE  \E x \in {v, w}, ref \in Windows, before \in BOOLEAN :
                           WindowBeside(x, ref, before)
      OBVIOUS
    <2>1. Sound(Roster(desk, "tabs", {}), desk)
      BY DEF Invariant, Tabular
    <2>2. ~Straight(desk, desk')
      BY DEF Straight
    <2>3. \E x, ref \in Windows, before \in BOOLEAN :
            WindowBeside(x, ref, before) /\ Turned(desk, desk', x)
      BY <2>1, <2>2, NextTurns
    <2> QED
      BY <2>3 DEF Turned
  <1> QED
    BY <1>1, AlwaysSound, PTL DEF Spec, TabOrder

-----------------------------------------------------------------------------
(* The desktop with its dialogs.  A dialog may have the keyboard, so only  *)
(* the rest of Sound is kept, and the windows of no group are told apart.  *)

State ==
  [d : Desk, parent : [Windows -> Windows \cup {None}], transient : SUBSET Windows,
   tws : [Windows -> Workspaces \cup {NoWs}]]

RosterOf(d) == Roster(d, "any", Spaces(d))

\* A window is a tab or a dialog, every window on show is one or the other, and
\* a dialog is on a workspace that exists.
Told(s) ==
  /\ \A w \in s.transient : s.d.own[w] = None /\ s.tws[w] \in Spaces(s.d)
  /\ \A w \in s.d.mapped : s.d.own[w] = None => w \in s.transient

\* But for the windows X, one that has a parent is a dialog and its parent is
\* on show.
Kept(s, X) ==
  \A w \in Windows \ X :
     s.parent[w] # None => w \in s.transient /\ s.parent[w] \in s.d.mapped

Hale(s, X) == s \in State /\ Sound(RosterOf(s.d), s.d) /\ Told(s) /\ Kept(s, X)

LEMMA StateFields ==
  ASSUME NEW s \in State
  PROVE  /\ s.d \in Desk
         /\ s.parent \in [Windows -> Windows \cup {None}]
         /\ s.transient \in SUBSET Windows
         /\ s.tws \in [Windows -> Workspaces \cup {NoWs}]
         /\ s = [d |-> s.d, parent |-> s.parent, transient |-> s.transient, tws |-> s.tws]
  BY DEF State

LEMMA RosterIs ==
  ASSUME NEW d
  PROVE  /\ RosterOf(d).mapped = d.mapped
         /\ RosterOf(d).outside = {w \in Windows : d.own[w] = None}
         /\ RosterOf(d).kbd = "any" /\ RosterOf(d).spaces = Spaces(d)
  BY DEF RosterOf, Roster

\* The roster with other windows on show, or in no group.
Showing(d, m) == [RosterOf(d) EXCEPT !.mapped = m]
Leaving(d, o) == [RosterOf(d) EXCEPT !.outside = o]

LEMMA ShowingIs ==
  ASSUME NEW d, NEW m
  PROVE  /\ Recast(RosterOf(d), Showing(d, m), m, RosterOf(d).outside)
         /\ Showing(d, m).mapped = m
         /\ Showing(d, m).outside = {w \in Windows : d.own[w] = None}
         /\ Showing(d, m).kbd = "any" /\ Showing(d, m).spaces = Spaces(d)
  BY DEF RosterOf, Roster, Recast, Showing

LEMMA LeavingIs ==
  ASSUME NEW d, NEW o
  PROVE  /\ Recast(RosterOf(d), Leaving(d, o), RosterOf(d).mapped, o)
         /\ Leaving(d, o).mapped = d.mapped /\ Leaving(d, o).outside = o
         /\ Leaving(d, o).kbd = "any" /\ Leaving(d, o).spaces = Spaces(d)
  BY DEF RosterOf, Roster, Recast, Leaving

\* What a step must show of the state that it makes.
LEMMA Arranged ==
  ASSUME NEW d \in Desk, NEW S, NEW r \in State, Sound(S, r.d),
         S.kbd = "any", S.spaces = Spaces(d), NEW X,
         \A w \in r.transient : w \in S.outside /\ r.tws[w] \in Spaces(d) \cup Spaces(r.d),
         \A w \in S.mapped : w \in S.outside => w \in r.transient,
         \A w \in Windows \ X :
            r.parent[w] # None => w \in r.transient /\ r.parent[w] \in S.mapped
  PROVE  /\ Hale(r, X) /\ r.d.mapped = S.mapped
         /\ \A w \in Windows : r.d.own[w] = None <=> w \in S.outside
         /\ \A ws \in Spaces(d) : ws \in Spaces(r.d)
  <1>1. /\ r.d \in Desk /\ r.transient \in SUBSET Windows /\ r.d.nws \in 0..MaxWs
        /\ d.nws \in 0..MaxWs /\ r.d.mapped \in SUBSET Windows
    BY StateFields, DeskFields
  <1>2. \A ws \in Spaces(r.d) : ws \in Workspaces /\ ws <= r.d.nws
    BY <1>1, Numbers DEF Spaces
  <1>3. /\ Sound(Roster(r.d, S.kbd, Spaces(r.d)), r.d) /\ r.d.mapped = S.mapped
        /\ \A w \in Windows : r.d.own[w] = None <=> w \in S.outside
    BY <1>2, Resettle
  <1>4. Sound(RosterOf(r.d), r.d)
    BY <1>3 DEF RosterOf
  <1>5. \A ws \in Spaces(d) : ws \in Spaces(r.d)
    <2>1. \A ws \in S.spaces : ws <= r.d.nws
      BY DEF Sound, Good, Placed
    <2> QED
      BY <1>1, <2>1, Numbers DEF Spaces
  <1>6. Told(r)
    BY <1>1, <1>3, <1>5 DEF Told
  <1>7. Kept(r, X)
    BY <1>3 DEF Kept
  <1> QED
    BY <1>3, <1>4, <1>5, <1>6, <1>7 DEF Hale

\* Where a window is: on a workspace that exists.
LEMMA PlaceOfWindow ==
  ASSUME NEW s, NEW X, Hale(s, X), NEW w \in Windows, w \in s.transient \/ s.d.own[w] # None
  PROVE  WorkspaceOf(s, w) \in Workspaces /\ WorkspaceOf(s, w) \in Spaces(s.d)
  <1>1. s \in State /\ s.d \in Desk /\ Told(s) /\ Owned(s.d, {})
    BY StateFields DEF Hale, Sound, Good, Linked
  <1>2. CASE w \in s.transient
    <2>1. s.tws[w] \in Spaces(s.d) /\ s.d.nws \in 0..MaxWs
      BY <1>1, <1>2, DeskFields DEF Told
    <2> QED
      BY <1>2, <2>1, Numbers DEF WorkspaceOf, Spaces
  <1>3. CASE w \notin s.transient
    <2>1. s.d.wws[w] = s.d.gws[s.d.own[w]]
      BY <1>1, <1>3 DEF Owned
    <2> QED
      BY <1>1, <1>3, <2>1, OwnerIs DEF WorkspaceOf
  <1> QED
    BY <1>2, <1>3

\* But for the windows W, those of r are on the workspaces where s has them.
Unmoved(s, r, W) == \A v \in Windows \ W : WorkspaceOf(r, v) = WorkspaceOf(s, v)

LEMMA UnmovedIs ==
  ASSUME NEW s, NEW r, NEW W, s.d \in Desk, Settled(s.d, r.d, W),
         \A v \in Windows \ W : r.tws[v] = s.tws[v] /\ (v \in r.transient <=> v \in s.transient)
  PROVE  Unmoved(s, r, W)
  <1>1. DOMAIN s.d.wws = Windows
    BY DeskFields
  <1> QED
    BY <1>1 DEF Unmoved, WorkspaceOf, Settled

\* The keyboard is not the desktop's affair when dialogs may have it.
LEMMA KbdSound ==
  ASSUME NEW R, NEW d, Sound(R, d), R.kbd = "any", NEW k \in Windows \cup {None}
  PROVE  Sound(R, [d EXCEPT !.kbd = k])
  <1> DEFINE e == [d EXCEPT !.kbd = k]
  <1>1. d \in Desk /\ Pointed(d) /\ Good(R, d, {}, {}) /\ Focused(d)
    BY DEF Sound, Good, Linked, Typed
  <1>2. /\ e \in Desk /\ SameOutputs(d, e) /\ Still(d, e) /\ e.wact = d.wact
        /\ e.gact = d.gact /\ e.act = d.act /\ e.fo = d.fo
    BY <1>1 DEF Desk, SameOutputs, Still
  <1> HIDE DEF e
  <1>3. Keyed(R, e)
    BY DEF Keyed
  <1>4. Good(R, e, {}, {})
    BY <1>1, <1>2, <1>3, ActKbdGood DEF Pointed
  <1>5. Sound(R, e)
    BY <1>1, <1>2, <1>4 DEF Sound, Focused, SameOutputs
  <1> QED
    BY <1>5 DEF e

\* Focus changes the desktop only, and no window of it.
LEMMA FocusHale ==
  ASSUME NEW s, NEW X, Hale(s, X), NEW w \in Windows
  PROVE  /\ Hale(Focus(s, w), X)
         /\ Focus(s, w).parent = s.parent /\ Focus(s, w).transient = s.transient
         /\ Focus(s, w).tws = s.tws
         /\ Focus(s, w).d.mapped = s.d.mapped
         /\ Unmoved(s, Focus(s, w), {})
  <1> DEFINE R == RosterOf(s.d)
             r == Focus(s, w)
  <1>1. s \in State /\ s.d \in Desk /\ Told(s) /\ Sound(R, s.d) /\ Kept(s, X)
    BY StateFields DEF Hale
  <1>r. /\ R.mapped = s.d.mapped /\ R.outside = {v \in Windows : s.d.own[v] = None}
        /\ R.kbd = "any" /\ R.spaces = Spaces(s.d)
    BY RosterIs
  <1> HIDE DEF R
  <1>s. HasPlaces(s.d) /\ Settled(s.d, s.d, {})
    BY <1>1 DEF Desk, HasPlaces, Settled
  <1>2. PICK e : r = [s EXCEPT !.d = e] /\ Sound(R, e) /\ Settled(s.d, e, {})
    <2>1. CASE w \notin s.d.mapped
      <3>1. r = s /\ s = [s EXCEPT !.d = s.d]
        BY <1>1, <2>1 DEF Focus, State
      <3> QED
        BY <1>1, <1>s, <3>1
    <2>2. CASE w \in s.d.mapped /\ s.d.own[w] # None
      <3>1. r = [s EXCEPT !.d = FocusWindow(s.d, w)]
        BY <2>2 DEF Focus
      <3>2. Sound(R, FocusWindow(s.d, w)) /\ Settled(s.d, FocusWindow(s.d, w), {})
        BY <1>1, <1>s, FocusSound, PlacesFocus
      <3> QED
        BY <3>1, <3>2
    <2>3. CASE w \in s.d.mapped /\ s.d.own[w] = None
      <3> DEFINE ws == WorkspaceOf(s, w)
      <3>1. ws \in Workspaces
        BY <1>1, <2>3, PlaceOfWindow DEF Told
      <3>2. CASE ~IsVisible(s.d, ws)
        <4>1. r = s /\ s = [s EXCEPT !.d = s.d]
          BY <1>1, <2>3, <3>2 DEF Focus, State
        <4> QED
          BY <1>1, <1>s, <4>1
      <3>3. CASE IsVisible(s.d, ws)
        <4> DEFINE o == s.d.home[ws]
                   f == [s.d EXCEPT !.fo = o]
        <4>1. r = [s EXCEPT !.d.fo = o, !.d.kbd = w]
          BY <2>3, <3>3 DEF Focus
        <4>2. o \in ToSet(s.d.outs)
          BY <1>1, <3>1, <3>3 DEF IsVisible, Sound, Good, Placed
        <4> HIDE DEF o
        <4>3. Sound(R, f) /\ f \in Desk
          BY <1>1, <4>2, PointSound
        <4>s. Settled(s.d, [f EXCEPT !.kbd = w], {})
          BY <1>s DEF Settled, HasPlaces
        <4>4. r = [s EXCEPT !.d = [f EXCEPT !.kbd = w]]
          BY <1>1, <4>1 DEF State, Desk
        <4> HIDE DEF f
        <4>5. Sound(R, [f EXCEPT !.kbd = w])
          BY <1>r, <4>3, KbdSound
        <4> QED
          BY <4>4, <4>5, <4>s
      <3> QED
        BY <3>2, <3>3
    <2> QED
      BY <2>1, <2>2, <2>3
  <1> HIDE DEF r
  <1>3. e \in Desk
    BY <1>2 DEF Sound, Good, Linked, Typed
  <1>4. /\ r \in State /\ r.d = e /\ r.parent = s.parent /\ r.transient = s.transient
        /\ r.tws = s.tws
    BY <1>1, <1>2, <1>3 DEF State
  <1>5. /\ \A v \in r.transient : v \in R.outside /\ r.tws[v] \in Spaces(s.d) \cup Spaces(r.d)
        /\ \A v \in R.mapped : v \in R.outside => v \in r.transient
        /\ \A v \in Windows \ X :
             r.parent[v] # None => v \in r.transient /\ r.parent[v] \in R.mapped
    BY <1>1, <1>r, <1>4, StateFields DEF Told, Kept
  <1>6. Sound(R, r.d)
    BY <1>2, <1>4
  <1>7. Hale(r, X) /\ r.d.mapped = R.mapped
    BY <1>1, <1>r, <1>4, <1>5, <1>6, Arranged
  <1>8. Unmoved(s, r, {})
    BY <1>1, <1>2, <1>4, UnmovedIs
  <1> QED
    BY <1>r, <1>4, <1>7, <1>8 DEF r

\* A window leaves its group and has no workspace of the tabs.
LEMMA LeaveSound ==
  ASSUME NEW R, NEW d, Sound(R, d), NEW w \in Windows, R.kbd = "any",
         NEW S, Recast(R, S, R.mapped, R.outside \cup {w})
  PROVE  Sound(S, [RemoveWindow(d, w) EXCEPT !.wws[w] = NoWs])
  <1> DEFINE r == RemoveWindow(d, w)
             e == [r EXCEPT !.wws[w] = NoWs]
             wws == [r.wws EXCEPT ![w] = NoWs]
  <1>1. Good(R, d, {}, {}) /\ Focused(d) /\ S.kbd = "any"
    BY DEF Sound, Recast
  <1>2. Good(S, r, {}, {}) /\ Near(d, r) /\ r.own[w] = None /\ r.mapped = d.mapped
    BY <1>1, RemoveWindowGood
  <1> HIDE DEF r
  <1>3. /\ r \in Desk /\ Typed(r) /\ Owned(r, {}) /\ Housed(S, r) /\ Pointed(r) /\ Blank(r)
        /\ Tabbed(r, {}) /\ Pinned(r) /\ Placed(S, r, {}) /\ Honoured(r)
    BY <1>2 DEF Good, Linked, Typed
  <1>4. /\ wws \in [Windows -> Workspaces \cup {NoWs}]
        /\ \A v \in Windows \ {w} : wws[v] = r.wws[v]
    BY <1>3, DeskFields
  <1>5. e = [r EXCEPT !.wws = wws]
    BY <1>3 DEF Desk
  <1> HIDE DEF e, wws
  <1>6. /\ e \in Desk /\ SameOutputs(r, e) /\ e.fo = r.fo
        /\ e.groups = r.groups /\ e.gws = r.gws /\ e.gwin = r.gwin /\ e.own = r.own
        /\ e.flt = r.flt /\ e.pin = r.pin /\ e.wact = r.wact /\ e.mapped = r.mapped
        /\ e.act = r.act /\ e.gact = r.gact /\ e.wws = wws
    BY <1>3, <1>4, <1>5 DEF Desk, SameOutputs
  <1>7. Live(e) = Live(r)
    BY <1>6 DEF Live
  <1>8. Typed(e)
    BY <1>3, <1>6 DEF Typed, SameOutputs
  <1>9. Owned(e, {})
    BY <1>2, <1>3, <1>4, <1>6, <1>7, SameSpaces DEF Owned
  <1>10. Housed(S, e) /\ Pointed(e) /\ Blank(e) /\ Tabbed(e, {})
    BY <1>3, <1>6, <1>7 DEF Housed, Pointed, Blank, Tabbed
  <1>11. Keyed(S, e)
    BY <1>1 DEF Keyed
  <1>12. Pinned(e)
    BY <1>3, <1>6, <1>7 DEF Pinned, SameOutputs
  <1>13. Placed(S, e, {}) /\ Honoured(e) /\ Near(r, e)
    BY <1>3, <1>6, OutputsKeep
  <1>14. Good(S, e, {}, {})
    BY <1>8, <1>9, <1>10, <1>11, <1>12, <1>13 DEF Good, Linked
  <1>15. Sound(S, e)
    BY <1>1, <1>2, <1>13, <1>14, NearTransitive, NearFocused DEF Sound
  <1> QED
    BY <1>15 DEF e, r

\* The dialogs of r are t, and its windows and their parents are those of s.
Made(s, t, r) == r.parent = s.parent /\ r.transient = t /\ r.d.mapped = s.d.mapped

\* A window becomes a dialog of one that is on show.
LEMMA MakeTransientHale ==
  ASSUME NEW s, NEW X, Hale(s, X), NEW w \in Windows, NEW p \in Windows,
         s.parent[w] = p, p \in s.d.mapped
  PROVE  /\ Hale(MakeTransient(s, w, p), X \ {w})
         /\ Made(s, s.transient \cup {w}, MakeTransient(s, w, p))
         /\ Unmoved(s, MakeTransient(s, w, p), {w})
         /\ WorkspaceOf(MakeTransient(s, w, p), w) = WorkspaceOf(s, p)
  <1> DEFINE R == RosterOf(s.d)
             S == Leaving(s.d, R.outside \cup {w})
             ws == WorkspaceOf(s, p)
             e == [RemoveWindow(s.d, w) EXCEPT !.wws[w] = NoWs]
             at == [s.tws EXCEPT ![w] = ws]
             r == [s EXCEPT !.d = [RemoveWindow(@, w) EXCEPT !.wws[w] = NoWs],
                            !.transient = @ \cup {w},
                            !.tws[w] = WorkspaceOf(s, p)]
  <1>1. s \in State /\ s.d \in Desk /\ Told(s) /\ Sound(R, s.d) /\ Kept(s, X)
    BY StateFields DEF Hale
  <1>r. /\ R.mapped = s.d.mapped /\ R.outside = {v \in Windows : s.d.own[v] = None}
        /\ R.kbd = "any" /\ R.spaces = Spaces(s.d)
        /\ S.mapped = s.d.mapped /\ S.outside = R.outside \cup {w}
        /\ S.kbd = "any" /\ S.spaces = Spaces(s.d)
        /\ Recast(R, S, R.mapped, R.outside \cup {w})
    BY RosterIs, LeavingIs
  <1> HIDE DEF R, S
  <1>2. ws \in Workspaces /\ ws \in Spaces(s.d)
    <2>1. p \in s.transient \/ s.d.own[p] # None
      BY <1>1 DEF Told
    <2> QED
      BY <2>1, PlaceOfWindow
  <1>3. Sound(S, e)
    BY <1>1, <1>r, LeaveSound
  <1>4. e \in Desk
    BY <1>3 DEF Sound, Good, Linked, Typed
  <1>s. Settled(s.d, e, {w})
    <2>1. HasPlaces(s.d)
      BY <1>1 DEF Desk, HasPlaces
    <2>2. Settled(s.d, RemoveWindow(s.d, w), {w})
      BY <2>1, PlacesMove
    <2> QED
      BY <2>1, <2>2 DEF Settled, HasPlaces
  <1>5. r = [s EXCEPT !.d = e, !.transient = s.transient \cup {w}, !.tws = at]
    BY <1>1 DEF State
  <1> HIDE DEF e, ws
  <1>6. at \in [Windows -> Workspaces \cup {NoWs}] /\ at[w] = ws
        /\ \A v \in Windows \ {w} : at[v] = s.tws[v]
    BY <1>1, <1>2, StateFields
  <1> HIDE DEF r, at
  <1>7. /\ r \in State /\ r.d = e /\ r.parent = s.parent /\ r.transient = s.transient \cup {w}
        /\ r.tws = at
    BY <1>1, <1>4, <1>5, <1>6 DEF State
  <1>8. /\ \A v \in r.transient : v \in S.outside /\ r.tws[v] \in Spaces(s.d) \cup Spaces(r.d)
        /\ \A v \in S.mapped : v \in S.outside => v \in r.transient
    BY <1>1, <1>2, <1>r, <1>6, <1>7, StateFields DEF Told
  <1>9. \A v \in Windows \ (X \ {w}) :
             r.parent[v] # None => v \in r.transient /\ r.parent[v] \in S.mapped
    BY <1>1, <1>r, <1>7 DEF Kept
  <1>10. Sound(S, r.d)
    BY <1>3, <1>7
  <1>11. Hale(r, X \ {w}) /\ r.d.mapped = S.mapped
    BY <1>1, <1>r, <1>7, <1>8, <1>9, <1>10, Arranged
  <1>12. MakeTransient(s, w, p) = Focus(r, w)
    BY DEF MakeTransient, r
  <1>13. Unmoved(s, r, {w}) /\ WorkspaceOf(r, w) = ws
    <2>1. \A v \in Windows \ {w} : r.tws[v] = s.tws[v] /\ (v \in r.transient <=> v \in s.transient)
      BY <1>6, <1>7
    <2> QED
      BY <1>1, <1>6, <1>7, <1>s, <2>1, UnmovedIs DEF WorkspaceOf
  <1>14. Unmoved(r, Focus(r, w), {})
    BY <1>11, FocusHale
  <1>15. Unmoved(s, Focus(r, w), {w}) /\ WorkspaceOf(Focus(r, w), w) = ws
    BY <1>13, <1>14 DEF Unmoved
  <1> QED
    BY <1>7, <1>r, <1>11, <1>12, <1>15, FocusHale DEF Made, ws

\* A dialog becomes a tab.
LEMMA MakeTabHale ==
  ASSUME NEW s, NEW X, Hale(s, X), NEW w \in Windows, w \in s.transient, s.parent[w] = None
  PROVE  /\ Hale(MakeTab(s, w), X \ {w})
         /\ Made(s, s.transient \ {w}, MakeTab(s, w))
         /\ Unmoved(s, MakeTab(s, w), {})
  <1> DEFINE R == RosterOf(s.d)
             S == Leaving(s.d, R.outside \ {w})
             ws == s.tws[w]
             g == s.d.wact[ws]
             joins == g # None /\ g \notin s.d.flt
             e == IF joins THEN AddWindow(s.d, g, w)
                  ELSE AddWindow(CreateGroup(s.d, ws), NewGroup(s.d), w)
             at == [s.tws EXCEPT ![w] = NoWs]
             r == [s EXCEPT !.d = e, !.transient = @ \ {w}, !.tws[w] = NoWs]
  <1>1. /\ s \in State /\ s.d \in Desk /\ Told(s) /\ Sound(R, s.d) /\ Kept(s, X)
        /\ s.d.own[w] = None /\ ws \in Spaces(s.d) /\ Pointed(s.d)
    BY StateFields DEF Hale, Told, Sound, Good, Linked
  <1>r. /\ R.mapped = s.d.mapped /\ R.outside = {v \in Windows : s.d.own[v] = None}
        /\ R.kbd = "any" /\ R.spaces = Spaces(s.d)
        /\ S.mapped = s.d.mapped /\ S.outside = R.outside \ {w}
        /\ S.kbd = "any" /\ S.spaces = Spaces(s.d)
        /\ Recast(R, S, R.mapped, R.outside \ {w})
    BY RosterIs, LeavingIs
  <1> HIDE DEF R, S
  <1>2. ws \in Workspaces
    <2>1. s.d.nws \in 0..MaxWs
      BY <1>1, DeskFields
    <2> QED
      BY <1>1, <2>1, Numbers DEF Spaces
  <1> HIDE DEF ws
  <1>3. Sound(S, e)
    <2>1. CASE joins
      <3>1. g \in Live(s.d)
        BY <1>1, <1>2, <2>1 DEF Pointed
      <3> HIDE DEF g
      <3>2. Sound(S, AddWindow(s.d, g, w))
        BY <1>1, <1>r, <3>1, JoinSound
      <3> QED
        BY <2>1, <3>2
    <2>2. CASE ~joins
      <3>1. Sound(S, AddWindow(CreateGroup(s.d, ws), NewGroup(s.d), w))
        BY <1>1, <1>2, <1>r, FoundSound
      <3> QED
        BY <2>2, <3>1
    <2> QED
      BY <2>1, <2>2
  <1>4. e \in Desk
    BY <1>3 DEF Sound, Good, Linked, Typed
  <1>s. Settled(s.d, e, {w}) /\ e.wws[w] = ws
    <2>1. HasPlaces(s.d) /\ DOMAIN s.d.wws = Windows
      BY <1>1, DeskFields DEF Desk, HasPlaces
    <2>2. Settled(s.d, e, {w})
      BY <2>1, PlacesMove
    <2>3. CASE joins
      <3>1. AddWindow(s.d, g, w).wws[w] = s.d.gws[g]
        BY <2>1 DEF AddWindow, HasPlaces
      <3>2. s.d.gws[g] = ws
        BY <1>1, <1>2, <2>3 DEF Pointed
      <3> QED
        BY <2>2, <2>3, <3>1, <3>2
    <2>4. CASE ~joins
      <3> DEFINE n == NewGroup(s.d)
                 c == CreateGroup(s.d, ws)
      <3>1. n \in Groups
        BY <1>1, NewGroupIs DEF Sound, Good, Linked
      <3>2. c.gws[n] = ws /\ "wws" \in DOMAIN c /\ c.wws = s.d.wws
        BY <1>1, <2>1, <3>1 DEF CreateGroup, Desk
      <3> HIDE DEF n, c
      <3>3. AddWindow(c, n, w).wws[w] = c.gws[n]
        BY <2>1, <3>2 DEF AddWindow
      <3>4. e = AddWindow(c, n, w)
        BY <2>4 DEF n, c
      <3> QED
        BY <2>2, <3>2, <3>3, <3>4
    <2> QED
      BY <2>3, <2>4
  <1> HIDE DEF e
  <1>5. r = [s EXCEPT !.d = e, !.transient = s.transient \ {w}, !.tws = at]
    BY <1>1 DEF State
  <1>6. at \in [Windows -> Workspaces \cup {NoWs}]
        /\ \A v \in Windows \ {w} : at[v] = s.tws[v]
    BY <1>1, StateFields
  <1> HIDE DEF r, at
  <1>7. /\ r \in State /\ r.d = e /\ r.parent = s.parent /\ r.transient = s.transient \ {w}
        /\ r.tws = at
    BY <1>1, <1>4, <1>5, <1>6 DEF State
  <1>8. /\ \A v \in r.transient : v \in S.outside /\ r.tws[v] \in Spaces(s.d) \cup Spaces(r.d)
        /\ \A v \in S.mapped : v \in S.outside => v \in r.transient
    BY <1>1, <1>2, <1>r, <1>6, <1>7, StateFields DEF Told
  <1>9. \A v \in Windows \ (X \ {w}) :
             r.parent[v] # None => v \in r.transient /\ r.parent[v] \in S.mapped
    BY <1>1, <1>r, <1>7 DEF Kept
  <1>10. Sound(S, r.d)
    BY <1>3, <1>7
  <1>11. Hale(r, X \ {w}) /\ r.d.mapped = S.mapped
    BY <1>1, <1>r, <1>7, <1>8, <1>9, <1>10, Arranged
  <1>12. MakeTab(s, w) = Focus(r, w)
    BY DEF MakeTab, r, e, ws
  <1>13. Unmoved(s, r, {})
    <2>1. \A v \in Windows \ {w} : r.tws[v] = s.tws[v] /\ (v \in r.transient <=> v \in s.transient)
      BY <1>6, <1>7
    <2>2. Unmoved(s, r, {w})
      BY <1>1, <1>7, <1>s, <2>1, UnmovedIs
    <2>3. WorkspaceOf(r, w) = WorkspaceOf(s, w)
      BY <1>7, <1>s DEF WorkspaceOf, ws
    <2> QED
      BY <2>2, <2>3 DEF Unmoved
  <1>14. Unmoved(s, Focus(r, w), {})
    BY <1>11, <1>13, FocusHale DEF Unmoved
  <1> QED
    BY <1>7, <1>r, <1>11, <1>12, <1>14, FocusHale DEF Made

\* handle_window_set_parent: a window that is given a parent is a dialog
\* on its workspace afterwards, one that loses it is not.
Given(s, c, p, r) ==
  /\ r.parent = [s.parent EXCEPT ![c] = p]
  /\ r.transient = IF p # None THEN s.transient \cup {c} ELSE s.transient \ {c}
  /\ r.d.mapped = s.d.mapped
  /\ Unmoved(s, r, {c})
  /\ WorkspaceOf(r, c) = WorkspaceOf(s, IF p # None THEN p ELSE c)

LEMMA HandleSetParentHale ==
  ASSUME NEW s, NEW X, Hale(s, X), NEW c \in Windows, NEW p \in Windows \cup {None},
         p # None => p \in s.d.mapped
  PROVE  /\ Hale(HandleSetParent(s, c, p), X \ {c})
         /\ Given(s, c, p, HandleSetParent(s, c, p))
  <1> DEFINE e == [s EXCEPT !.parent[c] = p]
             parent1 == [s.parent EXCEPT ![c] = p]
  <1>1. /\ s \in State /\ s.d \in Desk /\ Told(s) /\ Sound(RosterOf(s.d), s.d)
        /\ Kept(s, X)
    BY StateFields DEF Hale
  <1>2. e = [s EXCEPT !.parent = parent1]
    BY <1>1 DEF State
  <1>3. parent1 \in [Windows -> Windows \cup {None}] /\ parent1[c] = p
        /\ \A v \in Windows \ {c} : parent1[v] = s.parent[v]
    BY <1>1, StateFields
  <1> HIDE DEF e, parent1
  <1>4. /\ e \in State /\ e.d = s.d /\ e.parent = parent1 /\ e.transient = s.transient
        /\ e.tws = s.tws
    BY <1>1, <1>2, <1>3 DEF State
  <1>s. \A v : WorkspaceOf(e, v) = WorkspaceOf(s, v)
    BY <1>4 DEF WorkspaceOf
  <1>5. Sound(RosterOf(e.d), e.d) /\ Told(e)
    BY <1>1, <1>4 DEF Told
  <1>6. CASE p # None
    <2>1. Kept(e, X \cup {c})
      BY <1>1, <1>3, <1>4 DEF Kept
    <2>2. Hale(e, X \cup {c}) /\ p \in Windows /\ p \in e.d.mapped /\ e.parent[c] = p
      BY <1>3, <1>4, <1>5, <1>6, <2>1 DEF Hale
    <2> DEFINE r == MakeTransient(e, c, p)
               Y == X \cup {c}
    <2>4. Y \ {c} = X \ {c}
      OBVIOUS
    <2> HIDE DEF Y
    <2>3. /\ Hale(r, Y \ {c}) /\ Made(e, e.transient \cup {c}, r)
          /\ Unmoved(e, r, {c}) /\ WorkspaceOf(r, c) = WorkspaceOf(e, p)
      <3>1. Hale(e, Y)
        BY <2>2 DEF Y
      <3>2. p \in Windows /\ e.parent[c] = p /\ p \in e.d.mapped
        BY <2>2
      <3> QED
        BY <3>1, <3>2, MakeTransientHale
    <2>5. HandleSetParent(s, c, p) = r
      BY <1>6 DEF HandleSetParent, e
    <2> HIDE DEF r
    <2> QED
      BY <1>4, <1>6, <1>s, <2>3, <2>4, <2>5 DEF Given, Made, Unmoved, parent1
  <1>7. CASE p = None /\ c \in s.transient
    <2>1. Kept(e, X \cup {c})
      BY <1>1, <1>3, <1>4 DEF Kept
    <2>2. Hale(e, X \cup {c}) /\ c \in e.transient /\ e.parent[c] = None
      BY <1>3, <1>4, <1>5, <1>7, <2>1 DEF Hale
    <2> DEFINE r == MakeTab(e, c)
    <2>3. /\ Hale(r, (X \cup {c}) \ {c}) /\ Made(e, e.transient \ {c}, r)
          /\ Unmoved(e, r, {})
      BY <2>2, MakeTabHale
    <2>4. (X \cup {c}) \ {c} = X \ {c}
      OBVIOUS
    <2>5. HandleSetParent(s, c, p) = r
      BY <1>7 DEF HandleSetParent, e
    <2> HIDE DEF r
    <2> QED
      BY <1>4, <1>7, <1>s, <2>3, <2>4, <2>5 DEF Given, Made, Unmoved, parent1
  <1>8. CASE p = None /\ c \notin s.transient
    <2>1. HandleSetParent(s, c, p) = e
      BY <1>8 DEF HandleSetParent, e
    <2>2. Kept(e, X \ {c})
      BY <1>1, <1>3, <1>4, <1>8 DEF Kept
    <2>3. Hale(e, X \ {c})
      BY <1>4, <1>5, <2>2 DEF Hale
    <2>4. s.transient = s.transient \ {c}
      BY <1>8
    <2> QED
      BY <1>4, <1>8, <1>s, <2>1, <2>3, <2>4 DEF Given, Unmoved, parent1
  <1> QED
    BY <1>6, <1>7, <1>8

\* The windows that HandedOver gives a parent, one after the other.
Hands(s, list, p, f) ==
  /\ f[0] = s
  /\ \A n \in 1..Len(list) : f[n] = HandleSetParent(f[n - 1], list[n], p)
  /\ HandedOver(s, list, p) = f[Len(list)]

LEMMA HandedOverIs ==
  ASSUME NEW s, NEW list, NEW p, Len(list) \in Nat
  PROVE  \E f : Hands(s, list, p, f)
  <1> DEFINE N == Len(list)
             Step(f, n) == IF n = 0 THEN s ELSE HandleSetParent(f[n - 1], list[n], p)
             Fits(k, f) == f = [n \in 0..k |-> Step(f, n)]
             Bad == {k \in 0..N : ~ \E f : Fits(k, f)}
  <1>1. N \in Nat
    OBVIOUS
  <1>2. Bad = {}
    <2> SUFFICES ASSUME Bad # {} PROVE FALSE
      OBVIOUS
    <2>1. PICK m \in Bad : \A k \in Bad : m <= k
      <3>1. Bad \in SUBSET Nat
        BY <1>1
      <3> HIDE DEF Bad
      <3> QED
        BY <3>1, LeastOf
    <2>2. m # 0
      <3> DEFINE f == [n \in 0..0 |-> s]
      <3>1. Fits(0, f)
        <4>1. [n \in 0..0 |-> Step(f, n)] = f
          OBVIOUS
        <4> QED
          BY <4>1
      <3> HIDE DEF Fits
      <3> QED
        BY <2>1, <3>1
    <2>3. m \in 1..N /\ m - 1 \in 0..N /\ m - 1 \notin Bad
      <3>1. Bad \in SUBSET (0..N)
        OBVIOUS
      <3> HIDE DEF Bad
      <3>2. m \in 1..N /\ m - 1 \in 0..N /\ ~(m <= m - 1)
        BY <1>1, <2>1, <2>2, <3>1
      <3> QED
        BY <2>1, <3>2
    <2>4. PICK f : Fits(m - 1, f)
      <3> HIDE DEF Fits
      <3> QED
        BY <2>3
    <2>5. \A n \in 0..(m - 1) : f[n] = Step(f, n)
      BY <2>4
    <2> DEFINE g == [n \in 0..m |-> IF n = m THEN HandleSetParent(f[m - 1], list[m], p) ELSE f[n]]
    <2>6. \A n \in 0..m : g[n] = Step(g, n)
      <3> TAKE n \in 0..m
      <3>1. CASE n = m
        <4>1. g[n] = HandleSetParent(f[m - 1], list[m], p) /\ g[n - 1] = f[m - 1]
          BY <2>3, <3>1
        <4> HIDE DEF g
        <4> QED
          BY <2>2, <3>1, <4>1
      <3>2. CASE n # m /\ n = 0
        <4>1. g[n] = f[n] /\ f[n] = s
          BY <2>3, <2>5, <3>2
        <4> QED
          BY <3>2, <4>1
      <3>3. CASE n # m /\ n # 0
        <4>1. g[n] = f[n] /\ g[n - 1] = f[n - 1] /\ n \in 0..(m - 1)
          BY <2>3, <3>3
        <4> HIDE DEF g
        <4>2. f[n] = HandleSetParent(f[n - 1], list[n], p)
          BY <2>5, <3>3, <4>1
        <4> QED
          BY <3>3, <4>1, <4>2
      <3> QED
        BY <3>1, <3>2, <3>3
    <2>7. g = [n \in 0..m |-> g[n]]
      OBVIOUS
    <2>8. Fits(m, g)
      <3> HIDE DEF g, Step
      <3>1. [n \in 0..m |-> g[n]] = [n \in 0..m |-> Step(g, n)]
        BY <2>6
      <3> QED
        BY <2>7, <3>1
    <2> HIDE DEF Fits, g
    <2> QED
      BY <2>1, <2>8
  <1>3. \E f : Fits(N, f)
    <2> HIDE DEF Fits
    <2> QED
      BY <1>1, <1>2
  <1> DEFINE h == CHOOSE f : Fits(N, f)
  <1>4. Fits(N, h)
    <2> HIDE DEF Fits
    <2> QED
      BY <1>3
  <1>5. HandedOver(s, list, p) = h[N]
    BY DEF HandedOver
  <1> HIDE DEF h
  <1>6. \A n \in 0..N : h[n] = Step(h, n)
    BY <1>4
  <1>7. h[0] = s /\ \A n \in 1..N : h[n] = HandleSetParent(h[n - 1], list[n], p)
    BY <1>1, <1>6
  <1> QED
    BY <1>5, <1>7 DEF Hands


\* What the windows C are given: the parent p, if it is one; the others stay
\* where they are.
HandedTo(s, C, p, r) ==
  /\ r.d.mapped = s.d.mapped
  /\ \A v \in Windows :
       IF v \in C THEN r.parent[v] = p /\ (v \in r.transient <=> p # None)
       ELSE /\ r.parent[v] = s.parent[v] /\ (v \in r.transient <=> v \in s.transient)
            /\ WorkspaceOf(r, v) = WorkspaceOf(s, v)

LEMMA HandedOverHale ==
  ASSUME NEW s, NEW X, Hale(s, X), NEW list \in Seq(Windows),
         NEW p \in Windows \cup {None}, p # None => p \in s.d.mapped
  PROVE  /\ Hale(HandedOver(s, list, p), X \ ToSet(list))
         /\ HandedTo(s, ToSet(list), p, HandedOver(s, list, p))
  <1> DEFINE N == Len(list)
  <1>1. N \in Nat /\ DOMAIN list = 1..N /\ \A i \in 1..N : list[i] \in Windows
    BY LenProperties, ElementOfSeq
  <1>2. PICK f : /\ f[0] = s
                 /\ \A n \in 1..N : f[n] = HandleSetParent(f[n - 1], list[n], p)
                 /\ HandedOver(s, list, p) = f[N]
    <2>1. Len(list) \in Nat
      BY <1>1
    <2>2. \E f : Hands(s, list, p, f)
      BY <2>1, HandedOverIs
    <2> QED
      BY <2>2 DEF Hands
  <1> DEFINE C(n) == {list[i] : i \in 1..n}
  <1>3. C(0) = {} /\ C(N) = ToSet(list)
    BY <1>1 DEF ToSet
  <1> HIDE DEF N
  <1> DEFINE P(n) == Hale(f[n], X \ C(n)) /\ HandedTo(s, C(n), p, f[n])
             Bad == {n \in 0..N : ~P(n)}
  <1>4. P(0)
    <2>1. X \ C(0) = X
      BY <1>3
    <2>2. HandedTo(s, C(0), p, f[0])
      BY <1>2, <1>3 DEF HandedTo
    <2> HIDE DEF C
    <2> QED
      BY <1>2, <2>1, <2>2
  <1>5. ASSUME NEW n \in 1..N, P(n - 1) PROVE P(n)
    <2> DEFINE e == f[n - 1]
               c == list[n]
               r == HandleSetParent(e, c, p)
    <2>1. c \in Windows /\ f[n] = r
      BY <1>1, <1>2
    <2>2. C(n) = C(n - 1) \cup {c}
      <3>1. \A i : i \in 1..n <=> i \in 1..(n - 1) \/ i = n
        BY <1>1
      <3> QED
        BY <3>1
    <2> HIDE DEF C
    <2>3. Hale(e, X \ C(n - 1)) /\ HandedTo(s, C(n - 1), p, e)
      BY <1>5
    <2> HIDE DEF e, c
    <2>4. p # None => p \in e.d.mapped
      BY <2>3 DEF HandedTo
    <2>5. Hale(r, (X \ C(n - 1)) \ {c}) /\ Given(e, c, p, r)
      BY <2>1, <2>3, <2>4, HandleSetParentHale
    <2>6. (X \ C(n - 1)) \ {c} = X \ C(n)
      BY <2>2
    <2> HIDE DEF r
    <2>7. HandedTo(s, C(n), p, r)
      <3>1. e.parent \in [Windows -> Windows \cup {None}]
        BY <2>3, StateFields DEF Hale
      <3>2. r.parent[c] = p /\ \A v \in Windows \ {c} : r.parent[v] = e.parent[v]
        BY <2>1, <2>5, <3>1 DEF Given
      <3>3. /\ c \in r.transient <=> p # None
            /\ \A v \in Windows \ {c} : v \in r.transient <=> v \in e.transient
            /\ r.d.mapped = e.d.mapped
            /\ \A v \in Windows \ {c} : WorkspaceOf(r, v) = WorkspaceOf(e, v)
        BY <2>1, <2>5 DEF Given, Unmoved
      <3> QED
        BY <2>1, <2>2, <2>3, <3>2, <3>3 DEF HandedTo
    <2> QED
      BY <2>1, <2>5, <2>6, <2>7
  <1> HIDE DEF P, C
  <1>6. Bad = {}
    <2> SUFFICES ASSUME Bad # {} PROVE FALSE
      OBVIOUS
    <2>1. Bad \in SUBSET Nat
      BY <1>1
    <2>2. PICK m \in Bad : \A k \in Bad : m <= k
      <3> HIDE DEF Bad
      <3> QED
        BY <2>1, LeastOf
    <2>3. m # 0
      BY <1>4, <2>2
    <2>4. m \in 1..N /\ m - 1 \in 0..N /\ ~(m <= m - 1)
      BY <1>1, <2>2, <2>3
    <2>5. P(m - 1)
      BY <2>2, <2>4
    <2> QED
      BY <1>5, <2>2, <2>4, <2>5
  <1>7. P(N)
    BY <1>1, <1>6
  <1> QED
    BY <1>2, <1>3, <1>7 DEF P

\* handle_window_unmap, before the children of the window are told.
LEMMA UnmappedHale ==
  ASSUME NEW s, Hale(s, {}), NEW w \in Windows, w \in s.d.mapped
  PROVE  /\ Hale(Unmapped(s, w), {c \in Windows : s.parent[c] = w})
         /\ Unmapped(s, w).parent = s.parent
         /\ Unmapped(s, w).transient = s.transient
         /\ Unmapped(s, w).d.mapped = s.d.mapped \ {w}
         /\ Unmoved(s, Unmapped(s, w), {})
  <1> DEFINE R == RosterOf(s.d)
             m == s.d.mapped \ {w}
             S == Showing(s.d, m)
             X == {c \in Windows : s.parent[c] = w}
             e == [s.d EXCEPT !.mapped = @ \ {w}]
             u == Unmapped(s, w)
  <1>1. s \in State /\ s.d \in Desk /\ Told(s) /\ Sound(R, s.d) /\ Kept(s, {})
    BY StateFields DEF Hale
  <1>m. /\ R.mapped = s.d.mapped /\ R.outside = {v \in Windows : s.d.own[v] = None}
        /\ R.kbd = "any" /\ R.spaces = Spaces(s.d)
    BY RosterIs
  <1> HIDE DEF m
  <1>n. /\ S.mapped = m /\ S.outside = {v \in Windows : s.d.own[v] = None}
        /\ S.kbd = "any" /\ S.spaces = Spaces(s.d)
        /\ Recast(R, S, m, R.outside)
    BY ShowingIs
  <1> HIDE DEF R, S
  <1>r. /\ R.mapped = s.d.mapped /\ R.outside = {v \in Windows : s.d.own[v] = None}
        /\ R.kbd = "any" /\ R.spaces = Spaces(s.d)
        /\ S.mapped = s.d.mapped \ {w} /\ S.outside = R.outside
        /\ S.kbd = "any" /\ S.spaces = Spaces(s.d)
        /\ Recast(R, S, R.mapped \ {w}, R.outside)
    <2>1. m = R.mapped \ {w}
      BY <1>m DEF m
    <2>2. Recast(R, S, R.mapped \ {w}, R.outside)
      BY <1>n, <2>1
    <2> QED
      BY <1>m, <1>n, <2>1, <2>2
  <1>s. HasPlaces(s.d) /\ Settled(s.d, e, {})
    BY <1>1 DEF Desk, HasPlaces, Settled
  <1>2. ASSUME NEW d, Sound(S, d), Settled(s.d, d, {}), NEW r, r = [s EXCEPT !.d = d]
        PROVE  /\ Hale(r, X) /\ r.parent = s.parent /\ r.transient = s.transient
               /\ r.d.mapped = s.d.mapped \ {w} /\ Unmoved(s, r, {})
    <2>1. d \in Desk
      BY <1>2 DEF Sound, Good, Linked, Typed
    <2>2. /\ r \in State /\ r.d = d /\ r.parent = s.parent /\ r.transient = s.transient
          /\ r.tws = s.tws
      BY <1>1, <1>2, <2>1 DEF State
    <2>3. /\ \A v \in r.transient : v \in S.outside /\ r.tws[v] \in Spaces(s.d) \cup Spaces(r.d)
          /\ \A v \in S.mapped : v \in S.outside => v \in r.transient
      BY <1>1, <1>r, <2>2, StateFields DEF Told
    <2>4. \A v \in Windows \ X :
             r.parent[v] # None => v \in r.transient /\ r.parent[v] \in S.mapped
      BY <1>1, <1>r, <2>2 DEF Kept
    <2>5. Sound(S, r.d)
      BY <1>2, <2>2
    <2> HIDE DEF X
    <2>6. Hale(r, X) /\ r.d.mapped = S.mapped
      BY <1>1, <1>r, <2>2, <2>3, <2>4, <2>5, Arranged
    <2>7. Unmoved(s, r, {})
      BY <1>1, <1>2, <2>2, UnmovedIs
    <2> QED
      BY <1>r, <2>2, <2>6, <2>7
  <1> HIDE DEF X
  <1>3. CASE w \in s.transient
    <2> DEFINE r == [s EXCEPT !.d.mapped = @ \ {w}]
    <2>1. s.d.own[w] = None
      BY <1>1, <1>3 DEF Told
    <2>2. \A h \in Live(s.d) : s.d.gact[h] # w
      BY <1>1, <2>1, LiveGroups, Names DEF Sound, Good, Tabbed
    <2>3. Sound(S, e)
      BY <1>1, <1>r, <2>2, HideSound
    <2>4. r = [s EXCEPT !.d = e]
      BY <1>1 DEF State
    <2> HIDE DEF e
    <2>5. /\ Hale(r, X) /\ r.parent = s.parent /\ r.transient = s.transient
          /\ r.d.mapped = s.d.mapped \ {w} /\ Unmoved(s, r, {})
      BY <1>2, <1>s, <2>3, <2>4
    <2>6. CASE s.parent[w] = None
      <3>1. u = r
        BY <1>3, <2>6 DEF Unmapped
      <3> HIDE DEF r, u
      <3> QED
        BY <2>5, <3>1 DEF u, X
    <2>7. CASE s.parent[w] # None
      <3>1. u = Focus(r, s.parent[w])
        BY <1>3, <2>7 DEF Unmapped
      <3>2. s.parent[w] \in Windows
        BY <1>1, <2>7, StateFields
      <3> HIDE DEF r, u
      <3>3. /\ Hale(u, X) /\ u.parent = r.parent /\ u.transient = r.transient
            /\ u.d.mapped = r.d.mapped /\ Unmoved(r, u, {})
        BY <2>5, <3>1, <3>2, FocusHale
      <3> QED
        BY <2>5, <3>3 DEF u, X, Unmoved
    <2> QED
      BY <2>6, <2>7
  <1>4. CASE w \notin s.transient
    <2> DEFINE g == s.d.own[w]
               d == IF s.d.gact[g] = w THEN SetActiveWindow(e, g, LastMapped(e, g)) ELSE e
    <2>1. g # None
      BY <1>1, <1>4 DEF Told
    <2>2. g \in Groups
      BY <1>1, <2>1, DeskFields
    <2>3. Sound(S, d)
      BY <1>1, <1>r, <2>2, UnmapSound
    <2>s. Settled(s.d, d, {})
      BY <1>s, PlacesFocus, SettledTransitive DEF Settled, HasPlaces
    <2>4. u = [s EXCEPT !.d = d]
      <3>1. CASE s.d.gact[g] = w
        <4>1. u = [[s EXCEPT !.d.mapped = @ \ {w}]
                     EXCEPT !.d = SetActiveWindow(@, g, LastMapped(@, g))]
          BY <1>4, <3>1 DEF Unmapped
        <4>2. [s EXCEPT !.d.mapped = @ \ {w}] = [s EXCEPT !.d = e]
          BY <1>1 DEF State
        <4> HIDE DEF e, g, u
        <4>3. u = [s EXCEPT !.d = SetActiveWindow(e, g, LastMapped(e, g))]
          BY <1>1, <4>1, <4>2 DEF State
        <4>4. d = SetActiveWindow(e, g, LastMapped(e, g))
          BY <3>1 DEF g
        <4> QED
          BY <4>3, <4>4
      <3>2. CASE s.d.gact[g] # w
        <4>1. u = [s EXCEPT !.d.mapped = @ \ {w}]
          BY <1>4, <3>2 DEF Unmapped
        <4>2. d = e
          BY <3>2
        <4> HIDE DEF d, u
        <4> QED
          BY <1>1, <4>1, <4>2 DEF State
      <3> QED
        BY <3>1, <3>2
    <2> HIDE DEF d, u
    <2>5. /\ Hale(u, X) /\ u.parent = s.parent /\ u.transient = s.transient
          /\ u.d.mapped = s.d.mapped \ {w} /\ Unmoved(s, u, {})
      BY <1>2, <2>3, <2>4, <2>s
    <2> QED
      BY <2>5 DEF u, X
  <1> QED
    BY <1>3, <1>4

-----------------------------------------------------------------------------
(* Parents.                                                                *)

\* Nobody is an ancestor of itself: every set of windows has one whose parent
\* is not in it.
Rooted(f) == \A C \in SUBSET Windows : C # {} => \E w \in C : f[w] \notin C

LEMMA RootedSelf ==
  ASSUME NEW f, Rooted(f), NEW w \in Windows
  PROVE  f[w] # w
  <1>1. {w} \in SUBSET Windows /\ {w} # {}
    OBVIOUS
  <1>2. PICK v \in {w} : f[v] \notin {w}
    BY <1>1 DEF Rooted
  <1> QED
    BY <1>2

\* Windows lose their parents.
LEMMA RootedLess ==
  ASSUME NEW f, Rooted(f), NEW h, \A w \in Windows : h[w] = f[w] \/ h[w] = None
  PROVE  Rooted(h)
  <1> SUFFICES ASSUME NEW C \in SUBSET Windows, C # {} PROVE \E w \in C : h[w] \notin C
    BY DEF Rooted
  <1>1. PICK w \in C : f[w] \notin C
    BY DEF Rooted
  <1> QED
    BY <1>1, Names

\* The children of a window are handed to its parent, or lose it.
LEMMA RootedHanded ==
  ASSUME NEW f, Rooted(f), NEW w \in Windows, NEW p, p = f[w] \/ p = None,
         NEW h, \A v \in Windows \ {w} : h[v] = IF f[v] = w THEN p ELSE f[v],
         h[w] = None
  PROVE  Rooted(h)
  <1> SUFFICES ASSUME NEW C \in SUBSET Windows, C # {}, \A v \in C : h[v] \in C
               PROVE FALSE
    BY DEF Rooted
  <1>1. w \notin C
    BY Names
  <1>2. CASE \E c \in C : f[c] = w
    <2>1. PICK c \in C : f[c] = w
      BY <1>2
    <2>2. p \in C
      BY <1>1, <2>1
    <2>3. p = f[w]
      BY <2>2, Names
    <2>4. C \cup {w} \in SUBSET Windows /\ C \cup {w} # {}
      OBVIOUS
    <2>5. PICK v \in C \cup {w} : f[v] \notin C \cup {w}
      BY <2>4 DEF Rooted
    <2>6. CASE v = w
      BY <2>2, <2>3, <2>5, <2>6
    <2>7. CASE v # w
      BY <1>1, <2>5, <2>7
    <2> QED
      BY <2>6, <2>7
  <1>3. CASE \A c \in C : f[c] # w
    <2>1. PICK v \in C : f[v] \notin C
      BY DEF Rooted
    <2> QED
      BY <1>1, <1>3, <2>1
  <1> QED
    BY <1>2, <1>3

\* A function of S that is iterated from b, and what it gives in N steps.
Iterable(S, F, b) == F \in [S -> S] /\ b \in S
Orbit(N, S, F, b, f) ==
  f \in [0..N -> S] /\ f[0] = b /\ \A n \in 1..N : f[n] = F[f[n - 1]]

LEMMA Iterates ==
  ASSUME NEW N \in Nat, NEW S, NEW F, NEW b, Iterable(S, F, b)
  PROVE  \E f : Orbit(N, S, F, b, f)
  <1>0. F \in [S -> S] /\ b \in S
    BY DEF Iterable
  <1> DEFINE Fits(k, f) == Orbit(k, S, F, b, f)
             Bad == {k \in 0..N : ~ \E f : Fits(k, f)}
  <1>1. Bad = {}
    <2> SUFFICES ASSUME Bad # {} PROVE FALSE
      OBVIOUS
    <2>1. Bad \in SUBSET Nat
      OBVIOUS
    <2>2. PICK m \in Bad : \A k \in Bad : m <= k
      <3> HIDE DEF Bad
      <3> QED
        BY <2>1, LeastOf
    <2>3. m # 0
      <3>1. Fits(0, [n \in 0..0 |-> b])
        BY <1>0 DEF Orbit
      <3> HIDE DEF Fits
      <3> QED
        BY <2>2, <3>1
    <2>4. m \in 1..N /\ m - 1 \in 0..N /\ ~(m <= m - 1)
      BY <2>2, <2>3
    <2>5. PICK f : Fits(m - 1, f)
      <3> HIDE DEF Fits
      <3> QED
        BY <2>2, <2>4
    <2> DEFINE g == [n \in 0..m |-> IF n = m THEN F[f[m - 1]] ELSE f[n]]
    <2>o. f \in [0..(m - 1) -> S] /\ f[0] = b /\ \A n \in 1..(m - 1) : f[n] = F[f[n - 1]]
      BY <2>5 DEF Orbit
    <2>6. f[m - 1] \in S /\ \A n \in 0..(m - 1) : g[n] = f[n]
      BY <2>4, <2>o
    <2>7. g \in [0..m -> S] /\ g[0] = b /\ g[m] = F[g[m - 1]]
      BY <1>0, <2>4, <2>o, <2>6
    <2>8. \A n \in 1..m : g[n] = F[g[n - 1]]
      <3> TAKE n \in 1..m
      <3>1. CASE n = m
        BY <2>7, <3>1
      <3>2. CASE n # m
        <4>1. n \in 1..(m - 1) /\ n - 1 \in 0..(m - 1) /\ n \in 0..(m - 1)
          BY <2>4, <3>2
        <4> HIDE DEF g
        <4> QED
          BY <2>o, <2>6, <4>1
      <3> QED
        BY <3>1, <3>2
    <2>9. Fits(m, g)
      BY <2>7, <2>8 DEF Orbit
    <2> HIDE DEF Fits, g
    <2> QED
      BY <2>2, <2>9
  <1>2. \E f : Fits(N, f)
    <2>1. N \in 0..N
      OBVIOUS
    <2> HIDE DEF Fits
    <2> QED
      BY <1>1, <2>1
  <1> QED
    BY <1>2

\* A set of windows that grows step by step, and keeps a property Q, is closed
\* after as many steps as there are windows.
LEMMA ClimbEnds ==
  ASSUME NEW N, N = Cardinality(Windows), NEW Q \in SUBSET (SUBSET Windows), NEW F \in [Q -> Q],
         \A U \in Q : U \subseteq F[U],
         NEW f, f[0] \in Q, f[0] = {} => F[{}] = {},
         \A n \in 1..N : f[n - 1] \in Q => f[n] = F[f[n - 1]]
  PROVE  f[N] \in Q /\ F[f[N]] = f[N]
  <1>1. IsFiniteSet(Windows) /\ N \in Nat
    BY DesktopAssumption, FS_CardinalityType
  <1> DEFINE P(n) == /\ f[n] \in Q
                     /\ F[f[n]] = f[n] \/ Cardinality(f[n]) >= n + 1
             Bad == {n \in 0..N : ~P(n)}
  <1>2. P(0)
    <2>1. CASE f[0] = {}
      BY <2>1
    <2>2. CASE f[0] # {}
      <3>1. IsFiniteSet(f[0])
        BY <1>1, FS_Subset
      <3>2. Cardinality(f[0]) \in Nat /\ Cardinality(f[0]) # 0
        BY <2>2, <3>1, FS_CardinalityType, FS_EmptySet
      <3> QED
        BY <3>2
    <2> QED
      BY <2>1, <2>2
  <1>3. ASSUME NEW n \in 1..N, P(n - 1) PROVE P(n)
    <2> DEFINE U == f[n - 1]
               V == f[n]
    <2>1. U \in Q /\ (F[U] = U \/ Cardinality(U) >= n)
      BY <1>1, <1>3
    <2>2. V = F[U]
      BY <2>1
    <2> HIDE DEF U, V
    <2>3. V \in Q /\ U \subseteq V /\ V \in SUBSET Windows
      BY <2>1, <2>2
    <2>4. CASE F[U] = U
      BY <2>1, <2>2, <2>4 DEF V
    <2>5. CASE F[U] # U
      <3>1. IsFiniteSet(V) /\ U # V
        BY <1>1, <2>2, <2>3, <2>5, FS_Subset
      <3>2. Cardinality(U) < Cardinality(V) /\ Cardinality(V) \in Nat /\ Cardinality(U) \in Nat
        BY <2>3, <3>1, FS_Subset, FS_CardinalityType
      <3> QED
        BY <1>1, <2>1, <2>3, <2>5, <3>2 DEF V
    <2> QED
      BY <2>4, <2>5
  <1> HIDE DEF P
  <1>4. Bad = {}
    <2> SUFFICES ASSUME Bad # {} PROVE FALSE
      OBVIOUS
    <2>1. Bad \in SUBSET Nat
      BY <1>1
    <2>2. PICK m \in Bad : \A k \in Bad : m <= k
      <3> HIDE DEF Bad
      <3> QED
        BY <2>1, LeastOf
    <2>3. m \in 1..N /\ m - 1 \in 0..N /\ ~(m <= m - 1)
      BY <1>1, <1>2, <2>2
    <2>4. P(m - 1)
      BY <2>2, <2>3
    <2> QED
      BY <1>3, <2>2, <2>3, <2>4
  <1>5. P(N)
    BY <1>1, <1>4
  <1>6. F[f[N]] = f[N]
    <2> DEFINE V == f[N]
    <2>1. V \in SUBSET Windows /\ (F[V] = V \/ Cardinality(V) >= N + 1)
      BY <1>5 DEF P
    <2> HIDE DEF V
    <2>3. Cardinality(V) <= N /\ Cardinality(V) \in Nat
      BY <1>1, <2>1, FS_Subset, FS_CardinalityType
    <2> QED
      BY <1>1, <2>1, <2>3 DEF V
  <1> QED
    BY <1>5, <1>6 DEF P

\* The parents of a set, with the set; and the dialogs of a set, with the set.
Above(U) == U \cup ({parent[v] : v \in U} \ {None})
Below(U) == U \cup {c \in transient : parent[c] \in U}

\* The ancestors of w are all there is above w: there are no more steps than
\* windows.
LEMMA AncestorsClosed ==
  ASSUME parent \in [Windows -> Windows \cup {None}], NEW w \in Windows
  PROVE  /\ Ancestors(w) \in SUBSET Windows
         /\ parent[w] # None => parent[w] \in Ancestors(w)
         /\ \A v \in Ancestors(w) : parent[v] # None => parent[v] \in Ancestors(w)
  <1> DEFINE N == Cardinality(Windows)
             b == {parent[w]} \ {None}
             Q == {U \in SUBSET Windows : b \subseteq U}
             F == [U \in Q |-> Above(U)]
             Fits(f) == f = [n \in 0..N |-> IF n = 0 THEN b ELSE Above(f[n - 1])]
             h == CHOOSE f : Fits(f)
  <1>1. N \in Nat
    BY DesktopAssumption, FS_CardinalityType
  <1>2. /\ b \in Q /\ F \in [Q -> Q] /\ Q \in SUBSET (SUBSET Windows) /\ (b = {} => F[{}] = {})
        /\ \A U \in Q : F[U] = Above(U) /\ U \subseteq F[U] /\ U \in SUBSET Windows /\ b \subseteq U
    BY DEF Above
  <1>3. Ancestors(w) = h[N]
    BY DEF Ancestors, Above
  <1> HIDE DEF F, N, Q, b
  <1>4. \E f : Fits(f)
    <2>0. PICK f : Orbit(N, Q, F, b, f)
      <3>1. Iterable(Q, F, b)
        BY <1>2 DEF Iterable
      <3> QED
        BY <1>1, <3>1, Iterates
    <2>1. f \in [0..N -> Q] /\ f[0] = b /\ \A n \in 1..N : f[n] = F[f[n - 1]]
      BY <2>0 DEF Orbit
    <2>2. \A n \in 0..N : f[n] = IF n = 0 THEN b ELSE Above(f[n - 1])
      BY <1>1, <1>2, <2>1
    <2>3. f = [n \in 0..N |-> f[n]]
      BY <2>1
    <2> QED
      BY <2>2, <2>3
  <1>5. Fits(h)
    <2> HIDE DEF Fits
    <2> QED
      BY <1>4
  <1> HIDE DEF h
  <1>6. h[0] = b /\ \A n \in 1..N : h[n] = Above(h[n - 1])
    BY <1>1, <1>5
  <1>7. h[N] \in Q /\ F[h[N]] = h[N]
    <2>1. \A n \in 1..N : h[n - 1] \in Q => h[n] = F[h[n - 1]]
      BY <1>2, <1>6
    <2> QED
      BY <1>2, <1>6, <2>1, ClimbEnds DEF N
  <1>8. Above(h[N]) = h[N] /\ h[N] \in SUBSET Windows /\ b \subseteq h[N]
    BY <1>2, <1>7
  <1> QED
    BY <1>3, <1>8 DEF Above, b

\* The dialogs of w are all there is below w.
LEMMA DialogsClosed ==
  ASSUME transient \in SUBSET Windows, NEW w
  PROVE  \A c \in Windows :
           c \in Dialogs(w) <=> c \in transient /\ (parent[c] = w \/ parent[c] \in Dialogs(w))
  <1> DEFINE N == Cardinality(Windows)
             b == {c \in transient : parent[c] = w}
             Q == {U \in SUBSET transient :
                     b \subseteq U /\ \A c \in U : parent[c] = w \/ parent[c] \in U}
             F == [U \in Q |-> Below(U)]
             Fits(f) == f = [n \in 0..N |-> IF n = 0 THEN b ELSE Below(f[n - 1])]
             h == CHOOSE f : Fits(f)
  <1>1. N \in Nat
    BY DesktopAssumption, FS_CardinalityType
  <1>2. /\ b \in Q /\ F \in [Q -> Q] /\ Q \in SUBSET (SUBSET Windows) /\ (b = {} => F[{}] = {})
        /\ \A U \in Q : /\ F[U] = Below(U) /\ U \subseteq F[U] /\ U \in SUBSET transient /\ b \subseteq U
                        /\ \A c \in U : parent[c] = w \/ parent[c] \in U
    <2>1. b \in Q
      OBVIOUS
    <2>2. ASSUME NEW U \in Q PROVE Below(U) \in Q
      BY DEF Below
    <2>3. F \in [Q -> Q]
      BY <2>2
    <2>4. b = {} => Below(b) = {}
      BY DEF Below
    <2> QED
      BY <2>1, <2>3, <2>4 DEF Below
  <1>3. Dialogs(w) = h[N]
    BY DEF Dialogs, Below
  <1> HIDE DEF F, N, Q, b
  <1>4. \E f : Fits(f)
    <2>0. PICK f : Orbit(N, Q, F, b, f)
      <3>1. Iterable(Q, F, b)
        BY <1>2 DEF Iterable
      <3> QED
        BY <1>1, <3>1, Iterates
    <2>1. f \in [0..N -> Q] /\ f[0] = b /\ \A n \in 1..N : f[n] = F[f[n - 1]]
      BY <2>0 DEF Orbit
    <2>2. \A n \in 0..N : f[n] = IF n = 0 THEN b ELSE Below(f[n - 1])
      BY <1>1, <1>2, <2>1
    <2>3. f = [n \in 0..N |-> f[n]]
      BY <2>1
    <2> QED
      BY <2>2, <2>3
  <1>5. Fits(h)
    <2> HIDE DEF Fits
    <2> QED
      BY <1>4
  <1> HIDE DEF h
  <1>6. h[0] = b /\ \A n \in 1..N : h[n] = Below(h[n - 1])
    BY <1>1, <1>5
  <1>7. h[N] \in Q /\ F[h[N]] = h[N]
    <2>1. \A n \in 1..N : h[n - 1] \in Q => h[n] = F[h[n - 1]]
      BY <1>2, <1>6
    <2> QED
      BY <1>2, <1>6, <2>1, ClimbEnds DEF N
  <1>8. /\ Below(h[N]) = h[N] /\ h[N] \in SUBSET transient /\ b \subseteq h[N]
        /\ \A c \in h[N] : parent[c] = w \/ parent[c] \in h[N]
    BY <1>2, <1>7
  <1> QED
    BY <1>3, <1>8 DEF Below, b

\* A window is given a parent that it is not above.
LEMMA RootedSet ==
  ASSUME parent \in [Windows -> Windows \cup {None}], Rooted(parent),
         NEW w \in Windows, NEW p \in Windows, w \notin Ancestors(p) \cup {p},
         NEW h, h[w] = p, \A v \in Windows \ {w} : h[v] = parent[v]
  PROVE  Rooted(h)
  <1> SUFFICES ASSUME NEW C \in SUBSET Windows, C # {}, \A v \in C : h[v] \in C
               PROVE FALSE
    BY DEF Rooted
  <1> DEFINE A == Ancestors(p) \cup {p}
  <1>1. /\ A \in SUBSET Windows /\ p \in A /\ w \notin A
        /\ \A v \in A : parent[v] # None => parent[v] \in A
    BY AncestorsClosed
  <1> HIDE DEF A
  <1>2. CASE w \in C
    <2>1. p \in C \cap A /\ C \cap A \in SUBSET Windows
      BY <1>1, <1>2
    <2>2. PICK v \in C \cap A : parent[v] \notin C \cap A
      BY <2>1 DEF Rooted
    <2>3. parent[v] \in C
      BY <1>1, <2>2
    <2> QED
      BY <1>1, <2>2, <2>3, Names
  <1>3. CASE w \notin C
    <2>1. PICK v \in C : parent[v] \notin C
      BY DEF Rooted
    <2> QED
      BY <1>3, <2>1
  <1> QED
    BY <1>2, <1>3

\* The orders of a set have the members of the set.
LEMMA OrderIs ==
  ASSUME NEW T, IsFiniteSet(T), NEW s \in SetToSeqs(T)
  PROVE  s \in Seq(T) /\ ToSet(s) = T
  <1> DEFINE n == Cardinality(T)
  <1>1. n \in Nat
    BY FS_CardinalityType
  <1>2. s \in [1..n -> T] /\ \A i, j \in 1..n : i # j => s[i] # s[j]
    BY DEF SetToSeqs
  <1>3. s \in Injection(1..n, T)
    BY <1>2 DEF Injection, IsInjective
  <1>4. Cardinality(1..n) = n
    BY <1>1, FS_Interval
  <1>5. s \in Surjection(1..n, T)
    BY <1>3, <1>4, FS_Injection
  <1>6. \A x \in T : \E i \in 1..n : s[i] = x
    BY <1>5 DEF Surjection
  <1>7. s \in Seq(T)
    BY <1>1, <1>2
  <1> HIDE DEF n
  <1>8. DOMAIN s = 1..n
    BY <1>2
  <1>9. ToSet(s) = T
    BY <1>2, <1>6, <1>8 DEF ToSet
  <1> QED
    BY <1>7, <1>9

-----------------------------------------------------------------------------
(* The steps.                                                              *)

\* The inductive invariant of the desktop with its dialogs.
Tended == Hale(Now, {}) /\ Rooted(parent)

LEMMA NowIs ==
  ASSUME Hale(Now, {})
  PROVE  /\ Now \in State /\ Now.d = desk /\ Now.parent = parent
         /\ Now.transient = transient /\ Now.tws = tws
         /\ desk \in Desk /\ parent \in [Windows -> Windows \cup {None}]
         /\ transient \in SUBSET Windows /\ tws \in [Windows -> Workspaces \cup {NoWs}]
         /\ Sound(RosterOf(desk), desk) /\ desk.mapped \in SUBSET Windows
         /\ \A w \in transient : desk.own[w] = None /\ tws[w] \in Spaces(desk)
         /\ \A w \in desk.mapped : desk.own[w] = None => w \in transient
         /\ \A w \in Windows :
              parent[w] # None => w \in transient /\ parent[w] \in desk.mapped
  <1>1. /\ Now.d = desk /\ Now.parent = parent
        /\ Now.transient = transient /\ Now.tws = tws
    BY DEF Now
  <1>2. Now \in State /\ Sound(RosterOf(Now.d), Now.d) /\ Told(Now) /\ Kept(Now, {})
    BY DEF Hale
  <1>3. /\ desk \in Desk /\ parent \in [Windows -> Windows \cup {None}]
        /\ transient \in SUBSET Windows /\ tws \in [Windows -> Workspaces \cup {NoWs}]
    BY <1>1, <1>2, StateFields
  <1>4. desk.mapped \in SUBSET Windows
    BY <1>3, DeskFields
  <1>5. /\ \A w \in transient : desk.own[w] = None /\ tws[w] \in Spaces(desk)
        /\ \A w \in desk.mapped : desk.own[w] = None => w \in transient
    BY <1>1, <1>2 DEF Told
  <1>6. \A w \in Windows :
              parent[w] # None => w \in transient /\ parent[w] \in desk.mapped
    BY <1>1, <1>2 DEF Kept
  <1> QED
    BY <1>1, <1>2, <1>3, <1>4, <1>5, <1>6

\* A handler leaves a state that is the next one.
LEMMA BecomeHale ==
  ASSUME NEW x, Hale(x, {}), Become(x)
  PROVE  /\ Hale(Now', {})
         /\ desk' = x.d /\ parent' = x.parent /\ transient' = x.transient
         /\ Now' = x
  <1>1. x = [d |-> x.d, parent |-> x.parent, transient |-> x.transient, tws |-> x.tws]
    BY StateFields DEF Hale
  <1>2. /\ desk' = x.d /\ parent' = x.parent /\ transient' = x.transient /\ tws' = x.tws
    BY DEF Become
  <1>3. Now' = [d |-> desk', parent |-> parent', transient |-> transient', tws |-> tws']
    BY DEF Now
  <1>4. Now' = x
    BY <1>1, <1>2, <1>3
  <1> QED
    BY <1>2, <1>4

\* What a step must show of the next state.
LEMMA StepHale ==
  ASSUME Hale(Now, {}), NEW S, Sound(S, desk'), S.kbd = "any", S.spaces = Spaces(desk),
         parent' \in [Windows -> Windows \cup {None}], transient' \in SUBSET Windows,
         tws' \in [Windows -> Workspaces \cup {NoWs}],
         \A w \in transient' : w \in S.outside /\ tws'[w] \in Spaces(desk) \cup Spaces(desk'),
         \A w \in S.mapped : w \in S.outside => w \in transient',
         \A w \in Windows : parent'[w] # None => w \in transient' /\ parent'[w] \in S.mapped
  PROVE  Hale(Now', {})
  <1>1. desk \in Desk
    BY NowIs
  <1>2. desk' \in Desk
    BY DEF Sound, Good, Linked, Typed
  <1>3. Now' = [d |-> desk', parent |-> parent', transient |-> transient', tws |-> tws']
    BY DEF Now
  <1> DEFINE r == Now'
  <1>4. /\ r.d = desk' /\ r.parent = parent' /\ r.transient = transient' /\ r.tws = tws'
        /\ r \in State
    BY <1>2, <1>3 DEF State
  <1> HIDE DEF r
  <1>5. /\ Sound(S, r.d)
        /\ \A w \in r.transient : w \in S.outside /\ r.tws[w] \in Spaces(desk) \cup Spaces(r.d)
        /\ \A w \in S.mapped : w \in S.outside => w \in r.transient
        /\ \A w \in Windows \ {} :
             r.parent[w] # None => w \in r.transient /\ r.parent[w] \in S.mapped
    BY <1>4
  <1>6. Hale(r, {})
    BY <1>1, <1>4, <1>5, Arranged
  <1> QED
    BY <1>6 DEF r

\* Only w is on another workspace after a step.
LEMMA StepUnmoved ==
  ASSUME Hale(Now, {}), NEW W, Settled(desk, desk', W),
         \A v \in Windows \ W : tws'[v] = tws[v] /\ (v \in transient' <=> v \in transient)
  PROVE  Unmoved(Now, Now', W)
  <1>1. /\ Now.d = desk /\ Now.transient = transient /\ Now.tws = tws /\ desk \in Desk
        /\ Now'.d = desk' /\ Now'.transient = transient' /\ Now'.tws = tws'
    BY NowIs DEF Now
  <1> QED
    BY <1>1, UnmovedIs

Redesked(s, e, at) == [s EXCEPT !.d = e, !.tws = at]

\* The desktop e, with windows on show and in no group as the roster S has it,
\* hosts the dialogs of s when they are at the workspaces at.
Hosts(s, S, e, at) ==
  /\ S.kbd = "any" /\ S.spaces = Spaces(s.d)
  /\ s.transient \in SUBSET S.outside /\ s.d.mapped \in SUBSET S.mapped
  /\ \A v \in S.mapped : v \in S.outside => v \in s.transient
  /\ at \in [Windows -> Workspaces \cup {NoWs}]
  /\ \A v \in s.transient : at[v] \in Spaces(s.d) \cup Spaces(e)

LEMMA DeskHale ==
  ASSUME NEW s, Hale(s, {}), NEW S, NEW e, NEW at, Sound(S, e), Hosts(s, S, e, at)
  PROVE  /\ Hale(Redesked(s, e, at), {})
         /\ Redesked(s, e, at).parent = s.parent
         /\ Redesked(s, e, at).transient = s.transient
  <1> DEFINE r == Redesked(s, e, at)
  <1>1. s \in State /\ s.d \in Desk /\ Told(s) /\ Kept(s, {}) /\ e \in Desk
    BY StateFields DEF Hale, Sound, Good, Linked, Typed
  <1>2. /\ r \in State /\ r.d = e /\ r.parent = s.parent /\ r.transient = s.transient
        /\ r.tws = at
    BY <1>1 DEF State, Redesked, Hosts
  <1> HIDE DEF r
  <1>3. /\ Sound(S, r.d) /\ S.kbd = "any" /\ S.spaces = Spaces(s.d)
        /\ \A w \in r.transient : w \in S.outside /\ r.tws[w] \in Spaces(s.d) \cup Spaces(r.d)
        /\ \A w \in S.mapped : w \in S.outside => w \in r.transient
        /\ \A w \in Windows \ {} :
             r.parent[w] # None => w \in r.transient /\ r.parent[w] \in S.mapped
    BY <1>1, <1>2 DEF Hosts, Kept
  <1>4. Hale(r, {})
    BY <1>1, <1>2, <1>3, Arranged
  <1> QED
    BY <1>2, <1>4 DEF r

\* A dialog is carried to a workspace that exists, or stays.
LEMMA CarriedIs ==
  ASSUME Hale(Now, {}), NEW e, Sound(RosterOf(desk), e)
  PROVE  /\ Carried(e) \in [Windows -> Workspaces \cup {NoWs}]
         /\ \A c \in transient : Carried(e)[c] \in Spaces(desk) \cup Spaces(e)
  <1>1. /\ tws \in [Windows -> Workspaces \cup {NoWs}] /\ transient \in SUBSET Windows
        /\ \A w \in transient : tws[w] \in Spaces(desk)
    BY NowIs
  <1>2. e \in Desk /\ Owned(e, {}) /\ Housed(RosterOf(desk), e)
    BY DEF Sound, Good, Linked, Typed
  <1>3. ASSUME NEW w \in Managed
        PROVE  e.wws[w] \in Workspaces /\ e.wws[w] \in Spaces(e)
    <2>1. w \in Windows /\ desk.own[w] # None
      BY DEF Managed
    <2>2. e.own[w] # None
      BY <1>2, <2>1, RosterIs DEF Housed
    <2>3. e.wws[w] = e.gws[e.own[w]]
      BY <1>2, <2>1, <2>2 DEF Owned
    <2> QED
      BY <1>2, <2>1, <2>2, <2>3, OwnerIs
  <1> DEFINE moved(c) == {w \in Managed : e.wws[w] # desk.wws[w] /\ c \in Dialogs(w)}
  <1>4. Carried(e) = [c \in Windows |-> IF moved(c) = {} THEN tws[c]
                                       ELSE e.wws[CHOOSE w \in moved(c) : TRUE]]
    BY DEF Carried
  <1>5. \A c \in Windows : moved(c) # {} => (CHOOSE w \in moved(c) : TRUE) \in Managed
    <2> TAKE c \in Windows
    <2>1. moved(c) # {} => (CHOOSE w \in moved(c) : TRUE) \in moved(c)
      OBVIOUS
    <2> QED
      BY <2>1
  <1> HIDE DEF moved
  <1>6. \A c \in Windows :
          \/ Carried(e)[c] = tws[c]
          \/ Carried(e)[c] \in Workspaces /\ Carried(e)[c] \in Spaces(e)
    BY <1>3, <1>4, <1>5
  <1>7. Carried(e) \in [Windows -> Workspaces \cup {NoWs}]
    <2>1. \A c \in Windows : Carried(e)[c] \in Workspaces \cup {NoWs}
      BY <1>1, <1>6
    <2> QED
      BY <1>4, <2>1
  <1> QED
    BY <1>1, <1>6, <1>7

\* The windows are where the desktop e has them, and the dialogs follow.
Follow(s, e) ==
  \A v \in Windows : WorkspaceOf(s, v) = IF v \in transient THEN Carried(e)[v] ELSE e.wws[v]

\* Dialogs that follow stay with their parents: what belongs to w through a
\* dialog belongs to w through its parent.
LEMMA FollowTogether ==
  ASSUME Hale(Now, {}), NEW s, NEW e, Follow(s, e), NEW c \in transient,
         parent[c] # None, WorkspaceOf(Now, c) = WorkspaceOf(Now, parent[c])
  PROVE  WorkspaceOf(s, c) = WorkspaceOf(s, parent[c])
  <1> DEFINE p == parent[c]
             moved(x) == {w \in Managed : e.wws[w] # desk.wws[w] /\ x \in Dialogs(w)}
             at(x) == IF moved(x) = {} THEN tws[x] ELSE e.wws[CHOOSE w \in moved(x) : TRUE]
  <1>1. /\ transient \in SUBSET Windows /\ c \in Windows /\ p \in Windows
        /\ p \in Managed <=> p \notin transient
    BY NowIs DEF Managed
  <1>2. /\ tws[c] = IF p \in transient THEN tws[p] ELSE desk.wws[p]
        /\ WorkspaceOf(s, c) = Carried(e)[c]
        /\ WorkspaceOf(s, p) = IF p \in transient THEN Carried(e)[p] ELSE e.wws[p]
    BY <1>1, NowIs DEF Follow, WorkspaceOf
  <1>3. \A x \in Windows : Carried(e)[x] = at(x)
    BY DEF Carried
  <1>4. \A w : c \in Dialogs(w) <=> p = w \/ p \in Dialogs(w)
    BY <1>1, DialogsClosed
  <1>5. \A w : p \in Dialogs(w) => p \in transient
    BY <1>1, DialogsClosed
  <1>6. CASE p \in transient
    <2>1. moved(c) = moved(p)
      BY <1>1, <1>4, <1>6
    <2>2. at(c) = at(p)
      <3> HIDE DEF moved
      <3> QED
        BY <1>2, <1>6, <2>1
    <2> HIDE DEF at
    <2> QED
      BY <1>1, <1>2, <1>3, <1>6, <2>2
  <1>7. CASE p \notin transient
    <2>1. moved(c) = IF e.wws[p] # desk.wws[p] THEN {p} ELSE {}
      BY <1>1, <1>4, <1>5, <1>7
    <2>2. at(c) = e.wws[p]
      <3> HIDE DEF moved
      <3> QED
        BY <1>2, <1>7, <2>1
    <2> HIDE DEF at
    <2> QED
      BY <1>1, <1>2, <1>3, <1>7, <2>2
  <1> QED
    BY <1>6, <1>7

LEMMA DesktopStepHale ==
  ASSUME Hale(Now, {}), DesktopStep
  PROVE  Hale(Now', {}) /\ Follow(Now', desk')
  <1> DEFINE R == RosterOf(desk)
  <1>1. Sound(R, desk)
    BY NowIs
  <1>r. /\ R.mapped = desk.mapped /\ R.outside = {v \in Windows : desk.own[v] = None}
        /\ R.kbd = "any" /\ R.spaces = Spaces(desk)
    BY RosterIs
  <1>2. tws' = Carried(desk') /\ parent' = parent /\ transient' = transient
    BY DEF DesktopStep
  <1> HIDE DEF R
  <1>3. Sound(R, desk')
    <2>1. CASE OutputStep
      BY <1>1, <2>1, OutputStepSound
    <2>2. CASE PointerStep
      BY <1>1, <2>2, PointerStepSound
    <2>3. CASE FocusStep
      BY <1>1, <2>3, FocusStepSound
    <2>4. CASE PlaceStep
      BY <1>1, <2>4, PlaceStepSound
    <2>5. CASE GroupingStep
      BY <1>1, <2>5, GroupingStepSound
    <2>6. CASE \E w \in Windows : RequestActivate(w)
      BY <1>1, <2>6, RequestSound
    <2>7. CASE \E w \in Windows, on \in BOOLEAN : RequestFullscreen(w, on)
      BY <1>1, <2>7, RequestSound
    <2> QED
      BY <2>1, <2>2, <2>3, <2>4, <2>5, <2>6, <2>7 DEF DesktopStep
  <1>4. /\ tws' \in [Windows -> Workspaces \cup {NoWs}]
        /\ \A c \in transient : tws'[c] \in Spaces(desk) \cup Spaces(desk')
    BY <1>2, <1>3, CarriedIs DEF R
  <1>5. /\ \A w \in transient' : w \in R.outside /\ tws'[w] \in Spaces(desk) \cup Spaces(desk')
        /\ \A w \in R.mapped : w \in R.outside => w \in transient'
        /\ \A w \in Windows : parent'[w] # None => w \in transient' /\ parent'[w] \in R.mapped
        /\ parent' \in [Windows -> Windows \cup {None}] /\ transient' \in SUBSET Windows
    BY <1>2, <1>4, <1>r, NowIs
  <1>6. Follow(Now', desk')
    BY <1>2 DEF Follow, WorkspaceOf, Now
  <1> QED
    BY <1>3, <1>4, <1>5, <1>6, <1>r, StepHale

LEMMA CreateWindowHale ==
  ASSUME Hale(Now, {}), NEW w \in Windows, CreateWindow(w)
  PROVE  Hale(Now', {}) /\ Unmoved(Now, Now', {w})
  <1> DEFINE R == RosterOf(desk)
             S == Leaving(desk, R.outside \ {w})
  <1>1. Sound(R, desk)
    BY NowIs
  <1>r. /\ R.mapped = desk.mapped /\ R.outside = {v \in Windows : desk.own[v] = None}
        /\ S.mapped = desk.mapped /\ S.outside = R.outside \ {w}
        /\ S.kbd = "any" /\ S.spaces = Spaces(desk)
        /\ Recast(R, S, R.mapped, R.outside \ {w})
    BY RosterIs, LeavingIs
  <1>2. /\ w \notin transient /\ NewToplevel(w)
        /\ tws' = tws /\ parent' = parent /\ transient' = transient
    BY DEF CreateWindow, Exists
  <1> HIDE DEF R, S
  <1>3. Sound(S, desk')
    BY <1>1, <1>2, <1>r, NewWindowSound
  <1>5. /\ \A v \in transient' : v \in S.outside /\ tws'[v] \in Spaces(desk) \cup Spaces(desk')
        /\ \A v \in S.mapped : v \in S.outside => v \in transient'
        /\ \A v \in Windows : parent'[v] # None => v \in transient' /\ parent'[v] \in S.mapped
        /\ parent' \in [Windows -> Windows \cup {None}] /\ transient' \in SUBSET Windows
        /\ tws' \in [Windows -> Workspaces \cup {NoWs}]
    BY <1>2, <1>r, NowIs
  <1>6. Settled(desk, desk', {w})
    <2>1. HasPlaces(desk)
      BY NowIs DEF Desk, HasPlaces
    <2> QED
      BY <1>2, <2>1, PlacesMove DEF NewToplevel
  <1> QED
    BY <1>2, <1>3, <1>5, <1>6, <1>r, StepHale, StepUnmoved

LEMMA MapWindowHale ==
  ASSUME Hale(Now, {}), NEW w \in Windows, NEW rule, MapWindow(w, rule)
  PROVE  /\ Hale(Now', {}) /\ parent' = parent /\ transient' = transient
         /\ Unmoved(Now, Now', {w} \ transient)
  <1> DEFINE R == RosterOf(desk)
             m == desk.mapped \cup {w}
             S == Showing(desk, m)
  <1>1. /\ Sound(R, desk) /\ desk \in Desk /\ Good(R, desk, {}, {}) /\ Focused(desk)
    BY NowIs DEF Sound
  <1>q. R.mapped = desk.mapped /\ R.outside = {v \in Windows : desk.own[v] = None}
    BY RosterIs
  <1> HIDE DEF m
  <1>p. /\ S.mapped = m /\ S.outside = {v \in Windows : desk.own[v] = None}
        /\ S.kbd = "any" /\ S.spaces = Spaces(desk)
        /\ Recast(R, S, m, R.outside)
    BY ShowingIs
  <1> HIDE DEF R, S
  <1>r. /\ S.mapped = desk.mapped \cup {w} /\ S.outside = R.outside
        /\ S.kbd = "any" /\ S.spaces = Spaces(desk)
        /\ Recast(R, S, R.mapped \cup {w}, R.outside)
    <2>1. m = R.mapped \cup {w}
      BY <1>q DEF m
    <2>2. Recast(R, S, R.mapped \cup {w}, R.outside)
      BY <1>p, <2>1
    <2> QED
      BY <1>p, <1>q, <2>1, <2>2
  <1>2. CASE w \notin transient /\ WindowMap(w, rule) /\ UNCHANGED <<parent, transient, tws>>
    <2>1. Sound(S, desk')
      BY <1>1, <1>2, <1>r, WindowMapSound
    <2>2. /\ desk.own[w] # None /\ tws' = tws /\ parent' = parent /\ transient' = transient
      BY <1>2 DEF WindowMap, Managed
    <2>3. /\ \A v \in transient' : v \in S.outside /\ tws'[v] \in Spaces(desk) \cup Spaces(desk')
          /\ \A v \in S.mapped : v \in S.outside => v \in transient'
          /\ \A v \in Windows : parent'[v] # None => v \in transient' /\ parent'[v] \in S.mapped
          /\ parent' \in [Windows -> Windows \cup {None}] /\ transient' \in SUBSET Windows
          /\ tws' \in [Windows -> Workspaces \cup {NoWs}]
      BY <2>2, <1>q, <1>r, NowIs
    <2>4. Settled(desk, desk', {w})
      <3> DEFINE placed == CASE rule = "floating" -> MakeFloating(desk, w)
                             [] rule = "tiled" -> MakeTiled(desk, w)
                             [] OTHER -> desk
                 shown == [placed EXCEPT !.mapped = @ \cup {w}]
      <3>1. HasPlaces(desk)
        BY NowIs DEF Desk, HasPlaces
      <3>2. Settled(desk, placed, {w})
        BY <3>1, PlacesMove DEF Settled
      <3>3. desk' = FocusWindow(shown, w)
        BY <1>2 DEF WindowMap
      <3> HIDE DEF placed
      <3>4. Settled(desk, shown, {w}) /\ HasPlaces(shown)
        BY <3>1, <3>2 DEF Settled, HasPlaces
      <3> HIDE DEF shown
      <3> QED
        BY <3>3, <3>4, PlacesFocus, SettledTransitive
    <2>5. Unmoved(Now, Now', {w} \ transient)
      <3>1. {w} \ transient = {w}
        BY <1>2
      <3> QED
        BY <2>2, <2>4, <3>1, StepUnmoved
    <2> QED
      BY <1>2, <2>1, <2>2, <2>3, <2>5, <1>r, StepHale
  <1>3. CASE /\ w \in transient \ desk.mapped
             /\ Become(Focus([Now EXCEPT !.d.mapped = @ \cup {w}], w))
    <2> DEFINE e == [desk EXCEPT !.mapped = @ \cup {w}]
               s == Redesked(Now, e, tws)
    <2>1. s = [Now EXCEPT !.d.mapped = @ \cup {w}]
      BY NowIs DEF State, Redesked
    <2>6. s.transient = Now.transient /\ s.tws = Now.tws /\ s.d.wws = Now.d.wws
      BY NowIs DEF State, Redesked, Desk
    <2>2. Sound(S, e)
      <3>1. Near(desk, desk)
        BY DEF Near, SameOutputs
      <3> QED
        BY <1>1, <1>r, <3>1, ShowSound
    <2> HIDE DEF e
    <2>3. /\ Hale(Now, {}) /\ Now.d = desk /\ Now.transient = transient
          /\ Now.parent = parent
      BY NowIs
    <2>4. Hosts(Now, S, e, tws)
      BY <1>3, <1>q, <1>r, <2>3, NowIs DEF Hosts
    <2>5. Hale(s, {}) /\ s.parent = parent /\ s.transient = transient
      BY <2>2, <2>3, <2>4, DeskHale
    <2> HIDE DEF s
    <2>7. /\ Hale(Focus(s, w), {}) /\ Focus(s, w).parent = s.parent
          /\ Focus(s, w).transient = s.transient /\ Unmoved(s, Focus(s, w), {})
      BY <2>5, FocusHale
    <2>8. Become(Focus(s, w))
      BY <1>3, <2>1
    <2>9. Unmoved(Now, Focus(s, w), {w} \ transient)
      BY <2>6, <2>7 DEF Unmoved, WorkspaceOf
    <2> QED
      BY <2>5, <2>7, <2>8, <2>9, BecomeHale
  <1> QED
    BY <1>2, <1>3 DEF MapWindow

\* What the unmapping of w leaves: nobody has w for a parent, or w a parent.
LEMMA UnmapWindowHale ==
  ASSUME Tended, NEW w \in Windows, UnmapWindow(w)
  PROVE  /\ Tended'
         /\ desk'.mapped = desk.mapped \ {w} /\ parent'[w] = None
         /\ \A v \in Windows \ {w} :
              LET p == IF parent[w] \in desk.mapped THEN parent[w] ELSE None IN
              IF parent[v] = w THEN parent'[v] = p /\ (v \in transient' <=> p # None)
              ELSE /\ parent'[v] = parent[v] /\ (v \in transient' <=> v \in transient)
                   /\ WorkspaceOf(Now', v) = WorkspaceOf(Now, v)
  <1> DEFINE children == {c \in Exists : parent[c] = w}
             p == IF parent[w] \in desk.mapped THEN parent[w] ELSE None
             u == Unmapped(Now, w)
             X == {c \in Windows : Now.parent[c] = w}
  <1>0. Hale(Now, {}) /\ Rooted(parent)
    BY DEF Tended
  <1>1. PICK order \in SetToSeqs(children) :
          Become([HandedOver(u, order, p) EXCEPT !.parent[w] = None])
    BY DEF UnmapWindow
  <1>2. w \in desk.mapped
    BY DEF UnmapWindow
  <1>3. /\ Hale(u, X) /\ u.parent = parent /\ u.transient = transient
        /\ u.d.mapped = desk.mapped \ {w} /\ Unmoved(Now, u, {})
    <2>1. Now.d = desk /\ Now.parent = parent /\ Now.transient = transient
      BY <1>0, NowIs
    <2>2. w \in Now.d.mapped
      BY <1>2, <2>1
    <2>3. /\ Hale(u, X) /\ u.parent = Now.parent /\ u.transient = Now.transient
          /\ u.d.mapped = Now.d.mapped \ {w} /\ Unmoved(Now, u, {})
      BY <1>0, <2>2, UnmappedHale
    <2> QED
      BY <2>1, <2>3
  <1>4. children = X /\ children \in SUBSET Windows
    <2>1. \A c \in Windows : parent[c] = w => c \in transient
      BY <1>0, NowIs, Names
    <2>2. Exists \in SUBSET Windows /\ transient \in SUBSET Exists
      BY <1>0, NowIs DEF Exists, Managed
    <2> QED
      BY <1>0, <2>1, <2>2, NowIs
  <1> HIDE DEF children, X
  <1>5. order \in Seq(Windows) /\ ToSet(order) = children
    <2>1. IsFiniteSet(children)
      BY <1>4, DesktopAssumption, FS_Subset
    <2>2. order \in Seq(children) /\ ToSet(order) = children
      BY <2>1, OrderIs
    <2> QED
      BY <1>4, <2>2
  <1>6. /\ p \in Windows \cup {None} /\ p # w /\ (p # None => p \in u.d.mapped)
        /\ (p = parent[w] \/ p = None)
    BY <1>0, <1>3, NowIs, Names, RootedSelf
  <1> HIDE DEF u, p
  <1> DEFINE h == HandedOver(u, order, p)
             r == [h EXCEPT !.parent[w] = None]
  <1>7. Hale(h, {}) /\ HandedTo(u, children, p, h)
    <2>1. Hale(h, X \ ToSet(order)) /\ HandedTo(u, ToSet(order), p, h)
      BY <1>3, <1>5, <1>6, HandedOverHale
    <2>2. X \ ToSet(order) = {}
      BY <1>4, <1>5
    <2> HIDE DEF h
    <2> QED
      BY <1>5, <2>1, <2>2
  <1> HIDE DEF h
  <1> DEFINE parent1 == [h.parent EXCEPT ![w] = None]
  <1>8. r = [h EXCEPT !.parent = parent1]
    BY <1>7 DEF Hale, State
  <1>9. /\ parent1 \in [Windows -> Windows \cup {None}] /\ parent1[w] = None
        /\ \A v \in Windows \ {w} : parent1[v] = h.parent[v]
    BY <1>7, StateFields DEF Hale
  <1> HIDE DEF r, parent1
  <1>10. /\ r \in State /\ r.d = h.d /\ r.parent = parent1 /\ r.transient = h.transient
         /\ r.tws = h.tws
    BY <1>7, <1>8, <1>9 DEF Hale, State
  <1>11. Hale(r, {})
    <2>1. Sound(RosterOf(r.d), r.d)
      BY <1>7, <1>10 DEF Hale
    <2>2. Told(r)
      BY <1>7, <1>10 DEF Hale, Told
    <2>3. Kept(r, {})
      BY <1>7, <1>9, <1>10 DEF Hale, Kept
    <2> QED
      BY <1>10, <2>1, <2>2, <2>3 DEF Hale
  <1>12. Become(r)
    BY <1>1 DEF r, h
  <1>13. /\ Hale(Now', {}) /\ desk' = r.d /\ parent' = parent1 /\ transient' = h.transient
         /\ \A v : WorkspaceOf(Now', v) = WorkspaceOf(h, v)
    BY <1>10, <1>11, <1>12, BecomeHale DEF WorkspaceOf
  <1>14. \A v \in Windows \ {w} :
           IF parent[v] = w THEN parent'[v] = p /\ (v \in transient' <=> p # None)
           ELSE /\ parent'[v] = parent[v] /\ (v \in transient' <=> v \in transient)
                /\ WorkspaceOf(Now', v) = WorkspaceOf(Now, v)
    <2> TAKE v \in Windows \ {w}
    <2>1. v \in children <=> parent[v] = w
      BY <1>0, <1>4, NowIs DEF X
    <2> QED
      BY <1>3, <1>7, <1>9, <1>13, <2>1 DEF HandedTo, Unmoved
  <1>15. Rooted(parent')
    BY <1>0, <1>6, <1>9, <1>13, <1>14, RootedHanded
  <1>16. desk'.mapped = desk.mapped \ {w}
    BY <1>3, <1>7, <1>10, <1>13 DEF HandedTo
  <1> QED
    BY <1>9, <1>13, <1>14, <1>15, <1>16 DEF Tended, p

LEMMA DestroyWindowHale ==
  ASSUME Hale(Now, {}), NEW w \in Windows, DestroyWindow(w)
  PROVE  Hale(Now', {}) /\ Unmoved(Now, Now', {w})
  <1> DEFINE R == RosterOf(desk)
             S == Leaving(desk, R.outside \cup {w})
  <1>1. Sound(R, desk)
    BY NowIs
  <1>r. /\ R.mapped = desk.mapped /\ R.outside = {v \in Windows : desk.own[v] = None}
        /\ R.kbd = "any" /\ R.spaces = Spaces(desk)
        /\ S.mapped = desk.mapped /\ S.outside = R.outside \cup {w}
        /\ S.kbd = "any" /\ S.spaces = Spaces(desk)
        /\ Recast(R, S, R.mapped, R.outside \cup {w})
    BY RosterIs, LeavingIs
  <1>2. /\ w \notin desk.mapped
        /\ parent' = [parent EXCEPT ![w] = None] /\ transient' = transient \ {w}
        /\ tws' = [tws EXCEPT ![w] = NoWs]
    BY DEF DestroyWindow
  <1>3. /\ parent'[w] = None /\ \A v \in Windows \ {w} : parent'[v] = parent[v] /\ tws'[v] = tws[v]
        /\ parent' \in [Windows -> Windows \cup {None}] /\ transient' \in SUBSET Windows
        /\ tws' \in [Windows -> Workspaces \cup {NoWs}]
    BY <1>2, NowIs
  <1> HIDE DEF R, S
  <1>4. \E T : /\ Sound(T, desk') /\ T.kbd = "any" /\ T.spaces = Spaces(desk)
               /\ T.mapped = desk.mapped /\ R.outside \in SUBSET T.outside
               /\ T.outside \in SUBSET (R.outside \cup {w})
    <2>1. CASE w \in transient /\ desk' = [desk EXCEPT !.kbd = IF @ = w THEN None ELSE @]
      <3> DEFINE k == IF desk.kbd = w THEN None ELSE desk.kbd
      <3>1. k \in Windows \cup {None} /\ desk' = [desk EXCEPT !.kbd = k]
        BY <2>1, NowIs DEF Desk
      <3> HIDE DEF k
      <3>2. Sound(R, desk')
        BY <1>1, <1>r, <3>1, KbdSound
      <3> QED
        BY <1>r, <3>2
    <2>2. CASE w \notin transient /\ WindowDestroy(w)
      <3>1. Sound(S, desk')
        BY <1>1, <1>r, <2>2, WindowDestroySound
      <3>2. R.outside \in SUBSET S.outside /\ S.outside \in SUBSET (R.outside \cup {w})
        BY <1>r
      <3> QED
        BY <1>r, <3>1, <3>2
    <2> QED
      BY <2>1, <2>2 DEF DestroyWindow
  <1>5. PICK T : /\ Sound(T, desk') /\ T.kbd = "any" /\ T.spaces = Spaces(desk)
                 /\ T.mapped = desk.mapped /\ R.outside \in SUBSET T.outside
                 /\ T.outside \in SUBSET (R.outside \cup {w})
    BY <1>4
  <1>6. /\ \A v \in transient' : v \in T.outside /\ tws'[v] \in Spaces(desk) \cup Spaces(desk')
        /\ \A v \in T.mapped : v \in T.outside => v \in transient'
        /\ \A v \in Windows : parent'[v] # None => v \in transient' /\ parent'[v] \in T.mapped
    BY <1>2, <1>3, <1>5, <1>r, NowIs
  <1>7. Settled(desk, desk', {w})
    <2>1. HasPlaces(desk)
      BY NowIs DEF Desk, HasPlaces
    <2>2. Settled(desk, RemoveWindow(desk, w), {w})
      BY <2>1, PlacesMove
    <2> QED
      BY <2>1, <2>2 DEF DestroyWindow, WindowDestroy, Settled, HasPlaces
  <1> QED
    BY <1>2, <1>3, <1>5, <1>6, <1>7, StepHale, StepUnmoved

\* What wlroots takes p for, when a client makes it the parent of w.
GivenParent(p) == IF p \in desk.mapped THEN p ELSE None

LEMMA SetParentHale ==
  ASSUME Tended, NEW w \in Windows, NEW p, SetParent(w, p)
  PROVE  /\ Tended'
         /\ parent' = [parent EXCEPT ![w] = GivenParent(p)]
         /\ transient' = IF GivenParent(p) # None THEN transient \cup {w} ELSE transient \ {w}
         /\ desk'.mapped = desk.mapped
         /\ Unmoved(Now, Now', {w})
         /\ WorkspaceOf(Now', w) = WorkspaceOf(Now, IF GivenParent(p) # None THEN p ELSE w)
  <1> DEFINE q == GivenParent(p)
             r == HandleSetParent(Now, w, q)
  <1>0. Hale(Now, {}) /\ Rooted(parent)
    BY DEF Tended
  <1>1. /\ Become(r) /\ (p # None => w \notin Ancestors(p) \cup {p})
    BY DEF SetParent, GivenParent
  <1>2. /\ q \in Windows \cup {None} /\ (q # None => q = p /\ q \in desk.mapped /\ q \in Windows)
    BY <1>0, NowIs DEF GivenParent
  <1> HIDE DEF q
  <1>3. Hale(r, {}) /\ Given(Now, w, q, r)
    <2>1. q # None => q \in Now.d.mapped
      BY <1>0, <1>2, NowIs
    <2>2. Hale(r, {} \ {w}) /\ Given(Now, w, q, r)
      BY <1>0, <1>2, <2>1, HandleSetParentHale
    <2>3. {} \ {w} = {}
      OBVIOUS
    <2> HIDE DEF r
    <2> QED
      BY <2>2, <2>3
  <1> HIDE DEF r
  <1>4. /\ Hale(Now', {}) /\ desk' = r.d /\ parent' = r.parent /\ transient' = r.transient
        /\ Now' = r
    BY <1>1, <1>3, BecomeHale
  <1>5. /\ parent' = [parent EXCEPT ![w] = q]
        /\ transient' = IF q # None THEN transient \cup {w} ELSE transient \ {w}
        /\ desk'.mapped = desk.mapped /\ Unmoved(Now, Now', {w})
        /\ WorkspaceOf(Now', w) = WorkspaceOf(Now, IF q # None THEN q ELSE w)
    <2>1. Now.parent = parent /\ Now.transient = transient /\ Now.d = desk
      BY <1>0, NowIs
    <2> QED
      BY <1>3, <1>4, <2>1 DEF Given
  <1>6. parent'[w] = q /\ \A v \in Windows \ {w} : parent'[v] = parent[v]
    BY <1>0, <1>5, NowIs
  <1>7. Rooted(parent')
    <2>1. parent \in [Windows -> Windows \cup {None}]
      BY <1>0, NowIs
    <2>2. CASE q = None
      BY <1>0, <1>6, <2>2, RootedLess
    <2>3. CASE q # None
      <3>1. w \notin Ancestors(q) \cup {q} /\ q \in Windows
        BY <1>1, <1>2, <2>3, Names
      <3> QED
        BY <1>0, <1>6, <2>1, <3>1, RootedSet
    <2> QED
      BY <2>2, <2>3
  <1> QED
    BY <1>2, <1>4, <1>5, <1>7 DEF Tended, q

LEMMA FocusDialogHale ==
  ASSUME Hale(Now, {}), NEW w \in Windows, NEW byId \in BOOLEAN, FocusDialog(w, byId)
  PROVE  /\ Hale(Now', {}) /\ parent' = parent /\ transient' = transient
         /\ Unmoved(Now, Now', {}) \/ \E e : Follow(Now', e)
  <1>0. /\ Now.d = desk /\ Now.parent = parent /\ Now.transient = transient
        /\ Now.tws = tws /\ Now \in State
    BY NowIs
  <1>1. ASSUME NEW s, Hale(s, {}), s.parent = parent, s.transient = transient,
               Become(Focus(s, w))
        PROVE  /\ Hale(Now', {}) /\ parent' = parent /\ transient' = transient
               /\ Unmoved(s, Now', {})
    BY <1>1, FocusHale, BecomeHale
  <1>2. CASE byId
    <2> DEFINE R == RosterOf(desk)
               ws == tws[w]
               e == ActivateWorkspace(desk, ws)
               at == Carried(e)
               s == Redesked(Now, e, at)
    <2>1. Sound(R, desk) /\ ws \in Workspaces
      <3>1. ws \in Spaces(desk) /\ desk.nws \in 0..MaxWs
        BY NowIs, DeskFields DEF FocusDialog
      <3> QED
        BY <3>1, NowIs, Numbers DEF Spaces
    <2>r. /\ R.mapped = desk.mapped /\ R.outside = {v \in Windows : desk.own[v] = None}
          /\ R.kbd = "any" /\ R.spaces = Spaces(desk)
      BY RosterIs
    <2>2. Become(Focus(s, w))
      BY <1>2 DEF FocusDialog, Redesked
    <2> HIDE DEF R, ws
    <2>3. Sound(R, e)
      BY <2>1, ActivateGood
    <2> HIDE DEF e
    <2>c. /\ at \in [Windows -> Workspaces \cup {NoWs}]
          /\ \A v \in Now.transient : at[v] \in Spaces(Now.d) \cup Spaces(e)
      BY <1>0, <2>3, CarriedIs DEF R
    <2> HIDE DEF at
    <2>4. Hosts(Now, R, e, at)
      BY <1>0, <2>r, <2>c, NowIs DEF Hosts
    <2>5. Hale(s, {}) /\ s.parent = parent /\ s.transient = transient
      BY <1>0, <2>3, <2>4, DeskHale
    <2>6. s.d = e /\ s.tws = at
      BY <1>0 DEF State, Redesked
    <2> HIDE DEF s
    <2>7. Hale(Now', {}) /\ parent' = parent /\ transient' = transient /\ Unmoved(s, Now', {})
      BY <1>1, <2>2, <2>5
    <2>8. Follow(Now', e)
      BY <2>5, <2>6, <2>7 DEF Follow, Unmoved, WorkspaceOf, at
    <2> QED
      BY <2>7, <2>8
  <1>3. CASE ~byId
    <2>1. Become(Focus(Now, w))
      BY <1>3 DEF FocusDialog
    <2> QED
      BY <1>0, <1>1, <2>1
  <1> QED
    BY <1>2, <1>3

LEMMA NextTended ==
  ASSUME Tended, [SnapshotNext]_vars
  PROVE  Tended'
  <1>0. Hale(Now, {}) /\ Rooted(parent)
    BY DEF Tended
  <1>1. ASSUME Hale(Now', {}), parent' = parent PROVE Tended'
    BY <1>0, <1>1 DEF Tended
  <1>2. CASE DesktopStep
    <2>1. parent' = parent
      BY <1>2 DEF DesktopStep
    <2> QED
      BY <1>0, <1>1, <1>2, <2>1, DesktopStepHale
  <1>3. CASE DialogStep
    <2>1. PICK w \in Windows :
            \/ CreateWindow(w)
            \/ \E rule \in {"none", "floating", "tiled"} : MapWindow(w, rule)
            \/ UnmapWindow(w)
            \/ DestroyWindow(w)
            \/ \E p \in Windows \cup {None} : SetParent(w, p)
            \/ \E byId \in BOOLEAN : FocusDialog(w, byId)
      BY <1>3 DEF DialogStep
    <2>2. CASE CreateWindow(w)
      <3>1. parent' = parent
        BY <2>2 DEF CreateWindow
      <3> QED
        BY <1>0, <1>1, <2>2, <3>1, CreateWindowHale
    <2>3. CASE \E rule \in {"none", "floating", "tiled"} : MapWindow(w, rule)
      BY <1>0, <1>1, <2>3, MapWindowHale
    <2>4. CASE UnmapWindow(w)
      BY <2>4, UnmapWindowHale
    <2>5. CASE DestroyWindow(w)
      <3>1. \A v \in Windows : parent'[v] = parent[v] \/ parent'[v] = None
        BY <1>0, <2>5, NowIs DEF DestroyWindow
      <3>2. Rooted(parent')
        BY <1>0, <3>1, RootedLess
      <3> QED
        BY <1>0, <2>5, <3>2, DestroyWindowHale DEF Tended
    <2>6. CASE \E p \in Windows \cup {None} : SetParent(w, p)
      BY <2>6, SetParentHale
    <2>7. CASE \E byId \in BOOLEAN : FocusDialog(w, byId)
      BY <1>0, <1>1, <2>7, FocusDialogHale
    <2> QED
      BY <2>1, <2>2, <2>3, <2>4, <2>5, <2>6, <2>7
  <1>4. CASE UNCHANGED vars
    <2>1. Now' = Now /\ parent' = parent
      BY <1>4 DEF vars, Now
    <2> QED
      BY <1>0, <1>1, <2>1
  <1> QED
    BY <1>2, <1>3, <1>4 DEF SnapshotNext

LEMMA InitTended ==
  ASSUME SnapshotInit
  PROVE  Tended
  <1> DEFINE R == [mapped |-> {}, outside |-> Windows, kbd |-> "any", spaces |-> {}]
  <1>1. /\ R.mapped = {} /\ R.outside = Windows /\ R.spaces = {} /\ R.kbd = "any"
    OBVIOUS
  <1> HIDE DEF R
  <1>2. Sound(R, desk) /\ desk \in Desk
    BY <1>1, InitSound DEF SnapshotInit, Sound, Good, Linked, Typed
  <1>3. desk.nws \in 0..MaxWs
    BY <1>2, DeskFields
  <1>4. \A ws \in Spaces(desk) : ws \in Workspaces /\ ws <= desk.nws
    BY <1>3, Numbers DEF Spaces
  <1>5. Sound(RosterOf(desk), desk) /\ desk.mapped = {}
    BY <1>1, <1>2, <1>4, Resettle DEF RosterOf
  <1>6. /\ parent = [w \in Windows |-> None] /\ transient = {}
        /\ tws = [w \in Windows |-> NoWs]
    BY DEF SnapshotInit
  <1>7. Now = [d |-> desk, parent |-> parent, transient |-> transient, tws |-> tws]
    BY DEF Now
  <1>8. Now \in State
    BY <1>2, <1>6, <1>7 DEF State
  <1>9. Hale(Now, {})
    <2>1. /\ Now.d = desk /\ Now.parent = parent /\ Now.transient = {}
      BY <1>6, <1>7
    <2>2. Told(Now) /\ Kept(Now, {})
      BY <1>5, <1>6, <2>1 DEF Told, Kept
    <2> QED
      BY <1>5, <1>8, <2>1, <2>2 DEF Hale
  <1>10. Rooted(parent)
    BY <1>6, Names DEF Rooted
  <1> QED
    BY <1>9, <1>10 DEF Tended

\* Every state with dialogs is sound.
THEOREM AlwaysTended == SnapshotSpec => []Tended
  <1>1. SnapshotInit => Tended
    BY InitTended
  <1>2. Tended /\ [SnapshotNext]_vars => Tended'
    BY NextTended
  <1> QED
    BY <1>1, <1>2, PTL DEF SnapshotSpec

\* A dialog is left without a parent by its own unmapping and nothing else.
LEMMA OrphanedBy ==
  ASSUME Tended, [SnapshotNext]_vars, NEW c \in transient', parent'[c] = None, c \notin Orphans
  PROVE  c \in desk.mapped \ desk'.mapped
  <1>0. Hale(Now, {}) /\ parent \in [Windows -> Windows \cup {None}]
        /\ transient \in SUBSET Windows
    BY NowIs DEF Tended
  <1>1. ASSUME parent' = parent, transient' = transient PROVE FALSE
    BY <1>1 DEF Orphans
  <1>2. CASE DesktopStep
    BY <1>1, <1>2 DEF DesktopStep
  <1>3. CASE DialogStep
    <2>1. PICK w \in Windows :
            \/ CreateWindow(w)
            \/ \E rule \in {"none", "floating", "tiled"} : MapWindow(w, rule)
            \/ UnmapWindow(w)
            \/ DestroyWindow(w)
            \/ \E p \in Windows \cup {None} : SetParent(w, p)
            \/ \E byId \in BOOLEAN : FocusDialog(w, byId)
      BY <1>3 DEF DialogStep
    <2>2. CASE CreateWindow(w)
      BY <1>1, <2>2 DEF CreateWindow
    <2>3. CASE \E rule \in {"none", "floating", "tiled"} : MapWindow(w, rule)
      BY <1>0, <1>1, <2>3, MapWindowHale
    <2>4. CASE UnmapWindow(w)
      <3> DEFINE p == IF parent[w] \in desk.mapped THEN parent[w] ELSE None
      <3>1. /\ Tended' /\ desk'.mapped = desk.mapped \ {w}
            /\ \A v \in Windows \ {w} :
                 IF parent[v] = w THEN parent'[v] = p /\ (v \in transient' <=> p # None)
                 ELSE parent'[v] = parent[v] /\ (v \in transient' <=> v \in transient)
        BY <2>4, UnmapWindowHale
      <3>2. c \in Windows
        BY <3>1 DEF Tended, Hale, Now, State
      <3>3. c = w
        <4> HIDE DEF p
        <4> QED
          BY <3>1, <3>2 DEF Orphans
      <3> QED
        BY <2>4, <3>1, <3>3 DEF UnmapWindow
    <2>5. CASE DestroyWindow(w)
      <3>1. parent' = [parent EXCEPT ![w] = None] /\ transient' = transient \ {w}
        BY <2>5 DEF DestroyWindow
      <3>2. c # w /\ c \in transient /\ parent[c] = None
        BY <1>0, <3>1
      <3> QED
        BY <3>2 DEF Orphans
    <2>6. CASE \E p \in Windows \cup {None} : SetParent(w, p)
      <3>1. PICK p \in Windows \cup {None} : SetParent(w, p)
        BY <2>6
      <3>2. /\ parent' = [parent EXCEPT ![w] = GivenParent(p)]
            /\ transient' = IF GivenParent(p) # None THEN transient \cup {w} ELSE transient \ {w}
        BY <3>1, SetParentHale
      <3>3. c # w
        BY <1>0, <3>2
      <3>4. c \in transient /\ parent[c] = None
        BY <1>0, <3>2, <3>3
      <3> QED
        BY <3>4 DEF Orphans
    <2>7. CASE \E byId \in BOOLEAN : FocusDialog(w, byId)
      BY <1>0, <1>1, <2>7, FocusDialogHale
    <2> QED
      BY <2>1, <2>2, <2>3, <2>4, <2>5, <2>6, <2>7
  <1>4. CASE UNCHANGED vars
    BY <1>1, <1>4 DEF vars
  <1> QED
    BY <1>2, <1>3, <1>4 DEF SnapshotNext

\* A dialog whose parent goes is given to the parent of that one or becomes a
\* tab (OrphanedByOwnUnmap of DesktopSnapshot): only the unmapping of a dialog
\* itself leaves it a dialog of nobody (handle_window_set_parent).
THEOREM OrphansAlwaysByOwnUnmap == SnapshotSpec => OrphanedByOwnUnmap
  <1>1. Tended /\ [SnapshotNext]_vars
          => [\A w \in transient' :
                parent'[w] = None /\ w \notin Orphans
                  => w \in desk.mapped \ desk'.mapped]_vars
    BY OrphanedBy
  <1> QED
    BY <1>1, AlwaysTended, PTL DEF SnapshotSpec, OrphanedByOwnUnmap

\* A dialog is parted from its parent by a client only.
LEMMA PartedBy ==
  ASSUME Tended, [SnapshotNext]_vars, NEW c \in transient \cap transient',
         parent[c] # None, parent'[c] = parent[c],
         WorkspaceOf(Now, c) = WorkspaceOf(Now, parent[c]),
         WorkspaceOf(Now', c) # WorkspaceOf(Now', parent[c])
  PROVE  \/ parent'[parent[c]] # parent[parent[c]]
         \/ \E q \in Windows : SetParent(parent[c], q)
  <1> DEFINE p == parent[c]
  <1>0. Hale(Now, {}) /\ Rooted(parent)
    BY DEF Tended
  <1>1. c \in Windows /\ p \in Windows /\ p \in desk.mapped /\ p # c
    BY <1>0, NowIs, RootedSelf
  <1>u. ASSUME NEW W, Unmoved(Now, Now', W), c \notin W, p \notin W PROVE FALSE
    BY <1>1, <1>u DEF Unmoved
  <1>f. ASSUME NEW e, Follow(Now', e) PROVE FALSE
    BY <1>0, <1>f, FollowTogether
  <1>2. CASE DesktopStep
    BY <1>0, <1>2, <1>f, DesktopStepHale
  <1>3. CASE DialogStep
    <2>1. PICK w \in Windows :
            \/ CreateWindow(w)
            \/ \E rule \in {"none", "floating", "tiled"} : MapWindow(w, rule)
            \/ UnmapWindow(w)
            \/ DestroyWindow(w)
            \/ \E x \in Windows \cup {None} : SetParent(w, x)
            \/ \E byId \in BOOLEAN : FocusDialog(w, byId)
      BY <1>3 DEF DialogStep
    <2>2. CASE CreateWindow(w)
      <3>1. w # c /\ w # p
        BY <1>0, <1>1, <2>2, NowIs DEF CreateWindow, Exists, Managed
      <3> QED
        BY <1>0, <1>u, <2>2, <3>1, CreateWindowHale
    <2>3. CASE \E rule \in {"none", "floating", "tiled"} : MapWindow(w, rule)
      <3>1. Unmoved(Now, Now', {w} \ transient) /\ w # p
        BY <1>0, <1>1, <2>3, MapWindowHale DEF MapWindow, WindowMap
      <3> QED
        BY <1>u, <3>1
    <2>4. CASE UnmapWindow(w)
      <3>1. \A v \in Windows \ {w} :
              LET q == IF parent[w] \in desk.mapped THEN parent[w] ELSE None IN
              IF parent[v] = w THEN parent'[v] = q /\ (v \in transient' <=> q # None)
              ELSE /\ parent'[v] = parent[v] /\ (v \in transient' <=> v \in transient)
                   /\ WorkspaceOf(Now', v) = WorkspaceOf(Now, v)
        BY <2>4, UnmapWindowHale
      <3>2. parent'[w] = None /\ w # None
        BY <2>4, UnmapWindowHale, Names
      <3>3. c # w
        BY <3>2
      <3>4. parent[w] # w
        BY <1>0, RootedSelf
      <3>5. p # w
        BY <1>1, <3>1, <3>2, <3>3, <3>4
      <3>6. WorkspaceOf(Now', c) = WorkspaceOf(Now, c)
        BY <1>1, <3>1, <3>3, <3>5
      <3>7. parent[p] = w
        BY <1>1, <3>1, <3>5, <3>6
      <3> QED
        BY <1>1, <3>1, <3>2, <3>4, <3>5, <3>7
    <2>5. CASE DestroyWindow(w)
      <3>1. w # c /\ w # p
        BY <1>1, <2>5 DEF DestroyWindow
      <3> QED
        BY <1>0, <1>u, <2>5, <3>1, DestroyWindowHale
    <2>6. CASE \E x \in Windows \cup {None} : SetParent(w, x)
      <3>1. PICK x \in Windows \cup {None} : SetParent(w, x)
        BY <2>6
      <3>2. /\ parent' = [parent EXCEPT ![w] = GivenParent(x)]
            /\ Unmoved(Now, Now', {w})
            /\ WorkspaceOf(Now', w) = WorkspaceOf(Now, IF GivenParent(x) # None THEN x ELSE w)
        BY <3>1, SetParentHale
      <3>3. CASE w = c
        <4>1. GivenParent(x) = p
          BY <1>0, <1>1, <3>2, <3>3, NowIs
        <4>2. x = p
          BY <4>1 DEF GivenParent
        <4> QED
          BY <1>1, <3>2, <3>3, <4>1, <4>2 DEF Unmoved
      <3>4. CASE w = p
        <4>1. CASE x \in Windows
          BY <3>1, <3>4, <4>1
        <4>2. CASE x = None
          <5>1. GivenParent(x) = None
            BY <4>2 DEF GivenParent
          <5> QED
            BY <1>1, <3>2, <3>4, <5>1 DEF Unmoved
        <4> QED
          BY <3>1, <4>1, <4>2
      <3> QED
        BY <1>u, <3>2, <3>3, <3>4
    <2>7. CASE \E byId \in BOOLEAN : FocusDialog(w, byId)
      <3>1. Unmoved(Now, Now', {}) \/ \E e : Follow(Now', e)
        BY <1>0, <2>7, FocusDialogHale
      <3> QED
        BY <1>f, <1>u, <3>1
    <2> QED
      BY <2>1, <2>2, <2>3, <2>4, <2>5, <2>6, <2>7
  <1>4. CASE UNCHANGED vars
    <2>1. Now' = Now
      BY <1>4 DEF vars, Now
    <2> QED
      BY <2>1
  <1> QED
    BY <1>2, <1>3, <1>4 DEF SnapshotNext

\* A dialog that is on the workspace of its parent stays with it whatever happens
\* to the desktop, through any chain of dialogs (StayTogether of
\* DesktopSnapshot): only a client parts them, by giving the parent another.
THEOREM DialogsStayTogether == SnapshotSpec => StayTogether
  <1>1. Tended /\ [SnapshotNext]_vars
          => [\A c \in transient \cap transient' :
                LET p == parent[c] IN
                /\ p # None /\ parent'[c] = p
                /\ WorkspaceOf(Now, c) = WorkspaceOf(Now, p)
                /\ WorkspaceOf(Now, c)' # WorkspaceOf(Now, p)'
                => parent'[p] # parent[p] \/ \E q \in Windows : SetParent(p, q)]_vars
    BY PartedBy
  <1> QED
    BY <1>1, AlwaysTended, PTL DEF SnapshotSpec, StayTogether

-----------------------------------------------------------------------------
(* The snapshot.                                                           *)

LEMMA CountOf ==
  ASSUME NEW S, NEW s \in Seq(S), IsInjective(s)
  PROVE  Len(s) = Cardinality(ToSet(s))
  <1> DEFINE n == Len(s)
             T == ToSet(s)
  <1>1. n \in Nat /\ DOMAIN s = 1..n /\ T = {s[i] : i \in 1..n}
    BY LenProperties DEF ToSet
  <1>2. s \in [1..n -> T]
    BY <1>1
  <1>3. \A i, j \in 1..n : s[i] = s[j] => i = j
    BY <1>1 DEF IsInjective
  <1> HIDE DEF n, T
  <1>4. s \in Injection(1..n, T)
    BY <1>2, <1>3 DEF Injection, IsInjective
  <1>5. s \in Surjection(1..n, T)
    BY <1>1, <1>2 DEF Surjection
  <1>6. IsFiniteSet(1..n) /\ Cardinality(1..n) = n
    BY <1>1, FS_Interval
  <1>7. Cardinality(T) = n
    BY <1>4, <1>5, <1>6, FS_Surjection
  <1> QED
    BY <1>7 DEF n, T

LEMMA AtMostOne ==
  ASSUME NEW T, NEW x, T \in SUBSET {x}
  PROVE  Cardinality(T) <= 1
  <1>1. IsFiniteSet({x}) /\ Cardinality({x}) = 1
    BY FS_Singleton
  <1>2. Cardinality(T) <= Cardinality({x})
    BY <1>1, FS_Subset
  <1> QED
    BY <1>1, <1>2

\* What the snapshot carries.
LEMMA SentIs ==
  /\ DOMAIN Sent.outputs = Plugged
  /\ \A o \in Plugged :
       /\ Sent.outputs[o].focused <=> o = desk.fo
       /\ Sent.outputs[o].visible = desk.vis[o]
       /\ Sent.outputs[o].assigned = Len(desk.asg[o])
  /\ DOMAIN Sent.workspaces = Spaces(desk)
  /\ \A ws \in Spaces(desk) :
       /\ Sent.workspaces[ws].groups = Cardinality(GroupsOn(ws))
       /\ Sent.workspaces[ws].windows = Cardinality(WindowsOn(ws))
       /\ Sent.workspaces[ws].output = desk.home[ws]
       /\ Sent.workspaces[ws].visible <=> IsVisible(desk, ws)
  /\ DOMAIN Sent.groups = Live(desk)
  /\ \A g \in Live(desk) :
       /\ Sent.groups[g].workspace = desk.gws[g]
       /\ Sent.groups[g].active <=> desk.wact[desk.gws[g]] = g
       /\ Sent.groups[g].windows = Len(desk.gwin[g])
       /\ Sent.groups[g].floating <=> g \in desk.flt
       /\ Sent.groups[g].pin = desk.pin[g]
  /\ DOMAIN Sent.windows = Exists
  /\ \A w \in Exists :
       /\ Sent.windows[w].group = desk.own[w]
       /\ Sent.windows[w].active <=> desk.own[w] # None /\ desk.gact[desk.own[w]] = w
       /\ Sent.windows[w].workspace = WorkspaceOf(Now, w)
       /\ Sent.windows[w].placement = Placement(w)
       /\ Sent.windows[w].parent = parent[w]
  BY DEF Sent, Spaces

\* The invariant, as the snapshot needs it.
LEMMA TendedIs ==
  ASSUME Tended
  PROVE  /\ desk \in Desk /\ Typed(desk) /\ Owned(desk, {}) /\ Pointed(desk)
         /\ Pinned(desk) /\ Placed(RosterOf(desk), desk, {})
         /\ Plugged \in SUBSET Outputs /\ Live(desk) \in SUBSET Groups
         /\ Spaces(desk) \in SUBSET Workspaces
         /\ \A ws \in Workspaces : desk.home[ws] # None => ws \in Spaces(desk)
         /\ Exists \in SUBSET Windows
         /\ \A w \in Windows : w \in Exists <=> w \in transient \/ desk.own[w] # None
  <1>1. /\ Sound(RosterOf(desk), desk) /\ desk \in Desk /\ transient \in SUBSET Windows
    BY NowIs DEF Tended
  <1>2. /\ Typed(desk) /\ Owned(desk, {}) /\ Pointed(desk)
        /\ Pinned(desk) /\ Placed(RosterOf(desk), desk, {})
    BY <1>1 DEF Sound, Good, Linked
  <1>3. Plugged \in SUBSET Outputs /\ Live(desk) \in SUBSET Groups
    BY <1>1, DeskFields, MembersOf, LiveGroups DEF Plugged
  <1>4. Spaces(desk) \in SUBSET Workspaces
    BY <1>1, DeskFields, Numbers DEF Spaces
  <1>5. \A ws \in Workspaces : desk.home[ws] # None => ws \in Spaces(desk)
    BY <1>1, <1>2, SpaceOnOutput
  <1> QED
    BY <1>1, <1>2, <1>3, <1>4, <1>5 DEF Exists, Managed

LEMMA OutputsAccepted ==
  ASSUME Tended
  PROVE  OutputsValid(Sent)
  <1>1. ASSUME NEW o \in Plugged
        PROVE  /\ Sent.outputs[o].assigned
                    = Cardinality({ws \in DOMAIN Sent.workspaces :
                                     Sent.workspaces[ws].output = o})
               /\ Sent.outputs[o].visible # NoWs =>
                    /\ Sent.outputs[o].visible \in DOMAIN Sent.workspaces
                    /\ Sent.workspaces[Sent.outputs[o].visible].visible
                    /\ Sent.workspaces[Sent.outputs[o].visible].output = o
    <2>1. /\ o \in Outputs /\ o # None /\ desk.asg[o] \in Seq(Workspaces)
          /\ IsInjective(desk.asg[o])
      BY TendedIs, DeskFields, Names DEF Typed
    <2>2. {ws \in DOMAIN Sent.workspaces : Sent.workspaces[ws].output = o}
            = {ws \in Spaces(desk) : desk.home[ws] = o}
      BY SentIs
    <2>3. {ws \in Spaces(desk) : desk.home[ws] = o} = ToSet(desk.asg[o])
      <3>1. ToSet(desk.asg[o]) \in SUBSET Workspaces
        BY <2>1, MembersOf
      <3>2. \A ws \in Workspaces : desk.home[ws] = o <=> ws \in ToSet(desk.asg[o])
        BY <2>1, TendedIs DEF Placed
      <3> QED
        BY <2>1, <3>1, <3>2, TendedIs
    <2>4. Len(desk.asg[o]) = Cardinality(ToSet(desk.asg[o]))
      BY <2>1, CountOf
    <2>5. desk.vis[o] \in ToSet(desk.asg[o])
      BY TendedIs DEF Placed, Plugged
    <2>6. desk.vis[o] \in Spaces(desk) /\ desk.home[desk.vis[o]] = o
      BY <2>3, <2>5
    <2>7. IsVisible(desk, desk.vis[o])
      BY <2>1, <2>6 DEF IsVisible
    <2>8. Sent.outputs[o].visible = desk.vis[o] /\ Sent.outputs[o].assigned = Len(desk.asg[o])
      BY SentIs
    <2>9. /\ desk.vis[o] \in DOMAIN Sent.workspaces
          /\ Sent.workspaces[desk.vis[o]].visible
          /\ Sent.workspaces[desk.vis[o]].output = o
      BY <2>6, <2>7, SentIs
    <2> QED
      BY <2>2, <2>3, <2>4, <2>8, <2>9
  <1>2. Cardinality({o \in DOMAIN Sent.outputs : Sent.outputs[o].focused}) <= 1
    <2> DEFINE T == {o \in DOMAIN Sent.outputs : Sent.outputs[o].focused}
    <2>1. T \in SUBSET {desk.fo}
      BY SentIs
    <2> HIDE DEF T
    <2>2. Cardinality(T) <= 1
      BY <2>1, AtMostOne
    <2> QED
      BY <2>2 DEF T
  <1>3. DOMAIN Sent.outputs = Plugged
    BY SentIs
  <1> QED
    BY <1>1, <1>2, <1>3 DEF OutputsValid

LEMMA WorkspacesAccepted ==
  ASSUME Tended
  PROVE  WorkspacesValid(Sent)
  <1>1. ASSUME NEW ws \in Spaces(desk)
        PROVE  LET space == Sent.workspaces[ws]
                   groups == {g \in DOMAIN Sent.groups : Sent.groups[g].workspace = ws}
               IN  /\ space.visible => space.output # None
                   /\ space.output \in DOMAIN Sent.outputs \cup {None}
                   /\ space.groups = Cardinality(groups)
                   /\ space.windows = Cardinality({w \in DOMAIN Sent.windows :
                                                      Sent.windows[w].workspace = ws})
                   /\ Cardinality({g \in groups : Sent.groups[g].active}) <= 1
    <2> DEFINE space == Sent.workspaces[ws]
               groups == {g \in DOMAIN Sent.groups : Sent.groups[g].workspace = ws}
               windows == {w \in DOMAIN Sent.windows : Sent.windows[w].workspace = ws}
               T == {g \in groups : Sent.groups[g].active}
    <2>1. /\ space.visible <=> IsVisible(desk, ws)
          /\ space.output = desk.home[ws]
          /\ space.groups = Cardinality(GroupsOn(ws))
          /\ space.windows = Cardinality(WindowsOn(ws))
      BY SentIs
    <2>2. GroupsOn(ws) = groups
      BY SentIs DEF GroupsOn
    <2>3. WindowsOn(ws) = windows
      BY SentIs DEF WindowsOn
    <2>4. T \in SUBSET {desk.wact[ws]}
      BY SentIs
    <2>5. desk.home[ws] \in Plugged \cup {None}
      BY TendedIs DEF Placed, Plugged
    <2>6. DOMAIN Sent.outputs = Plugged
      BY SentIs
    <2> HIDE DEF space, groups, windows, T
    <2>7. Cardinality(T) <= 1
      BY <2>4, AtMostOne
    <2>8. /\ space.visible => space.output # None
          /\ space.output \in DOMAIN Sent.outputs \cup {None}
      BY <2>1, <2>5, <2>6 DEF IsVisible
    <2>9. space.groups = Cardinality(groups) /\ space.windows = Cardinality(windows)
      BY <2>1, <2>2, <2>3
    <2> QED
      BY <2>7, <2>8, <2>9 DEF space, groups, windows, T
  <1>2. DOMAIN Sent.workspaces = Spaces(desk)
    BY SentIs
  <1> QED
    BY <1>1, <1>2 DEF WorkspacesValid

LEMMA GroupsAccepted ==
  ASSUME Tended
  PROVE  GroupsValid(Sent)
  <1>1. ASSUME NEW g \in Live(desk)
        PROVE  LET group == Sent.groups[g]
                   tabs == {w \in DOMAIN Sent.windows : Sent.windows[w].group = g}
               IN  /\ group.workspace \in DOMAIN Sent.workspaces
                   /\ GroupPlacementAccepted(group)
                   /\ group.pin \in DOMAIN Sent.outputs \cup {None}
                   /\ group.windows = Cardinality(tabs)
                   /\ Cardinality({w \in tabs : Sent.windows[w].active}) <= 1
    <2> DEFINE group == Sent.groups[g]
               tabs == {w \in DOMAIN Sent.windows : Sent.windows[w].group = g}
               T == {w \in tabs : Sent.windows[w].active}
    <2>1. /\ group.workspace = desk.gws[g] /\ group.windows = Len(desk.gwin[g])
          /\ group.floating <=> g \in desk.flt
          /\ group.pin = desk.pin[g]
      BY SentIs
    <2>2. g \in Groups /\ g # None
      BY TendedIs, Names
    <2>3. desk.gws[g] # NoWs /\ desk.gws[g] \in Spaces(desk)
      BY <2>2, TendedIs DEF Owned
    <2>4. DOMAIN Sent.workspaces = Spaces(desk) /\ DOMAIN Sent.outputs = Plugged
      BY SentIs
    <2>5. tabs = ToSet(desk.gwin[g])
      <3>1. tabs = {w \in Exists : desk.own[w] = g}
        BY SentIs
      <3>2. ToSet(desk.gwin[g]) \in SUBSET Windows
        BY <2>2, TendedIs, DeskFields, MembersOf
      <3>3. \A w \in Windows : w \in ToSet(desk.gwin[g]) <=> desk.own[w] = g
        BY <2>2, TendedIs DEF Owned
      <3> HIDE DEF tabs
      <3> QED
        BY <2>2, <3>1, <3>2, <3>3, TendedIs
    <2>6. Len(desk.gwin[g]) = Cardinality(ToSet(desk.gwin[g]))
      <3>1. desk.gwin[g] \in Seq(Windows) /\ IsInjective(desk.gwin[g])
        BY <2>2, TendedIs, DeskFields DEF Typed
      <3> QED
        BY <3>1, CountOf
    <2>7. T \in SUBSET {desk.gact[g]}
      BY SentIs
    <2>8. desk.pin[g] # None => desk.pin[g] \in Plugged /\ g \in desk.flt
      <3>1. desk.pin[g] # None => /\ desk.pin[g] \in Outputs /\ g \in desk.flt
                                  /\ desk.gws[g] = desk.vis[desk.pin[g]]
        BY <2>2, TendedIs, DeskFields DEF Pinned
      <3>2. \A o \in Outputs \ Plugged : desk.vis[o] = NoWs
        BY TendedIs DEF Placed, Plugged
      <3> QED
        BY <2>3, <3>1, <3>2
    <2> HIDE DEF group, tabs, T
    <2>9. Cardinality(T) <= 1
      BY <2>7, AtMostOne
    <2>10. /\ group.workspace \in DOMAIN Sent.workspaces
           /\ GroupPlacementAccepted(group)
           /\ group.pin \in DOMAIN Sent.outputs \cup {None}
      BY <2>1, <2>3, <2>4, <2>8 DEF GroupPlacementAccepted
    <2>11. group.windows = Cardinality(tabs)
      BY <2>1, <2>5, <2>6
    <2> QED
      BY <2>9, <2>10, <2>11 DEF group, tabs, T
  <1>2. DOMAIN Sent.groups = Live(desk)
    BY SentIs
  <1> QED
    BY <1>1, <1>2 DEF GroupsValid

LEMMA WindowsAccepted ==
  ASSUME Tended, NEW w \in Exists
  PROVE  WindowValid(Sent, Sent.windows[w]) <=> w \notin Orphans
  <1> DEFINE win == Sent.windows[w]
  <1>0. /\ w \in Windows /\ Hale(Now, {}) /\ Now.d = desk /\ Now.transient = transient
        /\ Now.tws = tws
    BY TendedIs, NowIs DEF Tended
  <1>1. /\ win.group = desk.own[w] /\ win.workspace = WorkspaceOf(Now, w)
        /\ win.placement = Placement(w) /\ win.parent = parent[w]
    BY SentIs
  <1>2. /\ DOMAIN Sent.workspaces = Spaces(desk) /\ DOMAIN Sent.groups = Live(desk)
        /\ DOMAIN Sent.windows = Exists
    BY SentIs
  <1> HIDE DEF win
  <1>3. win.workspace \in DOMAIN Sent.workspaces
    <2>1. w \in Now.transient \/ Now.d.own[w] # None
      BY <1>0, TendedIs
    <2> QED
      BY <1>0, <1>1, <1>2, <2>1, PlaceOfWindow
  <1>4. CASE w \in transient
    <2>1. win.placement = "transient" /\ win.group = None
      BY <1>0, <1>1, <1>4, NowIs DEF Placement
    <2>2. parent[w] \in Exists <=> parent[w] # None
      <3>1. parent[w] # None => parent[w] \in desk.mapped /\ parent[w] \in Windows
        BY <1>0, NowIs
      <3>2. parent[w] # None => parent[w] \in transient \/ desk.own[parent[w]] # None
        BY <1>0, <3>1, NowIs
      <3>3. None \notin Exists
        BY TendedIs, Names
      <3> QED
        BY <3>1, <3>2, <3>3, TendedIs
    <2>3. WindowValid(Sent, win) <=> win.parent \in Exists
      BY <1>2, <1>3, <2>1 DEF WindowValid
    <2>4. w \in Orphans <=> parent[w] = None
      BY <1>4 DEF Orphans
    <2> QED
      BY <1>1, <2>2, <2>3, <2>4 DEF win
  <1>5. CASE w \notin transient
    <2> DEFINE g == desk.own[w]
    <2>1. g # None
      BY <1>0, <1>5, TendedIs
    <2>2. g \in Live(desk) /\ desk.wws[w] = desk.gws[g]
      <3>1. desk \in Desk /\ Owned(desk, {})
        BY TendedIs
      <3>2. g \in Live(desk)
        BY <1>0, <2>1, <3>1, OwnerIs
      <3>3. desk.wws[w] = desk.gws[g]
        BY <1>0, <2>1, <3>1 DEF Owned
      <3> QED
        BY <3>2, <3>3
    <2>3. /\ Sent.groups[g].workspace = desk.gws[g]
          /\ Sent.groups[g].floating <=> g \in desk.flt
      BY <2>2, SentIs
    <2>4. win.workspace = desk.wws[w]
      BY <1>0, <1>1, <1>5 DEF WorkspaceOf
    <2>5. win.parent = None
      BY <1>0, <1>1, <1>5, NowIs
    <2>6. win.placement # "transient" /\ (g \in desk.flt <=> win.placement = "floating")
      BY <1>1, <1>5 DEF Placement
    <2>7. WindowValid(Sent, win)
      BY <1>1, <1>2, <1>3, <2>2, <2>3, <2>4, <2>5, <2>6 DEF WindowValid
    <2> QED
      BY <1>5, <2>7 DEF Orphans, win
  <1> QED
    BY <1>4, <1>5 DEF win

\* The Shell accepts every state that the compositor may send between two
\* events, except those in which a dialog has no parent (AcceptedUnlessOrphans
\* of DesktopSnapshot): whatever snapshot_validate of the Shell asks for --
\* counts, active pointers, pins, placements, parents -- the desktop keeps, for
\* any outputs, workspaces, groups and windows.
THEOREM AlwaysAccepted == SnapshotSpec => []AcceptedUnlessOrphans
  <1>1. Tended => AcceptedUnlessOrphans
    <2> SUFFICES ASSUME Tended PROVE AcceptedUnlessOrphans
      OBVIOUS
    <2>1. OutputsValid(Sent) /\ WorkspacesValid(Sent) /\ GroupsValid(Sent)
      BY OutputsAccepted, WorkspacesAccepted, GroupsAccepted
    <2>2. DOMAIN Sent.windows = Exists
      BY SentIs
    <2>3. \A w \in Exists : WindowValid(Sent, Sent.windows[w]) <=> w \notin Orphans
      BY WindowsAccepted
    <2>4. Orphans \in SUBSET Exists
      BY DEF Orphans, Exists
    <2> QED
      BY <2>1, <2>2, <2>3, <2>4 DEF AcceptedUnlessOrphans, Accepted
  <1> QED
    BY <1>1, AlwaysTended, PTL
=============================================================================
