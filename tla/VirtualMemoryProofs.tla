------------------------- MODULE VirtualMemoryProofs -------------------------
(***************************************************************************)
(* Proofs about VirtualMemory, for every number of address spaces, pages,  *)
(* frames and calls, and every size of a page table.                       *)
(***************************************************************************)
EXTENDS VirtualMemory, FiniteSetTheorems, WellFoundedInduction, TLAPS

USE VirtualMemoryAssumption, NoneAssumption

-----------------------------------------------------------------------------
(***************************************************************************)
(* Loops.  A loop of the code is a recursive function over its rounds.     *)
(***************************************************************************)
\* A nonempty set of natural numbers has a least element.
LEMMA LeastNatural ==
  ASSUME NEW T, T \subseteq Nat, T # {}
  PROVE  \E x \in T : \A y \in T : x <= y
<1>1. PICK x \in T : \A y \in T : ~(<<y, x>> \in OpToRel(<, Nat))
  BY NatLessThanWellFounded, WFMin, Zenon
<1>2. \A y \in T : ~(y < x)
  BY <1>1, Zenon DEF OpToRel
<1> QED
  BY <1>2

\* Induction over the rounds 0 .. n.
LEMMA RoundInduction ==
  ASSUME NEW n \in Nat, NEW S, 0 \in S,
         \A i \in 1 .. n : i - 1 \in S => i \in S
  PROVE  0 .. n \subseteq S
<1> DEFINE T == {i \in 0 .. n : i \notin S}
<1>1. ASSUME T # {} PROVE FALSE
  <2>1. T \subseteq Nat
    OBVIOUS
  <2>2. PICK x \in T : \A y \in T : x <= y
    BY <1>1, <2>1, LeastNatural, Zenon
  <2>3. x \in 1 .. n
    BY <2>2
  <2>4. x - 1 \notin T
    BY <2>2, <2>3
  <2> QED
    BY <2>3, <2>4
<1> QED
  BY <1>1, Zenon

\* g holds the values of n rounds of F, from b.
Loop(g, n, b, F) == g[0] = b /\ \A i \in 1 .. n : g[i] = F[<<i, g[i - 1]>>]

\* A loop that starts in R and stays in R has a run: the recursive function
\* that describes it exists.
LEMMA LoopExists ==
  ASSUME NEW n \in Nat, NEW R, NEW b \in R, NEW F \in [(1 .. n) \X R -> R]
  PROVE  \E g \in [0 .. n -> R] : Loop(g, n, b, F)
<1> DEFINE Upto(g, k) == /\ g[0] = b
                         /\ \A i \in 1 .. k : g[i] = F[<<i, g[i - 1]>>]
           S == {k \in 0 .. n : \E g \in [0 .. n -> R] : Upto(g, k)}
<1>1. 0 \in S
  <2> DEFINE g == [i \in 0 .. n |-> b]
  <2>1. g \in [0 .. n -> R] /\ Upto(g, 0) /\ 0 \in 0 .. n
    OBVIOUS
  <2> HIDE DEF g
  <2> QED
    BY <2>1, Zenon
<1>2. ASSUME NEW k \in 1 .. n, k - 1 \in S PROVE k \in S
  <2>1. PICK g \in [0 .. n -> R] : Upto(g, k - 1)
    BY <1>2, Zenon
  <2> DEFINE h == [g EXCEPT ![k] = F[<<k, g[k - 1]>>]]
  <2>2. <<k, g[k - 1]>> \in (1 .. n) \X R
    BY <2>1
  <2>3. F[<<k, g[k - 1]>>] \in R
    BY <2>2, Zenon
  <2>4. /\ h \in [0 .. n -> R] /\ h[0] = b
        /\ h[k] = F[<<k, g[k - 1]>>] /\ h[k - 1] = g[k - 1]
    BY <2>1, <2>3
  <2>5. \A i \in 1 .. k - 1 : h[i] = g[i] /\ h[i - 1] = g[i - 1]
    BY <2>1
  <2>6. (\A i \in 1 .. k : i = k \/ i \in 1 .. k - 1) /\ k \in 0 .. n
    OBVIOUS
  <2> HIDE DEF h
  <2>7. \A i \in 1 .. k - 1 : h[i] = F[<<i, h[i - 1]>>]
    BY <2>1, <2>5, Zenon
  <2>8. \A i \in 1 .. k : h[i] = F[<<i, h[i - 1]>>]
    BY <2>4, <2>6, <2>7, Zenon
  <2> QED
    BY <2>4, <2>6, <2>8, Zenon
<1>3. n \in S
  <2> HIDE DEF S
  <2> QED
    BY <1>1, <1>2, RoundInduction
<1> QED
  BY <1>3, Zenon DEF Loop

\* What a loop that stays in R ends with is in R.
LEMMA LoopStays ==
  ASSUME NEW n \in Nat, NEW R, NEW r, r[0] \in R,
         \A i \in 1 .. n : r[i - 1] \in R => r[i] \in R
  PROVE  r[n] \in R
<1> DEFINE S == {i \in 0 .. n : r[i] \in R}
<1>1. 0 \in S /\ \A i \in 1 .. n : i - 1 \in S => i \in S
  OBVIOUS
<1> HIDE DEF S
<1>2. n \in S
  BY <1>1, RoundInduction
<1> QED
  BY <1>2, Zenon DEF S

-----------------------------------------------------------------------------
(***************************************************************************)
(* Tables and counting.                                                    *)
(***************************************************************************)
LEMMA MinOfTwo ==
  ASSUME NEW a \in Int, NEW b \in Int
  PROVE  Min({a, b}) \in {a, b} /\ Min({a, b}) <= a /\ Min({a, b}) <= b
<1>1. \E x \in {a, b} : \A y \in {a, b} : x <= y
  <2>1. CASE a <= b
    BY <2>1
  <2>2. CASE b <= a
    BY <2>2
  <2> QED
    BY <2>1, <2>2
<1>2. Min({a, b}) \in {a, b} /\ \A y \in {a, b} : Min({a, b}) <= y
  BY <1>1, Zenon DEF Min
<1> QED
  BY <1>2, Zenon

AllTables == -2 .. UserPages + MaxPages - 2

LEMMA PtIndexIsTable ==
  ASSUME NEW v \in Pages
  PROVE  PtIndex(v) \in AllTables /\ PtIndex(v) >= 0
<1>1. v \in Nat /\ v <= UserPages + MaxPages - 2
  BY DEF Pages
<1>2. \A t \in Nat \ {0} : v \div t \in Nat /\ v \div t <= v
  BY <1>1, SMT
<1> QED
  BY <1>1, <1>2 DEF PtIndex, AllTables

LEMMA TablesForType ==
  ASSUME NEW v \in Pages
  PROVE  TablesFor(v) \subseteq AllTables
BY PtIndexIsTable DEF TablesFor, AllTables

LEMMA TableSetsFinite ==
  ASSUME NEW S, S \subseteq AllTables
  PROVE  IsFiniteSet(S) /\ Cardinality(S) \in Nat
<1>1. IsFiniteSet(AllTables)
  BY FS_Interval DEF AllTables
<1> QED
  BY <1>1, FS_Subset, FS_CardinalityType, Zenon

Before(S, t) == {u \in S : u < t}

\* A member of S has fewer predecessors in S than S has members.
LEMMA BeforeIsLess ==
  ASSUME NEW S, IsFiniteSet(S), S \subseteq Int, NEW t \in S
  PROVE  /\ IsFiniteSet(Before(S, t)) /\ Cardinality(Before(S, t)) \in Nat
         /\ Cardinality(Before(S, t)) < Cardinality(S)
<1>1. Before(S, t) \subseteq S \ {t}
  BY DEF Before
<1>2. IsFiniteSet(S \ {t}) /\ Cardinality(S \ {t}) = Cardinality(S) - 1
  BY FS_RemoveElement, Zenon
<1>3. IsFiniteSet(Before(S, t)) /\ Cardinality(Before(S, t)) <= Cardinality(S) - 1
  BY <1>1, <1>2, FS_Subset
<1> QED
  BY <1>3, FS_CardinalityType

LEMMA FirstOfAll ==
  ASSUME NEW S, IsFiniteSet(S), S \subseteq Int
  PROVE  FirstOf(S, Cardinality(S)) = S
BY BeforeIsLess, Zenon DEF FirstOf, Before

\* The first k members of a set are at most k.
LEMMA FirstOfBound ==
  ASSUME NEW S, IsFiniteSet(S), S \subseteq Int, NEW k \in Nat
  PROVE  IsFiniteSet(FirstOf(S, k)) /\ Cardinality(FirstOf(S, k)) <= k
<1> DEFINE c == [t \in S |-> Cardinality(Before(S, t))]
           Fst(i) == {t \in S : c[t] < i}
           G == {i \in 0 .. k : IsFiniteSet(Fst(i)) /\ Cardinality(Fst(i)) <= i}
<1>1. c \in [S -> Nat]
  BY BeforeIsLess, Zenon
<1>2. FirstOf(S, k) = Fst(k)
  BY Zenon DEF FirstOf, Before
<1>3. ASSUME NEW t \in S, NEW u \in S, t < u PROVE c[t] < c[u]
  <2>1. \A x \in S : x < t => x < u
    BY <1>3
  <2>2. Before(S, t) \cup {t} \subseteq Before(S, u)
    BY <1>3, <2>1, Zenon DEF Before
  <2>3. t \notin Before(S, t)
    BY DEF Before
  <2>4. /\ IsFiniteSet(Before(S, t)) /\ Cardinality(Before(S, t)) \in Nat
        /\ IsFiniteSet(Before(S, u)) /\ Cardinality(Before(S, u)) \in Nat
    BY BeforeIsLess, Zenon
  <2>5. Cardinality(Before(S, t) \cup {t}) = Cardinality(Before(S, t)) + 1
    BY <2>3, <2>4, FS_AddElement, Zenon
  <2>6. Cardinality(Before(S, t) \cup {t}) <= Cardinality(Before(S, u))
    BY <2>2, <2>4, FS_Subset, Zenon
  <2>7. c[t] = Cardinality(Before(S, t)) /\ c[u] = Cardinality(Before(S, u))
    BY Zenon
  <2> HIDE DEF c
  <2> QED
    BY <2>4, <2>5, <2>6, <2>7
<1> HIDE DEF c
<1>4. 0 \in G
  <2>0. \A t \in S : ~(c[t] < 0)
    BY <1>1
  <2>1. Fst(0) = {}
    BY <2>0, Zenon
  <2> QED
    BY <2>1, FS_EmptySet
<1>5. ASSUME NEW i \in 1 .. k, i - 1 \in G PROVE i \in G
  <2>1. IsFiniteSet(Fst(i - 1)) /\ Cardinality(Fst(i - 1)) <= i - 1
    BY <1>5, Zenon
  <2>2. Cardinality(Fst(i - 1)) \in Nat
    BY <2>1, FS_CardinalityType, Zenon
  <2>0. \A x \in S : c[x] < i <=> c[x] < i - 1 \/ c[x] = i - 1
    BY <1>1
  <2>3. CASE \E t \in S : c[t] = i - 1
    <3>1. PICK t \in S : c[t] = i - 1
      BY <2>3, Zenon
    <3>2. \A u \in S : c[u] = i - 1 => u = t
      <4>1. \A u \in S : u < t \/ u = t \/ t < u
        OBVIOUS
      <4>2. \A u \in S : ~(c[u] = i - 1 /\ c[u] < c[t]) /\ ~(c[u] = i - 1 /\ c[t] < c[u])
        BY <1>1, <3>1
      <4> QED
        BY <1>3, <4>1, <4>2, Zenon
    <3>3. Fst(i) = Fst(i - 1) \cup {t}
      BY <2>0, <3>1, <3>2, Zenon
    <3>4. t \notin Fst(i - 1)
      BY <3>1
    <3> HIDE DEF Fst
    <3>5. IsFiniteSet(Fst(i)) /\ Cardinality(Fst(i)) = Cardinality(Fst(i - 1)) + 1
      <4>1. PICK F : F = Fst(i - 1)
        BY Zenon
      <4>2. IsFiniteSet(F) /\ t \notin F /\ Fst(i) = F \cup {t}
        BY <2>1, <3>3, <3>4, <4>1, Zenon
      <4>3. IsFiniteSet(F \cup {t}) /\ Cardinality(F \cup {t}) = Cardinality(F) + 1
        BY <4>2, FS_AddElement, Zenon
      <4> QED
        BY <4>1, <4>2, <4>3, Zenon
    <3>6. Cardinality(Fst(i)) <= i /\ i \in 0 .. k
      BY <2>1, <2>2, <3>5
    <3> QED
      BY <3>5, <3>6, Zenon
  <2>4. CASE ~ \E t \in S : c[t] = i - 1
    <3>1. Fst(i) = Fst(i - 1)
      BY <2>0, <2>4, Zenon
    <3> HIDE DEF Fst
    <3> QED
      BY <2>1, <2>2, <3>1
  <2> QED
    BY <2>3, <2>4, Zenon
<1>6. 0 .. k \subseteq G
  <2> HIDE DEF G
  <2> QED
    BY <1>4, <1>5, RoundInduction, Zenon
<1>7. k \in G
  BY <1>6
<1> QED
  BY <1>2, <1>7, Zenon

-----------------------------------------------------------------------------
(***************************************************************************)
(* What the operations do to a manager.  Sound: its frames have been       *)
(* handed out, and a page in use has its page table.  Covered: page_count  *)
(* is at least the number of tables and pages.                             *)
(***************************************************************************)
UsedPages(m) == {v \in Pages : Used(m, v)}
Covered(m) == m.page_count >= Cardinality(m.tables) + Cardinality(UsedPages(m))
Sound(m, n) ==
  \A v \in Pages : Used(m, v) => m.pte[v].frame < n /\ PtIndex(v) \in m.tables

Results == [m : Manager, next : 0 .. NFrames, ok : BOOLEAN]

\* The results of calls that hand out frames from `from` on and use no others
\* for the pages they map.
Grown(m, from) ==
  {r \in Results : /\ from <= r.next
                   /\ Sound(r.m, r.next)
                   /\ r.m.cloned = m.cloned
                   /\ Covered(m) => Covered(r.m)
                   /\ \A v \in Pages : \/ r.m.pte[v] = m.pte[v]
                                       \/ /\ r.m.pte[v] # None
                                          /\ r.m.pte[v].frame >= from}

LEMMA UsedPagesFinite ==
  ASSUME NEW m
  PROVE  IsFiniteSet(UsedPages(m)) /\ Cardinality(UsedPages(m)) \in Nat
<1>1. IsFiniteSet(Pages)
  BY FS_Interval DEF Pages
<1>2. UsedPages(m) \subseteq Pages
  BY Zenon DEF UsedPages
<1> QED
  BY <1>1, <1>2, FS_Subset, FS_CardinalityType, Zenon

LEMMA EntryFields ==
  ASSUME NEW e \in Entry
  PROVE  e.frame \in Frames /\ e.flags \in Flags
BY Zenon DEF Entry

LEMMA EntryType ==
  ASSUME NEW m \in Manager, NEW v \in Pages
  PROVE  /\ m.pte \in [Pages -> Entry \cup {None}]
         /\ Used(m, v) <=> m.pte[v] # None
         /\ Used(m, v) => m.pte[v] \in Entry
BY Zenon DEF Manager, Used

\* The tables that map_page adds, and whether they are all that is missing.
LEMMA MissingTables ==
  ASSUME NEW m \in Manager, NEW v \in Pages, NEW free \in Nat
  PROVE  LET missing == TablesFor(v) \ m.tables
             k == Min({Cardinality(missing), free})
             added == FirstOf(missing, k)
         IN /\ k \in Nat /\ k <= free
            /\ added \subseteq AllTables
            /\ Cardinality(m.tables \cup added) <= Cardinality(m.tables) + k
            /\ k = Cardinality(missing) => PtIndex(v) \in m.tables \cup added
<1> DEFINE missing == TablesFor(v) \ m.tables
           k == Min({Cardinality(missing), free})
           added == FirstOf(missing, k)
<1>0. m.tables \subseteq AllTables
  BY Zenon DEF Manager, AllTables
<1>1. /\ missing \subseteq AllTables /\ IsFiniteSet(missing)
      /\ Cardinality(missing) \in Nat
  BY TablesForType, TableSetsFinite, Zenon
<1>2. missing \subseteq Int
  BY <1>1 DEF AllTables
<1>3. k \in Nat /\ k <= free
  <2> DEFINE c == Cardinality(missing)
  <2>1. c \in Int /\ c \in Nat /\ free \in Int
    BY <1>1
  <2> HIDE DEF c
  <2>2. Min({c, free}) \in {c, free} /\ Min({c, free}) <= free
    BY <2>1, MinOfTwo, Zenon
  <2>3. Min({c, free}) \in Nat /\ Min({c, free}) <= free
    BY <2>1, <2>2, Zenon
  <2> QED
    BY <2>3, Zenon DEF c
<1> HIDE DEF k
<1>4. added \subseteq missing
  BY Zenon DEF FirstOf
<1>5. added \subseteq AllTables
  BY <1>1, <1>4, Zenon
<1>6. Cardinality(m.tables \cup added) <= Cardinality(m.tables) + k
  <2>1. IsFiniteSet(added) /\ Cardinality(added) <= k
    BY <1>1, <1>2, <1>3, FirstOfBound, Zenon
  <2>2. IsFiniteSet(m.tables) /\ Cardinality(m.tables) \in Nat
    BY <1>0, TableSetsFinite, Zenon
  <2>3. m.tables \cap added = {}
    BY <1>4, Zenon
  <2> HIDE DEF added
  <2>4. Cardinality(m.tables \cup added) = Cardinality(m.tables) + Cardinality(added)
    <3>1. Cardinality(m.tables \cup added)
            = Cardinality(m.tables) + Cardinality(added) - Cardinality(m.tables \cap added)
      BY <2>1, <2>2, FS_Union, Zenon
    <3>2. Cardinality(m.tables \cap added) = 0
      BY <2>3, FS_EmptySet, Zenon
    <3> QED
      BY <2>1, <2>2, <3>1, <3>2, FS_CardinalityType
  <2> QED
    BY <1>3, <2>1, <2>2, <2>4, FS_CardinalityType
<1>7. ASSUME k = Cardinality(missing) PROVE PtIndex(v) \in m.tables \cup added
  <2>1. added = missing
    BY <1>1, <1>2, <1>7, FirstOfAll, Zenon
  <2> QED
    BY <2>1, Zenon DEF TablesFor
<1> QED
  BY <1>3, <1>5, <1>6, <1>7, Zenon DEF k

LEMMA MapPageEffect ==
  ASSUME NEW m \in Manager, NEW from \in 0 .. NFrames, NEW v \in Pages,
         NEW frame \in Frames, frame < from, NEW flags \in Flags, Sound(m, from)
  PROVE  LET r == map_page(m, from, v, frame, flags)
             e == [frame |-> frame, flags |-> flags]
         IN /\ r \in Results
            /\ from <= r.next
            /\ Sound(r.m, r.next)
            /\ r.m.cloned = m.cloned
            /\ Covered(m) => Covered(r.m)
            /\ r.m.pte = IF r.ok THEN [m.pte EXCEPT ![v] = e] ELSE m.pte
<1> DEFINE missing == TablesFor(v) \ m.tables
           k == Min({Cardinality(missing), NFrames - from})
           added == FirstOf(missing, k)
           ok == k = Cardinality(missing)
           e == [frame |-> frame, flags |-> flags]
           r == map_page(m, from, v, frame, flags)
<1>1. /\ r.m = [m EXCEPT !.tables = @ \cup added,
                         !.page_count = @ + k + (IF ok THEN 1 ELSE 0),
                         !.pte = IF ok THEN [@ EXCEPT ![v] = e] ELSE @]
      /\ r = [m |-> r.m, next |-> from + k, ok |-> ok]
  BY Zenon DEF map_page
<1>2. NFrames - from \in Nat
  BY SMTT(40)
<1>3. /\ k \in Nat /\ k <= NFrames - from
      /\ added \subseteq AllTables
      /\ Cardinality(m.tables \cup added) <= Cardinality(m.tables) + k
      /\ ok => PtIndex(v) \in m.tables \cup added
  BY <1>2, MissingTables, Zenon
<1>4. ok \in BOOLEAN /\ e \in Entry /\ e.frame = frame /\ e # None
  BY DEF Entry
<1> HIDE DEF missing, k, added, ok, e, r
<1>5. /\ r.next = from + k /\ (r.ok <=> ok) /\ r.ok \in BOOLEAN
  BY <1>1, <1>4
<1>6. m.pte \in [Pages -> Entry \cup {None}] /\ m.page_count \in Int
      /\ m.tables \subseteq AllTables
  BY Zenon DEF Manager, AllTables
<1>7. /\ r.m.tables = m.tables \cup added
      /\ r.m.page_count = m.page_count + k + (IF ok THEN 1 ELSE 0)
      /\ r.m.pte = IF ok THEN [m.pte EXCEPT ![v] = e] ELSE m.pte
      /\ r.m.cloned = m.cloned
  BY <1>1, Zenon DEF Manager
<1>8. r.m \in Manager
  <2>1. m.tables \cup added \in SUBSET (-2 .. UserPages + MaxPages - 2)
    BY <1>3, <1>6, Zenon DEF AllTables
  <2>2. m.page_count + k + (IF ok THEN 1 ELSE 0) \in Int
    BY <1>3, <1>6
  <2>3. (IF ok THEN [m.pte EXCEPT ![v] = e] ELSE m.pte) \in [Pages -> Entry \cup {None}]
    BY <1>4, <1>6, Zenon
  <2> QED
    BY <1>1, <2>1, <2>2, <2>3, Zenon DEF Manager
<1>9. r \in Results
  BY <1>1, <1>3, <1>4, <1>8 DEF Results
<1>10. \A w \in Pages : r.m.pte[w] = IF ok /\ w = v THEN e ELSE m.pte[w]
  BY <1>6, <1>7, Zenon
<1>11. Sound(r.m, r.next)
  <2> SUFFICES ASSUME NEW w \in Pages, Used(r.m, w)
               PROVE  r.m.pte[w].frame < r.next /\ PtIndex(w) \in r.m.tables
    BY Zenon DEF Sound
  <2>1. CASE ok /\ w = v
    <3>1. r.m.pte[w] = e /\ PtIndex(w) \in r.m.tables
      BY <1>3, <1>7, <1>10, <2>1, Zenon
    <3>2. frame < from + k /\ r.next = from + k
      BY <1>3, <1>5 DEF Frames
    <3> QED
      BY <1>4, <3>1, <3>2, Zenon
  <2>2. CASE ~(ok /\ w = v)
    <3>1. r.m.pte[w] = m.pte[w] /\ Used(m, w)
      BY <1>10, <2>2, Zenon DEF Used
    <3>2. m.pte[w].frame < from /\ PtIndex(w) \in m.tables /\ m.pte[w].frame \in Nat
      BY <3>1, EntryType DEF Sound, Entry, Frames
    <3> QED
      BY <1>3, <1>5, <1>7, <3>1, <3>2
  <2> QED
    BY <2>1, <2>2, Zenon
<1>12. ASSUME Covered(m) PROVE Covered(r.m)
  <2>1. Cardinality(UsedPages(m)) \in Nat /\ IsFiniteSet(UsedPages(m))
        /\ Cardinality(UsedPages(r.m)) \in Nat /\ Cardinality(m.tables) \in Nat
        /\ Cardinality(r.m.tables) \in Nat
    BY <1>6, <1>8, UsedPagesFinite, TableSetsFinite, Zenon DEF Manager, AllTables
  <2>2. Cardinality(UsedPages(r.m)) <= Cardinality(UsedPages(m)) + (IF ok THEN 1 ELSE 0)
    <3>1. CASE ok
      <4>1. UsedPages(r.m) \subseteq UsedPages(m) \cup {v}
        BY <1>10, Zenon DEF UsedPages, Used
      <4>2. IsFiniteSet(UsedPages(m) \cup {v})
            /\ Cardinality(UsedPages(m) \cup {v}) <= Cardinality(UsedPages(m)) + 1
        <5> DEFINE U == UsedPages(m)
        <5>1. IsFiniteSet(U) /\ Cardinality(U) \in Nat
          BY <2>1, Zenon
        <5> HIDE DEF U
        <5>2. /\ IsFiniteSet(U \cup {v})
              /\ \/ Cardinality(U \cup {v}) = Cardinality(U)
                 \/ Cardinality(U \cup {v}) = Cardinality(U) + 1
          BY <5>1, FS_AddElement, Zenon
        <5>3. Cardinality(U \cup {v}) <= Cardinality(U) + 1
          BY <5>1, <5>2
        <5> QED
          BY <5>2, <5>3, Zenon DEF U
      <4>3. Cardinality(UsedPages(r.m)) <= Cardinality(UsedPages(m) \cup {v})
        BY <4>1, <4>2, FS_Subset, Zenon
      <4> QED
        BY <2>1, <3>1, <4>2, <4>3, FS_CardinalityType
    <3>2. CASE ~ok
      <4>1. UsedPages(r.m) = UsedPages(m)
        BY <1>10, <3>2, Zenon DEF UsedPages, Used
      <4> QED
        BY <2>1, <3>2, <4>1
    <3> QED
      BY <3>1, <3>2, Zenon
  <2>3. Cardinality(r.m.tables) <= Cardinality(m.tables) + k
    BY <1>3, <1>7, Zenon
  <2>4. m.page_count >= Cardinality(m.tables) + Cardinality(UsedPages(m))
    BY <1>12, Zenon DEF Covered
  <2>5. r.m.page_count >= Cardinality(r.m.tables) + Cardinality(UsedPages(r.m))
    BY <1>3, <1>6, <1>7, <2>1, <2>2, <2>3, <2>4
  <2> QED
    BY <2>5, Zenon DEF Covered
<1> QED
  BY <1>3, <1>5, <1>7, <1>9, <1>11, <1>12 DEF r, e

\* Of the entries map_page changes that of the page, if it succeeds.
SetsEntry(r, m, v, e) == r.m.pte = IF r.ok THEN [m.pte EXCEPT ![v] = e] ELSE m.pte

LEMMA MapPagePte ==
  ASSUME NEW m \in Manager, NEW from \in 0 .. NFrames, NEW v \in Pages,
         NEW frame \in Frames, frame < from, NEW flags \in Flags, Sound(m, from)
  PROVE  SetsEntry(map_page(m, from, v, frame, flags), m, v,
                   [frame |-> frame, flags |-> flags])
BY MapPageEffect, SMTT(40) DEF SetsEntry

LEMMA GrownParts ==
  ASSUME NEW m, NEW from \in 0 .. NFrames, NEW r \in Grown(m, from)
  PROVE  /\ r \in Results /\ r.m \in Manager /\ r.next \in 0 .. NFrames
         /\ r.ok \in BOOLEAN /\ from <= r.next
         /\ Sound(r.m, r.next)
BY Zenon DEF Grown, Results

LEMMA SoundLater ==
  ASSUME NEW m \in Manager, NEW n \in Int, NEW k \in Int, n <= k, Sound(m, n)
  PROVE  Sound(m, k)
<1> SUFFICES ASSUME NEW v \in Pages, Used(m, v)
             PROVE  m.pte[v].frame < k /\ PtIndex(v) \in m.tables
  BY Zenon DEF Sound
<1>1. m.pte[v].frame \in Nat
  BY EntryType DEF Entry, Frames
<1> QED
  BY <1>1 DEF Sound

\* One more page mapped, to a frame that was handed out after `from`.
LEMMA MapPageGrows ==
  ASSUME NEW m \in Manager, NEW from \in 0 .. NFrames, NEW r \in Grown(m, from),
         NEW x \in 0 .. NFrames, r.next <= x, NEW v \in Pages,
         NEW frame \in Frames, from <= frame, frame < x, NEW flags \in Flags
  PROVE  map_page(r.m, x, v, frame, flags) \in Grown(m, from)
<1> DEFINE q == map_page(r.m, x, v, frame, flags)
           e == [frame |-> frame, flags |-> flags]
<1>1. /\ r.m \in Manager /\ r.next \in 0 .. NFrames /\ from <= r.next
      /\ Sound(r.m, r.next)
  BY GrownParts, Zenon
<1>2. Sound(r.m, x)
  BY <1>1, SoundLater, SMTT(40)
<1>3. /\ q \in Results
      /\ x <= q.next
      /\ Sound(q.m, q.next)
      /\ q.m.cloned = r.m.cloned
      /\ Covered(r.m) => Covered(q.m)
      /\ q.m.pte = IF q.ok THEN [r.m.pte EXCEPT ![v] = e] ELSE r.m.pte
  BY <1>1, <1>2, MapPageEffect, SMTT(40)
<1>4. e # None /\ e.frame = frame
  BY DEF Entry
<1> HIDE DEF q, e
<1>5. q.m.cloned = m.cloned /\ (Covered(m) => Covered(q.m))
  BY <1>3, Zenon DEF Grown
<1>6. from <= q.next
  <2>1. q.next \in 0 .. NFrames
    BY <1>3, Zenon DEF Results
  <2> QED
    BY <1>1, <1>3, <2>1
<1>7. \A w \in Pages : \/ r.m.pte[w] = m.pte[w]
                       \/ r.m.pte[w] # None /\ r.m.pte[w].frame >= from
  BY Zenon DEF Grown
<1>8. \A w \in Pages : q.m.pte[w] = IF q.ok /\ w = v THEN e ELSE r.m.pte[w]
  BY <1>1, <1>3, EntryType
<1>9. frame >= from
  BY Zenon DEF Frames
<1>10. \A w \in Pages : \/ q.m.pte[w] = m.pte[w]
                        \/ q.m.pte[w] # None /\ q.m.pte[w].frame >= from
  BY <1>4, <1>7, <1>8, <1>9, Zenon
<1> QED
  BY <1>3, <1>5, <1>6, <1>10, Zenon DEF Grown, q

LEMMA MapFreshGrows ==
  ASSUME NEW m \in Manager, NEW from \in 0 .. NFrames, NEW r \in Grown(m, from),
         NEW v \in Pages, NEW flags \in Flags
  PROVE  MapFresh(r, v, flags) \in Grown(m, from)
<1>1. /\ r \in Results /\ r.m \in Manager /\ r.next \in 0 .. NFrames
      /\ r.ok \in BOOLEAN /\ from <= r.next
  BY GrownParts, Zenon
<1>2. CASE ~ r.ok
  BY <1>2, Zenon DEF MapFresh
<1>3. CASE r.ok /\ r.next = NFrames
  <2> DEFINE q == [r EXCEPT !.ok = FALSE]
  <2>1. q \in Results /\ q.m = r.m /\ q.next = r.next
    BY <1>1, Zenon DEF Results
  <2>2. MapFresh(r, v, flags) = q
    BY <1>3, Zenon DEF MapFresh
  <2> HIDE DEF q
  <2> QED
    BY <2>1, <2>2, Zenon DEF Grown
<1>4. CASE r.ok /\ r.next # NFrames
  <2>1. /\ r.next + 1 \in 0 .. NFrames /\ r.next \in Frames
        /\ r.next <= r.next + 1 /\ r.next < r.next + 1
    BY <1>1, <1>4 DEF Frames
  <2>2. MapFresh(r, v, flags) = map_page(r.m, r.next + 1, v, r.next, flags)
    BY <1>4, Zenon DEF MapFresh
  <2> QED
    BY <1>1, <2>1, <2>2, MapPageGrows
<1> QED
  BY <1>2, <1>3, <1>4, Zenon

LEMMA StartGrown ==
  ASSUME NEW m \in Manager, NEW from \in 0 .. NFrames, Sound(m, from),
         NEW x \in 0 .. NFrames, from <= x, NEW ok \in BOOLEAN
  PROVE  [m |-> m, next |-> x, ok |-> ok] \in Grown(m, from)
<1>1. [m |-> m, next |-> x, ok |-> ok] \in Results
  BY Zenon DEF Results
<1> QED
  BY <1>1, SoundLater DEF Grown

\* The loop of mmap, whenever it stops.
LEMMA MapEachGrows ==
  ASSUME NEW m \in Manager, NEW from \in 0 .. NFrames, Sound(m, from),
         NEW v \in Int, NEW n \in Nat, \A i \in 1 .. n : v + i - 1 \in Pages,
         NEW flags \in Flags
  PROVE  MapEach(m, from, v, n, flags) \in Grown(m, from)
<1> DEFINE b == [m |-> m, next |-> from, ok |-> TRUE]
           R == Grown(m, from)
           Step(x, i) == MapFresh(x, v + i - 1, flags)
           F == [x \in (1 .. n) \X R |-> Step(x[2], x[1])]
           r[i \in 0 .. n] == IF i = 0 THEN b ELSE MapFresh(r[i - 1], v + i - 1, flags)
<1>1. MapEach(m, from, v, n, flags) = r[n]
  BY Zenon DEF MapEach
<1>2. b \in R
  <2>1. from <= from /\ TRUE \in BOOLEAN
    OBVIOUS
  <2> QED
    BY <2>1, StartGrown, Zenon
<1>3. \A i \in 1 .. n : \A x \in R : Step(x, i) \in R
  BY MapFreshGrows, Zenon
<1> HIDE DEF b, R
<1>4. r = [i \in 0 .. n |-> IF i = 0 THEN b ELSE Step(r[i - 1], i)]
  <2> HIDE DEF Step
  <2>1. F \in [(1 .. n) \X R -> R]
    BY <1>3, Zenon
  <2>2. PICK g \in [0 .. n -> R] : Loop(g, n, b, F)
    <3> HIDE DEF F
    <3> QED
      BY <1>2, <2>1, LoopExists, Zenon
  <2>3. \A i \in 1 .. n : <<i, g[i - 1]>> \in (1 .. n) \X R
    BY <2>2
  <2>4. \A i \in 1 .. n : F[<<i, g[i - 1]>>] = Step(g[i - 1], i)
    BY <2>3, Zenon
  <2>5. g = [i \in 0 .. n |-> IF i = 0 THEN b ELSE Step(g[i - 1], i)]
    <3> HIDE DEF F
    <3>1. \A i \in 0 .. n : i = 0 \/ i \in 1 .. n
      OBVIOUS
    <3>2. \A i \in 0 .. n : g[i] = IF i = 0 THEN b ELSE Step(g[i - 1], i)
      BY <2>2, <2>4, <3>1, Zenon DEF Loop
    <3> QED
      BY <3>2, Zenon
  <2> QED
    BY <2>5, Zenon DEF Step
<1> HIDE DEF r, Step
<1>5. r[0] \in R /\ \A i \in 1 .. n : r[i - 1] \in R => r[i] \in R
  BY <1>2, <1>3, <1>4
<1>6. r[n] \in R
  BY <1>5, LoopStays, Zenon
<1> QED
  BY <1>1, <1>6, Zenon DEF R

\* The loop of allocate_user_pages, over frames it has taken before.
LEMMA MapFramesGrows ==
  ASSUME NEW m \in Manager, NEW from \in 0 .. NFrames, Sound(m, from),
         NEW n \in Nat, from + n <= NFrames,
         NEW v, v # None => v \in Int /\ \A i \in 1 .. n : v + i - 1 \in Pages,
         NEW flags \in Flags
  PROVE  MapFrames(m, from, v, n, flags) \in Grown(m, from)
<1> DEFINE b == [m |-> m, next |-> from + n, ok |-> v # None]
           R == {x \in Grown(m, from) : from + n <= x.next /\ (x.ok => v # None)}
           Step(x, i) == IF x.ok
                         THEN map_page(x.m, x.next, v + i - 1, from + i - 1, flags)
                         ELSE x
           F == [x \in (1 .. n) \X R |-> Step(x[2], x[1])]
           r[i \in 0 .. n] ==
             IF i = 0 THEN b
             ELSE IF r[i - 1].ok
             THEN map_page(r[i - 1].m, r[i - 1].next, v + i - 1, from + i - 1, flags)
             ELSE r[i - 1]
<1>1. MapFrames(m, from, v, n, flags) = r[n]
  BY Zenon DEF MapFrames
<1>2. b \in R
  <2>1. /\ from + n \in 0 .. NFrames /\ from <= from + n /\ (v # None) \in BOOLEAN
        /\ from + n <= from + n
    OBVIOUS
  <2>2. b \in Grown(m, from)
    BY <2>1, StartGrown, Zenon
  <2> QED
    BY <2>1, <2>2, Zenon
<1>3. ASSUME NEW i \in 1 .. n, NEW x \in R PROVE Step(x, i) \in R
  <2>1. CASE ~ x.ok
    BY <2>1, Zenon
  <2>2. CASE x.ok
    <3> DEFINE q == map_page(x.m, x.next, v + i - 1, from + i - 1, flags)
    <3>1. x \in Grown(m, from) /\ from + n <= x.next /\ v # None
      BY <2>2, Zenon
    <3>2. /\ x.m \in Manager /\ x.next \in 0 .. NFrames /\ from <= x.next
          /\ Sound(x.m, x.next)
      BY <3>1, GrownParts, Zenon
    <3>3. /\ v + i - 1 \in Pages /\ from + i - 1 \in Frames
          /\ from <= from + i - 1 /\ from + i - 1 < x.next /\ x.next <= x.next
      BY <3>1, <3>2 DEF Frames
    <3>4. q \in Grown(m, from)
      BY <3>1, <3>2, <3>3, MapPageGrows, Zenon
    <3>5. x.next <= q.next
      BY <3>2, <3>3, MapPageEffect, Zenon
    <3>6. q.next \in 0 .. NFrames
      BY <3>4, GrownParts, Zenon
    <3> HIDE DEF q
    <3>7. from + n <= q.next
      BY <3>1, <3>2, <3>5, <3>6
    <3>8. q \in R
      BY <3>1, <3>4, <3>7, Zenon
    <3> QED
      BY <2>2, <3>8, Zenon DEF q
  <2> QED
    BY <2>1, <2>2, Zenon
<1>0. R \subseteq Grown(m, from)
  BY Zenon
<1> HIDE DEF b, R
<1>4. r = [i \in 0 .. n |-> IF i = 0 THEN b ELSE Step(r[i - 1], i)]
  <2> HIDE DEF Step
  <2>1. F \in [(1 .. n) \X R -> R]
    BY <1>3, Zenon
  <2>2. PICK g \in [0 .. n -> R] : Loop(g, n, b, F)
    <3> HIDE DEF F
    <3> QED
      BY <1>2, <2>1, LoopExists, Zenon
  <2>3. \A i \in 1 .. n : <<i, g[i - 1]>> \in (1 .. n) \X R
    BY <2>2
  <2>4. \A i \in 1 .. n : F[<<i, g[i - 1]>>] = Step(g[i - 1], i)
    BY <2>3, Zenon
  <2>5. g = [i \in 0 .. n |-> IF i = 0 THEN b ELSE Step(g[i - 1], i)]
    <3> HIDE DEF F
    <3>1. \A i \in 0 .. n : i = 0 \/ i \in 1 .. n
      OBVIOUS
    <3>2. \A i \in 0 .. n : g[i] = IF i = 0 THEN b ELSE Step(g[i - 1], i)
      BY <2>2, <2>4, <3>1, Zenon DEF Loop
    <3> QED
      BY <3>2, Zenon
  <2> QED
    BY <2>5, Zenon DEF Step
<1> HIDE DEF r, Step
<1>5. r[0] \in R /\ \A i \in 1 .. n : r[i - 1] \in R => r[i] \in R
  BY <1>2, <1>3, <1>4
<1>6. r[n] \in R
  BY <1>5, LoopStays, Zenon
<1> QED
  BY <1>0, <1>1, <1>6, Zenon

\* What unmapping leaves of a manager.
Shrunk(m) ==
  {q \in Manager : /\ q.tables = m.tables /\ q.cloned = m.cloned
                   /\ Covered(m) => Covered(q)
                   /\ \A v \in Pages : q.pte[v] = m.pte[v] \/ q.pte[v] = None}

LEMMA UnmapPageShrinks ==
  ASSUME NEW m \in Manager, NEW q \in Shrunk(m), NEW v \in Pages
  PROVE  unmap_page(q, v) \in Shrunk(m)
<1> DEFINE u == [q EXCEPT !.pte[v] = None, !.page_count = @ - 1]
<1>0. q \in Manager
  BY Zenon DEF Shrunk
<1>1. CASE ~(Reached(q, v) /\ Used(q, v))
  BY <1>1, Zenon DEF unmap_page
<1>2. CASE Reached(q, v) /\ Used(q, v)
  <2>1. unmap_page(q, v) = u
    BY <1>2, Zenon DEF unmap_page
  <2>2. /\ u.tables = q.tables /\ u.cloned = q.cloned
        /\ u.page_count = q.page_count - 1
        /\ u.pte = [q.pte EXCEPT ![v] = None]
    BY <1>0, Zenon DEF Manager
  <2>3. q.pte \in [Pages -> Entry \cup {None}] /\ q.page_count \in Int
        /\ q.tables \subseteq AllTables
    BY <1>0, Zenon DEF Manager, AllTables
  <2>4. u \in Manager
    <3>1. [q.pte EXCEPT ![v] = None] \in [Pages -> Entry \cup {None}] /\ q.page_count - 1 \in Int
      BY <2>3
    <3>2. u = [q EXCEPT !.pte = [q.pte EXCEPT ![v] = None], !.page_count = q.page_count - 1]
      BY <1>0, Zenon DEF Manager
    <3> QED
      BY <1>0, <3>1, <3>2, Zenon DEF Manager
  <2> HIDE DEF u
  <2>5. \A w \in Pages : u.pte[w] = IF w = v THEN None ELSE q.pte[w]
    BY <2>2, <2>3, Zenon
  <2>6. ASSUME Covered(q) PROVE Covered(u)
    <3>1. UsedPages(u) = UsedPages(q) \ {v} /\ v \in UsedPages(q)
      BY <1>2, <2>5, Zenon DEF UsedPages, Used
    <3>2. IsFiniteSet(UsedPages(q)) /\ Cardinality(UsedPages(q)) \in Nat
          /\ Cardinality(q.tables) \in Nat
      BY <2>3, UsedPagesFinite, TableSetsFinite, Zenon
    <3>3. Cardinality(UsedPages(u)) = Cardinality(UsedPages(q)) - 1
      <4> DEFINE U == UsedPages(q)
      <4>1. v \in U /\ IsFiniteSet(U)
        BY <3>1, <3>2, Zenon
      <4> HIDE DEF U
      <4>2. Cardinality(U \ {v}) = Cardinality(U) - 1
        BY <4>1, FS_RemoveElement, Zenon
      <4> QED
        BY <3>1, <4>2, Zenon DEF U
    <3> QED
      BY <2>2, <2>3, <2>6, <3>2, <3>3 DEF Covered
  <2>7. \A w \in Pages : u.pte[w] = m.pte[w] \/ u.pte[w] = None
    BY <2>5, Zenon DEF Shrunk
  <2> QED
    BY <2>1, <2>2, <2>4, <2>6, <2>7, Zenon DEF Shrunk
<1> QED
  BY <1>1, <1>2, Zenon

\* The loop of munmap.
LEMMA UnmapEachShrinks ==
  ASSUME NEW m \in Manager, NEW v \in Int, NEW n \in Nat,
         \A i \in 1 .. n : v + i - 1 \in Pages
  PROVE  UnmapEach(m, v, n) \in Shrunk(m)
<1> DEFINE R == Shrunk(m)
           Step(x, i) == IF \A u \in Run(v, i) : Reached(x, u)
                         THEN unmap_page(x, v + i - 1) ELSE x
           F == [x \in (1 .. n) \X R |-> Step(x[2], x[1])]
           r[i \in 0 .. n] ==
             IF i = 0 THEN m
             ELSE IF \A u \in Run(v, i) : Reached(r[i - 1], u)
             THEN unmap_page(r[i - 1], v + i - 1) ELSE r[i - 1]
<1>1. UnmapEach(m, v, n) = r[n]
  BY Zenon DEF UnmapEach
<1>2. m \in R
  BY Zenon DEF Shrunk
<1>3. \A i \in 1 .. n : \A x \in R : Step(x, i) \in R
  BY UnmapPageShrinks, Zenon
<1> HIDE DEF R
<1>4. r = [i \in 0 .. n |-> IF i = 0 THEN m ELSE Step(r[i - 1], i)]
  <2> HIDE DEF Step
  <2>1. F \in [(1 .. n) \X R -> R]
    BY <1>3, Zenon
  <2>2. PICK g \in [0 .. n -> R] : Loop(g, n, m, F)
    <3> HIDE DEF F
    <3> QED
      BY <1>2, <2>1, LoopExists, Zenon
  <2>3. \A i \in 1 .. n : <<i, g[i - 1]>> \in (1 .. n) \X R
    BY <2>2
  <2>4. \A i \in 1 .. n : F[<<i, g[i - 1]>>] = Step(g[i - 1], i)
    BY <2>3, Zenon
  <2>5. g = [i \in 0 .. n |-> IF i = 0 THEN m ELSE Step(g[i - 1], i)]
    <3> HIDE DEF F
    <3>1. \A i \in 0 .. n : i = 0 \/ i \in 1 .. n
      OBVIOUS
    <3>2. \A i \in 0 .. n : g[i] = IF i = 0 THEN m ELSE Step(g[i - 1], i)
      BY <2>2, <2>4, <3>1, Zenon DEF Loop
    <3> QED
      BY <3>2, Zenon
  <2> QED
    BY <2>5, Zenon DEF Step
<1> HIDE DEF r, Step
<1>5. r[0] \in R /\ \A i \in 1 .. n : r[i - 1] \in R => r[i] \in R
  BY <1>2, <1>3, <1>4
<1>6. r[n] \in R
  BY <1>5, LoopStays, Zenon
<1> QED
  BY <1>1, <1>6, Zenon DEF R

-----------------------------------------------------------------------------
(***************************************************************************)
(* The invariant.  A frame that is mapped for the first time has not been  *)
(* handed out before, so no space can have it: every frame in a table or   *)
(* in the TLB is below the counter.  A clone shares frames with its parent *)
(* but has no present page, because each page in use has a page table and  *)
(* cloning marks the pages of every table.                                 *)
(***************************************************************************)
Translation == [page : Pages, frame : Frames, writable : BOOLEAN]

TypeOK ==
  /\ vm \in [Spaces -> Manager \cup {None}]
  /\ next \in 0 .. NFrames
  /\ data \in [Frames -> {0, 1}]
  /\ cr3 \in Live
  /\ tlb \subseteq Translation

FramesTaken ==
  /\ \A s \in Live : Sound(vm[s], next)
  /\ \A t \in tlb : t.frame < next

Inv == TypeOK /\ FramesTaken /\ SpacesAreIsolated /\ PageCountCovers

\* Space s reaches frame f.
Reaches(s, f) ==
  \/ \E v \in Pages : Present(vm[s], v) /\ vm[s].pte[v].frame = f
  \/ s = cr3 /\ \E t \in tlb : t.frame = f

LEMMA IsolatedMeans ==
  SpacesAreIsolated <=>
    \A s, c \in Live : s # c => \A f : Reaches(s, f) /\ Reaches(c, f) => f \in reopened
<1>1. ASSUME NEW s, NEW f PROVE f \in Reachable(s) <=> Reaches(s, f)
  BY Zenon DEF Reachable, Reaches
<1> HIDE DEF Reachable, Reaches
<1> QED
  BY <1>1, Zenon DEF SpacesAreIsolated

LEMMA LiveManager ==
  ASSUME TypeOK, NEW s \in Live
  PROVE  s \in Spaces /\ vm[s] \in Manager
BY Zenon DEF TypeOK, Live

LEMMA ReachedFramesTaken ==
  ASSUME TypeOK, FramesTaken, NEW s \in Live, NEW f, Reaches(s, f)
  PROVE  f \in Nat /\ f < next
<1>1. ASSUME NEW v \in Pages, Present(vm[s], v), vm[s].pte[v].frame = f
      PROVE  f \in Nat /\ f < next
  <2>1. vm[s] \in Manager /\ Used(vm[s], v)
    BY <1>1, LiveManager, Zenon DEF Present
  <2>2. vm[s].pte[v] \in Entry
    BY <2>1, EntryType, Zenon
  <2> QED
    BY <1>1, <2>1, <2>2 DEF FramesTaken, Sound, Entry, Frames
<1>2. ASSUME NEW t \in tlb, t.frame = f PROVE f \in Nat /\ f < next
  BY <1>2 DEF TypeOK, FramesTaken, Translation, Frames
<1> QED
  BY <1>1, <1>2, Zenon DEF Reaches

\* A step keeps the spaces isolated if they reach what they reached before, but
\* for one that may also reach frames not handed out before, and for the frames
\* that protect_memory reopens.
LEMMA IsolationKept ==
  ASSUME Inv, reopened \subseteq reopened', NEW s,
         \A a \in Live' : \A f : Reaches(a, f)' =>
           \/ a \in Live /\ Reaches(a, f)
           \/ a = s /\ ~(f \in Nat /\ f < next)
           \/ f \in reopened'
  PROVE  SpacesAreIsolated'
<1>1. \A a, c \in Live : a # c => \A f : Reaches(a, f) /\ Reaches(c, f) => f \in reopened
  BY IsolatedMeans, Zenon DEF Inv
<1>2. \A a \in Live : \A f : Reaches(a, f) => f \in Nat /\ f < next
  BY ReachedFramesTaken, Zenon DEF Inv
<1> HIDE DEF Reaches
<1>3. (\A a, c \in Live : a # c => \A f : Reaches(a, f) /\ Reaches(c, f) => f \in reopened)'
  BY <1>1, <1>2, Zenon
<1>4. ASSUME NEW a, NEW f PROVE (f \in Reachable(a))' <=> Reaches(a, f)'
  BY Zenon DEF Reachable, Reaches
<1> HIDE DEF Reachable
<1> QED
  BY <1>3, <1>4, Zenon DEF SpacesAreIsolated

\* A step that replaces the manager of s by m, hands out frames, and loads the
\* TLB with what the space can reach.
LEMMA SpaceChanged ==
  ASSUME Inv, reopened \subseteq reopened',
         NEW s \in Live, NEW m \in Manager, vm' = [vm EXCEPT ![s] = m],
         next' \in 0 .. NFrames, next <= next', Sound(m, next'),
         \A v \in Pages : Present(m, v) =>
           \/ Present(vm[s], v) /\ m.pte[v].frame = vm[s].pte[v].frame
           \/ m.pte[v].frame >= next
           \/ m.pte[v].frame \in reopened',
         m.cloned = vm[s].cloned, Covered(vm[s]) => Covered(m),
         cr3' = cr3, data' \in [Frames -> {0, 1}],
         \A t \in tlb' : t \in Translation /\ Reaches(cr3, t.frame)
  PROVE  Inv'
<1>1. /\ vm \in [Spaces -> Manager \cup {None}] /\ s \in Spaces
      /\ next \in 0 .. NFrames /\ cr3 \in Live
      /\ TypeOK /\ FramesTaken
  BY Zenon DEF Inv, TypeOK, Live
<1>2. Live' = Live /\ vm' \in [Spaces -> Manager \cup {None}]
      /\ vm'[s] = m /\ \A a \in Spaces \ {s} : vm'[a] = vm[a]
  BY <1>1, Zenon DEF Live
<1>3. TypeOK'
  BY <1>1, <1>2, Zenon DEF TypeOK
<1>4. ASSUME NEW a \in Live PROVE Sound(vm'[a], next')
  <2>1. CASE a = s
    BY <1>2, <2>1, Zenon
  <2>2. CASE a # s
    BY <1>1, <1>2, <2>2, LiveManager, SoundLater, SMTT(40) DEF FramesTaken, Live
  <2> QED
    BY <2>1, <2>2, Zenon
<1>5. ASSUME NEW t \in tlb' PROVE t.frame < next'
  BY <1>1, <1>5, ReachedFramesTaken, SMTT(40)
<1>6. FramesTaken'
  BY <1>2, <1>4, <1>5, Zenon DEF FramesTaken
<1>7. ASSUME NEW a \in Live, NEW f, Reaches(a, f)'
      PROVE  Reaches(a, f) \/ (a = s /\ ~(f \in Nat /\ f < next)) \/ f \in reopened'
  <2>1. CASE (\E v \in Pages : Present(vm[a], v) /\ vm[a].pte[v].frame = f)'
    <3>1. PICK v \in Pages : Present(vm'[a], v) /\ vm'[a].pte[v].frame = f
      BY <2>1, Zenon
    <3>2. CASE a = s
      <4>1. Present(m, v) /\ m.pte[v].frame = f
        BY <1>2, <3>1, <3>2, Zenon
      <4> QED
        BY <1>1, <3>2, <4>1, SMTT(40) DEF Reaches
    <3>3. CASE a # s
      BY <1>2, <3>1, <3>3, Zenon DEF Reaches, Live
    <3> QED
      BY <3>2, <3>3, Zenon
  <2>2. CASE (a = cr3 /\ \E t \in tlb : t.frame = f)'
    BY <2>2, Zenon
  <2> QED
    BY <1>7, <2>1, <2>2, Zenon DEF Reaches
<1>8. SpacesAreIsolated'
  BY <1>2, <1>7, IsolationKept, Zenon
<1>9. PageCountCovers'
  BY <1>2, ZenonT(40) DEF Inv, PageCountCovers, Covered, UsedPages, Live
<1> QED
  BY <1>3, <1>6, <1>8, <1>9, Zenon DEF Inv

-----------------------------------------------------------------------------
(***************************************************************************)
(* The actions.                                                            *)
(***************************************************************************)
LEMMA CachedIsReached ==
  ASSUME TypeOK, NEW t \in tlb
  PROVE  t \in Translation /\ Reaches(cr3, t.frame)
BY Zenon DEF TypeOK, Reaches

\* A step that commits the result of mapping pages.
LEMMA GrownStep ==
  ASSUME Inv, reopened \subseteq reopened',
         NEW s \in Live, NEW r \in Grown(vm[s], next), Commit(s, r),
         cr3' = cr3, data' \in [Frames -> {0, 1}], tlb' \subseteq tlb
  PROVE  Inv'
<1>1. next \in 0 .. NFrames /\ TypeOK
  BY Zenon DEF Inv, TypeOK
<1>2. /\ r.m \in Manager /\ r.next \in 0 .. NFrames /\ next <= r.next
      /\ Sound(r.m, r.next)
  BY <1>1, GrownParts, Zenon
<1>3. /\ r.m.cloned = vm[s].cloned /\ (Covered(vm[s]) => Covered(r.m))
      /\ \A v \in Pages : \/ r.m.pte[v] = vm[s].pte[v]
                          \/ r.m.pte[v] # None /\ r.m.pte[v].frame >= next
  BY Zenon DEF Grown
<1>4. \A v \in Pages : Present(r.m, v) =>
           \/ Present(vm[s], v) /\ r.m.pte[v].frame = vm[s].pte[v].frame
           \/ r.m.pte[v].frame >= next
  BY <1>3, Zenon DEF Present, Used
<1>5. \A t \in tlb' : t \in Translation /\ Reaches(cr3, t.frame)
  BY <1>1, CachedIsReached, Zenon
<1>6. vm' = [vm EXCEPT ![s] = r.m] /\ next' = r.next
  BY Zenon DEF Commit
<1> QED
  BY <1>2, <1>3, <1>4, <1>5, <1>6, SpaceChanged, Zenon

LEMMA FreeRange ==
  ASSUME NEW m, NEW n \in 1 .. MaxPages, find_free_virtual_range(m, n) # None
  PROVE  /\ find_free_virtual_range(m, n) \in Int
         /\ \A i \in 1 .. n : find_free_virtual_range(m, n) + i - 1 \in Pages
<1> DEFINE fit == {b \in 0 .. UserPages - 1 : \A v \in Run(b, n) : ~ Used(m, v)}
<1>1. fit # {} /\ find_free_virtual_range(m, n) = Min(fit)
  BY Zenon DEF find_free_virtual_range
<1>2. fit \subseteq 0 .. UserPages - 1 /\ fit \subseteq Nat
  OBVIOUS
<1> HIDE DEF fit
<1>3. Min(fit) \in fit
  BY <1>1, <1>2, LeastNatural, Zenon DEF Min
<1>4. PICK b \in 0 .. UserPages - 1 : find_free_virtual_range(m, n) = b
  BY <1>1, <1>2, <1>3, Zenon
<1>5. \A i \in 1 .. n : b + i - 1 \in Pages
  BY DEF Pages
<1> QED
  BY <1>4, <1>5

LEMMA RunPages ==
  ASSUME NEW v \in Int, NEW n \in Nat, Run(v, n) \subseteq Pages
  PROVE  \A i \in 1 .. n : v + i - 1 \in Pages
<1>1. \A i \in 1 .. n : i - 1 \in 0 .. n - 1 /\ v + i - 1 = v + (i - 1)
  OBVIOUS
<1> QED
  BY <1>1, Zenon DEF Run

LEMMA MappingInv ==
  ASSUME Inv, reopened \subseteq reopened',
         NEW s \in Live, NEW n \in 1 .. MaxPages, NEW prot \in Prots,
         \/ mmap_anywhere(s, n, prot)
         \/ allocate_user_pages(s, n, prot)
         \/ \E v \in Pages : mmap_at(s, v, n, prot)
  PROVE  Inv'
<1>1. /\ vm[s] \in Manager /\ next \in 0 .. NFrames /\ Sound(vm[s], next)
      /\ data \in [Frames -> {0, 1}] /\ prot \in Flags /\ n \in Nat
  BY LiveManager DEF Inv, TypeOK, FramesTaken
<1>2. CASE mmap_anywhere(s, n, prot)
  <2> DEFINE v == find_free_virtual_range(vm[s], n)
  <2>1. v # None /\ Commit(s, MapEach(vm[s], next, v, n, prot))
        /\ UNCHANGED <<data, cr3, tlb>>
    BY <1>2, Zenon DEF mmap_anywhere
  <2>2. v \in Int /\ \A i \in 1 .. n : v + i - 1 \in Pages
    BY <2>1, FreeRange, Zenon
  <2> HIDE DEF v
  <2>3. MapEach(vm[s], next, v, n, prot) \in Grown(vm[s], next)
    BY <1>1, <2>2, MapEachGrows, Zenon
  <2> QED
    BY <1>1, <2>1, <2>3, GrownStep, Zenon
<1>3. CASE allocate_user_pages(s, n, prot)
  <2> DEFINE v == find_free_virtual_range(vm[s], n)
  <2>1. next + n <= NFrames /\ Commit(s, MapFrames(vm[s], next, v, n, prot))
        /\ UNCHANGED <<data, cr3, tlb>>
    BY <1>3, Zenon DEF allocate_user_pages
  <2>2. v # None => v \in Int /\ \A i \in 1 .. n : v + i - 1 \in Pages
    BY <2>1, FreeRange, Zenon
  <2> HIDE DEF v
  <2>3. MapFrames(vm[s], next, v, n, prot) \in Grown(vm[s], next)
    BY <1>1, <2>1, <2>2, MapFramesGrows, Zenon
  <2> QED
    BY <1>1, <2>1, <2>3, GrownStep, Zenon
<1>4. ASSUME NEW v \in Pages, mmap_at(s, v, n, prot) PROVE Inv'
  <2>1. v + n < UserPages /\ Commit(s, MapEach(vm[s], next, v, n, prot))
        /\ UNCHANGED <<data, cr3, tlb>>
    BY <1>4, Zenon DEF mmap_at
  <2>2. v \in Int /\ \A i \in 1 .. n : v + i - 1 \in Pages
    BY <2>1, SMTT(40) DEF Pages
  <2>3. MapEach(vm[s], next, v, n, prot) \in Grown(vm[s], next)
    BY <1>1, <2>2, MapEachGrows, Zenon
  <2> QED
    BY <1>1, <2>1, <2>3, GrownStep, Zenon
<1> QED
  BY <1>2, <1>3, <1>4, Zenon

LEMMA FaultInv ==
  ASSUME Inv, reopened \subseteq reopened',
         NEW v \in Pages, DemandFault(v) \/ handle_cow_fault(v)
  PROVE  Inv'
<1>1. /\ cr3 \in Live /\ vm[cr3] \in Manager /\ next \in 0 .. NFrames
      /\ Sound(vm[cr3], next) /\ data \in [Frames -> {0, 1}]
  BY LiveManager, Zenon DEF Inv, TypeOK, FramesTaken
<1> DEFINE start == [m |-> vm[cr3], next |-> next, ok |-> TRUE]
<1>2. start \in Grown(vm[cr3], next) /\ start.m = vm[cr3] /\ start.next = next
  <2>1. next <= next /\ TRUE \in BOOLEAN
    BY <1>1
  <2> QED
    BY <1>1, <2>1, StartGrown, Zenon
<1>3. tlb' \subseteq tlb /\ cr3' = cr3
  BY Zenon DEF DemandFault, handle_cow_fault, Uncache
<1>4. CASE DemandFault(v)
  <2>1. Commit(cr3, MapFresh(start, v, {"P", "W"})) /\ data' = data
    BY <1>4, Zenon DEF DemandFault
  <2>2. {"P", "W"} \in Flags
    BY Zenon DEF Flags
  <2> HIDE DEF start
  <2>3. MapFresh(start, v, {"P", "W"}) \in Grown(vm[cr3], next)
    BY <1>1, <1>2, <2>2, MapFreshGrows, Zenon
  <2> QED
    BY <1>1, <1>3, <2>1, <2>3, GrownStep, Zenon
<1>5. CASE handle_cow_fault(v)
  <2> DEFINE flags == {"P", "W", "U"}
             r == map_page(vm[cr3], next + 1, v, next, flags)
  <2>1. /\ Commit(cr3, r) /\ next < NFrames /\ Used(vm[cr3], v)
        /\ data' = [data EXCEPT ![next] = data[vm[cr3].pte[v].frame]]
    BY <1>5, Zenon DEF handle_cow_fault, is_cow_page
  <2>2. flags \in Flags
    BY Zenon DEF Flags
  <2>3. /\ next + 1 \in 0 .. NFrames /\ next \in Frames /\ next <= next + 1
        /\ next <= next /\ next < next + 1
    BY <1>1, <2>1, SMTT(40) DEF Frames
  <2> HIDE DEF start, flags
  <2>4. r \in Grown(vm[cr3], next)
    BY <1>1, <1>2, <2>2, <2>3, MapPageGrows, Zenon
  <2>5. vm[cr3].pte[v].frame \in Frames
    BY <1>1, <2>1, EntryType, Zenon DEF Entry
  <2>6. data' \in [Frames -> {0, 1}]
    BY <1>1, <2>1, <2>3, <2>5, Zenon
  <2> HIDE DEF r
  <2> QED
    BY <1>1, <1>3, <2>1, <2>4, <2>6, GrownStep, Zenon
<1> QED
  BY <1>4, <1>5, Zenon

LEMMA UnmappingInv ==
  ASSUME Inv, reopened \subseteq reopened',
         NEW s \in Live, NEW n \in 1 .. MaxPages, NEW v \in Pages, munmap(s, v, n)
  PROVE  Inv'
<1>1. /\ vm[s] \in Manager /\ next \in 0 .. NFrames /\ Sound(vm[s], next) /\ TypeOK
      /\ data \in [Frames -> {0, 1}] /\ n \in Nat /\ v \in Int
  BY LiveManager DEF Inv, TypeOK, FramesTaken, Pages
<1> DEFINE m == UnmapEach(vm[s], v, n)
<1>2. vm' = [vm EXCEPT ![s] = m] /\ UNCHANGED <<next, data, cr3, tlb>>
      /\ Run(v, n) \subseteq Pages
  BY Zenon DEF munmap
<1>3. m \in Shrunk(vm[s])
  BY <1>1, <1>2, RunPages, UnmapEachShrinks, Zenon
<1> HIDE DEF m
<1>4. /\ m \in Manager /\ m.tables = vm[s].tables /\ m.cloned = vm[s].cloned
      /\ Covered(vm[s]) => Covered(m)
      /\ \A w \in Pages : m.pte[w] = vm[s].pte[w] \/ m.pte[w] = None
  BY <1>3, Zenon DEF Shrunk
<1>5. Sound(m, next) /\ \A w \in Pages : Present(m, w) =>
           Present(vm[s], w) /\ m.pte[w].frame = vm[s].pte[w].frame
  BY <1>1, <1>4, Zenon DEF Sound, Used, Present
<1>6. next <= next /\ \A t \in tlb' : t \in Translation /\ Reaches(cr3, t.frame)
  BY <1>1, <1>2, CachedIsReached, SMTT(40)
<1> QED
  BY <1>1, <1>2, <1>4, <1>5, <1>6, SpaceChanged, ZenonT(40)

\* A step that rewrites entries but keeps which pages are used, where they are
\* and how much is counted, and makes no page present but those whose frames
\* are recorded as reopened.
LEMMA EntriesRewritten ==
  ASSUME Inv, reopened \subseteq reopened',
         NEW s \in Live, NEW m \in Manager, vm' = [vm EXCEPT ![s] = m],
         m.tables = vm[s].tables, m.page_count = vm[s].page_count,
         m.cloned = vm[s].cloned,
         \A v \in Pages : /\ Used(m, v) <=> Used(vm[s], v)
                          /\ Used(m, v) => m.pte[v].frame = vm[s].pte[v].frame
                          /\ Present(m, v) => \/ Present(vm[s], v)
                                            \/ m.pte[v].frame \in reopened',
         cr3' = cr3, next' = next, data' = data,
         \A t \in tlb' : t \in Translation /\ Reaches(cr3, t.frame)
  PROVE  Inv'
<1>1. /\ next \in 0 .. NFrames /\ next <= next /\ data \in [Frames -> {0, 1}]
      /\ Sound(vm[s], next)
  BY SMTT(40) DEF Inv, TypeOK, FramesTaken
<1>2. Sound(m, next)
  BY <1>1, Zenon DEF Sound
<1>3. UsedPages(m) = UsedPages(vm[s])
  BY Zenon DEF UsedPages
<1>4. Covered(vm[s]) => Covered(m)
  BY <1>3, Zenon DEF Covered
<1>5. \A v \in Pages : Present(m, v) =>
           \/ Present(vm[s], v) /\ m.pte[v].frame = vm[s].pte[v].frame
           \/ m.pte[v].frame \in reopened'
  BY Zenon DEF Present
<1> QED
  BY <1>1, <1>2, <1>4, <1>5, SpaceChanged, ZenonT(40)

LEMMA ProtectInv ==
  ASSUME Inv, NEW s \in Live, NEW n \in 1 .. MaxPages, NEW v \in Pages,
         NEW prot \in Prots, protect_memory(s, v, n, prot)
  PROVE  Inv'
<1>1. vm[s] \in Manager /\ s \in Spaces /\ TypeOK /\ prot \in Flags
      /\ vm \in [Spaces -> Manager \cup {None}]
  BY LiveManager, Zenon DEF Inv, TypeOK
<1> DEFINE new_pte == [w \in Pages |-> IF w \in Run(v, n) /\ Used(vm[s], w)
                                       THEN [vm[s].pte[w] EXCEPT !.flags = prot]
                                       ELSE vm[s].pte[w]]
           m == [vm[s] EXCEPT !.pte = new_pte]
<1>2. /\ vm' = [vm EXCEPT ![s] = m] /\ UNCHANGED <<next, data, cr3, tlb>>
      /\ reopened \subseteq reopened'
  BY <1>1, Zenon DEF protect_memory
<1>3. ASSUME NEW w \in Pages, Used(vm[s], w)
      PROVE  /\ [vm[s].pte[w] EXCEPT !.flags = prot] \in Entry
             /\ [vm[s].pte[w] EXCEPT !.flags = prot].frame = vm[s].pte[w].frame
             /\ [vm[s].pte[w] EXCEPT !.flags = prot].flags = prot
             /\ [vm[s].pte[w] EXCEPT !.flags = prot] # None
  <2>1. vm[s].pte[w] \in Entry
    BY <1>1, <1>3, EntryType, Zenon
  <2>2. [vm[s].pte[w] EXCEPT !.flags = prot] \in Entry
    BY <1>1, <2>1, Zenon DEF Entry
  <2> QED
    BY <2>1, <2>2, Zenon DEF Entry
<1>4. new_pte \in [Pages -> Entry \cup {None}]
  BY <1>1, <1>3, EntryType, Zenon
<1>5. \A w \in Pages : \/ /\ w \in Run(v, n) /\ Used(vm[s], w)
                          /\ new_pte[w].frame = vm[s].pte[w].frame
                          /\ new_pte[w] # None /\ new_pte[w].flags = prot
                       \/ new_pte[w] = vm[s].pte[w]
  BY <1>3, Zenon
<1> HIDE DEF new_pte
<1>6. /\ m \in Manager /\ m.tables = vm[s].tables /\ m.cloned = vm[s].cloned
      /\ m.page_count = vm[s].page_count /\ m.pte = new_pte
  BY <1>1, <1>4, Zenon DEF Manager
<1> HIDE DEF m
<1>7. \A w \in Pages : /\ Used(m, w) <=> Used(vm[s], w)
                       /\ Used(m, w) => m.pte[w].frame = vm[s].pte[w].frame
                       /\ Present(m, w) => Present(vm[s], w) \/ m.pte[w].frame \in reopened'
  <2> SUFFICES ASSUME NEW w \in Pages
               PROVE  /\ Used(m, w) <=> Used(vm[s], w)
                      /\ Used(m, w) => m.pte[w].frame = vm[s].pte[w].frame
                      /\ Present(m, w) => Present(vm[s], w) \/ m.pte[w].frame \in reopened'
    BY Zenon
  <2>1. CASE new_pte[w] = vm[s].pte[w]
    BY <1>6, <2>1, Zenon DEF Used, Present
  <2>2. CASE /\ w \in Run(v, n) /\ Used(vm[s], w)
             /\ new_pte[w].frame = vm[s].pte[w].frame /\ new_pte[w] # None
             /\ new_pte[w].flags = prot
    <3>1. ~ Present(vm[s], w) /\ "P" \in prot => vm[s].pte[w].frame \in reopened'
      BY <2>2, Zenon DEF protect_memory
    <3> QED
      BY <1>6, <2>2, <3>1, Zenon DEF Used, Present
  <2> QED
    BY <1>5, <2>1, <2>2, Zenon
<1>8. \A t \in tlb' : t \in Translation /\ Reaches(cr3, t.frame)
  BY <1>1, <1>2, CachedIsReached, Zenon
<1> QED
  BY <1>2, <1>6, <1>7, <1>8, EntriesRewritten, Zenon

LEMMA SetCowInv ==
  ASSUME Inv, reopened \subseteq reopened',
         NEW s \in Spaces, NEW on \in BOOLEAN, set_cow(s, on)
  PROVE  Inv'
<1>1. s \in Live /\ vm[s] \in Manager /\ TypeOK
      /\ vm \in [Spaces -> Manager \cup {None}]
  BY LiveManager, Zenon DEF Inv, TypeOK, set_cow
<1> DEFINE m == [vm[s] EXCEPT !.cow_enabled = on]
<1>2. vm' = [vm EXCEPT ![s] = m] /\ UNCHANGED <<next, data, cr3, tlb>>
  BY <1>1, Zenon DEF set_cow
<1>3. /\ m \in Manager /\ m.tables = vm[s].tables /\ m.cloned = vm[s].cloned
      /\ m.page_count = vm[s].page_count /\ m.pte = vm[s].pte
  BY <1>1, Zenon DEF Manager
<1> HIDE DEF m
<1>4. \A w \in Pages : /\ Used(m, w) <=> Used(vm[s], w)
                       /\ Used(m, w) => m.pte[w].frame = vm[s].pte[w].frame
                       /\ Present(m, w) => Present(vm[s], w)
  BY <1>3, Zenon DEF Used, Present
<1>5. \A t \in tlb' : t \in Translation /\ Reaches(cr3, t.frame)
  BY <1>1, <1>2, CachedIsReached, Zenon
<1> QED
  BY <1>1, <1>2, <1>3, <1>4, <1>5, EntriesRewritten, Zenon

\* The hardware walk: the accessed bit, and the TLB.
LEMMA WalkInv ==
  ASSUME Inv, reopened \subseteq reopened',
         NEW v \in Pages, Walk(v)
  PROVE  Inv'
<1>1. /\ cr3 \in Live /\ cr3 \in Spaces /\ vm[cr3] \in Manager /\ TypeOK
      /\ vm \in [Spaces -> Manager \cup {None}]
  BY LiveManager, Zenon DEF Inv, TypeOK
<1> DEFINE e == vm[cr3].pte[v]
           new_e == [e EXCEPT !.flags = @ \cup {"A"}]
           new_pte == [vm[cr3].pte EXCEPT ![v] = new_e]
           m == [vm[cr3] EXCEPT !.pte = new_pte]
           t0 == [page |-> v, frame |-> e.frame, writable |-> "W" \in e.flags]
<1>2. /\ tlb' = tlb \cup {t0} /\ Present(vm[cr3], v) /\ Used(vm[cr3], v)
      /\ UNCHANGED <<next, data, cr3>>
  BY Zenon DEF Walk, Present
<1>3. vm' = [vm EXCEPT ![cr3] = m]
  BY <1>1, Zenon DEF Walk
<1>4. e \in Entry
  BY <1>1, <1>2, EntryType, Zenon
<1>5. new_e \in Entry /\ new_e.frame = e.frame /\ new_e # None
  BY <1>4, SMTT(40) DEF Entry, Flags
<1>6. t0 \in Translation /\ t0.frame = e.frame
  BY <1>4, SMTT(40) DEF Entry, Translation
<1>7. Reaches(cr3, e.frame)
  BY <1>2, ZenonT(40) DEF Reaches
<1>8. \A t \in tlb' : t \in Translation /\ Reaches(cr3, t.frame)
  <2> HIDE DEF t0
  <2>1. \A t \in tlb : t \in Translation /\ Reaches(cr3, t.frame)
    BY <1>1, CachedIsReached, ZenonT(40)
  <2> QED
    BY <1>2, <1>6, <1>7, <2>1, Zenon
<1>9. vm[cr3].pte \in [Pages -> Entry \cup {None}]
  BY <1>1, EntryType, Zenon
<1> HIDE DEF new_e
<1>10. /\ new_pte \in [Pages -> Entry \cup {None}]
       /\ \A w \in Pages : new_pte[w] = IF w = v THEN new_e ELSE vm[cr3].pte[w]
  BY <1>5, <1>9, Zenon
<1> HIDE DEF new_pte
<1>11. /\ m \in Manager /\ m.tables = vm[cr3].tables /\ m.cloned = vm[cr3].cloned
       /\ m.page_count = vm[cr3].page_count /\ m.pte = new_pte
  BY <1>1, <1>10, Zenon DEF Manager
<1> HIDE DEF m
<1>12. \A w \in Pages : /\ Used(m, w) <=> Used(vm[cr3], w)
                        /\ Used(m, w) => m.pte[w].frame = vm[cr3].pte[w].frame
                        /\ Present(m, w) => Present(vm[cr3], w)
  BY <1>2, <1>5, <1>10, <1>11, ZenonT(40) DEF Used, Present
<1> QED
  BY <1>1, <1>2, <1>3, <1>8, <1>11, <1>12, EntriesRewritten, ZenonT(40)

\* Steps that touch no table.
LEMMA OtherHardwareInv ==
  ASSUME Inv, reopened \subseteq reopened',
         NEW v \in Pages, Store(v) \/ AccessDenied(v)
  PROVE  Inv'
<1>1. vm' = vm /\ next' = next /\ cr3' = cr3 /\ tlb' \subseteq tlb
  BY Zenon DEF Store, AccessDenied, Uncache
<1>2. data' \in [Frames -> {0, 1}]
  BY Zenon DEF Store, AccessDenied, Inv, TypeOK, Cached, Translation
<1>3. TypeOK' /\ FramesTaken'
  BY <1>1, <1>2, Zenon DEF Inv, TypeOK, FramesTaken, Live
<1>4. \A a \in Live' : \A f : Reaches(a, f)' => a \in Live /\ Reaches(a, f)
  BY <1>1, Zenon DEF Reaches, Live
<1>5. SpacesAreIsolated'
  BY <1>4, IsolationKept, Zenon
<1>6. PageCountCovers'
  BY <1>1, Zenon DEF Inv, PageCountCovers, Live
<1> QED
  BY <1>3, <1>5, <1>6, Zenon DEF Inv

LEMMA SwitchInv ==
  ASSUME Inv, reopened \subseteq reopened',
         NEW s \in Spaces, switch_to(s)
  PROVE  Inv'
<1>1. vm' = vm /\ next' = next /\ data' = data /\ cr3' = s /\ tlb' = {} /\ s \in Live
  BY Zenon DEF switch_to
<1>2. TypeOK' /\ FramesTaken'
  BY <1>1, Zenon DEF Inv, TypeOK, FramesTaken, Live
<1>3. \A a \in Live' : \A f : Reaches(a, f)' => a \in Live /\ Reaches(a, f)
  BY <1>1, Zenon DEF Reaches, Live
<1>4. SpacesAreIsolated'
  BY <1>3, IsolationKept, Zenon
<1>5. PageCountCovers'
  BY <1>1, Zenon DEF Inv, PageCountCovers, Live
<1> QED
  BY <1>2, <1>4, <1>5, Zenon DEF Inv

\* Marking keeps the pages and their frames and clears present bits.
LEMMA MarkEffect ==
  ASSUME NEW m \in Manager, NEW vs
  PROVE  LET q == mark_page_cow(m, vs)
         IN /\ q \in Manager /\ q.tables = m.tables /\ q.page_count = m.page_count
            /\ q.cloned = m.cloned
            /\ \A w \in Pages : /\ Used(q, w) <=> Used(m, w)
                                /\ Used(q, w) => q.pte[w].frame = m.pte[w].frame
                                /\ Present(q, w) => Present(m, w) /\ w \notin vs
<1> DEFINE new_pte == [w \in Pages |-> IF w \in vs /\ Used(m, w) THEN Marked(m.pte[w])
                                       ELSE m.pte[w]]
           q == mark_page_cow(m, vs)
<1>1. q = [m EXCEPT !.pte = new_pte]
  BY Zenon DEF mark_page_cow
<1>2. ASSUME NEW e \in Entry
      PROVE  /\ Marked(e) \in Entry /\ Marked(e).frame = e.frame /\ Marked(e) # None
             /\ "P" \notin Marked(e).flags
  <2>1. (e.flags \ {"P"}) \cup {"A"} \in Flags /\ "P" \notin (e.flags \ {"P"}) \cup {"A"}
    BY Zenon DEF Entry, Flags
  <2>2. /\ Marked(e) \in Entry /\ Marked(e).frame = e.frame
        /\ Marked(e).flags = (e.flags \ {"P"}) \cup {"A"}
    BY <2>1, Zenon DEF Entry, Marked
  <2> QED
    BY <2>1, <2>2, Zenon
<1>3. \A w \in Pages : Used(m, w) => m.pte[w] \in Entry
  BY EntryType, Zenon
<1>4. new_pte \in [Pages -> Entry \cup {None}]
  BY <1>2, <1>3, EntryType, Zenon
<1>5. \A w \in Pages : new_pte[w] = IF w \in vs /\ Used(m, w) THEN Marked(m.pte[w])
                                    ELSE m.pte[w]
  BY Zenon
<1> HIDE DEF new_pte, q
<1>6. /\ q \in Manager /\ q.tables = m.tables /\ q.page_count = m.page_count
      /\ q.cloned = m.cloned /\ q.pte = new_pte
  BY <1>1, <1>4, Zenon DEF Manager
<1>7. ASSUME NEW w \in Pages
      PROVE  /\ Used(q, w) <=> Used(m, w)
             /\ Used(q, w) => q.pte[w].frame = m.pte[w].frame
             /\ Present(q, w) => Present(m, w) /\ w \notin vs
  <2>1. CASE w \in vs /\ Used(m, w)
    BY <1>2, <1>3, <1>5, <1>6, <2>1, SMTT(40) DEF Used, Present
  <2>2. CASE ~(w \in vs /\ Used(m, w))
    BY <1>5, <1>6, <2>2, Zenon DEF Used, Present
  <2> QED
    BY <2>1, <2>2, Zenon
<1> QED
  BY <1>6, <1>7, Zenon DEF q

LEMMA CloneInv ==
  ASSUME Inv, reopened \subseteq reopened',
         NEW s \in Spaces, NEW c \in Spaces, clone_address_space(s, c)
  PROVE  Inv'
<1> DEFINE m == vm[s]
           free == NFrames - next
           position(t) == 2 + Cardinality({u \in m.tables : u < t})
           vs == {v \in Pages : /\ PtIndex(v) \in m.tables
                                /\ position(PtIndex(v)) <= free}
           marked == mark_page_cow(m, vs)
           ok == 1 + Cardinality(m.tables) <= free
           clone == [marked EXCEPT !.page_count = 0, !.cloned = TRUE]
<1>1. /\ s \in Live /\ c \notin Live /\ next < NFrames
      /\ vm' = [vm EXCEPT ![s] = marked, ![c] = IF ok THEN clone ELSE None]
      /\ next' = next + Min({free, 1 + Cardinality(m.tables)})
      /\ UNCHANGED <<data, cr3, tlb>>
  BY Zenon DEF clone_address_space
<1>2. /\ m \in Manager /\ next \in 0 .. NFrames /\ TypeOK /\ FramesTaken
      /\ Sound(m, next) /\ cr3 \in Live /\ vm \in [Spaces -> Manager \cup {None}]
  BY <1>1, LiveManager, Zenon DEF Inv, TypeOK, FramesTaken
<1>3. s # c /\ cr3 # c /\ vm[c] = None
  BY <1>1, <1>2, Zenon DEF Live
<1>4. /\ marked \in Manager /\ marked.tables = m.tables /\ marked.page_count = m.page_count
      /\ marked.cloned = m.cloned
      /\ \A w \in Pages : /\ Used(marked, w) <=> Used(m, w)
                          /\ Used(marked, w) => marked.pte[w].frame = m.pte[w].frame
                          /\ Present(marked, w) => Present(m, w) /\ w \notin vs
  BY <1>2, MarkEffect, ZenonT(40)
<1>5. IsFiniteSet(m.tables) /\ Cardinality(m.tables) \in Nat /\ m.tables \subseteq Int
  <2>1. m.tables \subseteq AllTables
    BY <1>2, Zenon DEF Manager, AllTables
  <2> QED
    BY <2>1, TableSetsFinite, SMTT(40) DEF AllTables
<1>6. next' \in 0 .. NFrames /\ next <= next'
  <2> DEFINE k == 1 + Cardinality(m.tables)
  <2>1. k \in Nat /\ free \in Nat
    BY <1>2, <1>5
  <2>2. Min({free, k}) \in {free, k} /\ Min({free, k}) <= free
    <3>1. k \in Int /\ free \in Int
      BY <2>1
    <3> HIDE DEF k, free
    <3> QED
      BY <3>1, MinOfTwo, Zenon
  <2> HIDE DEF k
  <2>3. next + Min({free, k}) \in 0 .. NFrames /\ next <= next + Min({free, k})
    BY <1>2, <2>1, <2>2, SMTT(40)
  <2> QED
    BY <1>1, <2>3, Zenon DEF k
\* With enough frames every page in use is marked.
<1>7. ASSUME ok, NEW w \in Pages PROVE ~ Present(marked, w)
  <2> SUFFICES ASSUME Present(marked, w) PROVE FALSE
    BY Zenon
  <2>1. Used(m, w) /\ PtIndex(w) \in m.tables
    BY <1>2, <1>4, ZenonT(40) DEF Present, Sound
  <2>2. /\ Cardinality(Before(m.tables, PtIndex(w))) \in Nat
        /\ Cardinality(Before(m.tables, PtIndex(w))) < Cardinality(m.tables)
    BY <1>5, <2>1, BeforeIsLess, ZenonT(40)
  <2>3. position(PtIndex(w)) = 2 + Cardinality(Before(m.tables, PtIndex(w)))
    BY Zenon DEF Before
  <2>4. position(PtIndex(w)) <= free
    <3>1. free \in Int
      BY <1>2
    <3>2. 1 + Cardinality(m.tables) <= free
      BY <1>7, Zenon
    <3> HIDE DEF position, m, free
    <3>3. \A x, y \in Nat, z \in Int : x < y /\ 1 + y <= z => 2 + x <= z
      OBVIOUS
    <3> QED
      BY <1>5, <2>2, <2>3, <3>1, <3>2, <3>3, ZenonT(40)
  <2>5. w \in vs
    BY <2>1, <2>4, Zenon
  <2> QED
    BY <1>4, <2>5, Zenon
<1> HIDE DEF m, vs, marked
<1>8. clone \in Manager /\ clone.pte = marked.pte /\ clone.tables = marked.tables
      /\ clone.cloned
  <2> DEFINE zero == [marked EXCEPT !.page_count = 0]
  <2>1. zero \in Manager /\ zero.pte = marked.pte /\ zero.tables = marked.tables
    BY <1>4 DEF Manager
  <2>2. clone = [zero EXCEPT !.cloned = TRUE]
    BY <1>4, Zenon DEF Manager
  <2> HIDE DEF zero, clone
  <2> QED
    BY <2>1, <2>2, ZenonT(40) DEF Manager
<1> HIDE DEF ok, clone
<1>9. /\ vm' \in [Spaces -> Manager \cup {None}] /\ vm'[s] = marked
      /\ vm'[c] = IF ok THEN clone ELSE None
      /\ \A a \in Spaces \ {s, c} : vm'[a] = vm[a]
  BY <1>1, <1>2, <1>3, <1>4, <1>8, Zenon
<1>10. \A a \in Live' : a \in Live \/ (a = c /\ ok)
  BY <1>1, <1>3, <1>4, <1>9, Zenon DEF Live
<1>11. Live \subseteq Live'
  BY <1>1, <1>2, <1>3, <1>4, <1>9, Zenon DEF Live
<1>12. TypeOK'
  BY <1>1, <1>2, <1>6, <1>9, <1>11, Zenon DEF TypeOK
<1>13. Sound(m, next')
  BY <1>2, <1>6, SoundLater, SMTT(40)
<1>14. Sound(marked, next')
  BY <1>4, <1>13, Zenon DEF Sound
<1>15. ok => Sound(clone, next')
  BY <1>8, <1>14, Zenon DEF Sound, Used
<1>16. FramesTaken'
  <2>1. ASSUME NEW a \in Live' PROVE Sound(vm'[a], next')
    <3>1. CASE a = s
      BY <1>9, <1>14, <3>1, Zenon
    <3>2. CASE a = c
      BY <1>1, <1>9, <1>10, <1>15, <3>2, Zenon
    <3>3. CASE a # s /\ a # c
      BY <1>2, <1>6, <1>9, <1>10, <3>3, LiveManager, SoundLater, SMTT(40) DEF FramesTaken
    <3> QED
      BY <3>1, <3>2, <3>3, Zenon
  <2>2. ASSUME NEW t \in tlb' PROVE t.frame < next'
    BY <1>1, <1>2, <1>6, ReachedFramesTaken, CachedIsReached, SMTT(40)
  <2> QED
    BY <2>1, <2>2, Zenon DEF FramesTaken
<1>17. ASSUME NEW a \in Live', NEW f, Reaches(a, f)'
       PROVE  a \in Live /\ Reaches(a, f)
  <2>1. CASE a = s
    BY <1>1, <1>4, <1>9, <1>17, <2>1, ZenonT(40) DEF Reaches, Present, m
  <2>2. CASE a = c
    <3>1. ok /\ \A w \in Pages : ~ Present(clone, w)
      BY <1>1, <1>7, <1>8, <1>10, <2>2, Zenon DEF Present, Used
    <3> QED
      BY <1>1, <1>3, <1>9, <1>17, <2>2, <3>1, ZenonT(40) DEF Reaches
  <2>3. CASE a # s /\ a # c
    BY <1>1, <1>9, <1>10, <1>17, <2>3, ZenonT(40) DEF Reaches, Live
  <2> QED
    BY <2>1, <2>2, <2>3, Zenon
<1>18. SpacesAreIsolated'
  BY <1>17, IsolationKept, Zenon
<1>19. PageCountCovers'
  <2> SUFFICES ASSUME NEW a \in Live', ~ vm'[a].cloned PROVE Covered(vm'[a])
    BY Zenon DEF PageCountCovers, Covered, UsedPages
  <2>1. \A b \in Live : ~ vm[b].cloned => Covered(vm[b])
    BY Zenon DEF Inv, PageCountCovers, Covered, UsedPages
  <2>2. CASE a = s
    <3>1. UsedPages(marked) = UsedPages(m) /\ Covered(m)
      BY <1>1, <1>4, <1>9, <2>1, <2>2, Zenon DEF UsedPages, m
    <3> QED
      BY <1>4, <1>9, <2>2, <3>1, Zenon DEF Covered
  <2>3. CASE a = c
    BY <1>1, <1>8, <1>9, <1>10, <2>3, Zenon
  <2>4. CASE a # s /\ a # c
    BY <1>9, <1>10, <2>1, <2>4, Zenon DEF Live
  <2> QED
    BY <2>2, <2>3, <2>4, Zenon
<1> QED
  BY <1>12, <1>16, <1>18, <1>19, Zenon DEF Inv

LEMMA InitInv == Init => Inv
<1> SUFFICES ASSUME Init PROVE Inv
  BY Zenon
<1>1. new \in Manager /\ new.tables = {} /\ new.page_count = 0 /\ new.cloned = FALSE
      /\ \A v \in Pages : ~ Used(new, v) /\ ~ Present(new, v)
  BY SMTT(40) DEF new, Manager, Used, Present
<1>2. Live = {First} /\ vm[First] = new /\ vm \in [Spaces -> Manager \cup {None}]
  BY <1>1, Zenon DEF Init, Live
<1>3. TypeOK
  BY <1>2, SMTT(40) DEF TypeOK, Init
<1>4. FramesTaken
  BY <1>1, <1>2, Zenon DEF FramesTaken, Sound, Init
<1>5. SpacesAreIsolated
  BY <1>2, Zenon DEF SpacesAreIsolated
<1>6. PageCountCovers
  <2>1. {v \in Pages : Used(new, v)} = {}
    BY <1>1, Zenon
  <2>2. Cardinality(new.tables) = 0 /\ Cardinality({v \in Pages : Used(new, v)}) = 0
    BY <1>1, <2>1, FS_EmptySet, Zenon
  <2>3. new.page_count >= Cardinality(new.tables) + Cardinality({v \in Pages : Used(new, v)})
    BY <1>1, <2>2
  <2> QED
    BY <1>2, <2>3, Zenon DEF PageCountCovers
<1> QED
  BY <1>3, <1>4, <1>5, <1>6, Zenon DEF Inv

LEMMA NextInv == Inv /\ [Next]_vars => Inv'
<1> SUFFICES ASSUME Inv, [Next]_vars PROVE Inv'
  BY Zenon
<1>1. CASE UNCHANGED vars
  <2>1. /\ vm' = vm /\ next' = next /\ data' = data /\ cr3' = cr3 /\ tlb' = tlb
        /\ Live' = Live /\ reopened' = reopened
    BY <1>1, Zenon DEF vars, Live
  <2>2. TypeOK' /\ FramesTaken' /\ PageCountCovers'
    BY <2>1, Zenon DEF Inv, TypeOK, FramesTaken, PageCountCovers
  <2>3. SpacesAreIsolated'
    BY <2>1, IsolationKept, Zenon DEF Reaches
  <2> QED
    BY <2>2, <2>3, Zenon DEF Inv
<1>2. CASE Kernel /\ UNCHANGED reopened
  BY <1>2, MappingInv, UnmappingInv, CloneInv, SwitchInv, SetCowInv, Zenon DEF Kernel, Call
<1>3. CASE Protect
  BY <1>3, ProtectInv, Zenon DEF Protect
<1>4. ASSUME NEW v \in 0 .. UserPages - 1, Hardware(v), UNCHANGED reopened PROVE Inv'
  <2>1. v \in Pages
    BY SMTT(40) DEF Pages
  <2> QED
    BY <1>4, <2>1, WalkInv, OtherHardwareInv, FaultInv, Zenon DEF Hardware
<1> QED
  BY <1>1, <1>2, <1>3, <1>4, Zenon DEF Next

-----------------------------------------------------------------------------
(***************************************************************************)
(* Page faults and the contents of pages.                                  *)
(***************************************************************************)
\* A fault that maps page v of the current space, or fails to, leaves every
\* other page where it was.
LEMMA FaultMapsOnePage ==
  ASSUME Inv, NEW v \in Pages, next < NFrames, NEW flags \in Flags,
         Commit(cr3, map_page(vm[cr3], next + 1, v, next, flags)),
         NEW s \in Live, NEW w \in Pages
  PROVE  \/ vm'[s].pte[w] = vm[s].pte[w]
         \/ s = cr3 /\ w = v /\ vm'[s].pte[w] = [frame |-> next, flags |-> flags]
<1> DEFINE r == map_page(vm[cr3], next + 1, v, next, flags)
           e == [frame |-> next, flags |-> flags]
<1>1. /\ cr3 \in Live /\ vm[cr3] \in Manager /\ next \in 0 .. NFrames /\ s \in Spaces
      /\ Sound(vm[cr3], next) /\ vm \in [Spaces -> Manager \cup {None}]
  BY LiveManager, Zenon DEF Inv, TypeOK, FramesTaken
<1>2. next + 1 \in 0 .. NFrames /\ next \in Frames /\ next <= next + 1 /\ next < next + 1
      /\ next \in Int /\ next + 1 \in Int
  BY <1>1 DEF Frames
<1>3. Sound(vm[cr3], next + 1)
  BY <1>1, <1>2, SoundLater, Zenon
<1>4. r.m.pte = IF r.ok THEN [vm[cr3].pte EXCEPT ![v] = e] ELSE vm[cr3].pte
  <2>1. PICK x \in 0 .. NFrames : x = next + 1
    BY <1>2, Zenon
  <2>2. PICK f \in Frames : f = next
    BY <1>2, Zenon
  <2>3. PICK m \in Manager : m = vm[cr3]
    BY <1>1, Zenon
  <2>4. f < x /\ Sound(m, x)
    BY <1>2, <1>3, <2>1, <2>2, <2>3, Zenon
  <2> DEFINE q == map_page(m, x, v, f, flags)
             d == [frame |-> f, flags |-> flags]
  <2>5. SetsEntry(q, m, v, d)
    BY <2>4, MapPagePte, Zenon
  <2>6. q = r /\ d = e
    BY <2>1, <2>2, <2>3, Zenon
  <2> HIDE DEF q, d, r, e
  <2>7. SetsEntry(r, vm[cr3], v, e)
    BY <2>3, <2>5, <2>6, Zenon
  <2> QED
    BY <2>7, Zenon DEF SetsEntry
<1>5. vm' = [vm EXCEPT ![cr3] = r.m]
  BY Zenon DEF Commit
<1> HIDE DEF r, e
<1>6. vm[cr3].pte \in [Pages -> Entry \cup {None}]
  BY <1>1, EntryType, Zenon
<1>7. CASE s = cr3
  <2>1. vm'[s] = r.m
    BY <1>1, <1>5, <1>7, Zenon
  <2>2. PICK pte \in [Pages -> Entry \cup {None}] : pte = vm[s].pte
    BY <1>6, <1>7, Zenon
  <2>3. vm'[s].pte = IF r.ok THEN [pte EXCEPT ![v] = e] ELSE pte
    BY <1>4, <1>7, <2>1, <2>2, Zenon
  <2>4. vm'[s].pte[w] = pte[w] \/ (w = v /\ vm'[s].pte[w] = e)
    BY <2>3, Zenon
  <2> QED
    BY <1>7, <2>2, <2>4, Zenon DEF e
<1>8. CASE s # cr3
  BY <1>1, <1>5, <1>8, Zenon
<1> QED
  BY <1>7, <1>8, Zenon

LEMMA FaultKeepsPage ==
  ASSUME Inv, NEW v \in Pages, DemandFault(v) \/ handle_cow_fault(v),
         NEW s \in Live, NEW w \in Pages, Used(vm[s], w),
         s = cr3 /\ w = v => Cached(v) # {} \/ Present(vm[s], v)
  PROVE  /\ Used(vm'[s], w)
         /\ data'[vm'[s].pte[w].frame] = data[vm[s].pte[w].frame]
<1>1. /\ cr3 \in Live /\ cr3 \in Spaces /\ vm[cr3] \in Manager /\ vm[s] \in Manager
      /\ next \in 0 .. NFrames /\ Sound(vm[s], next) /\ s \in Spaces
      /\ data \in [Frames -> {0, 1}] /\ vm \in [Spaces -> Manager \cup {None}]
  BY LiveManager, Zenon DEF Inv, TypeOK, FramesTaken
<1>2. CASE DemandFault(v)
  <2> DEFINE start == [m |-> vm[cr3], next |-> next, ok |-> TRUE]
             fl == {"P", "W"}
  <2>1. /\ Commit(cr3, MapFresh(start, v, fl)) /\ data' = data
        /\ ~ Present(vm[cr3], v) /\ Cached(v) = {}
    BY <1>2, Zenon DEF DemandFault
  <2>2. fl \in Flags
    BY Zenon DEF Flags
  <2> HIDE DEF fl
  <2>3. vm'[s].pte[w] = vm[s].pte[w]
    <3>1. CASE next = NFrames
      <4>1. MapFresh(start, v, fl) = [start EXCEPT !.ok = FALSE]
        BY <3>1, Zenon DEF MapFresh
      <4>2. vm' = [vm EXCEPT ![cr3] = vm[cr3]]
        BY <2>1, <4>1, ZenonT(40) DEF Commit
      <4> QED
        BY <1>1, <4>2, Zenon
    <3>2. CASE next # NFrames
      <4>1. MapFresh(start, v, fl) = map_page(vm[cr3], next + 1, v, next, fl)
        BY <3>2, Zenon DEF MapFresh
      <4>2. next < NFrames
        BY <1>1, <3>2, SMTT(40)
      <4>3. Commit(cr3, map_page(vm[cr3], next + 1, v, next, fl))
        BY <2>1, <4>1, Zenon
      <4>4. \/ vm'[s].pte[w] = vm[s].pte[w]
            \/ s = cr3 /\ w = v /\ vm'[s].pte[w] = [frame |-> next, flags |-> fl]
        BY <2>2, <4>2, <4>3, FaultMapsOnePage
      <4> QED
        BY <2>1, <4>4, Zenon
    <3> QED
      BY <3>1, <3>2, Zenon
  <2> QED
    BY <2>1, <2>3, Zenon DEF Used
<1>3. CASE handle_cow_fault(v)
  <2> DEFINE fl == {"P", "W", "U"}
  <2>1. /\ Commit(cr3, map_page(vm[cr3], next + 1, v, next, fl)) /\ next < NFrames
        /\ data' = [data EXCEPT ![next] = data[vm[cr3].pte[v].frame]]
    BY <1>3, Zenon DEF handle_cow_fault
  <2>2. fl \in Flags /\ "P" \in fl
    BY Zenon DEF Flags
  <2> HIDE DEF fl
  <2>3. \/ vm'[s].pte[w] = vm[s].pte[w]
        \/ s = cr3 /\ w = v /\ vm'[s].pte[w] = [frame |-> next, flags |-> fl]
    BY <2>1, <2>2, FaultMapsOnePage, SMTT(40)
  <2>4. vm[s].pte[w] \in Entry /\ vm[s].pte[w].frame < next
    BY <1>1, EntryType, ZenonT(40) DEF Sound
  <2>5. vm[s].pte[w].frame \in Frames /\ vm[s].pte[w].frame # next /\ next \in Frames
    <3>0. next < NFrames /\ next \in 0 .. NFrames
      BY <1>1, <2>1, Zenon
    <3>1. next \in Frames
      BY <3>0 DEF Frames
    <3>2. PICK e \in Entry : e = vm[s].pte[w]
      BY <2>4, Zenon
    <3>3. e.frame \in Frames
      BY <3>2, EntryFields, Zenon
    <3>4. \A f \in Frames : f < next => f # next
      BY <3>1 DEF Frames
    <3> QED
      BY <2>4, <3>1, <3>2, <3>3, <3>4, ZenonT(40)
  <2>6. CASE vm'[s].pte[w] = vm[s].pte[w]
    BY <1>1, <2>1, <2>5, <2>6, Zenon DEF Used
  <2>7. CASE s = cr3 /\ w = v /\ vm'[s].pte[w] = [frame |-> next, flags |-> fl]
    <3>1. PICK e \in Entry : e = [frame |-> next, flags |-> fl]
      BY <2>2, <2>5, Zenon DEF Entry
    <3>2. data'[next] = data[vm[s].pte[w].frame]
      BY <1>1, <2>1, <2>5, <2>7, Zenon
    <3>3. e # None /\ e.frame = next /\ e.flags = fl
      BY <3>1, NoneAssumption, Zenon
    <3> QED
      BY <2>2, <2>7, <3>1, <3>2, <3>3, Zenon DEF Used
  <2> QED
    BY <2>3, <2>6, <2>7, ZenonT(40)
<1> QED
  BY <1>2, <1>3, Zenon

-----------------------------------------------------------------------------
\* For any number of spaces, pages and frames, only a frame that protect_memory
\* made present again in spite of its copy-on-write mark is ever reachable from
\* two address spaces: what clone_address_space shares is not present in the
\* clone, and the frames that mmap, allocate_user_pages and the fault handler
\* map are new, also when they run out halfway.
THEOREM SpacesStayIsolated == Spec => []SpacesAreIsolated
<1>1. Inv => SpacesAreIsolated
  BY Zenon DEF Inv
<1> QED
  BY <1>1, InitInv, NextInv, PTL DEF Spec

\* page_count of a space that is not a clone never falls below its tables and
\* pages, so that the decrement of unmap_page does not wrap.
THEOREM PageCountsCover == Spec => []PageCountCovers
<1>1. Inv => PageCountCovers
  BY Zenon DEF Inv
<1> QED
  BY <1>1, InitInv, NextInv, PTL DEF Spec

\* Neither a not-present fault nor a copy-on-write fault loses or changes what
\* any other page of any space holds, and the copy-on-write fault keeps what its
\* own page holds.
THEOREM FaultsKeepTheRest == Spec => FaultsKeepOtherPages
<1> DEFINE Kept == \A v \in Pages : DemandFault(v) \/ handle_cow_fault(v) =>
                     \A s \in Live, w \in Pages :
                       /\ Used(vm[s], w)
                       /\ s = cr3 /\ w = v => Cached(v) # {} \/ Present(vm[s], v)
                       => /\ Used(vm'[s], w)
                          /\ data'[vm'[s].pte[w].frame] = data[vm[s].pte[w].frame]
<1>1. Inv => [Kept]_vars
  BY FaultKeepsPage, Zenon
<1>2. Spec => []Inv
  BY InitInv, NextInv, PTL DEF Spec
<1> QED
  BY <1>1, <1>2, PTL DEF Spec, FaultsKeepOtherPages
=============================================================================
