------------------------------ MODULE Mmu_proofs ------------------------------
(***************************************************************************)
(* The translation cache never answers what a walk would not, for every    *)
(* number of harts, levels, tables and virtual pages, as long as no two    *)
(* page-table pages share a slot of the table that remembers them.         *)
(***************************************************************************)
EXTENDS Mmu, SequenceTheorems, WellFoundedInduction, TLAPS

-----------------------------------------------------------------------------
\* Walks.

\* A non-empty set of natural numbers has a least member.
LEMMA LeastOf ==
  ASSUME NEW S \in SUBSET Nat, S # {}
  PROVE  \E n \in S : \A m \in S : n <= m
<1> DEFINE R == OpToRel(<, Nat)
<1>1. IsWellFoundedOn(R, Nat)
  BY NatLessThanWellFounded
<1>2. \A x, y \in Nat : <<y, x>> \in R <=> y < x
  BY DEF OpToRel
<1> HIDE DEF R
<1>3. PICK n \in S : \A y \in S : ~(<<y, n>> \in R)
  BY <1>1, WFMin
<1>4. ASSUME NEW m \in S PROVE n <= m
  <2>1. ~(m < n) /\ m \in Nat /\ n \in Nat
    BY <1>2, <1>3
  <2> QED
    BY <2>1
<1> QED
  BY <1>4

\* The page the walk goes on to from PTE e at level i, if it does.
Hops(e, i) == WellFormed(e) /\ ~IsLeaf(e) /\ i > 0 /\ e.ppn \in Tables

\* The PTE that a walk of v from level i reads in its j-th table.
PteAt(m, v, i, p, j) == m[p[j]][v[i + 1 - j]]

\* p is the walk of v from level i and page a.
IsWalk(m, v, i, a, p) ==
  /\ p \in Seq(Tables) /\ Len(p) <= i + 1
  /\ a \notin Tables => p = << >>
  /\ a \in Tables => p # << >> /\ p[1] = a
  /\ \A j \in 1 .. Len(p) - 1 :
       Hops(PteAt(m, v, i, p, j), i + 1 - j) /\ p[j + 1] = PteAt(m, v, i, p, j).ppn
  /\ p # << >> => ~Hops(PteAt(m, v, i, p, Len(p)), i + 1 - Len(p))

\* The function by which Path recurses over the levels.
Next1(m, v, i, a, g) ==
  IF a \notin Tables THEN << >>
  ELSE LET e == m[a][v[i]]
       IN IF WellFormed(e) /\ ~IsLeaf(e) /\ i > 0 THEN <<a>> \o g[i - 1][e.ppn] ELSE <<a>>

Solves(m, v, n, g) == g = [i \in 0 .. n |-> [a \in Ppns |-> Next1(m, v, i, a, g)]]

Memories == [Tables -> [Idx -> Ptes]]

\* The recursion has a solution for as many levels as one likes.
LEMMA DescentExists ==
  ASSUME NEW m, NEW v, NEW n \in Nat
  PROVE  \E g : Solves(m, v, n, g)
<1> DEFINE Bad == {k \in Nat : ~ \E g : Solves(m, v, k, g)}
<1> SUFFICES ASSUME Bad # {} PROVE FALSE
  OBVIOUS
<1>1. PICK k \in Bad : \A j \in Bad : k <= j
  BY LeastOf
<1>2. CASE k = 0
  <2> DEFINE g == [i \in 0 .. 0 |-> [a \in Ppns |-> Next1(m, v, i, a, <<>>)]]
  <2>1. ASSUME NEW i \in 0 .. 0, NEW a \in Ppns PROVE Next1(m, v, i, a, <<>>) = Next1(m, v, i, a, g)
    <3>1. ~(i > 0)
      OBVIOUS
    <3> HIDE DEF g
    <3> QED
      BY <3>1 DEF Next1
  <2>2. g = [i \in 0 .. 0 |-> [a \in Ppns |-> Next1(m, v, i, a, g)]]
    BY <2>1, Zenon
  <2>3. Solves(m, v, 0, g)
    BY <2>2, Zenon DEF Solves
  <2> QED
    BY <1>2, <2>3
<1>3. CASE k # 0
  <2>1. k - 1 \in Nat /\ k - 1 \notin Bad /\ k \in Nat
    BY <1>1, <1>3
  <2>2. PICK f : Solves(m, v, k - 1, f)
    BY <2>1
  <2> DEFINE g == [i \in 0 .. k |-> [a \in Ppns |-> Next1(m, v, i, a, f)]]
  <2>3. \A i \in 0 .. k - 1 : g[i] = f[i]
    <3> TAKE i \in 0 .. k - 1
    <3>1. i \in 0 .. k
      BY <2>1
    <3>2. f[i] = [a \in Ppns |-> Next1(m, v, i, a, f)]
      BY <2>2 DEF Solves
    <3> QED
      BY <3>1, <3>2
  <2> HIDE DEF g
  <2>4. \A i \in 0 .. k : i > 0 => g[i - 1] = f[i - 1]
    <3> SUFFICES ASSUME NEW i \in 0 .. k, i > 0 PROVE g[i - 1] = f[i - 1]
      OBVIOUS
    <3>1. i - 1 \in 0 .. k - 1
      BY <2>1
    <3> QED
      BY <2>3, <3>1
  <2>5. ASSUME NEW i \in 0 .. k, NEW a \in Ppns PROVE Next1(m, v, i, a, f) = Next1(m, v, i, a, g)
    BY <2>4 DEF Next1
  <2>6. g = [i \in 0 .. k |-> [a \in Ppns |-> Next1(m, v, i, a, g)]]
    <3>1. g = [i \in 0 .. k |-> [a \in Ppns |-> Next1(m, v, i, a, f)]]
      BY DEF g
    <3> QED
      BY <2>5, <3>1, Zenon
  <2>7. Solves(m, v, k, g)
    BY <2>6, Zenon DEF Solves
  <2> QED
    BY <1>1, <2>7
<1> QED
  BY <1>2, <1>3

\* Any solution gives, from each level, the walk.
LEMMA DescentIsWalk ==
  ASSUME NEW m \in Memories, NEW v \in [0 .. Levels - 1 -> Idx], NEW n \in 0 .. Levels - 1, NEW g,
         Solves(m, v, n, g)
  PROVE  \A i \in 0 .. n, a \in Ppns : IsWalk(m, v, i, a, g[i][a])
<1> DEFINE Bad == {i \in Nat : i <= n /\ \E a \in Ppns : ~IsWalk(m, v, i, a, g[i][a])}
<1> Levels \in Nat \ {0} /\ Tables \subseteq Ppns /\ n \in Nat
  BY ShapeAssumption
<1> SUFFICES ASSUME Bad # {} PROVE FALSE
  <2>1. ASSUME NEW i \in 0 .. n, NEW a \in Ppns, ~IsWalk(m, v, i, a, g[i][a]) PROVE i \in Bad
    BY <2>1
  <2> QED
    BY <2>1
<1>1. PICK i \in Bad : \A j \in Bad : i <= j
  BY LeastOf
<1>2. PICK a \in Ppns : ~IsWalk(m, v, i, a, g[i][a])
  BY <1>1
<1> DEFINE p == g[i][a]
<1>3. p = Next1(m, v, i, a, g) /\ i \in 0 .. n
  <2>1. i \in 0 .. n
    BY <1>1
  <2>2. g[i] = [b \in Ppns |-> Next1(m, v, i, b, g)]
    BY <2>1 DEF Solves
  <2> QED
    BY <2>1, <2>2
<1>4. CASE a \notin Tables
  <2>1. p = <<>>
    BY <1>3, <1>4 DEF Next1
  <2>2. p \in Seq(Tables) /\ Len(p) = 0
    BY <2>1
  <2> HIDE DEF p
  <2>3. IsWalk(m, v, i, a, p)
    BY <1>3, <1>4, <2>1, <2>2 DEF IsWalk
  <2> QED
    BY <1>2, <2>3 DEF p
<1>5. CASE a \in Tables
  <2> DEFINE e == m[a][v[i]]
  <2>0. e \in Ptes /\ e.ppn \in Ppns
    BY <1>3, <1>5 DEF Memories, Ptes
  <2>1. CASE ~(WellFormed(e) /\ ~IsLeaf(e) /\ i > 0)
    <3>1. p = <<a>>
      BY <1>3, <1>5, <2>1 DEF Next1
    <3>2. ~Hops(e, i)
      BY <2>1 DEF Hops
    <3> HIDE DEF p, e
    <3>3. PteAt(m, v, i, p, 1) = e
      BY <1>1, <3>1 DEF PteAt, e
    <3>4. p \in Seq(Tables) /\ Len(p) = 1 /\ p[1] = a /\ p # <<>>
      BY <1>5, <3>1
    <3>5. i + 1 - 1 = i /\ 1 <= i + 1 /\ \A j : j \notin 1 .. 1 - 1
      BY <1>3
    <3>6. IsWalk(m, v, i, a, p)
      BY <1>5, <3>2, <3>3, <3>4, <3>5 DEF IsWalk
    <3> QED
      BY <1>2, <3>6 DEF p
  <2>2. CASE WellFormed(e) /\ ~IsLeaf(e) /\ i > 0
    <3> DEFINE q == g[i - 1][e.ppn]
    <3>1. p = <<a>> \o q
      BY <1>3, <1>5, <2>2 DEF Next1
    <3>2. IsWalk(m, v, i - 1, e.ppn, q)
      <4>1. i - 1 \in Nat /\ i - 1 <= n /\ i - 1 \notin Bad
        BY <1>1, <2>2
      <4> QED
        BY <2>0, <4>1
    <3> HIDE DEF p, q, e
    <3>3. q \in Seq(Tables) /\ Len(q) \in Nat /\ Len(q) <= i
      BY <1>1, <2>2, <3>2, LenProperties DEF IsWalk
    <3>4. /\ p \in Seq(Tables) /\ Len(p) = Len(q) + 1 /\ p[1] = a
          /\ \A j \in 1 .. Len(q) : p[j + 1] = q[j]
      <4>1. <<a>> \in Seq(Tables) /\ Len(<<a>>) = 1 /\ <<a>>[1] = a
        BY <1>5
      <4>2. /\ <<a>> \o q \in Seq(Tables) /\ Len(<<a>> \o q) = 1 + Len(q)
            /\ \A j \in 1 .. 1 + Len(q) : (<<a>> \o q)[j] = IF j <= 1 THEN <<a>>[1] ELSE q[j - 1]
        BY <3>3, <4>1, ConcatProperties
      <4> QED
        BY <3>1, <3>3, <4>1, <4>2
    <3>5. PteAt(m, v, i, p, 1) = e /\ \A j \in 1 .. Len(q) : PteAt(m, v, i, p, j + 1) = PteAt(m, v, i - 1, q, j)
      <4>1. PteAt(m, v, i, p, 1) = e
        BY <1>1, <3>4 DEF PteAt, e
      <4>2. ASSUME NEW j \in 1 .. Len(q)
            PROVE  PteAt(m, v, i, p, j + 1) = PteAt(m, v, i - 1, q, j)
        <5>1. i + 1 - (j + 1) = (i - 1) + 1 - j
          BY <1>1, <3>3
        <5> QED
          BY <3>4, <5>1 DEF PteAt
      <4> QED
        BY <4>1, <4>2
    <3>6. CASE e.ppn \notin Tables
      <4>1. Len(q) = 0
        BY <3>2, <3>6 DEF IsWalk
      <4>2. Len(p) = 1 /\ ~Hops(e, i)
        BY <3>4, <3>6, <4>1 DEF Hops
      <4>3. p # <<>>
        BY <3>4, <4>2, EmptySeq
      <4>4. i + 1 - 1 = i /\ 1 <= i + 1 /\ \A j : j \notin 1 .. 1 - 1
        BY <1>3
      <4>5. IsWalk(m, v, i, a, p)
        BY <1>5, <3>4, <3>5, <4>2, <4>3, <4>4 DEF IsWalk
      <4> QED
        BY <1>2, <4>5 DEF p
    <3>7. CASE e.ppn \in Tables
      <4>1. q # <<>> /\ q[1] = e.ppn /\ Len(q) >= 1
        BY <3>2, <3>3, <3>7, EmptySeq DEF IsWalk
      <4>2. Len(p) <= i + 1 /\ p # <<>>
        BY <1>1, <3>3, <3>4
      <4>3. ASSUME NEW j \in 1 .. Len(p) - 1
            PROVE  Hops(PteAt(m, v, i, p, j), i + 1 - j) /\ p[j + 1] = PteAt(m, v, i, p, j).ppn
        <5>1. CASE j = 1
          <6>1. Hops(e, i) /\ i + 1 - 1 = i
            BY <1>1, <2>2, <3>7 DEF Hops
          <6> QED
            BY <3>4, <3>5, <4>1, <5>1, <6>1
        <5>2. CASE j # 1
          <6>1. j - 1 \in 1 .. Len(q) - 1 /\ (j - 1) + 1 = j /\ (i - 1) + 1 - (j - 1) = i + 1 - j
            BY <1>1, <3>3, <3>4, <5>2
          <6>2. /\ Hops(PteAt(m, v, i - 1, q, j - 1), (i - 1) + 1 - (j - 1))
                /\ q[(j - 1) + 1] = PteAt(m, v, i - 1, q, j - 1).ppn
            BY <3>2, <6>1 DEF IsWalk
          <6>3. PteAt(m, v, i, p, j) = PteAt(m, v, i - 1, q, j - 1) /\ p[j + 1] = q[j]
            <7>1. j - 1 \in 1 .. Len(q) /\ (j - 1) + 1 = j
              BY <3>3, <6>1
            <7>2. PteAt(m, v, i, p, (j - 1) + 1) = PteAt(m, v, i - 1, q, j - 1)
              BY <3>5, <7>1
            <7>3. j \in 1 .. Len(q)
              BY <3>3, <3>4, <5>2
            <7> QED
              BY <3>4, <7>1, <7>2, <7>3
          <6> QED
            BY <6>1, <6>2, <6>3
        <5> QED
          BY <5>1, <5>2
      <4>4. ~Hops(PteAt(m, v, i, p, Len(p)), i + 1 - Len(p))
        <5>1. ~Hops(PteAt(m, v, i - 1, q, Len(q)), (i - 1) + 1 - Len(q))
          BY <3>2, <4>1 DEF IsWalk
        <5>2. PteAt(m, v, i, p, Len(p)) = PteAt(m, v, i - 1, q, Len(q))
          BY <3>3, <3>4, <3>5, <4>1
        <5>3. (i - 1) + 1 - Len(q) = i + 1 - Len(p)
          BY <1>1, <3>3, <3>4
        <5> QED
          BY <5>1, <5>2, <5>3
      <4> QED
        BY <1>2, <1>5, <3>4, <4>2, <4>3, <4>4 DEF IsWalk, p
    <3> QED
      BY <3>6, <3>7
  <2> QED
    BY <2>1, <2>2
<1> QED
  BY <1>4, <1>5

\* Path is the walk from the top level.
LEMMA PathIsWalk ==
  ASSUME NEW m \in Memories, NEW v \in [0 .. Levels - 1 -> Idx], NEW a \in Ppns
  PROVE  IsWalk(m, v, Levels - 1, a, Path(m, v, a))
<1> Levels \in Nat \ {0}
  BY ShapeAssumption
<1> DEFINE from == CHOOSE g : Solves(m, v, Levels - 1, g)
<1>1. Solves(m, v, Levels - 1, from)
  <2>1. Levels - 1 \in Nat
    OBVIOUS
  <2>2. \E g : Solves(m, v, Levels - 1, g)
    BY <2>1, DescentExists
  <2> QED
    BY <2>2
<1>2. Path(m, v, a) = from[Levels - 1][a]
  BY DEF Path, Solves, Next1
<1> HIDE DEF from
<1>3. Levels - 1 \in 0 .. Levels - 1
  OBVIOUS
<1>4. IsWalk(m, v, Levels - 1, a, from[Levels - 1][a])
  BY <1>1, <1>3, DescentIsWalk
<1> QED
  BY <1>2, <1>4

Virtuals == [0 .. Levels - 1 -> Idx]

\* One walk only leads on from a page.
LEMMA WalkUnique ==
  ASSUME NEW m, NEW v, NEW i \in Nat, NEW a, NEW p, NEW q,
         IsWalk(m, v, i, a, p), IsWalk(m, v, i, a, q)
  PROVE  p = q
<1>0. p \in Seq(Tables) /\ q \in Seq(Tables) /\ Len(p) \in Nat /\ Len(q) \in Nat
  BY LenProperties DEF IsWalk
<1>1. CASE a \notin Tables
  BY <1>1 DEF IsWalk
<1>2. CASE a \in Tables
  <2>1. p # <<>> /\ q # <<>> /\ p[1] = a /\ q[1] = a /\ Len(p) > 0 /\ Len(q) > 0
    BY <1>0, <1>2, EmptySeq DEF IsWalk
  <2> DEFINE Bad == {j \in Nat : j \in 1 .. Len(p) /\ (j \notin 1 .. Len(q) \/ p[j] # q[j])}
  <2>2. Bad = {}
    <3> SUFFICES ASSUME Bad # {} PROVE FALSE
      OBVIOUS
    <3>1. PICK j \in Bad : \A k \in Bad : j <= k
      BY LeastOf
    <3>2. j # 1
      BY <2>1, <1>0
    <3>3. j - 1 \in 1 .. Len(p) - 1 /\ j - 1 \notin Bad /\ (j - 1) + 1 = j /\ j - 1 \in Nat
      BY <1>0, <3>1, <3>2
    <3>4. j - 1 \in 1 .. Len(q) /\ p[j - 1] = q[j - 1]
      BY <1>0, <3>3
    <3>5. PteAt(m, v, i, p, j - 1) = PteAt(m, v, i, q, j - 1)
      BY <3>4 DEF PteAt
    <3>6. Hops(PteAt(m, v, i, p, j - 1), i + 1 - (j - 1)) /\ p[j] = PteAt(m, v, i, p, j - 1).ppn
      BY <3>3 DEF IsWalk
    <3>7. Len(q) # j - 1
      BY <2>1, <3>5, <3>6 DEF IsWalk
    <3>8. j - 1 \in 1 .. Len(q) - 1 /\ j \in 1 .. Len(q)
      BY <1>0, <3>4, <3>7
    <3>9. q[j] = PteAt(m, v, i, q, j - 1).ppn
      BY <3>3, <3>8 DEF IsWalk
    <3> QED
      BY <3>1, <3>5, <3>6, <3>8, <3>9
  <2>3. \A j \in 1 .. Len(p) : j \in 1 .. Len(q) /\ p[j] = q[j]
    BY <1>0, <2>2
  <2>4. Len(q) = Len(p)
    <3> SUFFICES ASSUME Len(q) # Len(p) PROVE FALSE
      OBVIOUS
    <3>1. Len(p) \in 1 .. Len(q) - 1 /\ p[Len(p)] = q[Len(p)]
      BY <1>0, <2>1, <2>3
    <3>2. Hops(PteAt(m, v, i, q, Len(p)), i + 1 - Len(p))
      BY <3>1 DEF IsWalk
    <3>3. PteAt(m, v, i, p, Len(p)) = PteAt(m, v, i, q, Len(p))
      BY <3>1 DEF PteAt
    <3> QED
      BY <2>1, <3>2, <3>3 DEF IsWalk
  <2> QED
    BY <1>0, <2>3, <2>4, SeqEqual
<1> QED
  BY <1>1, <1>2

\* Memory that leads on from every PTE of a walk as before has the same walk.
LEMMA SameWalk ==
  ASSUME NEW m \in Memories, NEW n \in Memories, NEW v \in Virtuals, NEW a \in Ppns,
         LET p == Path(m, v, a) IN
         \A j \in 1 .. Len(p) :
           LET e == PteAt(m, v, Levels - 1, p, j)
               f == PteAt(n, v, Levels - 1, p, j)
           IN e.ppn = f.ppn /\ \A i \in 0 .. Levels - 1 : Hops(e, i) <=> Hops(f, i)
  PROVE  Path(n, v, a) = Path(m, v, a)
<1> DEFINE p == Path(m, v, a)
           l == Levels - 1
<1>1. IsWalk(m, v, l, a, p) /\ IsWalk(n, v, l, a, Path(n, v, a)) /\ l \in Nat
  BY PathIsWalk, ShapeAssumption DEF Virtuals
<1> HIDE DEF p
<1>2. p \in Seq(Tables) /\ Len(p) \in Nat /\ Len(p) <= l + 1 /\ (p # <<>> => Len(p) > 0)
  BY <1>1, LenProperties, EmptySeq DEF IsWalk
<1>3. ASSUME NEW j \in 1 .. Len(p)
      PROVE  /\ l + 1 - j \in 0 .. Levels - 1
             /\ PteAt(m, v, l, p, j).ppn = PteAt(n, v, l, p, j).ppn
             /\ Hops(PteAt(m, v, l, p, j), l + 1 - j) <=> Hops(PteAt(n, v, l, p, j), l + 1 - j)
  <2>1. l + 1 - j \in 0 .. Levels - 1
    BY <1>1, <1>2, ShapeAssumption
  <2> QED
    BY <2>1 DEF p
<1> HIDE DEF l
<1>4. IsWalk(n, v, l, a, p)
  <2>1. ASSUME NEW j \in 1 .. Len(p) - 1
        PROVE  Hops(PteAt(n, v, l, p, j), l + 1 - j) /\ p[j + 1] = PteAt(n, v, l, p, j).ppn
    <3>1. j \in 1 .. Len(p)
      BY <1>2
    <3>2. Hops(PteAt(m, v, l, p, j), l + 1 - j) /\ p[j + 1] = PteAt(m, v, l, p, j).ppn
      BY <1>1 DEF IsWalk
    <3> QED
      BY <1>3, <3>1, <3>2
  <2>2. p # <<>> => ~Hops(PteAt(n, v, l, p, Len(p)), l + 1 - Len(p))
    <3> HAVE p # <<>>
    <3>1. Len(p) \in 1 .. Len(p)
      BY <1>2
    <3> QED
      BY <1>1, <1>3, <3>1 DEF IsWalk
  <2> QED
    BY <1>1, <2>1, <2>2 DEF IsWalk
<1> QED
  BY <1>1, <1>4, WalkUnique DEF p

\* Where a walk ends.
LEMMA PathFacts ==
  ASSUME NEW m \in Memories, NEW v \in Virtuals, NEW a \in Ppns
  PROVE  LET p == Path(m, v, a) IN
         /\ p \in Seq(Tables) /\ Len(p) \in 0 .. Levels /\ DOMAIN p = 1 .. Len(p)
         /\ p # << >> => /\ Len(p) \in 1 .. Levels /\ LevelAfter(Len(p)) \in 0 .. Levels - 1
                         /\ p[Len(p)] \in Tables /\ v[LevelAfter(Len(p))] \in Idx
                         /\ LastPte(m, v, p) = PteAt(m, v, Levels - 1, p, Len(p))
                         /\ LastPte(m, v, p) \in Ptes
<1> DEFINE p == Path(m, v, a)
<1>1. IsWalk(m, v, Levels - 1, a, p) /\ Levels \in Nat \ {0}
  BY PathIsWalk, ShapeAssumption DEF Virtuals
<1> HIDE DEF p
<1>2. p \in Seq(Tables) /\ Len(p) \in 0 .. Levels /\ DOMAIN p = 1 .. Len(p) /\ (p # <<>> => Len(p) > 0)
  BY <1>1, LenProperties, EmptySeq DEF IsWalk
<1>3. ASSUME p # <<>>
      PROVE  /\ Len(p) \in 1 .. Levels /\ LevelAfter(Len(p)) \in 0 .. Levels - 1
             /\ p[Len(p)] \in Tables /\ v[LevelAfter(Len(p))] \in Idx
             /\ LastPte(m, v, p) = PteAt(m, v, Levels - 1, p, Len(p))
             /\ LastPte(m, v, p) \in Ptes
  <2>1. Len(p) \in 1 .. Levels
    BY <1>1, <1>2, <1>3
  <2>2. LevelAfter(Len(p)) \in 0 .. Levels - 1 /\ LevelAfter(Len(p)) = Levels - 1 + 1 - Len(p)
    BY <1>1, <2>1 DEF LevelAfter
  <2>3. p[Len(p)] \in Tables
    BY <1>2, <2>1, ElementOfSeq
  <2>4. v[LevelAfter(Len(p))] \in Idx
    BY <2>2 DEF Virtuals
  <2>5. LastPte(m, v, p) = PteAt(m, v, Levels - 1, p, Len(p))
    BY <2>2 DEF LastPte, PteAt
  <2>6. LastPte(m, v, p) \in Ptes
    BY <2>3, <2>4 DEF LastPte, Memories
  <2> QED
    BY <2>1, <2>2, <2>3, <2>4, <2>5, <2>6
<1> QED
  BY <1>2, <1>3 DEF p

-----------------------------------------------------------------------------
\* What a write to memory does to a walk.

\* A, D or nothing new, and only on a leaf.
OnlyMarks(e, f) ==
  \/ f = e
  \/ /\ WellFormed(e) /\ IsLeaf(e) /\ f.ppn = e.ppn
     /\ \E marks \in SUBSET {"A", "D"} : f.flags = e.flags \cup marks

\* n is m with leaves marked as accessed.
OnlyMarked(m, n) == \A t \in Tables, i \in Idx : OnlyMarks(m[t][i], n[t][i])

\* A leaf marked as accessed stays what it is for every walk and every check.
LEMMA MarkedPte ==
  ASSUME NEW e \in Ptes, NEW f \in Ptes, OnlyMarks(e, f)
  PROVE  /\ f.ppn = e.ppn /\ e.flags \subseteq f.flags
         /\ \A i : Hops(e, i) <=> Hops(f, i)
         /\ WellFormed(e) <=> WellFormed(f)
         /\ IsLeaf(e) <=> IsLeaf(f)
         /\ \A k : k.acc \in Accesses => (Permits(e, k) <=> Permits(f, k))
<1>1. CASE f = e
  BY <1>1
<1>2. CASE f # e
  <2>1. PICK marks \in SUBSET {"A", "D"} : f.flags = e.flags \cup marks
    BY <1>2 DEF OnlyMarks
  <2>2. WellFormed(e) /\ IsLeaf(e) /\ f.ppn = e.ppn
    BY <1>2 DEF OnlyMarks
  <2>3. \A x \in {"V", "R", "W", "X", "U", "RES"} : x \in f.flags <=> x \in e.flags
    BY <2>1
  <2>4. IsLeaf(f)
    BY <2>2, <2>3 DEF IsLeaf
  <2>5. WellFormed(f)
    BY <2>2, <2>3, <2>4 DEF WellFormed
  <2>6. ASSUME NEW k, k.acc \in Accesses PROVE Permits(e, k) <=> Permits(f, k)
    <3>1. /\ "R" \in e.flags <=> "R" \in f.flags
          /\ "W" \in e.flags <=> "W" \in f.flags
          /\ "X" \in e.flags <=> "X" \in f.flags
          /\ "U" \in e.flags <=> "U" \in f.flags
      BY <2>3
    <3>2. CASE k.acc = "Fetch"
      BY <3>1, <3>2 DEF Permits
    <3>3. CASE k.acc = "Load"
      BY <3>1, <3>3 DEF Permits
    <3>4. CASE k.acc = "Store"
      BY <3>1, <3>4 DEF Permits
    <3> QED
      BY <2>6, <3>2, <3>3, <3>4 DEF Accesses
  <2> QED
    BY <2>1, <2>2, <2>4, <2>5, <2>6 DEF Hops
<1> QED
  BY <1>1, <1>2

\* So marking leaves moves no walk and changes no answer.
LEMMA MarkedWalk ==
  ASSUME NEW m \in Memories, NEW n \in Memories,
         OnlyMarked(m, n),
         NEW k, k.v \in Virtuals, k.root \in Ppns, k.acc \in Accesses
  PROVE  LET p == Path(m, k.v, k.root) IN
         /\ Path(n, k.v, k.root) = p
         /\ Translate(n, k) = Translate(m, k)
         /\ p # << >> => LastPte(m, k.v, p).flags \subseteq LastPte(n, k.v, p).flags
<1> DEFINE p == Path(m, k.v, k.root)
           v == k.v
           e == LastPte(m, v, p)
           f == LastPte(n, v, p)
<1>0. \A t \in Tables, i \in Idx : m[t][i] \in Ptes /\ n[t][i] \in Ptes
  BY DEF Memories
<1>1. ASSUME NEW j \in 1 .. Len(p)
      PROVE  LET c == PteAt(m, v, Levels - 1, p, j)
                 d == PteAt(n, v, Levels - 1, p, j)
             IN c.ppn = d.ppn /\ \A i \in 0 .. Levels - 1 : Hops(c, i) <=> Hops(d, i)
  <2> HIDE DEF p
  <2>1. p[j] \in Tables /\ Levels - 1 + 1 - j \in 0 .. Levels - 1
    <3>1. p \in Seq(Tables) /\ Len(p) \in 0 .. Levels
      BY PathFacts DEF p
    <3> QED
      BY <3>1, ElementOfSeq, ShapeAssumption
  <2>2. v[Levels - 1 + 1 - j] \in Idx
    BY <2>1 DEF Virtuals
  <2> HIDE DEF v
  <2>3. OnlyMarks(PteAt(m, v, Levels - 1, p, j), PteAt(n, v, Levels - 1, p, j))
    BY <2>1, <2>2 DEF PteAt, OnlyMarked
  <2>4. PteAt(m, v, Levels - 1, p, j) \in Ptes /\ PteAt(n, v, Levels - 1, p, j) \in Ptes
    BY <1>0, <2>1, <2>2 DEF PteAt
  <2> QED
    BY <2>3, <2>4, MarkedPte
<1>2. Path(n, v, k.root) = p
  BY <1>1, SameWalk
<1>3. p # << >> => /\ e \in Ptes /\ f \in Ptes /\ OnlyMarks(e, f)
  <2> HAVE p # << >>
  <2>1. p[Len(p)] \in Tables /\ v[LevelAfter(Len(p))] \in Idx
    BY PathFacts
  <2> HIDE DEF p, v
  <2> QED
    BY <1>0, <2>1 DEF LastPte, OnlyMarked
<1>4. p # << >> => /\ f.ppn = e.ppn /\ e.flags \subseteq f.flags
                   /\ WellFormed(e) <=> WellFormed(f)
                   /\ IsLeaf(e) <=> IsLeaf(f)
                   /\ Permits(e, k) <=> Permits(f, k)
  <2> HIDE DEF p, v, e, f
  <2> QED
    BY <1>3, MarkedPte
<1>5. Translate(n, k) = Translate(m, k)
  <2>1. ReachesLeaf(n, v, p) <=> ReachesLeaf(m, v, p)
    <3> HIDE DEF p, v
    <3> QED
      BY <1>4 DEF ReachesLeaf, e, f
  <2>2. CASE p = << >>
    <3>1. ~ReachesLeaf(m, v, p)
      BY <2>2 DEF ReachesLeaf
    <3> QED
      BY <1>2, <2>1, <3>1 DEF Translate
  <2>3. CASE p # << >>
    <3>1. f.ppn = e.ppn /\ (Permits(e, k) <=> Permits(f, k))
      BY <1>4, <2>3
    <3> QED
      BY <1>2, <2>1, <3>1, Zenon DEF Translate
  <2> QED
    BY <2>2, <2>3
<1> QED
  BY <1>2, <1>4, <1>5

\* A write to a table that a walk does not read leaves the walk alone.
LEMMA ElsewhereWalk ==
  ASSUME NEW m \in Memories, NEW n \in Memories, NEW k, k.v \in Virtuals, k.root \in Ppns,
         LET p == Path(m, k.v, k.root) IN \A j \in 1 .. Len(p) : n[p[j]] = m[p[j]]
  PROVE  LET p == Path(m, k.v, k.root) IN
         /\ Path(n, k.v, k.root) = p
         /\ Translate(n, k) = Translate(m, k)
         /\ p # << >> => LastPte(n, k.v, p) = LastPte(m, k.v, p)
<1> DEFINE p == Path(m, k.v, k.root)
           v == k.v
<1>1. Path(n, v, k.root) = p
  <2>1. \A j \in 1 .. Len(p) : PteAt(n, v, Levels - 1, p, j) = PteAt(m, v, Levels - 1, p, j)
    BY DEF PteAt
  <2> QED
    BY <2>1, SameWalk
<1>2. p # << >> => LastPte(n, v, p) = LastPte(m, v, p)
  <2> HAVE p # << >>
  <2>1. Len(p) \in 1 .. Len(p)
    BY PathFacts
  <2> QED
    BY <2>1 DEF LastPte
<1>3. Translate(n, k) = Translate(m, k)
  <2>1. CASE p = << >>
    <3>1. ~ReachesLeaf(m, v, p) /\ ~ReachesLeaf(n, v, p)
      BY <2>1 DEF ReachesLeaf
    <3> QED
      BY <1>1, <3>1 DEF Translate
  <2>2. CASE p # << >>
    <3>1. LastPte(n, v, p) = LastPte(m, v, p)
      BY <1>2, <2>2
    <3>2. ReachesLeaf(n, v, p) <=> ReachesLeaf(m, v, p)
      BY <3>1, Zenon DEF ReachesLeaf
    <3> QED
      BY <1>1, <3>1, <3>2, Zenon DEF Translate
  <2> QED
    BY <2>1, <2>2
<1> QED
  BY <1>1, <1>2, <1>3

\* A translation that is no fault ended at a leaf, and names a page.
LEMMA TranslatedPage ==
  ASSUME NEW m \in Memories, NEW k, k.v \in Virtuals, k.root \in Ppns, Translate(m, k) # Fault
  PROVE  LET p == Path(m, k.v, k.root) IN
         /\ p # << >> /\ WellFormed(LastPte(m, k.v, p)) /\ IsLeaf(LastPte(m, k.v, p))
         /\ Translate(m, k) \in Pages
<1> DEFINE p == Path(m, k.v, k.root)
           e == LastPte(m, k.v, p)
           i == LevelAfter(Len(p))
<1>1. ReachesLeaf(m, k.v, p)
  BY DEF Translate
<1>2. p # << >> /\ WellFormed(e) /\ IsLeaf(e)
  BY <1>1 DEF ReachesLeaf
<1>3. i \in 0 .. Levels - 1 /\ e \in Ptes
  BY <1>2, PathFacts
<1>4. Translate(m, k) = [ppn |-> e.ppn, sub |-> [l \in 0 .. (i - 1) |-> k.v[l]]]
  BY DEF Translate
<1> HIDE DEF p, e, i
<1>5. e.ppn \in Ppns
  BY <1>3 DEF Ptes
<1>6. [l \in 0 .. (i - 1) |-> k.v[l]] \in [0 .. (i - 1) -> Idx]
  <2>1. \A l \in 0 .. (i - 1) : l \in 0 .. Levels - 1
    BY <1>3, ShapeAssumption
  <2>2. \A l \in 0 .. Levels - 1 : k.v[l] \in Idx
    BY DEF Virtuals
  <2> QED
    BY <2>1, <2>2
<1>7. Translate(m, k) \in Pages
  <2>1. [l \in 0 .. (i - 1) |-> k.v[l]] \in UNION {[0 .. (j - 1) -> Idx] : j \in 0 .. (Levels - 1)}
    BY <1>3, <1>6
  <2> QED
    BY <1>4, <1>5, <2>1 DEF Pages
<1> QED
  BY <1>2, <1>7 DEF p, e

\* The A and D update of a translation marks its leaf and nothing else.
LEMMA MarkedMemory ==
  ASSUME NEW m \in Memories, NEW k, k.v \in Virtuals, k.root \in Ppns, Translate(m, k) # Fault
  PROVE  LET p == Path(m, k.v, k.root) IN
         /\ Marked(m, k) \in Memories
         /\ \A t \in Tables, i \in Idx : OnlyMarks(m[t][i], Marked(m, k)[t][i])
         /\ MarksOf(k.acc) \subseteq LastPte(Marked(m, k), k.v, p).flags
<1> DEFINE p == Path(m, k.v, k.root)
           a == p[Len(p)]
           b == k.v[LevelAfter(Len(p))]
           e == m[a][b]
           f == [e EXCEPT !.flags = @ \cup MarksOf(k.acc)]
           n == Marked(m, k)
<1>1. a \in Tables /\ b \in Idx /\ e \in Ptes /\ WellFormed(e) /\ IsLeaf(e)
  <2>1. p # << >> /\ WellFormed(LastPte(m, k.v, p)) /\ IsLeaf(LastPte(m, k.v, p))
    BY TranslatedPage
  <2>2. p[Len(p)] \in Tables /\ k.v[LevelAfter(Len(p))] \in Idx /\ LastPte(m, k.v, p) \in Ptes
    BY <2>1, PathFacts
  <2> QED
    BY <2>1, <2>2 DEF LastPte
<1>2. n = [m EXCEPT ![a][b].flags = @ \cup MarksOf(k.acc)]
  BY DEF Marked
<1>3. LastPte(n, k.v, p) = n[a][b]
  BY DEF LastPte
<1> HIDE DEF p, a, b, n
<1>4. MarksOf(k.acc) \in SUBSET {"A", "D"}
  BY DEF MarksOf
<1>5. f.flags = e.flags \cup MarksOf(k.acc) /\ f.ppn = e.ppn /\ f \in Ptes
  BY <1>1, <1>4 DEF Ptes, Flags
<1>6. n = [m EXCEPT ![a] = [m[a] EXCEPT ![b] = f]]
  BY <1>2
<1> HIDE DEF f
<1>7. n \in Memories /\ n[a][b] = f
  BY <1>1, <1>5, <1>6 DEF Memories
<1>8. \A t \in Tables, i \in Idx : n[t][i] = IF t = a /\ i = b THEN f ELSE m[t][i]
  BY <1>6 DEF Memories
<1>9. ASSUME NEW t \in Tables, NEW i \in Idx PROVE OnlyMarks(m[t][i], n[t][i])
  <2>1. CASE t = a /\ i = b
    BY <1>1, <1>4, <1>5, <1>8, <2>1 DEF OnlyMarks
  <2>2. CASE ~(t = a /\ i = b)
    BY <1>8, <2>2 DEF OnlyMarks
  <2> QED
    BY <2>1, <2>2
<1> QED
  BY <1>3, <1>5, <1>7, <1>9 DEF n, p

-----------------------------------------------------------------------------
\* The table of remembered pages.

\* Each slot holds what it held, or a page of the walk that belongs there.
LEMMA RememberedSlot ==
  ASSUME NEW k, NEW p \in Seq(Tables), NEW s \in Slots
  PROVE  \/ Remembered(k, p)[s] = k[s] /\ \A n \in 1 .. Len(p) : SlotOf[p[n]] # s
         \/ \E n \in 1 .. Len(p) : Remembered(k, p)[s] = p[n] /\ SlotOf[p[n]] = s
<1> DEFINE hits == {n \in DOMAIN p : SlotOf[p[n]] = s}
           last == CHOOSE n \in hits : \A j \in hits : j <= n
<1>1. Remembered(k, p)[s] = IF hits = {} THEN k[s] ELSE p[last]
  BY DEF Remembered
<1>2. DOMAIN p = 1 .. Len(p) /\ Len(p) \in Nat
  BY LenProperties
<1>3. CASE hits = {}
  BY <1>1, <1>2, <1>3
<1>4. CASE hits # {}
  <2> DEFINE left == {Len(p) - n : n \in hits}
  <2>1. left \in SUBSET Nat /\ left # {}
    BY <1>2, <1>4
  <2>2. PICK d \in left : \A c \in left : d <= c
    BY <2>1, LeastOf
  <2>3. PICK n \in hits : d = Len(p) - n
    BY <2>2
  <2>4. \A j \in hits : j <= n
    <3> TAKE j \in hits
    <3>1. Len(p) - j \in left /\ j \in Nat /\ n \in Nat
      BY <1>2
    <3>2. Len(p) - n <= Len(p) - j
      BY <2>2, <2>3, <3>1
    <3> QED
      BY <1>2, <3>1, <3>2
  <2>5. last \in hits
    BY <2>4
  <2> QED
    BY <1>1, <1>2, <1>4, <2>5
<1> QED
  BY <1>3, <1>4

\* No two page-table pages share a slot.
OwnSlots == \A s, t \in Tables : SlotOf[s] = SlotOf[t] => s = t

\* Then a walk forgets no page, and remembers its own.
LEMMA RememberedGrows ==
  ASSUME OwnSlots, NEW k, NEW p \in Seq(Tables), NEW t \in Tables,
         k[SlotOf[t]] = t \/ \E n \in 1 .. Len(p) : p[n] = t
  PROVE  Remembered(k, p)[SlotOf[t]] = t
<1>1. SlotOf[t] \in Slots
  BY ShapeAssumption
<1>2. \A n \in 1 .. Len(p) : p[n] \in Tables
  BY ElementOfSeq
<1> QED
  BY <1>1, <1>2, RememberedSlot DEF OwnSlots

-----------------------------------------------------------------------------
\* The inductive invariant.

\* The cache and the table of remembered pages have their shape.
Shape ==
  /\ tlb = [h \in Harts |-> [s \in Sets |-> tlb[h][s]]]
  /\ known = [h \in Harts |-> [s \in Slots |-> known[h][s]]]

\* A cached translation e is what a walk of memory m finds, its hart, which
\* remembers the pages k, remembers every table of that walk, and its leaf is
\* marked for the cached access.
Sound(m, k, e) ==
  LET p == Path(m, e.key.v, e.key.root) IN
  /\ Translate(m, e.key) = e.pa
  /\ p # << >>
  /\ \A j \in 1 .. Len(p) : k[SlotOf[p[j]]] = p[j]
  /\ MarksOf(e.key.acc) \subseteq LastPte(m, e.key.v, p).flags

EntriesSound ==
  \A h \in Harts, s \in Sets : ~stale[h] /\ tlb[h][s] # NoEntry => Sound(mem, known[h], tlb[h][s])

\* The key of an access is a key.
LEMMA KeyOfFacts ==
  ASSUME TypeOK, NEW h \in Harts, NEW v \in VPages, NEW acc \in Accesses
  PROVE  LET k == KeyOf(h, v, acc) IN
         /\ k \in Keys /\ k.v = v /\ k.v \in Virtuals /\ k.acc = acc /\ k.root = root[h]
         /\ k.root \in Ppns
<1>1. ctx[h] \in [priv : {"U", "S"}, sum : BOOLEAN, mxr : BOOLEAN] /\ root[h] \in Ppns
  BY ArgsAssumption DEF TypeOK
<1>2. v \in Virtuals
  BY ShapeAssumption DEF Virtuals
<1> QED
  BY <1>1, <1>2 DEF KeyOf, Keys

\* The parts of a key that a walk uses.
LEMMA KeyParts ==
  ASSUME NEW k \in Keys
  PROVE  k.v \in VPages /\ k.v \in Virtuals /\ k.root \in Ppns /\ k.acc \in Accesses
  BY ShapeAssumption DEF Keys, Virtuals

\* A flush empties the cache of one hart and leaves the others.
LEMMA FlushedFacts ==
  ASSUME Shape, NEW h \in Harts
  PROVE  LET t == Flushed(tlb, h) IN
         /\ DOMAIN t = Harts /\ t = [g \in Harts |-> [s \in Sets |-> t[g][s]]]
         /\ \A g \in Harts, s \in Sets : t[g][s] = IF g = h THEN NoEntry ELSE tlb[g][s]
<1> DEFINE t == Flushed(tlb, h)
           u == [g \in Harts |-> [s \in Sets |-> IF g = h THEN NoEntry ELSE tlb[g][s]]]
<1>1. t = u
  <2>1. DOMAIN tlb = Harts
    BY DEF Shape
  <2>2. \A g \in Harts : t[g] = u[g]
    <3> TAKE g \in Harts
    <3>1. CASE g = h
      BY <2>1, <3>1 DEF Flushed
    <3>2. CASE g # h
      <4>1. t[g] = tlb[g]
        BY <2>1, <3>2 DEF Flushed
      <4>2. tlb[g] = [s \in Sets |-> tlb[g][s]]
        BY DEF Shape
      <4> QED
        BY <3>2, <4>1, <4>2
    <3> QED
      BY <3>1, <3>2
  <2>3. t = [g \in Harts |-> t[g]]
    BY <2>1 DEF Flushed
  <2> QED
    BY <2>2, <2>3
<1>2. /\ DOMAIN u = Harts /\ u = [g \in Harts |-> [s \in Sets |-> u[g][s]]]
      /\ \A g \in Harts, s \in Sets : u[g][s] = IF g = h THEN NoEntry ELSE tlb[g][s]
  OBVIOUS
<1> HIDE DEF u
<1> QED
  BY <1>1, <1>2

\* A write by a store puts PTEs where PTEs are.
LEMMA WrittenFacts ==
  ASSUME mem \in Memories, NEW w \in Writes
  PROVE  /\ Written(w) \in Memories /\ w[1] \in Tables
         /\ \A t \in Tables : t # w[1] => Written(w)[t] = mem[t]
<1>1. w[1] \in Tables /\ w[2] \in Idx /\ w[3] \in Ptes
  BY ArgsAssumption
<1> QED
  BY <1>1 DEF Written, Memories

\* What an access of hart h with key k that misses after the walk p changes.
Accessed(h, k, p) ==
  /\ mem' \in Memories
  /\ \A t \in Tables, i \in Idx : OnlyMarks(mem[t][i], mem'[t][i])
  /\ p \in Seq(Tables)
  /\ known' = [g \in Harts |-> [s \in Slots |-> known'[g][s]]]
  /\ \A g \in Harts, s \in Slots :
       known'[g][s] = IF g = h THEN Remembered(known[h], p)[s] ELSE known[g][s]
  /\ tlb' = [g \in Harts |-> [s \in Sets |-> tlb'[g][s]]]
  /\ \A g \in Harts, s \in Sets :
       \/ tlb'[g][s] = tlb[g][s]
       \/ /\ g = h /\ s = SetOf[k.v]
          /\ tlb'[g][s] = [key |-> k, pa |-> Translate(mem, k)]
          /\ Translate(mem, k) \in Pages
          /\ p # << >>
          /\ MarksOf(k.acc) \subseteq LastPte(mem', k.v, p).flags

\* An access that misses does just that.
LEMMA AccessFacts ==
  ASSUME TypeOK, Shape, NEW h \in Harts, NEW v \in VPages, NEW acc \in Accesses, Access(h, v, acc)
  PROVE  Accessed(h, KeyOf(h, v, acc), Path(mem, v, root[h]))
<1> DEFINE k == KeyOf(h, v, acc)
           p == Path(mem, v, root[h])
           pa == Translate(mem, k)
<1>1. k \in Keys /\ k.v = v /\ v \in Virtuals /\ k.acc = acc /\ k.root = root[h] /\ root[h] \in Ppns
  BY KeyOfFacts
<1>2. mem \in Memories
  BY DEF TypeOK, Memories
<1>3. p \in Seq(Tables)
  BY <1>1, <1>2, PathFacts
<1>4. /\ known' = [known EXCEPT ![h] = Remembered(@, p)]
      /\ IF pa = Fault THEN UNCHANGED <<mem, tlb>>
         ELSE /\ mem' = Marked(mem, k)
              /\ tlb' = [tlb EXCEPT ![h][SetOf[v]] = [key |-> k, pa |-> pa]]
  BY DEF Access
<1> HIDE DEF k
<1>5. pa # Fault => /\ Marked(mem, k) \in Memories
                    /\ \A t \in Tables, i \in Idx : OnlyMarks(mem[t][i], Marked(mem, k)[t][i])
                    /\ MarksOf(acc) \subseteq LastPte(Marked(mem, k), v, p).flags
                    /\ p # << >> /\ pa \in Pages
  <2> HAVE pa # Fault
  <2>1. /\ Marked(mem, k) \in Memories
        /\ \A t \in Tables, i \in Idx : OnlyMarks(mem[t][i], Marked(mem, k)[t][i])
        /\ MarksOf(acc) \subseteq LastPte(Marked(mem, k), v, p).flags
    BY <1>1, <1>2, MarkedMemory
  <2>2. p # << >> /\ pa \in Pages
    BY <1>1, <1>2, TranslatedPage
  <2> QED
    BY <2>1, <2>2
<1> HIDE DEF p, pa
<1>6. mem' \in Memories /\ \A t \in Tables, i \in Idx : OnlyMarks(mem[t][i], mem'[t][i])
  <2>1. CASE pa = Fault
    <3>1. mem' = mem
      BY <1>4, <2>1
    <3> QED
      BY <1>2, <3>1 DEF OnlyMarks
  <2>2. CASE pa # Fault
    <3>1. mem' = Marked(mem, k)
      BY <1>4, <2>2
    <3> QED
      BY <1>5, <2>2, <3>1
  <2> QED
    BY <2>1, <2>2
<1>7. /\ known' = [g \in Harts |-> [s \in Slots |-> known'[g][s]]]
      /\ \A g \in Harts, s \in Slots :
           known'[g][s] = IF g = h THEN Remembered(known[h], p)[s] ELSE known[g][s]
  <2>1. DOMAIN known = Harts
    BY DEF Shape
  <2>2. known' = [g \in Harts |-> IF g = h THEN Remembered(known[h], p) ELSE known[g]]
    BY <1>4, <2>1
  <2>3. \A g \in Harts : known[g] = [s \in Slots |-> known[g][s]]
    BY DEF Shape
  <2>4. Remembered(known[h], p) = [s \in Slots |-> Remembered(known[h], p)[s]]
    BY DEF Remembered
  <2>5. \A g \in Harts : known'[g] = IF g = h THEN Remembered(known[h], p) ELSE known[g]
    BY <2>2
  <2>6. \A g \in Harts : known'[g] = [s \in Slots |-> known'[g][s]]
    BY <2>3, <2>4, <2>5
  <2>7. DOMAIN known' = Harts /\ known' = [g \in Harts |-> known'[g]]
    BY <2>2
  <2> QED
    BY <2>5, <2>6, <2>7
<1>8. CASE pa = Fault
  <2>1. Accessed(h, k, p)
    BY <1>3, <1>4, <1>6, <1>7, <1>8 DEF Shape, Accessed
  <2> QED
    BY <2>1 DEF k, p
<1>9. CASE pa # Fault
  <2>1. SetOf[v] \in Sets
    BY ShapeAssumption
  <2>2. tlb' = [tlb EXCEPT ![h] = [tlb[h] EXCEPT ![SetOf[v]] = [key |-> k, pa |-> pa]]]
    BY <1>4, <1>9
  <2>3. DOMAIN tlb = Harts /\ \A g \in Harts : tlb[g] = [s \in Sets |-> tlb[g][s]]
    BY DEF Shape
  <2>4. \A g \in Harts :
          tlb'[g] = IF g = h THEN [tlb[h] EXCEPT ![SetOf[v]] = [key |-> k, pa |-> pa]] ELSE tlb[g]
    BY <2>2, <2>3
  <2>5. \A g \in Harts : tlb'[g] = [s \in Sets |-> tlb'[g][s]]
    BY <2>1, <2>3, <2>4
  <2>6. DOMAIN tlb' = Harts /\ tlb' = [g \in Harts |-> tlb'[g]]
    BY <2>2, <2>3
  <2>7. tlb' = [g \in Harts |-> [s \in Sets |-> tlb'[g][s]]]
    BY <2>5, <2>6
  <2>8. ASSUME NEW g \in Harts, NEW s \in Sets
        PROVE  tlb'[g][s] = IF g = h /\ s = SetOf[v] THEN [key |-> k, pa |-> pa] ELSE tlb[g][s]
    BY <2>1, <2>3, <2>4
  <2>9. MarksOf(acc) \subseteq LastPte(mem', v, p).flags
    BY <1>4, <1>5, <1>9
  <2>10. ASSUME NEW g \in Harts, NEW s \in Sets
         PROVE  \/ tlb'[g][s] = tlb[g][s]
                \/ /\ g = h /\ s = SetOf[v]
                   /\ tlb'[g][s] = [key |-> k, pa |-> pa]
                   /\ pa \in Pages
                   /\ p # << >>
                   /\ MarksOf(acc) \subseteq LastPte(mem', v, p).flags
    BY <1>5, <1>9, <2>8, <2>9
  <2>11. Accessed(h, k, p)
    BY <1>1, <1>3, <1>6, <1>7, <2>7, <2>10 DEF Accessed, pa
  <2> QED
    BY <2>11 DEF k, p
<1> QED
  BY <1>8, <1>9

-----------------------------------------------------------------------------
\* Types.

\* Whatever the cache of a hart holds is dropped or kept: it stays well typed.
LEMMA CacheKept ==
  ASSUME TypeOK, Shape, DOMAIN tlb' = Harts,
         \A h \in Harts, s \in Sets : tlb'[h][s] \in {NoEntry, tlb[h][s]},
         mem' \in Memories, root' \in [Harts -> Ppns], ctx' \in [Harts -> Contexts],
         stale' \in [Harts -> BOOLEAN], known' = known
  PROVE  TypeOK'
<1>1. ASSUME NEW h \in Harts, NEW s \in Sets
      PROVE  tlb'[h][s] # NoEntry => /\ tlb'[h][s].key \in Keys /\ tlb'[h][s].pa \in Pages
                                     /\ SetOf[tlb'[h][s].key.v] = s
  BY DEF TypeOK
<1>2. ASSUME NEW h \in Harts, NEW s \in Slots
      PROVE  known'[h][s] # NoTable => known'[h][s] \in Tables /\ SlotOf[known'[h][s]] = s
  BY DEF TypeOK
<1> QED
  BY <1>1, <1>2 DEF TypeOK, Memories

\* Every step keeps the types.
LEMMA TypeStep ==
  ASSUME TypeOK, Shape, [Next]_vars
  PROVE  TypeOK' /\ Shape'
<1>0. mem \in Memories /\ DOMAIN tlb = Harts
  BY DEF TypeOK, Memories
<1>1. CASE UNCHANGED vars
  BY <1>1 DEF vars, TypeOK, Shape
<1>2. ASSUME NEW w \in Writes, DeviceStore(w) PROVE TypeOK' /\ Shape'
  <2>1. mem' \in Memories
    BY <1>0, <1>2, WrittenFacts DEF DeviceStore
  <2>2. UNCHANGED <<root, ctx, tlb, known>> /\ stale' = [o \in Harts |-> TRUE]
    BY <1>2 DEF DeviceStore
  <2>3. TypeOK'
    <3>1. root' \in [Harts -> Ppns] /\ ctx' \in [Harts -> Contexts] /\ stale' \in [Harts -> BOOLEAN]
      BY <2>2 DEF TypeOK
    <3> QED
      BY <1>0, <2>1, <2>2, <3>1, CacheKept
  <2> QED
    BY <2>2, <2>3 DEF Shape
<1>3. ASSUME NEW h \in Harts, NEW v \in VPages, NEW acc \in Accesses, Access(h, v, acc)
      PROVE  TypeOK' /\ Shape'
  <2> DEFINE k == KeyOf(h, v, acc)
             p == Path(mem, v, root[h])
  <2>1. k \in Keys /\ k.v = v
    BY KeyOfFacts
  <2>2. Accessed(h, k, p)
    BY <1>3, AccessFacts
  <2> HIDE DEF k, p
  <2>3. /\ mem' \in Memories /\ p \in Seq(Tables)
        /\ known' = [g \in Harts |-> [s \in Slots |-> known'[g][s]]]
        /\ \A g \in Harts, s \in Slots :
             known'[g][s] = IF g = h THEN Remembered(known[h], p)[s] ELSE known[g][s]
        /\ tlb' = [g \in Harts |-> [s \in Sets |-> tlb'[g][s]]]
    BY <2>2 DEF Accessed
  <2>4. UNCHANGED <<root, ctx, stale>>
    BY <1>3 DEF Access
  <2>5. ASSUME NEW g \in Harts, NEW s \in Sets
        PROVE  tlb'[g][s] # NoEntry => /\ tlb'[g][s].key \in Keys /\ tlb'[g][s].pa \in Pages
                                       /\ SetOf[tlb'[g][s].key.v] = s
    <3>1. CASE tlb'[g][s] = tlb[g][s]
      BY <3>1 DEF TypeOK
    <3>2. CASE /\ s = SetOf[v]
               /\ tlb'[g][s] = [key |-> k, pa |-> Translate(mem, k)]
               /\ Translate(mem, k) \in Pages
      <4>1. tlb'[g][s].key = k /\ tlb'[g][s].pa = Translate(mem, k)
        BY <3>2
      <4> QED
        BY <2>1, <3>2, <4>1
    <3> QED
      BY <2>1, <2>2, <3>1, <3>2 DEF Accessed
  <2>6. ASSUME NEW g \in Harts, NEW s \in Slots
        PROVE  known'[g][s] # NoTable => known'[g][s] \in Tables /\ SlotOf[known'[g][s]] = s
    <3>1. known[g][s] # NoTable => known[g][s] \in Tables /\ SlotOf[known[g][s]] = s
      BY DEF TypeOK
    <3>2. CASE g = h
      <4>1. known'[g][s] = known[g][s] \/ \E n \in 1 .. Len(p) : known'[g][s] = p[n] /\ SlotOf[p[n]] = s
        BY <2>3, <3>2, RememberedSlot
      <4>2. \A n \in 1 .. Len(p) : p[n] \in Tables
        BY <2>3, ElementOfSeq
      <4> QED
        BY <3>1, <4>1, <4>2
    <3>3. CASE g # h
      BY <2>3, <3>1, <3>3
    <3> QED
      BY <3>2, <3>3
  <2>7. mem' \in [Tables -> [Idx -> Ptes]] /\ DOMAIN tlb' = Harts
    BY <2>3 DEF Memories
  <2>8. root' \in [Harts -> Ppns] /\ ctx' \in [Harts -> Contexts] /\ stale' \in [Harts -> BOOLEAN]
    BY <2>4 DEF TypeOK
  <2>9. TypeOK'
    BY <2>5, <2>6, <2>7, <2>8 DEF TypeOK
  <2> QED
    BY <2>9, <2>3 DEF Shape
<1>4. ASSUME NEW h \in Harts, NEW w \in Writes, Store(h, w) PROVE TypeOK' /\ Shape'
  <2>1. mem' \in Memories
    BY <1>0, <1>4, WrittenFacts DEF Store
  <2>2. /\ UNCHANGED <<root, ctx, known>> /\ stale' = [o \in Harts |-> stale[o] \/ o # h]
        /\ tlb' = Flushed(tlb, h) \/ tlb' = tlb
    BY <1>4 DEF Store
  <2>3. /\ DOMAIN tlb' = Harts /\ tlb' = [g \in Harts |-> [s \in Sets |-> tlb'[g][s]]]
        /\ \A g \in Harts, s \in Sets : tlb'[g][s] \in {NoEntry, tlb[g][s]}
    <3>1. CASE tlb' = tlb
      BY <1>0, <3>1 DEF Shape
    <3>2. CASE tlb' = Flushed(tlb, h)
      BY <3>2, FlushedFacts
    <3> QED
      BY <2>2, <3>1, <3>2
  <2>4. root' \in [Harts -> Ppns] /\ ctx' \in [Harts -> Contexts] /\ stale' \in [Harts -> BOOLEAN]
    BY <2>2 DEF TypeOK
  <2>5. TypeOK'
    BY <2>1, <2>2, <2>3, <2>4, CacheKept
  <2> QED
    BY <2>2, <2>3, <2>5 DEF Shape
<1>5. ASSUME NEW h \in Harts, mem' \in Memories, root' \in [Harts -> Ppns], ctx' = ctx, known' = known,
             stale' \in [Harts -> BOOLEAN], tlb' = Flushed(tlb, h)
      PROVE  TypeOK' /\ Shape'
  <2>1. /\ DOMAIN tlb' = Harts /\ tlb' = [g \in Harts |-> [s \in Sets |-> tlb'[g][s]]]
        /\ \A g \in Harts, s \in Sets : tlb'[g][s] \in {NoEntry, tlb[g][s]}
    BY <1>5, FlushedFacts
  <2>2. ctx' \in [Harts -> Contexts]
    BY <1>5 DEF TypeOK
  <2>3. TypeOK'
    BY <1>5, <2>1, <2>2, CacheKept
  <2> QED
    BY <1>5, <2>1, <2>3 DEF Shape
<1>6. ASSUME NEW h \in Harts, NEW w \in Writes, HostStore(h, w) PROVE TypeOK' /\ Shape'
  <2>1. mem' \in Memories
    BY <1>0, <1>6, WrittenFacts DEF HostStore
  <2>2. /\ root' \in [Harts -> Ppns] /\ ctx' = ctx /\ known' = known
        /\ stale' \in [Harts -> BOOLEAN] /\ tlb' = Flushed(tlb, h)
    BY <1>6 DEF HostStore, TypeOK
  <2> QED
    BY <1>5, <2>1, <2>2
<1>7. ASSUME NEW h \in Harts, SfenceVma(h) PROVE TypeOK' /\ Shape'
  <2>1. /\ mem' \in Memories /\ root' \in [Harts -> Ppns] /\ ctx' = ctx /\ known' = known
        /\ stale' \in [Harts -> BOOLEAN] /\ tlb' = Flushed(tlb, h)
    BY <1>0, <1>7 DEF SfenceVma, TypeOK
  <2> QED
    BY <1>5, <2>1
<1>8. ASSUME NEW h \in Harts, NEW q \in Roots, WriteSatp(h, q) PROVE TypeOK' /\ Shape'
  <2>1. q \in Ppns
    BY ShapeAssumption
  <2>2. /\ mem' \in Memories /\ root' \in [Harts -> Ppns] /\ ctx' = ctx /\ known' = known
        /\ stale' \in [Harts -> BOOLEAN] /\ tlb' = Flushed(tlb, h)
    BY <1>0, <1>8, <2>1 DEF WriteSatp, TypeOK
  <2> QED
    BY <1>5, <2>2
<1>9. ASSUME NEW h \in Harts, NEW c \in Contexts, SetContext(h, c) PROVE TypeOK' /\ Shape'
  <2>1. UNCHANGED <<mem, root, tlb, known, stale>> /\ ctx' \in [Harts -> Contexts]
    BY <1>9 DEF SetContext, TypeOK
  <2>2. root' \in [Harts -> Ppns] /\ stale' \in [Harts -> BOOLEAN]
    BY <2>1 DEF TypeOK
  <2>3. TypeOK'
    BY <1>0, <2>1, <2>2, CacheKept
  <2> QED
    BY <2>1, <2>3 DEF Shape
<1> QED
  BY <1>1, <1>2, <1>3, <1>4, <1>6, <1>7, <1>8, <1>9 DEF Next

\* So do the initial states.
LEMMA TypeInit == Init => TypeOK /\ Shape
<1> SUFFICES ASSUME Init PROVE TypeOK /\ Shape
  OBVIOUS
<1>1. Invalid \in Ptes
  BY ShapeAssumption DEF Invalid, Ptes, Flags
<1>2. mem \in [Tables -> [Idx -> Ptes]] /\ root \in [Harts -> Ppns]
  BY <1>1, ShapeAssumption DEF Init
<1>3. \A h \in Harts : (\A s \in Sets : tlb[h][s] = NoEntry) /\ \A s \in Slots : known[h][s] = NoTable
  BY DEF Init
<1>4. Shape
  BY DEF Init, Shape
<1>5. ctx \in [Harts -> Contexts] /\ stale \in [Harts -> BOOLEAN] /\ DOMAIN tlb = Harts
  BY DEF Init
<1> QED
  BY <1>2, <1>3, <1>4, <1>5 DEF TypeOK

\* Memory holds page-table entries, and what a hart caches and remembers is
\* where it looks for it, after every sequence of accesses, stores and fences.
THEOREM Typing == Spec => []TypeOK
<1>1. TypeOK /\ Shape /\ [Next]_vars => TypeOK' /\ Shape'
  BY TypeStep
<1> QED
  BY <1>1, TypeInit, PTL DEF Spec

-----------------------------------------------------------------------------
\* Soundness of the cached translations.

\* A store to a table its hart does not remember leaves an entry sound.
LEMMA StoreKeepsSound ==
  ASSUME TypeOK, NEW h \in Harts, NEW w \in Writes, NEW e, e.key \in Keys, Sound(mem, known[h], e),
         mem' = Written(w), known' = known, known[h][SlotOf[w[1]]] # w[1]
  PROVE  Sound(mem', known'[h], e)
<1> DEFINE k == e.key
           p == Path(mem, k.v, k.root)
<1>1. mem \in Memories
  BY DEF TypeOK, Memories
<1>2. mem' \in Memories /\ \A t \in Tables : t # w[1] => mem'[t] = mem[t]
  BY <1>1, WrittenFacts
<1>3. k.v \in Virtuals /\ k.root \in Ppns
  BY KeyParts
<1>4. p \in Seq(Tables)
  BY <1>1, <1>3, PathFacts
<1>5. \A j \in 1 .. Len(p) : mem'[p[j]] = mem[p[j]]
  <2> TAKE j \in 1 .. Len(p)
  <2>1. known[h][SlotOf[p[j]]] = p[j]
    BY DEF Sound
  <2>2. p[j] \in Tables
    BY <1>4, ElementOfSeq
  <2> QED
    BY <1>2, <2>1, <2>2
<1> HIDE DEF k
<1>6. /\ Path(mem', k.v, k.root) = p
      /\ Translate(mem', k) = Translate(mem, k)
      /\ p # << >> => LastPte(mem', k.v, p) = LastPte(mem, k.v, p)
  BY <1>1, <1>2, <1>3, <1>5, ElsewhereWalk
<1> QED
  BY <1>6 DEF Sound, k

\* Another access leaves an entry sound: it marks leaves and forgets no table.
LEMMA AccessKeepsSound ==
  ASSUME OwnSlots, TypeOK, Shape, NEW h \in Harts, NEW k, NEW p, Accessed(h, k, p),
         NEW g \in Harts, NEW e, e.key \in Keys, Sound(mem, known[g], e)
  PROVE  Sound(mem', known'[g], e)
<1> DEFINE c == e.key
           q == Path(mem, c.v, c.root)
<1>1. mem \in Memories /\ mem' \in Memories /\ OnlyMarked(mem, mem')
  BY DEF TypeOK, Memories, Accessed, OnlyMarked
<1>2. c.v \in Virtuals /\ c.root \in Ppns /\ c.acc \in Accesses
  BY KeyParts
<1>3. q \in Seq(Tables)
  BY <1>1, <1>2, PathFacts
<1>4. /\ Translate(mem, c) = e.pa /\ q # << >>
      /\ \A j \in 1 .. Len(q) : known[g][SlotOf[q[j]]] = q[j]
      /\ MarksOf(c.acc) \subseteq LastPte(mem, c.v, q).flags
  BY DEF Sound
<1> HIDE DEF c
<1>5. /\ Path(mem', c.v, c.root) = q /\ Translate(mem', c) = Translate(mem, c)
      /\ LastPte(mem, c.v, q).flags \subseteq LastPte(mem', c.v, q).flags
  BY <1>1, <1>2, <1>4, MarkedWalk
<1>6. ASSUME NEW j \in 1 .. Len(q) PROVE known'[g][SlotOf[q[j]]] = q[j]
  <2>1. q[j] \in Tables
    BY <1>3, ElementOfSeq
  <2>2. SlotOf[q[j]] \in Slots
    BY <2>1, ShapeAssumption
  <2>3. known'[g][SlotOf[q[j]]] =
          IF g = h THEN Remembered(known[h], p)[SlotOf[q[j]]] ELSE known[g][SlotOf[q[j]]]
    BY <2>2 DEF Accessed
  <2>4. CASE g = h
    <3>1. p \in Seq(Tables) /\ known[h][SlotOf[q[j]]] = q[j]
      BY <1>4, <2>4 DEF Accessed
    <3>2. Remembered(known[h], p)[SlotOf[q[j]]] = q[j]
      BY <2>1, <3>1, RememberedGrows
    <3> QED
      BY <2>3, <2>4, <3>2
  <2>5. CASE g # h
    BY <1>4, <2>3, <2>5
  <2> QED
    BY <2>4, <2>5
<1> HIDE DEF q
<1>7. /\ Translate(mem', c) = e.pa /\ Path(mem', c.v, c.root) = q /\ q # << >>
      /\ \A j \in 1 .. Len(q) : known'[g][SlotOf[q[j]]] = q[j]
      /\ MarksOf(c.acc) \subseteq LastPte(mem', c.v, q).flags
  BY <1>4, <1>5, <1>6
<1> QED
  BY <1>7 DEF Sound, c

\* The entry an access adds is sound.
LEMMA AccessAddsSound ==
  ASSUME OwnSlots, TypeOK, Shape, NEW h \in Harts, NEW k \in Keys,
         Accessed(h, k, Path(mem, k.v, k.root)), NEW e, e.key = k, e.pa = Translate(mem, k),
         Path(mem, k.v, k.root) # << >>,
         MarksOf(k.acc) \subseteq LastPte(mem', k.v, Path(mem, k.v, k.root)).flags
  PROVE  Sound(mem', known'[h], e)
<1> DEFINE p == Path(mem, k.v, k.root)
<1>1. mem \in Memories /\ mem' \in Memories /\ OnlyMarked(mem, mem')
  BY DEF TypeOK, Memories, Accessed, OnlyMarked
<1>2. k.v \in Virtuals /\ k.root \in Ppns /\ k.acc \in Accesses
  BY KeyParts
<1>3. p \in Seq(Tables)
  BY <1>1, <1>2, PathFacts
<1>4. Path(mem', k.v, k.root) = p /\ Translate(mem', k) = Translate(mem, k)
  BY <1>1, <1>2, MarkedWalk
<1>5. ASSUME NEW j \in 1 .. Len(p) PROVE known'[h][SlotOf[p[j]]] = p[j]
  <2>1. p[j] \in Tables
    BY <1>3, ElementOfSeq
  <2>2. SlotOf[p[j]] \in Slots
    BY <2>1, ShapeAssumption
  <2>3. known'[h][SlotOf[p[j]]] = Remembered(known[h], p)[SlotOf[p[j]]]
    BY <2>2 DEF Accessed
  <2>4. Remembered(known[h], p)[SlotOf[p[j]]] = p[j]
    <3> DEFINE a == p[j]
    <3>1. \E n \in 1 .. Len(p) : p[n] = a
      OBVIOUS
    <3>2. a \in Tables
      BY <2>1
    <3> HIDE DEF a
    <3>3. Remembered(known[h], p)[SlotOf[a]] = a
      BY <1>3, <3>1, <3>2, RememberedGrows
    <3> QED
      BY <3>3 DEF a
  <2> QED
    BY <2>3, <2>4
<1> HIDE DEF p
<1>6. /\ Translate(mem', k) = e.pa /\ Path(mem', k.v, k.root) = p /\ p # << >>
      /\ \A j \in 1 .. Len(p) : known'[h][SlotOf[p[j]]] = p[j]
      /\ MarksOf(k.acc) \subseteq LastPte(mem', k.v, p).flags
  BY <1>4, <1>5 DEF p
<1> QED
  BY <1>6 DEF Sound

\* Every step keeps the cached translations of a hart that is not stale sound.
LEMMA SoundStep ==
  ASSUME OwnSlots, TypeOK, Shape, EntriesSound, [Next]_vars
  PROVE  EntriesSound'
<1> SUFFICES ASSUME NEW g \in Harts, NEW s \in Sets, ~stale'[g], tlb'[g][s] # NoEntry
             PROVE  Sound(mem', known'[g], tlb'[g][s])
  BY DEF EntriesSound
<1>0. tlb[g][s] # NoEntry => tlb[g][s].key \in Keys
  BY DEF TypeOK
<1>1. CASE UNCHANGED vars
  BY <1>1 DEF vars, EntriesSound
<1>2. ASSUME NEW w \in Writes, DeviceStore(w) PROVE FALSE
  BY <1>2 DEF DeviceStore
<1>3. ASSUME NEW h \in Harts, NEW v \in VPages, NEW acc \in Accesses, Access(h, v, acc)
      PROVE  Sound(mem', known'[g], tlb'[g][s])
  <2> DEFINE k == KeyOf(h, v, acc)
             p == Path(mem, v, root[h])
  <2>1. k \in Keys /\ k.v = v /\ k.root = root[h]
    BY KeyOfFacts
  <2>2. Accessed(h, k, p)
    BY <1>3, AccessFacts
  <2>3. p = Path(mem, k.v, k.root)
    BY <2>1
  <2> HIDE DEF k, p
  <2>4. stale' = stale
    BY <1>3 DEF Access
  <2>5. CASE tlb'[g][s] = tlb[g][s]
    <3>1. Sound(mem, known[g], tlb[g][s])
      BY <2>4, <2>5 DEF EntriesSound
    <3> DEFINE e == tlb[g][s]
    <3>2. e.key \in Keys
      BY <1>0, <2>5
    <3> HIDE DEF e
    <3>3. Sound(mem', known'[g], tlb'[g][s]) <=> Sound(mem', known'[g], tlb[g][s])
      BY <2>5
    <3> QED
      BY <2>2, <2>5, <3>1, <3>2, AccessKeepsSound DEF e
  <2>6. CASE /\ g = h
             /\ tlb'[g][s] = [key |-> k, pa |-> Translate(mem, k)]
             /\ p # << >>
             /\ MarksOf(k.acc) \subseteq LastPte(mem', k.v, p).flags
    BY <2>1, <2>2, <2>3, <2>6, AccessAddsSound
  <2> QED
    BY <2>2, <2>5, <2>6 DEF Accessed
<1>4. ASSUME NEW h \in Harts, NEW w \in Writes, Store(h, w) PROVE Sound(mem', known'[g], tlb'[g][s])
  <2>1. g = h /\ ~stale[g] /\ mem' = Written(w) /\ known' = known
    BY <1>4 DEF Store
  <2>2. known[h][SlotOf[w[1]]] # w[1] /\ tlb' = tlb
    <3>1. tlb' # Flushed(tlb, h)
      BY <2>1, FlushedFacts
    <3> QED
      BY <1>4, <3>1 DEF Store
  <2>3. Sound(mem, known[g], tlb[g][s]) /\ tlb[g][s].key \in Keys
    BY <1>0, <2>1, <2>2 DEF EntriesSound
  <2> QED
    BY <2>1, <2>2, <2>3, StoreKeepsSound
<1>5. ASSUME NEW h \in Harts, tlb' = Flushed(tlb, h), mem' = mem, known' = known, \A o \in Harts : o # h => stale'[o] = stale[o]
      PROVE  Sound(mem', known'[g], tlb'[g][s])
  <2>1. g # h /\ tlb'[g][s] = tlb[g][s]
    BY <1>5, FlushedFacts
  <2>2. Sound(mem, known[g], tlb[g][s])
    BY <1>5, <2>1 DEF EntriesSound
  <2> QED
    BY <1>5, <2>1, <2>2
<1>6. ASSUME NEW h \in Harts, NEW w \in Writes, HostStore(h, w) PROVE FALSE
  <2>1. tlb' = Flushed(tlb, h) /\ g = h
    BY <1>6 DEF HostStore
  <2> QED
    BY <2>1, FlushedFacts
<1>7. ASSUME NEW h \in Harts, SfenceVma(h) PROVE Sound(mem', known'[g], tlb'[g][s])
  <2>1. tlb' = Flushed(tlb, h) /\ mem' = mem /\ known' = known /\ \A o \in Harts : o # h => stale'[o] = stale[o]
    BY <1>7 DEF SfenceVma, TypeOK
  <2> QED
    BY <1>5, <2>1
<1>8. ASSUME NEW h \in Harts, NEW q \in Roots, WriteSatp(h, q) PROVE Sound(mem', known'[g], tlb'[g][s])
  <2>1. tlb' = Flushed(tlb, h) /\ mem' = mem /\ known' = known /\ \A o \in Harts : o # h => stale'[o] = stale[o]
    BY <1>8 DEF WriteSatp, TypeOK
  <2> QED
    BY <1>5, <2>1
<1>9. ASSUME NEW h \in Harts, NEW c \in Contexts, SetContext(h, c) PROVE Sound(mem', known'[g], tlb'[g][s])
  BY <1>9 DEF SetContext, EntriesSound
<1> QED
  BY <1>1, <1>2, <1>3, <1>4, <1>6, <1>7, <1>8, <1>9 DEF Next

-----------------------------------------------------------------------------
\* Theorems.

\* With a slot for each page-table page, the invariant holds in every state.
LEMMA Invariance ==
  ASSUME OwnSlots
  PROVE  Spec => [](TypeOK /\ Shape /\ EntriesSound)
<1>1. Init => TypeOK /\ Shape /\ EntriesSound
  <2>1. Init => EntriesSound
    BY DEF Init, EntriesSound
  <2> QED
    BY <2>1, TypeInit
<1>2. TypeOK /\ Shape /\ EntriesSound /\ [Next]_vars => TypeOK' /\ Shape' /\ EntriesSound'
  BY TypeStep, SoundStep
<1> QED
  BY <1>1, <1>2, PTL DEF Spec

\* What a hart answers from its cache comes from a sound entry.
LEMMA HitSound ==
  ASSUME TypeOK, EntriesSound, NEW h \in Harts, ~stale[h], NEW v \in VPages, NEW acc \in Accesses,
         Hit(h, KeyOf(h, v, acc))
  PROVE  LET k == KeyOf(h, v, acc)
             e == tlb[h][SetOf[v]]
         IN e.key = k /\ e # NoEntry /\ k.v = v /\ k.acc = acc /\ k.root = root[h]
            /\ Sound(mem, known[h], e)
<1> DEFINE k == KeyOf(h, v, acc)
           e == tlb[h][SetOf[v]]
<1>1. k.v = v /\ k.acc = acc /\ k.root = root[h]
  BY KeyOfFacts
<1>2. SetOf[v] \in Sets
  BY ShapeAssumption
<1>3. e # NoEntry /\ e.key = k
  BY <1>1 DEF Hit
<1>4. Sound(mem, known[h], e)
  BY <1>2, <1>3 DEF EntriesSound
<1> QED
  BY <1>1, <1>3, <1>4

\* A hart's own page-table stores reach its next access without a fence, and
\* those of other writers after its next SFENCE.VMA or satp write.
THEOREM CacheCoherent ==
  ASSUME OwnSlots
  PROVE  Spec => []CachedMatchesWalk
<1>1. EntriesSound => CachedMatchesWalk
  <2> SUFFICES ASSUME EntriesSound, NEW h \in Harts, ~stale[h], NEW e \in Entries(h)
               PROVE  Translate(mem, e.key) = e.pa
    BY DEF CachedMatchesWalk
  <2>1. PICK s \in Sets : tlb[h][s] = e /\ e # NoEntry
    BY DEF Entries
  <2>2. Sound(mem, known[h], e)
    BY <2>1 DEF EntriesSound
  <2> QED
    BY <2>2 DEF Sound
<1> QED
  BY <1>1, Invariance, PTL

\* Whatever access the cache answers, the leaf has the A and D bits it sets.
THEOREM MarksNotHidden ==
  ASSUME OwnSlots
  PROVE  Spec => []HitsAreMarked
<1>1. TypeOK /\ EntriesSound => HitsAreMarked
  <2> SUFFICES ASSUME TypeOK, EntriesSound, NEW h \in Harts, ~stale[h], NEW v \in VPages,
                      NEW acc \in Accesses, Hit(h, KeyOf(h, v, acc))
               PROVE  LET flags == LastPte(mem, v, Path(mem, v, root[h])).flags
                      IN "A" \in flags /\ (acc = "Store" => "D" \in flags)
    BY DEF HitsAreMarked
  <2> DEFINE k == KeyOf(h, v, acc)
             e == tlb[h][SetOf[v]]
  <2>1. /\ e.key = k /\ k.v = v /\ k.acc = acc /\ k.root = root[h]
        /\ Sound(mem, known[h], e)
    BY HitSound
  <2> HIDE DEF k, e
  <2>2. MarksOf(acc) \subseteq LastPte(mem, v, Path(mem, v, root[h])).flags
    BY <2>1 DEF Sound
  <2> QED
    BY <2>2 DEF MarksOf
<1> QED
  BY <1>1, Invariance, PTL

\* Every access of a hart that is not stale gets what the tables, its satp and
\* its privilege, SUM and MXR give at that moment.
THEOREM AnswersCorrect ==
  ASSUME OwnSlots
  PROVE  Spec => []AnswersAreCurrent
<1>1. TypeOK /\ EntriesSound => AnswersAreCurrent
  <2> SUFFICES ASSUME TypeOK, EntriesSound, NEW h \in Harts, ~stale[h], NEW v \in VPages,
                      NEW acc \in Accesses
               PROVE  Answer(h, KeyOf(h, v, acc)) = Translate(mem, KeyOf(h, v, acc))
    BY DEF AnswersAreCurrent
  <2> DEFINE k == KeyOf(h, v, acc)
             e == tlb[h][SetOf[v]]
  <2>1. CASE Hit(h, k)
    <3>1. e.key = k /\ k.v = v /\ Sound(mem, known[h], e)
      BY <2>1, HitSound
    <3> HIDE DEF k
    <3>2. Answer(h, k) = e.pa
      BY <2>1, <3>1 DEF Answer
    <3>3. e.pa = Translate(mem, k)
      BY <3>1 DEF Sound
    <3> QED
      BY <3>2, <3>3 DEF k
  <2>2. CASE ~Hit(h, k)
    BY <2>2 DEF Answer
  <2> QED
    BY <2>1, <2>2
<1> QED
  BY <1>1, Invariance, PTL

=============================================================================
