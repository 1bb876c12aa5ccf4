--------------------------- MODULE DiskPath_proofs ---------------------------
(***************************************************************************)
(* The disk path, for every queue size, index width, read-ahead, number of *)
(* harts and set of requests.                                              *)
(***************************************************************************)
EXTENDS DiskPath, FiniteSetTheorems, SequenceTheorems, WellFoundedInduction, TLAPS

-----------------------------------------------------------------------------
\* Ring indices.

\* Division with remainder.
LEMMA Division ==
  ASSUME NEW m \in Nat \ {0}, NEW a \in Int
  PROVE  a = m * (a \div m) + (a % m) /\ a \div m \in Int /\ a % m \in 0 .. m - 1
  OBVIOUS

\* Numbers less than m apart have different remainders.
LEMMA Apart ==
  ASSUME NEW m \in Nat \ {0}, NEW a \in Int, NEW b \in Int, a < b, b - a < m
  PROVE  a % m # b % m
<1> DEFINE k == a \div m
           l == b \div m
<1> SUFFICES ASSUME a % m = b % m PROVE FALSE
  OBVIOUS
<1>1. /\ a = m * k + (a % m) /\ b = m * l + (b % m)
      /\ k \in Int /\ l \in Int /\ a % m \in Int /\ b % m \in Int
  BY Division
<1> HIDE DEF k, l
<1>2. b - a = m * (l - k)
  BY <1>1
<1>3. CASE l - k >= 1
  <2>1. m * (l - k) >= m * 1
    BY <1>1, <1>3
  <2> QED
    BY <1>2, <2>1
<1>4. CASE l - k <= 0
  <2>1. m * (l - k) <= 0
    BY <1>1, <1>4
  <2> QED
    BY <1>2, <2>1
<1> QED
  BY <1>1, <1>3, <1>4

\* Adding a multiple of m changes no remainder.
LEMMA Periodic ==
  ASSUME NEW m \in Nat \ {0}, NEW n \in Nat, n % m = 0, NEW a \in Int
  PROVE  (a - n) % m = a % m
<1> DEFINE k == a \div m
           l == n \div m
           j == (a - n) \div m
           r == a % m
           q == (a - n) % m
<1>1. a = m * k + r /\ k \in Int /\ r \in 0 .. m - 1
  BY Division
<1>2. n = m * l /\ l \in Int
  <2>1. n = m * l + (n % m) /\ l \in Int
    BY Division
  <2> QED
    BY <2>1
<1>3. a - n = m * j + q /\ j \in Int /\ q \in 0 .. m - 1
  <2>1. a - n \in Int
    OBVIOUS
  <2> QED
    BY <2>1, Division
<1> HIDE DEF k, l, j, r, q
<1>4. q - r = m * (k - l - j) /\ q \in Int /\ r \in Int
  BY <1>1, <1>2, <1>3
<1>5. CASE k - l - j >= 1
  <2>1. m * (k - l - j) >= m * 1
    BY <1>1, <1>2, <1>3, <1>5
  <2> QED
    BY <1>1, <1>3, <1>4, <2>1
<1>6. CASE k - l - j <= -1
  <2>1. m * (k - l - j) <= m * (-1)
    BY <1>1, <1>2, <1>3, <1>6
  <2> QED
    BY <1>1, <1>3, <1>4, <2>1
<1>7. CASE k - l - j = 0
  BY <1>4, <1>7 DEF q, r
<1> QED
  BY <1>1, <1>2, <1>3, <1>5, <1>6, <1>7

\* A remainder once round the ring of indices, or none.
LEMMA OnceRound ==
  ASSUME NEW a \in Int, a >= -IdxMod, a < 2 * IdxMod
  PROVE  a % IdxMod = IF a < 0 THEN a + IdxMod ELSE IF a < IdxMod THEN a ELSE a - IdxMod
<1>1. IdxMod \in Nat \ {0}
  BY DiskAssumption
<1>2. CASE a < 0
  BY <1>1, <1>2
<1>3. CASE a >= 0 /\ a < IdxMod
  BY <1>1, <1>3
<1>4. CASE a >= IdxMod
  BY <1>1, <1>4
<1> QED
  BY <1>1, <1>2, <1>3, <1>4

Indices == 0 .. IdxMod - 1

\* The index n entries on, and the distance back.
LEMMA PlusFacts ==
  ASSUME NEW x \in Indices, NEW n \in 0 .. Q
  PROVE  /\ Plus(x, n) \in Indices /\ Distance(x, Plus(x, n)) = n
         /\ Plus(x, 0) = x
         /\ \A k \in 0 .. Q : n + k <= Q => Plus(Plus(x, n), k) = Plus(x, n + k)
<1>1. IdxMod \in Nat /\ Q \in Nat /\ IdxMod > Q /\ x \in Int /\ n \in Int
  BY DiskAssumption DEF Indices
<1>2. \A k \in 0 .. Q : Plus(x, k) = IF x + k < IdxMod THEN x + k ELSE x + k - IdxMod
  BY <1>1, OnceRound DEF Plus, Indices
<1>3. Plus(x, n) \in Indices
  BY <1>1, <1>2 DEF Indices
<1>4. \A k \in 0 .. Q : Plus(Plus(x, n), k) = IF Plus(x, n) + k < IdxMod THEN Plus(x, n) + k
                                                                        ELSE Plus(x, n) + k - IdxMod
  <2> TAKE k \in 0 .. Q
  <2> DEFINE y == Plus(x, n)
  <2> HIDE DEF y
  <2>1. y \in Indices
    BY <1>3 DEF y
  <2>2. y + k \in Int /\ y + k >= 0 /\ y + k >= -IdxMod /\ y + k < 2 * IdxMod
    BY <1>1, <2>1 DEF Indices
  <2>4. (y + k) % IdxMod = IF y + k < IdxMod THEN y + k ELSE y + k - IdxMod
    <3> PICK z : z = y + k
      OBVIOUS
    <3>1. z \in Int /\ z >= 0 /\ z >= -IdxMod /\ z < 2 * IdxMod
      BY <2>2
    <3>2. z % IdxMod = IF z < IdxMod THEN z ELSE z - IdxMod
      BY <1>1, <3>1, OnceRound
    <3> QED
      BY <1>1, <2>1, <3>1, <3>2 DEF Indices
  <2>3. Plus(y, k) = IF y + k < IdxMod THEN y + k ELSE y + k - IdxMod
    BY <2>4 DEF Plus
  <2> QED
    BY <2>3 DEF y
<1>5. Distance(x, Plus(x, n)) = n
  <2>1. Plus(x, n) - x \in Int /\ Plus(x, n) - x >= -IdxMod /\ Plus(x, n) - x < 2 * IdxMod
    BY <1>1, <1>3 DEF Indices
  <2>2. Distance(x, Plus(x, n)) = IF Plus(x, n) - x < 0 THEN Plus(x, n) - x + IdxMod
                                  ELSE IF Plus(x, n) - x < IdxMod THEN Plus(x, n) - x
                                  ELSE Plus(x, n) - x - IdxMod
    BY <2>1, OnceRound DEF Distance
  <2> QED
    BY <1>1, <1>2, <2>2 DEF Indices
<1> QED
  BY <1>1, <1>2, <1>3, <1>4, <1>5 DEF Indices

\* The distance between two indices leads from one to the other.
LEMMA DistanceFacts ==
  ASSUME NEW x \in Indices, NEW y \in Indices
  PROVE  /\ Distance(x, y) \in Indices /\ Plus(x, Distance(x, y)) = y
         /\ Distance(x, y) = 0 <=> x = y
<1>1. IdxMod \in Nat /\ Q \in Nat /\ IdxMod > Q /\ x \in Int /\ y \in Int
  BY DiskAssumption DEF Indices
<1>2. Distance(x, y) = IF y < x THEN y - x + IdxMod ELSE y - x
  BY <1>1, OnceRound DEF Distance, Indices
<1>3. Distance(x, y) \in Indices
  BY <1>1, <1>2 DEF Indices
<1>4. x + Distance(x, y) \in Int /\ x + Distance(x, y) >= -IdxMod /\ x + Distance(x, y) < 2 * IdxMod
  BY <1>1, <1>3 DEF Indices
<1>5. Plus(x, Distance(x, y)) = y
  BY <1>1, <1>2, <1>4, OnceRound DEF Plus, Indices
<1>6. Distance(x, y) = 0 <=> x = y
  BY <1>1, <1>2 DEF Indices
<1> QED
  BY <1>3, <1>5, <1>6

\* The slot of the ring that holds the entry n places after index x.
Place(x, n) == Plus(x, n) % Q

\* Q entries in a row have a slot each.
LEMMA Places ==
  ASSUME NEW x \in Indices, NEW n \in 0 .. Q
  PROVE  /\ Place(x, n) \in Heads
         /\ \A k \in 0 .. Q : k # n /\ k - n < Q /\ n - k < Q => Place(x, k) # Place(x, n)
<1>1. IdxMod \in Nat /\ Q \in Nat \ {0} /\ IdxMod > Q /\ x \in Int /\ IdxMod % Q = 0
  BY DiskAssumption DEF Indices
<1>2. ASSUME NEW k \in 0 .. Q
      PROVE  Place(x, k) = (x + k) % Q /\ Place(x, k) \in Heads
  <2>1. x + k \in Int /\ x + k >= 0 /\ x + k < 2 * IdxMod
    BY <1>1 DEF Indices
  <2>2. Place(x, k) = (x + k) % Q
    <3>1. CASE x + k < IdxMod
      <4>1. Plus(x, k) = x + k
        BY <1>1, <2>1, <3>1, OnceRound DEF Plus
      <4> QED
        BY <4>1, Zenon DEF Place
    <3>2. CASE x + k >= IdxMod
      <4>1. Plus(x, k) = (x + k) - IdxMod
        BY <1>1, <2>1, <3>2, OnceRound DEF Plus
      <4> PICK z : z = (x + k) - IdxMod
        OBVIOUS
      <4>2. z % Q = (x + k) % Q
        BY <1>1, <2>1, Periodic
      <4>3. Plus(x, k) = z
        BY <4>1
      <4> QED
        BY <4>2, <4>3, Zenon DEF Place
    <3> QED
      BY <1>1, <2>1, <3>1, <3>2
  <2> QED
    BY <1>1, <2>1, <2>2, Division DEF Heads
<1>3. ASSUME NEW k \in 0 .. Q, k # n, k - n < Q, n - k < Q
      PROVE  Place(x, k) # Place(x, n)
  <2>1. Place(x, k) = (x + k) % Q /\ Place(x, n) = (x + n) % Q
    BY <1>2
  <2>2. x + k \in Int /\ x + n \in Int /\ (x + k) - (x + n) < Q /\ (x + n) - (x + k) < Q
    BY <1>1, <1>3
  <2>3. CASE k < n
    <3>1. x + k < x + n
      BY <1>1, <2>3
    <3> QED
      BY <1>1, <2>1, <2>2, <3>1, Apart
  <2>4. CASE n < k
    <3>1. x + n < x + k
      BY <1>1, <2>4
    <3> QED
      BY <1>1, <2>1, <2>2, <3>1, Apart
  <2> QED
    BY <1>1, <1>3, <2>3, <2>4
<1> QED
  BY <1>2, <1>3

-----------------------------------------------------------------------------
\* Folds.

\* A non-empty set of natural numbers has a least member.
LEMMA LeastOf ==
  ASSUME NEW S \in SUBSET Nat, S # {}
  PROVE  \E n \in S : \A m \in S : n <= m
<1> DEFINE R == OpToRel(<, Nat)
<1>1. IsWellFoundedOn(R, Nat)
  BY NatLessThanWellFounded
<1>2. \A x, y \in Nat : <<y, x>> \in R <=> y < x
  BY DEF OpToRel
<1> HIDE DEF R
<1>3. PICK n \in S : \A y \in S : ~(<<y, n>> \in R)
  BY <1>1, WFMin
<1>4. ASSUME NEW m \in S PROVE n <= m
  <2>1. ~(m < n) /\ m \in Nat /\ n \in Nat
    BY <1>2, <1>3
  <2> QED
    BY <2>1
<1> QED
  BY <1>4

\* The greatest of the first k numbers, and of those before it.
LEMMA Greatest ==
  ASSUME NEW k \in Nat, NEW S \in SUBSET (1 .. k), S # {}
  PROVE  /\ Max(S) \in S /\ \A x \in S : x <= Max(S)
         /\ k \in S => Max(S) = k
<1> DEFINE left == {k - x : x \in S}
<1>1. left \in SUBSET Nat /\ left # {} /\ \A x \in S : k - x \in left
  <2>1. \A x \in S : x \in Nat /\ k - x \in Nat /\ k - x \in left
    OBVIOUS
  <2>2. \A y \in left : y \in Nat
    BY <2>1
  <2> QED
    BY <2>1, <2>2
<1>2. PICK d \in left : \A c \in left : d <= c
  BY <1>1, LeastOf
<1>3. PICK m \in S : d = k - m
  BY <1>2
<1>4. \A x \in S : m >= x
  <2> TAKE x \in S
  <2>1. k - x \in left /\ x \in Nat /\ m \in Nat
    BY <1>1
  <2>2. k - m <= k - x
    BY <1>2, <1>3, <2>1
  <2> QED
    BY <2>1, <2>2
<1>5. Max(S) \in S /\ \A x \in S : Max(S) >= x
  BY <1>4 DEF Max
<1>6. \A x \in S : x \in Nat /\ x <= k
  OBVIOUS
<1>7. \A x \in S : x <= Max(S)
  BY <1>5, <1>6
<1>8. k \in S => Max(S) = k
  <2> HAVE k \in S
  <2>1. Max(S) \in Nat /\ Max(S) <= k /\ k <= Max(S)
    BY <1>5, <1>6, <1>7
  <2> QED
    BY <2>1
<1> QED
  BY <1>5, <1>7, <1>8

\* From a function on the sets of the first n numbers to one on their prefixes.
LEMMA PrefixFacts ==
  ASSUME NEW n \in Nat, NEW i \in 1 .. n
  PROVE  /\ 1 .. i \in SUBSET (1 .. n) /\ 1 .. i # {} /\ Max(1 .. i) = i
         /\ (1 .. i) \ {i} = 1 .. (i - 1)
         /\ i - 1 \in 0 .. n /\ i \in 0 .. n
<1>1. i \in Nat /\ i >= 1 /\ i <= n
  OBVIOUS
<1>2. i \in 1 .. i /\ \A x \in 1 .. i : x \in 1 .. n
  BY <1>1
<1>3. i - 1 \in 0 .. n /\ i \in 0 .. n
  BY <1>1
<1>4. 1 .. i \in SUBSET (1 .. n) /\ 1 .. i # {}
  BY <1>2, Zenon
<1>5. Max(1 .. i) = i
  BY <1>1, <1>2, Greatest
<1>6. (1 .. i) \ {i} = 1 .. (i - 1)
  BY <1>1
<1> QED
  BY <1>3, <1>4, <1>5, <1>6

\* f folds the first k members of s, prefix by prefix, as FoldLeft does.
Iterates(f, b, s, k) ==
  f = [S \in SUBSET (1 .. k) |->
         IF S = {} THEN b ELSE ProcessChain(f[S \ {Max(S)}], s[Max(S)])]

\* Such a function exists.
LEMMA IteratesExists ==
  ASSUME NEW b, NEW s, NEW n \in Nat
  PROVE  \E f : Iterates(f, b, s, n)
<1> DEFINE Bad == {k \in Nat : ~ \E f : Iterates(f, b, s, k)}
<1> SUFFICES ASSUME Bad # {} PROVE FALSE
  OBVIOUS
<1>1. PICK k \in Bad : \A j \in Bad : k <= j
  BY LeastOf
<1>2. k \in Nat /\ ~ \E f : Iterates(f, b, s, k)
  OBVIOUS
<1>3. CASE k = 0
  <2> DEFINE f == [S \in SUBSET (1 .. 0) |-> b]
  <2>1. \A S \in SUBSET (1 .. 0) : S = {}
    OBVIOUS
  <2>2. f = [S \in SUBSET (1 .. 0) |-> IF S = {} THEN b ELSE ProcessChain(f[S \ {Max(S)}], s[Max(S)])]
    BY <2>1
  <2>3. Iterates(f, b, s, 0)
    BY <2>2 DEF Iterates
  <2> QED
    BY <1>2, <1>3, <2>3
<1>4. CASE k # 0
  <2>1. k \in 1 .. k /\ k - 1 \in Nat /\ k - 1 \notin Bad
    BY <1>1, <1>2, <1>4
  <2>2. PICK f : Iterates(f, b, s, k - 1)
    BY <2>1
  <2>3. \A S \in SUBSET (1 .. k - 1) :
          f[S] = IF S = {} THEN b ELSE ProcessChain(f[S \ {Max(S)}], s[Max(S)])
    BY <2>2 DEF Iterates
  <2> DEFINE g == [S \in SUBSET (1 .. k) |-> IF k \in S THEN ProcessChain(f[S \ {k}], s[k]) ELSE f[S]]
  <2>4. \A S \in SUBSET (1 .. k) : S \ {k} \in SUBSET (1 .. k - 1)
    BY <1>2
  <2>5. \A S \in SUBSET (1 .. k - 1) : g[S] = f[S]
    <3> TAKE S \in SUBSET (1 .. k - 1)
    <3>1. S \in SUBSET (1 .. k) /\ k \notin S
      BY <1>2
    <3> QED
      BY <3>1
  <2>6. \A S \in SUBSET (1 .. k) : k \in S => g[S] = ProcessChain(f[S \ {k}], s[k])
    OBVIOUS
  <2>7. g = [S \in SUBSET (1 .. k) |-> g[S]]
    OBVIOUS
  <2> HIDE DEF g
  <2>8. ASSUME NEW S \in SUBSET (1 .. k)
        PROVE  g[S] = IF S = {} THEN b ELSE ProcessChain(g[S \ {Max(S)}], s[Max(S)])
    <3>1. CASE S = {}
      <4>1. S \in SUBSET (1 .. k - 1)
        BY <3>1
      <4> QED
        BY <2>3, <2>5, <3>1, <4>1
    <3>2. CASE k \in S
      <4>1. Max(S) = k
        BY <1>2, <3>2, Greatest
      <4>2. g[S \ {k}] = f[S \ {k}]
        BY <2>4, <2>5
      <4> QED
        BY <2>6, <3>2, <4>1, <4>2
    <3>3. CASE S # {} /\ k \notin S
      <4>1. S \in SUBSET (1 .. k - 1) /\ S \ {Max(S)} \in SUBSET (1 .. k - 1)
        BY <2>4, <3>3
      <4> QED
        BY <2>3, <2>5, <3>3, <4>1
    <3> QED
      BY <3>1, <3>2, <3>3
  <2>9. Iterates(g, b, s, k)
    BY <2>7, <2>8, Zenon DEF Iterates
  <2> QED
    BY <1>2, <2>9
<1> QED
  BY <1>3, <1>4

\* The device after it has processed a sequence of chains,
AllServed(b, s) == FoldLeft(ProcessChain, b, s)

\* g[i] is the device after i chains of s, from b on.
Serving(g, b, s, n) ==
  /\ g[0] = b /\ g[n] = AllServed(b, s)
  /\ \A i \in 1 .. n : g[i] = ProcessChain(g[i - 1], s[i])

\* which it processes one by one.
LEMMA FoldServes ==
  ASSUME NEW b, NEW n \in Nat, NEW s, DOMAIN s = 1 .. n
  PROVE  \E g : Serving(g, b, s, n)
<1> DEFINE iter == CHOOSE f : Iterates(f, b, s, n)
<1>1. Iterates(iter, b, s, n)
  BY IteratesExists
<1>2. \A S \in SUBSET (1 .. n) :
        iter[S] = IF S = {} THEN b ELSE ProcessChain(iter[S \ {Max(S)}], s[Max(S)])
  BY <1>1 DEF Iterates
<1>3. AllServed(b, s) = iter[1 .. n]
  BY DEF AllServed, FoldLeft, MapThenFoldSet, Iterates
<1> HIDE DEF iter
<1> DEFINE g == [i \in 0 .. n |-> iter[1 .. i]]
<1>4. g[0] = b
  <2>1. 1 .. 0 = {} /\ 0 \in 0 .. n /\ {} \in SUBSET (1 .. n)
    OBVIOUS
  <2> QED
    BY <1>2, <2>1
<1>5. ASSUME NEW i \in 1 .. n PROVE g[i] = ProcessChain(g[i - 1], s[i])
  <2>1. /\ 1 .. i \in SUBSET (1 .. n) /\ 1 .. i # {} /\ Max(1 .. i) = i
        /\ (1 .. i) \ {i} = 1 .. (i - 1)
        /\ i - 1 \in 0 .. n /\ i \in 0 .. n
    BY PrefixFacts
  <2>2. iter[1 .. i] = ProcessChain(iter[1 .. (i - 1)], s[i])
    <3>1. iter[1 .. i] = ProcessChain(iter[(1 .. i) \ {Max(1 .. i)}], s[Max(1 .. i)])
      BY <1>2, <2>1, Zenon
    <3> QED
      BY <2>1, <3>1
  <2> QED
    BY <2>1, <2>2
<1>6. g[n] = AllServed(b, s)
  <2>1. g[n] = iter[1 .. n]
    OBVIOUS
  <2> QED
    BY <1>3, <2>1, Zenon
<1> HIDE DEF g
<1> QED
  BY <1>4, <1>5, <1>6 DEF Serving

\* One sector of a read.
ReadStep(d, p, sector) ==
  LET c == Looked(d, p.cache, sector) IN
  [cache |-> c, data |-> Append(p.data, c.content[sector - c.base + 1])]

\* f folds the first k members of s, prefix by prefix, as FoldLeft does.
ReadIterates(d, f, b, s, k) ==
  f = [S \in SUBSET (1 .. k) |->
         IF S = {} THEN b ELSE ReadStep(d, f[S \ {Max(S)}], s[Max(S)])]

\* Such a function exists.
LEMMA ReadIteratesExists ==
  ASSUME NEW d, NEW b, NEW s, NEW n \in Nat
  PROVE  \E f : ReadIterates(d, f, b, s, n)
<1> DEFINE Bad == {k \in Nat : ~ \E f : ReadIterates(d, f, b, s, k)}
<1> SUFFICES ASSUME Bad # {} PROVE FALSE
  OBVIOUS
<1>1. PICK k \in Bad : \A j \in Bad : k <= j
  BY LeastOf
<1>2. k \in Nat /\ ~ \E f : ReadIterates(d, f, b, s, k)
  OBVIOUS
<1>3. CASE k = 0
  <2> DEFINE f == [S \in SUBSET (1 .. 0) |-> b]
  <2>1. \A S \in SUBSET (1 .. 0) : S = {}
    OBVIOUS
  <2>2. f = [S \in SUBSET (1 .. 0) |-> IF S = {} THEN b ELSE ReadStep(d, f[S \ {Max(S)}], s[Max(S)])]
    BY <2>1
  <2>3. ReadIterates(d, f, b, s, 0)
    BY <2>2 DEF ReadIterates
  <2> QED
    BY <1>2, <1>3, <2>3
<1>4. CASE k # 0
  <2>1. k \in 1 .. k /\ k - 1 \in Nat /\ k - 1 \notin Bad
    BY <1>1, <1>2, <1>4
  <2>2. PICK f : ReadIterates(d, f, b, s, k - 1)
    BY <2>1
  <2>3. \A S \in SUBSET (1 .. k - 1) :
          f[S] = IF S = {} THEN b ELSE ReadStep(d, f[S \ {Max(S)}], s[Max(S)])
    BY <2>2 DEF ReadIterates
  <2> DEFINE g == [S \in SUBSET (1 .. k) |-> IF k \in S THEN ReadStep(d, f[S \ {k}], s[k]) ELSE f[S]]
  <2>4. \A S \in SUBSET (1 .. k) : S \ {k} \in SUBSET (1 .. k - 1)
    BY <1>2
  <2>5. \A S \in SUBSET (1 .. k - 1) : g[S] = f[S]
    <3> TAKE S \in SUBSET (1 .. k - 1)
    <3>1. S \in SUBSET (1 .. k) /\ k \notin S
      BY <1>2
    <3> QED
      BY <3>1
  <2>6. \A S \in SUBSET (1 .. k) : k \in S => g[S] = ReadStep(d, f[S \ {k}], s[k])
    OBVIOUS
  <2>7. g = [S \in SUBSET (1 .. k) |-> g[S]]
    OBVIOUS
  <2> HIDE DEF g
  <2>8. ASSUME NEW S \in SUBSET (1 .. k)
        PROVE  g[S] = IF S = {} THEN b ELSE ReadStep(d, g[S \ {Max(S)}], s[Max(S)])
    <3>1. CASE S = {}
      <4>1. S \in SUBSET (1 .. k - 1)
        BY <3>1
      <4> QED
        BY <2>3, <2>5, <3>1, <4>1
    <3>2. CASE k \in S
      <4>1. Max(S) = k
        BY <1>2, <3>2, Greatest
      <4>2. g[S \ {k}] = f[S \ {k}]
        BY <2>4, <2>5
      <4> QED
        BY <2>6, <3>2, <4>1, <4>2
    <3>3. CASE S # {} /\ k \notin S
      <4>1. S \in SUBSET (1 .. k - 1) /\ S \ {Max(S)} \in SUBSET (1 .. k - 1)
        BY <2>4, <3>3
      <4> QED
        BY <2>3, <2>5, <3>3, <4>1
    <3> QED
      BY <3>1, <3>2, <3>3
  <2>9. ReadIterates(d, g, b, s, k)
    BY <2>7, <2>8, Zenon DEF ReadIterates
  <2> QED
    BY <1>2, <2>9
<1> QED
  BY <1>3, <1>4

\* The sectors of a read are looked up one by one.
LEMMA FoldReads ==
  ASSUME NEW s, NEW r, r.len \in Nat
  PROVE  \E g : /\ g[0] = [cache |-> s.cache, data |-> <<>>] /\ g[r.len] = ReadSectors(s, r)
                /\ \A i \in 1 .. r.len : g[i] = ReadStep(s.disk, g[i - 1], r.at + i - 1)
<1> DEFINE d == s.disk
           b == [cache |-> s.cache, data |-> <<>>]
           n == r.len
           q == [i \in 1 .. n |-> r.at + i - 1]
           iter == CHOOSE f : ReadIterates(d, f, b, q, n)
<1>1. ReadIterates(d, iter, b, q, n)
  BY ReadIteratesExists
<1>2. \A S \in SUBSET (1 .. n) :
        iter[S] = IF S = {} THEN b ELSE ReadStep(d, iter[S \ {Max(S)}], q[Max(S)])
  <2> HIDE DEF iter, q, n, d, b
  <2> QED
    BY <1>1 DEF ReadIterates
<1>3. ReadSectors(s, r) = iter[1 .. n]
  BY DEF ReadSectors, ReadStep, FoldLeft, MapThenFoldSet, ReadIterates
<1> HIDE DEF iter
<1> DEFINE g == [i \in 0 .. n |-> iter[1 .. i]]
<1>4. g[0] = b
  <2>1. 1 .. 0 = {} /\ 0 \in 0 .. n /\ {} \in SUBSET (1 .. n)
    OBVIOUS
  <2> HIDE DEF b
  <2> QED
    BY <1>2, <2>1
<1>5. ASSUME NEW i \in 1 .. n PROVE g[i] = ReadStep(d, g[i - 1], r.at + i - 1)
  <2>1. /\ 1 .. i \in SUBSET (1 .. n) /\ 1 .. i # {} /\ Max(1 .. i) = i
        /\ (1 .. i) \ {i} = 1 .. (i - 1)
        /\ i - 1 \in 0 .. n /\ i \in 0 .. n
    BY PrefixFacts
  <2>2. q[i] = r.at + i - 1
    OBVIOUS
  <2> HIDE DEF q, d, b
  <2>3. iter[1 .. i] = ReadStep(d, iter[1 .. (i - 1)], q[i])
    <3>1. iter[1 .. i] = ReadStep(d, iter[(1 .. i) \ {Max(1 .. i)}], q[Max(1 .. i)])
      BY <1>2, <2>1, Zenon
    <3> QED
      BY <2>1, <3>1
  <2> QED
    BY <2>1, <2>2, <2>3
<1>6. g[n] = ReadSectors(s, r)
  <2>1. g[n] = iter[1 .. n]
    OBVIOUS
  <2> QED
    BY <1>3, <2>1, Zenon
<1> HIDE DEF g
<1> QED
  BY <1>4, <1>5, <1>6

\* f folds the first k members of s, prefix by prefix, as FoldLeft does.
PromiseIterates(f, b, s, k) ==
  f = [S \in SUBSET (1 .. k) |->
         IF S = {} THEN b ELSE Promise!One(f[S \ {Max(S)}], s[Max(S)])]

\* Such a function exists.
LEMMA PromiseIteratesExists ==
  ASSUME NEW b, NEW s, NEW n \in Nat
  PROVE  \E f : PromiseIterates(f, b, s, n)
<1> DEFINE Bad == {k \in Nat : ~ \E f : PromiseIterates(f, b, s, k)}
<1> SUFFICES ASSUME Bad # {} PROVE FALSE
  OBVIOUS
<1>1. PICK k \in Bad : \A j \in Bad : k <= j
  BY LeastOf
<1>2. k \in Nat /\ ~ \E f : PromiseIterates(f, b, s, k)
  OBVIOUS
<1>3. CASE k = 0
  <2> DEFINE f == [S \in SUBSET (1 .. 0) |-> b]
  <2>1. \A S \in SUBSET (1 .. 0) : S = {}
    OBVIOUS
  <2>2. f = [S \in SUBSET (1 .. 0) |-> IF S = {} THEN b ELSE Promise!One(f[S \ {Max(S)}], s[Max(S)])]
    BY <2>1
  <2>3. PromiseIterates(f, b, s, 0)
    BY <2>2 DEF PromiseIterates
  <2> QED
    BY <1>2, <1>3, <2>3
<1>4. CASE k # 0
  <2>1. k \in 1 .. k /\ k - 1 \in Nat /\ k - 1 \notin Bad
    BY <1>1, <1>2, <1>4
  <2>2. PICK f : PromiseIterates(f, b, s, k - 1)
    BY <2>1
  <2>3. \A S \in SUBSET (1 .. k - 1) :
          f[S] = IF S = {} THEN b ELSE Promise!One(f[S \ {Max(S)}], s[Max(S)])
    BY <2>2 DEF PromiseIterates
  <2> DEFINE g == [S \in SUBSET (1 .. k) |-> IF k \in S THEN Promise!One(f[S \ {k}], s[k]) ELSE f[S]]
  <2>4. \A S \in SUBSET (1 .. k) : S \ {k} \in SUBSET (1 .. k - 1)
    BY <1>2
  <2>5. \A S \in SUBSET (1 .. k - 1) : g[S] = f[S]
    <3> TAKE S \in SUBSET (1 .. k - 1)
    <3>1. S \in SUBSET (1 .. k) /\ k \notin S
      BY <1>2
    <3> QED
      BY <3>1
  <2>6. \A S \in SUBSET (1 .. k) : k \in S => g[S] = Promise!One(f[S \ {k}], s[k])
    OBVIOUS
  <2>7. g = [S \in SUBSET (1 .. k) |-> g[S]]
    OBVIOUS
  <2> HIDE DEF g
  <2>8. ASSUME NEW S \in SUBSET (1 .. k)
        PROVE  g[S] = IF S = {} THEN b ELSE Promise!One(g[S \ {Max(S)}], s[Max(S)])
    <3>1. CASE S = {}
      <4>1. S \in SUBSET (1 .. k - 1)
        BY <3>1
      <4> QED
        BY <2>3, <2>5, <3>1, <4>1
    <3>2. CASE k \in S
      <4>1. Max(S) = k
        BY <1>2, <3>2, Greatest
      <4>2. g[S \ {k}] = f[S \ {k}]
        BY <2>4, <2>5
      <4> QED
        BY <2>6, <3>2, <4>1, <4>2
    <3>3. CASE S # {} /\ k \notin S
      <4>1. S \in SUBSET (1 .. k - 1) /\ S \ {Max(S)} \in SUBSET (1 .. k - 1)
        BY <2>4, <3>3
      <4> QED
        BY <2>3, <2>5, <3>3, <4>1
    <3> QED
      BY <3>1, <3>2, <3>3
  <2>9. PromiseIterates(g, b, s, k)
    BY <2>7, <2>8, Zenon DEF PromiseIterates
  <2> QED
    BY <1>2, <2>9
<1> QED
  BY <1>3, <1>4

\* The abstract device after a sequence of requests,
AllPromised(b, s) == Promise!FoldLeft(Promise!One, b, s)

\* g[i] is the abstract device after i requests of s, from b on.
Promising(g, b, s, n) ==
  /\ g[0] = b /\ g[n] = AllPromised(b, s)
  /\ \A i \in 1 .. n : g[i] = Promise!One(g[i - 1], s[i])

\* which it serves one by one too.
LEMMA FoldPromised ==
  ASSUME NEW b, NEW n \in Nat, NEW s, DOMAIN s = 1 .. n
  PROVE  \E g : Promising(g, b, s, n)
<1> DEFINE iter == CHOOSE f : PromiseIterates(f, b, s, n)
<1>1. PromiseIterates(iter, b, s, n)
  BY PromiseIteratesExists
<1>2. \A S \in SUBSET (1 .. n) :
        iter[S] = IF S = {} THEN b ELSE Promise!One(iter[S \ {Max(S)}], s[Max(S)])
  BY <1>1 DEF PromiseIterates
<1>3. AllPromised(b, s) = iter[1 .. n]
  BY DEF AllPromised, FoldLeft, MapThenFoldSet, PromiseIterates, Promise!FoldLeft, Promise!MapThenFoldSet, Promise!Max, Max
<1> HIDE DEF iter
<1> DEFINE g == [i \in 0 .. n |-> iter[1 .. i]]
<1>4. g[0] = b
  <2>1. 1 .. 0 = {} /\ 0 \in 0 .. n /\ {} \in SUBSET (1 .. n)
    OBVIOUS
  <2> QED
    BY <1>2, <2>1
<1>5. ASSUME NEW i \in 1 .. n PROVE g[i] = Promise!One(g[i - 1], s[i])
  <2>1. /\ 1 .. i \in SUBSET (1 .. n) /\ 1 .. i # {} /\ Max(1 .. i) = i
        /\ (1 .. i) \ {i} = 1 .. (i - 1)
        /\ i - 1 \in 0 .. n /\ i \in 0 .. n
    BY PrefixFacts
  <2>2. iter[1 .. i] = Promise!One(iter[1 .. (i - 1)], s[i])
    <3>1. iter[1 .. i] = Promise!One(iter[(1 .. i) \ {Max(1 .. i)}], s[Max(1 .. i)])
      BY <1>2, <2>1, Zenon
    <3> QED
      BY <2>1, <3>1
  <2> QED
    BY <2>1, <2>2
<1>6. g[n] = AllPromised(b, s)
  <2>1. g[n] = iter[1 .. n]
    OBVIOUS
  <2> QED
    BY <1>3, <2>1, Zenon
<1> HIDE DEF g
<1> QED
  BY <1>4, <1>5, <1>6 DEF Promising

-----------------------------------------------------------------------------
\* The interrupt handlers.

\* What the handlers and the interrupt controller keep.
HandlersInv ==
  /\ boot \in 0 .. 5 /\ input \in BOOLEAN
  /\ pc \in [Harts -> {"idle", "claim", "ack", "collect", "drain", "complete"}]
  /\ serving \in [Harts -> Sources \cup {0}]
  /\ priority \in [Sources -> 0 .. MaxPriority] /\ threshold \in [Contexts -> 0 .. MaxPriority]
  /\ enabled \in [Contexts -> SUBSET Sources]
  /\ enabled[1] = IF boot < 2 THEN {} ELSE Sources
  /\ \A h \in Harts : serving[h] = 0 <=> pc[h] \in {"idle", "claim"}
  /\ boot < 2 => \A h \in Harts : serving[h] = 0
  /\ ServiceExclusive

\* A claim returns a source that asks, is enabled and is not claimed, or 0.
LEMMA ClaimFacts ==
  ASSUME NEW raised \in SUBSET Sources, NEW c
  PROVE  \/ ClaimResult(c, raised) = 0
         \/ ClaimResult(c, raised) \in (raised \ claimed) \cap enabled[c]
<1> DEFINE cand == {s \in Waiting(c, raised) : priority[s] > 0}
           best == {s \in cand : \A t \in cand : priority[t] <= priority[s]}
<1>1. best \subseteq (raised \ claimed) \cap enabled[c] /\ best \subseteq {1, 10}
  BY DEF Waiting, Sources, Disk, Uart
<1>2. ClaimResult(c, raised) = IF best = {} THEN 0 ELSE CHOOSE s \in best : \A t \in best : s <= t
  BY DEF ClaimResult
<1> HIDE DEF best, cand
<1>3. CASE best # {}
  <2>1. \E s \in best : \A t \in best : s <= t
    <3>1. CASE 1 \in best
      BY <1>1, <3>1
    <3>2. CASE 1 \notin best
      <4>1. 10 \in best /\ \A t \in best : t = 10
        BY <1>1, <1>3, <3>2
      <4> QED
        BY <4>1
    <3> QED
      BY <3>1, <3>2
  <2> QED
    BY <1>1, <1>2, <1>3, <2>1
<1> QED
  BY <1>2, <1>3

\* Both sources are there, and neither is 0.
LEMMA SourceFacts == Sources = {1, 10} /\ Raised \in SUBSET Sources /\ 1 \in Contexts /\ Contexts = {0, 1}
  BY DEF Sources, Disk, Uart, Raised, Contexts

\* Boot leaves the handlers alone.
LEMMA BootHandlers ==
  ASSUME HandlersInv, Boot
  PROVE  HandlersInv'
<1> USE DEF HandlersInv
<1>1. UNCHANGED <<pc, serving, input, claimed>> /\ boot' = boot + 1 /\ boot \in 0 .. 4
  BY DEF Boot, WriteThreshold, WriteEnable, WritePriority
<1>2. boot' \in 0 .. 5 /\ (boot' < 2 => boot < 2)
  BY <1>1
<1>3. /\ priority' \in [Sources -> 0 .. MaxPriority] /\ threshold' \in [Contexts -> 0 .. MaxPriority]
      /\ enabled' \in [Contexts -> SUBSET Sources]
      /\ enabled'[1] = IF boot = 1 THEN Sources ELSE enabled[1]
  <2>1. 0 \in 0 .. MaxPriority /\ 1 \in 0 .. MaxPriority /\ MaxPriority \in 0 .. MaxPriority
    BY PriorityAssumption
  <2>7. /\ priority \in [Sources -> 0 .. MaxPriority] /\ threshold \in [Contexts -> 0 .. MaxPriority]
        /\ enabled \in [Contexts -> SUBSET Sources] /\ Sources \in SUBSET Sources
        /\ 1 \in Contexts /\ Uart \in Sources /\ Disk \in Sources
    BY DEF Contexts, Sources
  <2> HIDE DEF HandlersInv
  <2>2. CASE boot = 0 /\ WriteThreshold(1, MaxPriority)
    BY <2>1, <2>2, <2>7 DEF WriteThreshold
  <2>3. CASE boot = 1 /\ WriteEnable(1, Sources)
    BY <2>3, <2>7 DEF WriteEnable
  <2>4. CASE boot = 2 /\ WritePriority(Uart, 1)
    BY <2>1, <2>4, <2>7 DEF WritePriority
  <2>5. CASE boot = 3 /\ WritePriority(Disk, 1)
    BY <2>1, <2>5, <2>7 DEF WritePriority
  <2>6. CASE boot = 4 /\ WriteThreshold(1, 0)
    BY <2>1, <2>6, <2>7 DEF WriteThreshold
  <2> QED
    BY <2>2, <2>3, <2>4, <2>5, <2>6 DEF Boot
<1>4. enabled'[1] = IF boot' < 2 THEN {} ELSE Sources
  BY <1>1, <1>3
<1>5. ServiceExclusive'
  BY <1>1 DEF ServiceExclusive
<1> QED
  BY <1>1, <1>2, <1>3, <1>4, <1>5

\* One step of a handler.
LEMMA HandlerHandlers ==
  ASSUME HandlersInv, NEW h \in Harts, Handler(h)
  PROVE  HandlersInv'
<1> USE DEF HandlersInv
<1>1. CASE Trap(h)
  <2>1. UNCHANGED <<plicVars, boot, serving, input>> /\ pc[h] = "idle" /\ pc' = [pc EXCEPT ![h] = "claim"]
    BY <1>1 DEF Trap, Goto
  <2>2. ServiceExclusive'
    BY <2>1 DEF ServiceExclusive, plicVars
  <2> QED
    BY <2>1, <2>2 DEF plicVars
<1>2. CASE ClaimSource(h)
  <2> PICK r : r = ClaimResult(1, Raised)
    OBVIOUS
  <2>1. r = 0 \/ (r \in Sources /\ r \notin claimed /\ r \in enabled[1])
    BY ClaimFacts, SourceFacts
  <2>2. /\ pc[h] = "claim" /\ serving' = [serving EXCEPT ![h] = r]
        /\ claimed' = claimed \cup ({r} \ {0})
        /\ UNCHANGED <<priority, enabled, threshold, boot, input>>
    BY <1>2 DEF ClaimSource, Claim
  <2>3. pc' = [pc EXCEPT ![h] = CASE r = Disk -> "ack" [] r = Uart -> "drain" [] OTHER -> "idle"]
    BY <1>2 DEF ClaimSource, Goto
  <2>4. serving[h] = 0 /\ (r # 0 => boot >= 2)
    BY <2>1, <2>2
  <2>5. pc' \in [Harts -> {"idle", "claim", "ack", "collect", "drain", "complete"}]
        /\ (r = 0 <=> pc'[h] \in {"idle", "claim"})
        /\ \A g \in Harts \ {h} : pc'[g] = pc[g]
    <3>1. CASE r = Disk
      BY <2>3, <3>1 DEF Disk
    <3>2. CASE r = Uart
      BY <2>3, <3>2 DEF Uart, Disk
    <3>3. CASE r = 0
      BY <2>3, <3>3 DEF Uart, Disk
    <3> QED
      BY <2>1, <3>1, <3>2, <3>3 DEF Sources
  <2>6. serving' \in [Harts -> Sources \cup {0}] /\ serving'[h] = r
        /\ \A g \in Harts \ {h} : serving'[g] = serving[g]
    BY <2>1, <2>2
  <2>7. ServiceExclusive'
    <3>1. \A g \in Harts \ {h} : r # 0 => serving[g] # r
      BY <2>1 DEF ServiceExclusive
    <3>2. \A f, g \in Harts : f # g /\ serving'[f] # 0 => serving'[f] # serving'[g]
      BY <2>6, <3>1 DEF ServiceExclusive
    <3>3. {serving'[g] : g \in Harts} \ {0} = ({serving[g] : g \in Harts} \ {0}) \cup ({r} \ {0})
      BY <2>4, <2>6
    <3> QED
      BY <2>2, <3>2, <3>3 DEF ServiceExclusive
  <2> QED
    BY <2>2, <2>4, <2>5, <2>6, <2>7
<1>3. CASE Ack(h) \/ AllCollected(h)
  <2>1. /\ UNCHANGED <<plicVars, boot, serving, input>> /\ pc[h] \in {"ack", "collect"}
        /\ \E l \in {"collect", "complete"} : pc' = [pc EXCEPT ![h] = l]
    BY <1>3 DEF Ack, AllCollected, Goto
  <2>2. ServiceExclusive'
    BY <2>1 DEF ServiceExclusive, plicVars
  <2> QED
    BY <2>1, <2>2 DEF plicVars
<1>4. CASE Collect(h)
  <2>1. UNCHANGED <<plicVars, boot, serving, pc, input>>
    BY <1>4 DEF Collect
  <2> QED
    BY <2>1 DEF plicVars, ServiceExclusive
<1>5. CASE Drain(h)
  <2>1. UNCHANGED <<plicVars, boot, serving>> /\ pc[h] = "drain" /\ pc' = [pc EXCEPT ![h] = "complete"]
        /\ input' = FALSE
    BY <1>5 DEF Drain, Goto
  <2>2. ServiceExclusive'
    BY <2>1 DEF ServiceExclusive, plicVars
  <2> QED
    BY <2>1, <2>2 DEF plicVars
<1>6. CASE Finish(h)
  <2>1. /\ pc[h] = "complete" /\ serving' = [serving EXCEPT ![h] = 0] /\ pc' = [pc EXCEPT ![h] = "idle"]
        /\ claimed' = IF serving[h] \in enabled[1] THEN claimed \ {serving[h]} ELSE claimed
        /\ UNCHANGED <<priority, enabled, threshold, boot, input>>
    BY <1>6 DEF Finish, Goto, CompleteClaim
  <2>2. serving[h] # 0 /\ serving[h] \in Sources /\ serving[h] \in enabled[1]
    BY <2>1
  <2>3. serving' \in [Harts -> Sources \cup {0}] /\ serving'[h] = 0
        /\ \A g \in Harts \ {h} : serving'[g] = serving[g]
    BY <2>1
  <2>4. ServiceExclusive'
    <3>1. \A f, g \in Harts : f # g /\ serving'[f] # 0 => serving'[f] # serving'[g]
      BY <2>3 DEF ServiceExclusive
    <3>2. {serving'[g] : g \in Harts} \ {0} = ({serving[g] : g \in Harts} \ {0}) \ {serving[h]}
      <4>1. \A g \in Harts \ {h} : serving[g] # serving[h]
        BY <2>2 DEF ServiceExclusive
      <4> QED
        BY <2>2, <2>3, <4>1
    <3> QED
      BY <2>1, <2>2, <3>1, <3>2 DEF ServiceExclusive
  <2> QED
    BY <2>1, <2>3, <2>4
<1> QED
  BY <1>1, <1>2, <1>3, <1>4, <1>5, <1>6 DEF Handler

\* Everyone else leaves them alone.
LEMMA HandlersStep ==
  ASSUME HandlersInv, [PathNext]_pathVars
  PROVE  HandlersInv'
<1>1. ASSUME UNCHANGED <<plicVars, boot, pc, serving>>, input' \in {input, TRUE} PROVE HandlersInv'
  <2>1. UNCHANGED <<priority, enabled, threshold, claimed>>
    BY <1>1 DEF plicVars
  <2>2. ServiceExclusive'
    BY <1>1, <2>1 DEF ServiceExclusive, HandlersInv
  <2>3. input' \in BOOLEAN
    BY <1>1 DEF HandlersInv
  <2> QED
    BY <1>1, <2>1, <2>2, <2>3 DEF HandlersInv
<1>2. CASE SetUp \/ Reset \/ HostInput
  BY <1>1, <1>2 DEF SetUp, Reset, HostInput
<1>3. CASE \E head \in Heads, r \in Requests : Submit(head, r)
  BY <1>1, <1>3 DEF Submit
<1>4. CASE \E h \in Harts : Kick(h) \/ HostLoad(h)
  BY <1>1, <1>4 DEF Kick, HostLoad, driver
<1>5. CASE UNCHANGED pathVars
  BY <1>1, <1>5 DEF pathVars, driver
<1> QED
  BY <1>2, <1>3, <1>4, <1>5, BootHandlers, HandlerHandlers DEF PathNext

\* The invariant of the handlers.
THEOREM HandlersKept == PathSpec => []HandlersInv
<1>1. PathInit => HandlersInv
  <2> SUFFICES ASSUME PathInit PROVE HandlersInv
    OBVIOUS
  <2>1. 0 \in 0 .. MaxPriority
    BY PriorityAssumption
  <2>2. ServiceExclusive
    BY DEF PathInit, PlicInit, ServiceExclusive
  <2>3. /\ boot = 0 /\ pc = [h \in Harts |-> "idle"] /\ serving = [h \in Harts |-> 0] /\ input = FALSE
        /\ priority = [s \in Sources |-> 0] /\ threshold = [c \in Contexts |-> 0]
        /\ enabled = [c \in Contexts |-> {}] /\ enabled[1] = {}
    BY SourceFacts DEF PathInit, PlicInit
  <2>4. /\ priority \in [Sources -> 0 .. MaxPriority] /\ threshold \in [Contexts -> 0 .. MaxPriority]
        /\ enabled \in [Contexts -> SUBSET Sources] /\ serving \in [Harts -> Sources \cup {0}]
    BY <2>1, <2>3
  <2>5. boot \in 0 .. 5 /\ boot < 2
    BY <2>3
  <2>7. input \in BOOLEAN
    BY <2>3
  <2>8. pc \in [Harts -> {"idle", "claim", "ack", "collect", "drain", "complete"}]
    BY <2>3
  <2>6. \A h \in Harts : pc[h] = "idle" /\ serving[h] = 0
    BY <2>3
  <2> QED
    BY <2>2, <2>3, <2>4, <2>5, <2>6, <2>7, <2>8 DEF HandlersInv
<1>2. HandlersInv /\ [PathNext]_pathVars => HandlersInv'
  BY HandlersStep
<1> QED
  BY <1>1, <1>2, PTL DEF PathSpec

\* ServiceExclusive of the disk run, for any number of harts: what a claim
\* hides from the others is exactly what some handler serves, and no two
\* handlers serve one source (riscv_platform.mbt, plic_claim_source_for_context and
\* plic_complete_source).
THEOREM OneServer == PathSpec => []ServiceExclusive
<1>1. HandlersInv => ServiceExclusive
  BY DEF HandlersInv
<1> QED
  BY <1>1, HandlersKept, PTL

-----------------------------------------------------------------------------
\* The rings.

\* The n chains from avail index a on are waiting, the m from used index u on
\* are answered, and no chain of live is there twice.
Rings(a, n, u, m, av, us, live) ==
  /\ n \in 0 .. Q /\ m \in 0 .. Q
  /\ \A i \in 0 .. n - 1 :
       /\ av[Place(a, i)] \in live
       /\ \A j \in 0 .. n - 1 : i # j => av[Place(a, i)] # av[Place(a, j)]
  /\ \A i \in 0 .. m - 1 :
       /\ us[Place(u, i)] \in live
       /\ \A j \in 0 .. m - 1 : i # j => us[Place(u, i)] # us[Place(u, j)]
       /\ \A j \in 0 .. n - 1 : us[Place(u, i)] # av[Place(a, j)]

\* There are at most Q such chains.
LEMMA Room ==
  ASSUME NEW a, NEW n, NEW u, NEW m, NEW av, NEW us, NEW live \in SUBSET Heads,
         Rings(a, n, u, m, av, us, live)
  PROVE  n + m <= Q /\ (live # Heads => n + m < Q)
<1>1. n \in Nat /\ m \in Nat /\ Q \in Nat \ {0}
  BY DiskAssumption DEF Rings
<1>2. IsFiniteSet(live) /\ Cardinality(live) \in Nat /\ Cardinality(live) <= Q
      /\ (live # Heads => Cardinality(live) < Q)
  <2>1. IsFiniteSet(Heads) /\ Cardinality(Heads) = Q
    <3>1. Q - 1 \in Int /\ ~(0 > Q - 1) /\ (Q - 1) - 0 + 1 = Q
      BY <1>1
    <3> QED
      BY <3>1, FS_Interval DEF Heads
  <2>2. IsFiniteSet(live) /\ Cardinality(live) <= Q /\ (Cardinality(Heads) = Cardinality(live) => Heads = live)
    BY <2>1, FS_Subset
  <2>3. Cardinality(live) \in Nat
    BY <2>2, FS_CardinalityType
  <2> QED
    BY <1>1, <2>1, <2>2, <2>3
<1>3. n + m <= Cardinality(live)
  <2> SUFFICES ASSUME Cardinality(live) < n + m PROVE FALSE
    BY <1>1, <1>2
  <2> DEFINE f == [k \in 1 .. n + m |-> IF k <= n THEN av[Place(a, k - 1)] ELSE us[Place(u, k - n - 1)]]
  <2>1. \A k \in 1 .. n + m : \/ k <= n /\ k - 1 \in 0 .. n - 1
                              \/ ~(k <= n) /\ k - n - 1 \in 0 .. m - 1
    BY <1>1
  <2>2. f \in [1 .. n + m -> live]
    BY <2>1 DEF Rings
  <2>3. IsFiniteSet(1 .. n + m) /\ Cardinality(1 .. n + m) = n + m
    <3>1. n + m \in Int /\ 1 \in Int /\ (1 > n + m => n + m = 0) /\ (n + m) - 1 + 1 = n + m
      BY <1>1
    <3> QED
      BY <3>1, FS_Interval
  <2>4. PICK x, y \in 1 .. n + m : x # y /\ f[x] = f[y]
    <3> HIDE DEF f
    <3> QED
      BY <1>2, <2>2, <2>3, FS_PigeonHole
  <2>5. x - 1 # y - 1 /\ x - n - 1 # y - n - 1
    BY <1>1, <2>4
  <2>6. CASE x <= n /\ y <= n
    <3>1. f[x] = av[Place(a, x - 1)] /\ f[y] = av[Place(a, y - 1)]
      BY <2>6
    <3> QED
      BY <2>1, <2>4, <2>5, <2>6, <3>1 DEF Rings
  <2>7. CASE ~(x <= n) /\ ~(y <= n)
    <3>1. f[x] = us[Place(u, x - n - 1)] /\ f[y] = us[Place(u, y - n - 1)]
      BY <2>7
    <3> QED
      BY <2>1, <2>4, <2>5, <2>7, <3>1 DEF Rings
  <2>8. CASE x <= n /\ ~(y <= n)
    <3>1. f[x] = av[Place(a, x - 1)] /\ f[y] = us[Place(u, y - n - 1)]
      BY <2>8
    <3> QED
      BY <2>1, <2>4, <2>8, <3>1 DEF Rings
  <2>9. CASE ~(x <= n) /\ y <= n
    <3>1. f[x] = us[Place(u, x - n - 1)] /\ f[y] = av[Place(a, y - 1)]
      BY <2>9
    <3> QED
      BY <2>1, <2>4, <2>9, <3>1 DEF Rings
  <2> QED
    BY <2>6, <2>7, <2>8, <2>9
<1> QED
  BY <1>1, <1>2, <1>3

\* Places follow one another.
LEMMA NextPlace ==
  ASSUME NEW x \in Indices, NEW i \in 0 .. Q - 1
  PROVE  Place(Plus(x, 1), i) = Place(x, 1 + i) /\ Plus(x, 1) \in Indices /\ Plus(x, 0) = x
<1>1. 1 \in 0 .. Q /\ i \in 0 .. Q /\ 1 + i <= Q /\ 0 \in 0 .. Q
  BY DiskAssumption
<1> QED
  BY <1>1, PlusFacts DEF Place

\* Chain x becomes the last that waits.
Grown(a, n, u, m, av, us, live, x) ==
  LET w == [av EXCEPT ![Place(a, n)] = x]
  IN  /\ Rings(a, n + 1, u, m, w, us, live \cup {x})
      /\ \A i \in 0 .. n - 1 : w[Place(a, i)] = av[Place(a, i)]
      /\ w[Place(a, n)] = x

\* There is room for a chain that is not there.
LEMMA RingsGrow ==
  ASSUME NEW a \in Indices, NEW n, NEW u, NEW m, NEW av \in [Heads -> Heads], NEW us,
         NEW live \in SUBSET Heads, Rings(a, n, u, m, av, us, live), NEW x \in Heads \ live
  PROVE  Grown(a, n, u, m, av, us, live, x)
<1>1. n + m < Q /\ n \in Nat /\ m \in Nat /\ Q \in Nat
  <2>1. n + m < Q
    BY Room
  <2>2. n \in Nat /\ m \in Nat /\ Q \in Nat
    BY DiskAssumption DEF Rings
  <2> QED
    BY <2>1, <2>2
<1> DEFINE w == [av EXCEPT ![Place(a, n)] = x]
<1>2. \A i \in 0 .. n - 1 : w[Place(a, i)] = av[Place(a, i)]
  <2> TAKE i \in 0 .. n - 1
  <2>1. i \in 0 .. Q /\ n \in 0 .. Q /\ i # n /\ i - n < Q /\ n - i < Q
    BY <1>1
  <2>2. Place(a, i) # Place(a, n) /\ Place(a, i) \in Heads
    BY <2>1, Places
  <2> QED
    BY <2>2
<1>3. w[Place(a, n)] = x
  <2>1. n \in 0 .. Q
    BY <1>1
  <2>2. Place(a, n) \in Heads
    BY <2>1, Places
  <2> QED
    BY <2>2
<1>4. \A i \in 0 .. (n + 1) - 1 : i \in 0 .. n - 1 \/ i = n
  BY <1>1
<1> HIDE DEF w
<1>5. n + 1 \in 0 .. Q
  BY <1>1
<1>6. Rings(a, n + 1, u, m, w, us, live \cup {x})
  BY <1>1, <1>2, <1>3, <1>4, <1>5 DEF Rings
<1> QED
  BY <1>2, <1>3, <1>6 DEF w, Grown

\* The first of those that wait is dropped, or becomes the last that is answered.
FirstServed(a, n, u, m, av, us, live) ==
  LET x == av[Place(a, 0)]
      w == [us EXCEPT ![Place(u, m)] = x]
  IN  /\ Rings(Plus(a, 1), n - 1, u, m, av, us, live)
      /\ Rings(Plus(a, 1), n - 1, u, m + 1, av, w, live)
      /\ x \in live /\ m < Q
      /\ \A i \in 0 .. m - 1 : w[Place(u, i)] = us[Place(u, i)] /\ us[Place(u, i)] # x
      /\ w[Place(u, m)] = x

\* So the rings go on.
LEMMA RingsServe ==
  ASSUME NEW a \in Indices, NEW n, NEW u \in Indices, NEW m, NEW av, NEW us \in [Heads -> Heads],
         NEW live \in SUBSET Heads, Rings(a, n, u, m, av, us, live), n > 0
  PROVE  FirstServed(a, n, u, m, av, us, live)
<1>1. n + m <= Q /\ n \in Nat /\ m \in Nat /\ Q \in Nat
  <2>1. n + m <= Q
    BY Room
  <2>2. n \in Nat /\ m \in Nat /\ Q \in Nat
    BY DiskAssumption DEF Rings
  <2> QED
    BY <2>1, <2>2
<1> DEFINE x == av[Place(a, 0)]
           w == [us EXCEPT ![Place(u, m)] = x]
<1>2. \A i \in 0 .. (n - 1) - 1 : Place(Plus(a, 1), i) = Place(a, 1 + i) /\ 1 + i \in 0 .. n - 1 /\ 1 + i # 0
  <2> TAKE i \in 0 .. (n - 1) - 1
  <2>1. i \in 0 .. Q - 1 /\ 1 + i \in 0 .. n - 1 /\ 1 + i # 0
    BY <1>1
  <2> QED
    BY <2>1, NextPlace
<1>3. Rings(Plus(a, 1), n - 1, u, m, av, us, live)
  <2>1. n - 1 \in 0 .. Q
    BY <1>1
  <2>2. \A i, j \in 0 .. (n - 1) - 1 : i # j => 1 + i # 1 + j
    BY <1>1
  <2> QED
    BY <1>2, <2>1, <2>2 DEF Rings
<1>4. x \in live /\ m < Q /\ m + 1 \in 0 .. Q /\ 0 \in 0 .. n - 1
      /\ \A i \in 0 .. m - 1 : us[Place(u, i)] # x
  BY <1>1 DEF Rings
<1>5. \A i \in 0 .. m - 1 : w[Place(u, i)] = us[Place(u, i)]
  <2> TAKE i \in 0 .. m - 1
  <2>1. i \in 0 .. Q /\ m \in 0 .. Q /\ i # m /\ i - m < Q /\ m - i < Q
    BY <1>1, <1>4
  <2>2. Place(u, i) # Place(u, m) /\ Place(u, i) \in Heads
    BY <2>1, Places
  <2> QED
    BY <2>2
<1>6. w[Place(u, m)] = x
  <2>1. m \in 0 .. Q
    BY <1>1
  <2>2. Place(u, m) \in Heads
    BY <2>1, Places
  <2> QED
    BY <2>2
<1>7. \A i \in 0 .. (m + 1) - 1 : i \in 0 .. m - 1 \/ i = m
  BY <1>1
<1>8. \A j \in 0 .. (n - 1) - 1 : av[Place(Plus(a, 1), j)] # x
  BY <1>2, <1>4 DEF Rings
<1> HIDE DEF w, x
<1>9. Rings(Plus(a, 1), n - 1, u, m + 1, av, w, live)
  <2>1. \A i \in 0 .. (m + 1) - 1 : w[Place(u, i)] \in live
    BY <1>3, <1>4, <1>5, <1>6, <1>7 DEF Rings
  <2>2. \A i, j \in 0 .. (m + 1) - 1 : i # j => w[Place(u, i)] # w[Place(u, j)]
    BY <1>3, <1>4, <1>5, <1>6, <1>7 DEF Rings
  <2>3. \A i \in 0 .. (m + 1) - 1 : \A j \in 0 .. (n - 1) - 1 : w[Place(u, i)] # av[Place(Plus(a, 1), j)]
    BY <1>3, <1>4, <1>5, <1>6, <1>7, <1>8 DEF Rings
  <2> QED
    BY <1>3, <1>4, <2>1, <2>2, <2>3 DEF Rings
<1> QED
  BY <1>3, <1>4, <1>5, <1>6, <1>9 DEF w, x, FirstServed

\* The first of those that are answered is given back.
FirstGiven(a, n, u, m, av, us, live) ==
  LET x == us[Place(u, 0)]
  IN  /\ Rings(a, n, Plus(u, 1), m - 1, av, us, live \ {x})
      /\ \A i \in 0 .. n - 1 : av[Place(a, i)] # x
      /\ x \in live

\* So the rings go on.
LEMMA RingsCollect ==
  ASSUME NEW a, NEW n, NEW u \in Indices, NEW m, NEW av, NEW us,
         NEW live, Rings(a, n, u, m, av, us, live), m > 0
  PROVE  FirstGiven(a, n, u, m, av, us, live)
<1>1. n \in Nat /\ m \in Nat /\ Q \in Nat /\ m <= Q
  BY DiskAssumption DEF Rings
<1>2. \A i \in 0 .. (m - 1) - 1 : Place(Plus(u, 1), i) = Place(u, 1 + i) /\ 1 + i \in 0 .. m - 1 /\ 1 + i # 0
  <2> TAKE i \in 0 .. (m - 1) - 1
  <2>1. i \in 0 .. Q - 1 /\ 1 + i \in 0 .. m - 1 /\ 1 + i # 0
    BY <1>1
  <2> QED
    BY <2>1, NextPlace
<1>3. 0 \in 0 .. m - 1 /\ m - 1 \in 0 .. Q /\ \A i, j \in 0 .. (m - 1) - 1 : i # j => 1 + i # 1 + j
  BY <1>1
<1>4. \A i \in 0 .. n - 1 : av[Place(a, i)] # us[Place(u, 0)]
  BY <1>3 DEF Rings
<1>5. us[Place(u, 0)] \in live
  BY <1>3 DEF Rings
<1> QED
  BY <1>2, <1>3, <1>4, <1>5 DEF Rings, FirstGiven

-----------------------------------------------------------------------------
\* Serving.

\* Induction up to n.
LEMMA UpTo ==
  ASSUME NEW n \in Nat, NEW S \in SUBSET (0 .. n), 0 \in S, \A i \in 1 .. n : i - 1 \in S => i \in S
  PROVE  S = 0 .. n
<1> DEFINE Bad == (0 .. n) \ S
<1> SUFFICES ASSUME Bad # {} PROVE FALSE
  OBVIOUS
<1>1. PICK k \in Bad : \A j \in Bad : k <= j
  <2>1. Bad \in SUBSET Nat
    OBVIOUS
  <2> HIDE DEF Bad
  <2> QED
    BY <2>1, LeastOf
<1>2. k \in 1 .. n /\ k - 1 \in 0 .. n /\ ~(k <= k - 1)
  OBVIOUS
<1>3. k - 1 \in S
  BY <1>1, <1>2
<1> QED
  BY <1>2, <1>3

Caches == {NoCache} \cup [base : Nat, content : [1 .. Ahead -> Vals]]

\* A cache that holds what disk d holds, if it holds anything.
Coherent(d, c) == c # NoCache => c.content = Contents(d, c.base, Ahead)

Disks == [0 .. Capacity - 1 -> Vals]

\* What a read covers is in the disk or 0.
LEMMA ContentsFacts ==
  ASSUME NEW d \in Disks, NEW at \in Nat, NEW n \in Nat
  PROVE  Contents(d, at, n) \in [1 .. n -> Vals] /\ Contents(d, at, n) \in Seq(Vals)
<1>1. \A i \in 1 .. n : at + i - 1 \in DOMAIN d => d[at + i - 1] \in Vals
  BY DEF Disks
<1>2. 0 \in Vals
  BY DiskAssumption
<1>3. Contents(d, at, n) \in [1 .. n -> Vals]
  BY <1>1, <1>2 DEF Contents
<1> QED
  BY <1>3, SeqDef

\* One lookup: the sector is in the cache afterwards, with what the disk holds
\* if the cache was right.
LEMMA LookedFacts ==
  ASSUME NEW d \in Disks, NEW c \in Caches, NEW sector \in Nat
  PROVE  LET e == Looked(d, c, sector) IN
         /\ e \in Caches /\ sector - e.base + 1 \in 1 .. Ahead
         /\ e.content[sector - e.base + 1] \in Vals
         /\ Coherent(d, c) =>
              /\ Coherent(d, e)
              /\ e.content[sector - e.base + 1] = IF sector \in DOMAIN d THEN d[sector] ELSE 0
<1>1. Ahead \in Nat \ {0}
  BY DiskAssumption
<1>2. CASE Covers(c, sector)
  <2>1. Looked(d, c, sector) = c /\ c \in [base : Nat, content : [1 .. Ahead -> Vals]]
        /\ sector \in c.base .. c.base + Ahead - 1 /\ c # NoCache
    BY <1>2 DEF Looked, Covers, Caches
  <2>2. c.base \in Nat /\ c.content \in [1 .. Ahead -> Vals]
    BY <2>1
  <2> PICK k : k = sector - c.base + 1
    OBVIOUS
  <2>3. k \in 1 .. Ahead /\ c.base + k - 1 = sector
    BY <1>1, <2>1, <2>2
  <2>4. c.content[k] \in Vals
    BY <2>2, <2>3
  <2>5. Contents(d, c.base, Ahead)[k] = IF sector \in DOMAIN d THEN d[sector] ELSE 0
    BY <2>3 DEF Contents
  <2> QED
    BY <2>1, <2>3, <2>4, <2>5 DEF Coherent
<1>3. CASE ~Covers(c, sector)
  <2> DEFINE e == [base |-> sector, content |-> Contents(d, sector, Ahead)]
  <2>1. Looked(d, c, sector) = e
    BY <1>3 DEF Looked
  <2>2. Contents(d, sector, Ahead) \in [1 .. Ahead -> Vals]
    BY <1>1, ContentsFacts
  <2>3. e \in Caches /\ e.base = sector /\ e.content = Contents(d, sector, Ahead)
    BY <2>2 DEF Caches
  <2>4. Coherent(d, e)
    BY DEF Coherent
  <2> HIDE DEF e
  <2>5. sector - sector + 1 = 1 /\ 1 \in 1 .. Ahead /\ sector + 1 - 1 = sector
    BY <1>1
  <2>6. Contents(d, sector, Ahead)[1] = IF sector \in DOMAIN d THEN d[sector] ELSE 0
    BY <2>5 DEF Contents
  <2> QED
    BY <2>1, <2>2, <2>3, <2>4, <2>5, <2>6
<1> QED
  BY <1>2, <1>3

\* A read gives what the disk holds, if the cache was right, and keeps it right.
LEMMA ReadFacts ==
  ASSUME NEW s, s.disk \in Disks, s.cache \in Caches, NEW r, r.at \in Nat, r.len \in Nat
  PROVE  /\ ReadSectors(s, r).cache \in Caches /\ ReadSectors(s, r).data \in Seq(Vals)
         /\ Coherent(s.disk, s.cache) =>
              /\ Coherent(s.disk, ReadSectors(s, r).cache)
              /\ ReadSectors(s, r).data = Contents(s.disk, r.at, r.len)
<1> DEFINE d == s.disk
           n == r.len
<1>1. PICK g : /\ g[0] = [cache |-> s.cache, data |-> <<>>] /\ g[n] = ReadSectors(s, r)
               /\ \A i \in 1 .. n : g[i] = ReadStep(d, g[i - 1], r.at + i - 1)
  BY FoldReads
<1>3. d \in Disks /\ n \in Nat
  OBVIOUS
<1> HIDE DEF d, n
<1> DEFINE Good(i) ==
      /\ g[i].cache \in Caches /\ g[i].data \in Seq(Vals) /\ Len(g[i].data) = i
      /\ Coherent(d, s.cache) =>
           /\ Coherent(d, g[i].cache)
           /\ \A k \in 1 .. i : g[i].data[k] = Contents(d, r.at, n)[k]
    S == {i \in 0 .. n : Good(i)}
<1>5. Good(0)
  <2>1. g[0].cache = s.cache /\ g[0].data = <<>> /\ <<>> \in Seq(Vals) /\ Len(<<>>) = 0
    BY <1>1
  <2> QED
    BY <2>1
<1>6. ASSUME NEW i \in 1 .. n, Good(i - 1) PROVE Good(i)
  <2>1. PICK p, sector, c, v : /\ p = g[i - 1] /\ sector = r.at + i - 1 /\ c = Looked(d, p.cache, sector)
                               /\ v = c.content[sector - c.base + 1]
    OBVIOUS
  <2>2. sector = r.at + i - 1 /\ sector \in Nat /\ i \in Nat /\ i - 1 \in Nat /\ (i - 1) + 1 = i
    BY <2>1
  <2>3. g[i] = [cache |-> c, data |-> Append(p.data, v)]
    BY <1>1, <2>1 DEF ReadStep
  <2>4. /\ p.cache \in Caches /\ p.data \in Seq(Vals) /\ Len(p.data) = i - 1
        /\ Coherent(d, s.cache) =>
             /\ Coherent(d, p.cache)
             /\ \A k \in 1 .. i - 1 : p.data[k] = Contents(d, r.at, n)[k]
    BY <1>6, <2>1
  <2> HIDE DEF Good, S
  <2>5. /\ c \in Caches /\ v \in Vals
        /\ Coherent(d, p.cache) => /\ Coherent(d, c)
                                   /\ v = IF sector \in DOMAIN d THEN d[sector] ELSE 0
    <3>1. p.cache \in Caches
      BY <2>4
    <3>2. d \in Disks /\ sector \in Nat
      BY <1>3, <2>2
    <3> QED
      BY <2>1, <3>1, <3>2, LookedFacts
  <2>6. /\ Append(p.data, v) \in Seq(Vals) /\ Len(Append(p.data, v)) = i
        /\ \A k \in 1 .. i - 1 : Append(p.data, v)[k] = p.data[k]
        /\ Append(p.data, v)[i] = v
    <3>1. /\ Append(p.data, v) \in Seq(Vals) /\ Len(Append(p.data, v)) = Len(p.data) + 1
          /\ \A k \in 1 .. Len(p.data) : Append(p.data, v)[k] = p.data[k]
          /\ Append(p.data, v)[Len(p.data) + 1] = v
      BY <2>4, <2>5, AppendProperties
    <3> QED
      BY <2>2, <2>4, <3>1
  <2>7. Contents(d, r.at, n)[i] = IF sector \in DOMAIN d THEN d[sector] ELSE 0
    BY <2>2 DEF Contents
  <2>8. \A k \in 1 .. i : k \in 1 .. i - 1 \/ k = i
    BY <2>2
  <2>9. g[i].cache = c /\ g[i].data = Append(p.data, v)
    BY <2>3
  <2> QED
    BY <2>4, <2>5, <2>6, <2>7, <2>8, <2>9 DEF Good
<1>7. S = 0 .. n
  <2>1. S \in SUBSET (0 .. n) /\ 0 \in S
    BY <1>3, <1>5
  <2>2. \A i \in 1 .. n : i - 1 \in S => i \in S
    <3> SUFFICES ASSUME NEW i \in 1 .. n, i - 1 \in S PROVE i \in S
      OBVIOUS
    <3>1. Good(i - 1)
      OBVIOUS
    <3>2. Good(i)
      BY <1>6, <3>1
    <3>3. i \in 0 .. n
      BY <1>3
    <3> HIDE DEF Good
    <3> QED
      BY <3>2, <3>3
  <2> HIDE DEF S
  <2> QED
    BY <1>3, <2>1, <2>2, UpTo
<1>8. Good(n)
  <2>1. n \in 0 .. n
    BY <1>3
  <2> HIDE DEF Good
  <2> QED
    BY <1>7, <2>1
<1>9. Coherent(d, s.cache) => g[n].data = Contents(d, r.at, n)
  <2> HAVE Coherent(d, s.cache)
  <2>1. /\ Contents(d, r.at, n) \in Seq(Vals) /\ Contents(d, r.at, n) \in [1 .. n -> Vals]
    BY <1>3, ContentsFacts
  <2>2. Len(Contents(d, r.at, n)) = n
    BY <1>3, <2>1, LenProperties
  <2> QED
    BY <1>8, <2>1, <2>2, SeqEqual
<1> QED
  BY <1>1, <1>8, <1>9 DEF d, n

\* What the device changes while it serves.
Served ==
  [disk : Disks, cache : Caches, buf : [Heads -> Seq(Vals)],
   status : [Heads -> {"none", "ok", "unsupp"}],
   used : [Heads -> Heads], usedIdx : Indices, int : BOOLEAN]

\* A write past the end, or of nothing, leaves the disk as it is.
LEMMA NothingWritten ==
  ASSUME NEW d \in Disks, NEW at \in Nat, NEW vals \in Seq(Vals), Len(vals) = 0 \/ at >= Capacity
  PROVE  Overwritten(d, at, vals) = d
<1>1. Len(vals) \in Nat /\ Capacity \in Nat
  BY DiskAssumption, LenProperties
<1>2. DOMAIN d = 0 .. Capacity - 1
  BY DEF Disks
<1>3. \A s \in DOMAIN d : s \notin at .. at + Len(vals) - 1
  BY <1>1, <1>2
<1>4. Overwritten(d, at, vals) = [s \in DOMAIN d |-> d[s]]
  BY <1>3 DEF Overwritten
<1> QED
  BY <1>4 DEF Disks

\* A write keeps the disk a disk.
LEMMA WrittenFacts ==
  ASSUME NEW d \in Disks, NEW at \in Nat, NEW vals \in Seq(Vals)
  PROVE  Overwritten(d, at, vals) \in Disks
<1>1. Len(vals) \in Nat /\ DOMAIN d = 0 .. Capacity - 1 /\ Capacity \in Nat
  BY DiskAssumption, LenProperties DEF Disks
<1>2. \A s \in 0 .. Capacity - 1 : s \in at .. at + Len(vals) - 1 => s - at + 1 \in 1 .. Len(vals)
  BY <1>1
<1>3. \A i \in 1 .. Len(vals) : vals[i] \in Vals
  BY ElementOfSeq
<1> QED
  BY <1>1, <1>2, <1>3 DEF Overwritten, Disks

\* The chains of requests.
LEMMA RequestFacts ==
  ASSUME NEW r \in Requests
  PROVE  /\ r.kind \in {"in", "out", "other"} /\ r.at \in Nat /\ r.len \in Nat
         /\ r.whole \in BOOLEAN /\ r.vals \in Seq(Vals)
         /\ r.kind = "out" => Len(r.vals) = r.len
  BY DiskAssumption

\* Moving the data of one chain.
LEMMA MovedFacts ==
  ASSUME NEW s \in Served, NEW head \in Heads, chain[head] \in Requests
  PROVE  LET r == chain[head]
             t == Moved(s, head) IN
         /\ t \in Served
         /\ t.status = s.status /\ t.used = s.used /\ t.usedIdx = s.usedIdx /\ t.int = s.int
         /\ \A x \in Heads : x # head => t.buf[x] = s.buf[x]
         /\ t.disk = IF r.kind = "out" THEN Overwritten(s.disk, r.at, r.vals) ELSE s.disk
         /\ Coherent(s.disk, s.cache) =>
              /\ Coherent(t.disk, t.cache)
              /\ r.kind = "in" => t.buf[head] = Contents(s.disk, r.at, r.len)
<1> PICK r, t : r = chain[head] /\ t = Moved(s, head)
  OBVIOUS
<1>1. /\ r.kind \in {"in", "out", "other"} /\ r.at \in Nat /\ r.len \in Nat /\ r.vals \in Seq(Vals)
      /\ r.kind = "out" => Len(r.vals) = r.len
  BY RequestFacts
<1>2. s.disk \in Disks /\ s.cache \in Caches /\ s.buf \in [Heads -> Seq(Vals)]
  BY DEF Served
<1>3. CASE r.kind = "in"
  <2> PICK q : q = ReadSectors(s, r)
    OBVIOUS
  <2>1. /\ q.cache \in Caches /\ q.data \in Seq(Vals)
        /\ Coherent(s.disk, s.cache) => /\ Coherent(s.disk, q.cache)
                                        /\ q.data = Contents(s.disk, r.at, r.len)
    BY <1>1, <1>2, ReadFacts
  <2>2. t = [s EXCEPT !.cache = q.cache, !.buf[head] = q.data]
    BY <1>3 DEF Moved, CopyIn
  <2>3. /\ t.disk = s.disk /\ t.cache = q.cache /\ t.buf = [s.buf EXCEPT ![head] = q.data]
        /\ t.status = s.status /\ t.used = s.used /\ t.usedIdx = s.usedIdx /\ t.int = s.int
    BY <2>2 DEF Served
  <2>4. t \in Served
    <3>1. t.buf \in [Heads -> Seq(Vals)]
      BY <1>2, <2>1, <2>3
    <3>2. t = [disk |-> t.disk, cache |-> t.cache, buf |-> t.buf, status |-> t.status,
               used |-> t.used, usedIdx |-> t.usedIdx, int |-> t.int]
      BY <2>2 DEF Served
    <3>3. /\ s.status \in [Heads -> {"none", "ok", "unsupp"}] /\ s.used \in [Heads -> Heads]
          /\ s.usedIdx \in Indices /\ s.int \in BOOLEAN
      BY DEF Served
    <3> QED
      BY <1>2, <2>1, <2>3, <3>1, <3>2, <3>3 DEF Served
  <2>5. t.buf[head] = q.data /\ \A x \in Heads : x # head => t.buf[x] = s.buf[x]
    BY <1>2, <2>3
  <2> QED
    BY <1>3, <2>1, <2>3, <2>4, <2>5
<1>4. CASE r.kind = "out"
  <2> PICK d : d = Overwritten(s.disk, r.at, r.vals)
    OBVIOUS
  <2>1. d \in Disks
    BY <1>1, <1>2, WrittenFacts
  <2> PICK c : c = IF r.len > 0 /\ r.at < Capacity THEN NoCache ELSE s.cache
    OBVIOUS
  <2>2. t = [s EXCEPT !.disk = d, !.cache = c]
    BY <1>4 DEF Moved, CopyOut
  <2>3. c \in Caches
    BY <1>2 DEF Caches
  <2>4. /\ t.disk = d /\ t.cache = c /\ t.buf = s.buf
        /\ t.status = s.status /\ t.used = s.used /\ t.usedIdx = s.usedIdx /\ t.int = s.int
    BY <2>2 DEF Served
  <2>5. t \in Served
    BY <2>1, <2>2, <2>3 DEF Served
  <2>6. Coherent(s.disk, s.cache) => Coherent(d, c)
    <3>1. CASE r.len > 0 /\ r.at < Capacity
      BY <3>1 DEF Coherent
    <3>2. CASE ~(r.len > 0 /\ r.at < Capacity)
      <4>1. Len(r.vals) = 0 \/ r.at >= Capacity
        BY <1>1, <1>4, <3>2, DiskAssumption
      <4>2. d = s.disk
        BY <1>1, <1>2, <4>1, NothingWritten
      <4> QED
        BY <3>2, <4>2
    <3> QED
      BY <3>1, <3>2
  <2> QED
    BY <1>4, <2>4, <2>5, <2>6
<1>5. CASE r.kind = "other"
  <2>1. t = s
    BY <1>5 DEF Moved
  <2> QED
    BY <1>5, <2>1
<1> QED
  BY <1>1, <1>3, <1>4, <1>5

\* The chains that are submitted and not given back.
Live == {x \in busy : chain[x] \in Requests}

\* The answers that are not collected, if the device has got as far as s.
Answers(s) ==
  [i \in 1 .. Distance(lastUsed, s.usedIdx) |->
     LET head == s.used[Plus(lastUsed, i - 1) % Q] IN
     [head |-> head, status |-> s.status[head],
      data |-> IF chain[head].kind = "in" THEN s.buf[head] ELSE <<>>]]

\* From avail index a on n chains wait, when the device has got as far as s.
Stands(s, a, n) ==
  /\ s \in Served /\ a \in Indices
  /\ Rings(a, n, lastUsed, Distance(lastUsed, s.usedIdx), avail, s.used, Live)

AnswerSet == [head : Heads, status : {"none", "ok", "unsupp"}, data : Seq(Vals)]

\* The answers are a sequence of answers.
LEMMA AnswersFacts ==
  ASSUME lastUsed \in Indices, Live \in SUBSET Heads, NEW s, NEW a, NEW n, Stands(s, a, n)
  PROVE  Answers(s) \in Seq(AnswerSet) /\ Len(Answers(s)) = Distance(lastUsed, s.usedIdx)
<1> DEFINE m == Distance(lastUsed, s.usedIdx)
<1>1. m \in Nat /\ \A i \in 0 .. m - 1 : s.used[Place(lastUsed, i)] \in Heads
  BY DiskAssumption DEF Stands, Rings
<1>2. s.status \in [Heads -> {"none", "ok", "unsupp"}] /\ s.buf \in [Heads -> Seq(Vals)]
  BY DEF Stands, Served
<1>3. <<>> \in Seq(Vals)
  OBVIOUS
<1>4. ASSUME NEW i \in 1 .. m
      PROVE  Answers(s)[i] \in AnswerSet
  <2> PICK head : head = s.used[Place(lastUsed, i - 1)]
    OBVIOUS
  <2>1. head \in Heads
    BY <1>1
  <2>2. Answers(s)[i] = [head |-> head, status |-> s.status[head],
                         data |-> IF chain[head].kind = "in" THEN s.buf[head] ELSE <<>>]
    BY DEF Answers, Place
  <2> QED
    BY <1>2, <1>3, <2>1, <2>2 DEF AnswerSet
<1>5. Answers(s) \in [1 .. m -> AnswerSet]
  <2>1. Answers(s) = [i \in 1 .. m |-> Answers(s)[i]]
    BY DEF Answers
  <2> HIDE DEF m
  <2> QED
    BY <1>4, <2>1
<1> HIDE DEF m
<1>6. Answers(s) \in Seq(AnswerSet)
  BY <1>1, <1>5, SeqDef
<1>7. Len(Answers(s)) = m
  BY <1>1, <1>5, <1>6, LenProperties
<1> QED
  BY <1>6, <1>7 DEF m

\* Serving the first chain that waits is one step of the abstract device.
LEMMA ServeOne ==
  ASSUME lastUsed \in Indices, Live \in SUBSET Heads, avail \in [Heads -> Heads],
         NEW s, NEW a, NEW n, Stands(s, a, n), n > 0
  PROVE  LET head == avail[Place(a, 0)]
             t == ProcessChain(s, head) IN
         /\ Stands(t, Plus(a, 1), n - 1)
         /\ t.int \/ (t.usedIdx = s.usedIdx /\ t.int = s.int)
         /\ Coherent(s.disk, s.cache) =>
              /\ Coherent(t.disk, t.cache)
              /\ [disk |-> t.disk, done |-> Answers(t)] =
                   Promise!One([disk |-> s.disk, done |-> Answers(s)], [head |-> head, req |-> chain[head]])
<1> PICK head, r, m, v, t : /\ head = avail[Place(a, 0)] /\ r = chain[head]
                            /\ m = Distance(lastUsed, s.usedIdx)
                            /\ v = Moved(s, head) /\ t = ProcessChain(s, head)
  OBVIOUS
<1> DEFINE us == [s.used EXCEPT ![Place(lastUsed, m)] = head]
           st == IF r.kind = "other" THEN "unsupp" ELSE "ok"
<1>1. /\ s \in Served /\ a \in Indices /\ Rings(a, n, lastUsed, m, avail, s.used, Live)
      /\ s.used \in [Heads -> Heads] /\ s.usedIdx \in Indices /\ s.status \in [Heads -> {"none", "ok", "unsupp"}]
  BY DEF Stands, Served
<1>2. /\ Rings(Plus(a, 1), n - 1, lastUsed, m, avail, s.used, Live)
      /\ Rings(Plus(a, 1), n - 1, lastUsed, m + 1, avail, us, Live)
      /\ head \in Live /\ m < Q
      /\ \A i \in 0 .. m - 1 : us[Place(lastUsed, i)] = s.used[Place(lastUsed, i)]
                               /\ s.used[Place(lastUsed, i)] # head
      /\ us[Place(lastUsed, m)] = head
  <2>1. FirstServed(a, n, lastUsed, m, avail, s.used, Live)
    BY <1>1, RingsServe
  <2> QED
    BY <2>1 DEF FirstServed
<1>3. head \in Heads /\ r \in Requests /\ chain[head] \in Requests
  BY <1>2 DEF Live
<1>4. /\ r.kind \in {"in", "out", "other"} /\ r.at \in Nat /\ r.len \in Nat
      /\ r.whole \in BOOLEAN /\ r.vals \in Seq(Vals)
  BY <1>3, RequestFacts
<1>5. /\ v \in Served
      /\ v.status = s.status /\ v.used = s.used /\ v.usedIdx = s.usedIdx /\ v.int = s.int
      /\ \A x \in Heads : x # head => v.buf[x] = s.buf[x]
      /\ v.disk = IF r.kind = "out" THEN Overwritten(s.disk, r.at, r.vals) ELSE s.disk
      /\ Coherent(s.disk, s.cache) =>
           /\ Coherent(v.disk, v.cache)
           /\ r.kind = "in" => v.buf[head] = Contents(s.disk, r.at, r.len)
  BY <1>1, <1>3, MovedFacts
<1>6. Plus(a, 1) \in Indices /\ m \in Nat /\ Q \in Nat /\ m \in 0 .. Q - 1
  <2>1. 1 \in 0 .. Q
    BY DiskAssumption
  <2>2. m \in Nat /\ Q \in Nat /\ m \in 0 .. Q - 1
    BY <1>1, <1>2, DiskAssumption DEF Rings
  <2> QED
    BY <1>1, <2>1, <2>2, PlusFacts
<1>7. s.usedIdx = Plus(lastUsed, m) /\ Plus(s.usedIdx, 1) \in Indices
      /\ Distance(lastUsed, Plus(s.usedIdx, 1)) = m + 1
  <2>1. s.usedIdx = Plus(lastUsed, m)
    BY <1>1, DistanceFacts
  <2>2. m \in 0 .. Q /\ 1 \in 0 .. Q /\ m + 1 <= Q /\ m + 1 \in 0 .. Q
    BY <1>6
  <2>3. Plus(Plus(lastUsed, m), 1) = Plus(lastUsed, m + 1)
    BY <2>2, PlusFacts
  <2>4. Distance(lastUsed, Plus(lastUsed, m + 1)) = m + 1 /\ Plus(lastUsed, m + 1) \in Indices
    BY <2>2, PlusFacts
  <2> QED
    BY <2>1, <2>3, <2>4
<1>8. Answers(s) \in Seq(AnswerSet) /\ Len(Answers(s)) = m
  BY AnswersFacts
<1>9. v.disk = IF r.kind = "out" THEN Promise!WriteTo(s.disk, r.at, r.vals) ELSE s.disk
  BY <1>5 DEF Promise!WriteTo, Overwritten
<1>10. CASE ~r.whole
  <2>1. t = v
    BY <1>10 DEF ProcessChain
  <2>2. Stands(t, Plus(a, 1), n - 1)
    BY <1>2, <1>5, <1>6, <2>1 DEF Stands
  <2>3. Answers(t) = Answers(s)
    <3>1. Distance(lastUsed, t.usedIdx) = m
      BY <1>5, <2>1
    <3>2. Answers(t) \in Seq(AnswerSet) /\ Len(Answers(t)) = m
      BY <2>2, <3>1, AnswersFacts
    <3>3. ASSUME NEW i \in 1 .. m PROVE Answers(t)[i] = Answers(s)[i]
      <4> PICK x : x = s.used[Place(lastUsed, i - 1)]
        OBVIOUS
      <4>1. i - 1 \in 0 .. m - 1
        BY <1>6
      <4>2. x # head /\ x \in Heads
        BY <1>1, <1>2, <4>1 DEF Rings
      <4>3. Answers(t)[i] = [head |-> x, status |-> s.status[x],
                             data |-> IF chain[x].kind = "in" THEN v.buf[x] ELSE <<>>]
        <5>1. t.used = s.used /\ t.status = s.status /\ t.buf = v.buf
          BY <1>5, <2>1
        <5> HIDE <1>5
        <5> QED
          BY <3>1, <5>1 DEF Answers, Place
      <4>4. Answers(s)[i] = [head |-> x, status |-> s.status[x],
                             data |-> IF chain[x].kind = "in" THEN s.buf[x] ELSE <<>>]
        BY DEF Answers, Place
      <4>5. v.buf[x] = s.buf[x]
        BY <1>5, <4>2
      <4> QED
        BY <4>3, <4>4, <4>5
    <3> QED
      BY <1>8, <3>2, <3>3, SeqEqual
  <2>4. Promise!One([disk |-> s.disk, done |-> Answers(s)], [head |-> head, req |-> r]) =
          [disk |-> v.disk, done |-> Answers(s)]
    BY <1>9, <1>10 DEF Promise!One
  <2> QED
    BY <1>5, <2>1, <2>2, <2>3, <2>4
<1>11. CASE r.whole
  <2>1. t = [v EXCEPT !.status[head] = st, !.used[s.usedIdx % Q] = head,
                      !.usedIdx = Plus(@, 1), !.int = TRUE]
    BY <1>5, <1>11 DEF ProcessChain, FinishUsed
  <2>2. s.usedIdx % Q = Place(lastUsed, m)
    BY <1>7 DEF Place
  <2>3. /\ t.disk = v.disk /\ t.cache = v.cache /\ t.buf = v.buf
        /\ t.status = [s.status EXCEPT ![head] = st] /\ t.used = us
        /\ t.usedIdx = Plus(s.usedIdx, 1) /\ t.int = TRUE
    BY <1>5, <2>1, <2>2 DEF Served
  <2>4. st \in {"none", "ok", "unsupp"}
    OBVIOUS
  <2>5. t \in Served
    <3>1. t.status \in [Heads -> {"none", "ok", "unsupp"}]
      <4> HIDE DEF st
      <4> QED
        BY <1>1, <1>3, <2>3, <2>4
    <3>4. t.used \in [Heads -> Heads]
      <4> PICK w, p : w = s.used /\ p = Place(lastUsed, m)
        OBVIOUS
      <4>1. w \in [Heads -> Heads] /\ t.used = [w EXCEPT ![p] = head]
        BY <1>1, <2>3
      <4> QED
        BY <1>3, <4>1
    <3>2. t = [disk |-> t.disk, cache |-> t.cache, buf |-> t.buf, status |-> t.status,
               used |-> t.used, usedIdx |-> t.usedIdx, int |-> t.int]
      BY <1>5, <2>1 DEF Served
    <3>3. v.disk \in Disks /\ v.cache \in Caches /\ v.buf \in [Heads -> Seq(Vals)]
      BY <1>5 DEF Served
    <3> QED
      BY <1>7, <2>3, <3>1, <3>2, <3>3, <3>4 DEF Served
  <2>6. Stands(t, Plus(a, 1), n - 1)
    <3>1. Rings(Plus(a, 1), n - 1, lastUsed, Distance(lastUsed, t.usedIdx), avail, t.used, Live)
      <4> HIDE DEF us
      <4> QED
        BY <1>2, <1>7, <2>3
    <3> QED
      BY <1>6, <2>5, <3>1 DEF Stands
  <2> DEFINE e == [head |-> head, status |-> st, data |-> IF r.kind = "in" THEN v.buf[head] ELSE <<>>]
  <2>7. Answers(t) = Append(Answers(s), e)
    <3>1. t.usedIdx = Plus(s.usedIdx, 1) /\ Distance(lastUsed, t.usedIdx) = m + 1
      BY <1>7, <2>3
    <3>2. Answers(t) \in Seq(AnswerSet) /\ Len(Answers(t)) = m + 1
      BY <2>6, <3>1, AnswersFacts
    <3>3. e \in AnswerSet
      <4>1. v.buf[head] \in Seq(Vals) /\ <<>> \in Seq(Vals)
        BY <1>3, <1>5 DEF Served
      <4> QED
        BY <1>3, <2>4, <4>1 DEF AnswerSet
    <3>4. /\ Append(Answers(s), e) \in Seq(AnswerSet) /\ Len(Append(Answers(s), e)) = m + 1
          /\ \A i \in 1 .. m : Append(Answers(s), e)[i] = Answers(s)[i]
          /\ Append(Answers(s), e)[m + 1] = e
      <4> HIDE DEF e
      <4> QED
        BY <1>8, <3>3, AppendProperties
    <3>5. ASSUME NEW i \in 1 .. m + 1 PROVE Answers(t)[i] = Append(Answers(s), e)[i]
      <4> PICK x : x = t.used[Place(lastUsed, i - 1)]
        OBVIOUS
      <4>1. Answers(t)[i] = [head |-> x, status |-> t.status[x],
                             data |-> IF chain[x].kind = "in" THEN t.buf[x] ELSE <<>>]
        BY <3>1 DEF Answers, Place
      <4>2. CASE i = m + 1
        <5>1. i - 1 = m
          BY <1>6, <4>2
        <5>2. x = head
          BY <1>2, <2>3, <5>1
        <5>3. t.status[x] = st /\ t.buf[x] = v.buf[head]
          BY <1>1, <1>3, <2>3, <5>2
        <5>4. Answers(t)[i] = e
          BY <4>1, <5>2, <5>3
        <5>5. Append(Answers(s), e)[i] = e
          <6> HIDE DEF e
          <6> QED
            BY <3>4, <4>2
        <5> QED
          BY <5>4, <5>5
      <4>3. CASE i # m + 1
        <5>1. i - 1 \in 0 .. m - 1 /\ i \in 1 .. m
          BY <1>6, <4>3
        <5>2. x = s.used[Place(lastUsed, i - 1)] /\ x # head /\ x \in Heads
          BY <1>1, <1>2, <2>3, <5>1 DEF Rings
        <5>3. t.status[x] = s.status[x] /\ t.buf[x] = s.buf[x]
          BY <1>1, <1>5, <2>3, <5>2
        <5>4. Answers(s)[i] = [head |-> x, status |-> s.status[x],
                               data |-> IF chain[x].kind = "in" THEN s.buf[x] ELSE <<>>]
          BY <5>1, <5>2 DEF Answers, Place
        <5> QED
          BY <3>4, <4>1, <5>1, <5>3, <5>4
      <4> QED
        BY <4>2, <4>3
    <3> HIDE DEF e
    <3> QED
      BY <3>2, <3>4, <3>5, SeqEqual
  <2>8. Coherent(s.disk, s.cache) => e = Promise!Answer(s.disk, head, r)
    <3>1. st = Promise!Status(r)
      BY <1>4 DEF Promise!Status
    <3>2. Contents(s.disk, r.at, r.len) = Promise!ReadFrom(s.disk, r.at, r.len)
      BY DEF Contents, Promise!ReadFrom
    <3> QED
      BY <1>5, <3>1, <3>2 DEF Promise!Answer
  <2>9. Promise!One([disk |-> s.disk, done |-> Answers(s)], [head |-> head, req |-> r]) =
          [disk |-> v.disk, done |-> Append(Answers(s), Promise!Answer(s.disk, head, r))]
    BY <1>9, <1>11 DEF Promise!One
  <2> HIDE DEF e
  <2>10. ASSUME Coherent(s.disk, s.cache)
         PROVE  /\ Coherent(t.disk, t.cache)
                /\ [disk |-> t.disk, done |-> Answers(t)] =
                     Promise!One([disk |-> s.disk, done |-> Answers(s)], [head |-> head, req |-> r])
    <3>1. Coherent(v.disk, v.cache)
      BY <1>5, <2>10
    <3>2. t.disk = v.disk /\ t.cache = v.cache
      BY <2>3
    <3> QED
      BY <2>7, <2>8, <2>9, <2>10, <3>1, <3>2
  <2> QED
    BY <2>3, <2>6, <2>10
<1> QED
  BY <1>4, <1>10, <1>11

-----------------------------------------------------------------------------
\* One notification.

DiskTypes ==
  /\ disk \in Disks /\ cache \in [Harts -> Caches]
  /\ ready \in BOOLEAN /\ int \in BOOLEAN /\ unkicked \in BOOLEAN
  /\ lastAvail \in Indices /\ availIdx \in Indices /\ usedIdx \in Indices /\ lastUsed \in Indices
  /\ avail \in [Heads -> Heads] /\ used \in [Heads -> Heads]
  /\ chain \in [Heads -> Requests \cup {NoChain}]
  /\ status \in [Heads -> {"none", "ok", "unsupp"}]
  /\ buf \in [Heads -> Seq(Vals)]
  /\ busy \in SUBSET Heads

\* The chains that wait and those that are answered.
WaitLen == Distance(lastAvail, availIdx)
DoneLen == Distance(lastUsed, usedIdx)

\* A device that is not set up starts at the first entry.
DiskInv ==
  /\ DiskTypes
  /\ ~ready => lastAvail = 0
  /\ ready => Rings(lastAvail, WaitLen, lastUsed, DoneLen, avail, used, Live)

\* The device when it begins and when it ends.
Start(h) ==
  [disk |-> disk, cache |-> cache[h], buf |-> buf, status |-> status,
   used |-> used, usedIdx |-> usedIdx, int |-> int]
Final(h) == AllServed(Start(h), Batch)

\* g goes from the one to the other, chain by chain.
Serves(g, h) ==
  /\ g[0] = Start(h) /\ g[WaitLen] = Final(h)
  /\ \A i \in 0 .. WaitLen :
       /\ Stands(g[i], Plus(lastAvail, i), WaitLen - i)
       /\ g[i].int \/ (g[i].usedIdx = usedIdx /\ g[i].int = int)
       /\ Coherent(disk, cache[h]) => Coherent(g[i].disk, g[i].cache)
  /\ Coherent(disk, cache[h]) =>
       \A i \in 1 .. WaitLen :
         [disk |-> g[i].disk, done |-> Answers(g[i])] =
           Promise!One([disk |-> g[i - 1].disk, done |-> Answers(g[i - 1])],
                       [head |-> Batch[i], req |-> chain[Batch[i]]])

\* The chains of one notification are all that wait.
LEMMA BatchFacts ==
  ASSUME DiskInv, ready
  PROVE  /\ WaitLen \in 0 .. Q /\ Batch = [i \in 1 .. WaitLen |-> avail[Place(lastAvail, i - 1)]]
         /\ Batch \in Seq(Heads) /\ Len(Batch) = WaitLen
<1>1. WaitLen \in 0 .. Q /\ WaitLen \in Nat /\ Q \in Nat
      /\ \A i \in 0 .. WaitLen - 1 : avail[Place(lastAvail, i)] \in Live
  BY DiskAssumption DEF DiskInv, Rings
<1>2. Batch = [i \in 1 .. WaitLen |-> avail[Place(lastAvail, i - 1)]]
  <2>1. (IF WaitLen < Q THEN WaitLen ELSE Q) = WaitLen
    BY <1>1
  <2> QED
    BY <2>1 DEF Batch, WaitLen, Place
<1>3. Batch \in [1 .. WaitLen -> Heads]
  <2>1. \A i \in 1 .. WaitLen : i - 1 \in 0 .. WaitLen - 1
    BY <1>1
  <2>2. Live \subseteq Heads
    BY DEF Live, DiskInv, DiskTypes
  <2>3. \A i \in 1 .. WaitLen : avail[Place(lastAvail, i - 1)] \in Heads
    BY <1>1, <2>1, <2>2
  <2> QED
    BY <1>2, <2>3
<1>4. Batch \in Seq(Heads)
  BY <1>1, <1>3, SeqDef
<1> QED
  BY <1>1, <1>2, <1>3, <1>4, LenProperties

\* A notification serves them one by one.
LEMMA ServeAll ==
  ASSUME DiskInv, ready, NEW h \in Harts
  PROVE  \E g : Serves(g, h)
<1> PICK n : n = WaitLen
  OBVIOUS
<1>1. /\ n \in 0 .. Q /\ n \in Nat /\ Q \in Nat
      /\ DOMAIN Batch = 1 .. n /\ \A i \in 1 .. n : Batch[i] = avail[Place(lastAvail, i - 1)]
  <2>1. n \in 0 .. Q /\ Batch = [i \in 1 .. n |-> avail[Place(lastAvail, i - 1)]]
    BY BatchFacts
  <2>2. Q \in Nat
    BY DiskAssumption
  <2> QED
    BY <2>1, <2>2
<1>2. /\ lastUsed \in Indices /\ lastAvail \in Indices /\ Live \in SUBSET Heads /\ avail \in [Heads -> Heads]
      /\ Rings(lastAvail, n, lastUsed, DoneLen, avail, used, Live)
  BY DEF DiskInv, DiskTypes, Live
<1>3. Start(h) \in Served
  BY DEF DiskInv, DiskTypes, Start, Served
<1>4. PICK g : /\ g[0] = Start(h) /\ g[n] = AllServed(Start(h), Batch)
               /\ \A i \in 1 .. n : g[i] = ProcessChain(g[i - 1], Batch[i])
  <2>1. PICK g : Serving(g, Start(h), Batch, n)
    BY <1>1, FoldServes
  <2> QED
    BY <2>1 DEF Serving
<1> DEFINE Good(i) ==
      /\ Stands(g[i], Plus(lastAvail, i), n - i)
      /\ g[i].int \/ (g[i].usedIdx = usedIdx /\ g[i].int = int)
      /\ Coherent(disk, cache[h]) => Coherent(g[i].disk, g[i].cache)
           One(i) ==
      Coherent(disk, cache[h]) =>
        [disk |-> g[i].disk, done |-> Answers(g[i])] =
          Promise!One([disk |-> g[i - 1].disk, done |-> Answers(g[i - 1])],
                      [head |-> Batch[i], req |-> chain[Batch[i]]])
           S == {i \in 0 .. n : Good(i)}
<1>5. Good(0)
  <2>1. /\ g[0].disk = disk /\ g[0].cache = cache[h] /\ g[0].used = used
        /\ g[0].usedIdx = usedIdx /\ g[0].int = int /\ g[0] \in Served
    BY <1>3, <1>4 DEF Start
  <2>2. Plus(lastAvail, 0) = lastAvail /\ n - 0 = n
    <3>1. 0 \in 0 .. Q
      BY <1>1
    <3> QED
      BY <1>1, <1>2, <3>1, PlusFacts
  <2>3. Stands(g[0], Plus(lastAvail, 0), n - 0)
    BY <1>2, <2>1, <2>2 DEF Stands, DoneLen
  <2> QED
    BY <2>1, <2>3
<1>6. ASSUME NEW i \in 1 .. n, Good(i - 1) PROVE Good(i) /\ One(i)
  <2> PICK s, a, t, head : /\ s = g[i - 1] /\ a = Plus(lastAvail, i - 1) /\ t = g[i] /\ head = Batch[i]
    OBVIOUS
  <2>1. Stands(s, a, n - (i - 1)) /\ n - (i - 1) > 0 /\ (n - (i - 1)) - 1 = n - i
    BY <1>1, <1>6
  <2>2. Plus(a, 1) = Plus(lastAvail, i) /\ Place(a, 0) = Place(lastAvail, i - 1)
    <3>1. i - 1 \in 0 .. Q /\ 1 \in 0 .. Q /\ 0 \in 0 .. Q /\ (i - 1) + 1 = i /\ (i - 1) + 0 = i - 1 /\ i <= Q /\ i - 1 <= Q
      BY <1>1
    <3>2. Plus(a, 1) = Plus(lastAvail, (i - 1) + 1) /\ Plus(a, 0) = Plus(lastAvail, (i - 1) + 0)
      BY <1>2, <3>1, PlusFacts
    <3> QED
      BY <3>1, <3>2 DEF Place
  <2>3. head = avail[Place(a, 0)] /\ t = ProcessChain(s, head)
    BY <1>1, <1>4, <2>2
  <2>4. /\ Stands(t, Plus(a, 1), (n - (i - 1)) - 1)
        /\ t.int \/ (t.usedIdx = s.usedIdx /\ t.int = s.int)
        /\ Coherent(s.disk, s.cache) =>
             /\ Coherent(t.disk, t.cache)
             /\ [disk |-> t.disk, done |-> Answers(t)] =
                  Promise!One([disk |-> s.disk, done |-> Answers(s)], [head |-> head, req |-> chain[head]])
    <3>1. \A k : Stands(s, a, k) /\ k > 0 =>
            /\ Stands(t, Plus(a, 1), k - 1)
            /\ t.int \/ (t.usedIdx = s.usedIdx /\ t.int = s.int)
            /\ Coherent(s.disk, s.cache) =>
                 /\ Coherent(t.disk, t.cache)
                 /\ [disk |-> t.disk, done |-> Answers(t)] =
                      Promise!One([disk |-> s.disk, done |-> Answers(s)], [head |-> head, req |-> chain[head]])
      BY <1>2, <2>3, ServeOne
    <3> QED
      BY <2>1, <3>1
  <2> QED
    BY <1>6, <2>1, <2>2, <2>4
<1>7. S = 0 .. n
  <2>1. S \in SUBSET (0 .. n) /\ 0 \in S
    BY <1>1, <1>5
  <2>2. \A i \in 1 .. n : i - 1 \in S => i \in S
    <3> SUFFICES ASSUME NEW i \in 1 .. n, i - 1 \in S PROVE i \in S
      OBVIOUS
    <3>1. Good(i - 1)
      OBVIOUS
    <3>2. Good(i)
      BY <1>6, <3>1
    <3>3. i \in 0 .. n
      BY <1>1
    <3> HIDE DEF Good
    <3> QED
      BY <3>2, <3>3
  <2> HIDE DEF S
  <2> QED
    BY <1>1, <2>1, <2>2, UpTo
<1>8. \A i \in 0 .. n : Good(i)
  <2> HIDE DEF Good
  <2> QED
    BY <1>7
<1>9. \A i \in 1 .. n : One(i)
  <2> TAKE i \in 1 .. n
  <2>1. i - 1 \in 0 .. n
    BY <1>1
  <2>2. Good(i - 1)
    <3> HIDE DEF Good
    <3> QED
      BY <1>8, <2>1
  <2> HIDE DEF Good, One
  <2> QED
    BY <1>6, <2>2
<1> QED
  BY <1>4, <1>8, <1>9 DEF Serves, Final

\* What a notification leaves.
LEMMA KickFacts ==
  ASSUME DiskInv, ready, NEW h \in Harts, Kick(h)
  PROVE  /\ Stands(Final(h), availIdx, 0)
         /\ Final(h).int \/ (Final(h).usedIdx = usedIdx /\ Final(h).int = int)
         /\ Coherent(disk, cache[h]) => Coherent(Final(h).disk, Final(h).cache)
         /\ disk' = Final(h).disk /\ cache' = [cache EXCEPT ![h] = Final(h).cache]
         /\ buf' = Final(h).buf /\ status' = Final(h).status
         /\ used' = Final(h).used /\ usedIdx' = Final(h).usedIdx /\ int' = Final(h).int
         /\ lastAvail' = availIdx /\ unkicked' = FALSE
         /\ UNCHANGED <<ready, chain, avail, availIdx, plicVars, boot, busy, lastUsed, pc, serving, input>>
<1>1. WaitLen \in 0 .. Q /\ Len(Batch) = WaitLen /\ WaitLen \in 0 .. WaitLen /\ WaitLen - WaitLen = 0
  <2>1. WaitLen \in 0 .. Q /\ Len(Batch) = WaitLen
    BY BatchFacts
  <2> QED
    BY <2>1
<1>2. Plus(lastAvail, WaitLen) = availIdx
  BY DistanceFacts DEF WaitLen, DiskInv, DiskTypes
<1>3. PICK g : Serves(g, h)
  BY ServeAll
<1>4. /\ Stands(Final(h), availIdx, 0)
      /\ Final(h).int \/ (Final(h).usedIdx = usedIdx /\ Final(h).int = int)
      /\ Coherent(disk, cache[h]) => Coherent(Final(h).disk, Final(h).cache)
  BY <1>1, <1>2, <1>3 DEF Serves
<1>5. Final(h) = FoldLeft(ProcessChain,
                          [disk |-> disk, cache |-> cache[h], buf |-> buf, status |-> status,
                           used |-> used, usedIdx |-> usedIdx, int |-> int],
                          Batch)
  BY DEF Final, Start, AllServed
<1>6. /\ disk' = Final(h).disk /\ cache' = [cache EXCEPT ![h] = Final(h).cache]
      /\ buf' = Final(h).buf /\ status' = Final(h).status
      /\ used' = Final(h).used /\ usedIdx' = Final(h).usedIdx /\ int' = Final(h).int
      /\ lastAvail' = Plus(lastAvail, Len(Batch)) /\ unkicked' = FALSE
      /\ UNCHANGED <<ready, chain, avail, availIdx, plicVars, boot, busy, lastUsed, pc, serving, input>>
  BY <1>5 DEF Kick, Notify
<1> QED
  BY <1>1, <1>2, <1>4, <1>6

\* The rings are as they were.
LEMMA RingsStay ==
  ASSUME DiskInv, disk' \in Disks, cache' \in [Harts -> Caches],
         int' \in BOOLEAN, unkicked' \in BOOLEAN,
         UNCHANGED <<ready, lastAvail, rings, busy, lastUsed>>
  PROVE  DiskInv'
<1>1. UNCHANGED <<chain, avail, availIdx, used, usedIdx, status, buf>>
  BY DEF rings
<1>2. DiskTypes'
  BY <1>1 DEF DiskInv, DiskTypes
<1>3. UNCHANGED <<WaitLen, DoneLen, Live>>
  BY <1>1 DEF WaitLen, DoneLen, Live
<1> QED
  BY <1>1, <1>2, <1>3 DEF DiskInv

\* Any runner may be idle, load or have its cache replaced.
LEMMA RestStays ==
  ASSUME DiskInv
  PROVE  /\ UNCHANGED diskVars /\ UNCHANGED <<busy, lastUsed, unkicked>> => DiskInv'
         /\ \A h \in Harts : Ack(h) \/ HostLoad(h) => DiskInv'
<1>1. ASSUME UNCHANGED diskVars, UNCHANGED <<busy, lastUsed, unkicked>> PROVE DiskInv'
  BY <1>1, RingsStay DEF diskVars, device, DiskInv, DiskTypes
<1>2. ASSUME NEW h \in Harts, Ack(h) PROVE DiskInv'
  BY <1>2, RingsStay DEF Ack, InterruptAck, DiskInv, DiskTypes
<1>3. ASSUME NEW h \in Harts, HostLoad(h) PROVE DiskInv'
  <2>1. disk' \in Disks
    BY <1>3, DiskAssumption DEF HostLoad, LoadDisk, Disks
  <2>2. cache' \in [Harts -> Caches]
    BY <1>3 DEF HostLoad, LoadDisk, DiskInv, DiskTypes, Caches
  <2> QED
    BY <1>3, <2>1, <2>2, RingsStay DEF HostLoad, LoadDisk, driver, device, DiskInv, DiskTypes
<1> QED
  BY <1>1, <1>2, <1>3

\* The driver sets the queue up, or resets the device.
LEMMA SetUpStep ==
  ASSUME DiskInv, SetUp \/ Reset
  PROVE  DiskInv'
<1>1. 0 \in Indices /\ 0 \in Heads /\ Distance(0, 0) = 0 /\ 0 \in 0 .. Q
  <2>1. 0 \in Indices /\ 0 \in Heads /\ 0 \in 0 .. Q
    BY DiskAssumption DEF Indices, Heads
  <2> QED
    BY <2>1, DistanceFacts
<1>2. CASE SetUp
  <2>1. /\ ready' = TRUE /\ availIdx' = 0 /\ usedIdx' = 0 /\ lastUsed' = 0 /\ busy' = {} /\ unkicked' = FALSE
        /\ avail' = [i \in Heads |-> 0] /\ used' = [i \in Heads |-> 0]
        /\ chain' = [i \in Heads |-> NoChain]
        /\ status' = [i \in Heads |-> "none"] /\ buf' = [i \in Heads |-> <<>>]
        /\ UNCHANGED <<disk, cache, lastAvail, int>> /\ ~ready
    BY <1>2 DEF SetUp, SetUpQueue
  <2>2. lastAvail = 0
    BY <2>1 DEF DiskInv
  <2>3. DiskTypes'
    <3>1. avail' \in [Heads -> Heads] /\ used' \in [Heads -> Heads]
      BY <1>1, <2>1
    <3>2. chain' \in [Heads -> Requests \cup {NoChain}]
      BY <2>1
    <3>3. status' \in [Heads -> {"none", "ok", "unsupp"}]
      BY <2>1
    <3>4. buf' \in [Heads -> Seq(Vals)]
      BY <2>1
    <3> QED
      BY <1>1, <2>1, <3>1, <3>2, <3>3, <3>4 DEF DiskInv, DiskTypes
  <2>4. WaitLen' = 0 /\ DoneLen' = 0
    BY <1>1, <2>1, <2>2 DEF WaitLen, DoneLen
  <2>5. Rings(lastAvail', 0, lastUsed', 0, avail', used', Live')
    <3>1. \A i \in 0 .. 0 - 1 : FALSE
      OBVIOUS
    <3> QED
      BY <1>1, <3>1 DEF Rings
  <2> QED
    BY <2>1, <2>3, <2>4, <2>5 DEF DiskInv
<1>3. CASE Reset
  BY <1>1, <1>3 DEF Reset, ResetDevice, rings, DiskInv, DiskTypes
<1> QED
  BY <1>2, <1>3

\* The driver submits a request.
LEMMA SubmitStep ==
  ASSUME DiskInv, NEW head \in Heads, NEW r \in Requests, Submit(head, r)
  PROVE  /\ DiskInv'
         /\ WaitLen' = WaitLen + 1 /\ DoneLen' = DoneLen /\ WaitLen + 1 <= Q
         /\ \A i \in 0 .. WaitLen - 1 : avail'[Place(lastAvail, i)] = avail[Place(lastAvail, i)]
         /\ avail'[Place(lastAvail, WaitLen)] = head
<1>1. /\ ready /\ head \notin busy
      /\ chain' = [chain EXCEPT ![head] = r]
      /\ avail' = [avail EXCEPT ![availIdx % Q] = head]
      /\ availIdx' = Plus(availIdx, 1)
      /\ busy' = busy \cup {head} /\ unkicked' = TRUE
      /\ UNCHANGED <<disk, cache, ready, lastAvail, int, used, usedIdx, status, buf, lastUsed>>
  BY DEF Submit, device
<1>2. /\ DiskTypes /\ Rings(lastAvail, WaitLen, lastUsed, DoneLen, avail, used, Live)
      /\ lastAvail \in Indices /\ availIdx \in Indices /\ avail \in [Heads -> Heads] /\ busy \in SUBSET Heads
      /\ chain \in [Heads -> Requests \cup {NoChain}]
  BY <1>1 DEF DiskInv, DiskTypes
<1>3. Live \in SUBSET Heads /\ head \notin Live
  BY <1>1, <1>2 DEF Live
<1>4. availIdx = Plus(lastAvail, WaitLen) /\ availIdx % Q = Place(lastAvail, WaitLen)
  BY <1>2, DistanceFacts DEF WaitLen, Place
<1>5. /\ Rings(lastAvail, WaitLen + 1, lastUsed, DoneLen, avail', used, Live \cup {head})
      /\ \A i \in 0 .. WaitLen - 1 : avail'[Place(lastAvail, i)] = avail[Place(lastAvail, i)]
      /\ avail'[Place(lastAvail, WaitLen)] = head
  <2>1. Grown(lastAvail, WaitLen, lastUsed, DoneLen, avail, used, Live, head)
    BY <1>2, <1>3, RingsGrow
  <2>2. avail' = [avail EXCEPT ![Place(lastAvail, WaitLen)] = head]
    BY <1>1, <1>4
  <2> QED
    BY <2>1, <2>2 DEF Grown
<1>6. WaitLen \in Nat /\ WaitLen + 1 \in 0 .. Q /\ Q \in Nat /\ WaitLen \in 0 .. Q
  BY <1>2, <1>5, DiskAssumption DEF Rings
<1>7. WaitLen' = WaitLen + 1 /\ availIdx' \in Indices
  <2>1. 1 \in 0 .. Q /\ WaitLen + 1 <= Q
    BY <1>6
  <2>2. Plus(Plus(lastAvail, WaitLen), 1) = Plus(lastAvail, WaitLen + 1)
    BY <1>2, <1>6, <2>1, PlusFacts
  <2>3. Plus(lastAvail, WaitLen + 1) \in Indices /\ Distance(lastAvail, Plus(lastAvail, WaitLen + 1)) = WaitLen + 1
    BY <1>2, <1>6, PlusFacts
  <2>4. availIdx' = Plus(lastAvail, WaitLen + 1) /\ lastAvail' = lastAvail
    BY <1>1, <1>4, <2>2
  <2>5. WaitLen' = Distance(lastAvail', availIdx')
    BY DEF WaitLen
  <2> QED
    BY <2>3, <2>4, <2>5
<1>8. DoneLen' = DoneLen /\ Live' = Live \cup {head}
  BY <1>1, <1>2 DEF DoneLen, Live
<1>9. DiskTypes'
  <2>1. avail' \in [Heads -> Heads] /\ chain' \in [Heads -> Requests \cup {NoChain}] /\ busy' \in SUBSET Heads
    BY <1>1, <1>2
  <2> QED
    BY <1>1, <1>2, <1>7, <2>1 DEF DiskTypes
<1>10. DiskInv'
  BY <1>1, <1>5, <1>7, <1>8, <1>9 DEF DiskInv
<1> QED
  BY <1>5, <1>6, <1>7, <1>8, <1>10

\* The driver notifies the device.
LEMMA KickStep ==
  ASSUME DiskInv, NEW h \in Harts, Kick(h)
  PROVE  DiskInv'
<1>1. CASE ~ready
  BY <1>1, RingsStay DEF Kick, Notify, diskVars, device, DiskInv, DiskTypes
<1>2. CASE ready
  <2> PICK t : t = Final(h)
    OBVIOUS
  <2>1. /\ Stands(t, availIdx, 0)
        /\ disk' = t.disk /\ cache' = [cache EXCEPT ![h] = t.cache]
        /\ buf' = t.buf /\ status' = t.status
        /\ used' = t.used /\ usedIdx' = t.usedIdx /\ int' = t.int
        /\ lastAvail' = availIdx /\ unkicked' = FALSE
        /\ UNCHANGED <<ready, chain, avail, availIdx, busy, lastUsed>>
    BY <1>2, KickFacts
  <2>2. /\ t.disk \in Disks /\ t.cache \in Caches /\ t.buf \in [Heads -> Seq(Vals)]
        /\ t.status \in [Heads -> {"none", "ok", "unsupp"}]
        /\ t.used \in [Heads -> Heads] /\ t.usedIdx \in Indices /\ t.int \in BOOLEAN
        /\ Rings(availIdx, 0, lastUsed, Distance(lastUsed, t.usedIdx), avail, t.used, Live)
    BY <2>1 DEF Stands, Served
  <2>3. DiskTypes'
    BY <2>1, <2>2 DEF DiskInv, DiskTypes
  <2>4. WaitLen' = 0 /\ DoneLen' = Distance(lastUsed, t.usedIdx) /\ Live' = Live
    <3>1. Distance(availIdx, availIdx) = 0
      BY DistanceFacts DEF DiskInv, DiskTypes
    <3> QED
      BY <2>1, <3>1 DEF WaitLen, DoneLen, Live
  <2> QED
    BY <1>2, <2>1, <2>2, <2>3, <2>4 DEF DiskInv
<1> QED
  BY <1>1, <1>2 DEF DiskInv, DiskTypes

\* The driver collects an answer.
LEMMA CollectStep ==
  ASSUME DiskInv, NEW h \in Harts, Collect(h)
  PROVE  /\ DiskInv'
         /\ ready => /\ DoneLen > 0 /\ DoneLen' = DoneLen - 1 /\ WaitLen' = WaitLen
                     /\ lastUsed' = Plus(lastUsed, 1)
                     /\ Rings(lastAvail, WaitLen, Plus(lastUsed, 1), DoneLen - 1, avail, used,
                              Live \ {used[Place(lastUsed, 0)]})
                     /\ \A i \in 0 .. WaitLen - 1 : avail[Place(lastAvail, i)] # used[Place(lastUsed, 0)]
                     /\ lastUsed % Q = Place(lastUsed, 0)
<1> PICK head : head = used[lastUsed % Q]
  OBVIOUS
<1>1. /\ lastUsed # usedIdx /\ busy' = busy \ {head} /\ lastUsed' = Plus(lastUsed, 1)
      /\ chain' = [chain EXCEPT ![head] = NoChain]
      /\ status' = [status EXCEPT ![head] = "none"]
      /\ buf' = [buf EXCEPT ![head] = <<>>]
      /\ UNCHANGED <<disk, cache, ready, lastAvail, int, avail, availIdx, used, usedIdx, unkicked>>
  BY DEF Collect, device
<1>2. DiskTypes /\ lastUsed \in Indices /\ usedIdx \in Indices /\ chain \in [Heads -> Requests \cup {NoChain}]
  BY DEF DiskInv, DiskTypes
<1>3. 0 \in 0 .. Q /\ 1 \in 0 .. Q /\ Q \in Nat
  BY DiskAssumption
<1>4. Plus(lastUsed, 0) = lastUsed /\ lastUsed % Q = Place(lastUsed, 0)
      /\ Place(lastUsed, 0) \in Heads /\ Plus(lastUsed, 1) \in Indices
  BY <1>2, <1>3, PlusFacts, Places DEF Place
<1>5. DiskTypes'
  <2>1. chain' \in [Heads -> Requests \cup {NoChain}] /\ busy' \in SUBSET Heads
    BY <1>1, <1>2 DEF DiskTypes
  <2>2. status' \in [Heads -> {"none", "ok", "unsupp"}]
    BY <1>1, <1>2 DEF DiskTypes
  <2>3. buf' \in [Heads -> Seq(Vals)]
    <3> PICK texts : texts = Seq(Vals)
      OBVIOUS
    <3>1. buf \in [Heads -> texts]
      BY <1>2 DEF DiskTypes
    <3>2. <<>> \in texts
      OBVIOUS
    <3>3. buf' \in [Heads -> texts]
      BY <1>1, <3>1, <3>2
    <3> QED
      BY <3>3
  <2> QED
    BY <1>1, <1>2, <1>4, <2>1, <2>2, <2>3 DEF DiskTypes
<1>6. CASE ~ready
  BY <1>1, <1>5, <1>6 DEF DiskInv
<1>7. CASE ready
  <2>1. Rings(lastAvail, WaitLen, lastUsed, DoneLen, avail, used, Live)
    BY <1>7 DEF DiskInv
  <2>2. DoneLen # 0 /\ DoneLen \in 0 .. Q /\ DoneLen > 0
    <3>1. DoneLen # 0
      BY <1>1, <1>2, DistanceFacts DEF DoneLen
    <3>2. DoneLen \in 0 .. Q
      BY <2>1 DEF Rings
    <3> QED
      BY <1>3, <3>1, <3>2
  <2>3. /\ Rings(lastAvail, WaitLen, Plus(lastUsed, 1), DoneLen - 1, avail, used, Live \ {head})
        /\ \A i \in 0 .. WaitLen - 1 : avail[Place(lastAvail, i)] # head
        /\ head \in Live
    <3>1. FirstGiven(lastAvail, WaitLen, lastUsed, DoneLen, avail, used, Live)
      BY <1>2, <2>1, <2>2, RingsCollect
    <3> QED
      BY <1>4, <3>1 DEF FirstGiven
  <2>4. Live' = Live \ {head}
    BY <1>1, <1>2 DEF Live
  <2>5. DoneLen' = DoneLen - 1 /\ WaitLen' = WaitLen
    <3>1. Plus(lastUsed, DoneLen) = usedIdx
      BY <1>2, DistanceFacts DEF DoneLen
    <3>2. 1 + (DoneLen - 1) = DoneLen /\ DoneLen - 1 \in 0 .. Q /\ 1 + (DoneLen - 1) <= Q
      BY <1>3, <2>2
    <3>3. Plus(Plus(lastUsed, 1), DoneLen - 1) = Plus(lastUsed, 1 + (DoneLen - 1))
      BY <1>2, <1>3, <3>2, PlusFacts
    <3>4. Distance(Plus(lastUsed, 1), Plus(Plus(lastUsed, 1), DoneLen - 1)) = DoneLen - 1
      BY <1>4, <3>2, PlusFacts
    <3>5. usedIdx = Plus(Plus(lastUsed, 1), DoneLen - 1)
      BY <3>1, <3>2, <3>3
    <3>6. DoneLen' = Distance(Plus(lastUsed, 1), usedIdx)
      BY <1>1 DEF DoneLen
    <3>7. WaitLen' = WaitLen
      BY <1>1 DEF WaitLen
    <3> QED
      BY <3>4, <3>5, <3>6, <3>7
  <2>6. DiskInv'
    BY <1>1, <1>5, <1>7, <2>3, <2>4, <2>5 DEF DiskInv
  <2> QED
    BY <1>1, <1>4, <2>2, <2>3, <2>5, <2>6
<1> QED
  BY <1>6, <1>7 DEF DiskInv, DiskTypes

\* Every step keeps the rings.
LEMMA DiskStep ==
  ASSUME DiskInv, [PathNext]_pathVars
  PROVE  DiskInv'
<1>1. CASE Boot \/ HostInput \/ UNCHANGED pathVars
  BY <1>1, RestStays DEF Boot, HostInput, pathVars, driver
<1>2. CASE SetUp \/ Reset
  BY <1>2, SetUpStep
<1>3. CASE \E head \in Heads, r \in Requests : Submit(head, r)
  BY <1>3, SubmitStep
<1>4. ASSUME NEW h \in Harts, Kick(h) \/ HostLoad(h) \/ Ack(h) \/ Collect(h) PROVE DiskInv'
  BY <1>4, KickStep, RestStays, CollectStep
<1>5. ASSUME NEW h \in Harts, Trap(h) \/ ClaimSource(h) \/ AllCollected(h) \/ Drain(h) \/ Finish(h) PROVE DiskInv'
  BY <1>5, RestStays DEF Trap, ClaimSource, AllCollected, Drain, Finish
<1> QED
  BY <1>1, <1>2, <1>3, <1>4, <1>5 DEF PathNext, Handler

\* The invariant of the rings.
THEOREM DiskKept == PathSpec => []DiskInv
<1>1. PathInit => DiskInv
  <2> SUFFICES ASSUME PathInit PROVE DiskInv
    OBVIOUS
  <2>1. 0 \in Indices /\ 0 \in Heads
    BY DiskAssumption DEF Indices, Heads
  <2>2. disk \in Disks /\ cache \in [Harts -> Caches]
    BY DiskAssumption DEF PathInit, DiskInit, Disks, Caches
  <2>3. avail \in [Heads -> Heads] /\ used \in [Heads -> Heads]
    BY <2>1 DEF PathInit, DiskInit
  <2>4. chain \in [Heads -> Requests \cup {NoChain}]
    BY DEF PathInit, DiskInit
  <2>5. status \in [Heads -> {"none", "ok", "unsupp"}]
    BY DEF PathInit, DiskInit
  <2>6. buf \in [Heads -> Seq(Vals)]
    BY DEF PathInit, DiskInit
  <2>7. /\ ready = FALSE /\ int = FALSE /\ unkicked = FALSE /\ lastAvail = 0 /\ availIdx = 0
        /\ usedIdx = 0 /\ lastUsed = 0 /\ busy = {}
    BY DEF PathInit, DiskInit
  <2> QED
    BY <2>1, <2>2, <2>3, <2>4, <2>5, <2>6, <2>7 DEF DiskInv, DiskTypes
<1>2. DiskInv /\ [PathNext]_pathVars => DiskInv'
  BY DiskStep
<1> QED
  BY <1>1, <1>2, PTL DEF PathSpec

-----------------------------------------------------------------------------
\* What the runs check.

\* TypeOK of the disk run: every variable of the disk path keeps its type.
THEOREM Typing == PathSpec => []TypeOK
<1>1. HandlersInv /\ DiskInv => TypeOK
  <2> SUFFICES ASSUME HandlersInv, DiskInv PROVE TypeOK
    OBVIOUS
  <2>1. disk \in [0 .. Capacity - 1 -> Vals]
    BY DEF DiskInv, DiskTypes, Disks
  <2>2. \A h \in Harts : cache[h] # NoCache =>
          cache[h].base \in Nat /\ cache[h].content \in [1 .. Ahead -> Vals]
    <3> TAKE h \in Harts
    <3> HAVE cache[h] # NoCache
    <3>1. cache[h] \in [base : Nat, content : [1 .. Ahead -> Vals]]
      BY DEF DiskInv, DiskTypes, Caches
    <3> QED
      BY <3>1
  <2>3. ready \in BOOLEAN /\ int \in BOOLEAN /\ unkicked \in BOOLEAN /\ input \in BOOLEAN
    BY DEF DiskInv, DiskTypes, HandlersInv
  <2>4. {lastAvail, availIdx, usedIdx, lastUsed} \subseteq 0 .. IdxMod - 1
    BY DEF DiskInv, DiskTypes, Indices
  <2>5. /\ avail \in [Heads -> Heads] /\ used \in [Heads -> Heads]
        /\ chain \in [Heads -> Requests \cup {NoChain}]
        /\ status \in [Heads -> {"none", "ok", "unsupp"}]
        /\ \A i \in Heads : buf[i] \in Seq(Vals)
        /\ busy \subseteq Heads
    BY DEF DiskInv, DiskTypes
  <2>6. /\ boot \in 0 .. 5
        /\ pc \in [Harts -> {"idle", "claim", "ack", "collect", "drain", "complete"}]
        /\ serving \in [Harts -> Sources \cup {0}]
        /\ priority \in [Sources -> 0 .. MaxPriority] /\ threshold \in [Contexts -> 0 .. MaxPriority]
        /\ enabled \in [Contexts -> SUBSET Sources]
    BY DEF HandlersInv
  <2>7. claimed \subseteq Sources
    BY DEF HandlersInv, ServiceExclusive
  <2>8. {ready, int, unkicked, input} \subseteq BOOLEAN
    BY <2>3
  <2> QED
    BY <2>1, <2>2, <2>4, <2>5, <2>6, <2>7, <2>8 DEF TypeOK
<1> QED
  BY <1>1, HandlersKept, DiskKept, PTL

\* One step keeps the signal of every answer.
LEMMA SignalStep ==
  ASSUME HandlersInv, DiskInv, AnswerSignalled, [PathNext]_pathVars
  PROVE  AnswerSignalled'
<1> DEFINE collecting == \E h \in Harts : pc[h] = "collect"
<1>1. ASSUME UNCHANGED <<ready, lastUsed, usedIdx, int, pc>> PROVE AnswerSignalled'
  BY <1>1 DEF AnswerSignalled
<1>2. CASE Boot \/ HostInput \/ UNCHANGED pathVars
  BY <1>1, <1>2 DEF Boot, HostInput, pathVars, diskVars, device, rings, driver
<1>3. CASE SetUp \/ Reset
  BY <1>3 DEF SetUp, SetUpQueue, Reset, ResetDevice, AnswerSignalled
<1>4. CASE \E head \in Heads, r \in Requests : Submit(head, r)
  BY <1>1, <1>4 DEF Submit, device
<1>5. ASSUME NEW h \in Harts, Kick(h) PROVE AnswerSignalled'
  <2>1. CASE ~ready
    BY <1>1, <1>5, <2>1 DEF Kick, Notify, diskVars, device, rings
  <2>2. CASE ready
    <3>1. int' \/ (usedIdx' = usedIdx /\ int' = int)
      <4>1. Final(h).int \/ (Final(h).usedIdx = usedIdx /\ Final(h).int = int)
        BY <1>5, <2>2, KickFacts
      <4>2. int' = Final(h).int /\ usedIdx' = Final(h).usedIdx
        BY <1>5, <2>2, KickFacts
      <4> QED
        BY <4>1, <4>2, Zenon
    <3>2. UNCHANGED <<ready, lastUsed, pc>>
      BY <1>5, <2>2, KickFacts
    <3> QED
      BY <3>1, <3>2 DEF AnswerSignalled
  <2> QED
    BY <2>1, <2>2
<1>6. ASSUME NEW h \in Harts, HostLoad(h) PROVE AnswerSignalled'
  BY <1>1, <1>6 DEF HostLoad, LoadDisk, device, rings, driver
<1>7. ASSUME NEW h \in Harts, Collect(h) PROVE AnswerSignalled'
  BY <1>7 DEF Collect, AnswerSignalled
<1>8. ASSUME NEW h \in Harts, Ack(h) PROVE AnswerSignalled'
  <2>1. pc'[h] = "collect"
    BY <1>8 DEF Ack, Goto, HandlersInv
  <2> QED
    BY <2>1 DEF AnswerSignalled
<1>9. ASSUME NEW h \in Harts, AllCollected(h) PROVE AnswerSignalled'
  BY <1>9 DEF AllCollected, diskVars, rings, AnswerSignalled
<1>10. ASSUME NEW h \in Harts, Trap(h) \/ ClaimSource(h) \/ Drain(h) \/ Finish(h) PROVE AnswerSignalled'
  <2>1. /\ UNCHANGED <<ready, lastUsed, usedIdx, int>> /\ pc[h] # "collect"
        /\ \E label : pc' = [pc EXCEPT ![h] = label]
    BY <1>10 DEF Trap, ClaimSource, Drain, Finish, Goto, diskVars, device, rings
  <2>2. \A g \in Harts : pc[g] = "collect" => pc'[g] = "collect"
    BY <2>1 DEF HandlersInv
  <2> QED
    BY <2>1, <2>2 DEF AnswerSignalled
<1> QED
  BY <1>2, <1>3, <1>4, <1>5, <1>6, <1>7, <1>8, <1>9, <1>10 DEF PathNext, Handler

\* AnswerSignalled of the disk run: with any number of harts and a queue of any
\* size, an answer in the used ring that nobody has collected has the device's
\* interrupt bit up, or a handler at the ring (riscv_virtio_blk.mbt, virtio_blk_finish_used
\* and the write of InterruptACK).
THEOREM NoAnswerMissed == PathSpec => []AnswerSignalled
<1>1. PathInit => AnswerSignalled
  BY DEF PathInit, DiskInit, AnswerSignalled
<1>2. HandlersInv /\ DiskInv /\ AnswerSignalled /\ [PathNext]_pathVars => AnswerSignalled'
  BY SignalStep
<1> QED
  BY <1>1, <1>2, HandlersKept, DiskKept, PTL DEF PathSpec

\* One runner notifies the device and is given the images.
OneRunner == \A g, h \in Kickers \cup Loaders : g = h

\* The others never read, so that they have nothing in their caches.
CacheInv ==
  /\ CacheMatchesDisk
  /\ \A h \in Harts \ (Kickers \cup Loaders) : cache[h] = NoCache

\* One step keeps the caches.
LEMMA CacheStep ==
  ASSUME OneRunner, DiskInv, CacheInv, [PathNext]_pathVars
  PROVE  CacheInv'
<1>1. ASSUME UNCHANGED <<disk, cache>> PROVE CacheInv'
  BY <1>1 DEF CacheInv, CacheMatchesDisk
<1>2. ASSUME NEW h \in Kickers \cup Loaders, NEW c, Coherent(disk', c), cache' = [cache EXCEPT ![h] = c]
      PROVE  CacheInv'
  <2>1. h \in Harts /\ cache \in [Harts -> Caches]
    BY RolesAssumption DEF DiskInv, DiskTypes
  <2>2. cache'[h] = c /\ \A g \in Harts \ {h} : cache'[g] = cache[g] /\ g \in Harts \ (Kickers \cup Loaders)
    BY <1>2, <2>1 DEF OneRunner
  <2>3. \A g \in Harts \ {h} : cache'[g] = NoCache
    BY <2>2 DEF CacheInv
  <2>4. \A g \in Harts : cache'[g] # NoCache => cache'[g].content = Contents(disk', cache'[g].base, Ahead)
    BY <1>2, <2>2, <2>3 DEF Coherent
  <2> QED
    BY <1>2, <2>3, <2>4 DEF CacheInv, CacheMatchesDisk
<1>3. ASSUME NEW h \in Harts, Kick(h) PROVE CacheInv'
  <2>1. CASE ~ready
    BY <1>1, <1>3, <2>1 DEF Kick, Notify, diskVars
  <2>2. CASE ready
    <3>1. Coherent(disk, cache[h])
      BY DEF CacheInv, CacheMatchesDisk, Coherent
    <3>2. Coherent(Final(h).disk, Final(h).cache) /\ disk' = Final(h).disk
          /\ cache' = [cache EXCEPT ![h] = Final(h).cache]
      BY <1>3, <2>2, <3>1, KickFacts
    <3>3. h \in Kickers
      BY <1>3 DEF Kick
    <3> QED
      BY <1>2, <3>2, <3>3
  <2> QED
    BY <2>1, <2>2
<1>4. ASSUME NEW h \in Harts, HostLoad(h) PROVE CacheInv'
  <2>1. h \in Loaders /\ cache' = [cache EXCEPT ![h] = NoCache] /\ Coherent(disk', NoCache)
    BY <1>4 DEF HostLoad, LoadDisk, Coherent
  <2> QED
    BY <1>2, <2>1
<1>5. CASE Boot \/ SetUp \/ Reset \/ HostInput \/ UNCHANGED pathVars
  BY <1>1, <1>5 DEF Boot, SetUp, SetUpQueue, Reset, ResetDevice, HostInput, pathVars, diskVars
<1>6. CASE \E head \in Heads, r \in Requests : Submit(head, r)
  BY <1>1, <1>6 DEF Submit
<1>7. ASSUME NEW h \in Harts, Handler(h) PROVE CacheInv'
  BY <1>1, <1>7 DEF Handler, Trap, ClaimSource, Ack, InterruptAck, Collect, AllCollected, Drain, Finish, diskVars
<1> QED
  BY <1>3, <1>4, <1>5, <1>6, <1>7 DEF PathNext

\* CacheMatchesDisk of the disk run: however requests, resets and image loads
\* are mixed, the read cache holds what the disk holds, as long as one runner
\* alone notifies the device and loads images (riscv_virtio_blk.mbt,
\* virtio_blk_cached_read_offset and virtio_blk_copy_guest_to_sector).
THEOREM CacheCoherent ==
  ASSUME OneRunner
  PROVE  PathSpec => []CacheInv
<1>1. PathInit => CacheInv
  BY DEF PathInit, DiskInit, CacheInv, CacheMatchesDisk
<1>2. DiskInv /\ CacheInv /\ [PathNext]_pathVars => CacheInv'
  BY CacheStep
<1> QED
  BY <1>1, <1>2, DiskKept, PTL DEF PathSpec

\* The invariant of the disk run.
THEOREM ReadsCurrent ==
  ASSUME OneRunner
  PROVE  PathSpec => []CacheMatchesDisk
<1>1. CacheInv => CacheMatchesDisk
  BY DEF CacheInv
<1> QED
  BY <1>1, CacheCoherent, PTL

-----------------------------------------------------------------------------
\* The promise.

Entries == [head : Heads, req : Requests]

\* n chains from index a of an avail ring, and m answers from index u of a used
\* ring, as the abstract device sees them.
Waits(a, n, av, ch) ==
  [i \in 1 .. n |-> [head |-> av[Place(a, i - 1)], req |-> ch[av[Place(a, i - 1)]]]]
Answer(head, st, bf, ch) ==
  [head |-> head, status |-> st[head], data |-> IF ch[head].kind = "in" THEN bf[head] ELSE <<>>]
Given(u, m, us, st, bf, ch) == [i \in 1 .. m |-> Answer(us[Place(u, i - 1)], st, bf, ch)]

\* The refinement mapping in these terms.
LEMMA Mapping ==
  /\ Queue = Waits(lastAvail, IF ready THEN WaitLen ELSE 0, avail, chain)
  /\ Done = Given(lastUsed, IF ready THEN DoneLen ELSE 0, used, status, buf, chain)
  /\ \A s : Answers(s) = Given(lastUsed, Distance(lastUsed, s.usedIdx), s.used, s.status, s.buf, chain)
  BY DEF Queue, Done, Answers, Waits, Given, Answer, Place, WaitLen, DoneLen

\* Nothing waits, nothing is answered.
LEMMA Nothing ==
  ASSUME NEW a, NEW av, NEW ch, NEW us, NEW st, NEW bf
  PROVE  Waits(a, 0, av, ch) = <<>> /\ Given(a, 0, us, st, bf, ch) = <<>>
<1>1. \A i \in 1 .. 0 : FALSE
  OBVIOUS
<1>2. Waits(a, 0, av, ch) \in [1 .. 0 -> {0}] /\ Given(a, 0, us, st, bf, ch) \in [1 .. 0 -> {0}]
  BY <1>1 DEF Waits, Given
<1>3. Waits(a, 0, av, ch) \in Seq({0}) /\ Given(a, 0, us, st, bf, ch) \in Seq({0})
  BY <1>2, SeqDef
<1>4. Len(Waits(a, 0, av, ch)) = 0 /\ Len(Given(a, 0, us, st, bf, ch)) = 0
  BY <1>2, <1>3, LenProperties
<1> QED
  BY <1>3, <1>4, EmptySeq

\* The chains that wait,
WaitsAre(a, n, av, ch) ==
  /\ Waits(a, n, av, ch) \in Seq(Entries) /\ Len(Waits(a, n, av, ch)) = n
  /\ \A i \in 1 .. n :
       Waits(a, n, av, ch)[i] = [head |-> av[Place(a, i - 1)], req |-> ch[av[Place(a, i - 1)]]]

\* are a sequence of requests.
LEMMA WaitsFacts ==
  ASSUME NEW a, NEW n \in Nat, NEW av, NEW ch,
         \A i \in 0 .. n - 1 : av[Place(a, i)] \in Heads /\ ch[av[Place(a, i)]] \in Requests
  PROVE  WaitsAre(a, n, av, ch)
<1>1. \A i \in 1 .. n : i - 1 \in 0 .. n - 1
  OBVIOUS
<1>2. \A i \in 1 .. n : [head |-> av[Place(a, i - 1)], req |-> ch[av[Place(a, i - 1)]]] \in Entries
  BY <1>1 DEF Entries
<1>3. Waits(a, n, av, ch) \in [1 .. n -> Entries]
  BY <1>2 DEF Waits
<1>4. Waits(a, n, av, ch) \in Seq(Entries)
  BY <1>3, SeqDef
<1>5. Len(Waits(a, n, av, ch)) = n
  BY <1>3, <1>4, LenProperties
<1>6. \A i \in 1 .. n :
        Waits(a, n, av, ch)[i] = [head |-> av[Place(a, i - 1)], req |-> ch[av[Place(a, i - 1)]]]
  BY DEF Waits
<1> QED
  BY <1>4, <1>5, <1>6 DEF WaitsAre

\* The answers that are given,
GivenAre(u, m, us, st, bf, ch) ==
  /\ Given(u, m, us, st, bf, ch) \in Seq(AnswerSet) /\ Len(Given(u, m, us, st, bf, ch)) = m
  /\ \A i \in 1 .. m : Given(u, m, us, st, bf, ch)[i] = Answer(us[Place(u, i - 1)], st, bf, ch)

\* are a sequence of answers.
LEMMA GivenFacts ==
  ASSUME NEW u, NEW m \in Nat, NEW us, NEW st \in [Heads -> {"none", "ok", "unsupp"}],
         NEW bf \in [Heads -> Seq(Vals)], NEW ch,
         \A i \in 0 .. m - 1 : us[Place(u, i)] \in Heads
  PROVE  GivenAre(u, m, us, st, bf, ch)
<1> DEFINE Entry(head) == Answer(head, st, bf, ch)
<1>1. ASSUME NEW head \in Heads PROVE Entry(head) \in AnswerSet
  <2>1. bf[head] \in Seq(Vals) /\ <<>> \in Seq(Vals) /\ st[head] \in {"none", "ok", "unsupp"}
    OBVIOUS
  <2> QED
    BY <2>1 DEF AnswerSet, Answer
<1>2. Given(u, m, us, st, bf, ch) = [i \in 1 .. m |-> Entry(us[Place(u, i - 1)])]
  BY DEF Given
<1>3. \A i \in 1 .. m : Entry(us[Place(u, i - 1)]) \in AnswerSet
  <2> TAKE i \in 1 .. m
  <2>1. i - 1 \in 0 .. m - 1
    OBVIOUS
  <2> HIDE DEF Entry
  <2> QED
    BY <1>1, <2>1
<1>4. \A i \in 1 .. m : Given(u, m, us, st, bf, ch)[i] = Entry(us[Place(u, i - 1)])
  BY <1>2
<1>5. Given(u, m, us, st, bf, ch) \in [1 .. m -> AnswerSet]
  <2> HIDE DEF Entry
  <2> QED
    BY <1>2, <1>3
<1>6. Given(u, m, us, st, bf, ch) \in Seq(AnswerSet)
  BY <1>5, SeqDef
<1>7. Len(Given(u, m, us, st, bf, ch)) = m
  BY <1>5, <1>6, LenProperties
<1> QED
  BY <1>4, <1>6, <1>7 DEF GivenAre

\* What is in the rings of a device that is set up.
LEMMA InRings ==
  ASSUME DiskInv, ready
  PROVE  /\ Rings(lastAvail, WaitLen, lastUsed, DoneLen, avail, used, Live)
         /\ WaitLen \in Nat /\ DoneLen \in Nat /\ Live \subseteq busy /\ busy \subseteq Heads
         /\ \A i \in 0 .. WaitLen - 1 : /\ avail[Place(lastAvail, i)] \in Heads \cap busy
                                        /\ chain[avail[Place(lastAvail, i)]] \in Requests
         /\ \A i \in 0 .. DoneLen - 1 : used[Place(lastUsed, i)] \in Heads \cap busy
         /\ status \in [Heads -> {"none", "ok", "unsupp"}] /\ buf \in [Heads -> Seq(Vals)]
<1>1. Rings(lastAvail, WaitLen, lastUsed, DoneLen, avail, used, Live) /\ DiskTypes
  BY DEF DiskInv
<1>2. WaitLen \in Nat /\ DoneLen \in Nat
  BY <1>1, DiskAssumption DEF Rings
<1>3. Live \subseteq busy /\ busy \subseteq Heads /\ \A x \in Live : chain[x] \in Requests
  BY <1>1 DEF Live, DiskTypes
<1>4. /\ \A i \in 0 .. WaitLen - 1 : avail[Place(lastAvail, i)] \in Live
      /\ \A i \in 0 .. DoneLen - 1 : used[Place(lastUsed, i)] \in Live
  BY <1>1 DEF Rings
<1> QED
  BY <1>1, <1>2, <1>3, <1>4 DEF DiskTypes

\* A request is submitted.
LEMMA SubmitPromised ==
  ASSUME DiskInv, NEW head \in Heads, NEW r \in Requests, Submit(head, r)
  PROVE  Promise!Submit(head, r)
<1>1. /\ ready /\ ready' /\ head \notin busy /\ chain' = [chain EXCEPT ![head] = r]
      /\ UNCHANGED <<disk, lastAvail, used, usedIdx, status, buf, lastUsed>>
  BY DEF Submit, device
<1>2. /\ WaitLen' = WaitLen + 1 /\ DoneLen' = DoneLen
      /\ \A i \in 0 .. WaitLen - 1 : avail'[Place(lastAvail, i)] = avail[Place(lastAvail, i)]
      /\ avail'[Place(lastAvail, WaitLen)] = head
  BY SubmitStep
<1>3. /\ WaitLen \in Nat /\ DoneLen \in Nat
      /\ \A i \in 0 .. WaitLen - 1 : /\ avail[Place(lastAvail, i)] \in Heads \cap busy
                                     /\ chain[avail[Place(lastAvail, i)]] \in Requests
      /\ \A i \in 0 .. DoneLen - 1 : used[Place(lastUsed, i)] \in Heads \cap busy
      /\ status \in [Heads -> {"none", "ok", "unsupp"}] /\ buf \in [Heads -> Seq(Vals)]
  BY <1>1, InRings
<1>4. chain \in [Heads -> Requests \cup {NoChain}]
  BY DEF DiskInv, DiskTypes
<1>5. chain'[head] = r /\ \A x \in Heads : x # head => chain'[x] = chain[x]
  BY <1>1, <1>4
<1> PICK n, m : n = WaitLen /\ m = DoneLen
  OBVIOUS
<1> DEFINE e == [head |-> head, req |-> r]
<1>6. Queue' = Append(Queue, e)
  <2> PICK q, p : q = Waits(lastAvail, n, avail, chain) /\ p = Waits(lastAvail, n + 1, avail', chain')
    OBVIOUS
  <2>1. Queue = q /\ Queue' = p
    <3>1. Queue' = Waits(lastAvail', IF ready' THEN WaitLen' ELSE 0, avail', chain')
      BY DEF Queue, Waits, Place, WaitLen
    <3> QED
      BY <1>1, <1>2, <3>1, Mapping
  <2>2. q \in Seq(Entries) /\ Len(q) = n
        /\ \A i \in 1 .. n : q[i] = [head |-> avail[Place(lastAvail, i - 1)], req |-> chain[avail[Place(lastAvail, i - 1)]]]
    <3>1. WaitsAre(lastAvail, n, avail, chain)
      BY <1>3, WaitsFacts
    <3> QED
      BY <3>1 DEF WaitsAre
  <2>3. n + 1 \in Nat /\ \A i \in 0 .. (n + 1) - 1 : avail'[Place(lastAvail, i)] \in Heads
                                                  /\ chain'[avail'[Place(lastAvail, i)]] \in Requests
    <3>1. n + 1 \in Nat /\ \A i \in 0 .. (n + 1) - 1 : i \in 0 .. n - 1 \/ i = n
      BY <1>3
    <3>2. ASSUME NEW i \in 0 .. n - 1
          PROVE  avail'[Place(lastAvail, i)] \in Heads /\ chain'[avail'[Place(lastAvail, i)]] \in Requests
      <4>1. /\ avail'[Place(lastAvail, i)] = avail[Place(lastAvail, i)]
            /\ avail[Place(lastAvail, i)] \in Heads \cap busy /\ chain[avail[Place(lastAvail, i)]] \in Requests
        BY <1>2, <1>3
      <4> QED
        BY <1>1, <1>5, <4>1
    <3>3. avail'[Place(lastAvail, n)] \in Heads /\ chain'[avail'[Place(lastAvail, n)]] \in Requests
      BY <1>2, <1>5
    <3> QED
      BY <3>1, <3>2, <3>3
  <2>4. p \in Seq(Entries) /\ Len(p) = n + 1
        /\ \A i \in 1 .. n + 1 : p[i] = [head |-> avail'[Place(lastAvail, i - 1)],
                                         req |-> chain'[avail'[Place(lastAvail, i - 1)]]]
    <3>1. WaitsAre(lastAvail, n + 1, avail', chain')
      BY <2>3, WaitsFacts
    <3> QED
      BY <3>1 DEF WaitsAre
  <2>5. e \in Entries
    BY DEF Entries
  <2>6. /\ Append(q, e) \in Seq(Entries) /\ Len(Append(q, e)) = n + 1
        /\ \A i \in 1 .. n : Append(q, e)[i] = q[i]
        /\ Append(q, e)[n + 1] = e
    <3> HIDE DEF e
    <3> QED
      BY <2>2, <2>5, AppendProperties
  <2>7. ASSUME NEW i \in 1 .. n + 1 PROVE p[i] = Append(q, e)[i]
    <3>1. CASE i = n + 1
      <4>1. i - 1 = n
        BY <1>3, <3>1
      <4>2. p[i] = e
        BY <1>2, <1>5, <2>4, <4>1
      <4> HIDE DEF e
      <4> QED
        BY <2>6, <3>1, <4>2
    <3>2. CASE i # n + 1
      <4>1. i \in 1 .. n /\ i - 1 \in 0 .. n - 1
        BY <1>3, <3>2
      <4>2. avail'[Place(lastAvail, i - 1)] = avail[Place(lastAvail, i - 1)]
            /\ chain'[avail[Place(lastAvail, i - 1)]] = chain[avail[Place(lastAvail, i - 1)]]
        BY <1>1, <1>2, <1>3, <1>5, <4>1
      <4> HIDE DEF e
      <4> QED
        BY <2>2, <2>4, <2>6, <4>1, <4>2
    <3> QED
      BY <3>1, <3>2
  <2> HIDE DEF e
  <2> QED
    BY <2>1, <2>4, <2>6, <2>7, SeqEqual
<1>7. Done' = Done
  <2>1. Done' = Given(lastUsed', IF ready' THEN DoneLen' ELSE 0, used', status', buf', chain')
    BY DEF Done, Given, Answer, Place, DoneLen
  <2>2. Done' = Given(lastUsed, m, used, status, buf, chain') /\ Done = Given(lastUsed, m, used, status, buf, chain)
    BY <1>1, <1>2, <2>1, Mapping
  <2>3. ASSUME NEW i \in 1 .. m
        PROVE  chain'[used[Place(lastUsed, i - 1)]] = chain[used[Place(lastUsed, i - 1)]]
    <3>1. i - 1 \in 0 .. m - 1
      BY <1>3
    <3> QED
      BY <1>1, <1>3, <1>5, <3>1
  <2>4. Given(lastUsed, m, used, status, buf, chain') = Given(lastUsed, m, used, status, buf, chain)
    BY <2>3 DEF Given, Answer
  <2> QED
    BY <2>2, <2>4
<1> QED
  BY <1>1, <1>6, <1>7 DEF Promise!Submit

\* A notification serves all that wait.
LEMMA KickPromised ==
  ASSUME DiskInv, NEW h \in Harts, Kick(h), Coherent(disk, cache[h])
  PROVE  Promise!Serve \/ UNCHANGED Promise!vars
<1>1. CASE ~ready
  <2>1. UNCHANGED diskVars /\ UNCHANGED lastUsed
    BY <1>1 DEF Kick, Notify
  <2>2. UNCHANGED <<disk, ready, lastAvail, chain, avail, availIdx, used, usedIdx, status, buf, lastUsed>>
    BY <2>1 DEF diskVars, device, rings
  <2> QED
    BY <2>2 DEF Promise!vars, Queue, Done
<1>2. CASE ready
  <2> PICK n, b, e, q : /\ n = WaitLen /\ q = Queue
                        /\ b = [disk |-> disk, done |-> Done]
                        /\ e = [disk |-> disk', done |-> Done']
    OBVIOUS
  <2>1. /\ n \in Nat /\ DOMAIN q = 1 .. n
        /\ \A i \in 1 .. n : q[i] = [head |-> Batch[i], req |-> chain[Batch[i]]]
        /\ q \in Seq(Entries) /\ Len(q) = n
    <3>1. q = Waits(lastAvail, n, avail, chain)
      BY <1>2, Mapping
    <3>2. WaitsAre(lastAvail, n, avail, chain) /\ n \in Nat
      BY <1>2, InRings, WaitsFacts
    <3>3. Batch = [i \in 1 .. n |-> avail[Place(lastAvail, i - 1)]]
      BY <1>2, BatchFacts
    <3> QED
      BY <3>1, <3>2, <3>3 DEF WaitsAre
  <2>2. PICK g : Serves(g, h)
    BY <1>2, ServeAll
  <2>3. PICK o : Promising(o, b, q, n)
    BY <2>1, FoldPromised
  <2> DEFINE At(i) == [disk |-> g[i].disk, done |-> Answers(g[i])]
             S == {i \in 0 .. n : o[i] = At(i)}
  <2>4. At(0) = b
    <3>1. g[0] = Start(h) /\ Start(h).disk = disk /\ Answers(Start(h)) = Done
      <4>1. /\ Start(h).usedIdx = usedIdx /\ Start(h).used = used /\ Start(h).status = status
            /\ Start(h).buf = buf /\ Start(h).disk = disk
        BY DEF Start
      <4> QED
        BY <1>2, <2>2, <4>1, Mapping DEF Serves, DoneLen
    <3> QED
      BY <3>1
  <2>5. At(n) = e
    <3> PICK t : t = Final(h)
      OBVIOUS
    <3>1. /\ g[n] = t /\ disk' = t.disk /\ buf' = t.buf /\ status' = t.status /\ used' = t.used
          /\ usedIdx' = t.usedIdx /\ UNCHANGED <<ready, chain, lastUsed>>
      BY <1>2, <2>2, KickFacts DEF Serves
    <3>2. Done' = Answers(t)
      BY <1>2, <3>1 DEF Done, Answers
    <3> QED
      BY <3>1, <3>2
  <2>6. \A i \in 1 .. n : At(i) = Promise!One(At(i - 1), q[i])
    BY <2>1, <2>2 DEF Serves
  <2>7. S = 0 .. n
    <3>1. o[0] = b /\ \A i \in 1 .. n : o[i] = Promise!One(o[i - 1], q[i])
      BY <2>3 DEF Promising
    <3> HIDE DEF At
    <3>2. S \in SUBSET (0 .. n) /\ 0 \in S
      BY <2>1, <2>4, <3>1
    <3>3. \A i \in 1 .. n : i - 1 \in S => i \in S
      <4> SUFFICES ASSUME NEW i \in 1 .. n, i - 1 \in S PROVE i \in S
        OBVIOUS
      <4>1. o[i - 1] = At(i - 1) /\ i \in 0 .. n
        BY <2>1
      <4>2. o[i] = At(i)
        BY <2>6, <3>1, <4>1
      <4> QED
        BY <4>1, <4>2
    <3> HIDE DEF S
    <3> QED
      BY <2>1, <3>2, <3>3, UpTo
  <2>8. e = AllPromised(b, q)
    <3>1. n \in 0 .. n
      BY <2>1
    <3>2. o[n] = At(n)
      <4> HIDE DEF At
      <4> QED
        BY <2>7, <3>1
    <3>3. o[n] = AllPromised(b, q)
      BY <2>3 DEF Promising
    <3> HIDE DEF At
    <3> QED
      BY <2>5, <3>2, <3>3
  <2>9. Queue' = <<>>
    <3>1. Queue' = Waits(lastAvail', IF ready' THEN WaitLen' ELSE 0, avail', chain')
      BY DEF Queue, Waits, Place, WaitLen
    <3>2. ready' /\ lastAvail' = availIdx /\ availIdx' = availIdx
      BY <1>2, KickFacts
    <3>3. WaitLen' = 0
      <4>1. Distance(availIdx, availIdx) = 0
        BY DistanceFacts DEF DiskInv, DiskTypes
      <4> QED
        BY <3>2, <4>1 DEF WaitLen
    <3> QED
      BY <3>1, <3>2, <3>3, Nothing
  <2>10. b = [disk |-> disk, done |-> Done] /\ e.disk = disk' /\ e.done = Done'
    OBVIOUS
  <2>11. CASE n = 0
    <3>1. Queue = <<>>
      BY <1>2, <2>11, Mapping, Nothing
    <3>2. e = b
      BY <2>4, <2>5, <2>11
    <3>3. disk' = disk /\ Done' = Done
      BY <2>10, <3>2
    <3> QED
      BY <2>9, <3>1, <3>3 DEF Promise!vars
  <2>12. CASE n # 0
    <3>1. n \in 1 .. Len(q) /\ SubSeq(q, 1, n) = q /\ SubSeq(q, n + 1, Len(q)) = <<>>
      <4>1. SubSeq(q, 1, Len(q)) = q /\ SubSeq(q, Len(q) + 1, Len(q)) = <<>>
        <5>1. n \in Int /\ n + 1 \in Int /\ n < n + 1
          BY <2>1
        <5>2. SubSeq(q, n + 1, n) = <<>>
          BY <5>1, SubSeqEmpty
        <5>3. SubSeq(q, 1, Len(q)) = q
          BY <2>1, SubSeqFull
        <5> QED
          BY <2>1, <5>2, <5>3
      <4> QED
        BY <2>1, <2>12, <4>1
    <3>2. LET s == Promise!FoldLeft(Promise!One, [disk |-> disk, done |-> Done], SubSeq(Queue, 1, n)) IN
          disk' = s.disk /\ Done' = s.done
      <4>1. AllPromised(b, q) = Promise!FoldLeft(Promise!One, b, q)
        BY DEF AllPromised
      <4> QED
        BY <2>8, <2>10, <3>1, <4>1
    <3> QED
      BY <2>9, <3>1, <3>2 DEF Promise!Serve
  <2> QED
    BY <2>11, <2>12
<1> QED
  BY <1>1, <1>2

\* Collecting takes the first answer.
LEMMA CollectPromised ==
  ASSUME DiskInv, NEW h \in Harts, Collect(h)
  PROVE  Promise!Collect \/ UNCHANGED Promise!vars
<1>1. /\ chain' = [chain EXCEPT ![used[lastUsed % Q]] = NoChain]
      /\ status' = [status EXCEPT ![used[lastUsed % Q]] = "none"]
      /\ buf' = [buf EXCEPT ![used[lastUsed % Q]] = <<>>]
      /\ UNCHANGED <<disk, ready, lastAvail, avail, availIdx, used, usedIdx>>
  BY DEF Collect, device
<1>2. CASE ~ready
  <2>1. /\ Queue = Waits(lastAvail, 0, avail, chain) /\ Done = Given(lastUsed, 0, used, status, buf, chain)
    BY <1>2, Mapping
  <2>2. /\ Queue' = Waits(lastAvail', 0, avail', chain')
        /\ Done' = Given(lastUsed', 0, used', status', buf', chain')
    BY <1>1, <1>2 DEF Queue, Waits, Place, Done, Given
  <2> QED
    BY <1>1, <2>1, <2>2, Nothing DEF Promise!vars
<1>3. CASE ready
  <2> PICK n, m, head : n = WaitLen /\ m = DoneLen /\ head = used[Place(lastUsed, 0)]
    OBVIOUS
  <2>1. /\ m > 0 /\ DoneLen' = m - 1 /\ WaitLen' = n /\ lastUsed' = Plus(lastUsed, 1)
        /\ \A i \in 0 .. n - 1 : avail[Place(lastAvail, i)] # head
        /\ lastUsed % Q = Place(lastUsed, 0)
    BY <1>3, CollectStep
  <2>2. /\ Rings(lastAvail, n, lastUsed, m, avail, used, Live)
        /\ n \in Nat /\ m \in Nat /\ Live \subseteq busy /\ busy \subseteq Heads
        /\ \A i \in 0 .. n - 1 : /\ avail[Place(lastAvail, i)] \in Heads
                                 /\ chain[avail[Place(lastAvail, i)]] \in Requests
        /\ \A i \in 0 .. m - 1 : used[Place(lastUsed, i)] \in Heads
        /\ status \in [Heads -> {"none", "ok", "unsupp"}] /\ buf \in [Heads -> Seq(Vals)]
    BY <1>3, InRings
  <2>3. chain \in [Heads -> Requests \cup {NoChain}] /\ m <= Q /\ lastUsed \in Indices /\ Q \in Nat
    BY <2>2, DiskAssumption DEF DiskInv, DiskTypes, Rings
  <2>4. \A x \in Heads \ {head} : chain'[x] = chain[x] /\ status'[x] = status[x] /\ buf'[x] = buf[x]
    BY <1>1, <2>1, <2>2, <2>3
  <2>5. Queue' = Queue
    <3>1. Queue' = Waits(lastAvail, n, avail, chain') /\ Queue = Waits(lastAvail, n, avail, chain)
      <4>1. Queue' = Waits(lastAvail', IF ready' THEN WaitLen' ELSE 0, avail', chain')
        BY DEF Queue, Waits, Place, WaitLen
      <4> QED
        BY <1>1, <1>3, <2>1, <4>1, Mapping
    <3>2. ASSUME NEW i \in 1 .. n
          PROVE  chain'[avail[Place(lastAvail, i - 1)]] = chain[avail[Place(lastAvail, i - 1)]]
      <4>1. i - 1 \in 0 .. n - 1
        BY <2>2
      <4> QED
        BY <2>1, <2>2, <2>4, <4>1
    <3> QED
      BY <3>1, <3>2 DEF Waits
  <2> PICK d, e : d = Done /\ e = Done'
    OBVIOUS
  <2>6. d \in Seq(AnswerSet) /\ Len(d) = m
        /\ \A i \in 1 .. m : d[i] = Answer(used[Place(lastUsed, i - 1)], status, buf, chain)
    <3>1. GivenAre(lastUsed, m, used, status, buf, chain)
      BY <2>2, GivenFacts
    <3>2. d = Given(lastUsed, m, used, status, buf, chain)
      BY <1>3, Mapping
    <3> QED
      BY <3>1, <3>2 DEF GivenAre
  <2>7. \A i \in 0 .. (m - 1) - 1 : /\ Place(Plus(lastUsed, 1), i) = Place(lastUsed, i + 1)
                                    /\ used[Place(lastUsed, i + 1)] \in Heads \ {head}
    <3> TAKE i \in 0 .. (m - 1) - 1
    <3>1. i \in 0 .. Q - 1 /\ i + 1 \in 0 .. m - 1 /\ 0 \in 0 .. m - 1 /\ i + 1 # 0 /\ 1 + i = i + 1
      BY <2>2, <2>3
    <3>2. Place(Plus(lastUsed, 1), i) = Place(lastUsed, 1 + i)
      BY <2>3, <3>1, NextPlace
    <3>3. used[Place(lastUsed, i + 1)] # head
      BY <2>2, <3>1 DEF Rings
    <3> QED
      BY <2>2, <3>1, <3>2, <3>3
  <2>8. status' \in [Heads -> {"none", "ok", "unsupp"}] /\ buf' \in [Heads -> Seq(Vals)]
    <3>1. DiskInv'
      BY CollectStep
    <3> QED
      BY <3>1 DEF DiskInv, DiskTypes
  <2>9. e \in Seq(AnswerSet) /\ Len(e) = m - 1
        /\ \A i \in 1 .. m - 1 : e[i] = Answer(used[Place(Plus(lastUsed, 1), i - 1)], status', buf', chain')
    <3>1. m - 1 \in Nat /\ \A i \in 0 .. (m - 1) - 1 : used[Place(Plus(lastUsed, 1), i)] \in Heads
      BY <2>1, <2>2, <2>7
    <3>2. GivenAre(Plus(lastUsed, 1), m - 1, used, status', buf', chain')
      BY <2>8, <3>1, GivenFacts
    <3>3. e = Given(Plus(lastUsed, 1), m - 1, used, status', buf', chain')
      <4>1. Done' = Given(lastUsed', IF ready' THEN DoneLen' ELSE 0, used', status', buf', chain')
        BY DEF Done, Given, Answer, Place, DoneLen
      <4> QED
        BY <1>1, <1>3, <2>1, <4>1
    <3> QED
      BY <3>2, <3>3 DEF GivenAre
  <2>10. d # <<>> /\ Tail(d) \in Seq(AnswerSet) /\ Len(Tail(d)) = m - 1
         /\ \A i \in 1 .. m - 1 : Tail(d)[i] = d[i + 1]
    <3>1. d # <<>>
      BY <2>1, <2>2, <2>6
    <3> QED
      BY <2>6, <3>1, HeadTailProperties
  <2>11. ASSUME NEW i \in 1 .. m - 1 PROVE e[i] = Tail(d)[i]
    <3>1. i - 1 \in 0 .. (m - 1) - 1 /\ (i - 1) + 1 = i /\ i + 1 \in 1 .. m /\ (i + 1) - 1 = i
      BY <2>2
    <3> PICK x : x = used[Place(lastUsed, i)]
      OBVIOUS
    <3>2. x \in Heads \ {head} /\ used[Place(Plus(lastUsed, 1), i - 1)] = x
      BY <2>7, <3>1
    <3>3. e[i] = Answer(x, status', buf', chain') /\ Tail(d)[i] = Answer(x, status, buf, chain)
      BY <2>6, <2>9, <2>10, <3>1, <3>2
    <3> QED
      BY <2>4, <3>2, <3>3 DEF Answer
  <2>12. e = Tail(d)
    BY <2>9, <2>10, <2>11, SeqEqual
  <2> QED
    BY <1>1, <2>5, <2>10, <2>12 DEF Promise!Collect
<1> QED
  BY <1>2, <1>3

\* A device that is not set up holds nothing.
LEMMA NothingHeld == ~ready => Queue = <<>> /\ Done = <<>>
  BY Mapping, Nothing

\* Every step of the path is a step of the promise, or none.
LEMMA PromiseStep ==
  ASSUME DiskInv, CacheInv, [PathNext]_pathVars
  PROVE  [Promise!Next]_Promise!vars
<1>1. ASSUME UNCHANGED <<disk, ready, lastAvail, rings, lastUsed>> PROVE UNCHANGED Promise!vars
  BY <1>1 DEF rings, Queue, Done, Promise!vars
<1>2. CASE Boot \/ HostInput \/ UNCHANGED pathVars
  BY <1>1, <1>2 DEF Boot, HostInput, pathVars, diskVars, device, driver
<1>3. CASE SetUp
  <2>1. /\ ~ready /\ ready' /\ availIdx' = 0 /\ usedIdx' = 0 /\ lastUsed' = 0
        /\ UNCHANGED <<disk, lastAvail>>
    BY <1>3 DEF SetUp, SetUpQueue
  <2>2. lastAvail = 0 /\ Distance(0, 0) = 0
    <3>1. 0 \in Indices
      BY DiskAssumption DEF Indices
    <3> QED
      BY <2>1, <3>1, DistanceFacts DEF DiskInv
  <2>3. Queue' = <<>> /\ Done' = <<>>
    <3>1. /\ Queue' = Waits(lastAvail', IF ready' THEN WaitLen' ELSE 0, avail', chain')
          /\ Done' = Given(lastUsed', IF ready' THEN DoneLen' ELSE 0, used', status', buf', chain')
      BY DEF Queue, Waits, Place, WaitLen, Done, Given, Answer, DoneLen
    <3>2. WaitLen' = 0 /\ DoneLen' = 0
      BY <2>1, <2>2 DEF WaitLen, DoneLen
    <3> QED
      BY <2>1, <3>1, <3>2, Nothing
  <2> QED
    BY <2>1, <2>3, NothingHeld DEF Promise!vars
<1>4. CASE Reset
  <2>1. ready' = FALSE /\ UNCHANGED disk
    BY <1>4 DEF Reset, ResetDevice
  <2>2. Queue' = <<>> /\ Done' = <<>>
    <3>1. /\ Queue' = Waits(lastAvail', IF ready' THEN WaitLen' ELSE 0, avail', chain')
          /\ Done' = Given(lastUsed', IF ready' THEN DoneLen' ELSE 0, used', status', buf', chain')
      BY DEF Queue, Waits, Place, WaitLen, Done, Given, Answer, DoneLen
    <3> QED
      BY <2>1, <3>1, Nothing
  <2> QED
    BY <2>1, <2>2 DEF Promise!Next, Promise!Reset
<1>5. CASE \E head \in Heads, r \in Requests : Submit(head, r)
  <2>1. \E head \in Heads, r \in Requests : Promise!Submit(head, r)
    BY <1>5, SubmitPromised
  <2> QED
    BY <2>1 DEF Promise!Next
<1>6. ASSUME NEW h \in Harts, Kick(h) PROVE [Promise!Next]_Promise!vars
  <2>1. Coherent(disk, cache[h])
    BY DEF CacheInv, CacheMatchesDisk, Coherent
  <2>2. Promise!Serve \/ UNCHANGED Promise!vars
    BY <1>6, <2>1, KickPromised
  <2> QED
    BY <2>2 DEF Promise!Next
<1>7. ASSUME NEW h \in Harts, HostLoad(h) PROVE [Promise!Next]_Promise!vars
  <2>1. disk' \in Images /\ UNCHANGED <<device, rings, lastUsed>>
    BY <1>7 DEF HostLoad, LoadDisk, driver
  <2>2. UNCHANGED <<Queue, Done>>
    BY <2>1 DEF device, rings, Queue, Done
  <2> QED
    BY <2>1, <2>2 DEF Promise!Next, Promise!Load
<1>8. ASSUME NEW h \in Harts, Collect(h) PROVE [Promise!Next]_Promise!vars
  <2>1. Promise!Collect \/ UNCHANGED Promise!vars
    BY <1>8, CollectPromised
  <2> QED
    BY <2>1 DEF Promise!Next
<1>9. ASSUME NEW h \in Harts, Trap(h) \/ ClaimSource(h) \/ Ack(h) \/ AllCollected(h) \/ Drain(h) \/ Finish(h)
      PROVE  UNCHANGED Promise!vars
  <2>1. UNCHANGED <<disk, ready, lastAvail, rings, lastUsed>>
    BY <1>9 DEF Trap, ClaimSource, Ack, InterruptAck, AllCollected, Drain, Finish, diskVars, device
  <2> QED
    BY <1>1, <2>1
<1> QED
  BY <1>2, <1>3, <1>4, <1>5, <1>6, <1>7, <1>8, <1>9 DEF PathNext, Handler

\* PromiseKept of the disk run: the rings, the read cache and the batches of a
\* notification implement the device of DiskSpec, for any queue size, index
\* width and set of requests: each chain is served once and in order, a read
\* returns what all earlier writes left, and answers come back in that order
\* (riscv_virtio_blk.mbt, virtio_blk_process_available), as long as one runner
\* alone notifies the device and loads images.
THEOREM DevicePromised ==
  ASSUME OneRunner
  PROVE  PathSpec => PromiseKept
<1>1. PathInit => Promise!Init
  BY NothingHeld DEF PathInit, DiskInit, Promise!Init
<1>2. DiskInv /\ CacheInv /\ [PathNext]_pathVars => [Promise!Next]_Promise!vars
  BY PromiseStep
<1> QED
  BY <1>1, <1>2, DiskKept, CacheCoherent, PTL DEF PathSpec, PromiseKept, Promise!Spec

=============================================================================
