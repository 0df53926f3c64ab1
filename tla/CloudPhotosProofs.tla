-------------------------- MODULE CloudPhotosProofs -------------------------
(* The photos, for any number of requests, images, tokens and files: every *)
(* file is accounted for, the stored token works, a pack shows what is     *)
(* listed.  And the selection of the photos of a pack, for every gallery.  *)
EXTENDS MCCloudPhotos, FiniteSetTheorems, SequenceTheorems, WellFoundedInduction, TLAPS

-----------------------------------------------------------------------------
(* Natural numbers, and functions that are defined by recursion on them.   *)

\* A set of natural numbers that is not empty has a least element.
LEMMA LeastNatural ==
  ASSUME NEW S \in SUBSET Nat, S # {}
  PROVE  \E x \in S : \A y \in S : x <= y
<1>1. PICK x \in S : \A y \in S : ~ (<<y, x>> \in OpToRel(<, Nat))
  BY NatLessThanWellFounded, WFMin
<1>2. \A y \in S : ~ (y < x)
  BY <1>1 DEF OpToRel
<1>3. QED
  BY <1>2

\* Min finds it.
LEMMA MinNatural ==
  ASSUME NEW S \in SUBSET Nat, S # {}
  PROVE  Min(S) \in S /\ \A y \in S : Min(S) <= y
BY LeastNatural DEF Min

\* A set that holds zero and the successor of all it holds, up to a bound, holds
\* every number up to that bound.
LEMMA BoundedInduction ==
  ASSUME NEW S, NEW N \in Nat, 0 \in S, \A n \in 0 .. N - 1 : n \in S => n + 1 \in S
  PROVE  \A n \in 0 .. N : n \in S
<1> DEFINE Out == { n \in 0 .. N : n \notin S }
<1> SUFFICES ASSUME Out # {}
             PROVE  FALSE
  OBVIOUS
<1>1. PICK x \in Out : \A y \in Out : x <= y
  <2>1. Out \in SUBSET Nat /\ Out # {}
    OBVIOUS
  <2> HIDE DEF Out
  <2>2. QED
    BY <2>1, LeastNatural
<1>2. x - 1 \in 0 .. N - 1 /\ x - 1 \in S
  BY <1>1
<1>3. QED
  BY <1>1, <1>2

\* The same without a bound.
LEMMA Induction ==
  ASSUME NEW S, 0 \in S, \A n \in Nat : n \in S => n + 1 \in S
  PROVE  \A n \in Nat : n \in S
BY BoundedInduction

\* A function that is defined by primitive recursion.
Iterates(f, D, a, step) ==
  f \in [Nat -> D] /\ f[0] = a /\ \A n \in Nat : f[n + 1] = step[n + 1][f[n]]

\* There is one for every start and every step.
LEMMA Recursion ==
  ASSUME NEW D, NEW a \in D, NEW step \in [Nat -> [D -> D]]
  PROVE  \E f : Iterates(f, D, a, step)
<1> DEFINE Part(n, g) == /\ g \in [0 .. n -> D] /\ g[0] = a
                         /\ \A i \in 0 .. n - 1 : g[i + 1] = step[i + 1][g[i]]
           Long == { n \in Nat : \E g : Part(n, g) }
<1>1. \A n \in Nat : n \in Long
  <2>1. 0 \in Long
    <3>1. Part(0, [i \in 0 .. 0 |-> a])
      OBVIOUS
    <3>2. QED
      BY <3>1
  <2>2. ASSUME NEW n \in Nat, n \in Long
        PROVE  n + 1 \in Long
    <3>1. PICK g : Part(n, g)
      BY <2>2
    <3> DEFINE h == [i \in 0 .. n + 1 |-> IF i <= n THEN g[i] ELSE step[n + 1][g[n]]]
    <3>2. step[n + 1][g[n]] \in D
      BY <3>1
    <3>3. h \in [0 .. n + 1 -> D]
      BY <3>1, <3>2
    <3>4. h[0] = a
      BY <3>1
    <3>5. ASSUME NEW i \in 0 .. n
          PROVE  h[i + 1] = step[i + 1][h[i]]
      <4>1. h[i] = g[i]
        OBVIOUS
      <4>2. CASE i = n
        BY <4>1, <4>2
      <4>3. CASE i < n
        BY <3>1, <4>1, <4>3
      <4>4. QED
        BY <4>2, <4>3
    <3>6. (n + 1) - 1 = n /\ n + 1 \in Nat
      OBVIOUS
    <3> HIDE DEF h
    <3>7. Part(n + 1, h)
      BY <3>3, <3>4, <3>5, <3>6
    <3> HIDE DEF Part
    <3>8. QED
      BY <3>6, <3>7
  <2>3. QED
    <3> HIDE DEF Long
    <3>1. QED
      BY <2>1, <2>2, Induction
<1>2. ASSUME NEW n \in Nat, NEW m \in Nat, n <= m, NEW g, NEW h, Part(n, g), Part(m, h)
      PROVE  \A i \in 0 .. n : g[i] = h[i]
  <2> DEFINE Same == { i \in 0 .. n : g[i] = h[i] }
  <2>1. 0 \in Same
    BY <1>2
  <2>2. \A i \in 0 .. n - 1 : i \in Same => i + 1 \in Same
    BY <1>2
  <2>3. \A i \in 0 .. n : i \in Same
    <3> HIDE DEF Same
    <3>1. QED
      BY <2>1, <2>2, BoundedInduction
  <2>4. QED
    BY <2>3
<1> DEFINE nth(n) == CHOOSE g : Part(n, g)
           F == [n \in Nat |-> nth(n)[n]]
<1>3. \A n \in Nat : Part(n, nth(n))
  BY <1>1
<1> HIDE DEF Long
<1>4. F \in [Nat -> D]
  <2>1. \A n \in Nat : nth(n) \in [0 .. n -> D]
    BY <1>3
  <2> HIDE DEF nth, Part
  <2>2. QED
    BY <2>1
<1>5. F[0] = a
  BY <1>3
<1>6. ASSUME NEW n \in Nat
      PROVE  F[n + 1] = step[n + 1][F[n]]
  <2> n + 1 \in Nat
    OBVIOUS
  <2> HIDE DEF nth
  <2>1. Part(n, nth(n)) /\ Part(n + 1, nth(n + 1))
    <3> HIDE DEF Part
    <3>1. QED
      BY <1>3
  <2>2. nth(n)[n] = nth(n + 1)[n]
    <3> HIDE DEF Part
    <3>1. QED
      BY <1>2, <2>1
  <2>3. nth(n + 1)[n + 1] = step[n + 1][nth(n + 1)[n]]
    BY <2>1
  <2>4. QED
    BY <2>2, <2>3
<1> HIDE DEF F
<1>7. Iterates(F, D, a, step)
  BY <1>4, <1>5, <1>6 DEF Iterates
<1>8. QED
  BY <1>7
-----------------------------------------------------------------------------
(* Sequences.                                                              *)

\* The elements of an appended sequence.
LEMMA AppendElements ==
  ASSUME NEW T, NEW s \in Seq(T), NEW e \in T
  PROVE  /\ Append(s, e) \in Seq(T) /\ Len(Append(s, e)) = Len(s) + 1
         /\ ToSet(Append(s, e)) = ToSet(s) \cup {e}
<1>1. /\ Append(s, e) \in Seq(T) /\ Len(Append(s, e)) = Len(s) + 1
      /\ \A i \in 1 .. Len(s) : Append(s, e)[i] = s[i]
      /\ Append(s, e)[Len(s) + 1] = e
  BY AppendProperties
<1>2. /\ DOMAIN s = 1 .. Len(s) /\ DOMAIN Append(s, e) = 1 .. Len(s) + 1 /\ Len(s) \in Nat
  BY <1>1, LenProperties
<1>3. ToSet(s) \cup {e} \subseteq ToSet(Append(s, e))
  <2>1. \A i \in DOMAIN s : i \in DOMAIN Append(s, e) /\ Append(s, e)[i] = s[i]
    BY <1>1, <1>2
  <2>2. Len(s) + 1 \in DOMAIN Append(s, e)
    BY <1>2
  <2>3. QED
    BY <1>1, <2>1, <2>2 DEF ToSet
<1>4. ASSUME NEW i \in DOMAIN Append(s, e)
      PROVE  Append(s, e)[i] \in ToSet(s) \cup {e}
  <2>1. CASE i = Len(s) + 1
    BY <1>1, <2>1
  <2>2. CASE i \in DOMAIN s
    BY <1>1, <1>2, <2>2 DEF ToSet
  <2>3. QED
    BY <1>2, <2>1, <2>2
<1>5. ToSet(Append(s, e)) \subseteq ToSet(s) \cup {e}
  BY <1>4 DEF ToSet
<1>6. QED
  BY <1>1, <1>3, <1>5

\* The elements of a sequence are of its type, and their types type it.
LEMMA Elements ==
  ASSUME NEW T, NEW s \in Seq(T)
  PROVE  /\ ToSet(s) \subseteq T
         /\ \A U : ToSet(s) \subseteq U => s \in Seq(U)
         /\ s = <<>> <=> ToSet(s) = {}
         /\ s = <<>> <=> Len(s) = 0
<1>1. Len(s) \in Nat /\ s \in [1 .. Len(s) -> T] /\ DOMAIN s = 1 .. Len(s)
  BY LenProperties
<1>2. ToSet(s) \subseteq T
  BY <1>1 DEF ToSet
<1>3. ASSUME NEW U, ToSet(s) \subseteq U
      PROVE  s \in Seq(U)
  <2>1. s \in [1 .. Len(s) -> U]
    BY <1>1, <1>3 DEF ToSet
  <2>2. QED
    BY <1>1, <2>1, SeqDef
<1>4. s = <<>> <=> Len(s) = 0
  BY EmptySeq
<1>5. Len(s) = 0 <=> ToSet(s) = {}
  <2>1. DOMAIN s = {} <=> ToSet(s) = {}
    BY DEF ToSet
  <2>2. Len(s) = 0 <=> 1 .. Len(s) = {}
    <3>1. Len(s) # 0 => 1 \in 1 .. Len(s)
      BY <1>1
    <3>2. Len(s) = 0 => 1 .. Len(s) = {}
      OBVIOUS
    <3>3. QED
      BY <3>1, <3>2
  <2>3. QED
    BY <1>1, <2>1, <2>2
<1>6. QED
  BY <1>2, <1>3, <1>4, <1>5

\* The first elements of a sequence.
LEMMA Prefix ==
  ASSUME NEW T, NEW s \in Seq(T), NEW n \in 0 .. Len(s)
  PROVE  /\ SubSeq(s, 1, n) \in Seq(T) /\ Len(SubSeq(s, 1, n)) = n
         /\ \A i \in 1 .. n : SubSeq(s, 1, n)[i] = s[i]
         /\ ToSet(SubSeq(s, 1, n)) \subseteq ToSet(s)
<1>1. Len(s) \in Nat /\ s \in [1 .. Len(s) -> T] /\ DOMAIN s = 1 .. Len(s)
  BY LenProperties
<1>2. \A i \in 1 .. n : s[i] \in T
  BY <1>1
<1>3. /\ SubSeq(s, 1, n) \in Seq(T) /\ Len(SubSeq(s, 1, n)) = IF 1 <= n THEN n - 1 + 1 ELSE 0
      /\ \A i \in 1 .. n - 1 + 1 : SubSeq(s, 1, n)[i] = s[1 + i - 1]
  BY <1>1, <1>2, SubSeqProperties
<1>4. Len(SubSeq(s, 1, n)) = n /\ \A i \in 1 .. n : SubSeq(s, 1, n)[i] = s[i]
  BY <1>1, <1>3
<1>5. DOMAIN SubSeq(s, 1, n) = 1 .. n
  BY <1>3, <1>4, LenProperties
<1>6. \A i \in 1 .. n : i \in DOMAIN s
  BY <1>1
<1>7. QED
  BY <1>3, <1>4, <1>5, <1>6 DEF ToSet

\* Only keeps the elements that are in the set.
LEMMA OnlyElements ==
  ASSUME NEW T, NEW s \in Seq(T), NEW S
  PROVE  /\ Only(s, S) \in Seq(T) /\ Len(Only(s, S)) <= Len(s)
         /\ ToSet(Only(s, S)) = ToSet(s) \cap S
<1> DEFINE only == CHOOSE f : f = [i \in Nat |-> IF i = 0 THEN <<>>
                        ELSE IF s[i] \in S THEN Append(f[i - 1], s[i]) ELSE f[i - 1]]
           step == [i \in Nat |-> [d \in Seq(S) |-> IF s[i] \in S THEN Append(d, s[i]) ELSE d]]
<1>1. \E f : f = [i \in Nat |-> IF i = 0 THEN <<>>
                        ELSE IF s[i] \in S THEN Append(f[i - 1], s[i]) ELSE f[i - 1]]
  <2>1. step \in [Nat -> [Seq(S) -> Seq(S)]]
    BY AppendProperties
  <2>2. <<>> \in Seq(S)
    BY EmptySeq
  <2>3. PICK f : Iterates(f, Seq(S), <<>>, step)
    <3> HIDE DEF step
    <3>1. QED
      BY <2>1, <2>2, Recursion
  <2>4. ASSUME NEW i \in Nat, i # 0
        PROVE  f[i] = IF s[i] \in S THEN Append(f[i - 1], s[i]) ELSE f[i - 1]
    <3>1. i - 1 \in Nat /\ (i - 1) + 1 = i
      BY <2>4
    <3>2. f[i] = step[i][f[i - 1]] /\ f[i - 1] \in Seq(S)
      BY <2>3, <3>1 DEF Iterates
    <3>3. QED
      BY <3>2
  <2>5. f = [i \in Nat |-> IF i = 0 THEN <<>>
                        ELSE IF s[i] \in S THEN Append(f[i - 1], s[i]) ELSE f[i - 1]]
    BY <2>3, <2>4 DEF Iterates
  <2>6. QED
    BY <2>5
<1>2. only = [i \in Nat |-> IF i = 0 THEN <<>>
                        ELSE IF s[i] \in S THEN Append(only[i - 1], s[i]) ELSE only[i - 1]]
  BY <1>1
<1>3. Only(s, S) = only[Len(s)]
  BY DEF Only
<1> HIDE DEF only, step
<1>4. Len(s) \in Nat /\ s \in [1 .. Len(s) -> T] /\ DOMAIN s = 1 .. Len(s)
  BY LenProperties
<1> DEFINE Good == { n \in 0 .. Len(s) :
                       /\ only[n] \in Seq(T) /\ Len(only[n]) <= n
                       /\ ToSet(only[n]) = { s[i] : i \in 1 .. n } \cap S }
<1>5. 0 \in Good
  <2>1. only[0] = <<>>
    BY <1>2
  <2>2. ToSet(<<>>) = {}
    BY EmptySeq, Elements
  <2>3. <<>> \in Seq(T) /\ Len(<<>>) = 0
    BY EmptySeq
  <2>4. { s[i] : i \in 1 .. 0 } = {}
    OBVIOUS
  <2>5. ToSet(only[0]) = { s[i] : i \in 1 .. 0 } \cap S
    BY <2>1, <2>2, <2>4
  <2>6. only[0] \in Seq(T) /\ Len(only[0]) <= 0 /\ 0 \in 0 .. Len(s)
    BY <1>4, <2>1, <2>3
  <2>7. QED
    BY <2>5, <2>6
<1>6. ASSUME NEW n \in 0 .. Len(s) - 1, n \in Good
      PROVE  n + 1 \in Good
  <2>1. only[n + 1] = IF s[n + 1] \in S THEN Append(only[n], s[n + 1]) ELSE only[n]
    <3>1. n + 1 \in Nat /\ n + 1 # 0 /\ (n + 1) - 1 = n
      BY <1>4
    <3>2. QED
      BY <1>2, <3>1
  <2>2. s[n + 1] \in T /\ n + 1 \in 0 .. Len(s)
    BY <1>4
  <2>3. { s[i] : i \in 1 .. n + 1 } = { s[i] : i \in 1 .. n } \cup {s[n + 1]}
    <3>1. 1 .. n + 1 = (1 .. n) \cup {n + 1}
      BY <1>4
    <3>2. QED
      BY <3>1
  <2>4. CASE s[n + 1] \in S
    <3>1. /\ Append(only[n], s[n + 1]) \in Seq(T)
          /\ Len(Append(only[n], s[n + 1])) = Len(only[n]) + 1
          /\ ToSet(Append(only[n], s[n + 1])) = ToSet(only[n]) \cup {s[n + 1]}
      BY <1>6, <2>2, AppendElements
    <3>2. Len(only[n]) + 1 <= n + 1
      <4>1. Len(only[n]) \in Nat
        BY <1>6, LenProperties
      <4>2. QED
        BY <1>6, <4>1
    <3>3. QED
      BY <1>6, <2>1, <2>2, <2>3, <2>4, <3>1, <3>2
  <2>5. CASE s[n + 1] \notin S
    <3>1. Len(only[n]) <= n + 1
      <4>1. Len(only[n]) \in Nat
        BY <1>6, LenProperties
      <4>2. QED
        BY <1>6, <4>1
    <3>2. QED
      BY <1>6, <2>1, <2>2, <2>3, <2>5, <3>1
  <2>6. QED
    BY <2>4, <2>5
<1>7. \A n \in 0 .. Len(s) : n \in Good
  <2> HIDE DEF Good
  <2>1. QED
    BY <1>4, <1>5, <1>6, BoundedInduction
<1>8. Len(s) \in Good
  <2>1. Len(s) \in 0 .. Len(s)
    BY <1>4
  <2> HIDE DEF Good
  <2>2. QED
    BY <1>7, <2>1
<1>9. ToSet(s) = { s[i] : i \in 1 .. Len(s) }
  BY <1>4 DEF ToSet
<1>10. QED
  BY <1>3, <1>8, <1>9
-----------------------------------------------------------------------------
(* The selection of photo_select.py and collage_service.py.                *)

\* The distance of two hashes is a number, the same both ways, and none from a
\* hash to itself.
LEMMA HammingDistance ==
  ASSUME NEW a \in Hash, NEW b \in Hash
  PROVE  /\ hamming(a, b) \in 0 .. Cardinality(Bits)
         /\ hamming(a, b) = hamming(b, a)
         /\ hamming(a, a) = 0
<1>1. (a \ b) \cup (b \ a) \in SUBSET Bits
  BY DEF Hash
<1>2. hamming(a, b) \in Nat /\ hamming(a, b) <= Cardinality(Bits) /\ Cardinality(Bits) \in Nat
  BY <1>1, PhotoSelectAssumption, FS_Subset, FS_CardinalityType DEF hamming
<1>3. (a \ b) \cup (b \ a) = (b \ a) \cup (a \ b)
  OBVIOUS
<1>4. (a \ a) \cup (a \ a) = {}
  OBVIOUS
<1>5. QED
  BY <1>2, <1>3, <1>4, FS_EmptySet DEF hamming

\* The distance of a photo from those that were picked is the one from the nearest.
LEMMA DistanceIsLeast ==
  ASSUME NEW hashes \in Seq(Hash), NEW picked, ToSet(picked) \subseteq DOMAIN hashes,
         ToSet(picked) # {}, NEW i \in DOMAIN hashes
  PROVE  /\ Distance(hashes, picked, i) \in 0 .. Cardinality(Bits)
         /\ \A j \in ToSet(picked) : Distance(hashes, picked, i) <= hamming(hashes[i], hashes[j])
         /\ \E j \in ToSet(picked) : Distance(hashes, picked, i) = hamming(hashes[i], hashes[j])
<1> DEFINE all == { hamming(hashes[i], hashes[j]) : j \in ToSet(picked) }
<1>1. \A j \in DOMAIN hashes : hashes[j] \in Hash
  BY LenProperties
<1>2. \A j \in ToSet(picked) : hamming(hashes[i], hashes[j]) \in 0 .. Cardinality(Bits)
  BY <1>1, HammingDistance
<1>3. Cardinality(Bits) \in Nat
  BY PhotoSelectAssumption, FS_CardinalityType
<1>4. all \in SUBSET Nat /\ all # {}
  BY <1>2, <1>3
<1>5. Min(all) \in all /\ \A y \in all : Min(all) <= y
  <2> HIDE DEF all
  <2>1. QED
    BY <1>4, MinNatural
<1>6. Distance(hashes, picked, i) = Min(all)
  BY DEF Distance
<1>7. QED
  BY <1>2, <1>5, <1>6

\* What a selection is at any time: places of the gallery, the first of them the
\* lead photo, none twice and no two near duplicates.
Selections(hashes) ==
  { p \in Seq(DOMAIN hashes) :
      /\ Len(p) >= 1 /\ p[1] = 1
      /\ \A a, b \in DOMAIN p : a # b => p[a] # p[b]
      /\ \A a, b \in DOMAIN p : a # b => hamming(hashes[p[a]], hashes[p[b]]) > NEAR_DUPLICATE_BITS }

\* A selection picks at least one photo, and no more than there are.
LEMMA SelectionSize ==
  ASSUME NEW hashes \in Seq(Hash), NEW p \in Selections(hashes)
  PROVE  /\ Len(p) \in 1 .. Len(hashes) /\ DOMAIN p = 1 .. Len(p)
         /\ ToSet(p) \subseteq DOMAIN hashes /\ ToSet(p) # {}
         /\ DOMAIN hashes = 1 .. Len(hashes)
         /\ Len(p) = Len(hashes) => ToSet(p) = DOMAIN hashes
<1>1. /\ p \in Seq(DOMAIN hashes) /\ Len(p) >= 1 /\ Len(p) \in Nat
      /\ p \in [1 .. Len(p) -> DOMAIN hashes] /\ DOMAIN p = 1 .. Len(p)
  BY LenProperties DEF Selections
<1>2. DOMAIN hashes = 1 .. Len(hashes) /\ Len(hashes) \in Nat
  BY LenProperties
<1>3. p \in Injection(1 .. Len(p), 1 .. Len(hashes))
  BY <1>1, <1>2 DEF Selections, Injection, IsInjective
<1>4. /\ IsFiniteSet(1 .. Len(hashes)) /\ Cardinality(1 .. Len(hashes)) = Len(hashes)
      /\ Cardinality(1 .. Len(p)) = Len(p)
  <2>1. \A n \in Nat : IsFiniteSet(1 .. n) /\ Cardinality(1 .. n) = n
    <3>1. TAKE n \in Nat
    <3>2. IsFiniteSet(1 .. n) /\ Cardinality(1 .. n) = IF 1 > n THEN 0 ELSE n - 1 + 1
      BY FS_Interval
    <3>3. QED
      BY <3>2
  <2>2. QED
    BY <1>1, <1>2, <2>1
<1>5. /\ Cardinality(1 .. Len(p)) <= Cardinality(1 .. Len(hashes))
      /\ Cardinality(1 .. Len(p)) = Cardinality(1 .. Len(hashes)) <=>
           p \in Surjection(1 .. Len(p), 1 .. Len(hashes))
  BY <1>3, <1>4, FS_Injection
<1>6. Len(p) <= Len(hashes)
  BY <1>4, <1>5
<1>7. ToSet(p) \subseteq DOMAIN hashes /\ ToSet(p) # {}
  BY <1>1 DEF ToSet
<1>8. ASSUME Len(p) = Len(hashes)
      PROVE  DOMAIN hashes \subseteq ToSet(p)
  <2>1. p \in Surjection(1 .. Len(p), 1 .. Len(hashes))
    BY <1>4, <1>5, <1>8
  <2>2. QED
    BY <1>1, <1>2, <2>1 DEF Surjection, ToSet
<1>9. Len(p) \in 1 .. Len(hashes)
  BY <1>1, <1>2, <1>6
<1>10. Len(p) = Len(hashes) => ToSet(p) = DOMAIN hashes
  BY <1>7, <1>8
<1>11. QED
  BY <1>1, <1>2, <1>7, <1>9, <1>10

\* Of the candidates, some are farthest.
LEMMA FarthestExists ==
  ASSUME NEW hashes \in Seq(Hash), NEW p \in Selections(hashes), Candidates(hashes, p) # {}
  PROVE  \E i \in Candidates(hashes, p) : \A j \in Candidates(hashes, p) :
           Distance(hashes, p, i) >= Distance(hashes, p, j)
<1> DEFINE left == Candidates(hashes, p)
           Bounds == { b \in Nat : \A j \in left : Distance(hashes, p, j) <= b }
<1>1. \A j \in left : Distance(hashes, p, j) \in 0 .. Cardinality(Bits)
  <2>1. \A j \in left : j \in DOMAIN hashes
    BY DEF Candidates
  <2>2. QED
    BY <2>1, SelectionSize, DistanceIsLeast
<1>2. Cardinality(Bits) \in Nat
  BY PhotoSelectAssumption, FS_CardinalityType
<1> HIDE DEF left
<1>3. Cardinality(Bits) \in Bounds /\ Bounds \in SUBSET Nat
  BY <1>1, <1>2
<1>4. PICK b \in Bounds : \A c \in Bounds : b <= c
  <2> HIDE DEF Bounds
  <2>1. QED
    BY <1>3, LeastNatural
<1>5. b \in Nat /\ \A j \in left : Distance(hashes, p, j) <= b
  BY <1>4
<1>6. \E i \in left : Distance(hashes, p, i) = b
  <2> SUFFICES ASSUME \A i \in left : Distance(hashes, p, i) # b
               PROVE  FALSE
    OBVIOUS
  <2>1. PICK i \in left : TRUE
    BY DEF left
  <2>2. b # 0
    BY <1>1, <1>2, <1>5, <2>1
  <2>3. b - 1 \in Nat /\ \A j \in left : Distance(hashes, p, j) <= b - 1
    BY <1>1, <1>2, <1>5, <2>2
  <2>4. QED
    BY <1>4, <1>5, <2>3
<1>7. QED
  BY <1>5, <1>6 DEF left

\* q goes on where p ends.
Continues(p, q) == Len(p) <= Len(q) /\ \A i \in 1 .. Len(p) : q[i] = p[i]

\* A pick adds a photo to a selection, or leaves it as it is when no candidate is left.
LEMMA PickOne ==
  ASSUME NEW hashes \in Seq(Hash), NEW p \in Selections(hashes)
  PROVE  /\ Pick(hashes, p) \in Selections(hashes)
         /\ Candidates(hashes, p) = {} => Pick(hashes, p) = p
         /\ Candidates(hashes, p) # {} => Len(Pick(hashes, p)) = Len(p) + 1
         /\ Continues(p, Pick(hashes, p))
<1> DEFINE left == Candidates(hashes, p)
           far == { i \in left : \A j \in left : Distance(hashes, p, i) >= Distance(hashes, p, j) }
           new == Min(far)
<1>1. /\ p \in Seq(DOMAIN hashes) /\ Len(p) \in Nat \ {0} /\ DOMAIN p = 1 .. Len(p)
      /\ \A a \in 1 .. Len(p) : p[a] \in DOMAIN hashes
      /\ ToSet(p) \subseteq DOMAIN hashes /\ ToSet(p) # {} /\ DOMAIN hashes = 1 .. Len(hashes)
  BY SelectionSize, LenProperties DEF Selections
<1>2. Pick(hashes, p) = IF left = {} THEN p ELSE Append(p, new)
  BY DEF Pick
<1>3. CASE left = {}
  BY <1>1, <1>2, <1>3 DEF Continues
<1>4. CASE left # {}
  <2>1. far \in SUBSET Nat /\ far # {}
    <3>1. far # {}
      BY <1>4, FarthestExists
    <3>2. left \subseteq Nat
      BY <1>1 DEF Candidates
    <3>3. QED
      BY <3>1, <3>2
  <2>2. new \in left
    <3>1. Min(far) \in far
      <4> HIDE DEF far
      <4>1. QED
        BY <2>1, MinNatural
    <3>2. QED
      BY <3>1
  <2> HIDE DEF new
  <2>3. new \in DOMAIN hashes /\ new \notin ToSet(p) /\ Distance(hashes, p, new) > NEAR_DUPLICATE_BITS
    BY <2>2 DEF Candidates
  <2>4. \A j \in ToSet(p) : /\ hamming(hashes[new], hashes[j]) > NEAR_DUPLICATE_BITS
                            /\ hamming(hashes[j], hashes[new]) > NEAR_DUPLICATE_BITS
    <3>1. \A j \in DOMAIN hashes : hashes[j] \in Hash
      BY LenProperties
    <3>2. ASSUME NEW j \in ToSet(p)
          PROVE  /\ hamming(hashes[new], hashes[j]) > NEAR_DUPLICATE_BITS
                 /\ hamming(hashes[j], hashes[new]) > NEAR_DUPLICATE_BITS
      <4>1. /\ Distance(hashes, p, new) \in 0 .. Cardinality(Bits)
            /\ Distance(hashes, p, new) <= hamming(hashes[new], hashes[j])
        BY <1>1, <2>3, DistanceIsLeast
      <4>2. /\ hamming(hashes[new], hashes[j]) \in 0 .. Cardinality(Bits)
            /\ hamming(hashes[new], hashes[j]) = hamming(hashes[j], hashes[new])
        BY <1>1, <2>3, <3>1, HammingDistance
      <4>3. NEAR_DUPLICATE_BITS \in Nat /\ Cardinality(Bits) \in Nat
        BY PhotoSelectAssumption, FS_CardinalityType
      <4>4. QED
        BY <2>3, <4>1, <4>2, <4>3
    <3>3. QED
      BY <3>2
  <2> DEFINE q == Append(p, new)
  <2>5. /\ q \in Seq(DOMAIN hashes) /\ Len(q) = Len(p) + 1
        /\ \A a \in 1 .. Len(p) : q[a] = p[a]
        /\ q[Len(p) + 1] = new /\ DOMAIN q = 1 .. Len(p) + 1
    BY <1>1, <2>3, AppendProperties, LenProperties
  <2> HIDE DEF q
  <2>6. \A a \in 1 .. Len(p) : p[a] \in ToSet(p)
    BY <1>1 DEF ToSet
  <2>7. ASSUME NEW a \in DOMAIN q, NEW b \in DOMAIN q, a # b
        PROVE  q[a] # q[b] /\ hamming(hashes[q[a]], hashes[q[b]]) > NEAR_DUPLICATE_BITS
    <3>1. CASE a \in 1 .. Len(p) /\ b \in 1 .. Len(p)
      BY <1>1, <2>5, <2>7, <3>1 DEF Selections
    <3>2. CASE a = Len(p) + 1 /\ b \in 1 .. Len(p)
      BY <2>3, <2>4, <2>5, <2>6, <3>2
    <3>3. CASE b = Len(p) + 1 /\ a \in 1 .. Len(p)
      BY <2>3, <2>4, <2>5, <2>6, <3>3
    <3>4. \A i \in DOMAIN q : i \in 1 .. Len(p) \/ i = Len(p) + 1
      <4>1. Len(p) \in Nat /\ DOMAIN q = 1 .. Len(p) + 1
        BY <1>1, <2>5
      <4>2. QED
        BY <4>1
    <3>5. ~ (a = Len(p) + 1 /\ b = Len(p) + 1)
      BY <2>7
    <3>6. QED
      BY <3>1, <3>2, <3>3, <3>4, <3>5
  <2>8. Len(q) >= 1 /\ q[1] = 1
    BY <1>1, <2>5 DEF Selections
  <2>9. q \in Selections(hashes)
    BY <2>5, <2>7, <2>8 DEF Selections
  <2>10. Continues(p, q)
    BY <1>1, <2>5 DEF Continues
  <2>11. Pick(hashes, p) = q
    BY <1>2, <1>4 DEF q
  <2>12. QED
    BY <1>4, <2>5, <2>9, <2>10, <2>11
<1>5. QED
  BY <1>3, <1>4

\* The selections of one photo, two photos and so on.
Picks(f, hashes) ==
  /\ f \in [Nat -> Selections(hashes)] /\ f[0] = <<1>>
  /\ \A n \in Nat : f[n + 1] = Pick(hashes, f[n])
  /\ \A k \in Nat \ {0} : select_diverse(hashes, k) = f[k - 1]

\* They are what select_diverse computes.
LEMMA PicksExist ==
  ASSUME NEW hashes \in Seq(Hash), hashes # <<>>
  PROVE  \E f : Picks(f, hashes)
<1> DEFINE D == Selections(hashes)
           step == [n \in Nat |-> [p \in D |-> Pick(hashes, p)]]
           Is(g) == g = [n \in Nat |-> IF n = 0 THEN <<1>> ELSE Pick(hashes, g[n - 1])]
           picked == CHOOSE g : g = [n \in Nat |-> IF n = 0 THEN <<1>> ELSE Pick(hashes, g[n - 1])]
<1>1. <<1>> \in D
  <2>1. Len(hashes) \in Nat \ {0} /\ DOMAIN hashes = 1 .. Len(hashes)
    BY EmptySeq, LenProperties
  <2>2. 1 \in DOMAIN hashes
    BY <2>1
  <2>3. <<1>> \in Seq(DOMAIN hashes) /\ Len(<<1>>) = 1 /\ <<1>>[1] = 1 /\ DOMAIN <<1>> = 1 .. 1
    BY <2>2
  <2> DEFINE one == <<1>>
  <2> HIDE DEF one
  <2>4. QED
    BY <2>3 DEF Selections
<1>2. PICK f : Iterates(f, D, <<1>>, step)
  <2>1. step \in [Nat -> [D -> D]]
    BY PickOne
  <2> HIDE DEF step, D
  <2>2. QED
    BY <1>1, <2>1, Recursion
<1>3. /\ f \in [Nat -> D] /\ f[0] = <<1>> /\ \A n \in Nat : f[n + 1] = Pick(hashes, f[n])
  <2>1. \A n \in Nat, p \in D : step[n + 1][p] = Pick(hashes, p)
    OBVIOUS
  <2> HIDE DEF step, D
  <2>2. f \in [Nat -> D] /\ f[0] = <<1>> /\ \A n \in Nat : f[n + 1] = step[n + 1][f[n]]
    BY <1>2 DEF Iterates
  <2>3. QED
    BY <2>1, <2>2
<1>4. Is(f)
  <2>1. ASSUME NEW n \in Nat, n # 0
        PROVE  f[n] = Pick(hashes, f[n - 1])
    <3>1. n - 1 \in Nat /\ (n - 1) + 1 = n
      BY <2>1
    <3>2. QED
      BY <1>3, <3>1
  <2> HIDE DEF D
  <2>2. QED
    BY <1>3, <2>1
<1>5. Is(picked)
  BY <1>4
<1> HIDE DEF picked, D, step
<1>6. picked[0] = <<1>> /\ \A n \in Nat : picked[n + 1] = Pick(hashes, picked[n])
  <2>1. picked[0] = <<1>>
    BY <1>5
  <2>2. ASSUME NEW n \in Nat
        PROVE  picked[n + 1] = Pick(hashes, picked[n])
    <3>1. n + 1 \in Nat /\ n + 1 # 0 /\ (n + 1) - 1 = n
      OBVIOUS
    <3>2. QED
      BY <1>5, <3>1
  <2>3. QED
    BY <2>1, <2>2
<1>7. \A n \in Nat : picked[n] \in D
  <2> DEFINE Good == { n \in Nat : picked[n] \in D }
  <2>1. 0 \in Good
    BY <1>1, <1>6
  <2>2. ASSUME NEW n \in Nat, n \in Good
        PROVE  n + 1 \in Good
    <3>1. Pick(hashes, picked[n]) \in D
      BY <2>2, PickOne DEF D
    <3>2. picked[n + 1] = Pick(hashes, picked[n])
      BY <1>6
    <3>3. picked[n + 1] \in D /\ n + 1 \in Nat
      BY <3>1, <3>2
    <3>4. QED
      BY <3>3
  <2>3. \A n \in Nat : n \in Good
    <3> HIDE DEF Good
    <3>1. QED
      BY <2>1, <2>2, Induction
  <2>4. QED
    BY <2>3
<1>8. picked \in [Nat -> D]
  BY <1>5, <1>7
<1>9. \A k \in Nat \ {0} : select_diverse(hashes, k) = picked[k - 1]
  BY DEF select_diverse, picked
<1>10. Picks(picked, hashes)
  BY <1>6, <1>8, <1>9 DEF Picks, D
<1>11. QED
  BY <1>10

\* A selection has a photo for every pick, unless the candidates ran out.
LEMMA PicksAreFull ==
  ASSUME NEW hashes \in Seq(Hash), NEW f, Picks(f, hashes), NEW n \in Nat
  PROVE  /\ f[n] \in Selections(hashes) /\ Len(f[n]) <= n + 1
         /\ Len(f[n]) = n + 1 \/ Candidates(hashes, f[n]) = {}
<1> DEFINE Good == { m \in Nat : /\ Len(f[m]) <= m + 1
                                 /\ Len(f[m]) = m + 1 \/ Candidates(hashes, f[m]) = {} }
<1>1. 0 \in Good
  <2>1. f[0] = <<1>> /\ Len(<<1>>) = 1
    BY DEF Picks
  <2>2. Len(f[0]) = 1 /\ 0 + 1 = 1
    BY <2>1
  <2>3. Len(f[0]) <= 0 + 1 /\ Len(f[0]) = 0 + 1
    BY <2>2
  <2>4. QED
    BY <2>3
<1>2. ASSUME NEW m \in Nat, m \in Good
      PROVE  m + 1 \in Good
  <2>1. f[m] \in Selections(hashes) /\ f[m + 1] = Pick(hashes, f[m])
    BY DEF Picks
  <2>2. /\ Candidates(hashes, f[m]) = {} => f[m + 1] = f[m]
        /\ Candidates(hashes, f[m]) # {} => Len(f[m + 1]) = Len(f[m]) + 1
    BY <2>1, PickOne
  <2>3. Len(f[m]) \in Nat
    BY <2>1, LenProperties DEF Selections
  <2>4. CASE Candidates(hashes, f[m]) = {}
    BY <1>2, <2>2, <2>3, <2>4
  <2>5. CASE Candidates(hashes, f[m]) # {}
    BY <1>2, <2>2, <2>3, <2>5
  <2>6. QED
    BY <2>4, <2>5
<1>3. \A m \in Nat : m \in Good
  <2> HIDE DEF Good
  <2>1. QED
    BY <1>1, <1>2, Induction
<1>4. QED
  BY <1>3 DEF Picks

\* What goes on where another goes on, goes on where that one did.
LEMMA ContinuesOn ==
  ASSUME NEW p, NEW q, NEW r, Len(p) \in Nat, Len(q) \in Nat, Len(r) \in Nat,
         Continues(p, q), Continues(q, r)
  PROVE  Continues(p, r)
BY DEF Continues

\* Later selections go on where earlier ones end, and stop for good.
LEMMA PicksContinue ==
  ASSUME NEW hashes \in Seq(Hash), NEW f, Picks(f, hashes), NEW m \in Nat, NEW d \in Nat
  PROVE  /\ Continues(f[m], f[m + d])
         /\ Candidates(hashes, f[m]) = {} => f[m + d] = f[m]
<1> DEFINE Good == { e \in Nat : /\ Continues(f[m], f[m + e])
                                 /\ Candidates(hashes, f[m]) = {} => f[m + e] = f[m] }
<1>1. \A n \in Nat : f[n] \in Selections(hashes) /\ Len(f[n]) \in Nat
  BY LenProperties DEF Picks, Selections
<1>2. 0 \in Good
  <2>1. m + 0 = m
    OBVIOUS
  <2>2. Continues(f[m], f[m])
    BY <1>1 DEF Continues
  <2>3. QED
    BY <2>1, <2>2
<1>3. ASSUME NEW e \in Nat, e \in Good
      PROVE  e + 1 \in Good
  <2>1. m + (e + 1) = (m + e) + 1 /\ m + e \in Nat /\ (m + e) + 1 \in Nat
    OBVIOUS
  <2>2. f[m + (e + 1)] = Pick(hashes, f[m + e])
    BY <2>1 DEF Picks
  <2>3. /\ Continues(f[m + e], f[m + (e + 1)])
        /\ Candidates(hashes, f[m + e]) = {} => f[m + (e + 1)] = f[m + e]
    BY <1>1, <2>1, <2>2, PickOne
  <2>4. Continues(f[m], f[m + (e + 1)])
    <3>1. Continues(f[m], f[m + e]) /\ Len(f[m]) \in Nat /\ Len(f[m + e]) \in Nat
          /\ Len(f[m + (e + 1)]) \in Nat
      BY <1>1, <1>3, <2>1
    <3>2. QED
      BY <2>3, <3>1, ContinuesOn
  <2>5. Candidates(hashes, f[m]) = {} => f[m + (e + 1)] = f[m]
    BY <1>3, <2>3
  <2>6. QED
    BY <2>4, <2>5
<1>4. \A e \in Nat : e \in Good
  <2> HIDE DEF Good
  <2>1. QED
    BY <1>2, <1>3, Induction
<1>5. QED
  BY <1>4

\* Where p ends in q, p is the beginning of q.
LEMMA ContinuesIsPrefix ==
  ASSUME NEW T, NEW p \in Seq(T), NEW q \in Seq(T), Continues(p, q)
  PROVE  p = SubSeq(q, 1, Len(p))
<1>1. Len(p) \in 0 .. Len(q)
  BY LenProperties DEF Continues
<1>2. /\ SubSeq(q, 1, Len(p)) \in Seq(T) /\ Len(SubSeq(q, 1, Len(p))) = Len(p)
      /\ \A i \in 1 .. Len(p) : SubSeq(q, 1, Len(p))[i] = q[i]
  BY <1>1, Prefix
<1>3. QED
  BY <1>2, SeqEqual DEF Continues

\* Min of two numbers.
LEMMA MinOfTwo ==
  ASSUME NEW a \in Nat, NEW b \in Nat
  PROVE  Min({a, b}) = IF a <= b THEN a ELSE b
<1>1. {a, b} \in SUBSET Nat /\ {a, b} # {}
  OBVIOUS
<1>2. Min({a, b}) \in {a, b} /\ \A y \in {a, b} : Min({a, b}) <= y
  BY <1>1, MinNatural
<1>3. QED
  BY <1>2

\* select_diverse, asked for as many photos as there are: the lead photo comes first,
\* no two photos are near duplicates of each other, and every photo is one of a
\* photo that is picked.
LEMMA SelectsApart ==
  ASSUME NEW hashes \in Seq(Hash), hashes # <<>>
  PROVE  LET keep == select_diverse(hashes, Len(hashes))
             near(i, j) == hamming(hashes[i], hashes[j]) <= NEAR_DUPLICATE_BITS
         IN  /\ keep \in Selections(hashes)
             /\ Head(keep) = 1
             /\ \A i, j \in ToSet(keep) : i # j => ~ near(i, j)
             /\ \A i \in DOMAIN hashes : \E j \in ToSet(keep) : near(i, j)
<1> DEFINE N == Len(hashes)
           near(i, j) == hamming(hashes[i], hashes[j]) <= NEAR_DUPLICATE_BITS
           keep == select_diverse(hashes, N)
<1>1. N \in Nat \ {0} /\ N - 1 \in Nat /\ DOMAIN hashes = 1 .. N
  BY EmptySeq, LenProperties
<1>2. PICK f : Picks(f, hashes)
  BY PicksExist
<1>3. keep = f[N - 1]
  BY <1>1, <1>2 DEF Picks
<1>4. /\ keep \in Selections(hashes) /\ Len(keep) <= (N - 1) + 1
      /\ Len(keep) = (N - 1) + 1 \/ Candidates(hashes, keep) = {}
  BY <1>1, <1>2, <1>3, PicksAreFull
<1> HIDE DEF keep
<1>5. /\ DOMAIN keep = 1 .. Len(keep) /\ Len(keep) \in 1 .. N
      /\ ToSet(keep) \subseteq DOMAIN hashes /\ ToSet(keep) # {}
      /\ Len(keep) = N => ToSet(keep) = DOMAIN hashes
  BY <1>4, SelectionSize
<1>6. Head(keep) = 1
  BY <1>4 DEF Selections
<1>7. \A j \in DOMAIN hashes : hashes[j] \in Hash
  BY LenProperties
<1>8. \A i, j \in DOMAIN hashes : hamming(hashes[i], hashes[j]) \in 0 .. Cardinality(Bits)
  BY <1>7, HammingDistance
<1>9. NEAR_DUPLICATE_BITS \in Nat /\ Cardinality(Bits) \in Nat
  BY PhotoSelectAssumption, FS_CardinalityType
<1>10. ASSUME NEW i \in ToSet(keep), NEW j \in ToSet(keep), i # j
       PROVE  ~ near(i, j)
  <2>1. PICK a \in DOMAIN keep, b \in DOMAIN keep : i = keep[a] /\ j = keep[b] /\ a # b
    BY <1>10 DEF ToSet
  <2>2. hamming(hashes[i], hashes[j]) > NEAR_DUPLICATE_BITS
    BY <1>4, <2>1 DEF Selections
  <2>3. hamming(hashes[i], hashes[j]) \in 0 .. Cardinality(Bits)
    BY <1>5, <1>8
  <2>4. QED
    BY <1>9, <2>2, <2>3
<1>11. ASSUME NEW i \in DOMAIN hashes
       PROVE  \E j \in ToSet(keep) : near(i, j)
  <2>1. CASE i \in ToSet(keep)
    <3>1. near(i, i)
      BY <1>7, <1>9, HammingDistance
    <3>2. QED
      BY <2>1, <3>1
  <2>2. CASE i \notin ToSet(keep)
    <3>1. Candidates(hashes, keep) = {}
      <4>1. Len(keep) # N
        BY <1>5, <2>2
      <4>2. (N - 1) + 1 = N
        BY <1>1
      <4>3. QED
        BY <1>4, <4>1, <4>2
    <3>2. ~ (Distance(hashes, keep, i) > NEAR_DUPLICATE_BITS)
      BY <2>2, <3>1 DEF Candidates
    <3>3. /\ Distance(hashes, keep, i) \in 0 .. Cardinality(Bits)
          /\ \E j \in ToSet(keep) : Distance(hashes, keep, i) = hamming(hashes[i], hashes[j])
      BY <1>5, DistanceIsLeast
    <3>4. QED
      BY <1>9, <3>2, <3>3
  <2>3. QED
    BY <2>1, <2>2
<1>12. QED
  BY <1>4, <1>6, <1>10, <1>11 DEF keep

\* Asked for fewer photos, it returns the first of them.
LEMMA SelectsInOrder ==
  ASSUME NEW hashes \in Seq(Hash), hashes # <<>>,
         NEW k \in 0 .. Len(select_diverse(hashes, Len(hashes)))
  PROVE  select_diverse(hashes, k) = SubSeq(select_diverse(hashes, Len(hashes)), 1, k)
<1> DEFINE N == Len(hashes)
           keep == select_diverse(hashes, N)
<1>1. N \in Nat \ {0} /\ N - 1 \in Nat
  BY EmptySeq, LenProperties
<1>2. PICK f : Picks(f, hashes)
  BY PicksExist
<1>3. keep = f[N - 1] /\ keep \in Selections(hashes)
  BY <1>1, <1>2, PicksAreFull DEF Picks
<1>4. keep \in Seq(DOMAIN hashes) /\ Len(keep) \in 1 .. N
  BY <1>3, SelectionSize DEF Selections
<1> HIDE DEF keep
<1>5. k \in Nat /\ k <= Len(keep) /\ k <= N
  BY <1>1, <1>4 DEF keep
<1>6. CASE k = 0
  <2>1. select_diverse(hashes, k) = <<>>
    BY <1>6 DEF select_diverse
  <2>2. SubSeq(keep, 1, 0) = <<>>
    BY SubSeqEmpty
  <2>3. QED
    BY <1>6, <2>1, <2>2 DEF keep
<1>7. CASE k # 0
  <2> DEFINE p == f[k - 1]
             d == N - k
  <2>1. k - 1 \in Nat /\ d \in Nat /\ (k - 1) + d = N - 1
    BY <1>1, <1>5, <1>7
  <2>2. select_diverse(hashes, k) = p
    BY <1>2, <1>5, <1>7 DEF Picks
  <2>3. /\ p \in Selections(hashes) /\ Len(p) <= (k - 1) + 1
        /\ Len(p) = (k - 1) + 1 \/ Candidates(hashes, p) = {}
    BY <1>2, <2>1, PicksAreFull
  <2>4. Continues(p, keep) /\ (Candidates(hashes, p) = {} => keep = p)
    <3>1. /\ Continues(f[k - 1], f[(k - 1) + d])
          /\ Candidates(hashes, f[k - 1]) = {} => f[(k - 1) + d] = f[k - 1]
      <4> HIDE DEF d, p
      <4>1. QED
        BY <1>2, <2>1, PicksContinue
    <3>2. f[(k - 1) + d] = keep
      BY <1>3, <2>1
    <3>3. QED
      BY <3>1, <3>2
  <2> HIDE DEF p
  <2>5. Len(p) = k
    BY <1>4, <1>5, <2>3, <2>4
  <2>6. p = SubSeq(keep, 1, Len(p))
    BY <1>4, <2>3, <2>4, ContinuesIsPrefix DEF Selections
  <2>7. QED
    BY <2>2, <2>5, <2>6 DEF keep
<1>8. QED
  BY <1>6, <1>7

\* The photos 1 to n of the gallery, as they are in the tiles or the tiles are full.
Filled(t, n, want, hashes) ==
  /\ t \in Seq(DOMAIN hashes) /\ IsInjective(t) /\ Len(t) <= want
  /\ Len(t) = want \/ 1 .. n \subseteq ToSet(t)

\* One more photo of the gallery, if it is to be a tile.
LEMMA BackfillOne ==
  ASSUME NEW hashes \in Seq(Hash), NEW want \in Nat, NEW n \in 0 .. Len(hashes) - 1,
         NEW t, Filled(t, n, want, hashes)
  PROVE  Filled(Backfill(t, n + 1, want), n + 1, want, hashes)
<1> DEFINE u == Append(t, n + 1)
<1>1. DOMAIN hashes = 1 .. Len(hashes) /\ Len(hashes) \in Nat /\ n + 1 \in DOMAIN hashes
  BY LenProperties
<1>2. t \in Seq(DOMAIN hashes) /\ Len(t) \in Nat /\ DOMAIN t = 1 .. Len(t)
  BY LenProperties DEF Filled
<1>3. 1 .. n + 1 = (1 .. n) \cup {n + 1}
  BY <1>1
<1>4. CASE Len(t) >= want \/ n + 1 \in ToSet(t)
  <2>1. Backfill(t, n + 1, want) = t
    BY <1>4 DEF Backfill
  <2>2. Len(t) = want \/ 1 .. n + 1 \subseteq ToSet(t)
    <3>1. Len(t) \in Nat /\ Len(t) <= want /\ (Len(t) = want \/ 1 .. n \subseteq ToSet(t))
      BY <1>2 DEF Filled
    <3>2. CASE Len(t) >= want
      <4>1. Len(t) = want
        BY <3>1, <3>2
      <4>2. QED
        BY <4>1
    <3>3. CASE n + 1 \in ToSet(t)
      BY <1>3, <3>1, <3>3
    <3>4. QED
      BY <1>4, <3>2, <3>3
  <2>3. QED
    BY <2>1, <2>2 DEF Filled
<1>5. CASE ~ (Len(t) >= want) /\ n + 1 \notin ToSet(t)
  <2>1. Backfill(t, n + 1, want) = u
    BY <1>5 DEF Backfill
  <2>2. /\ u \in Seq(DOMAIN hashes) /\ Len(u) = Len(t) + 1 /\ ToSet(u) = ToSet(t) \cup {n + 1}
    BY <1>1, <1>2, AppendElements
  <2>3. /\ \A i \in 1 .. Len(t) : u[i] = t[i]
        /\ u[Len(t) + 1] = n + 1 /\ DOMAIN u = 1 .. Len(t) + 1
    BY <1>1, <1>2, AppendProperties, LenProperties
  <2> HIDE DEF u
  <2>4. \A i \in 1 .. Len(t) : t[i] # n + 1
    BY <1>2, <1>5 DEF ToSet
  <2>5. ASSUME NEW a \in DOMAIN u, NEW b \in DOMAIN u, u[a] = u[b]
        PROVE  a = b
    <3>1. CASE a \in 1 .. Len(t) /\ b \in 1 .. Len(t)
      <4>1. t[a] = t[b]
        BY <2>3, <2>5, <3>1
      <4>2. QED
        BY <1>2, <3>1, <4>1 DEF Filled, IsInjective
    <3>2. CASE a = Len(t) + 1 /\ b \in 1 .. Len(t)
      BY <2>3, <2>4, <2>5, <3>2
    <3>3. CASE a \in 1 .. Len(t) /\ b = Len(t) + 1
      BY <2>3, <2>4, <2>5, <3>3
    <3>4. 1 .. Len(t) + 1 = (1 .. Len(t)) \cup {Len(t) + 1}
      BY <1>2
    <3>5. QED
      BY <2>3, <2>5, <3>1, <3>2, <3>3, <3>4
  <2>6. Len(u) <= want
    BY <1>2, <1>5, <2>2
  <2>7. Len(t) # want
    <3>1. Len(t) \in Nat /\ ~ (Len(t) >= want)
      BY <1>2, <1>5
    <3>2. QED
      BY <3>1
  <2>8. 1 .. n + 1 \subseteq ToSet(u)
    BY <1>3, <2>2, <2>7 DEF Filled
  <2>9. IsInjective(u)
    BY <2>5 DEF IsInjective
  <2>10. QED
    BY <2>1, <2>2, <2>6, <2>8, <2>9 DEF Filled
<1>6. QED
  BY <1>4, <1>5

\* Tiles that hold every photo of the gallery are as many.
LEMMA FilledIsFull ==
  ASSUME NEW hashes \in Seq(Hash), NEW want \in Nat, want <= Len(hashes),
         NEW t, Filled(t, Len(hashes), want, hashes)
  PROVE  Len(t) = want
<1>1. DOMAIN hashes = 1 .. Len(hashes) /\ Len(hashes) \in Nat
  BY LenProperties
<1>2. /\ t \in Seq(DOMAIN hashes) /\ Len(t) \in Nat /\ DOMAIN t = 1 .. Len(t) /\ Len(t) <= want
      /\ t \in [1 .. Len(t) -> DOMAIN hashes]
  BY LenProperties DEF Filled
<1>3. CASE 1 .. Len(hashes) \subseteq ToSet(t)
  <2>1. t \in Surjection(1 .. Len(t), 1 .. Len(hashes))
    BY <1>1, <1>2, <1>3 DEF Surjection, ToSet
  <2>2. \A n \in Nat : IsFiniteSet(1 .. n) /\ Cardinality(1 .. n) = n
    <3>1. TAKE n \in Nat
    <3>2. IsFiniteSet(1 .. n) /\ Cardinality(1 .. n) = IF 1 > n THEN 0 ELSE n - 1 + 1
      BY FS_Interval
    <3>3. QED
      BY <3>2
  <2>3. Cardinality(1 .. Len(hashes)) <= Cardinality(1 .. Len(t))
    BY <1>2, <2>1, <2>2, FS_Surjection
  <2>4. Len(hashes) <= Len(t)
    BY <1>1, <1>2, <2>2, <2>3
  <2>5. Len(t) \in Nat /\ Len(hashes) \in Nat /\ Len(t) <= want
    BY <1>1, <1>2
  <2>6. QED
    BY <2>4, <2>5
<1>4. QED
  BY <1>3 DEF Filled

\* The collage shows photos of the gallery, none of them twice, and as many as it
\* has room for or the gallery has.
LEMMA TilesAreFull ==
  ASSUME NEW hashes \in Seq(Hash), hashes # <<>>
  PROVE  /\ Tiles(hashes) \in Seq(DOMAIN hashes) /\ IsInjective(Tiles(hashes))
         /\ Len(Tiles(hashes)) = Min({MAX_COLLAGE_PHOTOS, Len(hashes)})
         /\ Tiles(hashes) # <<>>
<1> DEFINE N == Len(hashes)
           keep == select_diverse(hashes, N)
           want == Min({MAX_COLLAGE_PHOTOS, N})
           first == SubSeq(keep, 1, Min({Len(keep), MAX_COLLAGE_PHOTOS}))
           Is(g) == g = [i \in Nat |-> IF i = 0 THEN first ELSE Backfill(g[i - 1], i, want)]
           tiles == CHOOSE g : g = [i \in Nat |-> IF i = 0 THEN first ELSE Backfill(g[i - 1], i, want)]
           step == [i \in Nat |-> [d \in Seq(Nat) |-> Backfill(d, i, want)]]
<1>1. N \in Nat \ {0} /\ DOMAIN hashes = 1 .. N /\ MAX_COLLAGE_PHOTOS \in Nat \ {0}
  BY EmptySeq, LenProperties, PhotoSelectAssumption
<1>2. want \in Nat \ {0} /\ want <= N /\ want = IF MAX_COLLAGE_PHOTOS <= N THEN MAX_COLLAGE_PHOTOS ELSE N
  BY <1>1, MinOfTwo
<1>3. keep \in Selections(hashes)
  BY SelectsApart
<1>4. Tiles(hashes) = tiles[N]
  BY DEF Tiles
<1> HIDE DEF keep
<1>5. keep \in Seq(DOMAIN hashes) /\ Len(keep) \in 1 .. N /\ DOMAIN keep = 1 .. Len(keep)
  BY <1>3, SelectionSize DEF Selections
<1>6. \E room \in 0 .. Len(keep) :
        first = SubSeq(keep, 1, room) /\ room <= want /\ (room = Len(keep) \/ room = want)
  <2> DEFINE room == Min({Len(keep), MAX_COLLAGE_PHOTOS})
  <2>1. room = IF Len(keep) <= MAX_COLLAGE_PHOTOS THEN Len(keep) ELSE MAX_COLLAGE_PHOTOS
    BY <1>1, <1>5, MinOfTwo
  <2>2. first = SubSeq(keep, 1, room)
    OBVIOUS
  <2> HIDE DEF room, first, want
  <2>3. room \in 0 .. Len(keep) /\ room <= want /\ (room = Len(keep) \/ room = want)
    <3>1. N \in Nat /\ MAX_COLLAGE_PHOTOS \in Nat
      BY <1>1
    <3>2. want = IF MAX_COLLAGE_PHOTOS <= N THEN MAX_COLLAGE_PHOTOS ELSE N
      BY <1>2
    <3>3. Len(keep) \in 1 .. N
      BY <1>5
    <3> HIDE DEF N
    <3>4. Len(keep) \in Nat /\ Len(keep) <= N
      BY <3>1, <3>3
    <3>5. QED
      BY <2>1, <3>1, <3>2, <3>4
  <2>4. QED
    BY <2>2, <2>3
<1> HIDE DEF want, first
<1>7. Filled(first, 0, want, hashes)
  <2>1. PICK room \in 0 .. Len(keep) : first = SubSeq(keep, 1, room) /\ room <= want
    BY <1>6
  <2>2. /\ first \in Seq(DOMAIN hashes) /\ Len(first) = room
        /\ \A i \in 1 .. room : first[i] = keep[i]
    BY <1>5, <2>1, Prefix
  <2>3. DOMAIN first = 1 .. room /\ \A i \in 1 .. room : i \in DOMAIN keep
    BY <1>5, <2>2, LenProperties
  <2>4. IsInjective(first)
    BY <1>3, <2>2, <2>3 DEF IsInjective, Selections
  <2>5. 1 .. 0 \subseteq ToSet(first)
    OBVIOUS
  <2>6. QED
    BY <2>1, <2>2, <2>4, <2>5 DEF Filled
<1>8. Is(tiles)
  <2>1. step \in [Nat -> [Seq(Nat) -> Seq(Nat)]]
    BY AppendProperties DEF Backfill
  <2>2. first \in Seq(Nat)
    <3>1. first \in Seq(DOMAIN hashes) /\ DOMAIN hashes \subseteq Nat
      BY <1>1, <1>7 DEF Filled
    <3>2. QED
      BY <3>1, Elements
  <2>3. PICK f : Iterates(f, Seq(Nat), first, step)
    <3> HIDE DEF step
    <3>1. QED
      BY <2>1, <2>2, Recursion
  <2>4. ASSUME NEW i \in Nat, i # 0
        PROVE  f[i] = Backfill(f[i - 1], i, want)
    <3>1. i - 1 \in Nat /\ (i - 1) + 1 = i
      BY <2>4
    <3>2. f[i] = step[i][f[i - 1]] /\ f[i - 1] \in Seq(Nat)
      BY <2>3, <3>1 DEF Iterates
    <3>3. QED
      BY <3>2
  <2>5. Is(f)
    BY <2>3, <2>4 DEF Iterates
  <2>6. QED
    BY <2>5
<1> HIDE DEF tiles, step
<1> DEFINE Good == { n \in 0 .. N : Filled(tiles[n], n, want, hashes) }
<1>9. 0 \in Good
  <2>1. tiles[0] = first
    BY <1>8
  <2>2. QED
    BY <1>1, <1>7, <2>1
<1>10. ASSUME NEW n \in 0 .. N - 1, n \in Good
       PROVE  n + 1 \in Good
  <2>1. n + 1 \in Nat /\ n + 1 # 0 /\ (n + 1) - 1 = n /\ n + 1 \in 0 .. N
    BY <1>1
  <2>2. tiles[n + 1] = Backfill(tiles[n], n + 1, want)
    BY <1>8, <2>1
  <2>3. Filled(tiles[n], n, want, hashes)
    BY <1>10
  <2>4. Filled(tiles[n + 1], n + 1, want, hashes)
    BY <1>2, <2>2, <2>3, BackfillOne
  <2>5. QED
    BY <2>1, <2>4
<1>11. \A n \in 0 .. N : n \in Good
  <2> HIDE DEF Good
  <2>1. QED
    BY <1>1, <1>9, <1>10, BoundedInduction
<1>12. Filled(tiles[N], N, want, hashes)
  BY <1>1, <1>11
<1>13. Len(tiles[N]) = want
  BY <1>2, <1>12, FilledIsFull
<1>14. tiles[N] # <<>>
  BY <1>2, <1>13
<1>15. QED
  BY <1>4, <1>12, <1>13, <1>14 DEF Filled, want

\* The branded photos are photos of the gallery.
LEMMA BrandedAreListed ==
  ASSUME NEW hashes \in Seq(Hash), hashes # <<>>
  PROVE  Branded(hashes) \in Seq(DOMAIN hashes)
<1> DEFINE keep == select_diverse(hashes, Len(hashes))
<1>1. keep \in Seq(DOMAIN hashes)
  BY SelectsApart DEF Selections
<1>2. Len(keep) \in Nat /\ MAX_PACK_PHOTOS \in Nat
  BY <1>1, LenProperties, PhotoSelectAssumption
<1> HIDE DEF keep
<1>3. Min({Len(keep), MAX_PACK_PHOTOS}) \in 0 .. Len(keep)
  BY <1>2, MinOfTwo
<1>4. SubSeq(keep, 1, Min({Len(keep), MAX_PACK_PHOTOS})) \in Seq(DOMAIN hashes)
  BY <1>1, <1>3, Prefix
<1>5. QED
  BY <1>4 DEF Branded, keep

\* photo_select.py:47 and collage_service.py:151, for every gallery of any size.
LEMMA EveryGalleryDiverse ==
  ASSUME NEW hashes \in Seq(Hash), hashes # <<>>
  PROVE  Diverse(hashes)
BY SelectsApart, SelectsInOrder, TilesAreFull DEF Diverse

\* The selection of photo_select.py and the collage of collage_service.py, as the
\* instance starts with any gallery: the lead photo first, one photo of each shot,
\* and a collage without repetitions that is as full as the gallery allows.
THEOREM SelectionIsDiverse == PhotosSpec => []SelectsDiverse
<1> DEFINE Inv == part = "selection" => gallery \in Gallery
<1>1. PhotosInit => Inv
  BY DEF PhotosInit
<1>2. Inv /\ [PhotosNext]_<<part, gallery, vars>> => Inv'
  BY DEF PhotosNext
<1>3. Inv => SelectsDiverse
  <2>1. ASSUME gallery \in Gallery
        PROVE  gallery \in Seq(Hash) /\ gallery # <<>>
    <3>1. PICK n \in 1 .. MaxGallery : gallery \in [1 .. n -> Hash]
      BY <2>1 DEF Gallery
    <3>2. n \in Nat /\ n # 0
      BY PhotoSelectAssumption
    <3>3. gallery \in Seq(Hash) /\ Len(gallery) = n
      BY <3>1, <3>2, SeqDef, LenProperties
    <3>4. QED
      BY <3>2, <3>3
  <2>2. QED
    BY <2>1, EveryGalleryDiverse DEF SelectsDiverse
<1>4. QED
  BY <1>1, <1>2, <1>3, PTL DEF PhotosSpec
-----------------------------------------------------------------------------
(* What a step does to the requests, and the types.                        *)

\* A request as it can be: at the next image of a batch only when there is one, with
\* an image when it sends or lists it, and with a file when it lists or removes it.
Going == { r \in Request : /\ r.at = "next" => r.todo > 0
                           /\ r.at \in {"send", "commit"} => r.content \in Contents
                           /\ r.at \in {"commit", "trash", "remove"} => r.file # 0 }
TypeInv == TypeOK /\ requests \in [Requests -> Going]

\* The request q goes from one of some phases to one of others.
Moves(q, From, To) ==
  /\ requests[q].at \in From
  /\ \E r \in Going' : r.at \in To /\ requests' = [requests EXCEPT ![q] = r]

\* The phases in which a request has nothing in its hands.
Quiet == {"idle", "next", "send", "expired", "fetch"}

\* The types of the parts.
LEMMA Types ==
  ASSUME TypeInv
  PROVE  /\ Len(files) \in Nat /\ 0 \in Token /\ tokens \in Nat /\ DOMAIN files = File
         /\ \A f \in File : f \in Nat /\ files[f] \in FileRecord
         /\ ToSet(rows) \subseteq File
         /\ \A q \in Requests : requests[q] \in Request /\ requests[q] \in Going
         /\ connection.row \in Token /\ connection.token \in Token
         /\ connection = [row |-> connection.row, token |-> connection.token]
<1>1. Len(files) \in Nat /\ DOMAIN files = File /\ \A f \in File : files[f] \in FileRecord
  BY LenProperties DEF TypeInv, TypeOK, File
<1>2. ToSet(rows) \subseteq File
  BY Elements DEF TypeInv, TypeOK
<1>3. 0 \in Token /\ tokens \in Nat
  BY CloudPhotosAssumption DEF TypeInv, TypeOK, Token
<1>4. \A f \in File : f \in Nat
  BY <1>1 DEF File
<1>5. /\ connection.row \in Token /\ connection.token \in Token
      /\ connection = [row |-> connection.row, token |-> connection.token]
  BY DEF TypeInv, TypeOK, Connection
<1>6. \A q \in Requests : requests[q] \in Request /\ requests[q] \in Going
  BY DEF TypeInv, Going
<1>7. QED
  BY <1>1, <1>2, <1>3, <1>4, <1>5, <1>6

\* As files are created, what names files stays of its type.
LEMMA FilesGrow ==
  ASSUME files \in Seq(FileRecord), files' \in Seq(FileRecord), Len(files) <= Len(files')
  PROVE  /\ File \subseteq File' /\ Seq(File) \subseteq Seq(File)'
         /\ Going \subseteq Going' /\ Seq(Entry) \subseteq Seq(Entry)'
<1>1. Len(files) \in Nat /\ Len(files') \in Nat
  BY LenProperties
<1>2. File \subseteq File'
  BY <1>1 DEF File
<1>3. \A s \in Seq(File) : s \in Seq(File')
  BY <1>2, Elements
<1>4. 0 .. Len(files) \subseteq 0 .. Len(files')
  BY <1>1
<1>5. Going \subseteq Going'
  <2>1. Request \subseteq Request'
    BY <1>3, <1>4 DEF Request
  <2>2. QED
    BY <2>1 DEF Going
<1>6. Pack \subseteq Pack'
  BY <1>3 DEF Pack
<1>7. Entry \subseteq Entry'
  BY <1>2, <1>6 DEF Entry
<1>8. \A s \in Seq(Entry) : s \in Seq(Entry')
  BY <1>7, Elements
<1>9. QED
  BY <1>2, <1>3, <1>5, <1>8

\* A request that moves changes no other.
LEMMA MovesOne ==
  ASSUME TypeInv, NEW q \in Requests, NEW From, NEW To, Moves(q, From, To),
         files' \in Seq(FileRecord), Len(files) <= Len(files')
  PROVE  /\ requests' \in [Requests -> Going]' /\ requests'[q].at \in To
         /\ \A p \in Requests : p # q => requests'[p] = requests[p]
         /\ cache \in Seq(Entry)' /\ rows \in Seq(File)'
<1>1. Going \subseteq Going' /\ Seq(Entry) \subseteq Seq(Entry)' /\ Seq(File) \subseteq Seq(File)'
  BY FilesGrow DEF TypeInv, TypeOK
<1>2. requests \in [Requests -> Going']
  BY <1>1 DEF TypeInv
<1>3. PICK r \in Going' : r.at \in To /\ requests' = [requests EXCEPT ![q] = r]
  BY DEF Moves
<1>4. requests' \in [Requests -> Going']
  BY <1>2, <1>3
<1>5. requests'[q] = r /\ \A p \in Requests : p # q => requests'[p] = requests[p]
  BY <1>2, <1>3
<1>6. QED
  BY <1>1, <1>3, <1>4, <1>5 DEF TypeInv, TypeOK

\* Without a change of the files their number is the same, and so is the type of a request.
LEMMA SameFiles ==
  ASSUME TypeInv, UNCHANGED files
  PROVE  /\ files' \in Seq(FileRecord) /\ Len(files) <= Len(files')
         /\ Going' = Going /\ File' = File
<1>1. Len(files) \in Nat
  BY Types
<1>2. QED
  BY <1>1 DEF TypeInv, TypeOK, Going, Request, File

\* A request that does not do anything is one, and so is one that is done with an image.
LEMMA IdleTyped == TypeInv => Idle \in Going /\ Idle \in Request /\ Idle.at = "idle"
<1>1. ASSUME TypeInv
      PROVE  Idle \in Going /\ Idle.at = "idle"
  <2>1. 0 \in Token /\ 0 \in 0 .. Len(files) /\ <<>> \in Seq(File)
    BY <1>1, Types, EmptySeq
  <2>2. 0 \in 0 .. MaxUrls
    BY CloudPhotosAssumption
  <2>3. QED
    BY <2>1, <2>2 DEF Idle, Going, Request, Phase
<1>2. QED
  BY <1>1 DEF Going

LEMMA TurnTyped ==
  ASSUME TypeInv, NEW r \in Request
  PROVE  Turn(r) \in Going /\ Turn(r).at \in {"idle", "next"}
<1>1. Idle \in Going /\ Idle.at = "idle"
  BY IdleTyped
<1>2. 0 \in 0 .. Len(files)
  BY Types
<1>3. CASE r.todo > 0
  <2>1. Turn(r) = [r EXCEPT !.at = "next", !.content = NoContent, !.file = 0, !.again = FALSE]
    BY <1>3 DEF Turn
  <2>2. QED
    BY <1>2, <1>3, <2>1 DEF Going, Request, Phase
<1>4. CASE ~ (r.todo > 0)
  BY <1>1, <1>4 DEF Turn
<1>5. QED
  BY <1>3, <1>4

LEMMA StoreTyped ==
  ASSUME TypeInv, UNCHANGED files, NEW q \in Requests, NEW From, At(q, "idle") \/ At(q, "next"),
         requests[q].at \in From, NEW r \in Request, NEW c \in Contents, StoreBytes(q, r, c)
  PROVE  Moves(q, From, {"idle", "next", "send"})
<1> DEFINE s == [r EXCEPT !.at = "send", !.content = c]
<1>1. s \in Going /\ s.at = "send"
  BY DEF Going, Request, Phase
<1>2. Turn(r) \in Going /\ Turn(r).at \in {"idle", "next"}
  BY TurnTyped
<1>3. Going' = Going
  BY SameFiles
<1> HIDE DEF s
<1>4. requests' = [requests EXCEPT ![q] = IF c \in Stored THEN Turn(r) ELSE s]
  BY DEF StoreBytes, Go, s
<1>5. CASE c \in Stored
  BY <1>2, <1>3, <1>4, <1>5 DEF Moves
<1>6. CASE c \notin Stored
  BY <1>1, <1>3, <1>4, <1>6 DEF Moves
<1>7. QED
  BY <1>5, <1>6

\* A request that is replaced by one of its type moves.
LEMMA GoMoves ==
  ASSUME NEW q \in Requests, NEW From, NEW To, NEW r \in Going, Going \subseteq Going',
         requests[q].at \in From, r.at \in To, Go(q, r)
  PROVE  Moves(q, From, To)
BY DEF Moves, Go

\* The contents that are stored are contents; so are the photos a pack is made from,
\* which are listed.
LEMMA StoredTyped == TypeInv => Stored \subseteq Contents
BY Types DEF Stored, FileRecord

LEMMA CandidateListed ==
  ASSUME TypeInv, rows # <<>>
  PROVE  Candidate \in Seq(File) /\ ToSet(Candidate) \subseteq ToSet(rows)
<1>1. rows \in Seq(File) /\ Len(rows) \in Nat /\ MAX_CANDIDATE_PHOTOS \in Nat
  BY LenProperties, CloudPhotosAssumption DEF TypeInv, TypeOK
<1>2. Min({Len(rows), MAX_CANDIDATE_PHOTOS}) \in 0 .. Len(rows)
  BY <1>1, MinOfTwo
<1>3. QED
  BY <1>1, <1>2, Prefix DEF Candidate

\* The requests for the connection.
LEMMA ConnectionMoves ==
  ASSUME TypeInv, NEW q \in Requests
  PROVE  /\ Login(q) => Moves(q, {"idle"}, {"connect"})
         /\ Connect(q) => Moves(q, {"connect"}, {"idle"})
         /\ Disconnect(q) => Moves(q, {"idle"}, {"unlink"}) \/ UNCHANGED requests
         /\ Unlink(q) => Moves(q, {"unlink"}, {"idle"})
<1>1. Idle \in Going /\ Idle \in Request /\ Idle.at = "idle"
  BY IdleTyped
<1>2. UNCHANGED files => Going' = Going
  BY SameFiles
<1>3. connection.row \in Token /\ connection.token \in Token
  BY Types
<1>4. ASSUME Login(q)
      PROVE  Moves(q, {"idle"}, {"connect"})
  <2> DEFINE r == [Idle EXCEPT !.at = "connect", !.token = Granted, !.row = connection.row]
  <2>1. Granted \in Token
    BY <1>4, Types, CloudPhotosAssumption DEF Login, Granted, Token
  <2>2. r \in Going /\ r.at = "connect"
    BY <1>1, <1>3, <2>1 DEF Going, Request, Phase
  <2>3. At(q, "idle") /\ Go(q, r) /\ UNCHANGED files
    BY <1>4 DEF Login, Begin, Go
  <2> HIDE DEF r
  <2>4. QED
    BY <1>2, <2>2, <2>3, GoMoves DEF At
<1>5. ASSUME Connect(q)
      PROVE  Moves(q, {"connect"}, {"idle"})
  BY <1>1, <1>2, <1>5, GoMoves DEF Connect, At, End
<1>6. ASSUME Disconnect(q)
      PROVE  Moves(q, {"idle"}, {"unlink"}) \/ UNCHANGED requests
  <2> DEFINE r == [Idle EXCEPT !.at = "unlink", !.row = connection.row]
  <2>1. r \in Going /\ r.at = "unlink"
    BY <1>1, <1>3 DEF Going, Request, Phase
  <2>2. At(q, "idle") /\ UNCHANGED files /\ (Go(q, r) \/ UNCHANGED requests)
    BY <1>6 DEF Disconnect
  <2> HIDE DEF r
  <2>3. QED
    BY <1>2, <2>1, <2>2, GoMoves DEF At
<1>7. ASSUME Unlink(q)
      PROVE  Moves(q, {"unlink"}, {"idle"})
  BY <1>1, <1>2, <1>7, GoMoves DEF Unlink, At, End
<1>8. QED
  BY <1>4, <1>5, <1>6, <1>7

\* The requests that change neither files nor rows.
LEMMA QuietMoves ==
  ASSUME TypeInv, NEW q \in Requests,
         \/ Upload(q) \/ Import(q) \/ NextUrl(q) \/ Abort(q) \/ Copy(q) \/ NextPhoto(q)
         \/ ReadPack(q) \/ FetchPack(q)
  PROVE  /\ Moves(q, Quiet, Quiet)
         /\ UNCHANGED <<connection, tokens, revoked, property, rows, files, loose>>
<1>1. UNCHANGED <<connection, tokens, revoked, property, rows, files, loose>>
  BY DEF Upload, Import, NextUrl, Abort, Copy, NextPhoto, ReadPack, FetchPack
<1>2. Idle \in Going /\ Idle \in Request /\ Idle.at = "idle" /\ requests[q] \in Going
  BY IdleTyped, Types
<1>3. Going' = Going
  BY <1>1, SameFiles
<1>4. connection.row \in Token /\ connection.token \in Token
  BY Types
<1>5. MaxUrls \in 0 .. MaxUrls /\ MaxUrls \in Nat /\ MaxUrls > 0
  BY CloudPhotosAssumption
<1>6. Moves(q, Quiet, {"idle", "next", "send"}) => Moves(q, Quiet, Quiet)
  BY DEF Moves, Quiet
<1>7. \A r \in Going : requests[q].at \in Quiet /\ r.at \in Quiet /\ Go(q, r) => Moves(q, Quiet, Quiet)
  BY <1>3, GoMoves
<1>8. ASSUME Upload(q)
      PROVE  Moves(q, Quiet, Quiet)
  <2> DEFINE r == [Idle EXCEPT !.token = connection.token]
  <2>1. r \in Request
    BY <1>2, <1>4 DEF Request
  <2>2. PICK c \in Contents : StoreBytes(q, r, c)
    BY <1>8 DEF Upload
  <2>3. At(q, "idle") /\ requests[q].at \in Quiet
    BY <1>8 DEF Upload, At, Quiet
  <2> HIDE DEF r
  <2>4. QED
    BY <1>1, <1>6, <2>1, <2>2, <2>3, StoreTyped
<1>9. ASSUME Import(q)
      PROVE  Moves(q, Quiet, Quiet)
  <2> DEFINE r == [Idle EXCEPT !.at = "next", !.todo = MaxUrls, !.token = connection.token]
  <2>1. r \in Going /\ r.at = "next"
    BY <1>2, <1>4, <1>5 DEF Going, Request, Phase
  <2>2. At(q, "idle") /\ Go(q, r)
    BY <1>9 DEF Import, Begin, Go
  <2> HIDE DEF r
  <2>3. QED
    BY <1>7, <2>1, <2>2 DEF At, Quiet
<1>10. ASSUME At(q, "next")
       PROVE  [requests[q] EXCEPT !.todo = @ - 1] \in Request /\ requests[q].at \in Quiet
  <2>1. requests[q].todo - 1 \in 0 .. MaxUrls
    BY <1>2, <1>5, <1>10 DEF Going, Request, At
  <2>2. QED
    BY <1>2, <1>10, <2>1 DEF Going, Request, At, Quiet
<1>11. ASSUME NextUrl(q)
      PROVE  Moves(q, Quiet, Quiet)
  <2> DEFINE r == [requests[q] EXCEPT !.todo = @ - 1]
  <2>1. At(q, "next")
    BY <1>11 DEF NextUrl
  <2>2. r \in Request /\ requests[q].at \in Quiet
    BY <1>10, <2>1
  <2>3. ASSUME Skip(q, r)
        PROVE  Moves(q, Quiet, Quiet)
    <3>1. [r EXCEPT !.expired = TRUE] \in Request
      BY <2>2 DEF Request
    <3>2. QED
      BY <1>7, <2>2, <2>3, <3>1, TurnTyped DEF Skip, Quiet
  <2>4. ASSUME Go(q, [Idle EXCEPT !.at = "expired"])
        PROVE  Moves(q, Quiet, Quiet)
    <3>1. [Idle EXCEPT !.at = "expired"] \in Going /\ [Idle EXCEPT !.at = "expired"].at = "expired"
      BY <1>2 DEF Going, Request, Phase
    <3>2. QED
      BY <1>7, <2>2, <2>4, <3>1 DEF Quiet
  <2>5. ASSUME \E c \in Contents : StoreBytes(q, r, c)
        PROVE  Moves(q, Quiet, Quiet)
    <3>1. PICK c \in Contents : StoreBytes(q, r, c)
      BY <2>5
    <3> HIDE DEF r
    <3>2. QED
      BY <1>1, <1>6, <2>1, <2>2, <3>1, StoreTyped
  <2>6. QED
    BY <1>11, <2>3, <2>4, <2>5 DEF NextUrl
<1>12. ASSUME Abort(q)
      PROVE  Moves(q, Quiet, Quiet)
  BY <1>2, <1>7, <1>12 DEF Abort, At, End, Quiet
<1>13. ASSUME Copy(q)
      PROVE  Moves(q, Quiet, Quiet)
  <2> DEFINE r == [Idle EXCEPT !.at = "next", !.copy = TRUE, !.todo = MaxUrls, !.known = Stored,
                     !.token = connection.token]
  <2>1. r \in Going /\ r.at = "next"
    BY <1>2, <1>4, <1>5, StoredTyped DEF Going, Request, Phase
  <2>2. At(q, "idle") /\ Go(q, r)
    BY <1>13 DEF Copy, Begin, Go
  <2> HIDE DEF r
  <2>3. QED
    BY <1>7, <2>1, <2>2 DEF At, Quiet
<1>14. ASSUME NextPhoto(q)
      PROVE  Moves(q, Quiet, Quiet)
  <2> DEFINE r == [requests[q] EXCEPT !.todo = @ - 1]
  <2>1. At(q, "next")
    BY <1>14 DEF NextPhoto
  <2>2. r \in Request /\ requests[q].at \in Quiet
    BY <1>10, <2>1
  <2>3. ASSUME Go(q, Turn(r))
        PROVE  Moves(q, Quiet, Quiet)
    BY <1>7, <2>2, <2>3, TurnTyped DEF Quiet
  <2>4. ASSUME NEW c \in Contents, Go(q, [r EXCEPT !.at = "send", !.content = c])
        PROVE  Moves(q, Quiet, Quiet)
    <3>1. /\ [r EXCEPT !.at = "send", !.content = c] \in Going
          /\ [r EXCEPT !.at = "send", !.content = c].at = "send"
      BY <2>2 DEF Going, Request, Phase
    <3>2. QED
      BY <1>7, <2>2, <2>4, <3>1 DEF Quiet
  <2>5. QED
    BY <1>14, <2>3, <2>4 DEF NextPhoto
<1>15. ASSUME ReadPack(q)
      PROVE  Moves(q, Quiet, Quiet)
  <2> DEFINE r == [Idle EXCEPT !.at = "fetch", !.key = Candidate, !.token = connection.token]
  <2>1. Candidate \in Seq(File)
    BY <1>15, CandidateListed DEF ReadPack
  <2>2. r \in Going /\ r.at = "fetch"
    BY <1>2, <1>4, <2>1 DEF Going, Request, Phase
  <2>3. At(q, "idle") /\ Go(q, r)
    BY <1>15 DEF ReadPack, Begin, Go
  <2> HIDE DEF r
  <2>4. QED
    BY <1>7, <2>2, <2>3 DEF At, Quiet
<1>16. ASSUME FetchPack(q)
      PROVE  Moves(q, Quiet, Quiet)
  BY <1>2, <1>7, <1>16 DEF FetchPack, At, End, Quiet
<1>17. QED
  BY <1>1, <1>8, <1>9, <1>11, <1>12, <1>13, <1>14, <1>15, <1>16

\* The files with one more, and with one of them trashed.
LEMMA CreatedFile ==
  ASSUME TypeInv, NEW q \in Requests, At(q, "send"), Create(q)
  PROVE  /\ files' \in Seq(FileRecord) /\ Len(files') = Len(files) + 1 /\ Len(files) <= Len(files')
         /\ File' = File \cup {Len(files) + 1} /\ Len(files) + 1 \notin File
         /\ \A f \in File : files'[f] = files[f]
         /\ ~ files'[Len(files) + 1].trashed
<1> DEFINE new == [content |-> requests[q].content, trashed |-> FALSE]
<1>1. new \in FileRecord /\ ~ new.trashed
  BY Types DEF At, Going, FileRecord
<1>2. files \in Seq(FileRecord) /\ Len(files) \in Nat /\ files' = Append(files, new)
  BY Types DEF TypeInv, TypeOK, Create
<1> HIDE DEF new
<1>3. /\ files' \in Seq(FileRecord) /\ Len(files') = Len(files) + 1
      /\ \A f \in 1 .. Len(files) : files'[f] = files[f]
      /\ files'[Len(files) + 1] = new
  BY <1>1, <1>2, AppendProperties
<1>4. 1 .. Len(files) + 1 = (1 .. Len(files)) \cup {Len(files) + 1} /\ Len(files) + 1 \notin 1 .. Len(files)
  BY <1>2
<1>5. Len(files) <= Len(files')
  BY <1>2, <1>3
<1>6. QED
  BY <1>1, <1>3, <1>4, <1>5 DEF File

LEMMA TrashedFile ==
  ASSUME TypeInv, NEW f
  PROVE  /\ Trashed(f) \in Seq(FileRecord) /\ Len(Trashed(f)) = Len(files)
         /\ \A g \in File : /\ g # f => Trashed(f)[g] = files[g]
                            /\ g = f => Trashed(f)[g].trashed
<1>1. files \in Seq(FileRecord) /\ Len(files) \in Nat /\ files \in [1 .. Len(files) -> FileRecord]
  BY LenProperties DEF TypeInv, TypeOK
<1>2. Trashed(f) \in [1 .. Len(files) -> FileRecord]
  BY <1>1 DEF Trashed, FileRecord
<1>3. Trashed(f) \in Seq(FileRecord) /\ Len(Trashed(f)) = Len(files)
  BY <1>1, <1>2, SeqDef, LenProperties
<1>4. \A g \in File : /\ g # f => Trashed(f)[g] = files[g]
                      /\ g = f => Trashed(f)[g].trashed
  BY <1>1 DEF Trashed, File, FileRecord
<1>5. QED
  BY <1>3, <1>4

\* A photo that is sent to Drive is not created, is created without an answer, or is
\* created and about to be listed.
LEMMA SendMoves ==
  ASSUME TypeInv, NEW q \in Requests, Send(q)
  PROVE  /\ UNCHANGED <<connection, tokens, revoked, property, rows, cache>>
         /\ \/ UNCHANGED <<files, loose>> /\ Moves(q, {"send"}, Quiet)
            \/ /\ Create(q) /\ Moves(q, {"send"}, Quiet)
               /\ loose' = loose \cup {<<"file", Len(files) + 1>>}
            \/ /\ Create(q) /\ Moves(q, {"send"}, {"commit"}) /\ UNCHANGED loose
               /\ requests'[q].file = Len(files) + 1
<1>1. /\ UNCHANGED <<connection, tokens, revoked, property, rows, cache>>
      /\ At(q, "send") /\ \E outcome \in Outcome(q) \cup FolderOutcome(q) : Sent(q, outcome)
  BY DEF Send
<1>2. PICK outcome \in {"rejected", "failed", "silent", "done", "lost"} : Sent(q, outcome)
  BY <1>1 DEF Outcome, FolderOutcome
<1>3. /\ requests[q] \in Going /\ requests[q] \in Request /\ requests \in [Requests -> Going]
      /\ requests[q].content \in Contents /\ requests[q].at = "send"
  BY <1>1, Types DEF Going, At, TypeInv
<1>4. Idle \in Going /\ Idle \in Request /\ Idle.at = "idle"
  BY IdleTyped
<1>5. ASSUME Go(q, IF requests[q].again THEN Turn(requests[q]) ELSE [requests[q] EXCEPT !.again = TRUE])
             \/ End(q) \/ Skip(q, requests[q])
      PROVE  \E r \in Going : r.at \in Quiet /\ Go(q, r)
  <2>1. Turn(requests[q]) \in Going /\ Turn(requests[q]).at \in Quiet
    BY <1>3, TurnTyped DEF Quiet
  <2>2. [requests[q] EXCEPT !.again = TRUE] \in Going /\ [requests[q] EXCEPT !.again = TRUE].at \in Quiet
    BY <1>3 DEF Going, Request, Quiet
  <2>3. Turn([requests[q] EXCEPT !.expired = TRUE]) \in Going /\ Turn([requests[q] EXCEPT !.expired = TRUE]).at \in Quiet
    <3>1. [requests[q] EXCEPT !.expired = TRUE] \in Request
      BY <1>3 DEF Request
    <3>2. QED
      BY <3>1, TurnTyped DEF Quiet
  <2>4. Idle \in Going /\ Idle.at \in Quiet
    BY <1>4 DEF Quiet
  <2>5. CASE End(q)
    BY <2>4, <2>5 DEF End
  <2>6. CASE Skip(q, requests[q])
    BY <2>3, <2>6 DEF Skip
  <2>7. CASE Go(q, IF requests[q].again THEN Turn(requests[q]) ELSE [requests[q] EXCEPT !.again = TRUE])
    <3>1. CASE requests[q].again
      BY <2>1, <2>7, <3>1
    <3>2. CASE ~ requests[q].again
      BY <2>2, <2>7, <3>2
    <3>3. QED
      BY <3>1, <3>2
  <2>8. QED
    BY <1>5, <2>5, <2>6, <2>7
<1>6. CASE outcome \in {"rejected", "failed", "silent"}
  <2>1. UNCHANGED <<files, loose>>
    BY <1>2, <1>6 DEF Sent
  <2>2. PICK r \in Going : r.at \in Quiet /\ Go(q, r)
    BY <1>2, <1>5, <1>6 DEF Sent
  <2>3. Moves(q, {"send"}, Quiet)
    BY <1>3, <2>1, <2>2, SameFiles, GoMoves
  <2>4. QED
    BY <1>1, <2>1, <2>3
<1>7. CASE outcome = "lost"
  <2>1. Create(q) /\ loose' = loose \cup {<<"file", Len(files) + 1>>}
    BY <1>2, <1>7 DEF Sent
  <2>2. PICK r \in Going : r.at \in Quiet /\ Go(q, r)
    BY <1>2, <1>5, <1>7 DEF Sent
  <2>3. Going \subseteq Going'
    BY <1>1, <2>1, CreatedFile, FilesGrow DEF TypeInv, TypeOK
  <2>4. Moves(q, {"send"}, Quiet)
    BY <1>3, <2>2, <2>3, GoMoves
  <2>5. QED
    BY <1>1, <2>1, <2>4
<1>8. CASE outcome = "done"
  <2> DEFINE r == [Kept(requests[q]) EXCEPT !.at = "commit", !.file = Len(files) + 1, !.again = FALSE]
  <2>1. Create(q) /\ UNCHANGED loose /\ Go(q, r)
    BY <1>2, <1>8 DEF Sent
  <2>2. Going \subseteq Going' /\ Len(files) + 1 \in 0 .. Len(files)' /\ Len(files) + 1 # 0
    <3>1. Len(files) \in Nat
      BY Types
    <3>2. QED
      BY <1>1, <2>1, <3>1, CreatedFile, FilesGrow DEF TypeInv, TypeOK
  <2>3. Kept(requests[q]) \in Going /\ Kept(requests[q]).content \in Contents
    <3>1. CASE requests[q].todo > 0
      BY <1>3, <3>1 DEF Kept
    <3>2. CASE ~ (requests[q].todo > 0)
      <4>1. Kept(requests[q]) = [Idle EXCEPT !.content = requests[q].content, !.copy = requests[q].copy]
        BY <3>2 DEF Kept
      <4>2. QED
        BY <1>3, <1>4, <4>1 DEF Going, Request
    <3>3. QED
      BY <3>1, <3>2
  <2>4. r \in Going' /\ r.at = "commit" /\ r.file = Len(files) + 1
    <3>1. Kept(requests[q]) \in Going' /\ Kept(requests[q]).content \in Contents
      BY <2>2, <2>3
    <3>2. QED
      BY <2>2, <3>1 DEF Going, Request, Phase
  <2> HIDE DEF r
  <2>5. Moves(q, {"send"}, {"commit"}) /\ requests'[q].file = Len(files) + 1
    BY <1>3, <2>1, <2>4 DEF Moves, Go
  <2>6. QED
    BY <1>1, <2>1, <2>5
<1>9. QED
  BY <1>2, <1>6, <1>7, <1>8

\* The requests that list a photo, and that take it from the list.
LEMMA ListMoves ==
  ASSUME TypeInv, NEW q \in Requests
  PROVE  /\ Commit(q) => Moves(q, {"commit"}, {"idle", "next"})
         /\ Delete(q) => Moves(q, {"idle"}, {"trash", "remove"})
         /\ Trash(q) => Moves(q, {"trash"}, {"idle", "remove"})
         /\ RemoveRow(q) => Moves(q, {"remove"}, {"idle"})
<1>1. Idle \in Going /\ Idle \in Request /\ Idle.at = "idle" /\ requests[q] \in Going
  BY IdleTyped, Types
<1>2. UNCHANGED files => Going \subseteq Going'
  BY SameFiles
<1>3. connection.row \in Token /\ connection.token \in Token
  BY Types
<1>4. ASSUME Commit(q)
      PROVE  Moves(q, {"commit"}, {"idle", "next"})
  <2> DEFINE r == [requests[q] EXCEPT
                     !.known = IF requests[q].copy THEN @ \cup {requests[q].content} ELSE @]
  <2>1. At(q, "commit") /\ UNCHANGED files /\ (End(q) \/ Go(q, Turn(r)))
    BY <1>4 DEF Commit, NextImage
  <2>2. r \in Request
    BY <1>1, <2>1 DEF Going, Request, At
  <2> HIDE DEF r
  <2>3. Turn(r) \in Going /\ Turn(r).at \in {"idle", "next"}
    BY <2>2, TurnTyped
  <2>4. QED
    BY <1>1, <1>2, <2>1, <2>3, GoMoves DEF At, End
<1>5. ASSUME Delete(q)
      PROVE  Moves(q, {"idle"}, {"trash", "remove"})
  <2>1. PICK f \in ToSet(rows) :
          Begin(q, [Idle EXCEPT !.file = f, !.token = connection.token,
                      !.at = IF connection = NotConnected THEN "remove" ELSE "trash"])
    BY <1>5 DEF Delete
  <2> DEFINE r == [Idle EXCEPT !.file = f, !.token = connection.token,
                     !.at = IF connection = NotConnected THEN "remove" ELSE "trash"]
  <2>2. f \in 0 .. Len(files) /\ f # 0
    BY Types DEF File
  <2>3. r \in Going /\ r.at \in {"trash", "remove"}
    <3>1. ASSUME NEW where \in {"trash", "remove"}
          PROVE  LET u == [Idle EXCEPT !.file = f, !.token = connection.token, !.at = where]
                 IN  u \in Request /\ u.at = where /\ u.file = f
      BY <1>1, <1>3, <2>2 DEF Request, Phase
    <3>2. ASSUME NEW u \in Request, u.at \in {"trash", "remove"}, u.file = f
          PROVE  u \in Going
      BY <2>2, <3>2 DEF Going
    <3>3. CASE connection = NotConnected
      BY <3>1, <3>2, <3>3
    <3>4. CASE connection # NotConnected
      BY <3>1, <3>2, <3>4
    <3>5. QED
      BY <3>3, <3>4
  <2>4. At(q, "idle") /\ Go(q, r) /\ UNCHANGED files
    BY <1>5, <2>1 DEF Begin, Go, Delete
  <2> HIDE DEF r
  <2>5. QED
    BY <1>2, <2>3, <2>4, GoMoves DEF At
<1>6. ASSUME Trash(q)
      PROVE  Moves(q, {"trash"}, {"idle", "remove"})
  <2> DEFINE r == Removal(requests[q].file)
  <2>1. At(q, "trash") /\ (End(q) \/ Go(q, r)) /\ (UNCHANGED files \/ files' = Trashed(requests[q].file))
    BY <1>6 DEF Trash
  <2>2. requests[q].file \in 0 .. Len(files) /\ requests[q].file # 0
    BY <1>1, <2>1 DEF Going, Request, At
  <2>3. r \in Going /\ r.at = "remove"
    BY <1>1, <2>2 DEF Going, Request, Phase, Removal
  <2>4. Going \subseteq Going'
    <3>1. CASE UNCHANGED files
      BY <1>2, <3>1
    <3>2. CASE files' = Trashed(requests[q].file)
      <4>1. files' \in Seq(FileRecord) /\ Len(files') = Len(files) /\ Len(files) \in Nat
        BY <3>2, TrashedFile, Types
      <4>2. QED
        BY <4>1, FilesGrow DEF TypeInv, TypeOK
    <3>3. QED
      BY <2>1, <3>1, <3>2
  <2> HIDE DEF r
  <2>5. QED
    BY <1>1, <2>1, <2>3, <2>4, GoMoves DEF At, End
<1>7. ASSUME RemoveRow(q)
      PROVE  Moves(q, {"remove"}, {"idle"})
  BY <1>1, <1>2, <1>7, GoMoves DEF RemoveRow, At, End
<1>8. QED
  BY <1>4, <1>5, <1>6, <1>7

-----------------------------------------------------------------------------
(* The cache of packs.                                                     *)

\* The photos at some places are photos that are shown.
LEMMA SelectedAreShown ==
  ASSUME NEW T, NEW shown \in Seq(T), NEW indices \in Seq(DOMAIN shown)
  PROVE  /\ Select(shown, indices) \in Seq(T)
         /\ Len(Select(shown, indices)) = Len(indices)
         /\ ToSet(Select(shown, indices)) \subseteq ToSet(shown)
<1> DEFINE s == Select(shown, indices)
<1>1. /\ Len(indices) \in Nat /\ DOMAIN indices = 1 .. Len(indices)
      /\ \A i \in 1 .. Len(indices) : indices[i] \in DOMAIN shown
      /\ \A j \in DOMAIN shown : shown[j] \in T
  BY LenProperties
<1>2. s = [i \in 1 .. Len(indices) |-> shown[indices[i]]]
  BY <1>1 DEF Select
<1> HIDE DEF s
<1>3. s \in [1 .. Len(indices) -> T]
  BY <1>1, <1>2
<1>4. s \in Seq(T) /\ Len(s) = Len(indices)
  <2>1. s \in Seq(T)
    BY <1>1, <1>3, SeqDef
  <2>2. Len(s) \in Nat /\ DOMAIN s = 1 .. Len(s)
    BY <2>1, LenProperties
  <2>3. DOMAIN s = 1 .. Len(indices) /\ Len(indices) \in Nat
    BY <1>1, <1>2
  <2>4. QED
    BY <2>1, <2>2, <2>3
<1>5. ToSet(s) \subseteq ToSet(shown)
  BY <1>1, <1>2 DEF ToSet
<1>6. QED
  BY <1>4, <1>5 DEF s

\* A pack of some photos has tiles and shows some of them.
LEMMA RenderedPack ==
  ASSUME TypeInv, NEW shown \in Seq(File), shown # <<>>
  PROVE  /\ Rendered(shown) \in Pack /\ Rendered(shown).tiles # <<>>
         /\ ToSet(Rendered(shown).tiles) \cup ToSet(Rendered(shown).photos) \subseteq ToSet(shown)
<1> DEFINE h == Hashes(shown)
           tiles == Select(shown, Tiles(h))
           photos == Select(shown, Branded(h))
<1>1. Len(shown) \in Nat \ {0} /\ DOMAIN shown = 1 .. Len(shown) /\ \A i \in DOMAIN shown : shown[i] \in File
  BY EmptySeq, LenProperties
<1>2. \A f \in File : dhash[files[f].content] \in Hash
  BY Types, CloudPhotosAssumption DEF FileRecord
<1>3. h \in [1 .. Len(shown) -> Hash] /\ DOMAIN h = DOMAIN shown
  BY <1>1, <1>2 DEF Hashes
<1> HIDE DEF h
<1>4. h \in Seq(Hash) /\ h # <<>>
  <2>1. h \in Seq(Hash) /\ Len(h) = Len(shown)
    BY <1>1, <1>3, SeqDef, LenProperties
  <2>2. QED
    BY <1>1, <2>1, EmptySeq
<1>5. Tiles(h) \in Seq(DOMAIN shown) /\ Tiles(h) # <<>> /\ Branded(h) \in Seq(DOMAIN shown)
  BY <1>3, <1>4, TilesAreFull, BrandedAreListed
<1>6. /\ tiles \in Seq(File) /\ photos \in Seq(File) /\ Len(tiles) = Len(Tiles(h))
      /\ ToSet(tiles) \cup ToSet(photos) \subseteq ToSet(shown)
  BY <1>5, SelectedAreShown
<1>7. Len(Tiles(h)) # 0
  BY <1>5, EmptySeq
<1>8. tiles # <<>>
  BY <1>6, <1>7, EmptySeq
<1>9. Rendered(shown) = [tiles |-> tiles, photos |-> photos]
  BY DEF Rendered, h
<1> HIDE DEF tiles, photos
<1>10. QED
  BY <1>6, <1>8, <1>9 DEF Pack

\* A cached pack has tiles, and shows photos of its key only.
Shows(entry) ==
  /\ entry.pack.tiles # <<>>
  /\ ToSet(entry.pack.tiles) \cup ToSet(entry.pack.photos) \subseteq entry.key
PacksInv == \A entry \in ToSet(cache) : Shows(entry)

\* An entry that is put in the cache takes the place of another of its key and, in
\* a full cache, of the oldest.
LEMMA CachePutEntries ==
  ASSUME TypeInv, NEW key \in SUBSET File, NEW pack \in Pack, CachePut(key, pack)
  PROVE  /\ cache' \in Seq(Entry) /\ Len(cache') <= PACK_CACHE_MAX
         /\ ToSet(cache') \subseteq ToSet(cache) \cup {[key |-> key, pack |-> pack]}
<1> DEFINE room == IF Len(cache) >= PACK_CACHE_MAX THEN Tail(cache) ELSE cache
           entry == [key |-> key, pack |-> pack]
           left == Only(room, OtherEntries(key))
<1>1. cache \in Seq(Entry) /\ Len(cache) \in Nat /\ Len(cache) <= PACK_CACHE_MAX /\ PACK_CACHE_MAX \in Nat \ {0}
  BY LenProperties, CloudPhotosAssumption DEF TypeInv, TypeOK
<1>2. room \in Seq(Entry) /\ Len(room) \in Nat /\ Len(room) + 1 <= PACK_CACHE_MAX
  <2>1. CASE Len(cache) >= PACK_CACHE_MAX
    <3>1. cache # <<>>
      BY <1>1, <2>1, EmptySeq
    <3>2. Tail(cache) \in Seq(Entry) /\ Len(Tail(cache)) = Len(cache) - 1
      BY <1>1, <3>1, HeadTailProperties
    <3>3. room = Tail(cache)
      BY <2>1
    <3> HIDE DEF room
    <3>4. QED
      BY <1>1, <2>1, <3>2, <3>3
  <2>2. CASE ~ (Len(cache) >= PACK_CACHE_MAX)
    <3>1. room = cache
      BY <2>2
    <3> HIDE DEF room
    <3>2. QED
      BY <1>1, <2>2, <3>1
  <2>3. QED
    BY <2>1, <2>2
<1> HIDE DEF room
<1>3. /\ left \in Seq(Entry) /\ Len(left) <= Len(room)
      /\ ToSet(left) = ToSet(room) \cap OtherEntries(key)
  BY <1>2, OnlyElements
<1>4. entry \in Entry
  BY DEF Entry
<1>5. cache' = Append(left, entry)
  BY DEF CachePut, room
<1> HIDE DEF left, entry
<1>6. /\ cache' \in Seq(Entry) /\ Len(cache') = Len(left) + 1
      /\ ToSet(cache') = ToSet(left) \cup {entry}
  BY <1>3, <1>4, <1>5, AppendElements
<1>7. ToSet(left) \subseteq ToSet(cache)
  BY <1>3 DEF OtherEntries
<1>8. Len(cache') <= PACK_CACHE_MAX
  <2>1. Len(left) \in Nat
    BY <1>3, LenProperties
  <2>2. QED
    BY <1>1, <1>2, <1>3, <1>6, <2>1
<1>9. QED
  BY <1>6, <1>7, <1>8 DEF entry

\* What a request for a pack does to the cache.
LEMMA PackEntries ==
  ASSUME TypeInv, NEW q \in Requests, ReadPack(q) \/ FetchPack(q)
  PROVE  /\ cache' \in Seq(Entry) /\ Len(cache') <= PACK_CACHE_MAX
         /\ \A entry \in ToSet(cache') : entry \in ToSet(cache) \/ Shows(entry)
<1>1. cache \in Seq(Entry) /\ Len(cache) \in Nat /\ Len(cache) <= PACK_CACHE_MAX /\ PACK_CACHE_MAX \in Nat
  BY LenProperties, CloudPhotosAssumption DEF TypeInv, TypeOK
<1>2. CASE ReadPack(q)
  <2>1. cache' = Only(cache, OtherEntries(Key(Candidate)))
    BY <1>2 DEF ReadPack
  <2>2. cache' \in Seq(Entry) /\ Len(cache') <= Len(cache) /\ ToSet(cache') \subseteq ToSet(cache)
    BY <1>1, <2>1, OnlyElements
  <2>3. Len(cache') \in Nat
    BY <2>2, LenProperties
  <2>4. QED
    BY <1>1, <2>2, <2>3
<1>3. CASE FetchPack(q)
  <2> DEFINE key == requests[q].key
  <2>1. CASE UNCHANGED cache
    BY <1>1, <2>1
  <2>2. CASE ~ UNCHANGED cache
    <3>1. PICK got \in Downloads(q, ToSet(key)) :
            got # {} /\ CachePut(Key(key), Rendered(Only(key, got)))
      BY <1>3, <2>2 DEF FetchPack
    <3>2. key \in Seq(File) /\ ToSet(key) \subseteq File
      <4>1. key \in Seq(File)
        BY Types DEF Request
      <4>2. QED
        BY <4>1, Elements
    <3> DEFINE shown == Only(key, got)
               pack == Rendered(shown)
    <3>3. got \subseteq ToSet(key)
      BY <3>1 DEF Downloads
    <3>4. shown \in Seq(File) /\ ToSet(shown) = got
      <4>1. shown \in Seq(File) /\ ToSet(shown) = ToSet(key) \cap got
        <5> HIDE DEF key
        <5>1. QED
          BY <3>2, OnlyElements
      <4>2. QED
        BY <3>3, <4>1
    <3> HIDE DEF shown
    <3>5. shown # <<>>
      BY <3>1, <3>4, Elements
    <3>6. pack \in Pack /\ pack.tiles # <<>> /\ ToSet(pack.tiles) \cup ToSet(pack.photos) \subseteq got
      BY <3>4, <3>5, RenderedPack
    <3>7. CachePut(ToSet(key), pack)
      BY <3>1 DEF Key, shown
    <3> HIDE DEF pack
    <3>8. /\ cache' \in Seq(Entry) /\ Len(cache') <= PACK_CACHE_MAX
          /\ ToSet(cache') \subseteq ToSet(cache) \cup {[key |-> ToSet(key), pack |-> pack]}
      BY <3>2, <3>6, <3>7, CachePutEntries
    <3>9. Shows([key |-> ToSet(key), pack |-> pack])
      BY <3>3, <3>6 DEF Shows
    <3>10. QED
      BY <3>8, <3>9
  <2>3. QED
    BY <2>1, <2>2
<1>4. QED
  BY <1>2, <1>3

-----------------------------------------------------------------------------
(* The types are kept.                                                     *)

\* The types after a step, from those of the parts it changed.
LEMMA TypesAfter ==
  ASSUME connection' \in Connection, tokens' \in Token, revoked' \subseteq Token, property' \in BOOLEAN,
         rows' \in Seq(File)', files' \in Seq(FileRecord),
         cache' \in Seq(Entry)', Len(cache') <= PACK_CACHE_MAX,
         requests' \in [Requests -> Going]', loose' \subseteq {"file", "token"} \X Nat
  PROVE  TypeInv'
<1>1. [Requests -> Going]' \subseteq [Requests -> Request]'
  BY DEF Going
<1>2. TypeOK'
  BY <1>1 DEF TypeOK, Connection, Token, FileRecord
<1>3. QED
  BY <1>2 DEF TypeInv

\* The photos start with their types.
LEMMA TypesAtStart == Init => TypeInv
<1>1. ASSUME Init
      PROVE  TypeInv
  <2>1. 0 \in Token /\ 1 \in Token /\ 0 \in 0 .. MaxUrls
    BY CloudPhotosAssumption DEF Token
  <2>2. <<>> \in Seq(File) /\ <<>> \in Seq(FileRecord) /\ <<>> \in Seq(Entry) /\ Len(<<>>) = 0
    BY EmptySeq
  <2>3. Idle \in Going
    <3>1. 0 \in 0 .. Len(files)
      BY <1>1, <2>2 DEF Init
    <3>2. QED
      BY <2>1, <2>2, <3>1 DEF Idle, Going, Request, Phase
  <2>4. requests \in [Requests -> Going] /\ requests \in [Requests -> Request]
    BY <1>1, <2>3 DEF Init, Going
  <2>5. connection \in Connection /\ tokens \in Token /\ revoked \subseteq Token /\ property \in BOOLEAN
    BY <1>1, <2>1 DEF Init, Connection
  <2>6. /\ rows \in Seq(File) /\ files \in Seq(FileRecord) /\ cache \in Seq(Entry)
        /\ Len(cache) <= PACK_CACHE_MAX /\ loose \subseteq {"file", "token"} \X Nat
    BY <1>1, <2>2, CloudPhotosAssumption DEF Init
  <2>7. QED
    BY <2>4, <2>5, <2>6 DEF TypeInv, TypeOK
<1>2. QED
  BY <1>1

\* A process that stops, the server or the script, ends some requests, and keeps in
\* loose what they had in their hands.
LEMMA Stops ==
  ASSUME Crash \/ ScriptStops
  PROVE  /\ UNCHANGED <<connection, tokens, revoked, property, rows, files>>
         /\ cache' = <<>> \/ cache' = cache
         /\ \E stopped \in SUBSET Requests :
              /\ requests' = [q \in Requests |-> IF q \in stopped THEN Idle ELSE requests[q]]
              /\ loose' = loose \cup { <<"file", requests[q].file>> : q \in { p \in stopped : requests[p].at \in {"commit", "remove"} } }
                           \cup { <<"token", t>> : t \in IF \E q \in stopped : At(q, "unlink") THEN revoked ELSE {} }
<1>1. PICK stopped \in SUBSET Requests : StopOf(stopped)
  BY DEF Crash, ScriptStops, Script
<1>2. cache' = <<>> \/ cache' = cache
  BY DEF Crash, ScriptStops
<1>3. QED
  BY <1>1, <1>2 DEF StopOf

\* Every step keeps them.
LEMMA TypesKept == TypeInv /\ [Next]_vars => TypeInv'
<1> SUFFICES ASSUME TypeInv, [Next]_vars
             PROVE  TypeInv'
  OBVIOUS
<1>1. /\ connection \in Connection /\ tokens \in Token /\ revoked \subseteq Token /\ property \in BOOLEAN
      /\ rows \in Seq(File) /\ files \in Seq(FileRecord) /\ cache \in Seq(Entry)
      /\ Len(cache) <= PACK_CACHE_MAX /\ loose \subseteq {"file", "token"} \X Nat
      /\ requests \in [Requests -> Going]
  BY DEF TypeInv, TypeOK
<1>2. /\ Len(files) \in Nat /\ 0 \in Token /\ tokens \in Nat /\ ToSet(rows) \subseteq File
      /\ File \subseteq Nat /\ Token \subseteq Nat
      /\ connection.row \in Token /\ connection.token \in Token
      /\ connection = [row |-> connection.row, token |-> connection.token]
      /\ \A q \in Requests : requests[q].file \in Nat /\ requests[q].row \in Token /\ requests[q].token \in Token
  BY Types DEF Request, Token
<1>3. UNCHANGED files => rows \in Seq(File)' /\ cache \in Seq(Entry)' /\ Going' = Going /\ Seq(Entry) \subseteq Seq(Entry)'
  BY <1>1, SameFiles, FilesGrow
<1>4. ASSUME NEW q \in Requests, NEW From, NEW To, Moves(q, From, To),
             files' \in Seq(FileRecord), Len(files) <= Len(files')
      PROVE  requests' \in [Requests -> Going]' /\ cache \in Seq(Entry)' /\ rows \in Seq(File)'
  BY <1>4, MovesOne
<1>5. files \in Seq(FileRecord) /\ Len(files) <= Len(files)
  BY <1>1, <1>2
<1>6. CASE UNCHANGED vars
  BY <1>1, <1>3, <1>6, TypesAfter DEF vars
<1>7. ASSUME NEW q \in Requests, Login(q)
      PROVE  TypeInv'
  <2>1. Granted \in Token
    BY <1>2, <1>7, CloudPhotosAssumption DEF Login, Granted, Token
  <2>2. /\ tokens' \in Token
        /\ UNCHANGED <<connection, revoked, property, rows, files, cache, loose>>
    BY <1>7, <2>1 DEF Login
  <2>3. Moves(q, {"idle"}, {"connect"})
    BY <1>7, ConnectionMoves
  <2>4. requests' \in [Requests -> Going]' /\ cache \in Seq(Entry)' /\ rows \in Seq(File)'
    BY <1>4, <1>5, <2>2, <2>3
  <2>5. QED
    BY <1>1, <2>2, <2>4, TypesAfter
<1>8. ASSUME NEW q \in Requests, Connect(q)
      PROVE  TypeInv'
  <2>1. connection' \in Connection
    BY <1>1, <1>2, <1>8 DEF Connect, Connection
  <2>2. UNCHANGED <<tokens, revoked, property, rows, files, cache, loose>>
    BY <1>8 DEF Connect
  <2>3. Moves(q, {"connect"}, {"idle"})
    BY <1>8, ConnectionMoves
  <2>4. requests' \in [Requests -> Going]' /\ cache \in Seq(Entry)' /\ rows \in Seq(File)'
    BY <1>4, <1>5, <2>2, <2>3
  <2>5. QED
    BY <1>1, <2>1, <2>2, <2>4, TypesAfter
<1>9. ASSUME NEW q \in Requests, Disconnect(q)
      PROVE  TypeInv'
  <2>1. revoked' \subseteq Token /\ loose' \subseteq {"file", "token"} \X Nat
    BY <1>1, <1>2, <1>9 DEF Disconnect, Revoked
  <2>2. UNCHANGED <<connection, tokens, property, rows, files, cache>>
    BY <1>9 DEF Disconnect
  <2>3. Moves(q, {"idle"}, {"unlink"}) \/ UNCHANGED requests
    BY <1>9, ConnectionMoves
  <2>4. requests' \in [Requests -> Going]' /\ cache \in Seq(Entry)' /\ rows \in Seq(File)'
    BY <1>1, <1>3, <1>4, <1>5, <2>2, <2>3
  <2>5. QED
    BY <1>1, <2>1, <2>2, <2>4, TypesAfter
<1>10. ASSUME NEW q \in Requests, Unlink(q)
       PROVE  TypeInv'
  <2>1. connection' \in Connection
    BY <1>1, <1>2, <1>10 DEF Unlink, Unlinked, NotConnected, Connection
  <2>2. UNCHANGED <<tokens, revoked, property, rows, files, cache, loose>>
    BY <1>10 DEF Unlink
  <2>3. Moves(q, {"unlink"}, {"idle"})
    BY <1>10, ConnectionMoves
  <2>4. requests' \in [Requests -> Going]' /\ cache \in Seq(Entry)' /\ rows \in Seq(File)'
    BY <1>4, <1>5, <2>2, <2>3
  <2>5. QED
    BY <1>1, <2>1, <2>2, <2>4, TypesAfter
<1>11. ASSUME NEW q \in Requests,
              \/ Upload(q) \/ Import(q) \/ NextUrl(q) \/ Abort(q) \/ Copy(q) \/ NextPhoto(q)
              \/ ReadPack(q) \/ FetchPack(q)
       PROVE  TypeInv'
  <2>1. /\ Moves(q, Quiet, Quiet)
        /\ UNCHANGED <<connection, tokens, revoked, property, rows, files, loose>>
    BY <1>11, QuietMoves
  <2>2. requests' \in [Requests -> Going]' /\ cache \in Seq(Entry)' /\ rows \in Seq(File)'
    BY <1>4, <1>5, <2>1
  <2>3. cache' \in Seq(Entry)' /\ Len(cache') <= PACK_CACHE_MAX
    <3>1. CASE ReadPack(q) \/ FetchPack(q)
      BY <1>3, <2>1, <3>1, PackEntries
    <3>2. CASE UNCHANGED cache
      BY <1>1, <2>2, <3>2
    <3>3. QED
      BY <1>11, <3>1, <3>2 DEF Upload, Import, NextUrl, Abort, Copy, NextPhoto
  <2>4. QED
    BY <1>1, <2>1, <2>2, <2>3, TypesAfter
<1>12. ASSUME NEW q \in Requests, Send(q)
       PROVE  TypeInv'
  <2>1. UNCHANGED <<connection, tokens, revoked, property, rows, cache>>
    BY <1>12, SendMoves
  <2>2. files' \in Seq(FileRecord) /\ Len(files) <= Len(files')
    <3>1. UNCHANGED files \/ Create(q)
      BY <1>12, SendMoves
    <3>2. At(q, "send")
      BY <1>12 DEF Send
    <3>3. QED
      BY <1>5, <3>1, <3>2, CreatedFile
  <2>3. Moves(q, {"send"}, Quiet) \/ Moves(q, {"send"}, {"commit"})
    BY <1>12, SendMoves
  <2>4. requests' \in [Requests -> Going]' /\ cache \in Seq(Entry)' /\ rows \in Seq(File)'
    BY <1>4, <2>2, <2>3
  <2>5. loose' \subseteq {"file", "token"} \X Nat
    <3>1. loose' = loose \/ loose' = loose \cup {<<"file", Len(files) + 1>>}
      BY <1>12, SendMoves
    <3>2. QED
      BY <1>1, <1>2, <3>1
  <2>6. QED
    BY <1>1, <2>1, <2>2, <2>4, <2>5, TypesAfter
<1>13. ASSUME NEW q \in Requests, Commit(q)
       PROVE  TypeInv'
  <2>1. UNCHANGED <<connection, tokens, revoked, property, files, cache>>
    BY <1>13 DEF Commit
  <2>2. Moves(q, {"commit"}, {"idle", "next"})
    BY <1>13, ListMoves
  <2>3. requests' \in [Requests -> Going]' /\ cache \in Seq(Entry)' /\ rows \in Seq(File)'
    BY <1>4, <1>5, <2>1, <2>2
  <2>4. loose' \subseteq {"file", "token"} \X Nat
    BY <1>1, <1>2, <1>13 DEF Commit
  <2>5. rows' \in Seq(File)'
    <3>1. requests[q].file \in File
      BY <1>13, Types DEF Commit, At, Going, Request, File
    <3>2. Append(rows, requests[q].file) \in Seq(File)
      BY <1>1, <3>1, AppendElements
    <3>3. rows' \in Seq(File)
      BY <1>1, <1>13, <3>2 DEF Commit
    <3>4. QED
      BY <2>1, <3>3, SameFiles
  <2>6. QED
    BY <1>1, <2>1, <2>3, <2>4, <2>5, TypesAfter
<1>14. ASSUME NEW q \in Requests, Delete(q)
       PROVE  TypeInv'
  <2>1. UNCHANGED <<connection, tokens, revoked, property, rows, files, cache>>
    BY <1>14 DEF Delete
  <2>2. Moves(q, {"idle"}, {"trash", "remove"})
    BY <1>14, ListMoves
  <2>3. requests' \in [Requests -> Going]' /\ cache \in Seq(Entry)' /\ rows \in Seq(File)'
    BY <1>4, <1>5, <2>1, <2>2
  <2>4. loose' \subseteq {"file", "token"} \X Nat
    BY <1>1, <1>2, <1>14 DEF Delete
  <2>5. QED
    BY <1>1, <2>1, <2>3, <2>4, TypesAfter
<1>15. ASSUME NEW q \in Requests, Trash(q)
       PROVE  TypeInv'
  <2>1. UNCHANGED <<connection, tokens, revoked, property, rows, cache>>
    BY <1>15 DEF Trash
  <2>2. files' \in Seq(FileRecord) /\ Len(files) <= Len(files')
    <3>1. UNCHANGED files \/ files' = Trashed(requests[q].file)
      BY <1>15 DEF Trash
    <3>2. QED
      BY <1>2, <1>5, <3>1, TrashedFile
  <2>3. Moves(q, {"trash"}, {"idle", "remove"})
    BY <1>15, ListMoves
  <2>4. requests' \in [Requests -> Going]' /\ cache \in Seq(Entry)' /\ rows \in Seq(File)'
    BY <1>4, <2>2, <2>3
  <2>5. loose' \subseteq {"file", "token"} \X Nat
    BY <1>1, <1>2, <1>15 DEF Trash
  <2>6. QED
    BY <1>1, <2>1, <2>2, <2>4, <2>5, TypesAfter
<1>16. ASSUME NEW q \in Requests, RemoveRow(q)
       PROVE  TypeInv'
  <2>1. UNCHANGED <<connection, tokens, revoked, property, files, cache, loose>>
    BY <1>16 DEF RemoveRow
  <2>2. Moves(q, {"remove"}, {"idle"})
    BY <1>16, ListMoves
  <2>3. requests' \in [Requests -> Going]' /\ cache \in Seq(Entry)'
    BY <1>4, <1>5, <2>1, <2>2
  <2>4. rows' \in Seq(File)'
    <3>1. rows' \in Seq(File)
      BY <1>1, <1>16, OnlyElements DEF RemoveRow
    <3>2. QED
      BY <2>1, <3>1, SameFiles
  <2>5. QED
    BY <1>1, <2>1, <2>3, <2>4, TypesAfter
<1>17. ASSUME DeleteProperty
       PROVE  TypeInv'
  <2>1. UNCHANGED <<connection, tokens, revoked, files, cache, requests>> /\ property' \in BOOLEAN
    BY <1>17 DEF DeleteProperty
  <2>2. rows' \in Seq(File)'
    BY <1>17, EmptySeq DEF DeleteProperty
  <2>3. loose' \subseteq {"file", "token"} \X Nat
    BY <1>1, <1>2, <1>17 DEF DeleteProperty
  <2>4. requests' \in [Requests -> Going]' /\ cache' \in Seq(Entry)'
    BY <1>1, <1>3, <2>1
  <2>5. QED
    BY <1>1, <2>1, <2>2, <2>3, <2>4, TypesAfter
<1>18. ASSUME Crash \/ ScriptStops
       PROVE  TypeInv'
  <2>1. UNCHANGED <<connection, tokens, revoked, property, rows, files>>
    BY <1>18, Stops
  <2>2. cache' \in Seq(Entry)' /\ Len(cache') <= PACK_CACHE_MAX
    <3>1. CASE cache' = <<>>
      BY <3>1, EmptySeq, CloudPhotosAssumption
    <3>2. CASE cache' = cache
      BY <1>1, <1>3, <2>1, <3>2
    <3>3. QED
      BY <1>18, <3>1, <3>2, Stops
  <2>3. PICK stopped \in SUBSET Requests :
          /\ requests' = [q \in Requests |-> IF q \in stopped THEN Idle ELSE requests[q]]
          /\ loose' = loose \cup { <<"file", requests[q].file>> : q \in { p \in stopped : requests[p].at \in {"commit", "remove"} } }
                       \cup { <<"token", t>> : t \in IF \E q \in stopped : At(q, "unlink") THEN revoked ELSE {} }
    BY <1>18, Stops
  <2>4. requests' \in [Requests -> Going]'
    BY <1>1, <1>3, <2>1, <2>3, IdleTyped
  <2>5. loose' \subseteq {"file", "token"} \X Nat
    BY <1>1, <1>2, <2>3
  <2>6. QED
    BY <1>1, <1>3, <2>1, <2>2, <2>4, <2>5, TypesAfter
<1>19. QED
  BY <1>6, <1>7, <1>8, <1>9, <1>10, <1>11, <1>12, <1>13, <1>14, <1>15, <1>16, <1>17, <1>18 DEF Next

\* The photos of cloud_routes.py keep their types: every row and every entry of the
\* cache names files that were created, and the cache holds no more packs than it may.
THEOREM PhotosTypeCorrect == Spec => []TypeOK
<1>1. Init => TypeInv
  BY TypesAtStart
<1>2. TypeInv /\ [Next]_vars => TypeInv'
  BY TypesKept
<1>3. TypeInv => TypeOK
  BY DEF TypeInv
<1>4. QED
  BY <1>1, <1>2, <1>3, PTL DEF Spec

-----------------------------------------------------------------------------
(* The packs.                                                              *)

\* collage_service.py:44: at any time the pack that the cache holds for the photos of
\* now, the candidates of _candidate_photos, has a tile at least, and shows no photo
\* that is not in the list any more, whatever was deleted while it was made.
THEOREM PacksShowListed == Spec => []PackShowsListed
<1>1. Init => TypeInv /\ PacksInv
  <2>1. ASSUME Init
        PROVE  ToSet(cache) = {}
    <3>1. cache = <<>> /\ <<>> \in Seq(Nat)
      BY <2>1, EmptySeq DEF Init
    <3>2. QED
      BY <3>1, Elements
  <2>2. QED
    BY <2>1, TypesAtStart DEF PacksInv
<1>2. TypeInv /\ PacksInv /\ [Next]_vars => (TypeInv /\ PacksInv)'
  <2> SUFFICES ASSUME TypeInv, PacksInv, [Next]_vars
               PROVE  PacksInv'
    BY TypesKept
  <2>1. CASE UNCHANGED cache
    BY <2>1 DEF PacksInv, Shows
  <2>2. ASSUME NEW q \in Requests, ReadPack(q) \/ FetchPack(q)
        PROVE  PacksInv'
    BY <2>2, PackEntries DEF PacksInv, Shows
  <2>3. ASSUME Crash \/ ScriptStops
        PROVE  PacksInv'
    <3>1. CASE cache' = <<>>
      <4>1. <<>> \in Seq(Nat)
        BY EmptySeq
      <4>2. ToSet(cache') = {}
        BY <3>1, <4>1, Elements
      <4>3. QED
        BY <4>2 DEF PacksInv
    <3>2. QED
      BY <2>1, <2>3, <3>1, Stops
  <2>4. ASSUME NEW q \in Requests, Send(q)
        PROVE  UNCHANGED cache
    BY <2>4 DEF Send
  <2>5. ASSUME NEW q \in Requests,
               \/ Login(q) \/ Connect(q) \/ Disconnect(q) \/ Unlink(q)
               \/ Upload(q) \/ Import(q) \/ NextUrl(q) \/ Abort(q) \/ Commit(q)
               \/ Copy(q) \/ NextPhoto(q) \/ Delete(q) \/ Trash(q) \/ RemoveRow(q)
        PROVE  UNCHANGED cache
    BY <2>5 DEF Login, Connect, Disconnect, Unlink, Upload, Import, NextUrl, Abort, Commit, Copy,
                NextPhoto, Delete, Trash, RemoveRow
  <2>6. QED
    BY <2>1, <2>2, <2>3, <2>4, <2>5 DEF Next, vars, DeleteProperty
<1>3. TypeInv /\ PacksInv => PackShowsListed
  <2> SUFFICES ASSUME TypeInv, PacksInv, rows # <<>>,
                      NEW i \in DOMAIN cache, cache[i].key = Key(Candidate)
               PROVE  /\ cache[i].pack.tiles # <<>>
                      /\ ToSet(cache[i].pack.tiles) \cup ToSet(cache[i].pack.photos) \subseteq ToSet(rows)
    BY DEF PackShowsListed
  <2>1. Shows(cache[i])
    BY DEF PacksInv, ToSet
  <2>2. Key(Candidate) \subseteq ToSet(rows)
    BY CandidateListed DEF Key
  <2>3. QED
    BY <2>1, <2>2 DEF Shows
<1>4. QED
  BY <1>1, <1>2, <1>3, PTL DEF Spec

-----------------------------------------------------------------------------
(* The tokens.                                                             *)

\* A token that is about to be stored was granted, is not revoked, and is neither
\* another request's nor the stored one.
Fresh(q) ==
  /\ requests[q].token \in 1 .. tokens /\ requests[q].token \notin revoked
  /\ requests[q].token # connection.token
  /\ \A p \in Requests : p # q /\ At(p, "connect") => requests[p].token # requests[q].token

\* The stored token is one of those that were granted, and so are the revoked ones.
TokensInv ==
  /\ connection.token \in 0 .. tokens /\ revoked \subseteq 1 .. tokens
  /\ connection.token = 0 => connection = NotConnected
  /\ \A q \in Requests : At(q, "connect") => Fresh(q)
  /\ TokenWorks

\* The phases that are not about the connection.
Elsewhere == Phase \ {"connect", "unlink"}

\* Requests that are about photos leave the tokens as they are.
LEMMA TokensLeft ==
  ASSUME TypeInv, TokensInv, UNCHANGED <<connection, tokens, revoked>>, loose \subseteq loose',
         NEW q \in Requests, requests[q].at \in Elsewhere, requests'[q].at \in Elsewhere,
         \A p \in Requests : p # q => requests'[p] = requests[p]
  PROVE  TokensInv'
<1>1. \A p \in Requests : /\ At(p, "connect")' => p # q /\ At(p, "connect")
                          /\ At(p, "unlink") => p # q /\ At(p, "unlink")'
  BY DEF At, Elsewhere
<1>2. ASSUME NEW p \in Requests, At(p, "connect")'
      PROVE  Fresh(p)'
  <2>1. p # q /\ At(p, "connect") /\ Fresh(p) /\ requests'[p] = requests[p]
    BY <1>1, <1>2 DEF TokensInv
  <2>2. QED
    BY <1>1, <2>1 DEF Fresh
<1>3. TokenWorks'
  BY <1>1 DEF TokensInv, TokenWorks
<1>4. QED
  BY <1>2, <1>3 DEF TokensInv

\* Every step keeps the invariant of the tokens.
LEMMA TokensKept == TypeInv /\ TokensInv /\ [Next]_vars => TokensInv'
<1> SUFFICES ASSUME TypeInv, TokensInv, [Next]_vars
             PROVE  TokensInv'
  OBVIOUS
<1>1. /\ tokens \in Nat /\ connection = [row |-> connection.row, token |-> connection.token]
      /\ requests \in [Requests -> Going]
  BY Types DEF TypeInv
<1>2. files \in Seq(FileRecord) /\ Len(files) <= Len(files) /\ Len(files) \in Nat
  BY Types DEF TypeInv, TypeOK
<1>3. ASSUME NEW q \in Requests, NEW From, NEW To, Moves(q, From, To),
             files' \in Seq(FileRecord), Len(files) <= Len(files')
      PROVE  requests[q].at \in From /\ requests'[q].at \in To /\ \A p \in Requests : p # q => requests'[p] = requests[p]
  BY <1>3, MovesOne DEF Moves
<1>4. CASE UNCHANGED vars
  BY <1>4 DEF vars, TokensInv, Fresh, TokenWorks, At
<1>5. ASSUME NEW q \in Requests, Login(q)
      PROVE  TokensInv'
  <2>1. /\ tokens' = tokens + 1 /\ UNCHANGED <<connection, revoked, files, loose>>
        /\ requests[q].at = "idle" /\ requests'[q].at = "connect" /\ requests'[q].token = tokens + 1
        /\ \A p \in Requests : p # q => requests'[p] = requests[p]
    BY <1>1, <1>5 DEF Login, Begin, At, Granted, Going, Request, Idle
  <2>2. /\ connection.token \in 0 .. tokens /\ revoked \subseteq 1 .. tokens
        /\ tokens + 1 \notin revoked /\ tokens + 1 # connection.token
    BY <1>1 DEF TokensInv
  <2>3. \A p \in Requests : p # q /\ At(p, "connect")' => At(p, "connect")
    BY <2>1 DEF At
  <2>4. ASSUME NEW p \in Requests, At(p, "connect")'
        PROVE  Fresh(p)'
    <3>1. CASE p = q
      <4>1. \A o \in Requests : o # q /\ At(o, "connect")' => requests'[o].token # tokens + 1
        BY <1>1, <2>1, <2>3 DEF TokensInv, Fresh
      <4>2. tokens + 1 \in 1 .. tokens'
        BY <1>1, <2>1
      <4>3. QED
        BY <2>1, <2>2, <3>1, <4>1, <4>2 DEF Fresh
    <3>2. CASE p # q
      <4>1. Fresh(p) /\ requests'[p] = requests[p] /\ requests[p].token \in 1 .. tokens
        BY <2>1, <2>3, <2>4, <3>2 DEF TokensInv, Fresh
      <4>2. requests[p].token \in 1 .. tokens' /\ requests[p].token # tokens + 1
        BY <1>1, <2>1, <4>1
      <4>3. \A o \in Requests : o # p /\ At(o, "connect")' => requests'[o].token # requests[p].token
        BY <2>1, <2>3, <4>1, <4>2 DEF Fresh
      <4>4. QED
        BY <2>1, <4>1, <4>2, <4>3 DEF Fresh
    <3>3. QED
      BY <3>1, <3>2
  <2>5. TokenWorks'
    BY <2>1 DEF TokensInv, TokenWorks, At
  <2>6. connection.token \in 0 .. tokens' /\ revoked \subseteq 1 .. tokens'
    BY <1>1, <2>1, <2>2
  <2>7. QED
    BY <2>1, <2>4, <2>5, <2>6 DEF TokensInv
<1>6. ASSUME NEW q \in Requests, Connect(q)
      PROVE  TokensInv'
  <2>1. /\ UNCHANGED <<tokens, revoked, files, loose>> /\ requests[q].at = "connect"
        /\ requests'[q].at = "idle" /\ \A p \in Requests : p # q => requests'[p] = requests[p]
    BY <1>1, <1>6 DEF Connect, End, Go, At, Idle
  <2>2. Fresh(q)
    BY <2>1 DEF TokensInv, At
  <2>3. CASE UNCHANGED connection
    <3>1. \A p \in Requests : At(p, "connect")' => At(p, "connect") /\ requests'[p] = requests[p]
      BY <2>1 DEF At
    <3>2. \A p \in Requests : At(p, "unlink") => At(p, "unlink")' /\ requests'[p] = requests[p]
      BY <2>1 DEF At
    <3>3. TokenWorks'
      BY <2>1, <2>3, <3>2 DEF TokensInv, TokenWorks
    <3>4. QED
      BY <2>1, <2>3, <3>1, <3>3 DEF TokensInv, Fresh
  <2>4. CASE connection' = [ row |-> IF connection.row = 0 THEN requests[q].token ELSE connection.row,
                             token |-> requests[q].token ]
    <3>1. connection'.token = requests[q].token
      BY <2>4
    <3>2. connection'.token \in 1 .. tokens /\ connection'.token \notin revoked
      BY <2>2, <3>1 DEF Fresh
    <3>3. connection'.token \in 0 .. tokens /\ connection'.token # 0
      BY <1>1, <3>2
    <3>4. ASSUME NEW p \in Requests, At(p, "connect")'
          PROVE  Fresh(p)'
      <4>1. p # q /\ At(p, "connect") /\ requests'[p] = requests[p] /\ Fresh(p)
        BY <2>1, <3>4 DEF At, TokensInv
      <4>2. requests[p].token # requests[q].token
        BY <2>2, <4>1 DEF Fresh
      <4>3. \A o \in Requests : At(o, "connect")' => At(o, "connect") /\ requests'[o] = requests[o]
        BY <2>1 DEF At
      <4>4. QED
        BY <2>1, <3>1, <4>1, <4>2, <4>3 DEF Fresh
    <3>5. TokenWorks'
      BY <2>1, <3>2 DEF TokenWorks
    <3>6. QED
      BY <2>1, <3>3, <3>4, <3>5 DEF TokensInv
  <2>5. QED
    BY <1>6, <2>3, <2>4 DEF Connect
<1>7. ASSUME NEW q \in Requests, Disconnect(q)
      PROVE  TokensInv'
  <2>1. /\ UNCHANGED <<connection, tokens>> /\ connection # NotConnected /\ requests[q].at = "idle"
        /\ revoked' \in {revoked, revoked \cup {connection.token}} /\ loose \subseteq loose'
    BY <1>7 DEF Disconnect, Revoked, At
  <2>2. connection.token \in 1 .. tokens
    BY <1>1, <2>1 DEF TokensInv
  <2>3. revoked' \subseteq 1 .. tokens
    BY <2>1, <2>2 DEF TokensInv
  <2>4. \/ UNCHANGED requests /\ <<"token", connection.token>> \in loose'
        \/ /\ requests'[q].at = "unlink" /\ requests'[q].row = connection.row
           /\ \A p \in Requests : p # q => requests'[p] = requests[p]
    BY <1>1, <1>7 DEF Disconnect, Go, Idle
  <2>5. ASSUME NEW p \in Requests, At(p, "connect")'
        PROVE  At(p, "connect") /\ requests'[p] = requests[p]
    BY <2>4, <2>5 DEF At
  <2>6. ASSUME NEW p \in Requests, At(p, "connect")'
        PROVE  Fresh(p)'
    <3>1. Fresh(p) /\ requests'[p] = requests[p]
      BY <2>5, <2>6 DEF TokensInv
    <3>2. requests[p].token \notin revoked'
      BY <2>1, <3>1 DEF Fresh
    <3>3. QED
      BY <2>1, <2>5, <3>1, <3>2 DEF Fresh
  <2>7. TokenWorks'
    BY <2>1, <2>4 DEF TokenWorks, At
  <2>8. QED
    BY <2>1, <2>3, <2>6, <2>7 DEF TokensInv
<1>8. ASSUME NEW q \in Requests, Unlink(q)
      PROVE  TokensInv'
  <2>1. /\ UNCHANGED <<tokens, revoked, files, loose>> /\ requests[q].at = "unlink"
        /\ requests'[q].at = "idle" /\ \A p \in Requests : p # q => requests'[p] = requests[p]
    BY <1>1, <1>8 DEF Unlink, End, Go, At, Idle
  <2>2. ASSUME NEW p \in Requests, At(p, "connect")'
        PROVE  p # q /\ At(p, "connect") /\ requests'[p] = requests[p]
    BY <2>1, <2>2 DEF At
  <2>3. CASE connection' = NotConnected
    <3>1. connection'.token = 0 /\ 0 \notin revoked
      BY <1>1, <2>3 DEF TokensInv, NotConnected
    <3>2. ASSUME NEW p \in Requests, At(p, "connect")'
          PROVE  Fresh(p)'
      <4>1. Fresh(p) /\ requests'[p] = requests[p]
        BY <2>2, <3>2 DEF TokensInv
      <4>2. requests[p].token # 0
        BY <1>1, <4>1 DEF Fresh
      <4>3. QED
        BY <2>1, <2>2, <3>1, <4>1, <4>2 DEF Fresh
    <3>3. TokenWorks'
      BY <2>1, <3>1 DEF TokenWorks
    <3>4. connection'.token \in 0 .. tokens
      BY <1>1, <3>1
    <3>5. QED
      BY <2>1, <2>3, <3>2, <3>3, <3>4 DEF TokensInv
  <2>4. CASE connection' = connection /\ connection.row # requests[q].row
    <3>1. ASSUME NEW p \in Requests, At(p, "connect")'
          PROVE  Fresh(p)'
      <4>1. Fresh(p) /\ requests'[p] = requests[p]
        BY <2>2, <3>1 DEF TokensInv
      <4>2. QED
        BY <2>1, <2>2, <2>4, <4>1 DEF Fresh
    <3>2. TokenWorks'
      BY <2>1, <2>4 DEF TokensInv, TokenWorks, At
    <3>3. QED
      BY <2>1, <2>4, <3>1, <3>2 DEF TokensInv
  <2>5. QED
    BY <1>8, <2>3, <2>4 DEF Unlink, Unlinked
<1>9. ASSUME NEW q \in Requests, NEW From, NEW To, From \subseteq Elsewhere, To \subseteq Elsewhere,
             Moves(q, From, To), files' \in Seq(FileRecord), Len(files) <= Len(files'),
             UNCHANGED <<connection, tokens, revoked>>, loose \subseteq loose'
      PROVE  TokensInv'
  BY <1>3, <1>9, TokensLeft
<1>10. ASSUME NEW q \in Requests,
              \/ Upload(q) \/ Import(q) \/ NextUrl(q) \/ Abort(q) \/ Copy(q) \/ NextPhoto(q)
              \/ ReadPack(q) \/ FetchPack(q)
       PROVE  TokensInv'
  <2>1. Quiet \subseteq Elsewhere
    BY DEF Quiet, Elsewhere, Phase
  <2>2. QED
    BY <1>2, <1>9, <1>10, <2>1, QuietMoves
<1>11. ASSUME NEW q \in Requests, Send(q)
       PROVE  TokensInv'
  <2>1. Quiet \subseteq Elsewhere /\ {"send"} \subseteq Elsewhere /\ {"commit"} \subseteq Elsewhere
    BY DEF Quiet, Elsewhere, Phase
  <2>2. /\ UNCHANGED <<connection, tokens, revoked>> /\ loose \subseteq loose'
        /\ Moves(q, {"send"}, Quiet) \/ Moves(q, {"send"}, {"commit"})
        /\ UNCHANGED files \/ Create(q)
    BY <1>11, SendMoves
  <2>3. files' \in Seq(FileRecord) /\ Len(files) <= Len(files')
    BY <1>2, <1>11, <2>2, CreatedFile DEF Send
  <2>4. QED
    BY <1>9, <2>1, <2>2, <2>3
<1>12. ASSUME NEW q \in Requests, Commit(q) \/ Delete(q) \/ RemoveRow(q)
       PROVE  TokensInv'
  <2>1. /\ {"commit"} \subseteq Elsewhere /\ {"idle", "next"} \subseteq Elsewhere /\ {"idle"} \subseteq Elsewhere
        /\ {"trash", "remove"} \subseteq Elsewhere /\ {"remove"} \subseteq Elsewhere
    BY DEF Elsewhere, Phase
  <2>2. UNCHANGED <<connection, tokens, revoked, files>> /\ loose \subseteq loose'
    BY <1>12 DEF Commit, Delete, RemoveRow
  <2>3. QED
    BY <1>2, <1>9, <1>12, <2>1, <2>2, ListMoves
<1>13. ASSUME NEW q \in Requests, Trash(q)
       PROVE  TokensInv'
  <2>1. {"trash"} \subseteq Elsewhere /\ {"idle", "remove"} \subseteq Elsewhere
    BY DEF Elsewhere, Phase
  <2>2. /\ UNCHANGED <<connection, tokens, revoked>> /\ loose \subseteq loose'
        /\ UNCHANGED files \/ files' = Trashed(requests[q].file)
    BY <1>13 DEF Trash
  <2>3. files' \in Seq(FileRecord) /\ Len(files) <= Len(files')
    BY <1>2, <2>2, TrashedFile
  <2>4. QED
    BY <1>9, <1>13, <2>1, <2>2, <2>3, ListMoves
<1>14. ASSUME DeleteProperty
       PROVE  TokensInv'
  BY <1>14 DEF DeleteProperty, TokensInv, Fresh, TokenWorks, At
<1>15. ASSUME Crash \/ ScriptStops
       PROVE  TokensInv'
  <2>1. PICK stopped \in SUBSET Requests :
          /\ requests' = [q \in Requests |-> IF q \in stopped THEN Idle ELSE requests[q]]
          /\ loose' = loose \cup { <<"file", requests[q].file>> : q \in { p \in stopped : requests[p].at \in {"commit", "remove"} } }
                       \cup { <<"token", t>> : t \in IF \E q \in stopped : At(q, "unlink") THEN revoked ELSE {} }
    BY <1>15, Stops
  <2>2. /\ UNCHANGED <<connection, tokens, revoked>> /\ loose \subseteq loose'
        /\ \A q \in Requests : requests'[q].at = "idle" \/ requests'[q] = requests[q]
        /\ \A q \in stopped : At(q, "unlink") => \A t \in revoked : <<"token", t>> \in loose'
        /\ \A q \in Requests \ stopped : requests'[q] = requests[q]
    BY <1>15, <2>1, Stops DEF Idle
  <2>3. TokenWorks'
    BY <2>2 DEF TokensInv, TokenWorks, At
  <2>4. QED
    BY <2>2, <2>3 DEF TokensInv, Fresh, At
<1>16. QED
  BY <1>4, <1>5, <1>6, <1>7, <1>8, <1>10, <1>11, <1>12, <1>13, <1>14, <1>15 DEF Next

\* oauth_callback and oauth_disconnect: however many logins and disconnections
\* overlap, the stored refresh token is one Google takes, or the disconnection that
\* revoked it is about to delete it or has failed.
THEOREM StoredTokenWorks == Spec => []TokenWorks
<1>1. Init => TypeInv /\ TokensInv
  BY TypesAtStart DEF Init, TokensInv, TokenWorks, At, Idle
<1>2. TypeInv /\ TokensInv /\ [Next]_vars => (TypeInv /\ TokensInv)'
  BY TypesKept, TokensKept
<1>3. TokensInv => TokenWorks
  BY DEF TokensInv
<1>4. QED
  BY <1>1, <1>2, <1>3, PTL DEF Spec

-----------------------------------------------------------------------------
(* The files.                                                              *)

\* A request that has a file in its hands.
Holds(q) == requests[q].at \in {"commit", "trash", "remove"}

\* The file that is about to be listed is new: it is not trashed, not listed, and no
\* other request has it.
Unlisted(q) ==
  /\ requests[q].file \notin ToSet(rows) /\ ~ files[requests[q].file].trashed
  /\ \A p \in Requests : p # q /\ Holds(p) => requests[p].file # requests[q].file

\* The file whose row is about to be deleted is trashed, or was left behind.
Removed(q) == files[requests[q].file].trashed \/ <<"file", requests[q].file>> \in loose

\* What accounts for a file.
Accounted(f) ==
  \/ <<"file", f>> \in loose
  \/ IF f \in ToSet(rows)
     THEN files[f].trashed => \E q \in Requests : At(q, "remove") /\ requests[q].file = f
     ELSE files[f].trashed \/ \E q \in Requests : At(q, "commit") /\ requests[q].file = f

FilesInv ==
  /\ \A q \in Requests : At(q, "commit") => Unlisted(q)
  /\ \A q \in Requests : At(q, "remove") => Removed(q)
  /\ \A f \in File : Accounted(f)

\* A file in the hands of a request is one that was created.
LEMMA HeldFile ==
  ASSUME TypeInv, NEW q \in Requests, Holds(q)
  PROVE  requests[q].file \in File
BY Types DEF Holds, Going, Request, File

\* A request that neither takes a file nor lets go of one leaves the others as they are.
LEMMA FilesLeft ==
  ASSUME TypeInv, FilesInv, UNCHANGED <<rows, files>>, loose \subseteq loose',
         NEW q \in Requests, ~ Holds(q), ~ Holds(q)',
         \A p \in Requests : p # q => requests'[p] = requests[p]
  PROVE  FilesInv'
<1>1. /\ \A p \in Requests : Holds(p)' => p # q /\ Holds(p) /\ requests'[p] = requests[p]
      /\ \A p \in Requests : Holds(p) => p # q /\ Holds(p)' /\ requests'[p] = requests[p]
  BY DEF Holds
<1>2. \A p \in Requests : /\ At(p, "commit")' <=> At(p, "commit")
                          /\ At(p, "remove")' <=> At(p, "remove")
                          /\ At(p, "commit") \/ At(p, "remove") => Holds(p)
  BY DEF Holds, At
<1>3. File' = File
  BY DEF File
<1>4. ASSUME NEW p \in Requests, At(p, "commit")'
      PROVE  Unlisted(p)'
  BY <1>1, <1>2, <1>4 DEF FilesInv, Unlisted
<1>5. ASSUME NEW p \in Requests, At(p, "remove")'
      PROVE  Removed(p)'
  BY <1>1, <1>2, <1>5 DEF FilesInv, Removed
<1>6. ASSUME NEW f \in File
      PROVE  Accounted(f)'
  BY <1>1, <1>2, <1>6 DEF FilesInv, Accounted
<1>7. QED
  BY <1>3, <1>4, <1>5, <1>6 DEF FilesInv

\* A photo that is sent: its file is new to all, and to be listed or left behind.
LEMMA FilesSent ==
  ASSUME TypeInv, FilesInv, NEW q \in Requests, Send(q)
  PROVE  FilesInv'
<1> DEFINE n == Len(files) + 1
<1>1. At(q, "send") /\ ~ Holds(q) /\ UNCHANGED rows
  BY DEF Send, At, Holds
<1>2. /\ ToSet(rows) \subseteq File
      /\ \A p \in Requests : Holds(p) => requests[p].file \in File
  BY Types, HeldFile
<1>3. CASE UNCHANGED <<files, loose>> /\ Moves(q, {"send"}, Quiet)
  <2>1. files' \in Seq(FileRecord) /\ Len(files) <= Len(files')
    BY <1>3, SameFiles
  <2>2. requests'[q].at \in Quiet /\ \A p \in Requests : p # q => requests'[p] = requests[p]
    BY <1>3, <2>1, MovesOne
  <2>3. ~ Holds(q)'
    BY <2>2 DEF Holds, Quiet
  <2>4. QED
    BY <1>1, <1>3, <2>2, <2>3, FilesLeft
<1>4. ASSUME Create(q), NEW To, Moves(q, {"send"}, To), loose \subseteq loose',
             \/ To = Quiet /\ <<"file", n>> \in loose'
             \/ To = {"commit"} /\ requests'[q].file = n
      PROVE  FilesInv'
  <2>1. /\ files' \in Seq(FileRecord) /\ Len(files) <= Len(files')
        /\ File' = File \cup {n} /\ n \notin File /\ \A f \in File : files'[f] = files[f]
        /\ ~ files'[n].trashed
    BY <1>1, <1>4, CreatedFile
  <2>2. requests'[q].at \in To /\ \A p \in Requests : p # q => requests'[p] = requests[p]
    BY <1>4, <2>1, MovesOne
  <2> HIDE DEF n
  <2>3. ~ At(q, "remove")' /\ (At(q, "commit")' \/ Holds(q)' => To = {"commit"})
    BY <1>4, <2>2 DEF At, Holds, Quiet
  <2>4. /\ \A p \in Requests : p # q => (At(p, "commit")' <=> At(p, "commit")) /\ (At(p, "remove")' <=> At(p, "remove"))
        /\ \A p \in Requests : p # q => (Holds(p)' <=> Holds(p))
        /\ \A p \in Requests : At(p, "commit") \/ At(p, "remove") => Holds(p) /\ p # q
    BY <1>1, <2>2 DEF At, Holds
  <2>5. ASSUME NEW p \in Requests, At(p, "commit")'
        PROVE  Unlisted(p)'
    <3>1. CASE p = q
      <4>1. requests'[q].file = n
        BY <1>4, <2>3, <2>5, <3>1 DEF Quiet
      <4>2. \A o \in Requests : o # q /\ Holds(o)' => requests'[o].file # n
        BY <1>2, <2>1, <2>2, <2>4
      <4>3. n \notin ToSet(rows')
        BY <1>1, <1>2, <2>1
      <4>4. QED
        BY <2>1, <3>1, <4>1, <4>2, <4>3 DEF Unlisted
    <3>2. CASE p # q
      <4>1. At(p, "commit") /\ Unlisted(p) /\ requests'[p] = requests[p] /\ requests[p].file \in File
        BY <1>2, <2>2, <2>4, <2>5, <3>2 DEF FilesInv
      <4>2. files'[requests[p].file] = files[requests[p].file] /\ requests[p].file # n
        BY <2>1, <4>1
      <4>3. \A o \in Requests : o # p /\ Holds(o)' => requests'[o].file # requests[p].file
        <5>1. TAKE o \in Requests
        <5>2. CASE o = q
          BY <1>4, <2>3, <4>2, <5>2 DEF Quiet
        <5>3. CASE o # q
          BY <2>2, <2>4, <4>1, <5>3 DEF Unlisted
        <5>4. QED
          BY <5>2, <5>3
      <4>4. QED
        BY <1>1, <4>1, <4>2, <4>3 DEF Unlisted
    <3>3. QED
      BY <3>1, <3>2
  <2>6. ASSUME NEW p \in Requests, At(p, "remove")'
        PROVE  Removed(p)'
    <3>1. p # q /\ Removed(p) /\ requests'[p] = requests[p] /\ requests[p].file \in File
      BY <1>2, <2>2, <2>3, <2>4, <2>6 DEF FilesInv
    <3>2. QED
      BY <1>4, <2>1, <3>1 DEF Removed
  <2>7. ASSUME NEW f \in File'
        PROVE  Accounted(f)'
    <3>1. CASE f = n
      <4>1. n \notin ToSet(rows')
        BY <1>1, <1>2, <2>1
      <4>2. QED
        BY <1>4, <2>2, <3>1, <4>1 DEF Accounted, At
    <3>2. CASE f # n
      <4>1. f \in File /\ Accounted(f) /\ files'[f] = files[f]
        BY <2>1, <3>2 DEF FilesInv
      <4>2. /\ \A p \in Requests : At(p, "commit") => At(p, "commit")' /\ requests'[p] = requests[p]
            /\ \A p \in Requests : At(p, "remove") => At(p, "remove")' /\ requests'[p] = requests[p]
        BY <2>2, <2>4
      <4>3. QED
        BY <1>1, <1>4, <4>1, <4>2 DEF Accounted
    <3>3. QED
      BY <3>1, <3>2
  <2>8. QED
    BY <2>5, <2>6, <2>7 DEF FilesInv
<1>5. QED
  BY <1>3, <1>4, SendMoves

\* A photo that is listed, or whose file is left behind.
LEMMA FilesCommitted ==
  ASSUME TypeInv, FilesInv, NEW q \in Requests, Commit(q)
  PROVE  FilesInv'
<1> DEFINE g == requests[q].file
<1>1. /\ At(q, "commit") /\ Holds(q) /\ Unlisted(q) /\ UNCHANGED files /\ loose \subseteq loose'
      /\ \/ UNCHANGED rows /\ <<"file", g>> \in loose'
         \/ rows' = Append(rows, g)
  BY DEF Commit, At, Holds, FilesInv
<1>2. Moves(q, {"commit"}, {"idle", "next"})
  BY ListMoves
<1>3. requests'[q].at \in {"idle", "next"} /\ \A p \in Requests : p # q => requests'[p] = requests[p]
  BY <1>1, <1>2, SameFiles, MovesOne
<1>4. g \in File /\ g \notin ToSet(rows) /\ ~ files[g].trashed
  BY <1>1, HeldFile DEF Unlisted
<1>5. /\ ToSet(rows) \subseteq ToSet(rows') /\ ToSet(rows') \subseteq ToSet(rows) \cup {g}
      /\ <<"file", g>> \in loose' \/ g \in ToSet(rows')
  <2>1. CASE rows' = Append(rows, g)
    <3>1. rows \in Seq(File)
      BY DEF TypeInv, TypeOK
    <3>2. ToSet(rows') = ToSet(rows) \cup {g}
      BY <1>4, <2>1, <3>1, AppendElements
    <3>3. QED
      BY <3>2
  <2>2. QED
    BY <1>1, <2>1
<1>6. /\ \A p \in Requests : Holds(p)' => p # q /\ Holds(p) /\ requests'[p] = requests[p]
      /\ \A p \in Requests : At(p, "commit")' => p # q /\ At(p, "commit") /\ requests'[p] = requests[p]
      /\ \A p \in Requests : At(p, "remove")' => p # q /\ At(p, "remove") /\ requests'[p] = requests[p]
  BY <1>3 DEF Holds, At
<1>7. /\ \A p \in Requests : At(p, "remove") => At(p, "remove")' /\ requests'[p] = requests[p]
      /\ \A p \in Requests : At(p, "commit") /\ p # q => At(p, "commit")' /\ requests'[p] = requests[p]
  BY <1>1, <1>3 DEF At
<1>8. \A p \in Requests : Holds(p) /\ p # q => requests[p].file # g
  BY <1>1 DEF Unlisted
<1> HIDE DEF g
<1>9. ASSUME NEW p \in Requests, At(p, "commit")'
      PROVE  Unlisted(p)'
  <2>1. p # q /\ At(p, "commit") /\ Holds(p) /\ requests'[p] = requests[p] /\ Unlisted(p)
    BY <1>6, <1>9 DEF FilesInv, Holds, At
  <2>2. requests[p].file \notin ToSet(rows')
    BY <1>5, <1>8, <2>1 DEF Unlisted
  <2>3. QED
    BY <1>1, <1>6, <2>1, <2>2 DEF Unlisted
<1>10. ASSUME NEW p \in Requests, At(p, "remove")'
       PROVE  Removed(p)'
  BY <1>1, <1>6, <1>10 DEF FilesInv, Removed
<1>11. ASSUME NEW f \in File
       PROVE  Accounted(f)'
  <2>1. CASE f = g
    BY <1>1, <1>4, <1>5, <2>1 DEF Accounted
  <2>2. CASE f # g
    <3>1. Accounted(f) /\ (f \in ToSet(rows') <=> f \in ToSet(rows))
      BY <1>5, <1>11, <2>2 DEF FilesInv
    <3>2. \A p \in Requests : At(p, "commit") /\ requests[p].file = f => p # q
      BY <2>2 DEF g
    <3>3. QED
      BY <1>1, <1>7, <3>1, <3>2 DEF Accounted
  <2>3. QED
    BY <2>1, <2>2
<1>12. File' = File
  BY <1>1 DEF File
<1>13. QED
  BY <1>9, <1>10, <1>11, <1>12 DEF FilesInv

\* A deletion begins; no request that is about to list a file has the one it deletes.
LEMMA FilesDeleted ==
  ASSUME TypeInv, FilesInv, NEW q \in Requests, Delete(q)
  PROVE  FilesInv'
<1>1. PICK g \in ToSet(rows) :
        /\ Begin(q, [Idle EXCEPT !.file = g, !.token = connection.token,
                       !.at = IF connection = NotConnected THEN "remove" ELSE "trash"])
        /\ loose' = IF connection = NotConnected THEN loose \cup {<<"file", g>>} ELSE loose
  BY DEF Delete
<1>2. requests \in [Requests -> Going]
  BY DEF TypeInv
<1>3. /\ UNCHANGED <<rows, files>> /\ loose \subseteq loose' /\ At(q, "idle")
      /\ requests'[q].file = g /\ requests'[q].at \in {"trash", "remove"}
      /\ requests'[q].at = "remove" => <<"file", g>> \in loose'
      /\ \A p \in Requests : p # q => requests'[p] = requests[p]
  BY <1>1, <1>2 DEF Delete, Begin, Idle
<1>4. File' = File
  BY <1>3 DEF File
<1>5. /\ \A p \in Requests : At(p, "commit") => p # q /\ At(p, "commit")' /\ requests'[p] = requests[p]
      /\ \A p \in Requests : At(p, "remove") => p # q /\ At(p, "remove")' /\ requests'[p] = requests[p]
      /\ \A p \in Requests : p # q => (At(p, "commit")' => At(p, "commit")) /\ (At(p, "remove")' => At(p, "remove"))
      /\ \A p \in Requests : p # q => (Holds(p)' => Holds(p))
      /\ ~ At(q, "commit")'
  BY <1>3 DEF At, Holds
<1>6. ASSUME NEW p \in Requests, At(p, "commit")'
      PROVE  Unlisted(p)'
  <2>1. p # q /\ At(p, "commit") /\ requests'[p] = requests[p] /\ Unlisted(p)
    BY <1>3, <1>5, <1>6 DEF FilesInv
  <2>2. requests[p].file # g
    BY <2>1 DEF Unlisted
  <2>3. \A o \in Requests : o # p /\ Holds(o)' => requests'[o].file # requests[p].file
    BY <1>3, <1>5, <2>1, <2>2 DEF Unlisted
  <2>4. QED
    BY <1>3, <2>1, <2>3 DEF Unlisted
<1>7. ASSUME NEW p \in Requests, At(p, "remove")'
      PROVE  Removed(p)'
  <2>1. CASE p = q
    BY <1>3, <1>7, <2>1 DEF Removed, At
  <2>2. CASE p # q
    BY <1>3, <1>5, <1>7, <2>2 DEF FilesInv, Removed
  <2>3. QED
    BY <2>1, <2>2
<1>8. ASSUME NEW f \in File
      PROVE  Accounted(f)'
  BY <1>3, <1>5, <1>8 DEF FilesInv, Accounted
<1>9. QED
  BY <1>4, <1>6, <1>7, <1>8 DEF FilesInv

\* A file is trashed, or left where it is.
LEMMA FilesTrashed ==
  ASSUME TypeInv, FilesInv, NEW q \in Requests, Trash(q)
  PROVE  FilesInv'
<1> DEFINE g == requests[q].file
<1>1. PICK outcome \in Outcome(q) :
        /\ files' = IF outcome \in {"done", "lost"} THEN Trashed(g) ELSE files
        /\ loose' = IF outcome \in {"rejected", "failed", "lost"} THEN loose \cup {<<"file", g>>} ELSE loose
        /\ IF outcome \in {"silent", "lost"} THEN End(q) ELSE Go(q, Removal(g))
  BY DEF Trash
<1>2. At(q, "trash") /\ Holds(q) /\ UNCHANGED rows /\ requests \in [Requests -> Going]
  BY DEF Trash, At, Holds, TypeInv
<1>3. g \in File /\ g \in 0 .. Len(files)
  BY <1>2, HeldFile, Types DEF Request
<1>4. outcome \in {"rejected", "failed", "silent", "done", "lost"}
  BY DEF Outcome
<1>5. /\ \A f \in File : f # g => files'[f].trashed = files[f].trashed
      /\ files[g].trashed => files'[g].trashed
      /\ outcome \in {"done", "lost"} => files'[g].trashed
      /\ File' = File
  <2>1. CASE files' = files
    <3>1. outcome \in {"done", "lost"} => files' = Trashed(g)
      BY <1>1
    <3>2. outcome \in {"done", "lost"} => files'[g].trashed
      BY <1>3, <3>1, TrashedFile
    <3>3. QED
      BY <2>1, <3>2 DEF File
  <2>2. CASE files' = Trashed(g)
    BY <1>3, <2>2, TrashedFile DEF File
  <2>3. QED
    BY <1>1, <2>1, <2>2
<1>6. /\ loose \subseteq loose'
      /\ \A p \in Requests : p # q => requests'[p] = requests[p]
      /\ requests'[q].at \in {"idle", "remove"}
      /\ requests'[q].at = "remove" => requests'[q].file = g /\ (files'[g].trashed \/ <<"file", g>> \in loose')
      /\ <<"file", g>> \in loose' \/ UNCHANGED files \/ (requests'[q].at = "remove" /\ requests'[q].file = g)
  <2>1. Idle.at = "idle" /\ Removal(g).at = "remove" /\ Removal(g).file = g
    BY DEF Idle, Removal
  <2> HIDE DEF g
  <2>2. CASE outcome \in {"silent", "lost"}
    <3>1. requests' = [requests EXCEPT ![q] = Idle]
      BY <1>1, <2>2 DEF End, Go
    <3>2. requests'[q].at = "idle" /\ \A p \in Requests : p # q => requests'[p] = requests[p]
      BY <1>2, <2>1, <3>1
    <3>3. loose \subseteq loose' /\ (<<"file", g>> \in loose' \/ UNCHANGED files)
      BY <1>1, <2>2
    <3>4. QED
      BY <3>2, <3>3
  <2>3. CASE outcome \in {"rejected", "failed", "done"}
    <3>1. requests' = [requests EXCEPT ![q] = Removal(g)]
      BY <1>1, <2>3 DEF Go
    <3>2. /\ requests'[q].at = "remove" /\ requests'[q].file = g
          /\ \A p \in Requests : p # q => requests'[p] = requests[p]
      BY <1>2, <2>1, <3>1
    <3>3. loose \subseteq loose' /\ (<<"file", g>> \in loose' \/ files'[g].trashed)
      BY <1>1, <1>5, <2>3
    <3>4. QED
      BY <3>2, <3>3
  <2>4. QED
    BY <1>4, <2>2, <2>3
<1>7. /\ \A p \in Requests : At(p, "commit") => p # q /\ At(p, "commit")' /\ requests'[p] = requests[p]
      /\ \A p \in Requests : At(p, "remove") => p # q /\ At(p, "remove")' /\ requests'[p] = requests[p]
      /\ \A p \in Requests : p # q => (At(p, "commit")' => At(p, "commit")) /\ (At(p, "remove")' => At(p, "remove"))
      /\ \A p \in Requests : Holds(p)' => Holds(p)
      /\ \A p \in Requests : Holds(p)' => requests'[p].file = requests[p].file
      /\ ~ At(q, "commit")'
  BY <1>2, <1>6 DEF At, Holds
<1> HIDE DEF g
<1>8. ASSUME NEW p \in Requests, At(p, "commit")'
      PROVE  Unlisted(p)'
  <2>1. p # q /\ At(p, "commit") /\ requests'[p] = requests[p] /\ Unlisted(p) /\ requests[p].file \in File
    BY <1>6, <1>7, <1>8, HeldFile DEF FilesInv, Holds, At
  <2>2. requests[p].file # g
    BY <1>2, <2>1 DEF Unlisted, g
  <2>3. ~ files'[requests[p].file].trashed
    BY <1>5, <2>1, <2>2 DEF Unlisted
  <2>4. \A o \in Requests : o # p /\ Holds(o)' => requests'[o].file # requests[p].file
    BY <1>7, <2>1 DEF Unlisted
  <2>5. QED
    BY <1>2, <2>1, <2>3, <2>4 DEF Unlisted
<1>9. ASSUME NEW p \in Requests, At(p, "remove")'
      PROVE  Removed(p)'
  <2>1. CASE p = q
    BY <1>6, <1>9, <2>1 DEF Removed, At
  <2>2. CASE p # q
    <3>1. At(p, "remove") /\ Removed(p) /\ requests'[p] = requests[p] /\ requests[p].file \in File
      BY <1>6, <1>7, <1>9, <2>2, HeldFile DEF FilesInv, Holds, At
    <3>2. files[requests[p].file].trashed => files'[requests[p].file].trashed
      BY <1>5, <3>1
    <3>3. QED
      BY <1>6, <3>1, <3>2 DEF Removed
  <2>3. QED
    BY <2>1, <2>2
<1>10. ASSUME NEW f \in File
       PROVE  Accounted(f)'
  <2>1. Accounted(f)
    BY <1>10 DEF FilesInv
  <2>2. CASE f = g
    <3>1. CASE requests'[q].at = "remove" /\ requests'[q].file = g
      BY <1>2, <1>3, <1>5, <1>6, <2>2, <3>1 DEF Accounted, At
    <3>2. CASE UNCHANGED files
      BY <1>2, <1>6, <1>7, <2>1, <3>2 DEF Accounted
    <3>3. CASE <<"file", g>> \in loose'
      BY <2>2, <3>3 DEF Accounted
    <3>4. QED
      BY <1>6, <3>1, <3>2, <3>3
  <2>3. CASE f # g
    <3>1. files'[f].trashed = files[f].trashed
      BY <1>5, <1>10, <2>3
    <3>2. QED
      BY <1>2, <1>6, <1>7, <2>1, <3>1 DEF Accounted
  <2>4. QED
    BY <2>2, <2>3
<1>11. QED
  BY <1>5, <1>8, <1>9, <1>10 DEF FilesInv

\* The row of a deletion goes.
LEMMA FilesRemoved ==
  ASSUME TypeInv, FilesInv, NEW q \in Requests, RemoveRow(q)
  PROVE  FilesInv'
<1> DEFINE g == requests[q].file
<1>1. /\ At(q, "remove") /\ Removed(q) /\ UNCHANGED <<files, loose>>
      /\ rows' = Only(rows, File \ {g}) /\ requests \in [Requests -> Going]
  BY DEF RemoveRow, FilesInv, TypeInv
<1>2. ToSet(rows') = ToSet(rows) \ {g}
  <2>1. rows \in Seq(File) /\ ToSet(rows) \subseteq File
    BY Types DEF TypeInv, TypeOK
  <2>2. ToSet(rows') = ToSet(rows) \cap (File \ {g})
    <3> HIDE DEF g
    <3>1. QED
      BY <1>1, <2>1, OnlyElements
  <2>3. QED
    BY <2>1, <2>2
<1>3. requests'[q].at = "idle" /\ \A p \in Requests : p # q => requests'[p] = requests[p]
  BY <1>1 DEF RemoveRow, End, Go, Idle
<1>4. File' = File
  BY <1>1 DEF File
<1>5. /\ \A p \in Requests : At(p, "commit") => p # q /\ At(p, "commit")' /\ requests'[p] = requests[p]
      /\ \A p \in Requests : At(p, "remove") /\ p # q => At(p, "remove")' /\ requests'[p] = requests[p]
      /\ \A p \in Requests : (At(p, "commit")' => At(p, "commit")) /\ (At(p, "remove")' => At(p, "remove"))
      /\ \A p \in Requests : Holds(p)' => Holds(p) /\ p # q /\ requests'[p] = requests[p]
      /\ \A p \in Requests : At(p, "commit") \/ At(p, "remove") => Holds(p)
  BY <1>1, <1>3 DEF At, Holds
<1>6. files[g].trashed \/ <<"file", g>> \in loose
  BY <1>1 DEF Removed
<1>7. ASSUME NEW p \in Requests, At(p, "commit")'
      PROVE  Unlisted(p)'
  <2>1. p # q /\ At(p, "commit") /\ requests'[p] = requests[p] /\ Unlisted(p)
    BY <1>5, <1>7 DEF FilesInv
  <2>2. QED
    BY <1>1, <1>2, <1>5, <2>1 DEF Unlisted
<1>8. ASSUME NEW p \in Requests, At(p, "remove")'
      PROVE  Removed(p)'
  <2>1. At(p, "remove") /\ Removed(p) /\ p # q /\ requests'[p] = requests[p]
    BY <1>3, <1>5, <1>8 DEF FilesInv, At
  <2>2. QED
    BY <1>1, <2>1 DEF Removed
<1>9. ASSUME NEW f \in File
      PROVE  Accounted(f)'
  <2>1. CASE f = g
    BY <1>1, <1>2, <1>6, <2>1 DEF Accounted
  <2>2. CASE f # g
    <3>1. Accounted(f) /\ (f \in ToSet(rows') <=> f \in ToSet(rows))
      BY <1>2, <1>9, <2>2 DEF FilesInv
    <3>2. \A p \in Requests : At(p, "remove") /\ requests[p].file = f => p # q
      BY <2>2
    <3> HIDE DEF g
    <3>3. QED
      BY <1>1, <1>5, <3>1, <3>2 DEF Accounted
  <2>3. QED
    BY <2>1, <2>2
<1>10. QED
  BY <1>4, <1>7, <1>8, <1>9 DEF FilesInv

\* Every step keeps the invariant of the files.
LEMMA FilesKept == TypeInv /\ FilesInv /\ [Next]_vars => FilesInv'
<1> SUFFICES ASSUME TypeInv, FilesInv, [Next]_vars
             PROVE  FilesInv'
  OBVIOUS
<1>1. ASSUME NEW q \in Requests, NEW From, NEW To, Moves(q, From, To), UNCHANGED <<rows, files>>,
             loose \subseteq loose', \A at \in From \cup To : at \notin {"commit", "trash", "remove"}
      PROVE  FilesInv'
  <2>1. /\ requests'[q].at \in To /\ requests[q].at \in From
        /\ \A p \in Requests : p # q => requests'[p] = requests[p]
    BY <1>1, SameFiles, MovesOne DEF Moves
  <2>2. ~ Holds(q) /\ ~ Holds(q)'
    BY <1>1, <2>1 DEF Holds
  <2>3. QED
    BY <1>1, <2>1, <2>2, FilesLeft
<1>2. ASSUME UNCHANGED <<rows, files, requests>>, loose \subseteq loose'
      PROVE  FilesInv'
  BY <1>2 DEF FilesInv, Unlisted, Removed, Accounted, Holds, At, File
<1>3. CASE UNCHANGED vars
  BY <1>2, <1>3 DEF vars
<1>4. ASSUME NEW q \in Requests, Login(q) \/ Connect(q) \/ Disconnect(q) \/ Unlink(q)
      PROVE  FilesInv'
  <2>1. UNCHANGED <<rows, files>> /\ loose \subseteq loose'
    BY <1>4 DEF Login, Connect, Disconnect, Unlink
  <2>2. \/ Moves(q, {"idle"}, {"connect"}) \/ Moves(q, {"connect"}, {"idle"})
        \/ Moves(q, {"idle"}, {"unlink"}) \/ Moves(q, {"unlink"}, {"idle"}) \/ UNCHANGED requests
    BY <1>4, ConnectionMoves
  <2>3. \A at \in {"idle", "connect", "unlink"} : at \notin {"commit", "trash", "remove"}
    OBVIOUS
  <2>4. CASE UNCHANGED requests
    BY <1>2, <2>1, <2>4
  <2>5. CASE Moves(q, {"idle"}, {"connect"}) \/ Moves(q, {"connect"}, {"idle"})
    BY <1>1, <2>1, <2>3, <2>5
  <2>6. CASE Moves(q, {"idle"}, {"unlink"}) \/ Moves(q, {"unlink"}, {"idle"})
    BY <1>1, <2>1, <2>3, <2>6
  <2>7. QED
    BY <2>2, <2>4, <2>5, <2>6
<1>5. ASSUME NEW q \in Requests,
             \/ Upload(q) \/ Import(q) \/ NextUrl(q) \/ Abort(q) \/ Copy(q) \/ NextPhoto(q)
             \/ ReadPack(q) \/ FetchPack(q)
      PROVE  FilesInv'
  <2>1. Moves(q, Quiet, Quiet) /\ UNCHANGED <<rows, files, loose>>
    BY <1>5, QuietMoves
  <2>2. \A at \in Quiet \cup Quiet : at \notin {"commit", "trash", "remove"}
    BY DEF Quiet
  <2>3. QED
    BY <1>1, <2>1, <2>2
<1>6. ASSUME NEW q \in Requests, Send(q) \/ Commit(q) \/ Delete(q) \/ Trash(q) \/ RemoveRow(q)
      PROVE  FilesInv'
  BY <1>6, FilesSent, FilesCommitted, FilesDeleted, FilesTrashed, FilesRemoved
<1>7. ASSUME DeleteProperty
      PROVE  FilesInv'
  <2>1. /\ UNCHANGED <<files, requests>> /\ loose \subseteq loose' /\ rows' = <<>>
        /\ \A f \in ToSet(rows) : <<"file", f>> \in loose'
    BY <1>7 DEF DeleteProperty
  <2>2. ToSet(rows') = {}
    <3>1. <<>> \in Seq(Nat)
      BY EmptySeq
    <3>2. QED
      BY <2>1, <3>1, Elements
  <2>3. ASSUME NEW f \in File
        PROVE  Accounted(f)'
    BY <2>1, <2>2, <2>3 DEF FilesInv, Accounted, At
  <2>4. \A q \in Requests : (At(q, "commit") => Unlisted(q)') /\ (At(q, "remove") => Removed(q)')
    BY <2>1, <2>2 DEF FilesInv, Unlisted, Removed, Holds
  <2>5. QED
    BY <2>1, <2>3, <2>4 DEF FilesInv, At, File
<1>8. ASSUME Crash \/ ScriptStops
      PROVE  FilesInv'
  <2>1. PICK stopped \in SUBSET Requests :
          /\ requests' = [q \in Requests |-> IF q \in stopped THEN Idle ELSE requests[q]]
          /\ loose' = loose \cup { <<"file", requests[q].file>> : q \in { p \in stopped : requests[p].at \in {"commit", "remove"} } }
                       \cup { <<"token", t>> : t \in IF \E q \in stopped : At(q, "unlink") THEN revoked ELSE {} }
    BY <1>8, Stops
  <2>2. /\ UNCHANGED <<rows, files>> /\ loose \subseteq loose'
        /\ \A q \in Requests : requests'[q].at = "idle" \/ requests'[q] = requests[q]
        /\ \A q \in stopped : At(q, "commit") \/ At(q, "remove") => <<"file", requests[q].file>> \in loose'
        /\ \A q \in Requests \ stopped : requests'[q] = requests[q]
    BY <1>8, <2>1, Stops DEF Idle, At
  <2>3. ASSUME NEW f \in File
        PROVE  Accounted(f)'
    BY <2>2, <2>3 DEF FilesInv, Accounted, At
  <2>4. \A q \in Requests : (At(q, "commit") => Unlisted(q))' /\ (At(q, "remove") => Removed(q))'
    BY <2>2 DEF FilesInv, At, Unlisted, Removed, Holds
  <2>5. QED
    BY <2>2, <2>3, <2>4 DEF FilesInv, File
<1>9. QED
  BY <1>3, <1>4, <1>5, <1>6, <1>7, <1>8 DEF Next

\* cloud_routes.py:420 and delete_photo: a photo row and its Drive file stand or fall
\* together, whatever requests overlap, fail or stop in the middle; what a lost
\* answer, a refused commit or trash, a crash or a deleted property left is in loose.
THEOREM FilesAreAccounted == Spec => []FilesAccounted
<1>1. Init => TypeInv /\ FilesInv
  <2>1. ASSUME Init
        PROVE  FilesInv
    <3>1. (\A q \in Requests : requests[q].at = "idle") /\ Len(files) = 0
      BY <2>1, EmptySeq DEF Init, Idle
    <3>2. File = {}
      BY <3>1 DEF File
    <3>3. QED
      BY <3>1, <3>2 DEF FilesInv, At
  <2>2. QED
    BY <2>1, TypesAtStart
<1>2. TypeInv /\ FilesInv /\ [Next]_vars => (TypeInv /\ FilesInv)'
  BY TypesKept, FilesKept
<1>3. FilesInv => FilesAccounted
  BY DEF FilesInv, Accounted, FilesAccounted
<1>4. QED
  BY <1>1, <1>2, <1>3, PTL DEF Spec

\* The instance the run checks does nothing the component does not do.
LEMMA PhotosRefineSpec == PhotosSpec => Spec
<1>1. PhotosInit => Init
  BY DEF PhotosInit
<1>2. [PhotosNext]_<<part, gallery, vars>> => [Next]_vars
  BY DEF PhotosNext
<1>3. QED
  BY <1>1, <1>2, PTL DEF PhotosSpec, Spec

\* The share packs as the run checks them: rows and files, tokens and packs keep
\* what cloud_routes.py, drive.py and collage_service.py promise of them, and the
\* selection what photo_select.py does.
THEOREM PhotosAreKept ==
  PhotosSpec => [](FilesAccounted /\ TokenWorks /\ PackShowsListed /\ SelectsDiverse)
BY PhotosRefineSpec, FilesAreAccounted, StoredTokenWorks, PacksShowListed,
   SelectionIsDiverse, PTL
=============================================================================
