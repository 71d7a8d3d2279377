--------------------------- MODULE ManifestProofs ---------------------------
(***************************************************************************)
(* What sorting gives: every finite set of paths has exactly one strictly  *)
(* ascending enumeration, and a scan lists every file once.  The place of  *)
(* a path is the number of paths up to it, so no induction is needed.      *)
(***************************************************************************)
EXTENDS Manifest, FiniteSetTheorems, TLAPS

(* The members of a set of numbers up to x, and how many there are. *)
UpTo(S, x) == {y \in S : y <= x}

Rank(S, x) == Cardinality(UpTo(S, x))

(* The rank of a member is a place of the enumeration ... *)
LEMMA RankRange ==
    ASSUME NEW S \in SUBSET Nat, IsFiniteSet(S), NEW x \in S
    PROVE  IsFiniteSet(UpTo(S, x)) /\ Rank(S, x) \in 1 .. Cardinality(S)
<1>1. UpTo(S, x) \in SUBSET S /\ x \in UpTo(S, x)
  BY DEF UpTo
<1>2. IsFiniteSet(UpTo(S, x)) /\ Rank(S, x) <= Cardinality(S)
  BY <1>1, FS_Subset DEF Rank
<1>3. Rank(S, x) \in Nat /\ Cardinality(S) \in Nat
  BY <1>2, FS_CardinalityType DEF Rank
<1>4. Rank(S, x) # 0
  BY <1>1, <1>2, FS_EmptySet DEF Rank
<1> QED
  BY <1>2, <1>3, <1>4

(* ... that grows with the member. *)
LEMMA RankGrows ==
    ASSUME NEW S \in SUBSET Nat, IsFiniteSet(S), NEW x \in S, NEW y \in S, x < y
    PROVE  Rank(S, x) < Rank(S, y)
<1>1. UpTo(S, x) \in SUBSET UpTo(S, y) /\ UpTo(S, x) # UpTo(S, y)
  <2>1. x \in Nat /\ y \in Nat /\ \A z \in S : z \in Nat
    OBVIOUS
  <2>2. y \in UpTo(S, y) /\ y \notin UpTo(S, x)
    BY <2>1 DEF UpTo
  <2>3. \A z \in S : z <= x => z <= y
    BY <2>1
  <2> QED
    BY <2>2, <2>3, Zenon DEF UpTo
<1>2. IsFiniteSet(UpTo(S, x)) /\ IsFiniteSet(UpTo(S, y))
  BY RankRange
<1>3. Rank(S, x) <= Rank(S, y) /\ Rank(S, x) # Rank(S, y)
  BY <1>1, <1>2, FS_Subset DEF Rank
<1>4. Rank(S, x) \in Nat /\ Rank(S, y) \in Nat
  BY <1>2, FS_CardinalityType DEF Rank
<1> QED
  BY <1>3, <1>4

(* So every place is the rank of one member. *)
LEMMA RankOnto ==
    ASSUME NEW S \in SUBSET Nat, IsFiniteSet(S), NEW i \in 1 .. Cardinality(S)
    PROVE  \E x \in S : Rank(S, x) = i
<1> DEFINE n == Cardinality(S)
           rank == [x \in S |-> Rank(S, x)]
<1>1. n \in Nat
  BY FS_CardinalityType
<1>2. rank \in [S -> 1 .. n]
  BY RankRange
<1>3. ASSUME NEW x \in S, NEW y \in S, rank[x] = rank[y]
      PROVE  x = y
  <2>1. Rank(S, x) = Rank(S, y) /\ Rank(S, x) \in Nat /\ x \in Nat /\ y \in Nat
    BY <1>1, <1>3, RankRange
  <2>2. ~(x < y) /\ ~(y < x)
    BY <2>1, RankGrows
  <2> QED
    BY <2>1, <2>2
<1>4. rank \in Injection(S, 1 .. n)
  BY <1>2, <1>3 DEF Injection, IsInjective
<1>5. IsFiniteSet(1 .. n) /\ Cardinality(1 .. n) = n
  BY <1>1, FS_Interval
<1>6. rank \in Surjection(S, 1 .. n)
  BY <1>4, <1>5, FS_Injection
<1>7. \E x \in S : rank[x] = i
  BY <1>6, Zenon DEF Surjection
<1> QED
  BY <1>7

(* A strictly ascending sequence of members that leaves none out has every  *)
(* member at the place of its rank.                                         *)
LEMMA PlaceIsRank ==
    ASSUME NEW S \in SUBSET Nat, IsFiniteSet(S), NEW seq \in Seq(S), StrictlySorted(seq),
           \A x \in S : \E i \in 1 .. Len(seq) : seq[i] = x
    PROVE  Len(seq) = Cardinality(S) /\ \A i \in 1 .. Len(seq) : Rank(S, seq[i]) = i
<1> DEFINE n == Len(seq)
<1>1. /\ n \in Nat /\ seq \in [1 .. n -> S]
      /\ \A i, j \in 1 .. n : i < j => seq[i] < seq[j]
      /\ \A i \in 1 .. n : seq[i] \in Nat
  <2>1. n \in Nat /\ seq \in [1 .. n -> S]
    OBVIOUS
  <2>2. \A i, j \in 1 .. n : i < j => seq[i] < seq[j]
    BY DEF StrictlySorted
  <2> QED
    BY <2>1, <2>2, Zenon
<1>2. \A i, j \in 1 .. n : seq[i] = seq[j] => i = j
  BY <1>1
<1>3. ASSUME NEW i \in 1 .. n
      PROVE  Rank(S, seq[i]) = i
  <2> DEFINE part == [k \in 1 .. i |-> seq[k]]
  <2>1. ASSUME NEW k \in 1 .. i
        PROVE  k \in 1 .. n /\ seq[k] \in UpTo(S, seq[i])
    <3>1. k \in 1 .. n /\ (k < i \/ k = i) /\ i \in Nat
      BY <1>1
    <3>2. seq[k] \in S /\ seq[k] \in Nat /\ seq[i] \in Nat /\ seq[k] <= seq[i]
      BY <1>1, <3>1
    <3> QED
      BY <3>1, <3>2 DEF UpTo
  <2>2. ASSUME NEW y \in UpTo(S, seq[i])
        PROVE  \E k \in 1 .. i : part[k] = y
    <3>1. y \in S /\ y <= seq[i] /\ y \in Nat
      BY DEF UpTo
    <3>2. PICK k \in 1 .. n : seq[k] = y
      BY <3>1
    <3>3. ~(i < k)
      BY <1>1, <3>1, <3>2
    <3>4. k \in 1 .. i
      BY <1>1, <3>3
    <3> QED
      BY <3>2, <3>4
  <2>3. part \in [1 .. i -> UpTo(S, seq[i])]
    BY <2>1
  <2>4. \A a, b \in 1 .. i : part[a] = part[b] => a = b
    BY <1>2, <2>1
  <2>5. part \in Injection(1 .. i, UpTo(S, seq[i]))
    BY <2>3, <2>4 DEF Injection, IsInjective
  <2>6. part \in Surjection(1 .. i, UpTo(S, seq[i]))
    BY <2>2, <2>3, Zenon DEF Surjection
  <2>7. seq[i] \in S /\ IsFiniteSet(UpTo(S, seq[i]))
    BY <1>1, RankRange
  <2>8. Cardinality(1 .. i) = Cardinality(UpTo(S, seq[i]))
    BY <2>5, <2>6, <2>7, FS_Injection
  <2>9. Cardinality(1 .. i) = i
    BY <1>1, FS_Interval
  <2> QED
    BY <2>8, <2>9 DEF Rank
<1>4. Len(seq) = Cardinality(S)
  <2>1. seq \in Injection(1 .. n, S)
    BY <1>1, <1>2 DEF Injection, IsInjective
  <2>2. seq \in Surjection(1 .. n, S)
    <3>1. \A x \in S : \E i \in 1 .. n : seq[i] = x
      OBVIOUS
    <3> HIDE DEF n
    <3> QED
      BY <1>1, <3>1, Zenon DEF Surjection
  <2> HIDE DEF n
  <2>3. Cardinality(1 .. n) = Cardinality(S)
    BY <2>1, <2>2, FS_Injection
  <2>4. Cardinality(1 .. n) = n
    BY <1>1, FS_Interval
  <2> QED
    BY <2>3, <2>4 DEF n
<1> QED
  BY <1>3, <1>4

(* Such a sequence exists ... *)
LEMMA OrderExists ==
    ASSUME NEW S \in SUBSET Nat, IsFiniteSet(S)
    PROVE  \E seq \in [1 .. Cardinality(S) -> S] : StrictlySorted(seq)
<1> DEFINE n == Cardinality(S)
           seq == [i \in 1 .. n |-> CHOOSE x \in S : Rank(S, x) = i]
<1>1. n \in Nat
  BY FS_CardinalityType
<1>2. \A i \in 1 .. n : seq[i] \in S /\ Rank(S, seq[i]) = i
  BY RankOnto
<1>3. seq \in [1 .. n -> S]
  BY <1>2
<1>4. Len(seq) = n
  BY <1>1, <1>3
<1> HIDE DEF n, seq
<1>5. ASSUME NEW i \in 1 .. n, NEW j \in 1 .. n, i < j
      PROVE  seq[i] < seq[j]
  <2>1. /\ seq[i] \in S /\ seq[j] \in S /\ seq[i] \in Nat /\ seq[j] \in Nat
        /\ Rank(S, seq[i]) = i /\ Rank(S, seq[j]) = j
    BY <1>2, Zenon
  <2>2. ~(seq[j] < seq[i]) /\ seq[i] # seq[j]
    BY <1>1, <1>5, <2>1, RankGrows
  <2> QED
    BY <2>1, <2>2
<1>6. StrictlySorted(seq)
  BY <1>4, <1>5 DEF StrictlySorted
<1> QED
  BY <1>3, <1>6 DEF n

(* ... and no member is left out of any. *)
LEMMA OrderIsComplete ==
    ASSUME NEW S \in SUBSET Nat, IsFiniteSet(S),
           NEW seq \in [1 .. Cardinality(S) -> S], StrictlySorted(seq)
    PROVE  /\ seq \in Seq(S) /\ Len(seq) = Cardinality(S)
           /\ \A x \in S : \E i \in 1 .. Len(seq) : seq[i] = x
<1> DEFINE n == Cardinality(S)
<1>1. n \in Nat
  BY FS_CardinalityType
<1>2. seq \in Seq(S) /\ Len(seq) = n
  BY <1>1
<1>3. \A i, j \in 1 .. n : i < j => seq[i] < seq[j]
  BY <1>2 DEF StrictlySorted
<1>4. \A i \in 1 .. n : seq[i] \in Nat
  BY Zenon
<1>5. \A i, j \in 1 .. n : seq[i] = seq[j] => i = j
  BY <1>1, <1>3, <1>4
<1>6. seq \in Injection(1 .. n, S)
  BY <1>5 DEF Injection, IsInjective
<1>7. Cardinality(1 .. n) = n
  BY <1>1, FS_Interval
<1>8. seq \in Surjection(1 .. n, S)
  BY <1>6, <1>7, FS_Injection
<1>9. \A x \in S : \E i \in 1 .. n : seq[i] = x
  BY <1>8, Zenon DEF Surjection
<1> QED
  BY <1>2, <1>9

(* std::sort of a set of paths: all of them, in strictly ascending order. *)
LEMMA InOrderSorts ==
    ASSUME NEW S \in SUBSET Nat, IsFiniteSet(S)
    PROVE  /\ InOrder(S) \in Seq(S) /\ Len(InOrder(S)) = Cardinality(S)
           /\ StrictlySorted(InOrder(S))
           /\ \A x \in S : \E i \in 1 .. Len(InOrder(S)) : InOrder(S)[i] = x
<1>1. InOrder(S) \in [1 .. Cardinality(S) -> S] /\ StrictlySorted(InOrder(S))
  BY OrderExists DEF InOrder
<1> QED
  BY <1>1, OrderIsComplete

(* Nothing else is: a strictly ascending sequence with the same members is  *)
(* that very sequence.                                                      *)
LEMMA InOrderUnique ==
    ASSUME NEW S \in SUBSET Nat, IsFiniteSet(S), NEW seq \in Seq(S), StrictlySorted(seq),
           \A x \in S : \E i \in 1 .. Len(seq) : seq[i] = x
    PROVE  seq = InOrder(S)
<1> DEFINE n == Cardinality(S)
           other == InOrder(S)
<1>1. /\ other \in Seq(S) /\ Len(other) = n /\ StrictlySorted(other)
      /\ \A x \in S : \E i \in 1 .. Len(other) : other[i] = x
  BY InOrderSorts
<1> HIDE DEF other
<1>2. Len(seq) = n /\ \A i \in 1 .. n : Rank(S, seq[i]) = i
  BY PlaceIsRank
<1>3. \A i \in 1 .. n : Rank(S, other[i]) = i
  BY <1>1, PlaceIsRank
<1>4. n \in Nat
  BY FS_CardinalityType
<1>5. \A i \in 1 .. n : seq[i] \in S /\ other[i] \in S
  BY <1>1, <1>2
<1>6. ASSUME NEW i \in 1 .. n
      PROVE  seq[i] = other[i]
  <2>1. /\ seq[i] \in S /\ other[i] \in S /\ seq[i] \in Nat /\ other[i] \in Nat
        /\ Rank(S, seq[i]) = i /\ Rank(S, other[i]) = i
    BY <1>2, <1>3, <1>5, Zenon
  <2>2. ~(seq[i] < other[i]) /\ ~(other[i] < seq[i])
    BY <1>4, <2>1, RankGrows
  <2> QED
    BY <2>1, <2>2
<1>7. seq = [i \in 1 .. n |-> seq[i]] /\ other = [i \in 1 .. n |-> other[i]]
  BY <1>1, <1>2, <1>4
<1> QED
  BY <1>6, <1>7 DEF other
-----------------------------------------------------------------------------
(* Manifests.                                                               *)

(* scan_directory lists every file that it found. *)
LEMMA FilesInOrderSorts ==
    ASSUME NEW F, IsFiniteSet(F), \A f \in F : f.path \in Nat,
           \A f, g \in F : f.path = g.path => f = g
    PROVE  /\ FilesInOrder(F) \in Seq(F) /\ StrictlySorted(PathsOf(FilesInOrder(F)))
           /\ \A f \in F : \E i \in 1 .. Len(FilesInOrder(F)) : FilesInOrder(F)[i] = f
<1> DEFINE S == {f.path : f \in F}
           n == Cardinality(F)
           pathOf == [f \in F |-> f.path]
           fileOf == [x \in S |-> CHOOSE f \in F : f.path = x]
           seq == [i \in 1 .. n |-> fileOf[InOrder(S)[i]]]
<1>1. S \in SUBSET Nat
  OBVIOUS
<1>2. IsFiniteSet(S) /\ Cardinality(S) = n /\ n \in Nat
  <2>1. pathOf \in Bijection(F, S)
    BY DEF Bijection, Injection, IsInjective, Surjection
  <2>2. ExistsBijection(F, S)
    BY <2>1 DEF ExistsBijection
  <2> QED
    BY <2>2, FS_Bijection, FS_CardinalityType
<1>3. \A x \in S : fileOf[x] \in F /\ fileOf[x].path = x
  OBVIOUS
<1>4. /\ InOrder(S) \in Seq(S) /\ Len(InOrder(S)) = n /\ StrictlySorted(InOrder(S))
  BY <1>1, <1>2, InOrderSorts
<1> HIDE DEF S, n, fileOf
<1>5. \A i \in 1 .. n : InOrder(S)[i] \in S
  BY <1>2, <1>4
<1>6. seq \in [1 .. n -> F] /\ Len(seq) = n /\ \A i \in 1 .. n : seq[i].path = InOrder(S)[i]
  BY <1>2, <1>3, <1>5
<1> HIDE DEF seq
<1>7. StrictlySorted(PathsOf(seq))
  <2>1. PathsOf(seq) = [i \in 1 .. n |-> seq[i].path] /\ Len(PathsOf(seq)) = n
    BY <1>2, <1>6 DEF PathsOf
  <2> QED
    BY <1>4, <1>6, <2>1 DEF StrictlySorted
<1>8. \E s \in [1 .. n -> F] : StrictlySorted(PathsOf(s))
  BY <1>6, <1>7
<1> DEFINE files == FilesInOrder(F)
<1>9. files \in [1 .. n -> F] /\ StrictlySorted(PathsOf(files))
  BY <1>8 DEF FilesInOrder, n
<1> HIDE DEF files
<1>10. files \in Seq(F) /\ Len(files) = n
  BY <1>2, <1>9
<1>11. \A i, j \in 1 .. n : i < j => files[i].path < files[j].path
  BY <1>2, <1>9, <1>10 DEF StrictlySorted, PathsOf
<1>12. \A i, j \in 1 .. n : files[i] = files[j] => i = j
  <2>1. \A i \in 1 .. n : files[i].path \in Nat
    BY <1>9
  <2> QED
    BY <1>2, <1>11, <2>1
<1>13. files \in Injection(1 .. n, F)
  BY <1>9, <1>12 DEF Injection, IsInjective
<1>14. Cardinality(1 .. n) = n
  BY <1>2, FS_Interval
<1>15. files \in Surjection(1 .. n, F)
  BY <1>13, <1>14, FS_Injection DEF n
<1>16. \A f \in F : \E i \in 1 .. n : files[i] = f
  BY <1>15, Zenon DEF Surjection
<1> QED
  BY <1>9, <1>10, <1>16 DEF files
-----------------------------------------------------------------------------
(* The records of a manifest, and the order of their paths. *)
LEMMA ManifestFacts ==
    ASSUME NEW files, Manifest(files)
    PROVE  /\ Len(files) \in Nat
           /\ \A i \in 1 .. Len(files) : files[i] \in FileRecord /\ files[i].path \in Paths
           /\ \A i, j \in 1 .. Len(files) : i < j => files[i].path < files[j].path
<1>1. files \in Seq(FileRecord) /\ Len(files) \in Nat
  BY DEF Manifest
<1>2. \A i \in 1 .. Len(files) : files[i] \in FileRecord /\ files[i].path \in Paths
  <2>1. \A i \in 1 .. Len(files) : files[i] \in FileRecord
    BY <1>1
  <2>2. \A file \in FileRecord : file.path \in Paths
    BY DEF FileRecord
  <2> QED
    BY <2>1, <2>2
<1>3. Len(PathsOf(files)) = Len(files)
      /\ \A i \in 1 .. Len(files) : PathsOf(files)[i] = files[i].path
  BY <1>1, <1>2 DEF PathsOf
<1> QED
  BY <1>1, <1>2, <1>3 DEF Manifest, StrictlySorted

(* The paths that a plan is to name. *)
OutdatedPaths(source, destination) == {source[i].path : i \in Outdated(source, destination)}

(* No two files of a manifest share a path: as many paths as files. *)
LEMMA OutdatedCounted ==
    ASSUME NEW source, NEW destination, Manifest(source)
    PROVE  /\ OutdatedPaths(source, destination) \in SUBSET Paths
           /\ OutdatedPaths(source, destination) \in SUBSET Nat
           /\ IsFiniteSet(OutdatedPaths(source, destination))
           /\ Cardinality(OutdatedPaths(source, destination)) =
                 Cardinality(Outdated(source, destination))
<1> DEFINE out == Outdated(source, destination)
           paths == OutdatedPaths(source, destination)
           pathOf == [i \in out |-> source[i].path]
<1>1. out \subseteq 1 .. Len(source) /\ IsFiniteSet(out)
  <2>1. out \subseteq 1 .. Len(source)
    BY DEF Outdated
  <2>2. IsFiniteSet(1 .. Len(source))
    BY ManifestFacts, FS_Interval
  <2> QED
    BY <2>1, <2>2, FS_Subset
<1>2. paths = {source[i].path : i \in out}
  BY DEF OutdatedPaths
<1> HIDE DEF out, paths
<1>3. paths \subseteq Paths
  BY <1>1, <1>2, ManifestFacts
<1>4. ASSUME NEW i \in out, NEW j \in out, source[i].path = source[j].path
      PROVE  i = j
  <2>1. i \in 1 .. Len(source) /\ j \in 1 .. Len(source)
    BY <1>1
  <2>2. source[i].path \in Nat /\ source[j].path \in Nat
    BY <2>1, ManifestFacts, ManifestAssumption, Zenon
  <2>3. ~(i < j) /\ ~(j < i)
    BY <1>4, <2>1, <2>2, ManifestFacts
  <2> QED
    BY <2>1, <2>3
<1>5. pathOf \in Surjection(out, paths) /\ pathOf \in Injection(out, paths)
  BY <1>2, <1>4 DEF Surjection, Injection, IsInjective
<1>6. IsFiniteSet(paths) /\ Cardinality(paths) = Cardinality(out)
  BY <1>1, <1>5, FS_Surjection
<1> QED
  BY <1>3, <1>6, ManifestAssumption, Zenon DEF out, paths

(* How many numbers follow a up to b. *)
LEMMA IntervalCounted ==
    ASSUME NEW a \in Nat, NEW b \in Nat, a <= b
    PROVE  IsFiniteSet(a + 1 .. b) /\ Cardinality(a + 1 .. b) = b - a
<1>1. IsFiniteSet(a + 1 .. b)
  BY FS_Interval
<1>2. CASE a = b
  <2>1. (a + 1 .. b) = {}
    BY <1>2
  <2> QED
    BY <1>1, <1>2, <2>1, FS_EmptySet
<1>3. CASE a < b
  <2> DEFINE c == a + 1
  <2>1. c \in Int /\ b \in Int /\ ~(c > b) /\ b - c + 1 = b - a
    BY <1>3
  <2> HIDE DEF c
  <2>2. Cardinality(c .. b) = b - c + 1
    BY <2>1, FS_Interval
  <2> QED
    BY <1>1, <2>1, <2>2 DEF c
<1> QED
  BY <1>2, <1>3

LEMMA WiderSequence ==
    ASSUME NEW S, NEW T, S \in SUBSET T, NEW seq \in Seq(S)
    PROVE  seq \in Seq(T)
  OBVIOUS

(* Files that a scan can have found, each under a path of its own. *)
Listable(F) ==
    /\ IsFiniteSet(F) /\ \A f \in F : f.path \in Nat
    /\ \A f, g \in F : f.path = g.path => f = g

(* A plan lists, in order and once each, the files of a manifest that were  *)
(* not found like so, and counts the others.                                *)
CallsFor(plan, files, F) ==
    /\ plan \in Plan /\ StrictlySorted(plan.upload_paths)
    /\ Len(plan.upload_paths) + plan.unchanged_count = Len(files)
    /\ \A k \in 1 .. Len(plan.upload_paths) :
          \E i \in 1 .. Len(files) : files[i].path = plan.upload_paths[k] /\ files[i] \notin F
    /\ \A i \in 1 .. Len(files) : files[i] \notin F =>
          \E k \in 1 .. Len(plan.upload_paths) : plan.upload_paths[k] = files[i].path

LEMMA PlanForScan ==
    ASSUME NEW files, Manifest(files), NEW F, Listable(F)
    PROVE  CallsFor(PlanOf(files, FilesInOrder(F)), files, F)
<1> DEFINE scan == FilesInOrder(F)
           out == Outdated(files, scan)
           paths == OutdatedPaths(files, scan)
           up == InOrder(paths)
           unchanged == Cardinality(UpToDate(files, scan))
           others == Cardinality(ServerOnly(files, scan))
           plan == PlanOf(files, scan)
<1>1. plan = [upload_paths |-> up, unchanged_count |-> unchanged, server_only_count |-> others]
  BY DEF PlanOf, OutdatedPaths
<1>2. /\ scan \in Seq(F) /\ \A f \in F : \E j \in 1 .. Len(scan) : scan[j] = f
  BY FilesInOrderSorts DEF Listable
<1> HIDE DEF scan, plan
<1>3. Len(scan) \in Nat /\ Len(files) \in Nat /\ \A j \in 1 .. Len(scan) : scan[j] \in F
  BY <1>2, ManifestFacts
<1>4. /\ out \subseteq 1 .. Len(files)
      /\ \A i \in 1 .. Len(files) : i \in out <=> files[i] \notin F
  BY <1>2, <1>3, Zenon DEF Outdated
<1>5. /\ paths \in SUBSET Paths /\ paths \in SUBSET Nat /\ IsFiniteSet(paths)
      /\ Cardinality(paths) = Cardinality(out)
  BY OutdatedCounted
<1>6. paths = {files[i].path : i \in out}
  BY DEF OutdatedPaths
<1>7. UpToDate(files, scan) = (1 .. Len(files)) \ out
  BY DEF UpToDate
<1> HIDE DEF out, paths
<1>8. /\ up \in Seq(paths) /\ Len(up) = Cardinality(paths) /\ StrictlySorted(up)
      /\ \A x \in paths : \E k \in 1 .. Len(up) : up[k] = x
  BY <1>5, InOrderSorts
<1> HIDE DEF up
<1>9. up \in Seq(Paths)
  BY <1>5, <1>8, WiderSequence, Zenon
<1>10. unchanged \in Nat /\ Len(up) + unchanged = Len(files)
  <2> DEFINE places == 1 .. Len(files)
  <2>1. IsFiniteSet(places) /\ Cardinality(places) = Len(files)
    <3>1. IsFiniteSet(0 + 1 .. Len(files)) /\ Cardinality(0 + 1 .. Len(files)) = Len(files) - 0
      BY <1>3, IntervalCounted
    <3> QED
      BY <1>3, <3>1
  <2> HIDE DEF places
  <2>2. out \subseteq places /\ places \cap out = out /\ unchanged = Cardinality(places \ out)
    BY <1>4, <1>7, Zenon DEF places
  <2>3. IsFiniteSet(places \ out) /\ Cardinality(places \ out) = Cardinality(places) - Cardinality(out)
    <3>1. /\ IsFiniteSet(places \ out)
          /\ Cardinality(places \ out) = Cardinality(places) - Cardinality(places \cap out)
      BY <2>1, FS_Difference, ZenonT(30)
    <3> QED
      BY <2>2, <3>1, Zenon
  <2>4. Cardinality(places \ out) \in Nat /\ Cardinality(out) \in Nat
    <3>1. IsFiniteSet(out)
      BY <2>1, <2>2, FS_Subset
    <3> QED
      BY <2>3, <3>1, FS_CardinalityType
  <2> QED
    BY <1>3, <1>5, <1>8, <2>1, <2>2, <2>3, <2>4
<1>11. others \in Nat
  <2>1. IsFiniteSet(1 .. Len(scan)) /\ ServerOnly(files, scan) \subseteq 1 .. Len(scan)
    BY <1>3, FS_Interval DEF ServerOnly
  <2> QED
    BY <2>1, FS_Subset, FS_CardinalityType
<1> HIDE DEF unchanged, others
<1>12. plan \in Plan /\ plan.upload_paths = up /\ plan.unchanged_count = unchanged
  BY <1>1, <1>9, <1>10, <1>11 DEF Plan
<1>13. \A k \in 1 .. Len(up) : up[k] \in paths
  BY <1>8
<1>14. \A k \in 1 .. Len(up) :
          \E i \in 1 .. Len(files) : files[i].path = up[k] /\ files[i] \notin F
  BY <1>4, <1>6, <1>13, Zenon
<1>15. \A i \in 1 .. Len(files) : files[i] \notin F => \E k \in 1 .. Len(up) : up[k] = files[i].path
  BY <1>4, <1>6, <1>8, Zenon
<1> QED
  BY <1>8, <1>10, <1>12, <1>14, <1>15, Zenon DEF CallsFor, plan, scan
=============================================================================
