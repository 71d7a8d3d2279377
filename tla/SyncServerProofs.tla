-------------------------- MODULE SyncServerProofs --------------------------
(***************************************************************************)
(* Theorems about the server's side of a synchronisation: build_sync_plan, *)
(* for manifests of every length over any paths, sizes and checksums, and  *)
(* receive_directory_sync, against any peers and for every value of the    *)
(* constants: what it replaces, and how.                                   *)
(***************************************************************************)
EXTENDS SyncPlan, SyncServer, ManifestProofs, TLAPS

(* up lists, in order, the outdated ones among the first n files. *)
Listed(up, src, dst, n) ==
    /\ \A k \in 1 .. Len(up) :
          \E i \in 1 .. n : i \in Outdated(src, dst) /\ up[k] = src[i].path
    /\ \A i \in 1 .. n : i \in Outdated(src, dst) =>
          \E k \in 1 .. Len(up) : up[k] = src[i].path
    /\ StrictlySorted(up)

(* The loop invariant: whatever lies behind one index has been compared     *)
(* with everything that a later file could be equal to.                     *)
MergeInv ==
    /\ TypeOK
    /\ \A i \in 1 .. source_index :
          \A j \in destination_index + 1 .. Len(destination) :
             source[i].path < destination[j].path
    /\ \A j \in 1 .. destination_index :
          \A i \in source_index + 1 .. Len(source) :
             destination[j].path < source[i].path
    /\ Listed(plan.upload_paths, source, destination, source_index)
    /\ Len(plan.upload_paths) + plan.unchanged_count = source_index
    /\ done => source_index = Len(source)
-----------------------------------------------------------------------------
(* The next file is outdated and listed ... *)
LEMMA ListedAppend ==
    ASSUME NEW src, NEW dst, Manifest(src), NEW up \in Seq(Paths),
           NEW n \in Nat, n < Len(src), Listed(up, src, dst, n),
           n + 1 \in Outdated(src, dst)
    PROVE  Listed(Append(up, src[n + 1].path), src, dst, n + 1)
<1> DEFINE new == Append(up, src[n + 1].path)
<1>1. /\ Len(src) \in Nat /\ src[n + 1].path \in Paths
      /\ \A i, j \in 1 .. Len(src) : i < j => src[i].path < src[j].path
      /\ \A i \in 1 .. Len(src) : src[i].path \in Nat
  <2>1. /\ Len(src) \in Nat
        /\ \A i \in 1 .. Len(src) : src[i] \in FileRecord /\ src[i].path \in Paths
        /\ \A i, j \in 1 .. Len(src) : i < j => src[i].path < src[j].path
    BY ManifestFacts
  <2>2. n + 1 \in 1 .. Len(src)
    BY <2>1
  <2>3. src[n + 1].path \in Paths
    BY <2>1, <2>2
  <2>4. \A i \in 1 .. Len(src) : src[i].path \in Nat
    BY <2>1, ManifestAssumption, Zenon
  <2> QED
    BY <2>1, <2>3, <2>4
<1>2. /\ Len(up) \in Nat /\ Len(new) = Len(up) + 1 /\ new[Len(up) + 1] = src[n + 1].path
      /\ \A k \in 1 .. Len(up) : new[k] = up[k]
  BY <1>1
<1>3. ASSUME NEW k \in 1 .. Len(new)
      PROVE  \E i \in 1 .. n + 1 : i \in Outdated(src, dst) /\ new[k] = src[i].path
  <2>1. CASE k = Len(up) + 1
    BY <1>2, <2>1
  <2>2. CASE k \in 1 .. Len(up)
    <3>1. PICK i \in 1 .. n : i \in Outdated(src, dst) /\ up[k] = src[i].path
      BY <2>2 DEF Listed
    <3> QED
      BY <1>2, <2>2, <3>1
  <2> QED
    BY <1>2, <2>1, <2>2
<1>4. ASSUME NEW i \in 1 .. n + 1, i \in Outdated(src, dst)
      PROVE  \E k \in 1 .. Len(new) : new[k] = src[i].path
  <2>1. CASE i = n + 1
    BY <1>2, <2>1
  <2>2. CASE i \in 1 .. n
    <3>1. PICK k \in 1 .. Len(up) : up[k] = src[i].path
      BY <1>4, <2>2, SMTT(30) DEF Listed
    <3> QED
      BY <1>2, <3>1
  <2> QED
    BY <2>1, <2>2
<1>5. ASSUME NEW k \in 1 .. Len(up)
      PROVE  up[k] < src[n + 1].path
  <2>1. PICK i \in 1 .. n : up[k] = src[i].path
    BY Zenon DEF Listed
  <2> QED
    BY <1>1, <2>1
<1>6. StrictlySorted(new)
  <2> SUFFICES ASSUME NEW i \in 1 .. Len(new), NEW j \in 1 .. Len(new), i < j
               PROVE  new[i] < new[j]
    BY DEF StrictlySorted
  <2>1. i \in 1 .. Len(up)
    BY <1>2
  <2>2. CASE j = Len(up) + 1
    BY <1>2, <1>5, <2>1, <2>2
  <2>3. CASE j \in 1 .. Len(up)
    BY <1>2, <2>1, <2>3 DEF Listed, StrictlySorted
  <2> QED
    BY <1>2, <2>2, <2>3
<1> QED
  BY <1>3, <1>4, <1>6, Zenon DEF Listed

(* ... or it is up to date and skipped. *)
LEMMA ListedSkip ==
    ASSUME NEW src, NEW dst, NEW up, NEW n \in Nat, Listed(up, src, dst, n),
           n + 1 \notin Outdated(src, dst)
    PROVE  Listed(up, src, dst, n + 1)
  BY DEF Listed

(* Nothing has been compared at first. *)
LEMMA InitMergeInv == MergeInit => MergeInv
<1> SUFFICES ASSUME MergeInit PROVE MergeInv
  OBVIOUS
<1>1. Manifest(source) /\ Manifest(destination)
  BY ManifestsAssumption DEF MergeInit
<1>2. Len(source) \in Nat /\ Len(destination) \in Nat
  BY <1>1, ManifestFacts
<1>3. TypeOK
  <2>1. plan \in [upload_paths : Seq(Paths), unchanged_count : Nat, server_only_count : Nat]
    BY DEF MergeInit
  <2>2. source_index \in 0 .. Len(source) /\ destination_index \in 0 .. Len(destination)
    BY <1>2 DEF MergeInit
  <2>3. done \in BOOLEAN
    BY Zenon DEF MergeInit
  <2> QED
    BY <1>1, <2>1, <2>2, <2>3, Zenon DEF TypeOK
<1>4. Listed(<< >>, source, destination, 0)
  BY DEF Listed, StrictlySorted
<1> QED
  BY <1>2, <1>3, <1>4 DEF MergeInit, MergeInv

(* The types and the order of the files the merge looks at. *)
LEMMA MergeFacts ==
    ASSUME MergeInv
    PROVE  /\ Len(source) \in Nat /\ Len(destination) \in Nat
           /\ source_index \in Nat /\ destination_index \in Nat
           /\ source_index <= Len(source) /\ destination_index <= Len(destination)
           /\ \A i \in 1 .. Len(source) : source[i] \in FileRecord /\ source[i].path \in Nat
           /\ \A j \in 1 .. Len(destination) :
                 destination[j] \in FileRecord /\ destination[j].path \in Nat
           /\ \A i, j \in 1 .. Len(source) : i < j => source[i].path < source[j].path
           /\ \A i, j \in 1 .. Len(destination) :
                 i < j => destination[i].path < destination[j].path
           /\ plan.upload_paths \in Seq(Paths)
           /\ plan.unchanged_count \in Nat /\ plan.server_only_count \in Nat
<1>1. TypeOK
  BY DEF MergeInv
<1>2. /\ Len(source) \in Nat
      /\ \A i \in 1 .. Len(source) : source[i] \in FileRecord /\ source[i].path \in Paths
      /\ \A i, j \in 1 .. Len(source) : i < j => source[i].path < source[j].path
  BY <1>1, ManifestFacts DEF TypeOK
<1>3. /\ Len(destination) \in Nat
      /\ \A i \in 1 .. Len(destination) :
            destination[i] \in FileRecord /\ destination[i].path \in Paths
      /\ \A i, j \in 1 .. Len(destination) :
            i < j => destination[i].path < destination[j].path
  BY <1>1, ManifestFacts DEF TypeOK
<1>4. /\ source_index \in 0 .. Len(source) /\ destination_index \in 0 .. Len(destination)
      /\ plan \in [upload_paths : Seq(Paths), unchanged_count : Nat, server_only_count : Nat]
  BY <1>1 DEF TypeOK
<1>5. plan.upload_paths \in Seq(Paths)
      /\ plan.unchanged_count \in Nat /\ plan.server_only_count \in Nat
  BY <1>4
<1>6. /\ source_index \in Nat /\ destination_index \in Nat
      /\ source_index <= Len(source) /\ destination_index <= Len(destination)
  BY <1>2, <1>3, <1>4
<1>7. /\ \A i \in 1 .. Len(source) : source[i].path \in Nat
      /\ \A j \in 1 .. Len(destination) : destination[j].path \in Nat
  BY <1>2, <1>3, ManifestAssumption, Zenon
<1> QED
  BY <1>2, <1>3, <1>5, <1>6, <1>7, Zenon

(* The same facts one by one: the indices, the two manifests, their order. *)
LEMMA IndexFacts ==
    ASSUME MergeInv
    PROVE  /\ Len(source) \in Nat /\ Len(destination) \in Nat
           /\ source_index \in Nat /\ destination_index \in Nat
           /\ source_index <= Len(source) /\ destination_index <= Len(destination)
BY MergeFacts, Zenon

LEMMA SourceFacts ==
    ASSUME MergeInv
    PROVE  /\ \A i \in 1 .. Len(source) : source[i].path \in Nat
           /\ \A i, j \in 1 .. Len(source) : i < j => source[i].path < source[j].path
BY MergeFacts, Zenon

LEMMA DestinationFacts ==
    ASSUME MergeInv
    PROVE  /\ \A j \in 1 .. Len(destination) : destination[j].path \in Nat
           /\ \A i, j \in 1 .. Len(destination) :
                 i < j => destination[i].path < destination[j].path
BY MergeFacts, Zenon

LEMMA OrderFacts ==
    ASSUME MergeInv
    PROVE  /\ \A i \in 1 .. source_index :
                 \A j \in destination_index + 1 .. Len(destination) :
                    source[i].path < destination[j].path
           /\ \A j \in 1 .. destination_index :
                 \A i \in source_index + 1 .. Len(source) :
                    destination[j].path < source[i].path
BY Zenon DEF MergeInv

(* The next file of the source is outdated if it comes before the next file *)
(* of the destination, or there is none.                                    *)
LEMMA NextIsOutdated ==
    ASSUME MergeInv, source_index < Len(source),
           destination_index < Len(destination) => SourceFile.path < DestinationFile.path
    PROVE  source_index + 1 \in Outdated(source, destination)
<1> DEFINE n == source_index + 1
           d == destination_index + 1
<1>1. n \in 1 .. Len(source) /\ n \in source_index + 1 .. Len(source)
  BY IndexFacts
<1>2. ASSUME NEW j \in 1 .. Len(destination)
      PROVE  destination[j].path # source[n].path
  <2>1. CASE j \in 1 .. destination_index
    <3>1. destination[j].path < source[n].path
      BY <1>1, <2>1, OrderFacts
    <3> QED
      BY <1>1, <3>1, SourceFacts, DestinationFacts
  <2>2. CASE j = d
    <3>1. source[n].path < destination[d].path
      BY <2>2, IndexFacts DEF SourceFile, DestinationFile
    <3> QED
      BY <1>1, <2>2, <3>1, SourceFacts, DestinationFacts
  <2>3. CASE j > d
    <3>1. destination_index < Len(destination) /\ d \in 1 .. Len(destination) /\ d < j
      BY <2>3, IndexFacts
    <3>2. destination[d].path < destination[j].path
      BY <3>1, DestinationFacts
    <3>3. source[n].path < destination[d].path
      BY <3>1 DEF SourceFile, DestinationFile
    <3>4. /\ source[n].path \in Nat /\ destination[d].path \in Nat
          /\ destination[j].path \in Nat
      BY <1>1, <3>1, SourceFacts, DestinationFacts
    <3> QED
      BY <3>2, <3>3, <3>4
  <2> QED
    BY <2>1, <2>2, <2>3, IndexFacts
<1> QED
  BY <1>1, <1>2 DEF Outdated

(* A step that uploads the next file. *)
LEMMA UploadStep ==
    ASSUME MergeInv, source_index < Len(source),
           source_index + 1 \in Outdated(source, destination),
           plan' = Uploading(SourceFile.path), source_index' = source_index + 1,
           UNCHANGED <<source, destination, done>>
    PROVE  /\ plan' \in [upload_paths : Seq(Paths), unchanged_count : Nat,
                         server_only_count : Nat]
           /\ Listed(plan'.upload_paths, source, destination, source_index')
           /\ Len(plan'.upload_paths) + plan'.unchanged_count = source_index'
<1> DEFINE up == plan.upload_paths
           new == Append(up, SourceFile.path)
<1>1. plan \in [upload_paths : Seq(Paths), unchanged_count : Nat, server_only_count : Nat]
      /\ Manifest(source)
  BY DEF MergeInv, TypeOK
<1>2. SourceFile.path \in Paths
  BY <1>1, ManifestFacts, MergeFacts DEF SourceFile
<1>3. /\ plan'.upload_paths = new /\ plan'.unchanged_count = plan.unchanged_count
      /\ plan' \in [upload_paths : Seq(Paths), unchanged_count : Nat, server_only_count : Nat]
  <2>1. new \in Seq(Paths)
    BY <1>1, <1>2
  <2>2. plan' = [plan EXCEPT !.upload_paths = new]
    BY <1>1 DEF Uploading
  <2> HIDE DEF new
  <2> QED
    BY <1>1, <2>1, <2>2
<1>4. Listed(new, source, destination, source_index + 1)
  BY <1>1, MergeFacts, ListedAppend DEF MergeInv, SourceFile
<1>5. Len(new) = Len(up) + 1 /\ Len(up) \in Nat
  BY <1>1, <1>2
<1> QED
  BY <1>3, <1>4, <1>5, MergeFacts DEF MergeInv

(* The two conjuncts that order what has been merged before what has not. *)
Ordered ==
    /\ \A i \in 1 .. source_index :
          \A j \in destination_index + 1 .. Len(destination) :
             source[i].path < destination[j].path
    /\ \A j \in 1 .. destination_index :
          \A i \in source_index + 1 .. Len(source) :
             destination[j].path < source[i].path

(* The next source file is uploaded; no destination file is passed. *)
LEMMA MissingStep == MergeInv /\ (Missing \/ Rest) => MergeInv'
<1> SUFFICES ASSUME MergeInv, Missing \/ Rest PROVE MergeInv'
  OBVIOUS
<1>1. /\ source_index < Len(source)
      /\ destination_index < Len(destination) => SourceFile.path < DestinationFile.path
      /\ plan' = Uploading(SourceFile.path) /\ source_index' = source_index + 1
      /\ UNCHANGED <<source, destination, destination_index, done>>
  BY DEF Missing, Rest, Merging
<1>2. /\ plan' \in [upload_paths : Seq(Paths), unchanged_count : Nat, server_only_count : Nat]
      /\ Listed(plan'.upload_paths, source, destination, source_index')
      /\ Len(plan'.upload_paths) + plan'.unchanged_count = source_index'
  BY <1>1, NextIsOutdated, UploadStep
<1>3. TypeOK'
  <2>1. source_index' \in 0 .. Len(source)
    BY <1>1, IndexFacts
  <2> QED
    BY <1>1, <1>2, <2>1 DEF MergeInv, TypeOK
<1>4. Ordered'
  <2>1. ASSUME NEW j \in destination_index + 1 .. Len(destination)
        PROVE  SourceFile.path < destination[j].path
    <3>1. destination_index < Len(destination)
      BY <2>1, IndexFacts
    <3>2. SourceFile.path < DestinationFile.path
      BY <1>1, <3>1
    <3>3. DestinationFile.path <= destination[j].path
      BY <2>1, <3>1, IndexFacts, DestinationFacts DEF DestinationFile
    <3>4. /\ source_index + 1 \in 1 .. Len(source)
          /\ destination_index + 1 \in 1 .. Len(destination)
          /\ j \in 1 .. Len(destination)
      BY <1>1, <3>1, IndexFacts
    <3>5. source[source_index + 1].path \in Nat
      BY <3>4, SourceFacts
    <3>6. destination[destination_index + 1].path \in Nat /\ destination[j].path \in Nat
      BY <3>4, DestinationFacts
    <3> QED
      BY <3>2, <3>3, <3>5, <3>6 DEF SourceFile, DestinationFile
  <2>2. ASSUME NEW i \in 1 .. source_index + 1,
               NEW j \in destination_index + 1 .. Len(destination)
        PROVE  source[i].path < destination[j].path
    <3>1. i = source_index + 1 \/ i \in 1 .. source_index
      BY IndexFacts
    <3> QED
      BY <2>1, <3>1 DEF MergeInv, SourceFile
  <2>3. ASSUME NEW j \in 1 .. destination_index, NEW i \in source_index + 2 .. Len(source)
        PROVE  destination[j].path < source[i].path
    BY IndexFacts, OrderFacts
  <2>4. source_index' + 1 = source_index + 2
    BY <1>1, IndexFacts
  <2> QED
    BY <1>1, <2>2, <2>3, <2>4 DEF Ordered
<1>5. done' => source_index' = Len(source')
  BY <1>1, MergeFacts DEF MergeInv
<1> QED
  BY <1>1, <1>2, <1>3, <1>4, <1>5 DEF MergeInv, Ordered

(* A server-only file is passed; nothing is uploaded. *)
LEMMA ExtraStep == MergeInv /\ Extra => MergeInv'
<1> SUFFICES ASSUME MergeInv, Extra PROVE MergeInv'
  OBVIOUS
<1>1. /\ source_index < Len(source) /\ destination_index < Len(destination)
      /\ DestinationFile.path < SourceFile.path
      /\ destination_index' = destination_index + 1
      /\ UNCHANGED <<source, destination, source_index, done>>
  BY DEF Extra, Merging
<1>2. /\ plan' \in [upload_paths : Seq(Paths), unchanged_count : Nat, server_only_count : Nat]
      /\ plan'.upload_paths = plan.upload_paths
      /\ plan'.unchanged_count = plan.unchanged_count
  BY DEF Extra, MergeInv, TypeOK
<1>3. TypeOK'
  <2>1. destination_index' \in 0 .. Len(destination)
    BY <1>1, IndexFacts
  <2> QED
    BY <1>1, <1>2, <2>1 DEF MergeInv, TypeOK
<1>4. Ordered'
  <2>1. ASSUME NEW i \in source_index + 1 .. Len(source)
        PROVE  DestinationFile.path < source[i].path
    <3>1. /\ source_index + 1 \in 1 .. Len(source) /\ i \in 1 .. Len(source)
          /\ destination_index + 1 \in 1 .. Len(destination)
          /\ i = source_index + 1 \/ source_index + 1 < i
      BY <1>1, <2>1, IndexFacts
    <3>2. i = source_index + 1 \/ source[source_index + 1].path < source[i].path
      BY <3>1, SourceFacts
    <3>3. source[source_index + 1].path \in Nat /\ source[i].path \in Nat
      BY <3>1, SourceFacts
    <3>4. destination[destination_index + 1].path \in Nat
      BY <3>1, DestinationFacts
    <3>5. destination[destination_index + 1].path < source[source_index + 1].path
      BY <1>1 DEF SourceFile, DestinationFile
    <3>6. destination[destination_index + 1].path < source[i].path
      BY <3>2, <3>3, <3>4, <3>5
    <3> QED
      BY <3>6 DEF DestinationFile
  <2>2. ASSUME NEW j \in 1 .. destination_index + 1, NEW i \in source_index + 1 .. Len(source)
        PROVE  destination[j].path < source[i].path
    <3>1. j = destination_index + 1 \/ j \in 1 .. destination_index
      BY IndexFacts
    <3> QED
      BY <2>1, <3>1 DEF MergeInv, DestinationFile
  <2>3. ASSUME NEW i \in 1 .. source_index,
               NEW j \in destination_index + 2 .. Len(destination)
        PROVE  source[i].path < destination[j].path
    BY IndexFacts, OrderFacts
  <2>4. destination_index' + 1 = destination_index + 2
    BY <1>1, IndexFacts
  <2> QED
    BY <1>1, <2>2, <2>3, <2>4 DEF Ordered
<1> QED
  BY <1>1, <1>2, <1>3, <1>4 DEF MergeInv, Ordered

(* Both manifests name the file: it is unchanged, or it is uploaded. *)
LEMMA InBothStep == MergeInv /\ InBoth => MergeInv'
<1> SUFFICES ASSUME MergeInv, InBoth PROVE MergeInv'
  OBVIOUS
<1> DEFINE n == source_index + 1
           d == destination_index + 1
<1>1. /\ source_index < Len(source) /\ destination_index < Len(destination)
      /\ source[n].path = destination[d].path
      /\ source_index' = n /\ destination_index' = d
      /\ UNCHANGED <<source, destination, done>>
  BY DEF InBoth, Merging, SourceFile, DestinationFile
<1>2. n \in 1 .. Len(source) /\ d \in 1 .. Len(destination)
  BY <1>1, IndexFacts
<1>3. ASSUME NEW j \in 1 .. Len(destination), j # d
      PROVE  destination[j].path # source[n].path
  <2>1. j < d => destination[j].path < destination[d].path
    BY <1>2, DestinationFacts
  <2>2. j > d => destination[d].path < destination[j].path
    BY <1>2, DestinationFacts
  <2> QED
    BY <1>1, <1>2, <1>3, <2>1, <2>2, IndexFacts, DestinationFacts
<1>4. Same <=> destination[d] = source[n]
  <2>1. ASSUME NEW a \in FileRecord, NEW b \in FileRecord, a.path = b.path
        PROVE  a.size = b.size /\ a.checksum = b.checksum <=> b = a
    BY <2>1 DEF FileRecord
  <2>2. source[n] \in FileRecord /\ destination[d] \in FileRecord
    BY <1>2, MergeFacts
  <2> QED
    BY <1>1, <2>1, <2>2 DEF Same, SourceFile, DestinationFile
<1>5. n \in Outdated(source, destination) <=> ~Same
  BY <1>2, <1>3, <1>4 DEF Outdated
<1>6. /\ plan' \in [upload_paths : Seq(Paths), unchanged_count : Nat, server_only_count : Nat]
      /\ Listed(plan'.upload_paths, source, destination, source_index')
      /\ Len(plan'.upload_paths) + plan'.unchanged_count = source_index'
  <2>1. CASE ~Same
    BY <1>1, <1>5, <2>1, UploadStep DEF InBoth
  <2>2. CASE Same
    <3>1. plan' = [plan EXCEPT !.unchanged_count = @ + 1]
      BY <2>2 DEF InBoth
    <3>2. /\ plan' \in [upload_paths : Seq(Paths), unchanged_count : Nat,
                        server_only_count : Nat]
          /\ plan'.upload_paths = plan.upload_paths
          /\ plan'.unchanged_count = plan.unchanged_count + 1
      BY <3>1 DEF MergeInv, TypeOK
    <3>3. Listed(plan.upload_paths, source, destination, n)
      BY <1>5, <2>2, ListedSkip, MergeFacts DEF MergeInv
    <3>4. Len(plan.upload_paths) \in Nat /\ plan.unchanged_count \in Nat
      BY MergeFacts
    <3>5. Len(plan.upload_paths) + plan.unchanged_count = source_index
      BY DEF MergeInv
    <3>6. Len(plan.upload_paths) + (plan.unchanged_count + 1) = source_index + 1
      BY <3>4, <3>5
    <3>7. source_index' = source_index + 1
      BY <1>1
    <3> QED
      BY <3>2, <3>3, <3>6, <3>7
  <2> QED
    BY <2>1, <2>2
<1>7. TypeOK'
  <2>1. source_index' \in 0 .. Len(source) /\ destination_index' \in 0 .. Len(destination)
    BY <1>1, IndexFacts
  <2> QED
    BY <1>1, <1>6, <2>1 DEF MergeInv, TypeOK
<1>8. Ordered'
  <2>1. ASSUME NEW j \in d + 1 .. Len(destination)
        PROVE  source[n].path < destination[j].path
    <3>1. j \in 1 .. Len(destination) /\ d < j
      BY <2>1, IndexFacts
    <3>2. destination[d].path < destination[j].path
      BY <1>2, <3>1, DestinationFacts
    <3> QED
      BY <1>1, <3>2
  <2>2. ASSUME NEW i \in n + 1 .. Len(source)
        PROVE  destination[d].path < source[i].path
    <3>1. i \in 1 .. Len(source) /\ n < i
      BY <2>2, IndexFacts
    <3>2. source[n].path < source[i].path
      BY <1>2, <3>1, SourceFacts
    <3> QED
      BY <1>1, <3>2
  <2>3. ASSUME NEW i \in 1 .. n, NEW j \in d + 1 .. Len(destination)
        PROVE  source[i].path < destination[j].path
    <3>1. i = n \/ i \in 1 .. source_index
      BY IndexFacts
    <3>2. j \in d .. Len(destination)
      BY IndexFacts
    <3> QED
      BY <2>1, <3>1, <3>2 DEF MergeInv
  <2>4. ASSUME NEW j \in 1 .. d, NEW i \in n + 1 .. Len(source)
        PROVE  destination[j].path < source[i].path
    <3>1. j = d \/ j \in 1 .. destination_index
      BY IndexFacts
    <3>2. i \in n .. Len(source)
      BY IndexFacts
    <3> QED
      BY <2>2, <3>1, <3>2 DEF MergeInv
  <2> QED
    BY <1>1, <2>3, <2>4 DEF Ordered
<1>9. done' => source_index' = Len(source')
  BY <1>1, MergeFacts DEF MergeInv
<1> QED
  BY <1>1, <1>6, <1>7, <1>8, <1>9 DEF MergeInv, Ordered

(* The files left over are server-only ones: the uploads stay as they are. *)
LEMMA ReturnStep == MergeInv /\ Return => MergeInv'
<1> SUFFICES ASSUME MergeInv, Return PROVE MergeInv'
  OBVIOUS
<1>1. /\ source_index = Len(source) /\ done' = TRUE
      /\ UNCHANGED <<source, destination, source_index, destination_index>>
  BY DEF Return
<1>2. /\ plan' \in [upload_paths : Seq(Paths), unchanged_count : Nat, server_only_count : Nat]
      /\ plan'.upload_paths = plan.upload_paths
      /\ plan'.unchanged_count = plan.unchanged_count
  <2>1. plan \in [upload_paths : Seq(Paths), unchanged_count : Nat, server_only_count : Nat]
    BY DEF MergeInv, TypeOK
  <2>2. plan.server_only_count + (Len(destination) - destination_index) \in Nat
    BY <2>1, IndexFacts
  <2>3. plan' = [plan EXCEPT !.server_only_count =
                    plan.server_only_count + (Len(destination) - destination_index)]
    BY DEF Return
  <2> QED
    BY <2>1, <2>2, <2>3
<1>3. TypeOK'
  BY <1>1, <1>2 DEF MergeInv, TypeOK
<1> QED
  BY <1>1, <1>2, <1>3 DEF MergeInv
-----------------------------------------------------------------------------
(* The loop invariant holds throughout build_sync_plan. *)
THEOREM MergeInvariance == MergeSpec => []MergeInv
<1>1. MergeInv /\ UNCHANGED mergeVars => MergeInv'
  BY DEF mergeVars, MergeInv, TypeOK
<1>2. MergeInv /\ [MergeNext]_mergeVars => MergeInv'
  BY <1>1, MissingStep, ExtraStep, InBothStep, ReturnStep DEF MergeNext
<1> QED
  BY <1>2, InitMergeInv, PTL DEF MergeSpec

(* The client accepts every plan that build_sync_plan makes for its         *)
(* manifest.                                                                *)
THEOREM PlanAccepted == MergeSpec => []PlanIsAccepted
<1>1. MergeInv => PlanIsAccepted
  <2> SUFFICES ASSUME MergeInv, done PROVE PlanIsAccepted
    BY DEF PlanIsAccepted
  <2> QED
    BY MergeFacts DEF MergeInv, PlanIsAccepted, Listed
<1> QED
  BY <1>1, MergeInvariance, PTL

-----------------------------------------------------------------------------
(* The server-only ones among the first n files of the destination. *)
ServerOnlyUpTo(n) == {j \in ServerOnly(source, destination) : j <= n}

(* The count of server-only files is exact for the files that have been     *)
(* passed, and for all of them at the end.                                  *)
CountInv ==
    plan.server_only_count =
        Cardinality(IF done THEN ServerOnly(source, destination)
                            ELSE ServerOnlyUpTo(destination_index))

(* The places of a manifest are finitely many. *)
LEMMA ServerOnlyFinite ==
    ASSUME MergeInv
    PROVE  /\ ServerOnly(source, destination) \subseteq 1 .. Len(destination)
           /\ IsFiniteSet(ServerOnly(source, destination))
           /\ \A n \in Nat : IsFiniteSet(ServerOnlyUpTo(n))
<1>1. ServerOnly(source, destination) \subseteq 1 .. Len(destination)
  BY DEF ServerOnly
<1>2. IsFiniteSet(1 .. Len(destination))
  BY IndexFacts, FS_Interval
<1>3. IsFiniteSet(ServerOnly(source, destination))
  BY <1>1, <1>2, FS_Subset
<1>4. \A n \in Nat : ServerOnlyUpTo(n) \subseteq ServerOnly(source, destination)
  BY DEF ServerOnlyUpTo
<1> QED
  BY <1>1, <1>3, <1>4, FS_Subset

(* The file that Extra counts is on the server only. *)
LEMMA ExtraIsServerOnly ==
    ASSUME MergeInv, Extra
    PROVE  destination_index + 1 \in ServerOnly(source, destination)
<1> DEFINE n == source_index + 1
           d == destination_index + 1
<1>1. /\ destination[d].path < source[n].path
      /\ n \in 1 .. Len(source) /\ d \in 1 .. Len(destination)
  BY IndexFacts DEF Extra, Merging, SourceFile, DestinationFile
<1>2. ASSUME NEW i \in 1 .. Len(source)
      PROVE  source[i].path # destination[d].path
  <2>1. source[i].path \in Nat /\ source[n].path \in Nat /\ destination[d].path \in Nat
    BY <1>1, SourceFacts, DestinationFacts
  <2>2. CASE i \in 1 .. source_index
    <3>1. d \in destination_index + 1 .. Len(destination)
      BY <1>1, IndexFacts
    <3>2. source[i].path < destination[d].path
      BY <2>2, <3>1, OrderFacts
    <3> QED
      BY <2>1, <3>2
  <2>3. CASE i = n
    BY <1>1, <2>1, <2>3
  <2>4. CASE n < i
    <3>1. source[n].path < source[i].path
      BY <1>1, <2>4, SourceFacts
    <3> QED
      BY <1>1, <2>1, <3>1
  <2> QED
    BY <2>2, <2>3, <2>4, IndexFacts
<1> QED
  BY <1>1, <1>2 DEF ServerOnly

(* Once the source is exhausted, what is left of the destination is on the  *)
(* server only.                                                             *)
LEMMA RestIsServerOnly ==
    ASSUME MergeInv, source_index = Len(source),
           NEW j \in destination_index + 1 .. Len(destination)
    PROVE  j \in ServerOnly(source, destination)
<1>1. j \in 1 .. Len(destination)
  BY IndexFacts
<1>2. ASSUME NEW i \in 1 .. Len(source)
      PROVE  source[i].path # destination[j].path
  <2>1. source[i].path < destination[j].path
    BY OrderFacts
  <2>2. source[i].path \in Nat /\ destination[j].path \in Nat
    BY <1>1, SourceFacts, DestinationFacts
  <2> QED
    BY <2>1, <2>2
<1> QED
  BY <1>1, <1>2 DEF ServerOnly

(* Missing and Rest pass no file of the destination. *)
LEMMA MissingCount == MergeInv /\ CountInv /\ (Missing \/ Rest) => CountInv'
<1> SUFFICES ASSUME MergeInv, CountInv, Missing \/ Rest PROVE CountInv'
  OBVIOUS
<1>1. plan' = Uploading(SourceFile.path)
      /\ UNCHANGED <<source, destination, destination_index, done>>
  BY DEF Missing, Rest
<1>2. plan'.server_only_count = plan.server_only_count
  BY <1>1 DEF MergeInv, TypeOK, Uploading
<1> QED
  BY <1>1, <1>2 DEF CountInv, ServerOnlyUpTo

(* A merge that goes on is not done. *)
LEMMA MergingNotDone == MergeInv /\ Merging => ~done
  BY IndexFacts DEF MergeInv, Merging

(* Extra passes a file that is on the server only, and counts it. *)
LEMMA ExtraCount == MergeInv /\ CountInv /\ Extra => CountInv'
<1> SUFFICES ASSUME MergeInv, CountInv, Extra PROVE CountInv'
  OBVIOUS
<1> DEFINE d == destination_index + 1
<1>1. /\ ~done /\ destination_index' = d
      /\ plan'.server_only_count = plan.server_only_count + 1
      /\ UNCHANGED <<source, destination, done>>
  BY MergingNotDone DEF Extra, MergeInv, TypeOK
<1>2. ServerOnlyUpTo(d) = ServerOnlyUpTo(destination_index) \cup {d}
      /\ d \notin ServerOnlyUpTo(destination_index)
  <2>1. d \in ServerOnly(source, destination)
    BY ExtraIsServerOnly
  <2> QED
    BY <2>1, ServerOnlyFinite, IndexFacts DEF ServerOnlyUpTo
<1>3. Cardinality(ServerOnlyUpTo(d)) = Cardinality(ServerOnlyUpTo(destination_index)) + 1
  BY <1>2, ServerOnlyFinite, IndexFacts, FS_AddElement
<1> QED
  BY <1>1, <1>3 DEF CountInv, ServerOnlyUpTo

(* InBoth passes a file that is not. *)
LEMMA InBothCount == MergeInv /\ CountInv /\ InBoth => CountInv'
<1> SUFFICES ASSUME MergeInv, CountInv, InBoth PROVE CountInv'
  OBVIOUS
<1> DEFINE n == source_index + 1
           d == destination_index + 1
<1>1. /\ ~done /\ destination_index' = d
      /\ plan'.server_only_count = plan.server_only_count
      /\ UNCHANGED <<source, destination, done>>
  BY MergingNotDone DEF InBoth, Uploading, MergeInv, TypeOK
<1>2. source[n].path = destination[d].path /\ n \in 1 .. Len(source)
  BY IndexFacts DEF InBoth, Merging, SourceFile, DestinationFile
<1>3. d \notin ServerOnly(source, destination)
  BY <1>2 DEF ServerOnly
<1>4. ServerOnlyUpTo(d) = ServerOnlyUpTo(destination_index)
  BY <1>3, ServerOnlyFinite, IndexFacts DEF ServerOnlyUpTo
<1> QED
  BY <1>1, <1>4 DEF CountInv, ServerOnlyUpTo

(* Return adds the number of the files that are left. *)
LEMMA ReturnCount == MergeInv /\ CountInv /\ Return => CountInv'
<1> SUFFICES ASSUME MergeInv, CountInv, Return PROVE CountInv'
  OBVIOUS
<1> DEFINE all == ServerOnly(source, destination)
           passed == ServerOnlyUpTo(destination_index)
           left == destination_index + 1 .. Len(destination)
<1>1. /\ ~done /\ done' /\ source_index = Len(source)
      /\ plan'.server_only_count =
            plan.server_only_count + (Len(destination) - destination_index)
      /\ UNCHANGED <<source, destination>>
  BY DEF Return, MergeInv, TypeOK
<1>2. all = passed \cup left /\ passed \cap left = {}
  <2>1. left \subseteq all
    BY <1>1, RestIsServerOnly
  <2> QED
    BY <2>1, ServerOnlyFinite, IndexFacts DEF ServerOnlyUpTo
<1>3. IsFiniteSet(left) /\ Cardinality(left) = Len(destination) - destination_index
  BY IndexFacts, IntervalCounted, Zenon
<1>4. IsFiniteSet(passed)
  BY ServerOnlyFinite, IndexFacts
<1>5. Cardinality(all) = Cardinality(passed) + Cardinality(left)
  <2>1. Cardinality(all) = Cardinality(passed) + Cardinality(left) - Cardinality({})
    BY <1>2, <1>3, <1>4, FS_Union, ZenonT(30)
  <2> QED
    BY <1>3, <1>4, <2>1, FS_EmptySet, FS_CardinalityType
<1> QED
  BY <1>1, <1>3, <1>5 DEF CountInv

(* The counts are exact throughout build_sync_plan. *)
THEOREM CountInvariance == MergeSpec => []CountInv
<1>1. MergeInit => CountInv
  <2> SUFFICES ASSUME MergeInit PROVE CountInv
    OBVIOUS
  <2>1. ServerOnlyUpTo(0) = {}
    BY InitMergeInv, ServerOnlyFinite, IndexFacts DEF ServerOnlyUpTo
  <2> QED
    BY <2>1, FS_EmptySet, Zenon DEF MergeInit, CountInv
<1>2. CountInv /\ UNCHANGED mergeVars => CountInv'
  BY DEF mergeVars, CountInv, ServerOnlyUpTo
<1>3. MergeInv /\ CountInv /\ [MergeNext]_mergeVars => CountInv'
  BY <1>2, MissingCount, ExtraCount, InBothCount, ReturnCount DEF MergeNext
<1> QED
  BY <1>1, <1>3, MergeInvariance, PTL DEF MergeSpec
-----------------------------------------------------------------------------
(* At the end the uploads are the outdated files, in order. *)
LEMMA UploadsExact ==
    ASSUME MergeInv, done
    PROVE  plan.upload_paths = InOrder(OutdatedPaths(source, destination))
<1> DEFINE up == plan.upload_paths
           paths == OutdatedPaths(source, destination)
<1>1. Listed(up, source, destination, Len(source)) /\ up \in Seq(Paths)
  BY MergeFacts DEF MergeInv
<1> HIDE DEF up
<1>2. Outdated(source, destination) \subseteq 1 .. Len(source)
  BY DEF Outdated
<1>3. \A k \in 1 .. Len(up) : up[k] \in paths
  BY <1>1, Zenon DEF Listed, OutdatedPaths
<1>4. \A x \in paths : \E k \in 1 .. Len(up) : up[k] = x
  BY <1>1, <1>2, SMTT(30) DEF Listed, OutdatedPaths
<1>5. up \in Seq(paths)
  BY <1>1, <1>3
<1> QED
  <2>1. Manifest(source)
    BY DEF MergeInv, TypeOK
  <2>2. paths \in SUBSET Nat /\ IsFiniteSet(paths)
    BY <2>1, OutdatedCounted
  <2>3. StrictlySorted(up)
    BY <1>1 DEF Listed
  <2> QED
    BY <1>4, <1>5, <2>2, <2>3, InOrderUnique, Zenon DEF up

(* Whatever is not uploaded was counted as unchanged. *)
LEMMA UnchangedExact ==
    ASSUME MergeInv, done
    PROVE  plan.unchanged_count = Cardinality(UpToDate(source, destination))
<1> DEFINE out == Outdated(source, destination)
<1>1. out \subseteq 1 .. Len(source)
  BY DEF Outdated
<1>2. IsFiniteSet(1 .. Len(source)) /\ Cardinality(1 .. Len(source)) = Len(source)
  <2>1. IsFiniteSet(0 + 1 .. Len(source)) /\ Cardinality(0 + 1 .. Len(source)) = Len(source) - 0
    <3>1. 0 \in Nat /\ 0 <= Len(source)
      BY IndexFacts
    <3> QED
      BY <3>1, IndexFacts, IntervalCounted, Zenon
  <2>2. (0 + 1 .. Len(source)) = (1 .. Len(source)) /\ Len(source) - 0 = Len(source)
    BY IndexFacts
  <2> QED
    BY <2>1, <2>2
<1>3. Cardinality(UpToDate(source, destination)) = Len(source) - Cardinality(out)
  <2> DEFINE places == 1 .. Len(source)
  <2>1. places \cap out = out /\ UpToDate(source, destination) = places \ out
    BY <1>1 DEF UpToDate
  <2>2. IsFiniteSet(places) /\ Cardinality(places) = Len(source)
    BY <1>2
  <2> HIDE DEF places, out
  <2>3. Cardinality(places \ out) = Cardinality(places) - Cardinality(places \cap out)
    BY <2>2, FS_Difference, Zenon
  <2> QED
    BY <2>1, <2>2, <2>3, Zenon
<1>4. Len(plan.upload_paths) = Cardinality(out)
  <2>1. Manifest(source)
    BY DEF MergeInv, TypeOK
  <2> QED
    BY <2>1, UploadsExact, OutdatedCounted, InOrderSorts
<1>5. Len(plan.upload_paths) + plan.unchanged_count = Len(source)
  BY DEF MergeInv
<1> QED
  BY <1>3, <1>4, <1>5, MergeFacts

(* build_sync_plan makes, in its single forward pass over two manifests of  *)
(* any length, the plan they call for: every file that the server misses or *)
(* holds in another version, once and in order, and exact counts of the     *)
(* others.                                                                  *)
THEOREM PlanExact == MergeSpec => []PlanIsExact
<1>1. MergeInv /\ CountInv => PlanIsExact
  <2> SUFFICES ASSUME MergeInv, CountInv, done PROVE plan = PlanOf(source, destination)
    BY DEF PlanIsExact
  <2>1. plan.server_only_count = Cardinality(ServerOnly(source, destination))
    BY DEF CountInv
  <2>2. plan \in [upload_paths : Seq(Paths), unchanged_count : Nat, server_only_count : Nat]
    BY DEF MergeInv, TypeOK
  <2>3. plan = [upload_paths |-> plan.upload_paths, unchanged_count |-> plan.unchanged_count,
                server_only_count |-> plan.server_only_count]
    BY <2>2
  <2> QED
    BY <2>1, <2>3, UploadsExact, UnchangedExact DEF PlanOf, OutdatedPaths
<1> QED
  BY <1>1, MergeInvariance, CountInvariance, PTL
-----------------------------------------------------------------------------
(* The places of the uploads that have not been renamed yet. *)
Awaited ==
    {k \in 1 .. Len(srv.plan.upload_paths) :
        k > IF srv.pc = "commit" THEN srv.index + 1 ELSE srv.index}

(* The mutex keeps the plan true: what a session has still to receive is as *)
(* outdated as it was when the destination was scanned.                     *)
PlanHolds ==
    /\ StrictlySorted(srv.plan.upload_paths)
    /\ srv.pc = "commit" => FilesLeft
    /\ \A k \in Awaited : NamesOutdated(srv.source, srv.plan.upload_paths[k])

SyncInv ==
    /\ dest \in Tree
    /\ commits \in [Paths -> Nat]
    /\ c2s \in [Conns -> Seq(PeerFrames)]
    /\ srv # NoSync => srv \in Session /\ PlanHolds
-----------------------------------------------------------------------------
(* What a queue gives and takes. *)
LEMMA QueueFacts ==
    ASSUME NEW S, NEW q \in Seq(S)
    PROVE  /\ q # << >> => Head(q) \in S /\ Tail(q) \in Seq(S)
           /\ \A x \in S : Append(q, x) \in Seq(S)
           /\ \A r \in Survivors(q) : r \in Seq(S)
<1>1. ASSUME NEW n \in 0 .. Len(q)
      PROVE  SubSeq(q, 1, n) \in Seq(S)
  OBVIOUS
<1>2. \A r \in Survivors(q) : r \in Seq(S)
  BY <1>1 DEF Survivors
<1> QED
  BY <1>2

(* What scan_directory finds in a tree. *)
LEMMA ScanFacts ==
    ASSUME NEW tree \in Tree
    PROVE  ScanDirectory(tree) = FilesInOrder(RecordsOf(tree)) /\ Listable(RecordsOf(tree))
<1> DEFINE held == {q \in Paths : tree[q] # NoFile}
           record(p) == [path |-> p, size |-> SizeOf(tree[p]), checksum |-> ChecksumOf(tree[p])]
           files == {record(p) : p \in held}
           recordOf == [p \in held |-> record(p)]
<1>1. IsFiniteSet(held)
  BY SyncAssumption, FS_Subset
<1>2. recordOf \in Surjection(held, files)
  BY DEF Surjection
<1>3. IsFiniteSet(files)
  BY <1>1, <1>2, FS_Surjection
<1>4. \A f \in files : f.path \in Nat
  BY ManifestAssumption
<1>5. \A f, g \in files : f.path = g.path => f = g
  OBVIOUS
<1> QED
  BY <1>3, <1>4, <1>5, Zenon DEF ScanDirectory, RecordsOf, Listable

(* A manifest names a path with another size or checksum than it has in a   *)
(* tree.                                                                    *)
IsOutdated(files, tree, p) ==
    /\ \E i \in 1 .. Len(files) : files[i].path = p
    /\ tree[p] # NoFile => \A i \in 1 .. Len(files) :
          files[i] # [path |-> p, size |-> SizeOf(tree[p]), checksum |-> ChecksumOf(tree[p])]

(* A plan for the scanned destination names, in order and once each, files  *)
(* that the manifest has in another version than the tree.                  *)
LEMMA PlanSound ==
    ASSUME NEW tree \in Tree, NEW files, Manifest(files),
           NEW todo, todo = PlanOf(files, ScanDirectory(tree))
    PROVE  /\ todo \in Plan /\ StrictlySorted(todo.upload_paths)
           /\ \A k \in 1 .. Len(todo.upload_paths) :
                 IsOutdated(files, tree, todo.upload_paths[k])
<1> DEFINE up == todo.upload_paths
<1>1. /\ todo \in Plan /\ StrictlySorted(up)
      /\ \A k \in 1 .. Len(up) :
            \E i \in 1 .. Len(files) : files[i].path = up[k] /\ files[i] \notin RecordsOf(tree)
  <2>1. CallsFor(todo, files, RecordsOf(tree))
    BY ScanFacts, PlanForScan
  <2> QED
    BY <2>1, Zenon DEF CallsFor
<1>2. ASSUME NEW k \in 1 .. Len(up)
      PROVE  IsOutdated(files, tree, up[k])
  <2> DEFINE p == up[k]
             record == [path |-> p, size |-> SizeOf(tree[p]), checksum |-> ChecksumOf(tree[p])]
  <2>1. p \in Paths
    BY <1>1 DEF Plan
  <2>2. PICK i \in 1 .. Len(files) : files[i].path = p /\ files[i] \notin RecordsOf(tree)
    BY <1>1
  <2>3. record.path = p
    OBVIOUS
  <2>4. tree[p] # NoFile => record \in RecordsOf(tree)
    BY <2>1, Zenon DEF RecordsOf
  <2> HIDE DEF record, p
  <2>5. ASSUME tree[p] # NoFile, NEW h \in 1 .. Len(files), files[h] = record
        PROVE  FALSE
    <3>1. files[h].path = files[i].path /\ files[h].path \in Nat
      BY <2>2, <2>3, <2>5, ManifestFacts, ManifestAssumption, Zenon
    <3>2. ~(h < i) /\ ~(i < h)
      BY <2>2, <3>1, ManifestFacts
    <3>3. h = i
      BY <2>2, <3>2, ManifestFacts
    <3> QED
      BY <2>2, <2>4, <2>5, <3>3
  <2> QED
    BY <2>2, <2>5, Zenon DEF record, p, IsOutdated
<1> QED
  BY <1>1, <1>2
-----------------------------------------------------------------------------
(* One queue changes. *)
LEMMA QueueChanged ==
    ASSUME c2s \in [Conns -> Seq(PeerFrames)], NEW c \in Conns, NEW q \in Seq(PeerFrames),
           c2s' = [c2s EXCEPT ![c] = q]
    PROVE  c2s' \in [Conns -> Seq(PeerFrames)]
  OBVIOUS

(* Whatever happens, a queue holds frames of the peers. *)
LEMMA QueuesTyped ==
    ASSUME SyncInv, [Next]_vars
    PROVE  c2s' \in [Conns -> Seq(PeerFrames)]
<1>1. c2s \in [Conns -> Seq(PeerFrames)]
  BY DEF SyncInv
<1>2. ASSUME NEW c \in Conns, HasFrame(c2s, c), c2s' = Consumed(c2s, c)
      PROVE  c2s' \in [Conns -> Seq(PeerFrames)]
  <2>1. Tail(c2s[c]) \in Seq(PeerFrames)
    BY <1>1, <1>2, QueueFacts DEF HasFrame
  <2>2. c2s' = [c2s EXCEPT ![c] = Tail(c2s[c])]
    BY <1>2 DEF Consumed
  <2> QED
    BY <1>1, <2>1, <2>2, QueueChanged
<1>3. ASSUME SessionStep(TRUE)
      PROVE  c2s' \in [Conns -> Seq(PeerFrames)]
  <2>1. srv # NoSync
    BY <1>3, Zenon DEF SessionStep, SendPlan, SendPlanFails, RejectUnplanned, RenameFile,
         CommitFile, ReceiveFileFails, CommitFileFails, VerifyDestination, RecvInterrupted, At
  <2>2. srv.conn \in Conns
    BY <2>1 DEF SyncInv, Session
  <2>3. \/ UNCHANGED c2s
        \/ HasFrame(c2s, srv.conn) /\ c2s' = Consumed(c2s, srv.conn)
    <3>1. CASE RejectUnplanned \/ RenameFile \/ ReceiveFileFails(TRUE) \/ VerifyDestination
      BY <3>1, Zenon DEF RejectUnplanned, RenameFile, ReceiveFileFails, VerifyDestination,
           ServerReceives
    <3>2. CASE SendPlan \/ CommitFile \/ CommitFileFails
      BY <3>2, Zenon DEF SendPlan, CommitFile, CommitFileFails
    <3>3. CASE SendPlanFails \/ RecvInterrupted
      BY <3>3, Zenon DEF SendPlanFails, RecvInterrupted, wireVars
    <3> QED
      BY <1>3, <3>1, <3>2, <3>3, Zenon DEF SessionStep
  <2> QED
    BY <1>1, <1>2, <2>2, <2>3
<1>4. ASSUME NEW c \in Conns, RefuseFirstFrame(c) \/ StartSync(c) \/ CloseServed(c)
      PROVE  c2s' \in [Conns -> Seq(PeerFrames)]
  <2>1. \/ UNCHANGED c2s
        \/ HasFrame(c2s, c) /\ c2s' = Consumed(c2s, c)
        \/ c2s' = [c2s EXCEPT ![c] = << >>]
    BY <1>4, Zenon DEF RefuseFirstFrame, StartSync, CloseServed, ServerEndClosed
  <2>2. << >> \in Seq(PeerFrames)
    OBVIOUS
  <2> QED
    BY <1>1, <1>2, <2>1, <2>2, QueueChanged, Zenon
<1>5. ASSUME NEW c \in Conns, PeerConnects(c) \/ PeerSends(c) \/ ConnectionBreaks(c)
      PROVE  c2s' \in [Conns -> Seq(PeerFrames)]
  <2>1. \/ UNCHANGED c2s
        \/ \E frame \in PeerFrames : c2s' = [c2s EXCEPT ![c] = Append(c2s[c], frame)]
        \/ \E rest \in Survivors(c2s[c]) : c2s' = [c2s EXCEPT ![c] = rest]
    BY <1>5, Zenon DEF PeerConnects, Opened, PeerSends, ConnectionBreaks, Break
  <2>2. c2s[c] \in Seq(PeerFrames)
    BY <1>1
  <2>3. \A frame \in PeerFrames : Append(c2s[c], frame) \in Seq(PeerFrames)
    BY <2>2, QueueFacts
  <2>4. \A rest \in Survivors(c2s[c]) : rest \in Seq(PeerFrames)
    BY <2>2, QueueFacts
  <2> QED
    BY <1>1, <2>1, <2>3, <2>4, QueueChanged, Zenon
<1>6. ASSUME KillServer \/ PowerFailure
      PROVE  c2s' \in [Conns -> Seq(PeerFrames)]
  <2>1. c2s' = [c \in Conns |-> << >>]
    BY <1>6, Zenon DEF KillServer, PowerFailure, ProcessLost
  <2> QED
    BY <2>1
<1>7. CASE UNCHANGED vars
  BY <1>1, <1>7 DEF vars
<1> QED
  BY <1>3, <1>4, <1>5, <1>6, <1>7, Zenon DEF Next, ServerStep

(* The sessions and the tree change in few steps. *)
LEMMA Elsewhere ==
    ASSUME [Next]_vars
    PROVE  \/ \E c \in Conns : StartSync(c)
           \/ SendPlan \/ RenameFile \/ CommitFile \/ CommitFileFails \/ PowerFailure
           \/ UNCHANGED diskVars /\ (srv' = NoSync \/ UNCHANGED srv)
<1>1. ASSUME SessionStep(TRUE), ~SendPlan, ~RenameFile, ~CommitFile, ~CommitFileFails
      PROVE  UNCHANGED diskVars /\ srv' = NoSync
  BY <1>1, Zenon DEF SessionStep, SendPlanFails, RejectUnplanned, ReceiveFileFails,
       VerifyDestination, RecvInterrupted, Finish, FinishSending
<1>2. ASSUME NEW c \in Conns, RefuseFirstFrame(c) \/ CloseServed(c)
      PROVE  UNCHANGED diskVars /\ UNCHANGED srv
  BY <1>2, Zenon DEF RefuseFirstFrame, CloseServed, serverVars, diskVars
<1>3. ASSUME NEW c \in Conns, PeerConnects(c) \/ PeerSends(c) \/ ConnectionBreaks(c)
      PROVE  UNCHANGED diskVars /\ UNCHANGED srv
  BY <1>3, Zenon DEF PeerConnects, PeerSends, ConnectionBreaks, serverVars, diskVars
<1>4. KillServer => UNCHANGED diskVars /\ srv' = NoSync
  BY DEF KillServer, ProcessLost
<1>5. UNCHANGED vars => UNCHANGED diskVars /\ UNCHANGED srv
  BY DEF vars, diskVars
<1> QED
  BY <1>1, <1>2, <1>3, <1>4, <1>5, Zenon DEF Next, ServerStep
-----------------------------------------------------------------------------
(* A server starts without sessions. *)
LEMMA InitSyncInv == Init => SyncInv
<1> SUFFICES ASSUME Init PROVE SyncInv
  OBVIOUS
<1>1. dest \in Tree /\ srv = NoSync
  BY SyncAssumption DEF Init, ServerInit, Tree
<1>2. commits \in [Paths -> Nat] /\ c2s \in [Conns -> Seq(PeerFrames)]
  BY DEF Init, ServerInit, WireInit
<1> QED
  BY <1>1, <1>2, Zenon DEF SyncInv

(* Nothing but the session changes: the plan holds while no more is awaited *)
(* than before.                                                             *)
LEMMA PlanKept ==
    ASSUME PlanHolds, dest' = dest, srv'.source = srv.source, srv'.plan = srv.plan,
           Awaited' \subseteq Awaited, srv'.pc # "commit"
    PROVE  PlanHolds'
<1>1. \A p : RecordOf(p)' = RecordOf(p)
  BY DEF RecordOf
<1>2. \A p : NamesOutdated(srv.source, p) => NamesOutdated(srv.source, p)'
  BY <1>1 DEF NamesOutdated
<1> QED
  BY <1>2 DEF PlanHolds

(* The plan is built under the mutex from a scan of the tree. *)
LEMMA StartInv ==
    ASSUME SyncInv, NEW c \in Conns, StartSync(c), c2s' \in [Conns -> Seq(PeerFrames)]
    PROVE  SyncInv'
<1> DEFINE frame == Head(c2s[c])
           todo == PlanOf(frame.files, ScanDirectory(dest))
<1>1. UNCHANGED diskVars /\ srv = NoSync
  BY DEF StartSync
<1>2. frame \in PeerFrames /\ frame.type = "SyncManifest"
  BY QueueFacts DEF SyncInv, StartSync, HasFrame
<1>3. PICK status \in StartStatus(frame, todo) :
          IF status # "Success" THEN UNCHANGED srv
          ELSE srv' = [conn |-> c, rid |-> frame.rid, pc |-> "plan",
                       source |-> frame.files, plan |-> todo, index |-> 0]
  BY Zenon DEF StartSync
<1> HIDE DEF frame, todo
<1>4. CASE status # "Success"
  BY <1>1, <1>3, <1>4 DEF SyncInv, diskVars
<1>5. CASE status = "Success"
  <2>1. frame.decoded = "Success"
    BY <1>3, <1>5 DEF StartStatus
  <2>2. frame.rid \in Nat /\ Manifest(frame.files)
    BY <1>2, <2>1, PeerAssumption
  <2>3. dest \in Tree /\ todo = PlanOf(frame.files, ScanDirectory(dest))
    BY DEF SyncInv, todo
  <2>4. /\ todo \in Plan /\ StrictlySorted(todo.upload_paths)
        /\ \A k \in 1 .. Len(todo.upload_paths) : NamesOutdated(frame.files, todo.upload_paths[k])
    <3>1. \A p : IsOutdated(frame.files, dest, p) => NamesOutdated(frame.files, p)
      BY DEF IsOutdated, NamesOutdated, RecordOf
    <3> QED
      BY <2>2, <2>3, <3>1, PlanSound, Zenon
  <2>5. srv' = [conn |-> c, rid |-> frame.rid, pc |-> "plan",
                source |-> frame.files, plan |-> todo, index |-> 0]
    BY <1>3, <1>5
  <2>6. srv' \in Session
    BY <2>2, <2>4, <2>5 DEF Session, Manifest
  <2>7. /\ srv'.pc # "commit" /\ srv'.source = frame.files /\ srv'.plan = todo
        /\ Awaited' \subseteq 1 .. Len(todo.upload_paths)
    BY <2>5 DEF Awaited
  <2>8. \A p : NamesOutdated(frame.files, p) => NamesOutdated(srv.source, p)'
    BY <1>1, <2>7 DEF NamesOutdated, RecordOf, diskVars
  <2>9. PlanHolds'
    BY <2>4, <2>7, <2>8, Zenon DEF PlanHolds
  <2> QED
    BY <1>1, <2>6, <2>9 DEF SyncInv, diskVars
<1> QED
  BY <1>4, <1>5

(* The plan is sent, or a file is committed. *)
LEMMA ProgressInv ==
    ASSUME SyncInv, SendPlan \/ CommitFile, c2s' \in [Conns -> Seq(PeerFrames)]
    PROVE  SyncInv'
<1>1. srv # NoSync /\ srv \in Session /\ PlanHolds /\ UNCHANGED <<dest, commits>>
  BY DEF SyncInv, SendPlan, CommitFile, At, diskVars
<1>2. /\ srv' \in Session /\ srv'.pc = "files"
      /\ srv'.source = srv.source /\ srv'.plan = srv.plan
      /\ srv'.index = IF srv.pc = "commit" THEN srv.index + 1 ELSE srv.index
  <2>1. CASE SendPlan
    BY <1>1, <2>1 DEF SendPlan, Session, At
  <2>2. CASE CommitFile
    <3>1. srv.pc = "commit" /\ srv' = [srv EXCEPT !.pc = "files", !.index = srv.index + 1]
      BY <1>1, <2>2, Zenon DEF CommitFile, At
    <3>2. srv.index + 1 \in Nat
      BY <1>1 DEF Session
    <3>3. srv' \in Session
      BY <1>1, <3>1, <3>2, Zenon DEF Session
    <3>4. DOMAIN srv = {"conn", "rid", "pc", "source", "plan", "index"}
      BY <1>1, Zenon DEF Session
    <3>5. /\ srv'.pc = "files" /\ srv'.source = srv.source
          /\ srv'.plan = srv.plan /\ srv'.index = srv.index + 1
      BY <3>1, <3>4
    <3> QED
      BY <3>1, <3>3, <3>5, Zenon
  <2> QED
    BY <2>1, <2>2
<1>3. Awaited' = Awaited
  BY <1>2 DEF Awaited
<1>4. PlanHolds'
  BY <1>1, <1>2, <1>3, PlanKept
<1> QED
  BY <1>1, <1>2, <1>4 DEF SyncInv

(* A file is replaced that the session was waiting for: one that its        *)
(* manifest names in another version.                                       *)
LEMMA RenamedIsAwaited ==
    ASSUME SyncInv, RenameFile
    PROVE  LET k == srv.index + 1
               p == srv.plan.upload_paths[k]
           IN  /\ srv # NoSync /\ srv \in Session /\ PlanHolds
               /\ k \in Awaited /\ p \in Paths /\ NamesOutdated(srv.source, p)
               /\ Incoming \in PeerFrames /\ Incoming.type = "UploadRequest"
               /\ Incoming.path = p /\ Incoming.version \in Versions
<1> DEFINE k == srv.index + 1
           up == srv.plan.upload_paths
<1>1. srv # NoSync /\ srv.pc = "files" /\ srv \in Session /\ PlanHolds
  BY DEF SyncInv, RenameFile, At
<1>2. up \in Seq(Paths) /\ srv.index \in Nat /\ srv.conn \in Conns
  BY <1>1 DEF Session, Plan
<1>3. k \in 1 .. Len(up)
  BY <1>2 DEF RenameFile, FilesLeft
<1>4. k \in Awaited
  BY <1>1, <1>2, <1>3 DEF Awaited
<1>5. up[k] \in Paths /\ NamesOutdated(srv.source, up[k])
  BY <1>1, <1>2, <1>3, <1>4 DEF PlanHolds
<1>6. Incoming.type = "UploadRequest" /\ Incoming.path = up[k]
  BY DEF RenameFile, IsPlanned
<1>7. Incoming \in PeerFrames
  BY <1>2, QueueFacts DEF SyncInv, RenameFile, ServerReceives, HasFrame, Incoming
<1> QED
  BY <1>1, <1>4, <1>5, <1>6, <1>7, PeerAssumption

(* The paths of a plan differ: those that are still awaited stay as they    *)
(* are.                                                                     *)
LEMMA RenameInv ==
    ASSUME SyncInv, RenameFile, c2s' \in [Conns -> Seq(PeerFrames)]
    PROVE  SyncInv'
<1> DEFINE k == srv.index + 1
           up == srv.plan.upload_paths
           p == up[k]
<1>1. /\ srv # NoSync /\ srv \in Session /\ PlanHolds
      /\ k \in Awaited /\ p \in Paths
      /\ Incoming.path = p /\ Incoming.version \in Versions
  BY RenamedIsAwaited
<1>2. dest \in Tree /\ commits \in [Paths -> Nat]
  BY DEF SyncInv
<1>3. /\ dest' = [dest EXCEPT ![p] = Incoming.version]
      /\ commits' = [commits EXCEPT ![p] = commits[p] + 1]
      /\ srv' = [srv EXCEPT !.pc = "commit"]
      /\ srv.pc = "files" /\ FilesLeft
  BY <1>1, Zenon DEF RenameFile, Replaced, At
<1>4. dest' \in Tree /\ commits' \in [Paths -> Nat]
  BY <1>1, <1>2, <1>3 DEF Tree
<1>5. \A q \in Paths \ {p} : dest'[q] = dest[q]
  BY <1>2, <1>3 DEF Tree
<1>6. /\ srv' \in Session /\ srv'.pc = "commit" /\ srv'.source = srv.source
      /\ srv'.plan = srv.plan /\ srv'.index = srv.index
  BY <1>1, <1>3, Zenon DEF Session
<1>7. up \in Seq(Paths) /\ srv.index \in Nat /\ StrictlySorted(up)
  BY <1>1 DEF Session, Plan, PlanHolds
<1>8. ASSUME NEW j \in Awaited'
      PROVE  j \in Awaited /\ up[j] \in Paths \ {p}
  <2>1. j \in 1 .. Len(up) /\ j > k
    BY <1>6 DEF Awaited
  <2>2. k \in 1 .. Len(up) /\ j \in Awaited
    BY <1>1, <1>3, <1>7, <2>1 DEF Awaited
  <2>3. up[k] < up[j] /\ up[j] \in Paths /\ up[k] \in Paths
    BY <1>7, <2>1, <2>2 DEF StrictlySorted
  <2>4. up[k] # up[j]
    <3>1. up[k] \in Nat /\ up[j] \in Nat
      BY <2>3, ManifestAssumption, Zenon
    <3> QED
      BY <2>3, <3>1
  <2> QED
    BY <2>2, <2>3, <2>4
<1>9. \A j \in Awaited' : NamesOutdated(srv.source, up[j])'
  <2>1. ASSUME NEW q \in Paths \ {p}, NamesOutdated(srv.source, q)
        PROVE  NamesOutdated(srv.source, q)'
    BY <1>5, <1>6, <2>1, Zenon DEF NamesOutdated, RecordOf
  <2>2. ASSUME NEW j \in Awaited'
        PROVE  NamesOutdated(srv.source, up[j])
    BY <1>1, <1>8 DEF PlanHolds
  <2> QED
    BY <1>6, <1>8, <2>1, <2>2
<1>10. PlanHolds'
  BY <1>3, <1>6, <1>7, <1>9 DEF PlanHolds, FilesLeft
<1> QED
  BY <1>4, <1>6, <1>10 DEF SyncInv

(* The invariant holds throughout a run of the server. *)
LEMMA NextSyncInv == SyncInv /\ [Next]_vars => SyncInv'
<1> SUFFICES ASSUME SyncInv, [Next]_vars PROVE SyncInv'
  OBVIOUS
<1>1. c2s' \in [Conns -> Seq(PeerFrames)]
  BY QueuesTyped
<1>2. CASE CommitFileFails
  <2>1. srv' = NoSync /\ UNCHANGED <<dest, commits>>
    BY <1>2 DEF CommitFileFails, Finish
  <2> QED
    BY <1>1, <2>1 DEF SyncInv
<1>3. CASE PowerFailure
  <2>1. srv' = NoSync /\ dest' \in Tree /\ UNCHANGED commits
    BY <1>3 DEF PowerFailure, ProcessLost, Tree
  <2> QED
    BY <1>1, <2>1 DEF SyncInv
<1>4. CASE UNCHANGED diskVars /\ (srv' = NoSync \/ UNCHANGED srv)
  <2>1. UNCHANGED <<dest, commits>>
    BY <1>4 DEF diskVars
  <2>2. ASSUME UNCHANGED srv, PlanHolds
        PROVE  PlanHolds'
    <3>1. Awaited' = Awaited /\ FilesLeft' = FilesLeft
      BY <2>2 DEF Awaited, FilesLeft
    <3>2. \A p : NamesOutdated(srv.source, p) => NamesOutdated(srv.source, p)'
      BY <2>1, <2>2 DEF NamesOutdated, RecordOf
    <3> QED
      BY <2>2, <3>1, <3>2 DEF PlanHolds
  <2> QED
    BY <1>1, <1>4, <2>1, <2>2 DEF SyncInv
<1> QED
  BY <1>1, <1>2, <1>3, <1>4, Elsewhere, StartInv, ProgressInv, RenameInv, Zenon

THEOREM SyncInvariance == Spec => []SyncInv
  BY InitSyncInv, NextSyncInv, PTL DEF Spec

(* Every step replaces what the running session's manifest calls for, or    *)
(* nothing.                                                                 *)
LEMMA NextReplaces == SyncInv /\ [Next]_vars => ReplacesOutdated
<1> SUFFICES ASSUME SyncInv, [Next]_vars PROVE ReplacesOutdated
  OBVIOUS
<1>1. CASE RenameFile
  <2> DEFINE p == srv.plan.upload_paths[srv.index + 1]
  <2>1. /\ srv # NoSync /\ p \in Paths /\ NamesOutdated(srv.source, p)
        /\ Incoming.path = p /\ Incoming.version \in Versions
    BY <1>1, RenamedIsAwaited
  <2>2. dest \in Tree /\ commits \in [Paths -> Nat]
    BY DEF SyncInv
  <2>3. /\ dest' = [dest EXCEPT ![p] = Incoming.version]
        /\ commits' = [commits EXCEPT ![p] = commits[p] + 1]
    BY <1>1, <2>1, Zenon DEF RenameFile, Replaced
  <2> HIDE DEF p
  <2>4. \A q \in Paths \ {p} : dest'[q] = dest[q] /\ commits'[q] = commits[q]
    BY <2>2, <2>3 DEF Tree
  <2>5. dest'[p] = Incoming.version /\ commits'[p] # commits[p]
    BY <2>1, <2>2, <2>3 DEF Tree
  <2>6. dest'[p] # NoFile
    BY <2>1, <2>5, SyncAssumption
  <2> QED
    BY <2>1, <2>4, <2>5, <2>6, Zenon DEF ReplacesOutdated
<1>2. CASE PowerFailure
  <2>1. /\ UNCHANGED commits
        /\ \A p \in Paths : dest'[p] \in fallback[p] \cup {dest[p]}
    BY <1>2 DEF PowerFailure
  <2> QED
    BY <2>1 DEF ReplacesOutdated
<1>3. CASE UNCHANGED <<dest, commits>>
  BY <1>3 DEF ReplacesOutdated
<1>4. ASSUME \/ \E c \in Conns : StartSync(c)
             \/ SendPlan \/ CommitFile \/ CommitFileFails \/ UNCHANGED diskVars
      PROVE  UNCHANGED <<dest, commits>>
  BY <1>4, Zenon DEF StartSync, SendPlan, CommitFile, CommitFileFails, diskVars
<1> QED
  BY <1>1, <1>2, <1>3, <1>4, Elsewhere, Zenon

(* receive_directory_sync replaces a file only if the manifest of its       *)
(* session names it with another size or checksum than it has at that       *)
(* moment; whatever peers send and whenever the server dies, other files    *)
(* stay, or fall back to what they were before an unfinished commit.        *)
THEOREM ReplacedWasOutdated == Spec => OnlyOutdatedReplaced
<1>1. SyncInv /\ [Next]_vars => [ReplacesOutdated]_vars
  BY NextReplaces
<1> QED
  BY <1>1, SyncInvariance, PTL DEF Spec, OnlyOutdatedReplaced
-----------------------------------------------------------------------------
(* Every step is a step of the abstract specification or changes nothing    *)
(* that it sees: a rename replaces, a commit settles, a power failure takes *)
(* back.                                                                    *)
LEMMA NextPromise == SyncInv /\ [Next]_vars => [Promise!Next]_(Promise!vars)
<1> SUFFICES ASSUME SyncInv, [Next]_vars PROVE [Promise!Next]_(Promise!vars)
  OBVIOUS
<1> DEFINE p == srv.plan.upload_paths[srv.index + 1]
<1>1. dest \in Tree
  BY DEF SyncInv
<1>2. CASE RenameFile
  <2>1. /\ p \in Paths /\ Incoming \in PeerFrames /\ Incoming.type = "UploadRequest"
        /\ Incoming.path = p
    BY <1>2, RenamedIsAwaited
  <2>2. /\ dest' = [dest EXCEPT ![p] = Incoming.version]
        /\ fallback' = [fallback EXCEPT ![p] = fallback[p] \cup {dest[p]}]
    BY <1>2, <2>1, Zenon DEF RenameFile, Replaced
  <2> HIDE DEF p
  <2>3. dest'[p] = Incoming.version
    BY <1>1, <2>1, <2>2 DEF Tree
  <2>4. Offered(p, dest'[p])
    BY <2>1, <2>3, Zenon DEF Offered
  <2>5. dest' = [dest EXCEPT ![p] = dest'[p]]
    BY <2>2, <2>3, Zenon
  <2>6. Promise!Replace(p, dest'[p])
    BY <2>2, <2>4, <2>5, Zenon DEF Promise!Replace
  <2> QED
    BY <2>1, <2>6, Zenon DEF Promise!Next
<1>3. CASE CommitFile \/ CommitFileFails
  <2>1. srv # NoSync /\ srv.pc = "commit" /\ srv \in Session /\ PlanHolds
    BY <1>3, Zenon DEF CommitFile, CommitFileFails, At, SyncInv
  <2>2. p \in Paths
    BY <2>1 DEF Session, Plan, PlanHolds, FilesLeft
  <2>3. /\ UNCHANGED dest
        /\ UNCHANGED fallback \/ fallback' = [fallback EXCEPT ![p] = {}]
    BY <1>3, Zenon DEF CommitFile, CommitFileFails
  <2> HIDE DEF p
  <2> QED
    BY <2>2, <2>3, Zenon DEF Promise!Next, Promise!Settle, Promise!vars
<1>4. CASE PowerFailure
  <2>1. /\ \A q \in Paths : dest'[q] \in fallback[q] \cup {dest[q]}
        /\ dest' \in Tree /\ fallback' = [q \in Paths |-> {}]
    BY <1>4 DEF PowerFailure, Tree
  <2>2. dest' = [q \in Paths |-> dest'[q]]
    BY <2>1 DEF Tree
  <2> QED
    BY <2>1, <2>2, Zenon DEF Promise!Next, Promise!PowerFailure
<1>5. ASSUME \/ \E c \in Conns : StartSync(c)
             \/ SendPlan \/ UNCHANGED diskVars
      PROVE  UNCHANGED Promise!vars
  BY <1>5, Zenon DEF StartSync, SendPlan, diskVars, Promise!vars
<1> QED
  BY <1>2, <1>3, <1>4, <1>5, Elsewhere, Zenon

(* The files of a synchronisation are replaced one by one, each atomically, *)
(* as AtomicUpload says, through any crash of the server.                   *)
THEOREM SyncKeepsPromise == Spec => FilesChangeAtomically
<1>1. Init => Promise!Init
  BY DEF Init, ServerInit, Promise!Init
<1> QED
  BY <1>1, NextPromise, SyncInvariance, PTL DEF Spec, FilesChangeAtomically, Promise!Spec
=============================================================================
