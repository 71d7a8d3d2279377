------------------------------ MODULE Manifest ------------------------------
(***************************************************************************)
(* Manifests, and what a synchronisation plan is for two of them.          *)
(*                                                                         *)
(* A manifest is a sequence of file records in strictly ascending order of *)
(* their paths.  Paths are numbers here: of a remote path only its place   *)
(* in the byte order of std::string matters, which the sort of             *)
(* scan_directory, strictly_after and build_sync_plan all use.             *)
(***************************************************************************)
EXTENDS Integers, Sequences, FiniteSets

CONSTANTS Paths,        \* safe remote paths
          Sizes,        \* file sizes
          Checksums     \* CRC-32 values

ASSUME ManifestAssumption == Paths \subseteq Nat

FileRecord == [path : Paths, size : Sizes, checksum : Checksums]

(* What strictly_after enforces on every pair of neighbours. *)
StrictlySorted(paths) ==
    \A i, j \in 1 .. Len(paths) : i < j => paths[i] < paths[j]

PathsOf(files) == [i \in 1 .. Len(files) |-> files[i].path]

Manifest(files) == files \in Seq(FileRecord) /\ StrictlySorted(PathsOf(files))

(* The members of a set in ascending order: the order of a merge of sorted  *)
(* manifests, and that of std::ranges::sort by path.                        *)
InOrder(paths) ==
    CHOOSE seq \in [1 .. Cardinality(paths) -> paths] : StrictlySorted(seq)

FilesInOrder(files) ==
    CHOOSE seq \in [1 .. Cardinality(files) -> files] : StrictlySorted(PathsOf(seq))

(* The places of source whose file the destination has not, or not like so, *)
(* those that it has, and the places of destination that source has not.    *)
Outdated(source, destination) ==
    {i \in 1 .. Len(source) : \A j \in 1 .. Len(destination) : destination[j] # source[i]}

UpToDate(source, destination) == (1 .. Len(source)) \ Outdated(source, destination)

ServerOnly(source, destination) ==
    {j \in 1 .. Len(destination) :
        \A i \in 1 .. Len(source) : source[i].path # destination[j].path}

Plan == [upload_paths : Seq(Paths), unchanged_count : Nat, server_only_count : Nat]

(* The plan for two manifests: the result of build_sync_plan, as module     *)
(* SyncPlan shows.                                                          *)
PlanOf(source, destination) ==
    [upload_paths |-> InOrder({source[i].path : i \in Outdated(source, destination)}),
     unchanged_count |-> Cardinality(UpToDate(source, destination)),
     server_only_count |-> Cardinality(ServerOnly(source, destination))]
=============================================================================
