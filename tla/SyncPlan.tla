------------------------------ MODULE SyncPlan ------------------------------
(***************************************************************************)
(* build_sync_plan of src/common/sync_codec.cpp: the merge of the client's *)
(* manifest with the one the server has scanned, iteration by iteration.   *)
(***************************************************************************)
EXTENDS Manifest

CONSTANTS Manifests     \* the manifests that are compared

ASSUME ManifestsAssumption == \A files \in Manifests : Manifest(files)

VARIABLES source, destination,
          source_index, destination_index,     \* as in the code, from 0
          plan,
          done

mergeVars == <<source, destination, source_index, destination_index, plan, done>>

SourceFile == source[source_index + 1]

DestinationFile == destination[destination_index + 1]

Merging == source_index < Len(source) /\ destination_index < Len(destination)

Uploading(path) == [plan EXCEPT !.upload_paths = Append(@, path)]

MergeInit ==
    /\ source \in Manifests /\ destination \in Manifests
    /\ source_index = 0 /\ destination_index = 0
    /\ plan = [upload_paths |-> << >>, unchanged_count |-> 0, server_only_count |-> 0]
    /\ done = FALSE

Missing ==
    /\ Merging /\ SourceFile.path < DestinationFile.path
    /\ plan' = Uploading(SourceFile.path)
    /\ source_index' = source_index + 1
    /\ UNCHANGED <<source, destination, destination_index, done>>

Extra ==
    /\ Merging /\ DestinationFile.path < SourceFile.path
    /\ plan' = [plan EXCEPT !.server_only_count = @ + 1]
    /\ destination_index' = destination_index + 1
    /\ UNCHANGED <<source, destination, source_index, done>>

(* Mutant: files of the same size are taken to be equal. *)
Same_SizeOnly == SourceFile.size = DestinationFile.size

Same ==
    /\ SourceFile.size = DestinationFile.size
    /\ SourceFile.checksum = DestinationFile.checksum

(* Mutant: unchanged files are not counted. *)
InBoth_Uncounted ==
    /\ Merging /\ SourceFile.path = DestinationFile.path
    /\ plan' = IF Same THEN plan ELSE Uploading(SourceFile.path)
    /\ source_index' = source_index + 1
    /\ destination_index' = destination_index + 1
    /\ UNCHANGED <<source, destination, done>>

InBoth ==
    /\ Merging /\ SourceFile.path = DestinationFile.path
    /\ plan' = IF Same THEN [plan EXCEPT !.unchanged_count = @ + 1]
               ELSE Uploading(SourceFile.path)
    /\ source_index' = source_index + 1
    /\ destination_index' = destination_index + 1
    /\ UNCHANGED <<source, destination, done>>

(* The second loop, once the destination is exhausted. *)
Rest ==
    /\ ~Merging /\ source_index < Len(source)
    /\ plan' = Uploading(SourceFile.path)
    /\ source_index' = source_index + 1
    /\ UNCHANGED <<source, destination, destination_index, done>>

Return ==
    /\ ~done /\ source_index = Len(source)
    /\ plan' = [plan EXCEPT !.server_only_count = @ + (Len(destination) - destination_index)]
    /\ done' = TRUE
    /\ UNCHANGED <<source, destination, source_index, destination_index>>

MergeNext == Missing \/ Extra \/ InBoth \/ Rest \/ Return

MergeSpec == MergeInit /\ [][MergeNext]_mergeVars
-----------------------------------------------------------------------------
(* Every variable keeps its type; the indices of build_sync_plan stay       *)
(* within their manifests.                                                  *)
TypeOK ==
    /\ Manifest(source) /\ Manifest(destination)
    /\ source_index \in 0 .. Len(source)
    /\ destination_index \in 0 .. Len(destination)
    /\ plan \in [upload_paths : Seq(Paths), unchanged_count : Nat, server_only_count : Nat]
    /\ done \in BOOLEAN

(* The plan is the one the two manifests call for: every file that the      *)
(* server misses or holds in another version, once and in order, with exact *)
(* counts of the unchanged and of the server-only files; the single forward *)
(* pass over both manifests overlooks none and confuses none.               *)
PlanIsExact == done => plan = PlanOf(source, destination)

(* A plan passes what its receiver checks: decode_sync_plan insists on      *)
(* strictly ascending paths, sync_directory on a plan that accounts for     *)
(* each of its files and names no other.                                    *)
PlanIsAccepted ==
    done => /\ StrictlySorted(plan.upload_paths)
            /\ Len(plan.upload_paths) + plan.unchanged_count = Len(source)
            /\ \A k \in 1 .. Len(plan.upload_paths) :
                  \E i \in 1 .. Len(source) : source[i].path = plan.upload_paths[k]
=============================================================================
