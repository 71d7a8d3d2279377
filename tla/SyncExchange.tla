---------------------------- MODULE SyncExchange ----------------------------
(***************************************************************************)
(* Manifest and plan as bytes: what sync_directory and                     *)
(* receive_directory_sync (src/common/directory_sync.cpp) exchange before  *)
(* the first upload, from the limits of scan_directory over the codecs of  *)
(* module Codec and the merge of module SyncPlan to the plan that the      *)
(* client decodes.  Payloads of other senders, and the payloads of file    *)
(* transfers, are decoded here too.                                        *)
(*                                                                         *)
(* Module SyncPlan numbers paths by their order; Spelling gives their      *)
(* characters.                                                             *)
(***************************************************************************)
EXTENDS SyncPlan, Codec

CONSTANTS Spelling,         \* the characters of each path
          MaxEntries,       \* max_entries
          MaxPayload,       \* max_encoded_size, and the payload limit of a frame
          Transfers,        \* [kind, value] : what file transfers send
          Foreign,          \* [kind, payload] : what other programs send
          Nothing

ASSUME ExchangeAssumption ==
    /\ MaxEntries \in Nat /\ MaxPayload \in Nat
    /\ \A p1, p2 \in Paths : p1 < p2 => Precedes(Spelling[p1], Spelling[p2])

VARIABLES stage,       \* "scan", "decode", "decoded", "merge" or "end"
          kind,        \* what payload is
          payload,
          sent,        \* the value that was encoded, Nothing for foreign payloads
          files,       \* the files of the client, Nothing without a client
          result       \* of the decoder

exchangeVars == <<stage, kind, payload, sent, files, result>>
-----------------------------------------------------------------------------
Spelled(records) == [i \in DOMAIN records |-> [records[i] EXCEPT !.path = Spelling[@]]]

SpelledPlan(p) == [p EXCEPT !.upload_paths = [i \in DOMAIN @ |-> Spelling[@[i]]]]

Numbered(records) ==
    [i \in DOMAIN records |->
        [records[i] EXCEPT !.path = CHOOSE p \in Paths : Spelling[p] = records[i].path]]

(* Mutant: the field that holds the length of the path is not counted. *)
RecordSize_NoLength(file) == 8 + 4 + Len(file.path)

RecordSize(file) == 2 + 8 + 4 + Len(file.path)

(* What scan_directory returns: as many files as fit into one payload. *)
Scannable(records) ==
    LET encoded_size[n \in 0 .. Len(records)] ==
            IF n = 0 THEN 4 ELSE encoded_size[n - 1] + RecordSize(records[n])
    IN  /\ Len(records) <= MaxEntries
        /\ \A n \in 1 .. Len(records) :
              /\ RecordSize(records[n]) <= MaxPayload
              /\ encoded_size[n - 1] <= MaxPayload - RecordSize(records[n])

Encode(k, value) ==
    CASE k = "manifest" -> encode_manifest(value)
      [] k = "plan" -> encode_sync_plan(value)
      [] k \in {"sync result", "transfer result"} -> encode_result(value)
      [] k = "metadata" -> encode_upload_metadata(value)
      [] k = "chunk" -> encode_file_chunk(value)
      [] k = "offset" -> encode_offset(value)
      [] k = "ready" -> encode_transfer_ready(value)

Decode(k, bytes) ==
    CASE k = "manifest" -> decode_manifest(bytes, MaxEntries)
      [] k = "plan" -> decode_sync_plan(bytes, MaxEntries)
      [] k = "sync result" -> decode_result(bytes, SyncResultCodes)
      [] k = "transfer result" -> decode_result(bytes, TransferResultCodes)
      [] k = "metadata" -> decode_upload_metadata(bytes)
      [] k = "chunk" -> decode_file_chunk(bytes)
      [] k = "offset" -> decode_offset(bytes)
      [] k = "ready" -> decode_transfer_ready(bytes)
-----------------------------------------------------------------------------
Start ==
    /\ source = << >> /\ source_index = 0 /\ destination_index = 0
    /\ plan = [upload_paths |-> << >>, unchanged_count |-> 0, server_only_count |-> 0]
    /\ done = FALSE /\ result = Nothing
    /\ \/ /\ stage = "scan" /\ kind = "manifest"
          /\ files \in Manifests /\ destination \in Manifests
          /\ payload = << >> /\ sent = Nothing
       \/ /\ stage = "decode" /\ files = Nothing /\ destination = << >>
          /\ \/ \E t \in Transfers :
                   kind = t.kind /\ sent = t.value /\ payload = Encode(t.kind, t.value)
             \/ \E f \in Foreign : kind = f.kind /\ sent = Nothing /\ payload = f.payload

(* sync_directory up to the manifest frame, with a server whose directory   *)
(* scan_directory takes as well; an empty or too long payload is not sent.  *)
SendManifest ==
    /\ stage = "scan"
    /\ IF Scannable(Spelled(files)) /\ Scannable(Spelled(destination))
       THEN /\ sent' = Spelled(files)
            /\ payload' = encode_manifest(Spelled(files))
            /\ IF payload' = << >> \/ Len(payload') > MaxPayload
               THEN stage' = "end" /\ result' = Fail("PayloadSizeMismatch")
               ELSE stage' = "decode" /\ result' = result
       ELSE stage' = "end" /\ result' = Fail("ScanError") /\ UNCHANGED <<payload, sent>>
    /\ UNCHANGED <<kind, files>> /\ UNCHANGED mergeVars

(* The receiver of the payload decodes it. *)
Receive ==
    /\ stage = "decode"
    /\ result' = Decode(kind, payload)
    /\ stage' = IF files # Nothing /\ kind = "manifest" /\ result'.error = "none"
                THEN "decoded" ELSE "end"
    /\ UNCHANGED <<kind, payload, sent, files>> /\ UNCHANGED mergeVars

(* receive_directory_sync calls build_sync_plan. *)
BeginPlan ==
    /\ stage = "decoded"
    /\ stage' = "merge" /\ source' = Numbered(result.value)
    /\ UNCHANGED <<kind, payload, sent, files, result>>
    /\ UNCHANGED <<destination, source_index, destination_index, plan, done>>

Merge == stage = "merge" /\ MergeNext /\ UNCHANGED exchangeVars

SendPlan ==
    /\ stage = "merge" /\ done
    /\ kind' = "plan" /\ sent' = SpelledPlan(plan)
    /\ payload' = encode_sync_plan(SpelledPlan(plan))
    /\ IF payload' = << >> \/ Len(payload') > MaxPayload
       THEN stage' = "end" /\ result' = Fail("PayloadSizeMismatch")
       ELSE stage' = "decode" /\ result' = Nothing
    /\ UNCHANGED files /\ UNCHANGED mergeVars

Exchange == SendManifest \/ Receive \/ BeginPlan \/ Merge \/ SendPlan

ExchangeSpec == Start /\ [][Exchange]_<<exchangeVars, mergeVars>>
-----------------------------------------------------------------------------
(* The reference for is_safe_remote_path: between any two neighbouring      *)
(* slashes, or the ends, stands an ordinary name of limited length, and no  *)
(* character is forbidden.                                                  *)
SafePath(path) ==
    /\ path # << >> /\ Len(path) <= MaxPathLength
    /\ \A i \in DOMAIN path : path[i] \notin Forbidden
    /\ LET ends == {0, Len(path) + 1} \cup {i \in DOMAIN path : path[i] = Slash}
       IN  \A i, j \in ends :
              (i < j /\ \A k \in ends : k <= i \/ k >= j)
                  => SafeComponent(SubSeq(path, i + 1, j - 1))

PathsInValue(k, value) ==
    CASE k = "manifest" -> {value[i].path : i \in DOMAIN value}
      [] k = "plan" -> ToSet(value.upload_paths)
      [] k = "metadata" -> {value.filename}
      [] OTHER -> {}

Accepted == stage \in {"decoded", "end"} /\ result # Nothing /\ result.error = "none"

(* For two directories that scan_directory takes, the exchange never fails: *)
(* both payloads stay within the limit of a frame, both decoders accept     *)
(* them, and the client ends up with the plan for its own files and those   *)
(* of the server.                                                           *)
PlanArrives ==
    (stage = "end" /\ files # Nothing /\ result # Fail("ScanError")) =>
        /\ kind = "plan"
        /\ result = Ok(SpelledPlan(PlanOf(files, destination)))

(* What an encoder produced, the decoder reads back as the same value, for  *)
(* every kind of payload.                                                   *)
RoundTrip ==
    (result # Nothing /\ sent # Nothing /\ stage \in {"decoded", "end"}) => result = Ok(sent)

(* A decoder accepts only the one encoding of a value: no byte of an        *)
(* accepted payload is ignored, left over or read in two ways, so two       *)
(* different payloads never mean the same manifest, plan or upload.         *)
OnlyCanonical == Accepted => Encode(kind, result.value) = payload

(* No payload, whoever sent it, gets a path past its decoder that leaves    *)
(* the destination, names the partial directory or has an empty component.  *)
AcceptedPathsAreSafe ==
    Accepted => \A path \in PathsInValue(kind, result.value) : SafePath(path)
=============================================================================
