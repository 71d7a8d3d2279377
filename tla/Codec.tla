------------------------------- MODULE Codec -------------------------------
(***************************************************************************)
(* The payload codecs: src/common/sync_codec.cpp (manifest, plan, result)  *)
(* and src/common/transfer_codec.cpp (metadata, chunk, offset, ready,      *)
(* result).                                                                *)
(*                                                                         *)
(* A payload is a sequence of bytes, a path one of characters, which are   *)
(* bytes.  Fields have the widths of the code, 1, 2, 4 or 8 bytes, most    *)
(* significant byte first; a byte has Base values instead of 256.  Offsets *)
(* count from 0, as in the code.                                           *)
(***************************************************************************)
EXTENDS Naturals, Sequences, SequencesExt

CONSTANTS Base,                        \* values of a byte
          Dot, Slash, Forbidden,       \* '.', '/', and {'\\', '\0'}
          PartialDirectory,            \* kPartialDirectory, as characters
          MaxPathLength,               \* kMaxRemotePathLength
          MaxNameLength                \* kMaxRemoteFilenameLength

ASSUME CodecAssumption ==
    /\ Base \in Nat \ {0, 1} /\ {Dot, Slash} \cup Forbidden \subseteq 0 .. Base - 1
    /\ MaxPathLength \in 1 .. Base^2 - 1 /\ MaxNameLength \in Nat

TransferResultCodes == 0 .. 8          \* Success to ChecksumMismatch
SyncResultCodes == 0 .. 1              \* Success, DestinationChanged

(* append_u16, append_u32 and append_u64. *)
Append_u(value, width) == [i \in 1 .. width |-> (value \div Base^(width - i)) % Base]

(* get_u8, get_u16, get_u32 and get_u64. *)
Get_u(bytes, offset, width) ==
    LET value[n \in 0 .. width] ==
            IF n = 0 THEN 0 ELSE value[n - 1] * Base + bytes[offset + n]
    IN  value[width]

Slice(bytes, offset, count) == SubSeq(bytes, offset + 1, offset + count)

Ok(value) == [error |-> "none", value |-> value]

Fail(error) == [error |-> error]
-----------------------------------------------------------------------------
(* Remote paths. *)
SafeComponent(component) ==
    /\ component \notin {<< >>, <<Dot>>, <<Dot, Dot>>, PartialDirectory}
    /\ Len(component) <= MaxNameLength

(* Mutant: the loop ends before it has looked at the last component. *)
SafeFrom_SkipsLast(path) ==
    LET safe[start \in 0 .. Len(path)] ==
            \/ start = Len(path)
            \/ LET separators == {i \in start .. Len(path) - 1 : path[i + 1] = Slash}
                   separator  == CHOOSE i \in separators : \A j \in separators : i <= j
               IN  \/ separators = {}
                   \/ /\ SafeComponent(Slice(path, start, separator - start))
                      /\ safe[separator + 1]
    IN  safe[0]

(* The loop of is_safe_remote_path over the components. *)
SafeFrom(path) ==
    LET safe[start \in 0 .. Len(path)] ==
            \/ start = Len(path)
            \/ LET separators == {i \in start .. Len(path) - 1 : path[i + 1] = Slash}
                   separator  == CHOOSE i \in separators : \A j \in separators : i <= j
               IN  \/ /\ separators = {}
                      /\ SafeComponent(Slice(path, start, Len(path) - start))
                   \/ /\ separators # {}
                      /\ SafeComponent(Slice(path, start, separator - start))
                      /\ safe[separator + 1]
    IN  safe[0]

is_safe_remote_path(path) ==
    /\ path # << >> /\ Len(path) <= MaxPathLength
    /\ Head(path) # Slash /\ Last(path) # Slash
    /\ ToSet(path) \cap Forbidden = {}
    /\ SafeFrom(path)

(* The order of std::string. *)
Precedes(path1, path2) ==
    \/ IsStrictPrefix(path1, path2)
    \/ \E i \in DOMAIN path1 \cap DOMAIN path2 :
          /\ path1[i] < path2[i]
          /\ \A j \in 1 .. i - 1 : path1[j] = path2[j]

strictly_after(previous, current) == previous = << >> \/ Precedes(previous, current)

append_path(path) == Append_u(Len(path), 2) \o path

(* The paths that an encoder takes; for others it returns nothing. *)
Encodable(paths) ==
    \A i \in DOMAIN paths :
        /\ strictly_after(IF i = 1 THEN << >> ELSE paths[i - 1], paths[i])
        /\ is_safe_remote_path(paths[i])

(* decode_path: the path at offset. *)
decode_path(payload, offset) ==
    IF Len(payload) < offset + 2 THEN Fail("PayloadTooShort")
    ELSE LET path_size == Get_u(payload, offset, 2)
             path      == Slice(payload, offset + 2, path_size)
         IN  IF path_size = 0 \/ path_size > MaxPathLength THEN Fail("PathTooLong")
             ELSE IF Len(payload) < offset + 2 + path_size THEN Fail("PayloadTooShort")
             ELSE IF ~is_safe_remote_path(path) THEN Fail("UnsafePath")
             ELSE Ok(path)

(* Mutant: bytes after the last record are not looked at. *)
DecodeRecords_IgnoresRest(payload, start, count, fields) ==
    LET Step(so_far) ==
            LET at       == so_far.offset + fields
                decoded  == decode_path(payload, at)
                previous == IF so_far.records = << >> THEN << >> ELSE Last(so_far.records).path
            IN  IF Len(payload) < at THEN Fail("PayloadTooShort")
                ELSE IF decoded.error # "none" THEN decoded
                ELSE IF ~strictly_after(previous, decoded.value)
                     THEN Fail("PathsNotStrictlySorted")
                ELSE [error   |-> "none",
                      offset  |-> at + 2 + Len(decoded.value),
                      records |-> Append(so_far.records,
                                         [at |-> so_far.offset, path |-> decoded.value])]
        loop[n \in 0 .. count] ==
            IF n = 0 THEN [error |-> "none", offset |-> start, records |-> << >>]
            ELSE IF loop[n - 1].error # "none" THEN loop[n - 1]
            ELSE Step(loop[n - 1])
    IN  IF loop[count].error # "none" THEN Fail(loop[count].error)
        ELSE Ok(loop[count].records)

(* The loop of decode_manifest and of decode_sync_plan: count records of    *)
(* fields bytes and a path each, from start to the end of the payload.      *)
DecodeRecords(payload, start, count, fields) ==
    LET Step(so_far) ==
            LET at       == so_far.offset + fields
                decoded  == decode_path(payload, at)
                previous == IF so_far.records = << >> THEN << >> ELSE Last(so_far.records).path
            IN  IF Len(payload) < at THEN Fail("PayloadTooShort")
                ELSE IF decoded.error # "none" THEN decoded
                ELSE IF ~strictly_after(previous, decoded.value)
                     THEN Fail("PathsNotStrictlySorted")
                ELSE [error   |-> "none",
                      offset  |-> at + 2 + Len(decoded.value),
                      records |-> Append(so_far.records,
                                         [at |-> so_far.offset, path |-> decoded.value])]
        loop[n \in 0 .. count] ==
            IF n = 0 THEN [error |-> "none", offset |-> start, records |-> << >>]
            ELSE IF loop[n - 1].error # "none" THEN loop[n - 1]
            ELSE Step(loop[n - 1])
    IN  IF loop[count].error # "none" THEN Fail(loop[count].error)
        ELSE IF loop[count].offset # Len(payload) THEN Fail("PayloadSizeMismatch")
        ELSE Ok(loop[count].records)
-----------------------------------------------------------------------------
(* sync_codec.cpp *)
PathsIn(records) == [i \in DOMAIN records |-> records[i].path]

encode_manifest(files) ==
    IF ~Encodable(PathsIn(files)) THEN << >>
    ELSE Append_u(Len(files), 4) \o
         FlattenSeq([i \in DOMAIN files |-> Append_u(files[i].size, 8) \o
                                            Append_u(files[i].checksum, 4) \o
                                            append_path(files[i].path)])

decode_manifest(payload, max_entries) ==
    IF Len(payload) < 4 THEN Fail("PayloadTooShort")
    ELSE IF Get_u(payload, 0, 4) > max_entries THEN Fail("TooManyEntries")
    ELSE LET decoded == DecodeRecords(payload, 4, Get_u(payload, 0, 4), 12)
         IN  IF decoded.error # "none" THEN decoded
             ELSE Ok([i \in DOMAIN decoded.value |->
                         [path     |-> decoded.value[i].path,
                          size     |-> Get_u(payload, decoded.value[i].at, 8),
                          checksum |-> Get_u(payload, decoded.value[i].at + 8, 4)]])

encode_sync_plan(plan) ==
    IF ~Encodable(plan.upload_paths) THEN << >>
    ELSE Append_u(Len(plan.upload_paths), 4) \o Append_u(plan.unchanged_count, 4) \o
         Append_u(plan.server_only_count, 4) \o
         FlattenSeq([i \in DOMAIN plan.upload_paths |-> append_path(plan.upload_paths[i])])

decode_sync_plan(payload, max_entries) ==
    IF Len(payload) < 12 THEN Fail("PayloadTooShort")
    ELSE IF Get_u(payload, 0, 4) > max_entries THEN Fail("TooManyEntries")
    ELSE LET decoded == DecodeRecords(payload, 12, Get_u(payload, 0, 4), 0)
         IN  IF decoded.error # "none" THEN decoded
             ELSE Ok([upload_paths      |-> PathsIn(decoded.value),
                      unchanged_count   |-> Get_u(payload, 4, 4),
                      server_only_count |-> Get_u(payload, 8, 4)])

(* encode_sync_result and encode_transfer_result. *)
encode_result(code) == <<code>>

(* decode_sync_result and decode_transfer_result. *)
decode_result(payload, known) ==
    IF Len(payload) # 1 THEN Fail("PayloadSizeMismatch")
    ELSE IF payload[1] \notin known THEN Fail("UnknownResultCode")
    ELSE Ok(payload[1])
-----------------------------------------------------------------------------
(* transfer_codec.cpp *)
encode_upload_metadata(metadata) ==
    IF ~is_safe_remote_path(metadata.filename) THEN << >>
    ELSE Append_u(Len(metadata.filename), 2) \o Append_u(metadata.file_size, 8) \o
         Append_u(metadata.checksum, 4) \o metadata.filename

(* Mutant: the limit is that of a single name. *)
decode_upload_metadata_NameLimit(payload) ==
    IF Len(payload) < 14 THEN Fail("PayloadTooShort")
    ELSE LET filename_length == Get_u(payload, 0, 2)
             filename        == Slice(payload, 14, filename_length)
         IN  IF filename_length = 0 THEN Fail("EmptyFilename")
             ELSE IF filename_length > MaxNameLength THEN Fail("FilenameTooLong")
             ELSE IF Len(payload) # 14 + filename_length THEN Fail("PayloadSizeMismatch")
             ELSE IF ~is_safe_remote_path(filename) THEN Fail("UnsafeFilename")
             ELSE Ok([filename  |-> filename,
                      file_size |-> Get_u(payload, 2, 8),
                      checksum  |-> Get_u(payload, 10, 4)])

decode_upload_metadata(payload) ==
    IF Len(payload) < 14 THEN Fail("PayloadTooShort")
    ELSE LET filename_length == Get_u(payload, 0, 2)
             filename        == Slice(payload, 14, filename_length)
         IN  IF filename_length = 0 THEN Fail("EmptyFilename")
             ELSE IF filename_length > MaxPathLength THEN Fail("FilenameTooLong")
             ELSE IF Len(payload) # 14 + filename_length THEN Fail("PayloadSizeMismatch")
             ELSE IF ~is_safe_remote_path(filename) THEN Fail("UnsafeFilename")
             ELSE Ok([filename  |-> filename,
                      file_size |-> Get_u(payload, 2, 8),
                      checksum  |-> Get_u(payload, 10, 4)])

encode_file_chunk(chunk) == Append_u(chunk.offset, 8) \o chunk.data

decode_file_chunk(payload) ==
    IF Len(payload) < 8 THEN Fail("PayloadTooShort")
    ELSE IF Len(payload) = 8 THEN Fail("ChunkHasNoData")
    ELSE Ok([offset |-> Get_u(payload, 0, 8), data |-> Slice(payload, 8, Len(payload) - 8)])

encode_offset(offset) == Append_u(offset, 8)

decode_offset(payload) ==
    IF Len(payload) # 8 THEN Fail("PayloadSizeMismatch") ELSE Ok(Get_u(payload, 0, 8))

encode_transfer_ready(ready) == encode_offset(ready.offset) \o Append_u(ready.prefix_checksum, 4)

decode_transfer_ready(payload) ==
    IF Len(payload) # 12 THEN Fail("PayloadSizeMismatch")
    ELSE Ok([offset          |-> Get_u(payload, 0, 8),
             prefix_checksum |-> Get_u(payload, 8, 4)])
=============================================================================
