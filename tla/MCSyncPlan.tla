----------------------------- MODULE MCSyncPlan -----------------------------
(* The exchange for all pairs of manifests of a few paths, for every kind   *)
(* of transfer payload, and for payloads that differ from a good one.       *)
EXTENDS SyncExchange

Characters == 0 .. 3

Strings(n) == UNION {[1 .. k -> Characters] : k \in 1 .. n}

MCPartialDirectory == <<Dot, 3>>

(* All safe paths: a, a., a/a and aa, in this order. *)
MCSpelling == <<<<3>>, <<3, Dot>>, <<3, Slash, 3>>, <<3, 3>>>>

ASSUME ToSet(MCSpelling) = {s \in Strings(MaxPathLength) : SafePath(s)}

MCPaths == 1 .. 4

MCSizes == 0 .. Base^8 - 1

MCChecksums == 0 .. Base^4 - 1

Versions == {<<0, 0>>, <<0, Base>>, <<Base, 0>>}

File(p, version) == [path |-> p, size |-> version[1], checksum |-> version[2]]

MCManifests ==
    {SetToSortSeq({File(p, f[p]) : p \in DOMAIN f}, LAMBDA a, b : a.path < b.path) :
       f \in UNION {[dom -> Versions] : dom \in SUBSET MCPaths}}

MCTransfers ==
    [kind : {"sync result"}, value : SyncResultCodes] \cup
    [kind : {"transfer result"}, value : TransferResultCodes] \cup
    [kind : {"offset"}, value : {0, 1, Base, Base^8 - 1}] \cup
    [kind : {"ready"}, value : [offset : {0, Base}, prefix_checksum : {0, 1, Base^4 - 1}]] \cup
    [kind : {"chunk"}, value : [offset : {0, Base}, data : Strings(2)]] \cup
    [kind : {"metadata"}, value : [filename : ToSet(MCSpelling), file_size : {0, Base},
                                   checksum : {0, Base}]]

(* A payload with one byte changed, cut short, or with a byte more. *)
Altered(bytes) ==
    {[bytes EXCEPT ![i] = c] : i \in DOMAIN bytes, c \in Characters} \cup
    {SubSeq(bytes, 1, n) : n \in 0 .. Len(bytes)} \cup {Append(bytes, c) : c \in Characters}

(* Records in any order, and with the paths that no encoder takes. *)
Unchecked(paths) ==
    Append_u(Len(paths), 4) \o
    FlattenSeq([i \in DOMAIN paths |-> Append_u(1, 8) \o Append_u(0, 4) \o append_path(paths[i])])

UncheckedPlan(paths) ==
    Append_u(Len(paths), 4) \o Append_u(1, 4) \o Append_u(0, 4) \o
    FlattenSeq([i \in DOMAIN paths |-> append_path(paths[i])])

PathLists ==
    {<<s>> : s \in Strings(MaxPathLength + 1)} \cup (ToSet(MCSpelling) \X ToSet(MCSpelling))

Payloads(k) ==
    CASE k = "manifest" ->
            {Unchecked(l) : l \in PathLists} \cup
            UNION {Altered(encode_manifest(Spelled(m))) : m \in {m \in MCManifests : Len(m) <= 1}}
            \cup UNION {Altered(Unchecked(l)) : l \in ToSet(MCSpelling) \X ToSet(MCSpelling)}
      [] k = "plan" ->
            {UncheckedPlan(l) : l \in PathLists} \cup
            UNION {Altered(UncheckedPlan(l)) : l \in ToSet(MCSpelling) \X ToSet(MCSpelling)}
      [] OTHER ->
            UNION {Altered(Encode(k, t.value)) : t \in {t \in MCTransfers : t.kind = k}}

Kinds == {"manifest", "plan"} \cup {t.kind : t \in MCTransfers}

MCForeign == UNION {[kind : {k}, payload : Payloads(k)] : k \in Kinds}
=============================================================================
