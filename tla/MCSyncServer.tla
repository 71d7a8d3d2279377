---------------------------- MODULE MCSyncServer ----------------------------
(* Peers that send well-formed and misplaced frames of two commands. *)
EXTENDS SyncServer

MCPaths == 1 .. 3

Record(p, v) == [path |-> p, size |-> SizeOf(v), checksum |-> ChecksumOf(v)]

(* Versions 1 and 3 have the same size, 2 and 3 the same checksum. *)
MCSizeOf(v) == v % 2
MCChecksumOf(v) == v \div 2

MCInitDest == {<<1, 2, NoFile>>}

MCFrames ==
    {SyncManifest(1, 0, <<Record(1, 1), Record(2, 3), Record(3, 2)>>, "Success"),
     SyncManifest(1, 0, <<Record(3, 1)>>, "Success"),
     SyncManifest(4, 0, <<Record(3, 1)>>, "Success"),
     SyncManifest(1, 0, << >>, "CodecError"),
     SyncManifest(0, 0, << >>, "Success"),
     SyncComplete(1, 0, TRUE), SyncComplete(1, 1, TRUE), SyncComplete(1, 0, FALSE)}
    \cup {UploadRequest(rid, 0, p, IF p = 3 THEN 2 ELSE 3) : rid \in {2, 3}, p \in MCPaths}
=============================================================================
