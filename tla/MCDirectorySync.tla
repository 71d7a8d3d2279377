-------------------------- MODULE MCDirectorySync --------------------------
(* Trees of three paths, and versions that share a size or a checksum. *)
EXTENDS DirectorySync

MCPaths == 1 .. 3

MCConns == 0 .. MaxRetries

MCSizeOf(v) == v % 2
MCChecksumOf(v) == v \div 2

MCInitSource == {<<1, 3, NoFile>>, <<2, 3, 1>>}

(* The destination has one file as it is in the first source, one in        *)
(* another version, and one that the source has not; or it has nothing.     *)
MCOldDest == {<<1, 2, 2>>}

MCInitDest == MCOldDest \cup {<<NoFile, NoFile, NoFile>>}
=============================================================================
