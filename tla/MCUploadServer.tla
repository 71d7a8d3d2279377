--------------------------- MODULE MCUploadServer ---------------------------
(* UploadServer with a checksum that collides, two paths and four uploads. *)
EXTENDS UploadServer, TLC

CONSTANTS pathA, pathB

MCBlock == {0, 1}

MCCrc(content) == MapThenSumSet(LAMBDA i : i * content[i], DOMAIN content) % 3

MCPaths == {pathA, pathB}

long  == [path |-> pathA, size |-> 2, crc |-> 0]
short == [path |-> pathB, size |-> 1, crc |-> 1]
empty == [path |-> pathA, size |-> 0, crc |-> 0]
huge  == [path |-> pathB, size |-> 3, crc |-> 0]

MCMetas == {long, short, empty, huge}

MCInitParts ==
    {[m \in MCMetas |-> IF m = long THEN held ELSE NoFile] :
        held \in {NoFile, <<1, 1, 1>>}}

MCInitDest == {[x \in MCPaths |-> IF x = pathA THEN <<0>> ELSE NoFile]}

MCPeerFrames ==
    {UploadRequest(1, 0, m, "ok") : m \in MCMetas}
    \cup {UploadRequest(1, 0, long, "InvalidPath")}
    \cup {FileChunk(1, 1, 0, d) : d \in {<< >>, <<1>>, <<1, 1>>}}
    \cup {FileChunk(1, 1, 1, <<1>>), FileChunk(2, 1, 0, <<1>>)}
    \cup {TransferComplete(1, 1, TRUE)}
    \cup {[type |-> kind, rid |-> 1, tid |-> 1] : kind \in {"Malformed", "Other"}}

MCSymmetry == Permutations(Conns)

(* What the server has sent has no influence on it or on these peers. *)
MCView == <<link, c2s, sess, served, parts, dest, acked>>
=============================================================================
