------------------------------ MODULE MCUpload ------------------------------
(* Upload with small files and a checksum that collides. *)
EXTENDS Upload

CONSTANTS pathA

MCBlock == {0, 1}

MCCrc(content) == MapThenSumSet(LAMBDA i : i * content[i], DOMAIN content) % 3

MCPaths == {pathA}

MCConns == 0 .. MaxRetries

(* A source that changes between two versions of different length. *)
MCChanging == {<<1>>, <<0, 1>>}

(* A source that stays as it is. *)
MCStable == {<<1, 1, 1>>}

MCMetas == {[path |-> pathA, size |-> Len(a), crc |-> MCCrc(b)] : a, b \in Sources}

MCNoParts == {[m \in MCMetas |-> NoFile]}

(* Leftovers: none, a good prefix, all of it, another content with the same *)
(* and with a different checksum, one that is too long.                     *)
MCLeftovers ==
    {[m \in MCMetas |-> held] :
        held \in {NoFile, <<1>>, <<1, 1, 1>>, <<0, 0>>, <<0, 1, 1>>, <<0, 1, 1, 1>>}}

MCInitDest == {[x \in MCPaths |-> <<0>>]}
=============================================================================
