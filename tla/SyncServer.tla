----------------------------- MODULE SyncServer -----------------------------
(***************************************************************************)
(* receive_directory_sync against any peers: every connection may carry    *)
(* any sequence of the frames of PeerFrames and may break at any moment.   *)
(***************************************************************************)
EXTENDS ReceiveDirectorySync

CONSTANTS PeerFrames     \* the frames that peers send

(* What peers send is anything that decode_frame lets pass; a manifest that *)
(* decode_manifest accepts is one.                                          *)
ASSUME PeerAssumption ==
    \A frame \in PeerFrames :
        /\ frame.rid \in Nat
        /\ frame.type = "UploadRequest" => frame.version \in Versions
        /\ frame.type = "SyncManifest" /\ frame.decoded = "Success" => Manifest(frame.files)

VARIABLES sent           \* history: frames sent per connection

MaxSent == 4             \* bound on them: a manifest, two files, the end

vars == <<link, c2s, s2c, dest, fallback, srv, served, commits, sent>>

PeerConnects(c) == Opened(c) /\ UNCHANGED serverVars /\ UNCHANGED sent

PeerSends(c) ==
    /\ link[c] = "up" /\ c2s[c] = << >> /\ sent[c] < MaxSent
    /\ \E frame \in PeerFrames : c2s' = [c2s EXCEPT ![c] = Append(@, frame)]
    /\ s2c' = [s2c EXCEPT ![c] = << >>]
    /\ sent' = [sent EXCEPT ![c] = @ + 1]
    /\ UNCHANGED link /\ UNCHANGED serverVars

ConnectionBreaks(c) == Break(c) /\ UNCHANGED serverVars /\ UNCHANGED sent

Init == WireInit /\ ServerInit /\ sent = [c \in Conns |-> 0]

Next ==
    \/ ServerStep(TRUE) /\ UNCHANGED sent
    \/ \E c \in Conns : PeerConnects(c) \/ PeerSends(c) \/ ConnectionBreaks(c)
    \/ (KillServer \/ PowerFailure) /\ UNCHANGED sent

Spec == Init /\ [][Next]_vars
-----------------------------------------------------------------------------
(* The record that scan_directory would make of a path now. *)
RecordOf(p) == [path |-> p, size |-> SizeOf(dest[p]), checksum |-> ChecksumOf(dest[p])]

(* A manifest names a path with another size or checksum than it has now. *)
NamesOutdated(source, p) ==
    /\ \E i \in 1 .. Len(source) : source[i].path = p
    /\ dest[p] # NoFile => \A i \in 1 .. Len(source) : source[i] # RecordOf(p)

ReplacesOutdated ==
    \A p \in Paths :
        /\ commits'[p] # commits[p] =>
              srv # NoSync /\ dest'[p] # NoFile /\ NamesOutdated(srv.source, p)
        /\ dest'[p] # dest[p] => commits'[p] # commits[p] \/ dest'[p] \in fallback[p]

(* A file is replaced only if the manifest of the running session names it  *)
(* with another size or checksum than it has at that moment: server-only    *)
(* and unchanged files are preserved, and nothing is transferred twice in a *)
(* session, whatever the peer asks for.  The only other way for a path to   *)
(* change is back, by a power failure before its commit.                    *)
OnlyOutdatedReplaced == [][ReplacesOutdated]_vars

(* A version that a peer may have asked to store under a path. *)
Offered(p, version) ==
    \E frame \in PeerFrames : frame.type = "UploadRequest" /\ frame.path = p /\ frame.version = version

Promise == INSTANCE AtomicUpload WITH visible <- dest, Verified <- Offered, Initial <- InitDest

(* The files of a synchronisation are replaced one by one, each atomically, *)
(* as module AtomicUpload says: no crash between the files of a plan, or    *)
(* between rename and commit of one, shows anything but its old or its new  *)
(* content.                                                                 *)
FilesChangeAtomically == Promise!Spec
=============================================================================
