---------------------------- MODULE UploadServer ----------------------------
(***************************************************************************)
(* receive_file against any peers: every connection may carry any sequence *)
(* of frames of the protocol, may break at any moment, and the server may  *)
(* be killed or lose power between any two of its system calls.            *)
(***************************************************************************)
EXTENDS ReceiveFile

CONSTANTS PeerFrames      \* the frames that peers send

ASSUME PeerAssumption == PeerFrames \subseteq ClientFrame

vars == <<link, c2s, s2c, sess, served, parts, dest, acked>>

PeerConnects(c) == Opened(c) /\ UNCHANGED serverVars

(* A peer reads what has arrived and sends one frame; it sends the next one *)
(* when the server has taken this one (the bound on frames in flight).      *)
PeerSends(c) ==
    /\ link[c] = "up" /\ c2s[c] = << >>
    /\ \E frame \in PeerFrames : c2s' = [c2s EXCEPT ![c] = Append(@, frame)]
    /\ s2c' = [s2c EXCEPT ![c] = << >>]
    /\ UNCHANGED link /\ UNCHANGED serverVars

ConnectionBreaks(c) == Break(c) /\ UNCHANGED serverVars

Init == WireInit /\ ServerInit

Next ==
    \/ ServerStep
    \/ \E c \in Conns : PeerConnects(c) \/ PeerSends(c) \/ ConnectionBreaks(c)
    \/ KillServer
    \/ PowerMayFail /\ PowerFailure

Spec == Init /\ [][Next]_vars
-----------------------------------------------------------------------------
(* Every variable keeps its type. *)
TypeOK ==
    /\ link \in [Conns -> {"closed", "up", "down"}]
    /\ c2s \in [Conns -> Seq(ClientFrame)]
    /\ DOMAIN s2c = Conns
    /\ sess \in Session \cup {NoSession}
    /\ served \subseteq Conns
    /\ parts \in [Metas -> Entry]
    /\ dest \in [Paths -> Entry]
    /\ acked \in [Metas -> Nat]

(* The part of the current chunk that has reached the file. *)
Landed == IF At("write") THEN SubSeq(sess.chunk, 1, sess.written) ELSE << >>

(* The running checksum never describes anything but the bytes in the       *)
(* partial file, and offset and file position agree with its length: across *)
(* resumes, restarts from zero, short writes and oversized leftovers        *)
(* (receive_file computes the CRC from what it receives, not from what it   *)
(* has stored, so this is what makes the final verification meaningful).    *)
ChecksumDescribesPartial ==
    sess # NoSession /\ sess.pc # "syncdirs" =>
        /\ parts[sess.meta].now = sess.checksum \o Landed
        /\ sess.offset = Len(sess.checksum)
        /\ sess.position = Len(parts[sess.meta].now)
        /\ sess.offset <= sess.meta.size

(* Content that some declared upload to this path describes. *)
VerifiedContent(p, content) ==
    /\ content # NoFile
    /\ \E m \in Metas : m.path = p /\ Len(content) = m.size /\ Crc(content) = m.crc

(* A final path changes only when receive_file renames a partial whose      *)
(* stored bytes have the declared size and checksum, or when a power        *)
(* failure takes it back to an earlier such state; an interrupted, rejected *)
(* or crashed transfer never touches the file that was there.               *)
OnlyVerifiedBecomesVisible ==
    [][\A p \in Paths : dest'[p].now # dest[p].now =>
          \/ /\ At("rename") /\ sess.meta.path = p
             /\ dest'[p].now = parts[sess.meta].now
             /\ Len(dest'[p].now) = sess.meta.size
             /\ Crc(dest'[p].now) = sess.meta.crc
          \/ dest'[p].now \in Outcomes(dest[p]) /\ sess' = NoSession]_vars

(* Whatever a power failure does to a final path, it leaves the content the *)
(* server started with or one that was verified in full: the data is synced *)
(* before the rename, so the new name can never show a torn file.           *)
NeverTorn ==
    \A p \in Paths : \A content \in Outcomes(dest[p]) :
        \/ \E old \in InitDest : content = old[p]
        \/ VerifiedContent(p, content)

(* Every acknowledged byte of a partial that has been neither discarded,    *)
(* restarted nor committed since survives a power failure (each chunk and   *)
(* the partial directory are synchronised before the acknowledgment).       *)
AcknowledgedIsDurable ==
    \A m \in Metas : acked[m] # 0 =>
        \A left \in Outcomes(parts[m]) :
            /\ left # NoFile
            /\ acked[m] <= Len(left)
            /\ SubSeq(left, 1, acked[m]) = SubSeq(parts[m].now, 1, acked[m])

(* While an upload is in progress, the partial directory stays within its   *)
(* budget of files and bytes, with the declared size of this upload counted *)
(* in full: the check is made once, before the partial is opened, so it     *)
(* must hold whatever mixture of interrupted, rejected and resumed uploads, *)
(* and of partials that a power failure brought back, led there.            *)
PartialBudgetKept ==
    sess # NoSession =>
        LET others == {m \in Metas \ {sess.meta} : Exists(parts[m])}
            bytes  == SumFunction([m \in others |-> Len(parts[m].now)])
        IN  /\ Cardinality(others) + 1 <= MaxPartialFiles
            /\ sess.meta.size + bytes <= MaxPartialBytes

(* What a process sees of the final paths, and what may return. *)
Promise == INSTANCE AtomicUpload WITH
    visible <- [p \in Paths |-> dest[p].now],
    fallback <- [p \in Paths |-> dest[p].names],
    Verified <- VerifiedContent,
    Initial <- InitDest

(* receive_file keeps the promise of AtomicUpload: seen from the final      *)
(* paths, all its steps, its rejections, kills and power failures are       *)
(* nothing but atomic replacements with verified content, and returns to    *)
(* what was there before one that was not synchronised yet.                 *)
UploadsAreAtomic == Promise!Spec
=============================================================================
