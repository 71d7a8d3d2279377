----------------------------- MODULE ReceiveFile -----------------------------
(***************************************************************************)
(* The server side of an upload: receive_file of                           *)
(* src/common/file_transfer.cpp, as serve_client_session runs it for every *)
(* connection whose first frame is an UploadRequest.  The destination      *)
(* mutex serialises the calls, so at most one session is in progress.      *)
(*                                                                         *)
(* The file system is the one of module Disk: it survives the death of the *)
(* server process, and a power failure leaves it in one of the states that *)
(* the calls of fsync have not excluded.                                   *)
(***************************************************************************)
EXTENDS Disk, Wire

CONSTANTS Paths,            \* remote paths
          Crc(_),           \* the CRC-32 of a sequence of blocks
          Metas,            \* UploadMetadata values that are ever requested
          NoSession,        \* sess while the destination mutex is free
          MaxFileSize,      \* TransferLimits::max_file_size
          ChunkSize,        \* TransferLimits::chunk_size
          MaxPartialBytes,  \* TransferLimits::max_partial_bytes
          MaxPartialFiles,  \* TransferLimits::max_partial_files
          StorageFaults,    \* may file-system calls of the server fail?
          PowerMayFail,     \* are power failures part of the environment?
          InitParts,        \* the partial directories a server may start with
          InitDest          \* the destinations a server may start with

ASSUME MetaAssumption ==
    \A m \in Metas : m.path \in Paths /\ m.size \in Nat

ASSUME LimitAssumption ==
    /\ ChunkSize \in Nat \ {0}
    /\ {MaxFileSize, MaxPartialBytes, MaxPartialFiles} \subseteq Nat
    /\ StorageFaults \in BOOLEAN /\ PowerMayFail \in BOOLEAN

ASSUME InitAssumption ==
    /\ \A old \in InitParts : old \in [Metas -> Content \cup {NoFile}]
    /\ \A old \in InitDest : old \in [Paths -> Content \cup {NoFile}]

VARIABLES sess,      \* the session that holds the destination mutex
          served,    \* connections whose session is over
          parts,     \* .syncwire-partials: Metas -> Entry
          dest,      \* the final paths: Paths -> Entry
          acked      \* history: bytes of each partial acknowledged to a client

serverVars == <<sess, served, parts, dest, acked>>
-----------------------------------------------------------------------------
(* Frames.  Only what receive_file looks at is kept of a header and payload. *)

UploadRequest(rid, tid, meta, decoded) ==
    [type |-> "UploadRequest", rid |-> rid, tid |-> tid,
     meta |-> meta, decoded |-> decoded]

FileChunk(rid, tid, offset, data) ==
    [type |-> "FileChunk", rid |-> rid, tid |-> tid,
     offset |-> offset, data |-> data]

TransferComplete(rid, tid, bare) ==
    [type |-> "TransferComplete", rid |-> rid, tid |-> tid, bare |-> bare]

TransferReady(rid, tid, offset, crc) ==
    [type |-> "TransferReady", rid |-> rid, tid |-> tid,
     offset |-> offset, crc |-> crc]

Acknowledgment(rid, tid, offset) ==
    [type |-> "Acknowledgment", rid |-> rid, tid |-> tid, offset |-> offset]

TransferResult(rid, tid, code) ==
    [type |-> "TransferResult", rid |-> rid, tid |-> tid, code |-> code]

(* What a peer may send, well formed or not: "Malformed" is a header that   *)
(* does not decode, "Other" any message type without a role in an upload.   *)
ClientFrame ==
    [type : {"UploadRequest"}, rid : Nat, tid : Nat, meta : Metas,
     decoded : {"ok", "InvalidPath", "InvalidPayload"}]
    \cup [type : {"FileChunk"}, rid : Nat, tid : Nat, offset : Nat, data : Content]
    \cup [type : {"TransferComplete"}, rid : Nat, tid : Nat, bare : BOOLEAN]
    \cup [type : {"Malformed", "Other"}, rid : Nat, tid : Nat]

(* result_code_for_status, on the statuses that receive_file passes to it. *)
ResultCodeForStatus(status) ==
    CASE status \in {"FileOpenError", "FileReadError", "FileWriteError",
                     "FileCommitError"} -> "FileIoError"
      [] status \in {"UnexpectedMessageType", "UnexpectedFrame"} -> "UnexpectedFrame"
      [] status \in {"InvalidRequest", "InvalidPayload"} -> "InvalidRequest"
      [] OTHER -> status
-----------------------------------------------------------------------------
(* Mutant: the bytes this upload holds already count, not its declared size. *)
WithinPartialBudget_HeldOnly(m) ==
    LET others == {o \in Metas \ {m} : Exists(parts[o])}
        held   == IF Exists(parts[m]) THEN Len(parts[m].now) ELSE 0
        bytes  == SumFunction([o \in others |-> Len(parts[o].now)])
    IN  /\ held + bytes <= MaxPartialBytes
        /\ Cardinality(others) + 1 <= MaxPartialFiles

(* within_partial_budget: the declared size of this upload is reserved, the *)
(* other partial files count with the bytes they hold.                      *)
WithinPartialBudget(m) ==
    LET others == {o \in Metas \ {m} : Exists(parts[o])}
        bytes  == SumFunction([o \in others |-> Len(parts[o].now)])
    IN  /\ m.size + bytes <= MaxPartialBytes
        /\ Cardinality(others) + 1 <= MaxPartialFiles
-----------------------------------------------------------------------------
(* The session.                                                             *)

(* Where receive_file is between two system calls:                          *)
(*   ready    about to send TransferReady                                   *)
(*   loop     waiting for a frame of the transfer                           *)
(*   write    inside write_all for the current chunk                        *)
(*   sync     chunk written, about to fsync the file and its directory      *)
(*   ack      about to acknowledge                                          *)
(*   rename   size and checksum verified, data synchronised                 *)
(*   syncdirs renamed, about to fsync both directories                      *)
Stages == {"ready", "loop", "write", "sync", "ack", "rename", "syncdirs"}

Session ==
    [conn : Conns, rid : Nat, pc : Stages, meta : Metas, offset : Nat,
     checksum : Content,      \* the bytes the running Crc32 has been fed
     position : Nat,          \* file position of the partial's descriptor
     first_chunk : BOOLEAN,
     chunk : Content, written : Nat]

ASSUME SessionAssumption == NoSession \notin Session

At(pc) == sess # NoSession /\ sess.pc = pc

Serving(c) == sess # NoSession /\ sess.conn = c

Incoming == Head(c2s[sess.conn])

(* receive_file returns and releases the destination mutex. *)
Return ==
    /\ sess' = NoSession
    /\ served' = served \cup {sess.conn}

(* fsync of the partial directory. *)
DirectorySynced(entries) == [m \in Metas |-> NameSynced(entries[m])]

(* A result is sent; whether the send fails makes no difference any more. *)
Reply(c, rid, tid, code) ==
    s2c' = SendOn(s2c, c, TransferResult(rid, tid, code))

(* cleanup, before the commit: the partial, in the given state, is unlinked; *)
(* a failure of unlinkat goes unnoticed.                                    *)
Cleanup(entry) ==
    /\ \/ parts' = [parts EXCEPT ![sess.meta] = Unlinked(entry)]
       \/ StorageFaults /\ parts' = [parts EXCEPT ![sess.meta] = entry]
    /\ acked' = [acked EXCEPT ![sess.meta] = 0]
    /\ UNCHANGED dest

(* reject_transfer before the commit. *)
RejectTransfer(status, entry) ==
    /\ Cleanup(entry)
    /\ Reply(sess.conn, sess.rid, sess.rid, ResultCodeForStatus(status))
    /\ Return

(* Mutant: the partial of an interrupted transfer is discarded. *)
Interrupted_Discards == Cleanup(parts[sess.meta]) /\ Return

(* interrupted, for PeerClosed and SystemError: the partial is kept if it   *)
(* can be synchronised.                                                     *)
Interrupted ==
    \/ /\ parts' = [parts EXCEPT ![sess.meta] = FileSynced(@)]
       /\ Return
       /\ UNCHANGED <<dest, acked>>
    \/ /\ StorageFaults
       /\ Cleanup(parts[sess.meta])
       /\ Return
-----------------------------------------------------------------------------
(* Starting a session.                                                      *)

(* The dispatcher closes a connection whose first frame is no UploadRequest *)
(* or does not arrive; PING and SyncManifest are not part of this module.   *)
RefuseFirstFrame(c) ==
    /\ c \notin served /\ ~Serving(c)
    /\ \/ RecvFails(c2s, c) /\ UNCHANGED c2s
       \/ /\ HasFrame(c2s, c) /\ Head(c2s[c]).type # "UploadRequest"
          /\ c2s' = Consumed(c2s, c)
    /\ served' = served \cup {c}
    /\ UNCHANGED <<link, s2c, sess, parts, dest, acked>>

(* The mutex is free and the next session is the one of connection c. *)
Dispatched(c) ==
    /\ sess = NoSession /\ c \notin served
    /\ HasFrame(c2s, c) /\ Head(c2s[c]).type = "UploadRequest"
    /\ c2s' = Consumed(c2s, c)
    /\ UNCHANGED link

WellFormed(request) ==
    /\ request.tid = 0 /\ request.rid # 0 /\ request.decoded = "ok"
    /\ request.meta.size <= MaxFileSize

(* prepare_destination and the opening of the partial may fail, or find a   *)
(* symbolic link or a non-directory on the way.                             *)
PrepareStatus == IF StorageFaults THEN {"InvalidPath", "FileOpenError"} ELSE {}

(* The statuses of reject_before_ready up to the opening of the partial. *)
EarlyStatus(request) ==
    IF request.tid # 0 \/ request.rid = 0 THEN {"InvalidRequest"}
    ELSE IF request.decoded # "ok" THEN {request.decoded}
    ELSE IF request.meta.size > MaxFileSize THEN {"FileTooLarge"}
    ELSE PrepareStatus
         \cup (IF WithinPartialBudget(request.meta) THEN {} ELSE {"FileOpenError"})

RejectRequest(c) ==
    LET request == Head(c2s[c])
    IN  /\ Dispatched(c)
        /\ \E status \in EarlyStatus(request) :
              Reply(c, request.rid, 0, ResultCodeForStatus(status))
        /\ served' = served \cup {c}
        /\ UNCHANGED <<sess, parts, dest, acked>>

(* The partial was opened, and perhaps created, but its status, lock,       *)
(* truncation or prefix read failed: it is left where it is.                *)
RejectOpened(c) ==
    LET request == Head(c2s[c])
        m       == request.meta
    IN  /\ StorageFaults
        /\ Dispatched(c)
        /\ WellFormed(request) /\ WithinPartialBudget(m)
        /\ parts' = [parts EXCEPT ![m] = OpenedOrCreated(@)]
        /\ \E status \in {"FileOpenError", "FileWriteError", "FileReadError"} :
              Reply(c, request.rid, 0, ResultCodeForStatus(status))
        /\ served' = served \cup {c}
        /\ UNCHANGED <<sess, dest, acked>>

(* Mutant: the prefix is what the partial held before it was created. *)
OpenPartial_StalePrefix(c) ==
    LET request == Head(c2s[c])
        m       == request.meta
        opened  == OpenedOrCreated(parts[m])
        held    == IF Len(opened.now) > m.size THEN Changed(opened, << >>) ELSE opened
    IN  /\ Dispatched(c)
        /\ WellFormed(request) /\ WithinPartialBudget(m)
        /\ parts' = [parts EXCEPT ![m] = held]
        /\ acked' = [acked EXCEPT ![m] = IF held = opened THEN @ ELSE 0]
        /\ sess' = [conn |-> c, rid |-> request.rid, pc |-> "ready", meta |-> m,
                     offset |-> Len(held.now),
                     checksum |-> IF held = opened THEN parts[m].now ELSE << >>,
                     position |-> Len(held.now), first_chunk |-> TRUE,
                     chunk |-> << >>, written |-> 0]
        /\ UNCHANGED <<s2c, served, dest>>

(* Mutant: a partial that is longer than the file is not truncated. *)
OpenPartial_KeepsExcess(c) ==
    LET request == Head(c2s[c])
        m       == request.meta
        held    == OpenedOrCreated(parts[m])
    IN  /\ Dispatched(c)
        /\ WellFormed(request) /\ WithinPartialBudget(m)
        /\ parts' = [parts EXCEPT ![m] = held]
        /\ sess' = [conn |-> c, rid |-> request.rid, pc |-> "ready", meta |-> m,
                     offset |-> Len(held.now), checksum |-> held.now,
                     position |-> Len(held.now), first_chunk |-> TRUE,
                     chunk |-> << >>, written |-> 0]
        /\ UNCHANGED <<s2c, served, dest, acked>>

(* A partial longer than the file is truncated; what it holds is the prefix *)
(* that will be offered, and the descriptor stands behind it.               *)
OpenPartial(c) ==
    LET request == Head(c2s[c])
        m       == request.meta
        opened  == OpenedOrCreated(parts[m])
        held    == IF Len(opened.now) > m.size THEN Changed(opened, << >>) ELSE opened
    IN  /\ Dispatched(c)
        /\ WellFormed(request) /\ WithinPartialBudget(m)
        /\ parts' = [parts EXCEPT ![m] = held]
        /\ acked' = [acked EXCEPT ![m] = IF held = opened THEN @ ELSE 0]
        /\ sess' = [conn |-> c, rid |-> request.rid, pc |-> "ready", meta |-> m,
                     offset |-> Len(held.now), checksum |-> held.now,
                     position |-> Len(held.now), first_chunk |-> TRUE,
                     chunk |-> << >>, written |-> 0]
        /\ UNCHANGED <<s2c, served, dest>>

SendReady ==
    /\ At("ready")
    /\ s2c' = SendOn(s2c, sess.conn,
                 TransferReady(sess.rid, sess.rid, sess.offset, Crc(sess.checksum)))
    /\ sess' = [sess EXCEPT !.pc = "loop"]
    /\ UNCHANGED <<link, c2s, served, parts, dest, acked>>

SendReadyFails ==
    /\ At("ready") /\ SendFails(sess.conn)
    /\ Interrupted
    /\ UNCHANGED wireVars
-----------------------------------------------------------------------------
(* The transfer loop.                                                       *)

(* A client whose prefix verification failed starts over with its first     *)
(* chunk.                                                                   *)
Restarts(frame) ==
    sess.first_chunk /\ sess.offset # 0 /\ frame.offset = 0

(* The statuses with which a frame of the running transfer is rejected. *)
ChunkStatus(frame) ==
    LET base == IF Restarts(frame) THEN 0 ELSE sess.offset
    IN  IF frame.data = << >> THEN {"InvalidPayload"}
        ELSE IF frame.offset # base THEN {"UnexpectedOffset"}
        ELSE (IF Len(frame.data) > ChunkSize \/ Len(frame.data) > sess.meta.size - base
              THEN {"SizeMismatch"} ELSE {})
             \cup (IF StorageFaults /\ Restarts(frame) THEN {"FileWriteError"} ELSE {})

CompleteStatus(frame) ==
    IF ~frame.bare THEN {"InvalidPayload"}
    ELSE IF sess.offset # sess.meta.size THEN {"SizeMismatch"}
    ELSE IF Crc(sess.checksum) # sess.meta.crc THEN {"ChecksumMismatch"}
    ELSE IF StorageFaults THEN {"FileCommitError"} ELSE {}

FrameStatus(frame) ==
    IF frame.rid # sess.rid \/ frame.tid # sess.rid THEN {"UnexpectedFrame"}
    ELSE IF frame.type = "TransferComplete" THEN CompleteStatus(frame)
    ELSE IF frame.type = "FileChunk" THEN ChunkStatus(frame)
    ELSE {"UnexpectedMessageType"}

Receiving ==
    /\ At("loop") /\ HasFrame(c2s, sess.conn)
    /\ c2s' = Consumed(c2s, sess.conn)
    /\ UNCHANGED link

OfTransfer(frame, type) ==
    frame.type = type /\ frame.rid = sess.rid /\ frame.tid = sess.rid

(* A chunk that restarts the transfer is rejected after the truncation. *)
RejectFrame ==
    LET truncates == /\ OfTransfer(Incoming, "FileChunk")
                     /\ Incoming.data # << >> /\ Restarts(Incoming)
        entry     == parts[sess.meta]
    IN  /\ Receiving /\ Incoming.type # "Malformed"
        /\ \E status \in FrameStatus(Incoming) :
              RejectTransfer(status, IF truncates THEN Changed(entry, << >>) ELSE entry)

(* A header that does not decode ends the transfer without a reply, and the *)
(* partial is discarded.                                                    *)
DiscardMalformed ==
    /\ Receiving /\ Incoming.type = "Malformed"
    /\ Cleanup(parts[sess.meta])
    /\ Return
    /\ UNCHANGED s2c

(* Mutant: the end of the connection is taken for a frame still to come. *)
RecvInterrupted_KeepsWaiting ==
    /\ At("loop") /\ RecvFails(c2s, sess.conn)
    /\ UNCHANGED serverVars /\ UNCHANGED wireVars

RecvInterrupted ==
    /\ At("loop") /\ RecvFails(c2s, sess.conn)
    /\ Interrupted
    /\ UNCHANGED wireVars

(* Mutant: a restart truncates the file but leaves the file position. *)
AcceptChunk_KeepsPosition ==
    LET frame    == Incoming
        m        == sess.meta
        restarts == Restarts(frame)
        base     == IF restarts THEN 0 ELSE sess.offset
    IN  /\ Receiving
        /\ OfTransfer(frame, "FileChunk")
        /\ frame.data # << >> /\ frame.offset = base
        /\ Len(frame.data) <= ChunkSize /\ Len(frame.data) <= m.size - base
        /\ sess' = [sess EXCEPT
                       !.pc = "write", !.chunk = frame.data, !.written = 0,
                       !.first_chunk = FALSE, !.offset = base,
                       !.checksum = IF restarts THEN << >> ELSE @]
        /\ parts' = [parts EXCEPT ![m] = IF restarts THEN Changed(@, << >>) ELSE @]
        /\ acked' = [acked EXCEPT ![m] = IF restarts THEN 0 ELSE @]
        /\ UNCHANGED <<s2c, served, dest>>

(* An acceptable chunk; on a restart the partial is truncated first. *)
AcceptChunk ==
    LET frame    == Incoming
        m        == sess.meta
        restarts == Restarts(frame)
        base     == IF restarts THEN 0 ELSE sess.offset
    IN  /\ Receiving
        /\ OfTransfer(frame, "FileChunk")
        /\ frame.data # << >> /\ frame.offset = base
        /\ Len(frame.data) <= ChunkSize /\ Len(frame.data) <= m.size - base
        /\ sess' = [sess EXCEPT
                       !.pc = "write", !.chunk = frame.data, !.written = 0,
                       !.first_chunk = FALSE, !.offset = base,
                       !.checksum = IF restarts THEN << >> ELSE @,
                       !.position = IF restarts THEN 0 ELSE @]
        /\ parts' = [parts EXCEPT ![m] = IF restarts THEN Changed(@, << >>) ELSE @]
        /\ acked' = [acked EXCEPT ![m] = IF restarts THEN 0 ELSE @]
        /\ UNCHANGED <<s2c, served, dest>>

(* One write(2) of write_all: any positive number of the remaining blocks;  *)
(* after the last one the checksum and the offset take in the chunk.        *)
WriteBlocks(n) ==
    LET m    == sess.meta
        data == WriteAt(parts[m].now, sess.position,
                        SubSeq(sess.chunk, sess.written + 1, sess.written + n))
        last == sess.written + n = Len(sess.chunk)
    IN  /\ At("write") /\ n <= Len(sess.chunk) - sess.written
        /\ parts' = [parts EXCEPT ![m] = Changed(@, data)]
        /\ sess' = [sess EXCEPT
                       !.written = @ + n, !.position = @ + n,
                       !.pc = IF last THEN "sync" ELSE "write",
                       !.checksum = IF last THEN @ \o sess.chunk ELSE @,
                       !.offset = IF last THEN @ + Len(sess.chunk) ELSE @]
        /\ UNCHANGED <<served, dest, acked>> /\ UNCHANGED wireVars

(* A failing write, or a failing fsync of the file or of its directory. *)
StoreFails ==
    /\ StorageFaults /\ (At("write") \/ At("sync"))
    /\ RejectTransfer("FileWriteError", parts[sess.meta])
    /\ UNCHANGED <<link, c2s>>

(* Mutant: the partial directory is not synchronised. *)
SyncChunk_FileOnly ==
    LET m == sess.meta
    IN  /\ At("sync")
        /\ parts' = [parts EXCEPT ![m] = FileSynced(@)]
        /\ sess' = [sess EXCEPT !.pc = "ack"]
        /\ UNCHANGED <<served, dest, acked>> /\ UNCHANGED wireVars

SyncChunk ==
    LET m == sess.meta
    IN  /\ At("sync")
        /\ parts' = DirectorySynced([parts EXCEPT ![m] = FileSynced(@)])
        /\ sess' = [sess EXCEPT !.pc = "ack"]
        /\ UNCHANGED <<served, dest, acked>> /\ UNCHANGED wireVars

SendAck ==
    /\ At("ack")
    /\ s2c' = SendOn(s2c, sess.conn, Acknowledgment(sess.rid, sess.rid, sess.offset))
    /\ acked' = [acked EXCEPT ![sess.meta] = sess.offset]
    /\ sess' = [sess EXCEPT !.pc = "loop", !.chunk = << >>, !.written = 0]
    /\ UNCHANGED <<link, c2s, served, parts, dest>>

SendAckFails ==
    /\ At("ack") /\ SendFails(sess.conn)
    /\ Interrupted
    /\ UNCHANGED wireVars
-----------------------------------------------------------------------------
(* The commit.                                                              *)

(* Mutant: the file is renamed without an fsync. *)
Verify_NoSync ==
    LET m == sess.meta
    IN  /\ Receiving
        /\ OfTransfer(Incoming, "TransferComplete") /\ Incoming.bare
        /\ sess.offset = m.size /\ Crc(sess.checksum) = m.crc
        /\ sess' = [sess EXCEPT !.pc = "rename"]
        /\ UNCHANGED <<s2c, served, parts, dest, acked>>

(* TransferComplete: size and checksum agree, the data is synchronised. *)
Verify ==
    LET m == sess.meta
    IN  /\ Receiving
        /\ OfTransfer(Incoming, "TransferComplete") /\ Incoming.bare
        /\ sess.offset = m.size /\ Crc(sess.checksum) = m.crc
        /\ parts' = [parts EXCEPT ![m] = FileSynced(@)]
        /\ sess' = [sess EXCEPT !.pc = "rename"]
        /\ UNCHANGED <<s2c, served, dest, acked>>

RenameFails ==
    /\ StorageFaults /\ At("rename")
    /\ RejectTransfer("FileCommitError", parts[sess.meta])
    /\ UNCHANGED <<link, c2s>>

Rename ==
    LET m == sess.meta
    IN  /\ At("rename")
        /\ dest' = [dest EXCEPT ![m.path] = RenamedOver(@, parts[m])]
        /\ parts' = [parts EXCEPT ![m] = Unlinked(@)]
        /\ acked' = [acked EXCEPT ![m] = 0]
        /\ sess' = [sess EXCEPT !.pc = "syncdirs"]
        /\ UNCHANGED served /\ UNCHANGED wireVars

(* Mutant: success is reported before the directories are synchronised. *)
Commit_NoDirectorySync ==
    /\ At("syncdirs")
    /\ Reply(sess.conn, sess.rid, sess.rid, "Success")
    /\ Return
    /\ UNCHANGED <<link, c2s, parts, dest, acked>>

(* Both directories are synchronised before success is reported. *)
Commit ==
    LET m == sess.meta
    IN  /\ At("syncdirs")
        /\ dest' = [dest EXCEPT ![m.path] = NameSynced(@)]
        /\ parts' = DirectorySynced(parts)
        /\ Reply(sess.conn, sess.rid, sess.rid, "Success")
        /\ Return
        /\ UNCHANGED <<link, c2s, acked>>

(* Mutant: a replacement that could not be made durable is undone. *)
SyncDirsFails_RollsBack ==
    LET p   == sess.meta.path
        old == CHOOSE content \in dest[p].names : TRUE
    IN  /\ StorageFaults /\ At("syncdirs")
        /\ dest' = [dest EXCEPT ![p] = RenamedOver(@, Stored(old))]
        /\ Reply(sess.conn, sess.rid, sess.rid, ResultCodeForStatus("FileCommitError"))
        /\ Return
        /\ UNCHANGED <<link, c2s, parts, acked>>

(* The file is in place but its durability is unknown: FileCommitError, and *)
(* cleanup unlinks nothing because the partial was committed.               *)
SyncDirsFails ==
    /\ StorageFaults /\ At("syncdirs")
    /\ Reply(sess.conn, sess.rid, sess.rid, ResultCodeForStatus("FileCommitError"))
    /\ Return
    /\ UNCHANGED <<link, c2s, parts, dest, acked>>
-----------------------------------------------------------------------------
(* The worker closes the connection of a finished session. *)
CloseServed(c) ==
    /\ c \in served /\ link[c] = "up"
    /\ ServerEndClosed(c)
    /\ UNCHANGED serverVars

(* The server process dies and is restarted: the kernel closes its sockets, *)
(* and frames on their way to a client may be lost.                         *)
ProcessLost ==
    LET open == {c \in Conns : link[c] = "up"}
    IN  /\ sess' = NoSession
        /\ served' = served \cup {c \in Conns : link[c] # "closed"}
        /\ link' = [c \in Conns |-> IF c \in open THEN "down" ELSE link[c]]
        /\ c2s' = [c \in Conns |-> << >>]
        /\ \E lost \in SUBSET {c \in open : s2c[c] # << >>} :
              s2c' = [c \in Conns |-> IF c \in lost THEN << >> ELSE s2c[c]]

KillServer ==
    /\ ProcessLost
    /\ UNCHANGED <<parts, dest, acked>>

(* A power failure leaves every file in one of its possible states. *)
PowerFailure ==
    /\ ProcessLost
    /\ parts' \in AfterPowerFailure(parts)
    /\ dest' \in AfterPowerFailure(dest)
    /\ UNCHANGED acked
-----------------------------------------------------------------------------
ServerInit ==
    /\ sess = NoSession
    /\ served = {}
    /\ \E old \in InitParts : parts = [m \in Metas |-> Stored(old[m])]
    /\ \E old \in InitDest : dest = [p \in Paths |-> Stored(old[p])]
    /\ acked = [m \in Metas |-> 0]

(* The steps of receive_file itself. *)
TransferStep ==
    \/ SendReady \/ SendReadyFails
    \/ RejectFrame \/ DiscardMalformed \/ RecvInterrupted
    \/ AcceptChunk \/ (\E n \in 1 .. ChunkSize : WriteBlocks(n)) \/ StoreFails
    \/ SyncChunk \/ SendAck \/ SendAckFails
    \/ Verify \/ Rename \/ RenameFails \/ Commit \/ SyncDirsFails

ServerStep ==
    \/ \E c \in Conns : RefuseFirstFrame(c) \/ RejectRequest(c) \/ RejectOpened(c)
                          \/ OpenPartial(c) \/ CloseServed(c)
    \/ TransferStep
=============================================================================
