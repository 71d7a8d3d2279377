------------------------- MODULE ReceiveDirectorySync -------------------------
(***************************************************************************)
(* The server side of a directory synchronisation: receive_directory_sync  *)
(* of src/common/directory_sync.cpp, as serve_client_session runs it under *)
(* the destination mutex for a connection that begins with a SyncManifest. *)
(*                                                                         *)
(* The transfer of one file (receive_file, which module ReceiveFile models *)
(* step by step) is reduced to the rename and the commit behind it; the    *)
(* request carries the version of the file that is sent.  Module           *)
(* AtomicUpload is what both models promise for the destination.  A tree   *)
(* is a function from paths to versions; a manifest holds only the size    *)
(* and checksum of a version.                                              *)
(***************************************************************************)
EXTENDS Manifest, Wire

CONSTANTS Versions,        \* contents of files
          NoFile,          \* a path without a regular file
          SizeOf(_), ChecksumOf(_),
          NoSync,          \* srv while the destination mutex is free
          MaxId,           \* the largest std::uint64_t
          InitDest,        \* the destination trees a server may start with
          StorageFaults    \* may scans and file-system calls fail?

Tree == [Paths -> Versions \cup {NoFile}]

(* What receive_directory_sync keeps while it runs. *)
Session ==
    [conn : Conns, rid : Nat, pc : {"plan", "files", "commit"}, source : Seq(FileRecord),
     plan : Plan, index : Nat]

(* A remote path has at most kMaxRemotePathLength bytes: there are finitely *)
(* many.                                                                    *)
ASSUME SyncAssumption ==
    /\ IsFiniteSet(Paths)
    /\ NoFile \notin Versions /\ MaxId \in Nat /\ StorageFaults \in BOOLEAN
    /\ InitDest \subseteq Tree /\ NoSync \notin Session

VARIABLES dest,            \* the tree under destination_root, as processes see it
          fallback,        \* Paths -> versions a power failure may bring back
          srv,             \* the session that holds the destination mutex
          served,          \* Conns -> status of its session, "none" before its end
          commits          \* history: how often a file was committed, per path

diskVars == <<dest, fallback, commits>>
serverVars == <<dest, fallback, srv, served, commits>>

(* scan_directory: a record of every regular file, sorted by path. *)
RecordsOf(tree) ==
    {[path |-> p, size |-> SizeOf(tree[p]), checksum |-> ChecksumOf(tree[p])] :
        p \in {q \in Paths : tree[q] # NoFile}}

ScanDirectory(tree) == FilesInOrder(RecordsOf(tree))

(* The uploads of a plan are numbered behind the request id of the command. *)
IdsSuffice(plan, rid) == Len(plan.upload_paths) <= MaxId - rid

(* decoded is what decode_manifest and the checks on the manifest make of   *)
(* its payload; bare tells whether a SyncComplete has no payload.           *)
SyncManifest(rid, tid, files, decoded) ==
    [type |-> "SyncManifest", rid |-> rid, tid |-> tid, files |-> files, decoded |-> decoded]
SyncPlan(rid, plan) == [type |-> "SyncPlan", rid |-> rid, tid |-> 0, plan |-> plan]
UploadRequest(rid, tid, path, version) ==
    [type |-> "UploadRequest", rid |-> rid, tid |-> tid, path |-> path, version |-> version]
TransferResult(rid, code) ==
    [type |-> "TransferResult", rid |-> rid, tid |-> 0, code |-> code]
SyncComplete(rid, tid, bare) ==
    [type |-> "SyncComplete", rid |-> rid, tid |-> tid, bare |-> bare]
SyncResult(rid, code) == [type |-> "SyncResult", rid |-> rid, tid |-> 0, code |-> code]

(* receive_control_frame. *)
ControlStatus(frame, type, rid) ==
    IF frame.rid # rid THEN "MismatchedRequestId"
    ELSE IF frame.tid # 0 THEN "UnexpectedTransferId"
    ELSE IF frame.type # type THEN "UnexpectedMessageType"
    ELSE "Success"
-----------------------------------------------------------------------------
At(pc) == srv # NoSync /\ srv.pc = pc

Serving(c) == srv # NoSync /\ srv.conn = c

Incoming == Head(c2s[srv.conn])

(* receive_directory_sync returns with a status and frees the mutex. *)
Finish(status) ==
    /\ srv' = NoSync
    /\ served' = [served EXCEPT ![srv.conn] = status]

(* It returns after sending a last frame, which may fail. *)
FinishSending(frame, status) ==
    \/ s2c' = SendOn(s2c, srv.conn, frame) /\ Finish(status)
    \/ SendFails(srv.conn) /\ UNCHANGED s2c /\ Finish("FrameIoError")

ServerReceives ==
    /\ HasFrame(c2s, srv.conn)
    /\ c2s' = Consumed(c2s, srv.conn)
    /\ UNCHANGED link

(* No first frame arrives, or one of another kind. *)
RefuseFirstFrame(c) ==
    /\ served[c] = "none" /\ ~Serving(c)
    /\ \/ /\ RecvFails(c2s, c) /\ UNCHANGED c2s
          /\ served' = [served EXCEPT ![c] = "FrameIoError"]
       \/ /\ HasFrame(c2s, c) /\ Head(c2s[c]).type # "SyncManifest"
          /\ c2s' = Consumed(c2s, c)
          /\ served' = [served EXCEPT ![c] = "UnsupportedMessage"]
    /\ UNCHANGED <<link, s2c, srv>> /\ UNCHANGED diskVars

(* The status of receive_directory_sync up to the sending of the plan; with *)
(* storage faults, creating or scanning the destination may fail.           *)
StartStatus(frame, plan) ==
    IF frame.rid = 0 \/ frame.tid # 0 THEN {"InvalidRequest"}
    ELSE IF frame.decoded # "Success" THEN {frame.decoded}
    ELSE {IF IdsSuffice(plan, frame.rid) THEN "Success" ELSE "InvalidRequestId"}
         \cup (IF StorageFaults THEN {"ScanError", "FileIoError"} ELSE {})

(* Mutant: the plan does not take the destination into account. *)
StartSync_SendsAll(c) ==
    LET frame == Head(c2s[c])
        plan  == PlanOf(frame.files, << >>)
    IN  /\ srv = NoSync /\ served[c] = "none"
        /\ HasFrame(c2s, c) /\ frame.type = "SyncManifest"
        /\ c2s' = Consumed(c2s, c)
        /\ \E status \in StartStatus(frame, plan) :
              IF status # "Success"
              THEN served' = [served EXCEPT ![c] = status] /\ UNCHANGED srv
              ELSE /\ srv' = [conn |-> c, rid |-> frame.rid, pc |-> "plan",
                              source |-> frame.files, plan |-> plan, index |-> 0]
                   /\ UNCHANGED served
        /\ UNCHANGED <<link, s2c>> /\ UNCHANGED diskVars

(* The manifest is decoded, the destination scanned and the plan built; a   *)
(* failure ends the session without a reply.                                *)
StartSync(c) ==
    LET frame == Head(c2s[c])
        plan  == PlanOf(frame.files, ScanDirectory(dest))
    IN  /\ srv = NoSync /\ served[c] = "none"
        /\ HasFrame(c2s, c) /\ frame.type = "SyncManifest"
        /\ c2s' = Consumed(c2s, c)
        /\ \E status \in StartStatus(frame, plan) :
              IF status # "Success"
              THEN served' = [served EXCEPT ![c] = status] /\ UNCHANGED srv
              ELSE /\ srv' = [conn |-> c, rid |-> frame.rid, pc |-> "plan",
                              source |-> frame.files, plan |-> plan, index |-> 0]
                   /\ UNCHANGED served
        /\ UNCHANGED <<link, s2c>> /\ UNCHANGED diskVars

SendPlan ==
    /\ At("plan")
    /\ s2c' = SendOn(s2c, srv.conn, SyncPlan(srv.rid, srv.plan))
    /\ srv' = [srv EXCEPT !.pc = "files"]
    /\ UNCHANGED <<link, c2s, served>> /\ UNCHANGED diskVars

SendPlanFails ==
    /\ At("plan") /\ SendFails(srv.conn)
    /\ Finish("FrameIoError")
    /\ UNCHANGED diskVars /\ UNCHANGED wireVars

FilesLeft == srv.index < Len(srv.plan.upload_paths)

(* Mutant: the path of the request is not compared with the plan. *)
IsPlanned_AnyPath(frame) ==
    /\ frame.type = "UploadRequest" /\ frame.tid = 0
    /\ frame.rid = srv.rid + srv.index + 1

(* The frame is the request for the next file of the plan. *)
IsPlanned(frame) ==
    /\ frame.type = "UploadRequest" /\ frame.tid = 0
    /\ frame.rid = srv.rid + srv.index + 1
    /\ frame.path = srv.plan.upload_paths[srv.index + 1]

RejectUnplanned ==
    /\ At("files") /\ FilesLeft
    /\ ServerReceives /\ ~IsPlanned(Incoming)
    /\ FinishSending(TransferResult(Incoming.rid, "UnexpectedFrame"), "PlanMismatch")
    /\ UNCHANGED diskVars

(* Mutant: the old file is removed first. *)
Replaced_Unlinks(path, version) ==
    /\ dest' = [dest EXCEPT ![path] = version]
    /\ fallback' = [fallback EXCEPT ![path] = @ \cup {dest[path], NoFile}]
    /\ commits' = [commits EXCEPT ![path] = @ + 1]

(* The rename; until it is synchronised the old file may come back. *)
Replaced(path, version) ==
    /\ dest' = [dest EXCEPT ![path] = version]
    /\ fallback' = [fallback EXCEPT ![path] = @ \cup {dest[path]}]
    /\ commits' = [commits EXCEPT ![path] = @ + 1]

(* receive_file takes the request and the data and renames the partial. *)
RenameFile ==
    /\ At("files") /\ FilesLeft
    /\ ServerReceives /\ IsPlanned(Incoming)
    /\ Replaced(Incoming.path, Incoming.version)
    /\ srv' = [srv EXCEPT !.pc = "commit"]
    /\ UNCHANGED <<s2c, served>>

(* receive_file fails before the rename: the data did not match the         *)
(* declared checksum; a file-system call failed or the partial budget was   *)
(* used up; or the connection was lost.                                     *)
ReceiveFileFails(mismatch) ==
    /\ At("files") /\ FilesLeft
    /\ ServerReceives /\ IsPlanned(Incoming)
    /\ \/ /\ mismatch
          /\ s2c' = SendOn(s2c, srv.conn, TransferResult(Incoming.rid, "ChecksumMismatch"))
       \/ /\ StorageFaults
          /\ s2c' = SendOn(s2c, srv.conn, TransferResult(Incoming.rid, "FileIoError"))
       \/ link[srv.conn] = "down" /\ UNCHANGED s2c
    /\ Finish("FileTransferError")
    /\ UNCHANGED diskVars

Outcome(code) == TransferResult(srv.rid + srv.index + 1, code)

(* Mutant: the directories are not synchronised. *)
CommitFile_NoSync ==
    /\ At("commit")
    /\ s2c' = SendOn(s2c, srv.conn, Outcome("Success"))
    /\ srv' = [srv EXCEPT !.pc = "files", !.index = @ + 1]
    /\ UNCHANGED <<link, c2s, served>> /\ UNCHANGED diskVars

(* The directories are synchronised and success is reported. *)
CommitFile ==
    LET path == srv.plan.upload_paths[srv.index + 1]
    IN  /\ At("commit")
        /\ fallback' = [fallback EXCEPT ![path] = {}]
        /\ s2c' = SendOn(s2c, srv.conn, Outcome("Success"))
        /\ srv' = [srv EXCEPT !.pc = "files", !.index = @ + 1]
        /\ UNCHANGED <<link, c2s, dest, served, commits>>

(* An fsync fails, or the result cannot be sent. *)
CommitFileFails ==
    LET path == srv.plan.upload_paths[srv.index + 1]
    IN  /\ At("commit")
        /\ \/ /\ StorageFaults /\ UNCHANGED fallback
              /\ s2c' = SendOn(s2c, srv.conn, Outcome("FileIoError"))
           \/ /\ SendFails(srv.conn) /\ UNCHANGED s2c
              /\ fallback' = [fallback EXCEPT ![path] = {}]
        /\ Finish("FileTransferError")
        /\ UNCHANGED <<link, c2s, dest, commits>>

(* After the last file: SyncComplete, the final scan and its result. *)
CompleteStatus(frame) ==
    LET status == ControlStatus(frame, "SyncComplete", srv.rid)
    IN  IF status # "Success" THEN {status}
        ELSE IF ~frame.bare THEN {"InvalidRequest"}
        ELSE {"Success"} \cup (IF StorageFaults THEN {"ScanError"} ELSE {})

(* Mutant: the final scan is left out. *)
VerifyDestination_NoScan ==
    /\ At("files") /\ ~FilesLeft
    /\ ServerReceives
    /\ \E status \in CompleteStatus(Incoming) :
          IF status # "Success" THEN Finish(status) /\ UNCHANGED s2c
          ELSE FinishSending(SyncResult(srv.rid, "Success"), "Success")
    /\ UNCHANGED diskVars

VerifyDestination ==
    LET verification == PlanOf(srv.source, ScanDirectory(dest))
    IN  /\ At("files") /\ ~FilesLeft
        /\ ServerReceives
        /\ \E status \in CompleteStatus(Incoming) :
              IF status # "Success" THEN Finish(status) /\ UNCHANGED s2c
              ELSE IF verification.upload_paths = << >>
              THEN FinishSending(SyncResult(srv.rid, "Success"), "Success")
              ELSE FinishSending(SyncResult(srv.rid, "DestinationChanged"), "VerificationFailed")
        /\ UNCHANGED diskVars

RecvInterrupted ==
    /\ At("files") /\ RecvFails(c2s, srv.conn)
    /\ Finish("FrameIoError")
    /\ UNCHANGED diskVars /\ UNCHANGED wireVars

(* The worker closes the connection of a finished session. *)
CloseServed(c) ==
    /\ served[c] # "none" /\ link[c] = "up"
    /\ ServerEndClosed(c)
    /\ UNCHANGED serverVars

(* The server process dies, with its connections, and is restarted. *)
ProcessLost ==
    LET open == {c \in Conns : link[c] = "up"}
    IN  /\ srv' = NoSync
        /\ served' = [c \in Conns |-> IF link[c] # "closed" /\ served[c] = "none"
                                      THEN "Killed" ELSE served[c]]
        /\ link' = [c \in Conns |-> IF c \in open THEN "down" ELSE link[c]]
        /\ c2s' = [c \in Conns |-> << >>]
        /\ \E lost \in SUBSET {c \in open : s2c[c] # << >>} :
              s2c' = [c \in Conns |-> IF c \in lost THEN << >> ELSE s2c[c]]

KillServer == ProcessLost /\ UNCHANGED diskVars

(* What was not synchronised may be as it was before. *)
PowerFailure ==
    /\ ProcessLost
    /\ dest' \in {after \in Tree :
                    \A p \in Paths : after[p] \in fallback[p] \cup {dest[p]}}
    /\ fallback' = [p \in Paths |-> {}]
    /\ UNCHANGED commits

ServerInit ==
    /\ dest \in InitDest /\ fallback = [p \in Paths |-> {}]
    /\ srv = NoSync
    /\ served = [c \in Conns |-> "none"]
    /\ commits = [p \in Paths |-> 0]

SessionStep(mismatch) ==
    \/ SendPlan \/ SendPlanFails \/ RejectUnplanned \/ RenameFile \/ CommitFile
    \/ ReceiveFileFails(mismatch) \/ CommitFileFails \/ VerifyDestination \/ RecvInterrupted

ServerStep(mismatch) ==
    \/ \E c \in Conns : RefuseFirstFrame(c) \/ StartSync(c) \/ CloseServed(c)
    \/ SessionStep(mismatch)
=============================================================================
