---------------------------- MODULE DirectorySync ----------------------------
(***************************************************************************)
(* One sync command against the server: sync_directory of                  *)
(* src/common/directory_sync.cpp inside the retry loop of                  *)
(* apps/syncwire-client/main.cpp, composed with ReceiveDirectorySync.      *)
(* Attempt k uses connection k; the request id is the same in every        *)
(* attempt.  The scan of the source tree reads the size and the checksum   *)
(* of one file after the other; between any two of these reads, and        *)
(* between the scan and the transfers, the tree may change.                *)
(***************************************************************************)
EXTENDS ReceiveDirectorySync, Functions

CONSTANTS Rids,            \* request ids that the command is given
          MaxRetries,      \* --retries
          InitSource,      \* the source trees a client may start with
          PowerMayFail,    \* may power failures be among the faults?
          MaxFaults,       \* bound: broken connections, kills and power failures
          MaxChanges       \* bound: changes of the source tree

ASSUME ClientAssumption ==
    /\ Rids \subseteq 1 .. MaxId /\ {MaxRetries, MaxFaults, MaxChanges} \subseteq Nat
    /\ Conns = 0 .. MaxRetries /\ PowerMayFail \in BOOLEAN
    /\ InitSource \subseteq Tree
    /\ \A v \in Versions : SizeOf(v) \in Sizes /\ ChecksumOf(v) \in Checksums

VARIABLES source,          \* the tree under source_root
          cli,             \* the client process
          faults, changes,
          outages          \* the power failures among the faults

clientVars == <<source, cli>>
vars == <<link, c2s, s2c, dest, fallback, srv, served, commits, source, cli, faults, changes,
          outages>>

ClientAt(pc) == cli.pc = pc

Connection == cli.attempt

Response == Head(s2c[Connection])

ClientReceives ==
    /\ HasFrame(s2c, Connection)
    /\ s2c' = Consumed(s2c, Connection)
    /\ UNCHANGED <<link, c2s, source>>

ClientSends(frame) ==
    /\ c2s' = SendOn(c2s, Connection, frame)
    /\ UNCHANGED <<link, s2c, source>>

(* sync_directory returns; run_once then closes the socket. *)
Ends(status) == cli' = [cli EXCEPT !.pc = "close", !.status = status]

(* find_file. *)
FindFile(path) == \E i \in 1 .. Len(cli.manifest) : cli.manifest[i].path = path

ClientInit ==
    /\ source \in InitSource
    /\ \E rid \in Rids :
          cli = [pc |-> "connect", attempt |-> 0, rid |-> rid, left |-> {}, scanned |-> {},
                 manifest |-> << >>, upload_paths |-> << >>, index |-> 0, status |-> "none"]

Connect ==
    /\ ClientAt("connect")
    /\ Opened(Connection)
    /\ cli' = [cli EXCEPT !.pc = "scan", !.left = Paths, !.scanned = {}]
    /\ UNCHANGED source

ConnectFails ==
    /\ ClientAt("connect")
    /\ Ends("FrameIoError")
    /\ UNCHANGED source /\ UNCHANGED wireVars

(* scan_directory comes to a path.  If there is a regular file it reads its *)
(* size; paths are visited in any order.                                    *)
ScanFile ==
    /\ ClientAt("scan")
    /\ \E p \in cli.left :
          cli' = IF source[p] = NoFile THEN [cli EXCEPT !.left = @ \ {p}]
                 ELSE [cli EXCEPT !.pc = "checksum", !.left = @ \ {p},
                                  !.scanned = @ \cup {[path |-> p, size |-> SizeOf(source[p])]}]
    /\ UNCHANGED source /\ UNCHANGED wireVars

(* checksum_file opens the file again, which may be another one by now. *)
ChecksumFile ==
    LET file == CHOOSE f \in cli.scanned : "checksum" \notin DOMAIN f
        read == [path |-> file.path, size |-> file.size, checksum |-> ChecksumOf(source[file.path])]
    IN  /\ ClientAt("checksum")
        /\ IF source[file.path] = NoFile THEN Ends("ScanError")
           ELSE cli' = [cli EXCEPT !.pc = "scan", !.scanned = (@ \ {file}) \cup {read}]
        /\ UNCHANGED source /\ UNCHANGED wireVars

SendManifest ==
    LET files == FilesInOrder(cli.scanned)
    IN  /\ ClientAt("scan") /\ cli.left = {}
        /\ cli' = [cli EXCEPT !.pc = "plan", !.scanned = {}, !.manifest = files]
        /\ ClientSends(SyncManifest(cli.rid, 0, files, "Success"))

ScanFails ==
    /\ StorageFaults /\ ClientAt("scan")
    /\ Ends("ScanError")
    /\ UNCHANGED source /\ UNCHANGED wireVars

RecvPlan ==
    LET status == ControlStatus(Response, "SyncPlan", cli.rid)
        plan   == Response.plan
    IN  /\ ClientAt("plan")
        /\ ClientReceives
        /\ IF status # "Success" THEN Ends(status)
           ELSE IF Len(plan.upload_paths) + plan.unchanged_count # Len(cli.manifest)
           THEN Ends("PlanMismatch")
           ELSE IF ~IdsSuffice(plan, cli.rid) THEN Ends("InvalidRequestId")
           ELSE cli' = [cli EXCEPT !.pc = "file", !.upload_paths = plan.upload_paths]

(* Mutant: the first upload reuses the request id of the command. *)
SendNextFile_ReusesId ==
    LET path == cli.upload_paths[cli.index + 1]
    IN  /\ ClientAt("file") /\ cli.index < Len(cli.upload_paths)
        /\ IF ~FindFile(path) \/ source[path] = NoFile
           THEN /\ Ends(IF FindFile(path) THEN "FileTransferError" ELSE "PlanMismatch")
                /\ UNCHANGED source /\ UNCHANGED wireVars
           ELSE /\ cli' = [cli EXCEPT !.pc = "outcome"]
                /\ ClientSends(UploadRequest(cli.rid + cli.index, 0, path, source[path]))

(* send_file is called for the next path of the plan; it reads the file as  *)
(* it is now, if it is still there.                                         *)
SendNextFile ==
    LET path == cli.upload_paths[cli.index + 1]
    IN  /\ ClientAt("file") /\ cli.index < Len(cli.upload_paths)
        /\ IF ~FindFile(path) \/ source[path] = NoFile
           THEN /\ Ends(IF FindFile(path) THEN "FileTransferError" ELSE "PlanMismatch")
                /\ UNCHANGED source /\ UNCHANGED wireVars
           ELSE /\ cli' = [cli EXCEPT !.pc = "outcome"]
                /\ ClientSends(UploadRequest(cli.rid + cli.index + 1, 0, path, source[path]))

RecvOutcome ==
    /\ ClientAt("outcome")
    /\ ClientReceives
    /\ IF /\ Response.type = "TransferResult" /\ Response.code = "Success"
          /\ Response.rid = cli.rid + cli.index + 1
       THEN cli' = [cli EXCEPT !.pc = "file", !.index = @ + 1]
       ELSE Ends("FileTransferError")

SendSyncComplete ==
    /\ ClientAt("file") /\ cli.index = Len(cli.upload_paths)
    /\ cli' = [cli EXCEPT !.pc = "result"]
    /\ ClientSends(SyncComplete(cli.rid, 0, TRUE))

RecvSyncResult ==
    LET status == ControlStatus(Response, "SyncResult", cli.rid)
    IN  /\ ClientAt("result")
        /\ ClientReceives
        /\ Ends(IF status # "Success" THEN status
                ELSE IF Response.code = "Success" THEN "Success" ELSE "VerificationFailed")

(* A send or a receive reports that the connection is gone, in the frames   *)
(* of the command or inside send_file: both are retried.                    *)
ClientIoFails ==
    /\ \/ cli.pc \in {"scan", "file"} /\ cli.left = {} /\ SendFails(Connection)
       \/ cli.pc \in {"plan", "outcome", "result"} /\ RecvFails(s2c, Connection)
    /\ Ends("FrameIoError")
    /\ UNCHANGED source /\ UNCHANGED wireVars

(* Mutant: one attempt too few. *)
CloseAttempt_OneLess ==
    /\ ClientAt("close")
    /\ ClientEndClosed(Connection)
    /\ cli' = IF cli.status = "FrameIoError" /\ cli.attempt + 1 < MaxRetries
              THEN [cli EXCEPT !.pc = "connect", !.attempt = @ + 1, !.manifest = << >>,
                               !.upload_paths = << >>, !.index = 0]
              ELSE [cli EXCEPT !.pc = "done"]
    /\ UNCHANGED source

(* Only a transport failure is retried, with a new connection and a new     *)
(* scan.                                                                    *)
CloseAttempt ==
    /\ ClientAt("close")
    /\ ClientEndClosed(Connection)
    /\ cli' = IF cli.status = "FrameIoError" /\ cli.attempt < MaxRetries
              THEN [cli EXCEPT !.pc = "connect", !.attempt = @ + 1, !.manifest = << >>,
                               !.upload_paths = << >>, !.index = 0]
              ELSE [cli EXCEPT !.pc = "done"]
    /\ UNCHANGED source

ClientStep ==
    \/ Connect \/ ScanFile \/ ChecksumFile \/ SendManifest \/ ScanFails \/ RecvPlan
    \/ SendNextFile \/ RecvOutcome \/ SendSyncComplete \/ RecvSyncResult \/ ClientIoFails \/ CloseAttempt
-----------------------------------------------------------------------------
(* A file whose data changes during its transfer fails its checksum. *)
Mismatch == HasFrame(c2s, srv.conn) /\ Incoming.type = "UploadRequest"
            /\ source[Incoming.path] # Incoming.version

ServerRuns == ServerStep(Mismatch) /\ UNCHANGED <<source, cli, faults, changes, outages>>

ClientRuns == ClientStep /\ UNCHANGED serverVars /\ UNCHANGED <<faults, changes, outages>>

Fault ==
    /\ faults < MaxFaults
    /\ faults' = faults + 1
    /\ UNCHANGED changes
    /\ \/ ConnectFails /\ UNCHANGED serverVars /\ UNCHANGED outages
       \/ /\ (\E c \in Conns : Break(c)) /\ UNCHANGED serverVars
          /\ UNCHANGED clientVars /\ UNCHANGED outages
       \/ KillServer /\ UNCHANGED clientVars /\ UNCHANGED outages
       \/ PowerMayFail /\ PowerFailure /\ UNCHANGED clientVars /\ outages' = outages + 1

SourceChanges ==
    /\ changes < MaxChanges
    /\ changes' = changes + 1
    /\ \E p \in Paths, v \in Versions \cup {NoFile} :
          v # source[p] /\ source' = [source EXCEPT ![p] = v]
    /\ UNCHANGED <<cli, faults, outages>> /\ UNCHANGED serverVars /\ UNCHANGED wireVars

Init == WireInit /\ ServerInit /\ ClientInit /\ faults = 0 /\ changes = 0 /\ outages = 0

Next == ServerRuns \/ ClientRuns \/ Fault \/ SourceChanges

Spec == Init /\ [][Next]_vars

(* The client runs, and so does every worker of the server; a worker that   *)
(* waits for the destination mutex gets it when it stays free.              *)
Progress ==
    /\ WF_vars(ClientRuns)
    /\ WF_vars(SessionStep(Mismatch) /\ UNCHANGED <<source, cli, faults, changes, outages>>)
    /\ \A c \in Conns :
          /\ WF_vars((RefuseFirstFrame(c) \/ StartSync(c))
                     /\ UNCHANGED <<source, cli, faults, changes, outages>>)
          /\ WF_vars(CloseServed(c) /\ UNCHANGED <<source, cli, faults, changes, outages>>)

FairSpec == Spec /\ Progress
-----------------------------------------------------------------------------
(* A version of a file as its record in a manifest describes it. *)
Describes(file, version) ==
    version # NoFile /\ SizeOf(version) = file.size /\ ChecksumOf(version) = file.checksum

(* A command that reports success leaves in the destination every file of   *)
(* the manifest it sent, with the size and checksum it had read: changes of *)
(* the source between two reads do not slip through, and no session of an   *)
(* earlier attempt undoes it.  What the last attempt uploaded even survives *)
(* a power failure; a file it found unchanged may be one that an earlier    *)
(* attempt renamed without synchronising it.                                *)
SuccessMeansSynced ==
    cli.status = "Success" =>
        \A i \in 1 .. Len(cli.manifest) :
            LET file == cli.manifest[i]
                path == file.path
            IN  IF path \in Range(cli.upload_paths)
                THEN \A version \in fallback[path] \cup {dest[path]} : Describes(file, version)
                ELSE outages = 0 => Describes(file, dest[path])

(* Statuses that blame the other side. *)
Disagreement == {"PlanMismatch", "MismatchedRequestId", "UnexpectedTransferId",
                 "UnexpectedMessageType", "UnsupportedMessage", "InvalidRequest"}

(* The two sides never fall out of step: whatever was lost or retried, and  *)
(* however the source changes, neither rejects a frame of the other as      *)
(* unplanned, of the wrong type or of another request.                      *)
NeverOutOfStep ==
    /\ cli.status \notin Disagreement
    /\ \A c \in Conns : served[c] \notin Disagreement

(* A tree that does not change is transferred once: a retry finds what an   *)
(* earlier attempt has committed, even one whose result was lost, and does  *)
(* not send it again.  Only a power failure can make that necessary.        *)
TransferredOnce == outages = 0 => \A p \in Paths : commits[p] <= 1

(* A command on a tree that does not change succeeds when no more           *)
(* connections are lost than there are retries.                             *)
RecoversWithinRetries == <>[](ClientAt("done") /\ cli.status = "Success")

(* "authentication and protocol errors are not retried" (README.md): once   *)
(* the server has refused a request as invalid, no further attempt is made. *)
ProtocolErrorsNotRetried ==
    \A c \in Conns : served[c] = "InvalidRequestId" => cli.attempt <= c
=============================================================================
