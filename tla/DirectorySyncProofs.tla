------------------------- MODULE DirectorySyncProofs -------------------------
(***************************************************************************)
(* Theorems about a whole sync command, for every value of the constants:  *)
(* client and server stay in step, success means synchronised, and a tree  *)
(* that does not change is transferred once.                               *)
(***************************************************************************)
EXTENDS DirectorySync, ManifestProofs, TLAPS

(* What scan_directory has read of a file before its checksum. *)
Sized == [path : Paths, size : Sizes]

Over == {"close", "done"}

(* How a session or an attempt may end; none of these blames the peer. *)
Statuses ==
    {"none", "Success", "FrameIoError", "ScanError", "FileIoError", "FileTransferError",
     "InvalidRequestId", "VerificationFailed", "Killed"}

Codes == {"Success", "ChecksumMismatch", "FileIoError", "DestinationChanged"}

Client ==
    [pc : {"connect", "scan", "checksum", "plan", "file", "outcome", "result"} \cup Over,
     attempt : Conns, rid : Nat, left : SUBSET Paths, scanned : SUBSET (FileRecord \cup Sized),
     manifest : Seq(FileRecord), upload_paths : Seq(Paths), index : Nat, status : Statuses]

Requests ==
    [type : {"SyncManifest"}, rid : Nat, tid : {0}, files : Seq(FileRecord), decoded : {"Success"}]
    \cup [type : {"UploadRequest"}, rid : Nat, tid : {0}, path : Paths, version : Versions]
    \cup [type : {"SyncComplete"}, rid : Nat, tid : {0}, bare : {TRUE}]

Replies ==
    [type : {"SyncPlan"}, rid : Nat, tid : {0}, plan : Plan]
    \cup [type : {"TransferResult", "SyncResult"}, rid : Nat, tid : {0}, code : Codes]

(* One side always waits for the other: no queue ever holds two frames. *)
Queue(S) == {q \in Seq(S) : Len(q) <= 1}

Types ==
    /\ link \in [Conns -> {"closed", "up", "down"}]
    /\ c2s \in [Conns -> Queue(Requests)] /\ s2c \in [Conns -> Queue(Replies)]
    /\ source \in Tree /\ dest \in Tree
    /\ fallback \in [Paths -> SUBSET (Versions \cup {NoFile})]
    /\ commits \in [Paths -> Nat] /\ outages \in Nat
    /\ served \in [Conns -> Statuses]
    /\ cli \in Client
    /\ srv # NoSync => srv \in Session

(* A plan that the client accepts for its manifest. *)
Fits(plan, files, rid) ==
    /\ StrictlySorted(plan.upload_paths)
    /\ Len(plan.upload_paths) + plan.unchanged_count = Len(files)
    /\ IdsSuffice(plan, rid)
    /\ \A k \in 1 .. Len(plan.upload_paths) :
          \E i \in 1 .. Len(files) : files[i].path = plan.upload_paths[k]

(* The session under the mutex.  What it has committed is durable. *)
SessionInv ==
    srv # NoSync =>
        /\ srv.rid = cli.rid /\ served[srv.conn] = "none"
        /\ Manifest(srv.source) /\ Fits(srv.plan, srv.source, srv.rid)
        /\ srv.pc = "plan" => srv.index = 0
        /\ srv.pc = "commit" => FilesLeft
        /\ srv.pc # "files" => c2s[srv.conn] = << >>
        /\ srv.index <= Len(srv.plan.upload_paths)
        /\ \A k \in 1 .. srv.index : fallback[srv.plan.upload_paths[k]] = {}

(* What the client has read and been told. *)
ClientInv ==
    /\ cli.rid # 0 /\ Manifest(cli.manifest)
    /\ cli.pc \in {"connect", "scan", "checksum", "plan"} => cli.index = 0
    /\ cli.pc \in {"file", "outcome", "result"} =>
          \A k \in 1 .. Len(cli.upload_paths) : FindFile(cli.upload_paths[k])

(* The scan of the source tree. *)
ScanInv ==
    cli.pc \in {"scan", "checksum"} =>
        /\ IsFiniteSet(cli.scanned)
        /\ \A f \in cli.scanned : f.path \notin cli.left
        /\ \A f, g \in cli.scanned : f.path = g.path => f = g
        /\ cli.pc = "scan" => cli.scanned \subseteq FileRecord
        /\ cli.pc = "checksum" =>
              \E f \in cli.scanned \cap Sized : cli.scanned \ {f} \subseteq FileRecord

(* Connections that are still to come, and those of earlier attempts. *)
Attempts ==
    \A c \in Conns :
        /\ c > cli.attempt \/ (c = cli.attempt /\ cli.pc = "connect") =>
              /\ link[c] = "closed" /\ c2s[c] = << >> /\ s2c[c] = << >>
              /\ ~Serving(c) /\ served[c] = "none"
        /\ c < cli.attempt => link[c] # "up" /\ s2c[c] = << >>

(* What the server finds in a queue is what it waits for, whichever attempt *)
(* sent it.                                                                 *)
Awaited(c, frame) ==
    IF ~Serving(c)
    THEN frame.type = "SyncManifest" /\ frame.rid = cli.rid /\ Manifest(frame.files)
    ELSE IF FilesLeft THEN IsPlanned(frame)
    ELSE frame.type = "SyncComplete" /\ frame.rid = srv.rid

RequestInv ==
    \A c \in Conns :
        /\ c2s[c] # << >> => Awaited(c, Head(c2s[c]))
        /\ served[c] # "none" => c2s[c] = << >>

(* Client and session are at the same file of the same plan. *)
SameFile == srv.index = cli.index /\ srv.plan.upload_paths = cli.upload_paths

(* A request of the running attempt, seen from the client.  Once its        *)
(* connection is lost the client goes on, so it may be at its end.          *)
Asked(frame) ==
    /\ frame.type = "SyncManifest" =>
          frame.files = cli.manifest /\ cli.pc \in {"plan"} \cup Over
    /\ frame.type = "UploadRequest" => SameFile /\ cli.pc \in {"outcome"} \cup Over
    /\ frame.type = "SyncComplete" =>
          srv.plan.upload_paths = cli.upload_paths /\ cli.pc \in {"result"} \cup Over

(* An answer for the running attempt.  While the connection is up, the      *)
(* session that sent it is waiting for the next request.                    *)
Answer(frame) ==
    LET waiting(index) ==
            link[Connection] = "up" => Serving(Connection) /\ srv.pc = "files" /\ srv.index = index
    IN  /\ frame.type = "SyncPlan" =>
              /\ frame.rid = cli.rid /\ cli.pc \in {"plan"} \cup Over
              /\ Fits(frame.plan, cli.manifest, cli.rid)
              /\ waiting(0) /\ (link[Connection] = "up" => srv.plan = frame.plan)
        /\ frame.type = "TransferResult" =>
              /\ frame.rid = cli.rid + cli.index + 1 /\ cli.pc \in {"outcome"} \cup Over
              /\ frame.code = "Success" =>
                    /\ waiting(cli.index + 1)
                    /\ link[Connection] = "up" => srv.plan.upload_paths = cli.upload_paths
        /\ frame.type = "SyncResult" =>
              /\ frame.rid = cli.rid /\ cli.pc \in {"result"} \cup Over
              /\ frame.code = "Success" => served[Connection] = "Success"

InStep ==
    /\ c2s[Connection] # << >> => s2c[Connection] = << >> /\ Asked(Head(c2s[Connection]))
    /\ s2c[Connection] # << >> => Answer(Head(s2c[Connection]))
    /\ Serving(Connection) =>
          /\ srv.source = cli.manifest /\ cli.pc \notin {"connect", "scan", "checksum"}
          /\ srv.pc = "plan" => s2c[Connection] = << >> /\ cli.pc \in {"plan"} \cup Over
          /\ srv.pc = "commit" =>
                s2c[Connection] = << >> /\ SameFile /\ cli.pc \in {"outcome"} \cup Over
    /\ link[Connection] = "up" =>
          /\ cli.pc \in {"scan", "checksum"} => served[Connection] = "none"
          /\ cli.pc = "file" => Serving(Connection) /\ srv.pc = "files" /\ SameFile

(* The conclusion of SuccessMeansSynced. *)
Synced ==
    \A i \in 1 .. Len(cli.manifest) :
        LET file == cli.manifest[i]
            path == file.path
        IN  IF path \in Range(cli.upload_paths)
            THEN \A version \in fallback[path] \cup {dest[path]} : Describes(file, version)
            ELSE outages = 0 => Describes(file, dest[path])

(* Once the session of the running attempt has verified the destination, a  *)
(* session of an earlier one that starts late finds no requests any more.   *)
SuccessInv ==
    /\ served[Connection] = "Success" =>
          /\ Synced /\ cli.pc \in {"result"} \cup Over
          /\ srv # NoSync => c2s[srv.conn] = << >>
    /\ cli.status = "Success" => served[Connection] = "Success" /\ cli.pc \in Over

DirInv ==
    /\ Types /\ SessionInv /\ ClientInv /\ ScanInv /\ Attempts /\ RequestInv /\ InStep
    /\ SuccessInv
-----------------------------------------------------------------------------
(* Queues of at most one frame. *)
LEMMA QueueFacts ==
    ASSUME NEW S, NEW q \in Queue(S)
    PROVE  /\ q # << >> => Head(q) \in S /\ Tail(q) = << >>
           /\ \A r \in Survivors(q) : r = << >> \/ r = q
<1>1. q \in Seq(S) /\ Len(q) <= 1 /\ Len(q) \in Nat
  BY DEF Queue
<1>2. q # << >> => Head(q) \in S /\ Tail(q) = << >>
  BY <1>1
<1>3. ASSUME NEW n \in 0 .. Len(q)
      PROVE  SubSeq(q, 1, n) = << >> \/ SubSeq(q, 1, n) = q
  <2>1. CASE n = 0
    BY <1>1, <2>1
  <2>2. CASE n = Len(q)
    BY <1>1, <2>2
  <2> QED
    BY <1>1, <1>3, <2>1, <2>2
<1> QED
  BY <1>2, <1>3 DEF Survivors

LEMMA EmptyQueue ==
    ASSUME NEW S
    PROVE  << >> \in Queue(S)
  BY DEF Queue

LEMMA FirstFrame ==
    ASSUME NEW S, NEW x \in S
    PROVE  /\ Append(<< >>, x) \in Queue(S) /\ Append(<< >>, x) # << >>
           /\ Head(Append(<< >>, x)) = x
<1>1. Append(<< >>, x) = <<x>> /\ <<x>> \in Seq(S) /\ Len(<<x>>) = 1
  OBVIOUS
<1> QED
  BY <1>1 DEF Queue

LEMMA FrameTypes ==
    /\ \A f \in Requests : f.type \in {"SyncManifest", "UploadRequest", "SyncComplete"}
    /\ \A f \in Replies : f.type \in {"SyncPlan", "TransferResult", "SyncResult"}
<1>1. \A f \in Requests : f.type \in {"SyncManifest", "UploadRequest", "SyncComplete"}
  BY Zenon DEF Requests
<1>2. \A f \in Replies : f.type \in {"SyncPlan", "TransferResult", "SyncResult"}
  BY DEF Replies
<1> QED
  BY <1>1, <1>2

LEMMA ConnsAreNumbers ==
    \A c \in Conns : c \in Nat
  BY ClientAssumption

(* The client gives up, or has its answer. *)
LEMMA ClientEndsInv ==
    ASSUME DirInv, NEW status \in Statuses,
           status = "Success" => served[Connection] = "Success",
           Ends(status), s2c' \in {s2c, [s2c EXCEPT ![Connection] = << >>]},
           UNCHANGED <<link, c2s, source, outages>>, UNCHANGED serverVars
    PROVE  DirInv'
<1>1. Types /\ cli \in Client
  BY DEF DirInv, Types
<1>2. /\ cli' \in Client /\ cli'.pc = "close" /\ cli'.status = status
      /\ cli'.attempt = cli.attempt /\ cli'.rid = cli.rid /\ cli'.manifest = cli.manifest
      /\ cli'.upload_paths = cli.upload_paths /\ cli'.index = cli.index
  BY <1>1, Zenon DEF Client, Over, Ends
<1>3. cli.attempt \in Conns /\ Connection' = Connection
  BY <1>1, <1>2 DEF Client, Connection
<1>4. /\ s2c' \in [Conns -> Queue(Replies)]
      /\ \A c \in Conns : s2c'[c] = s2c[c] \/ s2c'[c] = << >>
  BY <1>1, <1>3, EmptyQueue DEF Types, Connection
<1>5. Types'
  BY <1>1, <1>2, <1>4 DEF Types, serverVars
<1>6. SessionInv'
  BY <1>2 DEF DirInv, SessionInv, serverVars, FilesLeft
<1>7. ClientInv' /\ ScanInv'
  BY <1>2 DEF DirInv, ClientInv, ScanInv
<1>8. Attempts'
  BY <1>2, <1>4 DEF DirInv, Attempts, serverVars, Serving
<1>9. RequestInv'
  BY <1>2 DEF DirInv, RequestInv, serverVars, Serving, Awaited, FilesLeft, IsPlanned
<1>10. InStep'
  BY <1>2, <1>3, <1>4, Zenon DEF DirInv, InStep, Asked, Answer, SameFile, serverVars, Serving, Over, Connection
<1>11. SuccessInv'
  BY <1>2, <1>3 DEF DirInv, SuccessInv, Synced, serverVars, Over, Connection
<1> QED
  BY <1>5, <1>6, <1>7, <1>8, <1>9, <1>10, <1>11 DEF DirInv

(* A failure on the client's own side. *)
LEMMA ClientFailsInv ==
    ASSUME DirInv, NEW status \in {"FrameIoError", "ScanError", "FileTransferError"},
           Ends(status), UNCHANGED <<source, outages>>, UNCHANGED wireVars, UNCHANGED serverVars
    PROVE  DirInv'
<1>1. status \in Statuses /\ status # "Success"
  BY DEF Statuses
<1>2. UNCHANGED <<link, c2s, source, outages>> /\ s2c' \in {s2c, [s2c EXCEPT ![Connection] = << >>]}
  BY DEF wireVars
<1> QED
  BY <1>1, <1>2, ClientEndsInv, Zenon

(* scan_directory goes on. *)
LEMMA ScanningInv ==
    ASSUME DirInv, cli.pc \in {"scan", "checksum"}, NEW pc \in {"scan", "checksum"},
           NEW left \in SUBSET Paths, NEW scanned \in SUBSET (FileRecord \cup Sized),
           cli' = [cli EXCEPT !.pc = pc, !.left = left, !.scanned = scanned], ScanInv',
           UNCHANGED <<source, outages>>, UNCHANGED wireVars, UNCHANGED serverVars
    PROVE  DirInv'
<1>1. Types /\ cli \in Client
  BY DEF DirInv, Types
<1>2. /\ cli' \in Client /\ cli'.pc = pc /\ cli'.status = cli.status
      /\ cli'.attempt = cli.attempt /\ cli'.rid = cli.rid /\ cli'.manifest = cli.manifest
      /\ cli'.upload_paths = cli.upload_paths /\ cli'.index = cli.index
  BY <1>1, Zenon DEF Client, Over
<1>3. Connection' = Connection
  BY <1>2 DEF Connection
<1>4. Types'
  BY <1>1, <1>2 DEF Types, serverVars, wireVars
<1>5. SessionInv' /\ ClientInv'
  BY <1>2, Zenon DEF DirInv, SessionInv, ClientInv, serverVars, wireVars, FilesLeft
<1>6. Attempts' /\ RequestInv'
  BY <1>2, Zenon DEF DirInv, Attempts, RequestInv, serverVars, wireVars, Serving, Awaited, FilesLeft,
              IsPlanned
<1>7. InStep'
  BY <1>2, <1>3, Zenon DEF DirInv, InStep, Asked, Answer, SameFile, serverVars, wireVars, Serving, Over,
                    Connection
<1>8. SuccessInv'
  BY <1>2, <1>3 DEF DirInv, SuccessInv, Synced, serverVars, wireVars, Over, Connection
<1> QED
  BY <1>4, <1>5, <1>6, <1>7, <1>8 DEF DirInv

LEMMA ScanFileInv ==
    ASSUME DirInv, ScanFile, UNCHANGED outages, UNCHANGED serverVars
    PROVE  DirInv'
<1>1. Types /\ cli \in Client /\ source \in Tree /\ cli.pc = "scan"
  BY SMTT(30) DEF DirInv, Types, ScanFile, ClientAt
<1>2. PICK p \in cli.left :
        cli' = IF source[p] = NoFile THEN [cli EXCEPT !.left = @ \ {p}]
               ELSE [cli EXCEPT !.pc = "checksum", !.left = @ \ {p},
                                !.scanned = @ \cup {[path |-> p, size |-> SizeOf(source[p])]}]
  BY Zenon DEF ScanFile
<1>3. /\ p \in Paths /\ cli.left \ {p} \in SUBSET Paths
      /\ cli.scanned \in SUBSET (FileRecord \cup Sized)
  BY <1>1 DEF Client
<1>4. UNCHANGED source /\ UNCHANGED wireVars
  BY DEF ScanFile
<1>5. /\ IsFiniteSet(cli.scanned) /\ cli.scanned \subseteq FileRecord
      /\ \A f \in cli.scanned : f.path \notin cli.left
      /\ \A f, g \in cli.scanned : f.path = g.path => f = g
  BY <1>1, SMTT(30) DEF DirInv, ScanInv
<1>6. CASE source[p] = NoFile
  <2>1. cli' = [cli EXCEPT !.pc = "scan", !.left = cli.left \ {p}, !.scanned = cli.scanned]
    BY <1>1, <1>2, <1>6, Zenon DEF Client
  <2>2. cli'.pc = "scan" /\ cli'.left = cli.left \ {p} /\ cli'.scanned = cli.scanned
    BY <1>1, <2>1 DEF Client
  <2>3. ScanInv'
    BY <1>5, <2>2 DEF ScanInv
  <2> QED
    BY <1>1, <1>3, <1>4, <2>1, <2>3, ScanningInv, Zenon
<1>7. CASE source[p] # NoFile
  <2> DEFINE file == [path |-> p, size |-> SizeOf(source[p])]
             scanned == cli.scanned \cup {file}
  <2>1. source[p] \in Versions /\ SizeOf(source[p]) \in Sizes
    BY <1>1, <1>3, <1>7, ClientAssumption DEF Tree
  <2>2. file \in Sized /\ file.path = p
    BY <1>3, <2>1 DEF Sized
  <2>3. cli' = [cli EXCEPT !.pc = "checksum", !.left = cli.left \ {p}, !.scanned = scanned]
    BY <1>1, <1>2, <1>7 DEF Client
  <2> HIDE DEF file
  <2>4. cli'.pc = "checksum" /\ cli'.left = cli.left \ {p} /\ cli'.scanned = scanned
    BY <1>1, <2>3 DEF Client
  <2>5. IsFiniteSet(scanned)
    BY <1>5, FS_AddElement
  <2>6. /\ \A f \in scanned : f.path \notin cli.left \ {p}
        /\ \A f, g \in scanned : f.path = g.path => f = g
    BY <1>2, <1>5, <2>2
  <2>7. scanned \ {file} \subseteq FileRecord /\ file \in scanned \cap Sized
    BY <1>5, <2>2
  <2>8. ScanInv'
    BY <2>4, <2>5, <2>6, <2>7, Zenon DEF ScanInv
  <2>9. scanned \in SUBSET (FileRecord \cup Sized)
    BY <1>5, <2>2
  <2> QED
    BY <1>1, <1>3, <1>4, <2>3, <2>8, <2>9, ScanningInv, Zenon
<1> QED
  BY <1>6, <1>7

(* One file has been found whose checksum is still to be read. *)
LEMMA FileToRead ==
    ASSUME DirInv, cli.pc = "checksum",
           NEW file, file = CHOOSE f \in cli.scanned : "checksum" \notin DOMAIN f
    PROVE  /\ file \in cli.scanned /\ file \in Sized /\ cli.scanned \ {file} \subseteq FileRecord
           /\ file.path \in Paths /\ file.size \in Sizes
<1>1. PICK new \in cli.scanned \cap Sized : cli.scanned \ {new} \subseteq FileRecord
  BY DEF DirInv, ScanInv
<1>2. "checksum" \notin DOMAIN new
  BY <1>1 DEF Sized
<1>3. \A f \in cli.scanned : "checksum" \notin DOMAIN f => f = new
  BY <1>1 DEF FileRecord
<1>4. file = new
  BY <1>1, <1>2, <1>3
<1> QED
  BY <1>1, <1>4, ZenonT(30) DEF Sized

LEMMA ChecksumFileInv ==
    ASSUME DirInv, ChecksumFile, UNCHANGED outages, UNCHANGED serverVars
    PROVE  DirInv'
<1> DEFINE file == CHOOSE f \in cli.scanned : "checksum" \notin DOMAIN f
           read == [path |-> file.path, size |-> file.size, checksum |-> ChecksumOf(source[file.path])]
           scanned == (cli.scanned \ {file}) \cup {read}
<1>1. Types /\ cli \in Client /\ source \in Tree /\ cli.pc = "checksum"
  BY DEF DirInv, Types, ChecksumFile, ClientAt
<1>2. UNCHANGED source /\ UNCHANGED wireVars
  BY DEF ChecksumFile
<1>3. IF source[file.path] = NoFile THEN Ends("ScanError")
      ELSE cli' = [cli EXCEPT !.pc = "scan", !.scanned = (@ \ {file}) \cup {read}]
  BY DEF ChecksumFile
<1>4. /\ file \in cli.scanned /\ file \in Sized /\ cli.scanned \ {file} \subseteq FileRecord
      /\ file.path \in Paths /\ file.size \in Sizes
  BY <1>1, FileToRead
<1> HIDE DEF file
<1>5. CASE source[file.path] = NoFile
  <2>1. Ends("ScanError")
    BY <1>3, <1>5, Zenon
  <2> QED
    BY <1>2, <2>1, ClientFailsInv
<1>6. CASE source[file.path] # NoFile
  <2>1. ChecksumOf(source[file.path]) \in Checksums
    BY <1>1, <1>4, <1>6, ClientAssumption DEF Tree
  <2>2. read \in FileRecord /\ read.path = file.path
    BY <1>4, <2>1 DEF FileRecord
  <2> HIDE DEF read
  <2>3. cli' = [cli EXCEPT !.pc = "scan", !.left = cli.left, !.scanned = scanned]
    BY <1>1, <1>3, <1>6, Zenon DEF Client
  <2>4. cli'.pc = "scan" /\ cli'.left = cli.left /\ cli'.scanned = scanned
    BY <1>1, <2>3 DEF Client
  <2>5. /\ IsFiniteSet(cli.scanned)
        /\ \A f \in cli.scanned : f.path \notin cli.left
        /\ \A f, g \in cli.scanned : f.path = g.path => f = g
    BY <1>1 DEF DirInv, ScanInv
  <2>6. IsFiniteSet(scanned)
    <3>1. IsFiniteSet(cli.scanned \ {file})
      BY <2>5, FS_RemoveElement
    <3> QED
      BY <3>1, FS_AddElement
  <2>7. /\ \A f \in scanned : f.path \notin cli.left
        /\ \A f, g \in scanned : f.path = g.path => f = g
    BY <1>4, <2>2, <2>5
  <2>8. scanned \subseteq FileRecord
    BY <1>4, <2>2
  <2>9. ScanInv'
    BY <2>4, <2>6, <2>7, <2>8, Zenon DEF ScanInv
  <2> QED
    BY <1>1, <1>2, <2>3, <2>8, <2>9, ScanningInv, Zenon DEF Client
<1> QED
  BY <1>5, <1>6

LEMMA ConnectInv ==
    ASSUME DirInv, Connect, UNCHANGED outages, UNCHANGED serverVars
    PROVE  DirInv'
<1>1. Types /\ cli \in Client /\ cli.pc = "connect" /\ cli.attempt \in Conns
  BY DEF DirInv, Types, Connect, ClientAt, Client
<1>2. /\ cli' \in Client /\ cli'.pc = "scan" /\ cli'.status = cli.status
      /\ cli'.attempt = cli.attempt /\ cli'.rid = cli.rid /\ cli'.manifest = cli.manifest
      /\ cli'.upload_paths = cli.upload_paths /\ cli'.index = cli.index
      /\ cli'.left = Paths /\ cli'.scanned = {}
  BY <1>1, Zenon DEF Client, Connect, Over
<1>3. /\ link' = [link EXCEPT ![Connection] = "up"] /\ UNCHANGED <<c2s, s2c, source>>
      /\ Connection' = Connection
  BY <1>2 DEF Connect, Opened, Connection
<1>4. Types'
  BY <1>1, <1>2, <1>3, Zenon DEF Types, serverVars
<1>5. SessionInv' /\ ClientInv'
  BY <1>1, <1>2, <1>3 DEF DirInv, SessionInv, ClientInv, serverVars, FilesLeft
<1>6. ScanInv'
  BY <1>2, FS_EmptySet DEF ScanInv
<1>7. c2s[Connection] = << >> /\ s2c[Connection] = << >> /\ ~Serving(Connection) /\ served[Connection] = "none"
  BY <1>1 DEF DirInv, Attempts, Connection
<1>8. Attempts'
  <2>1. cli.attempt \in Nat /\ \A c \in Conns : c \in Nat
    BY <1>1, ConnsAreNumbers, Zenon
  <2> QED
    BY <1>1, <1>2, <1>3, <2>1 DEF DirInv, Attempts, serverVars, Serving, Connection, Types
<1>9. RequestInv'
  BY <1>2, <1>3 DEF DirInv, RequestInv, serverVars, Serving, Awaited, FilesLeft, IsPlanned
<1>10. InStep'
  BY <1>2, <1>3, <1>7 DEF InStep, serverVars, Serving
<1>11. SuccessInv'
  BY <1>1, <1>2, <1>3, <1>7, Zenon DEF DirInv, SuccessInv, serverVars, Over
<1> QED
  BY <1>4, <1>5, <1>6, <1>8, <1>9, <1>10, <1>11, Zenon DEF DirInv

(* What the queues of the running attempt hold while the client reads or    *)
(* sends.                                                                   *)
LEMMA ClientTurn ==
    ASSUME DirInv, cli.pc \in {"scan", "checksum", "file"}
    PROVE  c2s[Connection] = << >> /\ s2c[Connection] = << >>
<1>1. /\ Connection \in Conns /\ c2s[Connection] \in Queue(Requests)
      /\ s2c[Connection] \in Queue(Replies)
  BY DEF DirInv, Types, Client, Connection
<1>2. c2s[Connection] # << >> => Head(c2s[Connection]) \in Requests
  BY <1>1, QueueFacts, Zenon
<1>3. s2c[Connection] # << >> => Head(s2c[Connection]) \in Replies
  BY <1>1, QueueFacts, Zenon
<1> QED
  BY <1>2, <1>3, FrameTypes DEF DirInv, InStep, Asked, Answer, Over

(* A request is appended to an empty queue, or lost. *)
LEMMA RequestSent ==
    ASSUME Types, NEW c \in Conns, c2s[c] = << >>, NEW frame \in Requests,
           c2s' = SendOn(c2s, c, frame)
    PROVE  /\ c2s' \in [Conns -> Queue(Requests)]
           /\ \A d \in Conns : d # c => c2s'[d] = c2s[d]
           /\ link[c] # "up" => c2s'[c] = << >>
           /\ link[c] = "up" => c2s'[c] # << >> /\ Head(c2s'[c]) = frame
<1>1. CASE link[c] # "up"
  BY <1>1 DEF Types, SendOn
<1>2. CASE link[c] = "up"
  <2>1. c2s' = [c2s EXCEPT ![c] = Append(<< >>, frame)]
    BY <1>2 DEF SendOn
  <2> QED
    BY <1>2, <2>1, FirstFrame DEF Types
<1> QED
  BY <1>1, <1>2

(* The client sends the next request of the plan. *)
LEMMA ClientAsksInv ==
    ASSUME DirInv, cli.pc = "file", NEW pc \in {"outcome", "result"}, NEW frame \in Requests,
           frame.type = IF pc = "outcome" THEN "UploadRequest" ELSE "SyncComplete",
           link[Connection] = "up" => Awaited(Connection, frame),
           cli' = [cli EXCEPT !.pc = pc], ClientSends(frame), UNCHANGED outages,
           UNCHANGED serverVars
    PROVE  DirInv'
<1>1. Types /\ cli \in Client /\ Connection \in Conns
  BY DEF DirInv, Types, Client, Connection
<1>2. /\ cli' \in Client /\ cli'.pc = pc /\ cli'.status = cli.status
      /\ cli'.attempt = cli.attempt /\ cli'.rid = cli.rid /\ cli'.manifest = cli.manifest
      /\ cli'.upload_paths = cli.upload_paths /\ cli'.index = cli.index
  BY <1>1, ZenonT(30) DEF Client, Over
<1>3. UNCHANGED <<link, s2c, source>> /\ Connection' = Connection
  BY <1>2 DEF ClientSends, Connection
<1>4. c2s[Connection] = << >> /\ s2c[Connection] = << >>
  BY ClientTurn
<1>5. /\ c2s' \in [Conns -> Queue(Requests)]
      /\ \A d \in Conns : d # Connection => c2s'[d] = c2s[d]
      /\ link[Connection] # "up" => c2s'[Connection] = << >>
      /\ link[Connection] = "up" => c2s'[Connection] # << >> /\ Head(c2s'[Connection]) = frame
  BY <1>1, <1>4, RequestSent DEF ClientSends
<1>6. link[Connection] = "up" => Serving(Connection) /\ srv.pc = "files" /\ SameFile
  BY DEF DirInv, InStep
<1>7. Types'
  BY <1>1, <1>2, <1>3, <1>5, Zenon DEF Types, serverVars
<1>8. SessionInv'
  BY <1>1, <1>2, <1>3, <1>4, <1>5, <1>6 DEF DirInv, SessionInv, serverVars, FilesLeft, Serving, Types, Session
<1>9. ClientInv' /\ ScanInv'
  BY <1>2 DEF DirInv, ClientInv, ScanInv, FindFile
<1>10. Attempts'
  BY <1>1, <1>2, <1>3, <1>4, <1>5 DEF DirInv, Attempts, serverVars, Serving, Connection, Client
<1>11. RequestInv'
  BY <1>1, <1>2, <1>3, <1>4, <1>5, <1>6 DEF DirInv, RequestInv, SessionInv, serverVars, Serving, Awaited, FilesLeft, IsPlanned
<1>12. InStep'
  BY <1>2, <1>3, <1>4, <1>5, <1>6 DEF DirInv, InStep, Asked, SameFile, serverVars, Serving, Over
<1>13. SuccessInv'
  BY <1>2, <1>3, <1>6 DEF DirInv, SuccessInv, serverVars, Over
<1> QED
  BY <1>7, <1>8, <1>9, <1>10, <1>11, <1>12, <1>13, Zenon DEF DirInv

LEMMA SendNextFileInv ==
    ASSUME DirInv, SendNextFile, UNCHANGED outages, UNCHANGED serverVars
    PROVE  DirInv'
<1> DEFINE path == cli.upload_paths[cli.index + 1]
           frame == UploadRequest(cli.rid + cli.index + 1, 0, path, source[path])
<1>1. /\ cli \in Client /\ source \in Tree /\ cli.pc = "file"
      /\ cli.index < Len(cli.upload_paths) /\ (srv # NoSync => srv \in Session)
  BY DEF DirInv, Types, SendNextFile, ClientAt
<1>2. /\ cli.index \in Nat /\ cli.rid \in Nat /\ cli.upload_paths \in Seq(Paths)
      /\ cli.index + 1 \in 1 .. Len(cli.upload_paths) /\ path \in Paths
  BY <1>1 DEF Client
<1>3. FindFile(path)
  BY <1>1, <1>2 DEF DirInv, ClientInv
<1>4. IF ~FindFile(path) \/ source[path] = NoFile
      THEN /\ Ends(IF FindFile(path) THEN "FileTransferError" ELSE "PlanMismatch")
           /\ UNCHANGED source /\ UNCHANGED wireVars
      ELSE cli' = [cli EXCEPT !.pc = "outcome"] /\ ClientSends(frame)
  BY DEF SendNextFile
<1>5. CASE source[path] = NoFile
  <2>1. Ends("FileTransferError") /\ UNCHANGED source /\ UNCHANGED wireVars
    BY <1>3, <1>4, <1>5, Zenon
  <2> QED
    BY <2>1, ClientFailsInv
<1>6. CASE source[path] # NoFile
  <2>1. cli' = [cli EXCEPT !.pc = "outcome"] /\ ClientSends(frame)
    BY <1>3, <1>4, <1>6, Zenon
  <2>2. source[path] \in Versions
    BY <1>1, <1>2, <1>6 DEF Tree
  <2>3. frame \in Requests /\ frame.type = "UploadRequest"
    <3>1. cli.rid + cli.index + 1 \in Nat
      BY <1>2
    <3> QED
      BY <1>2, <2>2, <3>1, Zenon DEF Requests, UploadRequest
  <2>4. link[Connection] = "up" => Awaited(Connection, frame)
    <3>1. SUFFICES ASSUME link[Connection] = "up"
                   PROVE  Awaited(Connection, frame)
      OBVIOUS
    <3>2. Serving(Connection) /\ SameFile /\ srv.rid = cli.rid
      BY <1>1, <3>1 DEF DirInv, InStep, SessionInv, Serving
    <3>3. FilesLeft /\ IsPlanned(frame)
      BY <1>1, <3>2 DEF SameFile, FilesLeft, IsPlanned, UploadRequest
    <3> QED
      BY <3>2, <3>3, Zenon DEF Awaited
  <2> HIDE DEF frame
  <2>5. frame.type = IF "outcome" = "outcome" THEN "UploadRequest" ELSE "SyncComplete"
    BY <2>3
  <2> QED
    BY <1>1, <2>1, <2>3, <2>4, <2>5, ClientAsksInv
<1> QED
  BY <1>5, <1>6

LEMMA SendSyncCompleteInv ==
    ASSUME DirInv, SendSyncComplete, UNCHANGED outages, UNCHANGED serverVars
    PROVE  DirInv'
<1> DEFINE frame == SyncComplete(cli.rid, 0, TRUE)
<1>1. /\ cli \in Client /\ cli.pc = "file" /\ cli.index = Len(cli.upload_paths)
      /\ (srv # NoSync => srv \in Session)
      /\ cli' = [cli EXCEPT !.pc = "result"] /\ ClientSends(frame)
  BY Zenon DEF DirInv, Types, SendSyncComplete, ClientAt
<1>2. frame \in Requests /\ frame.type = "SyncComplete" /\ frame.rid = cli.rid
  BY <1>1 DEF Requests, SyncComplete, Client
<1>3. link[Connection] = "up" => Awaited(Connection, frame)
  <2>1. SUFFICES ASSUME link[Connection] = "up"
                 PROVE  Awaited(Connection, frame)
    BY Zenon
  <2>2. Serving(Connection) /\ SameFile /\ srv.rid = cli.rid
    BY <1>1, <2>1 DEF DirInv, InStep, SessionInv, Serving
  <2>3. ~FilesLeft
    BY <1>1, <2>2 DEF SameFile, FilesLeft, Client
  <2> QED
    BY <1>2, <2>2, <2>3, Zenon DEF Awaited
<1> HIDE DEF frame
<1>4. frame.type = IF "result" = "outcome" THEN "UploadRequest" ELSE "SyncComplete"
  BY <1>2
<1> QED
  BY <1>1, <1>2, <1>3, <1>4, ClientAsksInv

LEMMA SendManifestInv ==
    ASSUME DirInv, SendManifest, UNCHANGED outages, UNCHANGED serverVars
    PROVE  DirInv'
<1> DEFINE files == FilesInOrder(cli.scanned)
           frame == SyncManifest(cli.rid, 0, files, "Success")
<1>1. /\ Types /\ cli \in Client /\ Connection \in Conns /\ cli.pc = "scan"
      /\ cli' = [cli EXCEPT !.pc = "plan", !.scanned = {}, !.manifest = files]
      /\ ClientSends(frame)
  BY DEF DirInv, Types, SendManifest, ClientAt, Client, Connection
<1>2. Manifest(files)
  <2>1. /\ IsFiniteSet(cli.scanned) /\ cli.scanned \subseteq FileRecord
        /\ \A f, g \in cli.scanned : f.path = g.path => f = g
    BY <1>1 DEF DirInv, ScanInv
  <2>2. \A f \in cli.scanned : f.path \in Nat
    BY <2>1, ManifestAssumption, Zenon DEF FileRecord
  <2>3. files \in Seq(cli.scanned) /\ StrictlySorted(PathsOf(files))
    BY <2>1, <2>2, FilesInOrderSorts
  <2> HIDE DEF files
  <2>4. files \in Seq(FileRecord)
    BY <2>1, <2>3, WiderSequence, Zenon
  <2> QED
    BY <2>3, <2>4, Zenon DEF Manifest
<1> HIDE DEF files
<1>3. files \in Seq(FileRecord)
  BY <1>2 DEF Manifest
<1>4. /\ cli' \in Client /\ cli'.pc = "plan" /\ cli'.status = cli.status
      /\ cli'.attempt = cli.attempt /\ cli'.rid = cli.rid /\ cli'.manifest = files
      /\ cli'.upload_paths = cli.upload_paths /\ cli'.index = cli.index
  BY <1>1, <1>3, Zenon DEF Client, Over
<1>5. /\ frame \in Requests /\ frame.type = "SyncManifest" /\ frame.rid = cli.rid
      /\ frame.files = files
  BY <1>1, <1>3, Zenon DEF Requests, SyncManifest, Client
<1> HIDE DEF frame
<1>6. UNCHANGED <<link, s2c, source>> /\ Connection' = Connection
  BY <1>1, <1>4 DEF ClientSends, Connection
<1>7. c2s[Connection] = << >> /\ s2c[Connection] = << >>
  BY <1>1, ClientTurn
<1>8. /\ c2s' \in [Conns -> Queue(Requests)]
      /\ \A d \in Conns : d # Connection => c2s'[d] = c2s[d]
      /\ link[Connection] # "up" => c2s'[Connection] = << >>
      /\ link[Connection] = "up" => c2s'[Connection] # << >> /\ Head(c2s'[Connection]) = frame
  BY <1>1, <1>5, <1>7, RequestSent DEF ClientSends
<1>9. ~Serving(Connection) /\ (link[Connection] = "up" => served[Connection] = "none")
  BY <1>1 DEF DirInv, InStep
<1>10. Types'
  BY <1>1, <1>4, <1>6, <1>8, Zenon DEF Types, serverVars
<1>11. SessionInv'
  BY <1>1, <1>4, <1>6, <1>7, <1>8, <1>9, Zenon DEF DirInv, SessionInv, serverVars, FilesLeft, Serving, Types, Session
<1>12. ClientInv' /\ ScanInv'
  BY <1>1, <1>2, <1>4 DEF DirInv, ClientInv, ScanInv
<1>13. Attempts'
  BY <1>1, <1>4, <1>6, <1>7, <1>8 DEF DirInv, Attempts, serverVars, Serving, Connection
<1>14. RequestInv'
  BY <1>1, <1>2, <1>4, <1>5, <1>6, <1>7, <1>8, <1>9, SMTT(30) DEF DirInv, RequestInv, serverVars, Serving, Awaited, FilesLeft, IsPlanned
<1>15. InStep'
  BY <1>4, <1>5, <1>6, <1>7, <1>8, <1>9, Zenon DEF InStep, Asked, serverVars, Serving, Over
<1>16. SuccessInv'
  BY <1>1, <1>4, <1>6, <1>9 DEF DirInv, SuccessInv, serverVars, Over
<1> QED
  BY <1>10, <1>11, <1>12, <1>13, <1>14, <1>15, <1>16, Zenon DEF DirInv

(* What the client reads.  Nothing of its own is under way then. *)
LEMMA ClientReads ==
    ASSUME DirInv, ClientReceives
    PROVE  /\ Connection \in Conns /\ Response \in Replies /\ Answer(Response)
           /\ c2s[Connection] = << >>
           /\ s2c' = [s2c EXCEPT ![Connection] = << >>] /\ UNCHANGED <<link, c2s, source>>
<1>1. Connection \in Conns /\ s2c[Connection] \in Queue(Replies) /\ s2c[Connection] # << >>
  BY DEF DirInv, Types, Client, Connection, ClientReceives, HasFrame
<1>2. Response \in Replies /\ Tail(s2c[Connection]) = << >>
  BY <1>1, QueueFacts DEF Response
<1>3. s2c' = [s2c EXCEPT ![Connection] = << >>] /\ UNCHANGED <<link, c2s, source>>
  BY <1>2, Zenon DEF ClientReceives, Consumed
<1>4. Answer(Response) /\ c2s[Connection] = << >>
  BY <1>1, Zenon DEF DirInv, InStep, Response
<1> QED
  BY <1>1, <1>2, <1>3, <1>4

LEMMA RecvPlanInv ==
    ASSUME DirInv, RecvPlan, UNCHANGED outages, UNCHANGED serverVars
    PROVE  DirInv'
<1> DEFINE frame == Response
           plan == frame.plan
<1>1. Types /\ cli \in Client /\ cli.pc = "plan" /\ ClientReceives
  BY DEF DirInv, Types, RecvPlan, ClientAt
<1>2. /\ Connection \in Conns /\ frame \in Replies /\ Answer(frame)
      /\ c2s[Connection] = << >>
      /\ s2c' = [s2c EXCEPT ![Connection] = << >>] /\ UNCHANGED <<link, c2s, source>>
  BY <1>1, ClientReads
<1>3. frame.type = "SyncPlan"
  BY <1>1, <1>2, FrameTypes DEF Answer, Over
<1>4. frame.tid = 0 /\ plan \in Plan
  BY <1>2, <1>3 DEF Replies
<1>5. /\ frame.rid = cli.rid /\ Fits(plan, cli.manifest, cli.rid)
      /\ link[Connection] = "up" =>
            Serving(Connection) /\ srv.pc = "files" /\ srv.index = 0 /\ srv.plan = plan
  BY <1>2, <1>3, Zenon DEF Answer
<1>6. cli' = [cli EXCEPT !.pc = "file", !.upload_paths = plan.upload_paths]
  <2>1. ControlStatus(frame, "SyncPlan", cli.rid) = "Success"
    BY <1>3, <1>4, <1>5, Zenon DEF ControlStatus
  <2>2. /\ Len(plan.upload_paths) + plan.unchanged_count = Len(cli.manifest)
        /\ IdsSuffice(plan, cli.rid)
    BY <1>5 DEF Fits
  <2> HIDE DEF plan, frame
  <2> QED
    BY <2>1, <2>2 DEF RecvPlan, plan, frame
<1>7. plan.upload_paths \in Seq(Paths)
  BY <1>4 DEF Plan
<1>8. /\ cli' \in Client /\ cli'.pc = "file" /\ cli'.status = cli.status
      /\ cli'.attempt = cli.attempt /\ cli'.rid = cli.rid /\ cli'.manifest = cli.manifest
      /\ cli'.upload_paths = plan.upload_paths /\ cli'.index = cli.index
  BY <1>1, <1>6, <1>7, Zenon DEF Client, Over
<1>9. Connection' = Connection /\ s2c'[Connection] = << >>
  BY <1>1, <1>2, <1>8, Zenon DEF Connection, Types
<1>10. Types'
  BY <1>1, <1>2, <1>8, EmptyQueue, Zenon DEF Types, serverVars
<1>11. SessionInv'
  BY <1>2, <1>8, Zenon DEF DirInv, SessionInv, serverVars, FilesLeft
<1>12. ClientInv' /\ ScanInv'
  BY <1>1, <1>5, <1>8 DEF DirInv, ClientInv, ScanInv, Fits, FindFile
<1>13. Attempts'
  BY <1>1, <1>2, <1>8 DEF DirInv, Attempts, serverVars, Serving, Types
<1>14. RequestInv'
  BY <1>2, <1>8, Zenon DEF DirInv, RequestInv, serverVars, Serving, Awaited, FilesLeft, IsPlanned
<1>15. InStep'
  <2>1. cli.index = 0
    BY <1>1, Zenon DEF DirInv, ClientInv
  <2>2. Serving(Connection) => srv.source = cli.manifest /\ srv.pc # "plan" /\ srv.pc # "commit"
    BY <1>1 DEF DirInv, InStep, ClientReceives, HasFrame
  <2> QED
    BY <1>2, <1>5, <1>8, <1>9, <2>1, <2>2, Zenon DEF InStep, SameFile, serverVars, Serving, Over
<1>16. SuccessInv'
  BY <1>1, <1>8, <1>9, Zenon DEF DirInv, SuccessInv, serverVars, Over
<1> QED
  BY <1>10, <1>11, <1>12, <1>13, <1>14, <1>15, <1>16 DEF DirInv

LEMMA RecvOutcomeInv ==
    ASSUME DirInv, RecvOutcome, UNCHANGED outages, UNCHANGED serverVars
    PROVE  DirInv'
<1> DEFINE frame == Response
<1>1. Types /\ cli \in Client /\ cli.pc = "outcome" /\ ClientReceives
  BY DEF DirInv, Types, RecvOutcome, ClientAt
<1>2. /\ Connection \in Conns /\ frame \in Replies /\ Answer(frame)
      /\ c2s[Connection] = << >>
      /\ s2c' = [s2c EXCEPT ![Connection] = << >>] /\ UNCHANGED <<link, c2s, source>>
  BY <1>1, ClientReads, Zenon
<1>3. CASE frame.type = "TransferResult" /\ frame.code = "Success" /\ frame.rid = cli.rid + cli.index + 1
  <2>1. cli' = [cli EXCEPT !.pc = "file", !.index = @ + 1]
    BY <1>3 DEF RecvOutcome
  <2>2. /\ cli' \in Client /\ cli'.pc = "file" /\ cli'.status = cli.status
        /\ cli'.attempt = cli.attempt /\ cli'.rid = cli.rid /\ cli'.manifest = cli.manifest
        /\ cli'.upload_paths = cli.upload_paths /\ cli'.index = cli.index + 1
    <3> DEFINE next == cli.index + 1
    <3>1. next \in Nat
      BY <1>1 DEF Client
    <3>2. cli' = [cli EXCEPT !.pc = "file", !.index = next]
      BY <2>1
    <3> HIDE DEF next
    <3>3. /\ cli' \in Client /\ cli'.pc = "file" /\ cli'.status = cli.status
          /\ cli'.attempt = cli.attempt /\ cli'.rid = cli.rid /\ cli'.manifest = cli.manifest
          /\ cli'.upload_paths = cli.upload_paths /\ cli'.index = next
      BY <1>1, <3>1, <3>2, Zenon DEF Client, Over
    <3> QED
      BY <3>3 DEF next
  <2>3. Connection' = Connection /\ s2c'[Connection] = << >>
    BY <1>1, <1>2, <2>2 DEF Connection, Types
  <2>4. link[Connection] = "up" =>
          /\ Serving(Connection) /\ srv.pc = "files" /\ srv.index = cli.index + 1
          /\ srv.plan.upload_paths = cli.upload_paths
    BY <1>2, <1>3, Zenon DEF Answer
  <2>5. Types'
    BY <1>1, <1>2, <2>2, EmptyQueue, Zenon DEF Types, serverVars
  <2>6. SessionInv'
    BY <1>2, <2>2, Zenon DEF DirInv, SessionInv, serverVars, FilesLeft
  <2>7. ClientInv' /\ ScanInv'
    BY <1>1, <2>2 DEF DirInv, ClientInv, ScanInv, FindFile
  <2>8. Attempts'
    BY <1>1, <1>2, <2>2, Zenon DEF DirInv, Attempts, serverVars, Serving, Types
  <2>9. RequestInv'
    BY <1>2, <2>2, Zenon DEF DirInv, RequestInv, serverVars, Serving, Awaited, FilesLeft, IsPlanned
  <2>10. InStep'
    <3>1. Serving(Connection) => srv.source = cli.manifest /\ srv.pc # "plan" /\ srv.pc # "commit"
      BY <1>1, Zenon DEF DirInv, InStep, ClientReceives, HasFrame
    <3> QED
      BY <1>2, <2>2, <2>3, <2>4, <3>1, Zenon DEF InStep, SameFile, serverVars, Serving, Over
  <2>11. SuccessInv'
    BY <1>1, <2>2, <2>3 DEF DirInv, SuccessInv, serverVars, Over
  <2> QED
    BY <2>5, <2>6, <2>7, <2>8, <2>9, <2>10, <2>11 DEF DirInv
<1>4. CASE ~(frame.type = "TransferResult" /\ frame.code = "Success" /\ frame.rid = cli.rid + cli.index + 1)
  <2>1. Ends("FileTransferError")
    BY <1>4 DEF RecvOutcome
  <2>2. "FileTransferError" \in Statuses /\ "FileTransferError" # "Success"
    BY DEF Statuses
  <2>3. s2c' \in {s2c, [s2c EXCEPT ![Connection] = << >>]} /\ UNCHANGED <<link, c2s, source, outages>>
    BY <1>2
  <2> QED
    BY <2>1, <2>2, <2>3, ClientEndsInv, Zenon
<1> QED
  BY <1>3, <1>4

LEMMA RecvSyncResultInv ==
    ASSUME DirInv, RecvSyncResult, UNCHANGED outages, UNCHANGED serverVars
    PROVE  DirInv'
<1> DEFINE frame == Response
           status == IF frame.code = "Success" THEN "Success" ELSE "VerificationFailed"
<1>1. cli.pc = "result" /\ ClientReceives
  BY DEF RecvSyncResult, ClientAt
<1>2. /\ frame \in Replies /\ Answer(frame)
      /\ s2c' = [s2c EXCEPT ![Connection] = << >>] /\ UNCHANGED <<link, c2s, source>>
  BY <1>1, ClientReads
<1>3. frame.type = "SyncResult"
  BY <1>1, <1>2, FrameTypes DEF Answer, Over
<1>4. frame.tid = 0 /\ frame.rid = cli.rid /\ (frame.code = "Success" => served[Connection] = "Success")
  BY <1>2, <1>3 DEF Replies, Answer
<1>5. Ends(status)
  <2>1. ControlStatus(frame, "SyncResult", cli.rid) = "Success"
    BY <1>3, <1>4 DEF ControlStatus
  <2> QED
    BY <2>1 DEF RecvSyncResult
<1>6. status \in Statuses /\ (status = "Success" => served[Connection] = "Success")
  BY <1>4 DEF Statuses
<1>7. s2c' \in {s2c, [s2c EXCEPT ![Connection] = << >>]} /\ UNCHANGED <<link, c2s, source, outages>>
  BY <1>2
<1> HIDE DEF status
<1> QED
  BY <1>5, <1>6, <1>7, ClientEndsInv, Zenon

LEMMA OtherAttempt == \A c, d \in Conns : c < d \/ c > d => c # d
BY ClientAssumption

LEMMA NextAttempt ==
    \A c, d \in Conns : /\ c > d + 1 => c > d /\ c # d
                        /\ c < d + 1 => c < d \/ c = d
BY ClientAssumption

LEMMA CloseAttemptInv ==
    ASSUME DirInv, CloseAttempt, UNCHANGED outages, UNCHANGED serverVars
    PROVE  DirInv'
<1>1. /\ Types /\ cli \in Client /\ cli.pc = "close" /\ Connection \in Conns
      /\ ClientEndClosed(Connection) /\ UNCHANGED source
  BY DEF DirInv, Types, CloseAttempt, ClientAt, Client, Connection
<1>2. cli.attempt \in Nat /\ \A c \in Conns : c \in Nat
  BY <1>1, ConnsAreNumbers DEF Connection
<1>3. /\ link' = [link EXCEPT ![Connection] = IF @ = "up" THEN "down" ELSE @]
      /\ s2c' = [s2c EXCEPT ![Connection] = << >>]
  BY <1>1 DEF ClientEndClosed
<1>4. c2s' \in {c2s, [c2s EXCEPT ![Connection] = << >>]}
  <2>1. c2s[Connection] \in Queue(Requests) /\ c2s = [c \in Conns |-> c2s[c]]
    BY <1>1 DEF Types
  <2>2. CASE link[Connection] # "up"
    BY <1>1, <2>2 DEF ClientEndClosed
  <2>3. CASE link[Connection] = "up"
    <3>1. PICK rest \in Remainder(s2c[Connection], c2s[Connection]) :
            c2s' = [c2s EXCEPT ![Connection] = rest]
      BY <1>1, <2>3 DEF ClientEndClosed
    <3>2. rest = << >> \/ rest = c2s[Connection]
      BY <2>1, <3>1, QueueFacts DEF Remainder
    <3> QED
      BY <1>1, <2>1, <3>1, <3>2, Zenon
  <2> QED
    BY <2>2, <2>3
<1>5. /\ c2s' \in [Conns -> Queue(Requests)] /\ s2c' \in [Conns -> Queue(Replies)]
      /\ link' \in [Conns -> {"closed", "up", "down"}]
      /\ \A c \in Conns : c2s'[c] = c2s[c] \/ c2s'[c] = << >>
      /\ \A c \in Conns : c # Connection => link'[c] = link[c] /\ s2c'[c] = s2c[c] /\ c2s'[c] = c2s[c]
      /\ link'[Connection] # "up" /\ s2c'[Connection] = << >>
  BY <1>1, <1>3, <1>4, EmptyQueue, Zenon DEF Types
<1>6. CASE cli' = [cli EXCEPT !.pc = "done"]
  <2>1. /\ cli' \in Client /\ cli'.pc = "done" /\ cli'.status = cli.status
        /\ cli'.attempt = cli.attempt /\ cli'.rid = cli.rid /\ cli'.manifest = cli.manifest
        /\ cli'.upload_paths = cli.upload_paths /\ cli'.index = cli.index
        /\ Connection' = Connection
    BY <1>1, <1>6 DEF Client, Over, Connection
  <2>2. Types'
    BY <1>1, <1>5, <2>1 DEF Types, serverVars
  <2>3. SessionInv'
    BY <1>1, <1>5, <2>1, ZenonT(30) DEF DirInv, SessionInv, serverVars, FilesLeft, Types, Session
  <2>4. ClientInv' /\ ScanInv'
    BY <2>1, Zenon DEF DirInv, ClientInv, ScanInv
  <2>5. Attempts'
    <3>1. \A c \in Conns : c > cli.attempt \/ c < cli.attempt => c # Connection
      BY <1>1, OtherAttempt, Zenon DEF Connection
    <3> QED
      BY <1>1, <1>5, <2>1, <3>1 DEF DirInv, Attempts, serverVars, Serving
  <2>6. RequestInv'
    BY <1>5, <2>1 DEF DirInv, RequestInv, serverVars, Serving, Awaited, FilesLeft, IsPlanned
  <2>7. InStep'
    BY <1>1, <1>5, <2>1, ZenonT(30) DEF DirInv, InStep, Asked, SameFile, serverVars, Serving, Over
  <2>8. SuccessInv'
    BY <1>1, <1>5, <2>1 DEF DirInv, SuccessInv, Synced, serverVars, Over, Types, Session
  <2> QED
    BY <2>2, <2>3, <2>4, <2>5, <2>6, <2>7, <2>8 DEF DirInv
<1>7. CASE /\ cli.status = "FrameIoError" /\ cli.attempt < MaxRetries
           /\ cli' = [cli EXCEPT !.pc = "connect", !.attempt = @ + 1, !.manifest = << >>,
                                 !.upload_paths = << >>, !.index = 0]
  <2> DEFINE next == cli.attempt + 1
  <2>1. next \in Conns /\ cli.attempt < next /\ \A c \in Conns : c < next => c <= cli.attempt
    BY <1>2, <1>7, ClientAssumption
  <2>2. cli' = [cli EXCEPT !.pc = "connect", !.attempt = next, !.manifest = << >>,
                           !.upload_paths = << >>, !.index = 0]
    BY <1>7
  <2>3. next \in Nat
    BY <1>2
  <2> HIDE DEF next
  <2>4. << >> \in Seq(FileRecord) /\ << >> \in Seq(Paths)
    OBVIOUS
  <2>5. /\ cli' \in Client /\ cli'.pc = "connect" /\ cli'.status = cli.status
        /\ cli'.attempt = next /\ cli'.rid = cli.rid /\ cli'.manifest = << >>
        /\ cli'.upload_paths = << >> /\ cli'.index = 0 /\ Connection' = next
    BY <1>1, <2>1, <2>2, <2>4, ZenonT(30) DEF Client, Over, Connection
  <2>6. /\ link'[next] = "closed" /\ c2s'[next] = << >> /\ s2c'[next] = << >>
        /\ ~Serving(next) /\ served[next] = "none"
    BY <1>2, <1>5, <2>1, <2>3 DEF DirInv, Attempts, Connection
  <2>7. Types'
    BY <1>1, <1>5, <2>5, ZenonT(30) DEF Types, serverVars
  <2>8. SessionInv'
    BY <1>1, <1>5, <2>5, ZenonT(30) DEF DirInv, SessionInv, serverVars, FilesLeft, Types, Session
  <2>9. ClientInv' /\ ScanInv'
    BY <2>4, <2>5 DEF DirInv, ClientInv, ScanInv, Manifest, StrictlySorted, PathsOf
  <2>10. Attempts'
    <3>1. \A c \in Conns : /\ c > next => c > cli.attempt /\ c # cli.attempt
                           /\ c < next => c < cli.attempt \/ c = cli.attempt
                           /\ c < cli.attempt => c # cli.attempt
      BY <1>1, NextAttempt, OtherAttempt, Zenon DEF next, Connection
    <3> QED
      BY <1>1, <1>5, <2>5, <2>6, <3>1 DEF DirInv, Attempts, serverVars, Serving, Connection
  <2>11. RequestInv'
    BY <1>5, <2>5 DEF DirInv, RequestInv, serverVars, Serving, Awaited, FilesLeft, IsPlanned
  <2>12. InStep'
    BY <2>5, <2>6 DEF InStep, serverVars, Serving
  <2>13. SuccessInv'
    BY <1>7, <2>5, <2>6 DEF SuccessInv, serverVars
  <2> QED
    BY <2>7, <2>8, <2>9, <2>10, <2>11, <2>12, <2>13 DEF DirInv
<1> QED
  BY <1>6, <1>7 DEF CloseAttempt

(* Every step of the client. *)
LEMMA ClientRunsInv ==
    ASSUME DirInv, ClientRuns
    PROVE  DirInv'
<1>1. ClientStep /\ UNCHANGED serverVars /\ UNCHANGED outages
  BY DEF ClientRuns
<1>2. CASE ScanFails \/ ClientIoFails
  <2>1. PICK status \in {"FrameIoError", "ScanError", "FileTransferError"} :
          Ends(status) /\ UNCHANGED source /\ UNCHANGED wireVars
    BY <1>2, Zenon DEF ScanFails, ClientIoFails
  <2> QED
    BY <1>1, <2>1, ClientFailsInv
<1> QED
  BY <1>1, <1>2, ConnectInv, ScanFileInv, ChecksumFileInv, SendManifestInv, RecvPlanInv,
     SendNextFileInv, RecvOutcomeInv, SendSyncCompleteInv, RecvSyncResultInv, CloseAttemptInv,
     Zenon DEF ClientStep
-----------------------------------------------------------------------------
(* The session under the mutex, and the frame it takes. *)
LEMMA SessionFacts ==
    ASSUME DirInv, srv # NoSync
    PROVE  /\ srv \in Session /\ srv.conn \in Conns /\ Connection \in Conns
           /\ served[srv.conn] = "none" /\ srv.rid = cli.rid
           /\ link[Connection] = "up" /\ srv.conn # Connection => cli.pc # "file"
           /\ srv.conn # Connection => link[srv.conn] # "up"
<1>1. /\ srv \in Session /\ srv.conn \in Conns /\ Connection \in Conns
      /\ served[srv.conn] = "none" /\ srv.rid = cli.rid
  BY DEF DirInv, Types, SessionInv, Session, Client, Connection
<1>2. link[Connection] = "up" /\ srv.conn # Connection => cli.pc # "file"
  BY DEF DirInv, InStep, Serving
<1>3. srv.conn # Connection => link[srv.conn] # "up"
  <2>1. srv.conn \in Nat /\ cli.attempt \in Nat /\ ~(srv.conn > cli.attempt)
    BY <1>1, ConnsAreNumbers DEF DirInv, Attempts, Serving, Connection
  <2> QED
    BY <1>1, <2>1 DEF DirInv, Attempts, Connection
<1> QED
  BY <1>1, <1>2, <1>3

LEMMA SessionReads ==
    ASSUME DirInv, srv # NoSync, ServerReceives
    PROVE  /\ Incoming \in Requests /\ Awaited(srv.conn, Incoming)
           /\ c2s' = [c2s EXCEPT ![srv.conn] = << >>] /\ UNCHANGED link
           /\ served[Connection] # "Success" /\ cli.status # "Success"
           /\ srv.conn = Connection =>
                 s2c[Connection] = << >> /\ cli.pc # "file" /\ Asked(Incoming)
<1>1. srv.conn \in Conns /\ c2s[srv.conn] \in Queue(Requests) /\ c2s[srv.conn] # << >>
  BY SessionFacts DEF DirInv, Types, ServerReceives, HasFrame
<1>2. Incoming \in Requests /\ Tail(c2s[srv.conn]) = << >>
  BY <1>1, QueueFacts DEF Incoming
<1>3. c2s' = [c2s EXCEPT ![srv.conn] = << >>] /\ UNCHANGED link
  BY <1>2, Zenon DEF ServerReceives, Consumed
<1>4. Awaited(srv.conn, Incoming)
  BY <1>1 DEF DirInv, RequestInv, Incoming
<1>5. served[Connection] # "Success" /\ cli.status # "Success"
  BY <1>1 DEF DirInv, SuccessInv
<1>6. srv.conn = Connection =>
        s2c[Connection] = << >> /\ cli.pc # "file" /\ Asked(Incoming)
  BY <1>1, ClientTurn DEF DirInv, InStep, Incoming
<1> QED
  BY <1>2, <1>3, <1>4, <1>5, <1>6, Zenon

(* An answer is appended to an empty queue, or lost. *)
LEMMA ReplySent ==
    ASSUME Types, NEW c \in Conns, link[c] = "up" => s2c[c] = << >>, NEW frame \in Replies,
           s2c' = SendOn(s2c, c, frame)
    PROVE  /\ s2c' \in [Conns -> Queue(Replies)]
           /\ \A d \in Conns : d # c => s2c'[d] = s2c[d]
           /\ link[c] # "up" => s2c' = s2c
           /\ link[c] = "up" => s2c'[c] # << >> /\ Head(s2c'[c]) = frame
<1>1. CASE link[c] # "up"
  BY <1>1 DEF Types, SendOn
<1>2. CASE link[c] = "up"
  <2>1. s2c' = [s2c EXCEPT ![c] = Append(<< >>, frame)]
    BY <1>2, ZenonT(30) DEF SendOn
  <2> QED
    BY <1>2, <2>1, FirstFrame DEF Types
<1> QED
  BY <1>1, <1>2

(* The last answer of a session that ends with a status. *)
LastAnswer(frame, status) ==
    \/ /\ frame.type = "TransferResult" /\ frame.code # "Success"
       /\ frame.rid = cli.rid + cli.index + 1 /\ cli.pc \in {"outcome"} \cup Over
    \/ /\ frame.type = "SyncResult" /\ frame.rid = cli.rid
       /\ frame.code = "Success" => status = "Success"
       /\ cli.pc \in {"result"} \cup Over

(* Less may come back than before. *)
LEMMA SyncedKept ==
    ASSUME Manifest(cli.manifest), Synced, UNCHANGED <<cli, dest, outages>>,
           \A p \in Paths : fallback'[p] \subseteq fallback[p]
    PROVE  Synced'
<1>1. \A i \in 1 .. Len(cli.manifest) : cli.manifest[i].path \in Paths
  BY ManifestFacts
<1> QED
  BY <1>1, Zenon DEF Synced

LEMMA SessionEndsInv ==
    ASSUME DirInv, srv # NoSync, NEW status \in Statuses, status # "none", Finish(status),
           c2s' = [c2s EXCEPT ![srv.conn] = << >>],
           fallback' \in [Paths -> SUBSET (Versions \cup {NoFile})],
           \A p \in Paths : fallback'[p] \subseteq fallback[p],
           link[Connection] = "up" /\ Serving(Connection) => s2c[Connection] = << >> /\ cli.pc # "file",
           \/ UNCHANGED s2c
           \/ \E frame \in Replies :
                 /\ s2c' = SendOn(s2c, srv.conn, frame)
                 /\ srv.conn = Connection => LastAnswer(frame, status),
           status = "Success" /\ srv.conn = Connection => Synced /\ cli.pc \in {"result"} \cup Over,
           UNCHANGED <<link, dest, commits, source, cli, outages>>
    PROVE  DirInv'
<1>1. Types /\ srv' = NoSync /\ served' = [served EXCEPT ![srv.conn] = status]
  BY Zenon DEF DirInv, Finish
<1>2. /\ srv \in Session /\ srv.conn \in Conns /\ Connection \in Conns
      /\ served[srv.conn] = "none" /\ srv.rid = cli.rid
      /\ link[Connection] = "up" /\ srv.conn # Connection => cli.pc # "file"
      /\ srv.conn # Connection => link[srv.conn] # "up"
  BY SessionFacts
<1>3. Connection' = Connection
  BY ZenonT(30) DEF Connection
<1>4. /\ c2s' \in [Conns -> Queue(Requests)] /\ c2s'[srv.conn] = << >>
      /\ \A c \in Conns : c # srv.conn => c2s'[c] = c2s[c] /\ served'[c] = served[c]
      /\ served' \in [Conns -> Statuses] /\ served'[srv.conn] = status
  BY <1>1, <1>2, EmptyQueue, ZenonT(30) DEF Types
<1>5. /\ s2c' \in [Conns -> Queue(Replies)]
      /\ \A c \in Conns : c # Connection => s2c'[c] = s2c[c]
      /\ \/ s2c'[Connection] = s2c[Connection]
         \/ /\ srv.conn = Connection /\ s2c'[Connection] # << >>
            /\ Head(s2c'[Connection]) \in Replies /\ LastAnswer(Head(s2c'[Connection]), status)
  <2>1. CASE UNCHANGED s2c
    BY <1>1, <2>1, SMTT(30) DEF Types
  <2>2. CASE s2c' # s2c
    <3>0. PICK frame \in Replies :
            /\ s2c' = SendOn(s2c, srv.conn, frame)
            /\ srv.conn = Connection => LastAnswer(frame, status)
      BY <2>2, Zenon
    <3>1. link[srv.conn] = "up" => srv.conn = Connection /\ s2c[srv.conn] = << >>
      BY <1>2, ZenonT(30) DEF Serving
    <3>2. /\ s2c' \in [Conns -> Queue(Replies)]
          /\ \A d \in Conns : d # srv.conn => s2c'[d] = s2c[d]
          /\ link[srv.conn] # "up" => s2c' = s2c
          /\ link[srv.conn] = "up" => s2c'[srv.conn] # << >> /\ Head(s2c'[srv.conn]) = frame
      BY <1>1, <1>2, <3>0, <3>1, ReplySent, ZenonT(30)
    <3> QED
      BY <1>2, <2>2, <3>0, <3>1, <3>2, ZenonT(30)
  <2> QED
    BY <2>1, <2>2, Zenon
<1>6. Types'
  BY <1>1, <1>4, <1>5, ZenonT(30) DEF Types
<1>7. SessionInv' /\ ClientInv' /\ ScanInv'
  BY <1>1, ZenonT(30) DEF DirInv, SessionInv, ClientInv, ScanInv, FindFile
<1>8. Attempts'
  <2>1. ~(srv.conn > cli.attempt \/ (srv.conn = cli.attempt /\ cli.pc = "connect"))
    BY <1>2, ZenonT(30) DEF DirInv, Attempts, Serving
  <2>2. \A c \in Conns : s2c'[c] = s2c[c] \/ (c = srv.conn /\ c = cli.attempt)
    BY <1>2, <1>5, Zenon DEF Connection
  <2>3. \A c \in Conns : c < cli.attempt => c # cli.attempt
    BY <1>2, OtherAttempt, Zenon DEF Connection
  <2> QED
    BY <1>1, <1>2, <1>4, <2>1, <2>2, <2>3, ZenonT(30) DEF DirInv, Attempts, Serving
<1>9. RequestInv'
  BY <1>1, <1>4, ZenonT(30) DEF DirInv, RequestInv, Serving, Awaited
<1>10. InStep'
  BY <1>1, <1>2, <1>3, <1>4, <1>5, ZenonT(30) DEF DirInv, InStep, Asked, Answer, RequestInv, Awaited, Serving, Over, LastAnswer
<1>11. SuccessInv'
  <2>1. Synced => Synced'
    BY SyncedKept, Zenon DEF DirInv, ClientInv
  <2> QED
    BY <1>1, <1>2, <1>3, <1>4, <2>1, ZenonT(30) DEF DirInv, SuccessInv, Over
<1> QED
  BY <1>6, <1>7, <1>8, <1>9, <1>10, <1>11, Zenon DEF DirInv

(* A queue that is empty already. *)
LEMMA StaysEmpty ==
    ASSUME Types, NEW c \in Conns, c2s[c] = << >>, UNCHANGED c2s
    PROVE  c2s' = [c2s EXCEPT ![c] = << >>]
  BY DEF Types

(* The connection of the session is gone, or a file-system call fails,      *)
(* before anything was renamed.                                             *)
LEMMA SessionLostInv ==
    ASSUME DirInv, SendPlanFails \/ RecvInterrupted, UNCHANGED <<source, cli, outages>>
    PROVE  DirInv'
<1>1. /\ srv # NoSync /\ Types /\ link[srv.conn] = "down" /\ Finish("FrameIoError")
      /\ c2s[srv.conn] = << >> /\ UNCHANGED <<dest, fallback, commits, link, c2s, s2c>>
  BY Zenon DEF DirInv, SessionInv, SendPlanFails, RecvInterrupted, At, SendFails, RecvFails, diskVars, wireVars
<1>2. srv.conn \in Conns
  BY <1>1, SessionFacts
<1>3. c2s' = [c2s EXCEPT ![srv.conn] = << >>]
  BY <1>1, <1>2, StaysEmpty
<1>4. "FrameIoError" \in Statuses /\ "FrameIoError" # "none" /\ "FrameIoError" # "Success"
  BY DEF Statuses
<1>5. /\ ~(link[Connection] = "up" /\ Serving(Connection))
      /\ fallback' \in [Paths -> SUBSET (Versions \cup {NoFile})]
      /\ \A p \in Paths : fallback'[p] \subseteq fallback[p]
  BY <1>1, Zenon DEF Serving, Types
<1> QED
  BY <1>1, <1>3, <1>4, <1>5, SessionEndsInv, Zenon

(* What the session expects when files are left. *)
LEMMA UploadRequested ==
    ASSUME DirInv, srv # NoSync, FilesLeft, ServerReceives
    PROVE  /\ IsPlanned(Incoming) /\ Incoming.type = "UploadRequest"
           /\ Incoming.rid = srv.rid + srv.index + 1 /\ Incoming.rid \in Nat
           /\ Incoming.path = srv.plan.upload_paths[srv.index + 1]
           /\ Incoming.version \in Versions
           /\ srv.conn = Connection => SameFile /\ cli.pc \in {"outcome"} \cup Over
<1>1. Incoming \in Requests /\ Awaited(srv.conn, Incoming) /\ (srv.conn = Connection => Asked(Incoming))
  BY SessionReads
<1>2. IsPlanned(Incoming)
  BY <1>1 DEF Awaited, Serving
<1>3. /\ Incoming.type = "UploadRequest" /\ Incoming.rid = srv.rid + srv.index + 1
      /\ Incoming.path = srv.plan.upload_paths[srv.index + 1]
  BY <1>2 DEF IsPlanned
<1>4. Incoming.version \in Versions /\ Incoming.rid \in Nat
  BY <1>1, <1>3, Zenon DEF Requests
<1> QED
  BY <1>1, <1>2, <1>3, <1>4, Zenon DEF Asked

LEMMA ReceiveFileFailsInv ==
    ASSUME DirInv, ReceiveFileFails(Mismatch), UNCHANGED <<source, cli, outages>>
    PROVE  DirInv'
<1>1. /\ srv # NoSync /\ FilesLeft /\ ServerReceives /\ Finish("FileTransferError")
      /\ UNCHANGED <<dest, fallback, commits>> /\ Types
  BY Zenon DEF DirInv, ReceiveFileFails, At, diskVars
<1>2. /\ c2s' = [c2s EXCEPT ![srv.conn] = << >>] /\ UNCHANGED link
      /\ srv.conn = Connection => s2c[Connection] = << >> /\ cli.pc # "file"
  BY <1>1, SessionReads
<1>3. /\ Incoming.rid = srv.rid + srv.index + 1 /\ Incoming.rid \in Nat
      /\ srv.conn = Connection => SameFile /\ cli.pc \in {"outcome"} \cup Over
  BY <1>1, UploadRequested
<1>4. srv.rid = cli.rid
  BY <1>1, SessionFacts, Zenon
<1>5. ASSUME NEW code \in {"ChecksumMismatch", "FileIoError"}
      PROVE  /\ TransferResult(Incoming.rid, code) \in Replies
             /\ srv.conn = Connection =>
                   LastAnswer(TransferResult(Incoming.rid, code), "FileTransferError")
  BY <1>3, <1>4 DEF TransferResult, Replies, Codes, LastAnswer, SameFile
<1>6. \/ UNCHANGED s2c
      \/ \E frame \in Replies :
            /\ s2c' = SendOn(s2c, srv.conn, frame)
            /\ srv.conn = Connection => LastAnswer(frame, "FileTransferError")
  BY <1>5, Zenon DEF ReceiveFileFails
<1>7. "FileTransferError" \in Statuses /\ "FileTransferError" # "none" /\ "FileTransferError" # "Success"
  BY DEF Statuses
<1>8. /\ fallback' \in [Paths -> SUBSET (Versions \cup {NoFile})]
      /\ \A p \in Paths : fallback'[p] \subseteq fallback[p]
      /\ Serving(Connection) => s2c[Connection] = << >> /\ cli.pc # "file"
  BY <1>1, <1>2, SMTT(30) DEF Serving, Types
<1> QED
  BY <1>1, <1>2, <1>6, <1>7, <1>8, SessionEndsInv, Zenon

LEMMA CommitFileFailsInv ==
    ASSUME DirInv, CommitFileFails, UNCHANGED <<source, cli, outages>>
    PROVE  DirInv'
<1> DEFINE path == srv.plan.upload_paths[srv.index + 1]
           frame == Outcome("FileIoError")
<1>1. /\ srv # NoSync /\ Types /\ srv.pc = "commit" /\ Finish("FileTransferError")
      /\ UNCHANGED <<link, c2s, dest, commits>>
      /\ \/ UNCHANGED fallback
         \/ fallback' = [fallback EXCEPT ![path] = {}]
      /\ UNCHANGED s2c \/ s2c' = SendOn(s2c, srv.conn, frame)
  BY Zenon DEF DirInv, CommitFileFails, At
<1>2. srv \in Session /\ srv.conn \in Conns /\ srv.rid = cli.rid
  BY <1>1, SessionFacts
<1>3. c2s' = [c2s EXCEPT ![srv.conn] = << >>]
  <2>1. c2s[srv.conn] = << >>
    BY <1>1, ZenonT(30) DEF DirInv, SessionInv
  <2> QED
    BY <1>1, <1>2, <2>1, StaysEmpty, SMTT(30)
<1>4. /\ fallback' \in [Paths -> SUBSET (Versions \cup {NoFile})]
      /\ \A p \in Paths : fallback'[p] \subseteq fallback[p]
  BY <1>1, Zenon DEF Types
<1>5. srv.conn = Connection => s2c[Connection] = << >> /\ SameFile /\ cli.pc \in {"outcome"} \cup Over
  BY <1>1, Zenon DEF DirInv, InStep, Serving
<1>6. frame \in Replies /\ (srv.conn = Connection => LastAnswer(frame, "FileTransferError"))
  <2>1. srv.rid + srv.index + 1 \in Nat
    BY <1>2 DEF Session
  <2> QED
    BY <1>2, <1>5, <2>1, Zenon DEF Outcome, TransferResult, Replies, Codes, LastAnswer, SameFile
<1> HIDE DEF frame
<1>7. "FileTransferError" \in Statuses /\ "FileTransferError" # "none" /\ "FileTransferError" # "Success"
  BY DEF Statuses
<1>8. Serving(Connection) => s2c[Connection] = << >> /\ cli.pc # "file"
  BY <1>5 DEF Serving, Over
<1>9. \/ UNCHANGED s2c
      \/ \E f \in Replies :
            /\ s2c' = SendOn(s2c, srv.conn, f)
            /\ srv.conn = Connection => LastAnswer(f, "FileTransferError")
  BY <1>1, <1>6, Zenon
<1> QED
  BY <1>1, <1>3, <1>4, <1>7, <1>8, <1>9, SessionEndsInv, Zenon

(* What scan_directory finds in a tree. *)
LEMMA ScanFacts ==
    ASSUME NEW tree \in Tree
    PROVE  ScanDirectory(tree) = FilesInOrder(RecordsOf(tree)) /\ Listable(RecordsOf(tree))
<1> DEFINE held == {q \in Paths : tree[q] # NoFile}
           record(p) == [path |-> p, size |-> SizeOf(tree[p]), checksum |-> ChecksumOf(tree[p])]
           files == {record(p) : p \in held}
           recordOf == [p \in held |-> record(p)]
<1>1. IsFiniteSet(held)
  BY SyncAssumption, FS_Subset, Zenon
<1>2. recordOf \in Surjection(held, files)
  BY Zenon DEF Surjection
<1>3. IsFiniteSet(files)
  BY <1>1, <1>2, FS_Surjection, Zenon
<1>4. \A f \in files : f.path \in Nat
  BY ManifestAssumption
<1>5. \A f, g \in files : f.path = g.path => f = g
  OBVIOUS
<1> QED
  BY <1>3, <1>4, <1>5, Zenon DEF ScanDirectory, RecordsOf, Listable

(* The final scan finds every file of the manifest as it is described. *)
LEMMA VerifiedSynced ==
    ASSUME DirInv, srv # NoSync, srv.conn = Connection, ~FilesLeft, ServerReceives,
           PlanOf(srv.source, ScanDirectory(dest)).upload_paths = << >>
    PROVE  Synced /\ cli.pc \in {"result"} \cup Over
<1> DEFINE files == cli.manifest
           plan == PlanOf(files, ScanDirectory(dest))
<1>1. dest \in Tree /\ srv \in Session /\ srv.source = files /\ Manifest(files)
  BY ZenonT(30) DEF DirInv, Types, InStep, ClientInv, Serving
<1>2. CallsFor(plan, files, RecordsOf(dest))
  BY <1>1, ScanFacts, PlanForScan, Zenon
<1>3. \A i \in 1 .. Len(files) : files[i] \in RecordsOf(dest)
  <2>1. Len(plan.upload_paths) = 0
    BY <1>1
  <2> HIDE DEF plan
  <2>2. \A i \in 1 .. Len(files) : files[i] \notin RecordsOf(dest) =>
          \E k \in 1 .. Len(plan.upload_paths) : plan.upload_paths[k] = files[i].path
    BY <1>2, ZenonT(30) DEF CallsFor
  <2> QED
    BY <2>1, <2>2
<1>4. ASSUME NEW i \in 1 .. Len(files)
      PROVE  files[i].path \in Paths /\ Describes(files[i], dest[files[i].path])
  <2>1. PICK p \in Paths :
          /\ dest[p] # NoFile
          /\ files[i] = [path |-> p, size |-> SizeOf(dest[p]), checksum |-> ChecksumOf(dest[p])]
    BY <1>3, Zenon DEF RecordsOf
  <2> HIDE DEF files
  <2> QED
    BY <2>1 DEF Describes
<1>5. /\ srv.plan.upload_paths = cli.upload_paths /\ cli.pc \in {"result"} \cup Over
      /\ Incoming.type = "SyncComplete"
  <2>1. Awaited(srv.conn, Incoming) /\ Asked(Incoming)
    BY SessionReads, Zenon
  <2>2. Incoming.type = "SyncComplete"
    BY <2>1 DEF Awaited, Serving
  <2> QED
    BY <2>1, <2>2, Zenon DEF Asked
<1>6. \A p \in Range(cli.upload_paths) : fallback[p] = {}
  <2>1. /\ srv.index <= Len(srv.plan.upload_paths)
        /\ \A k \in 1 .. srv.index : fallback[srv.plan.upload_paths[k]] = {}
    BY SMTT(30) DEF DirInv, SessionInv
  <2>2. srv.index \in Nat /\ cli.upload_paths \in Seq(Paths)
    BY <1>1, Zenon DEF Session, DirInv, Types, Client
  <2>3. srv.index = Len(cli.upload_paths)
    BY <1>5, <2>1, <2>2 DEF FilesLeft
  <2>4. DOMAIN cli.upload_paths = 1 .. srv.index
    BY <2>2, <2>3
  <2> QED
    BY <1>5, <2>1, <2>4, Zenon DEF Range
<1> HIDE DEF files
<1>7. ASSUME NEW i \in 1 .. Len(files)
      PROVE  IF files[i].path \in Range(cli.upload_paths)
             THEN \A version \in fallback[files[i].path] \cup {dest[files[i].path]} :
                     Describes(files[i], version)
             ELSE outages = 0 => Describes(files[i], dest[files[i].path])
  BY <1>4, <1>6
<1>8. Synced
  BY <1>7, Zenon DEF Synced, files
<1> QED
  BY <1>5, <1>8, SMTT(30)

LEMMA VerifyDestinationInv ==
    ASSUME DirInv, VerifyDestination, UNCHANGED <<source, cli, outages>>
    PROVE  DirInv'
<1> DEFINE verified == PlanOf(srv.source, ScanDirectory(dest)).upload_paths = << >>
           last(frame, status) == s2c' = SendOn(s2c, srv.conn, frame) /\ Finish(status)
           good == SyncResult(srv.rid, "Success")
           bad == SyncResult(srv.rid, "DestinationChanged")
<1>1. /\ srv # NoSync /\ ~FilesLeft /\ ServerReceives /\ Types
      /\ UNCHANGED <<dest, fallback, commits>>
  BY Zenon DEF DirInv, VerifyDestination, At, diskVars
<1>2. /\ Incoming \in Requests /\ Awaited(srv.conn, Incoming)
      /\ c2s' = [c2s EXCEPT ![srv.conn] = << >>] /\ UNCHANGED link
      /\ srv.conn = Connection =>
            s2c[Connection] = << >> /\ cli.pc # "file" /\ Asked(Incoming)
  BY <1>1, SessionReads
<1>3. Incoming.type = "SyncComplete" /\ Incoming.rid = srv.rid
  BY <1>1, <1>2, Zenon DEF Awaited, Serving
<1>4. Incoming.tid = 0 /\ Incoming.bare = TRUE
  BY <1>2, <1>3, Zenon DEF Requests
<1>5. CompleteStatus(Incoming) \subseteq {"Success", "ScanError"}
  <2>1. ControlStatus(Incoming, "SyncComplete", srv.rid) = "Success"
    BY <1>3, <1>4, Zenon DEF ControlStatus
  <2> QED
    BY <1>4, <2>1 DEF CompleteStatus
<1>6. srv.conn = Connection => cli.pc \in {"result"} \cup Over
  BY <1>2, <1>3 DEF Asked
<1>7. srv \in Session /\ srv.rid = cli.rid /\ srv.rid \in Nat
  BY <1>1, SessionFacts, Zenon DEF Session
<1>8. /\ good \in Replies /\ (srv.conn = Connection => LastAnswer(good, "Success"))
      /\ bad \in Replies /\ (srv.conn = Connection => LastAnswer(bad, "VerificationFailed"))
  BY <1>6, <1>7 DEF SyncResult, Replies, Codes, LastAnswer
<1> HIDE DEF good, bad, verified
<1>9. \/ UNCHANGED s2c /\ (Finish("ScanError") \/ Finish("FrameIoError"))
      \/ verified /\ last(good, "Success")
      \/ last(bad, "VerificationFailed")
  <2>1. PICK status \in CompleteStatus(Incoming) :
          IF status # "Success" THEN Finish(status) /\ UNCHANGED s2c
          ELSE IF verified THEN FinishSending(good, "Success")
          ELSE FinishSending(bad, "VerificationFailed")
    BY Zenon DEF VerifyDestination, verified, good, bad
  <2>2. status = "Success" \/ status = "ScanError"
    BY <1>5, Zenon
  <2> QED
    BY <2>1, <2>2, Zenon DEF FinishSending
<1>10. /\ fallback' \in [Paths -> SUBSET (Versions \cup {NoFile})]
       /\ \A p \in Paths : fallback'[p] \subseteq fallback[p]
       /\ Serving(Connection) => s2c[Connection] = << >> /\ cli.pc # "file"
  BY <1>1, <1>2 DEF Serving, Types
<1>11. /\ {"ScanError", "FrameIoError", "Success", "VerificationFailed"} \subseteq Statuses
       /\ "ScanError" # "none" /\ "FrameIoError" # "none" /\ "Success" # "none" /\ "VerificationFailed" # "none"
       /\ "ScanError" # "Success" /\ "FrameIoError" # "Success" /\ "VerificationFailed" # "Success"
  BY SMTT(30) DEF Statuses
<1>12. CASE UNCHANGED s2c /\ (Finish("ScanError") \/ Finish("FrameIoError"))
  BY <1>1, <1>2, <1>10, <1>11, <1>12, SessionEndsInv, ZenonT(30)
<1>13. CASE verified /\ last(good, "Success")
  <2>1. srv.conn = Connection => Synced /\ cli.pc \in {"result"} \cup Over
    BY <1>1, <1>13, VerifiedSynced, Zenon DEF verified
  <2>2. \E frame \in Replies :
           /\ s2c' = SendOn(s2c, srv.conn, frame)
           /\ srv.conn = Connection => LastAnswer(frame, "Success")
    BY <1>8, <1>13, ZenonT(30)
  <2> QED
    BY <1>1, <1>2, <1>10, <1>11, <1>13, <2>1, <2>2, SessionEndsInv, ZenonT(30)
<1>14. CASE last(bad, "VerificationFailed")
  <2>1. \E frame \in Replies :
           /\ s2c' = SendOn(s2c, srv.conn, frame)
           /\ srv.conn = Connection => LastAnswer(frame, "VerificationFailed")
    BY <1>8, <1>14, Zenon
  <2> QED
    BY <1>1, <1>2, <1>10, <1>11, <1>14, <2>1, SessionEndsInv, Zenon
<1> QED
  BY <1>9, <1>12, <1>13, <1>14, Zenon

LEMMA SendPlanInv ==
    ASSUME DirInv, SendPlan, UNCHANGED <<source, cli, outages>>
    PROVE  DirInv'
<1> DEFINE frame == SyncPlan(srv.rid, srv.plan)
<1>1. /\ srv # NoSync /\ srv.pc = "plan" /\ Types /\ s2c' = SendOn(s2c, srv.conn, frame)
      /\ srv' = [srv EXCEPT !.pc = "files"]
      /\ UNCHANGED <<link, c2s, served, dest, fallback, commits>>
  BY DEF DirInv, SendPlan, At, diskVars
<1>2. /\ srv \in Session /\ srv.conn \in Conns /\ Connection \in Conns
      /\ served[srv.conn] = "none" /\ srv.rid = cli.rid
      /\ link[Connection] = "up" /\ srv.conn # Connection => cli.pc # "file"
      /\ srv.conn # Connection => link[srv.conn] # "up"
  BY <1>1, SessionFacts
<1>3. /\ srv' \in Session /\ srv'.conn = srv.conn /\ srv'.rid = srv.rid /\ srv'.pc = "files"
      /\ srv'.source = srv.source /\ srv'.plan = srv.plan /\ srv'.index = srv.index
      /\ Connection' = Connection
  BY <1>1, <1>2 DEF Session, Connection
<1>4. srv.conn = Connection =>
        s2c[Connection] = << >> /\ srv.source = cli.manifest /\ cli.pc \in {"plan"} \cup Over
  BY <1>1 DEF DirInv, InStep, Serving
<1>5. frame \in Replies /\ frame.type = "SyncPlan" /\ frame.rid = srv.rid /\ frame.plan = srv.plan
  BY <1>2, Zenon DEF SyncPlan, Replies, Session
<1> HIDE DEF frame
<1>6. /\ s2c' \in [Conns -> Queue(Replies)]
      /\ \A d \in Conns : d # srv.conn => s2c'[d] = s2c[d]
      /\ link[srv.conn] # "up" => s2c' = s2c
      /\ link[srv.conn] = "up" => s2c'[srv.conn] # << >> /\ Head(s2c'[srv.conn]) = frame
  BY <1>1, <1>2, <1>4, <1>5, ReplySent, Zenon
<1>7. /\ c2s[srv.conn] = << >> /\ srv.index = 0 /\ Fits(srv.plan, srv.source, srv.rid)
  BY <1>1 DEF DirInv, SessionInv
<1>8. srv' # NoSync
  BY <1>3, SyncAssumption
<1>9. Types'
  BY <1>1, <1>3, <1>6 DEF Types
<1>10. SessionInv'
  BY <1>1, <1>3, <1>7, Zenon DEF DirInv, SessionInv, FilesLeft
<1>11. ClientInv' /\ ScanInv'
  BY Zenon DEF DirInv, ClientInv, ScanInv, FindFile
<1>12. Attempts'
  BY <1>1, <1>2, <1>3, <1>6 DEF DirInv, Attempts, Serving, Connection
<1>13. RequestInv'
  BY <1>1, <1>3, <1>7, <1>8, ZenonT(30) DEF DirInv, RequestInv, Serving, Awaited
<1>14. InStep'
  BY <1>1, <1>2, <1>3, <1>4, <1>5, <1>6, <1>7, <1>8
     DEF DirInv, InStep, Asked, Answer, RequestInv, Awaited, Serving, Over
<1>15. SuccessInv'
  BY <1>1, <1>2, <1>3, <1>7 DEF DirInv, SuccessInv, Synced, Over
<1> QED
  BY <1>9, <1>10, <1>11, <1>12, <1>13, <1>14, <1>15, Zenon DEF DirInv

(* The paths of a plan differ. *)
LEMMA OtherUpload ==
    ASSUME NEW seq \in Seq(Paths), StrictlySorted(seq), NEW n \in Nat, n < Len(seq)
    PROVE  n + 1 \in 1 .. Len(seq) /\ seq[n + 1] \in Paths /\ \A k \in 1 .. n : seq[k] # seq[n + 1]
<1>1. n + 1 \in 1 .. Len(seq) /\ \A k \in 1 .. n : k \in 1 .. Len(seq) /\ k < n + 1
  OBVIOUS
<1>2. \A k \in 1 .. Len(seq) : seq[k] \in Nat /\ seq[k] \in Paths
  <2>1. \A k \in 1 .. Len(seq) : seq[k] \in Paths
    OBVIOUS
  <2> QED
    BY <2>1, ManifestAssumption, Zenon
<1>3. \A k \in 1 .. n : seq[k] < seq[n + 1]
  BY <1>1, Zenon DEF StrictlySorted
<1> QED
  BY <1>1, <1>2, <1>3

LEMMA RenameFileInv ==
    ASSUME DirInv, RenameFile, UNCHANGED <<source, cli, outages>>
    PROVE  DirInv'
<1> DEFINE path == Incoming.path
           version == Incoming.version
<1>1. /\ srv # NoSync /\ srv.pc = "files" /\ Types /\ FilesLeft /\ ServerReceives
      /\ Replaced(path, version) /\ srv' = [srv EXCEPT !.pc = "commit"] /\ UNCHANGED <<s2c, served>>
  BY DEF DirInv, RenameFile, At
<1>2. /\ srv \in Session /\ srv.conn \in Conns /\ Connection \in Conns
      /\ served[srv.conn] = "none" /\ srv.rid = cli.rid
      /\ link[Connection] = "up" /\ srv.conn # Connection => cli.pc # "file"
      /\ srv.conn # Connection => link[srv.conn] # "up"
  BY <1>1, SessionFacts
<1>3. /\ srv' \in Session /\ srv'.conn = srv.conn /\ srv'.rid = srv.rid /\ srv'.pc = "commit"
      /\ srv'.source = srv.source /\ srv'.plan = srv.plan /\ srv'.index = srv.index
      /\ Connection' = Connection
  BY <1>1, <1>2 DEF Session, Connection
<1>4. srv' # NoSync
  BY <1>3, SyncAssumption
<1>5. /\ c2s' = [c2s EXCEPT ![srv.conn] = << >>] /\ UNCHANGED link
      /\ served[Connection] # "Success" /\ cli.status # "Success"
      /\ srv.conn = Connection => s2c[Connection] = << >> /\ cli.pc # "file"
  BY <1>1, SessionReads
<1>6. /\ path = srv.plan.upload_paths[srv.index + 1] /\ version \in Versions
      /\ srv.conn = Connection => SameFile /\ cli.pc \in {"outcome"} \cup Over
  BY <1>1, UploadRequested, Zenon
<1> HIDE DEF path, version
<1>7. path \in Paths /\ \A k \in 1 .. srv.index : srv.plan.upload_paths[k] # path
  <2>1. /\ srv.plan.upload_paths \in Seq(Paths) /\ StrictlySorted(srv.plan.upload_paths)
        /\ srv.index \in Nat /\ srv.index < Len(srv.plan.upload_paths)
    BY <1>1, <1>2, Zenon DEF DirInv, SessionInv, Fits, Session, Plan, FilesLeft
  <2> QED
    BY <1>6, <2>1, OtherUpload
<1>8. /\ dest' \in Tree /\ commits' \in [Paths -> Nat]
      /\ fallback' \in [Paths -> SUBSET (Versions \cup {NoFile})]
      /\ \A p \in Paths : p # path => fallback'[p] = fallback[p]
  <2>1. dest \in Tree /\ commits \in [Paths -> Nat]
        /\ fallback \in [Paths -> SUBSET (Versions \cup {NoFile})]
    BY <1>1, Zenon DEF Types
  <2>2. dest' \in Tree
    BY <1>1, <1>6, <1>7, <2>1 DEF Replaced, Tree
  <2>3. commits' \in [Paths -> Nat]
    BY <1>1, <1>7, <2>1 DEF Replaced
  <2>4. dest[path] \in Versions \cup {NoFile}
    BY <1>7, <2>1 DEF Tree
  <2>5. /\ fallback' \in [Paths -> SUBSET (Versions \cup {NoFile})]
        /\ \A p \in Paths : p # path => fallback'[p] = fallback[p]
    BY <1>1, <1>7, <2>1, <2>4, Zenon DEF Replaced
  <2> QED
    BY <2>2, <2>3, <2>5, Zenon
<1>9. /\ c2s' \in [Conns -> Queue(Requests)] /\ c2s'[srv.conn] = << >>
      /\ \A c \in Conns : c # srv.conn => c2s'[c] = c2s[c]
  BY <1>1, <1>2, <1>5, EmptyQueue, Zenon DEF Types
<1>10. Types'
  BY <1>1, <1>3, <1>5, <1>8, <1>9, Zenon DEF Types
<1>11. SessionInv'
  <2>1. \A k \in 1 .. srv.index : srv.plan.upload_paths[k] \in Paths
    <3>1. /\ srv.index \in Nat /\ srv.plan.upload_paths \in Seq(Paths)
          /\ srv.index <= Len(srv.plan.upload_paths)
      BY <1>1, <1>2 DEF DirInv, SessionInv, Session, Plan
    <3> QED
      BY <3>1
  <2>2. \A k \in 1 .. srv.index : fallback'[srv.plan.upload_paths[k]] = {}
    BY <1>1, <1>7, <1>8, <2>1, ZenonT(30) DEF DirInv, SessionInv
  <2> QED
    BY <1>1, <1>3, <1>9, <2>2, Zenon DEF DirInv, SessionInv, FilesLeft
<1>12. ClientInv' /\ ScanInv'
  BY DEF DirInv, ClientInv, ScanInv, FindFile
<1>13. Attempts'
  BY <1>1, <1>2, <1>3, <1>5, <1>9 DEF DirInv, Attempts, Serving
<1>14. RequestInv'
  BY <1>1, <1>3, <1>4, <1>9, Zenon DEF DirInv, RequestInv, Serving, Awaited
<1>15. InStep'
  BY <1>1, <1>2, <1>3, <1>4, <1>5, <1>6, <1>9, ZenonT(30)
     DEF DirInv, InStep, Asked, Answer, SameFile, RequestInv, Awaited, Serving, Over
<1>16. SuccessInv'
  BY <1>1, <1>3, <1>5, ZenonT(30) DEF SuccessInv
<1> QED
  BY <1>10, <1>11, <1>12, <1>13, <1>14, <1>15, <1>16 DEF DirInv

LEMMA CommitFileInv ==
    ASSUME DirInv, CommitFile, UNCHANGED <<source, cli, outages>>
    PROVE  DirInv'
<1> DEFINE path == srv.plan.upload_paths[srv.index + 1]
           frame == Outcome("Success")
           next == srv.index + 1
<1>1. /\ srv # NoSync /\ srv.pc = "commit" /\ Types /\ FilesLeft
      /\ fallback' = [fallback EXCEPT ![path] = {}] /\ s2c' = SendOn(s2c, srv.conn, frame)
      /\ srv' = [srv EXCEPT !.pc = "files", !.index = next]
      /\ c2s[srv.conn] = << >> /\ UNCHANGED <<link, c2s, dest, served, commits>>
  BY DEF DirInv, SessionInv, CommitFile, At
<1>2. /\ srv \in Session /\ srv.conn \in Conns /\ Connection \in Conns
      /\ served[srv.conn] = "none" /\ srv.rid = cli.rid
      /\ link[Connection] = "up" /\ srv.conn # Connection => cli.pc # "file"
      /\ srv.conn # Connection => link[srv.conn] # "up"
  BY <1>1, SessionFacts
<1>3. /\ srv.index \in Nat /\ next \in Nat /\ srv.rid \in Nat /\ srv.rid + srv.index + 1 \in Nat
      /\ srv.plan.upload_paths \in Seq(Paths) /\ next <= Len(srv.plan.upload_paths)
      /\ \A k \in 1 .. next : k \in 1 .. srv.index \/ k = next
  BY <1>1, <1>2 DEF Session, Plan, FilesLeft
<1>4. srv.conn = Connection =>
        s2c[Connection] = << >> /\ SameFile /\ cli.pc \in {"outcome"} \cup Over
  BY <1>1 DEF DirInv, InStep, Serving
<1>5. /\ frame \in Replies /\ frame.type = "TransferResult" /\ frame.code = "Success"
      /\ frame.rid = srv.rid + next
  BY <1>3 DEF Outcome, TransferResult, Replies, Codes
<1>6. \A p \in Paths : fallback'[p] = IF p = path THEN {} ELSE fallback[p]
  BY <1>1 DEF Types
<1>7. fallback' \in [Paths -> SUBSET (Versions \cup {NoFile})]
  BY <1>1, Zenon DEF Types
<1>8. \A k \in 1 .. next : fallback'[srv.plan.upload_paths[k]] = {}
  <2>1. \A k \in 1 .. next : srv.plan.upload_paths[k] \in Paths
    BY <1>3
  <2>2. \A k \in 1 .. srv.index : fallback[srv.plan.upload_paths[k]] = {}
    BY <1>1 DEF DirInv, SessionInv
  <2> QED
    BY <1>3, <1>6, <2>1, <2>2, Zenon
<1> HIDE DEF path, frame
<1>9. Connection' = Connection /\ (srv.conn = Connection => next = cli.index + 1)
  BY <1>4, Zenon DEF Connection, SameFile
<1>10. srv.conn = Connection => frame.rid = cli.rid + cli.index + 1
  BY <1>2, <1>3, <1>4, <1>5 DEF SameFile
<1> HIDE DEF next
<1>11. /\ srv' \in Session /\ srv'.conn = srv.conn /\ srv'.rid = srv.rid /\ srv'.pc = "files"
       /\ srv'.source = srv.source /\ srv'.plan = srv.plan /\ srv'.index = next
  BY <1>1, <1>2, <1>3, ZenonT(30) DEF Session
<1>12. srv' # NoSync
  BY <1>11, SyncAssumption
<1>13. /\ s2c' \in [Conns -> Queue(Replies)]
       /\ \A d \in Conns : d # srv.conn => s2c'[d] = s2c[d]
       /\ link[srv.conn] # "up" => s2c' = s2c
       /\ link[srv.conn] = "up" => s2c'[srv.conn] # << >> /\ Head(s2c'[srv.conn]) = frame
  BY <1>1, <1>2, <1>4, <1>5, ReplySent, Zenon
<1>14. Types'
  BY <1>1, <1>7, <1>11, <1>13, Zenon DEF Types
<1>15. SessionInv'
  BY <1>1, <1>3, <1>8, <1>11, Zenon DEF DirInv, SessionInv
<1>16. ClientInv' /\ ScanInv'
  BY DEF DirInv, ClientInv, ScanInv, FindFile
<1>17. Attempts'
  BY <1>1, <1>2, <1>11, <1>13 DEF DirInv, Attempts, Serving, Connection
<1>18. RequestInv'
  BY <1>1, <1>11, <1>12, ZenonT(30) DEF DirInv, RequestInv, Serving, Awaited
<1>19. InStep'
  BY <1>1, <1>2, <1>4, <1>5, <1>9, <1>10, <1>11, <1>12, <1>13
     DEF DirInv, InStep, Asked, Answer, SameFile, RequestInv, Awaited, Serving, Over
<1>20. SuccessInv'
  <2>1. Synced => Synced'
    <3>1. \A p \in Paths : fallback'[p] \subseteq fallback[p]
      BY <1>6
    <3> QED
      BY <1>1, <3>1, SyncedKept DEF DirInv, ClientInv
  <2> QED
    BY <1>1, <1>2, <1>9, <1>11, <2>1 DEF DirInv, SuccessInv
<1> QED
  BY <1>14, <1>15, <1>16, <1>17, <1>18, <1>19, <1>20 DEF DirInv

(* What a worker without a session finds in a queue. *)
LEMMA FirstFrameFacts ==
    ASSUME DirInv, NEW c \in Conns, ~Serving(c), HasFrame(c2s, c)
    PROVE  LET frame == Head(c2s[c]) IN
           /\ frame \in Requests /\ frame.type = "SyncManifest" /\ frame.rid = cli.rid
           /\ frame.tid = 0 /\ frame.decoded = "Success" /\ Manifest(frame.files)
           /\ Consumed(c2s, c) = [c2s EXCEPT ![c] = << >>]
<1> DEFINE frame == Head(c2s[c])
<1>1. c2s[c] \in Queue(Requests) /\ c2s[c] # << >>
  BY DEF DirInv, Types, HasFrame
<1>2. frame \in Requests /\ Tail(c2s[c]) = << >>
  BY <1>1, QueueFacts
<1>3. frame.type = "SyncManifest" /\ frame.rid = cli.rid /\ Manifest(frame.files)
  BY <1>1, Zenon DEF DirInv, RequestInv, Awaited
<1>4. frame.tid = 0 /\ frame.decoded = "Success"
  BY <1>2, <1>3, Zenon DEF Requests
<1> QED
  BY <1>2, <1>3, <1>4, Zenon DEF Consumed

(* A connection is done with before a session begins. *)
LEMMA NoSessionInv ==
    ASSUME DirInv, NEW c \in Conns, ~Serving(c), served[c] = "none",
           link[c] = "down" \/ c2s[c] # << >>,
           NEW status \in Statuses, status # "none", status # "Success",
           served' = [served EXCEPT ![c] = status], c2s' = [c2s EXCEPT ![c] = << >>],
           UNCHANGED <<link, s2c, srv, dest, fallback, commits, source, cli, outages>>
    PROVE  DirInv'
<1>1. Types /\ Connection \in Conns /\ Connection' = Connection
  BY Zenon DEF DirInv, Types, Client, Connection
<1>2. /\ c2s' \in [Conns -> Queue(Requests)] /\ c2s'[c] = << >>
      /\ \A d \in Conns : d # c => c2s'[d] = c2s[d] /\ served'[d] = served[d]
      /\ served' \in [Conns -> Statuses] /\ served'[c] = status
  BY <1>1, EmptyQueue DEF Types
<1>3. Types'
  BY <1>1, <1>2, Zenon DEF Types
<1>4. SessionInv'
  BY <1>1, <1>2, ZenonT(30) DEF DirInv, SessionInv, FilesLeft, Serving, Types, Session
<1>5. ClientInv' /\ ScanInv'
  BY Zenon DEF DirInv, ClientInv, ScanInv, FindFile
<1>6. Attempts'
  BY <1>2, ZenonT(30) DEF DirInv, Attempts, Serving
<1>7. RequestInv'
  BY <1>2, ZenonT(30) DEF DirInv, RequestInv, Serving, Awaited, FilesLeft, IsPlanned
<1>8. InStep'
  <2>1. c = Connection => ~(link[c] = "up" /\ cli.pc \in {"scan", "checksum"})
    BY ClientTurn, ZenonT(30)
  <2> QED
    BY <1>1, <1>2, <2>1, ZenonT(30) DEF DirInv, InStep, Asked, Answer, SameFile, Serving, Over
<1>9. SuccessInv'
  <2>1. srv # NoSync => srv.conn # c /\ srv.conn \in Conns
    BY SessionFacts, Zenon DEF Serving
  <2>2. Synced => Synced'
    BY SyncedKept, Zenon DEF DirInv, ClientInv
  <2> QED
    BY <1>1, <1>2, <2>1, <2>2, Zenon DEF DirInv, SuccessInv
<1> QED
  BY <1>3, <1>4, <1>5, <1>6, <1>7, <1>8, <1>9, Zenon DEF DirInv

LEMMA RefuseFirstFrameInv ==
    ASSUME DirInv, NEW c \in Conns, RefuseFirstFrame(c), UNCHANGED <<source, cli, outages>>
    PROVE  DirInv'
<1>1. /\ Types /\ served[c] = "none" /\ ~Serving(c)
      /\ UNCHANGED <<link, s2c, srv, dest, fallback, commits>>
  BY DEF DirInv, RefuseFirstFrame, diskVars
<1>2. RecvFails(c2s, c) /\ UNCHANGED c2s /\ served' = [served EXCEPT ![c] = "FrameIoError"]
  BY <1>1, FirstFrameFacts, Zenon DEF RefuseFirstFrame
<1>3. link[c] = "down" /\ c2s[c] = << >>
  BY <1>2 DEF RecvFails
<1>4. c2s' = [c2s EXCEPT ![c] = << >>]
  BY <1>1, <1>2, <1>3, StaysEmpty, Zenon
<1>5. "FrameIoError" \in Statuses /\ "FrameIoError" # "none" /\ "FrameIoError" # "Success"
  BY DEF Statuses
<1> QED
  BY <1>1, <1>2, <1>3, <1>4, <1>5, NoSessionInv, Zenon

LEMMA StartSyncInv ==
    ASSUME DirInv, NEW c \in Conns, StartSync(c), UNCHANGED <<source, cli, outages>>
    PROVE  DirInv'
<1> DEFINE frame == Head(c2s[c])
           plan == PlanOf(frame.files, ScanDirectory(dest))
<1>1. /\ Types /\ srv = NoSync /\ ~Serving(c) /\ served[c] = "none" /\ HasFrame(c2s, c)
      /\ c2s' = Consumed(c2s, c) /\ UNCHANGED <<link, s2c, dest, fallback, commits>>
  BY ZenonT(30) DEF DirInv, StartSync, Serving, diskVars
<1>2. /\ frame \in Requests /\ frame.type = "SyncManifest" /\ frame.rid = cli.rid
      /\ frame.tid = 0 /\ frame.decoded = "Success" /\ Manifest(frame.files)
      /\ c2s' = [c2s EXCEPT ![c] = << >>]
  BY <1>1, FirstFrameFacts, ZenonT(30)
<1>3. c2s[c] # << >> /\ cli.rid \in Nat /\ cli.rid # 0
  BY <1>1, Zenon DEF DirInv, ClientInv, Types, Client, HasFrame
<1>4. PICK status \in StartStatus(frame, plan) :
        IF status # "Success"
        THEN served' = [served EXCEPT ![c] = status] /\ UNCHANGED srv
        ELSE /\ srv' = [conn |-> c, rid |-> frame.rid, pc |-> "plan",
                        source |-> frame.files, plan |-> plan, index |-> 0]
             /\ UNCHANGED served
  BY Zenon DEF StartSync
<1> HIDE DEF frame, plan
<1>5. /\ status \in {"Success", "InvalidRequestId", "ScanError", "FileIoError"}
      /\ status = "Success" => IdsSuffice(plan, frame.rid)
  BY <1>2, <1>3, <1>4, Zenon DEF StartStatus
<1>6. CASE status # "Success"
  <2>1. status \in Statuses /\ status # "none"
    BY <1>5, <1>6, Zenon DEF Statuses
  <2> QED
    BY <1>1, <1>2, <1>3, <1>4, <1>6, <2>1, NoSessionInv, Zenon
<1>7. CASE status = "Success"
  <2>1. /\ srv' = [conn |-> c, rid |-> frame.rid, pc |-> "plan", source |-> frame.files,
                   plan |-> plan, index |-> 0]
        /\ UNCHANGED served /\ IdsSuffice(plan, frame.rid)
    BY <1>4, <1>5, <1>7, Zenon
  <2>2. plan \in Plan /\ Fits(plan, frame.files, frame.rid)
    <3>1. dest \in Tree
      BY <1>1, SMTT(30) DEF Types
    <3>2. CallsFor(plan, frame.files, RecordsOf(dest))
      BY <1>2, <3>1, ScanFacts, PlanForScan, ZenonT(30) DEF plan
    <3> QED
      BY <2>1, <3>2, Zenon DEF CallsFor, Fits
  <2>3. /\ srv' \in Session /\ srv'.conn = c /\ srv'.rid = frame.rid /\ srv'.pc = "plan"
        /\ srv'.source = frame.files /\ srv'.plan = plan /\ srv'.index = 0
    BY <1>2, <1>3, <2>1, <2>2, ZenonT(30) DEF Session, Manifest
  <2>4. srv' # NoSync /\ Connection' = Connection /\ Connection \in Conns
    BY <1>1, <2>3, SyncAssumption, ZenonT(30) DEF Connection, Types, Client
  <2>5. /\ c2s' \in [Conns -> Queue(Requests)] /\ c2s'[c] = << >>
        /\ \A d \in Conns : d # c => c2s'[d] = c2s[d]
    BY <1>1, <1>2, EmptyQueue, ZenonT(30) DEF Types
  <2>6. Types'
    BY <1>1, <2>1, <2>3, <2>5, ZenonT(30) DEF Types
  <2>7. SessionInv'
    <3>1. Len(plan.upload_paths) \in Nat
      BY <2>2 DEF Plan
    <3>2. 0 <= Len(plan.upload_paths) /\ 1 .. 0 = {}
      BY <3>1
    <3> QED
      BY <1>1, <1>2, <1>3, <2>1, <2>2, <2>3, <2>5, <3>2, Zenon DEF SessionInv
  <2>8. ClientInv' /\ ScanInv'
    BY Zenon DEF DirInv, ClientInv, ScanInv, FindFile
  <2>9. Attempts'
    BY <1>1, <1>3, <2>1, <2>3, <2>5, ZenonT(30) DEF DirInv, Attempts, Serving
  <2>10. RequestInv'
    BY <1>1, <2>1, <2>3, <2>5, ZenonT(30) DEF DirInv, RequestInv, Serving, Awaited
  <2>11. InStep'
    <3>1. c = Connection => /\ s2c[Connection] = << >> /\ frame.files = cli.manifest
                            /\ cli.pc \in {"plan"} \cup Over
      BY <1>2, <1>3, ZenonT(30) DEF DirInv, InStep, Asked, frame
    <3> QED
      BY <1>1, <2>1, <2>3, <2>4, <2>5, <3>1, ZenonT(30)
         DEF DirInv, InStep, Asked, Answer, RequestInv, Awaited, Serving, Over
  <2>12. SuccessInv'
    BY <1>1, <2>1, <2>3, <2>4, <2>5, ZenonT(30) DEF DirInv, SuccessInv, Synced
  <2> QED
    BY <2>6, <2>7, <2>8, <2>9, <2>10, <2>11, <2>12, Zenon DEF DirInv
<1> QED
  BY <1>6, <1>7, SMTT(30)
-----------------------------------------------------------------------------
(* A connection comes down; each queue keeps its frame or loses it. *)
LEMMA LinkLostInv ==
    ASSUME DirInv, NEW c \in Conns, link[c] = "up", link' = [link EXCEPT ![c] = "down"],
           NEW toServer, toServer = << >> \/ toServer = c2s[c],
           NEW toClient, toClient = << >> \/ toClient = s2c[c],
           c2s' = [c2s EXCEPT ![c] = toServer], s2c' = [s2c EXCEPT ![c] = toClient],
           UNCHANGED serverVars, UNCHANGED <<source, cli, outages>>
    PROVE  DirInv'
<1>1. Types /\ Connection \in Conns /\ Connection' = Connection
  BY ZenonT(30) DEF DirInv, Types, Client, Connection
<1>2. /\ c2s' \in [Conns -> Queue(Requests)] /\ s2c' \in [Conns -> Queue(Replies)]
      /\ link' \in [Conns -> {"closed", "up", "down"}]
      /\ \A d \in Conns : c2s'[d] = c2s[d] \/ c2s'[d] = << >>
      /\ \A d \in Conns : s2c'[d] = s2c[d] \/ s2c'[d] = << >>
      /\ \A d \in Conns : link'[d] = link[d] \/ link'[d] = "down"
      /\ \A d \in Conns : d # c => link'[d] = link[d]
  BY <1>1, EmptyQueue, ZenonT(30) DEF Types
<1>3. Types'
  BY <1>1, <1>2, SMTT(30) DEF Types, serverVars
<1>4. SessionInv'
  BY <1>1, <1>2, ZenonT(30) DEF DirInv, SessionInv, FilesLeft, serverVars, Types, Session
<1>5. ClientInv' /\ ScanInv'
  BY ZenonT(30) DEF DirInv, ClientInv, ScanInv, FindFile
<1>6. Attempts'
  BY <1>2, SMTT(30) DEF DirInv, Attempts, Serving, serverVars
<1>7. ASSUME NEW d \in Conns
      PROVE  /\ c2s'[d] # << >> => Awaited(d, Head(c2s[d]))'
             /\ served'[d] # "none" => c2s'[d] = << >>
  <2>1. CASE c2s'[d] = c2s[d]
    BY <2>1, Zenon DEF DirInv, RequestInv, Serving, Awaited, FilesLeft, IsPlanned, serverVars
  <2> QED
    BY <1>2, <2>1, Zenon
<1>8. InStep'
  BY <1>1, <1>2, ZenonT(30) DEF DirInv, InStep, Asked, Answer, SameFile, Serving, serverVars
<1>9. SuccessInv'
  <2>1. srv # NoSync => srv.conn \in Conns
    BY <1>1, Zenon DEF Types, Session
  <2>2. Synced => Synced'
    BY SyncedKept, Zenon DEF DirInv, ClientInv, serverVars
  <2> QED
    BY <1>1, <1>2, <2>1, <2>2, Zenon DEF DirInv, SuccessInv, serverVars
<1> QED
  BY <1>3, <1>4, <1>5, <1>6, <1>7, <1>8, <1>9, ZenonT(30) DEF DirInv, RequestInv

LEMMA BreakInv ==
    ASSUME DirInv, NEW c \in Conns, Break(c), UNCHANGED serverVars, UNCHANGED <<source, cli, outages>>
    PROVE  DirInv'
<1>1. c2s[c] \in Queue(Requests) /\ s2c[c] \in Queue(Replies)
  BY DEF DirInv, Types
<1>2. PICK toServer \in Survivors(c2s[c]), toClient \in Survivors(s2c[c]) :
        c2s' = [c2s EXCEPT ![c] = toServer] /\ s2c' = [s2c EXCEPT ![c] = toClient]
  BY Zenon DEF Break
<1>3. (toServer = << >> \/ toServer = c2s[c]) /\ (toClient = << >> \/ toClient = s2c[c])
  BY <1>1, QueueFacts, Zenon
<1>4. link[c] = "up" /\ link' = [link EXCEPT ![c] = "down"]
  BY DEF Break
<1> QED
  BY <1>2, <1>3, <1>4, LinkLostInv, Zenon

LEMMA CloseServedInv ==
    ASSUME DirInv, NEW c \in Conns, CloseServed(c), UNCHANGED <<source, cli, outages>>
    PROVE  DirInv'
<1>1. c2s[c] \in Queue(Requests) /\ s2c[c] \in Queue(Replies)
  BY DEF DirInv, Types
<1>2. link[c] = "up" /\ ServerEndClosed(c) /\ UNCHANGED serverVars
  BY DEF CloseServed
<1>3. link' = [link EXCEPT ![c] = "down"] /\ c2s' = [c2s EXCEPT ![c] = << >>]
  BY <1>2 DEF ServerEndClosed
<1>4. PICK toClient \in Remainder(c2s[c], s2c[c]) : s2c' = [s2c EXCEPT ![c] = toClient]
  BY <1>2 DEF ServerEndClosed
<1>5. toClient = << >> \/ toClient = s2c[c]
  BY <1>1, <1>4, QueueFacts DEF Remainder
<1> QED
  BY <1>2, <1>3, <1>4, <1>5, LinkLostInv, Zenon

(* The server process is gone.  Its disk is as it was, or a power failure   *)
(* took what was not synchronised.                                          *)
LEMMA ProcessLostInv ==
    ASSUME DirInv, ProcessLost, UNCHANGED <<source, cli, commits>>, dest' \in Tree,
           fallback' \in [Paths -> SUBSET (Versions \cup {NoFile})], outages' \in Nat,
           Synced => Synced'
    PROVE  DirInv'
<1>1. Types /\ Connection \in Conns /\ Connection' = Connection /\ srv' = NoSync
  BY ZenonT(30) DEF DirInv, Types, Client, Connection, ProcessLost
<1>2. /\ c2s' \in [Conns -> Queue(Requests)] /\ \A c \in Conns : c2s'[c] = << >>
  BY EmptyQueue DEF ProcessLost
<1>3. /\ link' \in [Conns -> {"closed", "up", "down"}]
      /\ \A c \in Conns : link'[c] # "up" /\ (link[c] = "closed" => link'[c] = "closed")
  BY <1>1 DEF ProcessLost, Types
<1>4. /\ s2c' \in [Conns -> Queue(Replies)]
      /\ \A c \in Conns : s2c'[c] = s2c[c] \/ s2c'[c] = << >>
  <2>1. PICK lost : s2c' = [c \in Conns |-> IF c \in lost THEN << >> ELSE s2c[c]]
    BY DEF ProcessLost
  <2> QED
    BY <1>1, <2>1, EmptyQueue, Zenon DEF Types
<1>5. /\ served' \in [Conns -> Statuses]
      /\ \A c \in Conns : /\ served[c] # "none" => served'[c] = served[c]
                          /\ link[c] = "closed" => served'[c] = served[c]
                          /\ served'[c] = "Success" => served[c] = "Success"
  <2>1. /\ served' = [c \in Conns |-> IF link[c] # "closed" /\ served[c] = "none"
                                      THEN "Killed" ELSE served[c]]
        /\ served \in [Conns -> Statuses] /\ "Killed" \in Statuses
    BY <1>1, Zenon DEF ProcessLost, Types, Statuses
  <2> QED
    BY <2>1, ZenonT(30)
<1>6. Types'
  BY <1>1, <1>2, <1>3, <1>4, <1>5, ZenonT(30) DEF Types
<1>7. SessionInv' /\ ClientInv' /\ ScanInv'
  BY <1>1, ZenonT(30) DEF DirInv, SessionInv, ClientInv, ScanInv, FindFile
<1>8. Attempts'
  BY <1>1, <1>2, <1>3, <1>4, <1>5, Zenon DEF DirInv, Attempts, Serving
<1>9. RequestInv'
  BY <1>2, SMTT(30) DEF RequestInv
<1>10. InStep'
  BY <1>1, <1>2, <1>3, <1>4, <1>5, ZenonT(30) DEF DirInv, InStep, Answer, Serving
<1>11. SuccessInv'
  BY <1>1, <1>5, ZenonT(30) DEF DirInv, SuccessInv
<1> QED
  BY <1>6, <1>7, <1>8, <1>9, <1>10, <1>11, ZenonT(30) DEF DirInv

LEMMA PowerFailureInv ==
    ASSUME DirInv, PowerFailure, UNCHANGED clientVars, outages' = outages + 1
    PROVE  DirInv'
<1>1. /\ ProcessLost /\ UNCHANGED <<source, cli, commits>> /\ dest' \in Tree
      /\ \A p \in Paths : dest'[p] \in fallback[p] \cup {dest[p]}
      /\ fallback' = [p \in Paths |-> {}]
  BY Zenon DEF PowerFailure, clientVars
<1>2. fallback' \in [Paths -> SUBSET (Versions \cup {NoFile})] /\ \A p \in Paths : fallback'[p] = {}
  BY <1>1
<1>3. outages \in Nat
  BY DEF DirInv, Types
<1>4. outages' \in Nat /\ outages' # 0
  BY <1>3, SMTT(30)
<1>5. Synced => Synced'
  <2>1. \A i \in 1 .. Len(cli.manifest) : cli.manifest[i].path \in Paths
    BY ManifestFacts, Zenon DEF DirInv, ClientInv
  <2>2. \A i \in 1 .. Len(cli.manifest) :
          LET path == cli.manifest[i].path
          IN  fallback'[path] = {} /\ dest'[path] \in fallback[path] \cup {dest[path]}
    BY <1>1, <1>2, <2>1, Zenon
  <2>3. ASSUME Synced, NEW i \in 1 .. Len(cli.manifest),
               cli.manifest[i].path \in Range(cli.upload_paths),
               NEW version \in fallback'[cli.manifest[i].path] \cup {dest'[cli.manifest[i].path]}
        PROVE  Describes(cli.manifest[i], version)
    BY <2>2, <2>3, Zenon DEF Synced
  <2> QED
    BY <1>1, <1>4, <2>3, Zenon DEF Synced
<1> QED
  BY <1>1, <1>2, <1>4, <1>5, ProcessLostInv, Zenon

LEMMA KillServerInv ==
    ASSUME DirInv, KillServer, UNCHANGED clientVars, UNCHANGED outages
    PROVE  DirInv'
<1>1. ProcessLost /\ UNCHANGED <<source, cli, commits, dest, fallback, outages>>
  BY DEF KillServer, clientVars, diskVars
<1>2. /\ dest' \in Tree /\ fallback' \in [Paths -> SUBSET (Versions \cup {NoFile})]
      /\ outages' \in Nat
  BY <1>1 DEF DirInv, Types
<1>3. Synced => Synced'
  BY <1>1, Zenon DEF Synced
<1> QED
  BY <1>1, <1>2, <1>3, ProcessLostInv

(* The source changes, or nothing does. *)
LEMMA SourceChangesInv ==
    ASSUME DirInv, source' \in Tree,
           UNCHANGED serverVars, UNCHANGED wireVars, UNCHANGED <<cli, outages>>
    PROVE  DirInv'
<1>1. Types'
  BY SMTT(30) DEF DirInv, Types, serverVars, wireVars
<1>2. SessionInv' /\ ClientInv' /\ ScanInv'
  BY ZenonT(30) DEF DirInv, SessionInv, ClientInv, ScanInv, FindFile, FilesLeft, serverVars, wireVars
<1>3. Attempts' /\ RequestInv'
  BY ZenonT(30) DEF DirInv, Attempts, RequestInv, Serving, Awaited, FilesLeft, IsPlanned, serverVars, wireVars
<1>4. InStep'
  BY ZenonT(30) DEF DirInv, InStep, Asked, Answer, SameFile, Serving, Connection, serverVars, wireVars
<1>5. SuccessInv'
  BY Zenon DEF DirInv, SuccessInv, Synced, Connection, serverVars, wireVars
<1> QED
  BY <1>1, <1>2, <1>3, <1>4, <1>5, Zenon DEF DirInv

LEMMA ServerRunsInv ==
    ASSUME DirInv, ServerRuns
    PROVE  DirInv'
<1>1. ServerStep(Mismatch) /\ UNCHANGED <<source, cli, outages>>
  BY DEF ServerRuns
<1>2. ~RejectUnplanned
  <2>1. RejectUnplanned => srv # NoSync /\ FilesLeft /\ ServerReceives /\ ~IsPlanned(Incoming)
    BY DEF RejectUnplanned, At
  <2> QED
    BY <2>1, UploadRequested
<1>3. CASE SessionStep(Mismatch)
  BY <1>1, <1>2, <1>3, SendPlanInv, SessionLostInv, RenameFileInv, CommitFileInv,
     ReceiveFileFailsInv, CommitFileFailsInv, VerifyDestinationInv, Zenon DEF SessionStep
<1>4. CASE \E c \in Conns : RefuseFirstFrame(c) \/ StartSync(c) \/ CloseServed(c)
  BY <1>1, <1>4, RefuseFirstFrameInv, StartSyncInv, CloseServedInv, Zenon
<1> QED
  BY <1>1, <1>3, <1>4 DEF ServerStep

LEMMA FaultInv ==
    ASSUME DirInv, Fault
    PROVE  DirInv'
<1>1. CASE ConnectFails /\ UNCHANGED serverVars /\ UNCHANGED outages
  <2>1. Ends("FrameIoError") /\ UNCHANGED source /\ UNCHANGED wireVars
    BY <1>1 DEF ConnectFails
  <2> QED
    BY <1>1, <2>1, ClientFailsInv, Zenon
<1>2. CASE (\E c \in Conns : Break(c)) /\ UNCHANGED serverVars /\ UNCHANGED clientVars /\ UNCHANGED outages
  <2>1. UNCHANGED <<source, cli, outages>>
    BY <1>2 DEF clientVars
  <2> QED
    BY <1>2, <2>1, BreakInv, Zenon
<1>3. CASE KillServer /\ UNCHANGED clientVars /\ UNCHANGED outages
  BY <1>3, KillServerInv
<1>4. CASE PowerFailure /\ UNCHANGED clientVars /\ outages' = outages + 1
  BY <1>4, PowerFailureInv
<1> QED
  BY <1>1, <1>2, <1>3, <1>4, Zenon DEF Fault

LEMMA DirInvInit ==
    ASSUME Init
    PROVE  DirInv
<1>1. PICK rid \in Rids :
        cli = [pc |-> "connect", attempt |-> 0, rid |-> rid, left |-> {}, scanned |-> {},
               manifest |-> << >>, upload_paths |-> << >>, index |-> 0, status |-> "none"]
  BY Zenon DEF Init, ClientInit
<1>2. /\ rid \in Nat /\ rid # 0 /\ 0 \in Conns /\ InitSource \subseteq Tree /\ InitDest \subseteq Tree
      /\ \A c \in Conns : c \in Nat
  BY ClientAssumption, SyncAssumption
<1>3. << >> \in Seq(FileRecord) /\ << >> \in Seq(Paths) /\ "none" \in Statuses
  BY DEF Statuses
<1>4. /\ cli \in Client /\ cli.pc = "connect" /\ cli.attempt = 0 /\ cli.rid = rid
      /\ cli.manifest = << >> /\ cli.index = 0 /\ cli.status = "none"
  BY <1>1, <1>2, <1>3, Zenon DEF Client
<1>5. /\ link = [c \in Conns |-> "closed"] /\ c2s = [c \in Conns |-> << >>]
      /\ s2c = [c \in Conns |-> << >>] /\ srv = NoSync /\ served = [c \in Conns |-> "none"]
  BY DEF Init, WireInit, ServerInit
<1>6. Types
  <2>1. source \in Tree /\ dest \in Tree /\ fallback = [p \in Paths |-> {}]
        /\ commits = [p \in Paths |-> 0] /\ outages = 0
    BY <1>2, SMTT(30) DEF Init, ClientInit, ServerInit
  <2> QED
    BY <1>3, <1>4, <1>5, <2>1, EmptyQueue, ZenonT(30) DEF Types
<1>7. SessionInv /\ RequestInv
  BY <1>5, Zenon DEF SessionInv, RequestInv
<1>8. ClientInv /\ ScanInv
  BY <1>2, <1>3, <1>4 DEF ClientInv, ScanInv, Manifest, StrictlySorted, PathsOf
<1>9. Attempts
  BY <1>2, <1>4, <1>5, ZenonT(30) DEF Attempts, Serving
<1>10. InStep /\ SuccessInv
  BY <1>2, <1>4, <1>5, Zenon DEF InStep, SuccessInv, Serving, Connection
<1> QED
  BY <1>6, <1>7, <1>8, <1>9, <1>10, ZenonT(30) DEF DirInv

LEMMA DirInvNext ==
    ASSUME DirInv, [Next]_vars
    PROVE  DirInv'
<1>1. CASE SourceChanges
  <2>1. source \in Tree
    BY DEF DirInv, Types
  <2>2. source' \in Tree
    BY <1>1, <2>1, Zenon DEF SourceChanges, Tree
  <2> QED
    BY <1>1, <2>2, SourceChangesInv, Zenon DEF SourceChanges
<1>2. CASE UNCHANGED vars
  <2>1. source' \in Tree
    BY <1>2 DEF DirInv, Types, vars
  <2> QED
    BY <1>2, <2>1, SourceChangesInv, Zenon DEF vars, serverVars, wireVars
<1> QED
  BY <1>1, <1>2, ServerRunsInv, ClientRunsInv, FaultInv, Zenon DEF Next

LEMMA DirInvAlways ==
    Spec => []DirInv
<1>1. Init => DirInv
  BY DirInvInit
<1>2. DirInv /\ [Next]_vars => DirInv'
  BY DirInvNext
<1> QED
  BY <1>1, <1>2, PTL DEF Spec
-----------------------------------------------------------------------------
(* sync_directory and receive_directory_sync agree: through lost frames,    *)
(* retries, late sessions of earlier attempts, restarts of the server and   *)
(* changes of the source, neither ever rejects a frame of the other as      *)
(* unplanned, of the wrong type or of another request.                      *)
THEOREM InStepAlways ==
    Spec => []NeverOutOfStep
<1>1. DirInv => NeverOutOfStep
  <2>1. SUFFICES ASSUME DirInv
                 PROVE  NeverOutOfStep
    OBVIOUS
  <2>2. cli.status \in Statuses /\ \A c \in Conns : served[c] \in Statuses
    BY <2>1 DEF DirInv, Types, Client
  <2>3. \A status \in Statuses : status \notin Disagreement
    BY DEF Statuses, Disagreement
  <2> QED
    BY <2>2, <2>3, Zenon DEF NeverOutOfStep
<1> QED
  BY <1>1, DirInvAlways, PTL

(* A sync command that reports success has left every file of its manifest  *)
(* in the destination with the size and checksum it had read; what it       *)
(* uploaded survives even a power failure.                                  *)
THEOREM SuccessIsSynced ==
    Spec => []SuccessMeansSynced
<1>1. DirInv => SuccessMeansSynced
  BY Zenon DEF DirInv, SuccessInv, Synced, SuccessMeansSynced
<1> QED
  BY <1>1, DirInvAlways, PTL
-----------------------------------------------------------------------------
(* A tree that does not change.                                             *)

(* What the scan has read so far is still so. *)
AsRead(file) ==
    /\ source[file.path] # NoFile /\ file.size = SizeOf(source[file.path])
    /\ file \in FileRecord => file.checksum = ChecksumOf(source[file.path])

Current(files) ==
    \A i \in 1 .. Len(files) : Describes(files[i], source[files[i].path])

Carries(frame) ==
    /\ frame.type = "SyncManifest" => Current(frame.files)
    /\ frame.type = "UploadRequest" => frame.version = source[frame.path]

SourceInv ==
    /\ changes = 0
    /\ \A file \in cli.scanned : AsRead(file)
    /\ Current(cli.manifest)
    /\ \A c \in Conns : c2s[c] # << >> => Carries(Head(c2s[c]))

(* Under the mutex, what a session has still to receive stays outdated.     *)
AheadInv ==
    srv # NoSync =>
        \A k \in 1 .. Len(srv.plan.upload_paths) :
            k > (IF srv.pc = "commit" THEN srv.index + 1 ELSE srv.index) =>
                dest[srv.plan.upload_paths[k]] # source[srv.plan.upload_paths[k]]

(* A file is not committed, or it is as in the source. *)
OnceInv ==
    outages = 0 => \A p \in Paths : commits[p] = 0 \/ (commits[p] = 1 /\ dest[p] = source[p])

LEMMA SourceStays ==
    ASSUME MaxChanges = 0, changes = 0, [Next]_vars
    PROVE  UNCHANGED <<source, changes>>
<1>1. ~SourceChanges
  BY DEF SourceChanges
<1>2. CASE ClientRuns
  <2>1. UNCHANGED source
    BY <1>2, Zenon DEF ClientRuns, ClientStep, Connect, ScanFile, ChecksumFile, SendManifest,
         ScanFails, RecvPlan, SendNextFile, RecvOutcome, SendSyncComplete, RecvSyncResult,
         ClientIoFails, CloseAttempt, ClientReceives, ClientSends
  <2> QED
    BY <1>2, <2>1 DEF ClientRuns
<1>3. CASE ServerRuns
  BY <1>3 DEF ServerRuns
<1>4. CASE Fault
  BY <1>4 DEF Fault, ConnectFails, clientVars
<1>5. CASE UNCHANGED vars
  BY <1>5 DEF vars
<1> QED
  BY <1>1, <1>2, <1>3, <1>4, <1>5, Zenon DEF Next

(* Nothing new is read or sent. *)
LEMMA NothingReadInv ==
    ASSUME DirInv, SourceInv, UNCHANGED <<source, changes>>,
           cli'.scanned \in {cli.scanned, {}}, cli'.manifest \in {cli.manifest, << >>},
           \A c \in Conns : c2s'[c] = c2s[c] \/ c2s'[c] = << >>
    PROVE  SourceInv'
<1>1. \A file \in cli'.scanned : AsRead(file)'
  BY ZenonT(30) DEF SourceInv, AsRead
<1>2. Current(cli.manifest)'
  <2>1. CASE cli'.manifest = cli.manifest
    BY <2>1, Zenon DEF SourceInv, Current
  <2>2. CASE cli'.manifest = << >>
    <3>1. 1 .. Len(<< >>) = {}
      OBVIOUS
    <3> QED
      BY <2>2, <3>1, Zenon DEF Current
  <2> QED
    BY <2>1, <2>2, Zenon
<1>3. ASSUME NEW c \in Conns, c2s'[c] # << >>
      PROVE  Carries(Head(c2s[c]))'
  <2>1. c2s'[c] = c2s[c] /\ Carries(Head(c2s[c]))
    BY <1>3, Zenon DEF SourceInv
  <2> QED
    BY <2>1, Zenon DEF Carries, Current
<1> QED
  BY <1>1, <1>2, <1>3, Zenon DEF SourceInv

(* No step of the server, and no fault, brings a request. *)
LEMMA RequestsOnlyTaken ==
    ASSUME DirInv, ServerRuns \/ Fault
    PROVE  \A c \in Conns : c2s'[c] = c2s[c] \/ c2s'[c] = << >>
<1>1. c2s \in [Conns -> Queue(Requests)]
  BY DEF DirInv, Types
<1>2. ASSUME NEW d \in Conns, HasFrame(c2s, d), c2s' = Consumed(c2s, d)
      PROVE  \A c \in Conns : c2s'[c] = c2s[c] \/ c2s'[c] = << >>
  <2>1. c2s[d] \in Queue(Requests) /\ c2s[d] # << >>
    BY <1>1, <1>2 DEF HasFrame
  <2>2. Tail(c2s[d]) = << >>
    BY <2>1, QueueFacts, Zenon
  <2> QED
    BY <1>1, <1>2, <2>2, Zenon DEF Consumed
<1>3. CASE SessionStep(Mismatch)
  <2>1. srv # NoSync
    BY <1>3, Zenon DEF SessionStep, SendPlan, SendPlanFails, RejectUnplanned, RenameFile,
         CommitFile, ReceiveFileFails, CommitFileFails, VerifyDestination, RecvInterrupted, At
  <2>2. srv.conn \in Conns
    BY <2>1, SessionFacts, Zenon
  <2>3. UNCHANGED c2s \/ (HasFrame(c2s, srv.conn) /\ c2s' = Consumed(c2s, srv.conn))
    BY <1>3 DEF SessionStep, SendPlan, SendPlanFails, RejectUnplanned, RenameFile, CommitFile,
         ReceiveFileFails, CommitFileFails, VerifyDestination, RecvInterrupted, ServerReceives,
         wireVars
  <2> QED
    BY <1>2, <2>2, <2>3, Zenon
<1>4. CASE \E c \in Conns : RefuseFirstFrame(c) \/ StartSync(c)
  <2>1. PICK d \in Conns : UNCHANGED c2s \/ (HasFrame(c2s, d) /\ c2s' = Consumed(c2s, d))
    BY <1>4, Zenon DEF RefuseFirstFrame, StartSync
  <2> QED
    BY <1>2, <2>1, Zenon
<1>5. CASE \E c \in Conns : CloseServed(c)
  BY <1>1, <1>5, Zenon DEF CloseServed, ServerEndClosed
<1>6. CASE \E c \in Conns : Break(c)
  <2>1. PICK d \in Conns : Break(d)
    BY <1>6
  <2>2. PICK rest \in Survivors(c2s[d]) : c2s' = [c2s EXCEPT ![d] = rest]
    BY <2>1, Zenon DEF Break
  <2>3. rest = << >> \/ rest = c2s[d]
    BY <1>1, <2>2, QueueFacts
  <2> QED
    BY <1>1, <2>2, <2>3, Zenon
<1>7. CASE ProcessLost
  BY <1>7, Zenon DEF ProcessLost
<1>8. CASE ConnectFails
  BY <1>8 DEF ConnectFails, wireVars
<1>9. CASE ServerRuns
  BY <1>3, <1>4, <1>5, <1>9, Zenon DEF ServerRuns, ServerStep
<1>10. CASE Fault
  BY <1>6, <1>7, <1>8, <1>10, Zenon DEF Fault, KillServer, PowerFailure
<1> QED
  BY <1>9, <1>10, Zenon

(* What the client reads it reads from the source; what it sends is that. *)
LEMMA SourceInvClient ==
    ASSUME DirInv, DirInv', SourceInv, ClientRuns, UNCHANGED <<source, changes>>
    PROVE  SourceInv'
<1>1. Types /\ cli \in Client /\ source \in Tree /\ c2s \in [Conns -> Queue(Requests)]
  BY Zenon DEF DirInv, Types
<1>2. Connection \in Conns
  BY <1>1 DEF Client, Connection
<1>3. ASSUME UNCHANGED c2s, cli'.scanned = cli.scanned, cli'.manifest = cli.manifest
      PROVE  SourceInv'
  BY <1>3, NothingReadInv
<1>4. ASSUME NEW status, Ends(status)
      PROVE  cli'.scanned = cli.scanned /\ cli'.manifest = cli.manifest
  BY <1>1, <1>4, Zenon DEF Ends, Client
<1>5. CASE Connect
  <2>1. UNCHANGED c2s /\ cli'.scanned = {} /\ cli'.manifest = cli.manifest
    BY <1>1, <1>5 DEF Connect, Opened, Client
  <2> QED
    BY <2>1, NothingReadInv
<1>6. CASE ScanFails \/ ClientIoFails \/ RecvSyncResult
  <2>1. UNCHANGED c2s /\ \E status : Ends(status)
    BY <1>6, ZenonT(30) DEF ScanFails, ClientIoFails, RecvSyncResult, ClientReceives, wireVars
  <2> QED
    BY <1>3, <1>4, <2>1, ZenonT(30)
<1>7. CASE RecvPlan \/ RecvOutcome
  <2>1. UNCHANGED c2s
    BY <1>7 DEF RecvPlan, RecvOutcome, ClientReceives
  <2>2. \/ \E status : Ends(status)
        \/ \E paths : cli' = [cli EXCEPT !.pc = "file", !.upload_paths = paths]
        \/ \E index : cli' = [cli EXCEPT !.pc = "file", !.index = index]
    BY <1>7, ZenonT(30) DEF RecvPlan, RecvOutcome
  <2>3. cli'.scanned = cli.scanned /\ cli'.manifest = cli.manifest
    BY <1>1, <1>4, <2>2, ZenonT(30) DEF Client
  <2> QED
    BY <1>3, <2>1, <2>3
<1>8. CASE CloseAttempt
  <2>1. \A c \in Conns : c2s'[c] = c2s[c] \/ c2s'[c] = << >>
    <3>1. CASE link[Connection] # "up"
      BY <1>8, <3>1 DEF CloseAttempt, ClientEndClosed
    <3>2. CASE link[Connection] = "up"
      <4>1. PICK rest \in Remainder(s2c[Connection], c2s[Connection]) :
              c2s' = [c2s EXCEPT ![Connection] = rest]
        BY <1>8, <3>2 DEF CloseAttempt, ClientEndClosed
      <4>2. rest = << >> \/ rest = c2s[Connection]
        BY <1>1, <1>2, <4>1, QueueFacts, Zenon DEF Remainder
      <4> QED
        BY <1>1, <4>1, <4>2
    <3> QED
      BY <3>1, <3>2
  <2>2. cli'.scanned = cli.scanned /\ cli'.manifest \in {cli.manifest, << >>}
    BY <1>1, <1>8 DEF CloseAttempt, Client
  <2> QED
    BY <2>1, <2>2, NothingReadInv, ZenonT(30)
<1>9. ASSUME NEW frame \in Requests, Carries(frame), ClientSends(frame),
             c2s[Connection] = << >>, cli'.scanned \in {cli.scanned, {}}, Current(cli'.manifest)
      PROVE  SourceInv'
  <2>1. c2s' = SendOn(c2s, Connection, frame)
    BY <1>9, SMTT(30) DEF ClientSends
  <2>2. /\ \A d \in Conns : d # Connection => c2s'[d] = c2s[d]
        /\ link[Connection] # "up" => c2s'[Connection] = << >>
        /\ link[Connection] = "up" => c2s'[Connection] # << >> /\ Head(c2s'[Connection]) = frame
    BY <1>1, <1>2, <1>9, <2>1, RequestSent, ZenonT(30)
  <2>3. Current(cli.manifest)' /\ \A file \in cli'.scanned : AsRead(file)'
    BY <1>9, ZenonT(30) DEF SourceInv, AsRead, Current, Describes
  <2>4. ASSUME NEW c \in Conns, c2s'[c] # << >>
        PROVE  Carries(Head(c2s'[c]))
    BY <1>2, <1>9, <2>2, <2>4, ZenonT(30) DEF SourceInv
  <2>5. \A c \in Conns : c2s'[c] # << >> => Carries(Head(c2s[c]))'
    BY <2>4, Zenon DEF Carries, Current
  <2> QED
    BY <2>3, <2>5, Zenon DEF SourceInv
<1>10. ASSUME cli.pc \in {"file", "scan"}
       PROVE  c2s[Connection] = << >>
  BY <1>10, ClientTurn
<1>11. CASE SendSyncComplete
  <2> DEFINE frame == SyncComplete(cli.rid, 0, TRUE)
  <2>1. /\ cli.pc = "file" /\ cli' = [cli EXCEPT !.pc = "result"] /\ ClientSends(frame)
    BY <1>11, Zenon DEF SendSyncComplete, ClientAt
  <2>2. frame \in Requests /\ Carries(frame)
    BY <1>1, Zenon DEF SyncComplete, Requests, Client, Carries
  <2>3. cli'.scanned = cli.scanned /\ cli'.manifest = cli.manifest
    BY <1>1, <2>1 DEF Client
  <2> HIDE DEF frame
  <2> QED
    BY <1>9, <1>10, <2>1, <2>2, <2>3, Zenon DEF SourceInv
<1>12. CASE SendNextFile
  <2> DEFINE path == cli.upload_paths[cli.index + 1]
             frame == UploadRequest(cli.rid + cli.index + 1, 0, path, source[path])
  <2>1. /\ cli.pc = "file" /\ cli.index < Len(cli.upload_paths)
        /\ \/ UNCHANGED c2s /\ \E status : Ends(status)
           \/ /\ source[path] # NoFile /\ cli' = [cli EXCEPT !.pc = "outcome"]
              /\ ClientSends(frame)
    BY <1>12 DEF SendNextFile, ClientAt, wireVars
  <2>2. CASE UNCHANGED c2s /\ \E status : Ends(status)
    BY <1>3, <1>4, <2>2, Zenon
  <2>3. CASE source[path] # NoFile /\ cli' = [cli EXCEPT !.pc = "outcome"] /\ ClientSends(frame)
    <3>1. path \in Paths /\ cli.rid + cli.index + 1 \in Nat
      BY <1>1, <2>1 DEF Client
    <3>2. source[path] \in Versions
      BY <1>1, <2>3, <3>1, ZenonT(30) DEF Tree
    <3>3. frame \in Requests /\ Carries(frame)
      BY <3>1, <3>2, Zenon DEF UploadRequest, Requests, Carries
    <3>4. cli'.scanned = cli.scanned /\ cli'.manifest = cli.manifest
      BY <1>1, <2>3 DEF Client
    <3> HIDE DEF frame
    <3> QED
      BY <1>9, <1>10, <2>1, <2>3, <3>3, <3>4, Zenon DEF SourceInv
  <2> QED
    BY <2>1, <2>2, <2>3, Zenon
<1>13. CASE SendManifest
  <2> DEFINE files == FilesInOrder(cli.scanned)
             frame == SyncManifest(cli.rid, 0, files, "Success")
  <2>1. /\ cli.pc = "scan" /\ ClientSends(frame)
        /\ cli' = [cli EXCEPT !.pc = "plan", !.scanned = {}, !.manifest = files]
    BY <1>13 DEF SendManifest, ClientAt
  <2>2. /\ IsFiniteSet(cli.scanned) /\ cli.scanned \subseteq FileRecord
        /\ \A f, g \in cli.scanned : f.path = g.path => f = g
    BY <2>1, SMTT(30) DEF DirInv, ScanInv
  <2>3. \A f \in cli.scanned : f.path \in Nat
    BY <2>2, ManifestAssumption, ZenonT(30) DEF FileRecord
  <2>4. files \in Seq(cli.scanned)
    BY <2>2, <2>3, FilesInOrderSorts, Zenon
  <2> HIDE DEF files
  <2>5. files \in Seq(FileRecord)
    BY <2>2, <2>4, WiderSequence, Zenon
  <2>6. \A i \in 1 .. Len(files) : files[i] \in cli.scanned /\ files[i] \in FileRecord
    BY <2>2, <2>4, SMTT(30)
  <2>7. Current(files)
    BY <2>6, ZenonT(30) DEF SourceInv, AsRead, Current, Describes
  <2>8. frame \in Requests /\ Carries(frame)
    BY <1>1, <2>5, <2>7, Zenon DEF SyncManifest, Requests, Client, Carries
  <2>9. cli'.scanned = {} /\ cli'.manifest = files
    BY <1>1, <2>1, ZenonT(30) DEF Client
  <2> HIDE DEF frame
  <2> QED
    BY <1>9, <1>10, <2>1, <2>7, <2>8, <2>9, Zenon
<1>14. ASSUME UNCHANGED c2s, cli'.manifest = cli.manifest, \A file \in cli'.scanned : AsRead(file)
       PROVE  SourceInv'
  <2>1. \A file \in cli'.scanned : AsRead(file)'
    BY <1>14, ZenonT(30) DEF AsRead
  <2>2. Current(cli.manifest)' /\ \A c \in Conns : c2s[c]' # << >> => Carries(Head(c2s[c]))'
    BY <1>14, ZenonT(30) DEF SourceInv, Current, Carries
  <2> QED
    BY <2>1, <2>2, ZenonT(30) DEF SourceInv
<1>15. CASE ScanFile
  <2>1. PICK p \in cli.left :
          cli' = IF source[p] = NoFile THEN [cli EXCEPT !.left = @ \ {p}]
                 ELSE [cli EXCEPT !.pc = "checksum", !.left = @ \ {p},
                                  !.scanned = @ \cup {[path |-> p, size |-> SizeOf(source[p])]}]
    BY <1>15, Zenon DEF ScanFile
  <2> DEFINE file == [path |-> p, size |-> SizeOf(source[p])]
  <2>2. UNCHANGED c2s
    BY <1>15 DEF ScanFile, wireVars
  <2>3. cli'.manifest = cli.manifest /\ (source[p] = NoFile => cli'.scanned = cli.scanned)
    BY <1>1, <2>1 DEF Client
  <2>4. source[p] # NoFile => cli'.scanned = cli.scanned \cup {file}
    BY <1>1, <2>1, ZenonT(30) DEF Client
  <2>5. source[p] # NoFile => AsRead(file)
    BY DEF AsRead, FileRecord
  <2> HIDE DEF file
  <2>6. \A f \in cli'.scanned : AsRead(f)
    BY <2>3, <2>4, <2>5, Zenon DEF SourceInv
  <2> QED
    BY <1>14, <2>2, <2>3, <2>6, ZenonT(30)
<1>16. CASE ChecksumFile
  <2> DEFINE file == CHOOSE f \in cli.scanned : "checksum" \notin DOMAIN f
             read == [path |-> file.path, size |-> file.size, checksum |-> ChecksumOf(source[file.path])]
  <2>1. /\ cli.pc = "checksum" /\ UNCHANGED c2s
        /\ \/ Ends("ScanError")
           \/ cli' = [cli EXCEPT !.pc = "scan", !.scanned = (@ \ {file}) \cup {read}]
    BY <1>16 DEF ChecksumFile, ClientAt, wireVars
  <2>2. file \in cli.scanned
    BY <2>1, FileToRead, SMTT(30)
  <2> HIDE DEF file
  <2>3. AsRead(read)
    BY <2>2, Zenon DEF SourceInv, AsRead
  <2> HIDE DEF read
  <2>4. CASE Ends("ScanError")
    BY <1>3, <1>4, <2>1, <2>4, Zenon
  <2>5. CASE cli' = [cli EXCEPT !.pc = "scan", !.scanned = (@ \ {file}) \cup {read}]
    <3>1. cli'.manifest = cli.manifest /\ cli'.scanned = (cli.scanned \ {file}) \cup {read}
      BY <1>1, <2>5, SMTT(30) DEF Client
    <3>2. \A f \in cli'.scanned : AsRead(f)
      BY <2>3, <3>1, ZenonT(30) DEF SourceInv
    <3> QED
      BY <1>14, <2>1, <3>1, <3>2, Zenon
  <2> QED
    BY <2>1, <2>4, <2>5
<1> QED
  BY <1>5, <1>6, <1>7, <1>8, <1>11, <1>12, <1>13, <1>15, <1>16, ZenonT(30) DEF ClientRuns, ClientStep

(* A plan for the scanned destination names no file that is as in the       *)
(* source.                                                                  *)
LEMMA PlanAhead ==
    ASSUME NEW files, Manifest(files), Current(files), dest \in Tree,
           NEW plan, plan = PlanOf(files, ScanDirectory(dest)), NEW k \in 1 .. Len(plan.upload_paths)
    PROVE  dest[plan.upload_paths[k]] # source[plan.upload_paths[k]]
<1> DEFINE p == plan.upload_paths[k]
<1>1. CallsFor(plan, files, RecordsOf(dest))
  BY ScanFacts, PlanForScan
<1>2. PICK i \in 1 .. Len(files) : files[i].path = p /\ files[i] \notin RecordsOf(dest)
  BY <1>1, ZenonT(30) DEF CallsFor
<1>3. files[i] \in FileRecord /\ p \in Paths
  BY <1>2, ManifestFacts, ZenonT(30)
<1>4. Describes(files[i], source[p])
  BY <1>2, ZenonT(30) DEF Current
<1> HIDE DEF p
<1>5. files[i] = [path |-> p, size |-> SizeOf(source[p]), checksum |-> ChecksumOf(source[p])]
  BY <1>2, <1>3, <1>4, ZenonT(30) DEF Describes, FileRecord
<1>6. source[p] # NoFile
  BY <1>4 DEF Describes
<1>7. dest[p] # NoFile =>
        [path |-> p, size |-> SizeOf(dest[p]), checksum |-> ChecksumOf(dest[p])] \in RecordsOf(dest)
  BY <1>3, ZenonT(30) DEF RecordsOf
<1>8. dest[p] # source[p]
  BY <1>2, <1>5, <1>6, <1>7, ZenonT(30)
<1> QED
  BY <1>8, Zenon DEF p

(* A file that is renamed was outdated, so it had not been committed yet.   *)
LEMMA RenameOnce ==
    ASSUME DirInv, SourceInv, AheadInv, OnceInv, RenameFile, UNCHANGED <<source, outages>>
    PROVE  AheadInv' /\ OnceInv'
<1> DEFINE path == Incoming.path
           version == Incoming.version
           up == srv.plan.upload_paths
<1>1. /\ srv # NoSync /\ srv.pc = "files" /\ Types /\ FilesLeft /\ ServerReceives
      /\ Replaced(path, version) /\ srv' = [srv EXCEPT !.pc = "commit"]
  BY DEF DirInv, RenameFile, At
<1>2. srv \in Session /\ srv.conn \in Conns
  BY <1>1, SessionFacts
<1>3. /\ srv'.pc = "commit" /\ srv'.plan = srv.plan /\ srv'.index = srv.index
  BY <1>1, <1>2 DEF Session
<1>4. Incoming.type = "UploadRequest" /\ path = up[srv.index + 1]
  BY <1>1, UploadRequested, Zenon
<1>5. version = source[path]
  BY <1>1, <1>2, <1>4, Zenon DEF SourceInv, Carries, Incoming, ServerReceives, HasFrame
<1> HIDE DEF path, version
<1>6. /\ up \in Seq(Paths) /\ StrictlySorted(up) /\ srv.index \in Nat /\ srv.index < Len(up)
  BY <1>1, <1>2, ZenonT(30) DEF DirInv, SessionInv, Fits, Session, Plan, FilesLeft
<1>7. srv.index + 1 \in 1 .. Len(up) /\ path \in Paths
  BY <1>4, <1>6, OtherUpload, Zenon
<1>8. dest[path] # source[path]
  BY <1>1, <1>4, <1>6, <1>7 DEF AheadInv
<1>9. /\ dest' = [dest EXCEPT ![path] = version] /\ commits' = [commits EXCEPT ![path] = @ + 1]
      /\ dest \in [Paths -> Versions \cup {NoFile}] /\ commits \in [Paths -> Nat]
  BY <1>1, Zenon DEF Replaced, Types, Tree
<1>10. OnceInv'
  BY <1>5, <1>7, <1>8, <1>9, SMTT(30) DEF OnceInv
<1>11. ASSUME NEW k \in 1 .. Len(up), k > srv.index + 1
       PROVE  dest'[up[k]] # source[up[k]]
  <2>1. up[k] \in Paths /\ up[k] \in Nat /\ path \in Nat
    <3>1. up[k] \in Paths
      BY <1>6
    <3> QED
      BY <1>7, <3>1, ManifestAssumption, Zenon
  <2>2. path < up[k]
    BY <1>4, <1>6, <1>7, <1>11, Zenon DEF StrictlySorted
  <2>3. up[k] # path
    BY <2>1, <2>2
  <2>4. k > srv.index
    BY <1>6, <1>11
  <2>5. dest[up[k]] # source[up[k]]
    BY <1>1, <2>4, ZenonT(30) DEF AheadInv
  <2> QED
    BY <1>9, <2>1, <2>3, <2>5, ZenonT(30)
<1>12. AheadInv'
  BY <1>3, <1>11, Zenon DEF AheadInv
<1> QED
  BY <1>10, <1>12

LEMMA OnceNext ==
    ASSUME DirInv, SourceInv, AheadInv, OnceInv, [Next]_vars, UNCHANGED <<source, changes>>
    PROVE  AheadInv' /\ OnceInv'
<1>1. ASSUME UNCHANGED <<dest, commits, outages>>, UNCHANGED srv \/ srv' = NoSync
      PROVE  AheadInv' /\ OnceInv'
  BY <1>1, Zenon DEF AheadInv, OnceInv
<1>2. CASE ClientRuns
  BY <1>1, <1>2, Zenon DEF ClientRuns, serverVars
<1>3. CASE SourceChanges
  BY <1>1, <1>3, Zenon DEF SourceChanges, serverVars
<1>4. CASE UNCHANGED vars
  BY <1>1, <1>4 DEF vars
<1>5. CASE Fault
  <2>1. CASE PowerFailure /\ outages' = outages + 1
    <3>1. outages \in Nat
      BY Zenon DEF DirInv, Types
    <3>2. outages' # 0 /\ srv' = NoSync
      BY <2>1, <3>1, SMTT(30) DEF PowerFailure, ProcessLost
    <3> QED
      BY <3>2, Zenon DEF AheadInv, OnceInv
  <2>2. CASE KillServer /\ UNCHANGED outages
    BY <1>1, <2>2, Zenon DEF KillServer, ProcessLost, diskVars
  <2>3. CASE UNCHANGED serverVars /\ UNCHANGED outages
    BY <1>1, <2>3, Zenon DEF serverVars
  <2> QED
    BY <1>5, <2>1, <2>2, <2>3, ZenonT(30) DEF Fault
<1>6. CASE ServerRuns
  <2>1. UNCHANGED outages /\ ServerStep(Mismatch)
    BY <1>6, SMTT(30) DEF ServerRuns
  <2>2. ASSUME NEW c \in Conns, RefuseFirstFrame(c) \/ CloseServed(c)
        PROVE  AheadInv' /\ OnceInv'
    BY <1>1, <2>1, <2>2, ZenonT(30) DEF RefuseFirstFrame, CloseServed, diskVars, serverVars
  <2>3. ASSUME NEW c \in Conns, StartSync(c)
        PROVE  AheadInv' /\ OnceInv'
    <3> DEFINE frame == Head(c2s[c])
               plan == PlanOf(frame.files, ScanDirectory(dest))
    <3>1. /\ ~Serving(c) /\ HasFrame(c2s, c) /\ UNCHANGED <<dest, commits>>
          /\ \/ UNCHANGED srv
             \/ srv' = [conn |-> c, rid |-> frame.rid, pc |-> "plan", source |-> frame.files,
                        plan |-> plan, index |-> 0]
      BY <2>3, ZenonT(30) DEF StartSync, Serving, diskVars
    <3>2. frame.type = "SyncManifest" /\ Manifest(frame.files)
      BY <3>1, FirstFrameFacts, ZenonT(30)
    <3>3. Current(frame.files)
      BY <3>1, <3>2, ZenonT(30) DEF SourceInv, Carries, HasFrame
    <3>4. dest \in Tree
      BY SMTT(30) DEF DirInv, Types
    <3> HIDE DEF frame
    <3>5. \A k \in 1 .. Len(plan.upload_paths) :
             dest[plan.upload_paths[k]] # source[plan.upload_paths[k]]
      BY <3>2, <3>3, <3>4, PlanAhead, ZenonT(30)
    <3> HIDE DEF plan
    <3>6. CASE UNCHANGED srv
      BY <1>1, <2>1, <3>1, <3>6, ZenonT(30)
    <3>7. CASE srv' = [conn |-> c, rid |-> frame.rid, pc |-> "plan", source |-> frame.files,
                       plan |-> plan, index |-> 0]
      <4>1. srv'.plan = plan
        BY <3>7, Zenon
      <4> QED
        BY <2>1, <3>1, <3>5, <4>1, ZenonT(30) DEF AheadInv, OnceInv
    <3> QED
      BY <3>1, <3>6, <3>7, Zenon
  <2>4. CASE RenameFile
    BY <2>1, <2>4, RenameOnce, ZenonT(30)
  <2>5. CASE SendPlan \/ CommitFile
    <3>1. srv # NoSync /\ UNCHANGED <<dest, commits>>
      BY <2>5 DEF SendPlan, CommitFile, At, diskVars
    <3>2. srv \in Session
      BY <3>1, SessionFacts, Zenon
    <3>3. /\ srv'.plan = srv.plan /\ srv'.pc = "files"
          /\ srv'.index = IF srv.pc = "commit" THEN srv.index + 1 ELSE srv.index
      BY <2>5, <3>2, Zenon DEF SendPlan, CommitFile, At, Session
    <3> QED
      BY <2>1, <3>1, <3>3, Zenon DEF AheadInv, OnceInv
  <2>6. CASE \/ SendPlanFails \/ RejectUnplanned \/ ReceiveFileFails(Mismatch)
             \/ CommitFileFails \/ VerifyDestination \/ RecvInterrupted
    <3>1. UNCHANGED <<dest, commits>> /\ srv' = NoSync
      BY <2>6, Zenon DEF SendPlanFails, RejectUnplanned, ReceiveFileFails, CommitFileFails,
           VerifyDestination, RecvInterrupted, Finish, FinishSending, diskVars
    <3> QED
      BY <1>1, <2>1, <3>1, Zenon
  <2> QED
    BY <2>1, <2>2, <2>3, <2>4, <2>5, <2>6, ZenonT(30) DEF ServerStep, SessionStep
<1> QED
  BY <1>2, <1>3, <1>4, <1>5, <1>6, ZenonT(30) DEF Next

(* A sync command on a tree that does not change commits no file twice,     *)
(* whatever was lost and retried: a retry finds what an earlier attempt has *)
(* committed, also one whose result was lost.                               *)
THEOREM CommittedOnce ==
    MaxChanges = 0 => (Spec => []TransferredOnce)
<1>1. SUFFICES ASSUME MaxChanges = 0
               PROVE  Spec => []TransferredOnce
  OBVIOUS
<1> DEFINE Inv == SourceInv /\ AheadInv /\ OnceInv
<1>2. Init => Inv
  <2>1. SUFFICES ASSUME Init
                 PROVE  Inv
    OBVIOUS
  <2>2. /\ cli.scanned = {} /\ cli.manifest = << >> /\ c2s = [c \in Conns |-> << >>]
        /\ changes = 0 /\ srv = NoSync /\ commits = [p \in Paths |-> 0]
    BY <2>1 DEF Init, ClientInit, WireInit, ServerInit
  <2> QED
    BY <2>2 DEF SourceInv, AheadInv, OnceInv, Current
<1>3. DirInv /\ DirInv' /\ Inv /\ [Next]_vars => Inv'
  <2>1. SUFFICES ASSUME DirInv, DirInv', Inv, [Next]_vars
                 PROVE  Inv'
    OBVIOUS
  <2>2. UNCHANGED <<source, changes>>
    BY <1>1, <2>1, SourceStays, Zenon DEF SourceInv
  <2>3. AheadInv' /\ OnceInv'
    BY <2>1, <2>2, OnceNext, Zenon
  <2>4. SourceInv'
    <3>1. CASE ClientRuns
      BY <2>1, <2>2, <3>1, SourceInvClient, Zenon
    <3>2. CASE ServerRuns \/ Fault
      <4>1. \A c \in Conns : c2s'[c] = c2s[c] \/ c2s'[c] = << >>
        BY <2>1, <3>2, RequestsOnlyTaken, Zenon
      <4>2. cli'.scanned = cli.scanned /\ cli'.manifest = cli.manifest
        <5>1. cli \in Client
          BY <2>1, Zenon DEF DirInv, Types
        <5>2. UNCHANGED cli \/ Ends("FrameIoError")
          BY <3>2 DEF ServerRuns, Fault, ConnectFails, clientVars
        <5> QED
          BY <5>1, <5>2, ZenonT(30) DEF Ends, Client
      <4> QED
        BY <2>1, <2>2, <4>1, <4>2, NothingReadInv, Zenon
    <3>3. CASE SourceChanges \/ UNCHANGED vars
      <4>1. UNCHANGED <<cli, c2s>>
        BY <3>3, Zenon DEF SourceChanges, wireVars, vars
      <4> QED
        BY <2>1, <2>2, <4>1, NothingReadInv, Zenon
    <3> QED
      BY <2>1, <3>1, <3>2, <3>3, Zenon DEF Next
  <2> QED
    BY <2>3, <2>4
<1>4. DirInv /\ Inv => TransferredOnce
  BY DEF DirInv, Types, OnceInv, TransferredOnce
<1> HIDE DEF Inv
<1> QED
  BY <1>2, <1>3, <1>4, DirInvAlways, PTL DEF Spec
=============================================================================
