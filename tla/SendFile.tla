------------------------------ MODULE SendFile ------------------------------
(***************************************************************************)
(* The client side of an upload: send_file of src/common/file_transfer.cpp *)
(* inside the retry loop of apps/syncwire-client/main.cpp.  Attempt k uses *)
(* connection k, so the connections of earlier attempts stay visible to    *)
(* the server.  The request id is the same in every attempt.               *)
(*                                                                         *)
(* The source file is read in several steps (its size, its checksum, the   *)
(* prefix to be resumed, each chunk), between which it may change.         *)
(* Authentication, which precedes the request on every connection, is not  *)
(* part of this module: a transport failure in it is a broken connection   *)
(* before the request.                                                     *)
(***************************************************************************)
EXTENDS ReceiveFile

CONSTANTS Path,          \* the remote path of the upload
          Rid,           \* the request id
          Sources,       \* contents that the source file takes on
          MaxRetries     \* --retries

ASSUME ClientAssumption ==
    /\ Path \in Paths /\ Rid \in Nat \ {0} /\ MaxRetries \in Nat
    /\ Conns = 0 .. MaxRetries
    /\ Sources \subseteq Content /\ Crc(<< >>) = 0
    /\ \A a, b \in Sources : [path |-> Path, size |-> Len(a), crc |-> Crc(b)] \in Metas

VARIABLES source,        \* the source file
          cli            \* the state of the client process

(* pc: connect, size, request, ready, prefix, chunk, ack, complete, result  *)
(* follow send_file; close is the return of run_once, done the exit of the  *)
(* program.  status is the status of the last attempt.  confirmed is a      *)
(* history of the highest offset ever acknowledged to this client.          *)

clientVars == <<source, cli>>

ClientAt(pc) == cli.pc = pc

Connection == cli.attempt

(* metadata, as it was read in this attempt. *)
Metadata == [path |-> Path, size |-> cli.size, crc |-> cli.crc]

ClientInit ==
    /\ source \in Sources
    /\ cli = [pc |-> "connect", attempt |-> 0, size |-> 0, crc |-> 0,
              transfer_id |-> 0, offset |-> 0, prefix_checksum |-> 0, resumed_from |-> 0,
              confirmed |-> 0, status |-> "none"]

(* send_file returns; run_once then closes the socket. *)
Ends(status) == cli' = [cli EXCEPT !.pc = "close", !.status = status]

ClientReceives ==
    /\ HasFrame(s2c, Connection)
    /\ s2c' = Consumed(s2c, Connection)
    /\ UNCHANGED <<link, c2s, source>>

ClientSends(frame) ==
    /\ c2s' = SendOn(c2s, Connection, frame)
    /\ UNCHANGED <<link, s2c, source>>

Response == Head(s2c[Connection])
-----------------------------------------------------------------------------
Connect ==
    /\ ClientAt("connect")
    /\ Opened(Connection)
    /\ cli' = [cli EXCEPT !.pc = "size"]
    /\ UNCHANGED source

(* The server does not answer: an attempt without a connection. *)
ConnectFails ==
    /\ ClientAt("connect")
    /\ Ends("FrameIoError")
    /\ UNCHANGED source /\ UNCHANGED wireVars

(* read_source_metadata asks for the size first ... *)
ReadSize ==
    /\ ClientAt("size")
    /\ IF Len(source) > MaxFileSize
       THEN Ends("FileTooLarge")
       ELSE cli' = [cli EXCEPT !.pc = "request", !.size = Len(source)]
    /\ UNCHANGED source /\ UNCHANGED wireVars

(* ... and then reads the file once for its checksum. *)
SendRequest ==
    /\ ClientAt("request")
    /\ cli' = [cli EXCEPT !.pc = "ready", !.crc = Crc(source)]
    /\ ClientSends(UploadRequest(Rid, 0, [Metadata EXCEPT !.crc = Crc(source)], "ok"))

(* The first response: a checkpoint to resume from, or a rejection. *)
ReadyStatus(frame) ==
    IF frame.rid # Rid THEN "MismatchedRequestId"
    ELSE IF frame.type = "TransferResult"
         THEN IF frame.tid # 0 THEN "InvalidTransferId"
              ELSE IF frame.code = "Success" THEN "UnexpectedFrame" ELSE "RemoteRejected"
    ELSE IF frame.type # "TransferReady" THEN "UnexpectedMessageType"
    ELSE IF frame.offset > cli.size \/ (frame.offset = 0 /\ frame.crc # 0)
         THEN "UnexpectedOffset"
    ELSE IF frame.tid = 0 THEN "InvalidTransferId"
    ELSE "Success"

RecvReady ==
    LET status == ReadyStatus(Response)
    IN  /\ ClientAt("ready")
        /\ ClientReceives
        /\ IF status # "Success" THEN Ends(status)
           ELSE cli' = [cli EXCEPT !.pc = "prefix", !.offset = Response.offset,
                                   !.transfer_id = Response.tid,
                                   !.prefix_checksum = Response.crc]

(* The local prefix is read again; a mismatch restarts from zero. *)
ReadPrefix ==
    LET matches == Crc(SubSeq(source, 1, cli.offset)) = cli.prefix_checksum
        from    == IF matches THEN cli.offset ELSE 0
    IN  /\ ClientAt("prefix")
        /\ IF Len(source) < cli.offset
           THEN Ends("FileReadError")
           ELSE cli' = [cli EXCEPT !.pc = IF from < cli.size THEN "chunk" ELSE "complete",
                                   !.offset = from, !.resumed_from = from]
        /\ UNCHANGED source /\ UNCHANGED wireVars

SendChunk ==
    LET requested == Min({cli.size - cli.offset, ChunkSize})
        data      == SubSeq(source, cli.offset + 1, cli.offset + requested)
    IN  /\ ClientAt("chunk")
        /\ IF Len(source) < cli.offset + requested
           THEN Ends("FileReadError") /\ UNCHANGED source /\ UNCHANGED wireVars
           ELSE /\ cli' = [cli EXCEPT !.pc = "ack", !.offset = @ + requested]
                /\ ClientSends(FileChunk(Rid, cli.transfer_id, cli.offset, data))

(* receive_expected_frame, for a frame of the running transfer. *)
ExpectedStatus(frame, type) ==
    IF frame.rid # Rid THEN "MismatchedRequestId"
    ELSE IF frame.tid # cli.transfer_id THEN "InvalidTransferId"
    ELSE IF frame.type # type THEN "UnexpectedMessageType"
    ELSE "Success"

RecvAck ==
    LET status == ExpectedStatus(Response, "Acknowledgment")
    IN  /\ ClientAt("ack")
        /\ ClientReceives
        /\ IF status # "Success" THEN Ends(status)
           ELSE IF Response.offset # cli.offset THEN Ends("UnexpectedOffset")
           ELSE cli' = [cli EXCEPT
                          !.pc = IF cli.offset < cli.size THEN "chunk" ELSE "complete",
                          !.confirmed = Max({@, cli.offset})]

SendComplete ==
    /\ ClientAt("complete")
    /\ cli' = [cli EXCEPT !.pc = "result"]
    /\ ClientSends(TransferComplete(Rid, cli.transfer_id, TRUE))

RecvResult ==
    LET status == ExpectedStatus(Response, "TransferResult")
    IN  /\ ClientAt("result")
        /\ ClientReceives
        /\ IF status # "Success" THEN Ends(status)
           ELSE Ends(IF Response.code = "Success" THEN "Success" ELSE "RemoteRejected")

(* Every send and every receive may report that the connection is gone. *)
ClientIoFails ==
    /\ \/ cli.pc \in {"request", "chunk", "complete"} /\ SendFails(Connection)
       \/ cli.pc \in {"ready", "ack", "result"} /\ RecvFails(s2c, Connection)
    /\ Ends("FrameIoError")
    /\ UNCHANGED source /\ UNCHANGED wireVars

(* Mutant: one attempt too few. *)
CloseAttempt_OneLess ==
    /\ ClientAt("close")
    /\ ClientEndClosed(Connection)
    /\ cli' = IF cli.status = "FrameIoError" /\ cli.attempt + 1 < MaxRetries
              THEN [cli EXCEPT !.pc = "connect", !.attempt = @ + 1,
                               !.offset = 0, !.transfer_id = 0,
                               !.prefix_checksum = 0, !.resumed_from = 0]
              ELSE [cli EXCEPT !.pc = "done"]
    /\ UNCHANGED source

(* Only a transport failure is retried, with a new connection. *)
CloseAttempt ==
    /\ ClientAt("close")
    /\ ClientEndClosed(Connection)
    /\ cli' = IF cli.status = "FrameIoError" /\ cli.attempt < MaxRetries
              THEN [cli EXCEPT !.pc = "connect", !.attempt = @ + 1,
                               !.offset = 0, !.transfer_id = 0,
                               !.prefix_checksum = 0, !.resumed_from = 0]
              ELSE [cli EXCEPT !.pc = "done"]
    /\ UNCHANGED source

ClientStep ==
    \/ Connect \/ ReadSize \/ SendRequest \/ RecvReady \/ ReadPrefix
    \/ SendChunk \/ RecvAck \/ SendComplete \/ RecvResult
    \/ ClientIoFails \/ CloseAttempt
=============================================================================
