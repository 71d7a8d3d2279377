------------------------- MODULE StableUploadProofs -------------------------
(***************************************************************************)
(* A source file that does not change is never rejected: the theorem about *)
(* StableSourceNeverRejected, for every number of retries, kills, power    *)
(* failures and broken connections.  Client and server answer each other   *)
(* frame by frame, and at each point of that dialogue the session under    *)
(* the mutex has stored a prefix of the file, with its checksum.           *)
(***************************************************************************)
EXTENDS UploadProofs

(* CRC-32 is computed block by block: the checksum of what has been read    *)
(* and the blocks that follow determine the checksum of all of it.          *)
CrcStreams ==
    \A a, b, s \in Content : Len(a) = Len(b) /\ Crc(a) = Crc(b) => Crc(a \o s) = Crc(b \o s)

(* The disk works, the file is not too large, and it stays as it is. *)
Undisturbed ==
    /\ CrcStreams /\ ~StorageFaults /\ MaxChanges = 0
    /\ \A a \in Sources : Len(a) <= MaxFileSize

(* No leftover of another upload fills the partial directory. *)
BudgetSuffices == \A m \in Metas : WithinPartialBudget(m)

Talking == cli.pc \notin {"close", "done"}

(* Data with the checksum of a prefix of the source. *)
Agrees(data) == Crc(data) = Crc(SubSeq(source, 1, Len(data)))

Single(queue) == queue = << >> \/ queue = <<Head(queue)>>

(* The reply that an attempt waits for. *)
Expected(frame) ==
    \/ /\ cli.pc = "ready" /\ frame.type = "TransferReady"
       /\ frame.rid = Rid /\ frame.tid = Rid /\ frame.offset <= cli.size
       /\ frame.offset = 0 => frame.crc = 0
    \/ cli.pc = "ack" /\ frame = Acknowledgment(Rid, Rid, cli.offset)
    \/ cli.pc = "result" /\ frame = TransferResult(Rid, Rid, "Success")

(* The frame for which it has been sent. *)
Pending(frame) ==
    \/ cli.pc = "ready" /\ frame = UploadRequest(Rid, 0, Metadata, "ok")
    \/ /\ cli.pc = "ack" /\ frame.type = "FileChunk"
       /\ frame.rid = Rid /\ frame.tid = Rid
       /\ frame.offset < cli.offset /\ cli.offset <= frame.offset + ChunkSize
       /\ frame.data = SubSeq(source, frame.offset + 1, cli.offset)
    \/ cli.pc = "result" /\ frame = TransferComplete(Rid, Rid, TRUE)

ReplyInv ==
    Talking =>
        /\ Single(s2c[cli.attempt])
        /\ s2c[cli.attempt] # << >> => Expected(Head(s2c[cli.attempt]))

PendingInv ==
    Talking /\ cli.attempt \notin served =>
        /\ Single(c2s[cli.attempt])
        /\ c2s[cli.attempt] # << >> => Pending(Head(c2s[cli.attempt]))

ReadInv ==
    /\ cli.pc \in {"request", "ready"} \cup Sending => cli.size = Len(source)
    /\ cli.pc \in {"ready"} \cup Sending => cli.crc = Crc(source)
    /\ cli.pc \in Sending => cli.transfer_id = Rid /\ cli.offset <= cli.size

(* The server is ready for a chunk at this offset, or for one that starts   *)
(* over.                                                                    *)
ReadyFor(offset) ==
    \/ sess.offset = offset /\ Agrees(sess.checksum)
    \/ offset = 0 /\ sess.first_chunk /\ sess.offset # 0

Complete == sess.offset = cli.size /\ Agrees(sess.checksum)

(* How far the session has come when the client is at each of its places.   *)
MatchInv ==
    LET toServer == c2s[cli.attempt]
        toClient == s2c[cli.attempt]
    IN  Talking /\ Serving(cli.attempt) =>
          /\ sess.rid = Rid
          /\ cli.pc = "ready" =>
                /\ toServer = << >> /\ sess.first_chunk
                /\ \/ sess.pc = "ready" /\ toClient = << >>
                   \/ sess.pc = "loop" /\ toClient = << >>
                   \/ /\ sess.pc = "loop"
                      /\ toClient = <<TransferReady(Rid, Rid, sess.offset, Crc(sess.checksum))>>
          /\ cli.pc = "prefix" =>
                /\ sess.pc = "loop" /\ sess.first_chunk
                /\ cli.offset = sess.offset /\ cli.prefix_checksum = Crc(sess.checksum)
          /\ cli.pc = "chunk" => sess.pc = "loop" /\ ReadyFor(cli.offset)
          /\ cli.pc = "ack" =>
                \/ /\ sess.pc = "loop" /\ toClient = << >>
                   /\ toServer # << >> => ReadyFor(Head(toServer).offset)
                \/ /\ sess.pc = "write" /\ toServer = << >> /\ toClient = << >>
                   /\ sess.offset + Len(sess.chunk) = cli.offset
                   /\ Agrees(sess.checksum \o sess.chunk)
                \/ /\ sess.pc \in {"sync", "ack"} /\ toServer = << >> /\ toClient = << >>
                   /\ ReadyFor(cli.offset) /\ sess.offset = cli.offset
                \/ /\ sess.pc = "loop" /\ toServer = << >>
                   /\ ReadyFor(cli.offset) /\ sess.offset = cli.offset
          /\ cli.pc = "complete" => sess.pc = "loop" /\ Complete
          /\ cli.pc = "result" =>
                /\ toClient = << >>
                /\ \/ sess.pc = "loop" /\ (toServer # << >> => Complete)
                   \/ sess.pc \in {"rename", "syncdirs"} /\ toServer = << >>

SteadyInv ==
    /\ changes \in Nat
    /\ StableSourceNeverRejected
    /\ ReadInv
    /\ ReplyInv
    /\ PendingInv
    /\ MatchInv
-----------------------------------------------------------------------------
(* Frames are taken or lost, other sessions go on, this one ends. *)
LEMMA QuietSteady ==
    ASSUME SteadyInv, UNCHANGED <<cli, source, changes>>, served \subseteq served',
           c2s'[cli.attempt] \in {c2s[cli.attempt], << >>},
           s2c'[cli.attempt] \in {s2c[cli.attempt], << >>},
           Serving(cli.attempt)' => Serving(cli.attempt) /\ sess' = sess
    PROVE  SteadyInv'
<1>1. (changes \in Nat)' /\ StableSourceNeverRejected' /\ ReadInv'
  BY DEF SteadyInv, StableSourceNeverRejected, ReadInv
<1>2. ReplyInv'
  <2>1. ReplyInv /\ UNCHANGED cli
    BY DEF SteadyInv
  <2> QED
    BY <2>1 DEF ReplyInv, Talking, Single, Expected
<1>3. PendingInv'
  <2>1. PendingInv /\ UNCHANGED cli
    BY DEF SteadyInv
  <2> QED
    BY <2>1, Zenon DEF PendingInv, Talking, Single, Pending, Metadata
<1>4. MatchInv'
  <2>1. MatchInv /\ UNCHANGED cli
    BY Zenon DEF SteadyInv
  <2> SUFFICES ASSUME Talking, Serving(cli.attempt)'
               PROVE  MatchInv'
    BY <2>1 DEF MatchInv, Talking
  <2>2. Serving(cli.attempt) /\ sess' = sess
    OBVIOUS
  <2> QED
    BY <2>1, <2>2, Zenon DEF MatchInv, ReadyFor, Complete, Agrees
<1> QED
  BY <1>1, <1>2, <1>3, <1>4 DEF SteadyInv

(* A queue of at most one frame, and what is left of it. *)
LEMMA SingleRest ==
    ASSUME NEW S, NEW q \in Seq(S), Single(q), NEW p, Rest(p, q)
    PROVE  p \in {q, << >>}
<1>1. CASE q = << >>
  <2>1. \A n \in 0 .. Len(q) : SubSeq(q, 1, n) = << >>
    BY <1>1
  <2> QED
    BY <1>1, <2>1 DEF Rest, Survivors
<1>2. CASE q = <<Head(q)>> /\ q # << >>
  <2>1. Tail(q) = << >> /\ Len(q) = 1
    <3>1. PICK h : q = <<h>>
      BY <1>2
    <3> QED
      BY <3>1
  <2>2. SubSeq(q, 1, 0) = << >> /\ SubSeq(q, 1, 1) = q
    BY <2>1
  <2>3. 0 .. Len(q) = {0, 1}
    BY <2>1
  <2>4. Survivors(q) = {q, << >>}
    BY <2>2, <2>3, Zenon DEF Survivors
  <2> QED
    BY <2>1, <2>4, Zenon DEF Rest
<1> QED
  BY <1>1, <1>2 DEF Single

LEMMA SteadyFacts ==
    ASSUME UpInv, SteadyInv
    PROVE  /\ ReadInv /\ ReplyInv /\ PendingInv /\ MatchInv /\ cli.attempt \in Conns
           /\ cli \in Client /\ source \in Sources /\ source \in Content
           /\ c2s[cli.attempt] \in Seq(ClientFrame) /\ s2c[cli.attempt] \in Seq(ServerFrame)
  BY UpFacts, ClientAssumption, Zenon DEF SteadyInv, Types

(* Nothing is promised to a client that has its result. *)
LEMMA SteadySilent ==
    ASSUME SteadyInv, UNCHANGED <<cli, source, changes>>, ~Talking
    PROVE  SteadyInv'
  BY DEF SteadyInv, StableSourceNeverRejected, ReadInv, ReplyInv, PendingInv, MatchInv, Talking

LEMMA SteadyQueues ==
    ASSUME SteadyInv, UNCHANGED <<cli, source, changes>>, ReplyInv', PendingInv', MatchInv'
    PROVE  SteadyInv'
  BY DEF SteadyInv, StableSourceNeverRejected, ReadInv

(* What a session does to the connections. *)
LEMMA SessionWire ==
    ASSUME UpInv, TransferStep
    PROVE  /\ sess # NoSession /\ served \subseteq served'
           /\ c2s' = c2s \/ (HasFrame(c2s, sess.conn) /\ c2s' = Consumed(c2s, sess.conn))
           /\ s2c' = s2c \/ \E frame : s2c' = SendOn(s2c, sess.conn, frame)
           /\ sess' = NoSession \/ sess'.conn = sess.conn
<1>1. CASE \/ SendReadyFails \/ RejectFrame \/ DiscardMalformed \/ RecvInterrupted
           \/ StoreFails \/ SendAckFails \/ RenameFails \/ SyncDirsFails \/ Commit
  <2>1. sess # NoSession
    BY <1>1 DEF SendReadyFails, RejectFrame, DiscardMalformed, RecvInterrupted, StoreFails,
         SendAckFails, RenameFails, SyncDirsFails, Commit, Receiving, At
  <2>2. sess' = NoSession /\ served' = served \cup {sess.conn}
    BY <1>1, ZenonT(30) DEF SendReadyFails, RejectFrame, DiscardMalformed, RecvInterrupted,
         StoreFails, SendAckFails, RenameFails, SyncDirsFails, Commit, RejectTransfer, Interrupted,
         Return
  <2>3. c2s' = c2s \/ (HasFrame(c2s, sess.conn) /\ c2s' = Consumed(c2s, sess.conn))
    BY <1>1, ZenonT(30) DEF SendReadyFails, RejectFrame, DiscardMalformed, RecvInterrupted,
         StoreFails, SendAckFails, RenameFails, SyncDirsFails, Commit, Receiving, wireVars
  <2>4. s2c' = s2c \/ \E frame : s2c' = SendOn(s2c, sess.conn, frame)
    BY <1>1, ZenonT(30) DEF SendReadyFails, RejectFrame, DiscardMalformed, RecvInterrupted,
         StoreFails, SendAckFails, RenameFails, SyncDirsFails, Commit, RejectTransfer, Reply,
         wireVars
  <2> QED
    BY <2>1, <2>2, <2>3, <2>4, Zenon
<1>2. CASE \/ SendReady \/ SyncChunk \/ SendAck \/ Verify \/ AcceptChunk \/ Rename
           \/ \E n \in 1 .. ChunkSize : WriteBlocks(n)
  <2>1. sess # NoSession
    BY <1>2, Zenon DEF SendReady, SyncChunk, SendAck, Verify, AcceptChunk, WriteBlocks, Rename,
         Receiving, At
  <2>2. served' = served
    BY <1>2, ZenonT(30) DEF SendReady, SyncChunk, SendAck, Verify, AcceptChunk, WriteBlocks, Rename
  <2>3. c2s' = c2s \/ (HasFrame(c2s, sess.conn) /\ c2s' = Consumed(c2s, sess.conn))
    BY <1>2, ZenonT(30) DEF SendReady, SyncChunk, SendAck, Verify, AcceptChunk, WriteBlocks, Rename,
         Receiving, wireVars
  <2>4. s2c' = s2c \/ \E frame : s2c' = SendOn(s2c, sess.conn, frame)
    BY <1>2, ZenonT(30) DEF SendReady, SyncChunk, SendAck, Verify, AcceptChunk, WriteBlocks, Rename,
         wireVars
  <2>5. sess'.conn = sess.conn
    <3>1. sess \in Session
      BY <2>1, HolderFacts
    <3>2. CASE SendReady \/ SyncChunk \/ SendAck \/ Verify \/ Rename
      BY <3>1, <3>2, Zenon DEF SendReady, SyncChunk, SendAck, Verify, Rename, Session
    <3>3. CASE AcceptChunk
      BY <3>1, <3>3, Zenon DEF AcceptChunk, Session
    <3>4. CASE \E n \in 1 .. ChunkSize : WriteBlocks(n)
      BY <3>1, <3>4, Zenon DEF WriteBlocks, Session
    <3> QED
      BY <1>2, <3>2, <3>3, <3>4
  <2> QED
    BY <2>1, <2>2, <2>3, <2>4, <2>5, Zenon
<1> QED
  BY <1>1, <1>2 DEF TransferStep

(* Once its session is over, only replies count. *)
LEMMA SteadyOver ==
    ASSUME SteadyInv, UNCHANGED <<cli, source, changes>>, cli.attempt \in served',
           s2c'[cli.attempt] \in {s2c[cli.attempt], << >>}, ~Serving(cli.attempt)'
    PROVE  SteadyInv'
<1>1. ReplyInv'
  <2>1. ReplyInv /\ UNCHANGED cli
    BY DEF SteadyInv
  <2> QED
    BY <2>1 DEF ReplyInv, Talking, Single, Expected
<1>2. PendingInv' /\ MatchInv'
  BY DEF PendingInv, MatchInv
<1> QED
  BY <1>1, <1>2, SteadyQueues, Zenon

(* A frame is taken off one connection and perhaps answered on another one  *)
(* than the client's.                                                       *)
LEMMA SteadyTaken ==
    ASSUME UpInv, SteadyInv, UNCHANGED <<cli, source, changes>>, Talking,
           served \subseteq served', NEW c \in Conns,
           c2s' = c2s \/ (HasFrame(c2s, c) /\ c2s' = Consumed(c2s, c)),
           c = cli.attempt => c \notin served,
           s2c' = s2c \/ (c # cli.attempt /\ \E frame : s2c' = SendOn(s2c, c, frame)),
           Serving(cli.attempt)' => Serving(cli.attempt) /\ sess' = sess
    PROVE  SteadyInv'
<1> DEFINE a == cli.attempt
<1>1. a \in Conns /\ c2s \in [Conns -> Seq(ClientFrame)] /\ s2c \in [Conns -> Seq(ServerFrame)]
  BY UpFacts
<1>2. c2s'[a] \in {c2s[a], << >>}
  <2>1. CASE c # a \/ c2s' = c2s
    BY <1>1, <2>1 DEF Consumed
  <2>2. CASE c = a /\ c2s' # c2s
    <3>1. c2s'[a] = Tail(c2s[a]) /\ c2s[a] # << >>
      BY <1>1, <2>2 DEF Consumed, HasFrame
    <3>2. Single(c2s[a])
      BY <2>2, SteadyFacts DEF PendingInv
    <3>3. Rest(c2s'[a], c2s[a])
      BY <3>1 DEF Rest
    <3> HIDE DEF a
    <3> QED
      BY <1>1, <3>2, <3>3, SingleRest, Zenon
  <2> QED
    BY <2>1, <2>2
<1>3. s2c'[a] = s2c[a]
  BY <1>1 DEF SendOn
<1> QED
  BY <1>2, <1>3, QuietSteady

(* A session of another attempt. *)
LEMMA SteadyElsewhere ==
    ASSUME UpInv, SteadyInv, UNCHANGED <<cli, source, changes>>, Talking, TransferStep,
           sess.conn # cli.attempt
    PROVE  SteadyInv'
<1>1. /\ sess # NoSession /\ served \subseteq served'
      /\ c2s' = c2s \/ (HasFrame(c2s, sess.conn) /\ c2s' = Consumed(c2s, sess.conn))
      /\ s2c' = s2c \/ \E frame : s2c' = SendOn(s2c, sess.conn, frame)
      /\ sess' = NoSession \/ sess'.conn = sess.conn
  BY SessionWire
<1>2. sess.conn \in Conns
  BY <1>1, HolderFacts
<1>3. ~Serving(cli.attempt)'
  BY <1>1 DEF Serving
<1> QED
  BY <1>1, <1>2, <1>3, SteadyTaken

(* The client's own session ends without a reply. *)
LEMMA SteadyEnd ==
    ASSUME UpInv, SteadyInv, UNCHANGED <<cli, source, changes>>, Talking, Serving(cli.attempt),
           SendReadyFails \/ DiscardMalformed \/ RecvInterrupted \/ SendAckFails
    PROVE  SteadyInv'
<1>1. TransferStep
  BY DEF TransferStep
<1>2. /\ sess # NoSession /\ served \subseteq served'
      /\ c2s' = c2s \/ (HasFrame(c2s, sess.conn) /\ c2s' = Consumed(c2s, sess.conn))
  BY <1>1, SessionWire
<1>3. sess.conn \in Conns /\ sess.conn \notin served
  BY <1>2, HolderFacts
<1>4. s2c' = s2c /\ sess' = NoSession
  BY ZenonT(30) DEF SendReadyFails, DiscardMalformed, RecvInterrupted, SendAckFails, Interrupted,
         Return, wireVars
<1> QED
  BY <1>2, <1>3, <1>4, SteadyTaken, Zenon DEF Serving

(* The connection comes down, or the server does. *)
LEMMA SteadyLost ==
    ASSUME UpInv, SteadyInv, UNCHANGED <<cli, source, changes>>, Talking,
           \/ KillServer \/ PowerFailure
           \/ UNCHANGED serverVars /\ \E c \in Conns : CloseServed(c) \/ Break(c)
    PROVE  SteadyInv'
<1> DEFINE a == cli.attempt
<1>1. /\ a \in Conns /\ c2s \in [Conns -> Seq(ClientFrame)] /\ s2c \in [Conns -> Seq(ServerFrame)]
      /\ c2s[a] \in Seq(ClientFrame) /\ s2c[a] \in Seq(ServerFrame)
      /\ link \in [Conns -> {"closed", "up", "down"}]
  BY UpFacts
<1>2. CASE KillServer \/ PowerFailure
  <2>1. ProcessLost
    BY <1>2 DEF KillServer, PowerFailure
  <2>2. /\ c2s'[a] = << >> /\ s2c'[a] \in {s2c[a], << >>} /\ served \subseteq served'
        /\ sess' = NoSession
    BY <1>1, <2>1 DEF ProcessLost
  <2> QED
    BY <2>2, QuietSteady DEF Serving
<1>3. CASE UNCHANGED serverVars /\ \E c \in Conns : CloseServed(c) \/ Break(c)
  <2>1. PICK c \in Conns : CloseServed(c) \/ Break(c)
    BY <1>3
  <2>2. UNCHANGED <<sess, served>>
    BY <1>3 DEF serverVars
  <2>3. CASE c # a
    <3>1. c2s'[a] = c2s[a] /\ s2c'[a] = s2c[a]
      BY <1>1, <2>1, <2>3 DEF CloseServed, ServerEndClosed, Break
    <3> QED
      BY <2>2, <3>1, QuietSteady, Zenon DEF Serving
  <2>4. CASE c = a
    <3>1. Single(s2c[a]) /\ (a \notin served => Single(c2s[a]))
      BY SteadyFacts DEF ReplyInv, PendingInv
    <3>2. /\ Rest(s2c'[a], s2c[a])
          /\ a \notin served => Rest(c2s'[a], c2s[a])
      <4>1. CASE CloseServed(c)
        BY <1>1, <2>4, <4>1, Zenon DEF CloseServed, ServerEndClosed, Remainder, Rest
      <4>2. CASE Break(c)
        BY <1>1, <2>4, <4>2, Zenon DEF Break, Rest
      <4> QED
        BY <2>1, <4>1, <4>2, Zenon
    <3>3. s2c'[a] \in {s2c[a], << >>}
      BY <1>1, <3>1, <3>2, SingleRest, Zenon
    <3>4. CASE a \notin served
      <4>1. c2s'[a] \in {c2s[a], << >>}
        BY <1>1, <3>1, <3>2, <3>4, SingleRest, Zenon
      <4> QED
        BY <2>2, <3>3, <4>1, QuietSteady, Zenon DEF Serving
    <3>5. CASE a \in served
      <4>1. ~Serving(a)
        BY <3>5, UpFacts DEF HolderInv, Serving
      <4> QED
        BY <2>2, <3>3, <3>5, <4>1, SteadyOver, Zenon DEF Serving
    <3> QED
      BY <3>4, <3>5
  <2> QED
    BY <2>3, <2>4
<1> QED
  BY <1>2, <1>3

(* The request of an undisturbed upload is accepted. *)
LEMMA RequestAccepted ==
    ASSUME UpInv, SteadyInv, Undisturbed, BudgetSuffices, Talking, Dispatched(cli.attempt)
    PROVE  /\ cli.pc = "ready" /\ c2s[cli.attempt] = <<UploadRequest(Rid, 0, Metadata, "ok")>>
           /\ EarlyStatus(Head(c2s[cli.attempt])) = {}
<1> DEFINE a == cli.attempt
           request == Head(c2s[a])
<1>1. /\ a \notin served /\ c2s[a] # << >> /\ request.type = "UploadRequest"
  BY DEF Dispatched, HasFrame
<1>2. c2s[a] = <<request>> /\ Pending(request)
  BY <1>1, SteadyFacts, Zenon DEF PendingInv, Single
<1>3. cli.pc = "ready" /\ request = UploadRequest(Rid, 0, Metadata, "ok")
  <2>1. TransferComplete(Rid, Rid, TRUE).type = "TransferComplete"
    BY DEF TransferComplete
  <2> QED
    BY <1>1, <1>2, <2>1, Zenon DEF Pending
<1>4. /\ request.tid = 0 /\ request.rid = Rid /\ request.decoded = "ok"
      /\ request.meta = Metadata /\ request.meta.size = cli.size
  BY <1>3 DEF UploadRequest, Metadata
<1>5. request \in ClientFrame
  BY <1>1, SteadyFacts
<1>6. request.meta \in Metas
  BY <1>1, <1>5, FrameTypes
<1>7. cli.size = Len(source) /\ Len(source) <= MaxFileSize /\ Len(source) \in Nat
  BY <1>3, SteadyFacts DEF ReadInv, Undisturbed, Content
<1>8. WithinPartialBudget(request.meta) /\ PrepareStatus = {}
  BY <1>6 DEF BudgetSuffices, Undisturbed, PrepareStatus
<1>9. MaxFileSize \in Nat /\ Rid # 0
  BY LimitAssumption, ClientAssumption
<1> HIDE DEF request
<1>10. EarlyStatus(request) = {}
  BY <1>4, <1>7, <1>8, <1>9 DEF EarlyStatus
<1> QED
  BY <1>2, <1>3, <1>10 DEF request

(* Before a session. *)
LEMMA SteadyOutside ==
    ASSUME UpInv, SteadyInv, Undisturbed, BudgetSuffices, UNCHANGED <<cli, source, changes>>, Talking,
           NEW c \in Conns, RefuseFirstFrame(c) \/ RejectRequest(c) \/ RejectOpened(c)
    PROVE  SteadyInv'
<1>1. CASE RefuseFirstFrame(c)
  <2>1. /\ c \notin served /\ served \subseteq served' /\ UNCHANGED <<s2c, sess>>
        /\ c2s' = c2s \/ (HasFrame(c2s, c) /\ c2s' = Consumed(c2s, c))
    BY <1>1, Zenon DEF RefuseFirstFrame
  <2> QED
    BY <2>1, SteadyTaken DEF Serving
<1>2. CASE RejectRequest(c)
  <2>1. /\ Dispatched(c) /\ served \subseteq served' /\ UNCHANGED sess
        /\ \E status \in EarlyStatus(Head(c2s[c])) :
              s2c' = SendOn(s2c, c, TransferResult(Head(c2s[c]).rid, 0, ResultCodeForStatus(status)))
    BY <1>2, Zenon DEF RejectRequest, Reply
  <2>2. c # cli.attempt
    BY <2>1, RequestAccepted
  <2>3. HasFrame(c2s, c) /\ c2s' = Consumed(c2s, c) /\ \E frame : s2c' = SendOn(s2c, c, frame)
    BY <2>1, Zenon DEF Dispatched
  <2> QED
    BY <2>1, <2>2, <2>3, SteadyTaken, Zenon DEF Serving
<1>3. CASE RejectOpened(c)
  BY <1>3 DEF RejectOpened, Undisturbed
<1> QED
  BY <1>1, <1>2, <1>3, Zenon

LEMMA SteadyOpen ==
    ASSUME UpInv, SteadyInv, Undisturbed, BudgetSuffices, UNCHANGED <<cli, source, changes>>, Talking,
           NEW c \in Conns, OpenPartial(c)
    PROVE  SteadyInv'
<1> DEFINE a == cli.attempt
<1>1. /\ Dispatched(c) /\ UNCHANGED <<s2c, served>> /\ sess'.conn = c /\ sess'.pc = "ready"
      /\ sess'.rid = Head(c2s[c]).rid /\ sess'.first_chunk = TRUE
  BY ZenonT(30) DEF OpenPartial
<1>2. /\ sess = NoSession /\ c \notin served /\ HasFrame(c2s, c) /\ c2s' = Consumed(c2s, c)
  BY <1>1, Zenon DEF Dispatched
<1>3. CASE c # a
  <2>1. ~Serving(a)'
    BY <1>1, <1>3 DEF Serving
  <2> QED
    BY <1>1, <1>2, <2>1, SteadyTaken, Zenon
<1>4. CASE c = a
  <2>1. cli.pc = "ready" /\ c2s[a] = <<UploadRequest(Rid, 0, Metadata, "ok")>>
    BY <1>1, <1>4, RequestAccepted
  <2>2. sess'.rid = Rid
    <3>1. Head(c2s[a]).rid = Rid
      BY <2>1 DEF UploadRequest
    <3> QED
      BY <1>1, <1>4, <3>1
  <2>3. a \in Conns /\ c2s \in [Conns -> Seq(ClientFrame)]
    BY UpFacts
  <2>4. c2s'[a] = << >>
    <3>1. c2s'[a] = Tail(c2s[a])
      BY <1>2, <1>4, <2>3, Zenon DEF Consumed
    <3> QED
      BY <2>1, <3>1
  <2>5. s2c'[a] = << >>
    BY <1>1, <1>2, <1>4, UpFacts, Zenon DEF OpeningInv, Serving
  <2>6. ReplyInv' /\ PendingInv'
    BY <2>4, <2>5, Zenon DEF ReplyInv, PendingInv, Single
  <2>7. MatchInv'
    BY <1>1, <2>1, <2>2, <2>4, <2>5, Zenon DEF MatchInv
  <2> QED
    BY <2>6, <2>7, SteadyQueues, Zenon
<1> QED
  BY <1>3, <1>4

(* The session of the current attempt. *)
LEMMA OwnSession ==
    ASSUME UpInv, SteadyInv, Talking, Serving(cli.attempt)
    PROVE  /\ sess \in Session /\ sess.rid = Rid /\ sess.conn = cli.attempt
           /\ cli.attempt \notin served /\ sess # NoSession
           /\ sess.meta = Metadata /\ sess.meta.size = cli.size /\ sess.meta.crc = cli.crc
           /\ cli.pc \in {"ready"} \cup Sending
           /\ cli.size = Len(source) /\ cli.crc = Crc(source) /\ source \in Content
           /\ sess.checksum \in Content /\ sess.chunk \in Content /\ sess.offset \in Nat
           /\ sess.pc # "syncdirs" =>
                 sess.offset = Len(sess.checksum) /\ sess.offset <= Len(source)
<1>1. sess \in Session /\ sess # NoSession /\ sess.conn = cli.attempt /\ sess.conn \notin served
  BY HolderFacts, Zenon DEF Serving
<1>2. sess.rid = Rid
  BY SteadyFacts DEF MatchInv
<1>3. sess.meta = Metadata
  BY UpFacts DEF MetaInv
<1>4. sess.meta.size = cli.size /\ sess.meta.crc = cli.crc
  BY <1>3 DEF Metadata
<1>5. cli.pc \notin {"connect", "size", "request"}
  BY UpFacts DEF FreshInv, Fresh
<1>6. cli.pc \in {"ready"} \cup Sending
  BY <1>5, SteadyFacts DEF Client, Talking
<1>7. cli.size = Len(source) /\ cli.crc = Crc(source) /\ source \in Content
  BY <1>6, SteadyFacts DEF ReadInv
<1>8. sess.checksum \in Content /\ sess.chunk \in Content /\ sess.offset \in Nat
  BY <1>1 DEF Session
<1>9. ChecksumDescribesPartial
  BY UpFacts DEF Inv
<1>10. sess.pc # "syncdirs" => sess.offset = Len(sess.checksum) /\ sess.offset <= Len(source)
  BY <1>1, <1>4, <1>7, <1>9, Zenon DEF ChecksumDescribesPartial
<1> QED
  BY <1>1, <1>2, <1>3, <1>4, <1>6, <1>7, <1>8, <1>10, Zenon

(* Where the client is when its session is at each of its stages. *)
LEMMA OwnStage ==
    ASSUME UpInv, SteadyInv, Talking, Serving(cli.attempt)
    PROVE  /\ sess.pc = "ready" =>
                 cli.pc = "ready" /\ c2s[cli.attempt] = << >> /\ s2c[cli.attempt] = << >> /\ sess.first_chunk
           /\ sess.pc \in {"write", "sync", "ack"} =>
                 cli.pc = "ack" /\ c2s[cli.attempt] = << >> /\ s2c[cli.attempt] = << >>
           /\ sess.pc = "write" =>
                 /\ sess.offset + Len(sess.chunk) = cli.offset
                 /\ Agrees(sess.checksum \o sess.chunk)
           /\ sess.pc \in {"sync", "ack"} => ReadyFor(cli.offset) /\ sess.offset = cli.offset
           /\ sess.pc \in {"rename", "syncdirs"} =>
                 cli.pc = "result" /\ c2s[cli.attempt] = << >> /\ s2c[cli.attempt] = << >>
           /\ sess.pc = "loop" /\ c2s[cli.attempt] # << >> =>
                 /\ cli.pc \in {"ack", "result"} /\ s2c[cli.attempt] = << >>
                 /\ c2s[cli.attempt] = <<Head(c2s[cli.attempt])>> /\ Pending(Head(c2s[cli.attempt]))
                 /\ cli.pc = "ack" => ReadyFor(Head(c2s[cli.attempt]).offset)
                 /\ cli.pc = "result" => Complete
<1>1. cli.pc \in {"ready"} \cup Sending /\ cli.attempt \notin served
  BY OwnSession
<1>2. MatchInv /\ PendingInv
  BY SteadyFacts, Zenon
<1>3. c2s[cli.attempt] # << >> =>
         /\ c2s[cli.attempt] = <<Head(c2s[cli.attempt])>> /\ Pending(Head(c2s[cli.attempt]))
         /\ cli.pc \in {"ready", "ack", "result"}
  BY <1>1, <1>2, Zenon DEF PendingInv, Single, Pending
<1> QED
  BY <1>1, <1>2, <1>3 DEF MatchInv, Sending

(* Further blocks of the source keep what is received in agreement. *)
LEMMA ChunkAgrees ==
    ASSUME CrcStreams, source \in Content, NEW data \in Content, Len(data) <= Len(source), Agrees(data),
           NEW e \in Len(data) .. Len(source)
    PROVE  /\ Len(data \o SubSeq(source, Len(data) + 1, e)) = e
           /\ Agrees(data \o SubSeq(source, Len(data) + 1, e))
<1> DEFINE n == Len(data)
           more == SubSeq(source, n + 1, e)
           prefix == SubSeq(source, 1, n)
<1>1. n \in Nat /\ e \in Nat /\ e <= Len(source) /\ Len(source) \in Nat /\ n \in 0 .. Len(source) /\ n <= e
  BY DEF Content
<1>2. prefix \in Content /\ Len(prefix) = n
  BY <1>1 DEF Content
<1>3. more \in Content /\ Len(more) = e - n
  BY <1>1 DEF Content
<1>4. Len(data \o more) = e
  BY <1>1, <1>3 DEF Content
<1>5. Crc(data) = Crc(prefix)
  BY DEF Agrees
<1>6. prefix \o more = SubSeq(source, 1, e)
  BY <1>1, ChunkSplit, Zenon
<1> HIDE DEF prefix, more
<1>7. Crc(data \o more) = Crc(prefix \o more)
  BY <1>2, <1>3, <1>5 DEF CrcStreams, n
<1> QED
  BY <1>4, <1>6, <1>7, Zenon DEF Agrees, more

LEMMA NothingAgrees ==
    ASSUME source \in Content
    PROVE  Agrees(<< >>)
<1>1. SubSeq(source, 1, 0) = << >>
  BY DEF Content
<1> QED
  BY <1>1, Zenon DEF Agrees

(* A chunk that the client sends is the one the server is ready for. *)
LEMMA ChunkFits ==
    ASSUME UpInv, SteadyInv, Undisturbed, Talking, Serving(cli.attempt), sess.pc = "loop",
           c2s[cli.attempt] # << >>, cli.pc = "ack"
    PROVE  LET frame == Head(c2s[cli.attempt])
               base == IF Restarts(frame) THEN 0 ELSE sess.offset
               held == IF Restarts(frame) THEN << >> ELSE sess.checksum
           IN  /\ frame.type = "FileChunk" /\ frame.rid = Rid /\ frame.tid = Rid
               /\ frame.offset = base /\ frame.data \in Content /\ frame.data # << >>
               /\ Len(frame.data) <= ChunkSize /\ Len(frame.data) <= cli.size - base
               /\ base + Len(frame.data) = cli.offset
               /\ Agrees(held \o frame.data)
<1> DEFINE frame == Head(c2s[cli.attempt])
           base == IF Restarts(frame) THEN 0 ELSE sess.offset
           held == IF Restarts(frame) THEN << >> ELSE sess.checksum
<1>1. Pending(frame) /\ ReadyFor(frame.offset)
  BY OwnStage, Zenon
<1>2. /\ frame.type = "FileChunk" /\ frame.rid = Rid /\ frame.tid = Rid
      /\ frame.offset < cli.offset /\ cli.offset <= frame.offset + ChunkSize
      /\ frame.data = SubSeq(source, frame.offset + 1, cli.offset)
  BY <1>1 DEF Pending
<1>3. frame \in ClientFrame
  BY SteadyFacts
<1>4. frame.offset \in Nat /\ cli.offset \in Nat /\ ChunkSize \in Nat /\ frame.data \in Content
  BY <1>2, <1>3, FrameTypes, SteadyFacts, LimitAssumption, Zenon DEF Client
<1>5. /\ source \in Content /\ cli.size = Len(source) /\ cli.offset <= cli.size
      /\ sess.checksum \in Content /\ sess.offset = Len(sess.checksum) /\ Len(source) \in Nat
      /\ sess.offset \in Nat
  BY OwnSession, SteadyFacts DEF ReadInv, Sending, Content
<1> HIDE DEF frame
<1>6. frame.offset = base
  BY <1>1, <1>4, <1>5, Zenon DEF ReadyFor, Restarts
<1>7. Len(held) = base /\ held \in Content /\ Agrees(held)
  <2>1. << >> \in Content /\ Len(<< >>) = 0
    BY DEF Content
  <2>2. CASE Restarts(frame)
    BY <1>5, <2>1, <2>2, NothingAgrees
  <2>3. CASE ~Restarts(frame)
    <3>1. Agrees(sess.checksum)
      BY <1>1, <1>4, <1>5, <2>3, Zenon DEF ReadyFor, Restarts
    <3> QED
      BY <1>5, <2>3, <3>1
  <2> QED
    BY <2>2, <2>3
<1> HIDE DEF held, base
<1>8. cli.offset \in Len(held) .. Len(source) /\ Len(held) <= Len(source)
  BY <1>2, <1>4, <1>5, <1>6, <1>7
<1>9. Agrees(held \o frame.data)
  <2>1. Agrees(held \o SubSeq(source, Len(held) + 1, cli.offset))
    BY <1>5, <1>7, <1>8, ChunkAgrees, Zenon DEF Undisturbed
  <2> QED
    BY <1>2, <1>6, <1>7, <2>1, Zenon
<1>10. Len(frame.data) = cli.offset - frame.offset
  BY <1>2, <1>4, <1>5 DEF Content
<1>11. /\ frame.data # << >> /\ Len(frame.data) <= ChunkSize /\ Len(frame.data) <= cli.size - base
       /\ base + Len(frame.data) = cli.offset
  <2> DEFINE n == Len(frame.data)
             o == frame.offset
  <2>1. frame.data = << >> => n = 0
    OBVIOUS
  <2>2. n = cli.offset - o /\ o = base /\ o < cli.offset /\ cli.offset <= o + ChunkSize
    BY <1>2, <1>6, <1>10, Zenon
  <2>3. o \in Nat
    BY <1>4
  <2> HIDE DEF n, o
  <2>4. n # 0 /\ n <= ChunkSize /\ n <= cli.size - base /\ base + n = cli.offset
    BY <1>4, <1>5, <2>2, <2>3
  <2> QED
    BY <2>1, <2>4 DEF n
<1> QED
  BY <1>2, <1>4, <1>6, <1>9, <1>11, Zenon DEF frame, base, held

(* The end of the transfer comes when the checksum is the declared one. *)
LEMMA CompleteFits ==
    ASSUME UpInv, SteadyInv, Talking, Serving(cli.attempt), sess.pc = "loop", Complete
    PROVE  sess.offset = sess.meta.size /\ Crc(sess.checksum) = sess.meta.crc
<1>1. /\ sess.offset = cli.size /\ Agrees(sess.checksum)
      /\ source \in Content /\ cli.size = Len(source) /\ cli.crc = Crc(source)
      /\ sess.meta.size = cli.size /\ sess.meta.crc = cli.crc /\ sess.offset = Len(sess.checksum)
  BY OwnSession DEF Complete
<1>2. SubSeq(source, 1, Len(source)) = source
  BY <1>1 DEF Content
<1> QED
  BY <1>1, <1>2, Zenon DEF Agrees

(* No frame of an undisturbed upload is rejected. *)
LEMMA FrameAccepted ==
    ASSUME UpInv, SteadyInv, Undisturbed, Talking, Serving(cli.attempt), Receiving
    PROVE  FrameStatus(Incoming) = {}
<1> DEFINE frame == Head(c2s[cli.attempt])
<1>1. /\ sess.conn = cli.attempt /\ sess.rid = Rid /\ sess.meta.size = cli.size /\ ~StorageFaults
  BY OwnSession DEF Undisturbed
<1>2. sess.pc = "loop" /\ c2s[cli.attempt] # << >> /\ Incoming = frame
  BY <1>1, Zenon DEF Receiving, At, HasFrame, Incoming
<1>3. cli.pc \in {"ack", "result"} /\ Pending(frame)
  BY <1>2, OwnStage
<1>4. CASE cli.pc = "ack"
  <2> DEFINE base == IF Restarts(frame) THEN 0 ELSE sess.offset
  <2>1. /\ frame.type = "FileChunk" /\ frame.rid = Rid /\ frame.tid = Rid
        /\ frame.offset = base /\ frame.data \in Content /\ frame.data # << >>
        /\ Len(frame.data) <= ChunkSize /\ Len(frame.data) <= cli.size - base
    BY <1>2, <1>4, ChunkFits, Zenon
  <2>2. sess.offset \in Nat /\ cli.size \in Nat /\ ChunkSize \in Nat /\ Len(frame.data) \in Nat
    <3>1. sess.offset \in Nat /\ cli.size = Len(source) /\ source \in Seq(Block)
      BY OwnSession, Zenon DEF Content
    <3>2. frame.data \in Seq(Block)
      BY <2>1, Zenon DEF Content
    <3> HIDE DEF frame
    <3> QED
      BY <3>1, <3>2, LimitAssumption
  <2> HIDE DEF frame
  <2>3. /\ ~(Len(frame.data) > ChunkSize) /\ ~(Len(frame.data) > sess.meta.size - base)
    BY <1>1, <2>1, <2>2
  <2>4. ChunkStatus(frame) = {}
    BY <1>1, <2>1, <2>3, Zenon DEF ChunkStatus
  <2> QED
    BY <1>1, <1>2, <2>1, <2>4, Zenon DEF FrameStatus
<1>5. CASE cli.pc = "result"
  <2>1. frame = TransferComplete(Rid, Rid, TRUE) /\ Complete
    BY <1>2, <1>3, <1>5, OwnStage, Zenon DEF Pending
  <2>2. /\ frame.type = "TransferComplete" /\ frame.rid = Rid /\ frame.tid = Rid /\ frame.bare = TRUE
    BY <2>1 DEF TransferComplete
  <2>3. sess.offset = sess.meta.size /\ Crc(sess.checksum) = sess.meta.crc
    BY <1>2, <2>1, CompleteFits, Zenon
  <2> HIDE DEF frame
  <2>4. CompleteStatus(frame) = {}
    BY <1>1, <2>2, <2>3, Zenon DEF CompleteStatus
  <2> QED
    BY <1>1, <1>2, <2>2, <2>4, Zenon DEF FrameStatus
<1> QED
  BY <1>3, <1>4, <1>5, Zenon

(* A reply on the client's connection, which was empty. *)
LEMMA Replied ==
    ASSUME UpInv, s2c[cli.attempt] = << >>, NEW frame, s2c' = SendOn(s2c, cli.attempt, frame)
    PROVE  s2c'[cli.attempt] \in {<< >>, <<frame>>}
<1>1. cli.attempt \in Conns /\ s2c \in [Conns -> Seq(ServerFrame)]
  BY UpFacts
<1>2. s2c'[cli.attempt] = s2c[cli.attempt] \/ s2c'[cli.attempt] = Append(s2c[cli.attempt], frame)
  BY <1>1 DEF SendOn
<1>3. Append(<< >>, frame) = <<frame>>
  OBVIOUS
<1> QED
  BY <1>2, <1>3, Zenon

LEMMA OwnReady ==
    ASSUME UpInv, SteadyInv, Talking, Serving(cli.attempt), SendReady,
           UNCHANGED <<cli, source, changes>>
    PROVE  SteadyInv'
<1> DEFINE a == cli.attempt
           frame == TransferReady(Rid, Rid, sess.offset, Crc(sess.checksum))
<1>1. /\ sess \in Session /\ sess.rid = Rid /\ sess.conn = a /\ cli.size = Len(source)
      /\ sess.pc # "syncdirs" => sess.offset = Len(sess.checksum) /\ sess.offset <= Len(source)
  BY OwnSession
<1>2. /\ sess.pc = "ready" /\ s2c' = SendOn(s2c, a, frame) /\ UNCHANGED <<c2s, served>>
      /\ sess' = [sess EXCEPT !.pc = "loop"]
  BY <1>1 DEF SendReady, At
<1>3. cli.pc = "ready" /\ c2s[a] = << >> /\ s2c[a] = << >> /\ sess.first_chunk
  BY <1>2, OwnStage
<1>4. s2c'[a] \in {<< >>, <<frame>>}
  BY <1>2, <1>3, Replied, Zenon
<1>5. /\ sess'.pc = "loop" /\ sess'.first_chunk /\ sess'.rid = Rid
      /\ sess'.offset = sess.offset /\ sess'.checksum = sess.checksum
  BY <1>1, <1>2, <1>3, Zenon DEF Session
<1>6. Expected(frame)
  <2>1. sess.offset = 0 => Crc(sess.checksum) = 0
    <3>1. sess.checksum \in Content /\ sess.offset = Len(sess.checksum)
      BY <1>1, <1>2 DEF Session
    <3>2. sess.offset = 0 => sess.checksum = << >>
      BY <3>1, EmptySeq, Zenon DEF Content
    <3> QED
      BY <3>2, ClientAssumption
  <2>2. sess.offset <= cli.size
    BY <1>1, <1>2, Zenon
  <2> QED
    BY <1>3, <2>1, <2>2, Zenon DEF Expected, TransferReady
<1> HIDE DEF frame
<1>7. ReplyInv'
  <2>1. CASE s2c'[a] = << >>
    BY <2>1, Zenon DEF ReplyInv, Single
  <2>2. CASE s2c'[a] = <<frame>>
    <3>1. Head(s2c'[a]) = frame
      BY <2>2
    <3>2. Single(s2c'[a])
      BY <2>2, <3>1 DEF Single
    <3> QED
      BY <1>6, <3>1, <3>2, Zenon DEF ReplyInv, Single, Expected
  <2> QED
    BY <1>4, <2>1, <2>2, Zenon
<1>8. PendingInv'
  BY <1>2, <1>3 DEF PendingInv, Single
<1>9. MatchInv'
  BY <1>2, <1>3, <1>4, <1>5, Zenon DEF MatchInv, frame
<1> QED
  BY <1>7, <1>8, <1>9, SteadyQueues, Zenon

(* The chunk is taken; from here to its acknowledgment the client waits. *)
LEMMA OwnAccept ==
    ASSUME UpInv, SteadyInv, Undisturbed, Talking, Serving(cli.attempt), AcceptChunk,
           UNCHANGED <<cli, source, changes>>
    PROVE  SteadyInv'
<1> DEFINE a == cli.attempt
           frame == Head(c2s[a])
           base == IF Restarts(frame) THEN 0 ELSE sess.offset
           held == IF Restarts(frame) THEN << >> ELSE sess.checksum
<1>1. /\ sess \in Session /\ sess.rid = Rid /\ sess.conn = a
      /\ a \in Conns /\ c2s \in [Conns -> Seq(ClientFrame)]
  BY OwnSession, UpFacts, Zenon
<1>2. sess.pc = "loop" /\ c2s[a] # << >> /\ Incoming = frame
  BY <1>1 DEF AcceptChunk, Receiving, At, HasFrame, Incoming
<1>3. /\ frame.type = "FileChunk" /\ UNCHANGED <<s2c, served>> /\ c2s' = Consumed(c2s, a)
      /\ sess' = [sess EXCEPT
                     !.pc = "write", !.chunk = frame.data, !.written = 0,
                     !.first_chunk = FALSE, !.offset = base, !.checksum = held,
                     !.position = IF Restarts(frame) THEN 0 ELSE @]
  BY <1>1, <1>2, Zenon DEF AcceptChunk, Receiving, OfTransfer
<1>4. cli.pc = "ack" /\ c2s[a] = <<frame>> /\ s2c[a] = << >>
  <2>1. cli.pc \in {"ack", "result"} /\ c2s[a] = <<frame>> /\ s2c[a] = << >> /\ Pending(frame)
    BY <1>2, OwnStage, Zenon
  <2>2. cli.pc # "result"
    <3>1. cli.pc = "result" => frame = TransferComplete(Rid, Rid, TRUE)
      BY <2>1, Zenon DEF Pending
    <3>2. TransferComplete(Rid, Rid, TRUE).type = "TransferComplete"
      BY Zenon DEF TransferComplete
    <3> QED
      BY <1>3, <3>1, <3>2, Zenon
  <2> QED
    BY <2>1, <2>2, Zenon
<1>5. base + Len(frame.data) = cli.offset /\ Agrees(held \o frame.data)
  BY <1>2, <1>4, ChunkFits, Zenon
<1> HIDE DEF base, held
<1>6. /\ sess'.pc = "write" /\ sess'.rid = Rid /\ sess'.offset = base /\ sess'.checksum = held
      /\ sess'.chunk = frame.data
  BY <1>1, <1>3, Zenon DEF Session
<1>7. c2s'[a] = << >>
  <2>1. c2s'[a] = Tail(c2s[a])
    BY <1>1, <1>3, Zenon DEF Consumed
  <2> HIDE DEF frame
  <2> QED
    BY <1>4, <2>1
<1> HIDE DEF frame
<1>8. s2c'[a] = << >>
  BY <1>3, <1>4
<1>9. ReplyInv' /\ PendingInv'
  BY <1>7, <1>8, Zenon DEF ReplyInv, PendingInv, Single
<1>10. MatchInv'
  BY <1>4, <1>5, <1>6, <1>7, <1>8, Zenon DEF MatchInv, Agrees
<1> QED
  BY <1>9, <1>10, SteadyQueues, Zenon

LEMMA OwnWrite ==
    ASSUME UpInv, SteadyInv, Talking, Serving(cli.attempt), NEW n \in 1 .. ChunkSize, WriteBlocks(n),
           UNCHANGED <<cli, source, changes>>
    PROVE  SteadyInv'
<1> DEFINE a == cli.attempt
           last == sess.written + n = Len(sess.chunk)
<1>1. sess \in Session /\ sess.rid = Rid
  BY OwnSession
<1>2. /\ sess.pc = "write" /\ UNCHANGED <<c2s, s2c, served>>
      /\ sess' = [sess EXCEPT
                     !.written = @ + n, !.position = @ + n,
                     !.pc = IF last THEN "sync" ELSE "write",
                     !.checksum = IF last THEN @ \o sess.chunk ELSE @,
                     !.offset = IF last THEN @ + Len(sess.chunk) ELSE @]
  BY DEF WriteBlocks, At, wireVars
<1>3. /\ cli.pc = "ack" /\ c2s[a] = << >> /\ s2c[a] = << >>
      /\ sess.offset + Len(sess.chunk) = cli.offset /\ Agrees(sess.checksum \o sess.chunk)
  BY <1>2, OwnStage
<1> HIDE DEF last
<1>4. /\ sess'.pc = IF last THEN "sync" ELSE "write"
      /\ sess'.checksum = IF last THEN sess.checksum \o sess.chunk ELSE sess.checksum
      /\ sess'.offset = IF last THEN sess.offset + Len(sess.chunk) ELSE sess.offset
      /\ sess'.rid = Rid /\ sess'.chunk = sess.chunk
  BY <1>1, <1>2, ZenonT(30) DEF Session
<1>5. ReplyInv' /\ PendingInv'
  BY <1>2, <1>3, Zenon DEF ReplyInv, PendingInv, Single
<1>6. MatchInv'
  <2>1. CASE last
    BY <1>2, <1>3, <1>4, <2>1, Zenon DEF MatchInv, Agrees, ReadyFor
  <2>2. CASE ~last
    BY <1>2, <1>3, <1>4, <2>2, Zenon DEF MatchInv, Agrees
  <2> QED
    BY <2>1, <2>2
<1> QED
  BY <1>5, <1>6, SteadyQueues, Zenon

LEMMA OwnSync ==
    ASSUME UpInv, SteadyInv, Talking, Serving(cli.attempt), SyncChunk,
           UNCHANGED <<cli, source, changes>>
    PROVE  SteadyInv'
<1> DEFINE a == cli.attempt
<1>1. sess \in Session /\ sess.rid = Rid
  BY OwnSession
<1>2. sess.pc = "sync" /\ UNCHANGED <<c2s, s2c, served>> /\ sess' = [sess EXCEPT !.pc = "ack"]
  BY DEF SyncChunk, At, wireVars
<1>3. /\ cli.pc = "ack" /\ c2s[a] = << >> /\ s2c[a] = << >>
      /\ ReadyFor(cli.offset) /\ sess.offset = cli.offset
  BY <1>2, OwnStage, Zenon
<1>4. /\ sess'.pc = "ack" /\ sess'.rid = Rid /\ sess'.offset = sess.offset
      /\ sess'.checksum = sess.checksum /\ sess'.first_chunk = sess.first_chunk
  BY <1>1, <1>2 DEF Session
<1>5. ReplyInv' /\ PendingInv'
  BY <1>2, <1>3, Zenon DEF ReplyInv, PendingInv, Single
<1>6. MatchInv'
  BY <1>2, <1>3, <1>4, Zenon DEF MatchInv, Agrees, ReadyFor
<1> QED
  BY <1>5, <1>6, SteadyQueues, Zenon

LEMMA OwnAck ==
    ASSUME UpInv, SteadyInv, Talking, Serving(cli.attempt), SendAck,
           UNCHANGED <<cli, source, changes>>
    PROVE  SteadyInv'
<1> DEFINE a == cli.attempt
           frame == Acknowledgment(Rid, Rid, cli.offset)
<1>1. sess \in Session /\ sess.rid = Rid /\ sess.conn = a
  BY OwnSession
<1>2. /\ sess.pc = "ack" /\ UNCHANGED <<c2s, served>>
      /\ s2c' = SendOn(s2c, a, Acknowledgment(Rid, Rid, sess.offset))
      /\ sess' = [sess EXCEPT !.pc = "loop", !.chunk = << >>, !.written = 0]
  BY <1>1 DEF SendAck, At
<1>3. /\ cli.pc = "ack" /\ c2s[a] = << >> /\ s2c[a] = << >>
      /\ ReadyFor(cli.offset) /\ sess.offset = cli.offset
  BY <1>2, OwnStage, Zenon
<1>4. s2c'[a] \in {<< >>, <<frame>>}
  BY <1>2, <1>3, Replied, Zenon
<1>5. /\ sess'.pc = "loop" /\ sess'.rid = Rid /\ sess'.offset = sess.offset
      /\ sess'.checksum = sess.checksum /\ sess'.first_chunk = sess.first_chunk
  BY <1>1, <1>2 DEF Session
<1>6. ReplyInv'
  <2>1. CASE s2c'[a] = << >>
    BY <2>1 DEF ReplyInv, Single
  <2>2. CASE s2c'[a] = <<frame>>
    <3> HIDE DEF frame
    <3>1. Head(s2c'[a]) = frame
      BY <2>2
    <3>2. Single(s2c'[a])
      BY <2>2, <3>1 DEF Single
    <3> QED
      BY <1>3, <3>1, <3>2, Zenon DEF ReplyInv, Single, Expected, frame
  <2> QED
    BY <1>4, <2>1, <2>2, Zenon
<1>7. PendingInv'
  BY <1>2, <1>3, Zenon DEF PendingInv, Single
<1>8. MatchInv'
  BY <1>2, <1>3, <1>5, Zenon DEF MatchInv, Agrees, ReadyFor
<1> QED
  BY <1>6, <1>7, <1>8, SteadyQueues

(* The end of the transfer is verified, and the file renamed. *)
LEMMA OwnVerify ==
    ASSUME UpInv, SteadyInv, Talking, Serving(cli.attempt), Verify \/ Rename,
           UNCHANGED <<cli, source, changes>>
    PROVE  SteadyInv'
<1> DEFINE a == cli.attempt
           frame == Head(c2s[a])
<1>1. /\ sess \in Session /\ sess.rid = Rid /\ sess.conn = a
      /\ a \in Conns /\ c2s \in [Conns -> Seq(ClientFrame)]
  BY OwnSession, UpFacts, Zenon
<1>2. UNCHANGED <<s2c, served>> /\ \E pc \in {"rename", "syncdirs"} : sess' = [sess EXCEPT !.pc = pc]
  BY DEF Verify, Rename, wireVars
<1>3. cli.pc = "result" /\ s2c[a] = << >> /\ c2s'[a] = << >>
  <2>1. CASE Verify
    <3>1. /\ sess.pc = "loop" /\ c2s[a] # << >> /\ c2s' = Consumed(c2s, a)
          /\ frame.type = "TransferComplete"
      BY <1>1, <2>1, Zenon DEF Verify, Receiving, At, HasFrame, Incoming, OfTransfer
    <3>2. cli.pc = "result" /\ c2s[a] = <<frame>> /\ s2c[a] = << >>
      BY <3>1, OwnStage, Zenon DEF Pending
    <3>3. c2s'[a] = Tail(c2s[a])
      BY <1>1, <3>1, Zenon DEF Consumed
    <3> HIDE DEF frame
    <3> QED
      BY <3>2, <3>3
  <2>2. CASE Rename
    <3>1. sess.pc = "rename" /\ c2s' = c2s
      BY <2>2 DEF Rename, At, wireVars
    <3> QED
      BY <3>1, OwnStage
  <2> QED
    BY <2>1, <2>2, Zenon
<1>4. sess'.pc \in {"rename", "syncdirs"} /\ sess'.rid = Rid
  BY <1>1, <1>2 DEF Session
<1>5. ReplyInv' /\ PendingInv'
  BY <1>2, <1>3 DEF ReplyInv, PendingInv, Single
<1>6. MatchInv'
  BY <1>2, <1>3, <1>4, Zenon DEF MatchInv
<1> QED
  BY <1>5, <1>6, SteadyQueues, Zenon

LEMMA OwnCommit ==
    ASSUME UpInv, SteadyInv, Talking, Serving(cli.attempt), Commit,
           UNCHANGED <<cli, source, changes>>
    PROVE  SteadyInv'
<1> DEFINE a == cli.attempt
           frame == TransferResult(Rid, Rid, "Success")
<1>1. sess.rid = Rid /\ sess.conn = a
  BY OwnSession
<1>2. /\ sess.pc = "syncdirs" /\ s2c' = SendOn(s2c, a, frame)
      /\ sess' = NoSession /\ a \in served'
  BY <1>1, Zenon DEF Commit, At, Return, Reply
<1>3. cli.pc = "result" /\ s2c[a] = << >>
  BY <1>2, OwnStage, Zenon
<1>4. s2c'[a] \in {<< >>, <<frame>>}
  BY <1>2, <1>3, Replied, Zenon
<1>5. ReplyInv'
  <2>1. CASE s2c'[a] = << >>
    BY <2>1 DEF ReplyInv, Single
  <2>2. CASE s2c'[a] = <<frame>>
    <3> HIDE DEF frame
    <3>1. Head(s2c'[a]) = frame
      BY <2>2
    <3>2. Single(s2c'[a])
      BY <2>2, <3>1, Zenon DEF Single
    <3> QED
      BY <1>3, <3>1, <3>2, Zenon DEF ReplyInv, Single, Expected, frame
  <2> QED
    BY <1>4, <2>1, <2>2, Zenon
<1>6. PendingInv' /\ MatchInv'
  BY <1>2, Zenon DEF PendingInv, MatchInv, Serving
<1> QED
  BY <1>5, <1>6, SteadyQueues, Zenon

LEMMA SteadyServer ==
    ASSUME UpInv, SteadyInv, Undisturbed, BudgetSuffices, UNCHANGED <<cli, source, changes>>,
           \/ ServerStep \/ KillServer \/ PowerFailure
           \/ (UNCHANGED serverVars /\ \E c \in Conns : Break(c))
    PROVE  SteadyInv'
<1>1. CASE ~Talking
  BY <1>1, SteadySilent
<1>2. CASE Talking /\ \E c \in Conns : RefuseFirstFrame(c) \/ RejectRequest(c) \/ RejectOpened(c)
  BY <1>2, SteadyOutside, Zenon
<1>3. CASE Talking /\ \E c \in Conns : OpenPartial(c)
  BY <1>3, SteadyOpen, Zenon
<1>4. CASE Talking /\ \/ KillServer \/ PowerFailure
                      \/ \E c \in Conns : CloseServed(c)
                      \/ (UNCHANGED serverVars /\ \E c \in Conns : Break(c))
  <2>1. \/ KillServer \/ PowerFailure
        \/ UNCHANGED serverVars /\ \E c \in Conns : CloseServed(c) \/ Break(c)
    BY <1>4, Zenon DEF CloseServed
  <2> QED
    BY <1>4, <2>1, SteadyLost, Zenon
<1>5. CASE Talking /\ TransferStep
  <2>1. sess # NoSession
    BY <1>5, SessionWire
  <2>2. CASE sess.conn # cli.attempt
    BY <1>5, <2>2, SteadyElsewhere, Zenon
  <2>3. CASE sess.conn = cli.attempt
    <3>1. Serving(cli.attempt)
      BY <2>1, <2>3, Zenon DEF Serving
    <3>2. ~RejectFrame /\ ~StoreFails /\ ~RenameFails /\ ~SyncDirsFails
      BY <1>5, <3>1, FrameAccepted, Zenon DEF RejectFrame, StoreFails, RenameFails, SyncDirsFails, Undisturbed
    <3> QED
      BY <1>5, <3>1, <3>2, SteadyEnd, OwnReady, OwnAccept, OwnWrite, OwnSync, OwnAck, OwnVerify,
         OwnCommit, Zenon DEF TransferStep
  <2> QED
    BY <2>2, <2>3, Zenon
<1> QED
  BY <1>1, <1>2, <1>3, <1>4, <1>5, Zenon DEF ServerStep
-----------------------------------------------------------------------------
(* The client of an undisturbed upload.                                     *)

LEMMA SteadyEnds ==
    ASSUME UpInv, SteadyInv, UNCHANGED <<source, changes>>,
           NEW status \in {"Success", "FrameIoError"}, Ends(status)
    PROVE  SteadyInv'
<1>1. cli'.pc = "close" /\ cli'.status = status
  BY UpFacts DEF Ends, Client
<1> QED
  BY <1>1, Zenon DEF SteadyInv, StableSourceNeverRejected, ReadInv, ReplyInv, PendingInv, MatchInv,
              Talking, Sending

(* Before the request. *)
LEMMA SteadyFresh ==
    ASSUME UpInv', changes' \in Nat, cli'.pc \in {"connect", "size", "request"},
           cli'.status \in {"none", "Success", "FrameIoError"},
           cli'.pc = "request" => cli'.size = Len(source')
    PROVE  SteadyInv'
<1>1. (FreshInv /\ cli.attempt \in Conns)'
  BY DEF UpInv, Types, Client
<1>2. Fresh(cli.attempt)'
  BY <1>1, Zenon DEF FreshInv
<1>3. ReplyInv' /\ PendingInv' /\ MatchInv'
  BY <1>2 DEF Fresh, ReplyInv, PendingInv, MatchInv, Single
<1> QED
  BY <1>3 DEF SteadyInv, StableSourceNeverRejected, ReadInv, Sending

LEMMA SteadyBegins ==
    ASSUME UpInv, SteadyInv, Undisturbed, UpInv', UNCHANGED changes, UNCHANGED serverVars,
           Connect \/ ReadSize \/ ConnectFails \/ ClientIoFails \/ CloseAttempt
    PROVE  SteadyInv'
<1>1. /\ cli \in Client /\ source \in Sources /\ source' = source /\ changes' \in Nat
      /\ cli.status \in {"none", "Success", "FrameIoError"}
  BY SteadyFacts DEF SteadyInv, StableSourceNeverRejected, Connect, ReadSize, ConnectFails,
                     ClientIoFails, CloseAttempt
<1>2. CASE ConnectFails \/ ClientIoFails
  <2>1. Ends("FrameIoError")
    BY <1>2 DEF ConnectFails, ClientIoFails
  <2> QED
    BY <1>1, <2>1, SteadyEnds, Zenon
<1>3. CASE Connect
  <2>1. cli'.pc = "size" /\ cli'.status = cli.status
    BY <1>1, <1>3, Zenon DEF Connect, Client
  <2> QED
    BY <1>1, <2>1, SteadyFresh, Zenon
<1>4. CASE ReadSize
  <2>1. ~(Len(source) > MaxFileSize)
    <3>1. Len(source) \in Nat /\ Len(source) <= MaxFileSize /\ MaxFileSize \in Nat
      BY <1>1, ClientAssumption, LimitAssumption DEF Undisturbed, Content
    <3> QED
      BY <3>1
  <2>2. cli' = [cli EXCEPT !.pc = "request", !.size = Len(source)]
    BY <1>4, <2>1 DEF ReadSize
  <2>3. cli'.pc = "request" /\ cli'.status = cli.status /\ cli'.size = Len(source)
    BY <1>1, <2>2, Zenon DEF Client
  <2> QED
    BY <1>1, <2>3, SteadyFresh, Zenon
<1>5. CASE CloseAttempt
  <2>1. cli'.pc \in {"connect", "done"} /\ cli'.status = cli.status
    BY <1>1, <1>5 DEF CloseAttempt, Client
  <2>2. CASE cli'.pc = "connect"
    BY <1>1, <2>1, <2>2, SteadyFresh, Zenon
  <2>3. CASE cli'.pc = "done"
    BY <1>1, <2>1, <2>3, Zenon DEF SteadyInv, StableSourceNeverRejected, ReadInv, ReplyInv, PendingInv,
                            MatchInv, Talking, Sending
  <2> QED
    BY <2>1, <2>2, <2>3, Zenon
<1> QED
  BY <1>2, <1>3, <1>4, <1>5, Zenon

(* A frame on the client's connection, which was empty. *)
LEMMA Sent ==
    ASSUME UpInv, c2s[cli.attempt] = << >>, NEW frame, c2s' = SendOn(c2s, cli.attempt, frame)
    PROVE  c2s'[cli.attempt] \in {<< >>, <<frame>>}
<1>1. cli.attempt \in Conns /\ c2s \in [Conns -> Seq(ClientFrame)]
  BY UpFacts
<1>2. c2s'[cli.attempt] = c2s[cli.attempt] \/ c2s'[cli.attempt] = Append(c2s[cli.attempt], frame)
  BY <1>1 DEF SendOn
<1>3. Append(<< >>, frame) = <<frame>>
  OBVIOUS
<1> QED
  BY <1>2, <1>3, Zenon

LEMMA OneFrame ==
    ASSUME NEW frame, NEW queue \in {<< >>, <<frame>>}
    PROVE  Single(queue) /\ (queue # << >> => Head(queue) = frame)
<1>1. Head(<<frame>>) = frame
  OBVIOUS
<1> QED
  BY <1>1, Zenon DEF Single

LEMMA SteadyRequest ==
    ASSUME UpInv, SteadyInv, UNCHANGED changes, UNCHANGED serverVars, SendRequest
    PROVE  SteadyInv'
<1> DEFINE a == cli.attempt
           frame == UploadRequest(Rid, 0, Metadata', "ok")
<1>1. /\ cli \in Client /\ a \in Conns /\ FreshInv /\ ReadInv
  BY UpFacts, SteadyFacts
<1>2. /\ cli.pc = "request" /\ cli' = [cli EXCEPT !.pc = "ready", !.crc = Crc(source)]
      /\ c2s' = SendOn(c2s, a, UploadRequest(Rid, 0, [Metadata EXCEPT !.crc = Crc(source)], "ok"))
      /\ UNCHANGED <<s2c, source, sess, served>>
  BY DEF SendRequest, ClientAt, ClientSends, Connection, serverVars
<1>3. /\ cli'.pc = "ready" /\ cli'.attempt = a /\ cli'.size = cli.size
      /\ cli'.crc = Crc(source) /\ cli'.status = cli.status
  BY <1>1, <1>2 DEF Client
<1>4. [Metadata EXCEPT !.crc = Crc(source)] = Metadata'
  BY <1>3 DEF Metadata
<1>5. c2s[a] = << >> /\ s2c[a] = << >> /\ ~Serving(a)
  BY <1>1, <1>2 DEF FreshInv, Fresh
<1>6. c2s'[a] \in {<< >>, <<frame>>}
  BY <1>2, <1>4, <1>5, Sent, Zenon
<1> HIDE DEF frame
<1>7. Single(c2s'[a]) /\ (c2s'[a] # << >> => Head(c2s'[a]) = frame)
  BY <1>6, OneFrame, Zenon
<1>8. PendingInv'
  BY <1>3, <1>7, Zenon DEF PendingInv, Pending, Single, frame
<1>9. ReplyInv' /\ MatchInv'
  BY <1>2, <1>3, <1>5, Zenon DEF ReplyInv, MatchInv, Single, Serving
<1>10. ReadInv'
  BY <1>1, <1>2, <1>3, Zenon DEF ReadInv, Sending
<1> QED
  BY <1>2, <1>3, <1>8, <1>9, <1>10, Zenon DEF SteadyInv, StableSourceNeverRejected

(* A reply is the expected one, and the only one. *)
LEMMA Received ==
    ASSUME UpInv, SteadyInv, Talking, ClientReceives
    PROVE  /\ Expected(Response) /\ s2c[cli.attempt] = <<Response>> /\ s2c'[cli.attempt] = << >>
           /\ UNCHANGED <<c2s, source>> /\ Response \in ServerFrame
           /\ cli.attempt \in served \/ Serving(cli.attempt)
<1> DEFINE a == cli.attempt
<1>1. a \in Conns /\ s2c \in [Conns -> Seq(ServerFrame)] /\ s2c[a] \in Seq(ServerFrame)
  BY UpFacts
<1>2. s2c[a] # << >> /\ s2c' = Consumed(s2c, a) /\ UNCHANGED <<c2s, source>> /\ Response = Head(s2c[a])
  BY DEF ClientReceives, HasFrame, Connection, Response
<1>3. Single(s2c[a]) /\ Expected(Response)
  BY <1>2, SteadyFacts, Zenon DEF ReplyInv
<1>4. s2c[a] = <<Response>>
  BY <1>2, <1>3 DEF Single
<1>5. s2c'[a] = Tail(s2c[a])
  BY <1>1, <1>2 DEF Consumed
<1>6. PICK frame : frame = Response
  OBVIOUS
<1>7. s2c'[a] = << >>
  BY <1>4, <1>5, <1>6
<1>8. Response \in ServerFrame
  BY <1>1, <1>2
<1>9. a \in served \/ Serving(a)
  BY <1>1, <1>2, UpFacts, Zenon DEF OpeningInv
<1> QED
  BY <1>2, <1>3, <1>4, <1>7, <1>8, <1>9, Zenon

LEMMA SteadyRecvReady ==
    ASSUME UpInv, SteadyInv, UNCHANGED changes, UNCHANGED serverVars, RecvReady
    PROVE  SteadyInv'
<1> DEFINE a == cli.attempt
           frame == Response
<1>1. cli.pc = "ready" /\ ClientReceives /\ Talking /\ UNCHANGED <<sess, served>>
  BY DEF RecvReady, ClientAt, Talking, serverVars
<1>2. /\ Expected(frame) /\ s2c[a] = <<frame>> /\ s2c'[a] = << >> /\ UNCHANGED <<c2s, source>>
      /\ frame \in ServerFrame /\ (a \in served \/ Serving(a))
  BY <1>1, Received
<1>3. /\ frame.type = "TransferReady" /\ frame.rid = Rid /\ frame.tid = Rid
      /\ frame.offset <= cli.size /\ (frame.offset = 0 => frame.crc = 0)
  BY <1>1, <1>2, Zenon DEF Expected
<1>4. frame.offset \in Nat /\ cli \in Client /\ cli.size \in Nat /\ Rid # 0
  BY <1>2, <1>3, SteadyFacts, ClientAssumption, Zenon DEF ServerFrame, Client
<1>5. /\ a \notin served => c2s[a] = << >> /\ sess.rid = Rid /\ sess.pc = "loop" /\ sess.first_chunk
                            /\ frame.offset = sess.offset /\ frame.crc = Crc(sess.checksum)
  <2> SUFFICES ASSUME a \notin served
               PROVE  /\ c2s[a] = << >> /\ sess.rid = Rid /\ sess.pc = "loop" /\ sess.first_chunk
                      /\ frame.offset = sess.offset /\ frame.crc = Crc(sess.checksum)
    OBVIOUS
  <2>1. Serving(a) /\ MatchInv /\ s2c[a] # << >>
    BY <1>2, SteadyFacts
  <2>2. /\ c2s[a] = << >> /\ sess.rid = Rid /\ sess.pc = "loop" /\ sess.first_chunk
        /\ s2c[a] = <<TransferReady(Rid, Rid, sess.offset, Crc(sess.checksum))>>
    BY <1>1, <2>1, Zenon DEF MatchInv
  <2>3. frame = TransferReady(Rid, Rid, sess.offset, Crc(sess.checksum))
    BY <1>2, <2>2
  <2> QED
    BY <2>2, <2>3, Zenon DEF TransferReady
<1> HIDE DEF frame
<1>6. ReadyStatus(frame) = "Success"
  BY <1>3, <1>4 DEF ReadyStatus
<1>7. cli' = [cli EXCEPT !.pc = "prefix", !.offset = frame.offset, !.transfer_id = frame.tid,
                         !.prefix_checksum = frame.crc]
  BY <1>6 DEF RecvReady, frame
<1>8. /\ cli'.pc = "prefix" /\ cli'.attempt = a /\ cli'.offset = frame.offset
      /\ cli'.transfer_id = Rid /\ cli'.prefix_checksum = frame.crc
      /\ cli'.size = cli.size /\ cli'.crc = cli.crc /\ cli'.status = cli.status
  BY <1>3, <1>4, <1>7, Zenon DEF Client
<1>9. ReadInv'
  BY <1>1, <1>2, <1>3, <1>8, SteadyFacts, Zenon DEF ReadInv, Sending
<1>10. ReplyInv' /\ PendingInv'
  BY <1>1, <1>2, <1>5, <1>8, Zenon DEF ReplyInv, PendingInv, Single
<1>11. Serving(a)' => a \notin served
  BY <1>1, <1>8, UpFacts, Zenon DEF Serving, HolderInv
<1>12. MatchInv'
  BY <1>1, <1>5, <1>8, <1>11, Zenon DEF MatchInv
<1>13. (changes \in Nat)' /\ StableSourceNeverRejected'
  BY <1>8 DEF SteadyInv, StableSourceNeverRejected
<1> QED
  BY <1>9, <1>10, <1>12, <1>13, Zenon DEF SteadyInv

(* The local prefix is compared: the client resumes in agreement with the   *)
(* server, or starts over.                                                  *)
LEMMA SteadyPrefix ==
    ASSUME UpInv, SteadyInv, UNCHANGED changes, UNCHANGED serverVars, ReadPrefix
    PROVE  SteadyInv'
<1> DEFINE a == cli.attempt
           matches == Crc(SubSeq(source, 1, cli.offset)) = cli.prefix_checksum
           from == IF matches THEN cli.offset ELSE 0
<1>1. /\ cli.pc = "prefix" /\ Talking /\ UNCHANGED <<sess, served, source, c2s, s2c>>
  BY Zenon DEF ReadPrefix, ClientAt, Talking, serverVars, wireVars
<1>2. /\ cli \in Client /\ source \in Content /\ cli.size = Len(source) /\ cli.offset <= cli.size
      /\ cli.transfer_id = Rid /\ cli.crc = Crc(source)
  BY <1>1, SteadyFacts, Zenon DEF ReadInv, Sending
<1>3. cli.offset \in Nat /\ Len(source) \in Nat
  BY <1>2 DEF Client, Content
<1>4. cli' = [cli EXCEPT !.pc = IF from < cli.size THEN "chunk" ELSE "complete",
                         !.offset = from, !.resumed_from = from]
  <2>1. ~(Len(source) < cli.offset)
    BY <1>2, <1>3
  <2> QED
    BY <2>1, Zenon DEF ReadPrefix
<1>5. from \in Nat /\ from <= cli.size
  BY <1>2, <1>3
<1> HIDE DEF from
<1>6. /\ cli'.pc = IF from < cli.size THEN "chunk" ELSE "complete"
      /\ cli'.offset = from /\ cli'.attempt = a
      /\ cli'.transfer_id = Rid /\ cli'.size = cli.size /\ cli'.crc = cli.crc
      /\ cli'.status = cli.status
  BY <1>2, <1>4, Zenon DEF Client
<1>7. ReadInv'
  BY <1>1, <1>2, <1>5, <1>6, Zenon DEF ReadInv
<1>8. s2c[a] = << >> /\ (a \notin served => c2s[a] = << >>)
  BY <1>1, SteadyFacts, Zenon DEF ReplyInv, PendingInv, Expected, Pending
<1>9. ReplyInv' /\ PendingInv'
  BY <1>1, <1>6, <1>8, Zenon DEF ReplyInv, PendingInv, Single
<1>10. ASSUME Serving(a)
       PROVE  /\ sess.rid = Rid /\ sess.pc = "loop"
              /\ from < cli.size => ReadyFor(from)
              /\ ~(from < cli.size) => sess.offset = cli.size /\ Agrees(sess.checksum)
  <2>1. /\ sess.rid = Rid /\ sess.pc = "loop" /\ sess.first_chunk
        /\ cli.offset = sess.offset /\ cli.prefix_checksum = Crc(sess.checksum)
    BY <1>1, <1>10, SteadyFacts, Zenon DEF MatchInv
  <2>2. sess.offset = Len(sess.checksum) /\ sess.checksum \in Content
    BY <1>1, <1>10, <2>1, OwnSession, Zenon
  <2>3. CASE matches
    <3>1. Agrees(sess.checksum) /\ from = sess.offset
      BY <2>1, <2>2, <2>3, Zenon DEF Agrees, from
    <3> QED
      BY <1>2, <1>3, <1>5, <2>1, <3>1 DEF ReadyFor
  <2>4. CASE ~matches
    <3>1. from = 0
      BY <2>4 DEF from
    <3>2. sess.offset # 0
      <4> SUFFICES ASSUME sess.offset = 0 PROVE FALSE
        OBVIOUS
      <4>1. sess.checksum = << >>
        BY <2>2, EmptySeq, Zenon DEF Content
      <4>2. Agrees(sess.checksum)
        BY <1>2, <4>1, NothingAgrees, Zenon
      <4> QED
        BY <2>1, <2>2, <2>4, <4>2, Zenon DEF Agrees
    <3> QED
      BY <1>2, <1>3, <2>1, <3>1, <3>2 DEF ReadyFor
  <2> QED
    BY <2>3, <2>4, Zenon
<1>11. MatchInv'
  BY <1>1, <1>6, <1>10, Zenon DEF MatchInv, ReadyFor, Complete, Agrees, Serving
<1> QED
  BY <1>1, <1>6, <1>7, <1>9, <1>11, Zenon DEF SteadyInv, StableSourceNeverRejected

(* A chunk of the source, or the end of the transfer. *)
LEMMA SteadySends ==
    ASSUME UpInv, SteadyInv, UNCHANGED changes, UNCHANGED serverVars, SendChunk \/ SendComplete
    PROVE  SteadyInv'
<1> DEFINE a == cli.attempt
<1>1. /\ cli.pc \in {"chunk", "complete"} /\ Talking /\ UNCHANGED <<sess, served>>
  BY Zenon DEF SendChunk, SendComplete, ClientAt, Talking, serverVars
<1>2. /\ cli \in Client /\ source \in Content /\ cli.size = Len(source) /\ cli.offset <= cli.size
      /\ cli.transfer_id = Rid /\ cli.crc = Crc(source) /\ ClientInv
  BY <1>1, SteadyFacts, UpFacts, Zenon DEF ReadInv, Sending
<1>3. cli.offset \in Nat /\ Len(source) \in Nat /\ ChunkSize \in Nat /\ ChunkSize # 0
  BY <1>2, LimitAssumption DEF Client, Content
<1>4. s2c[a] = << >> /\ (a \notin served => c2s[a] = << >>)
  BY <1>1, SteadyFacts, Zenon DEF ReplyInv, PendingInv, Expected, Pending
<1>5. Serving(a) => a \notin served /\ sess.rid = Rid /\ sess.pc = "loop"
  BY <1>1, SteadyFacts, OwnSession, Zenon DEF MatchInv
<1>6. CASE SendChunk
  <2> DEFINE requested == Min({cli.size - cli.offset, ChunkSize})
             data == SubSeq(source, cli.offset + 1, cli.offset + requested)
  <2>0. PICK frame : frame = FileChunk(Rid, Rid, cli.offset, data)
    OBVIOUS
  <2>1. cli.pc = "chunk" /\ cli.offset < cli.size
    BY <1>2, <1>6, Zenon DEF SendChunk, ClientAt, ClientInv
  <2>2. requested \in Nat /\ requested # 0 /\ requested <= ChunkSize /\ cli.offset + requested <= cli.size
    <3>1. cli.size - cli.offset \in Nat /\ cli.size - cli.offset # 0
      BY <1>2, <1>3, <2>1
    <3>2. requested = IF cli.size - cli.offset <= ChunkSize THEN cli.size - cli.offset ELSE ChunkSize
      BY <1>3, <3>1, MinPair, Zenon
    <3> QED
      BY <1>2, <1>3, <3>1, <3>2
  <2>3. /\ cli' = [cli EXCEPT !.pc = "ack", !.offset = @ + requested]
        /\ c2s' = SendOn(c2s, a, frame) /\ UNCHANGED <<s2c, source>>
    <3>1. ~(Len(source) < cli.offset + requested)
      BY <1>2, <1>3, <2>2
    <3> QED
      BY <1>2, <1>6, <2>0, <3>1, Zenon DEF SendChunk, ClientSends, Connection
  <2> HIDE DEF requested
  <2>4. /\ cli'.pc = "ack" /\ cli'.offset = cli.offset + requested /\ cli'.attempt = a
        /\ cli'.transfer_id = Rid /\ cli'.size = cli.size /\ cli'.crc = cli.crc
        /\ cli'.status = cli.status
    BY <1>2, <2>3, Zenon DEF Client
  <2>5. a \notin served => c2s'[a] \in {<< >>, <<frame>>}
    BY <1>4, <2>3, Sent, Zenon
  <2>6. /\ frame.type = "FileChunk" /\ frame.rid = Rid /\ frame.tid = Rid
        /\ frame.offset = cli.offset /\ frame.data = data
    BY <2>0, Zenon DEF FileChunk
  <2>7. Pending(frame)'
    <3>1. cli.offset < cli'.offset /\ cli'.offset <= cli.offset + ChunkSize
      BY <1>3, <2>2, <2>4
    <3>2. data = SubSeq(source', cli.offset + 1, cli'.offset)
      BY <2>3, <2>4, Zenon
    <3> QED
      BY <2>4, <2>6, <3>1, <3>2, Zenon DEF Pending
  <2> HIDE DEF data
  <2>8. a \notin served => Single(c2s'[a]) /\ (c2s'[a] # << >> => Head(c2s'[a]) = frame)
    BY <2>5, OneFrame, Zenon
  <2>9. ReadInv'
    BY <1>1, <1>2, <2>2, <2>3, <2>4, Zenon DEF ReadInv, Sending
  <2>10. ReplyInv'
    BY <1>4, <2>3, <2>4, Zenon DEF ReplyInv, Single
  <2>11. PendingInv'
    BY <1>1, <2>4, <2>7, <2>8, Zenon DEF PendingInv, Single, Pending
  <2>12. Serving(a) => ReadyFor(cli.offset)
    BY <1>1, <2>1, SteadyFacts, Zenon DEF MatchInv
  <2>13. MatchInv'
    BY <1>1, <1>4, <1>5, <2>3, <2>4, <2>6, <2>8, <2>12, Zenon DEF MatchInv, ReadyFor, Agrees, Serving
  <2>14. (changes \in Nat)' /\ StableSourceNeverRejected'
    BY <2>4 DEF SteadyInv, StableSourceNeverRejected
  <2> QED
    BY <2>9, <2>10, <2>11, <2>13, <2>14, Zenon DEF SteadyInv
<1>7. CASE SendComplete
  <2> DEFINE frame == TransferComplete(Rid, Rid, TRUE)
  <2>1. /\ cli.pc = "complete" /\ cli' = [cli EXCEPT !.pc = "result"]
        /\ c2s' = SendOn(c2s, a, frame) /\ UNCHANGED <<s2c, source>>
    BY <1>2, <1>7 DEF SendComplete, ClientAt, ClientSends, Connection
  <2>2. /\ cli'.pc = "result" /\ cli'.offset = cli.offset /\ cli'.attempt = a
        /\ cli'.transfer_id = Rid /\ cli'.size = cli.size /\ cli'.crc = cli.crc
        /\ cli'.status = cli.status
    BY <1>2, <2>1 DEF Client
  <2>3. a \notin served => c2s'[a] \in {<< >>, <<frame>>}
    BY <1>4, <2>1, Sent, Zenon
  <2>4. Pending(frame)'
    BY <2>2 DEF Pending
  <2> HIDE DEF frame
  <2>5. a \notin served => Single(c2s'[a]) /\ (c2s'[a] # << >> => Head(c2s'[a]) = frame)
    BY <2>3, OneFrame, Zenon
  <2>6. ReadInv'
    BY <1>1, <1>2, <2>1, <2>2, Zenon DEF ReadInv, Sending
  <2>7. ReplyInv'
    BY <1>4, <2>1, <2>2, Zenon DEF ReplyInv, Single
  <2>8. PendingInv'
    BY <1>1, <2>2, <2>4, <2>5, Zenon DEF PendingInv, Single, Pending
  <2>9. Serving(a) => Complete
    BY <1>1, <2>1, SteadyFacts, Zenon DEF MatchInv
  <2>10. MatchInv'
    BY <1>1, <1>4, <1>5, <2>1, <2>2, <2>9, Zenon DEF MatchInv, Complete, Agrees, Serving
  <2>11. (changes \in Nat)' /\ StableSourceNeverRejected'
    BY <2>2, Zenon DEF SteadyInv, StableSourceNeverRejected
  <2> QED
    BY <2>6, <2>7, <2>8, <2>10, <2>11, Zenon DEF SteadyInv
<1> QED
  BY <1>6, <1>7

LEMMA SteadyReplies ==
    ASSUME UpInv, SteadyInv, UNCHANGED changes, UNCHANGED serverVars, RecvAck \/ RecvResult
    PROVE  SteadyInv'
<1> DEFINE a == cli.attempt
           frame == Response
<1>1. /\ cli.pc \in {"ack", "result"} /\ ClientReceives /\ Talking /\ UNCHANGED <<sess, served>>
  BY DEF RecvAck, RecvResult, ClientAt, Talking, serverVars
<1>2. /\ Expected(frame) /\ s2c[a] = <<frame>> /\ s2c'[a] = << >> /\ UNCHANGED <<c2s, source>>
      /\ a \in served \/ Serving(a)
  BY <1>1, Received, Zenon
<1>3. /\ cli \in Client /\ cli.size = Len(source) /\ cli.offset <= cli.size
      /\ cli.transfer_id = Rid /\ cli.crc = Crc(source)
  BY <1>1, SteadyFacts DEF ReadInv, Sending
<1>4. CASE RecvResult
  <2>1. frame = TransferResult(Rid, Rid, "Success")
    BY <1>2, <1>4, Zenon DEF Expected, RecvResult, ClientAt
  <2>2. /\ frame.type = "TransferResult" /\ frame.rid = Rid /\ frame.tid = Rid /\ frame.code = "Success"
    BY <2>1, Zenon DEF TransferResult
  <2>3. Ends("Success")
    BY <1>3, <1>4, <2>2, Zenon DEF RecvResult, ExpectedStatus
  <2> QED
    BY <1>2, <2>3, SteadyEnds, Zenon
<1>5. CASE RecvAck
  <2>1. cli.pc = "ack" /\ frame = Acknowledgment(Rid, Rid, cli.offset)
    BY <1>2, <1>5, Zenon DEF Expected, RecvAck, ClientAt
  <2>2. /\ frame.type = "Acknowledgment" /\ frame.rid = Rid /\ frame.tid = Rid
        /\ frame.offset = cli.offset
    BY <2>1 DEF Acknowledgment
  <2>3. cli' = [cli EXCEPT !.pc = IF cli.offset < cli.size THEN "chunk" ELSE "complete",
                           !.confirmed = Max({@, cli.offset})]
    <3>1. ExpectedStatus(frame, "Acknowledgment") = "Success"
      BY <1>3, <2>2 DEF ExpectedStatus
    <3> QED
      BY <1>5, <2>2, <3>1, Zenon DEF RecvAck
  <2>4. /\ cli'.pc = IF cli.offset < cli.size THEN "chunk" ELSE "complete"
        /\ cli'.offset = cli.offset /\ cli'.attempt = a /\ cli'.transfer_id = Rid
        /\ cli'.size = cli.size /\ cli'.crc = cli.crc /\ cli'.status = cli.status
    BY <1>3, <2>3, Zenon DEF Client
  <2>5. /\ a \notin served => /\ c2s[a] = << >> /\ sess.rid = Rid /\ sess.pc = "loop"
                              /\ ReadyFor(cli.offset) /\ sess.offset = cli.offset
    <3>1. s2c[a] # << >>
      BY <1>2
    <3> QED
      BY <1>1, <1>2, <2>1, <3>1, SteadyFacts, Zenon DEF MatchInv
  <2>6. ReadInv'
    BY <1>1, <1>2, <1>3, <2>4, Zenon DEF ReadInv
  <2>7. ReplyInv' /\ PendingInv'
    BY <1>1, <1>2, <2>4, <2>5, Zenon DEF ReplyInv, PendingInv, Single
  <2>8. ASSUME Serving(a)
        PROVE  /\ a \notin served
               /\ ~(cli.offset < cli.size) => sess.offset = cli.size /\ Agrees(sess.checksum)
    <3>1. a \notin served
      BY <2>8, UpFacts, Zenon DEF Serving, HolderInv
    <3>2. cli.offset \in Nat /\ cli.size \in Nat
      BY <1>3, Zenon DEF Client
    <3>3. sess.offset = cli.offset /\ ReadyFor(cli.offset)
      BY <2>5, <3>1, Zenon
    <3>4. Agrees(sess.checksum)
      BY <3>3, Zenon DEF ReadyFor
    <3> QED
      BY <1>3, <3>1, <3>2, <3>3, <3>4
  <2>9. MatchInv'
    BY <1>1, <1>2, <2>4, <2>5, <2>8, Zenon DEF MatchInv, ReadyFor, Complete, Agrees, Serving
  <2>10. (changes \in Nat)' /\ StableSourceNeverRejected'
    BY <2>4, Zenon DEF SteadyInv, StableSourceNeverRejected
  <2> QED
    BY <2>6, <2>7, <2>9, <2>10, Zenon DEF SteadyInv
<1> QED
  BY <1>4, <1>5
-----------------------------------------------------------------------------
LEMMA SteadyInit ==
    ASSUME UploadInit
    PROVE  SteadyInv
<1>1. UpInv
  BY UpInit, Zenon
<1>2. /\ cli.pc = "connect" /\ cli.status = "none" /\ changes = 0
  BY DEF UploadInit, ClientInit
<1>3. Fresh(cli.attempt)
  BY <1>1, <1>2, UpFacts, Zenon DEF FreshInv
<1> QED
  BY <1>2, <1>3, Zenon DEF SteadyInv, StableSourceNeverRejected, ReadInv, ReplyInv, PendingInv, MatchInv,
                    Fresh, Single, Sending

LEMMA SteadyNext ==
    ASSUME UpInv, SteadyInv, Undisturbed, BudgetSuffices, [UploadNext]_uploadVars, UpInv'
    PROVE  SteadyInv'
<1>1. ~SourceChanges
  <2>1. changes \in Nat /\ MaxChanges = 0
    BY Zenon DEF SteadyInv, Undisturbed
  <2> QED
    BY <2>1 DEF SourceChanges
<1>2. CASE UNCHANGED uploadVars
  <2>1. UNCHANGED <<cli, source, changes, c2s, s2c, sess, served>>
    BY <1>2, Zenon DEF uploadVars
  <2> QED
    BY <2>1, QuietSteady, Zenon DEF Serving
<1>3. CASE ServerRuns
  BY <1>3, SteadyServer, Zenon DEF ServerRuns
<1>4. CASE ClientRuns
  <2>1. ClientStep /\ UNCHANGED serverVars /\ UNCHANGED changes
    BY <1>4, Zenon DEF ClientRuns
  <2> QED
    BY <2>1, SteadyBegins, SteadyRequest, SteadyRecvReady, SteadyPrefix, SteadySends, SteadyReplies, Zenon
    DEF ClientStep
<1>5. CASE Fault
  <2>1. CASE ConnectFails /\ UNCHANGED serverVars
    BY <1>5, <2>1, SteadyBegins, Zenon DEF Fault
  <2>2. CASE /\ UNCHANGED clientVars
             /\ \/ KillServer \/ PowerFailure
                \/ (UNCHANGED serverVars /\ \E c \in Conns : Break(c))
    BY <1>5, <2>2, SteadyServer, Zenon DEF clientVars, Fault
  <2> QED
    BY <1>5, <2>1, <2>2, Zenon DEF Fault
<1> QED
  BY <1>1, <1>2, <1>3, <1>4, <1>5, Zenon DEF UploadNext

(* Resuming never makes the two sides disagree.  For every checksum that    *)
(* is computed block by block, as CRC-32 is, and any sizes, chunks, retries *)
(* and faults: as long as the source stays as it is, the server's disk      *)
(* works and the budget for partial files holds out, send_file ends with    *)
(* success or with a transport failure, whatever partial it resumes from.   *)
THEOREM StableIsNeverRejected ==
    Undisturbed => (UploadSpec /\ []BudgetSuffices => []StableSourceNeverRejected)
<1> SUFFICES ASSUME Undisturbed
             PROVE  UploadSpec /\ []BudgetSuffices => []StableSourceNeverRejected
  OBVIOUS
<1>1. UploadSpec => []UpInv
  BY UpInit, UpNext, PTL DEF UploadSpec
<1>2. UploadInit => SteadyInv
  BY SteadyInit
<1>3. UpInv /\ UpInv' /\ BudgetSuffices /\ SteadyInv /\ [UploadNext]_uploadVars => SteadyInv'
  BY SteadyNext, Zenon
<1>4. SteadyInv => StableSourceNeverRejected
  BY DEF SteadyInv
<1> QED
  BY <1>1, <1>2, <1>3, <1>4, PTL DEF UploadSpec
=============================================================================
