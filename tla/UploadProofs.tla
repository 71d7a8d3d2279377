---------------------------- MODULE UploadProofs ----------------------------
(***************************************************************************)
(* Theorems about Upload, the client and the server together, for every    *)
(* number of retries and faults, every checksum function, and a source     *)
(* file that may change at any moment.  The server keeps the invariant of  *)
(* UploadServerProofs, whatever its peers send; what is added here says    *)
(* how far the two sides have come on each connection.                     *)
(***************************************************************************)
EXTENDS Upload, UploadServerProofs

Crcs == {Crc(content) : content \in Content}

Sending == {"prefix", "chunk", "ack", "complete", "result"}

Statuses ==
    {"none", "Success", "FrameIoError", "FileTooLarge", "FileReadError", "MismatchedRequestId",
     "InvalidTransferId", "UnexpectedFrame", "RemoteRejected", "UnexpectedMessageType",
     "UnexpectedOffset"}

Client ==
    [pc : {"connect", "size", "request", "ready", "close", "done"} \cup Sending,
     attempt : Conns, size : Nat, crc : Crcs, transfer_id : Nat, offset : Nat,
     prefix_checksum : Crcs, resumed_from : Nat, confirmed : Nat, status : Statuses]

Codes ==
    {"Success", "FileIoError", "UnexpectedFrame", "InvalidRequest", "InvalidPath", "FileTooLarge",
     "SizeMismatch", "ChecksumMismatch", "UnexpectedOffset"}

ServerFrame ==
    [type : {"TransferReady"}, rid : Nat, tid : Nat, offset : Nat, crc : Crcs]
    \cup [type : {"Acknowledgment"}, rid : Nat, tid : Nat, offset : Nat]
    \cup [type : {"TransferResult"}, rid : Nat, tid : Nat, code : Codes]

Types ==
    /\ source \in Sources
    /\ cli \in Client
    /\ s2c \in [Conns -> Seq(ServerFrame)]

(* The size was read from the source file; success is a last word. *)
ClientInv ==
    /\ cli.pc = "request" => \E a \in Sources : cli.size = Len(a)
    /\ cli.pc = "chunk" => cli.offset < cli.size
    /\ cli.status = "Success" => cli.pc \in {"close", "done"}

(* The session that holds the mutex is not over. *)
HolderInv == sess # NoSession => sess.conn \notin served

(* A connection before its first frame. *)
Fresh(c) == c2s[c] = << >> /\ s2c[c] = << >> /\ ~Serving(c)

FreshInv ==
    \A c \in Conns :
        /\ c > cli.attempt => link[c] = "closed"
        /\ link[c] = "closed" => Fresh(c)
        /\ c = cli.attempt /\ cli.pc \in {"connect", "size", "request"} => Fresh(c)

Openings == {frame \in ClientFrame : frame.type = "UploadRequest"}

(* Until the server has opened a transfer, a connection carries requests    *)
(* only, and no reply.                                                      *)
OpeningInv ==
    \A c \in Conns \ served :
        ~Serving(c) =>
            /\ c2s[c] \in Seq(Openings) /\ s2c[c] = << >>
            /\ c = cli.attempt => cli.pc \notin Sending

(* The requests of the current attempt declare what it has read. *)
Current == {frame \in ClientFrame : frame.type = "UploadRequest" => frame.meta = Metadata}

MetaInv ==
    /\ c2s[cli.attempt] \in Seq(Current)
    /\ Serving(cli.attempt) => sess.meta = Metadata

(* A connection whose session will not come to a commit any more. *)
Harmless(c) ==
    \/ c \in served
    \/ /\ c2s[c] \in Seq(Openings)
       /\ Serving(c) => sess.pc \notin {"rename", "syncdirs"}

EarlierHarmless == \A c \in Conns : c < cli.attempt => Harmless(c)

Refusals == {frame \in ServerFrame : frame.type = "TransferResult" /\ frame.code # "Success"}

(* The mutex has one holder: once the transfer of the current attempt has   *)
(* been opened, no earlier one can commit.                                  *)
EngagedInv ==
    \/ EarlierHarmless
    \/ /\ ~Serving(cli.attempt) /\ s2c[cli.attempt] \in Seq(Refusals)
       /\ cli.pc \notin Sending /\ cli.status # "Success"

(* The name holds a file of this size and checksum, on disk. *)
Verified(entry, size, crc) ==
    /\ entry.now \in Content /\ entry.data = {entry.now}
    /\ Len(entry.now) = size /\ Crc(entry.now) = crc

CommitInv ==
    At("syncdirs") => Verified(dest[sess.meta.path], sess.meta.size, sess.meta.crc)

Committed ==
    /\ cli.attempt \in served /\ EarlierHarmless
    /\ Verified(dest[Path], cli.size, cli.crc) /\ dest[Path].names = {}

NoSuccess == {frame \in ServerFrame : frame.type = "TransferResult" => frame.code # "Success"}

(* Success is under way, or was reported, only for a file that is there to  *)
(* stay.                                                                    *)
ResultInv ==
    \/ Committed
    \/ cli.status # "Success" /\ s2c[cli.attempt] \in Seq(NoSuccess)

UpInv ==
    /\ Inv /\ Types
    /\ ClientInv
    /\ HolderInv
    /\ FreshInv
    /\ OpeningInv
    /\ MetaInv
    /\ EngagedInv
    /\ CommitInv
    /\ ResultInv
-----------------------------------------------------------------------------
(* What is left of a queue after frames were taken or lost. *)
Rest(p, q) == p = q \/ p = << >> \/ (q # << >> /\ p = Tail(q)) \/ p \in Survivors(q)

LEMMA RestKept ==
    ASSUME NEW S, NEW q \in Seq(S), NEW p, Rest(p, q)
    PROVE  p \in Seq(S) /\ (q = << >> => p = << >>)
<1>1. \A n \in 0 .. Len(q) : SubSeq(q, 1, n) \in Seq(S) /\ (q = << >> => SubSeq(q, 1, n) = << >>)
  OBVIOUS
<1>2. \A r \in Survivors(q) : r \in Seq(S) /\ (q = << >> => r = << >>)
  BY <1>1 DEF Survivors
<1>3. q # << >> => Tail(q) \in Seq(S)
  OBVIOUS
<1>4. << >> \in Seq(S)
  OBVIOUS
<1> QED
  BY <1>2, <1>3, <1>4, Zenon DEF Rest

LEMMA NothingRests ==
    ASSUME NEW p, Rest(p, << >>)
    PROVE  p = << >>
BY DEF Rest, Survivors

LEMMA EmptyFrames ==
    ASSUME NEW S
    PROVE  << >> \in Seq(S)
OBVIOUS

LEMMA UpFacts ==
    ASSUME UpInv
    PROVE  /\ Inv /\ TypeOK /\ Types /\ ClientInv /\ HolderInv /\ FreshInv /\ OpeningInv /\ MetaInv
           /\ EngagedInv /\ CommitInv /\ ResultInv
           /\ cli \in Client /\ cli.attempt \in Conns /\ Conns \subseteq Nat
           /\ c2s \in [Conns -> Seq(ClientFrame)] /\ s2c \in [Conns -> Seq(ServerFrame)]
           /\ link \in [Conns -> {"closed", "up", "down"}]
           /\ sess \in Session \cup {NoSession} /\ served \subseteq Conns
           /\ dest \in [Paths -> Entry]
<1>1. /\ Inv /\ TypeOK /\ Types /\ ClientInv /\ HolderInv /\ FreshInv /\ OpeningInv /\ MetaInv
      /\ EngagedInv /\ CommitInv /\ ResultInv
  BY DEF UpInv, Inv
<1>2. cli \in Client /\ cli.attempt \in Conns /\ s2c \in [Conns -> Seq(ServerFrame)]
  BY <1>1 DEF Types, Client
<1>3. Conns \subseteq Nat
  BY ClientAssumption
<1> QED
  BY <1>1, <1>2, <1>3 DEF TypeOK

(* A session is a record with a connection and a place. *)
LEMMA HolderFacts ==
    ASSUME UpInv, sess # NoSession
    PROVE  /\ sess \in Session /\ sess.conn \in Conns /\ sess.conn \notin served
           /\ sess.conn <= cli.attempt
           /\ sess.meta \in Metas /\ sess.rid \in Nat /\ sess.offset \in Nat
           /\ sess.checksum \in Content
<1>1. sess \in Session /\ HolderInv /\ FreshInv /\ Conns \subseteq Nat /\ cli.attempt \in Conns
  BY UpFacts
<1>2. /\ sess.conn \in Conns /\ sess.meta \in Metas /\ sess.rid \in Nat /\ sess.offset \in Nat
      /\ sess.checksum \in Content
  BY <1>1 DEF Session
<1>3. ~Fresh(sess.conn)
  BY DEF Fresh, Serving
<1>4. ~(sess.conn > cli.attempt)
  BY <1>1, <1>2, <1>3, Zenon DEF FreshInv
<1>5. sess.conn \in Nat /\ cli.attempt \in Nat
  BY <1>1, <1>2, Zenon
<1>6. sess.conn <= cli.attempt
  BY <1>4, <1>5
<1> QED
  BY <1>1, <1>2, <1>6 DEF HolderInv
-----------------------------------------------------------------------------
(* The server.                                                              *)

(* A reply, of the session or with a refused request. *)
Answers(c) ==
    \/ Rest(s2c'[c], s2c[c])
    \/ \E frame \in NoSuccess :
          /\ s2c'[c] = Append(s2c[c], frame)
          /\ Serving(c) \/ (c \in served' /\ c2s[c] # << >> /\ frame \in Refusals)

(* The session ends, or goes on; it may come before the rename only by a    *)
(* frame that is no request.                                                *)
SessionGoesOn ==
    \/ sess' = NoSession /\ (sess # NoSession => sess.conn \in served')
    \/ /\ sess # NoSession /\ sess' \in Session
       /\ sess'.conn = sess.conn /\ sess'.meta = sess.meta /\ sess.conn \notin served'
       /\ sess'.pc \in {"rename", "syncdirs"} =>
             sess'.pc = sess.pc \/ (sess'.pc = "rename" /\ c2s[sess.conn] \notin Seq(Openings))

ServerQuiet ==
    /\ UNCHANGED cli /\ source' \in Sources
    /\ s2c' = [c \in Conns |-> s2c'[c]] /\ served \subseteq served'
    /\ \A c \in Conns : /\ Rest(c2s'[c], c2s[c])
                        /\ Answers(c)
                        /\ link[c] = "closed" <=> link'[c] = "closed"
    /\ SessionGoesOn

LEMMA QuietTypes ==
    ASSUME UpInv, ServerQuiet
    PROVE  Types' /\ ClientInv' /\ HolderInv'
<1>1. s2c \in [Conns -> Seq(ServerFrame)] /\ Types /\ ClientInv /\ HolderInv
  BY UpFacts
<1>2. NoSuccess \subseteq ServerFrame
  BY DEF NoSuccess
<1>3. ASSUME NEW c \in Conns
      PROVE  s2c'[c] \in Seq(ServerFrame)
  <2>1. s2c[c] \in Seq(ServerFrame) /\ Answers(c)
    BY <1>1 DEF ServerQuiet
  <2>2. CASE Rest(s2c'[c], s2c[c])
    BY <2>1, <2>2, RestKept
  <2>3. CASE \E frame \in NoSuccess : s2c'[c] = Append(s2c[c], frame)
    BY <1>2, <2>1, <2>3
  <2> QED
    BY <2>1, <2>2, <2>3 DEF Answers
<1>4. s2c' \in [Conns -> Seq(ServerFrame)]
  BY <1>3 DEF ServerQuiet
<1>5. Types'
  BY <1>1, <1>4 DEF ServerQuiet, Types
<1>6. ClientInv'
  BY <1>1 DEF ServerQuiet, ClientInv
<1>7. HolderInv'
  BY DEF ServerQuiet, HolderInv, SessionGoesOn
<1> QED
  BY <1>5, <1>6, <1>7

LEMMA QuietOpening ==
    ASSUME UpInv, ServerQuiet
    PROVE  FreshInv' /\ OpeningInv'
<1>1. FreshInv /\ OpeningInv /\ c2s \in [Conns -> Seq(ClientFrame)] /\ s2c \in [Conns -> Seq(ServerFrame)]
  BY UpFacts
<1>2. ASSUME NEW c \in Conns, Serving(c)'
      PROVE  Serving(c)
  BY <1>2 DEF ServerQuiet, SessionGoesOn, Serving
<1>3. ASSUME NEW c \in Conns, Fresh(c)
      PROVE  Fresh(c)'
  <2>1. c2s'[c] = << >>
    BY <1>1, <1>3, RestKept DEF ServerQuiet, Fresh
  <2>2. s2c'[c] = << >>
    BY <1>1, <1>3, RestKept DEF ServerQuiet, Fresh, Answers
  <2> QED
    BY <1>2, <1>3, <2>1, <2>2 DEF Fresh
<1>4. FreshInv'
  BY <1>1, <1>3 DEF ServerQuiet, FreshInv
<1>5. ASSUME NEW c \in Conns \ served', ~Serving(c)'
      PROVE  /\ (c2s[c] \in Seq(Openings))' /\ (s2c[c] = << >>)'
             /\ (c = cli.attempt => cli.pc \notin Sending)'
  <2>1. c \notin served /\ ~Serving(c)
    BY <1>5, SessionAssumption DEF ServerQuiet, SessionGoesOn, Serving
  <2>2. c2s[c] \in Seq(Openings) /\ s2c[c] = << >> /\ (c = cli.attempt => cli.pc \notin Sending)
    BY <1>1, <1>5, <2>1 DEF OpeningInv
  <2>3. Rest(c2s'[c], c2s[c]) /\ Rest(s2c'[c], s2c[c])
    BY <1>5, <2>1 DEF ServerQuiet, Answers
  <2>4. c2s'[c] \in Seq(Openings)
    BY <2>2, <2>3, RestKept
  <2>5. s2c'[c] = << >>
    BY <1>1, <2>2, <2>3, RestKept
  <2> QED
    BY <2>2, <2>4, <2>5 DEF ServerQuiet
<1>6. OpeningInv'
  BY <1>5 DEF OpeningInv
<1> QED
  BY <1>4, <1>6

LEMMA QuietHarmless ==
    ASSUME UpInv, ServerQuiet, NEW c \in Conns, Harmless(c)
    PROVE  Harmless(c)'
<1>1. CASE c \in served
  BY <1>1 DEF ServerQuiet, Harmless
<1>2. CASE c \notin served
  <2>1. c2s[c] \in Seq(Openings) /\ (Serving(c) => sess.pc \notin {"rename", "syncdirs"})
    BY <1>2 DEF Harmless
  <2>2. c2s'[c] \in Seq(Openings)
    BY <2>1, RestKept DEF ServerQuiet
  <2>3. (Serving(c) => sess.pc \notin {"rename", "syncdirs"})'
    BY <2>1 DEF ServerQuiet, SessionGoesOn, Serving
  <2> QED
    BY <2>2, <2>3 DEF Harmless
<1> QED
  BY <1>1, <1>2

LEMMA QuietEngaged ==
    ASSUME UpInv, ServerQuiet
    PROVE  MetaInv' /\ EngagedInv'
<1>1. MetaInv /\ EngagedInv /\ cli.attempt \in Conns /\ UNCHANGED cli
  BY UpFacts DEF ServerQuiet
<1>2. Serving(cli.attempt)' => Serving(cli.attempt) /\ sess'.meta = sess.meta
  BY <1>1 DEF ServerQuiet, SessionGoesOn, Serving
<1>3. MetaInv'
  <2>1. c2s'[cli.attempt] \in Seq(Current)
    BY <1>1, RestKept DEF ServerQuiet, MetaInv
  <2> QED
    BY <1>1, <1>2, <2>1 DEF MetaInv, Current, Metadata, ClientFrame
<1>4. CASE EarlierHarmless
  <2>1. EarlierHarmless'
    <3> SUFFICES ASSUME NEW c \in Conns, (c < cli.attempt)'
                 PROVE  Harmless(c)'
      BY DEF EarlierHarmless
    <3> QED
      BY <1>1, <1>4, QuietHarmless DEF EarlierHarmless
  <2> QED
    BY <1>3, <2>1 DEF EngagedInv
<1>5. CASE ~EarlierHarmless
  <2>1. /\ ~Serving(cli.attempt) /\ s2c[cli.attempt] \in Seq(Refusals)
        /\ cli.pc \notin Sending /\ cli.status # "Success"
    BY <1>1, <1>5 DEF EngagedInv
  <2>2. s2c'[cli.attempt] \in Seq(Refusals)
    <3>1. Answers(cli.attempt)
      BY <1>1 DEF ServerQuiet
    <3>2. CASE Rest(s2c'[cli.attempt], s2c[cli.attempt])
      BY <2>1, <3>2, RestKept
    <3>3. CASE \E frame \in Refusals : s2c'[cli.attempt] = Append(s2c[cli.attempt], frame)
      BY <2>1, <3>3
    <3> QED
      BY <2>1, <3>1, <3>2, <3>3 DEF Answers
  <2> QED
    BY <1>1, <1>2, <1>3, <2>1, <2>2 DEF EngagedInv, Serving
<1> QED
  BY <1>3, <1>4, <1>5

(* The final paths are as they were; a power failure leaves what is on disk. *)
DestStays ==
    \/ dest' = dest
    \/ /\ sess' = NoSession
       /\ \A p \in Paths :
             dest[p].names = {} /\ dest[p].data = {dest[p].now} =>
                 /\ dest'[p].now = dest[p].now
                 /\ dest'[p].data = {dest[p].now} /\ dest'[p].names = {}

LEMMA QuietResult ==
    ASSUME UpInv, ServerQuiet, DestStays
    PROVE  CommitInv' /\ ResultInv'
<1>1. CommitInv /\ ResultInv /\ cli.attempt \in Conns /\ UNCHANGED cli /\ Path \in Paths
  BY UpFacts, ClientAssumption DEF ServerQuiet
<1>2. CommitInv'
  BY <1>1 DEF ServerQuiet, SessionGoesOn, DestStays, CommitInv, At, Verified
<1>3. CASE Committed
  <2>1. /\ dest'[Path].now = dest[Path].now /\ dest'[Path].data = {dest[Path].now}
        /\ dest'[Path].names = {}
    BY <1>1, <1>3 DEF DestStays, Committed, Verified
  <2>2. EarlierHarmless'
    <3> SUFFICES ASSUME NEW c \in Conns, (c < cli.attempt)'
                 PROVE  Harmless(c)'
      BY DEF EarlierHarmless
    <3> QED
      BY <1>1, <1>3, QuietHarmless DEF Committed, EarlierHarmless
  <2> QED
    BY <1>1, <1>2, <1>3, <2>1, <2>2 DEF ServerQuiet, Committed, ResultInv, Verified
<1>4. CASE ~Committed
  <2>1. cli.status # "Success" /\ s2c[cli.attempt] \in Seq(NoSuccess)
    BY <1>1, <1>4 DEF ResultInv
  <2>2. s2c'[cli.attempt] \in Seq(NoSuccess)
    <3>1. Answers(cli.attempt)
      BY <1>1 DEF ServerQuiet
    <3>2. CASE Rest(s2c'[cli.attempt], s2c[cli.attempt])
      BY <2>1, <3>2, RestKept
    <3>3. CASE \E frame \in NoSuccess : s2c'[cli.attempt] = Append(s2c[cli.attempt], frame)
      BY <2>1, <3>3
    <3> QED
      BY <3>1, <3>2, <3>3 DEF Answers
  <2> QED
    BY <1>1, <1>2, <2>1, <2>2 DEF ResultInv
<1> QED
  BY <1>3, <1>4

LEMMA QuietUpload ==
    ASSUME UpInv, Inv', ServerQuiet, DestStays
    PROVE  UpInv'
<1>1. Types' /\ ClientInv' /\ HolderInv'
  BY QuietTypes
<1>2. FreshInv' /\ OpeningInv'
  BY QuietOpening
<1>3. MetaInv' /\ EngagedInv'
  BY QuietEngaged
<1>4. CommitInv' /\ ResultInv'
  BY QuietResult
<1> QED
  BY <1>1, <1>2, <1>3, <1>4 DEF UpInv

(* The results that report a failure. *)
LEMMA RefusalFrames ==
    ASSUME NEW rid \in Nat, NEW tid \in Nat,
           NEW status \in {"FileOpenError", "FileReadError", "FileWriteError", "FileCommitError",
                           "UnexpectedMessageType", "UnexpectedFrame", "InvalidRequest",
                           "InvalidPayload", "InvalidPath", "FileTooLarge", "SizeMismatch",
                           "ChecksumMismatch", "UnexpectedOffset"}
    PROVE  /\ TransferResult(rid, tid, ResultCodeForStatus(status)) \in Refusals
           /\ TransferResult(rid, tid, ResultCodeForStatus(status)) \in NoSuccess
<1> DEFINE code == ResultCodeForStatus(status)
<1>1. code \in Codes /\ code # "Success"
  BY DEF ResultCodeForStatus, Codes
<1> HIDE DEF code
<1>2. TransferResult(rid, tid, code) \in ServerFrame
  BY <1>1 DEF TransferResult, ServerFrame
<1>3. TransferResult(rid, tid, code).type = "TransferResult" /\ TransferResult(rid, tid, code).code = code
  BY DEF TransferResult
<1> QED
  BY <1>1, <1>2, <1>3 DEF Refusals, NoSuccess, code

(* A step that takes a frame off one connection, answers on it, or both. *)
LEMMA QuietWire ==
    ASSUME UpInv, NEW c \in Conns, UNCHANGED <<link, cli, source>>, served \subseteq served',
           c2s' = c2s \/ (HasFrame(c2s, c) /\ c2s' = Consumed(c2s, c)),
           \/ s2c' = s2c
           \/ \E frame \in NoSuccess :
                 /\ s2c' = SendOn(s2c, c, frame)
                 /\ Serving(c) \/ (c \in served' /\ c2s[c] # << >> /\ frame \in Refusals),
           SessionGoesOn
    PROVE  ServerQuiet
<1>1. /\ c2s \in [Conns -> Seq(ClientFrame)] /\ s2c \in [Conns -> Seq(ServerFrame)]
      /\ source \in Sources
  BY UpFacts DEF Types
<1>2. ASSUME NEW d \in Conns
      PROVE  Rest(c2s'[d], c2s[d])
  BY <1>1 DEF Rest, HasFrame, Consumed
<1>3. \/ s2c' = s2c
      \/ \E frame \in NoSuccess :
            /\ s2c' = [s2c EXCEPT ![c] = Append(s2c[c], frame)]
            /\ Serving(c) \/ (c \in served' /\ c2s[c] # << >> /\ frame \in Refusals)
  BY DEF SendOn
<1>4. s2c' = [d \in Conns |-> s2c'[d]]
  BY <1>1, <1>3
<1>5. ASSUME NEW d \in Conns
      PROVE  Answers(d)
  <2>1. CASE s2c'[d] = s2c[d]
    BY <2>1 DEF Answers, Rest
  <2>2. CASE s2c'[d] # s2c[d]
    <3>1. PICK frame \in NoSuccess :
            /\ s2c' = [s2c EXCEPT ![c] = Append(s2c[c], frame)]
            /\ Serving(c) \/ (c \in served' /\ c2s[c] # << >> /\ frame \in Refusals)
      BY <1>3, <2>2
    <3>2. d = c /\ s2c'[d] = Append(s2c[d], frame)
      BY <1>1, <2>2, <3>1
    <3> QED
      BY <3>1, <3>2 DEF Answers
  <2> QED
    BY <2>1, <2>2
<1> QED
  BY <1>1, <1>2, <1>4, <1>5 DEF ServerQuiet

(* Before a session: the first frame is refused, or the request is. *)
LEMMA QuietOutside ==
    ASSUME UpInv, NEW c \in Conns, UNCHANGED <<cli, source>>,
           RefuseFirstFrame(c) \/ RejectRequest(c) \/ RejectOpened(c)
    PROVE  ServerQuiet /\ DestStays
<1> DEFINE request == Head(c2s[c])
<1>1. HolderInv /\ c2s[c] \in Seq(ClientFrame) /\ sess \in Session \cup {NoSession}
  BY UpFacts
<1>2. CASE RefuseFirstFrame(c)
  <2>1. /\ UNCHANGED <<link, s2c, sess, dest>> /\ served' = served \cup {c} /\ ~Serving(c)
        /\ c2s' = c2s \/ (HasFrame(c2s, c) /\ c2s' = Consumed(c2s, c))
    BY <1>2 DEF RefuseFirstFrame
  <2>2. SessionGoesOn
    BY <1>1, <2>1 DEF SessionGoesOn, HolderInv, Serving
  <2> QED
    BY <2>1, <2>2, QuietWire DEF DestStays
<1>3. CASE RejectRequest(c) \/ RejectOpened(c)
  <2>1. /\ Dispatched(c) /\ UNCHANGED <<sess, dest>> /\ served' = served \cup {c}
    BY <1>3 DEF RejectRequest, RejectOpened
  <2>2. /\ sess = NoSession /\ HasFrame(c2s, c) /\ c2s' = Consumed(c2s, c) /\ link' = link
        /\ c2s[c] # << >> /\ request \in ClientFrame /\ request.type = "UploadRequest"
    BY <1>1, <2>1 DEF Dispatched, HasFrame
  <2>3. SessionGoesOn
    BY <2>1, <2>2, Zenon DEF SessionGoesOn
  <2>4. request.rid \in Nat /\ request.decoded \in {"ok", "InvalidPath", "InvalidPayload"}
    BY <2>2 DEF ClientFrame
  <2>5. EarlyStatus(request) \subseteq {"InvalidRequest", "InvalidPath", "InvalidPayload",
                                        "FileTooLarge", "FileOpenError"}
    BY <2>4, Zenon DEF EarlyStatus, PrepareStatus
  <2>6. \E status \in EarlyStatus(request) \cup {"FileOpenError", "FileWriteError", "FileReadError"} :
           s2c' = SendOn(s2c, c, TransferResult(request.rid, 0, ResultCodeForStatus(status)))
    BY <1>3 DEF RejectRequest, RejectOpened, Reply
  <2> HIDE DEF request
  <2>7. \E frame \in NoSuccess : frame \in Refusals /\ s2c' = SendOn(s2c, c, frame)
    BY <2>4, <2>5, <2>6, RefusalFrames, Zenon
  <2>8. ServerQuiet
    BY <2>1, <2>2, <2>3, <2>7, QuietWire
  <2> QED
    BY <2>1, <2>8, Zenon DEF DestStays
<1> QED
  BY <1>2, <1>3

(* The steps that end a session without a commit. *)
LEMMA QuietEnd ==
    ASSUME UpInv, UNCHANGED <<cli, source>>,
           \/ SendReadyFails \/ RejectFrame \/ DiscardMalformed \/ RecvInterrupted
           \/ StoreFails \/ SendAckFails \/ RenameFails \/ SyncDirsFails
    PROVE  ServerQuiet /\ DestStays
<1> DEFINE c == sess.conn
<1>1. sess # NoSession
  BY DEF SendReadyFails, RejectFrame, DiscardMalformed, RecvInterrupted, StoreFails,
         SendAckFails, RenameFails, SyncDirsFails, Receiving, At
<1>2. c \in Conns /\ sess.rid \in Nat /\ Serving(c)
  BY <1>1, HolderFacts DEF Serving
<1>3. sess' = NoSession /\ served' = served \cup {c} /\ dest' = dest /\ link' = link
  BY ZenonT(30) DEF SendReadyFails, RejectFrame, DiscardMalformed, RecvInterrupted, StoreFails,
         SendAckFails, RenameFails, SyncDirsFails, RejectTransfer, Receiving, Interrupted, Cleanup,
         Return, wireVars
<1>4. c2s' = c2s \/ (HasFrame(c2s, c) /\ c2s' = Consumed(c2s, c))
  BY ZenonT(30) DEF SendReadyFails, RejectFrame, DiscardMalformed, RecvInterrupted, StoreFails,
         SendAckFails, RenameFails, SyncDirsFails, Receiving, wireVars
<1>5. \/ s2c' = s2c
      \/ \E status \in {"FileWriteError", "FileCommitError"} \cup FrameStatus(Incoming) :
            s2c' = SendOn(s2c, c, TransferResult(sess.rid, sess.rid, ResultCodeForStatus(status)))
  BY ZenonT(30) DEF SendReadyFails, RejectFrame, DiscardMalformed, RecvInterrupted, StoreFails,
         SendAckFails, RenameFails, SyncDirsFails, RejectTransfer, Reply, wireVars
<1>6. FrameStatus(Incoming) \subseteq
         {"UnexpectedFrame", "UnexpectedMessageType", "InvalidPayload", "SizeMismatch",
          "ChecksumMismatch", "FileCommitError", "UnexpectedOffset", "FileWriteError"}
  BY DEF FrameStatus, CompleteStatus, ChunkStatus
<1>7. s2c' = s2c \/ \E frame \in NoSuccess : s2c' = SendOn(s2c, c, frame)
  BY <1>2, <1>5, <1>6, RefusalFrames
<1>8. SessionGoesOn
  BY <1>3 DEF SessionGoesOn
<1> HIDE DEF c
<1>9. ServerQuiet
  BY <1>2, <1>3, <1>4, <1>7, <1>8, QuietWire
<1> QED
  BY <1>3, <1>9, Zenon DEF DestStays

(* The steps inside a session. *)
LEMMA QuietSession ==
    ASSUME UpInv, UNCHANGED <<cli, source>>,
           \/ SendReady \/ SyncChunk \/ SendAck \/ Verify \/ AcceptChunk
           \/ \E n \in 1 .. ChunkSize : WriteBlocks(n)
    PROVE  ServerQuiet /\ DestStays
<1> DEFINE c == sess.conn
<1>1. sess # NoSession
  BY Zenon DEF SendReady, SyncChunk, SendAck, Verify, AcceptChunk, WriteBlocks, Receiving, At
<1>2. /\ sess \in Session /\ c \in Conns /\ c \notin served /\ sess.rid \in Nat
      /\ sess.offset \in Nat /\ Serving(c) /\ sess.checksum \in Content
      /\ c2s[c] \in Seq(ClientFrame)
  BY <1>1, HolderFacts, UpFacts DEF Serving
<1>3. CASE SendReady
  <2> DEFINE frame == TransferReady(sess.rid, sess.rid, sess.offset, Crc(sess.checksum))
  <2>1. /\ UNCHANGED <<link, c2s, served, dest>> /\ sess' = [sess EXCEPT !.pc = "loop"]
        /\ s2c' = SendOn(s2c, c, frame)
    BY <1>3 DEF SendReady
  <2>2. frame \in NoSuccess
    BY <1>2 DEF TransferReady, ServerFrame, NoSuccess, Crcs
  <2>3. SessionGoesOn
    <3>1. sess' \in Session
      BY <1>2, <2>1 DEF Session, Stages
    <3> QED
      BY <1>1, <1>2, <2>1, <3>1 DEF SessionGoesOn, Session
  <2> HIDE DEF frame, c
  <2> QED
    BY <1>2, <2>1, <2>2, <2>3, QuietWire DEF DestStays
<1>4. CASE SendAck
  <2> DEFINE frame == Acknowledgment(sess.rid, sess.rid, sess.offset)
  <2>1. /\ UNCHANGED <<link, c2s, served, dest>>
        /\ sess' = [sess EXCEPT !.pc = "loop", !.chunk = << >>, !.written = 0]
        /\ s2c' = SendOn(s2c, c, frame)
    BY <1>4 DEF SendAck
  <2>2. frame \in NoSuccess
    BY <1>2 DEF Acknowledgment, ServerFrame, NoSuccess
  <2>3. SessionGoesOn
    <3>1. sess' \in Session
      BY <1>2, <2>1, EmptySeq, Zenon DEF Session, Stages, Content
    <3> QED
      BY <1>1, <1>2, <2>1, <3>1 DEF SessionGoesOn, Session
  <2> HIDE DEF frame, c
  <2> QED
    BY <1>2, <2>1, <2>2, <2>3, QuietWire DEF DestStays
<1>5. CASE SyncChunk
  <2>1. UNCHANGED <<link, c2s, s2c, served, dest>> /\ sess' = [sess EXCEPT !.pc = "ack"]
    BY <1>5 DEF SyncChunk, wireVars
  <2>2. sess' \in Session
    BY <1>2, <2>1 DEF Session, Stages
  <2>3. SessionGoesOn
    BY <1>1, <1>2, <2>1, <2>2 DEF SessionGoesOn, Session
  <2> QED
    BY <1>2, <2>1, <2>3, QuietWire DEF DestStays
<1>6. CASE Verify
  <2>1. /\ UNCHANGED <<link, s2c, served, dest>> /\ sess' = [sess EXCEPT !.pc = "rename"]
        /\ HasFrame(c2s, c) /\ c2s' = Consumed(c2s, c) /\ Head(c2s[c]).type = "TransferComplete"
    BY <1>6 DEF Verify, Receiving, OfTransfer, Incoming
  <2>2. sess' \in Session
    BY <1>2, <2>1 DEF Session, Stages
  <2>3. c2s[c] \notin Seq(Openings)
    <3>1. c2s[c] \in Seq(Openings) => Head(c2s[c]) \in Openings
      BY <2>1 DEF HasFrame
    <3> QED
      BY <2>1, <3>1 DEF Openings
  <2>4. SessionGoesOn
    BY <1>1, <1>2, <2>1, <2>2, <2>3 DEF SessionGoesOn, Session
  <2> QED
    BY <1>2, <2>1, <2>4, QuietWire, Zenon DEF DestStays
<1>7. CASE AcceptChunk
  <2> DEFINE frame == Head(c2s[c])
             restarts == Restarts(frame)
  <2>1. /\ UNCHANGED <<link, s2c, served, dest>>
        /\ HasFrame(c2s, c) /\ c2s' = Consumed(c2s, c) /\ frame.type = "FileChunk"
        /\ sess' = [sess EXCEPT
                       !.pc = "write", !.chunk = frame.data, !.written = 0,
                       !.first_chunk = FALSE, !.offset = IF restarts THEN 0 ELSE sess.offset,
                       !.checksum = IF restarts THEN << >> ELSE @,
                       !.position = IF restarts THEN 0 ELSE @]
    BY <1>7 DEF AcceptChunk, Receiving, OfTransfer, Incoming
  <2>2. frame \in ClientFrame
    BY <1>2, <2>1 DEF HasFrame
  <2>3. frame.data \in Content
    BY <2>1, <2>2, FrameTypes
  <2> HIDE DEF frame, restarts
  <2>4. sess' \in Session
    BY <1>2, <2>1, <2>3, EmptySeq, Zenon DEF Session, Stages, Content
  <2>5. SessionGoesOn
    BY <1>1, <1>2, <2>1, <2>4 DEF SessionGoesOn, Session
  <2> QED
    BY <1>2, <2>1, <2>5, QuietWire, Zenon DEF DestStays
<1>8. CASE \E n \in 1 .. ChunkSize : WriteBlocks(n)
  <2>1. PICK n \in 1 .. ChunkSize : WriteBlocks(n)
    BY <1>8
  <2> DEFINE last == sess.written + n = Len(sess.chunk)
  <2>2. /\ UNCHANGED <<link, c2s, s2c, served, dest>>
        /\ sess' = [sess EXCEPT
                       !.written = @ + n, !.position = @ + n,
                       !.pc = IF last THEN "sync" ELSE "write",
                       !.checksum = IF last THEN @ \o sess.chunk ELSE @,
                       !.offset = IF last THEN @ + Len(sess.chunk) ELSE @]
    BY <2>1, Zenon DEF WriteBlocks, wireVars
  <2>3. /\ n \in Nat /\ sess.written \in Nat /\ sess.position \in Nat /\ sess.chunk \in Content
        /\ sess.checksum \o sess.chunk \in Content /\ Len(sess.chunk) \in Nat
    BY <1>2, LimitAssumption DEF Session, Content
  <2>4. /\ sess.written + n \in Nat /\ sess.position + n \in Nat
        /\ sess.offset + Len(sess.chunk) \in Nat
    BY <1>2, <2>3
  <2> HIDE DEF last
  <2>5. sess' \in Session
    BY <1>2, <2>2, <2>3, <2>4, ZenonT(30) DEF Session, Stages
  <2>6. SessionGoesOn
    BY <1>1, <1>2, <2>2, <2>5, Zenon DEF SessionGoesOn, Session
  <2> QED
    BY <1>2, <2>2, <2>6, QuietWire DEF DestStays
<1> QED
  BY <1>3, <1>4, <1>5, <1>6, <1>7, <1>8, Zenon

(* A connection comes down: closed by the server, or broken. *)
LEMMA QuietLink ==
    ASSUME UpInv, NEW c \in Conns, UNCHANGED <<cli, source>>, UNCHANGED serverVars,
           CloseServed(c) \/ Break(c)
    PROVE  ServerQuiet /\ DestStays
<1>1. /\ c2s \in [Conns -> Seq(ClientFrame)] /\ s2c \in [Conns -> Seq(ServerFrame)]
      /\ source \in Sources /\ HolderInv /\ link \in [Conns -> {"closed", "up", "down"}]
      /\ sess \in Session \cup {NoSession}
  BY UpFacts DEF Types
<1>2. /\ link[c] = "up" /\ link' = [link EXCEPT ![c] = "down"]
      /\ \E rest : Rest(rest, c2s[c]) /\ c2s' = [c2s EXCEPT ![c] = rest]
      /\ \E rest : Rest(rest, s2c[c]) /\ s2c' = [s2c EXCEPT ![c] = rest]
  <2>1. CASE Break(c)
    BY <2>1, Zenon DEF Break, Rest
  <2>2. CASE CloseServed(c)
    BY <2>2, Zenon DEF CloseServed, ServerEndClosed, Remainder, Rest
  <2> QED
    BY <2>1, <2>2
<1>3. \A d \in Conns : Rest(c2s'[d], c2s[d]) /\ Rest(s2c'[d], s2c[d])
  BY <1>1, <1>2 DEF Rest
<1>4. \A d \in Conns : link[d] = "closed" <=> link'[d] = "closed"
  BY <1>1, <1>2
<1>5. SessionGoesOn
  BY <1>1 DEF SessionGoesOn, HolderInv, serverVars
<1>6. s2c' = [d \in Conns |-> s2c'[d]]
  BY <1>1, <1>2, Zenon
<1> QED
  BY <1>1, <1>3, <1>4, <1>5, <1>6, Zenon DEF ServerQuiet, DestStays, Answers, serverVars

(* The source file changes, or nothing does. *)
LEMMA QuietSource ==
    ASSUME UpInv, UNCHANGED cli, source' \in Sources, UNCHANGED serverVars, UNCHANGED wireVars
    PROVE  ServerQuiet /\ DestStays
<1>1. s2c \in [Conns -> Seq(ServerFrame)] /\ HolderInv /\ sess \in Session \cup {NoSession}
  BY UpFacts
<1>2. SessionGoesOn
  BY <1>1 DEF SessionGoesOn, HolderInv, serverVars
<1> QED
  BY <1>1, <1>2 DEF ServerQuiet, DestStays, Answers, Rest, serverVars, wireVars

(* The server dies, with the power or without. *)
LEMMA QuietCrash ==
    ASSUME UpInv, UNCHANGED <<cli, source>>, KillServer \/ PowerFailure
    PROVE  ServerQuiet /\ DestStays
<1>1. /\ c2s \in [Conns -> Seq(ClientFrame)] /\ s2c \in [Conns -> Seq(ServerFrame)]
      /\ source \in Sources /\ FreshInv /\ TypeOK /\ link \in [Conns -> {"closed", "up", "down"}]
  BY UpFacts DEF Types
<1>2. ProcessLost
  BY DEF KillServer, PowerFailure
<1>3. SessionGoesOn
  <2>1. sess # NoSession => sess.conn \in Conns /\ link[sess.conn] # "closed"
    BY <1>1, HolderFacts DEF FreshInv, Fresh, Serving
  <2> QED
    BY <1>2, <2>1 DEF ProcessLost, SessionGoesOn
<1>4. /\ \A d \in Conns : link[d] = "closed" <=> link'[d] = "closed"
      /\ \A d \in Conns : c2s'[d] = << >> /\ s2c'[d] \in {s2c[d], << >>}
      /\ served \subseteq served' /\ s2c' = [d \in Conns |-> s2c'[d]]
  BY <1>1, <1>2 DEF ProcessLost
<1>5. ServerQuiet
  BY <1>1, <1>3, <1>4 DEF ServerQuiet, Answers, Rest
<1>6. DestStays
  <2>1. CASE KillServer
    BY <2>1 DEF KillServer, DestStays
  <2>2. CASE PowerFailure
    <3>1. \A p \in Paths :
             /\ dest'[p].now = dest[p].now \/ dest'[p].now \in Outcomes(dest[p])
             /\ dest'[p].data = {dest'[p].now} /\ dest'[p].names = {}
      BY <1>1, <2>2, FailureOfDest, Zenon
    <3> QED
      BY <1>2, <3>1 DEF DestStays, Outcomes, ProcessLost
  <2> QED
    BY <2>1, <2>2
<1> QED
  BY <1>5, <1>6

(* A new session is a session. *)
LEMMA OpenedSession ==
    ASSUME Inv, NEW c \in Conns, OpenPartial(c)
    PROVE  sess' \in Session
<1> DEFINE request == Head(c2s[c])
           m == request.meta
           opened == OpenedOrCreated(parts[m])
           held == IF Len(opened.now) > m.size THEN Changed(opened, << >>) ELSE opened
<1>1. TypeOK
  BY DEF Inv
<1>2. HasFrame(c2s, c) /\ request.type = "UploadRequest"
  BY Zenon DEF OpenPartial, Dispatched
<1>3. m \in Metas /\ request.rid \in Nat
  BY <1>1, <1>2, QueueTypes, FrameTypes
<1>4. << >> \in Content
  BY DEF Content
<1>5. opened.now \in Content
  BY <1>1, <1>3, <1>4, EntryTypes, Zenon DEF TypeOK
<1>6. held.now \in Content
  <2>1. Changed(opened, << >>).now = << >>
    BY DEF Changed
  <2> QED
    BY <1>4, <1>5, <2>1, Zenon
<1>7. sess' = [conn |-> c, rid |-> request.rid, pc |-> "ready", meta |-> m,
                offset |-> Len(held.now), checksum |-> held.now,
                position |-> Len(held.now), first_chunk |-> TRUE,
                chunk |-> << >>, written |-> 0]
  BY ZenonT(30) DEF OpenPartial
<1> HIDE DEF held, m, request
<1>8. Len(held.now) \in Nat
  BY <1>6 DEF Content
<1> QED
  BY <1>3, <1>4, <1>6, <1>7, <1>8 DEF Session, Stages

(* A transfer is opened: the mutex was free, so every connection that is    *)
(* not served yet carries requests only, and none can commit before it is   *)
(* sent a TransferComplete of its own.                                      *)
LEMMA UpOpen ==
    ASSUME UpInv, Inv', NEW c \in Conns, UNCHANGED <<cli, source>>, OpenPartial(c)
    PROVE  UpInv'
<1> DEFINE request == Head(c2s[c])
<1>1. /\ Types /\ ClientInv /\ FreshInv /\ OpeningInv /\ MetaInv /\ ResultInv
      /\ c2s \in [Conns -> Seq(ClientFrame)] /\ cli.attempt \in Conns
  BY UpFacts
<1>2. /\ sess = NoSession /\ c \notin served /\ c2s[c] # << >>
      /\ c2s' = [c2s EXCEPT ![c] = Tail(c2s[c])] /\ request.type = "UploadRequest"
      /\ UNCHANGED <<link, s2c, served, dest>>
      /\ sess'.conn = c /\ sess'.pc = "ready" /\ sess'.meta = request.meta
  BY Zenon DEF OpenPartial, Dispatched, HasFrame, Consumed
<1>3. sess' # NoSession => \A d : Serving(d)' <=> d = c
  BY <1>2 DEF Serving
<1>4. \A d \in Conns : Rest(c2s'[d], c2s[d]) /\ (d # c => c2s'[d] = c2s[d])
  BY <1>1, <1>2, Zenon DEF Rest
<1>5. Types' /\ ClientInv' /\ HolderInv'
  BY <1>1, <1>2 DEF Types, ClientInv, HolderInv
<1>6. FreshInv'
  <2>1. ASSUME NEW d \in Conns, Fresh(d)
        PROVE  Fresh(d)'
    BY <1>2, <1>4, <2>1 DEF Fresh, Serving
  <2> QED
    BY <1>1, <1>2, <2>1, Zenon DEF FreshInv
<1>7. sess' # NoSession
  BY SessionAssumption, OpenedSession DEF UpInv
<1>8. OpeningInv'
  BY <1>1, <1>2, <1>3, <1>4, <1>7, Zenon DEF OpeningInv, Serving
<1>9. MetaInv'
  <2>1. c2s'[cli.attempt] \in Seq(Current)
    BY <1>1, <1>4, RestKept, Zenon DEF MetaInv
  <2>2. c = cli.attempt => request \in Current
    BY <1>1, <1>2 DEF MetaInv
  <2>3. c = cli.attempt => request.meta = Metadata
    BY <1>2, <2>2 DEF Current
  <2> QED
    BY <1>2, <2>1, <2>3, Zenon DEF MetaInv, Serving, Current, Metadata
<1>10. EarlierHarmless'
  <2> SUFFICES ASSUME NEW d \in Conns
               PROVE  Harmless(d)'
    BY DEF EarlierHarmless
  <2>1. d \in served \/ c2s[d] \in Seq(Openings)
    BY <1>1, <1>2 DEF OpeningInv, Serving
  <2>2. d \in served \/ c2s'[d] \in Seq(Openings)
    BY <1>4, <2>1, RestKept
  <2> QED
    BY <1>2, <2>2 DEF Harmless
<1>11. EngagedInv'
  BY <1>10 DEF EngagedInv
<1>12. CommitInv'
  BY <1>2, Zenon DEF CommitInv, At
<1>13. ResultInv'
  BY <1>1, <1>2, <1>10 DEF ResultInv, Committed, Verified
<1> QED
  BY <1>5, <1>6, <1>8, <1>9, <1>11, <1>12, <1>13, Zenon DEF UpInv

(* The rename.  Had an attempt been committed, this one could not come to   *)
(* its rename any more.                                                     *)
LEMMA UpRename ==
    ASSUME UpInv, Inv', UNCHANGED <<cli, source>>, Rename
    PROVE  UpInv'
<1> DEFINE m == sess.meta
           c == sess.conn
<1>1. /\ Inv /\ Types /\ ClientInv /\ HolderInv /\ FreshInv /\ OpeningInv /\ MetaInv
      /\ EngagedInv /\ ResultInv /\ cli.attempt \in Conns /\ Conns \subseteq Nat
      /\ dest \in [Paths -> Entry]
  BY UpFacts
<1>2. /\ sess # NoSession /\ sess.pc = "rename" /\ At("rename")
      /\ UNCHANGED <<link, c2s, s2c, served>> /\ sess' = [sess EXCEPT !.pc = "syncdirs"]
      /\ dest' = [dest EXCEPT ![m.path] = RenamedOver(@, parts[m])]
  BY DEF Rename, At, wireVars
<1>3. /\ sess \in Session /\ c \in Conns /\ c \notin served /\ c <= cli.attempt /\ m \in Metas
  BY <1>2, HolderFacts
<1>4. sess'.conn = c /\ sess'.meta = m /\ sess'.pc = "syncdirs" /\ sess' # NoSession
  <2>1. sess' \in Session
    BY <1>2, <1>3 DEF Session, Stages
  <2> QED
    BY <1>2, <1>3, <2>1, SessionAssumption DEF Session
<1>5. \A d : Serving(d)' <=> Serving(d)
  BY <1>2, <1>4 DEF Serving
<1>6. Types' /\ ClientInv' /\ HolderInv'
  BY <1>1, <1>2, <1>3, <1>4 DEF Types, ClientInv, HolderInv
<1>7. FreshInv' /\ OpeningInv'
  BY <1>1, <1>2, <1>5 DEF FreshInv, Fresh, OpeningInv
<1>8. MetaInv'
  BY <1>1, <1>2, <1>4 DEF MetaInv, Serving, Current, Metadata
<1>9. CommitInv'
  <2>1. /\ m.path \in Paths /\ Len(parts[m].now) = m.size /\ Crc(parts[m].now) = m.crc
        /\ parts[m].data = {parts[m].now}
    BY <1>1, <1>2, RenamedIsVerified
  <2>2. parts[m].now \in Content
    BY <1>1, <1>2, SessionPartial
  <2>3. dest'[m.path] = RenamedOver(dest[m.path], parts[m])
    BY <1>1, <1>2, <2>1, Zenon
  <2>4. Verified(dest'[m.path], m.size, m.crc)
    BY <2>1, <2>2, <2>3 DEF Verified, RenamedOver
  <2> QED
    BY <1>4, <2>4 DEF CommitInv, At
<1>10. ~Harmless(c)
  BY <1>2, <1>3 DEF Harmless, Serving
<1>11. EarlierHarmless => EarlierHarmless'
  <2> SUFFICES ASSUME EarlierHarmless, NEW d \in Conns, d < cli.attempt
               PROVE  Harmless(d)'
    BY <1>2 DEF EarlierHarmless
  <2>1. Harmless(d) /\ d # c
    BY <1>10 DEF EarlierHarmless
  <2> QED
    BY <1>2, <1>4, <2>1 DEF Harmless, Serving
<1>12. EngagedInv'
  BY <1>1, <1>2, <1>5, <1>11, Zenon DEF EngagedInv
<1>13. ~Committed
  <2>1. c \in Nat /\ cli.attempt \in Nat
    BY <1>1, <1>3, Zenon
  <2>2. c = cli.attempt \/ c < cli.attempt
    BY <1>3, <2>1
  <2> QED
    BY <1>3, <1>10, <2>2 DEF Committed, EarlierHarmless
<1>14. ResultInv'
  BY <1>1, <1>2, <1>13 DEF ResultInv
<1> QED
  BY <1>6, <1>7, <1>8, <1>9, <1>12, <1>14, Zenon DEF UpInv

(* The commit: of the current attempt, which has declared what is verified  *)
(* now, or of an earlier one, with which the current one has not begun.     *)
LEMMA UpCommit ==
    ASSUME UpInv, Inv', UNCHANGED <<cli, source>>, Commit
    PROVE  UpInv'
<1> DEFINE m == sess.meta
           c == sess.conn
           frame == TransferResult(sess.rid, sess.rid, "Success")
<1>1. /\ Inv /\ Types /\ ClientInv /\ HolderInv /\ FreshInv /\ OpeningInv /\ MetaInv
      /\ EngagedInv /\ CommitInv /\ ResultInv /\ cli.attempt \in Conns /\ Conns \subseteq Nat
      /\ dest \in [Paths -> Entry] /\ s2c \in [Conns -> Seq(ServerFrame)]
  BY UpFacts
<1>2. /\ sess # NoSession /\ sess.pc = "syncdirs" /\ At("syncdirs")
      /\ UNCHANGED <<link, c2s>> /\ sess' = NoSession /\ served' = served \cup {c}
      /\ dest' = [dest EXCEPT ![m.path] = NameSynced(@)]
      /\ s2c' = SendOn(s2c, c, frame)
  BY Zenon DEF Commit, At, Return, Reply
<1>3. /\ sess \in Session /\ c \in Conns /\ c \notin served /\ c <= cli.attempt /\ m \in Metas
      /\ sess.rid \in Nat /\ Serving(c) /\ m.path \in Paths
  BY <1>2, HolderFacts, MetaAssumption, Zenon DEF Serving
<1>4. frame \in ServerFrame
  BY <1>3 DEF TransferResult, ServerFrame, Codes
<1> HIDE DEF frame
<1>5. /\ s2c' \in [Conns -> Seq(ServerFrame)] /\ \A d \in Conns : d # c => s2c'[d] = s2c[d]
  <2>1. Append(s2c[c], frame) \in Seq(ServerFrame)
    BY <1>1, <1>3, <1>4
  <2>2. s2c' = s2c \/ s2c' = [s2c EXCEPT ![c] = Append(s2c[c], frame)]
    BY <1>2 DEF SendOn
  <2> QED
    BY <1>1, <1>3, <2>1, <2>2, Zenon
<1>6. Types' /\ ClientInv' /\ HolderInv'
  BY <1>1, <1>2, <1>5 DEF Types, ClientInv, HolderInv
<1>7. \A d : ~Serving(d)'
  BY <1>2 DEF Serving
<1>8. FreshInv'
  <2>1. ASSUME NEW d \in Conns, Fresh(d)
        PROVE  Fresh(d)'
    BY <1>2, <1>3, <1>5, <1>7, <2>1, Zenon DEF Fresh
  <2> QED
    BY <1>1, <1>2, <2>1, Zenon DEF FreshInv
<1>9. OpeningInv'
  BY <1>1, <1>2, <1>5, Zenon DEF OpeningInv, Serving
<1>10. MetaInv' /\ CommitInv'
  BY <1>1, <1>2, Zenon DEF MetaInv, Current, Metadata, Serving, CommitInv, At
<1>11. EarlierHarmless => EarlierHarmless'
  <2> SUFFICES ASSUME EarlierHarmless, NEW d \in Conns, d < cli.attempt
               PROVE  Harmless(d)'
    BY <1>2, Zenon DEF EarlierHarmless
  <2> QED
    BY <1>2 DEF Harmless, EarlierHarmless, Serving
<1>12. CASE c = cli.attempt
  <2>1. EarlierHarmless'
    BY <1>1, <1>3, <1>11, <1>12 DEF EngagedInv
  <2>2. m = Metadata
    BY <1>1, <1>3, <1>12, Zenon DEF MetaInv
  <2>3. m.path = Path /\ m.size = cli.size /\ m.crc = cli.crc
    BY <2>2 DEF Metadata
  <2>4. Verified(dest[Path], cli.size, cli.crc)
    BY <1>1, <1>2, <2>3, Zenon DEF CommitInv
  <2>5. dest'[Path] = NameSynced(dest[Path])
    BY <1>1, <1>2, <1>3, <2>3, Zenon
  <2>6. Committed'
    BY <1>2, <1>12, <2>1, <2>4, <2>5 DEF Committed, Verified, NameSynced
  <2> QED
    BY <1>6, <1>8, <1>9, <1>10, <2>1, <2>6, Zenon DEF UpInv, EngagedInv, ResultInv
<1>13. CASE c # cli.attempt
  <2>1. c \in Nat /\ cli.attempt \in Nat
    BY <1>1, <1>3, Zenon
  <2>2. c < cli.attempt
    BY <1>3, <1>13, <2>1
  <2>3. ~EarlierHarmless
    BY <1>2, <1>3, <2>2 DEF EarlierHarmless, Harmless
  <2>4. s2c'[cli.attempt] = s2c[cli.attempt]
    BY <1>1, <1>5, <1>13, Zenon
  <2>5. EngagedInv'
    BY <1>1, <1>2, <1>7, <2>3, <2>4, Zenon DEF EngagedInv
  <2>6. ResultInv'
    BY <1>1, <2>3, <2>4 DEF ResultInv, Committed
  <2> QED
    BY <1>6, <1>8, <1>9, <1>10, <2>5, <2>6, Zenon DEF UpInv
<1> QED
  BY <1>12, <1>13

(* The steps of the server and of the environment. *)
LEMMA UpServer ==
    ASSUME UpInv, UNCHANGED <<cli, source>>,
           \/ ServerStep \/ KillServer \/ (PowerMayFail /\ PowerFailure)
           \/ (UNCHANGED serverVars /\ \E c \in Conns : Break(c))
    PROVE  UpInv'
<1>1. Inv'
  <2>1. Next
    BY DEF Next, ConnectionBreaks
  <2> QED
    BY <2>1, NextInv DEF UpInv
<1>2. CASE \E c \in Conns : RefuseFirstFrame(c) \/ RejectRequest(c) \/ RejectOpened(c)
  BY <1>1, <1>2, QuietOutside, QuietUpload
<1>3. CASE \E c \in Conns : OpenPartial(c)
  BY <1>1, <1>3, UpOpen, Zenon
<1>4. CASE \/ \E c \in Conns : CloseServed(c)
           \/ (UNCHANGED serverVars /\ \E c \in Conns : Break(c))
  <2>1. UNCHANGED serverVars /\ \E c \in Conns : CloseServed(c) \/ Break(c)
    BY <1>4 DEF CloseServed
  <2> QED
    BY <1>1, <2>1, QuietLink, QuietUpload, Zenon
<1>5. CASE \/ SendReadyFails \/ RejectFrame \/ DiscardMalformed \/ RecvInterrupted
           \/ StoreFails \/ SendAckFails \/ RenameFails \/ SyncDirsFails
  BY <1>1, <1>5, QuietEnd, QuietUpload
<1>6. CASE \/ SendReady \/ SyncChunk \/ SendAck \/ Verify \/ AcceptChunk
           \/ \E n \in 1 .. ChunkSize : WriteBlocks(n)
  BY <1>1, <1>6, QuietSession, QuietUpload, Zenon
<1>7. CASE Rename
  BY <1>1, <1>7, UpRename
<1>8. CASE Commit
  BY <1>1, <1>8, UpCommit
<1>9. CASE KillServer \/ PowerFailure
  BY <1>1, <1>9, QuietCrash, QuietUpload, Zenon
<1> QED
  BY <1>2, <1>3, <1>4, <1>5, <1>6, <1>7, <1>8, <1>9, Zenon DEF ServerStep, TransferStep
-----------------------------------------------------------------------------
(* The client.                                                              *)

(* An attempt goes on: it takes replies, or sends what follows a request.   *)
ClientGoesOn ==
    /\ UNCHANGED serverVars /\ UNCHANGED source
    /\ cli' \in Client /\ cli'.attempt = cli.attempt /\ ClientInv'
    /\ cli.pc = "size" \/ (cli'.size = cli.size /\ cli'.crc = cli.crc)
    /\ link' \in [Conns -> {"closed", "up", "down"}]
    /\ \A d \in Conns : /\ link'[d] = "closed" => link[d] = "closed"
                        /\ d # cli.attempt => link'[d] = link[d]
    /\ s2c' = [s2c EXCEPT ![cli.attempt] = s2c'[cli.attempt]]
    /\ Rest(s2c'[cli.attempt], s2c[cli.attempt])
    /\ c2s' = [c2s EXCEPT ![cli.attempt] = c2s'[cli.attempt]]
    /\ \/ Rest(c2s'[cli.attempt], c2s[cli.attempt])
       \/ /\ cli.pc \in Sending /\ link[cli.attempt] = "up"
          /\ \E frame \in ClientFrame \ Openings :
                c2s'[cli.attempt] = Append(c2s[cli.attempt], frame)
    /\ cli'.pc \in {"connect", "size", "request"} => cli.pc \in {"connect", "size", "request"}
    /\ cli'.pc \in Sending =>
          \/ cli.pc \in Sending
          \/ s2c[cli.attempt] # << >> /\ s2c[cli.attempt] \notin Seq(Refusals)
    /\ cli'.status = "Success" =>
          \/ cli.status = "Success"
          \/ cli.pc \in Sending /\ s2c[cli.attempt] \notin Seq(NoSuccess)

(* Whatever the client does, the server's own invariant is not touched. *)
LEMMA ClientInvKept ==
    ASSUME Inv, UNCHANGED serverVars, c2s' \in [Conns -> Seq(ClientFrame)],
           link' \in [Conns -> {"closed", "up", "down"}], DOMAIN s2c' = Conns
    PROVE  Inv'
<1>1. TypeOK'
  BY DEF Inv, TypeOK, serverVars
<1>2. SessionInv' /\ PartialsAreFiles'
  BY SameSessionInv, Zenon DEF serverVars
<1> QED
  BY <1>1, <1>2, Zenon DEF Inv, SessionInv

LEMMA GoesOnTypes ==
    ASSUME UpInv, ClientGoesOn
    PROVE  /\ Inv' /\ Types' /\ ClientInv' /\ HolderInv'
           /\ \A d \in Conns \ {cli.attempt} : c2s'[d] = c2s[d] /\ s2c'[d] = s2c[d]
<1>1. /\ Inv /\ Types /\ HolderInv /\ cli.attempt \in Conns
      /\ c2s \in [Conns -> Seq(ClientFrame)] /\ s2c \in [Conns -> Seq(ServerFrame)]
  BY UpFacts, Zenon
<1>2. c2s'[cli.attempt] \in Seq(ClientFrame)
  <2>1. c2s[cli.attempt] \in Seq(ClientFrame)
    BY <1>1, Zenon
  <2>2. CASE Rest(c2s'[cli.attempt], c2s[cli.attempt])
    BY <2>1, <2>2, RestKept, Zenon
  <2>3. CASE \E frame \in ClientFrame \ Openings : c2s'[cli.attempt] = Append(c2s[cli.attempt], frame)
    BY <2>1, <2>3
  <2> QED
    BY <2>2, <2>3 DEF ClientGoesOn
<1>3. s2c'[cli.attempt] \in Seq(ServerFrame)
  BY <1>1, RestKept DEF ClientGoesOn
<1>4. c2s' \in [Conns -> Seq(ClientFrame)] /\ s2c' \in [Conns -> Seq(ServerFrame)]
  BY <1>1, <1>2, <1>3, Zenon DEF ClientGoesOn
<1>5. \A d \in Conns \ {cli.attempt} : c2s'[d] = c2s[d] /\ s2c'[d] = s2c[d]
  BY <1>1, Zenon DEF ClientGoesOn
<1>6. Inv'
  BY <1>1, <1>4, ClientInvKept DEF ClientGoesOn
<1>7. Types'
  BY <1>1, <1>4, Zenon DEF Types, ClientGoesOn
<1>8. HolderInv'
  BY <1>1 DEF HolderInv, ClientGoesOn, serverVars
<1> QED
  BY <1>5, <1>6, <1>7, <1>8, Zenon DEF ClientGoesOn

LEMMA GoesOnOpening ==
    ASSUME UpInv, ClientGoesOn
    PROVE  FreshInv' /\ OpeningInv'
<1>1. /\ FreshInv /\ OpeningInv /\ cli.attempt \in Conns
      /\ c2s \in [Conns -> Seq(ClientFrame)] /\ s2c \in [Conns -> Seq(ServerFrame)]
      /\ link \in [Conns -> {"closed", "up", "down"}]
  BY UpFacts
<1>2. \A d \in Conns \ {cli.attempt} : c2s'[d] = c2s[d] /\ s2c'[d] = s2c[d]
  BY GoesOnTypes, Zenon
<1>3. \A d : Serving(d)' <=> Serving(d)
  BY DEF Serving, ClientGoesOn, serverVars
<1>4. ASSUME NEW d \in Conns, Fresh(d),
             d = cli.attempt => link[d] = "closed" \/ cli.pc \notin Sending
      PROVE  Fresh(d)'
  <2>1. CASE d # cli.attempt
    BY <1>2, <1>3, <1>4, <2>1, Zenon DEF Fresh
  <2>2. CASE d = cli.attempt
    <3>1. Rest(c2s'[d], c2s[d]) /\ Rest(s2c'[d], s2c[d])
      BY <1>4, <2>2, Zenon DEF ClientGoesOn
    <3>2. c2s'[d] = << >> /\ s2c'[d] = << >>
      BY <1>4, <3>1, NothingRests, Zenon DEF Fresh
    <3> QED
      BY <1>3, <1>4, <3>2, Zenon DEF Fresh
  <2> QED
    BY <2>1, <2>2, Zenon
<1>5. ASSUME NEW d \in Conns
      PROVE  /\ (d > cli.attempt => link[d] = "closed")'
             /\ (link[d] = "closed" => Fresh(d))'
             /\ (d = cli.attempt /\ cli.pc \in {"connect", "size", "request"} => Fresh(d))'
  <2>1. (d > cli.attempt => link[d] = "closed")'
    <3>1. d > cli.attempt => d # cli.attempt
      BY <1>1, ClientAssumption
    <3> QED
      BY <1>1, <3>1, Zenon DEF FreshInv, ClientGoesOn
  <2>2. (link[d] = "closed" => Fresh(d))'
    BY <1>1, <1>4, Zenon DEF FreshInv, ClientGoesOn
  <2>3. (d = cli.attempt /\ cli.pc \in {"connect", "size", "request"} => Fresh(d))'
    BY <1>1, <1>4 DEF FreshInv, ClientGoesOn, Sending
  <2> QED
    BY <2>1, <2>2, <2>3, Zenon
<1>6. FreshInv'
  BY <1>5, Zenon DEF FreshInv
<1>7. ASSUME NEW d \in Conns \ served, ~Serving(d)
      PROVE  /\ c2s'[d] \in Seq(Openings) /\ s2c'[d] = << >>
             /\ d = cli.attempt => cli'.pc \notin Sending
  <2>1. /\ c2s[d] \in Seq(Openings) /\ s2c[d] = << >>
        /\ d = cli.attempt => cli.pc \notin Sending
    BY <1>1, <1>7, Zenon DEF OpeningInv
  <2>2. Rest(c2s'[d], c2s[d]) /\ Rest(s2c'[d], s2c[d])
    BY <1>2, <2>1, Zenon DEF ClientGoesOn, Rest
  <2>3. c2s'[d] \in Seq(Openings)
    BY <2>1, <2>2, RestKept, Zenon
  <2>4. s2c'[d] = << >>
    BY <2>1, <2>2, NothingRests, Zenon
  <2> QED
    BY <2>1, <2>3, <2>4, Zenon DEF ClientGoesOn
<1>8. OpeningInv'
  BY <1>3, <1>7 DEF OpeningInv, ClientGoesOn, serverVars
<1> QED
  BY <1>6, <1>8

LEMMA GoesOnEngaged ==
    ASSUME UpInv, ClientGoesOn
    PROVE  MetaInv' /\ EngagedInv' /\ CommitInv' /\ ResultInv'
<1> DEFINE a == cli.attempt
<1>1. /\ ClientInv /\ FreshInv /\ MetaInv /\ EngagedInv /\ CommitInv /\ ResultInv
      /\ a \in Conns /\ s2c \in [Conns -> Seq(ServerFrame)]
  BY UpFacts
<1>2. \A d \in Conns \ {a} : c2s'[d] = c2s[d] /\ s2c'[d] = s2c[d]
  BY GoesOnTypes, Zenon
<1>3. UNCHANGED <<sess, served, dest>> /\ cli'.attempt = a /\ Conns \subseteq Nat
  <2>1. Conns \subseteq Nat
    BY ClientAssumption
  <2> QED
    BY <2>1, Zenon DEF ClientGoesOn, serverVars
<1>4. \A d : Serving(d)' <=> Serving(d)
  BY <1>3 DEF Serving
<1>5. EarlierHarmless => EarlierHarmless'
  <2> SUFFICES ASSUME EarlierHarmless, NEW d \in Conns, d < a
               PROVE  Harmless(d)'
    BY <1>3 DEF EarlierHarmless
  <2>1. d # a
    BY <1>1, <1>3
  <2> QED
    BY <1>2, <1>3, <1>4, <2>1 DEF Harmless, EarlierHarmless
<1>6. cli.pc = "size" => Fresh(a)
  BY <1>1 DEF FreshInv
<1>7. MetaInv'
  <2>1. CASE cli.pc = "size"
    <3>1. c2s'[a] = << >> /\ ~Serving(a)
      <4>1. cli.pc \notin Sending
        BY <2>1, Zenon DEF Sending
      <4>2. Rest(c2s'[a], << >>)
        BY <1>6, <2>1, <4>1, Zenon DEF ClientGoesOn, Fresh
      <4> QED
        BY <1>6, <2>1, <4>2, NothingRests, Zenon DEF Fresh
    <3> QED
      BY <1>3, <1>4, <3>1, EmptyFrames, Zenon DEF MetaInv
  <2>2. CASE cli.pc # "size"
    <3>1. Metadata' = Metadata
      BY <2>2, Zenon DEF ClientGoesOn, Metadata
    <3>2. Current' = Current
      BY <3>1, Zenon DEF Current
    <3>3. c2s'[a] \in Seq(Current)
      <4>1. c2s[a] \in Seq(Current)
        BY <1>1 DEF MetaInv
      <4>2. CASE Rest(c2s'[a], c2s[a])
        BY <4>1, <4>2, RestKept, Zenon
      <4>3. CASE \E frame \in ClientFrame \ Openings : c2s'[a] = Append(c2s[a], frame)
        <5>1. ClientFrame \ Openings \subseteq Current
          BY DEF Openings, Current
        <5> HIDE DEF a
        <5> QED
          BY <4>1, <4>3, <5>1
      <4> QED
        BY <4>2, <4>3, Zenon DEF ClientGoesOn
    <3> QED
      BY <1>1, <1>3, <1>4, <3>1, <3>2, <3>3, Zenon DEF MetaInv
  <2> QED
    BY <2>1, <2>2, Zenon
<1>8. EngagedInv'
  <2>1. CASE EarlierHarmless
    BY <1>5, <2>1, Zenon DEF EngagedInv
  <2>2. CASE ~EarlierHarmless
    <3>1. /\ ~Serving(a) /\ s2c[a] \in Seq(Refusals) /\ cli.pc \notin Sending
          /\ cli.status # "Success"
      BY <1>1, <2>2, Zenon DEF EngagedInv
    <3>2. s2c'[a] \in Seq(Refusals)
      BY <3>1, RestKept, Zenon DEF ClientGoesOn
    <3>3. cli'.pc \notin Sending /\ cli'.status # "Success"
      BY <3>1, Zenon DEF ClientGoesOn
    <3> QED
      BY <1>3, <1>4, <3>1, <3>2, <3>3, Zenon DEF EngagedInv
  <2> QED
    BY <2>1, <2>2
<1>9. CommitInv'
  BY <1>1, <1>3, Zenon DEF CommitInv, At
<1>10. ResultInv'
  <2>1. CASE cli.status # "Success" /\ s2c[a] \in Seq(NoSuccess)
    <3>1. s2c'[a] \in Seq(NoSuccess)
      BY <2>1, RestKept, Zenon DEF ClientGoesOn
    <3>2. cli'.status # "Success"
      BY <2>1, Zenon DEF ClientGoesOn
    <3> QED
      BY <1>3, <3>1, <3>2, Zenon DEF ResultInv
  <2>2. CASE Committed /\ cli.pc # "size"
    <3>1. cli'.size = cli.size /\ cli'.crc = cli.crc
      BY <2>2 DEF ClientGoesOn
    <3> QED
      BY <1>3, <1>5, <2>2, <3>1, Zenon DEF Committed, ResultInv
  <2>3. CASE cli.pc = "size"
    <3>1. s2c[a] = << >> /\ cli.status # "Success"
      BY <1>1, <1>6, <2>3, Zenon DEF Fresh, ClientInv
    <3>2. s2c[a] \in Seq(NoSuccess)
      BY <3>1
    <3> QED
      BY <2>1, <3>1, <3>2, Zenon
  <2> QED
    BY <1>1, <2>1, <2>2, <2>3 DEF ResultInv
<1> QED
  BY <1>7, <1>8, <1>9, <1>10, Zenon

LEMMA UpGoesOn ==
    ASSUME UpInv, ClientGoesOn
    PROVE  UpInv'
<1>1. Inv' /\ Types' /\ ClientInv' /\ HolderInv'
  BY GoesOnTypes
<1>2. FreshInv' /\ OpeningInv'
  BY GoesOnOpening
<1>3. MetaInv' /\ EngagedInv' /\ CommitInv' /\ ResultInv'
  BY GoesOnEngaged
<1> QED
  BY <1>1, <1>2, <1>3, Zenon DEF UpInv

(* The attempt ends, with or without a reply. *)
LEMMA ClientEnds ==
    ASSUME UpInv, NEW status \in Statuses, Ends(status), UNCHANGED source, UNCHANGED serverVars,
           UNCHANGED <<link, c2s>>,
           s2c' = s2c \/ (HasFrame(s2c, cli.attempt) /\ s2c' = Consumed(s2c, cli.attempt)),
           status = "Success" => cli.pc \in Sending /\ s2c[cli.attempt] \notin Seq(NoSuccess)
    PROVE  ClientGoesOn
<1>1. /\ cli \in Client /\ cli.attempt \in Conns /\ ClientInv
      /\ c2s \in [Conns -> Seq(ClientFrame)] /\ s2c \in [Conns -> Seq(ServerFrame)]
      /\ link \in [Conns -> {"closed", "up", "down"}]
  BY UpFacts
<1>2. /\ cli' = [cli EXCEPT !.pc = "close", !.status = status] /\ cli' \in Client
      /\ cli'.pc = "close" /\ cli'.status = status /\ cli'.attempt = cli.attempt
      /\ cli'.size = cli.size /\ cli'.crc = cli.crc
  BY <1>1, Zenon DEF Ends, Client
<1>3. ClientInv'
  BY <1>2, Zenon DEF ClientInv
<1>4. /\ s2c' = [s2c EXCEPT ![cli.attempt] = s2c'[cli.attempt]]
      /\ Rest(s2c'[cli.attempt], s2c[cli.attempt])
      /\ c2s' = [c2s EXCEPT ![cli.attempt] = c2s'[cli.attempt]]
      /\ Rest(c2s'[cli.attempt], c2s[cli.attempt])
  BY <1>1 DEF HasFrame, Consumed, Rest
<1> QED
  BY <1>1, <1>2, <1>3, <1>4, Zenon DEF ClientGoesOn, Sending

(* The attempt goes on to its next frame. *)
LEMMA ClientMoves ==
    ASSUME UpInv, UNCHANGED source, UNCHANGED serverVars, UNCHANGED link,
           cli' \in Client, cli'.attempt = cli.attempt, cli'.size = cli.size, cli'.crc = cli.crc,
           cli'.status = cli.status, cli'.pc \in Sending, ClientInv',
           s2c' = s2c \/ (HasFrame(s2c, cli.attempt) /\ s2c' = Consumed(s2c, cli.attempt)),
           \/ c2s' = c2s
           \/ /\ cli.pc \in Sending
              /\ \E frame \in ClientFrame \ Openings : c2s' = SendOn(c2s, cli.attempt, frame),
           \/ cli.pc \in Sending
           \/ s2c[cli.attempt] # << >> /\ s2c[cli.attempt] \notin Seq(Refusals)
    PROVE  ClientGoesOn
<1>1. /\ cli.attempt \in Conns
      /\ c2s \in [Conns -> Seq(ClientFrame)] /\ s2c \in [Conns -> Seq(ServerFrame)]
      /\ link \in [Conns -> {"closed", "up", "down"}]
  BY UpFacts, Zenon
<1>2. /\ s2c' = [s2c EXCEPT ![cli.attempt] = s2c'[cli.attempt]]
      /\ Rest(s2c'[cli.attempt], s2c[cli.attempt])
  BY <1>1 DEF HasFrame, Consumed, Rest
<1>3. /\ c2s' = [c2s EXCEPT ![cli.attempt] = c2s'[cli.attempt]]
      /\ \/ Rest(c2s'[cli.attempt], c2s[cli.attempt])
         \/ /\ cli.pc \in Sending /\ link[cli.attempt] = "up"
            /\ \E frame \in ClientFrame \ Openings :
                  c2s'[cli.attempt] = Append(c2s[cli.attempt], frame)
  <2>1. CASE c2s' = c2s
    BY <1>1, <2>1, Zenon DEF Rest
  <2>2. CASE c2s' # c2s
    <3>1. PICK frame \in ClientFrame \ Openings : c2s' = SendOn(c2s, cli.attempt, frame)
      BY <2>2, Zenon
    <3>2. cli.pc \in Sending /\ link[cli.attempt] = "up"
          /\ c2s' = [c2s EXCEPT ![cli.attempt] = Append(c2s[cli.attempt], frame)]
      BY <2>2, <3>1 DEF SendOn
    <3> QED
      BY <1>1, <3>2, Zenon
  <2> QED
    BY <2>1, <2>2, Zenon
<1> QED
  BY <1>1, <1>2, <1>3, Zenon DEF ClientGoesOn, Sending

(* Connecting, and asking for the size of the source. *)
LEMMA UpBegins ==
    ASSUME UpInv, UNCHANGED serverVars, Connect \/ ReadSize \/ ConnectFails \/ ClientIoFails
    PROVE  UpInv'
<1>1. /\ cli \in Client /\ cli.attempt \in Conns /\ ClientInv /\ source \in Sources
      /\ c2s \in [Conns -> Seq(ClientFrame)] /\ s2c \in [Conns -> Seq(ServerFrame)]
      /\ link \in [Conns -> {"closed", "up", "down"}]
  BY UpFacts, Zenon DEF Types
<1>2. CASE \E status \in {"FrameIoError", "FileTooLarge"} :
              Ends(status) /\ UNCHANGED source /\ UNCHANGED wireVars
  BY <1>2, ClientEnds, UpGoesOn DEF wireVars, Statuses
<1>3. CASE Connect
  <2>1. /\ cli.pc = "connect" /\ link' = [link EXCEPT ![cli.attempt] = "up"]
        /\ UNCHANGED <<c2s, s2c, source>> /\ cli' = [cli EXCEPT !.pc = "size"]
    BY <1>3 DEF Connect, ClientAt, Opened, Connection
  <2>2. /\ cli' \in Client /\ cli'.pc = "size" /\ cli'.attempt = cli.attempt
        /\ cli'.size = cli.size /\ cli'.crc = cli.crc /\ cli'.status = cli.status
    BY <1>1, <2>1, Zenon DEF Client
  <2>3. ClientInv'
    BY <1>1, <2>1, <2>2 DEF ClientInv
  <2>4. /\ link' \in [Conns -> {"closed", "up", "down"}]
        /\ \A d \in Conns : /\ link'[d] = "closed" => link[d] = "closed"
                            /\ d # cli.attempt => link'[d] = link[d]
    BY <1>1, <2>1
  <2>5. ClientGoesOn
    BY <1>1, <2>1, <2>2, <2>3, <2>4, Zenon DEF ClientGoesOn, Rest, Sending
  <2> QED
    BY <2>5, UpGoesOn
<1>4. CASE ReadSize /\ ~(Len(source) > MaxFileSize)
  <2>1. /\ cli.pc = "size" /\ UNCHANGED <<link, c2s, s2c, source>>
        /\ cli' = [cli EXCEPT !.pc = "request", !.size = Len(source)]
    BY <1>4 DEF ReadSize, ClientAt, wireVars
  <2>2. Len(source) \in Nat
    BY <1>1, ClientAssumption DEF Content
  <2>3. /\ cli' \in Client /\ cli'.pc = "request" /\ cli'.attempt = cli.attempt
        /\ cli'.size = Len(source) /\ cli'.status = cli.status
    BY <1>1, <2>1, <2>2, Zenon DEF Client
  <2>4. ClientInv'
    BY <1>1, <2>1, <2>3 DEF ClientInv
  <2>5. ClientGoesOn
    BY <1>1, <2>1, <2>3, <2>4, Zenon DEF ClientGoesOn, Rest, Sending
  <2> QED
    BY <2>5, UpGoesOn
<1> QED
  BY <1>2, <1>3, <1>4 DEF ReadSize, ConnectFails, ClientIoFails

(* The request declares the size and the checksum that were read. *)
LEMMA UpRequest ==
    ASSUME UpInv, UNCHANGED serverVars, SendRequest
    PROVE  UpInv'
<1> DEFINE a == cli.attempt
           meta == [path |-> Path, size |-> cli.size, crc |-> Crc(source)]
           frame == UploadRequest(Rid, 0, meta, "ok")
<1>1. /\ Inv /\ Types /\ ClientInv /\ HolderInv /\ FreshInv /\ OpeningInv /\ EngagedInv
      /\ CommitInv /\ cli \in Client /\ a \in Conns /\ Conns \subseteq Nat
      /\ c2s \in [Conns -> Seq(ClientFrame)] /\ s2c \in [Conns -> Seq(ServerFrame)]
      /\ link \in [Conns -> {"closed", "up", "down"}] /\ source \in Sources
  BY UpFacts DEF Types
<1>2. /\ cli.pc = "request" /\ cli' = [cli EXCEPT !.pc = "ready", !.crc = Crc(source)]
      /\ c2s' = SendOn(c2s, a, frame) /\ UNCHANGED <<link, s2c, source>>
      /\ UNCHANGED <<sess, served, dest>>
  BY DEF SendRequest, ClientAt, ClientSends, Connection, Metadata, serverVars
<1>3. meta \in Metas /\ Crc(source) \in Crcs
  BY <1>1, <1>2, ClientAssumption DEF ClientInv, Crcs
<1>4. /\ cli' \in Client /\ cli'.pc = "ready" /\ cli'.attempt = a /\ cli'.size = cli.size
      /\ cli'.crc = Crc(source) /\ cli'.status = cli.status
  BY <1>1, <1>2, <1>3, Zenon DEF Client
<1>5. Metadata' = meta
  BY <1>4, Zenon DEF Metadata
<1>6. frame \in ClientFrame /\ frame.type = "UploadRequest" /\ frame.meta = meta
  BY <1>3, ClientAssumption, Zenon DEF UploadRequest, ClientFrame
<1>7. frame \in Openings /\ frame \in Current'
  BY <1>5, <1>6, Zenon DEF Openings, Current
<1>8. Fresh(a) /\ cli.status # "Success"
  BY <1>1, <1>2 DEF FreshInv, ClientInv
<1> HIDE DEF frame, meta
<1>9. /\ c2s' = [c2s EXCEPT ![a] = c2s'[a]]
      /\ c2s'[a] = << >> \/ (link[a] = "up" /\ c2s'[a] = Append(<< >>, frame))
  BY <1>1, <1>2, <1>8, Zenon DEF SendOn, Fresh
<1>10. /\ c2s'[a] \in Seq(Openings) /\ c2s'[a] \in Seq(Current') /\ c2s'[a] \in Seq(ClientFrame)
  <2>1. ASSUME NEW S, frame \in S
        PROVE  c2s'[a] \in Seq(S)
    <3>1. << >> \in Seq(S) /\ Append(<< >>, frame) \in Seq(S)
      BY <2>1
    <3> QED
      BY <1>9, <3>1, Zenon
  <2> QED
    BY <1>6, <1>7, <2>1
<1>11. c2s' \in [Conns -> Seq(ClientFrame)] /\ \A d \in Conns \ {a} : c2s'[d] = c2s[d]
  BY <1>1, <1>9, <1>10, Zenon
<1>12. \A d : Serving(d)' <=> Serving(d)
  BY <1>2 DEF Serving
<1>13. Inv' /\ Types' /\ ClientInv' /\ HolderInv'
  <2>1. Inv'
    BY <1>1, <1>2, <1>11, ClientInvKept, Zenon
  <2>2. Types' /\ ClientInv' /\ HolderInv'
    BY <1>1, <1>2, <1>4, <1>8, Zenon DEF Types, ClientInv, HolderInv
  <2> QED
    BY <2>1, <2>2
<1>14. FreshInv'
  <2> SUFFICES ASSUME NEW d \in Conns
               PROVE  /\ (d > cli.attempt => link[d] = "closed")'
                      /\ (link[d] = "closed" => Fresh(d))'
                      /\ (d = cli.attempt /\ cli.pc \in {"connect", "size", "request"} => Fresh(d))'
    BY DEF FreshInv
  <2>1. link[d] = "closed" => Fresh(d)'
    BY <1>1, <1>2, <1>8, <1>9, <1>11, <1>12, Zenon DEF FreshInv, Fresh
  <2> QED
    BY <1>1, <1>2, <1>4, <2>1, Zenon DEF FreshInv
<1>15. OpeningInv'
  BY <1>1, <1>2, <1>4, <1>8, <1>10, <1>11, <1>12, Zenon DEF OpeningInv, Sending, Fresh
<1>16. MetaInv'
  BY <1>4, <1>8, <1>10, <1>12, Zenon DEF MetaInv, Fresh
<1>17. EngagedInv'
  <2>1. s2c'[a] \in Seq(Refusals) /\ ~Serving(a) /\ cli'.pc \notin Sending
    BY <1>2, <1>4, <1>8 DEF Fresh, Sending
  <2> QED
    BY <1>4, <1>8, <1>12, <2>1, Zenon DEF EngagedInv
<1>18. CommitInv'
  BY <1>1, <1>2, Zenon DEF CommitInv, At
<1>19. ResultInv'
  <2>1. s2c'[a] \in Seq(NoSuccess)
    BY <1>2, <1>8 DEF Fresh
  <2> QED
    BY <1>4, <1>8, <2>1, Zenon DEF ResultInv
<1> QED
  BY <1>13, <1>14, <1>15, <1>16, <1>17, <1>18, <1>19, Zenon DEF UpInv

(* The frames that a client takes off its connection. *)
LEMMA ResponseTypes ==
    ASSUME UpInv, HasFrame(s2c, cli.attempt)
    PROVE  /\ Response \in ServerFrame
           /\ Response.rid \in Nat /\ Response.tid \in Nat
           /\ Response.type = "TransferReady" => Response.offset \in Nat /\ Response.crc \in Crcs
           /\ \A S : s2c[cli.attempt] \in Seq(S) => Response \in S
<1>1. s2c[cli.attempt] \in Seq(ServerFrame) /\ s2c[cli.attempt] # << >>
  BY UpFacts DEF HasFrame
<1>2. ASSUME NEW S, s2c[cli.attempt] \in Seq(S)
      PROVE  Response \in S
  BY <1>1, <1>2 DEF Response, Connection
<1>3. Response \in ServerFrame
  BY <1>1, <1>2
<1> QED
  BY <1>2, <1>3, Zenon DEF ServerFrame

(* The first response. *)
LEMMA UpReady ==
    ASSUME UpInv, UNCHANGED serverVars, RecvReady
    PROVE  UpInv'
<1> DEFINE status == ReadyStatus(Response)
<1>1. cli \in Client /\ ClientInv
  BY UpFacts
<1>2. /\ cli.pc = "ready" /\ HasFrame(s2c, cli.attempt) /\ s2c' = Consumed(s2c, cli.attempt)
      /\ UNCHANGED <<link, c2s, source>>
  BY DEF RecvReady, ClientAt, ClientReceives, Connection
<1>3. status \in Statuses
  BY DEF ReadyStatus, Statuses
<1>4. CASE status # "Success"
  <2>1. Ends(status)
    BY <1>4 DEF RecvReady
  <2>2. ClientGoesOn
    BY <1>2, <1>3, <1>4, <2>1, ClientEnds, Zenon
  <2> QED
    BY <2>2, UpGoesOn
<1>5. CASE status = "Success"
  <2>1. Response.type = "TransferReady"
    BY <1>5, Zenon DEF ReadyStatus
  <2>2. Response.offset \in Nat /\ Response.tid \in Nat /\ Response.crc \in Crcs
    BY <1>2, <2>1, ResponseTypes
  <2>3. cli' = [cli EXCEPT !.pc = "prefix", !.offset = Response.offset,
                           !.transfer_id = Response.tid, !.prefix_checksum = Response.crc]
    BY <1>5 DEF RecvReady
  <2>4. /\ cli' \in Client /\ cli'.pc = "prefix" /\ cli'.attempt = cli.attempt
        /\ cli'.size = cli.size /\ cli'.crc = cli.crc /\ cli'.status = cli.status
    BY <1>1, <2>2, <2>3, Zenon DEF Client, Sending
  <2>5. ClientInv'
    BY <1>1, <1>2, <2>4, Zenon DEF ClientInv
  <2>6. s2c[cli.attempt] # << >> /\ s2c[cli.attempt] \notin Seq(Refusals)
    BY <1>2, <2>1, ResponseTypes, Zenon DEF HasFrame, Refusals
  <2>7. cli'.pc \in Sending
    BY <2>4, Zenon DEF Sending
  <2>8. ClientGoesOn
    BY <1>2, <2>4, <2>5, <2>6, <2>7, ClientMoves, Zenon
  <2> QED
    BY <2>8, UpGoesOn
<1> QED
  BY <1>4, <1>5

(* The prefix, the chunks and their acknowledgments. *)
LEMMA UpSends ==
    ASSUME UpInv, UNCHANGED serverVars, ReadPrefix \/ SendChunk \/ RecvAck \/ SendComplete
    PROVE  UpInv'
<1>1. cli \in Client /\ ClientInv /\ source \in Content
  BY UpFacts, ClientAssumption, Zenon DEF Types
<1>2. /\ cli.offset \in Nat /\ cli.size \in Nat /\ cli.confirmed \in Nat
      /\ cli.transfer_id \in Nat /\ Rid \in Nat
  BY <1>1, ClientAssumption DEF Client
<1>3. cli.pc \in {"prefix", "chunk", "ack", "complete"} /\ cli.status # "Success"
  BY <1>1, Zenon DEF ReadPrefix, SendChunk, RecvAck, SendComplete, ClientAt, ClientInv
<1>4. cli.pc \in Sending
  BY <1>3 DEF Sending
<1> DEFINE Advances ==
              /\ cli' \in Client /\ cli'.attempt = cli.attempt /\ cli'.status = cli.status
              /\ cli'.size = cli.size /\ cli'.crc = cli.crc
              /\ cli'.pc \in {"chunk", "ack", "complete", "result"}
              /\ cli'.pc = "chunk" => cli'.offset < cli.size
<1>5. ASSUME Advances,
             UNCHANGED <<source, link>>,
             s2c' = s2c \/ (HasFrame(s2c, cli.attempt) /\ s2c' = Consumed(s2c, cli.attempt)),
             \/ c2s' = c2s
             \/ \E frame \in ClientFrame \ Openings : c2s' = SendOn(c2s, cli.attempt, frame)
      PROVE  UpInv'
  <2>1. ClientInv'
    BY <1>3, <1>5 DEF ClientInv
  <2>2. cli'.pc \in Sending
    BY <1>5, Zenon DEF Sending
  <2>3. ClientGoesOn
    BY <1>4, <1>5, <2>1, <2>2, ClientMoves, Zenon
  <2> QED
    BY <2>3, UpGoesOn, Zenon
<1>6. ASSUME NEW status \in Statuses \ {"Success"}, Ends(status), UNCHANGED <<source, link, c2s>>,
             s2c' = s2c \/ (HasFrame(s2c, cli.attempt) /\ s2c' = Consumed(s2c, cli.attempt))
      PROVE  UpInv'
  BY <1>6, ClientEnds, UpGoesOn
<1>7. CASE ReadPrefix
  <2> DEFINE from == IF Crc(SubSeq(source, 1, cli.offset)) = cli.prefix_checksum
                     THEN cli.offset ELSE 0
  <2>1. UNCHANGED <<source, link, c2s, s2c>> /\ from \in Nat
    BY <1>2, <1>7 DEF ReadPrefix, wireVars
  <2>2. \/ Ends("FileReadError")
        \/ cli' = [cli EXCEPT !.pc = IF from < cli.size THEN "chunk" ELSE "complete",
                              !.offset = from, !.resumed_from = from]
    BY <1>7 DEF ReadPrefix
  <2> HIDE DEF from
  <2>3. CASE Ends("FileReadError")
    BY <1>6, <2>1, <2>3, Zenon DEF Statuses
  <2>4. CASE cli' = [cli EXCEPT !.pc = IF from < cli.size THEN "chunk" ELSE "complete",
                                !.offset = from, !.resumed_from = from]
    <3>1. Advances
      BY <1>1, <2>1, <2>4, Zenon DEF Client, Sending
    <3> HIDE DEF Advances
    <3> QED
      BY <1>5, <2>1, <3>1, Zenon
  <2> QED
    BY <2>2, <2>3, <2>4
<1>8. CASE SendChunk
  <2> DEFINE requested == Min({cli.size - cli.offset, ChunkSize})
             data == SubSeq(source, cli.offset + 1, cli.offset + requested)
             frame == FileChunk(Rid, cli.transfer_id, cli.offset, data)
  <2>1. cli.pc = "chunk" /\ cli.offset < cli.size
    BY <1>1, <1>8 DEF SendChunk, ClientAt, ClientInv
  <2>2. requested \in Nat
    <3>1. cli.size - cli.offset \in Nat /\ ChunkSize \in Nat
      BY <1>2, <2>1, LimitAssumption
    <3> QED
      BY <3>1, MinPair
  <2>3. CASE Len(source) < cli.offset + requested
    <3>1. Ends("FileReadError") /\ UNCHANGED <<source, link, c2s, s2c>>
      BY <1>8, <2>3 DEF SendChunk, wireVars
    <3> QED
      BY <1>6, <3>1 DEF Statuses
  <2>4. CASE ~(Len(source) < cli.offset + requested)
    <3>1. /\ cli' = [cli EXCEPT !.pc = "ack", !.offset = cli.offset + requested]
          /\ UNCHANGED <<source, link, s2c>> /\ c2s' = SendOn(c2s, cli.attempt, frame)
      BY <1>8, <2>4 DEF SendChunk, ClientSends, Connection
    <3> HIDE DEF requested
    <3>2. data \in Content
      BY <1>1, <1>2, <2>2, <2>4 DEF Content
    <3> HIDE DEF data
    <3>3. frame \in ClientFrame \ Openings
      <4>1. frame.type = "FileChunk"
        BY Zenon DEF FileChunk
      <4>2. frame \in ClientFrame
        BY <1>2, <3>2 DEF FileChunk, ClientFrame
      <4> HIDE DEF frame
      <4> QED
        BY <4>1, <4>2, Zenon DEF Openings
    <3>4. Advances
      <4>1. cli.offset + requested \in Nat
        BY <1>2, <2>2
      <4> QED
        BY <1>1, <3>1, <4>1, Zenon DEF Client, Sending
    <3> HIDE DEF frame, Advances
    <3> QED
      BY <1>5, <3>1, <3>3, <3>4, Zenon
  <2> QED
    BY <2>3, <2>4
<1>9. CASE RecvAck
  <2> DEFINE status == ExpectedStatus(Response, "Acknowledgment")
  <2>1. /\ HasFrame(s2c, cli.attempt) /\ s2c' = Consumed(s2c, cli.attempt)
        /\ UNCHANGED <<link, c2s, source>>
    BY <1>9 DEF RecvAck, ClientReceives, Connection
  <2>2. status \in Statuses
    BY DEF ExpectedStatus, Statuses
  <2>3. \/ status # "Success" /\ Ends(status)
        \/ Ends("UnexpectedOffset")
        \/ cli' = [cli EXCEPT !.pc = IF cli.offset < cli.size THEN "chunk" ELSE "complete",
                              !.confirmed = Max({@, cli.offset})]
    BY <1>9 DEF RecvAck
  <2> HIDE DEF status
  <2>4. CASE (status # "Success" /\ Ends(status)) \/ Ends("UnexpectedOffset")
    BY <1>6, <2>1, <2>2, <2>4, Zenon DEF Statuses
  <2>5. CASE cli' = [cli EXCEPT !.pc = IF cli.offset < cli.size THEN "chunk" ELSE "complete",
                                !.confirmed = Max({@, cli.offset})]
    <3>1. Max({cli.confirmed, cli.offset}) \in Nat
      BY <1>2, MaxPair
    <3>2. Advances
      BY <1>1, <2>5, <3>1, Zenon DEF Client, Sending
    <3> HIDE DEF Advances
    <3> QED
      BY <1>5, <2>1, <3>2
  <2> QED
    BY <2>3, <2>4, <2>5, Zenon
<1>10. CASE SendComplete
  <2> DEFINE frame == TransferComplete(Rid, cli.transfer_id, TRUE)
  <2>1. /\ cli' = [cli EXCEPT !.pc = "result"] /\ UNCHANGED <<source, link, s2c>>
        /\ c2s' = SendOn(c2s, cli.attempt, frame)
    BY <1>10, Zenon DEF SendComplete, ClientSends, Connection
  <2>2. frame \in ClientFrame \ Openings
    BY <1>2 DEF TransferComplete, ClientFrame, Openings
  <2>3. Advances
    BY <1>1, <2>1 DEF Client, Sending
  <2> HIDE DEF frame, Advances
  <2> QED
    BY <1>5, <2>1, <2>2, <2>3, Zenon
<1> QED
  BY <1>7, <1>8, <1>9, <1>10, Zenon

(* The result: success was sent only with the commit. *)
LEMMA UpResult ==
    ASSUME UpInv, UNCHANGED serverVars, RecvResult
    PROVE  UpInv'
<1> DEFINE status == ExpectedStatus(Response, "TransferResult")
           last == IF Response.code = "Success" THEN "Success" ELSE "RemoteRejected"
<1>1. /\ HasFrame(s2c, cli.attempt) /\ s2c' = Consumed(s2c, cli.attempt)
      /\ UNCHANGED <<link, c2s, source>> /\ cli.pc = "result"
  BY DEF RecvResult, ClientReceives, Connection, ClientAt
<1>2. cli.pc \in Sending
  BY <1>1 DEF Sending
<1>3. status \in Statuses /\ last \in Statuses
  BY Zenon DEF ExpectedStatus, Statuses
<1>4. CASE status # "Success"
  <2>1. Ends(status)
    BY <1>4, Zenon DEF RecvResult
  <2> HIDE DEF status
  <2> QED
    BY <1>1, <1>3, <1>4, <2>1, ClientEnds, UpGoesOn, Zenon
<1>5. CASE status = "Success"
  <2>1. Ends(last)
    BY <1>5 DEF RecvResult
  <2>2. Response.type = "TransferResult"
    BY <1>5, Zenon DEF ExpectedStatus
  <2>3. last = "Success" => s2c[cli.attempt] \notin Seq(NoSuccess)
    BY <1>1, <2>2, ResponseTypes, Zenon DEF NoSuccess
  <2> HIDE DEF last
  <2>4. ClientGoesOn
    BY <1>1, <1>2, <1>3, <2>1, <2>3, ClientEnds, Zenon
  <2> QED
    BY <2>4, UpGoesOn
<1> QED
  BY <1>4, <1>5

LEMMA ZeroCrc == 0 \in Crcs
<1>1. << >> \in Content
  BY DEF Content
<1>2. Crc(<< >>) = 0
  BY ClientAssumption
<1> QED
  BY <1>1, <1>2 DEF Crcs

(* The socket is closed, and after a transport failure the next attempt     *)
(* begins on a connection that nobody has used.                             *)
LEMMA UpClose ==
    ASSUME UpInv, UNCHANGED serverVars, CloseAttempt
    PROVE  UpInv'
<1> DEFINE a == cli.attempt
<1>1. /\ Inv /\ Types /\ ClientInv /\ HolderInv /\ FreshInv /\ OpeningInv
      /\ CommitInv /\ cli \in Client /\ a \in Conns /\ Conns \subseteq Nat
      /\ c2s \in [Conns -> Seq(ClientFrame)] /\ s2c \in [Conns -> Seq(ServerFrame)]
      /\ link \in [Conns -> {"closed", "up", "down"}] /\ source \in Sources
  BY UpFacts DEF Types
<1>2. /\ cli.pc = "close" /\ UNCHANGED <<source, sess, served, dest>>
      /\ link' = [link EXCEPT ![a] = IF @ = "up" THEN "down" ELSE @]
      /\ s2c' = [s2c EXCEPT ![a] = << >>]
      /\ \E rest : Rest(rest, c2s[a]) /\ c2s' = [c2s EXCEPT ![a] = rest]
  <2>1. ClientEndClosed(a)
    BY Zenon DEF CloseAttempt, Connection
  <2>2. \E rest : Rest(rest, c2s[a]) /\ c2s' = [c2s EXCEPT ![a] = rest]
    <3>1. CASE c2s' = c2s
      BY <1>1, <3>1 DEF Rest
    <3>2. CASE \E rest \in Remainder(s2c[a], c2s[a]) : c2s' = [c2s EXCEPT ![a] = rest]
      BY <3>2, Zenon DEF Remainder, Rest
    <3> QED
      BY <2>1, <3>1, <3>2, Zenon DEF ClientEndClosed
  <2> QED
    BY <2>1, <2>2, Zenon DEF CloseAttempt, ClientAt, ClientEndClosed, serverVars
<1>3. /\ link' \in [Conns -> {"closed", "up", "down"}]
      /\ \A d \in Conns : /\ link'[d] = "closed" <=> link[d] = "closed"
                          /\ d # a => link'[d] = link[d]
  BY <1>1, <1>2, Zenon
<1>4. /\ s2c' \in [Conns -> Seq(ServerFrame)] /\ s2c'[a] = << >>
      /\ \A d \in Conns \ {a} : c2s'[d] = c2s[d] /\ s2c'[d] = s2c[d]
      /\ Rest(c2s'[a], c2s[a]) /\ c2s' = [c2s EXCEPT ![a] = c2s'[a]]
      /\ s2c' = [s2c EXCEPT ![a] = s2c'[a]]
  <2>1. PICK rest : Rest(rest, c2s[a]) /\ c2s' = [c2s EXCEPT ![a] = rest]
    BY <1>2, Zenon
  <2>2. c2s'[a] = rest /\ c2s' = [c2s EXCEPT ![a] = c2s'[a]] /\ \A d \in Conns \ {a} : c2s'[d] = c2s[d]
    BY <1>1, <2>1, Zenon
  <2>3. << >> \in Seq(ServerFrame)
    OBVIOUS
  <2>4. /\ s2c' \in [Conns -> Seq(ServerFrame)] /\ s2c'[a] = << >>
        /\ s2c' = [s2c EXCEPT ![a] = s2c'[a]] /\ \A d \in Conns \ {a} : s2c'[d] = s2c[d]
    BY <1>1, <1>2, <2>3, Zenon
  <2> QED
    BY <2>1, <2>2, <2>4
<1>5. CASE cli' = [cli EXCEPT !.pc = "done"]
  <2>1. /\ cli' \in Client /\ cli'.pc = "done" /\ cli'.attempt = a
        /\ cli'.size = cli.size /\ cli'.crc = cli.crc /\ cli'.status = cli.status
    BY <1>1, <1>5, Zenon DEF Client
  <2>2. ClientInv'
    BY <2>1, Zenon DEF ClientInv
  <2>3. Rest(s2c'[a], s2c[a])
    BY <1>4 DEF Rest
  <2>4. ClientGoesOn
    BY <1>2, <1>3, <1>4, <2>1, <2>2, <2>3, Zenon DEF ClientGoesOn, Sending
  <2> QED
    BY <2>4, UpGoesOn
<1>6. CASE cli' # [cli EXCEPT !.pc = "done"]
  <2>1. /\ cli.status = "FrameIoError" /\ a < MaxRetries
        /\ cli' = [cli EXCEPT !.pc = "connect", !.attempt = a + 1,
                              !.offset = 0, !.transfer_id = 0,
                              !.prefix_checksum = 0, !.resumed_from = 0]
    BY <1>6 DEF CloseAttempt
  <2>2. a \in Nat /\ a + 1 \in Conns /\ a + 1 > a /\ a + 1 # a /\ 0 \in Crcs
    <3>1. a \in 0 .. MaxRetries /\ MaxRetries \in Nat /\ Conns = 0 .. MaxRetries
      BY <1>1, ClientAssumption
    <3> QED
      BY <2>1, <3>1, ZeroCrc
  <2>3. /\ cli' \in Client /\ cli'.pc = "connect" /\ cli'.attempt = a + 1
        /\ cli'.status = "FrameIoError"
    BY <1>1, <2>1, <2>2, Zenon DEF Client
  <2> PICK n \in Conns : n = a + 1
    BY <2>2, Zenon
  <2>4. Fresh(n) /\ Fresh(n)' /\ cli'.attempt = n
    BY <1>1, <1>2, <1>4, <2>2, <2>3 DEF FreshInv, Fresh, Serving
  <2>5. \A d : Serving(d)' <=> Serving(d)
    BY <1>2 DEF Serving
  <2>6. c2s'[a] \in Seq(ClientFrame)
    BY <1>1, <1>4, RestKept, Zenon
  <2>7. Inv'
    <3>1. c2s' \in [Conns -> Seq(ClientFrame)] /\ DOMAIN s2c' = Conns
      BY <1>1, <1>4, <2>6, Zenon
    <3> QED
      BY <1>1, <1>3, <3>1, ClientInvKept
  <2>8. Types' /\ ClientInv' /\ HolderInv' /\ CommitInv'
    BY <1>1, <1>2, <1>4, <2>3, Zenon DEF Types, ClientInv, HolderInv, CommitInv, At
  <2>9. FreshInv'
    <3> SUFFICES ASSUME NEW d \in Conns
                 PROVE  /\ d > n => link'[d] = "closed"
                        /\ link'[d] = "closed" => Fresh(d)'
                        /\ d = n => Fresh(d)'
      BY <2>4 DEF FreshInv
    <3>1. d > n => d > a /\ d # a
      BY <1>1, <2>2
    <3>2. ASSUME Fresh(d)
          PROVE  Fresh(d)'
      <4>1. c2s'[d] = << >>
        <5>1. CASE d = a
          BY <1>4, <3>2, <5>1, NothingRests, Zenon DEF Fresh
        <5>2. CASE d # a
          BY <1>4, <3>2, <5>2, Zenon DEF Fresh
        <5> QED
          BY <5>1, <5>2, Zenon
      <4> QED
        BY <1>4, <2>5, <3>2, <4>1, Zenon DEF Fresh
    <3> QED
      BY <1>1, <1>3, <2>4, <3>1, <3>2, Zenon DEF FreshInv
  <2>10. OpeningInv'
    <3> SUFFICES ASSUME NEW d \in Conns \ served, ~Serving(d)
                 PROVE  c2s'[d] \in Seq(Openings) /\ s2c'[d] = << >>
      BY <1>2, <2>3, <2>5, Zenon DEF OpeningInv, Sending
    <3>1. c2s[d] \in Seq(Openings) /\ s2c[d] = << >>
      BY <1>1, Zenon DEF OpeningInv
    <3>2. Rest(c2s'[d], c2s[d]) /\ s2c'[d] = << >>
      BY <1>4, <3>1 DEF Rest
    <3> QED
      BY <3>1, <3>2, RestKept, Zenon
  <2>11. MetaInv' /\ EngagedInv' /\ ResultInv'
    <3>1. /\ ~Serving(n)' /\ c2s'[n] = << >> /\ s2c'[n] = << >>
      BY <2>4, Zenon DEF Fresh
    <3>2. MetaInv'
      BY <2>4, <3>1, EmptyFrames, Zenon DEF MetaInv
    <3>3. EngagedInv'
      BY <2>3, <2>4, <3>1 DEF EngagedInv, Sending
    <3>4. ResultInv'
      BY <2>3, <2>4, <3>1 DEF ResultInv
    <3> QED
      BY <3>2, <3>3, <3>4, Zenon
  <2> QED
    BY <2>7, <2>8, <2>9, <2>10, <2>11, Zenon DEF UpInv
<1> QED
  BY <1>5, <1>6, Zenon
-----------------------------------------------------------------------------
LEMMA UpInit == UploadInit => UpInv
<1> SUFFICES ASSUME UploadInit PROVE UpInv
  OBVIOUS
<1>1. Inv
  BY InitInv DEF UploadInit, Init
<1>2. /\ link = [c \in Conns |-> "closed"] /\ c2s = [c \in Conns |-> << >>]
      /\ s2c = [c \in Conns |-> << >>] /\ sess = NoSession
  BY Zenon DEF UploadInit, WireInit, ServerInit
<1>3. /\ source \in Sources
      /\ cli = [pc |-> "connect", attempt |-> 0, size |-> 0, crc |-> 0,
                transfer_id |-> 0, offset |-> 0, prefix_checksum |-> 0, resumed_from |-> 0,
                confirmed |-> 0, status |-> "none"]
  BY Zenon DEF UploadInit, ClientInit
<1>4. 0 \in Crcs /\ 0 \in Conns
  BY ClientAssumption, ZeroCrc
<1>5. cli \in Client /\ cli.attempt = 0 /\ cli.pc = "connect" /\ cli.status = "none"
  BY <1>3, <1>4 DEF Client, Statuses
<1>6. \A c \in Conns : c2s[c] = << >> /\ s2c[c] = << >> /\ link[c] = "closed" /\ ~Serving(c)
  BY <1>2, Zenon DEF Serving
<1>7. Types /\ ClientInv /\ HolderInv /\ CommitInv
  <2>1. s2c \in [Conns -> Seq(ServerFrame)]
    BY <1>2
  <2> QED
    BY <1>2, <1>3, <1>5, <2>1, Zenon DEF Types, ClientInv, HolderInv, CommitInv, At
<1>8. FreshInv /\ OpeningInv
  <2>1. << >> \in Seq(Openings)
    OBVIOUS
  <2> QED
    BY <1>5, <1>6, <2>1, Zenon DEF FreshInv, OpeningInv, Fresh, Sending
<1>9. MetaInv /\ EngagedInv /\ ResultInv
  <2>1. << >> \in Seq(Current) /\ << >> \in Seq(Refusals) /\ << >> \in Seq(NoSuccess)
    OBVIOUS
  <2> QED
    BY <1>4, <1>5, <1>6, <2>1, Zenon DEF MetaInv, EngagedInv, ResultInv, Sending
<1> QED
  BY <1>1, <1>7, <1>8, <1>9, Zenon DEF UpInv

LEMMA UpNext == UpInv /\ [UploadNext]_uploadVars => UpInv'
<1> SUFFICES ASSUME UpInv, [UploadNext]_uploadVars PROVE UpInv'
  OBVIOUS
<1>1. Inv /\ source \in Sources
  BY UpFacts DEF Types
<1>2. CASE UNCHANGED uploadVars \/ SourceChanges
  <2>1. UNCHANGED cli /\ source' \in Sources /\ UNCHANGED serverVars /\ UNCHANGED wireVars
    BY <1>1, <1>2 DEF uploadVars, SourceChanges, serverVars, wireVars
  <2>2. Inv'
    <3>1. UNCHANGED vars
      BY <2>1 DEF vars, serverVars, wireVars
    <3> QED
      BY <1>1, <3>1, NextInv
  <2> QED
    BY <2>1, <2>2, QuietSource, QuietUpload, Zenon
<1>3. CASE ServerRuns
  BY <1>3, UpServer DEF ServerRuns
<1>4. CASE ClientRuns
  <2>1. ClientStep /\ UNCHANGED serverVars
    BY <1>4 DEF ClientRuns
  <2> QED
    BY <2>1, UpBegins, UpRequest, UpReady, UpSends, UpResult, UpClose, Zenon DEF ClientStep
<1>5. CASE Fault
  <2>1. CASE ConnectFails /\ UNCHANGED serverVars
    BY <2>1, UpBegins
  <2>2. CASE /\ UNCHANGED clientVars
             /\ \/ KillServer \/ (PowerMayFail /\ PowerFailure)
                \/ (UNCHANGED serverVars /\ \E c \in Conns : Break(c))
    BY <2>2, UpServer DEF clientVars
  <2> QED
    BY <1>5, <2>1, <2>2, Zenon DEF Fault
<1> QED
  BY <1>2, <1>3, <1>4, <1>5, Zenon DEF UploadNext

(* What send_file reports as a success is on disk and stays there, for any  *)
(* number of attempts, faults and changes of the source, any sizes, chunks  *)
(* and checksum function: the file under the remote path has the size and   *)
(* the checksum that the successful attempt declared, and neither a power   *)
(* failure nor a session of an earlier attempt takes it away again.         *)
THEOREM SuccessStays == UploadSpec => []SuccessIsDurable
<1>1. UpInv => SuccessIsDurable
  <2> SUFFICES ASSUME UpInv, cli.status = "Success", NEW content \in Outcomes(dest[Path])
               PROVE  content # NoFile /\ Len(content) = cli.size /\ Crc(content) = cli.crc
    BY DEF SuccessIsDurable
  <2>1. Committed
    BY UpFacts, Zenon DEF ResultInv
  <2>2. content = dest[Path].now
    BY <2>1 DEF Committed, Verified, Outcomes
  <2> QED
    BY <2>1, <2>2, DiskAssumption, Zenon DEF Committed, Verified
<1>2. UploadSpec => []UpInv
  BY UpInit, UpNext, PTL DEF UploadSpec
<1> QED
  BY <1>1, <1>2, PTL
=============================================================================
