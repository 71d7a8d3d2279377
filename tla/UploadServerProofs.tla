------------------------- MODULE UploadServerProofs -------------------------
(***************************************************************************)
(* Theorems about UploadServer, for every set of connections, paths and    *)
(* uploads, every file size and chunk size, every checksum function, and   *)
(* whatever peers send.  The inductive invariant Inv relates a session to  *)
(* its partial file.  On it rest the theorems about the final paths (only  *)
(* verified content, never torn, the refinement of AtomicUpload), about    *)
(* what was acknowledged, and about the budget for partial files.          *)
(***************************************************************************)
EXTENDS UploadServer, SequenceTheorems, TLAPS

(* What the operators of module Disk compute, for every file and write. *)

(* The larger of two lengths. *)
LEMMA MaxPair ==
    ASSUME NEW a \in Nat, NEW b \in Nat
    PROVE  Max({a, b}) = IF a >= b THEN a ELSE b
<1>1. \E x \in {a, b} : \A y \in {a, b} : x >= y
  OBVIOUS
<1>2. Max({a, b}) \in {a, b} /\ \A y \in {a, b} : Max({a, b}) >= y
  BY <1>1 DEF Max
<1> QED
  BY <1>2

(* The smaller of two lengths. *)
LEMMA MinPair ==
    ASSUME NEW a \in Nat, NEW b \in Nat
    PROVE  Min({a, b}) = IF a <= b THEN a ELSE b
<1>1. \E x \in {a, b} : \A y \in {a, b} : x <= y
  OBVIOUS
<1>2. Min({a, b}) \in {a, b} /\ \A y \in {a, b} : Min({a, b}) <= y
  BY <1>1 DEF Min
<1> QED
  BY <1>2

(* A function on 1 .. n is a file of n blocks. *)
LEMMA FileOfLength ==
    ASSUME NEW n \in Nat, NEW d \in [1 .. n -> Block]
    PROVE  d \in Content /\ Len(d) = n
  BY DEF Content

(* A write at the end of a file appends to it. *)
LEMMA WriteAtEnd ==
    ASSUME NEW content \in Content, NEW blocks \in Content
    PROVE  WriteAt(content, Len(content), blocks) = content \o blocks
<1> DEFINE n == Len(content) + Len(blocks)
           w == WriteAt(content, Len(content), blocks)
<1>1. Len(content) \in Nat /\ Len(blocks) \in Nat /\ n \in Nat
  BY DEF Content
<1>2. Max({Len(content), n}) = n
  BY <1>1, MaxPair
<1>3. w = [i \in 1 .. n |->
             IF i \in Len(content) + 1 .. n THEN blocks[i - Len(content)]
             ELSE IF i <= Len(content) THEN content[i] ELSE Zero]
  BY <1>2 DEF WriteAt
<1>4. content \o blocks \in Seq(Block) /\ Len(content \o blocks) = n
      /\ \A i \in 1 .. n : (content \o blocks)[i] =
             IF i <= Len(content) THEN content[i] ELSE blocks[i - Len(content)]
  BY ConcatProperties DEF Content
<1>5. \A i \in 1 .. n : w[i] = (content \o blocks)[i]
  BY <1>1, <1>3, <1>4
<1>6. w \in [1 .. n -> Block]
  <2>1. content \o blocks \in [1 .. n -> Block]
    BY <1>4, LenProperties, Zenon
  <2> QED
    BY <1>3, <1>5, <2>1, Zenon
<1>7. w \in Seq(Block) /\ Len(w) = n
  BY <1>1, <1>6, FileOfLength, ZenonT(30) DEF Content
<1> QED
  BY <1>4, <1>5, <1>7, SeqEqual

(* What a torn write leaves is a file. *)
LEMMA TornType ==
    ASSUME NEW old \in Content, NEW new \in Content
    PROVE  Torn(old, new) \subseteq Content
<1>1. Len(old) \in Nat /\ Len(new) \in Nat
  BY DEF Content
<1>2. Min({Len(old), Len(new)}) \in Nat /\ Max({Len(old), Len(new)}) \in Nat
  BY <1>1, MinPair, MaxPair
<1> SUFFICES ASSUME NEW n \in Min({Len(old), Len(new)}) .. Max({Len(old), Len(new)}),
                    NEW d \in [1 .. n -> Block]
             PROVE  d \in Content
  BY Zenon DEF Torn
<1> QED
  BY <1>2, FileOfLength

(* A prefix that the two versions of a file share survives a torn write. *)
LEMMA TornKeepsPrefix ==
    ASSUME NEW old \in Content, NEW new \in Content,
           NEW k \in Nat, k <= Len(old), k <= Len(new),
           \A i \in 1 .. k : old[i] = new[i],
           NEW d \in Torn(old, new)
    PROVE  k <= Len(d) /\ \A i \in 1 .. k : d[i] = new[i]
<1> DEFINE Of(c, i) == IF i \in DOMAIN c THEN {c[i]} ELSE {Zero}
           Left(i) == IF Of(old, i) = Of(new, i) THEN Of(new, i)
                      ELSE Of(old, i) \cup Of(new, i) \cup {Zero}
           short == Min({Len(old), Len(new)})
           long == Max({Len(old), Len(new)})
<1>1. /\ Len(old) \in Nat /\ DOMAIN old = 1 .. Len(old)
      /\ Len(new) \in Nat /\ DOMAIN new = 1 .. Len(new)
  BY LenProperties DEF Content
<1>2. short \in Nat /\ long \in Nat /\ k <= short
  BY <1>1, MinPair, MaxPair
<1>3. PICK n \in short .. long :
         d \in {x \in [1 .. n -> Block] : \A i \in 1 .. n : x[i] \in Left(i)}
  BY Zenon DEF Torn
<1>4. n \in Nat /\ k <= n /\ Len(d) = n
  BY <1>2, <1>3, FileOfLength
<1>5. ASSUME NEW i \in 1 .. k
      PROVE  d[i] = new[i]
  <2>1. i \in DOMAIN old /\ i \in DOMAIN new /\ i \in 1 .. n
    BY <1>1, <1>4
  <2>2. Left(i) = {new[i]}
    BY <2>1
  <2> QED
    BY <1>3, <2>1, <2>2, Zenon
<1> QED
  BY <1>4, <1>5

(* Every file-system call turns a state of a name into a state of a name. *)
LEMMA EntryTypes ==
    ASSUME NEW e \in Entry, NEW o \in Entry, NEW d \in Content
    PROVE  /\ OpenedOrCreated(e) \in Entry
           /\ FileSynced(e) \in Entry
           /\ NameSynced(e) \in Entry
           /\ Unlinked(e) \in Entry
           /\ RenamedOver(o, e) \in Entry
           /\ OpenedOrCreated(e).now \in Content
           /\ Exists(e) => e.now \in Content
<1>1. << >> \in Content
  BY DEF Content
<1> QED
  BY <1>1 DEF Entry, OpenedOrCreated, FileSynced, NameSynced, Unlinked, RenamedOver,
              Outcomes, Exists

(* The same for a write or truncation of an existing file whose possible    *)
(* states are all files.                                                    *)
LEMMA ChangedType ==
    ASSUME NEW e \in Entry, e.data \subseteq Content, NEW d \in Content
    PROVE  /\ Changed(e, d) \in Entry
           /\ Changed(e, d).now = d
           /\ Changed(e, d).data \subseteq Content
<1>1. UNION {Torn(old, d) : old \in e.data} \subseteq Content
  BY TornType
<1> QED
  BY <1>1 DEF Changed, Entry
-----------------------------------------------------------------------------
(* A partial that exists is a file in every state a power failure may leave *)
(* it in, as long as its name survives.                                     *)
PartialsAreFiles ==
    \A m \in Metas : Exists(parts[m]) => parts[m].data \subseteq Content

(* Between verification and rename, the partial is verified and on disk. *)
VerifiedBeforeRename ==
    At("rename") =>
        /\ sess.offset = sess.meta.size
        /\ Crc(sess.checksum) = sess.meta.crc
        /\ parts[sess.meta].data = {parts[sess.meta].now}

(* A session has its partial open, and a chunk that is being written fits. *)
SessionConsistent ==
    /\ sess # NoSession /\ sess.pc # "syncdirs" => Exists(parts[sess.meta])
    /\ At("write") => /\ sess.written < Len(sess.chunk)
                      /\ sess.offset + Len(sess.chunk) <= sess.meta.size

(* The inductive invariant. *)
Inv ==
    /\ TypeOK
    /\ PartialsAreFiles
    /\ SessionConsistent
    /\ ChecksumDescribesPartial
    /\ VerifiedBeforeRename
-----------------------------------------------------------------------------
(* The fields of the frames that receive_file looks at. *)
LEMMA FrameTypes ==
    ASSUME NEW frame \in ClientFrame
    PROVE  /\ frame.rid \in Nat /\ frame.tid \in Nat
           /\ frame.type = "UploadRequest" => frame.meta \in Metas
           /\ frame.type = "FileChunk" => frame.offset \in Nat /\ frame.data \in Content
  BY DEF ClientFrame

(* Taking a frame off a queue, and what is left of a queue. *)
LEMMA QueueTypes ==
    ASSUME TypeOK, NEW c \in Conns
    PROVE  /\ HasFrame(c2s, c) =>
                /\ Consumed(c2s, c) \in [Conns -> Seq(ClientFrame)]
                /\ Head(c2s[c]) \in ClientFrame
           /\ Survivors(c2s[c]) \subseteq Seq(ClientFrame)
<1>1. c2s[c] \in Seq(ClientFrame) /\ c2s \in [Conns -> Seq(ClientFrame)]
  BY DEF TypeOK
<1>2. ASSUME HasFrame(c2s, c)
      PROVE  /\ Consumed(c2s, c) \in [Conns -> Seq(ClientFrame)]
             /\ Head(c2s[c]) \in ClientFrame
  BY <1>1, <1>2, HeadTailProperties DEF HasFrame, Consumed
<1>3. ASSUME NEW n \in 0 .. Len(c2s[c])
      PROVE  SubSeq(c2s[c], 1, n) \in Seq(ClientFrame)
  BY <1>1
<1>4. Survivors(c2s[c]) \subseteq Seq(ClientFrame)
  BY <1>3 DEF Survivors
<1> QED
  BY <1>2, <1>4

(* Replies only ever extend the queue of a connection. *)
LEMMA ReplyType ==
    ASSUME DOMAIN s2c = Conns, NEW c, NEW frame
    PROVE  DOMAIN SendOn(s2c, c, frame) = Conns
  BY DEF SendOn

(* While a session runs, its partial is an existing file. *)
LEMMA SessionPartial ==
    ASSUME Inv, sess # NoSession, sess.pc # "syncdirs"
    PROVE  /\ sess \in Session /\ sess.meta \in Metas
           /\ parts[sess.meta] \in Entry
           /\ parts[sess.meta].now \in Content
           /\ Exists(parts[sess.meta])
           /\ parts[sess.meta].data \subseteq Content
<1>1. sess \in Session /\ sess.meta \in Metas /\ parts[sess.meta] \in Entry
  BY DEF Inv, TypeOK, Session
<1> QED
  BY <1>1 DEF Inv, PartialsAreFiles, SessionConsistent, Exists, Entry

(* The blocks of a chunk that are written, followed by those that come next. *)
LEMMA ChunkSplit ==
    ASSUME NEW chunk \in Content, NEW k \in 0 .. Len(chunk), NEW e \in k .. Len(chunk)
    PROVE  SubSeq(chunk, 1, k) \o SubSeq(chunk, k + 1, e) = SubSeq(chunk, 1, e)
<1>1. 1 \in 1 .. Len(chunk) + 1 /\ k \in 1 - 1 .. Len(chunk)
  BY DEF Content
<1> QED
  BY <1>1, ConcatAdjacentSubSeq DEF Content

(* A write(2) of b at the end of a partial that holds done, then a. *)
LEMMA WriteExtends ==
    ASSUME NEW done \in Content, NEW a \in Content, NEW b \in Content
    PROVE  /\ done \o a \in Content
           /\ WriteAt(done \o a, Len(done \o a), b) = done \o (a \o b)
           /\ done \o (a \o b) \in Content
           /\ Len(done \o (a \o b)) = Len(done \o a) + Len(b)
<1>1. ASSUME NEW x \in Content, NEW y \in Content
      PROVE  x \o y \in Content /\ Len(x \o y) = Len(x) + Len(y)
  BY DEF Content
<1>2. (done \o a) \o b = done \o (a \o b)
  <2>1. ASSUME NEW x \in Seq(Block), NEW y \in Seq(Block), NEW z \in Seq(Block)
        PROVE  (x \o y) \o z = x \o (y \o z)
    BY ConcatAssociative
  <2> QED
    BY <2>1, Zenon DEF Content
<1>3. done \o a \in Content /\ (done \o a) \o b \in Content
      /\ Len((done \o a) \o b) = Len(done \o a) + Len(b)
  BY <1>1, Zenon
<1>4. WriteAt(done \o a, Len(done \o a), b) = (done \o a) \o b
  BY <1>3, WriteAtEnd, Zenon
<1> QED
  BY <1>2, <1>3, <1>4
-----------------------------------------------------------------------------
(* What the invariant says of the session, apart from types. *)
SessionInv == SessionConsistent /\ ChecksumDescribesPartial /\ VerifiedBeforeRename

(* It holds when there is no session any more ... *)
LEMMA NoSessionInv ==
    ASSUME sess' = NoSession
    PROVE  SessionInv'
  BY DEF SessionInv, SessionConsistent, ChecksumDescribesPartial, VerifiedBeforeRename, At

(* ... and when neither the session nor the partials change. *)
LEMMA SameSessionInv ==
    ASSUME Inv, UNCHANGED <<sess, parts>>
    PROVE  SessionInv' /\ PartialsAreFiles'
  BY Zenon DEF Inv, SessionInv, SessionConsistent, ChecksumDescribesPartial, VerifiedBeforeRename,
         PartialsAreFiles, At, Landed

(* Replacing the state of one partial. *)
LEMMA PartialReplaced ==
    ASSUME Inv, NEW m \in Metas, NEW entry \in Entry,
           Exists(entry) => entry.data \subseteq Content,
           parts' = [parts EXCEPT ![m] = entry]
    PROVE  parts' \in [Metas -> Entry] /\ PartialsAreFiles'
<1>1. parts \in [Metas -> Entry]
  BY DEF Inv, TypeOK
<1> QED
  BY <1>1 DEF Inv, PartialsAreFiles

(* cleanup keeps the types. *)
LEMMA CleanupInv ==
    ASSUME Inv, sess \in Session, NEW entry \in Entry, entry.data \subseteq Content,
           Cleanup(entry)
    PROVE  /\ parts' \in [Metas -> Entry] /\ PartialsAreFiles'
           /\ acked' \in [Metas -> Nat] /\ dest' = dest
<1>1. sess.meta \in Metas
  BY DEF Session
<1>2. Unlinked(entry) \in Entry /\ ~Exists(Unlinked(entry))
  BY EntryTypes DEF Unlinked, Exists, Entry, Outcomes
<1>3. parts' \in [Metas -> Entry] /\ PartialsAreFiles'
  <2>1. CASE parts' = [parts EXCEPT ![sess.meta] = Unlinked(entry)]
    BY <1>1, <1>2, <2>1, PartialReplaced, Zenon
  <2>2. CASE parts' = [parts EXCEPT ![sess.meta] = entry]
    BY <1>1, <2>2, PartialReplaced, Zenon
  <2> QED
    BY <2>1, <2>2 DEF Cleanup
<1>4. acked' \in [Metas -> Nat] /\ dest' = dest
  BY <1>1 DEF Cleanup, Inv, TypeOK
<1> QED
  BY <1>3, <1>4

(* interrupted keeps the types. *)
LEMMA InterruptedInv ==
    ASSUME Inv, sess # NoSession, sess.pc # "syncdirs", Interrupted
    PROVE  /\ parts' \in [Metas -> Entry] /\ PartialsAreFiles'
           /\ acked' \in [Metas -> Nat] /\ dest' = dest
           /\ sess' = NoSession /\ served' = served \cup {sess.conn}
<1>1. /\ sess \in Session /\ sess.meta \in Metas
      /\ parts[sess.meta] \in Entry /\ parts[sess.meta].now \in Content
      /\ parts[sess.meta].data \subseteq Content
  BY SessionPartial
<1>2. CASE /\ parts' = [parts EXCEPT ![sess.meta] = FileSynced(@)]
           /\ UNCHANGED <<dest, acked>>
  <2>1. /\ FileSynced(parts[sess.meta]) \in Entry
        /\ FileSynced(parts[sess.meta]).data \subseteq Content
    BY <1>1 DEF FileSynced, Entry
  <2>2. parts' = [parts EXCEPT ![sess.meta] = FileSynced(parts[sess.meta])]
    BY <1>2
  <2> QED
    BY <1>1, <1>2, <2>1, <2>2, PartialReplaced, Zenon DEF Interrupted, Return, Inv, TypeOK
<1>3. CASE Cleanup(parts[sess.meta])
  BY <1>1, <1>3, CleanupInv DEF Interrupted, Return
<1> QED
  BY <1>2, <1>3 DEF Interrupted
-----------------------------------------------------------------------------
(* The steps outside a session. *)
LEMMA OutsideStep ==
    ASSUME Inv, NEW c \in Conns,
           \/ RefuseFirstFrame(c) \/ RejectRequest(c) \/ CloseServed(c)
           \/ PeerConnects(c) \/ PeerSends(c) \/ ConnectionBreaks(c)
    PROVE  Inv'
<1>1. TypeOK
  BY DEF Inv
<1> SUFFICES TypeOK' /\ UNCHANGED <<sess, parts>>
  BY SameSessionInv DEF Inv, SessionInv
<1>2. CASE RefuseFirstFrame(c)
  BY <1>1, <1>2, QueueTypes, ZenonT(30) DEF RefuseFirstFrame, TypeOK
<1>3. CASE RejectRequest(c)
  BY <1>1, <1>3, QueueTypes, ReplyType DEF RejectRequest, Dispatched, Reply, TypeOK
<1>4. CASE CloseServed(c)
  BY <1>1, <1>4, EmptySeq DEF CloseServed, ServerEndClosed, serverVars, TypeOK
<1>5. CASE PeerConnects(c)
  BY <1>1, <1>5 DEF PeerConnects, Opened, serverVars, TypeOK
<1>6. CASE PeerSends(c)
  <2>1. PICK frame \in PeerFrames : c2s' = [c2s EXCEPT ![c] = Append(@, frame)]
    BY <1>6, Zenon DEF PeerSends
  <2>2. c2s' \in [Conns -> Seq(ClientFrame)]
    BY <1>1, <2>1, PeerAssumption, AppendProperties DEF TypeOK
  <2> QED
    BY <1>1, <1>6, <2>2 DEF PeerSends, serverVars, TypeOK
<1>7. CASE ConnectionBreaks(c)
  <2>1. c2s' \in [Conns -> Seq(ClientFrame)] /\ DOMAIN s2c' = Conns
    BY <1>1, <1>7, QueueTypes DEF ConnectionBreaks, Break, TypeOK
  <2> QED
    BY <1>1, <1>7, <2>1 DEF ConnectionBreaks, Break, serverVars, TypeOK
<1> QED
  BY <1>2, <1>3, <1>4, <1>5, <1>6, <1>7

(* The steps that open a partial without or with a session following. *)
LEMMA OpenStep ==
    ASSUME Inv, NEW c \in Conns, RejectOpened(c) \/ OpenPartial(c)
    PROVE  Inv'
<1> DEFINE request == Head(c2s[c])
           m == request.meta
           opened == OpenedOrCreated(parts[m])
<1>1. TypeOK /\ PartialsAreFiles
  BY DEF Inv
<1>2. /\ sess = NoSession
      /\ HasFrame(c2s, c) /\ request.type = "UploadRequest"
      /\ c2s' = Consumed(c2s, c) /\ UNCHANGED link
  BY Zenon DEF RejectOpened, OpenPartial, Dispatched
<1>3. /\ c2s' \in [Conns -> Seq(ClientFrame)] /\ m \in Metas /\ request.rid \in Nat
  BY <1>1, <1>2, QueueTypes, FrameTypes
<1>4. parts[m] \in Entry /\ m.size \in Nat
  BY <1>1, <1>3, MetaAssumption, SMTT(30) DEF TypeOK
<1>5. /\ opened \in Entry /\ opened.now \in Content /\ opened.data \subseteq Content
  <2>1. opened \in Entry /\ opened.now \in Content
    BY <1>4, EntryTypes, EmptySeq, Zenon DEF Content
  <2> QED
    BY <1>1, <1>3, <2>1, Zenon DEF PartialsAreFiles, OpenedOrCreated, Content
<1>6. CASE RejectOpened(c)
  <2>1. parts' = [parts EXCEPT ![m] = opened]
    BY <1>6 DEF RejectOpened
  <2>2. parts' \in [Metas -> Entry] /\ PartialsAreFiles'
    BY <1>3, <1>5, <2>1, PartialReplaced, Zenon
  <2>3. SessionInv'
    BY <1>2, <1>6, NoSessionInv, ZenonT(30) DEF RejectOpened
  <2>4. TypeOK'
    BY <1>1, <1>2, <1>3, <1>6, <2>2, ReplyType DEF RejectOpened, Reply, TypeOK
  <2> QED
    BY <2>2, <2>3, <2>4 DEF Inv, SessionInv
<1>7. CASE OpenPartial(c)
  <2> DEFINE held == IF Len(opened.now) > m.size THEN Changed(opened, << >>) ELSE opened
  <2>1. << >> \in Content /\ Len(<< >>) = 0
    BY SMTT(30) DEF Content
  <2>2. /\ held \in Entry /\ held.now \in Content /\ held.data \subseteq Content
        /\ Len(held.now) \in Nat /\ Len(held.now) <= m.size
    <3>1. /\ Changed(opened, << >>) \in Entry /\ Changed(opened, << >>).now = << >>
          /\ Changed(opened, << >>).data \subseteq Content
      BY <1>5, <2>1, ChangedType
    <3>2. Len(opened.now) \in Nat
      BY <1>5 DEF Content
    <3>3. CASE Len(opened.now) > m.size
      <4>1. held = Changed(opened, << >>)
        BY <3>3
      <4> HIDE DEF held, opened
      <4> QED
        BY <1>4, <2>1, <3>1, <4>1
    <3>4. CASE ~(Len(opened.now) > m.size)
      <4>1. held = opened
        BY <3>4, SMTT(30)
      <4> HIDE DEF held, opened
      <4> QED
        BY <1>4, <1>5, <3>2, <3>4, <4>1
    <3> QED
      BY <3>3, <3>4, Zenon
  <2>3. /\ parts' = [parts EXCEPT ![m] = held]
        /\ sess' = [conn |-> c, rid |-> request.rid, pc |-> "ready", meta |-> m,
                     offset |-> Len(held.now), checksum |-> held.now,
                     position |-> Len(held.now), first_chunk |-> TRUE,
                     chunk |-> << >>, written |-> 0]
        /\ acked' \in [Metas -> Nat]
        /\ UNCHANGED <<s2c, served, dest>>
    BY <1>1, <1>3, <1>7, ZenonT(30) DEF OpenPartial, TypeOK
  <2>4. parts' \in [Metas -> Entry] /\ PartialsAreFiles'
    BY <1>3, <2>2, <2>3, PartialReplaced, ZenonT(30)
  <2>5. sess' \in Session
    BY <1>3, <2>1, <2>2, <2>3, ZenonT(30) DEF Session, Stages
  <2>6. TypeOK'
    BY <1>1, <1>2, <1>3, <2>3, <2>4, <2>5, ZenonT(30) DEF TypeOK
  <2>7. parts'[m] = held
    BY <1>1, <1>3, <2>3, ZenonT(30) DEF TypeOK
  <2>8. held.now \o << >> = held.now
    BY <2>2, ConcatEmptySeq, ZenonT(30) DEF Content
  <2>9. Exists(held)
    BY <2>2, DiskAssumption, ZenonT(30) DEF Exists
  <2>10. SessionInv'
    BY <2>2, <2>3, <2>7, <2>8, <2>9, Zenon
       DEF SessionInv, SessionConsistent, ChecksumDescribesPartial, VerifiedBeforeRename,
           At, Landed
  <2> QED
    BY <2>4, <2>6, <2>10 DEF Inv, SessionInv
<1> QED
  BY <1>6, <1>7
-----------------------------------------------------------------------------
(* The steps that end a session before the commit. *)
LEMMA EndStep ==
    ASSUME Inv,
           \/ SendReadyFails \/ RejectFrame \/ DiscardMalformed \/ RecvInterrupted
           \/ StoreFails \/ SendAckFails \/ RenameFails
    PROVE  Inv'
<1> DEFINE entry == parts[sess.meta]
<1>1. TypeOK
  BY DEF Inv
<1>2. sess # NoSession /\ sess.pc # "syncdirs"
  BY DEF SendReadyFails, RejectFrame, DiscardMalformed, RecvInterrupted, StoreFails,
         SendAckFails, RenameFails, Receiving, At
<1>3. /\ sess \in Session /\ sess.meta \in Metas /\ sess.conn \in Conns
      /\ entry \in Entry /\ entry.data \subseteq Content
  BY <1>2, SessionPartial DEF Session
<1>4. /\ Changed(entry, << >>) \in Entry /\ Changed(entry, << >>).data \subseteq Content
  <2>1. << >> \in Content
    BY DEF Content
  <2> QED
    BY <1>3, <2>1, ChangedType
<1>5. CASE SendReadyFails \/ RecvInterrupted \/ SendAckFails
  <2>1. Interrupted /\ UNCHANGED wireVars
    BY <1>5 DEF SendReadyFails, RecvInterrupted, SendAckFails
  <2>2. TypeOK'
    BY <1>1, <1>2, <1>3, <2>1, InterruptedInv DEF wireVars, TypeOK
  <2> QED
    BY <1>2, <2>1, <2>2, InterruptedInv, NoSessionInv DEF Inv, SessionInv
<1>6. CASE RejectFrame \/ DiscardMalformed \/ StoreFails \/ RenameFails
  <2>1. Cleanup(entry) \/ Cleanup(Changed(entry, << >>))
    BY <1>6 DEF RejectFrame, DiscardMalformed, StoreFails, RenameFails, RejectTransfer
  <2>2. /\ sess' = NoSession /\ served' = served \cup {sess.conn}
    BY <1>6, ZenonT(30) DEF RejectFrame, DiscardMalformed, StoreFails, RenameFails, RejectTransfer, Return
  <2>3. /\ link' = link /\ c2s' \in [Conns -> Seq(ClientFrame)] /\ DOMAIN s2c' = Conns
    BY <1>1, <1>3, <1>6, QueueTypes, ReplyType
       DEF RejectFrame, DiscardMalformed, StoreFails, RenameFails, RejectTransfer, Receiving,
           Reply, TypeOK
  <2>4. /\ parts' \in [Metas -> Entry] /\ PartialsAreFiles'
        /\ acked' \in [Metas -> Nat] /\ dest' = dest
    BY <1>3, <1>4, <2>1, CleanupInv
  <2>5. TypeOK'
    BY <1>1, <1>3, <2>2, <2>3, <2>4, ZenonT(30) DEF TypeOK
  <2> QED
    BY <2>2, <2>4, <2>5, NoSessionInv, ZenonT(30) DEF Inv, SessionInv
<1> QED
  BY <1>5, <1>6

(* The steps of a session that do not change the content of its partial. *)
LEMMA QuietStep ==
    ASSUME Inv, SendReady \/ SyncChunk \/ SendAck \/ Verify
    PROVE  Inv'
<1> DEFINE m == sess.meta
           entry == parts[m]
<1>1. TypeOK /\ PartialsAreFiles
  BY DEF Inv
<1>2. sess # NoSession /\ sess.pc \in {"ready", "loop", "sync", "ack"}
  BY DEF SendReady, SyncChunk, SendAck, Verify, Receiving, At
<1>3. /\ sess \in Session /\ m \in Metas /\ sess.conn \in Conns /\ Exists(entry)
      /\ entry \in Entry /\ entry.now \in Content /\ entry.data \subseteq Content
  BY <1>2, SessionPartial DEF Session
<1>4. /\ entry.now = sess.checksum \o << >>
      /\ sess.offset = Len(sess.checksum) /\ sess.position = Len(entry.now)
      /\ sess.offset <= m.size
  BY <1>2, Zenon DEF Inv, ChecksumDescribesPartial, Landed, At
<1>5. SUFFICES /\ TypeOK' /\ PartialsAreFiles'
               /\ sess'.pc \in {"loop", "ack", "rename"}
               /\ sess'.meta = m /\ sess'.checksum = sess.checksum
               /\ sess'.offset = sess.offset /\ sess'.position = sess.position
               /\ parts'[m].now = entry.now
               /\ sess'.pc = "rename" =>
                     /\ sess.offset = m.size /\ Crc(sess.checksum) = m.crc
                     /\ parts'[m].data = {entry.now}
  BY <1>3, <1>4, <1>5, Zenon DEF Inv, SessionConsistent, ChecksumDescribesPartial,
                          VerifiedBeforeRename, At, Landed, Exists
<1>6. CASE SendReady
  <2>1. sess' = [sess EXCEPT !.pc = "loop"] /\ UNCHANGED <<link, c2s, served, parts, dest, acked>>
        /\ DOMAIN s2c' = Conns
    BY <1>1, <1>6, ReplyType DEF SendReady, TypeOK
  <2>2. sess' \in Session
    BY <1>3, <2>1 DEF Session, Stages
  <2> QED
    BY <1>1, <1>3, <2>1, <2>2, SMTT(30) DEF TypeOK, PartialsAreFiles, Session
<1>7. CASE SyncChunk
  <2>1. /\ sess' = [sess EXCEPT !.pc = "ack"]
        /\ UNCHANGED <<link, c2s, s2c, served, dest, acked>>
        /\ parts' = [x \in Metas |-> NameSynced(IF x = m THEN FileSynced(entry) ELSE parts[x])]
    BY <1>1, <1>3, <1>7 DEF SyncChunk, DirectorySynced, wireVars, TypeOK
  <2>2. sess' \in Session
    BY <1>3, <2>1, SMTT(30) DEF Session, Stages
  <2>3. FileSynced(entry) \in Entry /\ FileSynced(entry).data \subseteq Content
    BY <1>3 DEF FileSynced, Entry
  <2>4. \A x \in Metas : parts'[x] \in Entry
    BY <1>1, <2>1, <2>3, EntryTypes, EmptySeq, Zenon DEF TypeOK, Content
  <2>5. parts' \in [Metas -> Entry]
    BY <2>1, <2>4
  <2>6. PartialsAreFiles'
    BY <1>1, <2>1, <2>3 DEF PartialsAreFiles, NameSynced, Exists
  <2>7. parts'[m].now = entry.now
    BY <1>3, <2>1 DEF NameSynced, FileSynced
  <2> QED
    BY <1>1, <1>3, <2>1, <2>2, <2>5, <2>6, <2>7, SMTT(30) DEF TypeOK, Session
<1>8. CASE SendAck
  <2>1. /\ sess' = [sess EXCEPT !.pc = "loop", !.chunk = << >>, !.written = 0]
        /\ UNCHANGED <<link, c2s, served, parts, dest>>
        /\ DOMAIN s2c' = Conns
    BY <1>1, <1>8, ReplyType DEF SendAck, TypeOK
  <2>2. sess' \in Session
    BY <1>3, <2>1, EmptySeq, Zenon DEF Session, Stages, Content
  <2>3. acked' \in [Metas -> Nat]
    BY <1>1, <1>3, <1>8 DEF SendAck, TypeOK, Session
  <2> QED
    BY <1>1, <1>3, <2>1, <2>2, <2>3, ZenonT(30) DEF TypeOK, PartialsAreFiles, Session
<1>9. CASE Verify
  <2>1. /\ sess' = [sess EXCEPT !.pc = "rename"]
        /\ UNCHANGED <<link, s2c, served, dest, acked>>
        /\ c2s' \in [Conns -> Seq(ClientFrame)]
        /\ parts' = [parts EXCEPT ![m] = FileSynced(entry)]
        /\ sess.offset = m.size /\ Crc(sess.checksum) = m.crc
    BY <1>1, <1>3, <1>9, QueueTypes DEF Verify, Receiving
  <2>2. sess' \in Session
    BY <1>3, <2>1, Zenon DEF Session, Stages
  <2>3. /\ FileSynced(entry) \in Entry /\ FileSynced(entry).data = {entry.now}
        /\ FileSynced(entry).now = entry.now
    BY <1>3 DEF FileSynced, Entry
  <2>4. parts' \in [Metas -> Entry] /\ PartialsAreFiles'
    BY <1>3, <2>1, <2>3, PartialReplaced, Zenon
  <2> QED
    BY <1>1, <1>3, <2>1, <2>2, <2>3, <2>4, ZenonT(30) DEF TypeOK, Session
<1> QED
  BY <1>6, <1>7, <1>8, <1>9

(* A chunk is accepted, perhaps after truncating the partial. *)
LEMMA AcceptStep ==
    ASSUME Inv, AcceptChunk
    PROVE  Inv'
<1> DEFINE m == sess.meta
           entry == parts[m]
           frame == Incoming
           restarts == Restarts(frame)
           base == IF restarts THEN 0 ELSE sess.offset
           held == IF restarts THEN Changed(entry, << >>) ELSE entry
<1>1. TypeOK
  BY DEF Inv
<1>2. sess # NoSession /\ sess.pc = "loop"
  BY DEF AcceptChunk, Receiving, At
<1>3. /\ sess \in Session /\ m \in Metas /\ sess.conn \in Conns
      /\ entry \in Entry /\ entry.now \in Content /\ entry.data \subseteq Content
      /\ Exists(entry) /\ m.size \in Nat
  BY <1>2, SessionPartial, MetaAssumption DEF Session
<1>4. /\ HasFrame(c2s, sess.conn) /\ c2s' = Consumed(c2s, sess.conn)
      /\ OfTransfer(frame, "FileChunk") /\ frame.data # << >>
      /\ Len(frame.data) <= m.size - base
      /\ UNCHANGED <<link, s2c, served, dest>>
  BY DEF AcceptChunk, Receiving
<1>5. /\ c2s' \in [Conns -> Seq(ClientFrame)] /\ frame.data \in Content
      /\ Len(frame.data) \in Nat \ {0}
  <2>1. frame \in ClientFrame /\ c2s' \in [Conns -> Seq(ClientFrame)]
    BY <1>1, <1>3, <1>4, QueueTypes DEF Incoming
  <2>2. frame.data \in Content
    BY <1>4, <2>1, FrameTypes DEF OfTransfer
  <2> QED
    BY <1>4, <2>1, <2>2, EmptySeq DEF Content
<1>6. << >> \in Content /\ Len(<< >>) = 0
  BY DEF Content
<1>7. /\ held \in Entry /\ held.now = (IF restarts THEN << >> ELSE entry.now)
      /\ held.data \subseteq Content /\ Exists(held)
  BY <1>3, <1>6, ChangedType, DiskAssumption DEF Exists
<1>8. /\ sess' = [sess EXCEPT
                    !.pc = "write", !.chunk = frame.data, !.written = 0,
                    !.first_chunk = FALSE, !.offset = base,
                    !.checksum = IF restarts THEN << >> ELSE sess.checksum,
                    !.position = IF restarts THEN 0 ELSE sess.position]
      /\ parts' = [parts EXCEPT ![m] = held]
      /\ acked' = [acked EXCEPT ![m] = IF restarts THEN 0 ELSE acked[m]]
  BY <1>1, <1>3 DEF AcceptChunk, TypeOK
<1>9. parts' \in [Metas -> Entry] /\ PartialsAreFiles' /\ parts'[m] = held
  BY <1>1, <1>3, <1>7, <1>8, PartialReplaced, Zenon DEF TypeOK
<1>10. sess' \in Session
  BY <1>3, <1>5, <1>6, <1>8, ZenonT(30) DEF Session, Stages
<1>11. acked' \in [Metas -> Nat]
  BY <1>1, <1>3, <1>8, ZenonT(30) DEF TypeOK
<1>12. TypeOK'
  BY <1>1, <1>4, <1>5, <1>9, <1>10, <1>11 DEF TypeOK
<1>13. /\ sess'.pc = "write" /\ sess'.chunk = frame.data /\ sess'.written = 0
       /\ sess'.meta = m /\ sess'.offset = base
       /\ sess'.checksum = (IF restarts THEN << >> ELSE sess.checksum)
       /\ sess'.position = (IF restarts THEN 0 ELSE sess.position)
  BY <1>3, <1>8 DEF Session
<1>14. /\ entry.now = sess.checksum \o << >> /\ sess.checksum \in Content
       /\ sess.offset = Len(sess.checksum) /\ sess.position = Len(entry.now)
       /\ sess.offset <= m.size
  BY <1>2, <1>3 DEF Inv, ChecksumDescribesPartial, Landed, At, Session
<1>15. entry.now = sess.checksum /\ sess'.checksum \in Content
  BY <1>6, <1>13, <1>14, ConcatEmptySeq DEF Content
<1>16. SubSeq(sess'.chunk, 1, sess'.written) = << >>
  BY <1>13, SubSeqEmpty
<1>17. ChecksumDescribesPartial'
  <2>1. parts'[m].now = sess'.checksum
    BY <1>7, <1>9, <1>13, <1>15
  <2>2. sess'.checksum \o << >> = sess'.checksum
    BY <1>15, ConcatEmptySeq DEF Content
  <2>3. sess'.offset = Len(sess'.checksum) /\ sess'.position = Len(parts'[m].now)
    BY <1>6, <1>13, <1>14, <1>15, <2>1
  <2>4. base <= m.size
    BY <1>3, <1>14, SMTT(30)
  <2> QED
    BY <1>13, <1>16, <2>1, <2>2, <2>3, <2>4, ZenonT(30) DEF ChecksumDescribesPartial, Landed, At
<1>18. SessionConsistent' /\ VerifiedBeforeRename'
  <2>1. base \in Nat /\ base + Len(frame.data) <= m.size
    BY <1>3, <1>4, <1>5 DEF Session
  <2> QED
    BY <1>5, <1>7, <1>9, <1>13, <2>1, SMTT(30) DEF SessionConsistent, VerifiedBeforeRename, At
<1> QED
  BY <1>9, <1>12, <1>17, <1>18 DEF Inv

(* One write(2): the checksum takes in the chunk after the last of them. *)
LEMMA WriteStep ==
    ASSUME Inv, NEW n \in 1 .. ChunkSize, WriteBlocks(n)
    PROVE  Inv'
<1> DEFINE m == sess.meta
           entry == parts[m]
           k == sess.written
           data == WriteAt(entry.now, sess.position, SubSeq(sess.chunk, k + 1, k + n))
           last == k + n = Len(sess.chunk)
<1>1. TypeOK
  BY DEF Inv
<1>2. sess # NoSession /\ sess.pc = "write"
  BY DEF WriteBlocks, At
<1>3. /\ sess \in Session /\ m \in Metas /\ m.size \in Nat
      /\ entry \in Entry /\ entry.now \in Content /\ entry.data \subseteq Content
  BY <1>2, SessionPartial, MetaAssumption
<1>4. /\ sess.checksum \in Content /\ sess.chunk \in Content /\ k \in Nat
      /\ sess.offset \in Nat /\ sess.position \in Nat /\ Len(sess.chunk) \in Nat
  BY <1>3 DEF Session, Content
<1>5. n \in Nat \ {0} /\ k + n <= Len(sess.chunk)
  BY <1>4, LimitAssumption, SMTT(30) DEF WriteBlocks
<1>6. /\ entry.now = sess.checksum \o SubSeq(sess.chunk, 1, k)
      /\ sess.offset = Len(sess.checksum) /\ sess.position = Len(entry.now)
      /\ sess.offset + Len(sess.chunk) <= m.size
  BY <1>2, Zenon DEF Inv, ChecksumDescribesPartial, SessionConsistent, Landed, At
<1>7. /\ data \in Content /\ data = sess.checksum \o SubSeq(sess.chunk, 1, k + n)
      /\ Len(data) = Len(entry.now) + n
  <2> DEFINE a == SubSeq(sess.chunk, 1, k)
             b == SubSeq(sess.chunk, k + 1, k + n)
  <2>1. a \in Content /\ b \in Content /\ Len(b) = n
    BY <1>4, <1>5, SMTT(30) DEF Content
  <2>2. a \o b = SubSeq(sess.chunk, 1, k + n)
    <3> DEFINE e == k + n
    <3>1. k \in 0 .. Len(sess.chunk) /\ e \in k .. Len(sess.chunk)
      BY <1>4, <1>5
    <3> HIDE DEF e, k
    <3>2. SubSeq(sess.chunk, 1, k) \o SubSeq(sess.chunk, k + 1, e) = SubSeq(sess.chunk, 1, e)
      BY <1>4, <3>1, ChunkSplit
    <3> QED
      BY <3>2, Zenon DEF e
  <2>3. data = WriteAt(sess.checksum \o a, Len(sess.checksum \o a), b)
    BY <1>6
  <2> HIDE DEF a, b
  <2>4. /\ data \in Content /\ data = sess.checksum \o (a \o b)
        /\ Len(data) = Len(sess.checksum \o a) + Len(b)
    <3>1. /\ WriteAt(sess.checksum \o a, Len(sess.checksum \o a), b) = sess.checksum \o (a \o b)
          /\ sess.checksum \o (a \o b) \in Content
          /\ Len(sess.checksum \o (a \o b)) = Len(sess.checksum \o a) + Len(b)
      BY <1>4, <2>1, WriteExtends, ZenonT(30)
    <3> HIDE DEF data
    <3> QED
      BY <2>3, <3>1
  <2>5. entry.now = sess.checksum \o a
    BY <1>6 DEF a
  <2> QED
    BY <2>1, <2>2, <2>4, <2>5, Zenon
<1>8. /\ parts' = [parts EXCEPT ![m] = Changed(entry, data)]
      /\ sess' = [sess EXCEPT
                    !.written = k + n, !.position = sess.position + n,
                    !.pc = IF last THEN "sync" ELSE "write",
                    !.checksum = IF last THEN sess.checksum \o sess.chunk ELSE sess.checksum,
                    !.offset = IF last THEN sess.offset + Len(sess.chunk) ELSE sess.offset]
      /\ UNCHANGED <<link, c2s, s2c, served, dest, acked>>
  BY <1>1, <1>3 DEF WriteBlocks, wireVars, TypeOK
<1>9. /\ Changed(entry, data) \in Entry /\ Changed(entry, data).now = data
      /\ Changed(entry, data).data \subseteq Content
  BY <1>3, <1>7, ChangedType, ZenonT(30)
<1>10. parts' \in [Metas -> Entry] /\ PartialsAreFiles' /\ parts'[m].now = data
  BY <1>1, <1>3, <1>8, <1>9, PartialReplaced, Zenon DEF TypeOK
<1>11. sess.checksum \o sess.chunk \in Content
       /\ Len(sess.checksum \o sess.chunk) = Len(sess.checksum) + Len(sess.chunk)
  BY <1>4, ConcatProperties DEF Content
<1>12. sess' \in Session
  <2>1. /\ (IF last THEN "sync" ELSE "write") \in Stages
        /\ (IF last THEN sess.checksum \o sess.chunk ELSE sess.checksum) \in Content
        /\ (IF last THEN sess.offset + Len(sess.chunk) ELSE sess.offset) \in Nat
        /\ k + n \in Nat /\ sess.position + n \in Nat
    BY <1>4, <1>5, <1>11 DEF Stages
  <2> HIDE DEF last, k
  <2> QED
    BY <1>3, <1>8, <2>1, ZenonT(30) DEF Session
<1>13. TypeOK'
  BY <1>1, <1>8, <1>10, <1>12 DEF TypeOK
<1>14. /\ sess'.meta = m /\ sess'.chunk = sess.chunk /\ sess'.written = k + n
       /\ sess'.position = sess.position + n
       /\ sess'.pc = (IF last THEN "sync" ELSE "write")
       /\ sess'.checksum = (IF last THEN sess.checksum \o sess.chunk ELSE sess.checksum)
       /\ sess'.offset = (IF last THEN sess.offset + Len(sess.chunk) ELSE sess.offset)
  BY <1>3, <1>8 DEF Session
<1>15. ChecksumDescribesPartial'
  <2>1. sess'.position = Len(parts'[m].now)
    BY <1>6, <1>7, <1>10, <1>14, Zenon
  <2>2. CASE last
    <3>1. SubSeq(sess.chunk, 1, k + n) = sess.chunk
      BY <1>4, <2>2, SubSeqFull DEF Content
    <3>2. parts'[m].now = sess'.checksum \o << >>
      BY <1>7, <1>10, <1>11, <1>14, <2>2, <3>1, ConcatEmptySeq, Zenon DEF Content
    <3>3. sess'.offset = Len(sess'.checksum) /\ sess'.offset <= m.size
      BY <1>6, <1>11, <1>14, <2>2, Zenon
    <3> QED
      BY <1>14, <2>1, <2>2, <3>2, <3>3, ZenonT(30) DEF ChecksumDescribesPartial, Landed, At
  <2>3. CASE ~last
    <3>1. sess'.offset <= m.size
      <4>1. sess'.offset = sess.offset
        BY <1>14, <2>3
      <4>2. sess.offset <= m.size
        BY <1>2 DEF Inv, ChecksumDescribesPartial
      <4> QED
        BY <4>1, <4>2
    <3> QED
      BY <1>6, <1>7, <1>10, <1>14, <2>1, <2>3, <3>1, Zenon
         DEF ChecksumDescribesPartial, Landed, At
  <2> QED
    BY <2>2, <2>3
<1>16. SessionConsistent' /\ VerifiedBeforeRename'
  <2>1. Exists(parts'[m])
    BY <1>7, <1>10, DiskAssumption DEF Exists
  <2>2. ~last => k + n < Len(sess.chunk)
    BY <1>4, <1>5
  <2> QED
    BY <1>6, <1>14, <2>1, <2>2, Zenon DEF SessionConsistent, VerifiedBeforeRename, At
<1> QED
  BY <1>10, <1>13, <1>15, <1>16 DEF Inv

(* The commit: the partial becomes the final file. *)
LEMMA CommitStep ==
    ASSUME Inv, Rename \/ Commit \/ SyncDirsFails
    PROVE  Inv'
<1> DEFINE m == sess.meta
           entry == parts[m]
<1>1. TypeOK /\ PartialsAreFiles
  BY DEF Inv
<1>2. sess \in Session /\ m \in Metas /\ m.path \in Paths /\ entry \in Entry
  BY <1>1, MetaAssumption DEF Rename, Commit, SyncDirsFails, At, TypeOK, Session
<1>3. \A o \in Metas : parts[o] \in Entry
  BY <1>1 DEF TypeOK
<1>4. \A p \in Paths : dest[p] \in Entry
  BY <1>1 DEF TypeOK
<1>5. CASE Rename
  <2>1. RenamedOver(dest[m.path], entry) \in Entry
    BY <1>2, <1>4, EntryTypes, DiskAssumption DEF RenamedOver, Outcomes, Entry
  <2>2. Unlinked(entry) \in Entry /\ ~Exists(Unlinked(entry))
    BY <1>2 DEF Unlinked, Exists, Entry, Outcomes
  <2>3. parts' \in [Metas -> Entry] /\ PartialsAreFiles'
    BY <1>2, <1>5, <2>2, PartialReplaced, ZenonT(30) DEF Rename
  <2>4. sess' \in Session /\ sess'.pc = "syncdirs"
    BY <1>2, <1>5 DEF Rename, Session, Stages
  <2>5. TypeOK'
    BY <1>1, <1>2, <1>5, <2>1, <2>3, <2>4 DEF Rename, TypeOK, wireVars
  <2> QED
    BY <2>3, <2>4, <2>5, ZenonT(30) DEF Inv, SessionConsistent, ChecksumDescribesPartial,
                            VerifiedBeforeRename, At
<1>6. CASE Commit
  <2>1. \A o \in Metas : /\ NameSynced(parts[o]) \in Entry
                         /\ NameSynced(parts[o]).now = parts[o].now
                         /\ NameSynced(parts[o]).data = parts[o].data
    BY <1>3, SMTT(30) DEF NameSynced, Entry
  <2>2. parts' \in [Metas -> Entry] /\ PartialsAreFiles'
    BY <1>1, <1>6, <2>1 DEF Commit, DirectorySynced, PartialsAreFiles, Exists
  <2>3. NameSynced(dest[m.path]) \in Entry
    BY <1>2, <1>4, ZenonT(30) DEF NameSynced, Entry
  <2>4. DOMAIN s2c' = Conns
    BY <1>1, <1>6, ReplyType, SMTT(30) DEF Commit, Reply, TypeOK
  <2>5. sess' = NoSession /\ served' \subseteq Conns
    BY <1>1, <1>2, <1>6, ZenonT(30) DEF Commit, Return, TypeOK, Session
  <2>6. TypeOK'
    BY <1>1, <1>2, <1>6, <2>2, <2>3, <2>4, <2>5 DEF Commit, TypeOK
  <2> QED
    BY <2>2, <2>5, <2>6, NoSessionInv, ZenonT(30) DEF Inv, SessionInv
<1>7. CASE SyncDirsFails
  <2>1. DOMAIN s2c' = Conns
    BY <1>1, <1>7, ReplyType DEF SyncDirsFails, Reply, TypeOK
  <2>2. sess' = NoSession /\ served' \subseteq Conns
    BY <1>1, <1>2, <1>7, Zenon DEF SyncDirsFails, Return, TypeOK, Session
  <2>3. TypeOK' /\ PartialsAreFiles'
    BY <1>1, <1>7, <2>1, <2>2 DEF SyncDirsFails, TypeOK, PartialsAreFiles
  <2> QED
    BY <2>2, <2>3, NoSessionInv, ZenonT(30) DEF Inv, SessionInv
<1> QED
  BY <1>5, <1>6, <1>7

(* Every name of left holds a possible content of its entry, for good. *)
MayBeLeft(K, entries, left) ==
    /\ left \in [K -> Entry]
    /\ \A k \in K : \E content \in Content \cup {NoFile} :
          /\ left[k] = Stored(content)
          /\ content = entries[k].now \/ content \in Outcomes(entries[k])

(* What a power failure may leave of a directory of names. *)
LEMMA AfterFailure ==
    ASSUME NEW K, NEW entries \in [K -> Entry], NEW left \in AfterPowerFailure(entries)
    PROVE  MayBeLeft(K, entries, left)
<1> DEFINE open == {k \in K : Cardinality(Outcomes(entries[k])) > 1}
<1>1. PICK f : /\ \A k \in open : f[k] \in Outcomes(entries[k])
               /\ left = [k \in K |-> IF k \in open THEN Stored(f[k])
                                      ELSE Stored(entries[k].now)]
  BY ZenonT(30) DEF AfterPowerFailure
<1>2. \A k \in K : /\ entries[k].now \in Content \cup {NoFile}
                   /\ Outcomes(entries[k]) \subseteq Content \cup {NoFile}
  BY DEF Entry, Outcomes
<1>3. \A content \in Content \cup {NoFile} : Stored(content) \in Entry
  BY DEF Stored, Entry
<1> HIDE DEF open
<1>4. ASSUME NEW k \in K
      PROVE  \E content \in Content \cup {NoFile} :
                 /\ left[k] = Stored(content)
                 /\ content = entries[k].now \/ content \in Outcomes(entries[k])
  BY <1>1, <1>2
<1> QED
  BY <1>1, <1>3, <1>4 DEF MayBeLeft

(* The death of the process and a power failure. *)
LEMMA CrashStep ==
    ASSUME Inv, KillServer \/ PowerFailure
    PROVE  Inv'
<1>1. TypeOK /\ PartialsAreFiles
  BY DEF Inv
<1>2. ProcessLost
  BY SMTT(30) DEF KillServer, PowerFailure
<1>3. /\ sess' = NoSession /\ served' \subseteq Conns
      /\ link' \in [Conns -> {"closed", "up", "down"}]
      /\ c2s' \in [Conns -> Seq(ClientFrame)] /\ DOMAIN s2c' = Conns
  BY <1>1, <1>2, SMTT(30) DEF ProcessLost, TypeOK
<1>4. CASE KillServer
  BY <1>1, <1>3, <1>4, NoSessionInv, ZenonT(30)
     DEF KillServer, Inv, SessionInv, TypeOK, PartialsAreFiles
<1>5. CASE PowerFailure
  <2>1. parts' \in [Metas -> Entry] /\ dest' \in [Paths -> Entry]
    <3>1. /\ parts \in [Metas -> Entry] /\ parts' \in AfterPowerFailure(parts)
          /\ dest \in [Paths -> Entry] /\ dest' \in AfterPowerFailure(dest)
      BY <1>1, <1>5 DEF PowerFailure, TypeOK
    <3>2. MayBeLeft(Metas, parts, parts') /\ MayBeLeft(Paths, dest, dest')
      BY <3>1, AfterFailure, Zenon
    <3> QED
      BY <3>2, Zenon DEF MayBeLeft
  <2>2. ASSUME NEW m \in Metas
        PROVE  Exists(parts'[m]) => parts'[m].data \subseteq Content
    <3>1. parts \in [Metas -> Entry] /\ parts' \in AfterPowerFailure(parts)
      BY <1>1, <1>5 DEF PowerFailure, TypeOK
    <3>2. MayBeLeft(Metas, parts, parts')
      BY <3>1, AfterFailure, Zenon
    <3>3. PICK content \in Content \cup {NoFile} : parts'[m] = Stored(content)
      BY <3>2, Zenon DEF MayBeLeft
    <3> QED
      BY <3>3 DEF Stored, Exists
  <2>3. PartialsAreFiles'
    BY <2>2, Zenon DEF PartialsAreFiles
  <2> QED
    BY <1>1, <1>3, <1>5, <2>1, <2>3, NoSessionInv, SMTT(30) DEF PowerFailure, Inv, SessionInv, TypeOK
<1> QED
  BY <1>4, <1>5

(* Some initial states leave files of earlier runs behind. *)
LEMMA InitInv == Init => Inv
<1> SUFFICES ASSUME Init PROVE Inv
  OBVIOUS
<1>1. \A content \in Content \cup {NoFile} :
         /\ Stored(content) \in Entry
         /\ Exists(Stored(content)) => Stored(content).data \subseteq Content
  BY DEF Stored, Entry, Exists
<1>2. parts \in [Metas -> Entry] /\ PartialsAreFiles
  BY <1>1, InitAssumption DEF Init, ServerInit, PartialsAreFiles
<1>3. dest \in [Paths -> Entry]
  BY <1>1, InitAssumption DEF Init, ServerInit
<1>4. TypeOK
  BY <1>2, <1>3 DEF Init, WireInit, ServerInit, TypeOK
<1> QED
  BY <1>2, <1>4 DEF Init, ServerInit, Inv, SessionConsistent, ChecksumDescribesPartial,
                    VerifiedBeforeRename, At

(* Every step of the server, of its peers and of its environment keeps it. *)
LEMMA NextInv == Inv /\ [Next]_vars => Inv'
<1> SUFFICES ASSUME Inv, [Next]_vars PROVE Inv'
  BY SMTT(30)
<1>1. CASE UNCHANGED vars
  BY <1>1, Zenon DEF vars, Inv, TypeOK, PartialsAreFiles, SessionConsistent,
              ChecksumDescribesPartial, VerifiedBeforeRename, At, Landed
<1>2. CASE \E c \in Conns :
              \/ RefuseFirstFrame(c) \/ RejectRequest(c) \/ CloseServed(c)
              \/ PeerConnects(c) \/ PeerSends(c) \/ ConnectionBreaks(c)
  BY <1>2, OutsideStep
<1>3. CASE \E c \in Conns : RejectOpened(c) \/ OpenPartial(c)
  BY <1>3, OpenStep
<1>4. CASE \/ SendReadyFails \/ RejectFrame \/ DiscardMalformed \/ RecvInterrupted
           \/ StoreFails \/ SendAckFails \/ RenameFails
  BY <1>4, EndStep
<1>5. CASE SendReady \/ SyncChunk \/ SendAck \/ Verify
  BY <1>5, QuietStep
<1>6. CASE AcceptChunk
  BY <1>6, AcceptStep
<1>7. CASE \E n \in 1 .. ChunkSize : WriteBlocks(n)
  BY <1>7, WriteStep
<1>8. CASE Rename \/ Commit \/ SyncDirsFails
  BY <1>8, CommitStep
<1>9. CASE KillServer \/ PowerFailure
  BY <1>9, CrashStep
<1> QED
  BY <1>1, <1>2, <1>3, <1>4, <1>5, <1>6, <1>7, <1>8, <1>9
     DEF Next, ServerStep, TransferStep

(* The inductive invariant of receive_file holds in every behaviour, for    *)
(* every set of peers, files, limits and faults.                            *)
THEOREM Invariance == Spec => []Inv
<1> QED
  BY InitInv, NextInv, PTL DEF Spec

(* The state of the server stays within its types. *)
THEOREM TypeCorrect == Spec => []TypeOK
  BY Invariance, PTL DEF Inv

(* Throughout every transfer the running checksum describes the bytes of    *)
(* the partial file, for all frames, sizes, crashes and restarts.           *)
THEOREM ChecksumCorrect == Spec => []ChecksumDescribesPartial
  BY Invariance, PTL DEF Inv
-----------------------------------------------------------------------------
(* The final paths.                                                         *)

(* Only the commit and a power failure touch them. *)
LEMMA DestUntouched ==
    ASSUME Inv, [Next]_vars, ~Rename, ~Commit, ~PowerFailure
    PROVE  dest' = dest
<1>1. CASE UNCHANGED vars
  BY <1>1, SMTT(30) DEF vars
<1>2. CASE \E c \in Conns :
              \/ RefuseFirstFrame(c) \/ RejectRequest(c) \/ CloseServed(c)
              \/ PeerConnects(c) \/ PeerSends(c) \/ ConnectionBreaks(c)
              \/ RejectOpened(c) \/ OpenPartial(c)
  BY <1>2, Zenon DEF RefuseFirstFrame, RejectRequest, CloseServed, PeerConnects, PeerSends,
              ConnectionBreaks, RejectOpened, OpenPartial, serverVars
<1>3. CASE \/ SendReadyFails \/ RejectFrame \/ DiscardMalformed \/ RecvInterrupted
           \/ StoreFails \/ SendAckFails \/ RenameFails
  BY <1>3 DEF SendReadyFails, RejectFrame, DiscardMalformed, RecvInterrupted, StoreFails,
              SendAckFails, RenameFails, RejectTransfer, Cleanup, Interrupted
<1>4. CASE SendReady \/ SyncChunk \/ SendAck \/ Verify \/ AcceptChunk \/ SyncDirsFails
  BY <1>4 DEF SendReady, SyncChunk, SendAck, Verify, AcceptChunk, SyncDirsFails
<1>5. CASE \E n \in 1 .. ChunkSize : WriteBlocks(n)
  BY <1>5 DEF WriteBlocks
<1>6. CASE KillServer
  BY <1>6 DEF KillServer
<1> QED
  BY <1>1, <1>2, <1>3, <1>4, <1>5, <1>6 DEF Next, ServerStep, TransferStep

(* What is renamed is what was verified, and nothing else is on the disk. *)
LEMMA RenamedIsVerified ==
    ASSUME Inv, At("rename")
    PROVE  /\ sess.meta \in Metas /\ sess.meta.path \in Paths
           /\ Len(parts[sess.meta].now) = sess.meta.size
           /\ Crc(parts[sess.meta].now) = sess.meta.crc
           /\ parts[sess.meta].data = {parts[sess.meta].now}
           /\ parts[sess.meta].now # NoFile
<1>1. sess # NoSession /\ sess.pc = "rename" /\ sess \in Session
  BY DEF At, Inv, TypeOK
<1>2. sess.checksum \in Content /\ sess.meta \in Metas
  BY <1>1 DEF Session
<1>3. parts[sess.meta].now = sess.checksum
  <2>1. parts[sess.meta].now = sess.checksum \o << >>
    BY <1>1 DEF Inv, ChecksumDescribesPartial, Landed, At
  <2> QED
    BY <1>2, <2>1, ConcatEmptySeq DEF Content
<1>4. parts[sess.meta].now # NoFile
  BY <1>2, <1>3, DiskAssumption, Zenon
<1> QED
  BY <1>1, <1>2, <1>3, <1>4, MetaAssumption
     DEF Inv, ChecksumDescribesPartial, VerifiedBeforeRename, At

(* A power failure leaves one of the possible states of a final path. *)
LEMMA FailureOfDest ==
    ASSUME TypeOK, PowerFailure, NEW p \in Paths
    PROVE  /\ dest'[p].now = dest[p].now \/ dest'[p].now \in Outcomes(dest[p])
           /\ dest'[p].data = {dest'[p].now} /\ dest'[p].names = {}
<1>1. dest \in [Paths -> Entry] /\ dest' \in AfterPowerFailure(dest)
  BY DEF PowerFailure, TypeOK
<1>2. MayBeLeft(Paths, dest, dest')
  BY <1>1, AfterFailure, Zenon
<1>3. PICK content \in Content \cup {NoFile} :
         /\ dest'[p] = Stored(content)
         /\ content = dest[p].now \/ content \in Outcomes(dest[p])
  BY <1>2, Zenon DEF MayBeLeft
<1> QED
  BY <1>3 DEF Stored

(* No step but the rename of a verified partial makes a content visible     *)
(* under a final path, unless a power failure brings an earlier one back.   *)
THEOREM OnlyVerifiedIsVisible == Spec => OnlyVerifiedBecomesVisible
<1> DEFINE Visible ==
      \A p \in Paths : dest'[p].now # dest[p].now =>
          \/ /\ At("rename") /\ sess.meta.path = p
             /\ dest'[p].now = parts[sess.meta].now
             /\ Len(dest'[p].now) = sess.meta.size
             /\ Crc(dest'[p].now) = sess.meta.crc
          \/ dest'[p].now \in Outcomes(dest[p]) /\ sess' = NoSession
<1>1. ASSUME Inv, [Next]_vars PROVE Visible
  <2>1. TypeOK /\ dest \in [Paths -> Entry]
    BY <1>1, Zenon DEF Inv, TypeOK
  <2>2. CASE Rename
    <3>1. At("rename") /\ dest' = [dest EXCEPT ![sess.meta.path] =
                                     RenamedOver(dest[sess.meta.path], parts[sess.meta])]
      BY <2>1, <2>2, Zenon DEF Rename
    <3>2. RenamedOver(dest[sess.meta.path], parts[sess.meta]).now = parts[sess.meta].now
      BY Zenon DEF RenamedOver
    <3> QED
      BY <1>1, <2>1, <3>1, <3>2, RenamedIsVerified
  <2>3. CASE Commit
    <3>1. dest' = [dest EXCEPT ![sess.meta.path] = NameSynced(dest[sess.meta.path])]
      BY <2>1, <2>3 DEF Commit
    <3>2. \A p \in Paths : dest'[p].now = dest[p].now
      BY <2>1, <3>1 DEF NameSynced
    <3> QED
      BY <3>2
  <2>4. CASE PowerFailure
    BY <2>1, <2>4, FailureOfDest, Zenon DEF PowerFailure, ProcessLost
  <2>5. CASE ~Rename /\ ~Commit /\ ~PowerFailure
    BY <1>1, <2>5, DestUntouched
  <2> QED
    BY <2>2, <2>3, <2>4, <2>5
<1>2. Inv /\ [Next]_vars => [Visible]_vars
  BY <1>1
<1> QED
  BY <1>2, Invariance, PTL DEF Spec, OnlyVerifiedBecomesVisible

(* NeverTorn is inductive together with Inv once the data of a file under a *)
(* final path is known to be on the disk.                                   *)
DestInv ==
    /\ NeverTorn
    /\ \A p \in Paths : dest[p].data = {dest[p].now}

(* The server starts with files that are on the disk. *)
LEMMA InitDestInv == Init => DestInv
<1> SUFFICES ASSUME Init PROVE DestInv
  OBVIOUS
<1>1. PICK old \in InitDest : dest = [p \in Paths |-> Stored(old[p])]
  BY DEF Init, ServerInit
<1>2. \A p \in Paths : /\ dest[p].now = old[p] /\ dest[p].data = {old[p]}
                       /\ Outcomes(dest[p]) = {old[p]}
  BY <1>1, Zenon DEF Stored, Outcomes
<1> QED
  BY <1>2 DEF DestInv, NeverTorn

(* Only rename, the fsync of the directories and a power failure change the *)
(* state of a final path, and each leaves it with such states only.         *)
LEMMA NextDestInv == Inv /\ DestInv /\ [Next]_vars => DestInv'
<1> SUFFICES ASSUME Inv, DestInv, [Next]_vars PROVE DestInv'
  OBVIOUS
<1> DEFINE Good(p, content) == \/ \E old \in InitDest : content = old[p]
                               \/ VerifiedContent(p, content)
<1>1. TypeOK /\ dest \in [Paths -> Entry]
  BY DEF Inv, TypeOK
<1>2. \A p \in Paths : /\ dest[p].data = {dest[p].now}
                       /\ \A content \in Outcomes(dest[p]) : Good(p, content)
  BY DEF DestInv, NeverTorn
<1> SUFFICES ASSUME NEW p \in Paths
             PROVE  /\ dest'[p].data = {dest'[p].now}
                    /\ \A content \in Outcomes(dest'[p]) : Good(p, content)
  BY Zenon DEF DestInv, NeverTorn, VerifiedContent
<1>3. CASE Rename /\ sess.meta.path = p
  <2>1. At("rename") /\ dest'[p] = RenamedOver(dest[p], parts[sess.meta])
    BY <1>1, <1>3, Zenon DEF Rename
  <2>2. /\ sess.meta \in Metas /\ sess.meta.path = p
        /\ Len(parts[sess.meta].now) = sess.meta.size
        /\ Crc(parts[sess.meta].now) = sess.meta.crc
        /\ parts[sess.meta].data = {parts[sess.meta].now}
        /\ parts[sess.meta].now # NoFile
    BY <1>3, <2>1, RenamedIsVerified
  <2>3. VerifiedContent(p, parts[sess.meta].now)
    BY <2>2, Zenon DEF VerifiedContent
  <2>4. /\ dest'[p].now = parts[sess.meta].now
        /\ dest'[p].data = {parts[sess.meta].now}
        /\ Outcomes(dest'[p]) = {parts[sess.meta].now} \cup Outcomes(dest[p])
    BY <2>1, <2>2 DEF RenamedOver, Outcomes
  <2> QED
    BY <1>2, <2>3, <2>4
<1>4. CASE Commit /\ sess.meta.path = p
  <2>1. At("syncdirs") /\ dest'[p] = NameSynced(dest[p])
    BY <1>1, <1>4, Zenon DEF Commit
  <2> QED
    BY <1>2, <2>1 DEF NameSynced, Outcomes
<1>5. CASE PowerFailure
  <2>1. /\ dest'[p].now \in Outcomes(dest[p])
        /\ dest'[p].data = {dest'[p].now} /\ Outcomes(dest'[p]) = {dest'[p].now}
    BY <1>1, <1>2, <1>5, FailureOfDest DEF Outcomes
  <2> QED
    BY <1>2, <2>1
<1>6. CASE dest'[p] = dest[p]
  BY <1>2, <1>6
<1>7. CASE (Rename \/ Commit) /\ sess.meta.path # p
  <2>1. dest'[p] = dest[p]
    BY <1>1, <1>7 DEF Rename, Commit
  <2> QED
    BY <1>2, <2>1
<1> QED
  BY <1>3, <1>4, <1>5, <1>6, <1>7, DestUntouched

(* No power failure can make a final path show a file that was neither      *)
(* there at the start nor verified in full.                                 *)
THEOREM FinalPathsNeverTorn == Spec => []NeverTorn
<1>1. DestInv => NeverTorn
  BY DEF DestInv
<1> QED
  BY <1>1, InitDestInv, NextDestInv, Invariance, PTL DEF Spec
-----------------------------------------------------------------------------
(* The refinement mapping. *)
Visible == [p \in Paths |-> dest[p].now]
Fallback == [p \in Paths |-> dest[p].names]

(* A server starts in a state of the abstract specification. *)
LEMMA InitPromise == Init => Promise!Init
<1> SUFFICES ASSUME Init PROVE Promise!Init
  OBVIOUS
<1>1. PICK old \in InitDest : dest = [p \in Paths |-> Stored(old[p])]
  BY DEF Init, ServerInit
<1>2. DOMAIN old = Paths /\ old = [p \in Paths |-> old[p]]
  BY InitAssumption
<1>3. Visible = [p \in Paths |-> old[p]] /\ Fallback = [p \in Paths |-> {}]
  BY <1>1 DEF Visible, Fallback, Stored
<1> QED
  BY <1>2, <1>3 DEF Promise!Init, Visible, Fallback

(* The rename is the abstract replacement: the partial was verified, its    *)
(* data is on the disk, and what the path showed before may return.         *)
LEMMA RenameReplaces ==
    ASSUME Inv, DestInv, Rename
    PROVE  Promise!Next
<1> DEFINE m == sess.meta
           q == sess.meta.path
           new == parts[m].now
<1>1. dest \in [Paths -> Entry] /\ At("rename")
  BY Zenon DEF Inv, TypeOK, Rename
<1>2. /\ m \in Metas /\ q \in Paths
      /\ Len(new) = m.size /\ Crc(new) = m.crc /\ new # NoFile
  BY <1>1, RenamedIsVerified, Zenon
<1>3. VerifiedContent(q, new)
  BY <1>2 DEF VerifiedContent
<1>4. dest' = [dest EXCEPT ![q] = RenamedOver(dest[q], parts[m])]
  BY Zenon DEF Rename
<1>5. /\ RenamedOver(dest[q], parts[m]).now = new
      /\ RenamedOver(dest[q], parts[m]).names = dest[q].names \cup {dest[q].now}
  BY <1>2 DEF RenamedOver, Outcomes, DestInv
<1>6. /\ Visible' = [Visible EXCEPT ![q] = new]
      /\ Fallback' = [Fallback EXCEPT ![q] = Fallback[q] \cup {Visible[q]}]
      /\ Visible'[q] = new
  BY <1>1, <1>2, <1>4, <1>5, Zenon DEF Visible, Fallback
<1>7. VerifiedContent(q, Visible'[q])
  BY <1>3, <1>6
<1>8. Visible' = [Visible EXCEPT ![q] = Visible'[q]]
  BY <1>6, Zenon
<1> QED
  BY <1>2, <1>6, <1>7, <1>8, Zenon DEF Promise!Next, Promise!Replace, Visible, Fallback

(* The fsync of the directories settles the path. *)
LEMMA CommitSettles ==
    ASSUME Inv, Commit
    PROVE  Promise!Next
<1> DEFINE q == sess.meta.path
<1>1. dest \in [Paths -> Entry] /\ At("syncdirs") /\ sess \in Session
  BY DEF Inv, TypeOK, Commit, At
<1>2. q \in Paths
  BY <1>1, MetaAssumption DEF Session
<1>3. dest' = [dest EXCEPT ![q] = NameSynced(dest[q])]
  BY DEF Commit
<1>4. Visible' = Visible /\ Fallback' = [Fallback EXCEPT ![q] = {}]
  BY <1>1, <1>2, <1>3, Zenon DEF Visible, Fallback, NameSynced
<1> QED
  BY <1>2, <1>4, Zenon DEF Promise!Next, Promise!Settle, Visible, Fallback

(* A power failure brings back what may return, and settles every path. *)
LEMMA FailureReturns ==
    ASSUME Inv, DestInv, PowerFailure
    PROVE  Promise!Next
<1>1. TypeOK /\ dest \in [Paths -> Entry]
  BY DEF Inv, TypeOK
<1>2. \A p \in Paths : /\ dest'[p].now \in dest[p].names \cup {dest[p].now}
                       /\ dest'[p].names = {}
  BY <1>1, FailureOfDest DEF DestInv, Outcomes
<1>3. /\ Visible' = [p \in Paths |-> Visible'[p]] /\ Fallback' = [p \in Paths |-> {}]
      /\ \A p \in Paths : Visible'[p] \in Fallback[p] \cup {Visible[p]}
  BY <1>2 DEF Visible, Fallback
<1>4. Promise!PowerFailure
  BY <1>3 DEF Promise!PowerFailure, Visible, Fallback
<1> QED
  BY <1>4 DEF Promise!Next

(* Every step is a step of the abstract specification or changes nothing    *)
(* that it sees.                                                            *)
LEMMA NextPromise == Inv /\ DestInv /\ [Next]_vars => [Promise!Next]_(Promise!vars)
<1> SUFFICES ASSUME Inv, DestInv, [Next]_vars, ~Promise!Next
             PROVE  UNCHANGED Promise!vars
  OBVIOUS
<1>1. dest' = dest
  BY RenameReplaces, CommitSettles, FailureReturns, DestUntouched
<1> QED
  BY <1>1 DEF Promise!vars

(* The upload server, against any peers and whatever fails, does to the     *)
(* final paths nothing but what AtomicUpload allows.                        *)
THEOREM ServerKeepsPromise == Spec => UploadsAreAtomic
<1> QED
  BY InitPromise, NextPromise, InitDestInv, NextDestInv, Invariance, PTL
     DEF Spec, UploadsAreAtomic, Promise!Spec
-----------------------------------------------------------------------------
(* Acknowledged bytes.                                                      *)

(* The first k blocks of an existing file, under a settled name, are the    *)
(* same in every state that a power failure may leave it in.                *)
Kept(entry, k) ==
    /\ Exists(entry) /\ entry.names = {} /\ k <= Len(entry.now)
    /\ \A left \in entry.data : /\ k <= Len(left)
                                /\ \A i \in 1 .. k : left[i] = entry.now[i]

(* fsync keeps them, ... *)
LEMMA KeptSynced ==
    ASSUME NEW entry \in Entry, NEW k \in Nat, Kept(entry, k)
    PROVE  Kept(FileSynced(entry), k) /\ Kept(NameSynced(entry), k)
  BY Zenon DEF Kept, FileSynced, NameSynced, Exists

(* ... a write behind them does, ... *)
LEMMA KeptWritten ==
    ASSUME NEW entry \in Entry, entry.data \subseteq Content, NEW k \in Nat,
           Kept(entry, k), NEW blocks \in Content,
           NEW new \in Content, new = entry.now \o blocks
    PROVE  Kept(Changed(entry, new), k)
<1>1. entry.now \in Content /\ Len(entry.now) \in Nat /\ Len(blocks) \in Nat
  BY DEF Kept, Exists, Entry, Content
<1>2. k <= Len(new) /\ \A i \in 1 .. k : new[i] = entry.now[i]
  <2>1. /\ Len(new) = Len(entry.now) + Len(blocks)
        /\ \A i \in 1 .. Len(entry.now) : new[i] = entry.now[i]
    BY <1>1, ConcatProperties DEF Content
  <2>2. k <= Len(entry.now)
    BY DEF Kept
  <2> QED
    BY <1>1, <2>1, <2>2
<1>3. ASSUME NEW old \in entry.data, NEW left \in Torn(old, new)
      PROVE  k <= Len(left) /\ \A i \in 1 .. k : left[i] = new[i]
  <2>1. old \in Content /\ k <= Len(old) /\ \A i \in 1 .. k : old[i] = new[i]
    BY <1>2 DEF Kept
  <2> QED
    BY <1>2, <2>1, TornKeepsPrefix, Zenon
<1>4. \A left \in entry.data : k <= Len(left) /\ \A i \in 1 .. k : left[i] = new[i]
  BY <1>2 DEF Kept
<1>5. new # NoFile
  BY DiskAssumption, Zenon
<1> QED
  BY <1>2, <1>3, <1>4, <1>5 DEF Kept, Changed, Exists

(* ... and so does a power failure. *)
LEMMA KeptStored ==
    ASSUME NEW entry \in Entry, entry.data \subseteq Content, NEW k \in Nat,
           Kept(entry, k), NEW content,
           content = entry.now \/ content \in Outcomes(entry)
    PROVE  Kept(Stored(content), k)
<1>1. k <= Len(content) /\ content # NoFile
  BY DiskAssumption, Zenon DEF Kept, Outcomes, Exists
<1> QED
  BY <1>1 DEF Kept, Stored, Exists

(* What has been acknowledged is kept, and what is about to be acknowledged *)
(* is on the disk in full.                                                  *)
AckedInv ==
    /\ \A m \in Metas : acked[m] # 0 => Kept(parts[m], acked[m])
    /\ At("ack") => /\ parts[sess.meta].data = {parts[sess.meta].now}
                    /\ parts[sess.meta].names = {}

(* The steps of a session that leave the partials and the acknowledgments   *)
(* as they are, and those that let go of one partial.                       *)
LEMMA AckedUntouched ==
    ASSUME AckedInv, UNCHANGED <<parts, acked>>, ~At("ack")' \/ UNCHANGED sess
    PROVE  AckedInv'
  BY DEF AckedInv, At

LEMMA AckedReset ==
    ASSUME Inv, AckedInv, NEW m \in Metas, NEW entry,
           parts' = [parts EXCEPT ![m] = entry], acked' = [acked EXCEPT ![m] = 0],
           ~At("ack")'
    PROVE  AckedInv'
<1>1. parts \in [Metas -> Entry] /\ acked \in [Metas -> Nat]
  BY DEF Inv, TypeOK
<1>2. acked'[m] = 0 /\ \A o \in Metas \ {m} : acked'[o] = acked[o] /\ parts'[o] = parts[o]
  BY <1>1
<1>3. \A o \in Metas : acked[o] # 0 => Kept(parts[o], acked[o])
  BY Zenon DEF AckedInv
<1> QED
  BY <1>2, <1>3 DEF AckedInv

(* A partial is replaced by one that keeps its blocks. *)
LEMMA AckedReplaced ==
    ASSUME Inv, AckedInv, NEW m \in Metas, NEW entry,
           acked[m] # 0 => Kept(entry, acked[m]),
           parts' = [parts EXCEPT ![m] = entry], acked' = acked, ~At("ack")'
    PROVE  AckedInv'
<1>1. parts \in [Metas -> Entry]
  BY DEF Inv, TypeOK
<1>2. parts'[m] = entry /\ \A o \in Metas \ {m} : parts'[o] = parts[o]
  BY <1>1
<1>3. \A o \in Metas : acked[o] # 0 => Kept(parts[o], acked[o])
  BY DEF AckedInv
<1> QED
  BY <1>2, <1>3 DEF AckedInv

(* Opening a partial changes nothing of one that has acknowledged blocks,   *)
(* and one that is too long is truncated and starts over.                   *)
LEMMA AckedOpen ==
    ASSUME Inv, AckedInv, NEW c \in Conns, RejectOpened(c) \/ OpenPartial(c)
    PROVE  AckedInv'
<1> DEFINE m == Head(c2s[c]).meta
<1>1. TypeOK /\ acked \in [Metas -> Nat]
  BY DEF Inv, TypeOK
<1>2. m \in Metas
  <2>1. Dispatched(c)
    BY Zenon DEF RejectOpened, OpenPartial
  <2>2. HasFrame(c2s, c) /\ Head(c2s[c]).type = "UploadRequest"
    BY <2>1 DEF Dispatched
  <2>3. Head(c2s[c]) \in ClientFrame
    BY <1>1, <2>2, QueueTypes
  <2> QED
    BY <2>2, <2>3, FrameTypes
<1>3. ~At("ack")'
  <2>1. CASE RejectOpened(c)
    BY <2>1, Zenon DEF RejectOpened, Dispatched, At
  <2>2. CASE OpenPartial(c)
    <3>1. sess'.pc = "ready"
      BY <2>2, Zenon DEF OpenPartial
    <3> QED
      BY <3>1, ZenonT(30) DEF At
  <2> QED
    BY <2>1, <2>2
<1> DEFINE opened == OpenedOrCreated(parts[m])
           held == IF Len(opened.now) > m.size THEN Changed(opened, << >>) ELSE opened
<1> HIDE DEF m, held
<1>4. acked[m] # 0 => Kept(opened, acked[m])
  <2>1. acked[m] # 0 => Kept(parts[m], acked[m])
    BY <1>2 DEF AckedInv
  <2> QED
    BY <2>1 DEF Kept, OpenedOrCreated
<1> HIDE DEF opened
<1>5. CASE RejectOpened(c)
  <2>1. parts' = [parts EXCEPT ![m] = opened] /\ acked' = acked
    BY <1>5 DEF RejectOpened, opened, m
  <2> QED
    BY <1>2, <1>4, <1>3, <2>1, AckedReplaced, Zenon
<1>6. CASE OpenPartial(c)
  <2>1. /\ parts' = [parts EXCEPT ![m] = held]
        /\ acked' = [acked EXCEPT ![m] = IF held = opened THEN acked[m] ELSE 0]
    BY <1>6, Zenon DEF OpenPartial, held, opened, m
  <2>2. CASE held = opened
    <3>1. parts' = [parts EXCEPT ![m] = opened] /\ acked' = acked
      BY <1>1, <2>1, <2>2
    <3> QED
      BY <1>2, <1>4, <1>3, <3>1, AckedReplaced, Zenon
  <2>3. CASE held # opened
    <3>1. acked' = [acked EXCEPT ![m] = 0]
      BY <2>1, <2>3
    <3> QED
      BY <1>2, <1>3, <2>1, <3>1, AckedReset, Zenon
  <2> QED
    BY <2>2, <2>3, ZenonT(30)
<1> QED
  BY <1>5, <1>6

(* A session that ends before the commit keeps the partial, synchronised,   *)
(* or lets go of it.                                                        *)
LEMMA AckedEnd ==
    ASSUME Inv, AckedInv,
           \/ SendReadyFails \/ RejectFrame \/ DiscardMalformed \/ RecvInterrupted
           \/ StoreFails \/ SendAckFails \/ RenameFails
    PROVE  AckedInv'
<1> DEFINE m == sess.meta
           entry == parts[m]
<1>1. sess # NoSession /\ sess.pc # "syncdirs"
  BY DEF SendReadyFails, RejectFrame, DiscardMalformed, RecvInterrupted, StoreFails,
         SendAckFails, RenameFails, Receiving, At
<1>2. m \in Metas /\ entry \in Entry /\ acked[m] \in Nat
  BY <1>1, SessionPartial, ZenonT(30) DEF Inv, TypeOK
<1>3. ~At("ack")'
  BY Zenon DEF SendReadyFails, RejectFrame, DiscardMalformed, RecvInterrupted, StoreFails,
         SendAckFails, RenameFails, RejectTransfer, Interrupted, Return, At
<1>4. \/ Cleanup(entry) \/ Cleanup(Changed(entry, << >>))
      \/ parts' = [parts EXCEPT ![m] = FileSynced(entry)] /\ acked' = acked
  BY Zenon DEF SendReadyFails, RejectFrame, DiscardMalformed, RecvInterrupted, StoreFails,
         SendAckFails, RenameFails, RejectTransfer, Interrupted
<1>5. CASE parts' = [parts EXCEPT ![m] = FileSynced(entry)] /\ acked' = acked
  <2>1. acked[m] # 0 => Kept(FileSynced(entry), acked[m])
    BY <1>2, KeptSynced DEF AckedInv
  <2> QED
    BY <1>2, <1>3, <1>5, <2>1, AckedReplaced, Zenon
<1>6. ASSUME NEW e, Cleanup(e)
      PROVE  AckedInv'
  <2>1. /\ acked' = [acked EXCEPT ![m] = 0]
        /\ \E x : parts' = [parts EXCEPT ![m] = x]
    BY <1>6 DEF Cleanup
  <2> QED
    BY <1>2, <1>3, <2>1, AckedReset, Zenon
<1> QED
  BY <1>4, <1>5, <1>6, Zenon

(* A chunk is taken in: only a restart touches the partial. *)
LEMMA AckedAccept ==
    ASSUME Inv, AckedInv, AcceptChunk
    PROVE  AckedInv'
<1> DEFINE m == sess.meta
           restarts == Restarts(Incoming)
<1>1. /\ m \in Metas /\ sess \in Session
      /\ parts \in [Metas -> Entry] /\ acked \in [Metas -> Nat]
  BY SessionPartial DEF AcceptChunk, Receiving, At, Inv, TypeOK
<1>2. /\ parts' = [parts EXCEPT ![m] = IF restarts THEN Changed(parts[m], << >>) ELSE parts[m]]
      /\ acked' = [acked EXCEPT ![m] = IF restarts THEN 0 ELSE acked[m]]
  BY <1>1 DEF AcceptChunk
<1>3. ~At("ack")'
  BY <1>1 DEF AcceptChunk, At, Session
<1> HIDE DEF restarts
<1>4. CASE restarts
  BY <1>1, <1>2, <1>3, <1>4, AckedReset, Zenon
<1>5. CASE ~restarts
  <2>1. UNCHANGED <<parts, acked>>
    BY <1>1, <1>2, <1>5
  <2> QED
    BY <1>3, <2>1, AckedUntouched
<1> QED
  BY <1>4, <1>5

(* A write lands behind everything that was acknowledged. *)
LEMMA AckedWrite ==
    ASSUME Inv, AckedInv, NEW n \in 1 .. ChunkSize, WriteBlocks(n)
    PROVE  AckedInv'
<1> DEFINE m == sess.meta
           entry == parts[m]
           blocks == SubSeq(sess.chunk, sess.written + 1, sess.written + n)
           data == WriteAt(entry.now, sess.position, blocks)
<1> HIDE DEF data
<1>1. sess # NoSession /\ sess.pc = "write"
  BY Zenon DEF WriteBlocks, At
<1>2. /\ sess \in Session /\ m \in Metas /\ acked[m] \in Nat
      /\ entry \in Entry /\ entry.now \in Content /\ entry.data \subseteq Content
  BY <1>1, SessionPartial, Zenon DEF Inv, TypeOK
<1>3. sess.position = Len(entry.now)
  BY <1>1 DEF Inv, ChecksumDescribesPartial
<1>4. blocks \in Content
  <2>1. /\ sess.chunk \in Seq(Block) /\ sess.written \in Nat /\ n \in Nat
    BY <1>2, LimitAssumption DEF Session, Content
  <2>2. n <= Len(sess.chunk) - sess.written
    BY DEF WriteBlocks
  <2> QED
    BY <2>1, <2>2 DEF Content
<1>5. /\ parts' = [parts EXCEPT ![m] = Changed(entry, data)] /\ acked' = acked
      /\ sess'.pc = "sync" \/ sess'.pc = "write"
  BY <1>2 DEF WriteBlocks, Session, data
<1> HIDE DEF blocks
<1>6. data = entry.now \o blocks /\ data \in Content
  <2>1. entry.now \o blocks \in Content
    BY <1>2, <1>4 DEF Content
  <2> QED
    BY <1>2, <1>3, <1>4, <2>1, WriteAtEnd, Zenon DEF data
<1>7. acked[m] # 0 => Kept(Changed(entry, data), acked[m])
  <2>1. acked[m] # 0 => Kept(entry, acked[m])
    BY <1>2 DEF AckedInv
  <2> QED
    BY <1>2, <1>4, <1>6, <2>1, KeptWritten, Zenon
<1>8. ~At("ack")'
  BY <1>5 DEF At
<1> QED
  BY <1>2, <1>5, <1>7, <1>8, AckedReplaced, Zenon

(* fsync of the partial and of its directory, before the acknowledgment. *)
LEMMA AckedSync ==
    ASSUME Inv, AckedInv, SyncChunk
    PROVE  AckedInv'
<1> DEFINE m == sess.meta
           entry == parts[m]
<1>1. sess # NoSession /\ sess.pc = "sync"
  BY Zenon DEF SyncChunk, At
<1>2. /\ sess \in Session /\ m \in Metas /\ entry \in Entry
      /\ parts \in [Metas -> Entry] /\ acked \in [Metas -> Nat]
  BY <1>1, SessionPartial DEF Inv, TypeOK
<1>3. /\ parts' = [x \in Metas |-> NameSynced(IF x = m THEN FileSynced(entry) ELSE parts[x])]
      /\ acked' = acked /\ sess' = [sess EXCEPT !.pc = "ack"]
  BY <1>2 DEF SyncChunk, DirectorySynced
<1>4. ASSUME NEW o \in Metas, acked[o] # 0
      PROVE  Kept(parts'[o], acked[o])
  <2>1. Kept(parts[o], acked[o]) /\ parts[o] \in Entry /\ acked[o] \in Nat
    BY <1>2, <1>4, Zenon DEF AckedInv
  <2>2. Kept(FileSynced(parts[o]), acked[o]) /\ Kept(NameSynced(parts[o]), acked[o])
    BY <2>1, KeptSynced, Zenon
  <2>3. FileSynced(parts[o]) \in Entry
    BY <2>1 DEF FileSynced, Entry
  <2>4. Kept(NameSynced(FileSynced(parts[o])), acked[o])
    BY <2>1, <2>2, <2>3, KeptSynced
  <2> QED
    BY <1>3, <2>2, <2>4, Zenon
<1>5. sess'.meta = m /\ parts'[m].data = {parts'[m].now} /\ parts'[m].names = {}
  BY <1>2, <1>3 DEF NameSynced, FileSynced, Session
<1> QED
  BY <1>3, <1>4, <1>5 DEF AckedInv

(* The acknowledgment itself covers what has just been synchronised. *)
LEMMA AckedSend ==
    ASSUME Inv, AckedInv, SendAck
    PROVE  AckedInv'
<1> DEFINE m == sess.meta
           entry == parts[m]
<1>1. sess # NoSession /\ sess.pc = "ack"
  BY Zenon DEF SendAck, At
<1>2. /\ sess \in Session /\ m \in Metas /\ entry.now \in Content /\ Exists(entry)
      /\ acked \in [Metas -> Nat]
  BY <1>1, SessionPartial DEF Inv, TypeOK
<1>3. /\ parts' = parts /\ acked' = [acked EXCEPT ![m] = sess.offset]
      /\ sess' = [sess EXCEPT !.pc = "loop", !.chunk = << >>, !.written = 0]
  BY DEF SendAck
<1>4. sess.offset = Len(entry.now)
  <2>1. entry.now = sess.checksum \o << >> /\ sess.offset = Len(sess.checksum)
    BY <1>1 DEF Inv, ChecksumDescribesPartial, Landed, At
  <2>2. sess.checksum \o << >> = sess.checksum
    BY <1>2, ConcatEmptySeq, Zenon DEF Session, Content
  <2> QED
    BY <2>1, <2>2
<1>5. Kept(entry, sess.offset)
  <2>1. entry.data = {entry.now} /\ entry.names = {}
    BY <1>1 DEF AckedInv, At
  <2>2. sess.offset <= Len(entry.now)
    BY <1>2, <1>4 DEF Content
  <2> QED
    BY <1>2, <2>1, <2>2 DEF Kept
<1>6. ASSUME NEW o \in Metas, acked'[o] # 0
      PROVE  Kept(parts[o], acked'[o])
  BY <1>2, <1>3, <1>5, <1>6 DEF AckedInv
<1>7. ~At("ack")'
  BY <1>2, <1>3 DEF At, Session
<1> QED
  BY <1>3, <1>6, <1>7 DEF AckedInv

(* Verification synchronises the partial once more, and the commit lets go  *)
(* of it.                                                                   *)
LEMMA AckedCommit ==
    ASSUME Inv, AckedInv, Verify \/ Rename \/ Commit \/ SyncDirsFails
    PROVE  AckedInv'
<1> DEFINE m == sess.meta
           entry == parts[m]
<1>1. /\ sess # NoSession /\ sess \in Session /\ m \in Metas
      /\ parts \in [Metas -> Entry] /\ acked \in [Metas -> Nat]
  BY DEF Verify, Rename, Commit, SyncDirsFails, Receiving, At, Inv, TypeOK, Session
<1>2. ~At("ack")'
  BY <1>1 DEF Verify, Rename, Commit, SyncDirsFails, Return, At, Session
<1>3. CASE Verify
  <2>1. parts' = [parts EXCEPT ![m] = FileSynced(entry)] /\ acked' = acked
    BY <1>3, Zenon DEF Verify
  <2>2. acked[m] # 0 => Kept(FileSynced(entry), acked[m])
    BY <1>1, KeptSynced DEF AckedInv
  <2> QED
    BY <1>1, <1>2, <2>1, <2>2, AckedReplaced, Zenon
<1>4. CASE Rename
  <2>1. parts' = [parts EXCEPT ![m] = Unlinked(entry)] /\ acked' = [acked EXCEPT ![m] = 0]
    BY <1>4, Zenon DEF Rename
  <2> QED
    BY <1>1, <1>2, <2>1, AckedReset, Zenon
<1>5. CASE Commit
  <2>1. parts' = [o \in Metas |-> NameSynced(parts[o])] /\ acked' = acked
    BY <1>5, Zenon DEF Commit, DirectorySynced
  <2>2. ASSUME NEW o \in Metas, acked[o] # 0
        PROVE  Kept(NameSynced(parts[o]), acked[o])
    BY <1>1, <2>2, KeptSynced, Zenon DEF AckedInv
  <2> QED
    BY <1>2, <2>1, <2>2 DEF AckedInv
<1>6. CASE SyncDirsFails
  BY <1>2, <1>6, AckedUntouched DEF SyncDirsFails
<1> QED
  BY <1>3, <1>4, <1>5, <1>6

(* Neither the death of the process nor a power failure loses them. *)
LEMMA AckedCrash ==
    ASSUME Inv, AckedInv, KillServer \/ PowerFailure
    PROVE  AckedInv'
<1>1. ~At("ack")' /\ acked' = acked
  BY DEF KillServer, PowerFailure, ProcessLost, At
<1>2. CASE KillServer
  BY <1>1, <1>2, AckedUntouched, Zenon DEF KillServer
<1>3. CASE PowerFailure
  <2>1. parts \in [Metas -> Entry] /\ parts' \in AfterPowerFailure(parts)
    BY <1>3 DEF PowerFailure, Inv, TypeOK
  <2>2. \A o \in Metas : \E content \in Content \cup {NoFile} :
           /\ parts'[o] = Stored(content)
           /\ content = parts[o].now \/ content \in Outcomes(parts[o])
    <3>1. MayBeLeft(Metas, parts, parts')
      BY <2>1, AfterFailure, Zenon
    <3> QED
      BY <3>1, Zenon DEF MayBeLeft
  <2>3. ASSUME NEW o \in Metas, acked[o] # 0
        PROVE  Kept(parts'[o], acked[o])
    <3>1. /\ Kept(parts[o], acked[o]) /\ parts[o] \in Entry /\ acked[o] \in Nat
          /\ parts[o].data \subseteq Content
      BY <2>1, <2>3, Zenon DEF AckedInv, Kept, Inv, TypeOK, PartialsAreFiles
    <3>2. PICK content \in Content \cup {NoFile} :
             /\ parts'[o] = Stored(content)
             /\ content = parts[o].now \/ content \in Outcomes(parts[o])
      BY <2>2
    <3> QED
      BY <3>1, <3>2, KeptStored, Zenon
  <2> QED
    BY <1>1, <2>3 DEF AckedInv
<1> QED
  BY <1>2, <1>3, Zenon

(* No step of the server, of its peers or of its environment loses them. *)
LEMMA NextAcked == Inv /\ AckedInv /\ [Next]_vars => AckedInv'
<1> SUFFICES ASSUME Inv, AckedInv, [Next]_vars PROVE AckedInv'
  OBVIOUS
<1>1. CASE UNCHANGED vars
  BY <1>1, AckedUntouched, ZenonT(30) DEF vars
<1>2. CASE \E c \in Conns :
              \/ RefuseFirstFrame(c) \/ RejectRequest(c) \/ CloseServed(c)
              \/ PeerConnects(c) \/ PeerSends(c) \/ ConnectionBreaks(c)
  BY <1>2, AckedUntouched, Zenon
     DEF RefuseFirstFrame, RejectRequest, CloseServed, PeerConnects, PeerSends,
         ConnectionBreaks, serverVars
<1>3. CASE \E c \in Conns : RejectOpened(c) \/ OpenPartial(c)
  BY <1>3, AckedOpen
<1>4. CASE \/ SendReadyFails \/ RejectFrame \/ DiscardMalformed \/ RecvInterrupted
           \/ StoreFails \/ SendAckFails \/ RenameFails
  BY <1>4, AckedEnd
<1>5. CASE SendReady
  <2>1. UNCHANGED <<parts, acked>> /\ sess' = [sess EXCEPT !.pc = "loop"] /\ sess \in Session
    BY <1>5 DEF SendReady, At, Inv, TypeOK
  <2>2. ~At("ack")'
    BY <2>1 DEF At, Session
  <2> QED
    BY <2>1, <2>2, AckedUntouched
<1>6. CASE AcceptChunk
  BY <1>6, AckedAccept
<1>7. CASE \E n \in 1 .. ChunkSize : WriteBlocks(n)
  BY <1>7, AckedWrite
<1>8. CASE SyncChunk
  BY <1>8, AckedSync
<1>9. CASE SendAck
  BY <1>9, AckedSend
<1>10. CASE Verify \/ Rename \/ Commit \/ SyncDirsFails
  BY <1>10, AckedCommit
<1>11. CASE KillServer \/ PowerFailure
  BY <1>11, AckedCrash
<1> QED
  BY <1>1, <1>2, <1>3, <1>4, <1>5, <1>6, <1>7, <1>8, <1>9, <1>10, <1>11, ZenonT(30)
     DEF Next, ServerStep, TransferStep

(* Two files that agree on their first k blocks have the same prefix. *)
LEMMA SamePrefix ==
    ASSUME NEW a \in Content, NEW b \in Content, NEW k \in Nat,
           k <= Len(a), k <= Len(b), \A i \in 1 .. k : a[i] = b[i]
    PROVE  SubSeq(a, 1, k) = SubSeq(b, 1, k)
<1>1. ASSUME NEW s \in Content, k <= Len(s)
      PROVE  SubSeq(s, 1, k) = [i \in 1 .. k |-> s[i]]
  BY <1>1, LenProperties DEF Content
<1> QED
  BY <1>1

(* Every byte that receive_file has acknowledged, of a partial that was not *)
(* given up since, survives a power failure at any moment: for all files,   *)
(* chunkings, short writes, restarts, interruptions and repeated failures.  *)
THEOREM AcknowledgedSurvives == Spec => []AcknowledgedIsDurable
<1>1. Init => AckedInv
  BY DEF Init, ServerInit, AckedInv, At
<1>2. Inv /\ AckedInv => AcknowledgedIsDurable
  <2> SUFFICES ASSUME Inv, AckedInv, NEW m \in Metas, acked[m] # 0,
                      NEW left \in Outcomes(parts[m])
               PROVE  /\ left # NoFile /\ acked[m] <= Len(left)
                      /\ SubSeq(left, 1, acked[m]) = SubSeq(parts[m].now, 1, acked[m])
    BY ZenonT(30) DEF AcknowledgedIsDurable
  <2>1. Kept(parts[m], acked[m]) /\ parts[m] \in Entry /\ acked[m] \in Nat
    BY Zenon DEF AckedInv, Inv, TypeOK
  <2>2. parts[m].now \in Content /\ left \in parts[m].data /\ left \in Content
    BY <2>1, Zenon DEF Kept, Exists, Entry, Outcomes, Inv, PartialsAreFiles
  <2>3. /\ acked[m] <= Len(left) /\ acked[m] <= Len(parts[m].now)
        /\ \A i \in 1 .. acked[m] : left[i] = parts[m].now[i]
    BY <2>1, <2>2 DEF Kept
  <2>4. SubSeq(left, 1, acked[m]) = SubSeq(parts[m].now, 1, acked[m])
    BY <2>1, <2>2, <2>3, SamePrefix, ZenonT(30)
  <2> QED
    BY <2>2, <2>3, <2>4, DiskAssumption, Zenon
<1> QED
  BY <1>1, <1>2, NextAcked, Invariance, PTL DEF Spec
-----------------------------------------------------------------------------
(* The budget of the partial directory.                                     *)

(* While a session runs, no partial but its own changes its content. *)
LEMMA OthersUntouched ==
    ASSUME Inv, [Next]_vars, sess' # NoSession, ~\E c \in Conns : OpenPartial(c)
    PROVE  /\ sess # NoSession /\ sess.meta \in Metas /\ sess'.meta = sess.meta
           /\ \A o \in Metas \ {sess.meta} : parts'[o].now = parts[o].now
<1>1. parts \in [Metas -> Entry] /\ (sess # NoSession => sess \in Session /\ sess.meta \in Metas)
  BY DEF Inv, TypeOK, Session
<1>2. CASE UNCHANGED vars
  BY <1>1, <1>2 DEF vars
<1>3. CASE \E c \in Conns :
              \/ RefuseFirstFrame(c) \/ RejectRequest(c) \/ CloseServed(c)
              \/ PeerConnects(c) \/ PeerSends(c) \/ ConnectionBreaks(c)
  <2>1. UNCHANGED <<sess, parts>>
    BY <1>3 DEF RefuseFirstFrame, RejectRequest, CloseServed, PeerConnects, PeerSends,
                ConnectionBreaks, serverVars
  <2> QED
    BY <1>1, <2>1, Zenon
<1>4. CASE \E c \in Conns : RejectOpened(c)
  <2>1. PICK c \in Conns : RejectOpened(c)
    BY <1>4
  <2>2. Dispatched(c) /\ sess' = sess
    BY <2>1, ZenonT(30) DEF RejectOpened
  <2> QED
    BY <2>2, Zenon DEF Dispatched
<1>5. CASE \/ SendReadyFails \/ RejectFrame \/ DiscardMalformed \/ RecvInterrupted
           \/ StoreFails \/ SendAckFails \/ RenameFails \/ Commit \/ SyncDirsFails
           \/ KillServer \/ PowerFailure
  BY <1>5, Zenon DEF SendReadyFails, RejectFrame, DiscardMalformed, RecvInterrupted, StoreFails,
              SendAckFails, RenameFails, RejectTransfer, Interrupted, Return,
              Commit, SyncDirsFails, KillServer, PowerFailure, ProcessLost
<1>6. CASE SendReady \/ SendAck
  BY <1>1, <1>6, Zenon DEF SendReady, SendAck, At, Session
<1>7. CASE SyncChunk
  <2>1. /\ sess # NoSession /\ sess' = [sess EXCEPT !.pc = "ack"]
        /\ \A o \in Metas \ {sess.meta} : parts'[o] = NameSynced(parts[o])
    BY <1>1, <1>7 DEF SyncChunk, DirectorySynced, At
  <2>2. sess'.meta = sess.meta
    BY <1>1, <2>1 DEF Session
  <2>3. \A o \in Metas : NameSynced(parts[o]).now = parts[o].now
    BY DEF NameSynced
  <2> QED
    BY <1>1, <2>1, <2>2, <2>3
<1>8. CASE AcceptChunk \/ (\E n \in 1 .. ChunkSize : WriteBlocks(n)) \/ Verify \/ Rename
  <2>1. /\ sess # NoSession /\ sess'.meta = sess.meta
        /\ \E entry : parts' = [parts EXCEPT ![sess.meta] = entry]
    BY <1>1, <1>8, ZenonT(30) DEF AcceptChunk, WriteBlocks, Verify, Rename, Receiving, At, Session
  <2> QED
    BY <1>1, <2>1
<1> QED
  BY <1>2, <1>3, <1>4, <1>5, <1>6, <1>7, <1>8, ZenonT(30) DEF Next, ServerStep, TransferStep

(* The other partials count the same as long as their content is the same. *)
LEMMA SameBudget ==
    ASSUME Inv, NEW m \in Metas, sess' # NoSession, sess'.meta = m,
           WithinPartialBudget(m), \A o \in Metas \ {m} : parts'[o].now = parts[o].now
    PROVE  PartialBudgetKept'
<1> DEFINE others == {o \in Metas \ {m} : Exists(parts[o])}
           left == {o \in Metas \ {m} : Exists(parts'[o])}
<1>1. left = others
  BY Zenon DEF Exists
<1>2. [o \in left |-> Len(parts'[o].now)] = [o \in others |-> Len(parts[o].now)]
  BY <1>1
<1> QED
  BY <1>1, <1>2, Zenon DEF PartialBudgetKept, WithinPartialBudget

(* receive_file checks the budget once, before it opens the partial; it     *)
(* still holds at every later moment of the session, however many partials  *)
(* there are and whatever a crash has brought back.                         *)
THEOREM BudgetKept == Spec => []PartialBudgetKept
<1>1. Init => PartialBudgetKept
  BY DEF Init, ServerInit, PartialBudgetKept
<1>2. Inv /\ PartialBudgetKept /\ [Next]_vars => PartialBudgetKept'
  <2> SUFFICES ASSUME Inv, PartialBudgetKept, [Next]_vars PROVE PartialBudgetKept'
    OBVIOUS
  <2>1. CASE sess' = NoSession
    BY <2>1 DEF PartialBudgetKept
  <2>2. CASE \E c \in Conns : OpenPartial(c)
    <3>1. PICK c \in Conns : OpenPartial(c)
      BY <2>2, Zenon
    <3> DEFINE m == Head(c2s[c]).meta
    <3>2. m \in Metas /\ parts \in [Metas -> Entry]
      <4>1. Dispatched(c)
        BY <3>1, Zenon DEF OpenPartial
      <4>2. HasFrame(c2s, c) /\ Head(c2s[c]).type = "UploadRequest"
        BY <4>1 DEF Dispatched
      <4>3. TypeOK /\ parts \in [Metas -> Entry]
        BY DEF Inv, TypeOK
      <4>4. Head(c2s[c]) \in ClientFrame
        BY <4>2, <4>3, QueueTypes
      <4> QED
        BY <4>2, <4>3, <4>4, FrameTypes
    <3>3. /\ WithinPartialBudget(m) /\ sess'.meta = m
          /\ \E entry : parts' = [parts EXCEPT ![m] = entry]
      BY <3>1, Zenon DEF OpenPartial
    <3>4. \A o \in Metas \ {m} : parts'[o].now = parts[o].now
      BY <3>2, <3>3
    <3> QED
      BY <2>1, <3>2, <3>3, <3>4, SameBudget
  <2>3. CASE sess' # NoSession /\ ~\E c \in Conns : OpenPartial(c)
    <3>1. /\ sess # NoSession /\ sess.meta \in Metas /\ sess'.meta = sess.meta
          /\ \A o \in Metas \ {sess.meta} : parts'[o].now = parts[o].now
      BY <2>3, OthersUntouched, Zenon
    <3>2. WithinPartialBudget(sess.meta)
      BY <3>1 DEF PartialBudgetKept, WithinPartialBudget
    <3> QED
      BY <2>3, <3>1, <3>2, SameBudget, Zenon
  <2> QED
    BY <2>1, <2>2, <2>3
<1> QED
  BY <1>1, <1>2, Invariance, PTL DEF Spec
=============================================================================
