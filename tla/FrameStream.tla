----------------------------- MODULE FrameStream -----------------------------
(***************************************************************************)
(* Frames on a TCP connection, one direction: send_frame and receive_frame *)
(* (src/common/frame_io.cpp) over the loops of send_all and recv_exact     *)
(* (src/common/socket_io.cpp), which move any number of bytes at a time,   *)
(* the header codec (src/common/codec.cpp), and FrameParser                *)
(* (src/common/frame_parser.cpp), the other way to read such a stream.     *)
(*                                                                         *)
(* A unit of the stream stands for a header field or for a byte of         *)
(* payload; the request and transfer ids are opaque and left out.  The     *)
(* sender is send_frame, or a program of another kind whose stream has     *)
(* headers with wrong fields.                                              *)
(***************************************************************************)
EXTENDS Naturals, Sequences, SequencesExt

CONSTANTS Magic, Version, Types,     \* fields of a valid header
          MaxPayload,                \* largest payload
          MaxBuffer,                 \* max_buffer of FrameParser
          SocketBuffer,              \* bytes that the kernel holds
          Scripts,                   \* what senders may send: sequences of frames
          ReadSizes                  \* sizes of the reads that feed a FrameParser

HeaderSize == 6

ASSUME StreamAssumption ==
    /\ {Magic, Version, MaxPayload, MaxBuffer} \subseteq Nat /\ Types \subseteq Nat
    /\ SocketBuffer \in Nat \ {0} /\ ReadSizes \subseteq Nat \ {0}
    /\ MaxBuffer >= HeaderSize

VARIABLES link,          \* "up" or "down"
          snd,           \* the sender: frames left, buffers of the frame being sent
          flight,        \* bytes sent and not yet received
          reader,        \* "receive_frame" or "FrameParser"
          rcv,           \* receive_frame: the bytes of the frame so far, its stage
          buffer, read_offset,       \* of the FrameParser
          error,         \* status of the reader, "none" before a failure
          delivered,     \* frames that the reader has returned
          arrived,       \* history: bytes that the reader has accepted
          alien, readSize

senderVars == <<snd, alien>>
readerVars == <<reader, rcv, buffer, read_offset, error, delivered, arrived, readSize>>
vars == <<link, snd, flight, reader, rcv, buffer, read_offset, error, delivered, arrived,
          alien, readSize>>
-----------------------------------------------------------------------------
Header(magic, version, type, size, length, flags) ==
    [magic |-> magic, version |-> version, type |-> type, size |-> size, length |-> length,
     flags |-> flags]

EncodeHeader(h) == <<h.magic, h.version, h.type, h.size, h.length, h.flags>>

(* decode_header on at least HeaderSize bytes: its first complaint. *)
HeaderError(bytes) ==
    IF bytes[1] # Magic THEN "InvalidMagic"
    ELSE IF bytes[2] # Version THEN "UnsupportedVersion"
    ELSE IF bytes[3] \notin Types THEN "UnknownMessageType"
    ELSE IF bytes[4] # HeaderSize THEN "InvalidHeaderSize"
    ELSE IF bytes[5] > MaxPayload THEN "PayloadTooLarge"
    ELSE IF bytes[6] # 0 THEN "UnsupportedFlags"
    ELSE "none"

FrameSize(bytes) == HeaderSize + bytes[5]

(* The frame at the start of bytes. *)
DecodedFrame(bytes) ==
    [header  |-> Header(bytes[1], bytes[2], bytes[3], bytes[4], bytes[5], bytes[6]),
     payload |-> SubSeq(bytes, HeaderSize + 1, FrameSize(bytes))]

From(bytes, offset) == SubSeq(bytes, offset + 1, Len(bytes))

(* The reference: how a whole stream of bytes divides into frames, up to    *)
(* the first invalid header or an incomplete frame.                         *)
RECURSIVE FramesIn(_)
FramesIn(bytes) ==
    IF Len(bytes) < HeaderSize THEN [frames |-> << >>, error |-> "none"]
    ELSE IF HeaderError(bytes) # "none" THEN [frames |-> << >>, error |-> HeaderError(bytes)]
    ELSE IF Len(bytes) < FrameSize(bytes) THEN [frames |-> << >>, error |-> "none"]
    ELSE LET rest == FramesIn(From(bytes, FrameSize(bytes)))
         IN  [rest EXCEPT !.frames = <<DecodedFrame(bytes)>> \o @]
-----------------------------------------------------------------------------
(* The sender. *)
Sendable(frame) ==
    /\ Len(frame.payload) = frame.header.length
    /\ HeaderError(EncodeHeader(frame.header)) = "none"

(* send_frame is called with the next frame and refuses it or begins. *)
SendFrame ==
    LET frame == Head(snd.left)
    IN  /\ snd.out = << >> /\ snd.left # << >>
        /\ snd' = IF alien \/ Sendable(frame)
                  THEN [left |-> Tail(snd.left),
                        out  |-> <<EncodeHeader(frame.header), frame.payload>>]
                  ELSE [left |-> << >>, out |-> << >>]
        /\ UNCHANGED <<link, flight, alien>> /\ UNCHANGED readerVars

(* One iteration of send_all: the kernel takes some of the header or of the *)
(* payload, or an empty payload is passed over.                             *)
SendSome ==
    LET bytes == Head(snd.out)
    IN  /\ snd.out # << >> /\ link = "up"
        /\ \E k \in 0 .. Len(bytes) :
              /\ k > 0 \/ bytes = << >>
              /\ Len(flight) + k <= SocketBuffer
              /\ flight' = flight \o SubSeq(bytes, 1, k)
              /\ snd' = [snd EXCEPT !.out = IF k = Len(bytes) THEN Tail(@)
                                            ELSE <<From(bytes, k)>> \o Tail(@)]
        /\ UNCHANGED <<link, alien>> /\ UNCHANGED readerVars

(* send fails: the caller gives up and closes. *)
SendBroken ==
    /\ link = "down" /\ snd.out # << >>
    /\ snd' = [left |-> << >>, out |-> << >>]
    /\ UNCHANGED <<link, flight, alien>> /\ UNCHANGED readerVars

CloseSender ==
    /\ snd.left = << >> /\ snd.out = << >> /\ link = "up"
    /\ link' = "down"
    /\ UNCHANGED <<snd, flight, alien>> /\ UNCHANGED readerVars

(* The network drops the connection with a suffix of what is in flight. *)
Break ==
    /\ link = "up"
    /\ link' = "down"
    /\ flight' \in Prefixes(flight)
    /\ UNCHANGED <<snd, alien>> /\ UNCHANGED readerVars
-----------------------------------------------------------------------------
(* receive_frame.  rcv holds the bytes of the frame so far; need is where   *)
(* the running recv_exact ends.                                             *)
Reading == reader = "receive_frame" /\ error = "none"

Need == IF rcv.stage = "header" THEN HeaderSize ELSE FrameSize(rcv.got)

Take(k) ==
    /\ flight' = From(flight, k)
    /\ arrived' = arrived \o SubSeq(flight, 1, k)
    /\ UNCHANGED <<link, reader, alien, snd, readSize>>

(* One iteration of recv_exact. *)
RecvSome ==
    /\ Reading /\ Len(rcv.got) < Need
    /\ \E k \in 1 .. Len(flight) :
          /\ k <= Need - Len(rcv.got)
          /\ Take(k)
          /\ rcv' = [rcv EXCEPT !.got = @ \o SubSeq(flight, 1, k)]
    /\ UNCHANGED <<buffer, read_offset, error, delivered>>

(* Mutant: the payload is read with at least one recv. *)
HeaderRead_AtLeastOne ==
    /\ Reading /\ rcv.stage = "header" /\ Len(rcv.got) = HeaderSize
    /\ IF HeaderError(rcv.got) = "none"
       THEN /\ flight # << >>
            /\ rcv' = [rcv EXCEPT !.stage = "payload"] /\ UNCHANGED error
       ELSE error' = HeaderError(rcv.got) /\ UNCHANGED rcv
    /\ UNCHANGED <<link, flight, buffer, read_offset, reader, delivered, arrived, readSize>>
    /\ UNCHANGED senderVars

(* The header is complete and is checked before the payload is read. *)
HeaderRead ==
    /\ Reading /\ rcv.stage = "header" /\ Len(rcv.got) = HeaderSize
    /\ IF HeaderError(rcv.got) = "none"
       THEN rcv' = [rcv EXCEPT !.stage = "payload"] /\ UNCHANGED error
       ELSE error' = HeaderError(rcv.got) /\ UNCHANGED rcv
    /\ UNCHANGED <<link, flight, buffer, read_offset, reader, delivered, arrived, readSize>>
    /\ UNCHANGED senderVars

FrameRead ==
    /\ Reading /\ rcv.stage = "payload" /\ Len(rcv.got) = Need
    /\ delivered' = Append(delivered, DecodedFrame(rcv.got))
    /\ rcv' = [stage |-> "header", got |-> << >>]
    /\ UNCHANGED <<link, flight, buffer, read_offset, reader, error, arrived, readSize>>
    /\ UNCHANGED senderVars

(* Mutant: the end of the connection overtakes the bytes before it. *)
RecvBroken_Early ==
    /\ error = "none" /\ link = "down"
    /\ Reading => Len(rcv.got) < Need
    /\ error' = "PeerClosed"
    /\ UNCHANGED <<link, flight, reader, rcv, buffer, read_offset, delivered, arrived, readSize>>
    /\ UNCHANGED senderVars

(* recv reports the end of the connection, to either reader. *)
RecvBroken ==
    /\ error = "none" /\ link = "down" /\ flight = << >>
    /\ Reading => Len(rcv.got) < Need
    /\ error' = "PeerClosed"
    /\ UNCHANGED <<link, flight, reader, rcv, buffer, read_offset, delivered, arrived, readSize>>
    /\ UNCHANGED senderVars
-----------------------------------------------------------------------------
(* FrameParser. *)
BufferedBytes(bytes, offset) == Len(bytes) - offset

(* compact: a prefix that was read is erased when it is half of the buffer. *)
Compacted(bytes, offset) ==
    IF offset = 0 THEN [bytes |-> bytes, offset |-> 0]
    ELSE IF offset = Len(bytes) THEN [bytes |-> << >>, offset |-> 0]
    ELSE IF offset >= Len(bytes) \div 2 THEN [bytes |-> From(bytes, offset), offset |-> 0]
    ELSE [bytes |-> bytes, offset |-> offset]

(* Mutant: an invalid header loses the frames before it. *)
RECURSIVE Parse_LosesFrames(_, _, _)
Parse_LosesFrames(bytes, offset, frames) ==
    LET available == From(bytes, offset)
        stop == [offset |-> offset, frames |-> frames, error |-> "none"]
    IN  IF Len(available) < HeaderSize THEN stop
        ELSE IF HeaderError(available) # "none"
        THEN [stop EXCEPT !.frames = << >>, !.error = HeaderError(available)]
        ELSE IF Len(available) < FrameSize(available) THEN stop
        ELSE Parse_LosesFrames(bytes, offset + FrameSize(available),
                               Append(frames, DecodedFrame(available)))

(* The loop of consume: complete frames are taken off, from offset on. *)
RECURSIVE Parse(_, _, _)
Parse(bytes, offset, frames) ==
    LET available == From(bytes, offset)
        stop(status) == [offset |-> offset, frames |-> frames, error |-> status]
    IN  IF Len(available) < HeaderSize THEN stop("none")
        ELSE IF HeaderError(available) # "none" THEN stop(HeaderError(available))
        ELSE IF Len(available) < FrameSize(available) THEN stop("none")
        ELSE Parse(bytes, offset + FrameSize(available), Append(frames, DecodedFrame(available)))

(* Mutant: the limit is applied to the bytes that were read, too. *)
OverLimit_Whole(before, count) == count > MaxBuffer - Len(before.bytes)

OverLimit(before, count) == count > MaxBuffer - BufferedBytes(before.bytes, before.offset)

(* recv fills a buffer of readSize and consume is called with the result. *)
Consume ==
    LET before == Compacted(buffer, read_offset)
    IN  /\ reader = "FrameParser" /\ error = "none"
        /\ \E k \in 1 .. Len(flight) :
              /\ k <= readSize
              /\ IF OverLimit(before, k)
                 THEN /\ error' = "InputBufferLimitExceeded"
                      /\ buffer' = before.bytes /\ read_offset' = before.offset
                      /\ flight' = From(flight, k)
                      /\ UNCHANGED <<delivered, arrived, link, reader, alien, snd, readSize>>
                 ELSE LET bytes  == before.bytes \o SubSeq(flight, 1, k)
                          parsed == Parse(bytes, before.offset, << >>)
                          after  == Compacted(bytes, parsed.offset)
                      IN  /\ Take(k)
                          /\ delivered' = delivered \o parsed.frames
                          /\ error' = parsed.error
                          /\ IF parsed.error = "none"
                             THEN buffer' = after.bytes /\ read_offset' = after.offset
                             ELSE buffer' = bytes /\ read_offset' = parsed.offset
        /\ UNCHANGED rcv
-----------------------------------------------------------------------------
Init ==
    /\ link = "up" /\ flight = << >>
    /\ \E script \in Scripts : snd = [left |-> script, out |-> << >>]
    /\ alien \in BOOLEAN
    /\ \/ reader = "receive_frame" /\ readSize = 0
       \/ reader = "FrameParser" /\ readSize \in ReadSizes
    /\ rcv = [stage |-> "header", got |-> << >>]
    /\ buffer = << >> /\ read_offset = 0
    /\ error = "none" /\ delivered = << >> /\ arrived = << >>

SenderStep == SendFrame \/ SendSome \/ SendBroken

ReaderStep == RecvSome \/ HeaderRead \/ FrameRead \/ RecvBroken \/ Consume

Next == SenderStep \/ CloseSender \/ Break \/ ReaderStep

Spec == Init /\ [][Next]_vars

(* Both programs run; nobody has to close the connection. *)
FairSpec == Spec /\ WF_vars(SenderStep) /\ WF_vars(ReaderStep)
-----------------------------------------------------------------------------
(* Both readers divide a stream as the reference does, wherever the kernel  *)
(* and the network cut it: the frames, and the first invalid header, depend *)
(* on the bytes alone.                                                      *)
SplitIsIrrelevant ==
    LET reference == FramesIn(arrived)
    IN  /\ IsPrefix(delivered, reference.frames)
        /\ reader = "FrameParser" => delivered = reference.frames
        /\ error \notin {"none", "PeerClosed", "InputBufferLimitExceeded"} =>
              error = reference.error /\ delivered = reference.frames

(* What reader and kernel hold between them. *)
Pending == (IF reader = "FrameParser" THEN From(buffer, read_offset) ELSE rcv.got) \o flight

LargestFrame == HeaderSize + MaxPayload

(* A buffer of two frames of the largest size, the default, is never        *)
(* exceeded by reads of at most one such frame; the memory behind it stays  *)
(* below twice that although what was read is erased only in part, and the  *)
(* offset never runs past it.                                               *)
BufferSuffices ==
    /\ MaxBuffer >= 2 * LargestFrame /\ readSize <= LargestFrame =>
          error # "InputBufferLimitExceeded"
    /\ Len(buffer) < 2 * MaxBuffer /\ read_offset <= Len(buffer)

Channel == INSTANCE FrameChannel WITH
    Conns     <- {"this"},
    Channel   <- "this",
    AllFrames <- UNION {Range(script) : script \in Scripts},
    link      <- [c \in {"this"} |-> link],
    c2s       <- [c \in {"this"} |-> IF error = "none" THEN FramesIn(Pending).frames ELSE << >>],
    s2c       <- [c \in {"this"} |-> << >>],
    failed    <- error # "none",
    mayReject <- alien \/ readSize > LargestFrame

(* The byte stream with its partial sends and receives is the channel of    *)
(* whole frames that module Wire offers to all other models.                *)
StreamIsChannel == Channel!Spec

(* While the connection lasts, all that is sent arrives: neither side waits *)
(* for bytes that will not come.                                            *)
NothingLeftBehind ==
    ~alien /\ [](link = "up" /\ error = "none")
        => <>[](snd.left = << >> /\ snd.out = << >> /\ Pending = << >>)
=============================================================================
