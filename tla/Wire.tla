-------------------------------- MODULE Wire --------------------------------
(***************************************************************************)
(* The framed transport between a client and the server, as send_frame and *)
(* receive_frame (src/common/frame_io.cpp) offer it: per connection, two   *)
(* FIFO queues of whole frames.  TCP loses a suffix of what is in flight   *)
(* when a connection breaks; a frame of which only a part arrives is       *)
(* reported as PeerClosed or SystemError, so it counts as lost.            *)
(***************************************************************************)
EXTENDS Naturals, Sequences

CONSTANTS Conns      \* identities of the TCP connections ever opened

VARIABLES link,      \* Conns -> "closed" (not opened yet), "up" or "down"
          c2s,       \* Conns -> frames sent by the client, not yet read
          s2c        \* Conns -> frames sent by the server, not yet read

wireVars == <<link, c2s, s2c>>

WireInit ==
    /\ link = [c \in Conns |-> "closed"]
    /\ c2s = [c \in Conns |-> << >>]
    /\ s2c = [c \in Conns |-> << >>]

(***************************************************************************)
(* A connection that has come down still accepts a send into the socket    *)
(* buffer until the error surfaces: the frame is lost either way, and the  *)
(* sender may or may not learn of it (SendFails).                          *)
(***************************************************************************)
SendOn(chan, c, frame) ==
    IF link[c] = "up" THEN [chan EXCEPT ![c] = Append(@, frame)] ELSE chan

SendFails(c) == link[c] = "down"

(* recv_exact reports PeerClosed or SystemError once a dead connection has  *)
(* no buffered frame left.                                                  *)
RecvFails(chan, c) == link[c] = "down" /\ chan[c] = << >>

HasFrame(chan, c) == chan[c] # << >>

Consumed(chan, c) == [chan EXCEPT ![c] = Tail(@)]

(* The connection comes up with empty queues. *)
Opened(c) ==
    /\ link[c] = "closed"
    /\ link' = [link EXCEPT ![c] = "up"]
    /\ UNCHANGED <<c2s, s2c>>

(* TCP delivers a prefix of what was sent. *)
Survivors(sent) == {SubSeq(sent, 1, n) : n \in 0 .. Len(sent)}

(* Closing a descriptor lets the peer read what was sent, unless data was   *)
(* left unread on this side: then the peer gets a reset and may lose some.  *)
Remainder(unread, sent) == IF unread = << >> THEN {sent} ELSE Survivors(sent)

ClientEndClosed(c) ==
    /\ link' = [link EXCEPT ![c] = IF @ = "up" THEN "down" ELSE @]
    /\ IF link[c] = "up"
       THEN \E rest \in Remainder(s2c[c], c2s[c]) : c2s' = [c2s EXCEPT ![c] = rest]
       ELSE UNCHANGED c2s
    /\ s2c' = [s2c EXCEPT ![c] = << >>]

ServerEndClosed(c) ==
    /\ link' = [link EXCEPT ![c] = IF @ = "up" THEN "down" ELSE @]
    /\ IF link[c] = "up"
       THEN \E rest \in Remainder(c2s[c], s2c[c]) : s2c' = [s2c EXCEPT ![c] = rest]
       ELSE UNCHANGED s2c
    /\ c2s' = [c2s EXCEPT ![c] = << >>]

(* The network drops a connection with a suffix of what is in flight. *)
Break(c) ==
    /\ link[c] = "up"
    /\ link' = [link EXCEPT ![c] = "down"]
    /\ \E toServer \in Survivors(c2s[c]), toClient \in Survivors(s2c[c]) :
          /\ c2s' = [c2s EXCEPT ![c] = toServer]
          /\ s2c' = [s2c EXCEPT ![c] = toClient]
=============================================================================
