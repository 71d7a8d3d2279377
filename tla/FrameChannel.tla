---------------------------- MODULE FrameChannel ----------------------------
(***************************************************************************)
(* What send_frame and receive_frame promise for one direction of a        *)
(* connection, in the terms of module Wire that the other models are built *)
(* on: whole frames, in order; a connection that ends loses a suffix; and  *)
(* a receiver is told of the end only after it has got all that is left.   *)
(***************************************************************************)
EXTENDS Wire

CONSTANTS Channel,       \* the connection
          AllFrames      \* the frames that may be sent

VARIABLES delivered,     \* frames that the receiver has got, in order
          failed,        \* has the receiver been told of an error?
          mayReject      \* may the receiver reject what is sent?

channelVars == <<link, c2s, s2c, delivered, failed, mayReject>>

Init ==
    /\ link = [c \in Conns |-> "up"]
    /\ c2s = [c \in Conns |-> << >>] /\ s2c = [c \in Conns |-> << >>]
    /\ delivered = << >> /\ failed = FALSE
    /\ mayReject \in BOOLEAN

Send ==
    /\ \E frame \in AllFrames : c2s' = SendOn(c2s, Channel, frame)
    /\ UNCHANGED <<link, s2c, delivered, failed, mayReject>>

(* One frame is taken from the queue, or several that came together. *)
Receive ==
    /\ ~failed
    /\ \E n \in 1 .. Len(c2s[Channel]) :
          /\ delivered' = delivered \o SubSeq(c2s[Channel], 1, n)
          /\ c2s' = [c2s EXCEPT ![Channel] = SubSeq(@, n + 1, Len(@))]
    /\ UNCHANGED <<link, s2c, failed, mayReject>>

(* The receiver learns of the end, or gives up on what it cannot accept. *)
Fail ==
    /\ failed' = TRUE
    /\ \/ RecvFails(c2s, Channel) /\ UNCHANGED <<c2s, delivered>>
       \/ /\ mayReject
          /\ \E n \in 0 .. Len(c2s[Channel]) :
                delivered' = delivered \o SubSeq(c2s[Channel], 1, n)
          /\ c2s' = [c2s EXCEPT ![Channel] = << >>]
    /\ UNCHANGED <<link, s2c, mayReject>>

Finish == ClientEndClosed(Channel) /\ UNCHANGED <<delivered, failed, mayReject>>

Lose == Break(Channel) /\ UNCHANGED <<delivered, failed, mayReject>>

Next == Receive \/ Fail \/ Finish \/ Lose \/ Send

Spec == Init /\ [][Next]_channelVars
=============================================================================
