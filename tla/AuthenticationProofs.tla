------------------------ MODULE AuthenticationProofs ------------------------
(***************************************************************************)
(* Both sides agree, for any number of retries, of strangers and of        *)
(* faults, and for whatever other programs send that is not made with a    *)
(* secret: OnlyAuthenticatedServed and ClientTrustsOnlyPeer.  The          *)
(* inductive invariant says which frames can be under way on a connection, *)
(* given how far its session has come.  A second one, RetryInv, shows that *)
(* every retry is paid for by a fault: RetriesOnlyFaults.                  *)
(***************************************************************************)
EXTENDS Authentication, TLAPS

(* Everything that a client can be challenged with. *)
Nonces ==
    {ServerNonce(c) : c \in Conns} \cup {<< >>}
        \cup {frame.payload.nonce : frame \in {f \in Replies : f.type = "AuthChallenge"}}

(* The secrets behind the client end and the server end of a connection. *)
Holder(c) == IF c \in Strangers THEN peer.other ELSE peer.client
Partner(c) == IF c \in foreign THEN peer.other ELSE peer.server

ClientProofs(c) == {ClientProof(Holder(c), n, ClientNonce(c)) : n \in Nonces}

Proving(c) ==
    {MakeAuthFrame("AuthProof", [nonce |-> ClientNonce(c), proof |-> proof]) :
        proof \in ClientProofs(c)}

Ping == Frame("Ping", RequestId, 0, TRUE, NoPayload)

ToServer(c) == Proving(c) \cup (IF c \in Strangers THEN Requests ELSE {Ping})

(* The session has accepted the proof of the client. *)
Passed(c) ==
    ses[c].pc = "first" \/ ses[c].status \in {"Success", "FrameIoError"} \/ c \in Strangers

(* Proofs that the other end may accept, and its answers to them. *)
Acceptable(c) ==
    {proof \in ClientProofs(c) : c \notin foreign => proof.nonces[1] = ServerNonce(c)}

Accepting(c) ==
    {AuthResult(TRUE, ServerProof(Partner(c), proof.nonces[1], ClientNonce(c), proof)) :
        proof \in Acceptable(c)}

Pongs == {Frame("Pong", frame.rid, 0, TRUE, NoPayload) : frame \in Requests \cup {Ping}}

Answers(c) ==
    {MakeAuthFrame("AuthChallenge", [nonce |-> ServerNonce(c)]), AuthResult(FALSE, NoProof)}
        \cup (IF Passed(c) THEN Accepting(c) ELSE {})
        \cup (IF ses[c].status = "Success" THEN Pongs ELSE {})

ToClient(c) == IF c \in foreign THEN Replies \cup Accepting(c) ELSE Answers(c)

IsClient(x) ==
    /\ DOMAIN x = {"pc", "attempt", "challenge", "status"}
    /\ x.attempt \in Attempts /\ x.challenge \in Nonces
    /\ x.status = "Success" => x.pc \in {"close", "done"}

Types ==
    /\ link \in [Conns -> {"closed", "up", "down"}]
    /\ ses \in [Conns -> [pc : {"new", "proof", "first", "over"}, status : Statuses]]
    /\ \A c \in Conns : ses[c].pc = "over" <=> ses[c].status # "none"
    /\ IsClient(cli)
    /\ peer \in [server : {ServerSecret}, client : Secrets, other : Secrets]
    /\ foreign \in SUBSET Attempts

Sent ==
    /\ DOMAIN c2s = Conns
    /\ \A c \in Conns : c2s[c] \in Seq(ToServer(c))

Answered ==
    /\ DOMAIN s2c = Conns
    /\ \A c \in Conns : s2c[c] \in Seq(ToClient(c))

(* The client has not sent its proof on connection c yet. *)
Unproved(c) ==
    c > cli.attempt \/ (c = cli.attempt /\ cli.pc \in {"connect", "challenge", "prove"})

(* One frame of the client at a time, in the order of the protocol. *)
InTurn ==
    \A c \in Attempts \ foreign :
        /\ Unproved(c) => c2s[c] = << >> /\ ses[c].pc # "first"
        /\ ses[c].pc \in {"new", "proof"} => Len(c2s[c]) <= 1
        /\ ses[c].pc = "first" => c2s[c] \in Seq({Ping})

AuthInv ==
    /\ Types
    /\ Sent
    /\ Answered
    /\ InTurn
    /\ OnlyAuthenticatedServed
    /\ ClientTrustsOnlyPeer
-----------------------------------------------------------------------------
(* What is read from a queue, added to it or left of it. *)
LEMMA QueueFacts ==
    ASSUME NEW S, NEW q \in Seq(S)
    PROVE  /\ q # << >> => Head(q) \in S /\ Tail(q) \in Seq(S) /\ Len(Tail(q)) = Len(q) - 1
           /\ \A x \in S : Append(q, x) \in Seq(S) /\ Len(Append(q, x)) = Len(q) + 1
           /\ \A r \in Survivors(q) : r \in Seq(S) /\ Len(r) <= Len(q)
           /\ << >> \in Seq(S) /\ Len(<< >>) = 0
<1>1. ASSUME NEW n \in 0 .. Len(q)
      PROVE  SubSeq(q, 1, n) \in Seq(S) /\ Len(SubSeq(q, 1, n)) <= Len(q)
  OBVIOUS
<1>2. \A r \in Survivors(q) : r \in Seq(S) /\ Len(r) <= Len(q)
  BY <1>1 DEF Survivors
<1>3. q # << >> => Head(q) \in S /\ Tail(q) \in Seq(S) /\ Len(Tail(q)) = Len(q) - 1
  OBVIOUS
<1>4. \A x \in S : Append(q, x) \in Seq(S) /\ Len(Append(q, x)) = Len(q) + 1
  OBVIOUS
<1> QED
  BY <1>2, <1>3, <1>4

LEMMA ShortQueue ==
    ASSUME NEW S, NEW q \in Seq(S), Len(q) = 0
    PROVE  q = << >>
  OBVIOUS

LEMMA LastFrame ==
    ASSUME NEW S, NEW q \in Seq(S), q # << >>, Len(q) <= 1
    PROVE  Tail(q) = << >>
<1>1. PICK t \in Seq(S) : t = Tail(q) /\ Len(t) = Len(q) - 1
  BY QueueFacts, Zenon
<1>2. Len(q) \in Nat /\ Len(t) \in Nat
  OBVIOUS
<1>3. Len(t) = 0
  BY <1>1, <1>2
<1> QED
  BY <1>1, <1>3, ShortQueue

LEMMA WiderQueue ==
    ASSUME NEW S, NEW T, S \subseteq T
    PROVE  Seq(S) \subseteq Seq(T)
  OBVIOUS

(* The frames that may be under way stay so when the session goes on. *)
LEMMA RolesKept ==
    ASSUME UNCHANGED <<peer, foreign>>
    PROVE  \A c \in Conns :
              /\ ToServer(c)' = ToServer(c)
              /\ Accepting(c)' = Accepting(c)
              /\ (Passed(c) => Passed(c)') /\ (ses[c].status = "Success" => ses'[c].status = "Success")
                    => ToClient(c) \subseteq ToClient(c)'
<1>1. \A c \in Conns : Proving(c)' = Proving(c) /\ ClientProofs(c)' = ClientProofs(c)
  BY DEF Proving, ClientProofs, Holder
<1>2. \A c \in Conns : Accepting(c)' = Accepting(c)
  BY <1>1 DEF Accepting, Partner, Acceptable, ServerNonce, ClientNonce, AuthResult,
              MakeAuthFrame, Frame, ServerProof, Proof
<1> QED
  BY <1>1, <1>2, Zenon DEF ToServer, ToClient, Answers

(* The server accepts only a proof that was made with its secret, by the    *)
(* program at the other end of the connection.                              *)
LEMMA ProofChecked ==
    ASSUME AuthInv, NEW c \in Conns, NEW frame \in ToServer(c), IsAuthFrame(frame, "AuthProof"),
           frame.payload.proof = ClientProof(peer.server, ServerNonce(c), frame.payload.nonce)
    PROVE  /\ Holder(c) = peer.server
           /\ frame.payload.nonce = ClientNonce(c)
           /\ frame.payload.proof \in ClientProofs(c)
<1>1. frame.payload.proof.secret = peer.server /\ peer.server # "none"
  BY AuthenticationAssumption DEF AuthInv, Types, ClientProof, Proof
<1>2. frame # Ping
  BY DEF IsAuthFrame, Ping, Frame
<1>3. c \in Strangers => frame \notin Requests \/ frame \in Proving(c)
  BY <1>1, MadeUpAssumption DEF NoProof
<1>4. frame \in Proving(c)
  BY <1>2, <1>3 DEF ToServer
<1>5. PICK proof \in ClientProofs(c) :
          frame = MakeAuthFrame("AuthProof", [nonce |-> ClientNonce(c), proof |-> proof])
  BY <1>4 DEF Proving
<1>6. frame.payload.nonce = ClientNonce(c) /\ frame.payload.proof = proof
  BY <1>5 DEF MakeAuthFrame, Frame
<1>7. proof.secret = Holder(c)
  BY DEF ClientProofs, ClientProof, Proof
<1> QED
  BY <1>1, <1>5, <1>6, <1>7

(* The client accepts only a result that was made with its secret, for the  *)
(* challenge that it has answered.                                          *)
LEMMA ResultChecked ==
    ASSUME AuthInv, NEW frame \in ToClient(Connection), ResultStatus(frame) = "Success"
    PROVE  /\ peer.client = Partner(Connection)
           /\ Connection \notin foreign =>
                 Passed(Connection) /\ cli.challenge = ServerNonce(Connection)
<1> DEFINE c == Connection
<1>1. /\ frame.type = "AuthResult" /\ frame.payload.code = "accepted"
      /\ frame.payload.proof = ServerProof(peer.client, cli.challenge, ClientNonce(c), OwnProof)
  BY DEF ResultStatus
<1>2. frame.payload.proof.secret = peer.client /\ peer.client # "none"
  BY <1>1, AuthenticationAssumption DEF AuthInv, Types, ServerProof, Proof
<1>3. frame \notin Replies
  BY <1>1, <1>2, MadeUpAssumption DEF NoProof
<1>4. frame \notin Pongs /\ frame # AuthResult(FALSE, NoProof)
  BY <1>1 DEF Pongs, AuthResult, MakeAuthFrame, Frame
<1>5. frame # MakeAuthFrame("AuthChallenge", [nonce |-> ServerNonce(c)])
  BY <1>1 DEF MakeAuthFrame, Frame
<1>6. frame \in Accepting(c) /\ (c \notin foreign => Passed(c))
  BY <1>3, <1>4, <1>5, Zenon DEF ToClient, Answers
<1>7. PICK proof \in Acceptable(c) :
          frame = AuthResult(TRUE, ServerProof(Partner(c), proof.nonces[1], ClientNonce(c), proof))
  BY <1>6, Zenon DEF Accepting
<1>8. frame.payload.proof = ServerProof(Partner(c), proof.nonces[1], ClientNonce(c), proof)
  BY <1>7 DEF AuthResult, MakeAuthFrame, Frame
<1>9. /\ frame.payload.proof.secret = Partner(c)
      /\ frame.payload.proof.nonces[1] = proof.nonces[1]
  BY <1>8 DEF ServerProof, Proof
<1>10. frame.payload.proof.nonces[1] = cli.challenge
  BY <1>1 DEF ServerProof, Proof
<1> QED
  BY <1>2, <1>6, <1>9, <1>10, Zenon DEF Acceptable
-----------------------------------------------------------------------------
(* A session goes on to pc, or ends with a status: it may take a frame of   *)
(* the client and may send one that fits its new state.                     *)
LEMMA SessionMoves ==
    ASSUME AuthInv, NEW c \in Conns, c \notin foreign, ses[c].pc # "over",
           NEW pc \in {"proof", "first", "over"}, NEW status \in Statuses,
           pc = "over" <=> status # "none",
           ses' = [ses EXCEPT ![c].pc = pc, ![c].status = status],
           UNCHANGED <<link, cli, peer, foreign>>,
           c2s' = c2s \/ (HasFrame(c2s, c) /\ c2s' = Consumed(c2s, c)),
           s2c' = s2c \/ \E frame \in ToClient(c)' : s2c' = SendOn(s2c, c, frame),
           pc = "first" \/ status \in {"Success", "PingError", "UnsupportedMessage"} =>
               Holder(c) = peer.server,
           c \in Attempts =>
               /\ ses[c].pc = "first" => status \in {"Success", "FrameIoError"}
               /\ pc = "first" => ses[c].pc = "proof" /\ c2s[c] # << >> /\ c2s'[c] = << >>
    PROVE  AuthInv'
<1>1. /\ Types /\ Sent /\ Answered /\ InTurn /\ OnlyAuthenticatedServed
      /\ ClientTrustsOnlyPeer
  BY DEF AuthInv
<1>2. /\ ses'[c].pc = pc /\ ses'[c].status = status
      /\ \A d \in Conns \ {c} : ses'[d] = ses[d]
      /\ ses[c].status = "none"
  BY <1>1 DEF Types
<1>3. Types'
  <2>1. ses' \in [Conns -> [pc : {"new", "proof", "first", "over"}, status : Statuses]]
    <3>1. ses[c] \in [pc : {"new", "proof", "first", "over"}, status : Statuses]
      BY <1>1 DEF Types
    <3>2. [ses[c] EXCEPT !.pc = pc, !.status = status]
              \in [pc : {"new", "proof", "first", "over"}, status : Statuses]
      BY <3>1, Zenon
    <3>3. ses' = [ses EXCEPT ![c] = [ses[c] EXCEPT !.pc = pc, !.status = status]]
      BY <1>1, Zenon DEF Types
    <3> QED
      BY <1>1, <3>2, <3>3 DEF Types
  <2>2. \A d \in Conns : ses'[d].pc = "over" <=> ses'[d].status # "none"
    BY <1>1, <1>2 DEF Types
  <2> QED
    BY <1>1, <2>1, <2>2 DEF Types
<1>4. Sent'
  <2>1. \A d \in Conns : c2s'[d] \in Seq(ToServer(d))
    <3> SUFFICES ASSUME NEW d \in Conns
                 PROVE  c2s'[d] \in Seq(ToServer(d))
      OBVIOUS
    <3>1. c2s[d] \in Seq(ToServer(d))
      BY <1>1 DEF Sent
    <3>2. c2s[d] # << >> => Tail(c2s[d]) \in Seq(ToServer(d))
      BY <3>1, QueueFacts
    <3>3. c2s'[d] = c2s[d] \/ (c2s[d] # << >> /\ c2s'[d] = Tail(c2s[d]))
      BY <1>1 DEF Sent, Consumed, HasFrame
    <3> QED
      BY <3>1, <3>2, <3>3, Zenon
  <2>2. DOMAIN c2s' = Conns
    BY <1>1 DEF Sent, Consumed
  <2> QED
    BY <2>1, <2>2, RolesKept DEF Sent
<1>5. \A d \in Conns : ToClient(d) \subseteq ToClient(d)'
  <2>1. Passed(c) => Passed(c)'
    BY <1>2, AuthenticationAssumption DEF Passed
  <2>2. \A d \in Conns \ {c} : Passed(d) => Passed(d)'
    BY <1>2, Zenon DEF Passed
  <2> QED
    BY <1>2, <2>1, <2>2, RolesKept, Zenon
<1>6. Answered'
  <2>1. \A d \in Conns : s2c[d] \in Seq(ToClient(d)')
    BY <1>1, <1>5, WiderQueue DEF Answered
  <2>2. \A d \in Conns : s2c'[d] \in Seq(ToClient(d)')
    <3> SUFFICES ASSUME NEW d \in Conns
                 PROVE  s2c'[d] \in Seq(ToClient(d)')
      OBVIOUS
    <3>1. \A frame \in ToClient(d)' : Append(s2c[d], frame) \in Seq(ToClient(d)')
      BY <2>1, QueueFacts
    <3>2. s2c'[d] = s2c[d] \/ \E frame \in ToClient(d)' : s2c'[d] = Append(s2c[d], frame)
      BY <1>1, Zenon DEF Answered, SendOn
    <3> QED
      BY <2>1, <3>1, <3>2, Zenon
  <2>3. DOMAIN s2c' = Conns
    BY <1>1 DEF Answered, SendOn
  <2> QED
    BY <2>2, <2>3 DEF Answered
<1>7. InTurn'
  <2> SUFFICES ASSUME NEW d \in Attempts \ foreign
               PROVE  /\ Unproved(d) => c2s'[d] = << >> /\ ses'[d].pc # "first"
                      /\ ses'[d].pc \in {"new", "proof"} => Len(c2s'[d]) <= 1
                      /\ ses'[d].pc = "first" => c2s'[d] \in Seq({Ping})
    BY Zenon DEF InTurn, Unproved, Ping, Frame, NoPayload
  <2>1. d \in Conns /\ c2s[d] \in Seq(ToServer(d))
    BY <1>1, AuthenticationAssumption DEF Sent
  <2>2. CASE d # c
    BY <1>1, <1>2, <2>1, <2>2, Zenon DEF InTurn, Consumed, Sent
  <2>3. CASE d = c
    <3>1. Len(c2s'[c]) <= Len(c2s[c]) /\ (c2s[c] = << >> => c2s'[c] = c2s[c])
      <4>1. c2s'[c] = c2s[c] \/ (c2s[c] # << >> /\ c2s'[c] = Tail(c2s[c]))
        BY <1>1 DEF Sent, Consumed, HasFrame
      <4>2. c2s[c] # << >> => Len(Tail(c2s[c])) = Len(c2s[c]) - 1
        BY <2>1, <2>3, QueueFacts
      <4>3. Len(c2s[c]) \in Nat
        BY <2>1, <2>3
      <4>4. CASE c2s'[c] = c2s[c]
        BY <4>3, <4>4
      <4>5. CASE c2s[c] # << >> /\ c2s'[c] = Tail(c2s[c])
        BY <4>2, <4>3, <4>5
      <4> QED
        BY <4>1, <4>4, <4>5
    <3>2. ses[c].pc \in {"new", "proof", "first"}
      BY <1>1 DEF Types
    <3>3. pc = "proof" /\ c \in Attempts => ses[c].pc \in {"new", "proof"}
      BY <1>2, <3>2
    <3>4. Unproved(c) => c2s'[c] = << >> /\ pc # "first"
      BY <1>1, <2>3, <3>1 DEF InTurn
    <3>5. pc = "proof" => Len(c2s'[c]) <= 1
      <4>1. Len(c2s[c]) \in Nat /\ Len(c2s'[c]) \in Nat
        BY <1>4, <2>1, <2>3 DEF Sent
      <4> QED
        BY <1>1, <2>3, <3>1, <3>3, <4>1 DEF InTurn
    <3>6. pc = "first" => c2s'[c] \in Seq({Ping})
      <4>1. << >> \in Seq({Ping})
        OBVIOUS
      <4> QED
        BY <2>3, <4>1, Zenon
    <3> QED
      BY <1>2, <2>3, <3>4, <3>5, <3>6
  <2> QED
    BY <2>2, <2>3
<1>8. OnlyAuthenticatedServed'
  BY <1>1, <1>2, ZenonT(30) DEF OnlyAuthenticatedServed, Holder
<1>9. ClientTrustsOnlyPeer'
  <2>1. Connection \in Attempts /\ Connection' = Connection
    BY <1>1 DEF Types, IsClient, Connection
  <2>2. CASE Connection # c
    BY <1>1, <1>2, <2>1, <2>2, AuthenticationAssumption, ZenonT(30)
       DEF ClientTrustsOnlyPeer, Connection, ServerNonce
  <2>3. CASE Connection = c
    BY <1>1, <1>2, <2>1, <2>3 DEF ClientTrustsOnlyPeer, Connection, ServerNonce
  <2> QED
    BY <2>2, <2>3
<1> QED
  BY <1>3, <1>4, <1>6, <1>7, <1>8, <1>9 DEF AuthInv

(* Every step of a session that is not the closing of its connection. *)
LEMMA SessionSteps ==
    ASSUME AuthInv, NEW c \in Conns, UNCHANGED <<cli, peer, foreign>>,
           \/ SendChallenge(c) \/ RecvProof(c) \/ RecvFirst(c) \/ RecvInterrupted(c)
           \/ CryptoFails(c)
    PROVE  AuthInv'
<1>1. /\ Types /\ Sent /\ InTurn /\ OnlyAuthenticatedServed
      /\ c \in Attempts => c \notin Strangers
  BY AuthenticationAssumption DEF AuthInv
<1>2. ses[c].pc = "first" => Holder(c) = peer.server
  BY <1>1 DEF OnlyAuthenticatedServed, Holder
<1>3. HasFrame(c2s, c) => Head(c2s[c]) \in ToServer(c)
  BY <1>1, QueueFacts DEF Sent, HasFrame
<1>4. CASE SendChallenge(c)
  <2>1. MakeAuthFrame("AuthChallenge", [nonce |-> ServerNonce(c)]) \in ToClient(c)'
    BY <1>4 DEF SendChallenge, SessionAt, ToClient, Answers
  <2> QED
    BY <1>4, <2>1, SessionMoves, Zenon DEF SendChallenge, SessionAt, Replying, Over, Statuses
<1>5. CASE RecvProof(c)
  <2> DEFINE frame == Head(c2s[c])
             good  == /\ IsAuthFrame(frame, "AuthProof")
                      /\ frame.payload.proof
                           = ClientProof(peer.server, ServerNonce(c), frame.payload.nonce)
             yes   == AuthResult(TRUE, ServerProof(peer.server, ServerNonce(c),
                                                   frame.payload.nonce, frame.payload.proof))
             no    == AuthResult(FALSE, NoProof)
  <2>1. /\ ses[c].pc = "proof" /\ c \notin foreign /\ HasFrame(c2s, c) /\ UNCHANGED link
        /\ c2s' = Consumed(c2s, c)
    BY <1>5 DEF RecvProof, SessionAt
  <2>2. no \in ToClient(c)'
    BY <2>1, SMTT(30) DEF ToClient, Answers
  <2>3. CASE ~good
    <3>1. Replying(c, no, "over", "InvalidProof") \/ Replying(c, no, "over", "Rejected")
      BY <1>5, <2>3, Zenon DEF RecvProof
    <3> QED
      BY <2>1, <2>2, <3>1, SessionMoves, Zenon DEF Replying, Over, Statuses
  <2>4. CASE good
    <3>1. /\ Holder(c) = peer.server
          /\ frame.payload.nonce = ClientNonce(c)
          /\ frame.payload.proof \in ClientProofs(c)
      BY <1>3, <2>1, <2>4, ProofChecked
    <3>2. frame.payload.proof.nonces[1] = ServerNonce(c)
      BY <2>4 DEF ClientProof, Proof
    <3>3. yes \in Accepting(c)
      BY <2>1, <3>1, <3>2, Zenon DEF Accepting, Acceptable, Partner
    <3>4. Replying(c, yes, "first", "none")
      BY <1>5, <2>4, Zenon DEF RecvProof
    <3>5. c \in Attempts => c2s[c] # << >> /\ c2s'[c] = << >>
      <4>1. c2s[c] \in Seq(ToServer(c)) /\ c2s[c] # << >> /\ c2s'[c] = Tail(c2s[c])
        BY <1>1, <2>1 DEF Sent, Consumed, HasFrame
      <4>2. c \in Attempts => Len(c2s[c]) <= 1
        BY <1>1, <2>1 DEF InTurn
      <4> QED
        BY <4>1, <4>2, LastFrame
    <3>6. CASE s2c' = SendOn(s2c, c, yes)
               /\ ses' = [ses EXCEPT ![c].pc = "first", ![c].status = "none"]
      <4>1. yes \in ToClient(c)'
        <5>1. Passed(c)'
          BY <1>1, <3>6 DEF Passed, Types
        <5> QED
          BY <1>5, <2>1, <3>3, <5>1, RolesKept, Zenon DEF ToClient, Answers
      <4> QED
        BY <2>1, <3>1, <3>5, <3>6, <4>1, SessionMoves, Zenon DEF Statuses
    <3>7. CASE UNCHANGED s2c /\ Over(c, "FrameIoError")
      BY <2>1, <3>7, SessionMoves, Zenon DEF Over, Statuses
    <3> QED
      BY <3>4, <3>6, <3>7, Zenon DEF Replying
  <2> QED
    BY <2>3, <2>4
<1>6. CASE RecvFirst(c)
  <2> DEFINE frame == Head(c2s[c])
             pong  == Frame("Pong", frame.rid, 0, TRUE, NoPayload)
  <2>1. /\ ses[c].pc = "first" /\ c \notin foreign /\ HasFrame(c2s, c) /\ UNCHANGED link
        /\ c2s' = Consumed(c2s, c)
    BY <1>6 DEF RecvFirst, SessionAt
  <2>2. c \in Attempts => frame = Ping
    <3>1. c \in Attempts => c2s[c] \in Seq({Ping})
      BY <1>1, <2>1 DEF InTurn
    <3> QED
      BY <2>1, <3>1, QueueFacts DEF HasFrame
  <2>3. c \in Attempts => frame.type = "Ping" /\ ValidateCommon(frame, "Ping") = "Success"
    BY <2>2, AuthenticationAssumption DEF Ping, Frame, ValidateCommon
  <2>4. CASE \E status \in {"UnsupportedMessage", "PingError"} :
                Over(c, status) /\ UNCHANGED s2c /\ c \notin Attempts
    BY <1>2, <2>1, <2>4, SessionMoves, Zenon DEF Over, Statuses
  <2>5. CASE frame.type = "Ping" /\ Replying(c, pong, "over", "Success")
    <3>1. frame \in Requests \cup {Ping}
      <4>1. frame \notin Proving(c)
        BY <2>5 DEF Proving, MakeAuthFrame, Frame
      <4> QED
        BY <1>3, <2>1, <4>1 DEF ToServer
    <3>2. CASE s2c' = SendOn(s2c, c, pong)
               /\ ses' = [ses EXCEPT ![c].pc = "over", ![c].status = "Success"]
      <4>1. ses'[c].status = "Success"
        BY <1>1, <3>2 DEF Types
      <4>2. pong \in Pongs
        BY <3>1, Zenon DEF Pongs
      <4>3. pong \in ToClient(c)'
        BY <2>1, <4>1, <4>2, <1>6, Zenon DEF ToClient, Answers
      <4> QED
        BY <1>2, <2>1, <3>2, <4>3, SessionMoves, Zenon DEF Statuses
    <3>3. CASE UNCHANGED s2c /\ Over(c, "FrameIoError")
      BY <2>1, <3>3, SessionMoves, ZenonT(30) DEF Over, Statuses
    <3> QED
      BY <2>5, <3>2, <3>3, Zenon DEF Replying
  <2> QED
    BY <1>6, <2>3, <2>4, <2>5, Zenon DEF RecvFirst
<1>7. CASE RecvInterrupted(c)
  <2>1. /\ ses[c].pc # "over" /\ c \notin foreign /\ Over(c, "FrameIoError")
        /\ UNCHANGED wireVars
    BY <1>7, SMTT(30) DEF RecvInterrupted, SessionAt
  <2> QED
    BY <2>1, SessionMoves, Zenon DEF Over, wireVars, Statuses
<1>8. CASE CryptoFails(c)
  <2>1. /\ ses[c].pc \in {"new", "proof"} /\ c \notin foreign /\ UNCHANGED <<link, s2c>>
        /\ c2s' = c2s \/ (HasFrame(c2s, c) /\ c2s' = Consumed(c2s, c))
        /\ Over(c, "RandomGenerationError") \/ Over(c, "CryptoError")
    BY <1>8 DEF CryptoFails, SessionAt
  <2> QED
    BY <2>1, SessionMoves, Zenon DEF Over, Statuses
<1> QED
  BY <1>4, <1>5, <1>6, <1>7, <1>8
-----------------------------------------------------------------------------
(* A connection that ends loses frames and never gains one. *)
LEMMA LossKeepsQueues ==
    ASSUME AuthInv, UNCHANGED <<ses, peer, foreign>>,
           DOMAIN c2s' = Conns, DOMAIN s2c' = Conns,
           \A d \in Conns : /\ c2s'[d] \in {c2s[d], << >>} \cup Survivors(c2s[d])
                            /\ s2c'[d] \in {s2c[d], << >>} \cup Survivors(s2c[d])
    PROVE  /\ Sent' /\ Answered'
           /\ \A d \in Attempts \ foreign :
                 /\ c2s[d] = << >> => c2s'[d] = << >>
                 /\ ses[d].pc \in {"new", "proof"} => Len(c2s'[d]) <= 1
                 /\ ses[d].pc = "first" => c2s'[d] \in Seq({Ping})
<1>1. Sent /\ Answered /\ InTurn
  BY DEF AuthInv
<1>2. \A d \in Conns : ToServer(d)' = ToServer(d) /\ ToClient(d) \subseteq ToClient(d)'
  BY RolesKept DEF Passed
<1>3. Sent'
  <2>1. ASSUME NEW d \in Conns
        PROVE  c2s'[d] \in Seq(ToServer(d))
    <3>1. c2s[d] \in Seq(ToServer(d))
      BY <1>1 DEF Sent
    <3> QED
      BY <3>1, QueueFacts, Zenon
  <2> QED
    BY <1>2, <2>1 DEF Sent
<1>4. Answered'
  <2>1. ASSUME NEW d \in Conns
        PROVE  s2c'[d] \in Seq(ToClient(d)')
    <3>1. s2c[d] \in Seq(ToClient(d))
      BY <1>1 DEF Answered
    <3>2. s2c'[d] \in Seq(ToClient(d))
      BY <3>1, QueueFacts, Zenon
    <3> QED
      BY <1>2, <3>2, WiderQueue
  <2> QED
    BY <2>1 DEF Answered
<1>5. ASSUME NEW d \in Attempts \ foreign
      PROVE  /\ c2s[d] = << >> => c2s'[d] = << >>
             /\ ses[d].pc \in {"new", "proof"} => Len(c2s'[d]) <= 1
             /\ ses[d].pc = "first" => c2s'[d] \in Seq({Ping})
  <2>1. d \in Conns /\ c2s[d] \in Seq(ToServer(d)) /\ c2s'[d] \in Seq(ToServer(d))
    BY <1>1, <1>2, <1>3, AuthenticationAssumption DEF Sent
  <2>2. Len(c2s[d]) \in Nat /\ Len(c2s'[d]) \in Nat
    BY <2>1
  <2>3. Len(c2s'[d]) <= Len(c2s[d])
    BY <2>1, <2>2, QueueFacts
  <2>4. c2s[d] = << >> => Len(c2s'[d]) = 0
    BY <2>2, <2>3, QueueFacts
  <2>5. c2s[d] = << >> => c2s'[d] = << >>
    BY <2>1, <2>4, ShortQueue
  <2>6. ses[d].pc \in {"new", "proof"} => Len(c2s'[d]) <= 1
    BY <1>1, <2>2, <2>3 DEF InTurn
  <2>7. ses[d].pc = "first" => c2s'[d] \in Seq({Ping})
    BY <1>1, <2>1, QueueFacts DEF InTurn
  <2> QED
    BY <2>5, <2>6, <2>7
<1> QED
  BY <1>3, <1>4, <1>5

(* What happens to the connections, but not to the client and the sessions. *)
LEMMA LossSteps ==
    ASSUME AuthInv, UNCHANGED <<ses, cli, peer, foreign>>,
           \E c \in Conns : Break(c) \/ CloseServed(c) \/ Opened(c)
    PROVE  AuthInv'
<1>1. /\ Types /\ Sent /\ Answered /\ InTurn /\ OnlyAuthenticatedServed
      /\ ClientTrustsOnlyPeer
  BY DEF AuthInv
<1>2. PICK c \in Conns : Break(c) \/ CloseServed(c) \/ Opened(c)
  OBVIOUS
<1>3. link' \in [Conns -> {"closed", "up", "down"}]
  BY <1>1, <1>2 DEF Types, Break, CloseServed, ServerEndClosed, Opened
<1>4. DOMAIN c2s' = Conns /\ DOMAIN s2c' = Conns
  BY <1>1, <1>2 DEF Sent, Answered, Break, CloseServed, ServerEndClosed, Opened
<1>5. \A d \in Conns : /\ c2s'[d] \in {c2s[d], << >>} \cup Survivors(c2s[d])
                       /\ s2c'[d] \in {s2c[d], << >>} \cup Survivors(s2c[d])
  BY <1>1, <1>2
     DEF Sent, Answered, Break, CloseServed, ServerEndClosed, Remainder, Opened
<1>6. /\ Sent' /\ Answered'
      /\ \A d \in Attempts \ foreign :
            /\ c2s[d] = << >> => c2s'[d] = << >>
            /\ ses[d].pc \in {"new", "proof"} => Len(c2s'[d]) <= 1
            /\ ses[d].pc = "first" => c2s'[d] \in Seq({Ping})
  BY <1>4, <1>5, LossKeepsQueues
<1>7. InTurn'
  BY <1>1, <1>6 DEF InTurn, Unproved, Ping, Frame, NoPayload
<1>8. Types' /\ OnlyAuthenticatedServed' /\ ClientTrustsOnlyPeer'
  BY <1>1, <1>3 DEF Types, OnlyAuthenticatedServed, ClientTrustsOnlyPeer, Connection, ServerNonce
<1> QED
  BY <1>6, <1>7, <1>8 DEF AuthInv
-----------------------------------------------------------------------------
(* A frame is taken from or added to the queues at the client end. *)
LEMMA ClientTakes ==
    ASSUME AuthInv, UNCHANGED <<ses, peer, foreign, c2s>>, NEW c \in Conns,
           HasFrame(s2c, c), s2c' = Consumed(s2c, c)
    PROVE  Head(s2c[c]) \in ToClient(c) /\ Sent' /\ Answered'
<1>1. Sent /\ Answered
  BY DEF AuthInv
<1>2. \A d \in Conns : ToServer(d)' = ToServer(d) /\ ToClient(d) \subseteq ToClient(d)'
  BY RolesKept DEF Passed
<1>3. s2c[c] \in Seq(ToClient(c)) /\ s2c[c] # << >>
  BY <1>1 DEF Answered, HasFrame
<1>4. Head(s2c[c]) \in ToClient(c) /\ Tail(s2c[c]) \in Seq(ToClient(c))
  BY <1>3, QueueFacts
<1>5. \A d \in Conns : s2c'[d] \in Seq(ToClient(d))
  <2>1. \A d \in Conns : s2c'[d] = s2c[d] \/ (d = c /\ s2c'[c] = Tail(s2c[c]))
    BY <1>1 DEF Answered, Consumed
  <2> QED
    BY <1>1, <1>4, <2>1, Zenon DEF Answered
<1>6. \A d \in Conns : s2c'[d] \in Seq(ToClient(d)')
  BY <1>2, <1>5, WiderQueue
<1>7. Answered'
  <2>1. DOMAIN s2c' = Conns
    BY <1>1 DEF Answered, Consumed
  <2> QED
    BY <1>6, <2>1 DEF Answered
<1>8. Sent'
  BY <1>1, <1>2 DEF Sent
<1> QED
  BY <1>4, <1>7, <1>8

LEMMA ClientAdds ==
    ASSUME AuthInv, UNCHANGED <<ses, peer, foreign>>, NEW c \in Conns,
           NEW frame \in ToServer(c), c2s' = SendOn(c2s, c, frame),
           s2c' = s2c \/ (HasFrame(s2c, c) /\ s2c' = Consumed(s2c, c))
    PROVE  Sent' /\ Answered'
<1>1. Sent /\ Answered
  BY DEF AuthInv
<1>2. \A d \in Conns : ToServer(d)' = ToServer(d) /\ ToClient(d) \subseteq ToClient(d)'
  BY RolesKept DEF Passed
<1>3. Append(c2s[c], frame) \in Seq(ToServer(c))
  BY <1>1, QueueFacts DEF Sent
<1>4. \A d \in Conns : c2s'[d] \in Seq(ToServer(d))
  <2>1. \A d \in Conns : c2s'[d] = c2s[d] \/ (d = c /\ c2s'[c] = Append(c2s[c], frame))
    BY <1>1 DEF Sent, SendOn
  <2> QED
    BY <1>1, <1>3, <2>1, Zenon DEF Sent
<1>5. Sent'
  <2>1. DOMAIN c2s' = Conns
    BY <1>1 DEF Sent, SendOn
  <2> QED
    BY <1>2, <1>4, <2>1 DEF Sent
<1>6. s2c[c] # << >> => Tail(s2c[c]) \in Seq(ToClient(c))
  BY <1>1, QueueFacts DEF Answered
<1>7. \A d \in Conns : s2c'[d] \in Seq(ToClient(d))
  <2>1. \A d \in Conns :
            s2c'[d] = s2c[d] \/ (d = c /\ s2c[c] # << >> /\ s2c'[c] = Tail(s2c[c]))
    BY <1>1 DEF Answered, Consumed, HasFrame
  <2> QED
    BY <1>1, <1>6, <2>1, Zenon DEF Answered
<1>8. \A d \in Conns : s2c'[d] \in Seq(ToClient(d)')
  BY <1>2, <1>7, WiderQueue
<1>9. DOMAIN s2c' = Conns
  BY <1>1 DEF Answered, Consumed
<1> QED
  BY <1>5, <1>8, <1>9 DEF Answered

(* The client goes on within an attempt, without having sent a frame. *)
LEMMA ClientMoves ==
    ASSUME AuthInv, UNCHANGED <<ses, peer, foreign, c2s>>,
           link' \in [Conns -> {"closed", "up", "down"}],
           s2c' = s2c \/ (HasFrame(s2c, Connection) /\ s2c' = Consumed(s2c, Connection)),
           IsClient(cli'), cli'.attempt = cli.attempt,
           cli'.pc \in {"connect", "challenge", "prove"} =>
               cli.pc \in {"connect", "challenge", "prove"},
           ClientTrustsOnlyPeer'
    PROVE  AuthInv'
<1>1. /\ Types /\ Sent /\ Answered /\ InTurn /\ OnlyAuthenticatedServed
      /\ cli.attempt \in Conns
  BY AuthenticationAssumption DEF AuthInv, Types, IsClient
<1>2. Types'
  <2>1. Nonces' = Nonces /\ Statuses' = Statuses /\ Attempts' = Attempts
    BY DEF Nonces, ServerNonce, Attempts, Statuses
  <2> QED
    BY <1>1, <2>1 DEF Types, IsClient
<1>3. Sent' /\ Answered'
  <2>1. CASE s2c' = s2c
    BY <1>1, <2>1, LossKeepsQueues DEF Sent, Answered
  <2>2. CASE HasFrame(s2c, Connection) /\ s2c' = Consumed(s2c, Connection)
    BY <1>1, <2>2, ClientTakes DEF Connection
  <2> QED
    BY <2>1, <2>2
<1>4. InTurn'
  <2>1. \A d \in Attempts : Unproved(d)' => Unproved(d)
    BY <1>1 DEF Unproved, Types
  <2> QED
    BY <1>1, <2>1 DEF InTurn, Ping, Frame, NoPayload
<1>5. OnlyAuthenticatedServed'
  BY <1>1 DEF OnlyAuthenticatedServed
<1> QED
  BY <1>2, <1>3, <1>4, <1>5 DEF AuthInv

(* A step of the client that ends the attempt without a success. *)
LEMMA ClientEnds ==
    ASSUME AuthInv, UNCHANGED <<link, ses, peer, foreign, c2s>>,
           s2c' = s2c \/ (HasFrame(s2c, Connection) /\ s2c' = Consumed(s2c, Connection)),
           NEW status, status # "Success", Ends(status)
    PROVE  AuthInv'
<1>1. IsClient(cli) /\ link \in [Conns -> {"closed", "up", "down"}]
  BY DEF AuthInv, Types
<1>2. /\ IsClient(cli') /\ cli'.attempt = cli.attempt
      /\ cli'.pc = "close" /\ cli'.status = status
  <2>1. cli' = [cli EXCEPT !.pc = "close", !.status = status]
    BY DEF Ends
  <2>2. cli'.attempt = cli.attempt /\ cli'.pc = "close" /\ cli'.status = status
    BY <1>1, <2>1 DEF IsClient
  <2>3. IsClient(cli')
    BY <1>1, <2>1 DEF IsClient
  <2> QED
    BY <2>2, <2>3
<1>3. ClientTrustsOnlyPeer'
  BY <1>2 DEF ClientTrustsOnlyPeer
<1> QED
  BY <1>1, <1>2, <1>3, ClientMoves

(* The client sends the frame whose turn it is, and waits for the answer. *)
LEMMA ClientRequests ==
    ASSUME AuthInv, UNCHANGED <<link, ses, peer, foreign, s2c>>,
           NEW frame \in ToServer(Connection), NEW pc, Requesting(frame, pc),
           \/ cli.pc = "prove" /\ pc = "result"
           \/ cli.pc = "ping" /\ pc = "pong" /\ frame = Ping
    PROVE  AuthInv'
<1> DEFINE c == Connection
<1>1. /\ Types /\ Sent /\ Answered /\ InTurn /\ OnlyAuthenticatedServed
      /\ ClientTrustsOnlyPeer /\ IsClient(cli)
  BY DEF AuthInv, Types
<1>2. c \in Attempts /\ c \in Conns
  BY <1>1, AuthenticationAssumption DEF IsClient, Connection
<1>3. CASE UNCHANGED c2s /\ Ends("FrameIoError")
  BY <1>3, ClientEnds
<1>4. CASE c2s' = SendOn(c2s, c, frame) /\ cli' = [cli EXCEPT !.pc = pc]
  <2>1. Sent' /\ Answered'
    BY <1>2, <1>4, ClientAdds
  <2>2. /\ IsClient(cli') /\ cli'.attempt = cli.attempt /\ cli'.pc = pc
        /\ cli'.status = cli.status /\ cli'.challenge = cli.challenge
    BY <1>1, <1>4 DEF IsClient
  <2>3. Types'
    <3>1. Nonces' = Nonces /\ Statuses' = Statuses /\ Attempts' = Attempts
      BY DEF Nonces, ServerNonce, Attempts, Statuses
    <3> QED
      BY <1>1, <2>2, <3>1 DEF Types, IsClient
  <2>4. InTurn'
    <3> SUFFICES ASSUME NEW d \in Attempts \ foreign
                 PROVE  /\ Unproved(d)' => c2s'[d] = << >> /\ ses[d].pc # "first"
                        /\ ses[d].pc \in {"new", "proof"} => Len(c2s'[d]) <= 1
                        /\ ses[d].pc = "first" => c2s'[d] \in Seq({Ping})
      BY DEF InTurn, Ping, Frame, NoPayload
    <3>1. d \in Conns /\ c2s[d] \in Seq(ToServer(d))
      BY <1>1, AuthenticationAssumption DEF Sent
    <3>2. (Unproved(d)' => Unproved(d)) /\ (d = c => ~Unproved(d)')
      BY <1>2, <2>2, AuthenticationAssumption DEF Unproved, Connection, Attempts
    <3>3. CASE d # c
      BY <1>1, <1>2, <1>4, <3>1, <3>2, <3>3 DEF InTurn, Sent, SendOn
    <3>4. CASE d = c
      <4>1. c2s'[c] = c2s[c] \/ c2s'[c] = Append(c2s[c], frame)
        BY <1>1, <1>2, <1>4 DEF Sent, SendOn
      <4>2. CASE cli.pc = "prove"
        <5>1. c2s[c] = << >> /\ ses[c].pc # "first"
          BY <1>1, <3>4, <4>2 DEF InTurn, Unproved, Connection
        <5>2. Len(<< >>) = 0 /\ Len(Append(<< >>, frame)) = 1
          OBVIOUS
        <5>3. c2s'[c] = << >> \/ c2s'[c] = Append(<< >>, frame)
          BY <4>1, <5>1
        <5>4. Len(c2s'[c]) <= 1
          <6>1. CASE c2s'[c] = << >>
            BY <5>2, <6>1
          <6>2. CASE c2s'[c] = Append(<< >>, frame)
            BY <5>2, <6>2
          <6> QED
            BY <5>3, <6>1, <6>2
        <5> QED
          BY <3>2, <3>4, <5>1, <5>4
      <4>3. CASE cli.pc = "ping" /\ frame = Ping
        <5>1. ses[c].pc = "first" \/ ses[c].status \in {"Success", "FrameIoError"}
          BY <1>1, <3>4, <4>3 DEF ClientTrustsOnlyPeer
        <5>2. ses[c].pc \notin {"new", "proof"}
          BY <1>1, <1>2, <5>1 DEF Types
        <5>3. ses[c].pc = "first" => c2s[c] \in Seq({Ping})
          BY <1>1, <3>4 DEF InTurn
        <5>4. ses[c].pc = "first" => c2s'[c] \in Seq({Ping})
          BY <4>1, <4>3, <5>3, QueueFacts, Zenon
        <5> QED
          BY <3>2, <3>4, <5>2, <5>4
      <4> QED
        BY <4>2, <4>3
    <3> QED
      BY <3>3, <3>4
  <2>5. ClientTrustsOnlyPeer'
    <3>1. cli'.pc \in {"ping", "pong"} \/ cli'.status = "Success" =>
              cli.pc \in {"ping", "pong"} \/ cli.status = "Success"
      BY <2>2
    <3> QED
      BY <1>1, <2>2, <3>1 DEF ClientTrustsOnlyPeer, Connection, ServerNonce
  <2>6. OnlyAuthenticatedServed'
    BY <1>1 DEF OnlyAuthenticatedServed
  <2> QED
    BY <2>1, <2>3, <2>4, <2>5, <2>6 DEF AuthInv
<1> QED
  BY <1>3, <1>4 DEF Requesting

(* The client reads a frame: a challenge, the result, or the pong. *)
LEMMA ClientReads ==
    ASSUME AuthInv, UNCHANGED <<link, ses, peer, foreign, c2s>>,
           RecvChallenge \/ RecvAuthResult \/ RecvPong
    PROVE  AuthInv'
<1> DEFINE c == Connection
<1>1. /\ Types /\ Sent /\ Answered /\ ClientTrustsOnlyPeer /\ IsClient(cli)
      /\ link \in [Conns -> {"closed", "up", "down"}]
  BY DEF AuthInv, Types
<1>2. c \in Attempts /\ c \in Conns /\ c \notin Strangers
  BY <1>1, AuthenticationAssumption DEF IsClient, Connection
<1>3. HasFrame(s2c, Connection) /\ s2c' = Consumed(s2c, Connection)
  BY DEF RecvChallenge, RecvAuthResult, RecvPong, ClientReceives
<1>4. Response \in ToClient(Connection)
  BY <1>2, <1>3, ClientTakes DEF Response
<1>5. CASE RecvChallenge
  <2>1. CASE ~IsAuthFrame(Response, "AuthChallenge")
    BY <1>3, <1>5, <2>1, ClientEnds DEF RecvChallenge
  <2>2. CASE IsAuthFrame(Response, "AuthChallenge")
    <3>1. Response.type = "AuthChallenge"
      BY <2>2 DEF IsAuthFrame
    <3>2. Response \notin Accepting(c) /\ Response \notin Pongs
          /\ Response # AuthResult(FALSE, NoProof)
      BY <3>1 DEF Accepting, Pongs, AuthResult, MakeAuthFrame, Frame
    <3>3. Response \in Replies \/ Response = MakeAuthFrame("AuthChallenge", [nonce |-> ServerNonce(c)])
      BY <1>4, <3>2, Zenon DEF ToClient, Answers
    <3>4. Response.payload.nonce \in Nonces
      BY <1>2, <3>1, <3>3 DEF Nonces, MakeAuthFrame, Frame
    <3>5. /\ cli.pc = "challenge"
          /\ cli' = [cli EXCEPT !.pc = "prove", !.challenge = Response.payload.nonce]
      BY <1>5, <2>2 DEF RecvChallenge, ClientAt
    <3>6. /\ IsClient(cli') /\ cli'.attempt = cli.attempt /\ cli'.pc = "prove"
          /\ cli'.status # "Success"
      BY <1>1, <3>4, <3>5 DEF IsClient
    <3>7. ClientTrustsOnlyPeer'
      BY <3>6 DEF ClientTrustsOnlyPeer
    <3> QED
      BY <1>1, <1>3, <3>5, <3>6, <3>7, ClientMoves
  <2> QED
    BY <2>1, <2>2
<1>6. CASE RecvAuthResult
  <2>1. CASE ResultStatus(Response) # "Success"
    BY <1>3, <1>6, <2>1, ClientEnds DEF RecvAuthResult
  <2>2. CASE ResultStatus(Response) = "Success"
    <3>1. /\ peer.client = Partner(Connection)
          /\ Connection \notin foreign =>
                Passed(Connection) /\ cli.challenge = ServerNonce(Connection)
      BY <1>4, <2>2, ResultChecked
    <3>2. cli.pc = "result" /\ cli' = [cli EXCEPT !.pc = "ping"]
      BY <1>6, <2>2 DEF RecvAuthResult, ClientAt
    <3>3. /\ IsClient(cli') /\ cli'.attempt = cli.attempt /\ cli'.pc = "ping"
          /\ cli'.status # "Success" /\ cli'.challenge = cli.challenge
      BY <1>1, <3>2 DEF IsClient
    <3>4. ClientTrustsOnlyPeer'
      BY <1>2, <3>1, <3>3
         DEF ClientTrustsOnlyPeer, Passed, Partner, Connection, ServerNonce
    <3> QED
      BY <1>1, <1>3, <3>3, <3>4, ClientMoves
  <2> QED
    BY <2>1, <2>2
<1>7. CASE RecvPong
  <2> DEFINE valid  == ValidateCommon(Response, "Pong")
             status == IF valid = "Success" /\ Response.rid # RequestId
                       THEN "MismatchedRequestId" ELSE valid
  <2>1. cli.pc = "pong" /\ Ends(status)
    BY <1>7 DEF RecvPong, ClientAt
  <2>2. CASE status # "Success"
    BY <1>3, <2>1, <2>2, ClientEnds
  <2>3. CASE status = "Success"
    <3>1. Response.type = "Pong"
      BY <2>3, Zenon DEF ValidateCommon
    <3>2. Response \notin Accepting(c) /\ Response # AuthResult(FALSE, NoProof)
          /\ Response # MakeAuthFrame("AuthChallenge", [nonce |-> ServerNonce(c)])
      BY <3>1 DEF Accepting, AuthResult, MakeAuthFrame, Frame
    <3>3. Connection \notin foreign => ses[Connection].status = "Success"
      BY <1>4, <3>2, Zenon DEF ToClient, Answers
    <3>4. /\ IsClient(cli') /\ cli'.attempt = cli.attempt /\ cli'.pc = "close"
          /\ cli'.status = "Success" /\ cli'.challenge = cli.challenge
      <4>1. cli' = [cli EXCEPT !.pc = "close", !.status = "Success"]
        BY <2>1, <2>3, Zenon DEF Ends
      <4> QED
        BY <1>1, <4>1 DEF IsClient
    <3>5. ClientTrustsOnlyPeer'
      BY <1>1, <2>1, <3>3, <3>4 DEF ClientTrustsOnlyPeer, Connection, ServerNonce
    <3> QED
      BY <1>1, <1>3, <3>4, <3>5, ClientMoves
  <2> QED
    BY <2>2, <2>3
<1> QED
  BY <1>5, <1>6, <1>7

(* The socket is closed; after a transport failure there is a next attempt. *)
LEMMA CloseAttemptStep ==
    ASSUME AuthInv, UNCHANGED <<ses, peer, foreign>>, CloseAttempt
    PROVE  AuthInv'
<1> DEFINE c == Connection
<1>1. /\ Types /\ Sent /\ Answered /\ InTurn /\ OnlyAuthenticatedServed
      /\ ClientTrustsOnlyPeer /\ IsClient(cli)
  BY DEF AuthInv, Types
<1>2. c \in Attempts /\ c \in Conns /\ c = cli.attempt /\ cli.attempt \in Nat
  BY <1>1, AuthenticationAssumption DEF IsClient, Connection, Attempts
<1>3. cli.pc = "close" /\ ClientEndClosed(c)
  BY DEF CloseAttempt, ClientAt
<1>4. link' \in [Conns -> {"closed", "up", "down"}]
  BY <1>1, <1>3, Zenon DEF Types, ClientEndClosed
<1>5. DOMAIN c2s' = Conns /\ DOMAIN s2c' = Conns
  BY <1>1, <1>3 DEF Sent, Answered, ClientEndClosed
<1>6. \A d \in Conns : /\ c2s'[d] \in {c2s[d], << >>} \cup Survivors(c2s[d])
                       /\ s2c'[d] \in {s2c[d], << >>} \cup Survivors(s2c[d])
  BY <1>1, <1>3 DEF Sent, Answered, ClientEndClosed, Remainder
<1>7. /\ Sent' /\ Answered'
      /\ \A d \in Attempts \ foreign :
            /\ c2s[d] = << >> => c2s'[d] = << >>
            /\ ses[d].pc \in {"new", "proof"} => Len(c2s'[d]) <= 1
            /\ ses[d].pc = "first" => c2s'[d] \in Seq({Ping})
  BY <1>5, <1>6, LossKeepsQueues
<1>8. /\ IsClient(cli')
      /\ \A d \in Attempts : Unproved(d)' => Unproved(d)
      /\ ClientTrustsOnlyPeer'
  <2>1. CASE cli' = [cli EXCEPT !.pc = "done"]
    <3>1. /\ IsClient(cli') /\ cli'.attempt = cli.attempt /\ cli'.pc = "done"
          /\ cli'.status = cli.status /\ cli'.challenge = cli.challenge
      BY <1>1, <2>1 DEF IsClient
    <3>2. \A d \in Attempts : Unproved(d)' => Unproved(d)
      BY <3>1 DEF Unproved
    <3>3. ClientTrustsOnlyPeer'
      BY <1>1, <3>1 DEF ClientTrustsOnlyPeer, Connection, ServerNonce
    <3> QED
      BY <3>1, <3>2, <3>3
  <2>2. CASE /\ cli.status = "FrameIoError" /\ cli.attempt < MaxRetries
             /\ cli' = [cli EXCEPT !.pc = "connect", !.attempt = @ + 1, !.challenge = << >>]
    <3>1. /\ DOMAIN cli' = {"pc", "attempt", "challenge", "status"}
          /\ cli'.attempt = cli.attempt + 1 /\ cli'.pc = "connect"
          /\ cli'.status = "FrameIoError" /\ cli'.challenge = << >>
      BY <1>1, <2>2 DEF IsClient
    <3>2. cli'.attempt \in Attempts
      BY <1>2, <2>2, <3>1, AuthenticationAssumption DEF Attempts
    <3>3. << >> \in Nonces
      BY DEF Nonces
    <3>4. IsClient(cli')
      BY <3>1, <3>2, <3>3 DEF IsClient
    <3>5. \A d \in Attempts : Unproved(d)' => Unproved(d)
      BY <1>2, <3>1 DEF Unproved, Attempts
    <3>6. ClientTrustsOnlyPeer'
      BY <3>1 DEF ClientTrustsOnlyPeer
    <3> QED
      BY <3>4, <3>5, <3>6
  <2> QED
    BY <2>1, <2>2 DEF CloseAttempt
<1>9. Types'
  <2>1. Nonces' = Nonces /\ Statuses' = Statuses /\ Attempts' = Attempts
    BY ZenonT(30) DEF Nonces, ServerNonce, Attempts, Statuses
  <2> QED
    BY <1>1, <1>4, <1>8, <2>1 DEF Types, IsClient
<1>10. InTurn'
  BY <1>1, <1>7, <1>8 DEF InTurn, Ping, Frame, NoPayload
<1>11. OnlyAuthenticatedServed'
  BY <1>1 DEF OnlyAuthenticatedServed
<1> QED
  BY <1>7, <1>8, <1>9, <1>10, <1>11 DEF AuthInv

LEMMA ClientSteps ==
    ASSUME AuthInv, UNCHANGED <<ses, peer, foreign>>,
           ClientStep \/ ConnectFails \/ ClientCryptoFails
    PROVE  AuthInv'
<1>1. IsClient(cli) /\ link \in [Conns -> {"closed", "up", "down"}]
  BY DEF AuthInv, Types
<1>2. CASE Connect
  <2>1. /\ cli.pc = "connect" /\ cli' = [cli EXCEPT !.pc = "challenge"]
        /\ link' = [link EXCEPT ![Connection] = "up"] /\ UNCHANGED <<c2s, s2c>>
    BY <1>2 DEF Connect, ClientAt, Opened
  <2>2. /\ IsClient(cli') /\ cli'.attempt = cli.attempt /\ cli'.pc = "challenge"
        /\ cli'.status # "Success"
    BY <1>1, <2>1 DEF IsClient
  <2>3. link' \in [Conns -> {"closed", "up", "down"}]
    BY <1>1, <2>1, Zenon
  <2>4. ClientTrustsOnlyPeer'
    BY <2>2 DEF ClientTrustsOnlyPeer
  <2> QED
    BY <2>1, <2>2, <2>3, <2>4, ClientMoves
<1>3. CASE RecvChallenge \/ RecvAuthResult \/ RecvPong
  BY <1>3, ClientReads DEF RecvChallenge, RecvAuthResult, RecvPong
<1>4. CASE SendProof
  <2> DEFINE frame == MakeAuthFrame("AuthProof", [nonce |-> ClientNonce(Connection),
                                                  proof |-> OwnProof])
  <2>1. OwnProof \in ClientProofs(Connection)
    <3>1. Connection \notin Strangers /\ cli.challenge \in Nonces
      BY <1>1, AuthenticationAssumption DEF IsClient, Connection
    <3> QED
      BY <3>1 DEF OwnProof, ClientProofs, Holder
  <2>2. frame \in ToServer(Connection)
    BY <2>1 DEF ToServer, Proving
  <2>3. cli.pc = "prove" /\ Requesting(frame, "result") /\ UNCHANGED <<link, s2c>>
    BY <1>4 DEF SendProof, ClientAt
  <2> QED
    BY <2>2, <2>3, ClientRequests
<1>5. CASE SendPing
  <2>1. Connection \notin Strangers
    BY <1>1, AuthenticationAssumption DEF IsClient, Connection
  <2>2. Ping \in ToServer(Connection)
    BY <2>1 DEF ToServer
  <2>3. cli.pc = "ping" /\ Requesting(Ping, "pong") /\ UNCHANGED <<link, s2c>>
    BY <1>5, ZenonT(30) DEF SendPing, ClientAt, Ping
  <2> QED
    BY <2>2, <2>3, ClientRequests
<1>6. CASE ClientIoFails \/ ConnectFails \/ ClientCryptoFails
  <2>1. /\ UNCHANGED <<link, c2s>> /\ (Ends("FrameIoError") \/ Ends("CryptoError"))
        /\ s2c' = s2c \/ (HasFrame(s2c, Connection) /\ s2c' = Consumed(s2c, Connection))
    BY <1>6 DEF ClientIoFails, ConnectFails, ClientCryptoFails, ClientReceives, wireVars
  <2> QED
    BY <2>1, ClientEnds
<1>7. CASE CloseAttempt
  BY <1>7, CloseAttemptStep
<1> QED
  BY <1>2, <1>3, <1>4, <1>5, <1>6, <1>7 DEF ClientStep
-----------------------------------------------------------------------------
(* Other programs touch only the queues of their own connections. *)
LEMMA StrangerStep ==
    ASSUME AuthInv, UNCHANGED <<ses, cli, peer, foreign>>, NEW c \in Strangers, StrangerSends(c)
    PROVE  AuthInv'
<1>1. /\ Types /\ Sent /\ Answered /\ InTurn /\ OnlyAuthenticatedServed
      /\ ClientTrustsOnlyPeer /\ UNCHANGED link
  BY DEF AuthInv, StrangerSends
<1>2. c \in Conns /\ c \notin Attempts /\ c \notin foreign
  BY <1>1, AuthenticationAssumption, ZenonT(30) DEF Types
<1>3. PICK frame \in ToServer(c) :
          /\ c2s' = SendOn(c2s, c, frame)
          /\ s2c' = s2c \/ (HasFrame(s2c, c) /\ s2c' = Consumed(s2c, c))
  <2>1. CASE \E frame \in Requests : c2s' = SendOn(c2s, c, frame) /\ UNCHANGED s2c
    BY <2>1, Zenon DEF ToServer
  <2>2. CASE /\ HasFrame(s2c, c) /\ Head(s2c[c]).type = "AuthChallenge"
             /\ s2c' = Consumed(s2c, c)
             /\ c2s' = SendOn(c2s, c, MakeAuthFrame("AuthProof",
                          [nonce |-> ClientNonce(c),
                           proof |-> ClientProof(peer.other, Head(s2c[c]).payload.nonce,
                                                 ClientNonce(c))]))
    <3> DEFINE challenge == Head(s2c[c])
               proof     == ClientProof(peer.other, challenge.payload.nonce, ClientNonce(c))
    <3>1. challenge \in ToClient(c)
      BY <1>1, <1>2, <2>2, QueueFacts, ZenonT(30) DEF Answered, HasFrame
    <3>2. challenge \notin Accepting(c) /\ challenge \notin Pongs
          /\ challenge # AuthResult(FALSE, NoProof)
      BY <2>2 DEF Accepting, Pongs, AuthResult, MakeAuthFrame, Frame
    <3>3. challenge = MakeAuthFrame("AuthChallenge", [nonce |-> ServerNonce(c)])
      BY <1>2, <3>1, <3>2, ZenonT(30) DEF ToClient, Answers
    <3>4. challenge.payload.nonce \in Nonces
      BY <1>2, <3>3 DEF Nonces, MakeAuthFrame, Frame
    <3>5. proof \in ClientProofs(c)
      BY <3>4 DEF ClientProofs, Holder
    <3>6. MakeAuthFrame("AuthProof", [nonce |-> ClientNonce(c), proof |-> proof]) \in ToServer(c)
      BY <3>5 DEF ToServer, Proving
    <3> QED
      BY <2>2, <3>6, ZenonT(30)
  <2> QED
    BY <2>1, <2>2 DEF StrangerSends
<1>4. Sent' /\ Answered'
  BY <1>2, <1>3, ClientAdds
<1>5. \A d \in Attempts : c2s'[d] = c2s[d]
  BY <1>1, <1>2, <1>3, AuthenticationAssumption, Zenon DEF Sent, SendOn
<1>6. InTurn'
  BY <1>1, <1>5, Zenon DEF InTurn, Unproved, Ping, Frame, NoPayload
<1>7. Types' /\ OnlyAuthenticatedServed' /\ ClientTrustsOnlyPeer'
  BY <1>1 DEF Types, IsClient, OnlyAuthenticatedServed, ClientTrustsOnlyPeer, Connection,
              ServerNonce
<1> QED
  BY <1>4, <1>6, <1>7, Zenon DEF AuthInv

LEMMA ForeignStep ==
    ASSUME AuthInv, UNCHANGED <<ses, cli, peer, foreign>>, NEW c \in foreign, ForeignReplies(c)
    PROVE  AuthInv'
<1>1. /\ Types /\ Sent /\ Answered /\ InTurn /\ OnlyAuthenticatedServed
      /\ ClientTrustsOnlyPeer /\ UNCHANGED link
  BY DEF AuthInv, ForeignReplies
<1>2. c \in Conns /\ c \notin Strangers
  BY <1>1, AuthenticationAssumption DEF Types
<1>3. \A d \in Conns : ToServer(d)' = ToServer(d) /\ ToClient(d) \subseteq ToClient(d)'
  BY RolesKept, SMTT(30) DEF Passed
<1>4. PICK frame \in ToClient(c) :
          /\ s2c' = SendOn(s2c, c, frame)
          /\ c2s' = c2s \/ (HasFrame(c2s, c) /\ c2s' = Consumed(c2s, c))
  <2>1. CASE \E frame \in Replies : s2c' = SendOn(s2c, c, frame) /\ UNCHANGED c2s
    BY <2>1, SMTT(30) DEF ToClient
  <2> DEFINE request == Head(c2s[c])
             proof   == request.payload.proof
             yes     == AuthResult(TRUE, ServerProof(peer.other, proof.nonces[1],
                                                     proof.nonces[2], proof))
  <2>2. CASE /\ HasFrame(c2s, c) /\ request.type = "AuthProof" /\ c2s' = Consumed(c2s, c)
             /\ s2c' = SendOn(s2c, c, yes)
    <3>1. request \in ToServer(c)
      BY <1>1, <1>2, <2>2, QueueFacts, SMTT(30) DEF Sent, HasFrame
    <3>2. request \in Proving(c)
      <4>1. request # Ping
        BY <2>2 DEF Ping, Frame
      <4> HIDE DEF request
      <4> QED
        BY <1>2, <3>1, <4>1, Zenon DEF ToServer
    <3>3. proof \in ClientProofs(c)
      BY <3>2, SMTT(30) DEF Proving, MakeAuthFrame, Frame
    <3>4. proof.nonces[2] = ClientNonce(c)
      BY <3>3 DEF ClientProofs, ClientProof, Proof
    <3>5. yes \in Accepting(c)
      BY <3>3, <3>4, Zenon DEF Accepting, Acceptable, Partner
    <3> QED
      BY <2>2, <3>5, ZenonT(30) DEF ToClient
  <2> QED
    BY <2>1, <2>2, Zenon DEF ForeignReplies
<1>5. Answered'
  <2>1. Append(s2c[c], frame) \in Seq(ToClient(c))
    BY <1>1, <1>2, QueueFacts DEF Answered
  <2>2. \A d \in Conns : s2c'[d] = s2c[d] \/ (d = c /\ s2c'[c] = Append(s2c[c], frame))
    BY <1>1, <1>2, <1>4 DEF Answered, SendOn
  <2>3. \A d \in Conns : s2c'[d] \in Seq(ToClient(d))
    BY <1>1, <2>1, <2>2, Zenon DEF Answered
  <2>4. \A d \in Conns : s2c'[d] \in Seq(ToClient(d)')
    BY <1>3, <2>3, WiderQueue
  <2>5. DOMAIN s2c' = Conns
    BY <1>1, <1>4 DEF Answered, SendOn
  <2> QED
    BY <2>4, <2>5 DEF Answered
<1>6. Sent'
  <2>1. c2s[c] # << >> => Tail(c2s[c]) \in Seq(ToServer(c))
    BY <1>1, <1>2, QueueFacts DEF Sent
  <2>2. \A d \in Conns :
            c2s'[d] = c2s[d] \/ (d = c /\ c2s[c] # << >> /\ c2s'[c] = Tail(c2s[c]))
    BY <1>1, <1>2, <1>4 DEF Sent, Consumed, HasFrame
  <2>3. \A d \in Conns : c2s'[d] \in Seq(ToServer(d))
    BY <1>1, <2>1, <2>2, Zenon DEF Sent
  <2>4. DOMAIN c2s' = Conns
    BY <1>1, <1>4 DEF Sent, Consumed
  <2> QED
    BY <1>3, <2>3, <2>4 DEF Sent
<1>7. \A d \in Attempts \ foreign : c2s'[d] = c2s[d]
  BY <1>1, <1>2, <1>4, AuthenticationAssumption, ZenonT(30) DEF Sent, Consumed
<1>8. InTurn'
  BY <1>1, <1>7, ZenonT(30) DEF InTurn, Unproved, Ping, Frame, NoPayload
<1>9. Types' /\ OnlyAuthenticatedServed' /\ ClientTrustsOnlyPeer'
  BY <1>1 DEF Types, IsClient, OnlyAuthenticatedServed, ClientTrustsOnlyPeer, Connection,
              ServerNonce
<1> QED
  BY <1>5, <1>6, <1>8, <1>9, Zenon DEF AuthInv

LEMMA InitAuth == Init => AuthInv
<1> SUFFICES ASSUME Init PROVE AuthInv
  OBVIOUS
<1> USE DEF Init, WireInit
<1>1. IsClient(cli) /\ 0 \in Attempts
  BY AuthenticationAssumption DEF IsClient, Nonces, Attempts
<1>2. Types
  BY <1>1 DEF Types, Statuses
<1>3. Sent /\ Answered
  <2>1. \A S : << >> \in Seq(S)
    OBVIOUS
  <2> QED
    BY <2>1 DEF Sent, Answered
<1>4. InTurn
  <2>1. \A d \in Attempts : c2s[d] = << >> /\ ses[d].pc = "new"
    BY AuthenticationAssumption
  <2>2. Len(<< >>) = 0 /\ 0 <= 1
    OBVIOUS
  <2> QED
    BY <2>1, <2>2, Zenon DEF InTurn
<1>5. OnlyAuthenticatedServed /\ ClientTrustsOnlyPeer
  BY DEF OnlyAuthenticatedServed, ClientTrustsOnlyPeer
<1> QED
  BY <1>2, <1>3, <1>4, <1>5 DEF AuthInv

(* The frames under way always fit the state of the session and of the      *)
(* client, whatever the two sides, other programs and faults do.            *)
THEOREM AuthInvariance == Spec => []AuthInv
<1>1. AuthInv /\ [Next]_vars => AuthInv'
  <2> SUFFICES ASSUME AuthInv, [Next]_vars
               PROVE  AuthInv'
    OBVIOUS
  <2>1. CASE \E c \in Conns : ServerRuns(c)
    <3>1. PICK c \in Conns : ServerRuns(c)
      BY <2>1
    <3>2. CASE CloseServed(c)
      BY <3>1, <3>2, LossSteps DEF ServerRuns, CloseServed
    <3>3. CASE SendChallenge(c) \/ RecvProof(c) \/ RecvFirst(c) \/ RecvInterrupted(c)
      BY <3>1, <3>3, SessionSteps DEF ServerRuns
    <3> QED
      BY <3>1, <3>2, <3>3 DEF ServerRuns, SessionStep
  <2>2. CASE ClientRuns
    BY <2>2, ClientSteps DEF ClientRuns
  <2>3. CASE OthersRun
    <3>1. UNCHANGED <<ses, cli, peer, foreign>>
      BY <2>3 DEF OthersRun
    <3>2. CASE \E c \in Strangers : StrangerConnects(c)
      <4>1. \E c \in Conns : Opened(c)
        BY <3>2, AuthenticationAssumption DEF StrangerConnects
      <4> QED
        BY <3>1, <4>1, LossSteps
    <3>3. CASE \E c \in Strangers : StrangerSends(c)
      BY <3>1, <3>3, StrangerStep
    <3>4. CASE \E c \in foreign : ForeignReplies(c)
      BY <3>1, <3>4, ForeignStep
    <3> QED
      BY <2>3, <3>2, <3>3, <3>4 DEF OthersRun
  <2>4. CASE Fault
    <3>1. UNCHANGED <<peer, foreign>>
      BY <2>4 DEF Fault
    <3>2. CASE (ConnectFails \/ ClientCryptoFails) /\ UNCHANGED ses
      BY <3>1, <3>2, ClientSteps
    <3>3. CASE (\E c \in Conns : Break(c)) /\ UNCHANGED <<ses, cli>>
      BY <3>1, <3>3, LossSteps
    <3>4. CASE (\E c \in Conns : CryptoFails(c)) /\ UNCHANGED cli
      BY <3>1, <3>4, SessionSteps
    <3> QED
      BY <2>4, <3>2, <3>3, <3>4 DEF Fault
  <2>5. CASE UNCHANGED vars
    <3>1. UNCHANGED <<link, c2s, s2c, ses, cli, peer, foreign>>
      BY <2>5 DEF vars
    <3>2. /\ Types /\ Sent /\ Answered /\ InTurn /\ OnlyAuthenticatedServed
          /\ ClientTrustsOnlyPeer
      BY SMTT(30) DEF AuthInv
    <3>3. Sent' /\ Answered'
      BY <3>1, <3>2, LossKeepsQueues, ZenonT(30) DEF Sent, Answered
    <3>4. InTurn'
      BY <3>1, <3>2, ZenonT(30) DEF InTurn, Unproved, Ping, Frame, NoPayload
    <3>5. Types' /\ OnlyAuthenticatedServed' /\ ClientTrustsOnlyPeer'
      BY <3>1, <3>2 DEF Types, IsClient, OnlyAuthenticatedServed, ClientTrustsOnlyPeer,
                        Connection, ServerNonce
    <3> QED
      BY <3>3, <3>4, <3>5 DEF AuthInv
  <2> QED
    BY <2>1, <2>2, <2>3, <2>4, <2>5 DEF Next
<1> QED
  BY <1>1, InitAuth, PTL DEF Spec

(* A session of the server goes beyond authentication only with a program   *)
(* that holds the secret of the server.                                     *)
THEOREM ServerAgreement == Spec => []OnlyAuthenticatedServed
<1>1. AuthInv => OnlyAuthenticatedServed
  BY DEF AuthInv
<1> QED
  BY <1>1, AuthInvariance, PTL

(* The client goes beyond authentication, and succeeds, only with a program *)
(* that holds its secret; the server has then accepted this very exchange.  *)
THEOREM ClientAgreement == Spec => []ClientTrustsOnlyPeer
<1>1. AuthInv => ClientTrustsOnlyPeer
  BY Zenon DEF AuthInv
<1> QED
  BY <1>1, AuthInvariance, PTL
-----------------------------------------------------------------------------
(* Retries: an attempt that is not the last one was ended by a fault.  As   *)
(* long as no fault has hit the current attempt, its connection is up and   *)
(* the two sides are at corresponding places, or the server has finished    *)
(* and its last word is still to be read.                                   *)
InConversation ==
    LET c == Connection
    IN  /\ link[c] = "up"
        /\ cli.pc \in {"challenge", "prove", "result", "ping", "pong"}
        /\ c \notin foreign =>
              \/ cli.pc \in {"challenge", "prove", "result"} /\ ses[c].pc \in {"new", "proof"}
              \/ cli.pc \in {"result", "ping"} /\ ses[c].pc = "first" /\ c2s[c] = << >>
              \/ cli.pc = "pong" /\ ses[c].pc = "first" /\ Len(c2s[c]) <= 1

LastWordSent ==
    LET c == Connection
    IN  /\ c \notin foreign /\ c2s[c] = << >> /\ s2c[c] # << >>
        /\ \/ cli.pc = "result" /\ ses[c].status \in {"InvalidProof", "Rejected"}
           \/ cli.pc = "pong" /\ ses[c].status = "Success"

Undisturbed ==
    \/ cli.pc = "connect"
    \/ InConversation
    \/ LastWordSent
    \/ cli.pc \in {"close", "done"} /\ cli.status # "FrameIoError"

(* Connections that have not been opened. *)
Future ==
    \A c \in Attempts : c > cli.attempt \/ (c = cli.attempt /\ cli.pc = "connect") =>
        link[c] = "closed" /\ ses[c].pc = "new"

RetryInv ==
    /\ faults \in Nat
    /\ Future
    /\ RetriesOnlyFaults
    /\ Undisturbed \/ cli.attempt < faults

(* Only the retry loop starts another attempt. *)
LEMMA AttemptKept ==
    ASSUME IsClient(cli), ClientStep, ~CloseAttempt
    PROVE  cli'.attempt = cli.attempt
<1>1. \/ \E status : Ends(status)
      \/ \E pc : cli' = [cli EXCEPT !.pc = pc]
      \/ cli' = [cli EXCEPT !.pc = "prove", !.challenge = Response.payload.nonce]
  BY Zenon DEF ClientStep, Connect, RecvChallenge, SendProof, RecvAuthResult, SendPing, RecvPong,
               ClientIoFails, Requesting
<1> QED
  BY <1>1, Zenon DEF Ends, IsClient

LEMMA FutureKept ==
    ASSUME AuthInv, Future, [Next]_vars
    PROVE  Future'
<1>1. /\ link \in [Conns -> {"closed", "up", "down"}] /\ IsClient(cli)
      /\ Attempts \subseteq Conns /\ Attempts \subseteq Nat /\ foreign \subseteq Attempts
      /\ DOMAIN ses = Conns /\ cli.attempt \in Attempts /\ Attempts \cap Strangers = {}
  BY AuthenticationAssumption DEF AuthInv, Types, IsClient, Attempts
<1>2. ASSUME \A c \in Attempts : link[c] = "closed" => link'[c] = "closed" /\ ses'[c] = ses[c],
             \/ cli' = cli
             \/ cli'.attempt = cli.attempt /\ cli'.pc # "connect"
             \/ cli'.attempt = cli.attempt + 1
      PROVE  Future'
  <2>1. SUFFICES ASSUME NEW c \in Attempts,
                        c > cli'.attempt \/ (c = cli'.attempt /\ cli'.pc = "connect")
                 PROVE  link[c] = "closed" /\ ses[c].pc = "new"
    BY <1>2, Zenon DEF Future, Attempts
  <2>2. c \in Nat /\ cli.attempt \in Nat
    BY <1>1, Zenon
  <2>3. c > cli.attempt \/ (c = cli.attempt /\ cli.pc = "connect")
    BY <1>2, <2>1, <2>2
  <2> QED
    BY <2>3, Zenon DEF Future
<1>3. ASSUME NEW status, Ends(status)
      PROVE  cli'.attempt = cli.attempt /\ cli'.pc # "connect"
  BY <1>1, <1>3 DEF Ends, IsClient
<1>4. CASE \E c \in Conns : ServerRuns(c)
  <2>1. PICK c \in Conns : ServerRuns(c)
    BY <1>4
  <2>2. UNCHANGED cli /\ link[c] # "closed"
    BY <2>1, Zenon DEF ServerRuns, SessionStep, SendChallenge, RecvProof, RecvFirst, RecvInterrupted,
                CloseServed, SessionAt
  <2>3. \A d \in Conns \ {c} : link'[d] = link[d] /\ ses'[d] = ses[d]
    BY <1>1, <2>1, Zenon DEF ServerRuns, SessionStep, SendChallenge, RecvProof, RecvFirst,
                RecvInterrupted, CloseServed, Replying, Over, ServerEndClosed, wireVars
  <2> QED
    BY <1>2, <2>2, <2>3, <1>1
<1>5. CASE ClientRuns
  <2>1. UNCHANGED ses
    BY <1>5 DEF ClientRuns
  <2>2. CASE Connect
    <3>1. /\ link' = [link EXCEPT ![Connection] = "up"] /\ Connection = cli.attempt
          /\ cli'.attempt = cli.attempt /\ cli'.pc = "challenge"
      BY <1>1, <2>2 DEF Connect, Opened, Connection, IsClient
    <3>2. \A c \in Attempts : c > cli.attempt => c # cli.attempt
      BY <1>1
    <3> QED
      BY <1>1, <2>1, <3>1, <3>2, Zenon DEF Future, Attempts
  <2>3. CASE CloseAttempt
    <3>1. cli'.attempt = cli.attempt + 1 \/ (cli'.attempt = cli.attempt /\ cli'.pc = "done")
      BY <1>1, <2>3 DEF CloseAttempt, IsClient
    <3>2. \A c \in Conns : link[c] = "closed" => link'[c] = "closed"
      BY <1>1, <2>3 DEF CloseAttempt, ClientEndClosed
    <3> QED
      BY <1>1, <1>2, <2>1, <3>1, <3>2
  <2>4. CASE RecvChallenge \/ SendProof \/ RecvAuthResult \/ SendPing \/ RecvPong \/ ClientIoFails
    <3>1. UNCHANGED link
      BY <2>4, Zenon DEF RecvChallenge, SendProof, RecvAuthResult, SendPing, RecvPong, ClientIoFails,
                  wireVars
    <3>2. \/ \E status : Ends(status)
          \/ cli' = [cli EXCEPT !.pc = "result"] \/ cli' = [cli EXCEPT !.pc = "ping"]
          \/ cli' = [cli EXCEPT !.pc = "pong"]
          \/ cli' = [cli EXCEPT !.pc = "prove", !.challenge = Response.payload.nonce]
      BY <2>4, Zenon DEF RecvChallenge, SendProof, RecvAuthResult, SendPing, RecvPong,
                  ClientIoFails, Requesting
    <3>3. cli'.attempt = cli.attempt /\ cli'.pc # "connect"
      BY <1>1, <1>3, <3>2, Zenon DEF IsClient
    <3> QED
      BY <1>2, <2>1, <3>1, <3>3
  <2> QED
    BY <1>5, <2>2, <2>3, <2>4 DEF ClientRuns, ClientStep
<1>6. CASE OthersRun
  <2>1. UNCHANGED <<ses, cli>>
    BY <1>6, Zenon DEF OthersRun
  <2>2. UNCHANGED link \/ \E c \in Strangers : link' = [link EXCEPT ![c] = "up"]
    BY <1>6, Zenon DEF OthersRun, StrangerConnects, StrangerSends, ForeignReplies, Opened
  <2> QED
    BY <1>1, <1>2, <2>1, <2>2
<1>7. CASE Fault
  <2>1. CASE (ConnectFails \/ ClientCryptoFails) /\ UNCHANGED ses
    <3>1. UNCHANGED link /\ \E status : Ends(status)
      BY <2>1 DEF ConnectFails, ClientCryptoFails, wireVars
    <3> QED
      BY <1>2, <1>3, <2>1, <3>1
  <2>2. CASE (\E c \in Conns : Break(c)) /\ UNCHANGED <<ses, cli>>
    BY <1>1, <1>2, <2>2 DEF Break
  <2>3. CASE (\E c \in Conns : CryptoFails(c)) /\ UNCHANGED cli
    BY <1>1, <1>2, <2>3 DEF CryptoFails, SessionAt, Over
  <2> QED
    BY <1>7, <2>1, <2>2, <2>3 DEF Fault
<1>8. CASE UNCHANGED vars
  BY <1>2, <1>8, Zenon DEF vars
<1> QED
  BY <1>4, <1>5, <1>6, <1>7, <1>8 DEF Next

(* A step that leaves the current connection alone. *)
LEMMA ElsewhereUndisturbed ==
    ASSUME Undisturbed, UNCHANGED <<cli, foreign>>,
           link'[Connection] = link[Connection], c2s'[Connection] = c2s[Connection],
           s2c'[Connection] = s2c[Connection], ses'[Connection] = ses[Connection]
    PROVE  Undisturbed'
  BY DEF Undisturbed, InConversation, LastWordSent, Connection

(* The server answers on a connection that is up, and answers the ping. *)
LEMMA ServerUndisturbed ==
    ASSUME AuthInv, Future, Undisturbed, NEW c \in Conns, ServerRuns(c)
    PROVE  Undisturbed'
<1>1. /\ DOMAIN c2s = Conns /\ DOMAIN s2c = Conns /\ DOMAIN ses = Conns /\ DOMAIN link = Conns
      /\ c2s[c] \in Seq(ToServer(c)) /\ cli.attempt \in Attempts /\ Connection \in Conns
      /\ UNCHANGED <<cli, foreign>> /\ SessionStep(c) /\ Connection' = Connection
      /\ ses[c] \in [pc : {"new", "proof", "first", "over"}, status : Statuses]
      /\ ses[c].pc = "over" <=> ses[c].status # "none"
  BY AuthenticationAssumption DEF AuthInv, Types, Sent, Answered, IsClient, Connection, ServerRuns
<1>2. CASE Connection # c
  <2>1. \A d \in Conns \ {c} : /\ link'[d] = link[d] /\ ses'[d] = ses[d]
                               /\ c2s'[d] = c2s[d] /\ s2c'[d] = s2c[d]
    BY <1>1, Zenon DEF SessionStep, SendChallenge, RecvProof, RecvFirst, RecvInterrupted, CloseServed,
                Replying, Over, ServerEndClosed, SendOn, Consumed, wireVars
  <2> QED
    BY <1>1, <1>2, <2>1, ElsewhereUndisturbed, Zenon
<1>3. CASE cli.pc \in {"close", "done"}
  BY <1>1, <1>3 DEF Undisturbed, InConversation, LastWordSent
<1>4. ASSUME Connection = c, cli.pc \notin {"close", "done"}
      PROVE  Undisturbed'
  <2>1. c \notin foreign /\ link[c] # "closed" /\ c \in Attempts
    BY <1>1, <1>4, Zenon DEF SessionStep, SendChallenge, RecvProof, RecvFirst, RecvInterrupted,
                CloseServed, SessionAt, Connection
  <2>2. InConversation \/ LastWordSent
    BY <1>1, <1>4, <2>1 DEF Undisturbed, Future, Connection
  <2>3. ASSUME NEW frame, NEW pc, NEW status, Replying(c, frame, pc, status), link[c] = "up"
        PROVE  /\ ses'[c].pc = pc /\ ses'[c].status = status
               /\ s2c'[c] = Append(s2c[c], frame)
    BY <1>1, <2>3 DEF Replying, SendOn, SendFails
  <2>4. \A x : Append(s2c[c], x) # << >>
    <3>1. s2c[c] \in Seq(ToClient(c))
      BY DEF AuthInv, Answered
    <3> QED
      BY <3>1
  <2>5. HasFrame(c2s, c) /\ Len(c2s[c]) <= 1 => Tail(c2s[c]) = << >>
    BY <1>1, LastFrame, Zenon DEF HasFrame
  <2>6. CASE SendChallenge(c)
    <3>1. ses[c].pc = "new" /\ UNCHANGED <<link, c2s>>
      BY <2>6, Zenon DEF SendChallenge, SessionAt
    <3>2. InConversation /\ link[c] = "up" /\ cli.pc \in {"challenge", "prove", "result"}
      BY <1>1, <1>4, <2>1, <2>2, <3>1, Zenon DEF InConversation, LastWordSent
    <3>3. ses'[c].pc = "proof"
      BY <2>3, <2>6, <3>2, Zenon DEF SendChallenge
    <3> QED
      BY <1>1, <1>4, <2>1, <3>1, <3>2, <3>3, Zenon DEF Undisturbed, InConversation
  <2>7. CASE RecvProof(c)
    <3>1. ses[c].pc = "proof" /\ UNCHANGED link /\ HasFrame(c2s, c) /\ c2s' = Consumed(c2s, c)
      BY <2>7, Zenon DEF RecvProof, SessionAt
    <3>2. link[c] = "up" /\ cli.pc \in {"challenge", "prove", "result"}
      BY <1>1, <1>4, <2>1, <2>2, <3>1, Zenon DEF InConversation, LastWordSent
    <3>3. cli.pc = "result" /\ Len(c2s[c]) <= 1
      BY <1>4, <2>1, <3>1, <3>2 DEF AuthInv, InTurn, Unproved, HasFrame, Connection
    <3>4. c2s'[c] = << >>
      BY <1>1, <2>5, <3>1, <3>3 DEF Consumed
    <3>5. \E frame : \/ Replying(c, frame, "over", "InvalidProof")
                     \/ Replying(c, frame, "over", "Rejected")
                     \/ Replying(c, frame, "first", "none")
      BY <2>7, Zenon DEF RecvProof
    <3>6. /\ s2c'[c] # << >>
          /\ ses'[c].status \in {"InvalidProof", "Rejected"} \/ ses'[c].pc = "first"
      BY <2>3, <2>4, <3>2, <3>5, Zenon
    <3> QED
      BY <1>1, <1>4, <2>1, <3>1, <3>2, <3>3, <3>4, <3>6, Zenon
         DEF Undisturbed, InConversation, LastWordSent
  <2>8. CASE RecvFirst(c)
    <3>1. ses[c].pc = "first" /\ UNCHANGED link /\ HasFrame(c2s, c) /\ c2s' = Consumed(c2s, c)
      BY <2>8, Zenon DEF RecvFirst, SessionAt
    <3>2. link[c] = "up" /\ cli.pc = "pong" /\ Len(c2s[c]) <= 1
      BY <1>1, <1>4, <2>1, <2>2, <3>1 DEF InConversation, LastWordSent, HasFrame
    <3>3. c2s'[c] = << >>
      BY <1>1, <2>5, <3>1, <3>2 DEF Consumed
    <3>4. Head(c2s[c]) = Ping
      <4>1. c2s[c] \in Seq({Ping})
        BY <2>1, <3>1 DEF AuthInv, InTurn
      <4> QED
        BY <3>1, <4>1, QueueFacts DEF HasFrame
    <3>5. Ping.type = "Ping" /\ ValidateCommon(Ping, "Ping") = "Success"
      BY AuthenticationAssumption DEF Ping, Frame, ValidateCommon
    <3>6. \E frame : Replying(c, frame, "over", "Success")
      BY <2>8, <3>4, <3>5, Zenon DEF RecvFirst
    <3>7. s2c'[c] # << >> /\ ses'[c].status = "Success"
      BY <2>3, <2>4, <3>2, <3>6
    <3> QED
      BY <1>1, <1>4, <2>1, <3>2, <3>3, <3>7, Zenon DEF Undisturbed, LastWordSent
  <2>9. CASE RecvInterrupted(c)
    <3>1. ses[c].pc \in {"proof", "first"} /\ link[c] = "down"
      BY <2>9 DEF RecvInterrupted, SessionAt, RecvFails
    <3> QED
      BY <1>1, <1>4, <2>2, <3>1 DEF InConversation, LastWordSent
  <2>10. CASE CloseServed(c)
    <3>1. ses[c].pc = "over" /\ ServerEndClosed(c) /\ UNCHANGED ses /\ link[c] = "up"
      BY <2>10 DEF CloseServed, SessionAt
    <3>2. LastWordSent /\ c2s[c] = << >>
      BY <1>4, <2>1, <2>2, <3>1 DEF InConversation, LastWordSent
    <3>3. s2c'[c] = s2c[c] /\ c2s'[c] = << >>
      BY <1>1, <3>1, <3>2 DEF ServerEndClosed, Remainder
    <3> QED
      BY <1>1, <1>4, <3>1, <3>2, <3>3 DEF Undisturbed, LastWordSent
  <2> QED
    BY <1>1, <2>6, <2>7, <2>8, <2>9, <2>10 DEF SessionStep
<1> QED
  BY <1>2, <1>3, <1>4, Zenon

(* The client goes on, or ends with the status that the peer gave rise to. *)
LEMMA ClientUndisturbed ==
    ASSUME AuthInv, AuthInv', Future, Undisturbed, ClientRuns
    PROVE  Undisturbed'
<1> DEFINE c == Connection
<1>1. /\ DOMAIN c2s = Conns /\ DOMAIN link = Conns /\ IsClient(cli)
      /\ cli.attempt \in Attempts /\ c \in Conns /\ c = cli.attempt
      /\ UNCHANGED <<ses, foreign>> /\ ClientStep
      /\ ses[c] \in [pc : {"new", "proof", "first", "over"}, status : Statuses]
      /\ ses[c].pc = "over" <=> ses[c].status # "none"
  BY AuthenticationAssumption DEF AuthInv, Types, Sent, IsClient, Connection, ClientRuns
<1>2. ASSUME NEW status, status # "FrameIoError", Ends(status)
      PROVE  Undisturbed'
  <2>1. cli'.pc = "close" /\ cli'.status = status
    BY <1>1, <1>2 DEF Ends, IsClient
  <2> QED
    BY <1>2, <2>1 DEF Undisturbed
<1>3. ASSUME NEW pc, cli' = [cli EXCEPT !.pc = pc]
      PROVE  cli'.pc = pc /\ c' = c /\ cli'.status = cli.status
  BY <1>1, <1>3 DEF IsClient, Connection
<1>4. CASE Connect
  <2>1. /\ cli.pc = "connect" /\ cli' = [cli EXCEPT !.pc = "challenge"]
        /\ link' = [link EXCEPT ![c] = "up"]
    BY <1>4 DEF Connect, ClientAt, Opened
  <2>2. ses[c].pc = "new"
    BY <1>1, <2>1 DEF Future
  <2> QED
    BY <1>1, <1>3, <2>1, <2>2 DEF Undisturbed, InConversation
<1>5. CASE RecvChallenge
  <2>1. cli.pc = "challenge" /\ UNCHANGED link
    BY <1>5 DEF RecvChallenge, ClientAt
  <2>2. CASE cli' = [cli EXCEPT !.pc = "prove", !.challenge = Response.payload.nonce]
    <3>1. cli'.pc = "prove" /\ c' = c
      BY <1>1, <2>2 DEF IsClient, Connection
    <3> QED
      BY <1>1, <2>1, <3>1 DEF Undisturbed, InConversation, LastWordSent
  <2> QED
    BY <1>2, <1>5, <2>2 DEF RecvChallenge
<1>6. CASE SendProof
  <2>1. cli.pc = "prove" /\ UNCHANGED link
    BY <1>6 DEF SendProof, ClientAt
  <2>2. InConversation /\ link[c] = "up"
    BY <2>1 DEF Undisturbed, InConversation, LastWordSent
  <2>3. cli' = [cli EXCEPT !.pc = "result"]
    BY <1>6, <2>2 DEF SendProof, Requesting, SendFails
  <2> QED
    BY <1>1, <1>3, <2>1, <2>2, <2>3 DEF Undisturbed, InConversation
<1>7. CASE RecvAuthResult
  <2>1. cli.pc = "result" /\ UNCHANGED <<link, c2s>>
    BY <1>7, Zenon DEF RecvAuthResult, ClientAt
  <2>2. CASE cli' = [cli EXCEPT !.pc = "ping"]
    <3>1. cli'.pc = "ping" /\ c' = c
      BY <1>3, <2>2, Zenon
    <3>2. c \notin foreign => ses[c].pc = "first" \/ ses[c].status \in {"Success", "FrameIoError"}
      BY <1>1, <3>1 DEF AuthInv, ClientTrustsOnlyPeer
    <3> QED
      BY <1>1, <2>1, <3>1, <3>2 DEF Undisturbed, InConversation, LastWordSent
  <2>3. ResultStatus(Response) # "FrameIoError"
    BY DEF ResultStatus
  <2> QED
    BY <1>2, <1>7, <2>2, <2>3 DEF RecvAuthResult
<1>8. CASE SendPing
  <2>1. cli.pc = "ping" /\ UNCHANGED link
    BY <1>8 DEF SendPing, ClientAt
  <2>2. InConversation /\ link[c] = "up" /\ (c \notin foreign => ses[c].pc = "first" /\ c2s[c] = << >>)
    BY <2>1 DEF Undisturbed, InConversation, LastWordSent
  <2>3. cli' = [cli EXCEPT !.pc = "pong"] /\ c2s' = SendOn(c2s, c, Ping)
    BY <1>8, <2>2 DEF SendPing, Requesting, SendFails, Ping
  <2>4. c2s[c] = << >> => Len(c2s'[c]) <= 1
    BY <1>1, <2>2, <2>3 DEF SendOn
  <2> QED
    BY <1>1, <1>3, <2>1, <2>2, <2>3, <2>4 DEF Undisturbed, InConversation
<1>9. CASE RecvPong
  <2>1. \E status : status # "FrameIoError" /\ Ends(status)
    BY <1>9 DEF RecvPong, ValidateCommon
  <2> QED
    BY <1>2, <2>1
<1>10. CASE ClientIoFails
  <2>1. cli.pc \in {"challenge", "result", "pong"} /\ link[c] = "down" /\ s2c[c] = << >>
    BY <1>10 DEF ClientIoFails, RecvFails
  <2> QED
    BY <2>1 DEF Undisturbed, InConversation, LastWordSent
<1>11. CASE CloseAttempt
  <2>1. cli.pc = "close"
    BY <1>11 DEF CloseAttempt, ClientAt
  <2>2. cli.status # "FrameIoError"
    BY <2>1 DEF Undisturbed, InConversation, LastWordSent
  <2>3. cli' = [cli EXCEPT !.pc = "done"]
    BY <1>11, <2>2 DEF CloseAttempt
  <2> QED
    BY <1>3, <2>2, <2>3 DEF Undisturbed
<1> QED
  BY <1>1, <1>4, <1>5, <1>6, <1>7, <1>8, <1>9, <1>10, <1>11, Zenon DEF ClientStep

(* Other programs send nothing on a connection of the client to the server. *)
LEMMA OthersUndisturbed ==
    ASSUME AuthInv, Undisturbed, OthersRun
    PROVE  Undisturbed'
<1>1. /\ DOMAIN c2s = Conns /\ DOMAIN s2c = Conns /\ DOMAIN link = Conns
      /\ Connection \in Attempts /\ Attempts \cap Strangers = {} /\ foreign \subseteq Attempts
      /\ UNCHANGED <<ses, cli, foreign>>
  BY AuthenticationAssumption, Zenon DEF AuthInv, Types, Sent, Answered, IsClient, Connection, OthersRun
<1>2. ASSUME NEW c, StrangerConnects(c) \/ StrangerSends(c) \/ ForeignReplies(c), c # Connection
      PROVE  Undisturbed'
  <2>1. \A d \in Conns \ {c} : link'[d] = link[d] /\ c2s'[d] = c2s[d] /\ s2c'[d] = s2c[d]
    BY <1>1, <1>2, Zenon DEF StrangerConnects, StrangerSends, ForeignReplies, Opened, SendOn, Consumed
  <2>2. Connection \in Conns
    BY <1>1, AuthenticationAssumption
  <2> QED
    BY <1>1, <1>2, <2>1, <2>2, ElsewhereUndisturbed, Zenon
<1>3. ASSUME Connection \in foreign, ForeignReplies(Connection)
      PROVE  Undisturbed'
  <2>1. UNCHANGED link /\ Connection' = Connection
    BY <1>1, <1>3, Zenon DEF ForeignReplies, Connection
  <2> QED
    BY <1>1, <1>3, <2>1 DEF Undisturbed, InConversation, LastWordSent
<1> QED
  BY <1>1, <1>2, <1>3, Zenon DEF OthersRun

(* Every attempt behind the first is paid for by a fault: a rejection, a    *)
(* wrong secret or a reply of another program is never retried by the loop  *)
(* of main.cpp, also when the server closes the connection right behind it. *)
THEOREM OnlyFaultsAreRetried == Spec => []RetriesOnlyFaults
<1>1. Init => RetryInv
  <2>1. SUFFICES ASSUME Init
                 PROVE  RetryInv
    OBVIOUS
  <2>2. /\ faults = 0 /\ cli.attempt = 0 /\ cli.pc = "connect"
        /\ \A c \in Conns : link[c] = "closed" /\ ses[c].pc = "new"
    BY <2>1 DEF Init, WireInit
  <2> QED
    BY <2>2, AuthenticationAssumption DEF RetryInv, Future, RetriesOnlyFaults, Undisturbed
<1>2. AuthInv /\ AuthInv' /\ RetryInv /\ [Next]_vars => RetryInv'
  <2>1. SUFFICES ASSUME AuthInv, AuthInv', RetryInv, [Next]_vars
                 PROVE  RetryInv'
    OBVIOUS
  <2>2. Future' /\ IsClient(cli) /\ cli.attempt \in Nat /\ faults \in Nat
    BY <2>1, FutureKept, AuthenticationAssumption DEF AuthInv, Types, IsClient, Attempts, RetryInv
  <2>3. CASE Fault
    <3>1. faults' = faults + 1
      BY <2>3 DEF Fault
    <3>2. cli'.attempt = cli.attempt
      BY <2>2, <2>3, Zenon DEF Fault, ConnectFails, ClientCryptoFails, Ends, IsClient
    <3> QED
      BY <2>1, <2>2, <3>1, <3>2 DEF RetryInv, RetriesOnlyFaults
  <2>4. CASE ~Fault
    <3>1. UNCHANGED faults
      BY <2>1, <2>4 DEF Next, ServerRuns, ClientRuns, OthersRun, vars
    <3>2. CASE Undisturbed
      <4>1. Undisturbed'
        <5>1. CASE UNCHANGED vars
          BY <3>2, <5>1, ElsewhereUndisturbed DEF vars
        <5> QED
          BY <2>1, <2>4, <3>2, <5>1, ServerUndisturbed, ClientUndisturbed, OthersUndisturbed
             DEF Next, RetryInv
      <4>2. cli'.attempt = cli.attempt
        <5>1. CASE ClientRuns
          <6>1. CASE CloseAttempt
            <7>1. cli.status # "FrameIoError"
              BY <3>2, <6>1 DEF CloseAttempt, ClientAt, Undisturbed, InConversation, LastWordSent
            <7> QED
              BY <2>2, <6>1, <7>1 DEF CloseAttempt, IsClient
          <6>2. CASE ~CloseAttempt
            BY <2>2, <5>1, <6>2, AttemptKept DEF ClientRuns
          <6> QED
            BY <6>1, <6>2
        <5>2. CASE ~ClientRuns
          BY <2>1, <2>4, <5>2 DEF Next, ServerRuns, OthersRun, vars
        <5> QED
          BY <5>1, <5>2
      <4> QED
        BY <2>1, <2>2, <3>1, <4>1, <4>2 DEF RetryInv, RetriesOnlyFaults
    <3>3. CASE cli.attempt < faults
      <4>1. cli'.attempt = cli.attempt \/ (cli'.attempt = cli.attempt + 1 /\ cli'.pc = "connect")
        <5>1. CASE ClientRuns
          <6>1. CASE CloseAttempt
            BY <2>2, <6>1 DEF CloseAttempt, IsClient
          <6>2. CASE ~CloseAttempt
            BY <2>2, <5>1, <6>2, AttemptKept DEF ClientRuns
          <6> QED
            BY <6>1, <6>2
        <5>2. CASE ~ClientRuns
          BY <2>1, <2>4, <5>2 DEF Next, ServerRuns, OthersRun, vars
        <5> QED
          BY <5>1, <5>2
      <4> QED
        BY <2>2, <3>1, <3>3, <4>1 DEF RetryInv, RetriesOnlyFaults, Undisturbed
    <3> QED
      BY <2>1, <3>2, <3>3 DEF RetryInv
  <2> QED
    BY <2>3, <2>4
<1>3. RetryInv => RetriesOnlyFaults
  BY DEF RetryInv
<1> QED
  BY <1>1, <1>2, <1>3, AuthInvariance, PTL DEF Spec
=============================================================================
