--------------------------- MODULE Authentication ---------------------------
(***************************************************************************)
(* The start of every connection: the mutual challenge-response of         *)
(* src/common/authentication.cpp, the first frame that                     *)
(* serve_client_session reads behind it, and the ping command, which is    *)
(* the smallest thing to do with an authenticated connection               *)
(* (src/common/ping_pong.cpp), inside the retry loop of                    *)
(* apps/syncwire-client/main.cpp.                                          *)
(*                                                                         *)
(* Attempt k of the command uses connection k.  The other end of some of   *)
(* these connections may be a different program than the server (Foreign), *)
(* and other programs connect to the server (Strangers): they have secrets *)
(* of their own and send frames of their own.  A nonce is fresh, and a     *)
(* proof is the record of what was hashed: HMAC-SHA256 is taken to have no *)
(* collisions and not to be guessed.                                       *)
(***************************************************************************)
EXTENDS Wire

CONSTANTS Secrets,         \* shared secrets of a permitted length
          ServerSecret,    \* the one that the server was started with
          Strangers,       \* connections of other programs to the server
          Replies,         \* frames that a different program answers with
          Requests,        \* frames that strangers send
          RequestId,       \* of the ping command
          MaxRetries,      \* --retries
          MaxFaults,       \* bound: lost connections, failures of OpenSSL
          MaxStray         \* bound: frames sent by other programs

Attempts == 0 .. MaxRetries

ASSUME AuthenticationAssumption ==
    /\ ServerSecret \in Secrets
    /\ {RequestId, MaxRetries, MaxFaults, MaxStray} \subseteq Nat /\ RequestId # 0
    /\ Attempts \cap Strangers = {} /\ Conns = Attempts \cup Strangers
    /\ "none" \notin Secrets

VARIABLES ses,             \* Conns -> the session of the server
          cli,             \* the client process
          peer,            \* secrets of the server, the client, the strangers
          foreign,         \* attempts that reach a different program
          faults, stray

vars == <<link, c2s, s2c, ses, cli, peer, foreign, faults, stray>>

ServerNonce(c) == <<"server", c>>
ClientNonce(c) == <<"client", c>>

(* calculate_proof: what is hashed under the secret. *)
Proof(secret, domain, serverNonce, clientNonce, binding) ==
    [secret |-> secret, domain |-> domain, nonces |-> <<serverNonce, clientNonce>>,
     binding |-> binding]

NoBinding == << >>

(* Bytes in the place of a proof that were not made with any secret. *)
NoProof == [secret |-> "none"]

NoPayload == [size |-> 0]

ClientProof(secret, sn, cn) == Proof(secret, "client", sn, cn, NoBinding)
ServerProof(secret, sn, cn, binding) == Proof(secret, "server", sn, cn, binding)

(* A frame; sized tells whether its payload has the length that the type    *)
(* asks for (none, for Ping and Pong).                                      *)
Frame(type, rid, tid, sized, payload) ==
    [type |-> type, rid |-> rid, tid |-> tid, sized |-> sized, payload |-> payload]

MakeAuthFrame(type, payload) == Frame(type, 0, 0, TRUE, payload)

AuthResult(accepted, proof) ==
    MakeAuthFrame("AuthResult", [code |-> IF accepted THEN "accepted" ELSE "rejected",
                                 proof |-> proof])

IsAuthFrame(frame, type) ==
    frame.type = type /\ frame.rid = 0 /\ frame.tid = 0 /\ frame.sized

(* validate_common of ping_pong.cpp. *)
ValidateCommon(frame, type) ==
    IF frame.type # type THEN "UnexpectedMessageType"
    ELSE IF ~frame.sized THEN "UnexpectedPayload"
    ELSE IF frame.rid = 0 THEN "InvalidRequestId"
    ELSE IF frame.tid # 0 THEN "UnexpectedTransferId"
    ELSE "Success"

(* The frames that other programs make up contain no proof, except for the  *)
(* ones that they make with the secret they have.                           *)
ASSUME MadeUpAssumption ==
    /\ \A frame \in Requests :
          IsAuthFrame(frame, "AuthProof") => frame.payload.proof = NoProof
    /\ \A frame \in Replies :
          frame.type = "AuthResult" /\ frame.payload.code = "accepted" =>
              frame.payload.proof = NoProof
-----------------------------------------------------------------------------
(* The server: authenticate_server and serve_client_session, one session    *)
(* per connection, each with a worker of its own.                           *)
SessionAt(c, pc) == ses[c].pc = pc /\ link[c] # "closed" /\ c \notin foreign

Over(c, status) == ses' = [ses EXCEPT ![c].pc = "over", ![c].status = status]

(* A frame is sent, after which the session is at pc, or over with status;  *)
(* a send that fails ends it.                                               *)
Replying(c, frame, pc, status) ==
    \/ /\ s2c' = SendOn(s2c, c, frame)
       /\ ses' = [ses EXCEPT ![c].pc = pc, ![c].status = status]
    \/ SendFails(c) /\ UNCHANGED s2c /\ Over(c, "FrameIoError")

(* Mutant: the challenge is not sent before the proof is awaited. *)
SendChallenge_Waits(c) ==
    /\ SessionAt(c, "new")
    /\ ses' = [ses EXCEPT ![c].pc = "proof"]
    /\ UNCHANGED wireVars

SendChallenge(c) ==
    /\ SessionAt(c, "new")
    /\ Replying(c, MakeAuthFrame("AuthChallenge", [nonce |-> ServerNonce(c)]), "proof", "none")
    /\ UNCHANGED <<link, c2s>>

(* Mutant: a well-formed proof is accepted as it is. *)
RecvProof_Unchecked(c) ==
    LET frame == Head(c2s[c])
        proof == ServerProof(peer.server, ServerNonce(c), frame.payload.nonce, frame.payload.proof)
    IN  /\ SessionAt(c, "proof") /\ HasFrame(c2s, c)
        /\ c2s' = Consumed(c2s, c)
        /\ IF ~IsAuthFrame(frame, "AuthProof")
           THEN Replying(c, AuthResult(FALSE, NoProof), "over", "InvalidProof")
           ELSE Replying(c, AuthResult(TRUE, proof), "first", "none")
        /\ UNCHANGED link

(* The proof is checked and answered; one that is malformed is rejected     *)
(* without being looked at.                                                 *)
RecvProof(c) ==
    LET frame    == Head(c2s[c])
        received == frame.payload.proof
        sn       == ServerNonce(c)
        cn       == frame.payload.nonce
    IN  /\ SessionAt(c, "proof") /\ HasFrame(c2s, c)
        /\ c2s' = Consumed(c2s, c)
        /\ IF ~IsAuthFrame(frame, "AuthProof")
           THEN Replying(c, AuthResult(FALSE, NoProof), "over", "InvalidProof")
           ELSE IF received = ClientProof(peer.server, sn, cn)
           THEN Replying(c, AuthResult(TRUE, ServerProof(peer.server, sn, cn, received)),
                         "first", "none")
           ELSE Replying(c, AuthResult(FALSE, NoProof), "over", "Rejected")
        /\ UNCHANGED link

(* The first frame: a ping is answered if it is well formed.  Uploads and   *)
(* synchronisations are dispatched to the sessions of other modules.        *)
RecvFirst(c) ==
    LET frame  == Head(c2s[c])
        status == ValidateCommon(frame, "Ping")
    IN  /\ SessionAt(c, "first") /\ HasFrame(c2s, c)
        /\ c2s' = Consumed(c2s, c)
        /\ IF frame.type # "Ping" THEN Over(c, "UnsupportedMessage") /\ UNCHANGED s2c
           ELSE IF status # "Success" THEN Over(c, "PingError") /\ UNCHANGED s2c
           ELSE Replying(c, Frame("Pong", frame.rid, 0, TRUE, NoPayload), "over", "Success")
        /\ UNCHANGED link

RecvInterrupted(c) ==
    /\ \E pc \in {"proof", "first"} : SessionAt(c, pc)
    /\ RecvFails(c2s, c)
    /\ Over(c, "FrameIoError")
    /\ UNCHANGED wireVars

(* RAND_bytes or an HMAC fails: the session ends without a word. *)
CryptoFails(c) ==
    /\ \/ SessionAt(c, "new")
       \/ /\ SessionAt(c, "proof") /\ HasFrame(c2s, c)
          /\ IsAuthFrame(Head(c2s[c]), "AuthProof")
    /\ Over(c, IF ses[c].pc = "new" THEN "RandomGenerationError" ELSE "CryptoError")
    /\ c2s' = IF ses[c].pc = "new" THEN c2s ELSE Consumed(c2s, c)
    /\ UNCHANGED <<link, s2c>>

CloseServed(c) ==
    /\ SessionAt(c, "over") /\ link[c] = "up"
    /\ ServerEndClosed(c)
    /\ UNCHANGED ses

SessionStep(c) ==
    \/ SendChallenge(c) \/ RecvProof(c) \/ RecvFirst(c) \/ RecvInterrupted(c) \/ CloseServed(c)
-----------------------------------------------------------------------------
(* The client: run_once with authenticate_client and perform_ping. *)
ClientAt(pc) == cli.pc = pc

Connection == cli.attempt

Response == Head(s2c[Connection])

ClientReceives == HasFrame(s2c, Connection) /\ s2c' = Consumed(s2c, Connection)

Ends(status) == cli' = [cli EXCEPT !.pc = "close", !.status = status]

(* A request is sent and its answer awaited at pc. *)
Requesting(frame, pc) ==
    \/ c2s' = SendOn(c2s, Connection, frame) /\ cli' = [cli EXCEPT !.pc = pc]
    \/ SendFails(Connection) /\ UNCHANGED c2s /\ Ends("FrameIoError")

Connect ==
    /\ ClientAt("connect")
    /\ Opened(Connection)
    /\ cli' = [cli EXCEPT !.pc = "challenge"]

ConnectFails ==
    /\ ClientAt("connect")
    /\ Ends("FrameIoError")
    /\ UNCHANGED wireVars

(* What is proved to the server, with the nonces of this connection. *)
OwnProof == ClientProof(peer.client, cli.challenge, ClientNonce(Connection))

RecvChallenge ==
    /\ ClientAt("challenge")
    /\ ClientReceives
    /\ IF IsAuthFrame(Response, "AuthChallenge")
       THEN cli' = [cli EXCEPT !.pc = "prove", !.challenge = Response.payload.nonce]
       ELSE Ends("InvalidChallenge")
    /\ UNCHANGED <<link, c2s>>

SendProof ==
    /\ ClientAt("prove")
    /\ Requesting(MakeAuthFrame("AuthProof", [nonce |-> ClientNonce(Connection),
                                              proof |-> OwnProof]), "result")
    /\ UNCHANGED <<link, s2c>>

(* Mutant: the proof of the server is not compared. *)
ResultStatus_Trusting(frame) ==
    IF frame.type # "AuthResult" \/ frame.rid # 0 \/ frame.tid # 0 THEN "InvalidResult"
    ELSE IF frame.payload.code = "rejected" /\ frame.sized THEN "Rejected"
    ELSE IF frame.payload.code # "accepted" \/ ~frame.sized THEN "InvalidResult"
    ELSE "Success"

(* What the client makes of the result of the server. *)
ResultStatus(frame) ==
    IF frame.type # "AuthResult" \/ frame.rid # 0 \/ frame.tid # 0 THEN "InvalidResult"
    ELSE IF frame.payload.code = "rejected" /\ frame.sized THEN "Rejected"
    ELSE IF frame.payload.code # "accepted" \/ ~frame.sized THEN "InvalidResult"
    ELSE IF frame.payload.proof # ServerProof(peer.client, cli.challenge,
                                              ClientNonce(Connection), OwnProof)
    THEN "InvalidServerProof"
    ELSE "Success"

RecvAuthResult ==
    /\ ClientAt("result")
    /\ ClientReceives
    /\ IF ResultStatus(Response) = "Success" THEN cli' = [cli EXCEPT !.pc = "ping"]
       ELSE Ends(ResultStatus(Response))
    /\ UNCHANGED <<link, c2s>>

(* RAND_bytes or an HMAC fails, before the proof is sent or when the one    *)
(* of the server is to be checked.                                          *)
ClientCryptoFails ==
    /\ \/ ClientAt("prove") /\ UNCHANGED s2c
       \/ /\ ClientAt("result") /\ ClientReceives
          /\ ResultStatus(Response) \in {"Success", "InvalidServerProof"}
    /\ Ends("CryptoError")
    /\ UNCHANGED <<link, c2s>>

SendPing ==
    /\ ClientAt("ping")
    /\ Requesting(Frame("Ping", RequestId, 0, TRUE, NoPayload), "pong")
    /\ UNCHANGED <<link, s2c>>

RecvPong ==
    LET status == ValidateCommon(Response, "Pong")
    IN  /\ ClientAt("pong")
        /\ ClientReceives
        /\ Ends(IF status = "Success" /\ Response.rid # RequestId THEN "MismatchedRequestId"
                ELSE status)
        /\ UNCHANGED <<link, c2s>>

ClientIoFails ==
    /\ cli.pc \in {"challenge", "result", "pong"} /\ RecvFails(s2c, Connection)
    /\ Ends("FrameIoError")
    /\ UNCHANGED wireVars

(* Mutants: every failure is retried; none is. *)
CloseAttempt_AnyFailure ==
    /\ ClientAt("close")
    /\ ClientEndClosed(Connection)
    /\ cli' = IF cli.status # "Success" /\ cli.attempt < MaxRetries
              THEN [cli EXCEPT !.pc = "connect", !.attempt = @ + 1, !.challenge = << >>]
              ELSE [cli EXCEPT !.pc = "done"]

CloseAttempt_Never ==
    /\ ClientAt("close")
    /\ ClientEndClosed(Connection)
    /\ cli' = [cli EXCEPT !.pc = "done"]

(* run_once closes the socket; only a transport failure is retried. *)
CloseAttempt ==
    /\ ClientAt("close")
    /\ ClientEndClosed(Connection)
    /\ cli' = IF cli.status = "FrameIoError" /\ cli.attempt < MaxRetries
              THEN [cli EXCEPT !.pc = "connect", !.attempt = @ + 1, !.challenge = << >>]
              ELSE [cli EXCEPT !.pc = "done"]

ClientStep ==
    \/ Connect \/ RecvChallenge \/ SendProof \/ RecvAuthResult \/ SendPing \/ RecvPong
    \/ ClientIoFails \/ CloseAttempt
-----------------------------------------------------------------------------
(* Other programs.  A stranger connects to the server, answers its          *)
(* challenge with the secret it has, and sends frames of its own.           *)
StrangerConnects(c) == Opened(c) /\ UNCHANGED stray

StrangerSends(c) ==
    /\ link[c] = "up" /\ stray < MaxStray
    /\ c2s[c] = << >>
    /\ \/ \E frame \in Requests : c2s' = SendOn(c2s, c, frame) /\ UNCHANGED s2c
       \/ /\ HasFrame(s2c, c) /\ Head(s2c[c]).type = "AuthChallenge"
          /\ s2c' = Consumed(s2c, c)
          /\ c2s' = SendOn(c2s, c, MakeAuthFrame("AuthProof",
                        [nonce |-> ClientNonce(c),
                         proof |-> ClientProof(peer.other, Head(s2c[c]).payload.nonce,
                                               ClientNonce(c))]))
    /\ stray' = stray + 1
    /\ UNCHANGED link

(* A different program that the client has reached answers the proof with   *)
(* the secret it has, or sends frames of its own.                           *)
ForeignReplies(c) ==
    /\ link[c] = "up" /\ stray < MaxStray
    /\ s2c[c] = << >>
    /\ \/ \E frame \in Replies : s2c' = SendOn(s2c, c, frame) /\ UNCHANGED c2s
       \/ /\ HasFrame(c2s, c) /\ Head(c2s[c]).type = "AuthProof"
          /\ c2s' = Consumed(c2s, c)
          /\ LET proof == Head(c2s[c]).payload.proof
             IN  s2c' = SendOn(s2c, c, AuthResult(TRUE,
                            ServerProof(peer.other, proof.nonces[1], proof.nonces[2], proof)))
    /\ stray' = stray + 1
    /\ UNCHANGED link

Init ==
    /\ WireInit
    /\ ses = [c \in Conns |-> [pc |-> "new", status |-> "none"]]
    /\ cli = [pc |-> "connect", attempt |-> 0, challenge |-> << >>, status |-> "none"]
    /\ peer \in [server : {ServerSecret}, client : Secrets, other : Secrets]
    /\ foreign \in SUBSET Attempts
    /\ faults = 0 /\ stray = 0

ServerRuns(c) == SessionStep(c) /\ UNCHANGED <<cli, peer, foreign, faults, stray>>

ClientRuns == ClientStep /\ UNCHANGED <<ses, peer, foreign, faults, stray>>

OthersRun ==
    /\ \/ \E c \in Strangers : StrangerConnects(c) \/ StrangerSends(c)
       \/ \E c \in foreign : ForeignReplies(c)
    /\ UNCHANGED <<ses, cli, peer, foreign, faults>>

Fault ==
    /\ faults < MaxFaults
    /\ faults' = faults + 1
    /\ UNCHANGED <<peer, foreign, stray>>
    /\ \/ (ConnectFails \/ ClientCryptoFails) /\ UNCHANGED ses
       \/ (\E c \in Conns : Break(c)) /\ UNCHANGED <<ses, cli>>
       \/ (\E c \in Conns : CryptoFails(c)) /\ UNCHANGED cli

Next == (\E c \in Conns : ServerRuns(c)) \/ ClientRuns \/ OthersRun \/ Fault

Spec == Init /\ [][Next]_vars

(* The client runs, and so does every worker of the server; other programs  *)
(* may be silent for ever.                                                  *)
FairSpec == Spec /\ WF_vars(ClientRuns) /\ \A c \in Conns : WF_vars(ServerRuns(c))
-----------------------------------------------------------------------------
Statuses == {"none", "Success", "FrameIoError", "InvalidProof", "Rejected", "PingError",
             "UnsupportedMessage", "RandomGenerationError", "CryptoError"}

(* The server goes beyond authentication, to the first frame and to         *)
(* success, only with a program that holds its secret.                      *)
OnlyAuthenticatedServed ==
    \A c \in Conns :
        ses[c].pc = "first" \/ ses[c].status \in {"Success", "PingError", "UnsupportedMessage"} =>
            peer.server = IF c \in Strangers THEN peer.other ELSE peer.client

(* The client sends its ping, and succeeds, only to a program that holds    *)
(* its secret; if that is the server, it has accepted this very exchange:   *)
(* its session is past authentication, and the challenge that was answered  *)
(* is its own.  In particular no result of an earlier attempt is taken for  *)
(* one of this attempt.                                                     *)
ClientTrustsOnlyPeer ==
    cli.pc \in {"ping", "pong"} \/ cli.status = "Success" =>
        /\ peer.client = IF Connection \in foreign THEN peer.other ELSE peer.server
        /\ Connection \notin foreign =>
              /\ cli.challenge = ServerNonce(Connection)
              /\ ses[Connection].pc = "first"
                 \/ ses[Connection].status \in {"Success", "FrameIoError"}
              /\ cli.status = "Success" => ses[Connection].status = "Success"

(* "Transport failures trigger up to two automatic retries by default;      *)
(* authentication and protocol errors are not retried" (README.md): every   *)
(* attempt behind the first is paid for by a fault, so that a wrong secret  *)
(* or a reply of another program ends the command at once.                  *)
RetriesOnlyFaults == cli.attempt <= faults

(* Neither side waits for the other for ever: against the server every      *)
(* command ends, and so do all sessions that it has opened.                 *)
HandshakeEnds ==
    foreign = {} => <>[](/\ ClientAt("done")
                         /\ \A c \in Attempts : link[c] # "closed" => ses[c].pc = "over")

(* With the same secret on both sides a ping succeeds when no more          *)
(* connections are lost than there are retries, whatever strangers do.      *)
EqualSecretsSucceed ==
    foreign = {} /\ peer.client = peer.server /\ [](cli.status # "CryptoError")
        => <>[](ClientAt("done") /\ cli.status = "Success")
=============================================================================
