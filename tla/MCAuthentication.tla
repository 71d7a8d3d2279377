-------------------------- MODULE MCAuthentication --------------------------
(* Two secrets; other programs that send malformed and misplaced frames. *)
EXTENDS Authentication

MCConns == Attempts \cup Strangers

MCReplies ==
    {MakeAuthFrame("AuthChallenge", [nonce |-> <<"other">>]), Frame("AuthChallenge", 1, 0, TRUE, [nonce |-> <<"other">>]),
     AuthResult(TRUE, NoProof), AuthResult(FALSE, NoProof),
     Frame("AuthResult", 0, 0, FALSE, [code |-> "rejected", proof |-> NoProof]),
     Frame("Pong", RequestId, 0, TRUE, NoPayload), Frame("Pong", RequestId + 1, 0, TRUE, NoPayload)}

MCRequests ==
    {Frame("AuthProof", 0, 0, FALSE, NoPayload),
     MakeAuthFrame("AuthProof", [nonce |-> <<"other">>, proof |-> NoProof]),
     Frame("Ping", 1, 0, TRUE, NoPayload), Frame("Ping", 1, 0, FALSE, NoPayload),
     Frame("Pong", 1, 0, TRUE, NoPayload)}
=============================================================================
