---------------------------- MODULE AtomicUpload ----------------------------
(***************************************************************************)
(* What receive_file promises for the final paths, without partials, wire  *)
(* or sessions: a path changes by one atomic replacement with content that *)
(* was verified in full.  Until the replacement is made durable, a power   *)
(* failure may take the path back to what it showed before; it never shows *)
(* anything else.                                                          *)
(***************************************************************************)
CONSTANTS Paths,
          Verified(_, _),    \* Verified(p, content): content may be committed to p
          Initial            \* the trees to start from: functions on Paths

VARIABLES visible,           \* Paths -> what every process sees
          fallback           \* Paths -> what a power failure may bring back

vars == <<visible, fallback>>

Init == visible \in Initial /\ fallback = [p \in Paths |-> {}]

(* The replacement; it is durable at once, or the old content may return. *)
Replace(p, content) ==
    /\ Verified(p, content)
    /\ visible' = [visible EXCEPT ![p] = content]
    /\ \E left \in {{}, fallback[p] \cup {visible[p]}} :
          fallback' = [fallback EXCEPT ![p] = left]

Settle(p) ==
    /\ fallback' = [fallback EXCEPT ![p] = {}]
    /\ UNCHANGED visible

PowerFailure ==
    /\ \A p \in Paths : visible'[p] \in fallback[p] \cup {visible[p]}
    /\ visible' = [p \in Paths |-> visible'[p]]
    /\ fallback' = [p \in Paths |-> {}]

Next ==
    \/ \E p \in Paths : Settle(p) \/ Replace(p, visible'[p])
    \/ PowerFailure

Spec == Init /\ [][Next]_vars
=============================================================================
