---------------------------- MODULE MCFrameStream ----------------------------
(* Frames without and with payload, whose bytes look like a header, and     *)
(* frames with one wrong field each.                                        *)
EXTENDS FrameStream

MCTypes == {1, 2}

Good(type, payload) ==
    [header |-> Header(Magic, Version, type, HeaderSize, Len(payload), 0), payload |-> payload]

Bad ==
    {[header |-> [Good(1, << >>).header EXCEPT !.magic = 0], payload |-> << >>],
     [header |-> [Good(1, << >>).header EXCEPT !.version = 0], payload |-> << >>],
     [header |-> [Good(1, << >>).header EXCEPT !.type = 0], payload |-> << >>],
     [header |-> [Good(1, << >>).header EXCEPT !.size = 0], payload |-> << >>],
     [header |-> [Good(1, << >>).header EXCEPT !.length = MaxPayload + 1], payload |-> <<1>>],
     [header |-> [Good(1, << >>).header EXCEPT !.flags = 1], payload |-> << >>]}

MCScripts ==
    {<<Good(1, <<Magic>>), Good(2, << >>), Good(1, <<Magic, Version, 2>>), Good(2, << >>)>>}
    \cup {<<Good(1, <<Magic>>), bad>> : bad \in Bad}
=============================================================================
