--------------------------- MODULE SessionLedger ---------------------------
(***************************************************************************)
(* What the session store promises its users, without tokens, handlers or  *)
(* clocks: a session is opened once, under an id never used before, and    *)
(* once closed it is closed for good.  Any number of sessions may be       *)
(* closed by one step (sign out, password reset).                          *)
(***************************************************************************)
CONSTANT Ids
VARIABLE status

Init == status = [s \in Ids |-> "fresh"]

Open(s) ==
    /\ status[s] = "fresh"
    /\ status' = [status EXCEPT ![s] = "open"]

Close(S) ==
    /\ \A s \in S : status[s] = "open"
    /\ status' = [s \in Ids |-> IF s \in S THEN "closed" ELSE status[s]]

Next == (\E s \in Ids : Open(s)) \/ (\E S \in SUBSET Ids : Close(S))

Spec == Init /\ [][Next]_status
=============================================================================
