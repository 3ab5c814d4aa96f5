--------------------------- MODULE SettingsLedger ---------------------------
(***************************************************************************)
(* What the settings pipeline promises to the publisher of a message: it   *)
(* waits until it is settled, and it is settled once, either processed or  *)
(* rejected to the dead-letter exchange.  No message is dropped, none is   *)
(* both processed and rejected.                                            *)
(***************************************************************************)
CONSTANT Msgs

VARIABLES waiting, processed, rejected

ledgerVars == <<waiting, processed, rejected>>

Init == waiting = {} /\ processed = {} /\ rejected = {}

Publish(m) ==
    /\ m \notin waiting \cup processed \cup rejected
    /\ waiting' = waiting \cup {m}
    /\ UNCHANGED <<processed, rejected>>

Process(m) ==
    /\ m \in waiting
    /\ waiting' = waiting \ {m}
    /\ processed' = processed \cup {m}
    /\ UNCHANGED rejected

Reject(m) ==
    /\ m \in waiting
    /\ waiting' = waiting \ {m}
    /\ rejected' = rejected \cup {m}
    /\ UNCHANGED processed

Next == \E m \in Msgs : Publish(m) \/ Process(m) \/ Reject(m)

Spec == Init /\ [][Next]_ledgerVars
=============================================================================
