--------------------------- MODULE LedgerDelivery ---------------------------
(***************************************************************************)
(* What the outbox promises, with no rows, leases, workers or faults in    *)
(* sight: an event reaches the downstream store only once the ledger has   *)
(* it, is settled only once the store has it, and is answered only while   *)
(* it is settled.  A lost reply may reopen a settled event; nothing that   *)
(* was recorded, written or answered is ever taken back.                   *)
(***************************************************************************)
CONSTANT Events

VARIABLES
    recorded,   \* the events of the ledger
    written,    \* the events the downstream store holds
    settled,    \* the events no worker will deliver again
    answered    \* the events a caller was told are applied

deliveryVars == <<recorded, written, settled, answered>>

Init == recorded = {} /\ written = {} /\ settled = {} /\ answered = {}

Record(e) ==
    /\ recorded' = recorded \cup {e}
    /\ UNCHANGED <<written, settled, answered>>

Write(e) ==
    /\ e \in recorded
    /\ written' = written \cup {e}
    /\ UNCHANGED <<recorded, settled, answered>>

\* the caller whose delivery it was may be answered in the same step
Settle(e) ==
    /\ e \in written
    /\ settled' = settled \cup {e}
    /\ answered' \in {answered, answered \cup {e}}
    /\ UNCHANGED <<recorded, written>>

Answer(e) ==
    /\ e \in settled
    /\ answered' = answered \cup {e}
    /\ UNCHANGED <<recorded, written, settled>>

Reopen(e) ==
    /\ settled' = settled \ {e}
    /\ UNCHANGED <<recorded, written, answered>>

Next == \E e \in Events : Record(e) \/ Write(e) \/ Settle(e) \/ Answer(e) \/ Reopen(e)

Spec == Init /\ [][Next]_deliveryVars
=============================================================================
