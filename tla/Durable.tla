------------------------------ MODULE Durable ------------------------------
(***************************************************************************)
(* What fly-server promises of a table it keeps on disk.  "stored" is what *)
(* a restart would read, "acked" what the clients were told.  The stored   *)
(* contents change by one whole entry at a time, never two changes ahead   *)
(* of the answers, and an answer is given only for contents that are       *)
(* stored.  After a restart the clients find what was stored.              *)
(***************************************************************************)
CONSTANTS Cells,    \* the places an entry can be at
          NoEntry   \* the content of an empty cell

VARIABLES stored, acked

vars == <<stored, acked>>

Init ==
    /\ stored = [c \in Cells |-> NoEntry]
    /\ acked = stored

Store ==
    /\ stored = acked
    /\ \E c \in Cells : \A d \in Cells \ {c} : stored'[d] = stored[d]
    /\ UNCHANGED acked

Acknowledge == acked' = stored /\ UNCHANGED stored

Next == Store \/ Acknowledge

Spec == Init /\ [][Next]_vars
=============================================================================
