--------------------------- MODULE PaymentRecording ---------------------------
(***************************************************************************)
(* What the Stripe side of invoicing promises, without requests, rows or   *)
(* crashes: money settles at Stripe, the API records it, and only then     *)
(* answers for the event that announced it.                                *)
(***************************************************************************)
CONSTANT Sessions

VARIABLES
    settled,     \* the Checkout Sessions whose money Stripe has
    recorded,    \* those whose payment the API has ever committed
    answered     \* those for which Stripe may stop redelivering

vars == <<settled, recorded, answered>>

Init == settled = {} /\ recorded = {} /\ answered = {}

Settle(s) ==
    /\ s \notin settled
    /\ settled' = settled \cup {s}
    /\ UNCHANGED <<recorded, answered>>

Record(s) ==
    /\ s \in settled
    /\ recorded' = recorded \cup {s}
    /\ UNCHANGED <<settled, answered>>

Answer(s) ==
    /\ s \in recorded
    /\ answered' = answered \cup {s}
    /\ UNCHANGED <<settled, recorded>>

Next == \E s \in Sessions : Settle(s) \/ Record(s) \/ Answer(s)

Spec == Init /\ [][Next]_vars
=============================================================================
