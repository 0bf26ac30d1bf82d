----------------------------- MODULE MCLiveness -----------------------------
(* Instances of the components with liveness properties for TLC.  A behaviour *)
(* is one of one component ("focus"): they share no state.                    *)
EXTENDS InvoicePayments, RealtimeSocket, RecurringInvoices

VARIABLE focus

parts == <<vars, socketVars, recurringVars>>

\* The components that are not in focus stay in one initial state.
Resting ==
    /\ focus # "payments" => invoice.lined /\ invoice.total = 0
    /\ focus # "recurring" => today = 0

LivenessInit ==
    /\ focus \in {"payments", "socket", "recurring"}
    /\ Init /\ SocketInit /\ RecurringInit /\ Resting

LivenessNext ==
    /\ UNCHANGED focus
    /\ \/ focus = "payments" /\ Next /\ UNCHANGED <<socketVars, recurringVars>>
       \/ focus = "socket" /\ SocketNext /\ UNCHANGED <<vars, recurringVars>>
       \/ focus = "recurring" /\ RecurringNext /\ UNCHANGED <<vars, socketVars>>

\* A component that is not in focus has no step that its fairness demands.
LivenessSpec ==
    /\ LivenessInit /\ [][LivenessNext]_<<focus, parts>>
    /\ Fairness /\ SocketFairness /\ RecurringFairness
=============================================================================
