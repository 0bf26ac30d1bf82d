-------------------------- MODULE MCInvoicePayments --------------------------
(* Instances of InvoicePayments for TLC.                                     *)
EXTENDS InvoicePayments, TLC

\* The workers, the payment rows and the sessions are interchangeable.
Symmetry ==
    Permutations(Workers) \cup Permutations(PaymentIds) \cup Permutations(Sessions)
=============================================================================
