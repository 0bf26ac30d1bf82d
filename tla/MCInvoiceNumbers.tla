--------------------------- MODULE MCInvoiceNumbers ---------------------------
(* Instances of InvoiceNumbers for TLC.                                       *)
EXTENDS InvoiceNumbers, TLC

\* The workers, the invoice rows and the prefixes are interchangeable.
Symmetry ==
    Permutations(Workers) \cup Permutations(Invoices) \cup Permutations(Prefixes)
=============================================================================
