-------------------------- MODULE MCMessagingClient --------------------------
(* Instances of MessagingClient for TLC.                                     *)
EXTENDS MessagingClient, TLC

\* What messages say is interchangeable.
Symmetry == Permutations(Bodies)
=============================================================================
