----------------------------- MODULE MCQueueTx ------------------------------
(* Values of QueueTx's constants that a .cfg cannot write, and symmetry.     *)
EXTENDS QueueTx, TLC

MCHooks == 1 .. 2

\* Both webhooks are for the same source.
MCOneSource == [h \in Hooks |-> CHOOSE s \in Sources : TRUE]

MCSymmetry == Permutations(Workers) \cup Permutations(Requests)

=============================================================================
