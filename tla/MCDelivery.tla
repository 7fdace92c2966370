----------------------------- MODULE MCDelivery -----------------------------
(* Values of Delivery's constants that a .cfg cannot write, and symmetry.    *)
EXTENDS Delivery, TLC

\* Every webhook is for the same source.
MCOneSource == [h \in Hooks |-> CHOOSE s \in Sources : TRUE]

\* Every webhook has a source of its own.
MCOwnSource == CHOOSE f \in [Hooks -> Sources] : \A g, h \in Hooks : g # h => f[g] # f[h]

\* Webhooks of one source, and the workers, are interchangeable (safety runs only).
MCSymmetry == Permutations(Hooks) \cup Permutations(Workers)

=============================================================================
