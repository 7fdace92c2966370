-------------------------- MODULE MCDeliveryTiming --------------------------
(* Symmetry of DeliveryTiming's instances (safety runs only).                 *)
EXTENDS DeliveryTiming, TLC

MCSymmetry == Permutations(Workers)

=============================================================================
