------------------------- MODULE MCForwardingRules -------------------------
(* Symmetry of ForwardingRules' instances (safety runs only).                 *)
EXTENDS ForwardingRules, TLC

MCSymmetry == Permutations(Editors)

=============================================================================
