--------------------------- MODULE MCLoginLimiter ---------------------------
(* Symmetry of LoginLimiter's instances (safety runs only).                   *)
EXTENDS LoginLimiter, TLC

MCSymmetry == Permutations(Clients) \cup Permutations(Requests)

=============================================================================
