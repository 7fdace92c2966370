------------------------------ MODULE MCIntake ------------------------------
(* Values of Intake's constants that a .cfg cannot write.                     *)
EXTENDS Intake, SequencesExt

MaxParts == 3

\* Now is 20: on time, at the edge of the tolerances, outside, and so far away that the
\* age in nanoseconds wraps to 0.
MCTimes == {18, 20, 21, 52}

MCHeaders == SeqOf(Part, MaxParts)

=============================================================================
