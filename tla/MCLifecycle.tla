---------------------------- MODULE MCLifecycle -----------------------------
(* Values of Lifecycle's constants that a .cfg cannot write.                 *)
EXTENDS Lifecycle

MCConfig(email, password) == [email |-> email, password |-> password]

\* Changes of the address, of the password and of both.
MCChanged == {MCConfig("first", "old"), MCConfig("second", "old"), MCConfig("second", "new")}

\* The address changes, the password stays.
MCRenamed == {MCConfig("first", "same"), MCConfig("second", "same")}

=============================================================================
