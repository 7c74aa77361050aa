---------------------------- MODULE MCProfiles -----------------------------
(* Instances of Profiles for TLC. *)
EXTENDS Profiles, TLC

CONSTANTS default, ann, Bob, bob

\* One of the names has a capital letter.
Lowered == [f \in {default, ann, Bob, bob} |-> IF f = Bob THEN bob ELSE f]
=============================================================================
