---------------------------- MODULE MCMobileSync ----------------------------
(* Instances of MobileSync for TLC. *)
EXTENDS MobileSync, TLC

\* A transition that is legal at first and one that is legal only after it.
Steps    == {"en_route", "on_scene"}
Messages == {"text", "blank"}

Nobody    == {}
Departure == {"en_route"}

PhoneSymmetry == Permutations(Ops) \cup Permutations(Flights)
=============================================================================
