--------------------------- MODULE MCCallService ---------------------------
(* Instances of CallService for TLC. *)
EXTENDS CallService, TLC

Everything == AllKinds
\* The operations that change a row or a link of the call: what can contend.
Contending == AllKinds \ {"hold", "transfer", "recording", "transcript"}
\* The operations that read and write the call's own columns.
Lifecycles == {"create", "status", "assign", "answer", "end"}

CallSymmetry == Permutations(Requests) \cup Permutations(Incidents)
=============================================================================
