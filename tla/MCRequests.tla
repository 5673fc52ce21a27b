----------------------------- MODULE MCRequests -----------------------------
(***************************************************************************)
(* The two ways in which people outside the control room reach the server:   *)
(* calls that come in and the field actions that the phones send.  The call   *)
(* service and the mobile platform share nothing, so a behaviour exercises   *)
(* one of them: the runs explore the sum of their states.                     *)
(***************************************************************************)
EXTENDS MCCallService, MCMobileSync

CONSTANTS r1, r2, r3, r4, i1, i2, o1, o2, o3, f1, f2

VARIABLE scope

RequestsInit ==
  /\ Init /\ SyncInit
  /\ scope \in {"calls", "phones"}
  /\ scope = "phones" => incidents = {}

RequestsNext ==
  /\ UNCHANGED scope
  /\ \/ scope = "calls" /\ Next /\ UNCHANGED syncVars
     \/ scope = "phones" /\ SyncNext /\ UNCHANGED vars

RequestsSpec == RequestsInit /\ [][RequestsNext]_<<vars, syncVars, scope>>

\* A behaviour exercises one side only, so a swap of two requests or incidents may
\* come with one of two operations or flights: these generate all permutations of
\* both sides, and no more of them than the calls have alone.
Swap(a, b) == (a :> b) @@ (b :> a)
Swaps ==
  {Swap(r1, r2) @@ Swap(o1, o2), Swap(r2, r3) @@ Swap(o2, o3), Swap(r3, r4) @@ Swap(o1, o2),
   Swap(i1, i2) @@ Swap(f1, f2)}
RequestsSymmetry == Swaps \cup {[r \in Requests |-> r]}
=============================================================================
