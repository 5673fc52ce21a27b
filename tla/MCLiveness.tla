----------------------------- MODULE MCLiveness -----------------------------
(***************************************************************************)
(* What must eventually happen in the call centre and on the phones of the  *)
(* responders.  The two share nothing, so a behaviour exercises one of them. *)
(***************************************************************************)
EXTENDS MobileSync

CONSTANTS Calls, Requests, Incidents, Dispatchers, PoolSize, MaxRestarts

VARIABLES registered, call, entry, links, history, incidents, leg, req, restarts, scope

Lifecycles == {"create", "status", "assign", "answer", "end"}
CallCentre == INSTANCE CallService WITH Kinds <- Lifecycles, None <- Nothing

Messages == {"text", "blank"}
Nobody == {}

callVars == <<registered, call, entry, links, history, incidents, leg, req, restarts>>
everything == <<syncVars, callVars, scope>>

LivenessInit ==
  /\ SyncInit /\ CallCentre!Init
  /\ scope \in {"calls", "phones"}
  /\ scope = "phones" => incidents = {}

LivenessNext ==
  /\ UNCHANGED scope
  /\ \/ scope = "phones" /\ SyncNext /\ UNCHANGED callVars
     \/ scope = "calls" /\ CallCentre!Next /\ UNCHANGED syncVars

LivenessSpec == LivenessInit /\ [][LivenessNext]_everything /\ CallCentre!Fairness

\* Every request in flight is answered, with success or with an error.
RequestsFinish == CallCentre!RequestsFinish
=============================================================================
