----------------------------- MODULE CallStates -----------------------------
(***************************************************************************)
(* The finite state machine of a call: which statuses exist, which moves   *)
(* between them the service accepts, and the groups of statuses the other  *)
(* rules refer to.  Constant-level: every module about calls extends it.   *)
(***************************************************************************)

Statuses == {"new", "ringing", "accepted", "in_progress", "linked",
             "completed", "cancelled", "error"}

\* A call in one of these is closed: nobody handles it any more.
Closed == {"completed", "cancelled"}

\* The first of these a call enters is the moment it was answered.
Answered == {"accepted", "in_progress", "linked"}

\* The allowed targets of every status.
Transitions ==
  [s \in Statuses |->
     CASE s = "new"         -> {"ringing", "accepted", "linked", "cancelled", "error"}
       [] s = "ringing"     -> {"accepted", "linked", "cancelled", "error"}
       [] s = "accepted"    -> {"in_progress", "linked", "completed", "cancelled", "error"}
       [] s = "in_progress" -> {"linked", "completed", "cancelled", "error"}
       [] s = "linked"      -> {"in_progress", "completed", "cancelled", "error"}
       [] s = "error"       -> {"in_progress", "completed", "cancelled"}
       [] OTHER             -> {}]

CanTransition(s, t) == t \in Transitions[s]

=============================================================================
