--------------------------- MODULE CallLifecycle ---------------------------
(***************************************************************************)
(* What the call module promises about a call, whoever handles it and      *)
(* however requests interleave: a call is registered once, as new or       *)
(* ringing, and from then on its status only moves along the state         *)
(* machine.  CallService is checked against this specification.            *)
(***************************************************************************)
EXTENDS CallStates

CONSTANT Calls

VARIABLE status

Unregistered == "unregistered"

TypeOK == status \in [Calls -> Statuses \cup {Unregistered}]

Init == status = [c \in Calls |-> Unregistered]

Register(c) == /\ status[c] = Unregistered
               /\ \E s \in {"new", "ringing"} : status' = [status EXCEPT ![c] = s]

Move(c) == /\ status[c] # Unregistered
           /\ \E t \in Transitions[status[c]] : status' = [status EXCEPT ![c] = t]

Next == \E c \in Calls : Register(c) \/ Move(c)

Spec == Init /\ [][Next]_status

=============================================================================
