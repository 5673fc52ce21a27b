-------------------------- MODULE OrderedDelivery --------------------------
(* What offline synchronisation promises a field unit: the server decides    *)
(* every operation the unit reported, once each, in the order in which they   *)
(* were reported. This is the abstract specification of MobileSync.           *)
EXTENDS Naturals, Sequences

CONSTANTS Units, Ops

VARIABLES
  sent,     \* sent[u]: the operations unit u has reported, in order
  decided   \* decided[u]: those the server has decided, in order

vars == <<sent, decided>>

Init == /\ sent = [u \in Units |-> <<>>]
        /\ decided = [u \in Units |-> <<>>]

Submit(u, op) ==
  /\ \A v \in Units : \A i \in DOMAIN sent[v] : sent[v][i] # op
  /\ sent' = [sent EXCEPT ![u] = Append(@, op)]
  /\ UNCHANGED decided

Decide(u) ==
  /\ Len(decided[u]) < Len(sent[u])
  /\ decided' = [decided EXCEPT ![u] = Append(@, sent[u][Len(@) + 1])]
  /\ UNCHANGED sent

Next == \E u \in Units : Decide(u) \/ \E op \in Ops : Submit(u, op)

Spec == Init /\ [][Next]_vars
=============================================================================
