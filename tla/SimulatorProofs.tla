--------------------------- MODULE SimulatorProofs ---------------------------
(* Units and incidents agree in every session: for every scenario that spawns  *)
(* an incident at most once, every fleet, every way to move the clock and every *)
(* sequence of commands.                                                        *)
EXTENDS Simulator, TLAPS

\* An incident that is still to be spawned is not in the world yet: this is what keeps
\* a spawn from overwriting an incident that units work on.
SpawnsAreFresh ==
  \A n \in queue : events[n].kind = "spawn" => incident[events[n].of].status = "absent"

\* A pending incident has no units that a first dispatch would release.
PendingHasNone ==
  \A i \in Incidents : incident[i].status = "pending" => Elements(incident[i].units) = {}

IInv == TypeOK /\ UnitsAgree /\ BusyMeansAssigned /\ SpawnsAreFresh /\ PendingHasNone

Statuses == {"available", "busy", "broken", "unavailable"}

\* What the constants promise of an event at a position of the scenario.
LEMMA EventType ==
  ASSUME events \in Scenarios, NEW n \in DOMAIN events
  PROVE  /\ events[n].time \in Nat
         /\ \/ events[n].kind = "spawn" /\ events[n].of \in Incidents
            \/ events[n].kind \in UnitEvents /\ events[n].of \in Units
<1>1. events \in Seq(ScheduledEvents)
  BY ScenarioAssumption
<1>2. events[n] \in ScheduledEvents
  BY <1>1
<1>3. QED BY <1>2 DEF ScheduledEvents

LEMMA SpawnedOnce ==
  ASSUME events \in Scenarios, NEW m \in DOMAIN events, NEW n \in DOMAIN events,
         events[m].kind = "spawn", events[n].kind = "spawn", events[m].of = events[n].of
  PROVE  m = n
BY ScenarioAssumption

\* The units named in a list are units.
LEMMA ElementsType ==
  ASSUME NEW S, NEW s \in Seq(S)
  PROVE  Elements(s) \subseteq S
BY DEF Elements

LEMMA InitIInv == Init => IInv
<1> SUFFICES ASSUME Init PROVE IInv
  OBVIOUS
<1>1. TypeOK
  <2>1. incident \in [Incidents -> IncidentRows]
    BY DEF Init, Absent, IncidentRows
  <2>2. QED BY <2>1 DEF Init, TypeOK
<1>2. UnitsAgree
  BY NoneAssumption DEF Init, UnitsAgree, Absent
<1>3. BusyMeansAssigned
  BY DEF Init, BusyMeansAssigned
<1>4. SpawnsAreFresh
  BY EventType DEF Init, SpawnsAreFresh, Absent, UnitEvents
<1>5. PendingHasNone
  BY DEF Init, PendingHasNone, Absent
<1>6. QED BY <1>1, <1>2, <1>3, <1>4, <1>5 DEF IInv

-----------------------------------------------------------------------------
(* Steps that leave the world alone. *)

LEMMA WorldStands ==
  ASSUME IInv, TypeOK', UNCHANGED <<status, assigned, incident, queue, events>>
  PROVE  IInv'
BY DEF IInv, UnitsAgree, BusyMeansAssigned, SpawnsAreFresh, PendingHasNone

-----------------------------------------------------------------------------
(* Events. *)

LEMMA SpawnKeeps ==
  ASSUME IInv, NEW n \in queue, queue' = queue \ {n}, UNCHANGED events,
         events[n].kind = "spawn", Spawn(events[n].of, events[n].time)
  PROVE  /\ incident' \in [Incidents -> IncidentRows]
         /\ UnitsAgree' /\ BusyMeansAssigned' /\ SpawnsAreFresh' /\ PendingHasNone'
<1> DEFINE i == events[n].of
           t == events[n].time
           q == [status |-> "pending", created |-> t, units |-> <<>>]
<1>1. n \in DOMAIN events /\ i \in Incidents /\ t \in Nat
  BY EventType DEF IInv, TypeOK, UnitEvents
<1>2. incident[i].status = "absent"
  BY DEF IInv, SpawnsAreFresh
<1>3. q \in IncidentRows
  BY <1>1 DEF IncidentRows
<1>4. incident' = [incident EXCEPT ![i] = q] /\ UNCHANGED <<status, assigned>>
  BY DEF Spawn, units
<1>5. q.status = "pending" /\ Elements(q.units) = {}
  BY DEF Elements
<1>6. incident \in [Incidents -> IncidentRows]
  BY DEF IInv, TypeOK
<1>7. ASSUME NEW m \in queue', events[m].kind = "spawn" PROVE events[m].of # i
  <2>1. m \in DOMAIN events /\ m # n
    BY <1>7 DEF IInv, TypeOK
  <2>2. QED BY <2>1, <1>1, <1>7, SpawnedOnce DEF IInv, TypeOK
<1> HIDE DEF i, t, q
<1>8. incident' \in [Incidents -> IncidentRows]
  BY <1>3, <1>4, <1>6
<1>9. ASSUME NEW u \in Units, NEW j \in Incidents
      PROVE  assigned'[u] = j <=> incident'[j].status = "dispatched"
                                  /\ u \in Elements(incident'[j].units)
  <2>1. CASE j = i
    BY <2>1, <1>1, <1>2, <1>4, <1>5, <1>6 DEF IInv, UnitsAgree
  <2>2. CASE j # i
    BY <2>2, <1>4, <1>6 DEF IInv, UnitsAgree
  <2>3. QED BY <2>1, <2>2
<1>10. UnitsAgree'
  BY <1>9 DEF UnitsAgree
<1>11. BusyMeansAssigned'
  BY <1>4 DEF IInv, BusyMeansAssigned
<1>12. SpawnsAreFresh'
  <2> SUFFICES ASSUME NEW m \in queue', events[m].kind = "spawn"
               PROVE  incident'[events[m].of].status = "absent"
    BY DEF SpawnsAreFresh
  <2>1. m \in queue /\ m \in DOMAIN events
    BY DEF IInv, TypeOK
  <2>2. events[m].of \in Incidents /\ events[m].of # i
    BY <2>1, <1>7, EventType DEF IInv, TypeOK, UnitEvents
  <2>3. QED BY <2>1, <2>2, <1>4, <1>6 DEF IInv, SpawnsAreFresh
<1>13. PendingHasNone'
  BY <1>4, <1>5, <1>6 DEF IInv, PendingHasNone
<1>14. QED BY <1>8, <1>10, <1>11, <1>12, <1>13

LEMMA UnitEventKeeps ==
  ASSUME IInv, NEW n \in queue, queue' = queue \ {n}, UNCHANGED events,
         NEW u \in Units, NEW s \in {"broken", "available", "unavailable"},
         SetUnitStatus(u, s)
  PROVE  /\ status' \in [Units -> Statuses]
         /\ UnitsAgree' /\ BusyMeansAssigned' /\ SpawnsAreFresh' /\ PendingHasNone'
<1>1. status' \in [Units -> Statuses] /\ UNCHANGED <<assigned, incident>>
  BY DEF IInv, TypeOK, SetUnitStatus, Statuses
<1>2. UnitsAgree' /\ SpawnsAreFresh' /\ PendingHasNone'
  BY <1>1 DEF IInv, UnitsAgree, SpawnsAreFresh, PendingHasNone
<1>3. ASSUME NEW v \in Units
      PROVE  IF assigned'[v] = None THEN status'[v] # "busy"
             ELSE status'[v] \in {"busy", "broken"}
  <2>1. CASE v = u
    BY <2>1, <1>1 DEF IInv, TypeOK, BusyMeansAssigned, SetUnitStatus
  <2>2. CASE v # u
    BY <2>2, <1>1 DEF IInv, TypeOK, BusyMeansAssigned, SetUnitStatus
  <2>3. QED BY <2>1, <2>2
<1>4. QED BY <1>1, <1>2, <1>3 DEF BusyMeansAssigned

LEMMA ApplyEventKeeps ==
  ASSUME IInv, ApplyEvent
  PROVE  IInv'
<1>1. PICK n \in queue :
        /\ queue' = queue \ {n}
        /\ \/ events[n].kind = "spawn" /\ Spawn(events[n].of, events[n].time)
           \/ events[n].kind = "breakdown" /\ SetUnitStatus(events[n].of, "broken")
           \/ /\ events[n].kind \in {"repair", "available"}
              /\ SetUnitStatus(events[n].of, "available")
           \/ events[n].kind = "unavailable" /\ SetUnitStatus(events[n].of, "unavailable")
  BY DEF ApplyEvent, Due
<1>2. UNCHANGED <<events, due, clock, paused, first, session, phase, iterations, report>>
  BY DEF ApplyEvent
<1>3. queue' \subseteq DOMAIN events
  BY <1>1 DEF IInv, TypeOK
<1>4. CASE events[n].kind = "spawn" /\ Spawn(events[n].of, events[n].time)
  <2>1. UNCHANGED <<status, assigned>>
    BY <1>4 DEF Spawn, units
  <2>2. /\ incident' \in [Incidents -> IncidentRows]
        /\ UnitsAgree' /\ BusyMeansAssigned' /\ SpawnsAreFresh' /\ PendingHasNone'
    BY <1>1, <1>2, <1>4, SpawnKeeps
  <2>3. TypeOK'
    BY <1>2, <1>3, <2>1, <2>2 DEF IInv, TypeOK
  <2>4. QED BY <2>2, <2>3 DEF IInv
<1>5. ASSUME NEW s \in {"broken", "available", "unavailable"}, events[n].kind # "spawn",
             SetUnitStatus(events[n].of, s)
      PROVE  IInv'
  <2>1. events[n].of \in Units
    BY <1>5, EventType DEF IInv, TypeOK
  <2>2. UNCHANGED <<assigned, incident>>
    BY <1>5 DEF SetUnitStatus
  <2>3. PICK u \in Units : u = events[n].of
    BY <2>1
  <2>4. /\ status' \in [Units -> Statuses]
        /\ UnitsAgree' /\ BusyMeansAssigned' /\ SpawnsAreFresh' /\ PendingHasNone'
    BY <1>1, <1>2, <1>5, <2>3, UnitEventKeeps
  <2>5. TypeOK'
    BY <1>2, <1>3, <2>2, <2>4 DEF IInv, TypeOK, Statuses
  <2>6. QED BY <2>4, <2>5 DEF IInv
<1>6. QED BY <1>1, <1>4, <1>5

-----------------------------------------------------------------------------
(* Resolution. *)

\* A set of dispatched incidents is resolved and their units released; the others keep
\* theirs. Progress may let other incidents expire in the same step.
LEMMA ResolveKeeps ==
  ASSUME IInv, NEW I \in SUBSET Incidents, NEW X \in SUBSET Incidents,
         \A i \in I : incident[i].status = "dispatched",
         \A i \in X : incident[i].status = "pending",
         ResolveAll(I), UNCHANGED <<queue, events>>,
         incident' = [i \in Incidents |->
           [incident[i] EXCEPT !.status = IF i \in I THEN "resolved"
                                          ELSE IF i \in X THEN "expired" ELSE @]]
  PROVE  /\ status' \in [Units -> Statuses]
         /\ assigned' \in [Units -> Incidents \cup {None}]
         /\ due' \in [Incidents -> Nat \cup {None}]
         /\ incident' \in [Incidents -> IncidentRows]
         /\ UnitsAgree' /\ BusyMeansAssigned' /\ SpawnsAreFresh' /\ PendingHasNone'
<1> DEFINE U == CrewOf(I)
<1>1. /\ status' = [u \in Units |-> IF u \in U THEN "available" ELSE status[u]]
      /\ assigned' = [u \in Units |-> IF u \in U THEN None ELSE assigned[u]]
      /\ due' = [i \in Incidents |-> IF i \in I THEN None ELSE due[i]]
  BY DEF ResolveAll, Release
<1>2. \A u : u \in U <=> \E i \in I : u \in Elements(incident[i].units)
  BY DEF CrewOf
<1> HIDE DEF U
<1>3. ASSUME NEW i \in Incidents
      PROVE  /\ incident'[i] \in IncidentRows
             /\ incident'[i].units = incident[i].units
             /\ incident'[i].status = IF i \in I THEN "resolved"
                                      ELSE IF i \in X THEN "expired" ELSE incident[i].status
  <2>1. incident[i] \in IncidentRows
    BY DEF IInv, TypeOK
  <2>2. QED BY <2>1 DEF IncidentRows
<1>4. incident' \in [Incidents -> IncidentRows]
  BY <1>3
<1>5. /\ status' \in [Units -> Statuses]
      /\ assigned' \in [Units -> Incidents \cup {None}]
      /\ due' \in [Incidents -> Nat \cup {None}]
  BY <1>1 DEF IInv, TypeOK, Statuses
<1>6. ASSUME NEW u \in Units, NEW i \in Incidents
      PROVE  assigned'[u] = i <=> incident'[i].status = "dispatched"
                                  /\ u \in Elements(incident'[i].units)
  <2>1. assigned[u] = i <=> incident[i].status = "dispatched"
                            /\ u \in Elements(incident[i].units)
    BY DEF IInv, UnitsAgree
  <2>2. CASE u \in U
    <3>1. PICK j \in I : u \in Elements(incident[j].units)
      BY <1>2, <2>2
    <3>2. assigned[u] = j
      BY <3>1 DEF IInv, UnitsAgree
    <3>3. assigned'[u] = None /\ None # i
      BY <1>1, <2>2, NoneAssumption
    <3>4. QED BY <1>3, <2>1, <3>1, <3>2, <3>3
  <2>3. CASE u \notin U
    <3>1. assigned'[u] = assigned[u]
      BY <1>1, <2>3
    <3>2. i \in I => u \notin Elements(incident[i].units)
      BY <1>2, <2>3
    <3>3. i \in X => incident[i].status = "pending"
      OBVIOUS
    <3>4. QED BY <1>3, <2>1, <3>1, <3>2, <3>3
  <2>4. QED BY <2>2, <2>3
<1>7. UnitsAgree'
  BY <1>6 DEF UnitsAgree
<1>8. BusyMeansAssigned'
  BY <1>1 DEF IInv, BusyMeansAssigned
<1>9. SpawnsAreFresh'
  <2> SUFFICES ASSUME NEW n \in queue, events[n].kind = "spawn"
               PROVE  incident'[events[n].of].status = "absent"
    BY DEF SpawnsAreFresh
  <2>1. events[n].of \in Incidents /\ incident[events[n].of].status = "absent"
    BY EventType DEF IInv, TypeOK, SpawnsAreFresh, UnitEvents
  <2>2. events[n].of \notin I /\ events[n].of \notin X
    BY <2>1
  <2>3. QED BY <1>3, <2>1, <2>2
<1>10. PendingHasNone'
  <2> SUFFICES ASSUME NEW i \in Incidents, incident'[i].status = "pending"
               PROVE  Elements(incident'[i].units) = {}
    BY DEF PendingHasNone
  <2>1. incident[i].status = "pending" /\ incident'[i].units = incident[i].units
    BY <1>3
  <2>2. Elements(incident[i].units) = {}
    BY <2>1 DEF IInv, PendingHasNone
  <2>3. QED BY <2>1, <2>2
<1>11. QED BY <1>4, <1>5, <1>7, <1>8, <1>9, <1>10

LEMMA ProgressKeeps ==
  ASSUME IInv, Progress
  PROVE  IInv'
<1>1. Done \subseteq Incidents /\ Overdue \subseteq Incidents
  BY DEF Done, Overdue
<1>2. /\ \A i \in Done : incident[i].status = "dispatched"
      /\ \A i \in Overdue : incident[i].status = "pending"
  BY DEF Done, Overdue
<1>3. /\ ResolveAll(Done)
      /\ incident' = [i \in Incidents |->
           [incident[i] EXCEPT !.status = IF i \in Done THEN "resolved"
                                          ELSE IF i \in Overdue THEN "expired" ELSE @]]
      /\ UNCHANGED <<events, queue, clock, paused, first, iterations, report>>
      /\ phase' \in {"idle", "settling"}
      /\ phase' = "settling" => iterations # None
      /\ session' \in {session, "completed"}
  BY DEF Progress, Refresh
<1>4. PICK I \in SUBSET Incidents, X \in SUBSET Incidents : I = Done /\ X = Overdue
  BY <1>1
<1>5. /\ status' \in [Units -> Statuses]
      /\ assigned' \in [Units -> Incidents \cup {None}]
      /\ due' \in [Incidents -> Nat \cup {None}]
      /\ incident' \in [Incidents -> IncidentRows]
      /\ UnitsAgree' /\ BusyMeansAssigned' /\ SpawnsAreFresh' /\ PendingHasNone'
  BY <1>2, <1>3, <1>4, ResolveKeeps
<1>6. TypeOK'
  BY <1>3, <1>5 DEF IInv, TypeOK, Statuses
<1>7. QED BY <1>5, <1>6 DEF IInv

LEMMA ResolveOneKeeps ==
  ASSUME IInv, NEW i \in Incidents, Resolve(i)
  PROVE  IInv'
<1>1. /\ incident[i].status = "dispatched"
      /\ ResolveAll({i})
      /\ incident' = [incident EXCEPT ![i].status = "resolved"]
      /\ UNCHANGED <<events, queue, clock, paused, first, session, phase, iterations, report>>
  BY DEF Resolve
<1> DEFINE I == {i}
           X == {}
<1>2. incident' = [j \in Incidents |->
           [incident[j] EXCEPT !.status = IF j \in I THEN "resolved"
                                          ELSE IF j \in X THEN "expired" ELSE @]]
  <2>1. \A j \in Incidents : incident[j] \in IncidentRows
    BY DEF IInv, TypeOK
  <2>2. \A j \in Incidents : [incident[j] EXCEPT !.status = incident[j].status] = incident[j]
    BY <2>1 DEF IncidentRows
  <2>3. incident \in [Incidents -> IncidentRows]
    BY DEF IInv, TypeOK
  <2>4. QED BY <1>1, <2>2, <2>3
<1>3. /\ status' \in [Units -> Statuses]
      /\ assigned' \in [Units -> Incidents \cup {None}]
      /\ due' \in [Incidents -> Nat \cup {None}]
      /\ incident' \in [Incidents -> IncidentRows]
      /\ UnitsAgree' /\ BusyMeansAssigned' /\ SpawnsAreFresh' /\ PendingHasNone'
  <2>1. /\ I \in SUBSET Incidents /\ X \in SUBSET Incidents
        /\ \A j \in I : incident[j].status = "dispatched"
        /\ \A j \in X : incident[j].status = "pending"
        /\ ResolveAll(I) /\ UNCHANGED <<queue, events>>
    BY <1>1
  <2> HIDE DEF I, X
  <2>2. QED BY <1>2, <2>1, ResolveKeeps
<1>4. TypeOK'
  BY <1>1, <1>3 DEF IInv, TypeOK, Statuses
<1>5. QED BY <1>3, <1>4 DEF IInv

-----------------------------------------------------------------------------
(* Dispatch. *)

\* What an incident looks like once list is sent to it, and that its units are exactly
\* the ones assigned to it.
LEMMA AssignKeeps ==
  ASSUME IInv, NEW i \in Incidents, NEW list \in Seq(Units), NEW d \in Nat \cup {None},
         Active(incident[i].status), \A u \in Elements(list) : Dispatchable(u),
         Assign(i, list, d), UNCHANGED <<queue, events>>
  PROVE  /\ status' \in [Units -> Statuses]
         /\ assigned' \in [Units -> Incidents \cup {None}]
         /\ due' \in [Incidents -> Nat \cup {None}]
         /\ incident' \in [Incidents -> IncidentRows]
         /\ UnitsAgree' /\ BusyMeansAssigned' /\ SpawnsAreFresh' /\ PendingHasNone'
<1> DEFINE L == Elements(list)
           F == Elements(incident[i].units) \ L
<1>1. /\ status' = [u \in Units |-> IF u \in L THEN "busy"
                                    ELSE IF u \in F THEN "available" ELSE status[u]]
      /\ assigned' = [u \in Units |-> IF u \in L THEN i
                                      ELSE IF u \in F THEN None ELSE assigned[u]]
      /\ incident' = [incident EXCEPT ![i].status = "dispatched", ![i].units = list]
      /\ due' = [due EXCEPT ![i] = IF d = None THEN None ELSE clock + d]
  BY DEF Assign
<1>2. L \subseteq Units
  BY ElementsType
<1>3. \A u \in L : status[u] = "available" /\ assigned[u] = None
  BY <1>2 DEF Dispatchable, IInv, BusyMeansAssigned
<1>4. incident[i] \in IncidentRows /\ incident \in [Incidents -> IncidentRows]
  BY DEF IInv, TypeOK
<1>5. /\ incident'[i] \in IncidentRows
      /\ incident'[i].status = "dispatched" /\ incident'[i].units = list
      /\ \A j \in Incidents \ {i} : incident'[j] = incident[j]
  BY <1>1, <1>4 DEF IncidentRows
<1>6. \A u : u \in F <=> u \in Elements(incident[i].units) /\ u \notin L
  OBVIOUS
<1> HIDE DEF L, F
<1>7. incident' \in [Incidents -> IncidentRows]
  BY <1>1, <1>4, <1>5
<1>8. /\ status' \in [Units -> Statuses]
      /\ assigned' \in [Units -> Incidents \cup {None}]
  BY <1>1 DEF IInv, TypeOK, Statuses
<1>9. due' \in [Incidents -> Nat \cup {None}]
  <2>1. clock + d \in Nat \/ d = None
    BY DEF IInv, TypeOK
  <2>2. QED BY <1>1, <2>1 DEF IInv, TypeOK
<1>10. ASSUME NEW u \in Units, NEW j \in Incidents
       PROVE  assigned'[u] = j <=> incident'[j].status = "dispatched"
                                   /\ u \in Elements(incident'[j].units)
  <2>1. /\ assigned[u] = j <=> incident[j].status = "dispatched"
                               /\ u \in Elements(incident[j].units)
        /\ assigned[u] = i <=> incident[i].status = "dispatched"
                               /\ u \in Elements(incident[i].units)
    BY DEF IInv, UnitsAgree
  <2>2. None # j
    BY NoneAssumption
  <2>3. CASE u \in L
    <3>1. assigned'[u] = i /\ assigned[u] = None
      BY <1>1, <1>3, <2>3
    <3>2. CASE j = i
      BY <1>5, <2>3, <3>1, <3>2 DEF L
    <3>3. CASE j # i
      BY <1>5, <2>1, <2>2, <3>1, <3>3
    <3>4. QED BY <3>2, <3>3
  <2>4. CASE u \notin L
    <3>1. assigned'[u] = IF u \in F THEN None ELSE assigned[u]
      BY <1>1, <2>4
    <3>2. CASE j = i
      <4>1. u \notin Elements(incident'[j].units)
        BY <1>5, <2>4, <3>2 DEF L
      <4>2. assigned[u] = i => u \in F
        BY <1>6, <2>1, <2>4
      <4>3. QED BY <2>2, <3>1, <3>2, <4>1, <4>2
    <3>3. CASE j # i
      <4>1. incident'[j] = incident[j]
        BY <1>5, <3>3
      <4>2. CASE u \in F /\ incident[i].status = "dispatched"
        <5>1. assigned[u] = i
          BY <1>6, <2>1, <4>2
        <5>2. QED BY <2>1, <2>2, <3>1, <3>3, <4>1, <4>2, <5>1
      <4>3. CASE u \in F /\ incident[i].status = "pending"
        BY <1>6, <4>3 DEF IInv, PendingHasNone
      <4>4. CASE u \notin F
        BY <2>1, <3>1, <4>1, <4>4
      <4>5. QED BY <4>2, <4>3, <4>4 DEF Active
    <3>4. QED BY <3>2, <3>3
  <2>5. QED BY <2>3, <2>4
<1>11. UnitsAgree'
  BY <1>10 DEF UnitsAgree
<1>12. BusyMeansAssigned'
  <2>1. ASSUME NEW u \in Units
        PROVE  IF assigned'[u] = None THEN status'[u] # "busy"
               ELSE status'[u] \in {"busy", "broken"}
    BY <1>1, NoneAssumption DEF IInv, BusyMeansAssigned
  <2>2. QED BY <2>1 DEF BusyMeansAssigned
<1>13. SpawnsAreFresh'
  <2> SUFFICES ASSUME NEW n \in queue, events[n].kind = "spawn"
               PROVE  incident'[events[n].of].status = "absent"
    BY DEF SpawnsAreFresh
  <2>1. events[n].of \in Incidents /\ incident[events[n].of].status = "absent"
    BY EventType DEF IInv, TypeOK, SpawnsAreFresh, UnitEvents
  <2>2. events[n].of # i
    BY <2>1 DEF Active
  <2>3. QED BY <1>5, <2>1, <2>2
<1>14. PendingHasNone'
  BY <1>5 DEF IInv, PendingHasNone
<1>15. QED BY <1>7, <1>8, <1>9, <1>11, <1>12, <1>13, <1>14

LEMMA DispatchKeeps ==
  ASSUME IInv, NEW i \in Incidents, NEW list \in UnitLists, NEW d \in Durations,
         Dispatch(i, list, d)
  PROVE  IInv'
<1>1. /\ Active(incident[i].status) /\ \A u \in Elements(list) : Dispatchable(u)
      /\ Assign(i, list, d)
      /\ first' = [first EXCEPT ![i] = IF @ = None THEN clock ELSE @]
      /\ UNCHANGED <<events, queue, clock, paused, session, phase, iterations, report>>
  BY DEF Dispatch
<1>2. list \in Seq(Units) /\ d \in Nat \cup {None}
  BY UnitListAssumption, NumberAssumption
<1>3. /\ status' \in [Units -> Statuses]
      /\ assigned' \in [Units -> Incidents \cup {None}]
      /\ due' \in [Incidents -> Nat \cup {None}]
      /\ incident' \in [Incidents -> IncidentRows]
      /\ UnitsAgree' /\ BusyMeansAssigned' /\ SpawnsAreFresh' /\ PendingHasNone'
  BY <1>1, <1>2, AssignKeeps
<1>4. first' \in [Incidents -> Nat \cup {None}]
  BY <1>1 DEF IInv, TypeOK
<1>5. TypeOK'
  BY <1>1, <1>3, <1>4 DEF IInv, TypeOK, Statuses
<1>6. QED BY <1>3, <1>5 DEF IInv

-----------------------------------------------------------------------------
(* Playback and stop. *)

LEMMA PlaybackKeeps ==
  ASSUME IInv,
         \/ \E k \in Advances : Advance(k)
         \/ Step \/ Pause \/ Resume \/ GetSession \/ Stop \/ SettleStep \/ Report
  PROVE  IInv'
<1>1. UNCHANGED <<status, assigned, incident, due, queue, events, first>>
  BY DEF Advance, Step, Pause, Resume, SetPaused, GetSession, Stop, SettleStep, Report,
         MoveClock, world, units
<1>2. clock' \in Nat
  BY NumberAssumption DEF Advance, Step, Pause, Resume, SetPaused, GetSession, Stop,
     SettleStep, Report, MoveClock, IInv, TypeOK
<1>3. /\ paused' \in BOOLEAN
      /\ session' \in {"running", "paused", "stopped", "completed"}
      /\ phase' \in {"idle", "events", "settling"}
  BY DEF Advance, Step, Pause, Resume, SetPaused, GetSession, Stop, SettleStep, Report,
     MoveClock, Refresh, IInv, TypeOK
<1>4. iterations' \in Nat \cup {None} /\ (phase' = "settling" => iterations' # None)
  BY NoneAssumption DEF Advance, Step, Pause, Resume, SetPaused, GetSession, Stop,
     SettleStep, Report, MoveClock, IInv, TypeOK
<1>5. report' \in Reports \cup {None}
  <2>1. Evaluation \in Reports
    BY DEF Evaluation, Reports, Spawned
  <2>2. QED BY <2>1 DEF Advance, Step, Pause, Resume, SetPaused, GetSession, Stop, SettleStep,
               Report, MoveClock, IInv, TypeOK
<1>6. TypeOK'
  BY <1>1, <1>2, <1>3, <1>4, <1>5 DEF IInv, TypeOK
<1>7. QED BY <1>1, <1>6, WorldStands

LEMMA NextIInv == IInv /\ [Next]_vars => IInv'
<1> SUFFICES ASSUME IInv, [Next]_vars PROVE IInv'
  OBVIOUS
<1>1. CASE UNCHANGED vars
  BY <1>1 DEF vars, world, units, IInv, TypeOK, UnitsAgree, BusyMeansAssigned,
     SpawnsAreFresh, PendingHasNone
<1>2. CASE ApplyEvent
  BY <1>2, ApplyEventKeeps
<1>3. CASE Progress
  BY <1>3, ProgressKeeps
<1>4. CASE \/ \E k \in Advances : Advance(k)
           \/ Step \/ Pause \/ Resume \/ GetSession \/ Stop \/ SettleStep \/ Report
  BY <1>4, PlaybackKeeps
<1>5. ASSUME NEW i \in Incidents, Resolve(i) PROVE IInv'
  BY <1>5, ResolveOneKeeps
<1>6. ASSUME NEW i \in Incidents, NEW list \in UnitLists, NEW d \in Durations,
             Dispatch(i, list, d)
      PROVE  IInv'
  BY <1>6, DispatchKeeps
<1>7. QED BY <1>1, <1>2, <1>3, <1>4, <1>5, <1>6 DEF Next, Handler

-----------------------------------------------------------------------------
THEOREM InvHolds == Spec => []IInv
BY InitIInv, NextIInv, PTL DEF Spec

\* The world, the session and the report keep their shapes.
THEOREM TypeCorrect == Spec => []TypeOK
<1>1. IInv => TypeOK
  BY DEF IInv
<1>2. QED BY <1>1, InvHolds, PTL

\* Every unit and every incident agree on who works on what, through reassignments,
\* breakdowns, resolutions and expiries.
THEOREM UnitsAlwaysAgree == Spec => []UnitsAgree
<1>1. IInv => UnitsAgree
  BY DEF IInv
<1>2. QED BY <1>1, InvHolds, PTL

\* Only assigned units are busy, and no event but a breakdown changes an assigned one.
THEOREM BusyAlwaysAssigned == Spec => []BusyMeansAssigned
<1>1. IInv => BusyMeansAssigned
  BY DEF IInv
<1>2. QED BY <1>1, InvHolds, PTL

\* Both together: units and incidents tell one story.
THEOREM WorldAlwaysAgrees == Spec => []WorldAgrees
<1>1. UnitsAgree /\ BusyMeansAssigned => WorldAgrees
  BY DEF WorldAgrees
<1>2. QED BY <1>1, UnitsAlwaysAgree, BusyAlwaysAssigned, PTL

\* What is resolved or expired is over: no spawn, dispatch or resolution touches it.
THEOREM SettledStaysFinal == Spec => SettledIsFinal
<1>1. ASSUME IInv, [Next]_vars, NEW i \in Incidents,
             incident[i].status \in {"resolved", "expired"}
      PROVE  incident'[i] = incident[i]
  <2>1. incident \in [Incidents -> IncidentRows] /\ incident[i] \in IncidentRows
    BY <1>1 DEF IInv, TypeOK
  <2>2. CASE ApplyEvent
    <3>1. PICK n \in queue : \/ /\ events[n].kind = "spawn"
                               /\ Spawn(events[n].of, events[n].time)
                            \/ UNCHANGED incident
      BY <2>2 DEF ApplyEvent, Due, SetUnitStatus
    <3>2. CASE events[n].kind = "spawn" /\ Spawn(events[n].of, events[n].time)
      <4>1. events[n].of # i
        BY <1>1, <3>2 DEF IInv, SpawnsAreFresh
      <4>2. QED BY <2>1, <3>2, <4>1 DEF Spawn
    <3>3. QED BY <3>1, <3>2
  <2>3. CASE Progress
    <3>1. i \notin Done /\ i \notin Overdue
      BY <1>1 DEF Done, Overdue
    <3>2. incident'[i] = [incident[i] EXCEPT !.status = incident[i].status]
      BY <2>3, <3>1 DEF Progress
    <3>3. QED BY <2>1, <3>2 DEF IncidentRows
  <2>4. ASSUME NEW j \in Incidents, Resolve(j) PROVE incident'[i] = incident[i]
    BY <1>1, <2>1, <2>4 DEF Resolve
  <2>5. ASSUME NEW j \in Incidents, NEW list \in UnitLists, NEW d \in Durations,
               Dispatch(j, list, d)
        PROVE  incident'[i] = incident[i]
    BY <1>1, <2>1, <2>5 DEF Dispatch, Assign, Active
  <2>6. CASE \/ \E k \in Advances : Advance(k)
             \/ Step \/ Pause \/ Resume \/ GetSession \/ Stop \/ SettleStep \/ Report
             \/ UNCHANGED vars
    BY <2>6 DEF Advance, Step, Pause, Resume, SetPaused, GetSession, Stop, SettleStep, Report,
       MoveClock, world, vars
  <2>7. QED BY <1>1, <2>2, <2>3, <2>4, <2>5, <2>6 DEF Next, Handler
<1>2. IInv /\ [Next]_vars =>
        [\A i \in Incidents : incident[i].status \in {"resolved", "expired"}
           => incident'[i] = incident[i]]_vars
  BY <1>1
<1>3. QED BY <1>2, InvHolds, PTL DEF Spec, SettledIsFinal

-----------------------------------------------------------------------------
(* Nothing is missed: what has to hold while a handler runs for nothing to be *)
(* overdue when it ends, and for the report to account for the scenario.      *)

\* But for a clock at zero, a handler that is not processing events has none to process.
UpToDate ==
  phase # "events" =>
    /\ clock > 0 => Due = {}
    /\ \A i \in Incidents :
         /\ incident[i].status = "pending" => clock <= incident[i].created + Deadline[i]
         /\ incident[i].status = "dispatched" => due[i] = None \/ clock <= due[i]

\* A reaction is recorded once an incident is dispatched, and not before it exists.
Reacted ==
  \A i \in Incidents :
    /\ incident[i].status = "absent" => first[i] = None
    /\ incident[i].status # "absent" => incident[i].created <= clock
    /\ incident[i].status = "dispatched" => first[i] # None
    /\ first[i] # None => first[i] \in incident[i].created .. incident[i].created + Deadline[i]

\* The incidents of the world are those whose event has left the queue.
SpawnsAreKnown ==
  \A i \in Incidents :
    IF incident[i].status = "absent"
      THEN \A n \in DOMAIN events \ queue : ~ (events[n].kind = "spawn" /\ events[n].of = i)
      ELSE \E n \in DOMAIN events \ queue : events[n].kind = "spawn" /\ events[n].of = i

\* An evaluated session does not run any more.
ReportedIsOver == report # None => phase = "idle" /\ session \in Ended

MissInv == UpToDate /\ Reacted /\ SpawnsAreKnown /\ ReportedIsOver /\ ReportAccounts

LEMMA InitMissInv == Init => MissInv
<1> SUFFICES ASSUME Init PROVE MissInv
  OBVIOUS
<1>1. \A i \in Incidents : incident[i].status = "absent" /\ first[i] = None
  BY DEF Init, Absent
<1>2. UpToDate
  BY <1>1 DEF Init, UpToDate
<1>3. Reacted
  BY <1>1 DEF Reacted
<1>4. SpawnsAreKnown
  BY <1>1 DEF Init, SpawnsAreKnown
<1>5. QED BY <1>2, <1>3, <1>4 DEF Init, MissInv, ReportedIsOver, ReportAccounts

\* A step that leaves the world and the record alone: the clock does not run back, and
\* where it moves the due events are processed next.
LEMMA StillMissInv ==
  ASSUME IInv, UpToDate, Reacted, SpawnsAreKnown,
         UNCHANGED <<incident, due, queue, events, first>>,
         clock' \in Nat, clock <= clock',
         phase' # "events" => phase # "events" /\ clock' = clock
  PROVE  UpToDate' /\ Reacted' /\ SpawnsAreKnown'
<1>1. UpToDate'
  BY DEF UpToDate, Due
<1>2. ASSUME NEW i \in Incidents, incident[i].created <= clock
      PROVE  incident[i].created <= clock'
  <2>1. incident[i].created \in Nat /\ clock \in Nat
    BY DEF IInv, TypeOK, IncidentRows
  <2>2. QED BY <1>2, <2>1
<1>3. Reacted'
  BY <1>2 DEF Reacted
<1>4. SpawnsAreKnown'
  BY DEF SpawnsAreKnown
<1>5. QED BY <1>1, <1>3, <1>4

LEMMA PlaybackMoves ==
  ASSUME IInv,
         \/ \E k \in Advances : Advance(k)
         \/ Step \/ Pause \/ Resume \/ GetSession \/ Stop \/ SettleStep \/ Report
         \/ UNCHANGED vars
  PROVE  /\ UNCHANGED <<status, assigned, incident, due, queue, events, first>>
         /\ clock' \in Nat /\ clock <= clock'
         /\ phase' # "events" => phase # "events" /\ clock' = clock
<1>1. clock \in Nat
  BY DEF IInv, TypeOK
<1>2. ASSUME NEW k \in Advances, Advance(k)
      PROVE  /\ UNCHANGED <<status, assigned, incident, due, queue, events, first>>
             /\ clock' \in Nat /\ clock <= clock' /\ phase' = "events"
  BY <1>1, <1>2, NumberAssumption DEF Advance, MoveClock, world, units
<1>3. CASE Step
  BY <1>1, <1>3, NumberAssumption DEF Step, MoveClock, world, units
<1>4. CASE SettleStep
  BY <1>1, <1>4, NumberAssumption DEF SettleStep, MoveClock, world, units
<1>5. CASE Pause \/ Resume \/ GetSession
  BY <1>1, <1>5 DEF Pause, Resume, SetPaused, GetSession, world, units
<1>6. CASE Stop \/ Report
  BY <1>1, <1>6 DEF Stop, Report, world, units
<1>7. CASE UNCHANGED vars
  BY <1>1, <1>7 DEF vars, world, units
<1>8. QED BY <1>2, <1>3, <1>4, <1>5, <1>6, <1>7

LEMMA ApplyMissInv ==
  ASSUME IInv, MissInv, ApplyEvent
  PROVE  UpToDate' /\ Reacted' /\ SpawnsAreKnown'
<1>1. /\ phase = "events" /\ phase' = "events"
      /\ UNCHANGED <<events, due, clock, first>>
  BY DEF ApplyEvent
<1>2. UpToDate'
  BY <1>1 DEF UpToDate
<1>3. PICK n \in queue :
        /\ n \in Due
        /\ queue' = queue \ {n}
        /\ \/ events[n].kind = "spawn" /\ Spawn(events[n].of, events[n].time)
           \/ events[n].kind # "spawn" /\ UNCHANGED incident
  BY DEF ApplyEvent, Due, SetUnitStatus
<1>4. n \in DOMAIN events /\ events[n].time <= clock /\ events[n].time \in Nat
  BY <1>3, EventType DEF Due, IInv, TypeOK
<1>5. DOMAIN events \ queue' = (DOMAIN events \ queue) \cup {n}
  BY <1>3, <1>4
<1>6. CASE events[n].kind # "spawn" /\ UNCHANGED incident
  <2>1. Reacted'
    BY <1>1, <1>6 DEF MissInv, Reacted
  <2>2. SpawnsAreKnown'
    BY <1>1, <1>5, <1>6 DEF MissInv, SpawnsAreKnown
  <2>3. QED BY <1>2, <2>1, <2>2
<1>7. CASE events[n].kind = "spawn" /\ Spawn(events[n].of, events[n].time)
  <2> DEFINE i == events[n].of
             t == events[n].time
             q == [status |-> "pending", created |-> t, units |-> <<>>]
  <2>1. i \in Incidents /\ incident[i].status = "absent"
    BY <1>4, <1>7, EventType DEF IInv, TypeOK, SpawnsAreFresh, UnitEvents
  <2>2. incident' = [incident EXCEPT ![i] = q] /\ incident \in [Incidents -> IncidentRows]
    BY <1>7 DEF Spawn, IInv, TypeOK
  <2>3. q.status = "pending" /\ q.created = t
    OBVIOUS
  <2>4. first[i] = None /\ t <= clock
    BY <1>4, <2>1 DEF MissInv, Reacted
  <2>5. events[n].kind = "spawn" /\ events[n].of = i
    BY <1>7
  <2> HIDE DEF i, t, q
  <2>6. incident'[i] = q /\ \A j \in Incidents : j # i => incident'[j] = incident[j]
    BY <2>1, <2>2
  <2>7. Reacted'
    <3>1. ASSUME NEW j \in Incidents
          PROVE  /\ incident'[j].status = "absent" => first[j] = None
                 /\ incident'[j].status # "absent" => incident'[j].created <= clock
                 /\ incident'[j].status = "dispatched" => first[j] # None
                 /\ first[j] # None
                      => first[j] \in incident'[j].created .. incident'[j].created + Deadline[j]
      <4>1. CASE j = i
        BY <2>3, <2>4, <2>6, <4>1
      <4>2. CASE j # i
        BY <2>6, <4>2 DEF MissInv, Reacted
      <4>3. QED BY <4>1, <4>2
    <3>2. QED BY <1>1, <3>1 DEF Reacted
  <2>8. SpawnsAreKnown'
    <3>1. ASSUME NEW j \in Incidents
          PROVE  IF incident'[j].status = "absent"
                   THEN \A m \in DOMAIN events \ queue' :
                          ~ (events[m].kind = "spawn" /\ events[m].of = j)
                   ELSE \E m \in DOMAIN events \ queue' :
                          events[m].kind = "spawn" /\ events[m].of = j
      <4>1. CASE j = i
        BY <1>5, <2>3, <2>5, <2>6, <4>1
      <4>2. CASE j # i
        BY <1>5, <2>5, <2>6, <4>2 DEF MissInv, SpawnsAreKnown
      <4>3. QED BY <4>1, <4>2
    <3>2. QED BY <1>1, <3>1 DEF SpawnsAreKnown
  <2>9. QED BY <1>2, <2>7, <2>8
<1>8. QED BY <1>3, <1>6, <1>7

\* The incidents change their status only, and neither to nor from being absent.
LEMMA MovesMissInv ==
  ASSUME IInv, MissInv, UNCHANGED <<events, queue, clock, first>>,
         \A i \in Incidents :
           /\ incident'[i].created = incident[i].created
           /\ (incident'[i].status = "absent") = (incident[i].status = "absent")
           /\ incident'[i].status = "dispatched" => incident[i].status = "dispatched"
  PROVE  Reacted' /\ SpawnsAreKnown'
<1>1. Reacted'
  BY DEF MissInv, Reacted
<1>2. SpawnsAreKnown'
  BY DEF MissInv, SpawnsAreKnown
<1>3. QED BY <1>1, <1>2

LEMMA ProgressMissInv ==
  ASSUME IInv, MissInv, Progress
  PROVE  UpToDate' /\ Reacted' /\ SpawnsAreKnown'
<1>1. /\ Due = {} /\ UNCHANGED <<events, queue, clock, first>>
      /\ due' = [i \in Incidents |-> IF i \in Done THEN None ELSE due[i]]
      /\ incident' = [i \in Incidents |->
           [incident[i] EXCEPT !.status = IF i \in Done THEN "resolved"
                                          ELSE IF i \in Overdue THEN "expired" ELSE @]]
  BY DEF Progress, ResolveAll
<1>2. ASSUME NEW i \in Incidents
      PROVE  /\ incident'[i].created = incident[i].created
             /\ incident'[i].status = IF i \in Done THEN "resolved"
                                      ELSE IF i \in Overdue THEN "expired" ELSE incident[i].status
             /\ due'[i] = IF i \in Done THEN None ELSE due[i]
             /\ incident[i].created \in Nat /\ due[i] \in Nat \cup {None}
  <2>1. incident[i] \in IncidentRows /\ due[i] \in Nat \cup {None}
    BY DEF IInv, TypeOK
  <2>2. QED BY <1>1, <2>1 DEF IncidentRows
<1>3. \A i \in Incidents : /\ i \in Done => incident[i].status = "dispatched"
                           /\ i \in Overdue => incident[i].status = "pending"
  BY DEF Done, Overdue
<1>4. Reacted' /\ SpawnsAreKnown'
  BY <1>1, <1>2, <1>3, MovesMissInv
<1>5. ASSUME NEW i \in Incidents
      PROVE  /\ incident'[i].status = "pending" => clock <= incident'[i].created + Deadline[i]
             /\ incident'[i].status = "dispatched" => due'[i] = None \/ clock <= due'[i]
  <2>1. clock \in Nat /\ Deadline[i] \in Nat
    BY NumberAssumption DEF IInv, TypeOK
  <2>2. CASE incident'[i].status = "pending"
    <3>1. incident[i].status = "pending" /\ i \notin Overdue
      BY <1>2, <2>2
    <3>2. ~ (clock - incident[i].created > Deadline[i])
      BY <3>1 DEF Overdue
    <3>3. QED BY <1>2, <2>1, <2>2, <3>2
  <2>3. CASE incident'[i].status = "dispatched"
    <3>1. incident[i].status = "dispatched" /\ i \notin Done
      BY <1>2, <2>3
    <3>2. due[i] = None \/ ~ (clock >= due[i])
      BY <3>1 DEF Done
    <3>3. QED BY <1>2, <2>1, <2>3, <3>1, <3>2
  <2>4. QED BY <2>2, <2>3
<1>6. Due' = {}
  BY <1>1 DEF Due
<1>7. UpToDate'
  BY <1>1, <1>5, <1>6 DEF UpToDate
<1>8. QED BY <1>4, <1>7

LEMMA ResolveMissInv ==
  ASSUME IInv, MissInv, NEW i \in Incidents, Resolve(i)
  PROVE  UpToDate' /\ Reacted' /\ SpawnsAreKnown'
<1>1. /\ phase = "idle" /\ UNCHANGED <<events, queue, clock, first, phase>>
      /\ incident[i].status = "dispatched"
      /\ due' = [j \in Incidents |-> IF j \in {i} THEN None ELSE due[j]]
      /\ incident' = [incident EXCEPT ![i].status = "resolved"]
  BY DEF Resolve, ResolveAll, Accepts
<1>2. incident \in [Incidents -> IncidentRows]
  BY DEF IInv, TypeOK
<1>3. ASSUME NEW j \in Incidents
      PROVE  /\ incident'[j].created = incident[j].created
             /\ incident'[j].status = IF j = i THEN "resolved" ELSE incident[j].status
             /\ j # i => due'[j] = due[j]
  BY <1>1, <1>2 DEF IncidentRows
<1>4. Reacted' /\ SpawnsAreKnown'
  BY <1>1, <1>3, MovesMissInv
<1>5. UpToDate'
  BY <1>1, <1>3 DEF MissInv, UpToDate, Due
<1>6. QED BY <1>4, <1>5

LEMMA DispatchMissInv ==
  ASSUME IInv, MissInv, NEW i \in Incidents, NEW list \in UnitLists, NEW d \in Durations,
         Dispatch(i, list, d)
  PROVE  UpToDate' /\ Reacted' /\ SpawnsAreKnown'
<1>1. /\ phase = "idle" /\ UNCHANGED <<events, queue, clock, phase>>
      /\ incident[i].status \in {"pending", "dispatched"}
      /\ due' = [due EXCEPT ![i] = IF d = None THEN None ELSE clock + d]
      /\ incident' = [incident EXCEPT ![i].status = "dispatched", ![i].units = list]
      /\ first' = [first EXCEPT ![i] = IF @ = None THEN clock ELSE @]
  BY DEF Dispatch, Assign, Accepts, Active
<1>2. /\ incident \in [Incidents -> IncidentRows] /\ due \in [Incidents -> Nat \cup {None}]
      /\ first \in [Incidents -> Nat \cup {None}] /\ clock \in Nat
      /\ d \in Nat \cup {None} /\ Deadline[i] \in Nat
  BY NumberAssumption DEF IInv, TypeOK
<1>3. /\ incident'[i].created = incident[i].created
      /\ incident'[i].status = "dispatched"
      /\ due'[i] = None \/ clock <= due'[i]
      /\ first'[i] = IF first[i] = None THEN clock ELSE first[i]
      /\ incident[i].created \in Nat
  <2>1. incident[i] \in IncidentRows
    BY <1>2
  <2>2. /\ incident'[i].created = incident[i].created
        /\ incident'[i].status = "dispatched"
        /\ incident[i].created \in Nat
    BY <1>1, <1>2, <2>1 DEF IncidentRows
  <2>3. due'[i] = None \/ clock <= due'[i]
    BY <1>1, <1>2
  <2>4. QED BY <1>1, <1>2, <2>2, <2>3
<1>4. \A j \in Incidents : j # i => /\ incident'[j] = incident[j]
                                    /\ due'[j] = due[j] /\ first'[j] = first[j]
  BY <1>1, <1>2
<1>5. UpToDate'
  <2>1. ASSUME NEW j \in Incidents
        PROVE  /\ incident'[j].status = "pending" => clock <= incident'[j].created + Deadline[j]
               /\ incident'[j].status = "dispatched" => due'[j] = None \/ clock <= due'[j]
    <3>1. CASE j = i
      BY <1>3, <3>1
    <3>2. CASE j # i
      BY <1>1, <1>4, <3>2 DEF MissInv, UpToDate
    <3>3. QED BY <3>1, <3>2
  <2>2. clock > 0 => Due' = {}
    BY <1>1 DEF MissInv, UpToDate, Due
  <2>3. QED BY <1>1, <2>1, <2>2 DEF UpToDate
<1>6. /\ incident[i].created <= clock /\ first'[i] # None
      /\ first'[i] \in incident[i].created .. incident[i].created + Deadline[i]
  <2>1. incident[i].created <= clock
    BY <1>1 DEF MissInv, Reacted
  <2>2. CASE first[i] = None
    <3>1. incident[i].status = "pending"
      BY <1>1, <2>2 DEF MissInv, Reacted
    <3>2. clock <= incident[i].created + Deadline[i]
      BY <1>1, <3>1 DEF MissInv, UpToDate
    <3>3. clock # None
      BY <1>2, NoneAssumption
    <3>4. QED BY <1>2, <1>3, <2>1, <2>2, <3>2, <3>3
  <2>3. CASE first[i] # None
    BY <1>3, <2>1, <2>3 DEF MissInv, Reacted
  <2>4. QED BY <2>2, <2>3
<1>7. Reacted'
  <2>1. ASSUME NEW j \in Incidents
        PROVE  /\ incident'[j].status = "absent" => first'[j] = None
               /\ incident'[j].status # "absent" => incident'[j].created <= clock
               /\ incident'[j].status = "dispatched" => first'[j] # None
               /\ first'[j] # None
                    => first'[j] \in incident'[j].created .. incident'[j].created + Deadline[j]
    <3>1. CASE j = i
      BY <1>3, <1>6, <3>1
    <3>2. CASE j # i
      BY <1>4, <3>2 DEF MissInv, Reacted
    <3>3. QED BY <3>1, <3>2
  <2>2. QED BY <1>1, <2>1 DEF Reacted
<1>8. SpawnsAreKnown'
  <2>1. \A j \in Incidents : (incident'[j].status = "absent") = (incident[j].status = "absent")
    BY <1>1, <1>3, <1>4
  <2>2. QED BY <1>1, <2>1 DEF MissInv, SpawnsAreKnown
<1>9. QED BY <1>5, <1>7, <1>8

\* The evaluation of a finished session.
LEMMA ReportAccountsFor ==
  ASSUME IInv, MissInv, Report
  PROVE  ReportAccounts' /\ ReportedIsOver'
<1>1. /\ report' = Evaluation /\ phase' = "idle"
      /\ session' = IF Finished THEN "completed" ELSE "stopped"
      /\ UNCHANGED <<events, queue, incident, assigned>>
  BY DEF Report, world, units
<1>2. ReportedIsOver'
  BY <1>1 DEF ReportedIsOver, Ended
<1>3. ASSUME session' = "completed"
      PROVE  /\ report'.resolved \cup report'.expired
                  = {events[n].of : n \in {m \in DOMAIN events : events[m].kind = "spawn"}}
             /\ \A u \in Units : assigned[u] = None
  <2>1. queue = {} /\ \A i \in Incidents : ~ Active(incident[i].status)
    BY <1>1, <1>3 DEF Finished
  <2>2. report'.resolved \cup report'.expired = Spawned
    <3>1. /\ report'.resolved = {i \in Spawned : incident[i].status = "resolved"}
          /\ report'.expired = {i \in Spawned : incident[i].status = "expired"}
      BY <1>1 DEF Evaluation
    <3>2. \A i \in Spawned : incident[i].status \in {"resolved", "expired"}
      BY <2>1 DEF Spawned, Active, IInv, TypeOK, IncidentRows
    <3>3. QED BY <3>1, <3>2
  <2>3. \A i \in Incidents : incident[i].status # "absent"
          <=> \E n \in DOMAIN events : events[n].kind = "spawn" /\ events[n].of = i
    BY <2>1 DEF MissInv, SpawnsAreKnown
  <2>4. \A n \in DOMAIN events : events[n].kind = "spawn" => events[n].of \in Incidents
    BY EventType DEF IInv, TypeOK, UnitEvents
  <2>5. Spawned = {events[n].of : n \in {m \in DOMAIN events : events[m].kind = "spawn"}}
    BY <2>3, <2>4 DEF Spawned
  <2>6. ASSUME NEW u \in Units PROVE assigned[u] = None
    BY <2>1 DEF IInv, TypeOK, UnitsAgree, Active
  <2>7. QED BY <2>2, <2>5, <2>6
<1>4. ReportAccounts'
  BY <1>1, <1>3 DEF ReportAccounts
<1>5. QED BY <1>2, <1>4

\* Once there is a report, no handler accepts anything: it stays true.
LEMMA ReportStays ==
  ASSUME IInv, MissInv, [Next]_vars, ~ Report
  PROVE  ReportAccounts' /\ ReportedIsOver'
<1>1. UNCHANGED <<report, events>>
  BY DEF Next, Handler, ApplyEvent, Progress, SettleStep, Advance, Step, Pause, Resume, SetPaused,
     GetSession, Stop, Resolve, Dispatch, MoveClock, vars
<1>2. CASE report = None
  BY <1>1, <1>2 DEF ReportAccounts, ReportedIsOver
<1>3. CASE report # None
  <2>1. phase = "idle" /\ session \in Ended
    BY <1>3 DEF MissInv, ReportedIsOver
  <2>2. UNCHANGED <<phase, session, assigned>>
    <3>1. CASE UNCHANGED vars
      BY <3>1 DEF vars, world, units
    <3>2. CASE GetSession
      BY <2>1, <3>2 DEF GetSession, Refresh, Ended, world, units
    <3>3. QED BY <1>3, <2>1, <3>1, <3>2 DEF Next, Handler, ApplyEvent, Progress, SettleStep,
                Advance, Step, Pause, Resume, SetPaused, Stop, Resolve, Dispatch, Accepts
  <2>3. QED BY <1>1, <1>3, <2>1, <2>2 DEF MissInv, ReportAccounts, ReportedIsOver
<1>4. QED BY <1>2, <1>3

LEMMA NextMissInv == IInv /\ MissInv /\ [Next]_vars => MissInv'
<1> SUFFICES ASSUME IInv, MissInv, [Next]_vars PROVE MissInv'
  OBVIOUS
<1>1. ReportAccounts' /\ ReportedIsOver'
  BY ReportAccountsFor, ReportStays
<1>2. UpToDate' /\ Reacted' /\ SpawnsAreKnown'
  <2>1. CASE \/ \E k \in Advances : Advance(k)
             \/ Step \/ Pause \/ Resume \/ GetSession \/ Stop \/ SettleStep \/ Report
             \/ UNCHANGED vars
    BY <2>1, PlaybackMoves, StillMissInv DEF MissInv
  <2>2. QED BY <2>1, ApplyMissInv, ProgressMissInv, ResolveMissInv, DispatchMissInv
            DEF Next, Handler
<1>3. QED BY <1>1, <1>2 DEF MissInv

\* engine.py: neither the playback, nor a jump of the clock, nor the end of the exercise
\* misses anything that was due; no reaction is later than the deadline; and the report
\* of a completed session accounts for every incident of the scenario.
THEOREM NothingIsEverMissed == Spec => []NothingIsMissed
<1>1. Init => IInv /\ MissInv
  BY InitIInv, InitMissInv
<1>2. IInv /\ MissInv /\ [Next]_vars => (IInv /\ MissInv)'
  BY NextIInv, NextMissInv
<1>3. MissInv => NothingIsMissed
  BY DEF MissInv, NothingIsMissed, NothingOverdue, UpToDate, ReactionInTime, Reacted
<1>4. QED BY <1>1, <1>2, <1>3, PTL DEF Spec
=============================================================================
