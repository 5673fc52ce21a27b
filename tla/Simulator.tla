------------------------------ MODULE Simulator ------------------------------
(* One training session: the engine's clock, event queue, units and incidents, *)
(* the trainee's commands and the instructor's playback controls, and the      *)
(* evaluation when the session is stopped. The API handlers are synchronous:    *)
(* once one has moved the clock, nothing else runs until it has applied every   *)
(* due event and has brought the incidents up to date (phase).                  *)
EXTENDS Integers, Sequences, FiniteSets

CONSTANTS
  Units, Incidents,
  Scenarios,      \* sequences of scheduled events, in the order of the scenario file
  UnitLists,      \* what a trainee may name in one dispatch: sequences of units
  Deadline,       \* response_deadline_s of an incident
  Required,       \* required_units of an incident
  FalseAlarms,    \* the incidents that are false alarms
  Norm,           \* criteria.max_response_time_s
  Durations,      \* travel plus service time; None when a unit never arrives
  StepSeconds,    \* seconds per step
  Advances,       \* seconds an instructor may advance by
  MaxTime,        \* bound: no control is used once the clock is past it
  MaxIterations,  \* the limit of run_to_end
  None

UnitEvents == {"breakdown", "repair", "unavailable", "available"}

ScheduledEvents == [time: Nat, kind: {"spawn"}, of: Incidents]
                     \cup [time: Nat, kind: UnitEvents, of: Units]

ASSUME ScenarioAssumption ==
  \A events \in Scenarios :
    /\ events \in Seq(ScheduledEvents)
    /\ \A m, n \in DOMAIN events :
         events[m].kind = "spawn" /\ events[n].kind = "spawn" /\ events[m].of = events[n].of
           => m = n
ASSUME UnitListAssumption == UnitLists \subseteq Seq(Units)
ASSUME NumberAssumption ==
  /\ Deadline \in [Incidents -> Nat] /\ Required \in [Incidents -> Nat]
  /\ FalseAlarms \subseteq Incidents
  /\ Durations \subseteq Nat \cup {None} /\ Advances \subseteq Nat
  /\ Norm \in Nat /\ StepSeconds \in Nat \ {0} /\ MaxTime \in Nat /\ MaxIterations \in Nat
ASSUME NoneAssumption == None \notin Nat \cup Incidents \cup Units

VARIABLES
  events,     \* the scenario's events; the queue holds their positions
  queue,      \* the events that are still scheduled
  clock,
  paused,     \* the clock's flag
  status,     \* status[u]: SimUnitStatus
  assigned,   \* assigned[u]: the incident u works on, or None
  incident,   \* incident[i]: SimIncident
  due,        \* due[i]: _resolve_at
  first,      \* first[i]: the time of the first accepted dispatch in the record
  session,    \* SessionState
  phase,      \* "idle", "events" or "settling": where the running handler is
  iterations, \* of run_to_end; None outside stop
  report      \* None until the session is evaluated

units == <<status, assigned>>
world == <<units, incident, due, queue>>
vars  == <<world, events, clock, paused, first, session, phase, iterations, report>>

IncidentRows == [status: {"absent", "pending", "dispatched", "resolved", "expired"},
                 created: Nat, units: Seq(Units)]

Absent == [status |-> "absent", created |-> 0, units |-> <<>>]

Elements(s) == {s[k] : k \in DOMAIN s}

Init ==
  /\ events \in Scenarios
  /\ queue = DOMAIN events
  /\ clock = 0
  /\ paused = FALSE
  /\ status = [u \in Units |-> "available"]
  /\ assigned = [u \in Units |-> None]
  /\ incident = [i \in Incidents |-> Absent]
  /\ due = [i \in Incidents |-> None]
  /\ first = [i \in Incidents |-> None]
  /\ session = "running"
  /\ phase = "idle"
  /\ iterations = None
  /\ report = None

-----------------------------------------------------------------------------
(* Events and progress: _process_until. *)

Due == {n \in queue : events[n].time <= clock}

\* Ties go to the event that was pushed first.
Before(m, n) ==
  \/ events[m].time < events[n].time
  \/ events[m].time = events[n].time /\ m < n

Spawn(i, t) ==
  /\ incident' = [incident EXCEPT ![i] = [status |-> "pending", created |-> t, units |-> <<>>]]
  /\ UNCHANGED units

\* An assigned unit is only taken by a breakdown.
SetUnitStatus(u, s) ==
  /\ status' = [status EXCEPT ![u] = IF s = "broken" \/ assigned[u] = None THEN s ELSE @]
  /\ UNCHANGED <<assigned, incident>>

ApplyEvent ==
  /\ phase = "events"
  /\ \E n \in Due :
       LET e == events[n]
       IN  /\ \A m \in Due : m = n \/ Before(n, m)
           /\ queue' = queue \ {n}
           /\ \/ e.kind = "spawn" /\ Spawn(e.of, e.time)
              \/ e.kind = "breakdown" /\ SetUnitStatus(e.of, "broken")
              \/ e.kind \in {"repair", "available"} /\ SetUnitStatus(e.of, "available")
              \/ e.kind = "unavailable" /\ SetUnitStatus(e.of, "unavailable")
  /\ UNCHANGED <<events, due, clock, paused, first, session, phase, iterations, report>>

\* The incidents whose dispatched units have done their work by now, and those that
\* nobody answered in time.
Done    == {i \in Incidents : /\ incident[i].status = "dispatched"
                              /\ due[i] # None /\ clock >= due[i]}

\* Mutant: the deadline is one second late.
OverdueLate == {i \in Incidents : /\ incident[i].status = "pending"
                                  /\ clock - incident[i].created > Deadline[i] + 1}

Overdue == {i \in Incidents : /\ incident[i].status = "pending"
                              /\ clock - incident[i].created > Deadline[i]}

CrewOf(I) == UNION {Elements(incident[i].units) : i \in I}

Release(U) ==
  /\ status' = [u \in Units |-> IF u \in U THEN "available" ELSE status[u]]
  /\ assigned' = [u \in Units |-> IF u \in U THEN None ELSE assigned[u]]

ResolveAll(I) ==
  /\ Release(CrewOf(I))
  /\ due' = [i \in Incidents |-> IF i \in I THEN None ELSE due[i]]

\* Mutant: an expired incident is still active.
ActiveOrExpired(s) == s \in {"pending", "dispatched", "expired"}
Active(s) == s \in {"pending", "dispatched"}
Finished  == queue = {} /\ \A i \in Incidents : ~Active(incident[i].status)

\* refresh_state, once the world is what it is after the step.
Refresh == session' = IF session = "running" /\ Finished' THEN "completed" ELSE session

Progress ==
  /\ phase = "events"
  /\ Due = {}
  /\ ResolveAll(Done)
  /\ incident' = [i \in Incidents |->
       [incident[i] EXCEPT !.status = IF i \in Done THEN "resolved"
                                      ELSE IF i \in Overdue THEN "expired" ELSE @]]
  /\ UNCHANGED <<events, queue, clock, paused, first, iterations, report>>
  /\ IF iterations = None
       THEN phase' = "idle" /\ Refresh
       ELSE phase' = "settling" /\ UNCHANGED session

-----------------------------------------------------------------------------
(* Playback: the handlers refuse a session that has ended. *)

Ended == {"stopped", "completed"}

Accepts == phase = "idle" /\ session \notin Ended

MoveClock(t) ==
  /\ clock' = t
  /\ phase' = "events"
  /\ UNCHANGED <<world, events, paused, first, session, report>>

\* A paused clock does not advance; what is due is processed all the same.
Advance(k) ==
  /\ Accepts
  /\ clock <= MaxTime
  /\ MoveClock(IF paused THEN clock ELSE clock + k)
  /\ UNCHANGED iterations

Step ==
  /\ Accepts
  /\ clock <= MaxTime
  /\ MoveClock(clock + StepSeconds)
  /\ UNCHANGED iterations

SetPaused(p, s) ==
  /\ Accepts
  /\ paused' = p
  /\ session' = s
  /\ UNCHANGED <<world, events, clock, first, phase, iterations, report>>

Pause  == SetPaused(TRUE, "paused")
Resume == SetPaused(FALSE, "running")

\* GET session.
GetSession ==
  /\ phase = "idle"
  /\ UNCHANGED <<world, events, clock, paused, first, phase, iterations, report>>
  /\ Refresh

-----------------------------------------------------------------------------
(* The trainee. A command that is rejected changes nothing but the record. *)

Dispatchable(u) == status[u] = "available"

\* Mutant: the units of an earlier dispatch are not released.
AssignMore(i, list, d) ==
  /\ status' = [u \in Units |-> IF u \in Elements(list) THEN "busy" ELSE status[u]]
  /\ assigned' = [u \in Units |-> IF u \in Elements(list) THEN i ELSE assigned[u]]
  /\ incident' = [incident EXCEPT ![i].status = "dispatched", ![i].units = list]
  /\ due' = [due EXCEPT ![i] = IF d = None THEN None ELSE clock + d]

\* The units that go to i, each once per naming, and those of an earlier dispatch
\* that are released.
Assign(i, list, d) ==
  LET freed == Elements(incident[i].units) \ Elements(list)
  IN  /\ status' = [u \in Units |-> IF u \in Elements(list) THEN "busy"
                                    ELSE IF u \in freed THEN "available" ELSE status[u]]
      /\ assigned' = [u \in Units |-> IF u \in Elements(list) THEN i
                                      ELSE IF u \in freed THEN None ELSE assigned[u]]
      /\ incident' = [incident EXCEPT ![i].status = "dispatched", ![i].units = list]
      /\ due' = [due EXCEPT ![i] = IF d = None THEN None ELSE clock + d]

Dispatch(i, list, d) ==
  /\ Accepts
  /\ Active(incident[i].status)
  /\ \A u \in Elements(list) : Dispatchable(u)
  /\ Assign(i, list, d)
  /\ first' = [first EXCEPT ![i] = IF @ = None THEN clock ELSE @]
  /\ UNCHANGED <<events, queue, clock, paused, session, phase, iterations, report>>

Resolve(i) ==
  /\ Accepts
  /\ incident[i].status = "dispatched"
  /\ ResolveAll({i})
  /\ incident' = [incident EXCEPT ![i].status = "resolved"]
  /\ UNCHANGED <<events, queue, clock, paused, first, session, phase, iterations, report>>

-----------------------------------------------------------------------------
(* Stop: run_to_end, then evaluate. *)

\* Mutant: the iterations are not counted from zero.
StopUncounted ==
  /\ phase = "idle"
  /\ report = None
  /\ phase' = "settling"
  /\ UNCHANGED <<world, events, clock, paused, first, session, iterations, report>>

Stop ==
  /\ phase = "idle"
  /\ report = None
  /\ phase' = "settling"
  /\ iterations' = 0
  /\ UNCHANGED <<world, events, clock, paused, first, session, report>>

\* Mutant: the clock stops at the end of the exercise and the loop has no limit.
SettleToEnd ==
  /\ phase = "settling"
  /\ ~Finished
  /\ MoveClock(IF clock > MaxTime THEN clock ELSE clock + StepSeconds)
  /\ UNCHANGED iterations

SettleStep ==
  /\ phase = "settling"
  /\ ~Finished
  /\ iterations < MaxIterations
  /\ MoveClock(clock + StepSeconds)
  /\ iterations' = iterations + 1

\* _units_ok: the named units are counted, not the different ones.
EnoughUnits(i) == Len(incident[i].units) >= Required[i]

Spawned == {i \in Incidents : incident[i].status # "absent"}

CorrectlyHandled(i) ==
  IF i \in FalseAlarms THEN first[i] = None
  ELSE incident[i].status = "resolved" /\ EnoughUnits(i)

WithinNorm(i) ==
  i \in FalseAlarms \/ (first[i] # None /\ first[i] - incident[i].created <= Norm)

Evaluation ==
  [total    |-> Spawned,
   resolved |-> {i \in Spawned : incident[i].status = "resolved"},
   expired  |-> {i \in Spawned : incident[i].status = "expired"},
   correct  |-> {i \in Spawned : CorrectlyHandled(i)},
   inNorm   |-> {i \in Spawned : WithinNorm(i)}]

MayReport == Finished \/ iterations = MaxIterations

Report ==
  /\ phase = "settling"
  /\ MayReport
  /\ report' = Evaluation
  /\ session' = IF Finished THEN "completed" ELSE "stopped"
  /\ phase' = "idle"
  /\ iterations' = None
  /\ UNCHANGED <<world, events, clock, paused, first>>

-----------------------------------------------------------------------------
Handler == ApplyEvent \/ Progress \/ SettleStep \/ Report

Next ==
  \/ Handler
  \/ \E k \in Advances : Advance(k)
  \/ Step \/ Pause \/ Resume \/ GetSession \/ Stop
  \/ \E i \in Incidents :
       Resolve(i) \/ \E list \in UnitLists, d \in Durations : Dispatch(i, list, d)

Spec == Init /\ [][Next]_vars

\* A handler is synchronous code: once it has begun it runs to its end.
FairSpec == Spec /\ WF_vars(Handler)

-----------------------------------------------------------------------------
(* Properties. *)

Reports == [total: SUBSET Incidents, resolved: SUBSET Incidents, expired: SUBSET Incidents,
            correct: SUBSET Incidents, inNorm: SUBSET Incidents]

\* The world, the session and the report have their declared shapes; only a stop
\* counts iterations.
TypeOK ==
  /\ events \in Scenarios
  /\ queue \subseteq DOMAIN events
  /\ clock \in Nat
  /\ paused \in BOOLEAN
  /\ status \in [Units -> {"available", "busy", "broken", "unavailable"}]
  /\ assigned \in [Units -> Incidents \cup {None}]
  /\ incident \in [Incidents -> IncidentRows]
  /\ due \in [Incidents -> Nat \cup {None}]
  /\ first \in [Incidents -> Nat \cup {None}]
  /\ session \in {"running", "paused", "stopped", "completed"}
  /\ phase \in {"idle", "events", "settling"}
  /\ iterations \in Nat \cup {None}
  /\ phase = "settling" => iterations # None
  /\ report \in Reports \cup {None}

\* A unit works on an incident exactly when the incident, being dispatched, counts it
\* among its units: no unit is stranded by a reassignment, a breakdown, a resolution
\* or an expiry, and no incident keeps a unit that has gone elsewhere.
UnitsAgree ==
  \A u \in Units, i \in Incidents :
    assigned[u] = i <=> /\ incident[i].status = "dispatched"
                        /\ u \in Elements(incident[i].units)

\* Only an assigned unit is busy, and an assigned one is busy or has broken down:
\* no event takes it off its incident.
BusyMeansAssigned ==
  \A u \in Units : IF assigned[u] = None THEN status[u] # "busy"
                   ELSE status[u] \in {"busy", "broken"}

\* Units and incidents tell one story of who is where.
WorldAgrees == UnitsAgree /\ BusyMeansAssigned

\* Between two handlers nothing is overdue: no event, no answer to an incident and no
\* end of the work on one, however far the clock was moved at a time.
NothingOverdue ==
  phase = "idle" =>
    /\ clock > 0 => Due = {}
    /\ \A i \in Incidents :
         /\ incident[i].status = "pending" => clock <= incident[i].created + Deadline[i]
         /\ incident[i].status = "dispatched" => due[i] = None \/ clock <= due[i]

\* The evaluator never sees a reaction slower than the deadline: an incident that was
\* ever dispatched was dispatched before it could expire.
ReactionInTime ==
  \A i \in Incidents :
    first[i] # None => first[i] \in incident[i].created .. incident[i].created + Deadline[i]

\* A resolved or expired incident stays as it is, whatever is dispatched or resolved.
SettledIsFinal ==
  [][\A i \in Incidents : incident[i].status \in {"resolved", "expired"}
       => incident'[i] = incident[i]]_vars

\* The report of a completed session accounts for the whole scenario: every incident
\* of it has been resolved or has expired, and every unit has been released.
ReportAccounts ==
  report # None /\ session = "completed" =>
    /\ report.resolved \cup report.expired
         = {events[n].of : n \in {m \in DOMAIN events : events[m].kind = "spawn"}}
    /\ \A u \in Units : assigned[u] = None

\* Neither the playback, nor a jump of the clock, nor the end of the exercise misses
\* anything that was due.
NothingIsMissed == NothingOverdue /\ ReactionInTime /\ ReportAccounts

\* Stopping a session always produces a report, be there a unit that never arrives.
StopReports == phase = "settling" ~> report # None
=============================================================================
