------------------------- MODULE ResourceManagement -------------------------
(***************************************************************************)
(* The live state of one unit (app/resources): its status and that of the   *)
(* vehicle and people behind it, its crew, and its assignments to           *)
(* incidents.  The unit carries a status of its own; the dispatch engine    *)
(* reads the status of the vehicle's resource row.                          *)
(***************************************************************************)
EXTENDS Sessions, SequencesExt

CONSTANTS Vehicle,   \* the resource row of the unit's vehicle
          People,    \* the resource rows of people
          Ghost,     \* an id that no resource has
          Incidents

ASSUME ResourceAssumption == Vehicle \notin People

VARIABLES unitStatus,   \* units.availability_status_id
          status,       \* resources.availability_status_id
          trail,        \* status_history of each resource, in commit order
          events,       \* resource_management_history
          member,       \* crew_members of the unit's crew: "none", "on", "left"
          manned,       \* the crew is assigned to the unit
          assignments   \* resource_assignments of the unit

resourceTables == <<unitStatus, status, trail, events, member, manned, assignments>>
resourceVars == <<sessionVars, resourceTables>>

Resources == {Vehicle} \cup People
Codes == {"free", "out"}   \* two entries of the availability catalog
EventTypes == {"unit_status_changed", "vehicle_status_changed", "personnel_status_changed",
               "crew_changed", "crew_member_changed", "assigned", "returned"}
TrailRows == [by : Requests, from : Codes \cup {None}, to : Codes]
EventRows == [by : Requests, type : EventTypes]
AssignmentRows == [by : Requests, incident : Incidents, status : {"active", "released"},
                   released : Requests \cup {None}]

\* What a unit keeps of itself; what its vehicle has is in status.
UnitCodes == Codes

ResourceTypeOK ==
  /\ unitStatus \in UnitCodes
  /\ status \in [Resources -> Codes]
  /\ \A x \in Resources : \A i \in DOMAIN trail[x] : trail[x][i] \in TrailRows
  /\ events \subseteq EventRows
  /\ member \in [People -> {"none", "on", "left"}]
  /\ manned \in BOOLEAN
  /\ assignments \subseteq AssignmentRows

ResourceOperation(kind, args) == [kind : {kind}, arg : args]
ResourceOperations ==
  UNION {ResourceOperation("unit", Codes \cup {"unknown"}),
         ResourceOperation("vehicle", [row : {Vehicle} \cup People, to : Codes]),
         ResourceOperation("person", [row : People, to : Codes]),
         ResourceOperation("bulk", [rows : {{Vehicle}, Resources, {Vehicle, Ghost}}, to : Codes]),
         ResourceOperation("members", [add : SUBSET People, remove : SUBSET People]),
         ResourceOperation("crew", {None}),
         ResourceOperation("assign", Incidents),
         ResourceOperation("return", {None})}

ResourceInit ==
  /\ SessionsInit
  /\ unitStatus = "free" /\ status = [x \in Resources |-> "free"]
  /\ trail = [x \in Resources |-> <<>>]
  /\ events = {} /\ manned = FALSE /\ assignments = {}
  /\ member \in [People -> {"none", "on", "left"}]

-----------------------------------------------------------------------------
\* The unit's row is read first, its vehicle, crew and assignments by the
\* SELECTs that follow; a resource or a crew named by the request is read once.
ReceiveResource(r, op) ==
  /\ Begin(r, op, [unit |-> unitStatus])
  /\ UNCHANGED resourceTables

LoadUnit(r) ==
  /\ session[r].at = "row"
  /\ Load(r, [unit |-> session[r].seen.unit, status |-> status, member |-> member,
              assignments |-> assignments])
  /\ UNCHANGED resourceTables

Asked(r, kind) == session[r].at = "loaded" /\ session[r].op.kind = kind
Body(r) == session[r].op.arg
Copy(r) == session[r].seen
Event(r, type) == events' = events \cup {[by |-> r, type |-> type]}

Traced(r, rows, to, from) ==
  [x \in Resources |-> IF x \in rows
                       THEN Append(trail[x], [by |-> r, from |-> from[x], to |-> to])
                       ELSE trail[x]]

\* _apply_resource_status: the column is written when it differs from the copy,
\* the history always.
ApplyResourceStatus(r, x, to) ==
  /\ status' = IF Copy(r).status[x] = to THEN status ELSE [status EXCEPT ![x] = to]
  /\ trail' = Traced(r, {x}, to, Copy(r).status)

\* Mutant: only the unit's own row changes.
PropagateNothing(r, to) == UNCHANGED <<status, trail>>
\* The vehicle follows the unit, so that the dispatch engine sees the change.
Propagate(r, to) == ApplyResourceStatus(r, Vehicle, to)

Known(code) == code \in Codes

UpdateUnitStatus(r) ==
  /\ Asked(r, "unit") /\ Known(Body(r))
  /\ unitStatus' = IF Copy(r).unit = Body(r) THEN unitStatus ELSE Body(r)
  /\ Propagate(r, Body(r))
  /\ Event(r, "unit_status_changed")
  /\ Finish(r, "done")
  /\ UNCHANGED <<member, manned, assignments>>

\* PATCH /vehicles/{id}/status and /personnel/{id}/status: the answer reads the
\* row as a vehicle or a person, and a row of the other kind rolls back.
UpdateResourceStatus(r) ==
  /\ \/ Asked(r, "vehicle") /\ Body(r).row = Vehicle /\ Event(r, "vehicle_status_changed")
     \/ Asked(r, "person") /\ Event(r, "personnel_status_changed")
  /\ ApplyResourceStatus(r, Body(r).row, Body(r).to)
  /\ Finish(r, "done")
  /\ UNCHANGED <<unitStatus, member, manned, assignments>>

\* One UPDATE for all rows, whatever they hold, and a history row for every id:
\* an id without a resource violates its foreign key and undoes them all.
BulkUpdateStatus(r) ==
  /\ Asked(r, "bulk") /\ Ghost \notin Body(r).rows
  /\ status' = [x \in Resources |-> IF x \in Body(r).rows THEN Body(r).to ELSE status[x]]
  /\ trail' = Traced(r, Body(r).rows, Body(r).to, [x \in Resources |-> None])
  /\ Event(r, "vehicle_status_changed")
  /\ Finish(r, "done")
  /\ UNCHANGED <<unitStatus, member, manned, assignments>>

-----------------------------------------------------------------------------
NewMembers(copy, add) == {p \in add : copy[p] # "on"}

\* A person who left the crew keeps a row (only marked deleted), and so does one
\* whom another request has added: inserting a second one violates uq_crew_member.
Insertable(new) == \A p \in new : member[p] = "none"

\* Mutant: the removals are made first.
AfterRemoveFirst(copy, add, remove) ==
  [p \in People |-> IF p \in NewMembers(copy, add) THEN "on"
                    ELSE IF p \in remove /\ copy[p] # "none" THEN "left" ELSE member[p]]
\* Additions first, so that whoever is on both lists ends up outside; those who
\* left before are marked again.
AfterChange(copy, add, remove) ==
  LET rows == NewMembers(copy, add) \cup {p \in People : copy[p] # "none"} IN
  [p \in People |-> IF p \in remove \cap rows THEN "left"
                    ELSE IF p \in NewMembers(copy, add) THEN "on" ELSE member[p]]

ChangeCrewComposition(r) ==
  /\ Asked(r, "members")
  /\ Insertable(NewMembers(Copy(r).member, Body(r).add))
  /\ member' = AfterChange(Copy(r).member, Body(r).add, Body(r).remove)
  /\ Event(r, "crew_member_changed")
  /\ Finish(r, "done")
  /\ UNCHANGED <<unitStatus, status, trail, manned, assignments>>

AssignCrew(r) ==
  /\ Asked(r, "crew")
  /\ manned' = TRUE
  /\ Event(r, "crew_changed")
  /\ Finish(r, "done")
  /\ UNCHANGED <<unitStatus, status, trail, member, assignments>>

AssignToIncident(r) ==
  /\ Asked(r, "assign")
  /\ assignments' = assignments \cup {[by |-> r, incident |-> Body(r), status |-> "active",
                                       released |-> None]}
  /\ Event(r, "assigned")
  /\ Finish(r, "done")
  /\ UNCHANGED <<unitStatus, status, trail, member, manned>>

\* What an assignment becomes: those that the session saw active are released,
\* also when another request has released them since.
Released(r, a) ==
  IF \E b \in Copy(r).assignments : b.by = a.by /\ b.status = "active"
  THEN [a EXCEPT !.status = "released", !.released = r] ELSE a

ReturnFromIncident(r) ==
  /\ Asked(r, "return")
  /\ assignments' = {Released(r, a) : a \in assignments}
  /\ Event(r, "returned")
  /\ Finish(r, "done")
  /\ UNCHANGED <<unitStatus, status, trail, member, manned>>

\* 404, 422 and constraint violations.
RejectResource(r) ==
  /\ \/ Asked(r, "unit") /\ ~Known(Body(r))
     \/ Asked(r, "vehicle") /\ Body(r).row # Vehicle
     \/ Asked(r, "bulk") /\ Ghost \in Body(r).rows
     \/ Asked(r, "members") /\ ~Insertable(NewMembers(Copy(r).member, Body(r).add))
  /\ Finish(r, "failed")
  /\ UNCHANGED resourceTables

ResourceConnectionLost(r) == Lost(r) /\ UNCHANGED resourceTables

\* The routes of a unit, and those of vehicles, crews, personnel and bulk updates.
UnitRoutes(r) ==
  UpdateUnitStatus(r) \/ AssignCrew(r) \/ AssignToIncident(r) \/ ReturnFromIncident(r)
ResourceRoutes(r) ==
  UpdateResourceStatus(r) \/ BulkUpdateStatus(r) \/ ChangeCrewComposition(r)

ResourceNext ==
  \E r \in Requests :
    \/ \E op \in ResourceOperations : ReceiveResource(r, op)
    \/ LoadUnit(r)
    \/ UnitRoutes(r) \/ ResourceRoutes(r)
    \/ RejectResource(r) \/ ResourceConnectionLost(r)

ResourceSpec == ResourceInit /\ [][ResourceNext]_resourceVars

-----------------------------------------------------------------------------
(* Whatever overlaps.                                                      *)

\* A resource does not change its status without an entry of status_history
\* that names the new one ("every transition writes the shared status_history").
StatusChangeTraced ==
  [][\A x \in Resources : status'[x] # status[x] =>
       \E i \in DOMAIN trail'[x] \ DOMAIN trail[x] : trail'[x][i].to = status'[x]]_resourceVars

\* An assignment is released exactly when it has the time of its release.
ReleasedIsStamped ==
  \A a \in assignments : a.status = "released" <=> a.released # None

\* Once released, an assignment is not active again, however returns overlap.
ReleasedIsFinal ==
  [][\A a \in assignments : a.status = "released" =>
       \E b \in assignments' : b.by = a.by /\ b.status = "released"]_resourceVars

(* As long as requests do not overlap.                                     *)

DirectlyChanged ==
  \E r \in Done : /\ session[r].op.kind \in {"vehicle", "bulk"}
                  /\ Vehicle \in IF session[r].op.kind = "bulk" THEN session[r].op.arg.rows
                                 ELSE {session[r].op.arg.row}

\* The dispatch engine sees the status of the unit, unless somebody changed the
\* vehicle's on its own.  With overlaps the unit's row and its vehicle's are
\* copies of different times, and writing only what differs separates them.
VehicleFollowsUnit == ~overlapped /\ ~DirectlyChanged => status[Vehicle] = unitStatus

\* The last entry of the history of a resource is its status.
TrailEndsAtStatus ==
  ~overlapped => \A x \in Resources :
                   trail[x] # <<>> => Last(trail[x]).to = status[x]

\* A composition that was accepted is the composition: whoever is added is a
\* member, whoever is removed is not.
AcceptedIsApplied ==
  [][\A r \in Requests :
       ~overlapped' /\ Asked(r, "members") /\ session'[r].at = "done" =>
         \A p \in People : /\ p \in Body(r).remove => member'[p] # "on"
                           /\ p \in Body(r).add \ Body(r).remove => member'[p] = "on"]_resourceVars

\* Statuses, their history and the assignments agree.
ResourcesAgree == ReleasedIsStamped /\ VehicleFollowsUnit /\ TrailEndsAtStatus

\* What a request is told was done is done, on record, and for good.
ResourceStepsHold == StatusChangeTraced /\ ReleasedIsFinal /\ AcceptedIsApplied
=============================================================================
