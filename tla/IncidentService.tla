-------------------------- MODULE IncidentService --------------------------
(***************************************************************************)
(* The incident card (app/incidents) as its requests change it: one card    *)
(* with its locations, recommendation links, dispatched units, comments,    *)
(* audit history and timeline.  Incidents do not interact.                  *)
(*                                                                         *)
(* A handler loads the card's row with one SELECT and the collections with  *)
(* the next ones (get_full), so the two may be of different times.          *)
(* Timestamps and inserted rows are named after the request that wrote      *)
(* them; rows older than the run are written by `Earlier`.                  *)
(***************************************************************************)
EXTENDS Sessions, Sequences

CONSTANTS Updates,   \* bodies of PUT /incidents/{id}: the fields a client sets
          Cards,     \* bodies of POST /incidents
          UnitLists, \* bodies of POST /incidents/{id}/units
          Targets,   \* statuses that clients ask for
          Started,   \* statuses in which the run may find the card
          Earlier    \* the writer of what is older than the run

VARIABLES card, locations, links, dispatches, comments, history, timeline, echo

tables == <<card, locations, links, dispatches, comments, history, timeline>>
vars == <<sessionVars, tables, echo>>

Statuses == {"created", "checking", "confirmed", "selecting", "dispatch_confirmed",
             "dispatched", "on_scene", "localized", "liquidated", "completed",
             "archived", "cancelled"}
Active == Statuses \ {"completed", "cancelled", "archived"}

Transitions(s) ==
  CASE s = "created"            -> {"checking", "cancelled"}
    [] s = "checking"           -> {"confirmed", "cancelled"}
    [] s = "confirmed"          -> {"selecting", "cancelled"}
    [] s = "selecting"          -> {"dispatch_confirmed", "cancelled"}
    [] s = "dispatch_confirmed" -> {"dispatched", "cancelled"}
    [] s = "dispatched"         -> {"on_scene"}
    [] s = "on_scene"           -> {"localized"}
    [] s = "localized"          -> {"liquidated"}
    [] s = "liquidated"         -> {"completed"}
    [] s = "completed"          -> {"archived"}
    [] s = "cancelled"          -> {"archived"}
    [] s = "archived"           -> {}

\* The columns of a card; `priority` stands for every tracked column that is NOT
\* NULL, `coords` for the pair of latitude and longitude.
Tracked == {"typed", "priority", "address", "coords"}
Place == {"address", "coords"}
CardRows == [status : Statuses, confirmed : Requests \cup {Earlier, None},
             closed : Requests \cup {Earlier, None}, archived : Requests \cup {Earlier, None},
             typed : {"yes", None}, priority : {"normal", "high"},
             address : {"a1", "a2", None}, coords : {"c1", "c2", None}]
LocationRows == [by : Requests \cup {Earlier}, address : {"a1", "a2", None},
                 coords : {"c1", "c2", None}]
LinkRows == [by : Requests \cup {Earlier}, current : BOOLEAN]
HistoryRows == [by : Requests, field : Tracked \cup {"status"},
                old : Statuses \cup {"yes", "normal", "high", "a1", "a2", "c1", "c2", None},
                new : Statuses \cup {"yes", "normal", "high", "a1", "a2", "c1", "c2", None}]
TimelineEvents == {"created", "address_changed", "priority_changed", "status_changed",
                   "closed", "archived", "comment_added", "units_assigned",
                   "recommendation_requested"}

\* The request schemas; a client may send null for any column it updates.
ASSUME IncidentAssumption ==
  /\ \A c \in Cards : c.address \in {"a1", "a2", None} /\ c.coords \in {"c1", "c2", None}
  /\ \A u \in Updates :
       /\ DOMAIN u \subseteq Tracked
       /\ "typed" \in DOMAIN u => u["typed"] \in {"yes", None}
       /\ "priority" \in DOMAIN u => u["priority"] \in {"normal", "high", None}
       /\ "address" \in DOMAIN u => u["address"] \in {"a1", "a2", None}
       /\ "coords" \in DOMAIN u => u["coords"] \in {"c1", "c2", None}
  /\ Targets \cup Started \subseteq Statuses
  /\ Earlier \notin Requests \cup {None} /\ None \notin CardRows

TypeOK ==
  /\ card \in CardRows \cup {None}
  /\ locations \subseteq LocationRows
  /\ links \in Seq(LinkRows)
  /\ \A d \in dispatches : d.by \in Requests \cup {Earlier}
  /\ comments \subseteq Requests
  /\ history \subseteq HistoryRows
  /\ timeline \subseteq [by : Requests, event : TimelineEvents]
  /\ card = None => /\ locations = {} /\ links = <<>> /\ dispatches = {}
                    /\ comments = {} /\ history = {} /\ timeline = {}

Operation(kind, args) == [kind : {kind}, arg : args]
Operations == UNION {Operation("create", Cards), Operation("update", Updates),
                     Operation("status", Targets), Operation("units", UnitLists),
                     Operation("recommend", {None}), Operation("comment", {None})}

\* A card that an earlier working day left behind, with what belongs to it.
OldCard(s, confirmed) ==
  [status |-> s, confirmed |-> confirmed,
   closed |-> IF s \in Active THEN None ELSE Earlier,
   archived |-> IF s = "archived" THEN Earlier ELSE None,
   typed |-> "yes", priority |-> "normal", address |-> "a1", coords |-> "c1"]
MayBeConfirmed(s) ==
  CASE s \in {"created", "checking"} -> {None}
    [] s \in {"cancelled", "archived"} -> {None, Earlier}
    [] OTHER -> {Earlier}

Init ==
  /\ SessionsInit
  /\ \/ card = None /\ locations = {}
     \/ \E s \in Started : \E c \in MayBeConfirmed(s) : card = OldCard(s, c)
        /\ locations = {[by |-> Earlier, address |-> "a1", coords |-> "c1"]}
  /\ links \in {<<>>, <<[by |-> Earlier, current |-> TRUE]>>}
  /\ card = None => links = <<>>
  /\ dispatches = {} /\ comments = {} /\ history = {} /\ timeline = {} /\ echo = {}

-----------------------------------------------------------------------------
(* Reading.  `later` are the requests whose transaction starts after r's:   *)
(* created_at is the start of the transaction, not its commit.              *)

Receive(r, op) ==
  /\ Begin(r, op, [card |-> card, later |-> NotBegun \ {r}])
  /\ UNCHANGED <<tables, echo>>

LoadCollections(r) ==
  /\ session[r].at = "row"
  /\ session[r].op.kind # "create" /\ session[r].seen.card # None
  /\ Load(r, [card |-> session[r].seen.card, later |-> session[r].seen.later,
              locations |-> locations, links |-> links,
              units |-> {d.unit : d \in dispatches}, comments |-> comments])
  /\ UNCHANGED <<tables, echo>>

Ready(r, kind) == session[r].at = "loaded" /\ session[r].op.kind = kind
Arg(r) == session[r].op.arg
Seen(r) == session[r].seen

-----------------------------------------------------------------------------
(* What the handlers compute.                                              *)

\* A new status with its timestamps.
Stamped(row, target, r) ==
  [row EXCEPT !.status    = target,
              !.confirmed = IF target = "confirmed" /\ @ = None THEN r ELSE @,
              !.closed    = IF target \in {"completed", "cancelled"} THEN r ELSE @,
              !.archived  = IF target = "archived" THEN r ELSE @]

CanTransition(current, target) == target # current /\ target \in Transitions(current)

\* Mutant: the first primary location that is found is replaced only when the
\* address changes.
SyncAddressOnly(loaded, row, r) ==
  IF loaded = {} THEN {locations \cup {[by |-> r, address |-> row.address,
                                        coords |-> row.coords]}}
  ELSE {{IF l.by = p.by THEN Merge(l, p, [p EXCEPT !.address = row.address]) ELSE l
           : l \in locations} : p \in loaded}
\* Every location of the model is primary: no operation adds another kind.  The
\* first primary one that was loaded follows the card (SELECT gives no order, so
\* any of them), and a card without one gets one.
SyncPrimary(loaded, row, r) ==
  IF loaded = {} THEN {locations \cup {[by |-> r, address |-> row.address,
                                        coords |-> row.coords]}}
  ELSE {{IF l.by = p.by
           THEN Merge(l, p, [p EXCEPT !.address = row.address, !.coords = row.coords])
           ELSE l : l \in locations} : p \in loaded}

\* A recommendation becomes the current one; the links that were loaded stop being.
Linked(loaded, r) ==
  Append([i \in 1 .. Len(links) |-> IF i <= Len(loaded) THEN [links[i] EXCEPT !.current = FALSE]
                                                        ELSE links[i]],
         [by |-> r, current |-> TRUE])

Log(r, events) == timeline' = timeline \cup {[by |-> r, event |-> e] : e \in events}
When(condition, event) == IF condition THEN {event} ELSE {}

-----------------------------------------------------------------------------
(* The handlers: compute on the copies and commit.                         *)

Create(r) ==
  /\ session[r].at = "row" /\ session[r].op.kind = "create"
  /\ Seen(r).card = None /\ card = None
  /\ LET body == Arg(r) IN
     /\ card' = [status |-> "created", confirmed |-> None, closed |-> None, archived |-> None,
                 typed |-> "yes", priority |-> "normal",
                 address |-> body.address, coords |-> body.coords]
     /\ locations' = IF body.address = None /\ body.coords = None THEN {}
                     ELSE {[by |-> r, address |-> body.address, coords |-> body.coords]}
  /\ Log(r, {"created"})
  /\ Finish(r, "done")
  /\ UNCHANGED <<links, dispatches, comments, history, echo>>

Audited(r, seen, mine, changed) ==
  history \cup {[by |-> r, field |-> f, old |-> seen[f], new |-> mine[f]] : f \in changed}

\* Mutant: the column takes NULL.
StorableAnyway(row) == TRUE
\* A NULL for a column that must have a value is refused at the flush.
Storable(row) == row.priority # None

Written(seen, fields) ==
  [f \in DOMAIN seen |-> IF f \in DOMAIN fields THEN fields[f] ELSE seen[f]]

Update(r) ==
  /\ Ready(r, "update")
  /\ LET seen    == Seen(r).card
         mine    == Written(seen, Arg(r))
         changed == {f \in DOMAIN seen : mine[f] # seen[f]}
     IN  /\ Storable(mine)
         /\ card' = Merge(card, seen, mine)
         /\ history' = Audited(r, seen, mine, changed)
         /\ IF changed \cap Place = {} THEN UNCHANGED locations
            ELSE locations' \in SyncPrimary(Seen(r).locations, mine, r)
         /\ Log(r, When(changed \cap Place # {}, "address_changed")
                     \cup When("priority" \in changed, "priority_changed"))
  /\ Finish(r, "done")
  /\ UNCHANGED <<links, dispatches, comments, echo>>

ChangeStatus(r) ==
  /\ Ready(r, "status")
  /\ CanTransition(Seen(r).card.status, Arg(r))
  /\ LET seen == Seen(r).card
         mine == Stamped(seen, Arg(r), r)
     IN  /\ card' = Merge(card, seen, mine)
         /\ history' = Audited(r, seen, mine, {"status"})
  /\ Log(r, {"status_changed"} \cup When(Arg(r) \in {"completed", "cancelled"}, "closed")
              \cup When(Arg(r) = "archived", "archived"))
  /\ Finish(r, "done")
  /\ UNCHANGED <<locations, links, dispatches, comments, echo>>

Assigned(r, new) == dispatches \cup {[unit |-> u, by |-> r] : u \in new}
OnCard == {d.unit : d \in dispatches}

\* A unit that another request has put on the card meanwhile violates
\* uq_incident_dispatch, and the whole list is rolled back (Reject).
AssignUnits(r) ==
  /\ Ready(r, "units")
  /\ LET new == Arg(r).units \ Seen(r).units IN
     /\ new \cap OnCard = {}
     /\ dispatches' = Assigned(r, new)
  /\ links' = IF Arg(r).recommended THEN Linked(Seen(r).links, r) ELSE links
  /\ Log(r, {"units_assigned"})
  /\ Finish(r, "done")
  /\ UNCHANGED <<card, locations, comments, history, echo>>

RequestRecommendation(r) ==
  /\ Ready(r, "recommend")
  /\ Seen(r).card.typed # None /\ Seen(r).card.coords # None
  /\ links' = Linked(Seen(r).links, r)
  /\ Log(r, {"recommendation_requested"})
  /\ Finish(r, "done")
  /\ UNCHANGED <<card, locations, dispatches, comments, history, echo>>

\* The comment the client gets back: the newest of those the session holds.
Shown(r) == LET newer == Seen(r).comments \cap Seen(r).later
            IN  IF newer = {} THEN {r} ELSE newer

AddComment(r) ==
  /\ Ready(r, "comment")
  /\ comments' = comments \cup {r}
  /\ \E c \in Shown(r) : echo' = echo \cup {[by |-> r, shown |-> c]}
  /\ Log(r, {"comment_added"})
  /\ Finish(r, "done")
  /\ UNCHANGED <<card, locations, links, dispatches, history>>

\* The answers that change nothing: 404, 409, 422, and a constraint of the
\* database that fails the flush.
Refused(r) ==
  \/ session[r].at = "row" /\ session[r].op.kind = "create" /\ card # None
  \/ session[r].at = "row" /\ session[r].op.kind # "create" /\ Seen(r).card = None
  \/ Ready(r, "update") /\ ~Storable(Written(Seen(r).card, Arg(r)))
  \/ Ready(r, "status") /\ ~CanTransition(Seen(r).card.status, Arg(r))
  \/ Ready(r, "units") /\ (Arg(r).units \ Seen(r).units) \cap OnCard # {}
  \/ Ready(r, "recommend") /\ (Seen(r).card.typed = None \/ Seen(r).card.coords = None)
Reject(r) == Refused(r) /\ Finish(r, "failed") /\ UNCHANGED <<tables, echo>>

ConnectionLost(r) == Lost(r) /\ UNCHANGED <<tables, echo>>

Next ==
  \E r \in Requests :
    \/ \E op \in Operations : Receive(r, op)
    \/ LoadCollections(r)
    \/ Create(r) \/ Update(r) \/ ChangeStatus(r) \/ AssignUnits(r)
    \/ RequestRecommendation(r) \/ AddComment(r)
    \/ Reject(r) \/ ConnectionLost(r)

Spec == Init /\ [][Next]_vars

-----------------------------------------------------------------------------
(* What survives every interleaving.                                       *)

\* A closed card has the time of its closing, an archived one of its archiving
\* too, and the timeline shows the closing that the card is stamped with, however
\* status changes overlap (_apply_status_timestamps, _emit_status_milestones).
ClosedIsStamped ==
  card # None => /\ card.status \notin Active => card.closed # None
                 /\ card.status = "archived" => card.archived # None
                 /\ card.closed \in Requests =>
                      [by |-> card.closed, event |-> "closed"] \in timeline

\* The last recommendation that was linked is current (_link_recommendation).
LatestIsCurrent == links # <<>> => links[Len(links)].current

\* A unit list that was answered with success is on the card, every unit
\* exactly once, whatever other lists were sent at the same time.
AssignedOnce ==
  /\ \A r \in Done : session[r].op.kind = "units" =>
       \A u \in session[r].op.arg.units : \E d \in dispatches : d.unit = u
  /\ \A d, e \in dispatches : d.unit = e.unit => d = e

-----------------------------------------------------------------------------
(* What holds as long as no two requests overlap, and only then: checked    *)
(* and written copies are as old as the read.                               *)

\* A card that is still worked on has no closing time: cancelling cannot be
\* overtaken by a step of the lifecycle ("reject invalid transitions, so an
\* incident can only move along its defined lifecycle").
OpenIsNotStamped ==
  ~overlapped /\ card # None /\ card.status \in Active => card.closed = None

\* One recommendation at most is current.
OneIsCurrent ==
  ~overlapped => \A i, j \in 1 .. Len(links) :
                   links[i].current /\ links[j].current => i = j

\* The card has at most one primary location, and it says what the card says.
PrimaryInSync ==
  ~overlapped /\ card # None =>
    /\ Cardinality(locations) <= 1
    /\ locations = {} => card.address = None /\ card.coords = None
    /\ \A l \in locations : l.address = card.address /\ l.coords = card.coords

\* Who adds a comment gets this comment back, not another dispatcher's.
EchoIsOwn == ~overlapped => \A e \in echo : e.shown = e.by

\* The card, its locations, units, recommendations and comments tell one story:
\* a part of it whatever overlaps, the rest as long as nothing does.
CardIsConsistent ==
  /\ ClosedIsStamped /\ LatestIsCurrent /\ AssignedOnce
  /\ OpenIsNotStamped /\ OneIsCurrent /\ PrimaryInSync /\ EchoIsOwn

\* No column of the card changes without an entry of the same transaction in
\* the audit history that names the new value: the audit is complete although
\* requests overwrite each other (HistoryRecorder, changed columns only).  Without
\* overlaps the entries of a column are a chain: the old value is the card's.
ChangeIsAudited ==
  [][card # None =>
       /\ \A f \in Tracked \cup {"status"} :
            card'[f] # card[f] => \E h \in history' \ history :
                                     h.field = f /\ h.new = card'[f]
       /\ ~overlapped' => \A h \in history' \ history : h.old = card[h.field]]_vars

=============================================================================
