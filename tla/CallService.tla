---------------------------- MODULE CallService ----------------------------
(***************************************************************************)
(* The call module (app/calls) as it runs: every HTTP request is one        *)
(* database transaction of its own.  A request reads the call with several  *)
(* SELECTs, computes on the copies it has loaded, and at commit writes the  *)
(* columns whose value it changed.  Nothing locks a row between the read    *)
(* and the write, so up to PoolSize requests interleave freely.             *)
(*                                                                         *)
(* Timestamps are abstracted to the request that wrote them: `answered`,    *)
(* `ended`, ... hold a request, or None while the column is NULL.           *)
(***************************************************************************)
EXTENDS CallStates, FiniteSets, Naturals

CONSTANTS Calls,        \* ids of calls that may ever be registered
          Requests,     \* HTTP requests; each one runs at most once
          Incidents,    \* ids of incident cards
          Dispatchers,
          Kinds,        \* the operations clients may ask for
          PoolSize,     \* database connections: pool_size + max_overflow
          MaxRestarts,  \* bound on process restarts
          None

AllKinds == {"create", "status", "assign", "link", "open", "answer", "hold",
             "transfer", "end", "recording", "transcript"}

\* What create_call does about telephony: nothing, register the call with the
\* provider, or store an external id the provider has never heard of.
Telephony == {"plain", "provider", "foreign"}

ASSUME CallsAssumption == Calls # {}
ASSUME KindsAssumption == Kinds \subseteq AllKinds
ASSUME PoolAssumption == PoolSize \in Nat \ {0} /\ MaxRestarts \in Nat
ASSUME RequestsAssumption == IsFiniteSet(Requests)
ASSUME NoneAssumption == /\ None \notin Requests \cup Incidents \cup Dispatchers
                         /\ None \notin Statuses

VARIABLES registered,  \* calls that have a row
          call,        \* the row of every call
          entry,       \* its queue entry
          links,       \* its incident links
          history,     \* its history rows
          incidents,   \* incident cards that exist
          leg,         \* the telephony provider's in-memory state of the call
          req,         \* the requests: where each one is and what it has loaded
          restarts

db == <<registered, call, entry, links, history, incidents>>
vars == <<registered, call, entry, links, history, incidents, leg, req, restarts>>

Stamp == Requests \cup {None}
CallRows == [status : Statuses, answered : Stamp, wait : Stamp, ended : Stamp,
             talk : Stamp, incident : Incidents \cup {None},
             dispatcher : Dispatchers \cup {None}, external : BOOLEAN]
EntryRows == [status : {"waiting", "assigned", "in_progress", "done", "abandoned"},
              assigned : Stamp, removed : Stamp, dispatcher : Dispatchers \cup {None}]
LinkRows == [incident : Incidents, type : {"created", "linked"}, primary : BOOLEAN]
Events == {"created", "queued", "status_changed", "dispatcher_assigned",
           "incident_created", "incident_linked", "answered", "provider_action",
           "completed", "cancelled", "error", "recording_registered",
           "transcript_registered"}
HistoryRows == [by : Requests, event : Events, from : Statuses \cup {None},
                to : Statuses \cup {None}]
LegStates == {"none", "ringing", "answered", "held", "transferred", "ended"}

NewCall == [status |-> "new", answered |-> None, wait |-> None, ended |-> None,
            talk |-> None, incident |-> None, dispatcher |-> None, external |-> FALSE]
NewEntry == [status |-> "waiting", assigned |-> None, removed |-> None,
             dispatcher |-> None]

Operation(kind, args) == [kind : {kind} \cap Kinds, call : Calls, arg : args]
Operations == UNION {Operation("create", Telephony), Operation("status", Statuses),
                     Operation("assign", Dispatchers \cup {None}), Operation("link", Incidents),
                     Operation("open", Incidents),
                     UNION {Operation(k, {None}) : k \in {"answer", "hold", "transfer",
                                                          "end", "recording", "transcript"}}}

\* A request: its place in the handler, the rows it loaded (`row`, `ent`, `lnk`)
\* and what its session holds for the commit (`row2`, `ent2`, `lnk2`, `log`).
Places == {"idle", "row", "entry", "loaded", "flushed", "done", "failed"}
Active == {r \in Requests : req[r].at \in {"row", "entry", "loaded", "flushed"}}

Blank(op, at) == [at |-> at, op |-> op, row |-> NewCall, ent |-> NewEntry, lnk |-> {},
                  row2 |-> NewCall, ent2 |-> NewEntry, lnk2 |-> {}, log |-> {}]
NoOp == [kind |-> "none", call |-> CHOOSE c \in Calls : TRUE, arg |-> None]

RequestRows ==
  [at : Places, op : Operations \cup {NoOp},
   row : CallRows, ent : EntryRows, lnk : SUBSET LinkRows,
   row2 : CallRows, ent2 : EntryRows, lnk2 : SUBSET LinkRows,
   log : SUBSET HistoryRows]

TypeOK ==
  /\ registered \subseteq Calls
  /\ call \in [Calls -> CallRows]
  /\ entry \in [Calls -> EntryRows]
  /\ links \in [Calls -> SUBSET LinkRows]
  /\ history \in [Calls -> SUBSET HistoryRows]
  /\ incidents \subseteq Incidents
  /\ leg \in [Calls -> LegStates]
  /\ req \in [Requests -> RequestRows]
  /\ restarts \in 0 .. MaxRestarts

Init ==
  /\ registered = {}
  /\ call = [c \in Calls |-> NewCall]
  /\ entry = [c \in Calls |-> NewEntry]
  /\ links = [c \in Calls |-> {}]
  /\ history = [c \in Calls |-> {}]
  /\ incidents \in SUBSET Incidents
  /\ leg = [c \in Calls |-> "none"]
  /\ req = [r \in Requests |-> Blank(NoOp, "idle")]
  /\ restarts = 0

-----------------------------------------------------------------------------
(* The helpers of the service.                                             *)

\* Move a loaded row to a status and stamp it: the first answered status
\* answers the call, a closed status ends it.
Enter(row, target, r) ==
  LET answers  == target \in Answered /\ row.answered = None
      answered == IF answers THEN r ELSE row.answered
  IN  [row EXCEPT !.status   = target,
                  !.answered = answered,
                  !.wait     = IF answers THEN r ELSE @,
                  !.ended    = IF target \in Closed THEN r ELSE @,
                  !.talk     = IF target \in Closed /\ answered # None THEN r ELSE @]

\* Mutant: the state machine is not asked.
EnterAlways(row, target, r) == Enter(row, target, r)
EnterIfAllowed(row, target, r) ==
  IF CanTransition(row.status, target) THEN Enter(row, target, r) ELSE row

Assign(ent, who, r) ==
  [ent EXCEPT !.status = "assigned", !.assigned = r, !.dispatcher = who]

MarkInProgress(ent, r) ==
  [ent EXCEPT !.status = "in_progress", !.assigned = IF @ = None THEN r ELSE @]

Remove(ent, abandoned, r) ==
  [ent EXCEPT !.status = IF abandoned THEN "abandoned" ELSE "done", !.removed = r]

\* Mutants of SyncQueue: any cancelled call counts as abandoned; only a completed
\* call leaves the queue.
SyncQueueAnyCancel(ent, row, target, r) ==
  IF target = "in_progress" THEN MarkInProgress(ent, r)
  ELSE IF target \in Closed THEN Remove(ent, target = "cancelled", r)
  ELSE ent
SyncQueueKeepsCancelled(ent, row, target, r) ==
  IF target = "in_progress" THEN MarkInProgress(ent, r)
  ELSE IF target = "completed" THEN Remove(ent, FALSE, r)
  ELSE ent

\* What a status change does to the queue entry; `row` is already in `target`.
SyncQueue(ent, row, target, r) ==
  IF target = "in_progress" THEN MarkInProgress(ent, r)
  ELSE IF target \in Closed
  THEN Remove(ent, target = "cancelled" /\ row.answered = None, r)
  ELSE ent

\* Mutant: no default event.
EventForNoDefault(target) == target
EventFor(target) ==
  CASE target \in {"completed", "cancelled", "error"} -> target
    [] target = "linked" -> "incident_linked"
    [] OTHER -> "status_changed"

\* Mutant: old and new status swapped.
RecordSwapped(r, event, from, to) == [by |-> r, event |-> event, from |-> to, to |-> from]
Record(r, event, from, to) == [by |-> r, event |-> event, from |-> from, to |-> to]

\* Mutants of Attach: only a created incident can be the primary one; only the first
\* incident is linked.
AttachPrimaryIfCreated(row, lnk, i, type) ==
  IF \E l \in lnk : l.incident = i THEN {}
  ELSE {[incident |-> i, type |-> type,
         primary |-> row.incident = None /\ type = "created"]}
AttachFirstOnly(row, lnk, i, type) ==
  IF row.incident # None THEN {}
  ELSE {[incident |-> i, type |-> type, primary |-> TRUE]}

\* The link an attach adds, if the incident is not linked yet.
Attach(row, lnk, i, type) ==
  IF \E l \in lnk : l.incident = i THEN {}
  ELSE {[incident |-> i, type |-> type, primary |-> row.incident = None]}

-----------------------------------------------------------------------------
(* A request arrives and loads the call.  The SELECTs of get_full are       *)
(* separate statements, each of which sees what is committed at its time.   *)

CanStart == Cardinality(Active) < PoolSize

\* Ids are fresh UUIDs: no other request has been given this one.
Fresh(op) == \A q \in Requests :
                ~(req[q].op.kind = op.kind
                  /\ IF op.kind = "create" THEN req[q].op.call = op.call
                                           ELSE req[q].op.arg = op.arg)

\* The first SELECT: the row of the call.
Receive(r) ==
  /\ req[r].at = "idle" /\ CanStart
  /\ \E op \in Operations :
       /\ op.kind # "create"
       /\ op.call \in registered
       /\ op.kind = "open" => op.arg \notin incidents /\ Fresh(op)
       /\ req' = [req EXCEPT ![r] = [Blank(op, "row") EXCEPT !.row = call[op.call]]]
  /\ UNCHANGED <<db, leg, restarts>>

\* The SELECT for its queue entry.
LoadEntry(r) ==
  /\ req[r].at = "row"
  /\ req' = [req EXCEPT ![r].at = "entry", ![r].ent = entry[req[r].op.call]]
  /\ UNCHANGED <<db, leg, restarts>>

\* The SELECT for its incident links.
LoadLinks(r) ==
  /\ req[r].at = "entry"
  /\ req' = [req EXCEPT ![r].at = "loaded", ![r].lnk = links[req[r].op.call]]
  /\ UNCHANGED <<db, leg, restarts>>

-----------------------------------------------------------------------------
(* The handlers: what a request computes once the call is loaded.  `Flush`  *)
(* is the session's state when the handler returns; the provider, when the  *)
(* handler calls it, has already changed.                                   *)

Loaded(r, kind) == req[r].at = "loaded" /\ req[r].op.kind = kind

Flush(r, row2, ent2, lnk2, log) ==
  /\ req' = [req EXCEPT ![r].at = "flushed", ![r].row2 = row2, ![r].ent2 = ent2,
                        ![r].lnk2 = lnk2, ![r].log = log]
  /\ UNCHANGED <<db, restarts>>

\* The provider knows the call, or the call has no provider leg to act on.
Reachable(r) == req[r].row.external => leg[req[r].op.call] # "none"

ActOnLeg(r, state) ==
  leg' = IF req[r].row.external THEN [leg EXCEPT ![req[r].op.call] = state] ELSE leg

\* create_call needs no read: the row is new.
CreateCall(r) ==
  /\ req[r].at = "idle" /\ CanStart
  /\ \E op \in Operations :
       /\ op.kind = "create" /\ op.call \notin registered /\ Fresh(op)
       /\ LET row == [NewCall EXCEPT !.external = op.arg # "plain",
                                     !.status = IF op.arg = "provider" THEN "ringing"
                                                ELSE "new"]
          IN  /\ req' = [req EXCEPT ![r] =
                          [Blank(op, "flushed") EXCEPT
                             !.row2 = row,
                             !.log = {Record(r, "created", None, row.status),
                                      Record(r, "queued", None, None)}]]
              /\ leg' = IF op.arg = "provider" THEN [leg EXCEPT ![op.call] = "ringing"]
                        ELSE leg
  /\ UNCHANGED <<db, restarts>>

ChangeStatus(r) ==
  /\ Loaded(r, "status")
  /\ LET row    == req[r].row
         target == req[r].op.arg
         row2   == Enter(row, target, r)
     IN  /\ row.status # target /\ CanTransition(row.status, target)
         /\ Flush(r, row2, SyncQueue(req[r].ent, row2, target, r), {},
                  {Record(r, EventFor(target), row.status, target)})
  /\ UNCHANGED leg

AssignDispatcher(r) ==
  /\ Loaded(r, "assign")
  /\ LET who  == req[r].op.arg
         row2 == EnterIfAllowed([req[r].row EXCEPT !.dispatcher = who], "accepted", r)
     IN  Flush(r, row2, Assign(req[r].ent, who, r), {},
               {Record(r, "dispatcher_assigned", None, row2.status)})
  /\ UNCHANGED leg

\* attach_incident: "link" attaches an existing card, "open" creates a new one.
AttachIncident(r) ==
  /\ Loaded(r, "link") \/ Loaded(r, "open")
  /\ req[r].op.kind = "link" => req[r].op.arg \in incidents
  /\ LET row   == req[r].row
         i     == req[r].op.arg
         type  == IF req[r].op.kind = "open" THEN "created" ELSE "linked"
         owned == [row EXCEPT !.incident = IF @ = None THEN i ELSE @]
         row2  == EnterIfAllowed(owned, "linked", r)
     IN  Flush(r, row2, req[r].ent, Attach(row, req[r].lnk, i, type),
               {Record(r, IF type = "created" THEN "incident_created"
                          ELSE "incident_linked", None, row2.status)})
  /\ UNCHANGED leg

AnswerCall(r) ==
  /\ Loaded(r, "answer") /\ Reachable(r)
  /\ ActOnLeg(r, "answered")
  /\ LET row2 == EnterIfAllowed(req[r].row, "accepted", r)
     IN  Flush(r, row2, req[r].ent, {}, {Record(r, "answered", None, row2.status)})

\* hold_call and transfer_call only tell the provider and leave a history row.
ProviderAction(r) ==
  /\ Loaded(r, "hold") \/ Loaded(r, "transfer")
  /\ Reachable(r)
  /\ ActOnLeg(r, IF req[r].op.kind = "hold" THEN "held" ELSE "transferred")
  /\ Flush(r, req[r].row, req[r].ent, {}, {Record(r, "provider_action", None, None)})

EndCall(r) ==
  /\ Loaded(r, "end") /\ Reachable(r)
  /\ ActOnLeg(r, "ended")
  /\ LET row  == req[r].row
         row2 == Enter(row, "completed", r)
     IN  IF CanTransition(row.status, "completed")
         THEN Flush(r, row2, SyncQueue(req[r].ent, row2, "completed", r), {},
                    {Record(r, "completed", row.status, "completed")})
         ELSE Flush(r, row, req[r].ent, {}, {Record(r, "provider_action", None, None)})

\* register_recording and register_transcript: the artefact row and its history
\* row are inserted together; the history row stands for both.
RegisterArtefact(r) ==
  /\ Loaded(r, "recording") \/ Loaded(r, "transcript")
  /\ Flush(r, req[r].row, req[r].ent, {},
           {Record(r, IF req[r].op.kind = "recording" THEN "recording_registered"
                      ELSE "transcript_registered", None, None)})
  /\ UNCHANGED leg

-----------------------------------------------------------------------------
(* The end of a request.                                                   *)

Finish(r, at) == req' = [req EXCEPT ![r] = Blank(req[r].op, at)]

\* Mutant: the provider's NotFoundError is not turned into an answer.
RejectWithoutProvider(r) ==
  /\ req[r].at = "loaded"
  /\ LET op == req[r].op
         s  == req[r].row.status
     IN  \/ op.kind = "status" /\ (op.arg = s \/ ~CanTransition(s, op.arg))
         \/ op.kind = "link" /\ op.arg \notin incidents
  /\ Finish(r, "failed")
  /\ UNCHANGED <<db, leg, restarts>>

\* The request raised an AppError before it changed anything: 404, 409 or 422.
Reject(r) ==
  /\ req[r].at = "loaded"
  /\ LET op == req[r].op
         s  == req[r].row.status
     IN  \/ op.kind = "status" /\ (op.arg = s \/ ~CanTransition(s, op.arg))
         \/ op.kind = "link" /\ op.arg \notin incidents
         \/ op.kind \in {"answer", "hold", "transfer", "end"} /\ ~Reachable(r)
  /\ Finish(r, "failed")
  /\ UNCHANGED <<db, leg, restarts>>

\* UPDATE writes only the columns whose value the session changed.
Column(now, loaded, new) == IF new = loaded THEN now ELSE new

WriteCall(now, loaded, new) ==
  [status     |-> Column(now.status, loaded.status, new.status),
   answered   |-> Column(now.answered, loaded.answered, new.answered),
   wait       |-> Column(now.wait, loaded.wait, new.wait),
   ended      |-> Column(now.ended, loaded.ended, new.ended),
   talk       |-> Column(now.talk, loaded.talk, new.talk),
   incident   |-> Column(now.incident, loaded.incident, new.incident),
   dispatcher |-> Column(now.dispatcher, loaded.dispatcher, new.dispatcher),
   external   |-> now.external]

WriteEntry(now, loaded, new) ==
  [status     |-> Column(now.status, loaded.status, new.status),
   assigned   |-> Column(now.assigned, loaded.assigned, new.assigned),
   removed    |-> Column(now.removed, loaded.removed, new.removed),
   dispatcher |-> Column(now.dispatcher, loaded.dispatcher, new.dispatcher)]

\* uq_call_incident_link: one link row per call and incident.
LinksAreNew(r) == \A l \in req[r].lnk2 :
                     ~ \E m \in links[req[r].op.call] : m.incident = l.incident

\* The INSERTs of create_call.
CommitCreate(r) ==
  /\ req[r].at = "flushed" /\ req[r].op.kind = "create"
  /\ LET c == req[r].op.call
     IN  /\ registered' = registered \cup {c}
         /\ call' = [call EXCEPT ![c] = req[r].row2]
         /\ entry' = [entry EXCEPT ![c] = NewEntry]
         /\ history' = [history EXCEPT ![c] = @ \cup req[r].log]
  /\ Finish(r, "done")
  /\ UNCHANGED <<links, incidents, leg, restarts>>

\* The UPDATEs and INSERTs of every other request.
CommitChange(r) ==
  /\ req[r].at = "flushed" /\ req[r].op.kind # "create"
  /\ LinksAreNew(r)
  /\ LET c == req[r].op.call
         q == req[r]
     IN  /\ call' = [call EXCEPT ![c] = WriteCall(@, q.row, q.row2)]
         /\ entry' = [entry EXCEPT ![c] = WriteEntry(@, q.ent, q.ent2)]
         /\ links' = [links EXCEPT ![c] = @ \cup q.lnk2]
         /\ history' = [history EXCEPT ![c] = @ \cup q.log]
         /\ incidents' = IF q.op.kind = "open" THEN incidents \cup {q.op.arg}
                         ELSE incidents
  /\ Finish(r, "done")
  /\ UNCHANGED <<registered, leg, restarts>>

\* The unique constraint refuses the INSERT of a link: the whole transaction is
\* rolled back.
UniqueViolation(r) ==
  /\ req[r].at = "flushed" /\ req[r].op.kind # "create"
  /\ ~LinksAreNew(r)
  /\ Finish(r, "failed")
  /\ UNCHANGED <<db, leg, restarts>>

\* The connection is lost: the transaction is rolled back, what the provider was
\* told stays.
ConnectionLost(r) ==
  /\ r \in Active
  /\ Finish(r, "failed")
  /\ UNCHANGED <<db, leg, restarts>>

\* The process restarts: open transactions are rolled back by the database and
\* the provider's in-memory calls are forgotten.
Restart ==
  /\ restarts < MaxRestarts
  /\ restarts' = restarts + 1
  /\ leg' = [c \in Calls |-> "none"]
  /\ req' = [r \in Requests |->
               IF r \in Active THEN Blank(req[r].op, "failed") ELSE req[r]]
  /\ UNCHANGED db

Handle(r) == \/ ChangeStatus(r) \/ AssignDispatcher(r) \/ AttachIncident(r)
             \/ AnswerCall(r) \/ ProviderAction(r) \/ EndCall(r)
             \/ RegisterArtefact(r) \/ Reject(r)

Step(r) == \/ LoadEntry(r) \/ LoadLinks(r) \/ Handle(r)
           \/ CommitCreate(r) \/ CommitChange(r) \/ UniqueViolation(r)

Next == \/ \E r \in Requests : \/ Receive(r) \/ CreateCall(r) \/ Step(r)
                               \/ ConnectionLost(r)
        \/ Restart

Spec == Init /\ [][Next]_vars

\* The event loop resumes every request that can run, so a request in flight
\* keeps taking steps; whether requests arrive is up to the clients.
Fairness == \A r \in Requests : WF_vars(Step(r))
FairSpec == Spec /\ Fairness

-----------------------------------------------------------------------------
(* Properties that hold however requests interleave.                        *)

\* The primary incident of a call and its links agree: a call has a primary
\* incident exactly when it has links, that incident is one of them, and some
\* link is marked primary -- although two attaches may both believe they come
\* first and each writes only the columns it changed.
LinksAgree ==
  \A c \in Calls :
    /\ call[c].incident = None <=> links[c] = {}
    /\ call[c].incident # None => \E l \in links[c] : l.incident = call[c].incident
    /\ links[c] # {} => \E l \in links[c] : l.primary

\* An attach that was answered with success is not undone by a later or a
\* concurrent request: the card exists and the call stays linked to it.
AttachIsDurable ==
  \A r \in Requests :
    req[r].at = "done" /\ req[r].op.kind \in {"link", "open"} =>
      /\ req[r].op.arg \in incidents
      /\ \E l \in links[req[r].op.call] : l.incident = req[r].op.arg

\* A closed call carries its end time and its queue entry the time it was
\* removed, even if the closing request raced with others.
ClosedIsStamped ==
  \A c \in Calls : call[c].status \in Closed =>
                     call[c].ended # None /\ entry[c].removed # None

\* The waiting time that is stored belongs to the answer time that is stored:
\* racing answers never leave one request's answered_at with another's
\* wait_seconds.
WaitMatchesAnswer == \A c \in Calls : call[c].wait = call[c].answered

\* What a call shows about its end and its answer agrees, whichever requests raced.
StampsAgree == ClosedIsStamped /\ WaitMatchesAnswer

\* Every change of a call's status is recorded by a history row inserted in the
\* same transaction that names the new status.
StatusChangeIsLogged ==
  [][\A c \in Calls :
       call'[c].status # call[c].status =>
         \E h \in history'[c] \ history[c] : h.to = call'[c].status]_vars

\* Every request in flight is answered, with success or with an error.
RequestsFinish ==
  \A r \in Requests : r \in Active ~> req[r].at \in {"done", "failed"}

-----------------------------------------------------------------------------
(* Properties of one request at a time (PoolSize = 1).                      *)

\* The status of every call as the lifecycle sees it.
StatusView == [c \in Calls |-> IF c \in registered THEN call[c].status
                               ELSE "unregistered"]

Lifecycle == INSTANCE CallLifecycle WITH status <- StatusView

\* The service implements the lifecycle: a call's status only moves along the
\* state machine.
ImplementsLifecycle == Lifecycle!Spec

\* A queue entry is removed only when its call is closed, and is marked
\* abandoned only if nobody ever answered.
RemovedMeansClosed ==
  \A c \in Calls :
    /\ entry[c].removed # None => call[c].status \in Closed
    /\ entry[c].status = "abandoned" => call[c].answered = None

\* The dispatcher shown on the call is the one its queue entry is assigned to.
DispatchersAgree == \A c \in Calls : entry[c].dispatcher = call[c].dispatcher

\* The talk time of a closed call is the one computed when it was closed, and
\* exists exactly if the call was answered.
TalkTimeMatchesEnd ==
  \A c \in Calls : call[c].status \in Closed =>
    call[c].talk = IF call[c].answered # None THEN call[c].ended ELSE None

\* One link of a call is primary, and it is the one the call refers to.
PrimaryIsUnique ==
  \A c \in Calls : \A l \in links[c] : l.primary <=> l.incident = call[c].incident

\* The call, its place in the queue, its durations and its links tell one story,
\* after any walk through the statuses.
CallIsConsistent ==
  RemovedMeansClosed /\ DispatchersAgree /\ TalkTimeMatchesEnd /\ PrimaryIsUnique

-----------------------------------------------------------------------------
(* What the documentation says and the code does not do.                    *)

\* state_machine.py: "a call can only move along its defined lifecycle".
StatusMovesAlongLifecycle ==
  [][\A c \in registered : call'[c].status # call[c].status =>
                             CanTransition(call[c].status, call'[c].status)]_vars
=============================================================================
