------------------------- MODULE CallServiceProofs -------------------------
(***************************************************************************)
(* Proofs about CallService for every set of calls, requests, incidents     *)
(* and dispatchers, every pool size and every number of restarts: what holds *)
(* whatever overlaps, what an attach that succeeded leaves, and, when one   *)
(* request runs at a time, that every call is consistent and the service    *)
(* implements the lifecycle of CallLifecycle.                               *)
(***************************************************************************)
EXTENDS CallService, FiniteSetTheorems, TLAPS

USE CallsAssumption, KindsAssumption, PoolAssumption, RequestsAssumption,
    NoneAssumption

InFlight == {"row", "entry", "loaded", "flushed"}

-----------------------------------------------------------------------------
(* What the helpers return.                                                *)

\* Entering a status keeps a row a row and touches neither incident nor
\* dispatcher nor external id.
LEMMA EnterRow ==
  ASSUME NEW row \in CallRows, NEW t \in Statuses, NEW r \in Requests
  PROVE  LET n == Enter(row, t, r)
         IN  /\ n \in CallRows
             /\ n.status = t
             /\ n.incident = row.incident
             /\ n.ended = IF t \in Closed THEN r ELSE row.ended
             /\ row.wait = row.answered => n.wait = n.answered
  BY DEF Enter, CallRows, Stamp

\* The same for the convenience moves, which may leave the status alone.
LEMMA EnterIfAllowedRow ==
  ASSUME NEW row \in CallRows, NEW t \in Statuses, NEW r \in Requests,
         t \notin Closed
  PROVE  LET n == EnterIfAllowed(row, t, r)
         IN  /\ n \in CallRows
             /\ n.status \in {row.status, t}
             /\ n.incident = row.incident
             /\ n.ended = row.ended
             /\ row.wait = row.answered => n.wait = n.answered
  BY EnterRow DEF EnterIfAllowed

\* Synchronising a queue entry keeps it an entry; a closed status removes it.
LEMMA SyncQueueEntry ==
  ASSUME NEW ent \in EntryRows, NEW row \in CallRows, NEW t \in Statuses,
         NEW r \in Requests
  PROVE  LET e == SyncQueue(ent, row, t, r)
         IN  /\ e \in EntryRows
             /\ e.removed = IF t \in Closed THEN r ELSE ent.removed
  BY DEF SyncQueue, MarkInProgress, Remove, EntryRows, Stamp, Closed

LEMMA AssignEntry ==
  ASSUME NEW ent \in EntryRows, NEW who \in Dispatchers \cup {None},
         NEW r \in Requests
  PROVE  /\ Assign(ent, who, r) \in EntryRows
         /\ Assign(ent, who, r).removed = ent.removed
  BY DEF Assign, EntryRows, Stamp

LEMMA RecordRow ==
  ASSUME NEW r \in Requests, NEW event \in Events,
         NEW from \in Statuses \cup {None}, NEW to \in Statuses \cup {None}
  PROVE  /\ Record(r, event, from, to) \in HistoryRows
         /\ Record(r, event, from, to).by = r
         /\ Record(r, event, from, to).to = to
  BY DEF Record, HistoryRows

\* An attach adds at most one link, to the incident it names, primary exactly
\* if the loaded call had no incident; adding none means it is linked already.
LEMMA AttachLinks ==
  ASSUME NEW row \in CallRows, NEW lnk \in SUBSET LinkRows, NEW i \in Incidents,
         NEW type \in {"created", "linked"}
  PROVE  /\ Attach(row, lnk, i, type) \subseteq LinkRows
         /\ \A l \in Attach(row, lnk, i, type) :
              l.incident = i /\ (l.primary <=> row.incident = None)
         /\ \E l \in lnk \cup Attach(row, lnk, i, type) : l.incident = i
<1> DEFINE p == row.incident = None
           new == [incident |-> i, type |-> type, primary |-> p]
<1>1. p \in BOOLEAN
  OBVIOUS
<1>2. /\ new \in LinkRows
      /\ new.incident = i
      /\ new.primary <=> p
  <2> HIDE DEF p
  <2> QED  BY <1>1, Zenon DEF new, LinkRows
<1>3. Attach(row, lnk, i, type) = IF \E l \in lnk : l.incident = i THEN {} ELSE {new}
  BY Zenon DEF Attach
<1> HIDE DEF new
<1> QED
  BY <1>2, <1>3

\* A column-wise write keeps rows rows.
LEMMA WriteRows ==
  ASSUME NEW now \in CallRows, NEW old \in CallRows, NEW new \in CallRows,
         NEW e \in EntryRows, NEW eold \in EntryRows, NEW enew \in EntryRows
  PROVE  /\ WriteCall(now, old, new) \in CallRows
         /\ WriteEntry(e, eold, enew) \in EntryRows
  BY DEF WriteCall, WriteEntry, Column, CallRows, EntryRows

\* An operation has an argument of its kind.
LEMMA OperationArgument ==
  ASSUME NEW op \in Operations \cup {NoOp}
  PROVE  /\ op.kind \in AllKinds \cup {"none"}
         /\ op.call \in Calls
         /\ op.kind = "create" => op.arg \in Telephony
         /\ op.kind = "status" => op.arg \in Statuses
         /\ op.kind = "assign" => op.arg \in Dispatchers \cup {None}
         /\ op.kind \in {"link", "open"} => op.arg \in Incidents
  BY DEF Operations, Operation, AllKinds, NoOp

LEMMA BlankRow ==
  ASSUME NEW op \in Operations \cup {NoOp}, NEW at \in Places
  PROVE  /\ Blank(op, at) \in RequestRows
         /\ Blank(op, at).at = at
         /\ Blank(op, at).op = op
         /\ Blank(op, at).row = NewCall
         /\ Blank(op, at).ent = NewEntry
  BY DEF Blank, RequestRows, NewCall, NewEntry, CallRows, EntryRows, Stamp,
         Statuses

-----------------------------------------------------------------------------
(* What a handler leaves in its session.                                   *)

\* What request r holds for the commit, relative to what it loaded: it never
\* clears the incident, names one only if it is linked, stamps what it closes,
\* logs the status it changes, and keeps the answer with its waiting time.
ChangeOK(r, row, ent, lnk, row2, ent2, lnk2, log) ==
  /\ row2.incident = None => row.incident = None
  /\ row2.incident # row.incident =>
       \E l \in lnk \cup lnk2 : l.incident = row2.incident
  /\ lnk2 # {} => row2.incident # None
  /\ \A l \in lnk2 : l.primary <=> row.incident = None
  /\ row2.ended \in {row.ended, r}
  /\ ent2.removed \in {ent.removed, r}
  /\ row2.status \in Closed /\ row2.status # row.status =>
       row2.ended = r /\ ent2.removed = r
  /\ row.wait = row.answered => row2.wait = row2.answered
  /\ \A h \in log : h.by = r
  /\ row2.status # row.status => \E h \in log : h.to = row2.status

\* The session q of request r is ready to commit.
SessionOK(r, q) == ChangeOK(r, q.row, q.ent, q.lnk, q.row2, q.ent2, q.lnk2, q.log)

\* The session of r after its handler has run.
Flushed(r, q) ==
  /\ q \in RequestRows
  /\ q.at = "flushed"
  /\ q.op = req[r].op /\ q.row = req[r].row /\ q.ent = req[r].ent /\ q.lnk = req[r].lnk

\* Everything the handlers do: put the session of r in order, and tell the
\* provider.
Handled(r) ==
  /\ \E q : Flushed(r, q) /\ SessionOK(r, q) /\ req' = [req EXCEPT ![r] = q]
  /\ leg' \in [Calls -> LegStates]
  /\ UNCHANGED <<db, restarts>>

\* The session after Flush, given what Flush was given.
LEMMA FlushSession ==
  ASSUME TypeOK, NEW r \in Requests,
         NEW row2 \in CallRows, NEW ent2 \in EntryRows,
         NEW lnk2 \in SUBSET LinkRows, NEW log \in SUBSET HistoryRows,
         Flush(r, row2, ent2, lnk2, log), leg' \in [Calls -> LegStates],
         ChangeOK(r, req[r].row, req[r].ent, req[r].lnk, row2, ent2, lnk2, log)
  PROVE  Handled(r)
<1> DEFINE q == [req[r] EXCEPT !.at = "flushed", !.row2 = row2, !.ent2 = ent2,
                               !.lnk2 = lnk2, !.log = log]
<1>1. req[r] \in RequestRows /\ req \in [Requests -> RequestRows]
  BY DEF TypeOK
<1>2. /\ q \in RequestRows /\ q.at = "flushed"
      /\ q.op = req[r].op /\ q.row = req[r].row /\ q.ent = req[r].ent
      /\ q.lnk = req[r].lnk /\ q.row2 = row2 /\ q.ent2 = ent2
      /\ q.lnk2 = lnk2 /\ q.log = log
  BY <1>1 DEF RequestRows, Places
<1>3. req' = [req EXCEPT ![r] = q]
  BY <1>1 DEF Flush, RequestRows
<1>4. UNCHANGED <<db, restarts>>
  BY DEF Flush
<1> HIDE DEF q
<1>5. Flushed(r, q) /\ SessionOK(r, q)
  BY <1>2 DEF Flushed, SessionOK
<1> QED
  BY <1>3, <1>4, <1>5 DEF Handled

LEMMA ActOnLegType ==
  ASSUME TypeOK, NEW r \in Requests, NEW s \in LegStates, ActOnLeg(r, s)
  PROVE  leg' \in [Calls -> LegStates]
  BY DEF TypeOK, ActOnLeg

\* What a request loaded has the type of what it loaded it from.
LEMMA SessionType ==
  ASSUME TypeOK, NEW r \in Requests
  PROVE  /\ req \in [Requests -> RequestRows]
         /\ req[r] \in RequestRows
         /\ req[r].at \in Places
         /\ req[r].op \in Operations \cup {NoOp}
         /\ req[r].row \in CallRows /\ req[r].row2 \in CallRows
         /\ req[r].ent \in EntryRows /\ req[r].ent2 \in EntryRows
         /\ req[r].lnk \subseteq LinkRows /\ req[r].lnk2 \subseteq LinkRows
         /\ req[r].log \subseteq HistoryRows
  BY DEF TypeOK, RequestRows

LEMMA ChangeStatusHandled ==
  ASSUME TypeOK, NEW r \in Requests, ChangeStatus(r)
  PROVE  Handled(r)
<1> DEFINE row    == req[r].row
           target == req[r].op.arg
           row2   == Enter(row, target, r)
           ent2   == SyncQueue(req[r].ent, row2, target, r)
           h      == Record(r, EventFor(target), row.status, target)
<1>1. row \in CallRows /\ row.status \in Statuses /\ target \in Statuses
  BY SessionType, OperationArgument DEF ChangeStatus, Loaded, CallRows
<1>2. /\ row2 \in CallRows
      /\ row2.status = target
      /\ row2.incident = row.incident
      /\ row2.ended = IF target \in Closed THEN r ELSE row.ended
      /\ row.wait = row.answered => row2.wait = row2.answered
  BY <1>1, EnterRow
<1>3. ent2 \in EntryRows /\ ent2.removed = IF target \in Closed THEN r ELSE req[r].ent.removed
  BY <1>1, <1>2, SyncQueueEntry, SessionType
<1>4. EventFor(target) \in Events
  BY <1>1 DEF EventFor, Events
<1>5. h \in HistoryRows /\ h.by = r /\ h.to = target
  BY <1>1, <1>4, RecordRow
<1>6. Flush(r, row2, ent2, {}, {h}) /\ UNCHANGED leg
  BY DEF ChangeStatus
<1>7. leg' \in [Calls -> LegStates]
  BY <1>6 DEF TypeOK
<1>8. ChangeOK(r, row, req[r].ent, req[r].lnk, row2, ent2, {}, {h})
  <2> HIDE DEF row2, ent2, h
  <2> QED
    BY <1>1, <1>2, <1>3, <1>5, SessionType DEF ChangeOK
<1> HIDE DEF row2, ent2, h
<1> QED
  BY <1>2, <1>3, <1>5, <1>6, <1>7, <1>8, FlushSession

LEMMA AssignDispatcherHandled ==
  ASSUME TypeOK, NEW r \in Requests, AssignDispatcher(r)
  PROVE  Handled(r)
<1> DEFINE row  == req[r].row
           who  == req[r].op.arg
           mine == [row EXCEPT !.dispatcher = who]
           row2 == EnterIfAllowed(mine, "accepted", r)
           ent2 == Assign(req[r].ent, who, r)
           h    == Record(r, "dispatcher_assigned", None, row2.status)
<1>6. Flush(r, row2, ent2, {}, {h}) /\ UNCHANGED leg
  BY DEF AssignDispatcher
<1>1. row \in CallRows /\ who \in Dispatchers \cup {None}
  BY SessionType, OperationArgument DEF AssignDispatcher, Loaded
<1>2. /\ mine \in CallRows
      /\ mine.status = row.status /\ mine.incident = row.incident
      /\ mine.ended = row.ended
      /\ row.wait = row.answered => mine.wait = mine.answered
  BY <1>1 DEF CallRows
<1> HIDE DEF mine
<1>3. /\ row2 \in CallRows
      /\ row2.status \in {mine.status, "accepted"}
      /\ row2.incident = mine.incident
      /\ row2.ended = mine.ended
      /\ mine.wait = mine.answered => row2.wait = row2.answered
  <2>1. "accepted" \in Statuses /\ "accepted" \notin Closed
    BY DEF Statuses, Closed
  <2> QED
    BY <1>2, <2>1, EnterIfAllowedRow
<1>4. ent2 \in EntryRows /\ ent2.removed = req[r].ent.removed
  BY <1>1, AssignEntry, SessionType
<1>5. h \in HistoryRows /\ h.by = r /\ h.to = row2.status
  BY <1>3, RecordRow DEF Events, CallRows
<1>7. leg' \in [Calls -> LegStates]
  BY <1>6 DEF TypeOK
<1>8. ChangeOK(r, row, req[r].ent, req[r].lnk, row2, ent2, {}, {h})
  <2> HIDE DEF row2, ent2, h
  <2> QED
    BY <1>2, <1>3, <1>4, <1>5, SessionType DEF ChangeOK, Closed
<1> HIDE DEF row2, ent2, h
<1> QED
  BY <1>3, <1>4, <1>5, <1>6, <1>7, <1>8, FlushSession

LEMMA AttachIncidentHandled ==
  ASSUME TypeOK, NEW r \in Requests, AttachIncident(r)
  PROVE  Handled(r)
<1> DEFINE row   == req[r].row
           i     == req[r].op.arg
           type  == IF req[r].op.kind = "open" THEN "created" ELSE "linked"
           owned == [row EXCEPT !.incident = IF @ = None THEN i ELSE @]
           row2  == EnterIfAllowed(owned, "linked", r)
           lnk2  == Attach(row, req[r].lnk, i, type)
           event == IF type = "created" THEN "incident_created" ELSE "incident_linked"
           h     == Record(r, event, None, row2.status)
<1>0. type \in {"created", "linked"} /\ event \in Events
  BY DEF Events
<1>6. Flush(r, row2, req[r].ent, lnk2, {h}) /\ UNCHANGED leg
  BY DEF AttachIncident
<1> HIDE DEF type, event
<1>1. row \in CallRows /\ i \in Incidents
  BY SessionType, OperationArgument DEF AttachIncident, Loaded
<1>2. /\ owned \in CallRows
      /\ owned.status = row.status
      /\ owned.incident = IF row.incident = None THEN i ELSE row.incident
      /\ owned.ended = row.ended
      /\ row.wait = row.answered => owned.wait = owned.answered
  BY <1>1 DEF CallRows
<1> HIDE DEF owned
<1>3. /\ row2 \in CallRows
      /\ row2.status \in {owned.status, "linked"}
      /\ row2.incident = owned.incident
      /\ row2.ended = owned.ended
      /\ owned.wait = owned.answered => row2.wait = row2.answered
  <2>1. "linked" \in Statuses /\ "linked" \notin Closed
    BY DEF Statuses, Closed
  <2> QED
    BY <1>2, <2>1, EnterIfAllowedRow
<1>4. /\ lnk2 \subseteq LinkRows
      /\ \A l \in lnk2 : l.primary <=> row.incident = None
      /\ \E l \in req[r].lnk \cup lnk2 : l.incident = i
  <2> DEFINE lnk == req[r].lnk
  <2>1. lnk \in SUBSET LinkRows
    BY SessionType
  <2>2. \A l \in Attach(row, lnk, i, type) :
          l.incident = i /\ (l.primary <=> row.incident = None)
    <3> HIDE DEF row, i, lnk
    <3> QED  BY <1>0, <1>1, <2>1, AttachLinks, ZenonT(40)
  <2>3. /\ Attach(row, lnk, i, type) \subseteq LinkRows
        /\ \E l \in lnk \cup Attach(row, lnk, i, type) : l.incident = i
    <3> HIDE DEF row, i, lnk
    <3> QED  BY <1>0, <1>1, <2>1, AttachLinks, ZenonT(40)
  <2> QED
    BY <2>2, <2>3
<1>5. h \in HistoryRows /\ h.by = r /\ h.to = row2.status
  BY <1>0, <1>3, RecordRow DEF CallRows
<1>7. leg' \in [Calls -> LegStates]
  BY <1>6 DEF TypeOK
<1>8. ChangeOK(r, row, req[r].ent, req[r].lnk, row2, req[r].ent, lnk2, {h})
  <2> HIDE DEF row2, lnk2, h
  <2> QED
    BY <1>1, <1>2, <1>3, <1>4, <1>5, SessionType DEF ChangeOK, Closed
<1> HIDE DEF row2, lnk2, h
<1> QED
  BY <1>3, <1>4, <1>5, <1>6, <1>7, <1>8, FlushSession, SessionType

LEMMA AnswerCallHandled ==
  ASSUME TypeOK, NEW r \in Requests, AnswerCall(r)
  PROVE  Handled(r)
<1> DEFINE row  == req[r].row
           row2 == EnterIfAllowed(row, "accepted", r)
           h    == Record(r, "answered", None, row2.status)
<1>1. Flush(r, row2, req[r].ent, {}, {h}) /\ ActOnLeg(r, "answered")
  BY DEF AnswerCall
<1>2. /\ row2 \in CallRows
      /\ row2.status \in {row.status, "accepted"}
      /\ row2.incident = row.incident
      /\ row2.ended = row.ended
      /\ row.wait = row.answered => row2.wait = row2.answered
  <2>1. "accepted" \in Statuses /\ "accepted" \notin Closed
    BY DEF Statuses, Closed
  <2> QED
    BY <2>1, SessionType, EnterIfAllowedRow
<1>3. h \in HistoryRows /\ h.by = r /\ h.to = row2.status
  BY <1>2, RecordRow DEF Events, CallRows
<1>4. leg' \in [Calls -> LegStates]
  BY <1>1, ActOnLegType DEF LegStates
<1> HIDE DEF row2, h
<1>5. ChangeOK(r, row, req[r].ent, req[r].lnk, row2, req[r].ent, {}, {h})
  BY <1>2, <1>3 DEF ChangeOK, Closed
<1> QED
  BY <1>1, <1>2, <1>3, <1>4, <1>5, FlushSession, SessionType

\* A request that changes no row only leaves history.
LEMMA NoChange ==
  ASSUME NEW r \in Requests, NEW row, NEW ent, NEW lnk, NEW h, h.by = r
  PROVE  ChangeOK(r, row, ent, lnk, row, ent, {}, {h})
  BY DEF ChangeOK

LEMMA ProviderActionHandled ==
  ASSUME TypeOK, NEW r \in Requests, ProviderAction(r)
  PROVE  Handled(r)
<1> DEFINE h == Record(r, "provider_action", None, None)
           s == IF req[r].op.kind = "hold" THEN "held" ELSE "transferred"
<1>1. Flush(r, req[r].row, req[r].ent, {}, {h}) /\ ActOnLeg(r, s)
  BY DEF ProviderAction
<1>2. h \in HistoryRows /\ h.by = r
  BY RecordRow DEF Events
<1>3. leg' \in [Calls -> LegStates]
  BY <1>1, ActOnLegType DEF LegStates
<1> HIDE DEF h
<1> QED
  BY <1>1, <1>2, <1>3, NoChange, FlushSession, SessionType

LEMMA RegisterArtefactHandled ==
  ASSUME TypeOK, NEW r \in Requests, RegisterArtefact(r)
  PROVE  Handled(r)
<1> DEFINE event == IF req[r].op.kind = "recording" THEN "recording_registered"
                    ELSE "transcript_registered"
           h     == Record(r, event, None, None)
<1>1. Flush(r, req[r].row, req[r].ent, {}, {h}) /\ UNCHANGED leg
  BY DEF RegisterArtefact
<1>2. event \in Events
  BY DEF Events
<1> HIDE DEF event
<1>3. h \in HistoryRows /\ h.by = r
  BY <1>2, RecordRow
<1>4. leg' \in [Calls -> LegStates]
  BY <1>1 DEF TypeOK
<1> HIDE DEF h
<1> QED
  BY <1>1, <1>3, <1>4, NoChange, FlushSession, SessionType

LEMMA EndCallHandled ==
  ASSUME TypeOK, NEW r \in Requests, EndCall(r)
  PROVE  Handled(r)
<1> DEFINE row  == req[r].row
           ent  == req[r].ent
           row2 == Enter(row, "completed", r)
           ent2 == SyncQueue(ent, row2, "completed", r)
           h    == Record(r, "completed", row.status, "completed")
           g    == Record(r, "provider_action", None, None)
<1>1. row \in CallRows /\ row.status \in Statuses /\ ent \in EntryRows
  BY SessionType DEF CallRows
<1>2. ActOnLeg(r, "ended")
  BY DEF EndCall
<1>3. leg' \in [Calls -> LegStates]
  BY <1>2, ActOnLegType DEF LegStates
<1>4. CASE CanTransition(row.status, "completed")
  <2>1. Flush(r, row2, ent2, {}, {h})
    BY <1>4 DEF EndCall
  <2>2. "completed" \in Statuses /\ "completed" \in Closed
    BY DEF Statuses, Closed
  <2>3. /\ row2 \in CallRows
        /\ row2.status = "completed"
        /\ row2.incident = row.incident
        /\ row2.ended = r
        /\ row.wait = row.answered => row2.wait = row2.answered
    BY <1>1, <2>2, EnterRow
  <2>4. ent2 \in EntryRows /\ ent2.removed = r
    BY <1>1, <2>2, <2>3, SyncQueueEntry
  <2>5. h \in HistoryRows /\ h.by = r /\ h.to = "completed"
    BY <1>1, <2>2, RecordRow DEF Events
  <2> HIDE DEF row2, ent2, h
  <2>6. ChangeOK(r, row, ent, req[r].lnk, row2, ent2, {}, {h})
    BY <2>3, <2>4, <2>5 DEF ChangeOK
  <2> QED
    BY <1>3, <2>1, <2>3, <2>4, <2>5, <2>6, FlushSession
<1>5. CASE ~CanTransition(row.status, "completed")
  <2>1. Flush(r, row, ent, {}, {g})
    BY <1>5 DEF EndCall
  <2>2. g \in HistoryRows /\ g.by = r
    BY RecordRow DEF Events
  <2> HIDE DEF g
  <2> QED
    BY <1>1, <1>3, <2>1, <2>2, NoChange, FlushSession
<1> QED
  BY <1>4, <1>5

\* Every handler either puts the session in order or refuses the request.
LEMMA HandlersHandle ==
  ASSUME TypeOK, NEW r \in Requests, Handle(r)
  PROVE  (r \in Active /\ req[r].at = "loaded" /\ req[r].op.kind # "create" /\ Handled(r))
         \/ Reject(r)
<1>1. CASE Reject(r)
  BY <1>1
<1>2. CASE ~Reject(r)
  <2>1. /\ req[r].at = "loaded"
        /\ req[r].op.kind # "create"
        /\ r \in Active
    BY <1>2 DEF Handle, ChangeStatus, AssignDispatcher, AttachIncident, AnswerCall,
                ProviderAction, EndCall, RegisterArtefact, Loaded, Active
  <2> QED
    BY <1>2, <2>1, ChangeStatusHandled, AssignDispatcherHandled, AttachIncidentHandled,
       AnswerCallHandled, ProviderActionHandled, EndCallHandled, RegisterArtefactHandled
       DEF Handle
<1> QED
  BY <1>1, <1>2

-----------------------------------------------------------------------------
(* Type correctness.                                                       *)

\* A finished request keeps its operation only.
LEMMA FinishType ==
  ASSUME TypeOK, NEW r \in Requests, NEW at \in {"done", "failed"}, Finish(r, at)
  PROVE  /\ req' \in [Requests -> RequestRows]
         /\ req'[r].at = at /\ req'[r].op = req[r].op
         /\ \A q \in Requests \ {r} : req'[q] = req[q]
<1>1. Blank(req[r].op, at) \in RequestRows /\ Blank(req[r].op, at).at = at
      /\ Blank(req[r].op, at).op = req[r].op
  BY BlankRow, SessionType DEF Places
<1> QED
  BY <1>1, SessionType DEF Finish

\* The row create_call holds for its commit, and the history that goes with it.
NewRow(op) == [NewCall EXCEPT !.external = op.arg # "plain",
                              !.status = IF op.arg = "provider" THEN "ringing" ELSE "new"]
NewLog(r, op) == {Record(r, "created", None, NewRow(op).status),
                  Record(r, "queued", None, None)}
NewSession(r, op) == [Blank(op, "flushed") EXCEPT !.row2 = NewRow(op), !.log = NewLog(r, op)]

LEMMA NewSessionRow ==
  ASSUME NEW r \in Requests, NEW op \in Operations \cup {NoOp}
  PROVE  LET q == NewSession(r, op)
         IN  /\ q \in RequestRows
             /\ q.at = "flushed" /\ q.op = op
             /\ q.row2.incident = None /\ q.row2.ended = None
             /\ q.row2.wait = None /\ q.row2.answered = None
             /\ q.row2.status \in {"new", "ringing"}
             /\ \A h \in q.log : h.by = r
             /\ \E h \in q.log : h.to = q.row2.status
<1> DEFINE b == Blank(op, "flushed")
           n == NewRow(op)
           l == NewLog(r, op)
<1>1. b \in RequestRows /\ b.at = "flushed" /\ b.op = op
  BY BlankRow DEF Places
<1>2. /\ n.incident = None /\ n.ended = None /\ n.wait = None /\ n.answered = None
      /\ n.status \in {"new", "ringing"}
  BY DEF NewRow, NewCall
<1>3. n \in CallRows
  <2>1. (op.arg # "plain") \in BOOLEAN
    OBVIOUS
  <2>2. NewCall \in CallRows
    BY DEF NewCall, CallRows, Stamp, Statuses
  <2> DEFINE ext == op.arg # "plain"
             st  == IF op.arg = "provider" THEN "ringing" ELSE "new"
  <2>3. st \in Statuses
    BY DEF Statuses
  <2> HIDE DEF ext, st
  <2>4. ext \in BOOLEAN => [NewCall EXCEPT !.external = ext, !.status = st] \in CallRows
    BY <2>2, <2>3, Zenon DEF CallRows
  <2> QED
    BY <2>1, <2>4, Zenon DEF NewRow, ext, st
<1>4. /\ l \subseteq HistoryRows
      /\ \A h \in l : h.by = r
      /\ \E h \in l : h.to = n.status
  BY <1>3, RecordRow DEF NewLog, Events, CallRows
<1> HIDE DEF b, n, l
<1>5. NewSession(r, op) = [b EXCEPT !.row2 = n, !.log = l]
  BY Zenon DEF NewSession, b, n, l
<1> QED
  BY <1>1, <1>2, <1>3, <1>4, <1>5 DEF RequestRows

\* Every step of the service keeps every variable in its type.
LEMMA TypeInductive == TypeOK /\ [Next]_vars => TypeOK'
<1> SUFFICES ASSUME TypeOK, [Next]_vars PROVE TypeOK'
  OBVIOUS
<1> USE DEF db
<1>1. ASSUME NEW r \in Requests, Receive(r) PROVE TypeOK'
  <2>1. PICK op \in Operations :
           /\ op.call \in registered
           /\ req' = [req EXCEPT ![r] = [Blank(op, "row") EXCEPT !.row = call[op.call]]]
    BY <1>1 DEF Receive
  <2>2. call[op.call] \in CallRows
    BY <2>1 DEF TypeOK
  <2>3. Blank(op, "row") \in RequestRows
    BY BlankRow DEF Places
  <2>4. [Blank(op, "row") EXCEPT !.row = call[op.call]] \in RequestRows
    BY <2>2, <2>3 DEF RequestRows
  <2>5. req' \in [Requests -> RequestRows]
    BY <2>1, <2>4, SessionType
  <2> QED
    BY <1>1, <2>5 DEF Receive, TypeOK
<1>2. ASSUME NEW r \in Requests, CreateCall(r) PROVE TypeOK'
  <2>1. PICK op \in Operations :
           /\ op.call \notin registered
           /\ req' = [req EXCEPT ![r] = NewSession(r, op)]
           /\ leg' = IF op.arg = "provider" THEN [leg EXCEPT ![op.call] = "ringing"]
                     ELSE leg
    BY <1>2, Zenon DEF CreateCall, NewSession, NewRow, NewLog
  <2>2. req' \in [Requests -> RequestRows]
    BY <2>1, NewSessionRow, SessionType
  <2>3. leg' \in [Calls -> LegStates]
    BY <2>1 DEF TypeOK, LegStates
  <2> QED
    BY <1>2, <2>2, <2>3 DEF CreateCall, TypeOK
<1>3. ASSUME NEW r \in Requests, LoadEntry(r) PROVE TypeOK'
  <2> DEFINE q == [req[r] EXCEPT !.at = "entry", !.ent = entry[req[r].op.call]]
  <2>1. entry[req[r].op.call] \in EntryRows
    BY SessionType, OperationArgument DEF TypeOK
  <2>2. q \in RequestRows
    BY <2>1, SessionType DEF RequestRows, Places
  <2>3. req' = [req EXCEPT ![r] = q]
    BY <1>3, SessionType DEF LoadEntry, RequestRows
  <2>4. req' \in [Requests -> RequestRows]
    BY <2>2, <2>3, SessionType
  <2> QED
    BY <1>3, <2>4 DEF LoadEntry, TypeOK
<1>4. ASSUME NEW r \in Requests, LoadLinks(r) PROVE TypeOK'
  <2> DEFINE q == [req[r] EXCEPT !.at = "loaded", !.lnk = links[req[r].op.call]]
  <2>1. links[req[r].op.call] \subseteq LinkRows
    BY SessionType, OperationArgument DEF TypeOK
  <2>2. q \in RequestRows
    BY <2>1, SessionType DEF RequestRows, Places
  <2>3. req' = [req EXCEPT ![r] = q]
    BY <1>4, SessionType DEF LoadLinks, RequestRows
  <2>4. req' \in [Requests -> RequestRows]
    BY <2>2, <2>3, SessionType
  <2> QED
    BY <1>4, <2>4 DEF LoadLinks, TypeOK
<1>5. ASSUME NEW r \in Requests, Reject(r) PROVE TypeOK'
  BY <1>5, FinishType DEF Reject, TypeOK
<1>6. ASSUME NEW r \in Requests, Handle(r) PROVE TypeOK'
  <2>1. CASE Reject(r)
    BY <1>5, <2>1
  <2>2. CASE Handled(r)
    <3>1. PICK q : Flushed(r, q) /\ req' = [req EXCEPT ![r] = q]
      BY <2>2 DEF Handled
    <3>2. req' \in [Requests -> RequestRows]
      BY <3>1, SessionType DEF Flushed
    <3> QED
      BY <2>2, <3>2 DEF Handled, TypeOK
  <2> QED
    BY <1>6, <2>1, <2>2, HandlersHandle
<1>7. ASSUME NEW r \in Requests, CommitCreate(r) PROVE TypeOK'
  <2> DEFINE c == req[r].op.call
  <2>1. c \in Calls
    BY SessionType, OperationArgument
  <2>2. req' \in [Requests -> RequestRows]
    BY <1>7, FinishType DEF CommitCreate
  <2>3. NewEntry \in EntryRows
    BY DEF NewEntry, EntryRows, Stamp
  <2>4. /\ registered' = registered \cup {c}
        /\ call' = [call EXCEPT ![c] = req[r].row2]
        /\ entry' = [entry EXCEPT ![c] = NewEntry]
        /\ history' = [history EXCEPT ![c] = @ \cup req[r].log]
        /\ UNCHANGED <<links, incidents, leg, restarts>>
    BY <1>7 DEF CommitCreate
  <2> HIDE DEF c
  <2> QED
    BY <2>1, <2>2, <2>3, <2>4, SessionType DEF TypeOK
<1>8. ASSUME NEW r \in Requests, CommitChange(r) PROVE TypeOK'
  <2> DEFINE c == req[r].op.call
             w == WriteCall(call[c], req[r].row, req[r].row2)
             e == WriteEntry(entry[c], req[r].ent, req[r].ent2)
  <2>1. c \in Calls
    BY SessionType, OperationArgument
  <2>2. req' \in [Requests -> RequestRows]
    BY <1>8, FinishType DEF CommitChange
  <2>3. w \in CallRows /\ e \in EntryRows
    <3>1. call[c] \in CallRows /\ entry[c] \in EntryRows
      BY <2>1 DEF TypeOK
    <3> QED
      BY <3>1, WriteRows, SessionType
  <2>4. /\ call' = [call EXCEPT ![c] = w]
        /\ entry' = [entry EXCEPT ![c] = e]
        /\ links' = [links EXCEPT ![c] = @ \cup req[r].lnk2]
        /\ history' = [history EXCEPT ![c] = @ \cup req[r].log]
        /\ UNCHANGED <<registered, leg, restarts>>
    BY <1>8 DEF CommitChange
  <2>5. incidents' \subseteq Incidents
    BY <1>8, SessionType, OperationArgument DEF CommitChange, TypeOK
  <2> HIDE DEF c, w, e
  <2> QED
    BY <2>1, <2>2, <2>3, <2>4, <2>5, SessionType DEF TypeOK
<1>9. ASSUME NEW r \in Requests, UniqueViolation(r) PROVE TypeOK'
  BY <1>9, FinishType DEF UniqueViolation, TypeOK
<1>10. ASSUME NEW r \in Requests, ConnectionLost(r) PROVE TypeOK'
  BY <1>10, FinishType DEF ConnectionLost, TypeOK
<1>11. ASSUME Restart PROVE TypeOK'
  <2>1. \A r \in Requests : Blank(req[r].op, "failed") \in RequestRows
    BY BlankRow, SessionType DEF Places
  <2>2. req' \in [Requests -> RequestRows]
    BY <1>11, <2>1, SessionType DEF Restart
  <2>3. leg' \in [Calls -> LegStates]
    BY <1>11 DEF Restart, LegStates
  <2> QED
    BY <1>11, <2>2, <2>3 DEF Restart, TypeOK
<1>12. ASSUME UNCHANGED vars PROVE TypeOK'
  BY <1>12 DEF vars, TypeOK
<1> QED
  BY <1>1, <1>2, <1>3, <1>4, <1>6, <1>7, <1>8, <1>9, <1>10, <1>11, <1>12 DEF Next, Step

LEMMA TypeInitial == Init => TypeOK
<1> SUFFICES ASSUME Init PROVE TypeOK
  OBVIOUS
<1>1. NewCall \in CallRows /\ NewEntry \in EntryRows
  BY DEF NewCall, NewEntry, CallRows, EntryRows, Stamp, Statuses
<1>2. Blank(NoOp, "idle") \in RequestRows
  BY BlankRow DEF Places
<1> QED
  BY <1>1, <1>2 DEF Init, TypeOK, LegStates

\* Every variable keeps its type: rows stay rows of their tables and requests
\* stay requests, however they interleave and wherever they are cut off.
THEOREM TypeCorrect == Spec => []TypeOK
  BY TypeInitial, TypeInductive, PTL DEF Spec

-----------------------------------------------------------------------------
(* The inductive invariant behind the safety properties.                   *)

\* Ids are fresh: no call is created twice.
CreatesDiffer ==
  \A q, r \in Requests :
    q # r /\ req[q].op.kind = "create" /\ req[r].op.kind = "create" =>
      req[q].op.call # req[r].op.call

\* A call without a row has nothing attached to it.
UnregisteredIsEmpty ==
  \A c \in Calls \ registered : call[c] = NewCall /\ links[c] = {}

\* What the database stores was written by requests that are over.
StampsAreDone ==
  \A c \in Calls :
    /\ call[c].ended # None => req[call[c].ended].at = "done"
    /\ entry[c].removed # None => req[entry[c].removed].at = "done"
    /\ \A h \in history[c] : req[h.by].at = "done"

\* A request that creates a call holds a new row for an id nobody has.
CreateSession(r) ==
  req[r].at \in InFlight /\ req[r].op.kind = "create" =>
    /\ req[r].at = "flushed"
    /\ req[r].op.call \notin registered
    /\ req[r].row2.incident = None /\ req[r].row2.ended = None
    /\ req[r].row2.wait = None /\ req[r].row2.answered = None
    /\ req[r].row2.status \in {"new", "ringing"}
    /\ \A h \in req[r].log : h.by = r
    /\ \E h \in req[r].log : h.to = req[r].row2.status

\* What any other request has loaded was committed: an incident it saw is not
\* taken away, links it saw are still there, no stamp it saw is its own.
ChangeSession(r) ==
  req[r].at \in InFlight /\ req[r].op.kind # "create" =>
    LET c == req[r].op.call
    IN  /\ c \in registered
        /\ req[r].row.incident # None => call[c].incident # None
        /\ req[r].row.wait = req[r].row.answered
        /\ req[r].row.ended # r /\ req[r].ent.removed # r
        /\ req[r].at \in {"loaded", "flushed"} => req[r].lnk \subseteq links[c]
        /\ req[r].at = "flushed" => SessionOK(r, req[r])

IInv ==
  /\ TypeOK
  /\ CreatesDiffer
  /\ UnregisteredIsEmpty
  /\ StampsAreDone
  /\ \A r \in Requests : CreateSession(r) /\ ChangeSession(r)
  /\ LinksAgree
  /\ ClosedIsStamped
  /\ WaitMatchesAnswer

\* A step that touches one session only, and no row, keeps the invariant if that
\* session is in order afterwards.
LEMMA SessionStep ==
  ASSUME IInv, TypeOK', NEW r \in Requests, UNCHANGED db,
         req[r].at # "done",
         \A q \in Requests \ {r} : req'[q] = req[q],
         CreateSession(r)', ChangeSession(r)', CreatesDiffer'
  PROVE  IInv'
<1>1. UNCHANGED <<registered, call, entry, links, history, incidents>>
  BY DEF db
<1>2. UnregisteredIsEmpty' /\ LinksAgree' /\ ClosedIsStamped' /\ WaitMatchesAnswer'
  BY <1>1 DEF IInv, UnregisteredIsEmpty, LinksAgree, ClosedIsStamped, WaitMatchesAnswer
<1>3. \A q \in Requests : req[q].at = "done" => req'[q].at = "done"
  OBVIOUS
<1>4. StampsAreDone'
  <2> SUFFICES ASSUME NEW c \in Calls
               PROVE  /\ call[c].ended # None => req'[call[c].ended].at = "done"
                      /\ entry[c].removed # None => req'[entry[c].removed].at = "done"
                      /\ \A h \in history[c] : req'[h.by].at = "done"
    BY <1>1 DEF StampsAreDone
  <2>1. /\ call[c].ended \in Stamp /\ entry[c].removed \in Stamp
        /\ \A h \in history[c] : h.by \in Requests
    BY DEF IInv, TypeOK, CallRows, EntryRows, HistoryRows
  <2> QED
    BY <1>3, <2>1 DEF IInv, StampsAreDone, Stamp
<1>5. ASSUME NEW q \in Requests PROVE CreateSession(q)' /\ ChangeSession(q)'
  <2>1. CASE q = r
    BY <2>1
  <2>2. CASE q # r
    BY <1>1, <2>2 DEF IInv, CreateSession, ChangeSession
  <2> QED
    BY <2>1, <2>2
<1> QED
  BY <1>2, <1>4, <1>5 DEF IInv

\* A request that is over, or has kept its operation, disturbs no other.
LEMMA SameOperation ==
  ASSUME CreatesDiffer, NEW r \in Requests,
         req'[r].op.kind = "create" => req'[r].op = req[r].op,
         \A q \in Requests \ {r} : req'[q] = req[q]
  PROVE  CreatesDiffer'
  BY DEF CreatesDiffer

LEMMA FailedStep ==
  ASSUME IInv, TypeOK', NEW r \in Requests, UNCHANGED db, r \in Active,
         Finish(r, "failed")
  PROVE  IInv'
<1>1. /\ req'[r].at = "failed" /\ req'[r].op = req[r].op
      /\ \A q \in Requests \ {r} : req'[q] = req[q]
  BY FinishType DEF IInv
<1>2. CreateSession(r)' /\ ChangeSession(r)'
  BY <1>1 DEF CreateSession, ChangeSession, InFlight
<1>3. CreatesDiffer'
  BY <1>1, SameOperation DEF IInv
<1> QED
  BY <1>1, <1>2, <1>3, SessionStep DEF Active

LEMMA ReceiveStep ==
  ASSUME IInv, TypeOK', NEW r \in Requests, Receive(r)
  PROVE  IInv'
<1>1. PICK op \in Operations :
         /\ op.kind # "create"
         /\ op.call \in registered
         /\ req' = [req EXCEPT ![r] = [Blank(op, "row") EXCEPT !.row = call[op.call]]]
  BY DEF Receive
<1>2. /\ Blank(op, "row") \in RequestRows /\ Blank(op, "row").at = "row"
      /\ Blank(op, "row").op = op /\ Blank(op, "row").ent = NewEntry
  BY BlankRow DEF Places
<1>3. /\ req'[r].at = "row" /\ req'[r].op = op
      /\ req'[r].row = call[op.call] /\ req'[r].ent = NewEntry
      /\ \A q \in Requests \ {r} : req'[q] = req[q]
  BY <1>1, <1>2, SessionType DEF RequestRows, IInv
<1>4. UNCHANGED db /\ req[r].at = "idle"
  BY DEF Receive
<1>5. ChangeSession(r)'
  <2>1. op.call \in Calls /\ call[op.call] \in CallRows
    BY OperationArgument DEF IInv, TypeOK
  <2>2. call[op.call].wait = call[op.call].answered
    BY <2>1 DEF IInv, WaitMatchesAnswer
  <2>3. call[op.call].ended # r
    BY <1>4, <2>1 DEF IInv, StampsAreDone
  <2> QED
    BY <1>1, <1>3, <1>4, <2>2, <2>3 DEF ChangeSession, NewEntry, db
<1>6. CreateSession(r)'
  BY <1>1, <1>3 DEF CreateSession
<1>7. CreatesDiffer'
  BY <1>1, <1>3, SameOperation DEF IInv
<1> QED
  BY <1>3, <1>4, <1>5, <1>6, <1>7, SessionStep

LEMMA CreateCallStep ==
  ASSUME IInv, TypeOK', NEW r \in Requests, CreateCall(r)
  PROVE  IInv'
<1>1. PICK op \in Operations :
         /\ op.kind = "create" /\ op.call \notin registered /\ Fresh(op)
         /\ req' = [req EXCEPT ![r] = NewSession(r, op)]
  BY Zenon DEF CreateCall, NewSession, NewRow, NewLog
<1>2. /\ req'[r] = NewSession(r, op)
      /\ \A q \in Requests \ {r} : req'[q] = req[q]
  BY <1>1, SessionType DEF IInv
<1>3. UNCHANGED db /\ req[r].at = "idle"
  BY DEF CreateCall
<1>4. CreateSession(r)' /\ req'[r].op = op
  BY <1>1, <1>2, <1>3, NewSessionRow DEF CreateSession, db
<1>5. ChangeSession(r)'
  BY <1>1, <1>4 DEF ChangeSession
<1>6. CreatesDiffer'
  BY <1>1, <1>2, <1>4 DEF IInv, CreatesDiffer, Fresh
<1> QED
  BY <1>2, <1>3, <1>4, <1>5, <1>6, SessionStep

LEMMA LoadEntryStep ==
  ASSUME IInv, TypeOK', NEW r \in Requests, LoadEntry(r)
  PROVE  IInv'
<1>1. /\ req'[r].at = "entry" /\ req'[r].op = req[r].op
      /\ req'[r].row = req[r].row /\ req'[r].ent = entry[req[r].op.call]
      /\ \A q \in Requests \ {r} : req'[q] = req[q]
  BY SessionType DEF LoadEntry, RequestRows, IInv
<1>2. UNCHANGED db /\ req[r].at = "row"
  BY DEF LoadEntry
<1>3. CreateSession(r)' /\ req[r].op.kind # "create"
  BY <1>1, <1>2 DEF CreateSession, InFlight, IInv
<1>4. ChangeSession(r)'
  <2>1. entry[req[r].op.call].removed # r
    BY <1>2, SessionType, OperationArgument DEF IInv, StampsAreDone
  <2> QED
    BY <1>1, <1>2, <2>1 DEF IInv, ChangeSession, InFlight, db
<1>5. CreatesDiffer'
  BY <1>1, SameOperation DEF IInv
<1> QED
  BY <1>1, <1>2, <1>3, <1>4, <1>5, SessionStep

LEMMA LoadLinksStep ==
  ASSUME IInv, TypeOK', NEW r \in Requests, LoadLinks(r)
  PROVE  IInv'
<1>1. /\ req'[r].at = "loaded" /\ req'[r].op = req[r].op
      /\ req'[r].row = req[r].row /\ req'[r].ent = req[r].ent
      /\ req'[r].lnk = links[req[r].op.call]
      /\ \A q \in Requests \ {r} : req'[q] = req[q]
  BY SessionType DEF LoadLinks, RequestRows, IInv
<1>2. UNCHANGED db /\ req[r].at = "entry"
  BY DEF LoadLinks
<1>3. CreateSession(r)' /\ req[r].op.kind # "create"
  BY <1>1, <1>2 DEF CreateSession, InFlight, IInv
<1>4. ChangeSession(r)'
  BY <1>1, <1>2 DEF IInv, ChangeSession, InFlight, db
<1>5. CreatesDiffer'
  BY <1>1, SameOperation DEF IInv
<1> QED
  BY <1>1, <1>2, <1>3, <1>4, <1>5, SessionStep

LEMMA HandledStep ==
  ASSUME IInv, TypeOK', NEW r \in Requests, Handled(r), req[r].at = "loaded",
         req[r].op.kind # "create"
  PROVE  IInv'
<1>1. PICK q : Flushed(r, q) /\ SessionOK(r, q) /\ req' = [req EXCEPT ![r] = q]
  BY DEF Handled
<1>2. req'[r] = q /\ \A p \in Requests \ {r} : req'[p] = req[p]
  BY <1>1, SessionType DEF IInv
<1>3. UNCHANGED db
  BY DEF Handled
<1>4. CreateSession(r)' /\ req'[r].op = req[r].op
  BY <1>1, <1>2 DEF CreateSession, Flushed
<1>5. SessionOK(r, req[r])'
  BY <1>1, <1>2 DEF SessionOK, ChangeOK
<1>6. ChangeSession(r)'
  BY <1>1, <1>2, <1>3, <1>5 DEF IInv, ChangeSession, InFlight, Flushed, db
<1>7. CreatesDiffer'
  BY <1>2, <1>4, SameOperation DEF IInv
<1> QED
  BY <1>2, <1>3, <1>4, <1>6, <1>7, SessionStep

LEMMA CommitCreateStep ==
  ASSUME IInv, TypeOK', NEW r \in Requests, CommitCreate(r)
  PROVE  IInv'
<1> DEFINE c == req[r].op.call
<1>1. /\ registered' = registered \cup {c}
      /\ call' = [call EXCEPT ![c] = req[r].row2]
      /\ entry' = [entry EXCEPT ![c] = NewEntry]
      /\ history' = [history EXCEPT ![c] = @ \cup req[r].log]
      /\ UNCHANGED <<links, incidents, leg, restarts>>
      /\ req[r].at = "flushed" /\ req[r].op.kind = "create"
  BY DEF CommitCreate
<1>2. /\ req'[r].at = "done" /\ req'[r].op = req[r].op
      /\ \A q \in Requests \ {r} : req'[q] = req[q]
  BY FinishType DEF CommitCreate, IInv
<1>3. CreateSession(r) /\ c \in Calls /\ c \notin registered
  BY <1>1, SessionType, OperationArgument DEF IInv, CreateSession, InFlight
<1>4. /\ call'[c] = req[r].row2 /\ entry'[c] = NewEntry
      /\ history'[c] = history[c] \cup req[r].log
      /\ links[c] = {}
      /\ \A d \in Calls \ {c} : /\ call'[d] = call[d] /\ entry'[d] = entry[d]
                              /\ history'[d] = history[d]
  BY <1>1, <1>3 DEF IInv, TypeOK, UnregisteredIsEmpty
<1>5. /\ req[r].row2.incident = None /\ req[r].row2.ended = None
      /\ req[r].row2.wait = req[r].row2.answered
      /\ req[r].row2.status \notin Closed
      /\ \A h \in req[r].log : h.by = r
  BY <1>1, <1>3 DEF CreateSession, InFlight, Closed
<1> HIDE DEF c
<1>6. CreatesDiffer'
  BY <1>2, SameOperation DEF IInv
<1>7. UnregisteredIsEmpty'
  BY <1>1, <1>4 DEF IInv, UnregisteredIsEmpty
<1>8. StampsAreDone'
  <2> SUFFICES ASSUME NEW d \in Calls
               PROVE  /\ call'[d].ended # None => req'[call'[d].ended].at = "done"
                      /\ entry'[d].removed # None => req'[entry'[d].removed].at = "done"
                      /\ \A h \in history'[d] : req'[h.by].at = "done"
    BY DEF StampsAreDone
  <2>1. /\ call[d].ended \in Stamp /\ entry[d].removed \in Stamp
        /\ \A h \in history[d] : h.by \in Requests
    BY DEF IInv, TypeOK, CallRows, EntryRows, HistoryRows
  <2>2. /\ call[d].ended # None => req'[call[d].ended].at = "done"
        /\ entry[d].removed # None => req'[entry[d].removed].at = "done"
        /\ \A h \in history[d] : req'[h.by].at = "done"
    BY <1>2, <2>1 DEF IInv, StampsAreDone, Stamp
  <2>3. CASE d = c
    BY <1>2, <1>4, <1>5, <2>2, <2>3 DEF NewEntry
  <2>4. CASE d # c
    BY <1>4, <2>2, <2>4
  <2> QED
    BY <2>3, <2>4
<1>9. ASSUME NEW q \in Requests PROVE CreateSession(q)' /\ ChangeSession(q)'
  <2>1. CASE q = r
    BY <1>2, <2>1 DEF CreateSession, ChangeSession, InFlight
  <2>2. CASE q # r
    <3>1. req'[q] = req[q]
      BY <1>2, <2>2
    <3>2. req[q].op.kind = "create" => req[q].op.call # c
      BY <1>1, <2>2 DEF IInv, CreatesDiffer, c
    <3>3. CreateSession(q)'
      BY <1>1, <3>1, <3>2 DEF IInv, CreateSession
    <3>4. req[q].op.call \in Calls
      BY SessionType, OperationArgument DEF IInv
    <3>5. ChangeSession(q)'
      BY <1>1, <1>3, <1>4, <3>1, <3>4 DEF IInv, ChangeSession
    <3> QED
      BY <3>3, <3>5
  <2> QED
    BY <2>1, <2>2
<1>10. LinksAgree' /\ ClosedIsStamped' /\ WaitMatchesAnswer'
  BY <1>1, <1>4, <1>5 DEF IInv, LinksAgree, ClosedIsStamped, WaitMatchesAnswer
<1> QED
  BY <1>6, <1>7, <1>8, <1>9, <1>10 DEF IInv

LEMMA CommitChangeStep ==
  ASSUME IInv, TypeOK', NEW r \in Requests, CommitChange(r)
  PROVE  IInv'
<1> DEFINE c == req[r].op.call
           q == req[r]
           w == WriteCall(call[c], q.row, q.row2)
           e == WriteEntry(entry[c], q.ent, q.ent2)
<1>1. /\ call' = [call EXCEPT ![c] = w]
      /\ entry' = [entry EXCEPT ![c] = e]
      /\ links' = [links EXCEPT ![c] = @ \cup q.lnk2]
      /\ history' = [history EXCEPT ![c] = @ \cup q.log]
      /\ UNCHANGED <<registered, leg, restarts>>
      /\ q.at = "flushed" /\ q.op.kind # "create"
  BY DEF CommitChange
<1>2. /\ req'[r].at = "done" /\ req'[r].op = req[r].op
      /\ \A p \in Requests \ {r} : req'[p] = req[p]
  BY FinishType DEF CommitChange, IInv
<1>3. /\ c \in registered /\ c \in Calls
      /\ q.row.incident # None => call[c].incident # None
      /\ q.row.wait = q.row.answered
      /\ q.row.ended # r /\ q.ent.removed # r
      /\ q.lnk \subseteq links[c]
      /\ SessionOK(r, q)
  BY <1>1, SessionType, OperationArgument DEF IInv, ChangeSession, InFlight
<1>4. /\ call'[c] = w /\ entry'[c] = e
      /\ links'[c] = links[c] \cup q.lnk2
      /\ history'[c] = history[c] \cup q.log
      /\ \A d \in Calls \ {c} : /\ call'[d] = call[d] /\ entry'[d] = entry[d]
                              /\ links'[d] = links[d] /\ history'[d] = history[d]
  BY <1>1, <1>3 DEF IInv, TypeOK
<1>5. /\ w.incident = Column(call[c].incident, q.row.incident, q.row2.incident)
      /\ w.status = Column(call[c].status, q.row.status, q.row2.status)
      /\ w.ended = Column(call[c].ended, q.row.ended, q.row2.ended)
      /\ w.wait = Column(call[c].wait, q.row.wait, q.row2.wait)
      /\ w.answered = Column(call[c].answered, q.row.answered, q.row2.answered)
      /\ e.removed = Column(entry[c].removed, q.ent.removed, q.ent2.removed)
  BY DEF WriteCall, WriteEntry
<1>6. ChangeOK(r, q.row, q.ent, q.lnk, q.row2, q.ent2, q.lnk2, q.log)
  BY <1>3 DEF SessionOK
<1> HIDE DEF w, e, q, c
<1>7. CreatesDiffer'
  BY <1>2, SameOperation DEF IInv
<1>8. UnregisteredIsEmpty'
  BY <1>1, <1>3, <1>4 DEF IInv, UnregisteredIsEmpty
<1>9. StampsAreDone'
  <2> SUFFICES ASSUME NEW d \in Calls
               PROVE  /\ call'[d].ended # None => req'[call'[d].ended].at = "done"
                      /\ entry'[d].removed # None => req'[entry'[d].removed].at = "done"
                      /\ \A h \in history'[d] : req'[h.by].at = "done"
    BY DEF StampsAreDone
  <2>1. /\ call[d].ended \in Stamp /\ entry[d].removed \in Stamp
        /\ \A h \in history[d] : h.by \in Requests
    BY DEF IInv, TypeOK, CallRows, EntryRows, HistoryRows
  <2>2. /\ call[d].ended # None => req'[call[d].ended].at = "done"
        /\ entry[d].removed # None => req'[entry[d].removed].at = "done"
        /\ \A h \in history[d] : req'[h.by].at = "done"
    BY <1>2, <2>1 DEF IInv, StampsAreDone, Stamp
  <2>3. CASE d = c
    <3>1. w.ended \in {call[c].ended, r} /\ e.removed \in {entry[c].removed, r}
      BY <1>5, <1>6 DEF ChangeOK, Column
    <3>2. \A h \in q.log : h.by = r
      BY <1>6 DEF ChangeOK
    <3> QED
      BY <1>2, <1>4, <2>2, <2>3, <3>1, <3>2
  <2>4. CASE d # c
    BY <1>4, <2>2, <2>4
  <2> QED
    BY <2>3, <2>4
<1>10. call[c].incident # None => w.incident # None
  BY <1>5, <1>6 DEF ChangeOK, Column
<1>11. ASSUME NEW p \in Requests PROVE CreateSession(p)' /\ ChangeSession(p)'
  <2>1. CASE p = r
    BY <1>2, <2>1 DEF CreateSession, ChangeSession, InFlight
  <2>2. CASE p # r
    <3>1. req'[p] = req[p]
      BY <1>2, <2>2
    <3>2. CreateSession(p)'
      BY <1>1, <3>1 DEF IInv, CreateSession
    <3>3. /\ req[p].op.call \in Calls
          /\ call[req[p].op.call].incident # None => call'[req[p].op.call].incident # None
          /\ links[req[p].op.call] \subseteq links'[req[p].op.call]
      BY <1>4, <1>10, SessionType, OperationArgument DEF IInv
    <3>4. ChangeSession(p)'
      BY <1>1, <3>1, <3>3 DEF IInv, ChangeSession
    <3> QED
      BY <3>2, <3>4
  <2> QED
    BY <2>1, <2>2
<1>12. LinksAgree'
  <2>1. /\ call[c].incident = None <=> links[c] = {}
        /\ call[c].incident # None => \E l \in links[c] : l.incident = call[c].incident
        /\ links[c] # {} => \E l \in links[c] : l.primary
    BY <1>3 DEF IInv, LinksAgree
  <2>2. w.incident # None => \E l \in links'[c] : l.incident = w.incident
    BY <1>3, <1>4, <1>5, <1>6, <2>1 DEF ChangeOK, Column
  <2>3. links'[c] # {} => w.incident # None
    BY <1>3, <1>4, <1>5, <1>6, <1>10, <2>1 DEF ChangeOK, Column
  <2>4. links'[c] # {} => \E l \in links'[c] : l.primary
    BY <1>3, <1>4, <1>6, <2>1 DEF ChangeOK
  <2> QED
    BY <1>4, <2>2, <2>3, <2>4 DEF IInv, LinksAgree
<1>13. ClosedIsStamped'
  <2>1. w.status \in Closed => w.ended # None /\ e.removed # None
    <3> SUFFICES ASSUME w.status \in Closed PROVE w.ended # None /\ e.removed # None
      OBVIOUS
    <3>1. CASE q.row2.status # q.row.status
      BY <1>3, <1>5, <1>6, <3>1 DEF ChangeOK, Column
    <3>2. CASE q.row2.status = q.row.status
      <4>1. call[c].ended # None /\ entry[c].removed # None
        BY <1>3, <1>5, <3>2 DEF IInv, ClosedIsStamped, Column
      <4> QED
        BY <1>5, <1>6, <4>1 DEF ChangeOK, Column
    <3> QED
      BY <3>1, <3>2
  <2> QED
    BY <1>4, <2>1 DEF IInv, ClosedIsStamped
<1>14. WaitMatchesAnswer'
  BY <1>3, <1>4, <1>5, <1>6 DEF IInv, WaitMatchesAnswer, ChangeOK, Column
<1> QED
  BY <1>7, <1>8, <1>9, <1>11, <1>12, <1>13, <1>14 DEF IInv

LEMMA RestartStep ==
  ASSUME IInv, TypeOK', Restart
  PROVE  IInv'
<1>1. UNCHANGED <<registered, call, entry, links, history, incidents>>
  BY DEF Restart, db
<1>2. ASSUME NEW r \in Requests
      PROVE  /\ req'[r].at \notin InFlight
             /\ req'[r].op = req[r].op
             /\ req[r].at = "done" => req'[r].at = "done"
  <2>1. req'[r] = IF r \in Active THEN Blank(req[r].op, "failed") ELSE req[r]
    BY DEF Restart
  <2>2. Blank(req[r].op, "failed").at = "failed"
        /\ Blank(req[r].op, "failed").op = req[r].op
    BY BlankRow, SessionType DEF IInv, Places
  <2> QED
    BY <2>1, <2>2 DEF Active, InFlight
<1>3. ASSUME NEW r \in Requests PROVE CreateSession(r)' /\ ChangeSession(r)'
  BY <1>2 DEF CreateSession, ChangeSession
<1>4. CreatesDiffer'
  <2> SUFFICES ASSUME NEW q \in Requests, NEW r \in Requests, q # r,
                      req'[q].op.kind = "create", req'[r].op.kind = "create"
               PROVE  req'[q].op.call # req'[r].op.call
    BY DEF CreatesDiffer
  <2>1. req'[q].op = req[q].op /\ req'[r].op = req[r].op
    BY <1>2
  <2> QED
    BY <2>1 DEF IInv, CreatesDiffer
<1>5. StampsAreDone'
  <2> SUFFICES ASSUME NEW c \in Calls
               PROVE  /\ call[c].ended # None => req'[call[c].ended].at = "done"
                      /\ entry[c].removed # None => req'[entry[c].removed].at = "done"
                      /\ \A h \in history[c] : req'[h.by].at = "done"
    BY <1>1 DEF StampsAreDone
  <2>1. /\ call[c].ended \in Stamp /\ entry[c].removed \in Stamp
        /\ \A h \in history[c] : h.by \in Requests
    BY DEF IInv, TypeOK, CallRows, EntryRows, HistoryRows
  <2> QED
    BY <1>2, <2>1 DEF IInv, StampsAreDone, Stamp
<1>6. UnregisteredIsEmpty' /\ LinksAgree' /\ ClosedIsStamped' /\ WaitMatchesAnswer'
  BY <1>1 DEF IInv, UnregisteredIsEmpty, LinksAgree, ClosedIsStamped, WaitMatchesAnswer
<1> QED
  BY <1>3, <1>4, <1>5, <1>6 DEF IInv

LEMMA InvInductive == IInv /\ [Next]_vars => IInv'
<1> SUFFICES ASSUME IInv, [Next]_vars PROVE IInv'
  OBVIOUS
<1>1. TypeOK'
  BY TypeInductive DEF IInv
<1>2. ASSUME NEW r \in Requests, Receive(r) PROVE IInv'
  BY <1>1, <1>2, ReceiveStep
<1>3. ASSUME NEW r \in Requests, CreateCall(r) PROVE IInv'
  BY <1>1, <1>3, CreateCallStep
<1>4. ASSUME NEW r \in Requests, LoadEntry(r) PROVE IInv'
  BY <1>1, <1>4, LoadEntryStep
<1>5. ASSUME NEW r \in Requests, LoadLinks(r) PROVE IInv'
  BY <1>1, <1>5, LoadLinksStep
<1>6. ASSUME NEW r \in Requests, Handle(r) PROVE IInv'
  <2>1. CASE Reject(r)
    BY <1>1, <2>1, FailedStep DEF Reject, Active
  <2>2. CASE Handled(r) /\ req[r].at = "loaded" /\ req[r].op.kind # "create"
    BY <1>1, <2>2, HandledStep
  <2> QED
    BY <1>6, <2>1, <2>2, HandlersHandle DEF IInv
<1>7. ASSUME NEW r \in Requests, CommitCreate(r) PROVE IInv'
  BY <1>1, <1>7, CommitCreateStep
<1>8. ASSUME NEW r \in Requests, CommitChange(r) PROVE IInv'
  BY <1>1, <1>8, CommitChangeStep
<1>9. ASSUME NEW r \in Requests, UniqueViolation(r) PROVE IInv'
  BY <1>1, <1>9, FailedStep DEF UniqueViolation, Active
<1>10. ASSUME NEW r \in Requests, ConnectionLost(r) PROVE IInv'
  BY <1>1, <1>10, FailedStep DEF ConnectionLost
<1>11. CASE Restart
  BY <1>1, <1>11, RestartStep
<1>12. CASE UNCHANGED vars
  BY <1>12 DEF vars, IInv, TypeOK, CreatesDiffer, UnregisteredIsEmpty, StampsAreDone,
               CreateSession, ChangeSession, SessionOK, ChangeOK, LinksAgree,
               ClosedIsStamped, WaitMatchesAnswer
<1> QED
  BY <1>2, <1>3, <1>4, <1>5, <1>6, <1>7, <1>8, <1>9, <1>10, <1>11, <1>12 DEF Next, Step

LEMMA InvInitial == Init => IInv
<1> SUFFICES ASSUME Init PROVE IInv
  OBVIOUS
<1>1. TypeOK
  BY TypeInitial
<1>2. \A r \in Requests : req[r].at = "idle" /\ req[r].op.kind = "none"
  BY BlankRow DEF Init, Places, NoOp
<1> QED
  BY <1>1, <1>2 DEF Init, IInv, CreatesDiffer, UnregisteredIsEmpty, StampsAreDone,
     CreateSession, ChangeSession, InFlight, LinksAgree, ClosedIsStamped,
     WaitMatchesAnswer, NewCall, NewEntry, Closed

THEOREM InvHolds == Spec => []IInv
  BY InvInitial, InvInductive, PTL DEF Spec

\* The primary incident and the links of a call agree, for any number of
\* requests that attach incidents at the same time.
THEOREM LinksAlwaysAgree == Spec => []LinksAgree
<1>1. IInv => LinksAgree
  BY DEF IInv
<1> QED
  BY <1>1, InvHolds, PTL

\* A closed call has its end time and its queue entry its removal time.
THEOREM ClosedAlwaysStamped == Spec => []ClosedIsStamped
<1>1. IInv => ClosedIsStamped
  BY DEF IInv
<1> QED
  BY <1>1, InvHolds, PTL

\* The stored waiting time belongs to the stored answer time.
THEOREM WaitAlwaysMatches == Spec => []WaitMatchesAnswer
<1>1. IInv => WaitMatchesAnswer
  BY DEF IInv
<1> QED
  BY <1>1, InvHolds, PTL

\* Both together: the stamps of a call agree, whatever races with what.
THEOREM StampsAlwaysAgree == Spec => []StampsAgree
<1>1. ClosedIsStamped /\ WaitMatchesAnswer => StampsAgree
  BY DEF StampsAgree
<1> QED
  BY <1>1, ClosedAlwaysStamped, WaitAlwaysMatches, PTL

\* Every change of a call's status comes with a history row that names the new
\* status.
THEOREM StatusChangesLogged == Spec => StatusChangeIsLogged
<1> DEFINE Logged == \A c \in Calls :
                       call'[c].status # call[c].status =>
                         \E h \in history'[c] \ history[c] : h.to = call'[c].status
<1>1. IInv /\ [Next]_vars => [Logged]_vars
  <2> SUFFICES ASSUME IInv, Next PROVE Logged
    OBVIOUS
  <2>1. ASSUME UNCHANGED call PROVE Logged
    BY <2>1
  <2>2. ASSUME NEW r \in Requests, CommitCreate(r) PROVE Logged
    <3> DEFINE c == req[r].op.call
    <3>1. CreateSession(r) /\ c \in Calls
      BY SessionType, OperationArgument DEF IInv
    <3>2. /\ call'[c] = req[r].row2
          /\ history'[c] = history[c] \cup req[r].log
          /\ \A d \in Calls \ {c} : call'[d] = call[d]
      BY <2>2, <3>1 DEF CommitCreate, IInv, TypeOK
    <3>3. PICK h \in req[r].log : h.by = r /\ h.to = req[r].row2.status
      BY <2>2, <3>1 DEF CommitCreate, CreateSession, InFlight
    <3>4. h \notin history[c]
      BY <2>2, <3>1, <3>3 DEF CommitCreate, IInv, StampsAreDone
    <3> QED
      BY <3>2, <3>3, <3>4
  <2>3. ASSUME NEW r \in Requests, CommitChange(r) PROVE Logged
    <3> DEFINE c == req[r].op.call
               w == WriteCall(call[c], req[r].row, req[r].row2)
    <3>1. ChangeSession(r) /\ c \in Calls /\ req[r].at = "flushed"
      BY <2>3, SessionType, OperationArgument DEF IInv, CommitChange
    <3>2. /\ call'[c] = w
          /\ history'[c] = history[c] \cup req[r].log
          /\ \A d \in Calls \ {c} : call'[d] = call[d]
      BY <2>3, <3>1 DEF CommitChange, IInv, TypeOK
    <3>3. ChangeOK(r, req[r].row, req[r].ent, req[r].lnk, req[r].row2, req[r].ent2,
                   req[r].lnk2, req[r].log)
      BY <2>3, <3>1 DEF CommitChange, ChangeSession, SessionOK, InFlight
    <3>4. w.status = Column(call[c].status, req[r].row.status, req[r].row2.status)
      BY DEF WriteCall
    <3> HIDE DEF w
    <3>5. ASSUME call'[c].status # call[c].status
          PROVE  \E h \in history'[c] \ history[c] : h.to = call'[c].status
      <4>1. /\ w.status = req[r].row2.status
            /\ req[r].row2.status # req[r].row.status
        BY <3>2, <3>4, <3>5 DEF Column
      <4>2. PICK h \in req[r].log : h.by = r /\ h.to = w.status
        BY <3>3, <4>1 DEF ChangeOK
      <4>3. h \notin history[c]
        BY <3>1, <4>2 DEF IInv, StampsAreDone
      <4> QED
        BY <3>2, <4>2, <4>3
    <3> QED
      BY <3>2, <3>5
  <2>4. ASSUME NEW r \in Requests, Handle(r) PROVE UNCHANGED call
    BY <2>4, HandlersHandle DEF Handled, Reject, IInv, db
  <2> HIDE DEF Logged
  <2>5. CASE Restart
    BY <2>1, <2>5 DEF Restart, db
  <2>6. ASSUME NEW r \in Requests,
               \/ Receive(r) \/ CreateCall(r) \/ LoadEntry(r) \/ LoadLinks(r)
               \/ UniqueViolation(r) \/ ConnectionLost(r)
        PROVE  UNCHANGED call
    BY <2>6 DEF Receive, CreateCall, LoadEntry, LoadLinks, UniqueViolation,
                ConnectionLost, db
  <2> QED
    BY <2>1, <2>2, <2>3, <2>4, <2>5, <2>6 DEF Next, Step
<1> QED
  BY <1>1, InvHolds, PTL DEF Spec, StatusChangeIsLogged

-----------------------------------------------------------------------------
(* What a handler leaves in the session, field by field.                    *)

LEMMA FlushFields ==
  ASSUME TypeOK, NEW r \in Requests, NEW row2, NEW ent2, NEW lnk2, NEW log,
         Flush(r, row2, ent2, lnk2, log)
  PROVE  /\ req'[r].at = "flushed" /\ req'[r].op = req[r].op
         /\ req'[r].row = req[r].row /\ req'[r].ent = req[r].ent
         /\ req'[r].lnk = req[r].lnk
         /\ req'[r].row2 = row2 /\ req'[r].ent2 = ent2 /\ req'[r].lnk2 = lnk2
         /\ \A q \in Requests \ {r} : req'[q] = req[q]
         /\ UNCHANGED <<db, restarts>>
<1>1. req[r] \in RequestRows /\ req \in [Requests -> RequestRows]
  BY DEF TypeOK
<1> QED
  BY <1>1 DEF Flush, RequestRows

\* A handler touches the session of its request only, and keeps what it loaded.
LEMMA HandleFrame ==
  ASSUME TypeOK, NEW r \in Requests, Handle(r)
  PROVE  /\ \A q \in Requests \ {r} : req'[q] = req[q]
         /\ req'[r].op = req[r].op
         /\ req[r].at = "loaded"
         /\ req'[r].at \in {"flushed", "failed"}
         /\ req'[r].at = "flushed" => /\ req'[r].row = req[r].row
                                      /\ req'[r].ent = req[r].ent
                                      /\ req'[r].lnk = req[r].lnk
         /\ UNCHANGED db
<1>1. CASE Reject(r)
  BY <1>1, FinishType DEF Reject
<1>2. CASE Handled(r) /\ req[r].at = "loaded"
  <2>1. PICK q : Flushed(r, q) /\ req' = [req EXCEPT ![r] = q]
    BY <1>2 DEF Handled
  <2> QED
    BY <1>2, <2>1, SessionType DEF Flushed, Handled
<1> QED
  BY <1>1, <1>2, HandlersHandle

\* The steps that only load, refuse or lose a request leave the tables alone.
LEMMA FailFrame ==
  ASSUME TypeOK, NEW r \in Requests, Reject(r) \/ UniqueViolation(r) \/ ConnectionLost(r)
  PROVE  /\ req'[r].at = "failed" /\ req'[r].op = req[r].op
         /\ r \in Active
         /\ \A q \in Requests \ {r} : req'[q] = req[q]
         /\ UNCHANGED db
  BY FinishType DEF Reject, UniqueViolation, ConnectionLost, Active

LEMMA RestartFrame ==
  ASSUME TypeOK, Restart, NEW r \in Requests
  PROVE  /\ r \in Active => req'[r].at = "failed" /\ req'[r].op = req[r].op
         /\ r \notin Active => req'[r] = req[r]
         /\ UNCHANGED db
<1>1. req'[r] = IF r \in Active THEN Blank(req[r].op, "failed") ELSE req[r]
  BY DEF Restart
<1>2. /\ Blank(req[r].op, "failed").at = "failed"
      /\ Blank(req[r].op, "failed").op = req[r].op
  BY BlankRow, SessionType DEF Places
<1> QED
  BY <1>1, <1>2 DEF Restart

\* What a request loads is what the tables hold at that moment.
LEMMA LoadFrame ==
  ASSUME TypeOK, NEW r \in Requests
  PROVE  /\ Receive(r) => /\ req[r].at = "idle"
                          /\ req'[r].at = "row" /\ req'[r].op.kind # "create"
                          /\ req'[r].op \in Operations
                          /\ req'[r].op.call \in registered
                          /\ req'[r].row = call[req'[r].op.call]
         /\ LoadEntry(r) => /\ req[r].at = "row" /\ req'[r].at = "entry"
                            /\ req'[r].op = req[r].op /\ req'[r].row = req[r].row
                            /\ req'[r].ent = entry[req[r].op.call]
         /\ LoadLinks(r) => /\ req[r].at = "entry" /\ req'[r].at = "loaded"
                            /\ req'[r].op = req[r].op /\ req'[r].row = req[r].row
                            /\ req'[r].ent = req[r].ent
                            /\ req'[r].lnk = links[req[r].op.call]
         /\ Receive(r) \/ LoadEntry(r) \/ LoadLinks(r) =>
              UNCHANGED db /\ \A q \in Requests \ {r} : req'[q] = req[q]
<1>1. CASE Receive(r)
  <2>1. PICK op \in Operations :
           /\ op.kind # "create" /\ op.call \in registered
           /\ req' = [req EXCEPT ![r] = [Blank(op, "row") EXCEPT !.row = call[op.call]]]
    BY <1>1 DEF Receive
  <2>2. /\ Blank(op, "row") \in RequestRows /\ Blank(op, "row").at = "row"
        /\ Blank(op, "row").op = op
    BY BlankRow DEF Places
  <2>3. /\ req'[r].at = "row" /\ req'[r].op = op /\ req'[r].row = call[op.call]
        /\ \A q \in Requests \ {r} : req'[q] = req[q]
    BY <2>1, <2>2, SessionType DEF RequestRows
  <2> QED
    BY <1>1, <2>1, <2>3 DEF Receive, LoadEntry, LoadLinks
<1>2. CASE LoadEntry(r)
  BY <1>2, SessionType DEF Receive, LoadEntry, LoadLinks, RequestRows
<1>3. CASE LoadLinks(r)
  BY <1>3, SessionType DEF Receive, LoadEntry, LoadLinks, RequestRows
<1> QED
  BY <1>1, <1>2, <1>3

\* create_call puts a new row in the session and reads nothing.
LEMMA CreateFrame ==
  ASSUME TypeOK, NEW r \in Requests, CreateCall(r)
  PROVE  /\ req[r].at = "idle"
         /\ req'[r].at = "flushed" /\ req'[r].op.kind = "create"
         /\ req'[r].row2 = NewRow(req'[r].op)
         /\ \A q \in Requests \ {r} : req'[q] = req[q]
         /\ UNCHANGED db
<1>1. PICK op \in Operations :
         op.kind = "create" /\ req' = [req EXCEPT ![r] = NewSession(r, op)]
  BY Zenon DEF CreateCall, NewSession, NewRow, NewLog
<1>2. /\ Blank(op, "flushed") \in RequestRows /\ Blank(op, "flushed").at = "flushed"
      /\ Blank(op, "flushed").op = op
  BY BlankRow DEF Places
<1> DEFINE n == NewRow(op)
           l == NewLog(r, op)
<1>3. NewSession(r, op) = [Blank(op, "flushed") EXCEPT !.row2 = n, !.log = l]
  BY Zenon DEF NewSession, n, l
<1>6. n = NewRow(op)
  OBVIOUS
<1> HIDE DEF n, l
<1>4. /\ NewSession(r, op).at = "flushed" /\ NewSession(r, op).op = op
      /\ NewSession(r, op).row2 = n
  BY <1>2, <1>3 DEF RequestRows
<1>5. req'[r] = NewSession(r, op) /\ \A q \in Requests \ {r} : req'[q] = req[q]
  BY <1>1, SessionType
<1> QED
  BY <1>1, <1>4, <1>5, <1>6 DEF CreateCall

-----------------------------------------------------------------------------
(* An attach that was answered with success stays, in any interleaving.     *)

\* A request that is about to commit an attach names a card that exists or that
\* it creates, and the links it saw and the one it adds include that card.
AttachSession(r) ==
  req[r].at = "flushed" /\ req[r].op.kind \in {"link", "open"} =>
    /\ req[r].op.kind = "link" => req[r].op.arg \in incidents
    /\ \E l \in req[r].lnk \cup req[r].lnk2 : l.incident = req[r].op.arg

DurableInv ==
  /\ IInv
  /\ \A r \in Requests : AttachSession(r)
  /\ AttachIsDurable

\* After an attach the incident is among the links the request knows of.
LEMMA AttachNames ==
  ASSUME NEW row, NEW lnk, NEW i, NEW type
  PROVE  \E l \in lnk \cup Attach(row, lnk, i, type) : l.incident = i
<1> DEFINE p == row.incident = None
           new == [incident |-> i, type |-> type, primary |-> p]
<1>1. new.incident = i
  <2> HIDE DEF p
  <2> QED  BY DEF new
<1>2. Attach(row, lnk, i, type) = IF \E l \in lnk : l.incident = i THEN {} ELSE {new}
  BY Zenon DEF Attach
<1> HIDE DEF new
<1> QED
  BY <1>1, <1>2

LEMMA AttachFlushes ==
  ASSUME TypeOK, NEW r \in Requests, Handle(r)
  PROVE  AttachSession(r)'
<1> SUFFICES ASSUME req'[r].at = "flushed", req'[r].op.kind \in {"link", "open"}
             PROVE  AttachSession(r)'
  BY DEF AttachSession
<1>1. req'[r].op = req[r].op /\ req[r].at = "loaded" /\ UNCHANGED db
      /\ req'[r].lnk = req[r].lnk
  BY HandleFrame
<1>2. ~Reject(r)
  BY FinishType DEF Reject
<1>3. AttachIncident(r)
  BY <1>1, <1>2 DEF Handle, ChangeStatus, AssignDispatcher, AnswerCall,
     ProviderAction, EndCall, RegisterArtefact, Loaded
<1> DEFINE row  == req[r].row
           i    == req[r].op.arg
           lnk  == req[r].lnk
           type == IF req[r].op.kind = "open" THEN "created" ELSE "linked"
           lnk2 == Attach(row, lnk, i, type)
<1>4. /\ req[r].op.kind = "link" => i \in incidents
      /\ \E row2, log : Flush(r, row2, req[r].ent, lnk2, log)
  BY <1>3 DEF AttachIncident
<1>6. \E l \in lnk \cup lnk2 : l.incident = i
  <2>1. \A s : \E l \in lnk \cup Attach(row, lnk, i, s) : l.incident = i
    BY AttachNames
  <2> QED  BY <2>1
<1>7. req'[r].lnk2 = lnk2
  BY <1>4, FlushFields
<1> HIDE DEF lnk2
<1> QED
  BY <1>1, <1>4, <1>6, <1>7 DEF AttachSession, db

\* A step keeps the promise when the tables only grow and the other sessions
\* are left alone.
LEMMA DurableFrame ==
  ASSUME DurableInv, IInv', NEW r \in Requests,
         \A q \in Requests \ {r} : req'[q] = req[q],
         incidents \subseteq incidents', \A c \in Calls : links[c] \subseteq links'[c],
         AttachSession(r)', req'[r].at # "done" \/ AttachIsDurable'
  PROVE  DurableInv'
<1>1. ASSUME NEW q \in Requests PROVE AttachSession(q)'
  BY DEF DurableInv, AttachSession
<1>2. AttachIsDurable'
  <2> SUFFICES ASSUME req'[r].at # "done", NEW q \in Requests, req'[q].at = "done",
                      req'[q].op.kind \in {"link", "open"}
               PROVE  /\ req'[q].op.arg \in incidents'
                      /\ \E l \in links'[req'[q].op.call] : l.incident = req'[q].op.arg
    BY DEF AttachIsDurable
  <2>1. req'[q] = req[q]
    OBVIOUS
  <2>2. req[q].op.call \in Calls
    BY SessionType, OperationArgument DEF DurableInv, IInv
  <2> QED
    BY <2>1, <2>2 DEF DurableInv, AttachIsDurable
<1> QED
  BY <1>1, <1>2 DEF DurableInv

LEMMA DurableCommit ==
  ASSUME DurableInv, IInv', NEW r \in Requests, CommitChange(r)
  PROVE  DurableInv'
<1> DEFINE c == req[r].op.call
<1>1. /\ req'[r].at = "done" /\ req'[r].op = req[r].op
      /\ \A q \in Requests \ {r} : req'[q] = req[q]
  BY FinishType DEF CommitChange, DurableInv, IInv
<1>2. /\ req[r].at = "flushed" /\ req[r].op.kind # "create"
      /\ links' = [links EXCEPT ![c] = @ \cup req[r].lnk2]
      /\ incidents' = IF req[r].op.kind = "open" THEN incidents \cup {req[r].op.arg}
                      ELSE incidents
  BY DEF CommitChange
<1>3. c \in Calls /\ req[r].lnk \subseteq links[c]
  BY <1>2, SessionType, OperationArgument DEF DurableInv, IInv, ChangeSession, InFlight
<1> HIDE DEF c
<1>4. /\ links'[c] = links[c] \cup req[r].lnk2
      /\ \A d \in Calls \ {c} : links'[d] = links[d]
  BY <1>2, <1>3 DEF DurableInv, IInv, TypeOK
<1>5. AttachIsDurable'
  <2> SUFFICES ASSUME NEW q \in Requests, req'[q].at = "done",
                      req'[q].op.kind \in {"link", "open"}
               PROVE  /\ req'[q].op.arg \in incidents'
                      /\ \E l \in links'[req'[q].op.call] : l.incident = req'[q].op.arg
    BY DEF AttachIsDurable
  <2>1. CASE q = r
    BY <1>1, <1>2, <1>3, <1>4, <2>1 DEF DurableInv, AttachSession, c
  <2>2. CASE q # r
    <3>1. req[q].op.call \in Calls
      BY SessionType, OperationArgument DEF DurableInv, IInv
    <3> QED
      BY <1>1, <1>2, <1>4, <2>2, <3>1 DEF DurableInv, AttachIsDurable
  <2> QED
    BY <2>1, <2>2
<1>6. AttachSession(r)'
  BY <1>1 DEF AttachSession
<1>7. incidents \subseteq incidents' /\ \A d \in Calls : links[d] \subseteq links'[d]
  BY <1>2, <1>4
<1> QED
  BY <1>1, <1>5, <1>6, <1>7, DurableFrame

LEMMA DurableInductive == DurableInv /\ [Next]_vars => DurableInv'
<1> SUFFICES ASSUME DurableInv, [Next]_vars PROVE DurableInv'
  OBVIOUS
<1>1. IInv' /\ TypeOK
  BY InvInductive DEF DurableInv, IInv
<1>2. ASSUME NEW r \in Requests, Receive(r) \/ LoadEntry(r) \/ LoadLinks(r)
      PROVE  DurableInv'
  <2>1. req'[r].at \in {"row", "entry", "loaded"} /\ UNCHANGED db
        /\ \A q \in Requests \ {r} : req'[q] = req[q]
    BY <1>1, <1>2, LoadFrame
  <2>2. AttachSession(r)'
    BY <2>1 DEF AttachSession
  <2> QED
    BY <1>1, <2>1, <2>2, DurableFrame DEF db
<1>3. ASSUME NEW r \in Requests, CreateCall(r) PROVE DurableInv'
  <2>1. AttachSession(r)'
    BY <1>1, <1>3, CreateFrame DEF AttachSession
  <2> QED
    BY <1>1, <1>3, <2>1, CreateFrame, DurableFrame DEF db
<1>4. ASSUME NEW r \in Requests, Handle(r) PROVE DurableInv'
  BY <1>1, <1>4, HandleFrame, AttachFlushes, DurableFrame DEF db
<1>5. ASSUME NEW r \in Requests, CommitCreate(r) PROVE DurableInv'
  <2>1. /\ req'[r].at = "done" /\ req'[r].op = req[r].op /\ req[r].op.kind = "create"
        /\ \A q \in Requests \ {r} : req'[q] = req[q]
        /\ UNCHANGED <<links, incidents>>
    BY <1>1, <1>5, FinishType DEF CommitCreate
  <2>2. AttachSession(r)' /\ AttachIsDurable'
    BY <2>1 DEF AttachSession, DurableInv, AttachIsDurable
  <2> QED
    BY <1>1, <2>1, <2>2, DurableFrame
<1>6. ASSUME NEW r \in Requests, CommitChange(r) PROVE DurableInv'
  BY <1>1, <1>6, DurableCommit
<1>7. ASSUME NEW r \in Requests, UniqueViolation(r) \/ ConnectionLost(r)
      PROVE  DurableInv'
  <2>1. AttachSession(r)'
    BY <1>1, <1>7, FailFrame DEF AttachSession
  <2> QED
    BY <1>1, <1>7, <2>1, FailFrame, DurableFrame DEF db
<1>8. CASE Restart
  <2>1. \A r \in Requests :
          \/ req'[r] = req[r]
          \/ req'[r].at = "failed"
    BY <1>1, <1>8, RestartFrame
  <2>2. UNCHANGED <<links, incidents>>
    BY <1>8 DEF Restart, db
  <2>3. \A r \in Requests : AttachSession(r)'
    BY <2>1, <2>2 DEF DurableInv, AttachSession
  <2>4. AttachIsDurable'
    BY <2>1, <2>2 DEF DurableInv, AttachIsDurable
  <2> QED
    BY <1>1, <2>3, <2>4 DEF DurableInv
<1>9. CASE UNCHANGED vars
  BY <1>1, <1>9 DEF vars, DurableInv, AttachSession, AttachIsDurable
<1> QED
  BY <1>2, <1>3, <1>4, <1>5, <1>6, <1>7, <1>8, <1>9 DEF Next, Step

LEMMA DurableInitial == Init => DurableInv
<1> SUFFICES ASSUME Init PROVE DurableInv
  OBVIOUS
<1>1. \A r \in Requests : req[r].at = "idle"
  BY BlankRow DEF Init, Places
<1> QED
  BY <1>1, InvInitial DEF DurableInv, AttachSession, AttachIsDurable

\* An attach answered with success is never undone, by whatever runs next to it
\* or after it: the card exists and the call stays linked to it.
THEOREM AttachStaysDurable == Spec => []AttachIsDurable
<1>1. DurableInv => AttachIsDurable
  BY DEF DurableInv
<1> QED
  BY <1>1, DurableInitial, DurableInductive, PTL DEF Spec

-----------------------------------------------------------------------------
(* One request at a time.                                                   *)

\* The call, its queue entry and its links tell one story: CallIsConsistent for
\* one call, with what makes it inductive -- an abandoned entry has been removed,
\* and a call that is not closed has no talk time.
Consistent(row, ent, lnk) ==
  /\ ent.removed # None => row.status \in Closed
  /\ ent.status = "abandoned" => row.answered = None /\ ent.removed # None
  /\ ent.dispatcher = row.dispatcher
  /\ row.talk = IF row.status \in Closed /\ row.answered # None THEN row.ended ELSE None
  /\ \A l \in lnk : l.primary <=> l.incident = row.incident

\* The incident of a row and its links agree (LinksAgree for one call).
Linked(row, lnk) ==
  /\ row.incident = None <=> lnk = {}
  /\ row.incident # None => \E l \in lnk : l.incident = row.incident

Moves(row, row2) ==
  row2.status # row.status => CanTransition(row.status, row2.status)

\* A closed call cannot move.
LEMMA ClosedIsFinal ==
  ASSUME NEW s \in Statuses, NEW t, CanTransition(s, t)
  PROVE  s \notin Closed /\ t \in Statuses
  BY DEF CanTransition, Transitions, Statuses, Closed

\* A status change with its queue synchronisation keeps the call consistent.
LEMMA EnterConsistent ==
  ASSUME NEW row \in CallRows, NEW ent \in EntryRows, NEW lnk, NEW r \in Requests,
         NEW t \in Statuses, CanTransition(row.status, t), Consistent(row, ent, lnk)
  PROVE  LET row2 == Enter(row, t, r)
         IN  /\ Consistent(row2, SyncQueue(ent, row2, t, r), lnk)
             /\ row2.status = t
<1> DEFINE row2 == Enter(row, t, r)
           ent2 == SyncQueue(ent, row2, t, r)
<1>1. row.status \notin Closed
  BY ClosedIsFinal DEF CallRows
<1>2. ent.removed = None /\ ent.status # "abandoned" /\ row.talk = None
  BY <1>1 DEF Consistent
<1>3. /\ row2.status = t /\ row2.incident = row.incident
      /\ row2.dispatcher = row.dispatcher
      /\ t \in Closed => row2.answered = row.answered /\ row2.ended = r
      /\ row2.talk = IF t \in Closed /\ row2.answered # None THEN r ELSE None
  BY <1>2 DEF Enter, CallRows, Closed, Answered
<1> HIDE DEF row2
<1>4. /\ ent2.dispatcher = ent.dispatcher
      /\ ent2.removed = IF t \in Closed THEN r ELSE None
      /\ ent2.status = "abandoned" => t \in Closed /\ row2.answered = None
  BY <1>2 DEF SyncQueue, MarkInProgress, Remove, EntryRows, Closed
<1> HIDE DEF ent2
<1>5. Consistent(row2, ent2, lnk)
  BY <1>3, <1>4 DEF Consistent
<1> QED
  BY <1>3, <1>5 DEF row2, ent2

\* The convenience moves to an answered status keep it consistent too.
LEMMA EnterIfAllowedConsistent ==
  ASSUME NEW row \in CallRows, NEW ent \in EntryRows, NEW lnk, NEW r \in Requests,
         NEW t \in {"accepted", "linked"}, Consistent(row, ent, lnk)
  PROVE  LET row2 == EnterIfAllowed(row, t, r)
         IN  /\ Consistent(row2, ent, lnk)
             /\ Moves(row, row2)
             /\ row2.incident = row.incident
<1> DEFINE row2 == EnterIfAllowed(row, t, r)
<1>1. CASE CanTransition(row.status, t)
  <2>1. row.status \notin Closed
    BY <1>1, ClosedIsFinal DEF CallRows
  <2>2. ent.removed = None /\ ent.status # "abandoned" /\ row.talk = None
    BY <2>1 DEF Consistent
  <2>3. /\ row2.status = t /\ row2.incident = row.incident
        /\ row2.dispatcher = row.dispatcher /\ row2.talk = None
    BY <1>1, <2>2 DEF EnterIfAllowed, Enter, CallRows, Closed
  <2> HIDE DEF row2
  <2>4. Consistent(row2, ent, lnk) /\ Moves(row, row2) /\ row2.incident = row.incident
    BY <1>1, <2>2, <2>3 DEF Consistent, Moves, Closed
  <2> QED
    BY <2>4 DEF row2
<1>2. CASE ~CanTransition(row.status, t)
  BY <1>2 DEF EnterIfAllowed, Moves
<1> QED
  BY <1>1, <1>2

LEMMA AssignConsistent ==
  ASSUME NEW row \in CallRows, NEW ent \in EntryRows, NEW lnk, NEW r \in Requests,
         NEW who \in Dispatchers \cup {None}, Consistent(row, ent, lnk)
  PROVE  Consistent([row EXCEPT !.dispatcher = who], Assign(ent, who, r), lnk)
<1> DEFINE row2 == [row EXCEPT !.dispatcher = who]
           ent2 == Assign(ent, who, r)
<1>1. /\ row2.status = row.status /\ row2.incident = row.incident
      /\ row2.dispatcher = who /\ row2.talk = row.talk
      /\ row2.answered = row.answered /\ row2.ended = row.ended
      /\ ent2.removed = ent.removed /\ ent2.status = "assigned" /\ ent2.dispatcher = who
  BY DEF CallRows, EntryRows, Assign
<1> HIDE DEF row2, ent2
<1>2. Consistent(row2, ent2, lnk)
  BY <1>1 DEF Consistent
<1> QED
  BY <1>2 DEF row2, ent2

\* An attach to a call whose incident and links agree leaves one primary link.
LEMMA AttachConsistent ==
  ASSUME NEW row \in CallRows, NEW ent \in EntryRows, NEW lnk \in SUBSET LinkRows,
         NEW i \in Incidents, NEW type \in {"created", "linked"},
         Consistent(row, ent, lnk), Linked(row, lnk)
  PROVE  Consistent([row EXCEPT !.incident = IF @ = None THEN i ELSE @], ent,
                    lnk \cup Attach(row, lnk, i, type))
<1> DEFINE owned == [row EXCEPT !.incident = IF @ = None THEN i ELSE @]
           lnk2  == Attach(row, lnk, i, type)
<1>1. \A l \in lnk2 : l.incident = i /\ (l.primary <=> row.incident = None)
  BY AttachLinks, ZenonT(40)
<1>2. lnk2 # {} => ~ \E l \in lnk : l.incident = i
  BY Zenon DEF Attach
<1>3. /\ owned.status = row.status /\ owned.dispatcher = row.dispatcher
      /\ owned.talk = row.talk /\ owned.answered = row.answered
      /\ owned.ended = row.ended
      /\ owned.incident = IF row.incident = None THEN i ELSE row.incident
  BY DEF CallRows
<1> HIDE DEF owned, lnk2
<1>4. ASSUME NEW l \in lnk \cup lnk2 PROVE l.primary <=> l.incident = owned.incident
  <2>1. CASE l \in lnk
    BY <1>3, <2>1 DEF Consistent, Linked
  <2>2. CASE l \in lnk2
    BY <1>1, <1>2, <1>3, <2>2 DEF Linked
  <2> QED
    BY <2>1, <2>2
<1>5. Consistent(owned, ent, lnk \cup lnk2)
  BY <1>3, <1>4 DEF Consistent
<1> QED
  BY <1>5 DEF owned, lnk2

\* What a handler leaves in the session is as consistent as what it loaded, and
\* the status moves along the state machine.
LEMMA HandlersConsistent ==
  ASSUME TypeOK, NEW r \in Requests, Handle(r),
         Consistent(req[r].row, req[r].ent, req[r].lnk),
         Linked(req[r].row, req[r].lnk), req'[r].at = "flushed"
  PROVE  /\ Consistent(req'[r].row2, req'[r].ent2, req[r].lnk \cup req'[r].lnk2)
         /\ Moves(req[r].row, req'[r].row2)
<1> DEFINE row  == req[r].row
           ent  == req[r].ent
           lnk  == req[r].lnk
           arg  == req[r].op.arg
           Good(row2, ent2, lnk2) == Consistent(row2, ent2, lnk \cup lnk2) /\ Moves(row, row2)
<1>1. row \in CallRows /\ ent \in EntryRows /\ lnk \in SUBSET LinkRows
  BY SessionType
<1>2. ASSUME NEW row2, NEW ent2, NEW lnk2, NEW log, Flush(r, row2, ent2, lnk2, log),
             Good(row2, ent2, lnk2)
      PROVE  Good(req'[r].row2, req'[r].ent2, req'[r].lnk2)
  BY <1>2, FlushFields
<1>3. CASE ChangeStatus(r)
  <2> DEFINE row2 == Enter(row, arg, r)
             ent2 == SyncQueue(ent, row2, arg, r)
  <2>1. arg \in Statuses /\ CanTransition(row.status, arg)
    BY <1>3, SessionType, OperationArgument DEF ChangeStatus, Loaded
  <2>2. Consistent(row2, ent2, lnk) /\ row2.status = arg
    BY <1>1, <2>1, EnterConsistent
  <2>3. \E log : Flush(r, row2, ent2, {}, log)
    BY <1>3 DEF ChangeStatus
  <2> HIDE DEF row2, ent2
  <2>4. Good(row2, ent2, {})
    BY <2>1, <2>2 DEF Moves
  <2> QED
    BY <1>2, <2>3, <2>4
<1>4. CASE AssignDispatcher(r)
  <2> DEFINE mine == [row EXCEPT !.dispatcher = arg]
             row2 == EnterIfAllowed(mine, "accepted", r)
             ent2 == Assign(ent, arg, r)
  <2>1. arg \in Dispatchers \cup {None}
    BY <1>4, SessionType, OperationArgument DEF AssignDispatcher, Loaded
  <2>2. Consistent(mine, ent2, lnk) /\ mine \in CallRows /\ ent2 \in EntryRows
    BY <1>1, <2>1, AssignConsistent, AssignEntry DEF CallRows
  <2>3. mine.status = row.status
    BY <1>1 DEF CallRows
  <2>4. \E log : Flush(r, row2, ent2, {}, log)
    BY <1>4 DEF AssignDispatcher
  <2> HIDE DEF mine, ent2
  <2>5. Consistent(row2, ent2, lnk) /\ Moves(mine, row2)
    BY <2>2, EnterIfAllowedConsistent
  <2> HIDE DEF row2
  <2>6. Good(row2, ent2, {})
    BY <2>3, <2>5 DEF Moves
  <2> QED
    BY <1>2, <2>4, <2>6
<1>5. CASE AttachIncident(r)
  <2> DEFINE type  == IF req[r].op.kind = "open" THEN "created" ELSE "linked"
             owned == [row EXCEPT !.incident = IF @ = None THEN arg ELSE @]
             row2  == EnterIfAllowed(owned, "linked", r)
             lnk2  == Attach(row, lnk, arg, type)
  <2>1. type \in {"created", "linked"}
    OBVIOUS
  <2>2. arg \in Incidents
    BY <1>5, SessionType, OperationArgument DEF AttachIncident, Loaded
  <2>3. \E log : Flush(r, row2, ent, lnk2, log)
    BY <1>5 DEF AttachIncident
  <2>4. owned \in CallRows /\ owned.status = row.status
    BY <1>1, <2>2 DEF CallRows
  <2> HIDE DEF type
  <2>5. Consistent(owned, ent, lnk \cup lnk2)
    BY <1>1, <2>1, <2>2, AttachConsistent
  <2> HIDE DEF owned, lnk2
  <2>6. Consistent(row2, ent, lnk \cup lnk2) /\ Moves(owned, row2)
    BY <1>1, <2>4, <2>5, EnterIfAllowedConsistent
  <2> HIDE DEF row2
  <2>7. Good(row2, ent, lnk2)
    BY <2>4, <2>6 DEF Moves
  <2> QED
    BY <1>2, <2>3, <2>7
<1>6. CASE AnswerCall(r)
  <2> DEFINE row2 == EnterIfAllowed(row, "accepted", r)
  <2>1. Good(row2, ent, {})
    BY <1>1, EnterIfAllowedConsistent
  <2>2. \E log : Flush(r, row2, ent, {}, log)
    BY <1>6 DEF AnswerCall
  <2> HIDE DEF row2
  <2> QED
    BY <1>2, <2>1, <2>2
<1>7. CASE EndCall(r)
  <2> DEFINE row2 == Enter(row, "completed", r)
             ent2 == SyncQueue(ent, row2, "completed", r)
  <2>1. CASE CanTransition(row.status, "completed")
    <3>1. \E log : Flush(r, row2, ent2, {}, log)
      BY <1>7, <2>1 DEF EndCall
    <3>2. Consistent(row2, ent2, lnk) /\ row2.status = "completed"
      BY <1>1, <2>1, EnterConsistent DEF Statuses
    <3> HIDE DEF row2, ent2
    <3>3. Good(row2, ent2, {})
      BY <2>1, <3>2 DEF Moves
    <3> QED
      BY <1>2, <3>1, <3>3
  <2>2. CASE ~CanTransition(row.status, "completed")
    <3>1. \E log : Flush(r, row, ent, {}, log)
      BY <1>7, <2>2 DEF EndCall
    <3> QED
      BY <1>2, <3>1 DEF Moves
  <2> QED
    BY <2>1, <2>2
<1>8. CASE ProviderAction(r) \/ RegisterArtefact(r)
  <2>1. \E log : Flush(r, row, ent, {}, log)
    BY <1>8 DEF ProviderAction, RegisterArtefact
  <2> QED
    BY <1>2, <2>1 DEF Moves
<1>9. ~Reject(r)
  BY FinishType DEF Reject
<1> QED
  BY <1>3, <1>4, <1>5, <1>6, <1>7, <1>8, <1>9 DEF Handle

-----------------------------------------------------------------------------
(* The invariant of a service that runs one request at a time.              *)

Alone == \A q, r \in Requests :
           req[q].at \in InFlight /\ req[r].at \in InFlight => q = r

\* What the request in flight has loaded is still what the tables hold.
Current(r) ==
  req[r].at \in InFlight =>
    LET c == req[r].op.call
    IN  IF req[r].op.kind = "create"
        THEN req[r].row2.dispatcher = None /\ req[r].row2.talk = None
        ELSE /\ req[r].row = call[c]
             /\ req[r].at # "row" => req[r].ent = entry[c]
             /\ req[r].at \in {"loaded", "flushed"} => req[r].lnk = links[c]
             /\ req[r].at = "flushed" =>
                  /\ Consistent(req[r].row2, req[r].ent2, links[c] \cup req[r].lnk2)
                  /\ Moves(call[c], req[r].row2)

SerialInv ==
  /\ IInv
  /\ Alone
  /\ \A r \in Requests : Current(r)
  /\ \A c \in Calls : Consistent(call[c], entry[c], links[c])

\* A request is let in only when no other is in flight.
LEMMA PoolOfOne ==
  ASSUME PoolSize = 1, CanStart, NEW r \in Requests
  PROVE  req[r].at \notin InFlight
<1>1. Active \subseteq Requests
  BY DEF Active
<1>2. IsFiniteSet(Active)
  BY <1>1, FS_Subset
<1>3. Cardinality(Active) = 0
  BY <1>2, FS_CardinalityType DEF CanStart
<1>4. Active = {}
  BY <1>2, <1>3, FS_EmptySet
<1> QED
  BY <1>4 DEF Active, InFlight

\* A step of one request that leaves the tables alone.
LEMMA SerialFrame ==
  ASSUME SerialInv, IInv', NEW r \in Requests, UNCHANGED db,
         \A q \in Requests \ {r} : req'[q] = req[q],
         \/ req[r].at \in InFlight
         \/ \A q \in Requests : req[q].at \notin InFlight,
         Current(r)'
  PROVE  SerialInv'
<1>1. UNCHANGED <<registered, call, entry, links, history, incidents>>
  BY DEF db
<1>2. Alone'
  BY DEF SerialInv, Alone
<1>3. ASSUME NEW q \in Requests PROVE Current(q)'
  BY ZenonT(30), <1>1 DEF SerialInv, Current
<1>4. \A c \in Calls : Consistent(call[c], entry[c], links[c])'
  BY <1>1 DEF SerialInv
<1> QED
  BY <1>2, <1>3, <1>4 DEF SerialInv

\* A commit writes the tables while no other request is in flight.
LEMMA SerialCommit ==
  ASSUME SerialInv, IInv', NEW r \in Requests, req[r].at \in InFlight,
         req'[r].at = "done", \A q \in Requests \ {r} : req'[q] = req[q],
         \A c \in Calls : Consistent(call[c], entry[c], links[c])'
  PROVE  SerialInv'
<1>1. \A q \in Requests : req'[q].at \notin InFlight
  BY DEF SerialInv, Alone, InFlight
<1> QED
  BY <1>1 DEF SerialInv, Alone, Current

\* The INSERTs of create_call: a new row, with an entry nobody is assigned to.
LEMMA CreateCommits ==
  ASSUME SerialInv, NEW r \in Requests, CommitCreate(r)
  PROVE  LET c == req[r].op.call
         IN  /\ c \in Calls /\ c \notin registered
             /\ registered' = registered \cup {c}
             /\ call'[c].status \in {"new", "ringing"}
             /\ Consistent(call'[c], entry'[c], links'[c])
             /\ \A d \in Calls \ {c} : /\ call'[d] = call[d] /\ entry'[d] = entry[d]
                                     /\ links'[d] = links[d]
<1> DEFINE c == req[r].op.call
<1>1. /\ req[r].at = "flushed" /\ req[r].op.kind = "create"
      /\ registered' = registered \cup {c}
      /\ call' = [call EXCEPT ![c] = req[r].row2]
      /\ entry' = [entry EXCEPT ![c] = NewEntry]
      /\ links' = links
  BY DEF CommitCreate
<1>2. c \in Calls /\ CreateSession(r) /\ Current(r)
  BY SessionType, OperationArgument DEF SerialInv, IInv
<1>3. /\ c \notin registered
      /\ req[r].row2.status \in {"new", "ringing"}
      /\ req[r].row2.answered = None
      /\ req[r].row2.dispatcher = None /\ req[r].row2.talk = None
  BY <1>1, <1>2 DEF CreateSession, Current, InFlight
<1> HIDE DEF c
<1>4. /\ call'[c] = req[r].row2 /\ entry'[c] = NewEntry /\ links'[c] = {}
      /\ \A d \in Calls \ {c} : /\ call'[d] = call[d] /\ entry'[d] = entry[d]
                              /\ links'[d] = links[d]
  BY <1>1, <1>2, <1>3 DEF SerialInv, IInv, TypeOK, UnregisteredIsEmpty
<1>5. Consistent(req[r].row2, NewEntry, {})
  BY <1>3 DEF Consistent, NewEntry, Closed
<1> QED
  BY <1>1, <1>2, <1>3, <1>4, <1>5 DEF c

\* The UPDATEs of any other request: what it computed is what the table gets,
\* because what it loaded is what the table held.
LEMMA ChangeCommits ==
  ASSUME SerialInv, NEW r \in Requests, CommitChange(r)
  PROVE  LET c == req[r].op.call
         IN  /\ c \in Calls /\ c \in registered /\ registered' = registered
             /\ Moves(call[c], call'[c])
             /\ Consistent(call'[c], entry'[c], links'[c])
             /\ \A d \in Calls \ {c} : /\ call'[d] = call[d] /\ entry'[d] = entry[d]
                                     /\ links'[d] = links[d]
<1> DEFINE c == req[r].op.call
           w == WriteCall(call[c], req[r].row, req[r].row2)
           e == WriteEntry(entry[c], req[r].ent, req[r].ent2)
<1>1. /\ req[r].at = "flushed" /\ req[r].op.kind # "create"
      /\ registered' = registered
      /\ call' = [call EXCEPT ![c] = w]
      /\ entry' = [entry EXCEPT ![c] = e]
      /\ links' = [links EXCEPT ![c] = @ \cup req[r].lnk2]
  BY DEF CommitChange
<1>2. /\ c \in Calls /\ ChangeSession(r) /\ Current(r)
  BY SessionType, OperationArgument DEF SerialInv, IInv
<1>3. /\ c \in registered
      /\ req[r].row = call[c] /\ req[r].ent = entry[c]
      /\ Consistent(req[r].row2, req[r].ent2, links[c] \cup req[r].lnk2)
      /\ Moves(call[c], req[r].row2)
  BY <1>1, <1>2 DEF ChangeSession, Current, InFlight
<1>4. /\ w.status = req[r].row2.status /\ w.answered = req[r].row2.answered
      /\ w.ended = req[r].row2.ended /\ w.talk = req[r].row2.talk
      /\ w.incident = req[r].row2.incident /\ w.dispatcher = req[r].row2.dispatcher
  BY <1>3 DEF WriteCall, Column
<1>5. /\ e.status = req[r].ent2.status /\ e.removed = req[r].ent2.removed
      /\ e.dispatcher = req[r].ent2.dispatcher
  BY <1>3 DEF WriteEntry, Column
<1> HIDE DEF c, w, e
<1>6. /\ call'[c] = w /\ entry'[c] = e /\ links'[c] = links[c] \cup req[r].lnk2
      /\ \A d \in Calls \ {c} : /\ call'[d] = call[d] /\ entry'[d] = entry[d]
                              /\ links'[d] = links[d]
  BY <1>1, <1>2 DEF SerialInv, IInv, TypeOK
<1>7. Consistent(w, e, links[c] \cup req[r].lnk2) /\ Moves(call[c], w)
  BY <1>3, <1>4, <1>5 DEF Consistent, Moves
<1> QED
  BY <1>1, <1>2, <1>3, <1>6, <1>7 DEF c

LEMMA SerialInductive ==
  ASSUME PoolSize = 1
  PROVE  SerialInv /\ [Next]_vars => SerialInv'
<1> SUFFICES ASSUME SerialInv, [Next]_vars PROVE SerialInv'
  OBVIOUS
<1>1. IInv' /\ IInv /\ TypeOK
  BY InvInductive DEF SerialInv, IInv
<1>2. ASSUME NEW r \in Requests, Receive(r) PROVE SerialInv'
  <2>1. Current(r)'
    BY <1>1, <1>2, LoadFrame DEF Current, db
  <2>2. \A q \in Requests : req[q].at \notin InFlight
    BY <1>2, PoolOfOne DEF Receive
  <2> QED
    BY <1>1, <1>2, <2>1, <2>2, LoadFrame, SerialFrame
<1>3. ASSUME NEW r \in Requests, CreateCall(r) PROVE SerialInv'
  <2>1. NewRow(req'[r].op).dispatcher = None /\ NewRow(req'[r].op).talk = None
    BY DEF NewRow, NewCall
  <2>2. Current(r)'
    BY <1>1, <1>3, <2>1, CreateFrame DEF Current
  <2>3. \A q \in Requests : req[q].at \notin InFlight
    BY <1>3, PoolOfOne DEF CreateCall
  <2> QED
    BY <1>1, <1>3, <2>2, <2>3, CreateFrame, SerialFrame
<1>4. ASSUME NEW r \in Requests, LoadEntry(r) \/ LoadLinks(r) PROVE SerialInv'
  <2>1. Current(r) /\ req[r].at \in InFlight /\ req[r].op.kind # "create"
    BY <1>1, <1>4, LoadFrame DEF SerialInv, IInv, CreateSession, InFlight
  <2>2. Current(r)'
    BY <1>1, <1>4, <2>1, LoadFrame DEF Current, db
  <2> QED
    BY <1>1, <1>4, <2>1, <2>2, LoadFrame, SerialFrame
<1>5. ASSUME NEW r \in Requests, Handle(r) PROVE SerialInv'
  <2>1. /\ req[r].at = "loaded" /\ req'[r].op = req[r].op /\ UNCHANGED db
        /\ req'[r].at \in {"flushed", "failed"}
        /\ req'[r].at = "flushed" => /\ req'[r].row = req[r].row
                                     /\ req'[r].ent = req[r].ent
                                     /\ req'[r].lnk = req[r].lnk
        /\ \A q \in Requests \ {r} : req'[q] = req[q]
    BY <1>1, <1>5, HandleFrame
  <2>2. Current(r) /\ req[r].at \in InFlight /\ req[r].op.kind # "create"
    BY <1>1, <2>1 DEF SerialInv, IInv, CreateSession, InFlight
  <2>3. Current(r)'
    <3>1. CASE req'[r].at = "failed"
      BY <3>1 DEF Current, InFlight
    <3>2. CASE req'[r].at = "flushed"
      <4> DEFINE c == req[r].op.call
      <4>1. /\ req[r].row = call[c] /\ req[r].ent = entry[c] /\ req[r].lnk = links[c]
            /\ c \in Calls
        BY <1>1, <2>1, <2>2, SessionType, OperationArgument DEF Current
      <4>2. Consistent(call[c], entry[c], links[c]) /\ Linked(call[c], links[c])
        BY <1>1, <4>1 DEF SerialInv, IInv, LinksAgree, Linked
      <4>3. /\ Consistent(req'[r].row2, req'[r].ent2, links[c] \cup req'[r].lnk2)
            /\ Moves(call[c], req'[r].row2)
        BY <1>1, <1>5, <3>2, <4>1, <4>2, HandlersConsistent
      <4> QED
        BY <2>1, <2>2, <3>2, <4>1, <4>3 DEF Current, db
    <3> QED
      BY <2>1, <3>1, <3>2
  <2> QED
    BY <1>1, <2>1, <2>2, <2>3, SerialFrame
<1>6. ASSUME NEW r \in Requests, CommitCreate(r) PROVE SerialInv'
  <2>1. /\ req[r].at \in InFlight /\ req'[r].at = "done"
        /\ \A q \in Requests \ {r} : req'[q] = req[q]
    BY <1>1, <1>6, FinishType DEF CommitCreate, InFlight
  <2>2. \A c \in Calls : Consistent(call[c], entry[c], links[c])'
    BY <1>6, CreateCommits DEF SerialInv
  <2> QED
    BY <1>1, <2>1, <2>2, SerialCommit
<1>7. ASSUME NEW r \in Requests, CommitChange(r) PROVE SerialInv'
  <2>1. /\ req[r].at \in InFlight /\ req'[r].at = "done"
        /\ \A q \in Requests \ {r} : req'[q] = req[q]
    BY <1>1, <1>7, FinishType DEF CommitChange, InFlight
  <2>2. \A c \in Calls : Consistent(call[c], entry[c], links[c])'
    BY <1>7, ChangeCommits DEF SerialInv
  <2> QED
    BY <1>1, <2>1, <2>2, SerialCommit
<1>8. ASSUME NEW r \in Requests, UniqueViolation(r) \/ ConnectionLost(r)
      PROVE  SerialInv'
  <2>1. Current(r)' /\ req[r].at \in InFlight
    BY <1>1, <1>8, FailFrame DEF Current, InFlight, Active
  <2> QED
    BY <1>1, <1>8, <2>1, FailFrame, SerialFrame
<1>9. CASE Restart
  <2>1. \A r \in Requests : req'[r].at \notin InFlight
    BY <1>1, <1>9, RestartFrame DEF Active, InFlight
  <2>2. UNCHANGED <<registered, call, entry, links>>
    BY <1>9 DEF Restart, db
  <2> QED
    BY <1>1, <2>1, <2>2 DEF SerialInv, Alone, Current
<1>10. CASE UNCHANGED vars
  BY <1>1, <1>10 DEF vars, SerialInv, Alone, Current
<1> QED
  BY <1>2, <1>3, <1>4, <1>5, <1>6, <1>7, <1>8, <1>9, <1>10 DEF Next, Step

LEMMA SerialInitial == Init => SerialInv
<1> SUFFICES ASSUME Init PROVE SerialInv
  OBVIOUS
<1>1. \A r \in Requests : req[r].at = "idle"
  BY BlankRow DEF Init, Places
<1>2. Consistent(NewCall, NewEntry, {})
  BY DEF Consistent, NewCall, NewEntry, Closed
<1> QED
  BY <1>1, <1>2, InvInitial DEF SerialInv, Alone, Current, InFlight, Init

THEOREM SerialInvHolds ==
  ASSUME PoolSize = 1 PROVE Spec => []SerialInv
  BY SerialInitial, SerialInductive, PTL DEF Spec

\* Requests that run one at a time leave every call consistent, after any walk
\* through the statuses, with lost connections and restarts: an entry is removed
\* only when its call is closed, call and entry name one dispatcher, the talk time
\* is that of the closing, and exactly one link is primary, the one the call names.
THEOREM CallsStayConsistent ==
  ASSUME PoolSize = 1 PROVE Spec => []CallIsConsistent
<1>1. SerialInv => CallIsConsistent
  BY DEF SerialInv, CallIsConsistent, Consistent, RemovedMeansClosed, DispatchersAgree,
         TalkTimeMatchesEnd, PrimaryIsUnique
<1> QED
  BY <1>1, SerialInvHolds, PTL

-----------------------------------------------------------------------------
(* The service implements the lifecycle.                                    *)

LEMMA LifecycleInitial == Init => Lifecycle!Init
  BY DEF Init, Lifecycle!Init, Lifecycle!Unregistered, StatusView

LEMMA LifecycleStep ==
  ASSUME PoolSize = 1, SerialInv, [Next]_vars
  PROVE  [Lifecycle!Next]_StatusView
<1>1. ASSUME UNCHANGED <<registered, call>> PROVE UNCHANGED StatusView
  BY <1>1 DEF StatusView
<1>2. ASSUME NEW r \in Requests, CommitCreate(r) PROVE Lifecycle!Next
  <2> DEFINE c == req[r].op.call
             s == call'[c].status
  <2>1. /\ c \in Calls /\ c \notin registered
        /\ registered' = registered \cup {c}
        /\ s \in {"new", "ringing"}
        /\ \A d \in Calls \ {c} : call'[d] = call[d]
    BY <1>2, CreateCommits
  <2>2. StatusView[c] = "unregistered"
    BY <2>1 DEF StatusView
  <2>3. StatusView' = [StatusView EXCEPT ![c] = s]
    BY <2>1 DEF StatusView
  <2>4. Lifecycle!Register(c)
    BY <2>1, <2>2, <2>3 DEF Lifecycle!Register, Lifecycle!Unregistered
  <2> QED
    BY <2>1, <2>4 DEF Lifecycle!Next
<1>3. ASSUME NEW r \in Requests, CommitChange(r)
      PROVE  Lifecycle!Next \/ UNCHANGED StatusView
  <2> DEFINE c == req[r].op.call
             s == call'[c].status
  <2>1. /\ c \in Calls /\ c \in registered
        /\ registered' = registered
        /\ s # call[c].status => CanTransition(call[c].status, s)
        /\ \A d \in Calls \ {c} : call'[d] = call[d]
    BY <1>3, ChangeCommits DEF Moves
  <2>2. StatusView[c] = call[c].status /\ call[c].status \in Statuses
    BY <2>1 DEF StatusView, SerialInv, IInv, TypeOK, CallRows
  <2>3. StatusView' = [StatusView EXCEPT ![c] = s]
    BY <2>1 DEF StatusView
  <2>4. CASE s = call[c].status
    BY <2>1, <2>4 DEF StatusView
  <2>5. CASE s # call[c].status
    <3>1. Lifecycle!Move(c)
      BY <2>1, <2>2, <2>3, <2>5
         DEF Lifecycle!Move, Lifecycle!Unregistered, CanTransition,
             Lifecycle!Transitions, Transitions, Lifecycle!Statuses, Statuses
    <3> QED
      BY <2>1, <3>1 DEF Lifecycle!Next
  <2> QED
    BY <2>4, <2>5
<1>4. TypeOK
  BY DEF SerialInv, IInv
<1>5. ASSUME NEW r \in Requests,
             \/ Receive(r) \/ LoadEntry(r) \/ LoadLinks(r) \/ CreateCall(r)
             \/ Handle(r) \/ UniqueViolation(r) \/ ConnectionLost(r)
      PROVE  UNCHANGED <<registered, call>>
  BY <1>4, <1>5, LoadFrame, CreateFrame, HandleFrame, FailFrame DEF db
<1>6. ASSUME Restart \/ UNCHANGED vars PROVE UNCHANGED <<registered, call>>
  BY <1>6 DEF Restart, db, vars
<1> QED
  BY <1>1, <1>2, <1>3, <1>5, <1>6 DEF Next, Step

\* The detailed service implements the lifecycle specification when requests run
\* one at a time: a call is registered once, as new or ringing, and every commit
\* moves it along the state machine or leaves its status alone.
THEOREM LifecycleImplemented ==
  ASSUME PoolSize = 1 PROVE Spec => ImplementsLifecycle
<1>1. Init => Lifecycle!Init
  BY LifecycleInitial
<1>2. SerialInv /\ [Next]_vars => [Lifecycle!Next]_StatusView
  BY LifecycleStep
<1> QED
  BY <1>1, <1>2, SerialInvHolds, PTL DEF Spec, ImplementsLifecycle, Lifecycle!Spec
=============================================================================
