-------------------------- MODULE CrisisOperations --------------------------
(***************************************************************************)
(* One emergency operation (app/crisis): its headquarters, sectors, one     *)
(* group of forces and where it stands, one stage and one task of the plan, *)
(* the journal, and the situation board that reads them all.  A status is   *)
(* whatever a client sets: there is no state machine here.  Of the other     *)
(* operations there is one sector, which the group can be sent to as well.   *)
(*                                                                         *)
(* created_at is the start of a transaction; `at` counts the transactions   *)
(* that have started, and orders what the services sort by created_at.      *)
(***************************************************************************)
EXTENDS Sessions, SequencesExt, Orderings

CONSTANTS BoardWindow,    \* journal entries that the board reads (50)
          CriticalShown   \* critical events that it shows (20)

VARIABLES operation,  \* crisis_operations: the row, or None
          staff,      \* crisis_headquarters of the operation: who created each
          sector,     \* crisis_sectors: a status, or None while there is no row
          place,      \* where the group stands; "absent" while there is no group
          moves,      \* crisis_resource_moves, in commit order
          plan,       \* status of the stage and of the task, or None
          added,      \* rows that are only ever added: [by, table]
          journal,    \* crisis_journal_entries, in commit order
          boards      \* the boards that were answered

crisisTables == <<operation, staff, sector, place, moves, plan, added, journal>>
crisisVars == <<sessionVars, crisisTables, boards>>

Sectors == {"north", "south"}            \* those of this operation
AnySector == Sectors \cup {"elsewhere"}   \* crisis_sectors of every operation
OperationStatuses == {"planned", "active", "stabilizing", "closed"}
SectorStatuses == {"forming", "active", "contained", "closed"}
PlanStatuses == {"planned", "active", "pending", "in_progress", "done", "cancelled"}
Tables == {"command", "zone", "member", "report", "order"}
JournalKinds == {"decision", "action", "situation", "assignment"}

OperationRows == [status : OperationStatuses, ended : Requests \cup {None}]
MoveRows == [by : Requests, from : AnySector \cup {None}, to : AnySector \cup {None}]
JournalRows == [by : Requests, at : Nat, kind : JournalKinds]

\* NULL is none of the values that a column holds.
ASSUME CrisisAssumption == /\ None \notin OperationRows
                           /\ None \notin SectorStatuses \cup AnySector \cup {"absent"}
                           /\ BoardWindow \in Nat /\ CriticalShown \in Nat \ {0}

CrisisTypeOK ==
  /\ operation \in OperationRows \cup {None}
  /\ sector \in [Sectors -> SectorStatuses \cup {None}]
  /\ place \in AnySector \cup {None, "absent"}
  /\ moves \in Seq(MoveRows)
  /\ plan \in [{"stage", "task"} -> PlanStatuses \cup {None}]
  /\ added \subseteq [by : Requests, table : Tables]
  /\ journal \in Seq(JournalRows)

CrisisOperation(kind, args) == [kind : {kind}, arg : args]
CrisisOps ==
  UNION {CrisisOperation("operation", {None}),
         CrisisOperation("steer", {"active", "closed", "halted"}),
         CrisisOperation("decide", {None}),
         CrisisOperation("sector", {"south"}),
         CrisisOperation("situation", {"contained"}),
         CrisisOperation("group", {None, "north", "elsewhere"}),
         CrisisOperation("relocate", AnySector \cup {None}),
         CrisisOperation("plan", {"stage", "task"}),
         CrisisOperation("progress", {"stage", "task"}),
         CrisisOperation("add", Tables),
         CrisisOperation("board", {None})}

\* Either nothing exists, or an operation with a sector and perhaps a group.
CrisisInit ==
  /\ SessionsInit
  /\ \/ /\ operation = None /\ staff = {} /\ place = "absent"
        /\ sector = [s \in Sectors |-> None]
     \/ /\ operation = [status |-> "planned", ended |-> None] /\ staff = {"earlier"}
        /\ sector = [s \in Sectors |-> IF s = "north" THEN "forming" ELSE None]
        /\ place \in {"absent", "north"}
  /\ moves = <<>> /\ plan = [x \in {"stage", "task"} |-> None]
  /\ added = {} /\ journal = <<>> /\ boards = {}

-----------------------------------------------------------------------------
Begun == Cardinality(Requests \ NotBegun)

\* A request reads the row it is about; the board reads sectors and zones first.
ReceiveCrisis(r, op) ==
  /\ Begin(r, op, [at |-> Begun, operation |-> operation, sector |-> sector,
                   place |-> place, plan |-> plan])
  /\ UNCHANGED <<crisisTables, boards>>

Read(r, kind) == session[r].at = "row" /\ session[r].op.kind = kind
Given(r) == session[r].op.arg
Had(r) == session[r].seen

\* Mutant: the decision is kept without an entry.
JournalActions(r, kind) ==
  journal' = IF kind = "decision" THEN journal
             ELSE Append(journal, [by |-> r, at |-> Had(r).at, kind |-> kind])
\* JournalService.append: in the transaction of what it records.
Journal(r, kind) == journal' = Append(journal, [by |-> r, at |-> Had(r).at, kind |-> kind])
Commit(r) == Finish(r, "done") /\ UNCHANGED boards

StaffOf(r) == {r}

Valid(status) == status \in OperationStatuses
\* The foreign key of a row that names a sector, or none.  It asks for a sector,
\* not for one of the operation.
SectorExists(s) == s \in Sectors => sector[s] # None

\* The code is unique, and so is the headquarters' operation: of two concurrent
\* creations one fails (RefuseCrisis).
CreateOperation(r) ==
  /\ Read(r, "operation") /\ Had(r).operation = None /\ operation = None
  /\ operation' = [status |-> "planned", ended |-> None]
  /\ staff' = StaffOf(r)
  /\ Journal(r, "action") /\ Commit(r)
  /\ UNCHANGED <<sector, place, moves, plan, added>>

\* Setting "closed" stamps the end; no other status takes it back.
Updated(row, status, r) ==
  [status |-> status, ended |-> IF status = "closed" THEN r ELSE row.ended]

UpdateOperation(r) ==
  /\ Read(r, "steer") /\ Had(r).operation # None /\ Valid(Given(r))
  /\ operation' = Merge(operation, Had(r).operation,
                        Updated(Had(r).operation, Given(r), r))
  /\ Journal(r, "action") /\ Commit(r)
  /\ UNCHANGED <<staff, sector, place, moves, plan, added>>

RecordDecision(r) ==
  /\ Read(r, "decide") /\ Had(r).operation # None
  /\ Journal(r, "decision") /\ Commit(r)
  /\ UNCHANGED <<operation, staff, sector, place, moves, plan, added>>

\* An operation that does not exist fails the foreign key.  A second sector,
\* group, stage or task is another row, which the model does not follow.
CreateSector(r) ==
  /\ Read(r, "sector") /\ operation # None
  /\ sector' = [sector EXCEPT ![Given(r)] = IF @ = None THEN "forming" ELSE @]
  /\ Journal(r, "action") /\ Commit(r)
  /\ UNCHANGED <<operation, staff, place, moves, plan, added>>

UpdateSector(r) ==
  /\ Read(r, "situation") /\ Had(r).sector["north"] # None
  /\ sector' = [sector EXCEPT !["north"] = IF Had(r).sector["north"] = Given(r) THEN @
                                           ELSE Given(r)]
  /\ Journal(r, "situation") /\ Commit(r)
  /\ UNCHANGED <<operation, staff, place, moves, plan, added>>

\* No handler compares the operation of the sector with that of the group.
CreateGroup(r) ==
  /\ Read(r, "group") /\ operation # None
  /\ SectorExists(Given(r))
  /\ place' = IF place = "absent" THEN Given(r) ELSE place
  /\ Journal(r, "assignment") /\ Commit(r)
  /\ UNCHANGED <<operation, staff, sector, moves, plan, added>>

\* Mutant: the move is taken from the row after it was updated.
MovedLate(r) == Append(moves, [by |-> r, from |-> Given(r), to |-> Given(r)])
Moved(r) == Append(moves, [by |-> r, from |-> Had(r).place, to |-> Given(r)])
\* The group's row is written only if the sector differs from the one loaded.
Relocate(r) ==
  /\ Read(r, "relocate") /\ Had(r).place # "absent"
  /\ SectorExists(Given(r))
  /\ moves' = Moved(r)
  /\ place' = IF Had(r).place = Given(r) THEN place ELSE Given(r)
  /\ Journal(r, "assignment") /\ Commit(r)
  /\ UNCHANGED <<operation, staff, sector, plan, added>>

\* A stage is planned and a task set; only the task is journalled.
AddToPlan(r) ==
  /\ Read(r, "plan") /\ operation # None
  /\ plan' = [plan EXCEPT ![Given(r)] = IF @ # None THEN @
                                        ELSE IF Given(r) = "stage" THEN "planned" ELSE "pending"]
  /\ IF Given(r) = "task" THEN Journal(r, "action") ELSE UNCHANGED journal
  /\ Commit(r)
  /\ UNCHANGED <<operation, staff, sector, place, moves, added>>

SetPlanStatus(r) ==
  /\ Read(r, "progress") /\ Had(r).plan[Given(r)] # None
  /\ plan' = [plan EXCEPT ![Given(r)] = "done"]
  /\ IF Given(r) = "task" THEN Journal(r, "action") ELSE UNCHANGED journal
  /\ Commit(r)
  /\ UNCHANGED <<operation, staff, sector, place, moves, added>>

\* Commanders, zones, group members, situation reports and orders.
AddRow(r) ==
  /\ Read(r, "add") /\ operation # None
  /\ Given(r) = "member" => Had(r).place # "absent"
  /\ added' = added \cup {[by |-> r, table |-> Given(r)]}
  /\ IF Given(r) \in {"command", "member"} THEN Journal(r, "assignment")
     ELSE UNCHANGED journal
  /\ Commit(r)
  /\ UNCHANGED <<operation, staff, sector, place, moves, plan>>

-----------------------------------------------------------------------------
Critical(e) == e.kind \in {"decision", "situation"}

\* JournalService.timeline: the first BoardWindow entries in order of created_at.
Timeline(entries) ==
  LET earlier == {pair \in (DOMAIN entries) \X (DOMAIN entries) :
                    entries[pair[1]].at < entries[pair[2]].at} IN
  SubSeq(Sorted(DOMAIN entries, earlier), 1, Min({BoardWindow, Len(entries)}))

\* The critical ones of them with the newest first, CriticalShown of these.
CriticalEvents(entries) ==
  LET events == Reverse(Picked(Timeline(entries), {i \in DOMAIN entries : Critical(entries[i])}))
  IN  [i \in 1 .. Min({CriticalShown, Len(events)}) |-> entries[events[i]]]

\* The board's later SELECTs: groups, reports, journal.
AnswerBoard(r) ==
  /\ Read(r, "board")
  /\ boards' = boards \cup {[by |-> r, sectors |-> {s \in Sectors : Had(r).sector[s] # None},
                             place |-> place, events |-> CriticalEvents(journal),
                             entries |-> journal]}
  /\ Finish(r, "done")
  /\ UNCHANGED crisisTables

\* 403, 404, 409, 422 and constraint violations.
RefuseCrisis(r) ==
  /\ \/ Read(r, "operation") /\ operation # None
     \/ session[r].at = "row" /\ session[r].op.kind \notin {"operation", "board"}
        /\ operation = None
     \/ Read(r, "situation") /\ Had(r).sector["north"] = None
     \/ Read(r, "group") /\ ~SectorExists(Given(r))
     \/ Read(r, "steer") /\ (Had(r).operation = None \/ ~Valid(Given(r)))
     \/ Read(r, "relocate") /\ (\/ Had(r).place = "absent"
                                \/ ~SectorExists(Given(r)))
     \/ Read(r, "progress") /\ Had(r).plan[Given(r)] = None
     \/ Read(r, "add") /\ Given(r) = "member" /\ Had(r).place = "absent"
  /\ Finish(r, "failed")
  /\ UNCHANGED <<crisisTables, boards>>

\* The user lacks the permission (CrisisAccess.require), or the connection breaks.
DenyCrisis(r) == Lost(r) /\ UNCHANGED <<crisisTables, boards>>

\* The routes, as they follow each other in the router.
Command(r) == CreateOperation(r) \/ UpdateOperation(r) \/ RecordDecision(r)
Forces(r) == CreateSector(r) \/ UpdateSector(r) \/ CreateGroup(r) \/ Relocate(r)
Planning(r) == AddToPlan(r) \/ SetPlanStatus(r) \/ AddRow(r) \/ AnswerBoard(r)

CrisisNext ==
  \E r \in Requests :
    \/ \E op \in CrisisOps : ReceiveCrisis(r, op)
    \/ Command(r) \/ Forces(r) \/ Planning(r)
    \/ RefuseCrisis(r) \/ DenyCrisis(r)

CrisisSpec == CrisisInit /\ [][CrisisNext]_crisisVars

-----------------------------------------------------------------------------
(* Whatever overlaps.                                                      *)

\* Every operation has exactly one headquarters, also when two requests create
\* it at the same time ("every operation gets a headquarters").
OneHeadquarters == Cardinality(staff) = IF operation = None THEN 0 ELSE 1

\* A closed operation has an end, whoever closed and reopened it meanwhile.
ClosedHasEnd == operation # None /\ operation.status = "closed" => operation.ended # None

\* The journal is append-only, and everything that was commanded is in it.
JournalComplete ==
  [][/\ IsPrefix(journal, journal')
     /\ \A r \in Done' \ Done :
          session'[r].op.kind \in {"operation", "steer", "decide", "sector", "situation",
                                   "group", "relocate"}
            => \E i \in DOMAIN journal' : journal'[i].by = r]_crisisVars

\* The newest decision or change of the situation comes first on the board - as
\* long as the journal is no longer than the window, which is of its oldest
\* entries.
BoardShowsNewest ==
  \A b \in boards : Len(b.entries) <= BoardWindow =>
    \A i \in DOMAIN b.entries :
      Critical(b.entries[i]) => b.events # <<>> /\ b.events[1].at >= b.entries[i].at

(* What the documentation says, and the sectors of other operations break.  *)

\* The board shows the sector that its group of forces stands in: it "aggregates
\* the live picture" of one operation, whose groups are assigned to its sectors.
BoardShowsItsSectors ==
  ~overlapped => \A b \in boards : b.place \in b.sectors \cup {None, "absent"}

(* As long as requests do not overlap.                                     *)

LeadTo(rows, to) ==
  /\ \A i \in 1 .. Len(rows) - 1 : rows[i + 1].from = rows[i].to
  /\ rows # <<>> => rows[Len(rows)].to = to

\* The moves of the group lead from sector to sector without a gap and end where
\* the group is.  Of two relocations that overlap both start where the group was.
MovesLeadToPlace == ~overlapped => LeadTo(moves, place)

\* A sector of this operation that the board names is shown on it.  A sector of
\* another operation is not, overlapping or not: see BoardShowsItsSectors.
BoardIsClosed ==
  ~overlapped => \A b \in boards : b.place \in Sectors => b.place \in b.sectors

\* The operation, its headquarters and its forces are what was commanded, and the
\* situation board is a picture of one moment.
CommandIsConsistent ==
  /\ OneHeadquarters /\ ClosedHasEnd /\ MovesLeadToPlace
  /\ BoardIsClosed /\ BoardShowsNewest
=============================================================================
