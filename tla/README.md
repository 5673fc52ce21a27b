# Fire dispatch system: specifications and proofs

TLA+ models of the fire dispatch system (`src/`), checked with TLC and, where a
result should hold for every size of the system, proved with TLAPS.

## 1. Inventory

The repository is a FastAPI backend (`backend/app`, one package per component,
PostgreSQL through async SQLAlchemy), a React workspace for dispatchers (`web`), an
older thin client (`frontend`), a TypeScript SDK for mobile crews (`mobile`),
migrations and scripts.

| Component | State it keeps | Operations | What is hard | What makes it correct |
|---|---|---|---|---|
| calls | `calls`, `call_queue`, `call_incident_links`, `call_history`; the telephony provider's calls in memory | create, change status, assign dispatcher, attach incident, answer, hold, transfer, end, register recording or transcript | requests read with several SELECTs, compute on copies and write changed columns without locks; the provider is told before the commit and forgets on restart | status moves along the state machine; call, queue entry, stamps, links and history agree |
| incidents | incident cards, locations, unit assignments, recommendation links, comments, history | create, update, change status, comment, assign units, recommend, close, archive | the same transaction pattern; "one primary", "one current" flags decided on loaded copies | state machine; one primary location; one current recommendation; a unit assigned once |
| resources | units, resources, status history, crews, incident assignments | update status (one, many), crew composition, assign to and return from an incident | unit and resource carry separate statuses; assignments are not exclusive | the vehicle has its unit's status; every change is in the history; a release is final |
| rules | rules, versions, links, change log | create, update (new version, publish, activate), delete; evaluate conditions | version numbers by max + 1; exactly one active version; flush order | version numbers unique; at most one active version |
| dispatch | none of its own (logs recommendations) | recommend: resolve rules, aggregate requirements, partition, score, select, reserve, cover | a pipeline of algorithms with ties and shortages | no excluded unit is chosen; requirement met or the shortage is reported |
| mobile (server and SDK) | applied operations and sessions in memory; the phone's queue in local storage | enqueue, flush, sync, advance field status, sign in, revoke | lost answers, retries, server restarts, enqueuing during a flush | no report is lost; each is decided once, in order, and applied once per life of the server |
| simulator | session, clock, event queue, simulated units and incidents | start, pause, step, advance, dispatch, resolve, stop | events, clock and trainee commands interleave; units break down while assigned | nothing due is missed however time is advanced; unit and incident agree |
| crisis | operations, sectors, resource groups, plan versions, journal | update status, relocate groups, version plans | no state machine; group location derived from moves; any sector id is accepted | closed means ended; a group is where its last move says; the board shows its sector |
| admin | settings with versions and history, users, roles, permissions | create and update setting, replace role sets, check health | version by increment of a loaded value | history has one row per version |
| routing, gis, search | in-memory caches, provider state | route with fallback, geocode, search | staleness, expiry, keys that leave out a parameter, log writes on a second connection | a cached answer is one the question could have had (with `country_codes` it need not be) |
| web workspace | one websocket, timers, optimistic copies | connect, reconnect, heartbeat, register incident in two steps, optimistic updates | callbacks of an old socket act on the new one; partial failure of two-step actions | one channel per tab; what is shown at rest is the server's; one incident per registration, with its units |
| ai | the audit log of invocations | analyse, classify, summarise, extract, transcribe | the call changes while it is read; the audit row shares the fate of the request | a suggestion is given exactly with its audit row |
| migrations | the schema, Alembic's version | upgrade and downgrade, by every instance at its start and by an operator | two runs at once, crashes half way, types and references that depend on each other | the schema is what the version stands for, and what the models expect |
| digital twin, observability | none or derived | evaluate, probe | arithmetic | not modelled (see PROJECT.json) |

All packages of the backend share one pattern: an HTTP request opens a session,
loads rows, changes them in memory and commits before it answers. PostgreSQL runs
at READ COMMITTED, no row is locked and no version column is checked. `CallService`
models this pattern for one component in full; `Sessions` states it once for all the
others, which extend it.

## 2. Plan

In this order, the most important behaviour first:

1. `CallStates`, `CallLifecycle`, `CallService` - the intake of emergency calls, with
   `CallServiceProofs` (**done**).
2. `OrderedDelivery`, `MobileSync` - phone queue, lossy network, server memory, with
   `MobileSyncProofs` (**done**).
3. `Simulator` - engine, clock, events, evaluation, with `SimulatorProofs` (**done**).
4. `Sessions` and the other writers on it: `IncidentService`, `ResourceManagement`,
   `CrisisOperations`, `RuleVersioning`, `Administration`, `AIPlatform` (**done**).
5. `RuleConditions`, `DispatchEngine` - the condition executor and the pipeline of a
   recommendation, against reference definitions (**done**).
6. `SchemaModels`, `SchemaMigrations` - the chain of migrations and what it has to end
   at (**done**).
7. `LookupCaches`, `DispatcherSocket`, `WorkspaceQueries` - routing, geocoding, search;
   the dispatcher's tab (**done**).
8. `IncidentProofs`, `ServiceProofs`, `InfrastructureProofs`, and the
   refinements of 1 and 2 (**done**).
9. `Orderings` and `DispatchProofs` - what a recommendation is made of, on lists that are
   defined by what they are and not by how they are computed (**done**).
10. The services together: the types of `MCServices` (**done**).
11. `MigrationProofs` - the migrations for any number of instances (**done**).

How they compose: the services keep tables of their own and share only the way sessions
work, so `MCServices` lets a behaviour exercise one of them (see section 4).
`DispatchEngine` extends `RuleConditions`, which is also how a rule of `RuleVersioning`
is judged. `SchemaMigrations` extends `SchemaModels` and compares the two.
`AIPlatform` reads the call that `CallService` writes, as a row that changes. Phones
reach the server through `MobileSync` only. The simulator has a world of its own.

Abstract specifications: `CallLifecycle` (a call moves along the state machine) and
`OrderedDelivery` (reports are decided once, in order).

What is left is what the provers do not do: liveness (see "Only model-checked").

No module that is proved about declares a RECURSIVE operator, and what Python's `sorted`,
comprehensions and `sum` do is stated in `Orderings` by what the result is. The library's
`SortSeq`, `SelectSeq` and folds take operators as parameters, which the provers cannot
instantiate, and `SortSeq` has no value in TLA+ where two candidates tie. A sort is
therefore a list of the members in which nobody stands in front of those who are before
him (`Sorted`); what the properties say does not depend on which of two that tie is first.

## 3. Modules

| Module | Models |
|---|---|
| `CallStates` | `calls/validators/state_machine.py`: statuses, transitions, groups of statuses. Constant-level. |
| `CallLifecycle` | What the call module promises: registered once, then moved along the state machine. Abstract specification. |
| `CallService` | `calls/services/call_service.py`, `services/incident_linker.py`, `queue/manager.py`, `history/recorder.py`, `providers/mock.py` as concurrent requests. |
| `OrderedDelivery` | What synchronisation is for: operations of a unit are decided once, in the order in which they were reported. Abstract specification. |
| `MobileSync` | `mobile/shared/offline/queue.ts`, `mobile/responder/app.ts`, `backend/app/mobile/services/offline.py`, `status.py`, `responder.py`, `api/mobile.py`: phone, network and server. |
| `Simulator` | `backend/app/simulator/`: `engine`, `events`, `services`, `statistics/evaluator.py`: one training session. |
| `Sessions` | `backend/app/database/session.py` and the repositories' way of writing: what every handler has in common. |
| `IncidentService` | `backend/app/incidents/`: one incident card. |
| `ResourceManagement` | `backend/app/resources/`: one unit, its vehicle, crew, people and assignments. |
| `CrisisOperations` | `backend/app/crisis/`: one emergency operation and its situation board. |
| `RuleVersioning` | `backend/app/rules/services/versioning.py`, `engine.py`: one rule, its versions, links and history. |
| `Administration` | `backend/app/admin/`: a setting, an account with roles, an integration, a directory, the audit log. |
| `AIPlatform` | `backend/app/ai/`: requests that ask a provider and audit it. |
| `RuleConditions` | `backend/app/rules/executors/condition_executor.py`: operators and facts. Constant-level. |
| `DispatchEngine` | `backend/app/dispatch/`: the pipeline of a recommendation. |
| `SchemaModels` | The tables of all `models`: references, what a deletion does through them, native types. Constant-level. |
| `SchemaMigrations` | `migrations/versions`, `migrations/env.py`, the start of the server in `docker-compose.yml`. |
| `LookupCaches` | `routing` (providers, route cache), `gis` (geocoding), `search` and `analytics` (caches). |
| `DispatcherSocket` | `web/.../dispatcher-workspace/services/socket.service.ts` and the two screens that use it. |
| `WorkspaceQueries` | The incident detail, the operational log and the registration form of the web workspace. |
| `MC...` | Constants for TLC and, in `MCRequests`, `MCServices`, `MCInfrastructure` and `MCLiveness`, the specification that lets a behaviour exercise one of several components. |
| `Orderings` | Sorting, filtering and summing, as `DispatchEngine` and `CrisisOperations` use them. Constant-level. |
| `CallServiceProofs` | TLAPS proofs about `CallService`: for any pool, and for one connection with the refinement of `CallLifecycle`. |
| `MobileSyncProofs`, `SimulatorProofs` | TLAPS proofs about the module each extends. |
| `IncidentProofs` | Lemmas about `Sessions` that the proofs of every service cite, and TLAPS proofs about `IncidentService`. |
| `DispatchProofs` | TLAPS proofs about `Orderings` and `DispatchEngine`. |
| `ServiceProofs` | TLAPS proofs about `AIPlatform`, `RuleVersioning`, `ResourceManagement`, `Administration`, `CrisisOperations`, and about all services together (`MCServices`). |
| `InfrastructureProofs` | TLAPS proofs about `DispatcherSocket`, `WorkspaceQueries`, `LookupCaches`. |
| `MigrationProofs` | TLAPS proofs about `SchemaMigrations`. |

In every module the operators whose comment says "Mutant" are variants of the
definition that follows them, with a plausible mistake; nothing uses them. Each is
there because it breaks a property, which shows that the property depends on the code
it is about.

### CallService

State: `registered` (calls with a row), `call`, `entry`, `links`, `history`,
`incidents` are the committed tables; `leg` is the provider's in-memory call; `req`
holds every request with the rows it loaded and the values its session will write.

A request goes through `idle -> row -> entry -> loaded -> flushed -> done | failed`:

- `Receive`, `LoadEntry`, `LoadLinks` are the SELECTs of `get_full` (`selectinload`
  issues one statement per relationship, and each sees what is committed at its time);
- one action per handler (`ChangeStatus`, `AssignDispatcher`, `AttachIncident`,
  `AnswerCall`, `ProviderAction`, `EndCall`, `RegisterArtefact`, and `CreateCall`,
  which reads nothing) computes on the copies; `Reject` is every error answer;
- `CommitCreate`, `CommitChange` write at commit, column by column, only what
  changed (`Column`): that is SQLAlchemy's unit of work. `UniqueViolation` and
  `ConnectionLost` roll back; `Restart` rolls everything back and empties the provider.

Abstractions: a timestamp is the request that wrote it (so "the same time" means
"written by the same request"); durations are the pair of stamps they are computed
from; one dispatcher id stands for id, name and workstation; a recording or a
transcript is its history row. After the handler's flush PostgreSQL holds the row
lock until the commit; the model writes at commit, which is the moment other
transactions see it.

### MobileSync

State: `queue` is the phone's queue in local storage (`OfflineQueue`); `flight` the
POST /sync requests from `fetch` to answer, with the batch each carries; `serving` the
request whose batch the server works on; `memo` is `_applied`, `status` the
`ResponderStateStore`. `sent`, `decided` and `applied` are history: what was reported
in which order, what was decided first, and how often each operation took effect.

- Phone: `Report` is `reportStatus` and `sendMessage` (enqueue, then flush), `Retry`
  is `trySync`, `ReceiveAnswer` the rest of `flush` after its `await`: the unsettled
  rest of the batch is saved over whatever the queue is by then. `GiveUp` is a `fetch`
  that fails while the request lives on.
- Network: `Lose` and `Discard` lose a request and an answer that nobody waits for.
- Server: `Start`, `ProcessOne` (apply, refuse or replay one operation) and `Answer`
  are `sync_batch`; `DirectStatus` is PATCH /responder/status; `ServerRestart` forgets
  `memo` and `status` and drops the request that is being served.

`Awaiting` tells two uses of the client apart: the UI waits for a report's flush
before the next report, or it does not (`reportStatus` is async and nothing in the
client serialises its callers). `sync_batch` contains no `await`, so the event loop
runs nothing else while a batch is served: `serving` is that. A batch is still served
in steps because the process can die in the middle.

Abstractions: an operation's payload is the status it reports, a message with a text
or one without (the handler refuses it); notifications and audit rows are left out.

### Simulator

State: `events` and `queue` (the positions still scheduled), `clock` and its flag
`paused`, the world (`status` and `assigned` of a unit, `incident`, `due`), `session`,
and the evaluation `report`. `first` is the one thing the evaluator takes from the
record of commands: the first accepted dispatch of each incident.

- The instructor: `Advance`, `Step`, `Pause`, `Resume`, `Stop`. The first two move the
  clock and start `_process_until`: `ApplyEvent` pops one due event, `Progress`
  resolves and expires incidents and ends the handler (or one turn of `run_to_end`,
  when `iterations` counts). `SettleStep` and `Report` are the two ends of
  `run_to_end`: another step, or the evaluation.
- The trainee: `Dispatch` (`_assign` included: units of an earlier dispatch are
  released) and `Resolve`. A refused command changes nothing but the record.
- `GetSession` is a read that has an effect: it may complete the session.

The handlers are synchronous Python, so a command can only arrive between two of them:
that is `phase`. The loop over the due events is one step per event; no command sees
the states between them.

Abstractions: travel and service time depend on roads, weather and speeds and are
any of `Durations` (`None` for a unit that never arrives); rejected commands, the score
and the text of the report are left out; `set_speed` is not modelled, because only
`tick`, which no API calls, looks at the speed.

### Sessions and the services on it

`session` holds where each request is (`idle -> row -> loaded -> done | failed`), what
it asks for and what it has read. `Begin` takes a connection and reads the first row,
`Load` what the later SELECTs read, and each component's handler is the commit of a
session that has loaded: its guard is the handler's checks on the copies, `Merge` writes
the columns that differ from the copy, and what a constraint refuses is refused against
the committed tables. `Lost` is a broken connection or a dead process. A request of a
set `Requests` runs once. `overlapped` is history: it becomes true when two sessions
have been open at the same time. What a component guarantees is therefore stated in two
groups, "whatever overlaps" and "as long as requests do not overlap" (premise
`~overlapped`); the second group is what concurrency really breaks in this code.

- `IncidentService`: the card's row, its locations, recommendation links, dispatched
  units, comments, audit history and timeline. The row and the collections are read by
  two SELECTs (`Receive`, `LoadCollections`).
- `ResourceManagement`: the unit's status, the resource rows of vehicle and people with
  their status history, crew membership, assignments.
- `CrisisOperations`: operation, headquarters, sectors, one group with its moves, plan,
  journal; `AnswerBoard` is the situation board with its window of the journal. Groups are
  created in and relocated to any sector that exists (`AnySector`): the foreign key does
  not ask whose it is, and `"elsewhere"` stands for those of all other operations.
- `RuleVersioning`: versions, links, history; the order of a flush (INSERT before
  DELETE) and the unique constraints are part of `UpdateRule`; `FindApplicable` is the
  engine.
- `Administration`: setting with versions and history, account, role, permissions,
  configurations, directory entry, audit log; `CheckPermission`'s decisions are kept.
- `AIPlatform`: `ReadTexts`, then `Suggest` or `Explode`: the provider answers or
  fails; only a commit keeps the audit row.

Values are what the properties tell apart: an address or a value is one of two, a
status one of a few on the lifecycle, a version complete or not.

### DispatchEngine and RuleConditions

`RuleConditions` evaluates a condition (type, operator, payload) on a fact that may be
unknown; a number is the pair of its text and its value, because `eq` compares texts and
`gte` values. `DispatchEngine` takes a request through `asked -> found -> fetched ->
capable -> loaded -> done`, one step for each SELECT, with units, statuses and rules
changing in between. `Aggregate`, `Score`, `Select`, `SelectReserve` and the status are
operators in the code's order of steps (`Select` is the greedy loop as a recursive
function over the ranking); the score keeps what it compares, not the
weights' arithmetic. The stored recommendation keeps what was read, so that it can be
judged against the definition of what it should be (`SufficientExactly`,
`ReserveIsNextBest`, `EveryRuleIsMet`). `latest` is what the last GET of the incident's
recommendation showed: its number, and whether it was a preview.

### SchemaModels and SchemaMigrations

A table is its name, its references (with the deletion rule) and its native types; the
models are such a set, a revision is a sequence of statements (create, drop, ensure,
discard, seed, insert) in each direction. A process runs the chain between its
version and a target in one transaction, statement by statement. A statement waits for
another transaction that has touched the same object, is refused if what it needs is not
there (or what it creates is), and a refused run rolls back; an instance that was
refused is restarted by its container, an operator is not.

### LookupCaches

`cached` is one cache, least recently used first, `asked` the requests with the answer
they got: to which question, computed by whom, in which state of the provider, how old.
A question about an address carries the countries it is to be searched in, which go to the
provider and not into the key (`AddressKey`).
Time is `Tick`. A request that misses suspends on its provider, so that answers are
stored in another order than they were computed.

### DispatcherSocket and WorkspaceQueries

The browser's socket closes in two steps (`closing`, then `onclose`), its callbacks
act on `this.ws` whatever it is by then; the timers are the set of those that run. Error
and close of a connection that breaks come in one task. Which screen is shown decides
who connects and disconnects: leaving the workspace disconnects, the management screen
only connects. `WorkspaceQueries` has three independent parts: the detail with optimistic
changes (`Mutate`, `Handle`, `Settle`, fetches that are cancelled and replaced), the log
that is polled and added to by events, and the registration by two POSTs. `Invalidated` is
`invalidateQueries`: it replaces the fetch that runs only if there is data to go back to,
so a first fetch is left to finish (`Kept`) and `outdated` remembers that. A registration
can be confirmed again while a confirmation runs (Ctrl+Enter) or after one has failed;
each `confirmation` runs the two POSTs, and either response may be lost.

## 4. Runs

| Run | Instance | Shows |
|---|---|---|
| `in_turn` | a call: 1 connection, 4 requests of any kind, 2 incidents, 1 restart; or a phone: `Awaiting`, 3 operations, 2 requests under way, 1 restart, direct PATCHes | with one request at a time the call service implements `CallLifecycle`, and keeps queue, dispatcher, talk time and primary link consistent; with one flush at a time phone, network and server implement `OrderedDelivery` and no report is lost |
| `overlapping` | a call: 2 connections, 4 requests of every kind that changes a row, 2 incidents; or a phone: not `Awaiting`, 3 operations, 2 requests under way, 1 restart | closed calls are stamped, waiting time belongs to the answer, links and primary incident agree, no successful attach is lost, status changes are logged; at most once per life of the server, and the order in the queue, hold even then |
| `liveness` | 3 requests on 2 connections; a phone with 2 operations and 2 requests under way; 1 restart; fairness | every request in flight is answered; the queue of a phone drains while answers arrive |
| `sim_exercise` | 2 units, 2 incidents, 16 scenarios, fairness | units and incidents agree, nothing is overdue, settled is final, the report is made and accounts for everything |
| `services` | 3 requests, 2 connections, one of six services; or recommendations for 3 resources of 8 kinds under every set of 4 rules | what holds however requests overlap, and what holds as long as they do not; compositions are sound and complete |
| `infrastructure` | 2 instances and an operator, a crash; every kind of lookup, 2 askers; a tab with 3 sockets, 2 optimistic changes, 2 log entries, 2 confirmations of a registration; fairness | schema and version agree and instances come up; answers are fresh, fit and honest; the channel comes back; what is shown becomes true |
| `calls_lifecycle_race` | 2 connections | "a call can only move along its defined lifecycle" fails with two requests |
| `mobile_lost` | not `Awaiting`, 3 requests under way, no restart | a report made during a flush is erased by it |
| `crisis_foreign_sector` | 2 requests on an operation, no overlap | a board names a sector of another operation, which it does not show |
| `ai_failure_unrecorded` | a text and a call | "Every AI call writes an `ai_audit_log` row" fails when the provider does |
| `socket_two_channels` | 3 sockets, both screens | "one channel per browser tab" fails when a screen connects while the last socket is closing |
| `geocode_countries` | 2 askers of one address in two countries | the cache answers with another country's place |

The runs that end in a violation are about sentences of the repository. They also mark
limits of the passing runs: `crisis_foreign_sector` of `BoardIsClosed`, which is about the
operation's own sectors, `geocode_countries` of `AnswerFitsQuestion`, which leaves the
countries out, and `mobile_lost` and `calls_lifecycle_race` of what holds "in turn". The parts of
`CardIsConsistent`, `ResourcesAgree`, `CommandIsConsistent`, `SettingsAgree`,
`RuleStepsHold` and `AdminStepsHold` that begin with `~overlapped` say what the services
keep while requests do not overlap, and nothing of requests that do: see section 6.

**Properties in parts.** What a component promises is one invariant, and one formula of
steps where it has one; each is a conjunction of named parts that carry their own
comments, such as `CardIsConsistent` of an incident card or `CompositionIsSound` of a
recommendation. TLC checks the whole; the proofs establish the whole where they can, and
say which part is missing where they cannot.

**Several components in one run.** `MCRequests`, `MCServices`, `MCInfrastructure` and
`MCLiveness` have a variable `scope` that is chosen at the start and never changes; the component of
that scope takes its own `Init` and `Next` and all others are at rest in one fixed
state. The states explored are the sum of the components', not the product, and since
the components share no variable but the sessions, which one component uses at a time,
nothing that can happen in one of them is lost. For the same reason `MCRequests` may pair
each swap of two requests or incidents with one of two operations or flights: the symmetry
group is that of each side. Properties of a component at rest hold
there trivially; every property has a mutant of the component it is about.

Bounds. *Calls*: one call is enough, no operation of the service touches two. Four
requests are one to create the call and three to disturb each other; the races found
need two. Two incidents are the least for "which one is primary". *Phones*:
`MaxReboots = 1` makes two lives of the server, which is what "at most once per life"
is about. Three operations make a batch with something before and after the operation
that is refused or lost; two requests under way are an old one and the one whose answer is
saved over the queue. *Simulator*: two units and two incidents are
the least for a reassignment and for a dispatch of both; the scenarios are all the ways
in which one unit breaks down or becomes unavailable and comes back, at once or later,
with the second incident arriving together with the first or during the work on it.
`MaxTime` only stops the playback once everything has happened; `MaxIterations` stands
for the 10 000 turns of `run_to_end` and is reached when a unit never arrives.

*Services*: three requests on two connections are two that overlap and one that comes
before, after or in between; each starts from every stored state of the component's
`Init` (a card in one of three statuses, a crew member that is there, was there or never
was, a rule that is empty or has a version), which replaces the longer histories.
`SomeTargets` is a chain of statuses with a way out of it. `BoardWindow = 2` and
`CriticalShown = 1` stand for 50 and 20, small enough that both cut. The account starts
with one role. *Dispatch*: three resources are one to send, one for the reserve and one
that is left over; the kinds of resources and the contents of rules are chosen so that
each reason to exclude, each comparison of the aggregation and each outcome occurs;
`CandidateLimit = 3` does not cut. When two recommendations overlap (`dispatches`), the
resources and the number of rules are fixed and the first to ask is called `q1`.

One sector of another operation is enough: what matters is that it is not this one's.

*Infrastructure*: two instances are the least that race; `MaxOrders = 1` lets the operator
upgrade or downgrade once, by one revision or to base, which together with the start from
nothing reaches every revision in both directions. Two askers are an older and a newer
answer; `Room = 1` makes every second key an eviction; `Older` saturates an age at the
first value that would violate `AnswersAreFresh`. Two countries are a question's own and
another. Two confirmations are one that is lost half way, or still runs, and the next.
Three sockets are the one that is closing, the one that replaces it and one more. Counters
of the backoff are one bit (there were attempts or not), because only that decides what is
shown.

Fairness. *Calls*: weak fairness of every request's own steps. The event loop
resumes a coroutine whose database answer has arrived; nothing in the service waits for
another request once it holds a connection. Whether clients send requests and whether
connections break is left open. *Phones*: none; the premise, that the phone keeps
receiving answers, is part of the property. *Simulator*: weak fairness of the steps of a
handler that is running, which is synchronous code; no command is ever assumed.
*Migrations*: weak fairness of an instance's start, which its container repeats
(`restart: unless-stopped`), and of the statements of a run that is not blocked. Nothing
is assumed of the operator, and crashes are bounded. *Lookups*: time passes, and a
request whose provider has answered goes on; a provider answers or times out within
`MaxDelay`. *Tab*: the browser fires timers that are due and dispatches the events of
its sockets; that the network stays good and the screen stays shown is a premise of
`ChannelRecovers`. The log is polled by a timer and every poll ends.

Deadlock checking is off where the model ends when its requests or operations are used
up; it is on for the simulator.

## 5. Proofs

All proofs hold for every value of the constants that satisfies the named ASSUMEs of
the module; TLC evaluates those on every run. The assumptions say only what the code's
types and schemas say: `None` is no row, no id and no other value of a column; the bodies
that are tried are bodies the request schemas accept; a rule asks for capabilities that
exist, and a limit is a natural number. The number of requests is finite
(`SessionsAssumption`), because each request of the model runs once. None of them bounds
what runs at the same time.

Every inductive invariant was checked with TLC on the instance of the component's run
before it was proved.

### CallServiceProofs

For every finite set of requests, any set of calls, incidents and dispatchers, any
pool size and any number of restarts (`Calls` is not empty, `None` is none of the other
values).

- `TypeCorrect`: `Spec => []TypeOK`.
- `LinksAlwaysAgree`, `StampsAlwaysAgree` (from `ClosedAlwaysStamped` and
  `WaitAlwaysMatches`), `StatusChangesLogged`: invariants and the action property of
  `overlapping`.

None of the invariants is inductive by itself: what a request commits depends on
what it loaded earlier. `IInv` adds what is true of every request in flight:

- `ChangeSession`: the incident it saw is not taken away and the links it saw are
  still there (both only grow), no stamp it saw is its own; once its handler has run,
  `ChangeOK` relates what it will write to what it loaded (it never clears the
  incident, names one only if it is linked or it adds the link, stamps what it
  closes, logs what it moves);
- `CreateSession` and `CreatesDiffer`: a new call's id is held by one request only;
- `StampsAreDone`: every stamp and history row in the database belongs to a request
  that is over, which is why a request's own stamp is a change and its history row new.

The handlers are brought to one form first (`HandlersHandle`: a handler refuses or
leaves a session that satisfies `ChangeOK`), so the induction has one case per phase
of a request and not one per operation.

The rest of the module goes on from there:

- `AttachStaysDurable` (any pool, whatever overlaps): a successful attach is not lost.
  `AttachSession` adds to `IInv` that a request that flushed its attach has the link among
  those it loaded or those it will write, and that its incident exists: links and
  incidents only grow, so loaded ones are still there at its commit.
- `CallsStayConsistent` and `LifecycleImplemented` (`PoolSize = 1`): the queue entry, the
  dispatcher, the talk time and the primary link follow the call; and `CallService`
  implements `CallLifecycle` under the mapping that reads status and registration from the
  tables. With a larger pool both are false: `calls_lifecycle_race` is the counterexample.

`SerialInv` says why one connection is enough. `Alone`: at most one request is between its
first SELECT and its end. `Current`: therefore what it has read is what is stored, and
once its handler has run, what it will write is `Consistent` and `Moves` the call along
the state machine. That the primary incident is one of the links is `LinksAgree`, which
holds for any pool.

### MobileSyncProofs

For any number of phones, operations, requests under way and restarts.

- `AppliesOncePerLife` (awaited or not): `AppliedPerLife` with `Forgotten`, an operation
  that the running server does not remember was applied by earlier lives only. The proof
  needs nothing about phone or network, which is the point: the guarantee is the server's
  own.
- `MobileTypeCorrect` and `QueueStaysInOrder` (awaited or not): `OrderInv` says of every
  queue and of every batch under way that its entries stand in it as they were reported.
  The batches are needed because the rest of a batch is written over the queue.
- `NothingIsEverLost` and `OrderedDeliveryImplemented` (`Awaiting`): every report is queued
  or decided, and phone, network and server together implement `OrderedDelivery`. Without
  the premise `mobile_lost` is the counterexample.

`DeliveryInv` carries the last two. What the server decided for a unit is a beginning of
what was reported (`DecidedLeads`), each report once (`ReportedOnce`). While a flush is
awaited the queue is the batch that was sent (`OneWaiting`), so saving what is left of the
batch erases nothing. The heart is `NoGap`, a fact about every batch still under way, those
nobody waits for included: what was reported before one of its operations is in the batch
or already decided. An old batch that arrives late can therefore repeat but not overtake.

What is left of a batch is a recursive function (`Unsettled`). The provers cannot do
induction over data; `UnsettledRemains` shows what it computes by a least counterexample,
which needs only that the natural numbers are well-founded (`WFMin`).

### SimulatorProofs

For every fleet, every set of incidents, every scenario that spawns an incident at
most once (`ScenarioAssumption`), any durations and any sequence of commands.

- `TypeCorrect`, `WorldAlwaysAgrees` (from `UnitsAlwaysAgree` and `BusyAlwaysAssigned`),
  `SettledStaysFinal`, `NothingIsEverMissed`.

`IInv` adds two things to the properties: `SpawnsAreFresh` (an incident that is still
to be spawned is not in the world, so a spawn overwrites nothing units work on) and
`PendingHasNone` (a pending incident has no units, so its first dispatch releases
nobody). The heart of the induction is `Assign`: units named again stay, units no
longer named are released, and a unit of another incident cannot be named because
it is not available. `ScenarioAssumption` is needed: two spawns of one id would leave
units busy for good (the code does not check scenario files for it).

`NothingIsEverMissed` adds `MissInv`. `UpToDate`: between two handlers no event that is
due is left and no incident is past its deadline, which holds after `Progress` because it
is the last thing a handler does, and would not hold while events are applied. `Reacted`:
the first dispatch of an incident came in time. `SpawnsAreKnown`: the incidents of the
world are those whose spawn was popped, so a report that counts the world counts the
scenario. `ReportedIsOver`: a report is only made when the session has ended, so
nothing changes under it.

### IncidentProofs

First what every service relies on: a step begins, goes on with or ends one session and
leaves the others alone; and while nothing has overlapped, the session that is open is the
only one. The second is why the invariants of the services can say, under `~overlapped`,
that what a session has read is what is stored: any other writer would have been open too.

Then the incidents: `IncidentTypeCorrect`, `CardAlwaysConsistent` (all of `CardIsConsistent`) and
`ChangesAlwaysAudited`, for any requests, bodies and pool. The latter is about the tracked
columns and the status: each change has its audit row, in the same commit and with the new
value, whatever overlaps; the old value is the card's while nothing does. Dispatches and
the timeline are not part of it.

`IncidentInv` adds to the property what is true of every session that is open.
`SeenIsOld`, whatever overlaps: a card it has read with a closing time still has one, the
card it has read was not closed by itself, and it was stamped if it was closed; so a
commit that writes only what it changed cannot take a stamp away. `SeenIsCurrent`, while
nothing overlaps: the copies are the tables. `MarksAreDone`: stamps, audit rows and
comments belong to requests that are over, so a request's own rows are new. The
audit holds with overlaps because `Merge` writes a column exactly when the handler records
it as changed (`MergeCard`).

### ServiceProofs

- *AI*: `SuggestionsAlwaysSound`. A request that is open has read a text at least as new
  as the newest when it came (`AskedFor`); suggestion and audit row share the commit.
- *Rules*: `VersionsAlwaysAgree`, `RuleStepsAlwaysHold`. Numbers that are
  dense and distinct are stated without cardinality (`Dense`, `Distinct`); a session has
  read a dense set of numbers that still exist (`RuleRead`), so its maximum plus one is
  either new and next, or taken and refused by the constraint. An update that overlaps
  another is thus always refused, not interleaved.
- *Resources*: `ResourcesAlwaysAgree`, `ResourceStepsAlwaysHold`. `UnitRead`: copies of the
  unit, the vehicle and the members are current while nothing overlaps.
- *Administration*: `SettingsAlwaysAgree`, `AdminStepsAlwaysHold`. A setting that a session
  has read exists and is as secret as it was (`AdminRead`, `SettingKept`), so what an old
  copy masks is masked rightly however updates overlap. The steps cover what
  `ChangeIsRecorded` lists: of an integration that it is enabled and its configurations,
  not its provider, which changes without an audit row (section 6), nor the
  status that a health check leaves.
- *Crises*: `CommandAlwaysHolds`, `JournalAlwaysComplete`. `place \in Sectors` implies
  that the sector exists, which `BoardIsClosed` needs (it is about the operation's own
  sectors: a group may stand in another operation's, `crisis_foreign_sector`); an
  operation seen with an end still has one (`CrisisRead`). `BoardsOK` says what an
  answered board is made of, and `EventsShowNewest` of any journal that fits the window
  that the events picked from it, sorted and cut, begin with the newest; what others write
  between the SELECTs of a board cannot change that, so the part holds whatever overlaps.
- *Together*: `ServicesTypeCorrect`, the type invariant of the `services` run. The service
  that runs has the inductive invariant of its own proof, those at rest need their types
  only (`ServicesInv`); `RestingTyped` is that types are about tables alone.

### DispatchProofs

For every finite set of resources, any rows, rules, requests and askers. What is assumed
of the rows is what the columns and schemas say: distances, capabilities and quantities are
numbers, a rule names finitely many categories and capabilities, a condition has its
payload's fields (`DispatchAssumption`).

- `CompositionAlwaysSound`: all of `CompositionIsSound`. A recommendation is called
  sufficient exactly if some composition of the eligible resources is, it then meets every
  rule that applied, each exclusion has its true reason, the reserve is the next best, and
  what is recommended keeps to the dispatcher's limits.
- `DispatchTypeCorrect`: a stored recommendation is whole, with nobody in it twice and
  everybody who was read in the log.
- `LatestNeverReturns`: GET never goes back.

`DispatchInv` says of each request what it has read so far (`Accepted`) and of each stored
recommendation that it was `Made` of a request, of rules and of rows that were read - not
of what is stored now, since units, statuses and rules change between the SELECTs. The
steps are then short, and the work is in lemmas about what `Made` implies, for any
arguments:

- *Orders and sums.* `Sorted` exists and lists each member once, in order (`SortedExists`,
  from a smallest set that would have none; `SortedFacts`); `Picked` shows what is wanted
  and skips the rest; `Total` is a number that grows with its set; a finite set of numbers
  has a least and a greatest.
- *Aggregation.* Each count and need is the greatest of those that the rules state, and
  some rule states it (`CountsOfRules`, `NeedsOfRules`): that is why a composition that
  meets the aggregate meets every rule.
- *Selection.* `Chosen` is the invariant of the greedy loop: after n of the ranking, each of
  them who provides a mandatory capability is in, or it lacks no more. `GreedyIsComplete`:
  so if the greedy composition lacks a capability, all who provide it are in it, and no
  composition has more.
- *Conditions.* `ComparesByOperator` and `ConditionDecides`: an operator and its
  negation never agree on a fact that is known, nothing holds of one that is not, and
  `between` is both of its limits, for every payload and fact.

`LatestNeverReturns` needs that numbers have a bound (`NewestIsNewest`): requests that were
accepted are finitely many, and what was shown last is still stored.

### InfrastructureProofs

- `ChannelIsAlwaysOwned`: for any number of sockets. `SocketInv` holds between two calls of
  the service: once it is closed it has no socket (`AtRest`), and, as long as the workspace
  alone uses it, only its own socket is heard and a reconnection is due only when there is
  none (`Owned`). The handlers are steps of one record (`Service`), so each of `connect`,
  `disconnect` and the callbacks is shown once to keep the parts, and tasks that call
  several of them compose. `socket_two_channels` is what happens when a second screen
  breaks the premise of `Owned`.
- `ViewAlwaysAgrees`: for any number of optimistic changes, fetches, events and
  confirmations of a registration. A fetch that has been read at the server is true unless
  a notice is on its way, one was missed or kept from replacing it, or a change has not
  settled (`DetailInv`): the theorem leaves out exactly a fetch that failed, an event that
  was lost and a first fetch that was kept. A confirmation has one
  incident at most, and its `created` is that one (`FormInv`).
- `CacheAlwaysSound`: for every lookup, any questions, askers, life, room and delay. An
  answer fits its question in everything but the countries (`geocode_countries`).
  `EntrySound`: an entry stands under the key of the question it answers, and its age and
  what remains of its life add up to at most `Life + MaxDelay`. Ages and lives move in
  opposite directions with time, which is why `AnswersAreFresh` alone is not inductive.

### MigrationProofs

- `SchemaAlwaysSound`: all of `SchemaIsSound`, for any number of instances, orders and
  crashes. Two runs of the chain may both begin from the same version, an instance may
  upgrade while the operator goes down, and each sees what others commit between two of its
  statements; still nobody commits half a schema or the schema of another version.

`MigrationInv` says what the committed version v is (`Committed`: one row in
`alembic_version`, exactly the objects that v stands for), that no object is held by two
transactions (`Apart`), and of each run which began at b how it stands to v:

- an upgrade is `Trying` while it has not stamped: the tables of its first revision are its
  own, whatever is committed meanwhile, so at most one run comes to the end of that
  revision. Then it is `Sure`: it holds `alembic_version`, the version is the b it began
  at and stays it, and it has made exactly what lies between. The one exception is a first
  upgrade of an empty database, whose stamp is an INSERT that another version's row does
  not refuse: it is `Doomed`, the next table that it creates is there;
- a downgrade is `Falling`: it holds the first table of every revision that it undoes, so
  nobody else passes that revision; once it has stamped v is b.

A commit is only made by a run that is `Sure` or has stamped downwards, so it leaves the
version that its statements made; and a run that has not touched `alembic_version` outlives
another's commit (`RestKeeps`, `OtherStays`). `AloneIsAlone` gives the third part: who is
alone has v = b and sees exactly what its script was written for.

The proof knows of the scripts only what `ChainAssumption` says: each statement makes what
is not there out of what is, a downgrade takes away all that its upgrade brought and what
nothing else needs, a table first, and what stands at head is what the models have. No
constant enters it; it is a computation on the chain as written, which TLC does whenever it
runs `infrastructure`. A revision that cannot be applied or that leaves the models' schema
is found there; what the theorem adds is that no concurrency, crash or restart leaves it.

### Only model-checked

- All liveness (`RequestsFinish`, `QueueDrains`, `StopReports`, `InstancesComeUp`,
  `RecoveryIsSeen`, `LogCatchesUp`, `ChannelRecovers`): it rests on fairness and ENABLED,
  which the prover does not do.
- `CallIsConsistent` and the refinement of `CallLifecycle` for more than one connection,
  `NothingLost` and `OrderedDelivery` when flushes are not awaited: they are false there.

## 6. Not modelled, and other observations

See `components` in PROJECT.json for the reason of each part. Within the call module:
listings and filters, the elapsed-time arithmetic, participants, and the texts of
history rows. Within mobile: sessions and devices, notes, notifications. Within the
simulator: generators, storage, roads, weather and the score. Of the other services:
listings, exports, texts; of administration, the creation of accounts, roles and
integrations; of the schema, columns, indexes and constraints other than references; of
the web, rendering, the map and authentication.

What the models contradict in the repository. Where a run states it, its name is given;
for the others no run does, because they are short to see or because another run shows the
same cause:

*Calls and phones*
- Two attaches that load the call at the same time both make their link the primary one
  (`incident_linker.py:101`; `calls/models/entities.py:326-327` calls one "the primary").
- A replayed operation is applied again after a restart of the server
  (`mobile/services/offline.py:44`; lines 5-6 promise at most once).
- `assign_dispatcher` writes the queue entry of a call that is already closed
  (`call_service.py:237`; `call_repository.py:21` calls such entries "waiting to be
  handled").
- `end_call` ends the leg of a call that was never accepted and leaves the call open
  (`call_service.py:341`; its docstring says "complete the call").
- A call completed out of `error` without an answer leaves the queue as done, not
  as abandoned (`call_service.py:450`; `docs/calls.md:115`).
- Assigning, answering and attaching record the new status but not the old one
  (`call_service.py:245`; `docs/calls.md:93`).
- A unit that has completed cannot be assigned again (`mobile/services/status.py:29`;
  the comment at line 22 says it may).

*Simulator*
- Stopping plays the events that were still to come before it scores
  (`simulator/services/service.py:123`; the comment at line 122).
- A session that is stopped early ends as completed (`simulator/services/service.py:123`;
  `engine/enums.py:28`).
- Advancing a session that was paused at the start processes the events at time
  zero (`engine/engine.py:59`; `engine/clock.py:55`).
- A unit named twice in one dispatch counts twice in the evaluation
  (`statistics/evaluator.py:68`; `docs/simulator.md:137`).

*Services*
- What the parts that begin with `~overlapped` exclude does happen. Overlapping requests
  move an incident along an edge its lifecycle lacks (`incident_service.py:191`;
  `incidents/validators/state_machine.py:3-5`), and separate the primary location from the
  card (`incident_service.py:391`; `docs/incidents.md:35`), a vehicle from its unit
  (`resource_management_service.py:179`; `docs/resources.md:137-139`) and a group's moves
  from its place (`crisis/services/resources.py:128`). They leave two current
  recommendations or two primary locations; the answer to a new comment may be another
  dispatcher's (`incidents/api/incidents.py:148`).
- A mass update of statuses records no old status (`resource_management_service.py:244`;
  `docs/resources.md:121-123`). A person who left a crew cannot join it again: the row is
  marked deleted and the unique constraint still sees it.
- A group can be created in, or relocated to, a sector of another operation, and the board
  of its own then names a sector that it does not show (`crisis/services/resources.py:52`;
  `crisis_foreign_sector`).
- The situation board takes its critical events from the oldest 50 entries of the
  journal (`crisis/services/journal.py:52`; `board.py:101` says "most recent first").
  `ended_at` stays when an operation is reopened. A stage's status is changed without a
  journal entry.
- A PUT of a rule that keeps one of its links fails: the new row is inserted before the
  old one is deleted (`versioning.py:209-219`). The code of a deleted rule cannot be used
  again. `effective_from` and `effective_to` are stored and never read.
- Changing the provider of an integration (`integration_service.py:124`;
  `docs/admin.md:119`) and the status a health check leaves are not audited. Two updates
  of a setting that overlap get the same version (`settings_service.py:103`;
  `docs/admin.md:73-75`). `has_permission` asks neither whether the user is active nor
  whether the role is deleted.
- A text with an unknown `call_id` or `incident_id` gets no answer although the provider
  gave one: the audit row's reference fails (`ai/services/base.py:83`).
  `register_transcript` stores no text, so the notes are analysed.

*Dispatch*
- Without an applicable rule the recommendation is `no_resources` although resources are
  available. The minimum of a rule is compared with the total, not per category. An
  insufficient composition may carry a high confidence (`builder.py:131-163`). The engine
  sets neither priority, capabilities nor the availability of resources as facts, so
  conditions on them never apply. `eq` compares texts: 7.0 is not 7.

*Lookups*
- `проспект Ленина 15` and `улица Ленина 15` have one canonical form, and the second is
  answered with the first one's coordinates for a day, under its own name
  (`geocoding.py:102-104`; `docs/gis.md:67-69` means the form for one address written in
  several ways). The key leaves out `country_codes`
  (`geocode_countries`).
- `gis/cache/memory.py:4` says FIFO; what is evicted is the least recently used.
- A search whose address is not found drops its radius and answers with everything
  (`search_service.py:157`).

*Migrations and web*
- A run of several migrations is one transaction (`env.py:81`; `docs/production/migrations.md:63`
  says that each runs in one). Of two instances that start at once the second is refused and
  comes up only because its container restarts it.
- The backend has no endpoint for the workspace's WebSocket; the module models the
  client against any server. A lost answer to POST /incidents and another confirmation,
  or Ctrl+Enter while the first still runs, make two incidents
  (`useRegistrationActions.ts:77`). An event during the first fetch of a detail is forgotten, and
  what that fetch read before it stays on the screen (`useDispatcherSocket.ts:41`): `outdated`
  has `kept` then, and `SettledViewIsTrue` says nothing. The rollback of an optimistic change may
  show a status the server never had until the detail is fetched again.
