-------------------------- MODULE WorkspaceQueries --------------------------
(***************************************************************************)
(* What a dispatcher's tab shows of the server: an incident's detail with    *)
(* optimistic changes of its status, the operational log that is polled and   *)
(* added to by events, and the registration of an incident in two requests.   *)
(* The tab's callbacks interleave with requests, responses and events, any    *)
(* of which the network may lose.  TanStack Query runs one fetch of a query    *)
(* at a time; invalidating the query replaces the fetch that runs if there is   *)
(* data to show meanwhile, and leaves the first fetch to finish.                *)
(***************************************************************************)
EXTENDS Naturals, Sequences, SequencesExt, FiniteSets

CONSTANTS
  Mutations,    \* the dispatcher's changes of the status
  Statuses,
  Crew,         \* the units chosen for a new incident
  Missing,      \* no value
  MaxOthers,    \* bound: changes by others
  MaxEntries,   \* bound: entries of the operational log
  MaxTries      \* bound: confirmations of the registration

VARIABLES
  truth,        \* the incident's status on the server
  shown,        \* the cached detail
  fetch,        \* the detail's fetch: idle, asked, or what it has read
  mutation,     \* mutation -> its progress
  notices,      \* events about the incident on their way
  outdated,     \* why the detail may be outdated: an event was "missed", a fetch
                \* "failed", or a first fetch that had read was "kept"
  others,
  logged,      \* the length of the server's log: its ids are 1..logged
  log,          \* the cached log, newest first
  poll,         \* the log's fetch
  news,         \* log.appended events on their way
  form,         \* the registration's page: "open", or "left"
  confirmations, \* of the registration: how far each is, the incident it created
  incidents     \* on the server: the units, and history: which confirmation's

detailVars == <<truth, shown, fetch, mutation, notices, outdated, others>>
logVars == <<logged, log, poll, news>>
formVars == <<form, confirmations, incidents>>
queryVars == <<detailVars, logVars, formVars>>

NoFetch == [phase |-> "idle"]
Fetch   == [phase |-> "asked"]
Read(v) == [phase |-> "read", value |-> v]
Unsent  == [phase |-> "new"]

DetailAtRest ==
  /\ truth = CHOOSE s \in Statuses : TRUE
  /\ shown = Missing /\ fetch = NoFetch /\ notices = 0 /\ outdated = {} /\ others = 0
  /\ mutation = [m \in Mutations |-> Unsent]
LogAtRest == logged = 0 /\ log = << >> /\ poll = NoFetch /\ news = << >>
FormAtRest == form = "open" /\ confirmations = << >> /\ incidents = << >>

---------------------------------------------------------------------------
(* The incident's detail. *)

(* Mutant: a fetch that runs already is left to finish, also of data that is shown. *)
InvalidatedIdle(f, data) == IF f = NoFetch THEN Fetch ELSE f
(* invalidateQueries: cancelRefetch needs data that the query goes back to. *)
Invalidated(f, data) == IF f = NoFetch \/ data # Missing THEN Fetch ELSE f

(* The first fetch brings what it read before, and counts as valid again. *)
Kept(f, data) == IF f.phase = "read" /\ data = Missing THEN {"kept"} ELSE {}

(* onMutate: the fetch is cancelled, the cached detail patched. *)
Mutate(m, status) ==
  /\ mutation[m] = Unsent
  /\ fetch' = NoFetch
  /\ shown' = IF shown = Missing THEN Missing ELSE status
  /\ mutation' = [mutation EXCEPT ![m] = [phase |-> "sent", status |-> status, previous |-> shown]]
  /\ UNCHANGED <<truth, notices, outdated, others>>

(* The server changes the status or refuses; the response may be lost. *)
Handle(m) ==
  /\ mutation[m].phase = "sent"
  /\ \E done, heard \in BOOLEAN :
       /\ truth' = IF done THEN mutation[m].status ELSE truth
       /\ notices' = IF done THEN notices + 1 ELSE notices
       /\ mutation' = [mutation EXCEPT ![m].phase = IF done /\ heard THEN "done" ELSE "failed"]
  /\ UNCHANGED <<shown, fetch, outdated, others>>

Settling == {"done", "failed"}

(* onError puts back what was there before; onSettled invalidates. *)
Settle(m) ==
  /\ mutation[m].phase \in {"done", "failed"}
  /\ shown' = IF mutation[m].phase = "failed" /\ mutation[m].previous # Missing
              THEN mutation[m].previous ELSE shown
  /\ fetch' = IF mutation[m].phase \in Settling THEN Invalidated(fetch, shown) ELSE fetch
  /\ outdated' = outdated \cup Kept(fetch, shown)
  /\ mutation' = [mutation EXCEPT ![m] = [phase |-> "settled"]]
  /\ UNCHANGED <<truth, notices, others>>

(* The panel opens, and the query has nothing fresh. *)
Open ==
  /\ fetch = NoFetch /\ (shown = Missing \/ outdated # {})
  /\ fetch' = Fetch
  /\ UNCHANGED <<truth, shown, mutation, notices, outdated, others>>

ReadDetail ==
  /\ fetch = Fetch
  /\ fetch' = Read(truth)
  /\ outdated' = outdated \ {"missed", "kept"}
  /\ UNCHANGED <<truth, shown, mutation, notices, others>>

ReceiveDetail ==
  /\ fetch.phase = "read"
  /\ shown' = fetch.value /\ fetch' = NoFetch
  /\ outdated' = outdated \ {"failed"}
  /\ UNCHANGED <<truth, mutation, notices, others>>

(* After the client's two retries and the query's one. *)
FailDetail ==
  /\ fetch # NoFetch
  /\ fetch' = NoFetch /\ outdated' = outdated \cup {"failed"}
  /\ UNCHANGED <<truth, shown, mutation, notices, others>>

ChangedByOther(status) ==
  /\ others < MaxOthers /\ status # truth
  /\ truth' = status /\ notices' = notices + 1 /\ others' = others + 1
  /\ UNCHANGED <<shown, fetch, mutation, outdated>>

(* incident.status_changed arrives, or was sent while the channel was down. *)
Notice ==
  /\ notices > 0
  /\ notices' = notices - 1
  /\ \/ /\ fetch' = IF shown = Missing /\ fetch = NoFetch THEN NoFetch
                     ELSE Invalidated(fetch, shown)
        /\ outdated' = outdated \cup Kept(fetch, shown)
     \/ outdated' = outdated \cup {"missed"} /\ UNCHANGED fetch
  /\ UNCHANGED <<truth, shown, mutation, others>>

DetailNext ==
  \/ \E m \in Mutations : (\E s \in Statuses : Mutate(m, s)) \/ Handle(m) \/ Settle(m)
  \/ Open \/ ReadDetail \/ ReceiveDetail \/ FailDetail \/ Notice
  \/ \E s \in Statuses : ChangedByOther(s)

---------------------------------------------------------------------------
(* The operational log. *)

Newest(n) == Reverse([i \in 1..n |-> i])

AppendEntry ==
  /\ logged < MaxEntries
  /\ logged' = logged + 1
  /\ news' = Append(news, logged + 1)
  /\ UNCHANGED <<log, poll>>

(* log.appended goes on top of what is cached, or is lost. *)
ReceiveNews ==
  /\ news # << >>
  /\ news' = Tail(news)
  /\ log' \in {log, <<news[1]>> \o log}
  /\ UNCHANGED <<logged, poll>>

(* refetchInterval, whether the channel is up or not. *)
PollDue == poll = NoFetch

StartPoll ==
  /\ PollDue
  /\ poll' = Fetch
  /\ UNCHANGED <<logged, log, news>>

ReadLog ==
  /\ poll = Fetch
  /\ poll' = Read(Newest(logged))
  /\ UNCHANGED <<logged, log, news>>

ReceiveLog ==
  /\ poll.phase = "read"
  /\ log' = poll.value /\ poll' = NoFetch
  /\ UNCHANGED <<logged, news>>

LogNext == AppendEntry \/ ReceiveNews \/ StartPoll \/ ReadLog \/ ReceiveLog

(* The timer polls, the server answers, and the tab runs its callbacks. *)
LogFairness == WF_logVars(ReceiveNews) /\ WF_logVars(StartPoll \/ ReadLog \/ ReceiveLog)

---------------------------------------------------------------------------
(* The registration: POST /incidents, then POST /incidents/{id}/units, neither  *)
(* of which the client retries.                                                 *)

(* The button of the dialog is disabled while a confirmation runs; Ctrl+Enter is *)
(* not.  A confirmation that failed leaves the page open for the next.            *)
Confirm ==
  /\ form = "open" /\ Len(confirmations) < MaxTries
  /\ confirmations' = Append(confirmations, [phase |-> "creating", created |-> Missing])
  /\ UNCHANGED <<form, incidents>>

(* The server creates the incident or does not; the response may be lost. *)
Create(k) ==
  /\ confirmations[k].phase = "creating"
  /\ \E done, heard \in BOOLEAN :
       /\ incidents' = IF done THEN Append(incidents, [by |-> k, units |-> {}]) ELSE incidents
       /\ confirmations' = [confirmations EXCEPT ![k] =
              IF done /\ heard THEN [phase |-> "assigning", created |-> Len(incidents) + 1]
              ELSE [phase |-> "failed", created |-> Missing]]
  /\ UNCHANGED form

Acknowledged(done, heard) == done /\ heard

(* The dispatcher is told, and sent to the dashboard, when both are answered. *)
Assign(k) ==
  /\ confirmations[k].phase = "assigning"
  /\ \E done, heard \in BOOLEAN :
       LET told == Acknowledged(done, heard) IN
       /\ incidents' = IF done THEN [incidents EXCEPT ![confirmations[k].created].units = Crew]
                       ELSE incidents
       /\ confirmations' = [confirmations EXCEPT ![k].phase = IF told THEN "told" ELSE "failed"]
       /\ form' = IF told THEN "left" ELSE form

FormNext == Confirm \/ \E k \in DOMAIN confirmations : Create(k) \/ Assign(k)

---------------------------------------------------------------------------
QueryNext ==
  \/ DetailNext /\ UNCHANGED <<logVars, formVars>>
  \/ LogNext /\ UNCHANGED <<detailVars, formVars>>
  \/ FormNext /\ UNCHANGED <<detailVars, logVars>>

QuerySpec == DetailAtRest /\ LogAtRest /\ FormAtRest /\ [][QueryNext]_queryVars

---------------------------------------------------------------------------
(* Properties. *)

(* Nothing is on its way between the tab and the server, and a detail is shown. *)
NothingPending ==
  /\ \A m \in Mutations : mutation[m].phase \in {"new", "settled"}
  /\ fetch = NoFetch /\ notices = 0 /\ shown # Missing

(* When everything the dispatcher started has settled, the detail that is shown  *)
(* is the server's, whatever optimistic changes, their rollbacks, fetches and     *)
(* changes by others overlapped; unless the last fetch failed, an event was lost  *)
(* or the first fetch was kept, which nothing but opening it again repairs.       *)
SettledViewIsTrue == NothingPending /\ outdated = {} => shown = truth

(* Events put logged into the log twice, and a poll that overtakes an event       *)
(* takes it out again; the log that is shown still becomes the server's.            *)
LogCatchesUp == <>[](log = Newest(logged))

(* However many confirmations overlap or fail half way, each registers one         *)
(* incident at most, and what the dispatcher is told is registered has all the      *)
(* units that were chosen, not those of another confirmation's incident.             *)
ToldIsRegistered ==
  \A k \in DOMAIN confirmations :
    LET mine == {i \in DOMAIN incidents : incidents[i].by = k} IN
    /\ \A i, j \in mine : i = j
    /\ confirmations[k].phase = "told" => \E i \in mine : incidents[i].units = Crew

(* What the workspace shows or claims when it is at rest is what the server has. *)
ViewAgrees == SettledViewIsTrue /\ ToldIsRegistered
=============================================================================
