----------------------------- MODULE MobileSync -----------------------------
(* Offline synchronisation of the responder app. The app appends every field  *)
(* action to a queue in local storage and posts the whole queue to /sync; the *)
(* server, whose state is all in memory, applies an operation unless it        *)
(* remembers its id, and answers per operation; the app drops what is settled. *)
(* The network loses and delays requests and answers, and the server restarts. *)
EXTENDS Naturals, Sequences

CONSTANTS
  Units,        \* field units, one phone each
  Ops,          \* operation ids (makeOpId never repeats one)
  Payloads,     \* what an operation may ask for: a status, "text" or "blank"
  Flights,      \* bound: POST /sync requests under way at a time
  Patched,      \* the statuses that clients also set directly, by PATCH
  Awaiting,     \* TRUE: the UI awaits reportStatus/sendMessage before the next
  MaxReboots,   \* bound: server restarts
  Nothing

FieldStatuses == {"assigned", "en_route", "on_scene", "working", "returning", "completed"}

ASSUME PayloadsAssumption == Payloads \subseteq FieldStatuses \cup {"text", "blank"}
ASSUME PatchedAssumption == Patched \subseteq FieldStatuses
ASSUME MobileAssumption == /\ Awaiting \in BOOLEAN
                           /\ MaxReboots \in Nat
                           /\ Nothing \notin Flights \cup Payloads

FieldTransitions ==
  [s \in FieldStatuses |->
     CASE s = "assigned"  -> {"en_route"}
       [] s = "en_route"  -> {"on_scene", "returning"}
       [] s = "on_scene"  -> {"working", "returning"}
       [] s = "working"   -> {"returning", "completed"}
       [] s = "returning" -> {"completed"}
       [] s = "completed" -> {}]

VARIABLES
  queue,    \* queue[u]: the phone's persisted outbound queue
  flight,   \* flight[f]: a POST /sync request, from the fetch to its answer
  serving,  \* the flight whose batch the server is in, or Nothing
  memo,     \* memo[op]: the outcome the server remembers (_applied)
  status,   \* status[u]: the server's ResponderStateStore
  what,     \* what[op]: the payload of op, Nothing until it is reported
  applied,  \* history: how often op took effect, over all server lives
  sent,     \* history: the operations of u in the order they were reported
  decided,  \* history: those of u in the order they were first decided
  reboots

phone   == <<queue, what, sent>>
server  == <<memo, status, applied, decided>>
syncVars == <<phone, server, flight, serving, reboots>>

NoFlight == [at |-> "idle", unit |-> Nothing, batch |-> <<>>, done |-> 0,
             settled |-> {}, waiting |-> FALSE]

Outcomes == {"none", "applied", "refused"}

SyncInit ==
  /\ queue = [u \in Units |-> <<>>]
  /\ what = [op \in Ops |-> Nothing]
  /\ sent = [u \in Units |-> <<>>]
  /\ flight = [f \in Flights |-> NoFlight]
  /\ serving = Nothing
  /\ memo = [op \in Ops |-> "none"]
  /\ status = [u \in Units |-> "assigned"]
  /\ applied = [op \in Ops |-> 0]
  /\ decided = [u \in Units |-> <<>>]
  /\ reboots = 0

Elements(s) == {s[i] : i \in DOMAIN s}

-----------------------------------------------------------------------------
(* The phone. *)

\* The UI may act: nothing holds it back but its own awaiting of a flush.
MayAct(u) == Awaiting => \A f \in Flights : flight[f].waiting => flight[f].unit # u

\* Mutant: the newest operation goes first.
EnqueueFirst(q, op) == <<op>> \o q
Enqueue(q, op) == Append(q, op)

\* flush: the batch is the whole queue as it is when the request is made.
Send(u, f, batch) ==
  /\ flight[f].at = "idle"
  /\ flight' = [flight EXCEPT ![f] = [NoFlight EXCEPT !.at = "sent", !.unit = u,
                                        !.batch = batch, !.waiting = TRUE]]

\* reportStatus and sendMessage: queue the operation and start a flush.
Report(u, op, p, f) ==
  /\ MayAct(u)
  /\ what[op] = Nothing
  /\ what' = [what EXCEPT ![op] = p]
  /\ sent' = [sent EXCEPT ![u] = Append(@, op)]
  /\ queue' = [queue EXCEPT ![u] = Enqueue(@, op)]
  /\ Send(u, f, Enqueue(queue[u], op))
  /\ UNCHANGED <<server, serving, reboots>>

\* trySync on reconnect.
Retry(u, f) ==
  /\ MayAct(u)
  /\ queue[u] # <<>>
  /\ Send(u, f, queue[u])
  /\ UNCHANGED <<phone, server, serving, reboots>>

\* What is left of the batch once the settled operations are dropped.
Unsettled(batch, settled) ==
  LET left[n \in 0 .. Len(batch)] ==  \* of the first n operations
        IF n = 0 THEN <<>>
        ELSE IF batch[n] \in settled THEN left[n - 1] ELSE Append(left[n - 1], batch[n])
  IN left[Len(batch)]

\* Mutants: an answer nobody waits for is taken too; the rest of the batch is added
\* to the queue instead of replacing it.
ReceiveAnyAnswer(f) ==
  /\ flight[f].at = "answered"
  /\ queue' = [queue EXCEPT ![flight[f].unit] = Unsettled(flight[f].batch, flight[f].settled)]
  /\ flight' = [flight EXCEPT ![f] = NoFlight]
  /\ UNCHANGED <<what, sent, server, serving, reboots>>

ReceiveAnswerMerging(f) ==
  /\ flight[f].at = "answered"
  /\ flight[f].waiting
  /\ queue' = [queue EXCEPT ![flight[f].unit] =
                 Unsettled(@ \o flight[f].batch, flight[f].settled)]
  /\ flight' = [flight EXCEPT ![f] = NoFlight]
  /\ UNCHANGED <<what, sent, server, serving, reboots>>

\* The answer arrives while flush awaits it: the rest of the batch is saved over
\* whatever the queue has become since.
ReceiveAnswer(f) ==
  /\ flight[f].at = "answered"
  /\ flight[f].waiting
  /\ queue' = [queue EXCEPT ![flight[f].unit] = Unsettled(flight[f].batch, flight[f].settled)]
  /\ flight' = [flight EXCEPT ![f] = NoFlight]
  /\ UNCHANGED <<what, sent, server, serving, reboots>>

\* The fetch fails on the phone, or the app is killed, while the request lives on.
GiveUp(f) ==
  /\ flight[f].waiting
  /\ flight' = [flight EXCEPT ![f].waiting = FALSE]
  /\ UNCHANGED <<phone, server, serving, reboots>>

-----------------------------------------------------------------------------
(* The network. *)

\* Mutant: a request is dropped while it is being served.
LoseServed(f) ==
  /\ flight[f].at = "sent"
  /\ flight' = [flight EXCEPT ![f] = NoFlight]
  /\ UNCHANGED <<phone, server, serving, reboots>>

\* A request that does not reach the server, or is refused by it as a whole.
Lose(f) ==
  /\ flight[f].at = "sent"
  /\ serving # f
  /\ flight' = [flight EXCEPT ![f] = NoFlight]
  /\ UNCHANGED <<phone, server, serving, reboots>>

\* An answer that nobody waits for.
Discard(f) ==
  /\ flight[f].at = "answered"
  /\ ~flight[f].waiting
  /\ flight' = [flight EXCEPT ![f] = NoFlight]
  /\ UNCHANGED <<phone, server, serving, reboots>>

-----------------------------------------------------------------------------
(* The server. sync_batch never awaits, so no other handler runs while a      *)
(* batch is served: serving is a lock on everything but a restart.            *)

Known(op) == memo[op] # "none"

CanMove(s, t) == t \in FieldTransitions[s]

\* The handlers: a status must be a legal transition, a message must have a text.
Acceptable(u, p) == IF p \in FieldStatuses THEN CanMove(status[u], p) ELSE p = "text"

\* Mutants: room for one outcome only; errors are not remembered.
RememberLast(op, outcome) == memo' = [x \in Ops |-> IF x = op THEN outcome ELSE "none"]
RememberApplied(op, outcome) ==
  memo' = [memo EXCEPT ![op] = IF outcome = "applied" THEN outcome ELSE "none"]

Remember(op, outcome) == memo' = [memo EXCEPT ![op] = outcome]

Note(u, op) ==
  decided' = [decided EXCEPT ![u] = IF op \in Elements(@) THEN @ ELSE Append(@, op)]

Start(f) ==
  /\ serving = Nothing
  /\ flight[f].at = "sent"
  /\ serving' = f
  /\ UNCHANGED <<phone, server, flight, reboots>>

\* Apply: the handler returned.
Apply(u, op) ==
  /\ ~Known(op)
  /\ Acceptable(u, what[op])
  /\ status' = [status EXCEPT ![u] = IF what[op] \in FieldStatuses THEN what[op] ELSE @]
  /\ applied' = [applied EXCEPT ![op] = @ + 1]
  /\ Remember(op, "applied")
  /\ Note(u, op)

\* Refuse: the handler raised. The outcome is remembered all the same.
Refuse(u, op) ==
  /\ ~Known(op)
  /\ ~Acceptable(u, what[op])
  /\ Remember(op, "refused")
  /\ Note(u, op)
  /\ UNCHANGED <<status, applied>>

Replay(op) == Known(op) /\ UNCHANGED server

\* The phone drops what was applied and what is a duplicate.
Settles(op) == Known(op) \/ memo'[op] = "applied"

ProcessOne(f) ==
  /\ serving = f
  /\ flight[f].done < Len(flight[f].batch)
  /\ LET u  == flight[f].unit
         op == flight[f].batch[flight[f].done + 1]
     IN  /\ Apply(u, op) \/ Refuse(u, op) \/ Replay(op)
         /\ flight' = [flight EXCEPT
              ![f].done = @ + 1,
              ![f].settled = IF Settles(op) THEN @ \cup {op} ELSE @]
  /\ UNCHANGED <<phone, serving, reboots>>

Answer(f) ==
  /\ serving = f
  /\ flight[f].done = Len(flight[f].batch)
  /\ serving' = Nothing
  /\ flight' = [flight EXCEPT ![f].at = "answered"]
  /\ UNCHANGED <<phone, server, reboots>>

\* PATCH /responder/status: a transition that does not come through the queue.
DirectStatus(u, t) ==
  /\ serving = Nothing
  /\ CanMove(status[u], t)
  /\ status' = [status EXCEPT ![u] = t]
  /\ UNCHANGED <<phone, memo, applied, decided, flight, serving, reboots>>

\* The platform lives in the process: a restart forgets outcomes and statuses,
\* and the request it was serving is never answered.
ServerRestart ==
  /\ reboots < MaxReboots
  /\ reboots' = reboots + 1
  /\ memo' = [op \in Ops |-> "none"]
  /\ status' = [u \in Units |-> "assigned"]
  /\ serving' = Nothing
  /\ flight' = [f \in Flights |-> IF f = serving THEN NoFlight ELSE flight[f]]
  /\ UNCHANGED <<phone, applied, decided>>

-----------------------------------------------------------------------------
SyncNext ==
  \/ \E u \in Units, f \in Flights :
       Retry(u, f) \/ \E op \in Ops, p \in Payloads : Report(u, op, p, f)
  \/ \E f \in Flights :
       \/ ReceiveAnswer(f) \/ GiveUp(f) \/ Lose(f) \/ Discard(f)
       \/ Start(f) \/ ProcessOne(f) \/ Answer(f)
  \/ \E u \in Units, t \in Patched : DirectStatus(u, t)
  \/ ServerRestart

SyncSpec == SyncInit /\ [][SyncNext]_syncVars

-----------------------------------------------------------------------------
(* Properties. *)

FlightRows == [at: {"idle", "sent", "answered"}, unit: Units \cup {Nothing}, batch: Seq(Ops),
               done: Nat, settled: SUBSET Ops, waiting: BOOLEAN]

\* Every part of the phone, the network and the server has its declared shape,
\* and only a request that was sent is served.
SyncTypeOK ==
  /\ queue \in [Units -> Seq(Ops)]
  /\ what \in [Ops -> Payloads \cup {Nothing}]
  /\ sent \in [Units -> Seq(Ops)]
  /\ flight \in [Flights -> FlightRows]
  /\ serving \in Flights \cup {Nothing}
  /\ serving # Nothing => flight[serving].at = "sent"
  /\ memo \in [Ops -> Outcomes]
  /\ status \in [Units -> FieldStatuses]
  /\ applied \in [Ops -> Nat]
  /\ decided \in [Units -> Seq(Ops)]
  /\ reboots \in 0..MaxReboots

\* However often an operation is sent, over lost answers, retries and overlapping
\* flushes, one life of the server applies it at most once.
AppliedPerLife == \A op \in Ops : applied[op] <= reboots + 1

\* A reported action is never lost on the phone: it is in the queue until the
\* server has decided it, whatever requests and answers are lost or late.
NothingLost ==
  \A u \in Units : \A i \in DOMAIN sent[u] :
    sent[u][i] \in Elements(queue[u]) \cup Elements(decided[u])

\* Whatever is saved over the queue, in the queue the operations stand in the order
\* in which they were reported, without repetition.
QueueInOrder ==
  \A u \in Units : \A i, j \in DOMAIN queue[u] :
    i < j => \E k, l \in DOMAIN sent[u] :
               k < l /\ sent[u][k] = queue[u][i] /\ sent[u][l] = queue[u][j]

\* The abstract specification: operations are decided in the order of reporting.
Delivery == INSTANCE OrderedDelivery
ImplementsOrderedDelivery == Delivery!Spec

\* As long as answers keep arriving, no operation stays in the queue forever: what
\* is refused once is a duplicate the next time. The premise stands for a network
\* that is back and an app that syncs.
QueueDrains ==
  \A u \in Units, op \in Ops :
    []<><<\E f \in Flights : flight[f].unit = u /\ ReceiveAnswer(f)>>_syncVars
      => [](op \in Elements(queue[u]) => <>(op \notin Elements(queue[u])))
=============================================================================
