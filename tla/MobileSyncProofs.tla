-------------------------- MODULE MobileSyncProofs --------------------------
(* Theorems about offline synchronisation, for every number of phones,        *)
(* operations, requests under way and reboots.  Whether the app awaits its    *)
(* flushes or not, one life of the server applies an operation at most once    *)
(* and a queue keeps the order of reporting; if it does, nothing is lost and    *)
(* the server decides the operations in the order in which they were reported.  *)
EXTENDS MobileSync, SequenceTheorems, WellFoundedInduction, TLAPS

\* What the server keeps per operation, and the counter of its lives.
ServerTyped ==
  /\ memo \in [Ops -> Outcomes]
  /\ applied \in [Ops -> Nat]
  /\ reboots \in Nat

\* An operation this life does not remember was applied by earlier lives only.
Forgotten == \A op \in Ops : ~Known(op) => applied[op] <= reboots

IInv == ServerTyped /\ AppliedPerLife /\ Forgotten

LEMMA InitIInv == SyncInit => IInv
BY DEF SyncInit, IInv, ServerTyped, AppliedPerLife, Forgotten, Known, Outcomes

\* Whatever operation is applied, known or not, inside Ops or not.
LEMMA ApplyKeeps ==
  ASSUME IInv, NEW u, NEW op, Apply(u, op), reboots' = reboots
  PROVE  IInv'
<1>1. ServerTyped'
  <2>1. memo' \in [Ops -> Outcomes] /\ reboots' \in Nat
    BY DEF IInv, ServerTyped, Apply, Remember, Outcomes
  <2>2. applied' \in [Ops -> Nat]
    <3>1. CASE op \in Ops
      BY <3>1 DEF IInv, ServerTyped, Apply
    <3>2. CASE op \notin Ops
      BY <3>2 DEF IInv, ServerTyped, Apply
    <3>3. QED BY <3>1, <3>2
  <2>3. QED BY <2>1, <2>2 DEF ServerTyped
<1>2. ASSUME NEW x \in Ops
      PROVE  /\ applied'[x] <= reboots' + 1
             /\ memo'[x] = "none" => applied'[x] <= reboots'
  <2>1. CASE x = op
    BY <2>1 DEF IInv, ServerTyped, Forgotten, AppliedPerLife, Known, Apply, Remember
  <2>2. CASE x # op
    BY <2>2 DEF IInv, ServerTyped, Forgotten, AppliedPerLife, Known, Apply, Remember
  <2>3. QED BY <2>1, <2>2
<1>3. QED BY <1>1, <1>2 DEF IInv, AppliedPerLife, Forgotten, Known

\* A refusal is remembered and has no effect.
LEMMA RefuseKeeps ==
  ASSUME IInv, NEW u, NEW op, Refuse(u, op), reboots' = reboots
  PROVE  IInv'
<1>1. ServerTyped'
  BY DEF IInv, ServerTyped, Refuse, Remember, Outcomes
<1>2. ASSUME NEW x \in Ops
      PROVE  /\ applied'[x] <= reboots' + 1
             /\ memo'[x] = "none" => applied'[x] <= reboots'
  BY DEF IInv, ServerTyped, Forgotten, AppliedPerLife, Known, Refuse, Remember
<1>3. QED BY <1>1, <1>2 DEF IInv, AppliedPerLife, Forgotten, Known

\* Steps of the phone and of the network do not touch the server.
LEMMA ServerStands ==
  ASSUME IInv, UNCHANGED <<memo, applied, reboots>>
  PROVE  IInv'
BY DEF IInv, ServerTyped, AppliedPerLife, Forgotten, Known

LEMMA RestartKeeps ==
  ASSUME IInv, ServerRestart
  PROVE  IInv'
BY DEF IInv, ServerTyped, AppliedPerLife, Forgotten, Known, Outcomes, ServerRestart

LEMMA NextIInv == IInv /\ [SyncNext]_syncVars => IInv'
<1> SUFFICES ASSUME IInv, [SyncNext]_syncVars PROVE IInv'
  OBVIOUS
<1>1. CASE UNCHANGED syncVars
  BY <1>1, ServerStands DEF syncVars, server
<1>2. ASSUME NEW u \in Units, NEW f \in Flights, Retry(u, f) PROVE IInv'
  BY <1>2, ServerStands DEF Retry, server
<1>3. ASSUME NEW u \in Units, NEW f \in Flights, NEW op \in Ops, NEW p \in Payloads,
             Report(u, op, p, f)
      PROVE  IInv'
  BY <1>3, ServerStands DEF Report, server
<1>4. ASSUME NEW f \in Flights, ReceiveAnswer(f) \/ GiveUp(f) \/ Lose(f) \/ Discard(f)
      PROVE  IInv'
  BY <1>4, ServerStands DEF ReceiveAnswer, GiveUp, Lose, Discard, server
<1>5. ASSUME NEW f \in Flights, Start(f) \/ Answer(f) PROVE IInv'
  BY <1>5, ServerStands DEF Start, Answer, server
<1>6. ASSUME NEW f \in Flights, ProcessOne(f) PROVE IInv'
  <2>1. PICK u, op : /\ Apply(u, op) \/ Refuse(u, op) \/ Replay(op)
                     /\ reboots' = reboots
    <3> DEFINE v == flight[f].unit
               x == flight[f].batch[flight[f].done + 1]
    <3>1. Apply(v, x) \/ Refuse(v, x) \/ Replay(x)
      BY <1>6 DEF ProcessOne
    <3>2. reboots' = reboots
      BY <1>6 DEF ProcessOne
    <3> HIDE DEF v, x
    <3>3. QED BY <3>1, <3>2
  <2>2. CASE Apply(u, op)
    BY <2>1, <2>2, ApplyKeeps
  <2>3. CASE Refuse(u, op)
    BY <2>1, <2>3, RefuseKeeps
  <2>4. CASE Replay(op)
    BY <2>1, <2>4, ServerStands DEF Replay, server
  <2>5. QED BY <2>1, <2>2, <2>3, <2>4
<1>7. ASSUME NEW u \in Units, NEW t \in Patched, DirectStatus(u, t) PROVE IInv'
  BY <1>7, ServerStands DEF DirectStatus
<1>8. CASE ServerRestart
  BY <1>8, RestartKeeps
<1>9. QED BY <1>1, <1>2, <1>3, <1>4, <1>5, <1>6, <1>7, <1>8 DEF SyncNext

\* offline.py: resending after a flaky connection never applies an operation twice
\* in one life of the server, however the flushes of a phone overlap.
THEOREM AppliesOncePerLife == SyncSpec => []AppliedPerLife
<1>1. SyncInit => IInv
  BY InitIInv
<1>2. IInv /\ [SyncNext]_syncVars => IInv'
  BY NextIInv
<1>3. IInv => AppliedPerLife
  BY DEF IInv
<1>4. QED BY <1>1, <1>2, <1>3, PTL DEF SyncSpec

-----------------------------------------------------------------------------
(* What is left of a batch. Facts about all its prefixes are proved by their  *)
(* least counterexample.                                                      *)

Below == {pair \in Nat \X Nat : pair[1] < pair[2]}

LEMMA BelowIsWellFounded == IsWellFoundedOn(Below, Nat)
  BY NatLessThanWellFounded DEF OpToRel, Below

LEMMA Smallest ==
  ASSUME NEW T, T \subseteq Nat, T # {}
  PROVE  \E m \in T : \A k \in T : ~ (k < m)
<1>1. PICK m \in T : \A k \in T : ~ (<<k, m>> \in Below)
  BY BelowIsWellFounded, WFMin, Zenon
<1>2. ASSUME NEW k \in T, k < m PROVE <<k, m>> \in Below
  <2>1. <<k, m>> \in Nat \X Nat /\ <<k, m>>[1] = k /\ <<k, m>>[2] = m
    OBVIOUS
  <2> QED
    BY <1>2, <2>1 DEF Below
<1> QED
  BY <1>1, <1>2

\* The loop over the batch, one operation further.
OneMore(batch, settled, left, n) ==
  IF n = 0 THEN <<>>
  ELSE IF batch[n] \in settled THEN left[n - 1] ELSE Append(left[n - 1], batch[n])

Leaves(batch, settled, left, m) ==
  left = [n \in 0 .. m |-> OneMore(batch, settled, left, n)]

LEMMA LeavesExists ==
  ASSUME NEW batch, NEW settled, NEW m \in Nat
  PROVE  \E left : Leaves(batch, settled, left, m)
<1> DEFINE T == {n \in Nat : ~ \E left : Leaves(batch, settled, left, n)}
<1> SUFFICES ASSUME T # {} PROVE FALSE
  OBVIOUS
<1>1. T \subseteq Nat
  OBVIOUS
<1>2. PICK n \in T : \A k \in T : ~ (k < n)
  <2> HIDE DEF T
  <2> QED
    BY <1>1, Smallest
<1>3. CASE n = 0
  <2> DEFINE g == [k \in 0 .. 0 |-> <<>>]
  <2>1. Leaves(batch, settled, g, 0)
    BY DEF Leaves, OneMore
  <2> QED
    BY <1>3, <2>1
<1>4. CASE n # 0
  <2>1. n - 1 \in Nat /\ n - 1 < n /\ n \in Nat
    BY <1>4
  <2>2. PICK left : Leaves(batch, settled, left, n - 1)
    BY <1>2, <2>1
  <2> DEFINE g == [k \in 0 .. n |-> IF k = n THEN OneMore(batch, settled, left, n) ELSE left[k]]
  <2>3. ASSUME NEW k \in 0 .. n PROVE g[k] = OneMore(batch, settled, g, k)
    <3>1. CASE k = n
      BY <2>1, <3>1 DEF OneMore
    <3>2. CASE k # n
      <4>1. k \in 0 .. n - 1 /\ g[k] = left[k]
        BY <2>1, <3>2
      <4>2. left[k] = OneMore(batch, settled, left, k)
        BY <2>2, <4>1 DEF Leaves
      <4>3. k # 0 => g[k - 1] = left[k - 1]
        BY <2>1, <4>1
      <4> QED
        BY <4>1, <4>2, <4>3 DEF OneMore
    <3> QED
      BY <3>1, <3>2
  <2>4. Leaves(batch, settled, g, n)
    <3>1. g = [k \in 0 .. n |-> g[k]]
      OBVIOUS
    <3> HIDE DEF g
    <3> QED
      BY <2>3, <3>1 DEF Leaves
  <2> QED
    BY <2>4
<1> QED
  BY <1>3, <1>4

\* q is what is left of the first n operations of b: those that are not settled,
\* in their order.
Remains(b, s, q, n) ==
  /\ q \in Seq(Ops)
  /\ \A k \in 1 .. n : b[k] \notin s => \E i \in 1 .. Len(q) : q[i] = b[k]
  /\ \A i \in 1 .. Len(q) : \E k \in 1 .. n : q[i] = b[k] /\ b[k] \notin s
  /\ \A i, j \in 1 .. Len(q) :
       i < j => \E k, l \in 1 .. n : k < l /\ q[i] = b[k] /\ q[j] = b[l]

LEMMA RemainsSkips ==
  ASSUME NEW b, NEW s, NEW q, NEW n \in Nat, n # 0,
         Remains(b, s, q, n - 1), b[n] \in s
  PROVE  Remains(b, s, q, n)
<1>1. \A k \in 1 .. n - 1 : k \in 1 .. n
  OBVIOUS
<1>2. \A k \in 1 .. n : k = n \/ k \in 1 .. n - 1
  OBVIOUS
<1>3. \A i \in 1 .. Len(q) : \E k \in 1 .. n : q[i] = b[k] /\ b[k] \notin s
  BY <1>1 DEF Remains
<1>4. \A k \in 1 .. n : b[k] \notin s => \E i \in 1 .. Len(q) : q[i] = b[k]
  BY <1>2 DEF Remains
<1>5. \A i, j \in 1 .. Len(q) :
        i < j => \E k, l \in 1 .. n : k < l /\ q[i] = b[k] /\ q[j] = b[l]
  BY <1>1 DEF Remains
<1> QED
  BY <1>3, <1>4, <1>5 DEF Remains

LEMMA RemainsAppends ==
  ASSUME NEW b, NEW s, NEW q, NEW n \in Nat, n # 0,
         Remains(b, s, q, n - 1), b[n] \notin s, b[n] \in Ops
  PROVE  Remains(b, s, Append(q, b[n]), n)
<1> DEFINE r == Append(q, b[n])
<1>1. \A k \in 1 .. n - 1 : k \in 1 .. n /\ k < n
  OBVIOUS
<1>2. \A k \in 1 .. n : k = n \/ k \in 1 .. n - 1
  OBVIOUS
<1>3. q \in Seq(Ops) /\ Len(q) \in Nat
  BY DEF Remains
<1>4. /\ r \in Seq(Ops)
      /\ Len(r) = Len(q) + 1
      /\ \A i \in 1 .. Len(q) : r[i] = q[i]
      /\ r[Len(q) + 1] = b[n]
  BY <1>3, AppendProperties
<1>5. \A i \in 1 .. Len(r) : i = Len(q) + 1 \/ i \in 1 .. Len(q)
  BY <1>3, <1>4
<1>6. /\ \A i \in 1 .. Len(q) : i \in 1 .. Len(r)
      /\ Len(q) + 1 \in 1 .. Len(r)
      /\ n \in 1 .. n
  BY <1>3, <1>4
<1> HIDE DEF r
<1>7. ASSUME NEW k \in 1 .. n, b[k] \notin s PROVE \E i \in 1 .. Len(r) : r[i] = b[k]
  <2>1. CASE k = n
    BY <1>4, <1>6, <2>1
  <2>2. CASE k \in 1 .. n - 1
    <3>1. PICK i \in 1 .. Len(q) : q[i] = b[k]
      BY <1>7, <2>2 DEF Remains
    <3> QED
      BY <1>4, <1>6, <3>1
  <2> QED
    BY <1>2, <2>1, <2>2
<1>8. ASSUME NEW i \in 1 .. Len(r) PROVE \E k \in 1 .. n : r[i] = b[k] /\ b[k] \notin s
  <2>1. CASE i = Len(q) + 1
    BY <1>4, <1>6, <2>1
  <2>2. CASE i \in 1 .. Len(q)
    <3>1. PICK k \in 1 .. n - 1 : q[i] = b[k] /\ b[k] \notin s
      BY <2>2 DEF Remains
    <3> QED
      BY <1>1, <1>4, <2>2, <3>1
  <2> QED
    BY <1>5, <2>1, <2>2
<1>9. ASSUME NEW i \in 1 .. Len(r), NEW j \in 1 .. Len(r), i < j
      PROVE  \E k, l \in 1 .. n : k < l /\ r[i] = b[k] /\ r[j] = b[l]
  <2>1. i \in 1 .. Len(q)
    BY <1>3, <1>4, <1>9
  <2>2. CASE j = Len(q) + 1
    <3>1. PICK k \in 1 .. n - 1 : q[i] = b[k] /\ b[k] \notin s
      BY <2>1 DEF Remains
    <3> QED
      BY <1>1, <1>4, <1>6, <2>1, <2>2, <3>1
  <2>3. CASE j \in 1 .. Len(q)
    <3>1. PICK k \in 1 .. n - 1, l \in 1 .. n - 1 : k < l /\ q[i] = b[k] /\ q[j] = b[l]
      BY <1>9, <2>1, <2>3 DEF Remains
    <3> QED
      BY <1>1, <1>4, <2>1, <2>3, <3>1
  <2> QED
    BY <1>5, <2>2, <2>3
<1> QED
  BY <1>4, <1>7, <1>8, <1>9 DEF Remains, r

\* Dropping the settled operations of a batch keeps the others and their order.
LEMMA UnsettledRemains ==
  ASSUME NEW b \in Seq(Ops), NEW s
  PROVE  Remains(b, s, Unsettled(b, s), Len(b))
<1> DEFINE left == CHOOSE x : Leaves(b, s, x, Len(b))
<1>1. Unsettled(b, s) = left[Len(b)]
  BY DEF Unsettled, Leaves, OneMore
<1>2. Len(b) \in Nat
  OBVIOUS
<1>3. Leaves(b, s, left, Len(b))
  BY <1>2, LeavesExists
<1> HIDE DEF left
<1>4. \A k \in 0 .. Len(b) : left[k] = OneMore(b, s, left, k)
  BY <1>3 DEF Leaves
<1> DEFINE T == {n \in 0 .. Len(b) : ~ Remains(b, s, left[n], n)}
<1>5. T = {}
  <2> SUFFICES ASSUME T # {} PROVE FALSE
    OBVIOUS
  <2>1. T \subseteq Nat
    BY <1>2
  <2>2. PICK n \in T : \A k \in T : ~ (k < n)
    <3> HIDE DEF T
    <3> QED
      BY <2>1, Smallest
  <2>3. n \in 0 .. Len(b) /\ n \in Nat /\ ~ Remains(b, s, left[n], n)
    BY <2>2
  <2>4. CASE n = 0
    <3>1. left[0] = <<>>
      BY <1>4, <2>3, <2>4 DEF OneMore
    <3>2. Remains(b, s, <<>>, 0)
      BY DEF Remains
    <3> QED
      BY <2>3, <2>4, <3>1, <3>2
  <2>5. CASE n # 0
    <3>1. n - 1 \in 0 .. Len(b) /\ n - 1 < n
      BY <1>2, <2>3, <2>5
    <3>2. Remains(b, s, left[n - 1], n - 1)
      BY <2>2, <3>1
    <3>3. left[n] = IF b[n] \in s THEN left[n - 1] ELSE Append(left[n - 1], b[n])
      BY <1>4, <2>3, <2>5 DEF OneMore
    <3>4. b[n] \in Ops
      BY <2>3, <2>5, ElementOfSeq
    <3>5. CASE b[n] \in s
      BY <2>3, <2>5, <3>2, <3>3, <3>5, RemainsSkips
    <3>6. CASE b[n] \notin s
      BY <2>3, <2>5, <3>2, <3>3, <3>4, <3>6, RemainsAppends
    <3> QED
      BY <3>5, <3>6
  <2> QED
    BY <2>4, <2>5
<1>6. Len(b) \in 0 .. Len(b)
  BY <1>2
<1> QED
  BY <1>1, <1>5, <1>6

-----------------------------------------------------------------------------
(* Types. *)

LEMMA NoFlightTyped == NoFlight \in FlightRows
BY DEF NoFlight, FlightRows

\* What sending does to a request.
LEMMA SentFlight ==
  ASSUME NEW u \in Units, NEW f \in Flights, NEW batch \in Seq(Ops),
         Send(u, f, batch), flight \in [Flights -> FlightRows]
  PROVE  /\ flight[f].at = "idle"
         /\ flight' \in [Flights -> FlightRows]
         /\ \A g \in Flights : g # f => flight'[g] = flight[g]
         /\ flight'[f].at = "sent" /\ flight'[f].unit = u /\ flight'[f].batch = batch
         /\ flight'[f].done = 0 /\ flight'[f].settled = {} /\ flight'[f].waiting
<1> DEFINE r == [NoFlight EXCEPT !.at = "sent", !.unit = u, !.batch = batch, !.waiting = TRUE]
<1>1. /\ r \in FlightRows
      /\ r.at = "sent" /\ r.unit = u /\ r.batch = batch
      /\ r.done = 0 /\ r.settled = {} /\ r.waiting
  BY DEF NoFlight, FlightRows
<1>2. flight' = [flight EXCEPT ![f] = r] /\ flight[f].at = "idle"
  BY DEF Send
<1> HIDE DEF r
<1>3. flight' \in [Flights -> FlightRows] /\ flight'[f] = r
      /\ \A g \in Flights : g # f => flight'[g] = flight[g]
  BY <1>1, <1>2
<1> QED
  BY <1>1, <1>2, <1>3

LEMMA InitTypeOK == SyncInit => SyncTypeOK
<1> SUFFICES ASSUME SyncInit PROVE SyncTypeOK
  OBVIOUS
<1>1. <<>> \in Seq(Ops)
  OBVIOUS
<1>2. flight \in [Flights -> FlightRows]
  BY NoFlightTyped DEF SyncInit
<1>3. "assigned" \in FieldStatuses /\ "none" \in Outcomes /\ 0 \in 0 .. MaxReboots
  BY MobileAssumption DEF FieldStatuses, Outcomes
<1> QED
  BY <1>1, <1>2, <1>3 DEF SyncInit, SyncTypeOK

LEMMA EnqueueTyped ==
  ASSUME NEW q \in Seq(Ops), NEW op \in Ops
  PROVE  Enqueue(q, op) \in Seq(Ops)
BY DEF Enqueue

LEMMA PhoneTypeOK ==
  ASSUME SyncTypeOK, NEW u \in Units, NEW f \in Flights,
         Retry(u, f) \/ \E op \in Ops, p \in Payloads : Report(u, op, p, f)
  PROVE  SyncTypeOK'
<1>1. CASE Retry(u, f)
  <2>1. queue[u] \in Seq(Ops) /\ Send(u, f, queue[u])
    BY <1>1 DEF Retry, SyncTypeOK
  <2>2. flight' \in [Flights -> FlightRows] /\ (serving # Nothing => flight'[serving].at = "sent")
    BY <2>1, SentFlight DEF SyncTypeOK
  <2> QED
    BY <1>1, <2>2 DEF Retry, SyncTypeOK, phone, server
<1>2. ASSUME NEW op \in Ops, NEW p \in Payloads, Report(u, op, p, f) PROVE SyncTypeOK'
  <2>1. Enqueue(queue[u], op) \in Seq(Ops) /\ Send(u, f, Enqueue(queue[u], op))
    BY <1>2, EnqueueTyped DEF Report, SyncTypeOK
  <2>2. flight' \in [Flights -> FlightRows] /\ (serving # Nothing => flight'[serving].at = "sent")
    BY <2>1, SentFlight DEF SyncTypeOK
  <2>3. queue' \in [Units -> Seq(Ops)] /\ sent' \in [Units -> Seq(Ops)]
        /\ what' \in [Ops -> Payloads \cup {Nothing}]
    BY <1>2, <2>1 DEF Report, SyncTypeOK
  <2> QED
    BY <1>2, <2>2, <2>3 DEF Report, SyncTypeOK, server
<1> QED
  BY <1>1, <1>2

LEMMA NetworkTypeOK ==
  ASSUME SyncTypeOK, NEW f \in Flights,
         ReceiveAnswer(f) \/ GiveUp(f) \/ Lose(f) \/ Discard(f)
  PROVE  SyncTypeOK'
<1>1. CASE ReceiveAnswer(f)
  <2>1. flight[f].batch \in Seq(Ops)
    BY DEF SyncTypeOK, FlightRows
  <2>2. Unsettled(flight[f].batch, flight[f].settled) \in Seq(Ops)
    BY <2>1, UnsettledRemains DEF Remains
  <2>3. queue' \in [Units -> Seq(Ops)]
    BY <1>1, <2>2 DEF ReceiveAnswer, SyncTypeOK
  <2>4. flight' \in [Flights -> FlightRows] /\ (serving # Nothing => flight'[serving].at = "sent")
    BY <1>1, NoFlightTyped DEF ReceiveAnswer, SyncTypeOK
  <2> QED
    BY <1>1, <2>3, <2>4 DEF ReceiveAnswer, SyncTypeOK, server
<1>2. CASE GiveUp(f)
  <2>1. flight' \in [Flights -> FlightRows] /\ (serving # Nothing => flight'[serving].at = "sent")
    BY ZenonT(30), <1>2 DEF GiveUp, SyncTypeOK, FlightRows
  <2> QED
    BY <1>2, <2>1 DEF GiveUp, SyncTypeOK, phone, server
<1>3. CASE Lose(f) \/ Discard(f)
  <2>1. flight' \in [Flights -> FlightRows] /\ (serving # Nothing => flight'[serving].at = "sent")
    BY <1>3, NoFlightTyped DEF Lose, Discard, SyncTypeOK
  <2> QED
    BY <1>3, <2>1 DEF Lose, Discard, SyncTypeOK, phone, server
<1> QED
  BY <1>1, <1>2, <1>3

LEMMA CanMoveTyped ==
  ASSUME NEW s \in FieldStatuses, NEW t, CanMove(s, t)
  PROVE  t \in FieldStatuses
BY DEF CanMove, FieldTransitions, FieldStatuses

\* The operation a flight is at.
Current(f) == flight[f].batch[flight[f].done + 1]

LEMMA CurrentTyped ==
  ASSUME SyncTypeOK, NEW f \in Flights, ProcessOne(f)
  PROVE  /\ flight[f].at = "sent"
         /\ flight[f].done + 1 \in 1 .. Len(flight[f].batch)
         /\ Current(f) \in Ops
<1>1. flight[f].batch \in Seq(Ops) /\ flight[f].done \in Nat
  BY DEF SyncTypeOK, FlightRows
<1>2. f # Nothing /\ serving = f /\ flight[f].done < Len(flight[f].batch)
  BY MobileAssumption DEF ProcessOne
<1>3. flight[f].done + 1 \in 1 .. Len(flight[f].batch)
  BY <1>1, <1>2
<1>4. Current(f) \in Ops
  BY <1>1, <1>3, ElementOfSeq DEF Current
<1> QED
  BY <1>2, <1>3, <1>4 DEF SyncTypeOK

\* What processing an operation does to its request.
LEMMA ProcessedFlight ==
  ASSUME SyncTypeOK, NEW f \in Flights, ProcessOne(f)
  PROVE  /\ flight' \in [Flights -> FlightRows]
         /\ \A g \in Flights : g # f => flight'[g] = flight[g]
         /\ flight'[f].at = flight[f].at /\ flight'[f].unit = flight[f].unit
         /\ flight'[f].batch = flight[f].batch /\ flight'[f].waiting = flight[f].waiting
         /\ flight'[f].done = flight[f].done + 1
         /\ flight'[f].settled = IF Settles(Current(f)) THEN flight[f].settled \cup {Current(f)}
                                 ELSE flight[f].settled
<1> DEFINE s == IF Settles(Current(f)) THEN flight[f].settled \cup {Current(f)}
                ELSE flight[f].settled
<1>1. Current(f) \in Ops
  BY CurrentTyped
<1>2. flight' = [flight EXCEPT ![f].done = @ + 1, ![f].settled = s]
  BY DEF ProcessOne, Current
<1>3. flight[f] \in FlightRows /\ flight \in [Flights -> FlightRows]
  BY DEF SyncTypeOK
<1>4. s \in SUBSET Ops
  BY <1>1, <1>3 DEF FlightRows
<1> HIDE DEF s
<1>5. /\ flight'[f] \in FlightRows
      /\ flight' \in [Flights -> FlightRows]
      /\ \A g \in Flights : g # f => flight'[g] = flight[g]
      /\ flight'[f].at = flight[f].at /\ flight'[f].unit = flight[f].unit
      /\ flight'[f].batch = flight[f].batch /\ flight'[f].waiting = flight[f].waiting
      /\ flight'[f].done = flight[f].done + 1
      /\ flight'[f].settled = s
  <2> DEFINE d == flight[f].done + 1
             r == [flight[f] EXCEPT !.done = d, !.settled = s]
  <2>1. r \in FlightRows
    <3>1. d \in Nat
      BY <1>3 DEF FlightRows
    <3> HIDE DEF d
    <3> QED
      BY <1>3, <1>4, <3>1 DEF FlightRows
  <2>2. /\ r.at = flight[f].at /\ r.unit = flight[f].unit
        /\ r.batch = flight[f].batch /\ r.waiting = flight[f].waiting
        /\ r.done = d
        /\ r.settled = s
    <3>1. DOMAIN flight[f] = {"at", "unit", "batch", "done", "settled", "waiting"}
      BY <1>3 DEF FlightRows
    <3> HIDE DEF d
    <3> QED
      BY <3>1
  <2>3. flight'[f] = r
    BY <1>2, <1>3
  <2>4. \A g \in Flights : g # f => flight'[g] = flight[g]
    BY <1>2, <1>3
  <2>5. flight' \in [Flights -> FlightRows]
    <3>1. \E x : flight' = [flight EXCEPT ![f] = x]
      BY <1>2
    <3> HIDE DEF r
    <3> QED
      BY <1>3, <2>1, <2>3, <3>1
  <2> QED
    BY <2>1, <2>2, <2>3, <2>4, <2>5
<1> QED
  BY <1>5 DEF s

\* What deciding an operation does to the record of decisions.
LEMMA NoteTyped ==
  ASSUME NEW u, NEW op \in Ops, Note(u, op), decided \in [Units -> Seq(Ops)]
  PROVE  decided' \in [Units -> Seq(Ops)]
<1>1. CASE u \in Units
  <2>1. decided[u] \in Seq(Ops) /\ Append(decided[u], op) \in Seq(Ops)
    BY <1>1
  <2> QED
    BY <2>1 DEF Note
<1>2. CASE u \notin Units
  BY <1>2 DEF Note
<1> QED
  BY <1>1, <1>2

LEMMA ProcessTypeOK ==
  ASSUME SyncTypeOK, NEW f \in Flights, ProcessOne(f)
  PROVE  SyncTypeOK'
<1> DEFINE u == flight[f].unit
           op == Current(f)
<1>1. op \in Ops
  BY CurrentTyped
<1>2. /\ Apply(u, op) \/ Refuse(u, op) \/ Replay(op)
      /\ UNCHANGED <<phone, serving, reboots>>
  BY DEF ProcessOne, Current
<1>3. /\ flight' \in [Flights -> FlightRows]
      /\ serving # Nothing => flight'[serving].at = "sent"
  BY ProcessedFlight DEF SyncTypeOK
<1> HIDE DEF u, op
<1>4. decided' \in [Units -> Seq(Ops)]
  <2>1. CASE Apply(u, op) \/ Refuse(u, op)
    BY <1>1, <2>1, NoteTyped DEF Apply, Refuse, SyncTypeOK
  <2>2. CASE Replay(op)
    BY <2>2 DEF Replay, server, SyncTypeOK
  <2> QED
    BY <1>2, <2>1, <2>2
<1>5. memo' \in [Ops -> Outcomes]
  BY <1>2 DEF Apply, Refuse, Replay, Remember, server, SyncTypeOK, Outcomes
<1>6. status' \in [Units -> FieldStatuses]
  BY <1>2 DEF Apply, Refuse, Replay, server, SyncTypeOK
<1>7. applied' \in [Ops -> Nat]
  <2>1. CASE Apply(u, op)
    <3>1. applied' = [applied EXCEPT ![op] = @ + 1] /\ applied \in [Ops -> Nat]
      BY <2>1 DEF Apply, SyncTypeOK
    <3> QED
      BY <1>1, <3>1
  <2>2. CASE Refuse(u, op)
    BY <2>2 DEF Refuse, SyncTypeOK
  <2>3. CASE Replay(op)
    BY <2>3 DEF Replay, server, SyncTypeOK
  <2> QED
    BY <1>2, <2>1, <2>2, <2>3
<1> QED
  BY <1>2, <1>3, <1>4, <1>5, <1>6, <1>7 DEF SyncTypeOK, phone

LEMMA NextTypeOK == SyncTypeOK /\ [SyncNext]_syncVars => SyncTypeOK'
<1> SUFFICES ASSUME SyncTypeOK, [SyncNext]_syncVars PROVE SyncTypeOK'
  OBVIOUS
<1>1. CASE UNCHANGED syncVars
  BY <1>1 DEF syncVars, phone, server, SyncTypeOK
<1>2. ASSUME NEW f \in Flights, Start(f) \/ Answer(f) PROVE SyncTypeOK'
  <2>1. CASE Start(f)
    BY <2>1 DEF Start, SyncTypeOK, phone, server
  <2>2. CASE Answer(f)
    <3>1. flight' \in [Flights -> FlightRows] /\ serving' = Nothing
      BY ZenonT(30), <2>2 DEF Answer, SyncTypeOK, FlightRows
    <3> QED
      BY <2>2, <3>1 DEF Answer, SyncTypeOK, phone, server
  <2> QED
    BY <1>2, <2>1, <2>2
<1>3. ASSUME NEW u \in Units, NEW t \in Patched, DirectStatus(u, t) PROVE SyncTypeOK'
  <2>1. status' \in [Units -> FieldStatuses]
    BY <1>3, PatchedAssumption DEF DirectStatus, SyncTypeOK
  <2> QED
    BY <1>3, <2>1 DEF DirectStatus, SyncTypeOK, phone
<1>4. CASE ServerRestart
  <2>1. flight' \in [Flights -> FlightRows] /\ serving' = Nothing
    BY <1>4, NoFlightTyped DEF ServerRestart, SyncTypeOK
  <2>2. reboots' \in 0 .. MaxReboots
    BY <1>4, MobileAssumption DEF ServerRestart, SyncTypeOK
  <2>3. memo' \in [Ops -> Outcomes] /\ status' \in [Units -> FieldStatuses]
    BY <1>4 DEF ServerRestart, Outcomes, FieldStatuses
  <2> QED
    BY <1>4, <2>1, <2>2, <2>3 DEF ServerRestart, SyncTypeOK, phone
<1> QED
  BY <1>1, <1>2, <1>3, <1>4, PhoneTypeOK, NetworkTypeOK, ProcessTypeOK DEF SyncNext

\* Every part of the phones, the network and the server keeps its declared shape,
\* and only a request that was sent is served.
THEOREM MobileTypeCorrect == SyncSpec => []SyncTypeOK
  BY InitTypeOK, NextTypeOK, PTL DEF SyncSpec

-----------------------------------------------------------------------------
(* The order of a queue, whether the app awaits its flushes or not.           *)

\* Every operation of the list stands in the history h, in the same order.
StandsIn(list, h) ==
  /\ \A i \in 1 .. Len(list) : \E k \in 1 .. Len(h) : h[k] = list[i]
  /\ \A i, j \in 1 .. Len(list) :
       i < j => \E k, l \in 1 .. Len(h) : k < l /\ h[k] = list[i] /\ h[l] = list[j]

\* A queue and a batch stand in what their unit has reported.
OrderInv ==
  /\ \A u \in Units : StandsIn(queue[u], sent[u])
  /\ \A f \in Flights : flight[f].at # "idle" =>
       /\ flight[f].unit \in Units
       /\ StandsIn(flight[f].batch, sent[flight[f].unit])

LEMMA StandsGrows ==
  ASSUME NEW list \in Seq(Ops), NEW h \in Seq(Ops), NEW op \in Ops, StandsIn(list, h)
  PROVE  StandsIn(list, Append(h, op))
<1> DEFINE g == Append(h, op)
<1>1. /\ \A k \in 1 .. Len(h) : k \in 1 .. Len(g) /\ g[k] = h[k]
  BY AppendProperties
<1> HIDE DEF g
<1>2. \A i \in 1 .. Len(list) : \E k \in 1 .. Len(g) : g[k] = list[i]
  BY <1>1 DEF StandsIn
<1>3. ASSUME NEW i \in 1 .. Len(list), NEW j \in 1 .. Len(list), i < j
      PROVE  \E k, l \in 1 .. Len(g) : k < l /\ g[k] = list[i] /\ g[l] = list[j]
  <2>1. PICK k \in 1 .. Len(h), l \in 1 .. Len(h) : k < l /\ h[k] = list[i] /\ h[l] = list[j]
    BY <1>3 DEF StandsIn
  <2> QED
    BY <1>1, <2>1
<1> QED
  BY <1>2, <1>3 DEF StandsIn, g

LEMMA StandsAppends ==
  ASSUME NEW list \in Seq(Ops), NEW h \in Seq(Ops), NEW op \in Ops, StandsIn(list, h)
  PROVE  StandsIn(Append(list, op), Append(h, op))
<1> DEFINE g == Append(h, op)
           q == Append(list, op)
<1>1. /\ \A k \in 1 .. Len(h) : k \in 1 .. Len(g) /\ g[k] = h[k] /\ k < Len(h) + 1
      /\ Len(h) + 1 \in 1 .. Len(g) /\ g[Len(h) + 1] = op
  BY AppendProperties
<1>2. /\ Len(q) = Len(list) + 1 /\ Len(list) \in Nat
      /\ \A i \in 1 .. Len(list) : q[i] = list[i]
      /\ q[Len(list) + 1] = op
  BY AppendProperties
<1>3. \A i \in 1 .. Len(q) : i = Len(list) + 1 \/ i \in 1 .. Len(list)
  BY <1>2
<1> HIDE DEF g, q
<1>4. ASSUME NEW i \in 1 .. Len(q) PROVE \E k \in 1 .. Len(g) : g[k] = q[i]
  <2>1. CASE i = Len(list) + 1
    BY <1>1, <1>2, <2>1
  <2>2. CASE i \in 1 .. Len(list)
    <3>1. PICK k \in 1 .. Len(h) : h[k] = list[i]
      BY <2>2 DEF StandsIn
    <3> QED
      BY <1>1, <1>2, <2>2, <3>1
  <2> QED
    BY <1>3, <2>1, <2>2
<1>5. ASSUME NEW i \in 1 .. Len(q), NEW j \in 1 .. Len(q), i < j
      PROVE  \E k, l \in 1 .. Len(g) : k < l /\ g[k] = q[i] /\ g[l] = q[j]
  <2>1. i \in 1 .. Len(list)
    BY <1>2, <1>5
  <2>2. CASE j = Len(list) + 1
    <3>1. PICK k \in 1 .. Len(h) : h[k] = list[i]
      BY <2>1 DEF StandsIn
    <3> QED
      BY <1>1, <1>2, <2>1, <2>2, <3>1
  <2>3. CASE j \in 1 .. Len(list)
    <3>1. PICK k \in 1 .. Len(h), l \in 1 .. Len(h) : k < l /\ h[k] = list[i] /\ h[l] = list[j]
      BY <1>5, <2>1, <2>3 DEF StandsIn
    <3> QED
      BY <1>1, <1>2, <2>1, <2>3, <3>1
  <2> QED
    BY <1>3, <2>2, <2>3
<1> QED
  BY <1>4, <1>5 DEF StandsIn, g, q

LEMMA StandsWithout ==
  ASSUME NEW list \in Seq(Ops), NEW s, NEW h \in Seq(Ops), StandsIn(list, h)
  PROVE  StandsIn(Unsettled(list, s), h)
<1> DEFINE q == Unsettled(list, s)
<1>1. Remains(list, s, q, Len(list))
  BY UnsettledRemains
<1> HIDE DEF q
<1>2. ASSUME NEW i \in 1 .. Len(q) PROVE \E k \in 1 .. Len(h) : h[k] = q[i]
  <2>1. PICK m \in 1 .. Len(list) : q[i] = list[m]
    BY <1>1 DEF Remains
  <2> QED
    BY <2>1 DEF StandsIn
<1>3. ASSUME NEW i \in 1 .. Len(q), NEW j \in 1 .. Len(q), i < j
      PROVE  \E k, l \in 1 .. Len(h) : k < l /\ h[k] = q[i] /\ h[l] = q[j]
  <2>1. PICK m \in 1 .. Len(list), n \in 1 .. Len(list) : m < n /\ q[i] = list[m] /\ q[j] = list[n]
    BY <1>1, <1>3 DEF Remains
  <2>2. PICK k \in 1 .. Len(h), l \in 1 .. Len(h) : k < l /\ h[k] = list[m] /\ h[l] = list[n]
    BY <2>1 DEF StandsIn
  <2> QED
    BY <2>1, <2>2
<1> QED
  BY <1>2, <1>3 DEF StandsIn, q

LEMMA InitOrder == SyncInit => OrderInv
BY DEF SyncInit, OrderInv, StandsIn, NoFlight

\* Only a step of the phone touches a queue or the batch of a request.
LEMMA OrderStands ==
  ASSUME OrderInv, UNCHANGED phone,
         \A g \in Flights : \/ flight'[g].at = "idle"
                            \/ /\ flight[g].at # "idle"
                               /\ flight'[g].unit = flight[g].unit
                               /\ flight'[g].batch = flight[g].batch
  PROVE  OrderInv'
<1>1. queue' = queue /\ sent' = sent
  BY DEF phone
<1>2. \A u \in Units : StandsIn(queue'[u], sent'[u])
  BY <1>1 DEF OrderInv
<1>3. ASSUME NEW g \in Flights, flight'[g].at # "idle"
      PROVE  flight'[g].unit \in Units /\ StandsIn(flight'[g].batch, sent'[flight'[g].unit])
  BY <1>1, <1>3 DEF OrderInv
<1> QED
  BY <1>2, <1>3 DEF OrderInv

LEMMA ReportOrder ==
  ASSUME SyncTypeOK, OrderInv, NEW u \in Units, NEW f \in Flights, NEW op \in Ops,
         NEW p \in Payloads, Report(u, op, p, f)
  PROVE  OrderInv'
<1>1. queue[u] \in Seq(Ops) /\ sent[u] \in Seq(Ops)
  BY DEF SyncTypeOK
<1>2. Append(queue[u], op) \in Seq(Ops)
  BY <1>1
<1>3. /\ queue'[u] = Append(queue[u], op)
      /\ \A v \in Units : v # u => queue'[v] = queue[v]
  BY DEF Report, Enqueue, SyncTypeOK
<1>4. /\ sent'[u] = Append(sent[u], op)
      /\ \A v \in Units : v # u => sent'[v] = sent[v]
  BY DEF Report, SyncTypeOK
<1>5. /\ flight'[f].unit = u /\ flight'[f].batch = Append(queue[u], op)
      /\ \A g \in Flights : g # f => flight'[g] = flight[g]
  <2>1. Send(u, f, Append(queue[u], op)) /\ flight \in [Flights -> FlightRows]
    BY DEF Report, Enqueue, SyncTypeOK
  <2> DEFINE batch == Append(queue[u], op)
  <2>2. batch \in Seq(Ops) /\ Send(u, f, batch)
    BY <1>2, <2>1
  <2> HIDE DEF batch
  <2>3. flight'[f].unit = u /\ flight'[f].batch = batch
    BY <2>1, <2>2, SentFlight
  <2>4. \A g \in Flights : g # f => flight'[g] = flight[g]
    BY <2>1, <2>2, SentFlight
  <2> QED
    BY <2>3, <2>4 DEF batch
<1>6. StandsIn(Append(queue[u], op), sent'[u])
  BY <1>1, <1>4, StandsAppends DEF OrderInv
<1>7. ASSUME NEW v \in Units PROVE StandsIn(queue'[v], sent'[v])
  BY <1>3, <1>4, <1>6 DEF OrderInv
<1>8. ASSUME NEW g \in Flights, flight'[g].at # "idle"
      PROVE  flight'[g].unit \in Units /\ StandsIn(flight'[g].batch, sent'[flight'[g].unit])
  <2>1. CASE g = f
    BY <1>5, <1>6, <2>1
  <2>2. CASE g # f
    <3> DEFINE v == flight[g].unit
    <3>1. /\ v \in Units /\ flight'[g].unit = v /\ flight'[g].batch = flight[g].batch
          /\ StandsIn(flight[g].batch, sent[v]) /\ flight[g].batch \in Seq(Ops)
      BY <1>5, <1>8, <2>2 DEF OrderInv, SyncTypeOK, FlightRows
    <3> HIDE DEF v
    <3>2. StandsIn(flight[g].batch, sent'[v])
      BY <1>1, <1>4, <3>1, StandsGrows
    <3> QED
      BY <3>1, <3>2
  <2> QED
    BY <2>1, <2>2
<1> QED
  BY <1>7, <1>8 DEF OrderInv

LEMMA RetryOrder ==
  ASSUME SyncTypeOK, OrderInv, NEW u \in Units, NEW f \in Flights, Retry(u, f)
  PROVE  OrderInv'
<1>1. queue[u] \in Seq(Ops) /\ queue' = queue /\ sent' = sent
  BY DEF SyncTypeOK, Retry, phone
<1>2. /\ flight'[f].unit = u /\ flight'[f].batch = queue[u]
      /\ \A g \in Flights : g # f => flight'[g] = flight[g]
  <2>1. Send(u, f, queue[u]) /\ flight \in [Flights -> FlightRows]
    BY DEF Retry, SyncTypeOK
  <2>2. flight'[f].unit = u /\ flight'[f].batch = queue[u]
    BY <1>1, <2>1, SentFlight
  <2>3. \A g \in Flights : g # f => flight'[g] = flight[g]
    BY <1>1, <2>1, SentFlight
  <2> QED
    BY <2>2, <2>3
<1>3. ASSUME NEW g \in Flights, flight'[g].at # "idle"
      PROVE  flight'[g].unit \in Units /\ StandsIn(flight'[g].batch, sent[flight'[g].unit])
  BY <1>2, <1>3 DEF OrderInv
<1> QED
  BY <1>1, <1>3 DEF OrderInv

LEMMA ReceiveOrder ==
  ASSUME SyncTypeOK, OrderInv, NEW f \in Flights, ReceiveAnswer(f)
  PROVE  OrderInv'
<1> DEFINE u == flight[f].unit
<1>1. /\ u \in Units /\ StandsIn(flight[f].batch, sent[u])
      /\ flight[f].batch \in Seq(Ops) /\ sent[u] \in Seq(Ops)
  BY DEF ReceiveAnswer, OrderInv, SyncTypeOK, FlightRows
<1>2. StandsIn(Unsettled(flight[f].batch, flight[f].settled), sent[u])
  BY <1>1, StandsWithout
<1>3. /\ queue'[u] = Unsettled(flight[f].batch, flight[f].settled)
      /\ \A v \in Units : v # u => queue'[v] = queue[v]
      /\ sent' = sent
  BY <1>1 DEF ReceiveAnswer, SyncTypeOK
<1>4. /\ flight'[f].at = "idle"
      /\ \A g \in Flights : g # f => flight'[g] = flight[g]
  BY DEF ReceiveAnswer, SyncTypeOK, NoFlight
<1> HIDE DEF u
<1>5. \A v \in Units : StandsIn(queue'[v], sent'[v])
  BY <1>2, <1>3 DEF OrderInv
<1> QED
  BY <1>3, <1>4, <1>5 DEF OrderInv

\* What the steps that do not touch a queue do to the requests.
LEMMA FlightSteps ==
  ASSUME SyncTypeOK, NEW g \in Flights,
         \/ \E f \in Flights : \/ GiveUp(f) \/ Lose(f) \/ Discard(f)
                               \/ Start(f) \/ ProcessOne(f) \/ Answer(f)
         \/ \E u \in Units, t \in Patched : DirectStatus(u, t)
         \/ ServerRestart
         \/ UNCHANGED syncVars
  PROVE  /\ UNCHANGED phone
         /\ \/ flight'[g] = NoFlight
            \/ /\ (flight'[g].at = "idle") = (flight[g].at = "idle")
               /\ flight'[g].unit = flight[g].unit
               /\ flight'[g].batch = flight[g].batch
               /\ flight'[g].waiting => flight[g].waiting
<1>1. flight \in [Flights -> FlightRows]
  BY DEF SyncTypeOK
<1>2. ASSUME NEW f \in Flights, GiveUp(f) \/ Lose(f) \/ Discard(f) \/ Start(f) \/ Answer(f)
      PROVE  /\ UNCHANGED phone
             /\ \/ flight'[g] = NoFlight
                \/ /\ (flight'[g].at = "idle") = (flight[g].at = "idle")
                   /\ flight'[g].unit = flight[g].unit
                   /\ flight'[g].batch = flight[g].batch
                   /\ flight'[g].waiting => flight[g].waiting
  <2>1. CASE GiveUp(f)
    BY <1>1, <2>1 DEF GiveUp, FlightRows
  <2>2. CASE Lose(f) \/ Discard(f)
    BY <1>1, <2>2 DEF Lose, Discard
  <2>3. CASE Start(f)
    BY <2>3 DEF Start
  <2>4. CASE Answer(f)
    <3>1. serving = f /\ serving # Nothing
      BY <2>4, MobileAssumption DEF Answer
    <3>2. flight[f].at = "sent"
      BY <3>1 DEF SyncTypeOK
    <3>3. UNCHANGED phone /\ flight' = [flight EXCEPT ![f].at = "answered"]
      BY <2>4 DEF Answer
    <3> QED
      BY <1>1, <3>2, <3>3 DEF FlightRows
  <2> QED
    BY <1>2, <2>1, <2>2, <2>3, <2>4
<1>3. ASSUME NEW f \in Flights, ProcessOne(f)
      PROVE  /\ UNCHANGED phone
             /\ (flight'[g].at = "idle") = (flight[g].at = "idle")
             /\ flight'[g].unit = flight[g].unit
             /\ flight'[g].batch = flight[g].batch
             /\ flight'[g].waiting => flight[g].waiting
  <2>1. UNCHANGED phone
    BY <1>3 DEF ProcessOne
  <2>2. CASE g = f
    BY <1>3, <2>1, <2>2, ProcessedFlight
  <2>3. CASE g # f
    BY <1>3, <2>1, <2>3, ProcessedFlight
  <2> QED
    BY <2>2, <2>3
<1>4. CASE \E u \in Units, t \in Patched : DirectStatus(u, t)
  BY <1>4 DEF DirectStatus
<1>5. CASE ServerRestart
  BY <1>5 DEF ServerRestart
<1>6. CASE UNCHANGED syncVars
  BY <1>6 DEF syncVars
<1> QED
  BY <1>2, <1>3, <1>4, <1>5, <1>6

LEMMA NextOrder == SyncTypeOK /\ OrderInv /\ [SyncNext]_syncVars => OrderInv'
<1> SUFFICES ASSUME SyncTypeOK, OrderInv, [SyncNext]_syncVars PROVE OrderInv'
  OBVIOUS
<1>1. CASE \/ \E f \in Flights : \/ GiveUp(f) \/ Lose(f) \/ Discard(f)
                                 \/ Start(f) \/ ProcessOne(f) \/ Answer(f)
           \/ \E u \in Units, t \in Patched : DirectStatus(u, t)
           \/ ServerRestart
           \/ UNCHANGED syncVars
  <2>1. ASSUME NEW g \in Flights
        PROVE  /\ UNCHANGED phone
               /\ \/ flight'[g].at = "idle"
                  \/ /\ flight[g].at # "idle"
                     /\ flight'[g].unit = flight[g].unit
                     /\ flight'[g].batch = flight[g].batch
    BY <1>1, FlightSteps DEF NoFlight
  <2>2. UNCHANGED phone
    BY <1>1 DEF GiveUp, Lose, Discard, Start, ProcessOne, Answer, DirectStatus, ServerRestart, syncVars
  <2> QED
    BY <2>1, <2>2, OrderStands
<1> QED
  BY <1>1, ReportOrder, RetryOrder, ReceiveOrder DEF SyncNext

\* syncEngine.ts saves what is left of a batch over the queue, whatever it has become:
\* what is in the queue still stands in the order in which it was reported, and once,
\* however the flushes of a phone overlap.
THEOREM QueueStaysInOrder == SyncSpec => []QueueInOrder
<1>1. SyncInit => SyncTypeOK /\ OrderInv
  BY InitTypeOK, InitOrder
<1>2. SyncTypeOK /\ OrderInv /\ [SyncNext]_syncVars => (SyncTypeOK /\ OrderInv)'
  BY NextTypeOK, NextOrder
<1>3. SyncTypeOK /\ OrderInv => QueueInOrder
  <2> SUFFICES ASSUME SyncTypeOK, OrderInv, NEW u \in Units,
                      NEW i \in DOMAIN queue[u], NEW j \in DOMAIN queue[u], i < j
               PROVE  \E k, l \in DOMAIN sent[u] :
                        k < l /\ sent[u][k] = queue[u][i] /\ sent[u][l] = queue[u][j]
    BY DEF QueueInOrder
  <2>1. DOMAIN queue[u] = 1 .. Len(queue[u]) /\ DOMAIN sent[u] = 1 .. Len(sent[u])
    BY DEF SyncTypeOK
  <2>2. StandsIn(queue[u], sent[u])
    BY DEF OrderInv
  <2>3. PICK k \in 1 .. Len(sent[u]), l \in 1 .. Len(sent[u]) :
          k < l /\ sent[u][k] = queue[u][i] /\ sent[u][l] = queue[u][j]
    <3>1. i \in 1 .. Len(queue[u]) /\ j \in 1 .. Len(queue[u])
      BY <2>1
    <3> DEFINE q == queue[u]
               h == sent[u]
    <3>2. StandsIn(q, h) /\ i \in 1 .. Len(q) /\ j \in 1 .. Len(q)
      BY <2>2, <3>1
    <3>3. q \in Seq(Ops) /\ h \in Seq(Ops)
      BY DEF SyncTypeOK
    <3> HIDE DEF q, h
    <3>4. i \in Nat /\ j \in Nat /\ i < j
      BY <3>2, <3>3
    <3>5. \E k, l \in 1 .. Len(h) : k < l /\ h[k] = q[i] /\ h[l] = q[j]
      BY <3>2, <3>3, <3>4 DEF StandsIn
    <3> QED
      BY <3>5 DEF q, h
  <2>4. k \in DOMAIN sent[u] /\ l \in DOMAIN sent[u]
    BY <2>1
  <2> QED
    BY <2>3, <2>4, Zenon
<1> QED
  BY <1>1, <1>2, <1>3, PTL DEF SyncSpec

-----------------------------------------------------------------------------
(* What awaiting the flushes gives: nothing is lost, and operations are       *)
(* decided in the order of reporting.                                         *)

In(x, list) == \E i \in 1 .. Len(list) : list[i] = x

Leads(d, h) == Len(d) <= Len(h) /\ \A i \in 1 .. Len(d) : d[i] = h[i]

\* Of what was reported before an operation of the list, the list lacks only what
\* is decided.
NoGap(list, d, h) ==
  \A k, l \in 1 .. Len(h) : k < l /\ In(h[l], list) => In(h[k], list) \/ In(h[k], d)

ReportedOnce ==
  /\ \A u, v \in Units : \A i \in 1 .. Len(sent[u]), j \in 1 .. Len(sent[v]) :
       sent[u][i] = sent[v][j] => u = v /\ i = j
  /\ \A u \in Units : \A i \in 1 .. Len(sent[u]) : what[sent[u][i]] # Nothing

DecidedLeads == \A u \in Units : Leads(decided[u], sent[u])

QueuedOrDecided ==
  \A u \in Units : \A i \in 1 .. Len(sent[u]) :
    In(sent[u][i], queue[u]) \/ In(sent[u][i], decided[u])

KnownIsDecided == \A op \in Ops : Known(op) => \E u \in Units : In(op, decided[u])

\* A phone awaits one answer at a time, and its queue is what it has posted.
OneWaiting ==
  \A f \in Flights : flight[f].waiting =>
    /\ flight[f].at # "idle"
    /\ queue[flight[f].unit] = flight[f].batch
    /\ \A g \in Flights : flight[g].waiting /\ flight[g].unit = flight[f].unit => g = f

\* What a request has settled, or has gone through, is decided.
FlightSound(f) ==
  flight[f].at # "idle" =>
    LET u == flight[f].unit
    IN  /\ \A op \in flight[f].settled : In(op, decided[u])
        /\ \A i \in 1 .. Len(flight[f].batch) :
             i <= flight[f].done => In(flight[f].batch[i], decided[u])
        /\ NoGap(flight[f].batch, decided[u], sent[u])

DeliveryInv ==
  /\ ReportedOnce
  /\ DecidedLeads
  /\ QueuedOrDecided
  /\ KnownIsDecided
  /\ OneWaiting
  /\ \A f \in Flights : FlightSound(f)

LEMMA InElements ==
  ASSUME NEW list \in Seq(Ops), NEW x
  PROVE  x \in Elements(list) <=> In(x, list)
BY DEF Elements, In

LEMMA InAppend ==
  ASSUME NEW list \in Seq(Ops), NEW op \in Ops
  PROVE  /\ In(op, Append(list, op))
         /\ \A x : In(x, list) => In(x, Append(list, op))
         /\ \A x : In(x, Append(list, op)) => In(x, list) \/ x = op
<1> DEFINE q == Append(list, op)
<1>1. /\ Len(q) = Len(list) + 1 /\ Len(list) \in Nat
      /\ \A i \in 1 .. Len(list) : i \in 1 .. Len(q) /\ q[i] = list[i]
      /\ Len(list) + 1 \in 1 .. Len(q) /\ q[Len(list) + 1] = op
  BY AppendProperties
<1>2. \A i \in 1 .. Len(q) : i = Len(list) + 1 \/ i \in 1 .. Len(list)
  BY <1>1
<1> HIDE DEF q
<1>3. In(op, q)
  BY <1>1 DEF In
<1>4. \A x : In(x, list) => In(x, q)
  BY <1>1 DEF In
<1>5. ASSUME NEW x, In(x, q) PROVE In(x, list) \/ x = op
  <2>1. PICK i \in 1 .. Len(q) : q[i] = x
    BY <1>5 DEF In
  <2>2. CASE i = Len(list) + 1
    BY <1>1, <2>1, <2>2
  <2>3. CASE i \in 1 .. Len(list)
    BY <1>1, <2>1, <2>3 DEF In
  <2> QED
    BY <1>2, <2>2, <2>3
<1> QED
  BY <1>3, <1>4, <1>5 DEF q

LEMMA InUnsettled ==
  ASSUME NEW list \in Seq(Ops), NEW s, NEW x, In(x, list), x \notin s
  PROVE  In(x, Unsettled(list, s))
<1>1. Remains(list, s, Unsettled(list, s), Len(list))
  BY UnsettledRemains
<1> QED
  BY <1>1 DEF Remains, In

\* What a unit has decided, it has reported.
LEMMA DecidedReported ==
  ASSUME SyncTypeOK, DecidedLeads, NEW u \in Units, NEW x, In(x, decided[u])
  PROVE  \E i \in 1 .. Len(sent[u]) : i <= Len(decided[u]) /\ sent[u][i] = x
<1>1. decided[u] \in Seq(Ops) /\ sent[u] \in Seq(Ops) /\ Leads(decided[u], sent[u])
  BY DEF SyncTypeOK, DecidedLeads
<1>2. PICK i \in 1 .. Len(decided[u]) : decided[u][i] = x
  BY DEF In
<1>3. i \in 1 .. Len(sent[u]) /\ i <= Len(decided[u]) /\ sent[u][i] = decided[u][i]
  BY <1>1 DEF Leads
<1> QED
  BY <1>2, <1>3

LEMMA InitDelivery == SyncInit => DeliveryInv
BY DEF SyncInit, DeliveryInv, ReportedOnce, DecidedLeads, Leads, QueuedOrDecided,
       KnownIsDecided, Known, OneWaiting, FlightSound, NoFlight

\* A step that leaves the request g as it is, forgets it or stops waiting for it.
Fades(g) ==
  \/ flight'[g] = NoFlight
  \/ /\ (flight'[g].at = "idle") = (flight[g].at = "idle")
     /\ flight'[g].unit = flight[g].unit
     /\ flight'[g].batch = flight[g].batch
     /\ flight'[g].done = flight[g].done
     /\ flight'[g].settled = flight[g].settled
     /\ flight'[g].waiting => flight[g].waiting

LEMMA FadesSound ==
  ASSUME NEW g, FlightSound(g), Fades(g), UNCHANGED <<sent, decided>>
  PROVE  FlightSound(g)'
<1>1. CASE flight'[g] = NoFlight
  BY <1>1 DEF FlightSound, NoFlight
<1>2. CASE flight'[g] # NoFlight
  BY <1>2 DEF FlightSound, Fades
<1> QED
  BY <1>1, <1>2

LEMMA QuietDelivery ==
  ASSUME DeliveryInv, UNCHANGED <<queue, what, sent, decided>>,
         \A op \in Ops : memo'[op] # "none" => memo[op] # "none",
         \A g \in Flights : Fades(g)
  PROVE  DeliveryInv'
<1>1. ReportedOnce'
  BY DEF DeliveryInv, ReportedOnce
<1>2. DecidedLeads'
  BY DEF DeliveryInv, DecidedLeads
<1>3. QueuedOrDecided'
  BY DEF DeliveryInv, QueuedOrDecided
<1>4. KnownIsDecided'
  BY DEF DeliveryInv, KnownIsDecided, Known
<1>5. OneWaiting'
  <2>1. \A g \in Flights : flight'[g].waiting => /\ flight[g].waiting
                                                 /\ (flight'[g].at = "idle") = (flight[g].at = "idle")
                                                 /\ flight'[g].unit = flight[g].unit
                                                 /\ flight'[g].batch = flight[g].batch
    BY DEF Fades, NoFlight
  <2> QED
    BY <2>1 DEF DeliveryInv, OneWaiting
<1>6. \A g \in Flights : FlightSound(g)'
  BY FadesSound DEF DeliveryInv
<1> QED
  BY <1>1, <1>2, <1>3, <1>4, <1>5, <1>6 DEF DeliveryInv

\* The steps of the network, of the other clients and of a crash.
LEMMA QuietStep ==
  ASSUME SyncTypeOK,
         \/ \E f \in Flights : GiveUp(f) \/ Lose(f) \/ Discard(f) \/ Start(f) \/ Answer(f)
         \/ \E u \in Units, t \in Patched : DirectStatus(u, t)
         \/ ServerRestart
         \/ UNCHANGED syncVars
  PROVE  /\ UNCHANGED <<queue, what, sent, decided>>
         /\ \A op \in Ops : memo'[op] # "none" => memo[op] # "none"
         /\ \A g \in Flights : Fades(g)
<1>1. flight \in [Flights -> FlightRows]
  BY DEF SyncTypeOK
<1>2. /\ UNCHANGED <<queue, what, sent, decided>>
      /\ \A op \in Ops : memo'[op] # "none" => memo[op] # "none"
  <2>1. CASE \E f \in Flights : GiveUp(f) \/ Lose(f) \/ Discard(f) \/ Start(f) \/ Answer(f)
    BY <2>1 DEF GiveUp, Lose, Discard, Start, Answer, phone, server
  <2>2. CASE \E u \in Units, t \in Patched : DirectStatus(u, t)
    BY <2>2 DEF DirectStatus, phone
  <2>3. CASE ServerRestart
    BY <2>3 DEF ServerRestart, phone
  <2>4. CASE UNCHANGED syncVars
    BY <2>4 DEF syncVars, phone, server
  <2> QED
    BY <2>1, <2>2, <2>3, <2>4
<1>3. ASSUME NEW g \in Flights PROVE Fades(g)
  <2>1. ASSUME NEW f \in Flights, GiveUp(f) PROVE Fades(g)
    BY <1>1, <2>1 DEF GiveUp, FlightRows, Fades
  <2>2. ASSUME NEW f \in Flights, Lose(f) \/ Discard(f) PROVE Fades(g)
    BY <1>1, <2>2 DEF Lose, Discard, Fades
  <2>3. ASSUME NEW f \in Flights, Start(f) PROVE Fades(g)
    BY <2>3 DEF Start, Fades
  <2>4. ASSUME NEW f \in Flights, Answer(f) PROVE Fades(g)
    <3>1. serving = f /\ serving # Nothing
      BY <2>4, MobileAssumption DEF Answer
    <3>2. flight[f].at = "sent"
      BY <3>1 DEF SyncTypeOK
    <3>3. flight' = [flight EXCEPT ![f].at = "answered"]
      BY <2>4 DEF Answer
    <3> QED
      BY <1>1, <3>2, <3>3 DEF FlightRows, Fades
  <2>5. CASE \E u \in Units, t \in Patched : DirectStatus(u, t)
    BY <2>5 DEF DirectStatus, Fades
  <2>6. CASE ServerRestart
    BY <2>6 DEF ServerRestart, Fades
  <2>7. CASE UNCHANGED syncVars
    BY <2>7 DEF syncVars, Fades
  <2> QED
    BY <2>1, <2>2, <2>3, <2>4, <2>5, <2>6, <2>7
<1> QED
  BY <1>2, <1>3

\* A request of the whole queue lacks nothing that is undecided.
LEMMA QueueHasNoGap ==
  ASSUME SyncTypeOK, QueuedOrDecided, NEW u \in Units
  PROVE  NoGap(queue[u], decided[u], sent[u])
BY DEF QueuedOrDecided, NoGap

LEMMA RetryDelivery ==
  ASSUME SyncTypeOK, OrderInv, DeliveryInv, Awaiting, NEW u \in Units, NEW f \in Flights, Retry(u, f)
  PROVE  DeliveryInv'
<1>1. /\ queue[u] \in Seq(Ops)
      /\ UNCHANGED <<queue, what, sent, decided, memo>>
  BY DEF SyncTypeOK, Retry, phone, server
<1>2. /\ flight'[f].unit = u /\ flight'[f].batch = queue[u] /\ flight'[f].at # "idle"
      /\ flight'[f].done = 0 /\ flight'[f].settled = {}
      /\ flight[f].at = "idle"
  <2>1. Send(u, f, queue[u]) /\ flight \in [Flights -> FlightRows]
    BY DEF Retry, SyncTypeOK
  <2> QED
    BY <1>1, <2>1, SentFlight
<1>3. \A g \in Flights : g # f => flight'[g] = flight[g]
  <2>1. Send(u, f, queue[u]) /\ flight \in [Flights -> FlightRows]
    BY DEF Retry, SyncTypeOK
  <2> QED
    BY <1>1, <2>1, SentFlight
<1>4. ReportedOnce' /\ DecidedLeads' /\ QueuedOrDecided' /\ KnownIsDecided'
  BY <1>1 DEF DeliveryInv, ReportedOnce, DecidedLeads, QueuedOrDecided, KnownIsDecided, Known
<1>5. \A g \in Flights : flight[g].waiting => flight[g].unit # u
  BY DEF Retry, MayAct
<1>6. OneWaiting'
  BY <1>1, <1>2, <1>3, <1>5 DEF DeliveryInv, OneWaiting
<1>7. ASSUME NEW g \in Flights PROVE FlightSound(g)'
  <2>1. CASE g = f
    <3>1. NoGap(queue[u], decided[u], sent[u])
      BY QueueHasNoGap DEF DeliveryInv
    <3>2. \A i \in 1 .. Len(queue[u]) : ~ (i <= 0)
      BY <1>1
    <3> QED
      BY <1>1, <1>2, <2>1, <3>1, <3>2 DEF FlightSound
  <2>2. CASE g # f
    BY <1>1, <1>3, <2>2 DEF DeliveryInv, FlightSound
  <2> QED
    BY <2>1, <2>2
<1> QED
  BY <1>4, <1>6, <1>7 DEF DeliveryInv

LEMMA ReceiveDelivery ==
  ASSUME SyncTypeOK, OrderInv, DeliveryInv, NEW f \in Flights, ReceiveAnswer(f)
  PROVE  DeliveryInv'
<1> DEFINE u == flight[f].unit
<1>1. /\ u \in Units /\ flight[f].batch \in Seq(Ops)
      /\ flight[f].at # "idle" /\ flight[f].waiting
      /\ UNCHANGED <<what, sent, decided, memo>>
  BY DEF ReceiveAnswer, OrderInv, SyncTypeOK, FlightRows, server
<1>2. queue[u] = flight[f].batch
  BY <1>1 DEF DeliveryInv, OneWaiting
<1>3. /\ queue'[u] = Unsettled(queue[u], flight[f].settled)
      /\ \A v \in Units : v # u => queue'[v] = queue[v]
  BY <1>1, <1>2 DEF ReceiveAnswer, SyncTypeOK
<1>4. /\ flight'[f] = NoFlight
      /\ \A g \in Flights : g # f => flight'[g] = flight[g]
  BY DEF ReceiveAnswer, SyncTypeOK
<1>5. \A op \in flight[f].settled : In(op, decided[u])
  BY <1>1 DEF DeliveryInv, FlightSound
<1>6. \A g \in Flights : flight[g].waiting /\ flight[g].unit = u => g = f
  BY <1>1 DEF DeliveryInv, OneWaiting
<1> HIDE DEF u
<1>7. ReportedOnce' /\ DecidedLeads' /\ KnownIsDecided'
  BY <1>1 DEF DeliveryInv, ReportedOnce, DecidedLeads, KnownIsDecided, Known
<1>8. QueuedOrDecided'
  <2>1. ASSUME NEW v \in Units, NEW i \in 1 .. Len(sent[v])
        PROVE  In(sent[v][i], queue'[v]) \/ In(sent[v][i], decided[v])
    <3>1. In(sent[v][i], queue[v]) \/ In(sent[v][i], decided[v])
      BY DEF DeliveryInv, QueuedOrDecided
    <3>2. CASE v = u
      <4>1. queue[u] \in Seq(Ops)
        BY <1>1, <1>2
      <4> QED
        BY <1>3, <1>5, <3>1, <3>2, <4>1, InUnsettled
    <3>3. CASE v # u
      BY <1>3, <3>1, <3>3
    <3> QED
      BY <3>2, <3>3
  <2> QED
    BY <1>1, <2>1 DEF QueuedOrDecided
<1>9. OneWaiting'
  <2>1. ASSUME NEW g \in Flights, flight'[g].waiting
        PROVE  g # f /\ flight'[g] = flight[g] /\ flight[g].unit # u
    BY <1>4, <1>6, <2>1 DEF NoFlight
  <2>2. ASSUME NEW g \in Flights, flight'[g].waiting
        PROVE  /\ flight[g].at # "idle" /\ queue'[flight[g].unit] = flight[g].batch
               /\ \A h \in Flights : flight[h].waiting /\ flight[h].unit = flight[g].unit => h = g
    <3>1. /\ flight[g].at # "idle" /\ queue[flight[g].unit] = flight[g].batch
          /\ \A h \in Flights : flight[h].waiting /\ flight[h].unit = flight[g].unit => h = g
      BY <2>1, <2>2 DEF DeliveryInv, OneWaiting
    <3>2. flight[g].unit \in Units
      BY <3>1 DEF OrderInv
    <3> QED
      BY <1>3, <2>1, <2>2, <3>1, <3>2
  <2> QED
    BY <2>1, <2>2 DEF OneWaiting
<1>10. ASSUME NEW g \in Flights PROVE FlightSound(g)'
  <2>1. CASE g = f
    BY <1>4, <2>1 DEF FlightSound, NoFlight
  <2>2. CASE g # f
    BY <1>1, <1>4, <2>2 DEF DeliveryInv, FlightSound
  <2> QED
    BY <2>1, <2>2
<1> QED
  BY <1>7, <1>8, <1>9, <1>10 DEF DeliveryInv

LEMMA ReportDelivery ==
  ASSUME SyncTypeOK, OrderInv, DeliveryInv, Awaiting, NEW u \in Units, NEW f \in Flights,
         NEW op \in Ops, NEW p \in Payloads, Report(u, op, p, f)
  PROVE  DeliveryInv'
<1> DEFINE q == Append(queue[u], op)
           h == Append(sent[u], op)
<1>1. /\ queue[u] \in Seq(Ops) /\ sent[u] \in Seq(Ops) /\ q \in Seq(Ops)
      /\ UNCHANGED <<decided, memo>>
  BY DEF SyncTypeOK, Report, server
<1>2. /\ queue'[u] = q
      /\ \A v \in Units : v # u => queue'[v] = queue[v]
      /\ sent'[u] = h
      /\ \A v \in Units : v # u => sent'[v] = sent[v]
  BY DEF Report, Enqueue, SyncTypeOK
<1>3. /\ what[op] = Nothing /\ what'[op] # Nothing
      /\ \A x \in Ops : x # op => what'[x] = what[x]
  BY MobileAssumption DEF Report, SyncTypeOK
<1>4. Send(u, f, q) /\ flight \in [Flights -> FlightRows]
  BY DEF Report, Enqueue, SyncTypeOK
<1>5. /\ Len(h) = Len(sent[u]) + 1 /\ Len(sent[u]) \in Nat
      /\ \A i \in 1 .. Len(sent[u]) : h[i] = sent[u][i] /\ i \in 1 .. Len(h)
      /\ h[Len(h)] = op
  BY <1>1, AppendProperties
<1>6. \A i \in 1 .. Len(h) : i = Len(h) \/ i \in 1 .. Len(sent[u])
  BY <1>5
<1>7. /\ In(op, q)
      /\ \A x : In(x, queue[u]) => In(x, q)
      /\ \A x : In(x, q) => In(x, queue[u]) \/ x = op
  BY <1>1, InAppend
<1> HIDE DEF q, h
<1>8. /\ flight'[f].unit = u /\ flight'[f].batch = q /\ flight'[f].at # "idle"
      /\ flight'[f].done = 0 /\ flight'[f].settled = {}
      /\ flight[f].at = "idle"
  BY <1>1, <1>4, SentFlight
<1>9. \A g \in Flights : g # f => flight'[g] = flight[g]
  BY <1>1, <1>4, SentFlight
\* The new operation is new to every unit.
<1>10. \A v \in Units : \A i \in 1 .. Len(sent[v]) : sent[v][i] # op /\ sent[v][i] \in Ops
  <2>1. \A v \in Units : sent[v] \in Seq(Ops)
    BY DEF SyncTypeOK
  <2>2. \A v \in Units : \A i \in 1 .. Len(sent[v]) : sent[v][i] \in Ops
    BY <2>1, ElementOfSeq
  <2>3. \A v \in Units : \A i \in 1 .. Len(sent[v]) : what[sent[v][i]] # Nothing
    BY DEF DeliveryInv, ReportedOnce
  <2> QED
    BY <1>3, <2>2, <2>3
<1>11. ReportedOnce'
  <2>1. ASSUME NEW v \in Units, NEW i \in 1 .. Len(sent'[v])
        PROVE  \/ v = u /\ i = Len(h) /\ sent'[v][i] = op
               \/ i \in 1 .. Len(sent[v]) /\ sent'[v][i] = sent[v][i]
    BY <1>2, <1>5, <1>6
  <2>2. ASSUME NEW v \in Units, NEW w \in Units, NEW i \in 1 .. Len(sent'[v]),
               NEW j \in 1 .. Len(sent'[w]), sent'[v][i] = sent'[w][j]
        PROVE  v = w /\ i = j
    BY <1>10, <2>1, <2>2 DEF DeliveryInv, ReportedOnce
  <2>3. ASSUME NEW v \in Units, NEW i \in 1 .. Len(sent'[v])
        PROVE  what'[sent'[v][i]] # Nothing
    BY <1>3, <1>10, <2>1, <2>3 DEF DeliveryInv, ReportedOnce
  <2> QED
    BY <2>2, <2>3 DEF ReportedOnce
<1>12. DecidedLeads'
  <2>1. ASSUME NEW v \in Units PROVE Leads(decided[v], sent'[v])
    <3>1. Leads(decided[v], sent[v]) /\ decided[v] \in Seq(Ops)
      BY DEF DeliveryInv, DecidedLeads, SyncTypeOK
    <3>2. CASE v = u
      <4>1. Len(decided[u]) \in Nat /\ Len(decided[u]) <= Len(sent[u])
        BY <3>1, <3>2 DEF Leads
      <4>2. \A i \in 1 .. Len(decided[u]) : i \in 1 .. Len(sent[u])
        BY <1>5, <4>1
      <4> QED
        BY <1>2, <1>5, <3>1, <3>2, <4>1, <4>2 DEF Leads
    <3>3. CASE v # u
      BY <1>2, <3>1, <3>3
    <3> QED
      BY <3>2, <3>3
  <2> QED
    BY <1>1, <2>1 DEF DecidedLeads
<1>13. QueuedOrDecided'
  <2>1. ASSUME NEW v \in Units, NEW i \in 1 .. Len(sent'[v])
        PROVE  In(sent'[v][i], queue'[v]) \/ In(sent'[v][i], decided[v])
    <3>1. CASE v = u
      BY <1>2, <1>5, <1>6, <1>7, <3>1 DEF DeliveryInv, QueuedOrDecided
    <3>2. CASE v # u
      BY <1>2, <3>2 DEF DeliveryInv, QueuedOrDecided
    <3> QED
      BY <3>1, <3>2
  <2> QED
    BY <1>1, <2>1 DEF QueuedOrDecided
<1>14. KnownIsDecided'
  BY <1>1 DEF DeliveryInv, KnownIsDecided, Known
<1>15. OneWaiting'
  <2>1. \A g \in Flights : flight[g].waiting => flight[g].unit # u
    BY DEF Report, MayAct
  <2>2. ASSUME NEW g \in Flights, flight'[g].waiting
        PROVE  /\ flight'[g].at # "idle" /\ queue'[flight'[g].unit] = flight'[g].batch
               /\ \A k \in Flights : flight'[k].waiting /\ flight'[k].unit = flight'[g].unit => k = g
    <3>1. CASE g = f
      BY <1>2, <1>8, <1>9, <2>1, <3>1
    <3>2. CASE g # f
      <4>1. /\ flight[g].waiting /\ flight[g].at # "idle" /\ flight[g].unit # u
            /\ queue[flight[g].unit] = flight[g].batch
            /\ \A k \in Flights : flight[k].waiting /\ flight[k].unit = flight[g].unit => k = g
        BY <1>9, <2>1, <2>2, <3>2 DEF DeliveryInv, OneWaiting
      <4>2. flight[g].unit \in Units
        BY <4>1 DEF OrderInv
      <4> QED
        BY <1>2, <1>8, <1>9, <3>2, <4>1, <4>2
    <3> QED
      BY <3>1, <3>2
  <2> QED
    BY <2>2 DEF OneWaiting
<1>16. ASSUME NEW g \in Flights PROVE FlightSound(g)'
  <2>1. CASE g = f
    <3>1. NoGap(q, decided[u], h)
      <4>1. ASSUME NEW k \in 1 .. Len(h), NEW l \in 1 .. Len(h), k < l
            PROVE  In(h[k], q) \/ In(h[k], decided[u])
        <5>1. k \in 1 .. Len(sent[u])
          BY <1>5, <1>6, <4>1
        <5> QED
          BY <1>5, <1>7, <5>1 DEF DeliveryInv, QueuedOrDecided
      <4> QED
        BY <4>1 DEF NoGap
    <3>2. \A i \in 1 .. Len(q) : ~ (i <= 0)
      BY <1>1
    <3> QED
      BY <1>1, <1>2, <1>8, <2>1, <3>1, <3>2 DEF FlightSound
  <2>2. CASE g # f /\ flight[g].at # "idle"
    <3> DEFINE v == flight[g].unit
               b == flight[g].batch
    <3>1. v \in Units /\ StandsIn(b, sent[v]) /\ b \in Seq(Ops)
      BY <2>2 DEF OrderInv, SyncTypeOK, FlightRows
    <3>2. flight'[g] = flight[g] /\ FlightSound(g)
      BY <1>9, <2>2 DEF DeliveryInv
    <3>3. NoGap(b, decided[v], sent[v])
      BY <2>2, <3>2 DEF FlightSound
    <3>4. NoGap(b, decided[v], sent'[v])
      <4> HIDE DEF v, b
      <4>1. CASE v = u
        <5>1. ~ In(op, b)
          BY <1>10, <3>1 DEF In, StandsIn
        <5>2. ASSUME NEW k \in 1 .. Len(h), NEW l \in 1 .. Len(h), k < l, In(h[l], b)
              PROVE  In(h[k], b) \/ In(h[k], decided[u])
          <6>1. l \in 1 .. Len(sent[u])
            BY <1>5, <1>6, <5>1, <5>2
          <6>2. k \in 1 .. Len(sent[u])
            BY <1>5, <1>6, <5>2, <6>1
          <6> QED
            BY <1>5, <3>3, <4>1, <5>2, <6>1, <6>2 DEF NoGap
        <5> QED
          BY <1>2, <4>1, <5>2 DEF NoGap
      <4>2. CASE v # u
        BY <1>2, <3>1, <3>3, <4>2
      <4> QED
        BY <4>1, <4>2
    <3> QED
      BY <1>1, <2>2, <3>2, <3>4 DEF FlightSound
  <2>3. CASE g # f /\ flight[g].at = "idle"
    BY <1>9, <2>3 DEF FlightSound
  <2> QED
    BY <2>1, <2>2, <2>3
<1> QED
  BY <1>11, <1>12, <1>13, <1>14, <1>15, <1>16 DEF DeliveryInv

\* The operation a request is at is the next one its unit waits for, unless it is
\* decided already.
LEMMA CurrentIsNext ==
  ASSUME SyncTypeOK, OrderInv, DeliveryInv, NEW f \in Flights, ProcessOne(f)
  PROVE  LET u == flight[f].unit
             n == Len(decided[u]) + 1
         IN  \/ In(Current(f), decided[u])
             \/ n \in 1 .. Len(sent[u]) /\ sent[u][n] = Current(f)
<1> DEFINE u == flight[f].unit
           b == flight[f].batch
           d == decided[u]
           h == sent[u]
           op == Current(f)
           m == flight[f].done + 1
           n == Len(decided[u]) + 1
<1>1. flight[f].at = "sent" /\ m \in 1 .. Len(b) /\ op = b[m]
  BY CurrentTyped DEF Current
<1>2. u \in Units /\ StandsIn(b, h) /\ FlightSound(f)
  BY <1>1 DEF OrderInv, DeliveryInv
<1>3. b \in Seq(Ops) /\ d \in Seq(Ops) /\ h \in Seq(Ops) /\ flight[f].done \in Nat
  BY <1>2 DEF SyncTypeOK, FlightRows
<1>4. /\ \A i \in 1 .. Len(b) : i < m => In(b[i], d)
      /\ NoGap(b, d, h)
  <2>1. \A i \in 1 .. Len(b) : i <= flight[f].done => In(b[i], d)
    BY <1>1, <1>2 DEF FlightSound
  <2>2. \A i \in 1 .. Len(b) : i < m => i <= flight[f].done
    BY <1>3
  <2>3. NoGap(b, d, h)
    BY <1>1, <1>2 DEF FlightSound
  <2> QED
    BY <2>1, <2>2, <2>3
<1>5. Leads(d, h)
  BY <1>2 DEF DeliveryInv, DecidedLeads
<1>6. \A i, j \in 1 .. Len(h) : h[i] = h[j] => i = j
  BY <1>2 DEF DeliveryInv, ReportedOnce
<1>7. Len(d) \in Nat /\ Len(h) \in Nat /\ Len(b) \in Nat /\ n = Len(d) + 1
  BY <1>3
<1> HIDE DEF u, b, d, h, op, m, n
<1>8. SUFFICES ASSUME ~ In(op, d) PROVE n \in 1 .. Len(h) /\ h[n] = op
  BY DEF u, b, d, h, op, n
<1>9. PICK k \in 1 .. Len(h) : h[k] = op
  BY <1>1, <1>2 DEF StandsIn
<1>10. ~ (k \in 1 .. Len(d))
  BY <1>5, <1>8, <1>9 DEF Leads, In
<1>11. n <= k /\ n \in 1 .. Len(h)
  BY <1>7, <1>9, <1>10
<1>12. SUFFICES ASSUME n # k PROVE FALSE
  BY <1>9, <1>11
<1>13. n < k
  BY <1>7, <1>11, <1>12
<1>14. In(h[n], b) \/ In(h[n], d)
  BY <1>1, <1>4, <1>9, <1>11, <1>13 DEF NoGap, In
<1>15. ~ In(h[n], d)
  <2> SUFFICES ASSUME In(h[n], d) PROVE FALSE
    OBVIOUS
  <2>1. PICK i \in 1 .. Len(d) : d[i] = h[n]
    BY DEF In
  <2>2. i \in 1 .. Len(h) /\ h[i] = h[n] /\ i < n
    BY <1>5, <1>7, <2>1 DEF Leads
  <2> QED
    BY <1>6, <1>7, <1>11, <2>2
<1>16. PICK p \in 1 .. Len(b) : b[p] = h[n]
  BY <1>14, <1>15 DEF In
<1>17. ~ (p < m)
  BY <1>4, <1>15, <1>16
<1>18. p # m
  BY <1>1, <1>6, <1>9, <1>11, <1>12, <1>16
<1>19. m < p
  BY <1>1, <1>7, <1>17, <1>18
<1>20. PICK i \in 1 .. Len(h), j \in 1 .. Len(h) : i < j /\ h[i] = b[m] /\ h[j] = b[p]
  BY <1>1, <1>2, <1>19 DEF StandsIn
<1>21. i = k /\ j = n
  BY <1>1, <1>6, <1>9, <1>11, <1>16, <1>20
<1> QED
  BY <1>7, <1>9, <1>13, <1>20, <1>21

\* Processing an operation decides the next one of its unit, or decides nothing.
LEMMA Deciding ==
  ASSUME SyncTypeOK, OrderInv, DeliveryInv, NEW f \in Flights, ProcessOne(f)
  PROVE  LET u  == flight[f].unit
             op == Current(f)
             n  == Len(decided[u]) + 1
         IN  /\ u \in Units /\ op \in Ops
             /\ \/ decided' = decided /\ In(op, decided[u])
                \/ /\ n \in 1 .. Len(sent[u]) /\ op = sent[u][n]
                   /\ decided' = [decided EXCEPT ![u] = Append(@, op)]
             /\ \A x \in Ops : x # op => memo'[x] = memo[x]
<1> DEFINE u == flight[f].unit
           op == Current(f)
           n == Len(decided[u]) + 1
<1>1. flight[f].at = "sent" /\ op \in Ops
  BY CurrentTyped
<1>2. u \in Units
  BY <1>1 DEF OrderInv
<1>3. In(op, decided[u]) \/ (n \in 1 .. Len(sent[u]) /\ sent[u][n] = op)
  BY CurrentIsNext
<1>4. Apply(u, op) \/ Refuse(u, op) \/ Replay(op)
  BY DEF ProcessOne, Current
<1>5. decided[u] \in Seq(Ops) /\ sent[u] \in Seq(Ops) /\ memo \in [Ops -> Outcomes]
      /\ decided \in [Units -> Seq(Ops)]
  BY <1>2 DEF SyncTypeOK
<1>6. op \in Elements(decided[u]) <=> In(op, decided[u])
  BY <1>5, InElements
<1>7. Known(op) => In(op, decided[u])
  <2> SUFFICES ASSUME Known(op) PROVE In(op, decided[u])
    OBVIOUS
  <2>1. PICK v \in Units : In(op, decided[v])
    BY <1>1 DEF DeliveryInv, KnownIsDecided
  <2>2. PICK i \in 1 .. Len(sent[v]) : sent[v][i] = op
    BY <2>1, DecidedReported DEF DeliveryInv
  <2>3. PICK j \in 1 .. Len(sent[u]) : sent[u][j] = op
    <3>1. CASE In(op, decided[u])
      BY <1>2, <3>1, DecidedReported DEF DeliveryInv
    <3>2. CASE ~ In(op, decided[u])
      BY <1>3, <3>2
    <3> QED
      BY <3>1, <3>2
  <2>4. v = u
    BY <1>2, <2>2, <2>3 DEF DeliveryInv, ReportedOnce
  <2> QED
    BY <2>1, <2>4
<1>8. \A x \in Ops : x # op => memo'[x] = memo[x]
  BY <1>1, <1>4, <1>5 DEF Apply, Refuse, Replay, Remember, server
<1> HIDE DEF u, op
<1>9. \/ decided' = decided /\ In(op, decided[u])
      \/ /\ n \in 1 .. Len(sent[u]) /\ op = sent[u][n]
         /\ decided' = [decided EXCEPT ![u] = Append(@, op)]
  <2>1. CASE In(op, decided[u])
    <3>1. CASE Replay(op)
      BY <2>1, <3>1 DEF Replay, server
    <3>2. CASE Note(u, op)
      BY <1>5, <1>6, <2>1, <3>2 DEF Note
    <3> QED
      BY <1>4, <3>1, <3>2 DEF Apply, Refuse
  <2>2. CASE ~ In(op, decided[u])
    <3>1. Note(u, op)
      BY <1>4, <1>7, <2>2 DEF Apply, Refuse, Replay
    <3>2. decided' = [decided EXCEPT ![u] = Append(@, op)]
      BY <1>5, <1>6, <2>2, <3>1 DEF Note
    <3> QED
      BY <1>3, <2>2, <3>2
  <2> QED
    BY <2>1, <2>2
<1> QED
  BY <1>1, <1>2, <1>8, <1>9 DEF u, op

LEMMA ProcessDelivery ==
  ASSUME SyncTypeOK, OrderInv, DeliveryInv, NEW f \in Flights, ProcessOne(f)
  PROVE  DeliveryInv'
<1> DEFINE u == flight[f].unit
           op == Current(f)
           d == decided[u]
           n == Len(d) + 1
<1>1. /\ u \in Units /\ op \in Ops
      /\ \/ decided' = decided /\ In(op, d)
         \/ /\ n \in 1 .. Len(sent[u]) /\ op = sent[u][n]
            /\ decided' = [decided EXCEPT ![u] = Append(@, op)]
      /\ \A x \in Ops : x # op => memo'[x] = memo[x]
  BY Deciding
<1>2. UNCHANGED <<queue, what, sent>>
  BY DEF ProcessOne, phone
<1>3. /\ decided \in [Units -> Seq(Ops)] /\ d \in Seq(Ops) /\ sent[u] \in Seq(Ops)
      /\ decided' \in [Units -> Seq(Ops)]
  BY <1>1, ProcessTypeOK DEF SyncTypeOK
<1>4. /\ \A g \in Flights : g # f => flight'[g] = flight[g]
      /\ flight'[f].at = flight[f].at /\ flight'[f].unit = u
      /\ flight'[f].batch = flight[f].batch /\ flight'[f].waiting = flight[f].waiting
      /\ flight'[f].done = flight[f].done + 1
      /\ flight'[f].settled \subseteq flight[f].settled \cup {op}
  BY ProcessedFlight
<1>5. /\ flight[f].at # "idle" /\ flight[f].done \in Nat /\ op = flight[f].batch[flight[f].done + 1]
      /\ flight[f].batch \in Seq(Ops)
  BY CurrentTyped DEF SyncTypeOK, FlightRows, Current
<1> HIDE DEF u, op, d, n
<1>6. /\ In(op, decided'[u])
      /\ \A v \in Units : \A x : In(x, decided[v]) => In(x, decided'[v])
  <2>1. CASE decided' = decided /\ In(op, d)
    BY <2>1 DEF d
  <2>2. CASE decided' = [decided EXCEPT ![u] = Append(@, op)]
    <3>1. /\ decided'[u] = Append(d, op)
          /\ \A v \in Units : v # u => decided'[v] = decided[v]
      BY <1>1, <1>3, <2>2 DEF d
    <3>2. In(op, Append(d, op)) /\ \A x : In(x, d) => In(x, Append(d, op))
      BY <1>1, <1>3, InAppend
    <3> QED
      BY <3>1, <3>2 DEF d
  <2> QED
    BY <1>1, <2>1, <2>2
<1>7. ReportedOnce'
  BY <1>2 DEF DeliveryInv, ReportedOnce
<1>8. DecidedLeads'
  <2>1. ASSUME NEW v \in Units PROVE Leads(decided'[v], sent[v])
    <3>1. Leads(decided[v], sent[v])
      BY DEF DeliveryInv, DecidedLeads
    <3>2. CASE decided' = decided
      BY <3>1, <3>2
    <3>3. CASE /\ n \in 1 .. Len(sent[u]) /\ op = sent[u][n]
               /\ decided' = [decided EXCEPT ![u] = Append(@, op)]
      <4>1. CASE v = u
        <5> DEFINE e == Append(d, op)
        <5>1. decided'[u] = e
          BY <1>1, <1>3, <3>3 DEF d
        <5>2. /\ Len(e) = n /\ Len(d) \in Nat /\ n = Len(d) + 1
              /\ \A i \in 1 .. Len(d) : e[i] = d[i]
              /\ e[n] = op
          BY <1>1, <1>3, AppendProperties DEF n
        <5>3. \A i \in 1 .. n : i = n \/ i \in 1 .. Len(d)
          BY <5>2
        <5> HIDE DEF e
        <5>4. \A i \in 1 .. Len(e) : e[i] = sent[u][i]
          BY <3>1, <3>3, <4>1, <5>2, <5>3 DEF Leads, d
        <5>5. Len(e) <= Len(sent[u])
          BY <1>3, <3>3, <5>2
        <5> QED
          BY <4>1, <5>1, <5>4, <5>5 DEF Leads
      <4>2. CASE v # u
        BY <1>1, <1>3, <3>1, <3>3, <4>2
      <4> QED
        BY <4>1, <4>2
    <3> QED
      BY <1>1, <3>2, <3>3
  <2> QED
    BY <1>2, <2>1 DEF DecidedLeads
<1>9. QueuedOrDecided'
  BY <1>2, <1>6 DEF DeliveryInv, QueuedOrDecided
<1>10. KnownIsDecided'
  <2>1. ASSUME NEW x \in Ops, memo'[x] # "none" PROVE \E v \in Units : In(x, decided'[v])
    <3>1. CASE x = op
      BY <1>1, <1>6, <3>1
    <3>2. CASE x # op
      BY <1>1, <1>6, <2>1, <3>2 DEF DeliveryInv, KnownIsDecided, Known
    <3> QED
      BY <3>1, <3>2
  <2> QED
    BY <2>1 DEF KnownIsDecided, Known
<1>11. OneWaiting'
  <2>1. \A g \in Flights : /\ flight'[g].at = flight[g].at /\ flight'[g].unit = flight[g].unit
                           /\ flight'[g].batch = flight[g].batch
                           /\ flight'[g].waiting = flight[g].waiting
    BY <1>4 DEF u
  <2> QED
    BY <1>2, <2>1 DEF DeliveryInv, OneWaiting
<1>12. ASSUME NEW g \in Flights PROVE FlightSound(g)'
  <2> DEFINE v == flight[g].unit
             b == flight[g].batch
  <2>1. CASE flight[g].at = "idle"
    BY <1>4, <1>5, <2>1 DEF FlightSound
  <2>2. CASE flight[g].at # "idle"
    <3>1. /\ v \in Units
          /\ flight'[g].unit = v /\ flight'[g].batch = b
      BY <1>4, <2>2 DEF OrderInv, u
    <3>2. /\ \A x \in flight[g].settled : In(x, decided[v])
          /\ \A i \in 1 .. Len(b) : i <= flight[g].done => In(b[i], decided[v])
          /\ NoGap(b, decided[v], sent[v])
      BY <2>2 DEF DeliveryInv, FlightSound
    <3>3. g = f => v = u
      BY DEF u
    <3>4. g = f => op = b[flight[g].done + 1]
      BY <1>5
    <3>5. flight[g].done \in Nat
      BY DEF SyncTypeOK, FlightRows
    <3> HIDE DEF v, b
    <3>6. NoGap(b, decided'[v], sent[v])
      BY <1>6, <3>1, <3>2 DEF NoGap
    <3>7. \A x \in flight'[g].settled : In(x, decided'[v])
      <4>1. CASE g = f
        BY <1>4, <1>6, <3>1, <3>2, <3>3, <4>1
      <4>2. CASE g # f
        BY <1>4, <1>6, <3>1, <3>2, <4>2
      <4> QED
        BY <4>1, <4>2
    <3>8. ASSUME NEW i \in 1 .. Len(b), i <= flight'[g].done PROVE In(b[i], decided'[v])
      <4>1. CASE g = f /\ i = flight[g].done + 1
        BY <1>6, <3>3, <3>4, <4>1
      <4>2. CASE g # f \/ i # flight[g].done + 1
        <5>1. i <= flight[g].done
          BY <1>4, <3>5, <3>8, <4>2
        <5> QED
          BY <1>6, <3>1, <3>2, <5>1
      <4> QED
        BY <4>1, <4>2
    <3> QED
      BY <1>2, <3>1, <3>6, <3>7, <3>8 DEF FlightSound
  <2> QED
    BY <2>1, <2>2
<1> QED
  BY <1>7, <1>8, <1>9, <1>10, <1>11, <1>12 DEF DeliveryInv

LEMMA NextDelivery ==
  Awaiting /\ SyncTypeOK /\ OrderInv /\ DeliveryInv /\ [SyncNext]_syncVars => DeliveryInv'
<1> SUFFICES ASSUME Awaiting, SyncTypeOK, OrderInv, DeliveryInv, [SyncNext]_syncVars PROVE DeliveryInv'
  OBVIOUS
<1>1. CASE \/ \E f \in Flights : GiveUp(f) \/ Lose(f) \/ Discard(f) \/ Start(f) \/ Answer(f)
           \/ \E u \in Units, t \in Patched : DirectStatus(u, t)
           \/ ServerRestart
           \/ UNCHANGED syncVars
  <2>1. /\ UNCHANGED <<queue, what, sent, decided>>
        /\ \A op \in Ops : memo'[op] # "none" => memo[op] # "none"
        /\ \A g \in Flights : Fades(g)
    BY <1>1, QuietStep
  <2> QED
    BY <2>1, QuietDelivery
<1> QED
  BY <1>1, ReportDelivery, RetryDelivery, ReceiveDelivery, ProcessDelivery DEF SyncNext

DeliveryIInv == SyncTypeOK /\ OrderInv /\ DeliveryInv

LEMMA InitDeliveryIInv == SyncInit => DeliveryIInv
  BY InitTypeOK, InitOrder, InitDelivery DEF DeliveryIInv

LEMMA NextDeliveryIInv == Awaiting /\ DeliveryIInv /\ [SyncNext]_syncVars => DeliveryIInv'
  BY NextTypeOK, NextOrder, NextDelivery DEF DeliveryIInv

\* syncEngine.ts: when the app awaits a flush before the next, an action reported on
\* the phone is in its queue until the server has decided it, whatever requests and
\* answers the network loses and however often the server reboots.
THEOREM NothingIsEverLost == Awaiting /\ SyncSpec => []NothingLost
<1>1. DeliveryIInv => NothingLost
  <2> SUFFICES ASSUME DeliveryIInv, NEW u \in Units, NEW i \in DOMAIN sent[u]
               PROVE  sent[u][i] \in Elements(queue[u]) \cup Elements(decided[u])
    BY DEF NothingLost
  <2>1. queue[u] \in Seq(Ops) /\ decided[u] \in Seq(Ops) /\ i \in 1 .. Len(sent[u])
    BY DEF DeliveryIInv, SyncTypeOK
  <2>2. In(sent[u][i], queue[u]) \/ In(sent[u][i], decided[u])
    BY <2>1 DEF DeliveryIInv, DeliveryInv, QueuedOrDecided
  <2> QED
    BY <2>1, <2>2, InElements
<1>2. CASE Awaiting
  BY <1>1, <1>2, InitDeliveryIInv, NextDeliveryIInv, PTL DEF SyncSpec
<1> QED
  BY <1>2

LEMMA InitDelivers == SyncInit => Delivery!Init
BY DEF SyncInit, Delivery!Init

LEMMA NextDelivers ==
  ASSUME DeliveryIInv, [SyncNext]_syncVars
  PROVE  [Delivery!Next]_(Delivery!vars)
<1>1. CASE UNCHANGED <<sent, decided>>
  BY <1>1 DEF Delivery!vars
<1>2. ASSUME NEW u \in Units, NEW f \in Flights, NEW op \in Ops, NEW p \in Payloads,
             Report(u, op, p, f)
      PROVE  Delivery!Next
  <2>1. \A v \in Units : \A i \in DOMAIN sent[v] : sent[v][i] # op
    <3>1. \A v \in Units : DOMAIN sent[v] = 1 .. Len(sent[v])
      BY DEF DeliveryIInv, SyncTypeOK
    <3>2. \A v \in Units : \A i \in 1 .. Len(sent[v]) : what[sent[v][i]] # Nothing
      BY DEF DeliveryIInv, DeliveryInv, ReportedOnce
    <3> QED
      BY <1>2, <3>1, <3>2 DEF Report
  <2>2. Delivery!Submit(u, op)
    BY <1>2, <2>1 DEF Report, server, Delivery!Submit
  <2> QED
    BY <2>2 DEF Delivery!Next
<1>3. ASSUME NEW f \in Flights, ProcessOne(f), decided' # decided
      PROVE  Delivery!Next
  <2> DEFINE u == flight[f].unit
             n == Len(decided[u]) + 1
  <2>1. /\ u \in Units /\ n \in 1 .. Len(sent[u])
        /\ decided' = [decided EXCEPT ![u] = Append(@, sent[u][n])]
    BY <1>3, Deciding DEF DeliveryIInv
  <2>2. sent' = sent
    BY <1>3 DEF ProcessOne, phone
  <2>3. Len(decided[u]) \in Nat /\ Len(sent[u]) \in Nat
    BY <2>1 DEF DeliveryIInv, SyncTypeOK
  <2> HIDE DEF u
  <2>4. Delivery!Decide(u)
    BY <2>1, <2>2, <2>3 DEF Delivery!Decide
  <2> QED
    BY <2>1, <2>4 DEF Delivery!Next
<1>4. ASSUME NEW f \in Flights, ProcessOne(f), decided' = decided
      PROVE  UNCHANGED <<sent, decided>>
  BY <1>4 DEF ProcessOne, phone
<1>5. CASE \/ \E f \in Flights : ReceiveAnswer(f) \/ GiveUp(f) \/ Lose(f) \/ Discard(f)
                                 \/ Start(f) \/ Answer(f)
           \/ \E u \in Units, f \in Flights : Retry(u, f)
           \/ \E u \in Units, t \in Patched : DirectStatus(u, t)
           \/ ServerRestart
           \/ UNCHANGED syncVars
  <2>1. UNCHANGED <<sent, decided>>
    BY <1>5 DEF ReceiveAnswer, GiveUp, Lose, Discard, Start, Answer, Retry, DirectStatus,
                ServerRestart, syncVars, phone, server
  <2> QED
    BY <1>1, <2>1
<1> QED
  BY <1>1, <1>2, <1>3, <1>4, <1>5 DEF SyncNext

\* offline.py promises "idempotent, ordered application" of what a field unit did offline:
\* when the app awaits its flushes, the phones, the network and the restarting server
\* implement the abstract delivery of operations in the order of reporting.
THEOREM OrderedDeliveryImplemented == Awaiting /\ SyncSpec => ImplementsOrderedDelivery
<1>1. CASE Awaiting
  <2>1. DeliveryIInv /\ [SyncNext]_syncVars => [Delivery!Next]_(Delivery!vars)
    BY NextDelivers
  <2> QED
    BY <1>1, <2>1, InitDelivers, InitDeliveryIInv, NextDeliveryIInv, PTL
       DEF SyncSpec, ImplementsOrderedDelivery, Delivery!Spec
<1> QED
  BY <1>1
=============================================================================
