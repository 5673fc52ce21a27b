---------------------------- MODULE IncidentProofs ----------------------------
(***************************************************************************)
(* Proofs about IncidentService for every set of requests, request bodies   *)
(* and pool size, whatever overlaps.                                        *)
(***************************************************************************)
EXTENDS IncidentService, FiniteSetTheorems, SequenceTheorems, TLAPS

-----------------------------------------------------------------------------
(* What every component that extends Sessions may rely on: a step changes   *)
(* one session, and while no two sessions have overlapped the one that is   *)
(* open is the only one.                                                    *)

USE SessionsAssumption

SessionRow(s) == s = [at |-> s.at, op |-> s.op, seen |-> s.seen] /\ s.at \in Places

SessionsOK ==
  /\ session = [r \in Requests |-> session[r]]
  /\ \A r \in Requests : SessionRow(session[r])
  /\ overlapped \in BOOLEAN
  /\ ~overlapped => \A q, r \in Open : q = r

OthersKeep(r) == \A q \in Requests \ {r} : session'[q] = session[q]

LEMMA SessionsInitial ==
  SessionsInit => SessionsOK /\ ~overlapped /\ \A r \in Requests : session[r].at = "idle"
<1> SUFFICES ASSUME SessionsInit
             PROVE  SessionsOK /\ ~overlapped /\ \A r \in Requests : session[r].at = "idle"
  OBVIOUS
<1>1. \A r \in Requests : session[r] = [at |-> "idle", op |-> None, seen |-> None]
  BY DEF SessionsInit
<1>2. session = [r \in Requests |-> session[r]] /\ overlapped = FALSE
  BY DEF SessionsInit
<1>3. \A r \in Requests : SessionRow(session[r]) /\ session[r].at = "idle"
  BY <1>1 DEF SessionRow, Places
<1> QED
  BY <1>2, <1>3 DEF SessionsOK, Open

LEMMA BeginStep ==
  ASSUME SessionsOK, NEW r \in Requests, NEW op, NEW seen, Begin(r, op, seen)
  PROVE  /\ SessionsOK'
         /\ session[r].at = "idle" /\ OthersKeep(r)
         /\ session'[r].at = "row" /\ session'[r].op = op /\ session'[r].seen = seen
         /\ ~overlapped' => ~overlapped /\ \A q \in Requests : q \notin Open
<1>1. /\ session[r].at = "idle"
      /\ session' = [session EXCEPT ![r] = [at |-> "row", op |-> op, seen |-> seen]]
      /\ overlapped' = (overlapped \/ Open # {})
  BY DEF Begin
<1>2. session'[r] = [at |-> "row", op |-> op, seen |-> seen] /\ OthersKeep(r)
  BY <1>1 DEF SessionsOK, OthersKeep
<1>3. session' = [q \in Requests |-> session'[q]]
  BY <1>1 DEF SessionsOK
<1>4. \A q \in Requests : SessionRow(session'[q])
  BY <1>2 DEF SessionsOK, SessionRow, Places, OthersKeep
<1>5. overlapped' \in BOOLEAN /\ (~overlapped' => ~overlapped /\ \A q \in Requests : q \notin Open)
  BY <1>1
<1>6. ~overlapped' => \A p, q \in Open' : p = q
  BY <1>2, <1>5 DEF Open, OthersKeep
<1> QED
  BY <1>1, <1>2, <1>3, <1>4, <1>5, <1>6 DEF SessionsOK

LEMMA LoadStep ==
  ASSUME SessionsOK, NEW r \in Requests, NEW seen, Load(r, seen)
  PROVE  /\ SessionsOK'
         /\ session[r].at = "row" /\ OthersKeep(r)
         /\ session'[r].at = "loaded" /\ session'[r].op = session[r].op
         /\ session'[r].seen = seen
         /\ overlapped' = overlapped
<1>1. /\ session[r].at = "row"
      /\ session' = [session EXCEPT ![r].at = "loaded", ![r].seen = seen]
      /\ overlapped' = overlapped
  BY DEF Load
<1>2. SessionRow(session[r])
  BY DEF SessionsOK
<1>3. /\ session'[r].at = "loaded" /\ session'[r].op = session[r].op
      /\ session'[r].seen = seen /\ SessionRow(session'[r])
  BY <1>1, <1>2 DEF SessionsOK, SessionRow, Places
<1>4. OthersKeep(r)
  BY <1>1 DEF SessionsOK, OthersKeep
<1>5. session' = [q \in Requests |-> session'[q]]
  BY <1>1 DEF SessionsOK
<1>6. \A q \in Requests : SessionRow(session'[q])
  BY <1>3, <1>4 DEF SessionsOK, OthersKeep
<1>7. ~overlapped' => \A p, q \in Open' : p = q
  BY <1>1, <1>4 DEF SessionsOK, Open, OthersKeep
<1> QED
  BY <1>1, <1>3, <1>4, <1>5, <1>6, <1>7 DEF SessionsOK

LEMMA FinishStep ==
  ASSUME SessionsOK, NEW r \in Requests, NEW at \in {"done", "failed"}, Finish(r, at)
  PROVE  /\ SessionsOK'
         /\ OthersKeep(r)
         /\ session'[r].at = at /\ (at = "done" => session'[r].op = session[r].op)
         /\ overlapped' = overlapped
<1> DEFINE row == [at |-> at, seen |-> None, op |-> IF at = "done" THEN session[r].op ELSE None]
<1>1. /\ session' = [session EXCEPT ![r] = row]
      /\ overlapped' = overlapped
  BY DEF Finish
<1>2. session'[r] = row /\ OthersKeep(r)
  BY <1>1 DEF SessionsOK, OthersKeep
<1>3. session' = [q \in Requests |-> session'[q]]
  BY <1>1 DEF SessionsOK
<1>4. \A q \in Requests : SessionRow(session'[q])
  BY <1>2 DEF SessionsOK, SessionRow, Places, OthersKeep
<1>5. ~overlapped' => \A p, q \in Open' : p = q
  BY <1>1, <1>2 DEF SessionsOK, Open, OthersKeep
<1> QED
  BY <1>1, <1>2, <1>3, <1>4, <1>5 DEF SessionsOK

\* A session that is open is the only one, as long as nothing overlapped.
LEMMA OpenAlone ==
  ASSUME SessionsOK, ~overlapped, NEW r \in Requests, r \in Open
  PROVE  \A q \in Requests \ {r} : q \notin Open
  BY DEF SessionsOK

LEMMA SessionsStutter ==
  ASSUME SessionsOK, UNCHANGED sessionVars
  PROVE  SessionsOK' /\ UNCHANGED <<session, overlapped>>
  BY DEF SessionsOK, SessionRow, Open, sessionVars

-----------------------------------------------------------------------------
(* The columns of a card.                                                   *)

Columns == {"status", "confirmed", "closed", "archived", "typed", "priority",
            "address", "coords"}

\* Two cards are one when their columns are.
LEMMA CardColumns ==
  ASSUME NEW c \in CardRows
  PROVE  /\ DOMAIN c = Columns
         /\ c.status = c["status"] /\ c.confirmed = c["confirmed"]
         /\ c.closed = c["closed"] /\ c.archived = c["archived"]
         /\ c.typed = c["typed"] /\ c.priority = c["priority"]
         /\ c.address = c["address"] /\ c.coords = c["coords"]
  BY DEF CardRows, Columns

\* A commit writes a column of the card or leaves it, one by one.
LEMMA MergeCard ==
  ASSUME NEW row \in CardRows, NEW seen \in CardRows, NEW mine \in CardRows
  PROVE  LET m == Merge(row, seen, mine)
         IN  /\ m \in CardRows
             /\ \A f \in Columns : m[f] = IF mine[f] = seen[f] THEN row[f] ELSE mine[f]
<1> DEFINE m == Merge(row, seen, mine)
<1>1. m = [f \in Columns |-> IF mine[f] = seen[f] THEN row[f] ELSE mine[f]]
  BY CardColumns DEF Merge
<1>2. \A f \in Columns : m[f] = IF mine[f] = seen[f] THEN row[f] ELSE mine[f]
  BY <1>1
<1> HIDE DEF m
<1>3. m \in CardRows
  BY <1>1, <1>2 DEF CardRows, Columns
<1> QED
  BY <1>2, <1>3 DEF m

LEMMA MergeSame ==
  ASSUME NEW seen \in CardRows, NEW mine \in CardRows
  PROVE  Merge(seen, seen, mine) = mine
  BY CardColumns DEF Merge, CardRows, Columns

\* What a PUT body makes of the card it was read from.
LEMMA WrittenCard ==
  ASSUME NEW seen \in CardRows, NEW fields \in Updates
  PROVE  LET w == Written(seen, fields)
         IN  /\ Storable(w) => w \in CardRows
             /\ \A f \in Columns \ Tracked : w[f] = seen[f]
<1> DEFINE w == Written(seen, fields)
<1>1. w = [f \in Columns |-> IF f \in DOMAIN fields THEN fields[f] ELSE seen[f]]
  BY CardColumns DEF Written
<1>2. \A f \in Columns : w[f] = IF f \in DOMAIN fields THEN fields[f] ELSE seen[f]
  BY <1>1
<1>3. w.priority = w["priority"]
  BY <1>1 DEF Columns
<1> HIDE DEF w
<1>4. /\ w["typed"] \in {"yes", None} /\ w["address"] \in {"a1", "a2", None}
      /\ w["coords"] \in {"c1", "c2", None}
      /\ w["priority"] \in {"normal", "high", None}
  BY <1>2, CardColumns, IncidentAssumption DEF Columns, CardRows
<1>5. \A f \in Columns \ Tracked : w[f] = seen[f]
  BY <1>2, IncidentAssumption DEF Tracked
<1>6. Storable(w) => w \in CardRows
  <2> SUFFICES ASSUME w["priority"] # None PROVE w \in CardRows
    BY <1>3 DEF Storable
  <2>1. /\ w["status"] \in Statuses
        /\ w["confirmed"] \in Requests \cup {Earlier, None}
        /\ w["closed"] \in Requests \cup {Earlier, None}
        /\ w["archived"] \in Requests \cup {Earlier, None}
    BY <1>5, CardColumns DEF CardRows, Columns, Tracked
  <2> QED
    BY <1>1, <1>4, <2>1 DEF CardRows, Columns
<1> QED
  BY <1>5, <1>6 DEF w

\* A new status touches the stamps of that status only.
LEMMA StampedCard ==
  ASSUME NEW row \in CardRows, NEW t \in Statuses, NEW r \in Requests
  PROVE  LET s == Stamped(row, t, r)
         IN  /\ s \in CardRows
             /\ s.status = t
             /\ s.closed = IF t \in {"completed", "cancelled"} THEN r ELSE row.closed
             /\ s.archived = IF t = "archived" THEN r ELSE row.archived
             /\ \A f \in Tracked : s[f] = row[f]
  BY CardColumns DEF Stamped, CardRows, Columns, Tracked

\* Where a move comes from: a card that is open stays or becomes closed, and only
\* a closed one is archived.
LEMMA TransitionFacts ==
  ASSUME NEW s \in Statuses, NEW t, CanTransition(s, t)
  PROVE  /\ t \in Statuses /\ t # s
         /\ t \in Active => s \in Active
         /\ t = "archived" => s \notin Active
         /\ t \notin Active => t \in {"completed", "cancelled", "archived"}
  BY DEF CanTransition, Transitions, Statuses, Active

\* The links after a recommendation: the new one is the last and is current, and
\* when all of them were loaded it is the only one.
LEMMA LinkedLinks ==
  ASSUME links \in Seq(LinkRows), NEW loaded \in Seq(LinkRows), NEW r \in Requests
  PROVE  LET l == Linked(loaded, r)
         IN  /\ l \in Seq(LinkRows)
             /\ l # <<>> /\ l[Len(l)].current
             /\ loaded = links => \A i, j \in 1 .. Len(l) :
                                    l[i].current /\ l[j].current => i = j
<1> DEFINE old == [i \in 1 .. Len(links) |->
                     IF i <= Len(loaded) THEN [links[i] EXCEPT !.current = FALSE] ELSE links[i]]
           new == [by |-> r, current |-> TRUE]
<1>1. new \in LinkRows /\ new.current
  BY DEF LinkRows
<1>2. \A i \in 1 .. Len(links) : /\ links[i] \in LinkRows
                                 /\ [links[i] EXCEPT !.current = FALSE] \in LinkRows
                                 /\ ~[links[i] EXCEPT !.current = FALSE].current
  <2>1. \A i \in 1 .. Len(links) : links[i] \in LinkRows
    BY ElementOfSeq
  <2>2. \A l \in LinkRows : /\ [l EXCEPT !.current = FALSE] \in LinkRows
                             /\ ~[l EXCEPT !.current = FALSE].current
    BY DEF LinkRows
  <2> QED
    BY <2>1, <2>2
<1>3. Len(links) \in Nat /\ Len(loaded) \in Nat
  OBVIOUS
<1>4. old \in Seq(LinkRows) /\ Len(old) = Len(links)
  BY <1>2, <1>3
<1>5. ASSUME loaded = links, NEW i \in 1 .. Len(links) PROVE ~old[i].current
  <2>1. old[i] = [links[i] EXCEPT !.current = FALSE]
    BY <1>3, <1>5
  <2> HIDE DEF old
  <2> QED
    BY <1>2, <2>1
<1>6. Linked(loaded, r) = Append(old, new)
  BY DEF Linked
<1> HIDE DEF old, new
<1> DEFINE l == Append(old, new)
<1>7. /\ l \in Seq(LinkRows) /\ Len(l) = Len(links) + 1
      /\ l[Len(l)] = new
      /\ \A i \in 1 .. Len(links) : l[i] = old[i]
  BY <1>1, <1>3, <1>4, AppendProperties
<1>8. ASSUME loaded = links, NEW i \in 1 .. Len(l), l[i].current
      PROVE  i = Len(l)
  <2>1. CASE i \in 1 .. Len(links)
    BY <1>5, <1>7, <1>8, <2>1
  <2> QED
    BY <1>3, <1>7, <2>1
<1> HIDE DEF l
<1>9. l # <<>>
  BY <1>3, <1>7
<1> QED
  BY <1>1, <1>6, <1>7, <1>8, <1>9 DEF l

LEMMA MergeLocation ==
  ASSUME NEW l \in LocationRows, NEW p \in LocationRows, NEW row \in CardRows
  PROVE  LET m == Merge(l, p, [p EXCEPT !.address = row.address, !.coords = row.coords])
         IN  /\ m \in LocationRows
             /\ l = p => m.address = row.address /\ m.coords = row.coords
<1> DEFINE q == [p EXCEPT !.address = row.address, !.coords = row.coords]
           m == Merge(l, p, q)
<1>1. q \in LocationRows /\ q.address = row.address /\ q.coords = row.coords
  BY DEF LocationRows, CardRows
<1> HIDE DEF q
<1>2. /\ DOMAIN l = {"by", "address", "coords"}
      /\ \A x \in {l, p, q} : /\ x.by = x["by"] /\ x.address = x["address"]
                              /\ x.coords = x["coords"]
  BY <1>1 DEF LocationRows
<1>3. m = [f \in {"by", "address", "coords"} |-> IF q[f] = p[f] THEN l[f] ELSE q[f]]
  BY <1>2 DEF Merge
<1>4. \A f \in {"by", "address", "coords"} : m[f] = IF q[f] = p[f] THEN l[f] ELSE q[f]
  BY <1>3
<1>5. m.address = m["address"] /\ m.coords = m["coords"]
  BY <1>3
<1> HIDE DEF m
<1>6. m \in LocationRows
  BY <1>1, <1>3, <1>4 DEF LocationRows
<1>7. l = p => m.address = row.address /\ m.coords = row.coords
  BY <1>1, <1>2, <1>4, <1>5
<1> QED
  BY <1>6, <1>7 DEF m, q

\* A card with one location at most keeps one, and it says what the card says.
LEMMA SyncPrimaryRows ==
  ASSUME locations \subseteq LocationRows, NEW loaded \in SUBSET LocationRows,
         NEW row \in CardRows, NEW r \in Requests, NEW new \in SyncPrimary(loaded, row, r)
  PROVE  /\ new \subseteq LocationRows
         /\ loaded = locations /\ (\A l, m \in locations : l = m) =>
              /\ new # {}
              /\ \A l, m \in new : l = m
              /\ \A l \in new : l.address = row.address /\ l.coords = row.coords
<1> DEFINE added == [by |-> r, address |-> row.address, coords |-> row.coords]
<1>1. added \in LocationRows /\ added.address = row.address /\ added.coords = row.coords
  BY DEF LocationRows, CardRows
<1> HIDE DEF added
<1>2. CASE loaded = {}
  <2>1. new = locations \cup {added}
    BY <1>2 DEF SyncPrimary, added
  <2> QED
    BY <1>1, <1>2, <2>1
<1>3. CASE loaded # {}
  <2> DEFINE moved(l, p) ==
        Merge(l, p, [p EXCEPT !.address = row.address, !.coords = row.coords])
  <2>1. PICK p \in loaded : new = {IF l.by = p.by THEN moved(l, p) ELSE l : l \in locations}
    BY <1>3 DEF SyncPrimary
  <2>2. \A l \in locations : moved(l, p) \in LocationRows
    BY MergeLocation
  <2>3. \A l \in locations : l = p => /\ moved(l, p).address = row.address
                                      /\ moved(l, p).coords = row.coords
    BY ZenonT(30), MergeLocation
  <2> HIDE DEF moved
  <2>4. new \subseteq LocationRows
    BY <2>1, <2>2
  <2>5. ASSUME loaded = locations, \A l, m \in locations : l = m
        PROVE  new = {moved(p, p)}
    <3>1. \A l \in locations : l = p
      BY <2>5
    <3> QED
      BY <2>1, <2>5, <3>1
  <2> QED
    BY <2>1, <2>3, <2>4, <2>5
<1> QED
  BY <1>2, <1>3

-----------------------------------------------------------------------------
(* The inductive invariant.                                                 *)

\* What the tables hold was written by requests that are over.
MarksAreDone ==
  /\ card # None => /\ card.closed \in Requests => session[card.closed].at = "done"
                    /\ card.archived \in Requests => session[card.archived].at = "done"
  /\ \A h \in history : session[h.by].at = "done"
  /\ \A c \in comments : session[c].at = "done"

\* What a request has read was committed and is older than itself: a card that it
\* saw is still there, closed if it was closed, and the units it saw are on it.
SeenIsOld(r) ==
  r \in Open =>
    /\ session[r].op \in Operations
    /\ Seen(r).card \in CardRows \cup {None}
    /\ Seen(r).card # None =>
         /\ card # None
         /\ Seen(r).card.closed # r /\ Seen(r).card.archived # r
         /\ Seen(r).card.closed # None => card.closed # None
         /\ Seen(r).card.status \notin Active => Seen(r).card.closed # None
    /\ session[r].at = "loaded" =>
         /\ Seen(r).card # None /\ session[r].op.kind # "create"
         /\ Seen(r).locations \subseteq LocationRows
         /\ Seen(r).links \in Seq(LinkRows)
         /\ Seen(r).units \subseteq OnCard

\* As long as nothing has overlapped it is what there is, and the requests that
\* came later than the reader have not begun.
SeenIsCurrent(r) ==
  r \in Open /\ ~overlapped =>
    /\ Seen(r).card = card
    /\ \A q \in Seen(r).later : q \in Requests /\ session[q].at = "idle"
    /\ session[r].at = "loaded" => /\ Seen(r).locations = locations
                                   /\ Seen(r).links = links
                                   /\ Seen(r).comments = comments

\* PrimaryInSync, without counting.
OnePrimary ==
  ~overlapped /\ card # None =>
    /\ \A l, m \in locations : l = m
    /\ locations = {} => card.address = None /\ card.coords = None
    /\ \A l \in locations : l.address = card.address /\ l.coords = card.coords

CardInv ==
  /\ ClosedIsStamped /\ LatestIsCurrent /\ AssignedOnce
  /\ OpenIsNotStamped /\ OneIsCurrent /\ OnePrimary /\ EchoIsOwn

IncidentInv ==
  /\ SessionsOK /\ TypeOK /\ MarksAreDone
  /\ \A r \in Requests : SeenIsOld(r) /\ SeenIsCurrent(r)
  /\ CardInv

-----------------------------------------------------------------------------
(* Steps that leave the tables alone.                                       *)

LEMMA OperationArgument ==
  ASSUME NEW op \in Operations
  PROVE  /\ op.kind = "create" => op.arg \in Cards
         /\ op.kind = "update" => op.arg \in Updates
         /\ op.kind = "status" => op.arg \in Targets
         /\ op.kind = "units" => op.arg \in UnitLists
  BY DEF Operations, Operation

LEMMA TablesKept ==
  ASSUME IncidentInv, NEW r \in Requests, UNCHANGED <<tables, echo>>, OthersKeep(r),
         session[r].at # "done", session'[r].at # "done", overlapped => overlapped',
         overlapped \in BOOLEAN, overlapped' \in BOOLEAN
  PROVE  TypeOK' /\ MarksAreDone' /\ CardInv'
<1>1. UNCHANGED <<card, locations, links, dispatches, comments, history, timeline, echo>>
  BY DEF tables
<1>2. \A q \in Requests : session[q].at = "done" => session'[q] = session[q]
  BY DEF OthersKeep
<1>3. TypeOK'
  BY <1>1 DEF IncidentInv, TypeOK
<1>4. /\ \A h \in history : h.by \in Requests
      /\ comments \subseteq Requests
  BY DEF IncidentInv, TypeOK, HistoryRows
<1>5. MarksAreDone'
  BY <1>1, <1>2, <1>4 DEF IncidentInv, MarksAreDone
<1>6. AssignedOnce'
  <2>1. \A q \in Done' : q \in Done /\ session'[q] = session[q]
    BY DEF Done, OthersKeep
  <2> QED
    BY <1>1, <2>1 DEF IncidentInv, CardInv, AssignedOnce
<1>7. ClosedIsStamped' /\ LatestIsCurrent'
  BY <1>1 DEF IncidentInv, CardInv, ClosedIsStamped, LatestIsCurrent
<1>8. OpenIsNotStamped' /\ OneIsCurrent' /\ OnePrimary' /\ EchoIsOwn'
  BY <1>1 DEF IncidentInv, CardInv, OpenIsNotStamped, OneIsCurrent, OnePrimary, EchoIsOwn
<1> QED
  BY <1>3, <1>5, <1>6, <1>7, <1>8 DEF CardInv

LEMMA ReceiveStep ==
  ASSUME IncidentInv, NEW r \in Requests, NEW op \in Operations, Receive(r, op)
  PROVE  IncidentInv'
<1> DEFINE seen == [card |-> card, later |-> NotBegun \ {r}]
<1>1. /\ SessionsOK' /\ session[r].at = "idle" /\ OthersKeep(r)
      /\ session'[r].at = "row" /\ session'[r].op = op /\ session'[r].seen = seen
      /\ ~overlapped' => ~overlapped /\ \A q \in Requests : q \notin Open
  BY BeginStep DEF Receive, IncidentInv
<1>2. UNCHANGED <<tables, echo>>
  BY DEF Receive
<1>3. overlapped \in BOOLEAN /\ overlapped' \in BOOLEAN
  BY <1>1 DEF IncidentInv, SessionsOK
<1>4. TypeOK' /\ MarksAreDone' /\ CardInv'
  BY <1>1, <1>2, <1>3, TablesKept
<1>5. UNCHANGED <<card, locations, links, dispatches, comments>>
  BY <1>2 DEF tables
<1>6. seen.card = card /\ seen.later = NotBegun \ {r}
  OBVIOUS
<1> HIDE DEF seen
<1>7. SeenIsOld(r)'
  BY <1>1, <1>5, <1>6 DEF IncidentInv, TypeOK, MarksAreDone, CardInv, ClosedIsStamped,
     SeenIsOld, Open, Seen
<1>8. SeenIsCurrent(r)'
  BY <1>1, <1>5, <1>6 DEF SeenIsCurrent, Seen, NotBegun, OthersKeep
<1>9. ASSUME NEW q \in Requests, q # r PROVE SeenIsOld(q)' /\ SeenIsCurrent(q)'
  <2>1. session'[q] = session[q]
    BY <1>1, <1>9 DEF OthersKeep
  <2>2. SeenIsOld(q)'
    BY <1>5, <2>1 DEF IncidentInv, SeenIsOld, Open, Seen, OnCard
  <2>3. SeenIsCurrent(q)'
    BY <1>1, <2>1 DEF SeenIsCurrent, Open
  <2> QED
    BY <2>2, <2>3
<1> QED
  BY <1>1, <1>4, <1>7, <1>8, <1>9 DEF IncidentInv

LEMMA LoadCollectionsStep ==
  ASSUME IncidentInv, NEW r \in Requests, LoadCollections(r)
  PROVE  IncidentInv'
<1> DEFINE seen == [card |-> session[r].seen.card, later |-> session[r].seen.later,
                    locations |-> locations, links |-> links,
                    units |-> {d.unit : d \in dispatches}, comments |-> comments]
<1>1. /\ SessionsOK' /\ session[r].at = "row" /\ OthersKeep(r)
      /\ session'[r].at = "loaded" /\ session'[r].op = session[r].op
      /\ session'[r].seen = seen /\ overlapped' = overlapped
  BY LoadStep DEF LoadCollections, IncidentInv
<1>2. UNCHANGED <<tables, echo>> /\ Seen(r).card # None /\ session[r].op.kind # "create"
  BY DEF LoadCollections, Seen
<1>3. TypeOK' /\ MarksAreDone' /\ CardInv'
  BY <1>1, <1>2, TablesKept DEF IncidentInv, SessionsOK
<1>4. UNCHANGED <<card, locations, links, dispatches, comments>>
  BY <1>2 DEF tables
<1>5. /\ seen.card = Seen(r).card /\ seen.later = Seen(r).later
      /\ seen.locations = locations /\ seen.links = links /\ seen.units = OnCard
      /\ seen.comments = comments
  BY DEF Seen, OnCard
<1> HIDE DEF seen
<1>6. SeenIsOld(r) /\ SeenIsCurrent(r) /\ r \in Open
  BY <1>1 DEF IncidentInv, Open
<1>7. SeenIsOld(r)'
  <2>1. Seen(r)' = seen
    BY <1>1 DEF Seen
  <2>2. locations \subseteq LocationRows /\ links \in Seq(LinkRows)
    BY DEF IncidentInv, TypeOK
  <2> QED
    BY <1>1, <1>2, <1>4, <1>5, <1>6, <2>1, <2>2 DEF SeenIsOld, OnCard
<1>8. SeenIsCurrent(r)'
  <2>1. Seen(r)' = seen
    BY <1>1 DEF Seen
  <2> QED
    BY <1>1, <1>4, <1>5, <1>6, <2>1 DEF SeenIsCurrent, OthersKeep
<1>9. ASSUME NEW q \in Requests, q # r PROVE SeenIsOld(q)' /\ SeenIsCurrent(q)'
  <2>1. session'[q] = session[q]
    BY <1>1, <1>9 DEF OthersKeep
  <2>2. SeenIsOld(q)'
    BY <1>4, <2>1 DEF IncidentInv, SeenIsOld, Open, Seen, OnCard
  <2>3. ~overlapped => q \notin Open
    BY <1>6, <1>9 DEF IncidentInv, SessionsOK
  <2>4. SeenIsCurrent(q)'
    BY <1>1, <2>1, <2>3 DEF SeenIsCurrent, Open
  <2> QED
    BY <2>2, <2>4
<1> QED
  BY <1>1, <1>3, <1>7, <1>8, <1>9 DEF IncidentInv

\* The end of a request: the other sessions stay as they were, and what they have
\* read stays older than the tables.
LEMMA SessionsAfter ==
  ASSUME IncidentInv, NEW r \in Requests, r \in Open, NEW at \in {"done", "failed"},
         Finish(r, at), OnCard \subseteq OnCard',
         card # None => card' # None /\ (card.closed # None => card'.closed # None)
  PROVE  /\ SessionsOK' /\ OthersKeep(r)
         /\ session'[r].at = at /\ (at = "done" => session'[r].op = session[r].op)
         /\ overlapped' = overlapped
         /\ \A q \in Requests : SeenIsOld(q)' /\ SeenIsCurrent(q)'
<1>1. /\ SessionsOK' /\ OthersKeep(r)
      /\ session'[r].at = at /\ (at = "done" => session'[r].op = session[r].op)
      /\ overlapped' = overlapped
  BY FinishStep DEF IncidentInv
<1>2. r \notin Open'
  BY <1>1 DEF Open
<1>3. ASSUME NEW q \in Requests, q # r PROVE SeenIsOld(q)' /\ SeenIsCurrent(q)'
  <2>1. session'[q] = session[q]
    BY <1>1, <1>3 DEF OthersKeep
  <2>2. SeenIsOld(q)'
    BY <2>1 DEF IncidentInv, SeenIsOld, Open, Seen
  <2>3. ~overlapped => q \notin Open
    BY <1>3 DEF IncidentInv, SessionsOK
  <2>4. SeenIsCurrent(q)'
    BY <1>1, <2>1, <2>3 DEF SeenIsCurrent, Open
  <2> QED
    BY <2>2, <2>4
<1>4. SeenIsOld(r)' /\ SeenIsCurrent(r)'
  BY <1>2 DEF SeenIsOld, SeenIsCurrent
<1> QED
  BY <1>1, <1>3, <1>4

LEMMA FailedStep ==
  ASSUME IncidentInv, NEW r \in Requests, r \in Open, Finish(r, "failed"),
         UNCHANGED <<tables, echo>>
  PROVE  IncidentInv'
<1>1. UNCHANGED <<card, dispatches>>
  BY DEF tables
<1>2. OnCard \subseteq OnCard' /\ UNCHANGED card
  BY <1>1 DEF OnCard
<1>3. /\ SessionsOK' /\ OthersKeep(r) /\ session'[r].at = "failed"
      /\ overlapped' = overlapped
      /\ \A q \in Requests : SeenIsOld(q)' /\ SeenIsCurrent(q)'
  BY <1>2, SessionsAfter
<1>4. TypeOK' /\ MarksAreDone' /\ CardInv'
  BY <1>3, TablesKept DEF IncidentInv, SessionsOK, Open
<1> QED
  BY <1>3, <1>4 DEF IncidentInv

-----------------------------------------------------------------------------
(* The handlers commit.                                                     *)

\* What every commit has in common: r is open, has read a card and is done now.
Committed(r) ==
  /\ SessionsOK' /\ OthersKeep(r) /\ session'[r].at = "done"
  /\ session'[r].op = session[r].op /\ overlapped' = overlapped
  /\ \A q \in Requests : SeenIsOld(q)' /\ SeenIsCurrent(q)'

\* The card that a handler works on: read, still there, and both are rows.
LEMMA CardsRead ==
  ASSUME IncidentInv, NEW r \in Requests, session[r].at = "loaded"
  PROVE  /\ r \in Open /\ card \in CardRows /\ Seen(r).card \in CardRows
         /\ card # None /\ Seen(r).card # None
         /\ Seen(r).card.closed # r /\ Seen(r).card.archived # r
         /\ Seen(r).card.closed # None => card.closed # None
         /\ Seen(r).card.status \notin Active => Seen(r).card.closed # None
         /\ session[r].op \in Operations
         /\ Seen(r).locations \subseteq LocationRows
         /\ Seen(r).links \in Seq(LinkRows)
         /\ Seen(r).units \subseteq OnCard
         /\ ~overlapped => /\ Seen(r).card = card /\ Seen(r).locations = locations
                           /\ Seen(r).links = links /\ Seen(r).comments = comments
                           /\ \A q \in Seen(r).later : q \in Requests /\ session[q].at = "idle"
<1>1. r \in Open /\ SeenIsOld(r) /\ SeenIsCurrent(r)
  BY DEF IncidentInv, Open
<1> QED
  BY <1>1 DEF IncidentInv, SeenIsOld, SeenIsCurrent, TypeOK

\* Whoever was done stays done, so what the tables hold stays of the past.
LEMMA MarksKept ==
  ASSUME IncidentInv, NEW r \in Requests, Committed(r), card' # None,
         card # None => /\ card'.closed \in {card.closed, r}
                        /\ card'.archived \in {card.archived, r},
         card = None => card'.closed = None /\ card'.archived = None,
         \A h \in history' \ history : h.by = r, comments' \subseteq comments \cup {r}
  PROVE  MarksAreDone'
<1>1. \A q \in Requests : session[q].at = "done" \/ q = r => session'[q].at = "done"
  BY DEF Committed, OthersKeep
<1>2. /\ \A h \in history : h.by \in Requests
      /\ comments \subseteq Requests
  BY DEF IncidentInv, TypeOK, HistoryRows
<1> QED
  BY <1>1, <1>2 DEF IncidentInv, MarksAreDone

LEMMA AssignedKept ==
  ASSUME IncidentInv, NEW r \in Requests, Committed(r), UNCHANGED dispatches,
         session[r].op.kind # "units"
  PROVE  AssignedOnce'
<1>1. \A q \in Done' : session'[q].op.kind = "units" => q \in Done /\ session'[q] = session[q]
  BY DEF Done, OthersKeep, Committed
<1> QED
  BY <1>1 DEF IncidentInv, CardInv, AssignedOnce

\* Linking a recommendation leaves the new one current, and no other if nothing
\* overlaps.
LEMMA LinksAfter ==
  ASSUME IncidentInv, NEW r \in Requests, session[r].at = "loaded",
         overlapped' = overlapped, links' \in {links, Linked(Seen(r).links, r)}
  PROVE  links' \in Seq(LinkRows) /\ LatestIsCurrent' /\ OneIsCurrent'
<1>1. /\ links \in Seq(LinkRows) /\ Seen(r).links \in Seq(LinkRows)
      /\ ~overlapped => Seen(r).links = links
      /\ LatestIsCurrent /\ OneIsCurrent
  BY CardsRead DEF IncidentInv, TypeOK, CardInv
<1>2. CASE links' = links
  BY <1>1, <1>2 DEF LatestIsCurrent, OneIsCurrent
<1>3. CASE links' = Linked(Seen(r).links, r)
  <2>1. /\ links' \in Seq(LinkRows)
        /\ links' # <<>> /\ links'[Len(links')].current
        /\ Seen(r).links = links => \A i, j \in 1 .. Len(links') :
                                      links'[i].current /\ links'[j].current => i = j
    BY <1>1, <1>3, LinkedLinks
  <2> QED
    BY <1>1, <2>1 DEF LatestIsCurrent, OneIsCurrent
<1> QED
  BY <1>2, <1>3

LEMMA TimelineKept ==
  ASSUME IncidentInv, NEW r \in Requests, NEW events \in SUBSET TimelineEvents, Log(r, events)
  PROVE  /\ timeline' \subseteq [by : Requests, event : TimelineEvents]
         /\ timeline \subseteq timeline'
         /\ \A e \in events : [by |-> r, event |-> e] \in timeline'
  BY DEF IncidentInv, TypeOK, Log

LEMMA CreateStep ==
  ASSUME IncidentInv, NEW r \in Requests, Create(r)
  PROVE  IncidentInv'
<1> DEFINE body == Arg(r)
           new  == [status |-> "created", confirmed |-> None, closed |-> None,
                    archived |-> None, typed |-> "yes", priority |-> "normal",
                    address |-> body.address, coords |-> body.coords]
           place == [by |-> r, address |-> body.address, coords |-> body.coords]
<1>1. /\ session[r].at = "row" /\ session[r].op.kind = "create" /\ card = None
      /\ card' = new
      /\ locations' = IF body.address = None /\ body.coords = None THEN {} ELSE {place}
      /\ Log(r, {"created"}) /\ Finish(r, "done")
      /\ UNCHANGED <<links, dispatches, comments, history, echo>>
  BY DEF Create
<1>2. r \in Open /\ SeenIsOld(r)
  BY <1>1 DEF Open, IncidentInv
<1>3. body.address \in {"a1", "a2", None} /\ body.coords \in {"c1", "c2", None}
  BY <1>1, <1>2, OperationArgument, IncidentAssumption DEF SeenIsOld, Arg
<1>4. /\ new \in CardRows /\ new.status = "created" /\ new.closed = None
      /\ new.archived = None /\ new.address = body.address /\ new.coords = body.coords
      /\ place \in LocationRows /\ place.address = body.address /\ place.coords = body.coords
  BY <1>3 DEF CardRows, LocationRows, Statuses
<1> HIDE DEF new, place, body
<1>5. card' # None
  BY <1>1, <1>4, IncidentAssumption
<1>6. Committed(r)
  BY <1>1, <1>2, <1>5, SessionsAfter DEF Committed, OnCard
<1>7. TypeOK'
  <2>1. timeline' \subseteq [by : Requests, event : TimelineEvents]
    BY <1>1, TimelineKept DEF TimelineEvents
  <2> QED
    BY <1>1, <1>4, <1>5, <2>1 DEF IncidentInv, TypeOK
<1>8. MarksAreDone'
  BY <1>1, <1>4, <1>5, <1>6, MarksKept
<1>9. AssignedOnce'
  BY <1>1, <1>6, AssignedKept
<1>10. ClosedIsStamped' /\ OpenIsNotStamped'
  BY <1>1, <1>4, SessionsAssumption DEF ClosedIsStamped, OpenIsNotStamped, Active, Statuses
<1>11. LatestIsCurrent' /\ OneIsCurrent' /\ EchoIsOwn'
  BY <1>1, <1>6 DEF IncidentInv, CardInv, LatestIsCurrent, OneIsCurrent, EchoIsOwn, Committed
<1>12. OnePrimary'
  BY <1>1, <1>4 DEF OnePrimary
<1> QED
  BY <1>6, <1>7, <1>8, <1>9, <1>10, <1>11, <1>12 DEF IncidentInv, CardInv, Committed

\* The values that the audit history may hold.
HistoryValues == Statuses \cup {"yes", "normal", "high", "a1", "a2", "c1", "c2", None}

LEMMA CardValues ==
  ASSUME NEW c \in CardRows
  PROVE  \A f \in Tracked \cup {"status"} : c[f] \in HistoryValues
  BY CardColumns DEF HistoryValues, CardRows, Tracked, Columns

LEMMA AuditedRows ==
  ASSUME IncidentInv, NEW r \in Requests, NEW seen \in CardRows, NEW mine \in CardRows,
         NEW changed \in SUBSET (Tracked \cup {"status"}),
         history' = Audited(r, seen, mine, changed)
  PROVE  /\ history' \subseteq HistoryRows
         /\ \A h \in history' \ history :
              h.by = r /\ h.field \in changed /\ h.old = seen[h.field] /\ h.new = mine[h.field]
         /\ \A f \in changed : [by |-> r, field |-> f, old |-> seen[f], new |-> mine[f]]
                                 \in history'
<1>1. \A f \in changed : seen[f] \in HistoryValues /\ mine[f] \in HistoryValues
  BY CardValues
<1>2. history \subseteq HistoryRows
  BY DEF IncidentInv, TypeOK
<1>3. \A f \in changed : [by |-> r, field |-> f, old |-> seen[f], new |-> mine[f]] \in HistoryRows
  BY <1>1 DEF HistoryRows, HistoryValues
<1> QED
  BY <1>2, <1>3 DEF Audited

\* PUT: the columns the body changes are audited and written, the others kept.
ChangedColumns(seen, mine) == {f \in DOMAIN seen : mine[f] # seen[f]}
PutCard(r) == Written(Seen(r).card, Arg(r))

LEMMA UpdateFacts ==
  ASSUME IncidentInv, NEW r \in Requests, Update(r)
  PROVE  LET seen    == Seen(r).card
             mine    == PutCard(r)
             changed == ChangedColumns(seen, mine)
         IN  /\ session[r].at = "loaded" /\ session[r].op.kind = "update"
             /\ mine \in CardRows /\ changed \subseteq Tracked
             /\ \A f \in Columns : f \in changed <=> mine[f] # seen[f]
             /\ card' = Merge(card, seen, mine)
             /\ history' = Audited(r, seen, mine, changed)
             /\ IF changed \cap Place = {} THEN UNCHANGED locations
                ELSE locations' \in SyncPrimary(Seen(r).locations, mine, r)
             /\ \E events \in SUBSET TimelineEvents : Log(r, events)
             /\ Finish(r, "done")
             /\ UNCHANGED <<links, dispatches, comments, echo>>
<1> DEFINE seen    == Seen(r).card
           mine    == PutCard(r)
           changed == ChangedColumns(seen, mine)
           events  == When(changed \cap Place # {}, "address_changed")
                        \cup When("priority" \in changed, "priority_changed")
<1>1. /\ session[r].at = "loaded" /\ session[r].op.kind = "update"
      /\ Storable(mine)
      /\ card' = Merge(card, seen, mine)
      /\ history' = Audited(r, seen, mine, changed)
      /\ IF changed \cap Place = {} THEN UNCHANGED locations
         ELSE locations' \in SyncPrimary(Seen(r).locations, mine, r)
      /\ Log(r, events)
      /\ Finish(r, "done")
      /\ UNCHANGED <<links, dispatches, comments, echo>>
  BY DEF Update, PutCard, ChangedColumns, Ready
<1>2. seen \in CardRows /\ Arg(r) \in Updates
  BY <1>1, CardsRead, OperationArgument DEF Arg
<1>3. mine \in CardRows /\ \A f \in Columns \ Tracked : mine[f] = seen[f]
  BY <1>1, <1>2, WrittenCard DEF PutCard
<1>4. events \in SUBSET TimelineEvents
  BY DEF When, TimelineEvents
<1> HIDE DEF mine, seen, events
<1>5. /\ \A f \in Columns : f \in changed <=> mine[f] # seen[f]
      /\ changed \subseteq Tracked
  BY <1>2, <1>3, CardColumns DEF ChangedColumns
<1> QED
  BY <1>1, <1>3, <1>4, <1>5 DEF mine, seen

LEMMA UpdateStep ==
  ASSUME IncidentInv, NEW r \in Requests, Update(r)
  PROVE  IncidentInv'
<1> DEFINE seen    == Seen(r).card
           mine    == PutCard(r)
           changed == ChangedColumns(seen, mine)
<1>1. /\ session[r].at = "loaded" /\ session[r].op.kind = "update"
      /\ mine \in CardRows /\ changed \subseteq Tracked
      /\ \A f \in Columns : f \in changed <=> mine[f] # seen[f]
      /\ card' = Merge(card, seen, mine)
      /\ history' = Audited(r, seen, mine, changed)
      /\ IF changed \cap Place = {} THEN UNCHANGED locations
         ELSE locations' \in SyncPrimary(Seen(r).locations, mine, r)
      /\ \E events \in SUBSET TimelineEvents : Log(r, events)
      /\ Finish(r, "done")
      /\ UNCHANGED <<links, dispatches, comments, echo>>
  BY UpdateFacts
<1>2. /\ r \in Open /\ card \in CardRows /\ seen \in CardRows /\ card # None
      /\ Seen(r).locations \in SUBSET LocationRows
      /\ ~overlapped => seen = card /\ Seen(r).locations = locations
  BY <1>1, CardsRead
<1> HIDE DEF seen, mine, changed
<1>3. /\ card' \in CardRows
      /\ \A f \in Columns : card'[f] = IF mine[f] = seen[f] THEN card[f] ELSE mine[f]
  BY <1>1, <1>2, MergeCard
<1>4. /\ card'.status = card.status /\ card'.closed = card.closed
      /\ card'.archived = card.archived /\ card' # None
  BY <1>1, <1>2, <1>3, CardColumns, IncidentAssumption DEF Columns, Tracked
<1>5. Committed(r)
  BY <1>1, <1>2, <1>4, SessionsAfter DEF Committed, OnCard
<1>6. locations' \subseteq LocationRows
  BY <1>1, <1>2, SyncPrimaryRows DEF IncidentInv, TypeOK
<1>7. /\ history' \subseteq HistoryRows
      /\ \A h \in history' \ history : h.by = r
  BY <1>1, <1>2, AuditedRows
<1>8. timeline' \subseteq [by : Requests, event : TimelineEvents] /\ timeline \subseteq timeline'
  BY <1>1, TimelineKept
<1>9. TypeOK'
  BY <1>1, <1>3, <1>4, <1>6, <1>7, <1>8 DEF IncidentInv, TypeOK
<1>10. MarksAreDone'
  BY <1>1, <1>2, <1>4, <1>5, <1>7, MarksKept
<1>11. AssignedOnce'
  BY <1>1, <1>5, AssignedKept
<1>12. ClosedIsStamped' /\ OpenIsNotStamped'
  BY <1>2, <1>4, <1>5, <1>8 DEF IncidentInv, CardInv, ClosedIsStamped, OpenIsNotStamped,
     Committed
<1>13. LatestIsCurrent' /\ OneIsCurrent' /\ EchoIsOwn'
  BY <1>1, <1>5 DEF IncidentInv, CardInv, LatestIsCurrent, OneIsCurrent, EchoIsOwn, Committed
<1>14. OnePrimary'
  <2> SUFFICES ASSUME ~overlapped
               PROVE  /\ \A l, m \in locations' : l = m
                      /\ locations' = {} => card'.address = None /\ card'.coords = None
                      /\ \A l \in locations' : /\ l.address = card'.address
                                               /\ l.coords = card'.coords
    BY <1>5 DEF OnePrimary, Committed
  <2>1. seen = card /\ Seen(r).locations = locations
    BY <1>2
  <2>2. card' = mine
    BY <1>1, <1>2, <2>1, MergeSame
  <2>3. /\ \A l, m \in locations : l = m
        /\ locations = {} => card.address = None /\ card.coords = None
        /\ \A l \in locations : l.address = card.address /\ l.coords = card.coords
    BY <1>2 DEF IncidentInv, CardInv, OnePrimary
  <2>4. CASE changed \cap Place = {}
    <3>1. mine.address = card.address /\ mine.coords = card.coords
      BY <1>1, <1>2, <2>1, <2>4, CardColumns DEF Columns, Place
    <3> QED
      BY <1>1, <2>2, <2>3, <2>4, <3>1
  <2>5. CASE changed \cap Place # {}
    <3>1. /\ locations' # {}
          /\ \A l, m \in locations' : l = m
          /\ \A l \in locations' : l.address = mine.address /\ l.coords = mine.coords
      BY <1>1, <1>2, <2>1, <2>3, <2>5, SyncPrimaryRows DEF IncidentInv, TypeOK
    <3> QED
      BY <2>2, <3>1
  <2> QED
    BY <2>4, <2>5
<1> QED
  BY <1>5, <1>9, <1>10, <1>11, <1>12, <1>13, <1>14 DEF IncidentInv, CardInv, Committed

\* PATCH of the status: checked against the copy, written over what there is.
LEMMA ChangeStatusFacts ==
  ASSUME IncidentInv, NEW r \in Requests, ChangeStatus(r)
  PROVE  LET seen == Seen(r).card
             t    == Arg(r)
             mine == Stamped(seen, t, r)
         IN  /\ session[r].at = "loaded" /\ session[r].op.kind = "status"
             /\ r \in Open /\ seen \in CardRows /\ card \in CardRows
             /\ t \in Statuses /\ CanTransition(seen.status, t)
             /\ mine \in CardRows /\ mine.status = t
             /\ mine.closed = IF t \in {"completed", "cancelled"} THEN r ELSE seen.closed
             /\ mine.archived = IF t = "archived" THEN r ELSE seen.archived
             /\ card' = Merge(card, seen, mine) /\ card' \in CardRows
             /\ \A f \in Columns : card'[f] = IF mine[f] = seen[f] THEN card[f] ELSE mine[f]
             /\ \A f \in Tracked : mine[f] = seen[f]
             /\ history' = Audited(r, seen, mine, {"status"})
             /\ \E events \in SUBSET TimelineEvents :
                  Log(r, events) /\ (t \in {"completed", "cancelled"} => "closed" \in events)
             /\ Finish(r, "done")
             /\ UNCHANGED <<locations, links, dispatches, comments, echo>>
<1> DEFINE seen == Seen(r).card
           t    == Arg(r)
           mine == Stamped(seen, t, r)
           events == {"status_changed"} \cup When(t \in {"completed", "cancelled"}, "closed")
                       \cup When(t = "archived", "archived")
<1>1. /\ session[r].at = "loaded" /\ session[r].op.kind = "status"
      /\ CanTransition(seen.status, t)
      /\ card' = Merge(card, seen, mine)
      /\ history' = Audited(r, seen, mine, {"status"})
      /\ Log(r, events) /\ Finish(r, "done")
      /\ UNCHANGED <<locations, links, dispatches, comments, echo>>
  BY DEF ChangeStatus, Ready
<1>2. seen \in CardRows /\ card \in CardRows /\ t \in Statuses /\ r \in Open
  BY <1>1, CardsRead, OperationArgument, IncidentAssumption DEF Arg
<1>3. events \in SUBSET TimelineEvents /\ (t \in {"completed", "cancelled"} => "closed" \in events)
  BY DEF When, TimelineEvents
<1> HIDE DEF seen, t, events
<1>4. /\ mine \in CardRows /\ mine.status = t
      /\ mine.closed = IF t \in {"completed", "cancelled"} THEN r ELSE seen.closed
      /\ mine.archived = IF t = "archived" THEN r ELSE seen.archived
      /\ \A f \in Tracked : mine[f] = seen[f]
  BY <1>2, StampedCard
<1> HIDE DEF mine
<1>5. /\ card' \in CardRows
      /\ \A f \in Columns : card'[f] = IF mine[f] = seen[f] THEN card[f] ELSE mine[f]
  BY <1>1, <1>2, <1>4, MergeCard
<1> QED
  BY <1>1, <1>2, <1>3, <1>4, <1>5 DEF seen, t, mine

LEMMA ChangeStatusStep ==
  ASSUME IncidentInv, NEW r \in Requests, ChangeStatus(r)
  PROVE  IncidentInv'
<1> DEFINE seen == Seen(r).card
           t    == Arg(r)
           mine == Stamped(seen, t, r)
<1>1. /\ session[r].at = "loaded" /\ session[r].op.kind = "status"
      /\ r \in Open /\ seen \in CardRows /\ card \in CardRows
      /\ t \in Statuses /\ CanTransition(seen.status, t)
      /\ mine \in CardRows /\ mine.status = t
      /\ mine.closed = IF t \in {"completed", "cancelled"} THEN r ELSE seen.closed
      /\ mine.archived = IF t = "archived" THEN r ELSE seen.archived
      /\ card' = Merge(card, seen, mine) /\ card' \in CardRows
      /\ \A f \in Columns : card'[f] = IF mine[f] = seen[f] THEN card[f] ELSE mine[f]
      /\ \A f \in Tracked : mine[f] = seen[f]
      /\ history' = Audited(r, seen, mine, {"status"})
      /\ \E events \in SUBSET TimelineEvents :
           Log(r, events) /\ (t \in {"completed", "cancelled"} => "closed" \in events)
      /\ Finish(r, "done")
      /\ UNCHANGED <<locations, links, dispatches, comments, echo>>
  BY ChangeStatusFacts
<1>2. /\ card # None /\ seen.closed # r /\ seen.archived # r
      /\ seen.closed # None => card.closed # None
      /\ seen.status \notin Active => seen.closed # None
      /\ ~overlapped => seen = card
  BY <1>1, CardsRead
<1>3. /\ t # seen.status
      /\ t \in Active => seen.status \in Active
      /\ t = "archived" => seen.status \notin Active
      /\ t \notin Active => t \in {"completed", "cancelled", "archived"}
  BY <1>1, TransitionFacts DEF CardRows
<1> HIDE DEF seen, t, mine
<1>4. /\ card'.status = t
      /\ card'.closed = IF t \in {"completed", "cancelled"} THEN r ELSE card.closed
      /\ card'.archived = IF t = "archived" THEN r ELSE card.archived
      /\ card'.address = card.address /\ card'.coords = card.coords
  BY <1>1, <1>2, <1>3, CardColumns DEF Columns, Tracked
<1>5. card' # None
  BY <1>1, IncidentAssumption
<1>6. r # None /\ r \in Requests
  BY SessionsAssumption
<1>7. Committed(r)
  BY <1>1, <1>2, <1>4, <1>5, <1>6, SessionsAfter DEF Committed, OnCard
<1>8. /\ history' \subseteq HistoryRows
      /\ \A h \in history' \ history : h.by = r
  BY <1>1, AuditedRows
<1>9. PICK events \in SUBSET TimelineEvents :
        Log(r, events) /\ (t \in {"completed", "cancelled"} => "closed" \in events)
  BY <1>1
<1>10. /\ timeline' \subseteq [by : Requests, event : TimelineEvents]
       /\ timeline \subseteq timeline'
       /\ t \in {"completed", "cancelled"} => [by |-> r, event |-> "closed"] \in timeline'
  BY <1>9, TimelineKept
<1>11. TypeOK'
  BY <1>1, <1>5, <1>8, <1>10 DEF IncidentInv, TypeOK
<1>12. MarksAreDone'
  BY <1>1, <1>2, <1>4, <1>5, <1>7, <1>8, MarksKept
<1>13. AssignedOnce'
  BY <1>1, <1>7, AssignedKept
<1>14. ClosedIsStamped'
  <2>1. card'.status \notin Active => card'.closed # None
    BY <1>2, <1>3, <1>4, <1>6
  <2>2. card'.status = "archived" => card'.archived # None
    BY <1>4, <1>6
  <2>3. card'.closed \in Requests => [by |-> card'.closed, event |-> "closed"] \in timeline'
    BY <1>2, <1>4, <1>10 DEF IncidentInv, CardInv, ClosedIsStamped
  <2> QED
    BY <2>1, <2>2, <2>3 DEF ClosedIsStamped
<1>15. OpenIsNotStamped'
  <2>1. ~overlapped /\ t \in Active => t \notin {"completed", "cancelled"}
                                        /\ card.status \in Active
    BY <1>2, <1>3 DEF Active
  <2> QED
    BY <1>2, <1>4, <1>7, <2>1 DEF IncidentInv, CardInv, OpenIsNotStamped, Committed
<1>16. LatestIsCurrent' /\ OneIsCurrent' /\ EchoIsOwn'
  BY <1>1, <1>7 DEF IncidentInv, CardInv, LatestIsCurrent, OneIsCurrent, EchoIsOwn, Committed
<1>17. OnePrimary'
  BY <1>1, <1>2, <1>4, <1>7 DEF IncidentInv, CardInv, OnePrimary, Committed
<1> QED
  BY <1>7, <1>11, <1>12, <1>13, <1>14, <1>15, <1>16, <1>17
     DEF IncidentInv, CardInv, Committed

LEMMA AssignUnitsStep ==
  ASSUME IncidentInv, NEW r \in Requests, AssignUnits(r)
  PROVE  IncidentInv'
<1> DEFINE new == Arg(r).units \ Seen(r).units
<1>1. /\ session[r].at = "loaded" /\ session[r].op.kind = "units"
      /\ new \cap OnCard = {}
      /\ dispatches' = dispatches \cup {[unit |-> u, by |-> r] : u \in new}
      /\ links' \in {links, Linked(Seen(r).links, r)}
      /\ Log(r, {"units_assigned"}) /\ Finish(r, "done")
      /\ UNCHANGED <<card, locations, comments, history, echo>>
  BY DEF AssignUnits, Ready, Assigned
<1>2. r \in Open /\ card # None /\ Seen(r).units \subseteq OnCard
  BY <1>1, CardsRead
<1>3. Committed(r)
  BY <1>1, <1>2, SessionsAfter DEF Committed, OnCard
<1>4. links' \in Seq(LinkRows) /\ LatestIsCurrent' /\ OneIsCurrent'
  BY <1>1, <1>3, LinksAfter DEF Committed
<1>5. timeline' \subseteq [by : Requests, event : TimelineEvents] /\ timeline \subseteq timeline'
  BY <1>1, TimelineKept DEF TimelineEvents
<1>6. TypeOK'
  BY <1>1, <1>2, <1>4, <1>5 DEF IncidentInv, TypeOK
<1>7. MarksAreDone'
  BY <1>1, <1>2, <1>3, MarksKept
<1>8. AssignedOnce'
  <2>1. \A d, e \in dispatches' : d.unit = e.unit => d = e
    BY <1>1 DEF IncidentInv, CardInv, AssignedOnce, OnCard
  <2>2. ASSUME NEW q \in Done', session'[q].op.kind = "units",
               NEW u \in session'[q].op.arg.units
        PROVE  \E d \in dispatches' : d.unit = u
    <3>1. CASE q = r
      <4>1. u \in Arg(r).units
        BY <1>3, <2>2, <3>1 DEF Committed, Arg
      <4>2. CASE u \in Seen(r).units
        BY <1>1, <1>2, <4>2 DEF OnCard
      <4>3. CASE u \in new
        <5>1. [unit |-> u, by |-> r] \in dispatches' /\ [unit |-> u, by |-> r].unit = u
          BY <1>1, <4>3
        <5> QED
          BY <5>1
      <4> QED
        BY <4>1, <4>2, <4>3
    <3>2. CASE q # r
      BY <1>1, <1>3, <2>2, <3>2 DEF IncidentInv, CardInv, AssignedOnce, Done, Committed,
         OthersKeep
    <3> QED
      BY <3>1, <3>2
  <2> QED
    BY <2>1, <2>2 DEF AssignedOnce
<1>9. ClosedIsStamped' /\ OpenIsNotStamped' /\ OnePrimary' /\ EchoIsOwn'
  BY <1>1, <1>3, <1>5 DEF IncidentInv, CardInv, ClosedIsStamped, OpenIsNotStamped,
     OnePrimary, EchoIsOwn, Committed
<1> QED
  BY <1>3, <1>4, <1>6, <1>7, <1>8, <1>9 DEF IncidentInv, CardInv, Committed

LEMMA RequestRecommendationStep ==
  ASSUME IncidentInv, NEW r \in Requests, RequestRecommendation(r)
  PROVE  IncidentInv'
<1>1. /\ session[r].at = "loaded" /\ session[r].op.kind = "recommend"
      /\ links' = Linked(Seen(r).links, r)
      /\ Log(r, {"recommendation_requested"}) /\ Finish(r, "done")
      /\ UNCHANGED <<card, locations, dispatches, comments, history, echo>>
  BY DEF RequestRecommendation, Ready
<1>2. r \in Open /\ card # None
  BY <1>1, CardsRead
<1>3. Committed(r)
  BY <1>1, <1>2, SessionsAfter DEF Committed, OnCard
<1>4. links' \in Seq(LinkRows) /\ LatestIsCurrent' /\ OneIsCurrent'
  BY <1>1, <1>3, LinksAfter DEF Committed
<1>5. timeline' \subseteq [by : Requests, event : TimelineEvents] /\ timeline \subseteq timeline'
  BY <1>1, TimelineKept DEF TimelineEvents
<1>6. TypeOK'
  BY <1>1, <1>2, <1>4, <1>5 DEF IncidentInv, TypeOK
<1>7. MarksAreDone'
  BY <1>1, <1>2, <1>3, MarksKept
<1>8. AssignedOnce'
  BY <1>1, <1>3, AssignedKept
<1>9. ClosedIsStamped' /\ OpenIsNotStamped' /\ OnePrimary' /\ EchoIsOwn'
  BY <1>1, <1>3, <1>5 DEF IncidentInv, CardInv, ClosedIsStamped, OpenIsNotStamped,
     OnePrimary, EchoIsOwn, Committed
<1> QED
  BY <1>3, <1>4, <1>6, <1>7, <1>8, <1>9 DEF IncidentInv, CardInv, Committed

LEMMA AddCommentStep ==
  ASSUME IncidentInv, NEW r \in Requests, AddComment(r)
  PROVE  IncidentInv'
<1>1. /\ session[r].at = "loaded" /\ session[r].op.kind = "comment"
      /\ comments' = comments \cup {r}
      /\ \E c \in Shown(r) : echo' = echo \cup {[by |-> r, shown |-> c]}
      /\ Log(r, {"comment_added"}) /\ Finish(r, "done")
      /\ UNCHANGED <<card, locations, links, dispatches, history>>
  BY DEF AddComment, Ready
<1>2. /\ r \in Open /\ card # None
      /\ ~overlapped => /\ Seen(r).comments = comments
                        /\ \A q \in Seen(r).later : q \in Requests /\ session[q].at = "idle"
  BY <1>1, CardsRead
<1>3. Committed(r)
  BY <1>1, <1>2, SessionsAfter DEF Committed, OnCard
<1>4. timeline' \subseteq [by : Requests, event : TimelineEvents] /\ timeline \subseteq timeline'
  BY <1>1, TimelineKept DEF TimelineEvents
<1>5. TypeOK'
  BY <1>1, <1>2, <1>4 DEF IncidentInv, TypeOK
<1>6. MarksAreDone'
  BY <1>1, <1>2, <1>3, MarksKept
<1>7. AssignedOnce'
  BY <1>1, <1>3, AssignedKept
<1>8. ClosedIsStamped' /\ OpenIsNotStamped' /\ OnePrimary' /\ LatestIsCurrent' /\ OneIsCurrent'
  BY <1>1, <1>3, <1>4 DEF IncidentInv, CardInv, ClosedIsStamped, OpenIsNotStamped,
     OnePrimary, LatestIsCurrent, OneIsCurrent, Committed
<1>9. EchoIsOwn'
  <2>1. ~overlapped => Shown(r) = {r}
    BY <1>2 DEF IncidentInv, MarksAreDone, Shown
  <2> QED
    BY <1>1, <1>3, <2>1 DEF IncidentInv, CardInv, EchoIsOwn, Committed
<1> QED
  BY <1>3, <1>5, <1>6, <1>7, <1>8, <1>9 DEF IncidentInv, CardInv, Committed

-----------------------------------------------------------------------------
(* The theorems.                                                            *)

LEMMA IncidentInductive == IncidentInv /\ [Next]_vars => IncidentInv'
<1> SUFFICES ASSUME IncidentInv, [Next]_vars PROVE IncidentInv'
  OBVIOUS
<1>1. ASSUME NEW r \in Requests, NEW op \in Operations, Receive(r, op) PROVE IncidentInv'
  BY <1>1, ReceiveStep
<1>2. ASSUME NEW r \in Requests, LoadCollections(r) PROVE IncidentInv'
  BY <1>2, LoadCollectionsStep
<1>3. ASSUME NEW r \in Requests, Create(r) PROVE IncidentInv'
  BY <1>3, CreateStep
<1>4. ASSUME NEW r \in Requests, Update(r) PROVE IncidentInv'
  BY <1>4, UpdateStep
<1>5. ASSUME NEW r \in Requests, ChangeStatus(r) PROVE IncidentInv'
  BY <1>5, ChangeStatusStep
<1>6. ASSUME NEW r \in Requests, AssignUnits(r) PROVE IncidentInv'
  BY <1>6, AssignUnitsStep
<1>7. ASSUME NEW r \in Requests, RequestRecommendation(r) PROVE IncidentInv'
  BY <1>7, RequestRecommendationStep
<1>8. ASSUME NEW r \in Requests, AddComment(r) PROVE IncidentInv'
  BY <1>8, AddCommentStep
<1>9. ASSUME NEW r \in Requests, Reject(r) \/ ConnectionLost(r) PROVE IncidentInv'
  <2>1. r \in Open /\ Finish(r, "failed") /\ UNCHANGED <<tables, echo>>
    BY <1>9 DEF Reject, Refused, ConnectionLost, Lost, Ready, Open
  <2> QED
    BY <2>1, FailedStep
<1>10. CASE UNCHANGED vars
  <2>1. /\ SessionsOK' /\ UNCHANGED <<session, overlapped>>
        /\ UNCHANGED <<card, locations, links, dispatches, comments, history, timeline, echo>>
    BY <1>10, SessionsStutter DEF vars, tables, IncidentInv
  <2> QED
    BY <2>1 DEF IncidentInv, TypeOK, MarksAreDone, SeenIsOld, SeenIsCurrent, CardInv,
       ClosedIsStamped, LatestIsCurrent, AssignedOnce, OpenIsNotStamped, OneIsCurrent,
       OnePrimary, EchoIsOwn, Seen, Open, OnCard, Done
<1> QED
  BY <1>1, <1>2, <1>3, <1>4, <1>5, <1>6, <1>7, <1>8, <1>9, <1>10 DEF Next

LEMMA IncidentInitial == Init => IncidentInv
<1> SUFFICES ASSUME Init PROVE IncidentInv
  OBVIOUS
<1>1. SessionsOK /\ ~overlapped /\ \A r \in Requests : session[r].at = "idle"
  BY SessionsInitial DEF Init
<1> DEFINE place == [by |-> Earlier, address |-> "a1", coords |-> "c1"]
           link  == [by |-> Earlier, current |-> TRUE]
<1>2. /\ place \in LocationRows /\ place.address = "a1" /\ place.coords = "c1"
      /\ link \in LinkRows /\ link.current
  BY DEF LocationRows, LinkRows
<1> HIDE DEF place, link
<1>3. /\ \/ card = None /\ locations = {}
         \/ \E s \in Started : \E c \in MayBeConfirmed(s) :
              card = OldCard(s, c) /\ locations = {place}
      /\ links \in {<<>>, <<link>>} /\ (card = None => links = <<>>)
      /\ dispatches = {} /\ comments = {} /\ history = {} /\ timeline = {} /\ echo = {}
  BY DEF Init, place, link
<1>4. ASSUME NEW s \in Started, NEW c \in MayBeConfirmed(s) PROVE OldCard(s, c) \in CardRows
  <2>1. s \in Statuses /\ c \in {None, Earlier}
    BY IncidentAssumption DEF MayBeConfirmed
  <2> QED
    BY <2>1 DEF OldCard, CardRows
<1>5. card = None => locations = {} /\ links = <<>>
  BY <1>3, <1>4, IncidentAssumption
<1>6. ASSUME card # None
      PROVE  /\ card \in CardRows
             /\ locations = {place}
             /\ card.closed = IF card.status \in Active THEN None ELSE Earlier
             /\ card.archived = IF card.status = "archived" THEN Earlier ELSE None
             /\ card.address = "a1" /\ card.coords = "c1"
  <2>0. PICK s \in Started : /\ \E c \in MayBeConfirmed(s) : card = OldCard(s, c)
                            /\ locations = {place}
    BY <1>3, <1>6
  <2>1. PICK c \in MayBeConfirmed(s) : card = OldCard(s, c)
    BY <2>0
  <2>2. card \in CardRows
    BY <1>4, <2>1
  <2> QED
    BY <2>0, <2>1, <2>2 DEF OldCard
<1>7. /\ links \in Seq(LinkRows) /\ Len(links) \in {0, 1}
      /\ links # <<>> => Len(links) = 1 /\ links[1] = link
  <2>1. CASE links = <<>>
    BY <2>1
  <2>2. CASE links = <<link>>
    BY <1>2, <2>2
  <2> QED
    BY <1>3, <2>1, <2>2
<1>8. TypeOK
  BY <1>2, <1>3, <1>6, <1>7, <1>5 DEF TypeOK
<1>9. MarksAreDone
  BY <1>3, <1>6, IncidentAssumption DEF MarksAreDone
<1>10. \A r \in Requests : SeenIsOld(r) /\ SeenIsCurrent(r)
  BY <1>1 DEF SeenIsOld, SeenIsCurrent, Open
<1>11. ClosedIsStamped /\ OpenIsNotStamped
  BY <1>6, IncidentAssumption DEF ClosedIsStamped, OpenIsNotStamped, Active
<1>12. LatestIsCurrent /\ OneIsCurrent
  BY <1>2, <1>7 DEF LatestIsCurrent, OneIsCurrent
<1>13. AssignedOnce /\ EchoIsOwn
  BY <1>1, <1>3 DEF AssignedOnce, EchoIsOwn, Done
<1>14. OnePrimary
  BY <1>2, <1>6 DEF OnePrimary
<1> QED
  BY <1>1, <1>8, <1>9, <1>10, <1>11, <1>12, <1>13, <1>14 DEF IncidentInv, CardInv

\* What the tables hold and what the open requests have read fit together in every
\* state, for every set of requests and every pool: the invariant that the theorems
\* below rest on.
THEOREM IncidentInvHolds == Spec => []IncidentInv
  BY IncidentInitial, IncidentInductive, PTL DEF Spec

\* The incident card, its locations, links, units, comments and history keep the
\* types of their tables.
THEOREM IncidentTypeCorrect == Spec => []TypeOK
<1>1. IncidentInv => TypeOK
  BY DEF IncidentInv
<1> QED
  BY <1>1, IncidentInvHolds, PTL

\* The card, its locations, recommendations, units and comments tell one story: a
\* closed card is stamped, the last recommendation is current and every accepted
\* unit is on the card exactly once whatever overlaps; and as long as nothing does,
\* an open card has no closing time, one recommendation is current, the primary
\* location says what the card says, and a comment is answered with itself.
THEOREM CardAlwaysConsistent == Spec => []CardIsConsistent
<1>1. IncidentInv => CardIsConsistent
  <2> SUFFICES ASSUME IncidentInv PROVE CardIsConsistent
    OBVIOUS
  <2>1. ASSUME \A l, m \in locations : l = m PROVE Cardinality(locations) <= 1
    <3>1. CASE locations = {}
      BY <3>1, FS_EmptySet
    <3>2. CASE locations # {}
      <4>1. PICK l \in locations : locations = {l}
        BY <2>1, <3>2
      <4> QED
        BY <4>1, FS_Singleton
    <3> QED
      BY <3>1, <3>2
  <2>2. PrimaryInSync
    BY <2>1 DEF IncidentInv, CardInv, OnePrimary, PrimaryInSync
  <2> QED
    BY <2>2 DEF IncidentInv, CardInv, CardIsConsistent
<1> QED
  BY <1>1, IncidentInvHolds, PTL

-----------------------------------------------------------------------------
(* The audit.                                                               *)

\* A change of the card between two states and what the history says of it.
ChangeAudited ==
  card # None =>
    /\ \A f \in Tracked \cup {"status"} :
         card'[f] # card[f] => \E h \in history' \ history :
                                  h.field = f /\ h.new = card'[f]
    /\ ~overlapped' => \A h \in history' \ history : h.old = card[h.field]

\* A commit that audits what it writes and writes nothing else.
LEMMA CommitAudited ==
  ASSUME IncidentInv, NEW r \in Requests, session[r].at = "loaded", overlapped' = overlapped,
         NEW mine \in CardRows, NEW changed \in SUBSET (Tracked \cup {"status"}),
         card' = Merge(card, Seen(r).card, mine),
         history' = Audited(r, Seen(r).card, mine, changed),
         \A f \in Tracked \cup {"status"} : mine[f] # Seen(r).card[f] => f \in changed
  PROVE  ChangeAudited
<1> DEFINE seen == Seen(r).card
<1>1. card \in CardRows /\ seen \in CardRows /\ (~overlapped => seen = card)
  BY CardsRead
<1>2. \A f \in Columns : card'[f] = IF mine[f] = seen[f] THEN card[f] ELSE mine[f]
  BY <1>1, MergeCard
<1>3. Tracked \cup {"status"} \subseteq Columns
  BY DEF Tracked, Columns
<1> HIDE DEF seen
<1>4. /\ \A h \in history' \ history : h.field \in changed /\ h.old = seen[h.field]
      /\ \A f \in changed : [by |-> r, field |-> f, old |-> seen[f], new |-> mine[f]]
                              \in history'
  BY <1>1, AuditedRows DEF seen
<1>5. \A h \in history : h.by # r
  BY <1>1 DEF IncidentInv, MarksAreDone
<1>6. ASSUME NEW f \in Tracked \cup {"status"}, card'[f] # card[f]
      PROVE  \E h \in history' \ history : h.field = f /\ h.new = card'[f]
  <2> DEFINE h == [by |-> r, field |-> f, old |-> seen[f], new |-> mine[f]]
  <2>1. mine[f] # seen[f] /\ card'[f] = mine[f]
    BY <1>2, <1>3, <1>6
  <2>2. h \in history'
    BY <1>4, <2>1 DEF seen
  <2>3. h.by = r /\ h.field = f /\ h.new = card'[f]
    BY <2>1
  <2> QED
    BY <1>5, <2>2, <2>3
<1>7. ~overlapped' => \A h \in history' \ history : h.old = card[h.field]
  BY <1>1, <1>4
<1> QED
  BY <1>6, <1>7 DEF ChangeAudited

\* No column of a card changes without an entry of the same transaction in the
\* audit history that names the new value, whatever overlaps; and without overlaps
\* the old value of every entry is what the card said until then.
THEOREM ChangesAlwaysAudited == Spec => ChangeIsAudited
<1>1. IncidentInv /\ [Next]_vars => ChangeAudited \/ UNCHANGED vars
  <2> SUFFICES ASSUME IncidentInv, Next PROVE ChangeAudited
    OBVIOUS
  <2>1. ASSUME UNCHANGED <<card, history>> PROVE ChangeAudited
    BY <2>1 DEF ChangeAudited
  <2>2. ASSUME NEW r \in Requests, Update(r) PROVE ChangeAudited
    <3> DEFINE changed == ChangedColumns(Seen(r).card, PutCard(r))
    <3>1. /\ session[r].at = "loaded" /\ PutCard(r) \in CardRows /\ changed \subseteq Tracked
          /\ \A f \in Columns : f \in changed <=> PutCard(r)[f] # Seen(r).card[f]
          /\ card' = Merge(card, Seen(r).card, PutCard(r))
          /\ history' = Audited(r, Seen(r).card, PutCard(r), changed)
          /\ Finish(r, "done")
      BY <2>2, UpdateFacts
    <3>2. overlapped' = overlapped
      BY <3>1 DEF Finish
    <3>3. Tracked \cup {"status"} \subseteq Columns
      BY DEF Tracked, Columns
    <3> HIDE DEF changed
    <3> QED
      BY <3>1, <3>2, <3>3, CommitAudited
  <2>3. ASSUME NEW r \in Requests, ChangeStatus(r) PROVE ChangeAudited
    <3> DEFINE mine == Stamped(Seen(r).card, Arg(r), r)
    <3>1. /\ session[r].at = "loaded" /\ mine \in CardRows
          /\ \A f \in Tracked : mine[f] = Seen(r).card[f]
          /\ card' = Merge(card, Seen(r).card, mine)
          /\ history' = Audited(r, Seen(r).card, mine, {"status"})
          /\ Finish(r, "done")
      BY <2>3, ChangeStatusFacts
    <3>2. overlapped' = overlapped
      BY <3>1 DEF Finish
    <3> HIDE DEF mine
    <3> QED
      BY <3>1, <3>2, CommitAudited
  <2>4. ASSUME NEW r \in Requests, Create(r) PROVE ChangeAudited
    BY <2>4 DEF Create, ChangeAudited
  <2>5. ASSUME NEW r \in Requests,
               \/ \E op \in Operations : Receive(r, op)
               \/ LoadCollections(r) \/ AssignUnits(r) \/ RequestRecommendation(r)
               \/ AddComment(r) \/ Reject(r) \/ ConnectionLost(r)
        PROVE  ChangeAudited
    <3>1. UNCHANGED <<card, history>>
      BY <2>5 DEF Receive, LoadCollections, AssignUnits, RequestRecommendation, AddComment,
         Reject, ConnectionLost, tables
    <3> QED
      BY <3>1, <2>1
  <2> QED
    BY <2>2, <2>3, <2>4, <2>5 DEF Next
<1> QED
  BY <1>1, IncidentInvHolds, PTL DEF Spec, ChangeIsAudited, ChangeAudited
=============================================================================
