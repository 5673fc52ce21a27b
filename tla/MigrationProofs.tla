--------------------------- MODULE MigrationProofs ---------------------------
(***************************************************************************)
(* Proofs about SchemaMigrations for any number of instances, orders and    *)
(* crashes.  First what the statements of a script make and take away, then  *)
(* what one statement leaves of a run, what a commit of one run leaves of     *)
(* the others, and at last the invariant.                                     *)
(***************************************************************************)
EXTENDS SchemaMigrations, FiniteSetTheorems, SequenceTheorems, TLAPS

-----------------------------------------------------------------------------
(* What the first statements of a script are about.                         *)

LEMMA AboutNone == ASSUME NEW script, NEW kinds PROVE About(script, 0, kinds) = {}
  BY DEF About

LEMMA AboutNext ==
  ASSUME NEW script, NEW kinds, NEW n \in Nat \ {0}
  PROVE  About(script, n, kinds) =
           About(script, n - 1, kinds)
             \cup (IF script[n].do \in kinds THEN {script[n].on} ELSE {})
<1>1. 1 .. n = (1 .. n - 1) \cup {n}
  OBVIOUS
<1> QED
  BY <1>1 DEF About

LEMMA AboutGrows ==
  ASSUME NEW script, NEW kinds, NEW n \in Nat, NEW m \in 0 .. n
  PROVE  About(script, m, kinds) \subseteq About(script, n, kinds)
  BY DEF About

\* The types of the chain.
LEMMA ChainTypes ==
  /\ LastRevision \in Nat /\ LastRevision > 1
  /\ \A r \in 1 .. LastRevision :
       /\ Upgrades[r] \in Seq(Statements) /\ Len(Upgrades[r]) \in Nat
       /\ DOMAIN Upgrades[r] = 1 .. Len(Upgrades[r])
       /\ Downgrades[r] \in Seq(Statements) /\ Len(Downgrades[r]) \in Nat
       /\ DOMAIN Downgrades[r] = 1 .. Len(Downgrades[r])
<1>1. /\ Upgrades \in Seq(Seq(Statements)) /\ Downgrades \in Seq(Seq(Statements))
      /\ Len(Upgrades) > 1 /\ Len(Downgrades) = Len(Upgrades)
  BY ChainAssumption DEF LastRevision
<1>2. LastRevision = Len(Upgrades)
  BY DEF LastRevision
<1>3. ASSUME NEW r \in 1 .. Len(Upgrades)
      PROVE  Upgrades[r] \in Seq(Statements) /\ Downgrades[r] \in Seq(Statements)
  BY <1>1
<1> QED
  BY <1>1, <1>2, <1>3

\* Its scripts apply, and how it begins.
LEMMA ChainApplies == \A r \in 1 .. LastRevision : UpgradeApplies(r) /\ DowngradeApplies(r)
  BY ChainAssumption

LEMMA ChainBegins ==
  Brought(1) = Lasting /\ Upgrades[2] # << >> /\ Upgrades[2][1].do = "create"
  BY ChainAssumption

LEMMA ScriptStatements ==
  ASSUME NEW r \in 1 .. LastRevision, NEW up \in BOOLEAN
  PROVE  LET script == IF up THEN Upgrades[r] ELSE Downgrades[r]
             last == Len(script) + 1
             stamp == [do |-> "stamp", on |-> "alembic_version",
                       from |-> IF up THEN r - 1 ELSE r, to |-> IF up THEN r ELSE r - 1] IN
         /\ Len(Scripts[up][r]) = last
         /\ \A i \in 1 .. Len(script) : Scripts[up][r][i] = script[i]
         /\ Scripts[up][r][last] = stamp
<1> DEFINE script == IF up THEN Upgrades[r] ELSE Downgrades[r]
           stamp == [do |-> "stamp", on |-> "alembic_version",
                     from |-> IF up THEN r - 1 ELSE r, to |-> IF up THEN r ELSE r - 1]
           All == Statements \cup {stamp}
<1>1. script \in Seq(Statements)
  BY ChainTypes
<1>2. Scripts[up][r] = script \o <<stamp>>
  BY DEF Scripts, Stamp
<1> HIDE DEF script, stamp
<1>3. script \in Seq(All) /\ <<stamp>> \in Seq(All)
  BY <1>1
<1> HIDE DEF All
<1>4. /\ Len(script \o <<stamp>>) = Len(script) + 1
      /\ \A i \in 1 .. Len(script) : (script \o <<stamp>>)[i] = script[i]
      /\ (script \o <<stamp>>)[Len(script) + 1] = stamp
  BY <1>3
<1> QED
  BY <1>2, <1>4 DEF script, stamp

\* What a version stands for grows by what each revision brings, which is new.
LEMMA StandingGrows ==
  ASSUME NEW v \in Nat, NEW u \in 0 .. v
  PROVE  Standing(u) \subseteq Standing(v)
  BY DEF Standing

LEMMA StandingNext ==
  ASSUME NEW r \in Nat \ {0, 1}
  PROVE  Standing(r) = Standing(r - 1) \cup Brought(r)
<1>1. 2 .. r = (2 .. r - 1) \cup {r}
  OBVIOUS
<1> QED
  BY <1>1 DEF Standing

LEMMA StandingLow == Standing(0) = {} /\ Standing(1) = {}
  BY DEF Standing

LEMMA BroughtIsNew ==
  ASSUME NEW r \in 2 .. LastRevision, NEW n \in Brought(r)
  PROVE  n \notin Standing(r - 1) /\ n \notin Lasting
<1>1. PICK i \in 1 .. Len(Upgrades[r]) :
        Upgrades[r][i].do \in Making /\ n = Upgrades[r][i].on
  BY DEF Brought, About
<1>2. r \in 1 .. LastRevision /\ r # 1 /\ i \in DOMAIN Upgrades[r]
  BY ChainTypes
<1>3. UpgradeApplies(r)
  BY <1>2, ChainApplies
<1>4. Upgrades[r][i].on \notin Standing(r - 1) \cup Lasting
  BY <1>1, <1>2, <1>3 DEF UpgradeApplies, Making
<1> QED
  BY <1>1, <1>4

LEMMA BroughtIsSince ==
  ASSUME NEW r \in 2 .. LastRevision, NEW n \in Brought(r), NEW v \in 0 .. LastRevision
  PROVE  n \in Standing(v) <=> r <= v
<1>1. r - 1 \in Nat /\ v \in Nat /\ r \in Nat
  BY ChainTypes
<1>2. CASE r <= v
  BY <1>1, <1>2 DEF Standing
<1>3. CASE v < r
  <2>1. v \in 0 .. r - 1
    BY <1>1, <1>3
  <2> QED
    BY <1>1, <1>3, <2>1, BroughtIsNew, StandingGrows
<1> QED
  BY <1>1, <1>2, <1>3

LEMMA StandingIsApart ==
  ASSUME NEW v \in 0 .. LastRevision
  PROVE  Standing(v) \cap Lasting = {}
<1>1. \A r \in 2 .. v : r \in 2 .. LastRevision
  BY ChainTypes
<1> QED
  BY <1>1, BroughtIsNew DEF Standing

-----------------------------------------------------------------------------
(* What a run has done, relative to the version v that is committed.        *)

Fields == {"phase", "alone", "up", "goal", "rev", "at", "added", "removed", "sown",
           "mark", "held"}

\* alembic_version at version v.
Rows(v) == {v} \ {0}

\* All and nothing but what the statements of an upgrade from b have made so far.
Exactly(run, b) ==
  run.added \ Lasting = (Standing(run.rev - 1) \ Standing(b))
                          \cup (About(Upgrades[run.rev], run.at - 1, Making) \ Lasting)

\* An upgrade that has not stamped yet.  Whatever others commit meanwhile, the tables
\* of its first revision are its own, and so are the types that they need.
Trying(run, b, v, present) ==
  LET script == Upgrades[run.rev] IN
  /\ run.mark = {} /\ run.rev = b + 1
  /\ run.added \subseteq About(script, run.at - 1, Making)
  /\ \A i \in 1 .. run.at - 1 :
       script[i].do = "create" =>
         script[i].on \in run.added /\ NeededBy(script[i].on) \cap Brought(run.rev) \subseteq run.added
  /\ b = 0 => \A i \in 1 .. run.at - 1 : script[i].on \in present \cup run.added
  /\ run.alone => v = b /\ Exactly(run, b)

\* One that has: the version is the one it began at, and stays it.
Sure(run, b, v) ==
  /\ run.mark = {{run.rev - 1}} /\ b + 1 < run.rev /\ "alembic_version" \in run.held
  /\ v = b /\ Exactly(run, b)

\* One from nothing that has added its row to that of another version: the first
\* table that it creates is there.
Doomed(run, b, v) ==
  /\ b = 0 /\ run.rev = 2 /\ run.at = 1 /\ run.mark # {} /\ "alembic_version" \in run.held
  /\ ~ run.alone /\ v >= 2

Rising(run, b, v, present) ==
  /\ run.up /\ run.goal = LastRevision /\ run.removed = {}
  /\ b < LastRevision /\ run.rev \in b + 1 .. LastRevision + 1
  /\ run.at \in 1 .. IF run.rev > LastRevision THEN 1 ELSE Len(Upgrades[run.rev]) + 1
  /\ run.sown \subseteq Sown(run.rev, run.at - 1)
  /\ run.rev > 1 => Lasting \subseteq present \cup run.added
  /\ Trying(run, b, v, present) \/ Sure(run, b, v) \/ Doomed(run, b, v)

\* A downgrade holds the first table of every revision that it undoes, so nobody else
\* passes that revision; before it has stamped the version may only have risen.
Falling(run, b, v) ==
  /\ ~ run.up /\ run.added = {} /\ run.sown = {}
  /\ run.goal \in 0 .. b - 1 /\ run.rev \in run.goal .. b
  /\ run.at \in 1 .. IF run.rev = run.goal THEN 1 ELSE Len(Downgrades[run.rev]) + 1
  /\ run.removed = (Standing(b) \ Standing(run.rev))
                     \cup About(Downgrades[run.rev], run.at - 1, Removing)
  /\ \A r \in run.rev .. b :
       r > 1 /\ (r > run.rev \/ run.at > 1) => Downgrades[r][1].on \in run.held
  /\ run.alone => v = b
  /\ \/ run.mark = {} /\ run.rev = b /\ (run.at > 1 => b <= v)
     \/ run.mark = {Rows(run.rev)} /\ "alembic_version" \in run.held /\ v = b

Shape(run) == DOMAIN run = Fields /\ run.alone \in BOOLEAN /\ run.up \in BOOLEAN

RunOK(run, v, present) ==
  /\ Shape(run)
  /\ IF run.phase \in {"running", "waiting"}
     THEN /\ run.phase = "waiting" => ~ run.alone /\ ~ Complete(run)
          /\ \E b \in 0 .. LastRevision : Rising(run, b, v, present) \/ Falling(run, b, v)
     ELSE run.held = {} /\ (run.phase = "refused" => ~ run.alone)

Committed(v) ==
  /\ heads = Rows(v) /\ objects \ Lasting = Standing(v)
  /\ v > 0 => Lasting \subseteq objects
  /\ filled \subseteq objects

Apart == \A p, q \in Processes : p # q => runs[p].held \cap runs[q].held = {}
AloneIsAlone ==
  \A p, q \in Processes : p # q /\ Active(p) /\ Active(q) => ~ runs[p].alone

MigrationInv ==
  /\ runs = [p \in Processes |-> runs[p]]
  /\ Apart /\ AloneIsAlone
  /\ \E v \in 0 .. LastRevision : Committed(v) /\ \A p \in Processes : RunOK(runs[p], v, objects)

LEMMA CurrentVersion ==
  ASSUME NEW v \in 0 .. LastRevision, Committed(v)
  PROVE  Current = v
<1>1. v \in Nat
  BY ChainTypes
<1>2. CASE v = 0
  BY <1>2 DEF Committed, Current, Rows
<1>3. CASE v # 0
  <2>1. heads = {v}
    BY <1>3 DEF Committed, Rows
  <2> QED
    BY <1>1, <2>1 DEF Current, Max
<1> QED
  BY <1>2, <1>3

\* What is committed, seen by revision.
LEMMA SeenObjects ==
  ASSUME NEW v \in 0 .. LastRevision, Committed(v), NEW r \in 2 .. LastRevision,
         NEW n \in Brought(r)
  PROVE  n \in objects <=> r <= v
  BY BroughtIsSince, BroughtIsNew DEF Committed

-----------------------------------------------------------------------------
(* The next statement of an upgrade.                                        *)

\* What a statement leaves of a run: the same fields, one of them grown.
Moved(p, s) == (SeenHeads(p) \ {s.from}) \cup ({s.to} \ {0})

Took(p, s, run, next) ==
  /\ Shape(next) /\ next.phase = "running"
  /\ next.alone = run.alone /\ next.up = run.up /\ next.goal = run.goal
  /\ next.held = run.held \cup Touched(s)
  /\ next.added = IF s.do \in Making THEN run.added \cup {s.on} ELSE run.added
  /\ next.removed = IF s.do \in Removing THEN run.removed \cup {s.on} ELSE run.removed
  /\ next.sown = IF s.do \in Filling THEN run.sown \cup {s.on} ELSE run.sown
  /\ next.mark = IF s.do = "stamp" THEN {Moved(p, s)} ELSE run.mark

LEMMA AppliedFields ==
  ASSUME NEW p, NEW s, NEW run, run = runs[p], Shape(run),
         s.do \in Making \cup Filling \cup Removing \cup {"stamp"},
         NEW next, next = Applied(p, s)
  PROVE  Took(p, s, run, next) /\ next.rev = run.rev /\ next.at = run.at
<1> DEFINE kept == [run EXCEPT !.phase = "running", !.held = @ \cup Touched(s)]
           rows == {Moved(p, s)}
<1>1. Applied(p, s) =
        CASE s.do \in Making -> [kept EXCEPT !.added = @ \cup {s.on}]
          [] s.do \in Removing -> [kept EXCEPT !.removed = @ \cup {s.on}]
          [] s.do \in Filling -> [kept EXCEPT !.sown = @ \cup {s.on}]
          [] OTHER -> [kept EXCEPT !.mark = rows]
  BY DEF Applied, Making, Removing, Filling, Moved
<1> HIDE DEF rows
<1>2. DOMAIN run = Fields /\ run.alone \in BOOLEAN /\ run.up \in BOOLEAN
  BY DEF Shape
<1>3. /\ DOMAIN kept = Fields /\ kept.phase = "running" /\ kept.held = run.held \cup Touched(s)
      /\ kept.alone = run.alone /\ kept.up = run.up /\ kept.goal = run.goal
      /\ kept.rev = run.rev /\ kept.at = run.at /\ kept.added = run.added
      /\ kept.removed = run.removed /\ kept.sown = run.sown /\ kept.mark = run.mark
  BY <1>2 DEF Fields
<1> HIDE DEF kept
<1>4. CASE s.do \in Making
  <2>1. next = [kept EXCEPT !.added = @ \cup {s.on}]
    BY <1>1, <1>4 DEF Making, Removing, Filling
  <2> QED
    BY <1>2, <1>3, <1>4, <2>1 DEF Took, Shape, Fields, Making, Removing, Filling
<1>5. CASE s.do \in Removing
  <2>1. next = [kept EXCEPT !.removed = @ \cup {s.on}]
    BY <1>1, <1>5 DEF Making, Removing, Filling
  <2> QED
    BY <1>2, <1>3, <1>5, <2>1 DEF Took, Shape, Fields, Making, Removing, Filling
<1>6. CASE s.do \in Filling
  <2>1. next = [kept EXCEPT !.sown = @ \cup {s.on}]
    BY <1>1, <1>6 DEF Making, Removing, Filling
  <2> QED
    BY <1>2, <1>3, <1>6, <2>1 DEF Took, Shape, Fields, Making, Removing, Filling
<1>7. CASE s.do = "stamp"
  <2>1. next = [kept EXCEPT !.mark = rows]
    BY <1>1, <1>7 DEF Making, Removing, Filling
  <2> QED
    BY <1>2, <1>3, <1>7, <2>1 DEF Took, Shape, Fields, Making, Removing, Filling, rows
<1> QED
  BY <1>4, <1>5, <1>6, <1>7

\* And the step to the next place.
Placed(run, next, r, i, last) ==
  /\ i < last => next.rev = r /\ next.at = i + 1
  /\ i = last => next.rev = (IF run.up THEN r + 1 ELSE r - 1) /\ next.at = 1

LEMMA OnwardFields ==
  ASSUME NEW p, NEW run, Shape(run), NEW r \in Nat, run.rev = r, NEW last \in Nat,
         last = Len(Scripts[run.up][r]), NEW i \in 1 .. last, run.at = i,
         NEW next, next = Onward(p, run)
  PROVE  /\ Shape(next) /\ next.phase = run.phase
         /\ next.alone = run.alone /\ next.up = run.up /\ next.goal = run.goal
         /\ next.held = run.held /\ next.added = run.added /\ next.removed = run.removed
         /\ next.sown = run.sown /\ next.mark = run.mark
         /\ Placed(run, next, r, i, last)
<1>1. CASE i < last
  <2>1. next = [run EXCEPT !.at = @ + 1]
    BY <1>1 DEF Onward
  <2> QED
    BY <1>1, <2>1 DEF Shape, Fields, Placed
<1>2. CASE i = last
  <2>1. next = [run EXCEPT !.at = 1, !.rev = IF run.up THEN @ + 1 ELSE @ - 1]
    BY <1>2 DEF Onward
  <2> QED
    BY <1>2, <2>1 DEF Shape, Fields, Placed
<1> QED
  BY <1>1, <1>2

\* Both together.
LEMMA GoneOn ==
  ASSUME NEW p, NEW s, NEW run, run = runs[p], Shape(run),
         NEW r \in Nat, run.rev = r, NEW last \in Nat, last = Len(Scripts[run.up][r]),
         NEW i \in 1 .. last, run.at = i,
         s.do \in Making \cup Filling \cup Removing \cup {"stamp"},
         NEW next, next = Onward(p, Applied(p, s))
  PROVE  Took(p, s, run, next) /\ Placed(run, next, r, i, last)
<1> DEFINE done == Applied(p, s)
<1>1. Took(p, s, run, done) /\ done.rev = run.rev /\ done.at = run.at
  BY AppliedFields
<1> HIDE DEF done
<1>2. next = Onward(p, done)
  BY DEF done
<1>3. Shape(done) /\ done.rev = r /\ done.at = i /\ last = Len(Scripts[done.up][r])
  BY <1>1 DEF Took
<1>4. /\ Shape(next) /\ next.phase = done.phase
      /\ next.alone = done.alone /\ next.up = done.up /\ next.goal = done.goal
      /\ next.held = done.held /\ next.added = done.added /\ next.removed = done.removed
      /\ next.sown = done.sown /\ next.mark = done.mark
      /\ Placed(done, next, r, i, last)
  BY <1>2, <1>3, OnwardFields
<1> QED
  BY <1>1, <1>4 DEF Took, Placed

LEMMA SownNext ==
  ASSUME NEW r, NEW i \in Nat \ {0}
  PROVE  Sown(r, i) = Sown(r, i - 1)
                        \cup (IF Upgrades[r][i].do \in Filling THEN {Upgrades[r][i].on} ELSE {})
<1> DEFINE script == Upgrades[r]
<1>1. About(script, i, Filling) =
        About(script, i - 1, Filling) \cup (IF script[i].do \in Filling THEN {script[i].on} ELSE {})
  BY AboutNext
<1> HIDE DEF script
<1> DEFINE earlier == UNION {About(Upgrades[q], Len(Upgrades[q]), Filling) : q \in 1 .. r - 1}
<1>2. Sown(r, i) = earlier \cup About(script, i, Filling)
  BY DEF Sown, script
<1>3. Sown(r, i - 1) = earlier \cup About(script, i - 1, Filling)
  BY DEF Sown, script
<1> HIDE DEF earlier
<1> QED
  BY <1>1, <1>2, <1>3 DEF script

LEMMA SownRevision ==
  ASSUME NEW r \in Nat \ {0}
  PROVE  Sown(r + 1, 0) = Sown(r, Len(Upgrades[r]))
<1> DEFINE F(q) == About(Upgrades[q], Len(Upgrades[q]), Filling)
<1>1. 1 .. (r + 1) - 1 = (1 .. r - 1) \cup {r}
  OBVIOUS
<1>2. /\ Sown(r + 1, 0) = (UNION {F(q) : q \in 1 .. (r + 1) - 1})
                            \cup About(Upgrades[r + 1], 0, Filling)
      /\ Sown(r, Len(Upgrades[r])) = (UNION {F(q) : q \in 1 .. r - 1}) \cup F(r)
  BY DEF Sown
<1>3. About(Upgrades[r + 1], 0, Filling) = {}
  BY AboutNone
<1> HIDE DEF F
<1>4. UNION {F(q) : q \in (1 .. r - 1) \cup {r}} = (UNION {F(q) : q \in 1 .. r - 1}) \cup F(r)
  OBVIOUS
<1> QED
  BY <1>1, <1>2, <1>3, <1>4

\* What the chain says of one statement of an upgrade.
LEMMA UpgradeStatement ==
  ASSUME NEW r \in 1 .. LastRevision, NEW i \in 1 .. Len(Upgrades[r])
  PROVE  LET s == Upgrades[r][i]
             made == About(Upgrades[r], i - 1, Making)
             before == Standing(r - 1) \cup (IF r = 1 THEN {} ELSE Lasting) \cup made IN
         /\ \/ s.do \in Making /\ s.on \notin before /\ NeededBy(s.on) \subseteq before
            \/ s.do = "seed" /\ s.on \in before
            \/ s.do = "insert" /\ s.on \in made \ Sown(r, i - 1)
         /\ r = 1 => s.do = "ensure" /\ s.on \in Lasting
         /\ s.do \in Making => s.on \in Brought(r)
         /\ made \subseteq Brought(r)
<1>1. i \in DOMAIN Upgrades[r] /\ Len(Upgrades[r]) \in Nat
  BY ChainTypes
<1>2. UpgradeApplies(r)
  BY ChainApplies
<1> DEFINE s == Upgrades[r][i]
           made == About(Upgrades[r], i - 1, Making)
           before == Standing(r - 1) \cup (IF r = 1 THEN {} ELSE Lasting) \cup made
<1>3. \/ s.do \in Making /\ s.on \notin before /\ NeededBy(s.on) \subseteq before
      \/ s.do = "seed" /\ s.on \in before
      \/ s.do = "insert" /\ s.on \in made \ Sown(r, i - 1)
  BY <1>1, <1>2 DEF UpgradeApplies
<1>4. r = 1 => s.do = "ensure" /\ s.on \in Lasting
  BY <1>1, <1>2 DEF UpgradeApplies
<1>5. s.do \in Making => s.on \in Brought(r)
  BY <1>1 DEF Brought, About
<1>6. made \subseteq Brought(r)
  BY <1>1 DEF Brought, About
<1> QED
  BY <1>3, <1>4, <1>5, <1>6

\* Which statement a run is at.
LEMMA RisingStatement ==
  ASSUME NEW b \in 0 .. LastRevision, NEW v \in 0 .. LastRevision, NEW p,
         Rising(runs[p], b, v, objects), ~ Complete(runs[p])
  PROVE  LET r == runs[p].rev  i == runs[p].at  script == Upgrades[r] IN
         /\ r \in 1 .. LastRevision /\ i \in 1 .. Len(script) + 1 /\ Len(script) \in Nat
         /\ Len(Scripts[runs[p].up][r]) = Len(script) + 1
         /\ i <= Len(script) => Statement(p) = script[i]
         /\ i = Len(script) + 1 =>
              Statement(p) = [do |-> "stamp", on |-> "alembic_version", from |-> r - 1, to |-> r]
<1> DEFINE r == runs[p].rev  i == runs[p].at  script == Upgrades[r]
<1>1. LastRevision \in Nat
  BY ChainTypes
<1>2. r \in 1 .. LastRevision /\ i \in 1 .. Len(script) + 1
  BY <1>1 DEF Rising, Complete
<1>3. Len(script) \in Nat
  BY <1>2, ChainTypes
<1>4. Statement(p) = Scripts[TRUE][r][i] /\ Scripts[runs[p].up][r] = Scripts[TRUE][r]
  BY DEF Rising, Statement
<1>5. /\ Len(Scripts[TRUE][r]) = Len(script) + 1
      /\ \A j \in 1 .. Len(script) : Scripts[TRUE][r][j] = script[j]
      /\ Scripts[TRUE][r][Len(script) + 1] =
           [do |-> "stamp", on |-> "alembic_version", from |-> r - 1, to |-> r]
  BY <1>2, ScriptStatements
<1> HIDE DEF script
<1>6. ASSUME i <= Len(script)
      PROVE  Statement(p) = script[i]
  <2>1. i \in 1 .. Len(script)
    BY <1>2, <1>3, <1>6
  <2> HIDE DEF i, r
  <2> QED
    BY <1>4, <1>5, <2>1
<1>7. i = Len(script) + 1 =>
        Statement(p) = [do |-> "stamp", on |-> "alembic_version", from |-> r - 1, to |-> r]
  BY <1>4, <1>5
<1> QED
  BY <1>2, <1>3, <1>4, <1>5, <1>6, <1>7 DEF script

LEMMA ExactlyNext ==
  ASSUME NEW run, NEW next, NEW b, NEW r, NEW i \in Nat \ {0}, run.rev = r, run.at = i,
         next.rev = r, next.at - 1 = i, NEW s, s = Upgrades[r][i],
         next.added = IF s.do \in Making THEN run.added \cup {s.on} ELSE run.added,
         Exactly(run, b)
  PROVE  Exactly(next, b)
<1> DEFINE script == Upgrades[r]
           since == Standing(r - 1) \ Standing(b)
           new == IF s.do \in Making THEN {s.on} ELSE {}
<1>1. About(script, i, Making) = About(script, i - 1, Making) \cup new
  BY AboutNext
<1>2. run.added \ Lasting = since \cup (About(script, i - 1, Making) \ Lasting)
  BY DEF Exactly
<1>3. next.added = run.added \cup new
  OBVIOUS
<1>4. Exactly(next, b) <=> next.added \ Lasting = since \cup (About(script, i, Making) \ Lasting)
  BY DEF Exactly
<1> HIDE DEF since, new, script
<1> QED
  BY <1>1, <1>2, <1>3, <1>4

\* A statement that is not refused leaves the run what it was.
LEMMA RisingGoesOn ==
  ASSUME NEW b \in 0 .. LastRevision, NEW v \in 0 .. LastRevision, Committed(v),
         NEW p, NEW run, Shape(run), Rising(run, b, v, objects), Seen(p) = objects \cup run.added,
         NEW r \in 1 .. LastRevision, run.rev = r, NEW last \in Nat, NEW script,
         script = Upgrades[r], Len(script) + 1 = last, NEW i \in 1 .. last - 1, run.at = i,
         NEW s, s = script[i], ~ Refused(p, s),
         NEW next, Took(p, s, run, next), Placed(run, next, r, i, last)
  PROVE  Rising(next, b, v, objects)
<1>1. Len(script) \in Nat /\ i \in 1 .. Len(script) /\ i \in Nat \ {0} /\ i \in Int
  BY ChainTypes
<1>2. /\ \/ s.do \in Making /\ s.on \notin Standing(r - 1)
         \/ s.do \in Filling
      /\ r = 1 => s.do = "ensure" /\ s.on \in Lasting
      /\ s.do \in Making => s.on \in Brought(r)
  BY <1>1, UpgradeStatement DEF Filling
<1>3. run.up = TRUE /\ run.removed = {}
  BY DEF Rising, Shape
<1>4. /\ Shape(next) /\ next.alone = run.alone /\ next.up = TRUE /\ next.goal = run.goal
      /\ next.rev = r /\ next.at = i + 1 /\ next.removed = {}
      /\ next.held = run.held \cup Touched(s) /\ next.mark = run.mark
      /\ next.added = IF s.do \in Making THEN run.added \cup {s.on} ELSE run.added
      /\ next.sown = IF s.do \in Filling THEN run.sown \cup {s.on} ELSE run.sown
  <2>1. s.do # "stamp" /\ s.do \notin Removing
    BY <1>2 DEF Making, Filling, Removing
  <2> QED
    BY <1>3, <2>1 DEF Took, Placed
<1>a. next.at - 1 = i
  BY <1>1, <1>4
<1>b. Exactly(run, b) => Exactly(next, b)
  <2>1. i \in Nat \ {0} /\ next.rev = r /\ s = Upgrades[r][i]
        /\ next.added = IF s.do \in Making THEN run.added \cup {s.on} ELSE run.added
    BY <1>1, <1>4
  <2> QED
    BY <2>1, <1>a, ExactlyNext
<1>5. next.sown \subseteq Sown(r, i)
  <2>1. run.sown \subseteq Sown(r, i - 1)
    BY DEF Rising
  <2> QED
    BY <1>1, <1>4, <2>1, SownNext
<1>6. r > 1 => Lasting \subseteq objects \cup next.added
  BY <1>4 DEF Rising
<1>7. ~ Doomed(run, b, v)
  <2> SUFFICES ASSUME Doomed(run, b, v) PROVE FALSE
    OBVIOUS
  <2>1. r = 2 /\ i = 1 /\ v >= 2
    BY DEF Doomed
  <2>2. s.do = "create"
    BY <2>1, ChainBegins
  <2>3. s.on \in Brought(r)
    BY <1>2, <2>2 DEF Making
  <2>4. s.on \in objects
    BY <1>1, <2>1, <2>3, SeenObjects
  <2>5. s.on \in Seen(p)
    BY <2>4
  <2> QED
    BY <2>2, <2>5 DEF Refused
<1>7a. /\ next.up /\ next.goal = LastRevision /\ next.removed = {}
       /\ b < LastRevision /\ next.rev \in b + 1 .. LastRevision + 1
       /\ next.at \in 1 .. IF next.rev > LastRevision THEN 1 ELSE Len(Upgrades[next.rev]) + 1
       /\ next.sown \subseteq Sown(next.rev, next.at - 1)
       /\ next.rev > 1 => Lasting \subseteq objects \cup next.added
  <2>1. run.goal = LastRevision /\ b < LastRevision /\ run.rev \in b + 1 .. LastRevision + 1
    BY DEF Rising
  <2>2. next.rev \in 1 .. LastRevision /\ ~ (next.rev > LastRevision)
    BY <1>4, ChainTypes
  <2>3. next.at \in 1 .. Len(Upgrades[next.rev]) + 1
    BY <1>1, <1>4
  <2> QED
    BY <1>a, <1>4, <1>5, <1>6, <2>1, <2>2, <2>3
<1>8. CASE Sure(run, b, v)
  <2>1. Exactly(run, b)
    BY <1>8 DEF Sure
  <2>2. Exactly(next, b)
    BY <1>b, <2>1
  <2>3. Sure(next, b, v)
    BY <1>4, <1>8, <2>2 DEF Sure
  <2> QED
    BY <1>7a, <2>3 DEF Rising
<1>9. CASE Trying(run, b, v, objects)
  <2>1. run.alone => v = b /\ Exactly(next, b)
    BY <1>b, <1>4, <1>9 DEF Trying
  <2>2. next.added \subseteq About(script, i, Making)
    BY <1>1, <1>4, <1>9, AboutNext DEF Trying
  <2>3. ASSUME s.do = "create"
        PROVE  s.on \in next.added /\ NeededBy(s.on) \cap Brought(r) \subseteq next.added
    <3>1. s.do \in Making /\ s.on \in Brought(r) /\ r \in 2 .. LastRevision
      BY <1>1, <1>2, <2>3 DEF Making
    <3>2. s.on \notin Seen(p) /\ NeededBy(s.on) \subseteq Seen(p)
      BY <1>1, <2>3 DEF Refused
    <3>3. Seen(p) = objects \cup run.added
      OBVIOUS
    <3>4. ~ (r <= v)
      BY <3>1, <3>2, <3>3, SeenObjects
    <3>5. Brought(r) \cap objects = {}
      BY <3>1, <3>4, SeenObjects
    <3> QED
      BY <1>4, <3>1, <3>2, <3>3, <3>5
  <2>4. \A j \in 1 .. i : script[j].do = "create" =>
          script[j].on \in next.added /\ NeededBy(script[j].on) \cap Brought(r) \subseteq next.added
    <3>1. \A j \in 1 .. i : j = i \/ j \in 1 .. i - 1
      BY <1>1
    <3> QED
      BY SMTT(30), <1>4, <1>9, <2>3, <3>1 DEF Trying
  <2>5. b = 0 => \A j \in 1 .. i : script[j].on \in objects \cup next.added
    <3>1. \A j \in 1 .. i : j = i \/ j \in 1 .. i - 1
      BY <1>1
    <3>2. b = 0 => s.do \in Making
      BY <1>2, <1>9 DEF Trying, Making
    <3> QED
      BY <1>4, <1>9, <3>1, <3>2 DEF Trying
  <2>7. Trying(next, b, v, objects)
    BY <1>4, <1>9, <2>1, <2>2, <2>4, <2>5, <1>a DEF Trying
  <2> QED
    BY <1>7a, <2>7 DEF Rising
<1> QED
  BY <1>7, <1>8, <1>9 DEF Rising

-----------------------------------------------------------------------------
(* Its stamp, and the statements that it skips.                             *)

LEMMA ExactlyRevision ==
  ASSUME NEW run, NEW next, NEW r \in 1 .. LastRevision, NEW b \in 0 .. r - 1,
         run.rev = r, run.at - 1 = Len(Upgrades[r]), next.rev - 1 = r, next.at - 1 = 0,
         next.added = run.added, Exactly(run, b)
  PROVE  Exactly(next, b)
<1>1. About(Upgrades[r], Len(Upgrades[r]), Making) = Brought(r)
  BY DEF Brought
<1>2. About(Upgrades[next.rev], 0, Making) = {}
  BY AboutNone
<1>3. run.added \ Lasting = (Standing(r - 1) \ Standing(b)) \cup (Brought(r) \ Lasting)
  BY <1>1 DEF Exactly
<1>4. Exactly(next, b) <=> run.added \ Lasting = Standing(r) \ Standing(b)
  BY <1>2 DEF Exactly
<1>5. CASE r = 1
  <2>1. Standing(r) = {} /\ Standing(r - 1) = {}
    BY <1>5, StandingLow
  <2>2. Brought(r) = Lasting
    BY <1>5, ChainBegins
  <2> QED
    BY <1>3, <1>4, <2>1, <2>2
<1>6. CASE r # 1
  <2>1. r \in 2 .. LastRevision /\ r \in Nat \ {0, 1} /\ b \in 0 .. LastRevision /\ ~ (r <= b)
    BY <1>6, ChainTypes
  <2>2. Standing(r) = Standing(r - 1) \cup Brought(r)
    BY <2>1, StandingNext
  <2>3. Brought(r) \cap Standing(b) = {} /\ Brought(r) \cap Lasting = {}
    BY <2>1, BroughtIsSince, BroughtIsNew
  <2> QED
    BY <1>3, <1>4, <2>2, <2>3
<1> QED
  BY <1>5, <1>6

\* An upgrade that has come to the end of its first revision has made all of it.
LEMMA TriedIsExact ==
  ASSUME NEW run, NEW b \in 0 .. LastRevision, NEW v, Trying(run, b, v, objects),
         NEW r \in 1 .. LastRevision, run.rev = r, run.at - 1 = Len(Upgrades[r])
  PROVE  Exactly(run, b)
<1> DEFINE script == Upgrades[r]
           created == About(script, Len(script), {"create"})
<1>1. b = r - 1 /\ run.added \subseteq Brought(r)
  BY DEF Trying, Brought
<1>2. Exactly(run, b) <=> run.added \ Lasting = Brought(r) \ Lasting
  BY <1>1 DEF Exactly, Brought
<1>3. CASE r = 1
  BY <1>1, <1>2, <1>3, ChainBegins
<1>4. CASE r # 1
  <2>1. UpgradeApplies(r) /\ r > 1
    <3>1. UpgradeApplies(r)
      BY ChainApplies
    <3>2. LastRevision \in Nat
      BY ChainTypes
    <3>3. r > 1
      BY <1>4, <3>2
    <3> QED
      BY <3>1, <3>3
  <2>2. Brought(r) \subseteq created \cup UNION {NeededBy(n) : n \in created}
    BY <2>1 DEF UpgradeApplies
  <2>3. ASSUME NEW n \in created
        PROVE  n \in run.added /\ NeededBy(n) \cap Brought(r) \subseteq run.added
    <3>1. PICK i \in 1 .. Len(script) : script[i].do = "create" /\ n = script[i].on
      BY <2>3 DEF About
    <3> QED
      BY <3>1 DEF Trying
  <2> HIDE DEF created
  <2> QED
    BY <1>1, <1>2, <2>2, <2>3
<1> QED
  BY <1>3, <1>4

LEMMA RisingStamps ==
  ASSUME NEW b \in 0 .. LastRevision, NEW v \in 0 .. LastRevision, Committed(v),
         NEW p, NEW run, run = runs[p], Shape(run), Rising(run, b, v, objects),
         NEW r \in 1 .. LastRevision, run.rev = r, NEW last \in Nat,
         Len(Upgrades[r]) + 1 = last, run.at = last,
         NEW s, s.do = "stamp", s.on = "alembic_version", s.from = r - 1, s.to = r,
         ~ Mismatched(p, s),
         NEW next, Took(p, s, run, next), Placed(run, next, r, last, last)
  PROVE  Rising(next, b, v, objects)
<1>1. /\ LastRevision \in Nat /\ r \in Nat /\ Len(Upgrades[r]) \in Nat
      /\ run.at - 1 = Len(Upgrades[r])
  BY ChainTypes
<1>2. /\ run.up = TRUE /\ run.removed = {} /\ run.goal = LastRevision /\ b < LastRevision
      /\ run.sown \subseteq Sown(r, Len(Upgrades[r])) /\ b \in 0 .. r - 1
      /\ r > 1 => Lasting \subseteq objects \cup run.added
  BY <1>1 DEF Rising, Shape
<1>3. /\ Shape(next) /\ next.alone = run.alone /\ next.up = TRUE /\ next.goal = LastRevision
      /\ next.removed = {} /\ next.added = run.added /\ next.sown = run.sown
      /\ next.held = run.held \cup Touched(s) /\ next.mark = {Moved(p, s)}
      /\ next.rev = r + 1 /\ next.at = 1
  BY <1>2 DEF Took, Placed, Making, Removing, Filling
<1>4. "alembic_version" \in next.held
  BY <1>3 DEF Touched
<1>5. next.rev - 1 = r /\ next.at - 1 = 0
  BY <1>1, <1>3
<1>6. SeenHeads(p) = IF run.mark # {} THEN UNION run.mark ELSE Rows(v)
  BY DEF SeenHeads, Committed
<1>7. ~ Doomed(run, b, v)
  <2> SUFFICES ASSUME Doomed(run, b, v) PROVE FALSE
    OBVIOUS
  <2>1. r = 2 /\ Len(Upgrades[2]) = 0
    BY <1>1 DEF Doomed
  <2>2. Upgrades[2] \in Seq(Statements)
    BY <2>1, ChainTypes
  <2> QED
    BY <2>1, <2>2, ChainBegins
<1>8. ASSUME Sure(run, b, v)
      PROVE  Sure(next, b, v)
  <2>1. SeenHeads(p) = {r - 1} /\ r - 1 # r /\ r # 0
    BY <1>1, <1>6, <1>8 DEF Sure
  <2>2. Moved(p, s) = {r}
    BY <2>1 DEF Moved
  <2>3. Exactly(next, b)
    BY <1>1, <1>2, <1>3, <1>5, <1>8, ExactlyRevision DEF Sure
  <2> QED
    BY <1>1, <1>3, <1>4, <1>5, <1>8, <2>2, <2>3 DEF Sure
<1>9. ASSUME Trying(run, b, v, objects)
      PROVE  Sure(next, b, v) \/ Doomed(next, b, v)
  <2>1. SeenHeads(p) = Rows(v) /\ b = r - 1
    BY <1>1, <1>6, <1>9 DEF Trying
  <2>2. Exactly(next, b)
    <3>1. Exactly(run, b)
      BY <1>1, <1>9, TriedIsExact
    <3> QED
      BY <1>1, <1>2, <1>3, <1>5, <3>1, ExactlyRevision
  <2>3. ASSUME v = b
        PROVE  Sure(next, b, v)
    <3>1. Moved(p, s) = {r}
      BY <1>1, <2>1, <2>3 DEF Moved, Rows
    <3> QED
      BY <1>1, <1>3, <1>4, <1>5, <2>1, <2>2, <2>3, <3>1 DEF Sure
  <2>4. CASE b # 0
    <3>1. b \in Rows(v)
      BY <2>1, <2>4 DEF Mismatched
    <3> QED
      BY <2>3, <3>1 DEF Rows
  <2>5. CASE b = 0 /\ v # 0
    <3>1. r = 1 /\ v # 1
      BY <1>1, <2>1, <2>5 DEF Mismatched, Rows
    <3>2. ~ run.alone
      BY <1>9, <2>5 DEF Trying
    <3> QED
      BY <1>1, <1>3, <1>4, <2>5, <3>1, <3>2 DEF Doomed
  <2> QED
    BY <2>3, <2>4, <2>5
<1>10. Sure(run, b, v) \/ Trying(run, b, v, objects)
  BY <1>7 DEF Rising
<1>11. Sure(next, b, v) \/ Doomed(next, b, v)
  BY <1>8, <1>9, <1>10
<1>12. /\ next.up /\ next.goal = LastRevision /\ next.removed = {}
       /\ b < LastRevision /\ next.rev \in b + 1 .. LastRevision + 1
       /\ next.at \in 1 .. IF next.rev > LastRevision THEN 1 ELSE Len(Upgrades[next.rev]) + 1
       /\ next.sown \subseteq Sown(next.rev, next.at - 1)
       /\ next.rev > 1 => Lasting \subseteq objects \cup next.added
  <2>1. Lasting \subseteq objects \cup next.added
    <3>1. CASE r > 1
      BY <1>2, <1>3, <3>1
    <3>2. CASE r = 1
      <4>1. b = 0 /\ Trying(run, b, v, objects)
        BY <1>1, <1>2, <1>10, <3>2 DEF Sure
      <4>2. \A i \in 1 .. Len(Upgrades[r]) : Upgrades[r][i].on \in objects \cup run.added
        BY <1>1, <4>1 DEF Trying
      <4>3. Brought(1) = Lasting
        BY ChainBegins
      <4> QED
        BY <1>3, <3>2, <4>2, <4>3 DEF Brought, About
    <3> QED
      BY <1>1, <3>1, <3>2
  <2>2. next.sown \subseteq Sown(next.rev, next.at - 1)
    <3>1. Sown(r + 1, 0) = Sown(r, Len(Upgrades[r]))
      BY <1>1, SownRevision
    <3>2. next.rev = r + 1 /\ next.at - 1 = 0 /\ next.sown = run.sown
      BY <1>3, <1>5
    <3> QED
      BY <1>2, <3>1, <3>2
  <2>3. next.at \in 1 .. IF next.rev > LastRevision THEN 1 ELSE Len(Upgrades[next.rev]) + 1
    <3>1. CASE next.rev > LastRevision
      BY <1>3, <3>1
    <3>2. CASE ~ (next.rev > LastRevision)
      <4>1. Len(Upgrades[next.rev]) \in Nat
        BY <1>1, <1>3, <3>2, ChainTypes
      <4> QED
        BY <1>3, <3>2, <4>1
    <3> QED
      BY <3>1, <3>2
  <2> QED
    BY <1>1, <1>2, <1>3, <2>1, <2>2, <2>3
<1> QED
  BY <1>11, <1>12 DEF Rising

\* What a run that has done exactly its part sees before a statement.
LEMMA SeesBefore ==
  ASSUME NEW b \in 0 .. LastRevision, Committed(b), NEW run, Rising(run, b, b, objects), Exactly(run, b),
         Trying(run, b, b, objects) \/ Sure(run, b, b),
         NEW r \in 1 .. LastRevision, run.rev = r, NEW i \in 1 .. Len(Upgrades[r]), run.at = i
  PROVE  Standing(r - 1) \cup (IF r = 1 THEN {} ELSE Lasting)
           \cup About(Upgrades[r], i - 1, Making) \subseteq objects \cup run.added
<1> DEFINE made == About(Upgrades[r], i - 1, Making)
<1>1. LastRevision \in Nat /\ Len(Upgrades[r]) \in Nat /\ b \in 0 .. r - 1 /\ r \in Nat
  BY ChainTypes DEF Rising
<1>2. run.added \ Lasting = (Standing(r - 1) \ Standing(b)) \cup (made \ Lasting)
  BY DEF Exactly
<1>3. Standing(b) \subseteq objects
  BY DEF Committed
<1>4. r # 1 => Lasting \subseteq objects \cup run.added
  BY <1>1 DEF Rising
<1>5. r = 1 => made \subseteq objects \cup run.added
  <2> SUFFICES ASSUME r = 1 PROVE made \subseteq objects \cup run.added
    OBVIOUS
  <2>1. b = 0 /\ Trying(run, b, b, objects)
    BY <1>1 DEF Sure
  <2> QED
    BY <2>1 DEF Trying, About
<1> HIDE DEF made
<1>6. Standing(r - 1) \subseteq objects \cup run.added
  BY <1>2, <1>3
<1> QED
  BY <1>2, <1>4, <1>5, <1>6 DEF made

\* And what it does not: the object that the statement is to make.
LEMMA NotMade ==
  ASSUME NEW b \in 0 .. LastRevision, Committed(b), NEW run, Rising(run, b, b, objects), Exactly(run, b),
         NEW r \in 2 .. LastRevision, run.rev = r, NEW i \in 1 .. Len(Upgrades[r]), run.at = i,
         NEW s, s = Upgrades[r][i], s.do \in Making
  PROVE  s.on \notin objects \cup run.added
<1> DEFINE made == About(Upgrades[r], i - 1, Making)
<1>1. b \in 0 .. r - 1 /\ ~ (r <= b) /\ r \in 1 .. LastRevision /\ r # 1
  BY ChainTypes DEF Rising
<1>2. s.on \in Brought(r) /\ s.on \notin Standing(r - 1) \cup Lasting \cup made
  <2>1. s.do \notin Filling
    BY DEF Making, Filling
  <2> QED
    BY <1>1, <2>1, UpgradeStatement DEF Filling
<1>3. run.added \ Lasting = (Standing(r - 1) \ Standing(b)) \cup (made \ Lasting)
  BY DEF Exactly
<1>4. s.on \notin objects
  BY <1>1, <1>2, SeenObjects
<1> HIDE DEF made
<1> QED
  BY <1>2, <1>3, <1>4

\* A statement is skipped only for an object that is there.
LEMMA RisingSkips ==
  ASSUME NEW b \in 0 .. LastRevision, NEW v \in 0 .. LastRevision, Committed(v),
         NEW run, Shape(run), Rising(run, b, v, objects),
         NEW r \in 1 .. LastRevision, run.rev = r, NEW script,
         script = Upgrades[r], NEW i \in 1 .. Len(script), run.at = i,
         NEW s, s = script[i], s.do = "ensure", s.on \in objects \cup run.added,
         NEW next, next.up = run.up, next.goal = run.goal, next.removed = run.removed,
         next.alone = run.alone, next.mark = run.mark, next.held = run.held,
         next.added = run.added, next.sown = run.sown, next.rev = r, next.at = i + 1
  PROVE  Rising(next, b, v, objects)
<1>1. Len(script) \in Nat /\ i \in Nat \ {0} /\ r \in Nat /\ LastRevision \in Nat
  BY ChainTypes
<1>2. next.at - 1 = i
  BY <1>1
<1>3. s.do \in Making /\ s.do # "create" /\ s.do \notin Filling
  BY DEF Making, Filling
<1>4. b \in 0 .. r - 1 /\ run.sown \subseteq Sown(r, i - 1)
  BY <1>1 DEF Rising
<1>5. Exactly(run, b) /\ v = b => r = 1
  <2> SUFFICES ASSUME Exactly(run, b), v = b, r # 1 PROVE FALSE
    OBVIOUS
  <2>1. r \in 2 .. LastRevision
    BY <1>1
  <2> QED
    BY <1>3, <2>1, NotMade
<1>6. ~ Sure(run, b, v)
  BY <1>1, <1>4, <1>5 DEF Sure
<1>7. ~ Doomed(run, b, v)
  BY <1>3, ChainBegins DEF Doomed
<1>8. Trying(run, b, v, objects)
  BY <1>6, <1>7 DEF Rising
<1>9. next.added \subseteq About(script, i, Making)
  <2>1. About(script, i - 1, Making) \subseteq About(script, i, Making)
    BY <1>1, AboutGrows
  <2> QED
    BY <1>8, <2>1 DEF Trying
<1>10. \A j \in 1 .. i : j = i \/ j \in 1 .. i - 1
  BY <1>1
<1>11. \A j \in 1 .. i : script[j].do = "create" =>
         script[j].on \in next.added /\ NeededBy(script[j].on) \cap Brought(r) \subseteq next.added
  BY <1>3, <1>8, <1>10 DEF Trying
<1>12. b = 0 => \A j \in 1 .. i : script[j].on \in objects \cup next.added
  BY <1>8, <1>10 DEF Trying
<1>13. run.alone => v = b /\ Exactly(next, b)
  <2> SUFFICES ASSUME run.alone PROVE v = b /\ Exactly(next, b)
    OBVIOUS
  <2>1. v = b /\ Exactly(run, b) /\ r = 1 /\ b = 0
    BY <1>1, <1>4, <1>5, <1>8 DEF Trying
  <2>2. Standing(r - 1) = {} /\ Brought(1) = Lasting
    BY <2>1, StandingLow, ChainBegins
  <2>3. /\ About(script, i, Making) \subseteq Lasting
        /\ About(script, i - 1, Making) \subseteq Lasting
    BY <1>1, <2>1, <2>2, AboutGrows DEF Brought
  <2>4. /\ Exactly(next, b) <=> next.added \ Lasting = {}
        /\ Exactly(run, b) <=> run.added \ Lasting = {}
    BY <1>2, <2>2, <2>3 DEF Exactly
  <2> QED
    BY <2>1, <2>4
<1>14. Trying(next, b, v, objects)
  BY <1>2, <1>8, <1>9, <1>11, <1>12, <1>13 DEF Trying
<1>15. next.sown \subseteq Sown(r, i)
  BY <1>1, <1>4, SownNext
<1>16. /\ next.up /\ next.goal = LastRevision /\ next.removed = {}
       /\ b < LastRevision /\ next.rev \in b + 1 .. LastRevision + 1
       /\ next.at \in 1 .. IF next.rev > LastRevision THEN 1 ELSE Len(Upgrades[next.rev]) + 1
       /\ next.sown \subseteq Sown(next.rev, next.at - 1)
       /\ next.rev > 1 => Lasting \subseteq objects \cup next.added
  <2>1. /\ run.up /\ run.goal = LastRevision /\ run.removed = {} /\ b < LastRevision
        /\ run.rev \in b + 1 .. LastRevision + 1
        /\ run.rev > 1 => Lasting \subseteq objects \cup run.added
    BY DEF Rising
  <2>2. next.rev \in 1 .. LastRevision /\ ~ (next.rev > LastRevision)
    BY <1>1
  <2>3. next.at \in 1 .. Len(Upgrades[next.rev]) + 1
    BY <1>1
  <2> QED
    BY <1>2, <1>15, <2>1, <2>2, <2>3
<1> QED
  BY <1>14, <1>16 DEF Rising

\* An upgrade that has the database to itself is refused nothing.
LEMMA RisingAlone ==
  ASSUME NEW b \in 0 .. LastRevision, NEW v \in 0 .. LastRevision, Committed(v),
         NEW p, NEW run, run = runs[p], Shape(run), Rising(run, b, v, objects), run.alone,
         NEW r \in 1 .. LastRevision, run.rev = r, NEW script, script = Upgrades[r],
         NEW i \in 1 .. Len(script) + 1, run.at = i,
         NEW s, i <= Len(script) => s = script[i],
         i = Len(script) + 1 => s.do = "stamp" /\ s.from = r - 1 /\ s.to = r,
         ~ Skipped(p, s)
  PROVE  ~ Refused(p, s)
<1>1. Len(script) \in Nat /\ i \in Nat \ {0} /\ r \in Nat /\ LastRevision \in Nat
  BY ChainTypes
<1>2. run.removed = {} /\ b \in 0 .. r - 1 /\ (Trying(run, b, v, objects) \/ Sure(run, b, v))
  BY <1>1 DEF Rising, Doomed
<1>3. v = b /\ Exactly(run, b) /\ Committed(b)
  BY <1>2 DEF Trying, Sure
<1>4. Seen(p) = objects \cup run.added
  BY <1>2 DEF Seen
<1>5. CASE i <= Len(script)
  <2> DEFINE made == About(script, i - 1, Making)
             before == Standing(r - 1) \cup (IF r = 1 THEN {} ELSE Lasting) \cup made
  <2>1. i \in 1 .. Len(script) /\ s = script[i]
    BY <1>1, <1>5
  <2>2. before \subseteq Seen(p)
    BY <1>2, <1>3, <1>4, <2>1, SeesBefore
  <2>3. /\ \/ s.do \in Making /\ s.on \notin before /\ NeededBy(s.on) \subseteq before
           \/ s.do = "seed" /\ s.on \in before
           \/ s.do = "insert" /\ s.on \in made \ Sown(r, i - 1)
        /\ r = 1 => s.do = "ensure"
        /\ made \subseteq Brought(r)
    BY <2>1, UpgradeStatement
  <2>4. made \subseteq before
    OBVIOUS
  <2> HIDE DEF before, made
  <2>5. CASE s.do \in Making
    <3>1. s.on \notin Seen(p)
      <4>1. CASE r = 1
        BY <2>3, <4>1 DEF Skipped
      <4>2. CASE r # 1
        <5>1. r \in 2 .. LastRevision
          BY <1>1, <4>2
        <5> QED
          BY <1>3, <1>4, <2>1, <2>5, <5>1, NotMade
      <4> QED
        BY <4>1, <4>2
    <3>2. NeededBy(s.on) \subseteq Seen(p)
      BY <2>2, <2>3, <2>5 DEF Making
    <3> QED
      BY <2>5, <3>1, <3>2 DEF Refused, Making
  <2>6. CASE s.do = "seed"
    <3>1. s.on \in Seen(p)
      BY <2>2, <2>3, <2>6 DEF Making
    <3> QED
      BY <2>6, <3>1 DEF Refused
  <2>7. CASE s.do = "insert"
    <3>1. s.on \in made /\ s.on \notin Sown(r, i - 1) /\ r # 1
      BY <2>3, <2>7 DEF Making
    <3>2. r \in 2 .. LastRevision /\ s.on \in Brought(r) /\ ~ (r <= v)
      BY <1>1, <1>2, <1>3, <2>3, <3>1
    <3>3. s.on \notin objects
      BY <3>2, SeenObjects
    <3>4. s.on \notin filled \cup run.sown
      BY <3>1, <3>3 DEF Committed, Rising
    <3>5. s.on \in Seen(p) /\ s.on \notin SeenFilled(p)
      BY <2>2, <2>4, <3>1, <3>4 DEF SeenFilled
    <3> QED
      BY <2>7, <3>5 DEF Refused
  <2> QED
    BY <2>3, <2>5, <2>6, <2>7
<1>6. CASE i = Len(script) + 1
  <2>1. s.do = "stamp" /\ s.from = r - 1 /\ s.to = r
    BY <1>6
  <2>2. SeenHeads(p) = IF run.mark # {} THEN UNION run.mark ELSE Rows(v)
    BY DEF SeenHeads, Committed
  <2>3. ~ Mismatched(p, s)
    <3>1. CASE Trying(run, b, v, objects)
      <4>1. SeenHeads(p) = Rows(b) /\ b = r - 1
        BY <1>1, <1>3, <2>2, <3>1 DEF Trying
      <4> QED
        BY <1>1, <2>1, <4>1 DEF Mismatched, Rows
    <3>2. CASE Sure(run, b, v)
      <4>1. SeenHeads(p) = {r - 1} /\ r - 1 # 0
        BY <1>1, <1>2, <2>2, <3>2 DEF Sure
      <4> QED
        BY <2>1, <4>1 DEF Mismatched
    <3> QED
      BY <1>2, <3>1, <3>2
  <2> QED
    BY <2>1, <2>3 DEF Refused
<1> QED
  BY <1>1, <1>5, <1>6

-----------------------------------------------------------------------------
(* The next statement of a downgrade.                                       *)

\* What the chain says of one: it takes away what the revision brought, and is first.
LEMMA DowngradeStatement ==
  ASSUME NEW r \in 1 .. LastRevision, NEW i \in 1 .. Len(Downgrades[r]),
         NEW s, s = Downgrades[r][i]
  PROVE  /\ s.do \in Removing /\ r > 1 /\ s.on \in Brought(r) /\ s.on \notin Lasting
         /\ s.on \notin About(Downgrades[r], i - 1, Removing)
         /\ \A n \in (Standing(r) \cup Lasting) \ About(Downgrades[r], i - 1, Removing) :
              s.on \notin NeededBy(n)
<1> DEFINE script == Downgrades[r]
<1>1. DowngradeApplies(r) /\ i \in DOMAIN script /\ r \in Nat /\ r >= 1
  <2>1. DowngradeApplies(r)
    BY ChainApplies
  <2>2. i \in DOMAIN script /\ r \in Nat /\ r >= 1
    BY ChainTypes
  <2> QED
    BY <2>1, <2>2
<1>2. /\ s.do \in Removing /\ s.on \notin About(script, i - 1, Removing)
      /\ \A n \in (Standing(r) \cup Lasting) \ About(script, i - 1, Removing) :
           s.on \notin NeededBy(n)
  BY <1>1 DEF DowngradeApplies
<1>3. About(script, Len(script), Removing) = Brought(r) \ Lasting
  BY <1>1 DEF DowngradeApplies
<1>4. s.on \in Brought(r) /\ s.on \notin Lasting
  BY <1>2, <1>3 DEF About
<1>5. r # 1
  BY <1>4, ChainBegins
<1> QED
  BY <1>1, <1>2, <1>4, <1>5

\* Which statement a run is at.
LEMMA FallingStatement ==
  ASSUME NEW b \in 0 .. LastRevision, NEW v \in 0 .. LastRevision, NEW p,
         Shape(runs[p]), Falling(runs[p], b, v), ~ Complete(runs[p])
  PROVE  LET r == runs[p].rev  i == runs[p].at  script == Downgrades[r] IN
         /\ r \in 1 .. LastRevision /\ i \in 1 .. Len(script) + 1 /\ Len(script) \in Nat
         /\ Len(Scripts[runs[p].up][r]) = Len(script) + 1
         /\ i <= Len(script) => Statement(p) = script[i]
         /\ i = Len(script) + 1 =>
              Statement(p) = [do |-> "stamp", on |-> "alembic_version", from |-> r, to |-> r - 1]
<1> DEFINE r == runs[p].rev  i == runs[p].at  script == Downgrades[r]
<1>1. LastRevision \in Nat
  BY ChainTypes
<1>2. r \in 1 .. LastRevision /\ i \in 1 .. Len(script) + 1
  <2>1. runs[p].goal \in 0 .. b - 1 /\ r \in runs[p].goal .. b /\ r # runs[p].goal
    BY DEF Falling, Complete
  <2>2. r \in 1 .. LastRevision
    BY <1>1, <2>1
  <2>3. i \in 1 .. Len(script) + 1
    BY <2>1 DEF Falling
  <2> QED
    BY <2>2, <2>3
<1>3. Len(script) \in Nat
  BY <1>2, ChainTypes
<1>4. Statement(p) = Scripts[FALSE][r][i] /\ Scripts[runs[p].up][r] = Scripts[FALSE][r]
  <2>1. runs[p].up = FALSE
    BY DEF Falling, Shape
  <2> QED
    BY <2>1 DEF Statement
<1>5. /\ Len(Scripts[FALSE][r]) = Len(script) + 1
      /\ \A j \in 1 .. Len(script) : Scripts[FALSE][r][j] = script[j]
      /\ Scripts[FALSE][r][Len(script) + 1] =
           [do |-> "stamp", on |-> "alembic_version", from |-> r, to |-> r - 1]
  BY <1>2, ScriptStatements
<1> HIDE DEF script
<1>6. ASSUME i <= Len(script)
      PROVE  Statement(p) = script[i]
  <2>1. i \in 1 .. Len(script)
    BY <1>2, <1>3, <1>6
  <2> HIDE DEF i, r
  <2> QED
    BY <1>4, <1>5, <2>1
<1>7. i = Len(script) + 1 =>
        Statement(p) = [do |-> "stamp", on |-> "alembic_version", from |-> r, to |-> r - 1]
  BY <1>4, <1>5
<1> QED
  BY <1>2, <1>3, <1>4, <1>5, <1>6, <1>7 DEF script

\* What it takes away is still there, unless it has done nothing yet.
LEMMA FallingSees ==
  ASSUME NEW b \in 0 .. LastRevision, NEW v \in 0 .. LastRevision, Committed(v),
         NEW run, Falling(run, b, v), NEW r \in 1 .. LastRevision, run.rev = r,
         NEW i \in 1 .. Len(Downgrades[r]), run.at = i, NEW s, s = Downgrades[r][i], b <= v
  PROVE  s.on \in objects \ run.removed
<1>1. s.on \in Brought(r) /\ s.on \notin About(Downgrades[r], i - 1, Removing) /\ r > 1
  BY DowngradeStatement
<1>2. r \in 2 .. LastRevision /\ r <= b /\ r <= v /\ r \in 0 .. LastRevision
  BY <1>1, ChainTypes DEF Falling
<1>3. s.on \in objects /\ s.on \in Standing(r)
  BY <1>1, <1>2, SeenObjects, BroughtIsSince
<1>4. run.removed = (Standing(b) \ Standing(r)) \cup About(Downgrades[r], i - 1, Removing)
  BY DEF Falling
<1> QED
  BY <1>1, <1>3, <1>4

LEMMA FallingGoesOn ==
  ASSUME NEW b \in 0 .. LastRevision, NEW v \in 0 .. LastRevision, Committed(v),
         NEW p, NEW run, Shape(run), Falling(run, b, v), Seen(p) = objects \ run.removed,
         NEW r \in 1 .. LastRevision, run.rev = r, run.goal # r, NEW last \in Nat, NEW script,
         script = Downgrades[r], Len(script) + 1 = last, NEW i \in 1 .. last - 1, run.at = i,
         NEW s, s = script[i], ~ Refused(p, s),
         NEW next, Took(p, s, run, next), Placed(run, next, r, i, last)
  PROVE  Falling(next, b, v)
<1>1. /\ Len(script) \in Nat /\ i \in 1 .. Len(script) /\ i \in Nat \ {0} /\ r \in Nat
      /\ i \in Int /\ b \in Nat /\ LastRevision \in Nat
  BY ChainTypes
<1>2. s.do \in Removing /\ r > 1 /\ s.on \in Brought(r)
  BY <1>1, DowngradeStatement
<1>3. /\ ~ run.up /\ run.added = {} /\ run.sown = {} /\ run.goal \in 0 .. b - 1
      /\ run.rev \in run.goal .. b
      /\ run.removed = (Standing(b) \ Standing(r)) \cup About(script, i - 1, Removing)
      /\ run.alone => v = b
  BY DEF Falling
<1>4. /\ Shape(next) /\ next.alone = run.alone /\ ~ next.up /\ next.goal = run.goal
      /\ next.rev = r /\ next.at = i + 1 /\ next.added = {} /\ next.sown = {}
      /\ next.held = run.held \cup Touched(s) /\ next.mark = run.mark
      /\ next.removed = run.removed \cup {s.on}
  <2>1. s.do # "stamp" /\ s.do \notin Making /\ s.do \notin Filling
    BY <1>2 DEF Making, Filling, Removing
  <2> QED
    BY <1>2, <1>3, <2>1 DEF Took, Placed
<1>5. next.at - 1 = i
  BY <1>1, <1>4
<1>6. next.removed = (Standing(b) \ Standing(r)) \cup About(script, i, Removing)
  <2>1. About(script, i, Removing) = About(script, i - 1, Removing) \cup {s.on}
    BY <1>1, <1>2, AboutNext
  <2> QED
    BY <1>3, <1>4, <2>1
<1>7. ASSUME NEW q \in r .. b, q > 1
      PROVE  Downgrades[q][1].on \in next.held
  <2>1. CASE q > r \/ i > 1
    BY <1>4, <1>7, <2>1 DEF Falling
  <2>2. CASE q = r /\ i = 1
    BY <1>4, <2>2 DEF Touched
  <2> QED
    BY <1>1, <2>1, <2>2
<1>8. \/ next.mark = {} /\ next.rev = b /\ (next.at > 1 => b <= v)
      \/ next.mark = {Rows(next.rev)} /\ "alembic_version" \in next.held /\ v = b
  <2>1. CASE run.mark = {} /\ r = b
    <3>1. CASE i > 1
      <4>1. b <= v
        BY <2>1, <3>1 DEF Falling
      <4> QED
        BY <1>4, <2>1, <4>1
    <3>2. CASE i = 1
      <4>1. s.on \in Seen(p)
        BY <1>2, <3>2 DEF Refused, Removing
      <4>2. b \in 2 .. LastRevision /\ s.on \in Brought(b) /\ s.on \in objects
        BY <1>1, <1>2, <2>1, <4>1
      <4>3. b <= v
        BY <4>2, SeenObjects
      <4> QED
        BY <1>4, <2>1, <4>3
    <3> QED
      BY <1>1, <3>1, <3>2
  <2>2. CASE run.mark = {Rows(r)} /\ "alembic_version" \in run.held /\ v = b
    BY <1>4, <2>2
  <2> QED
    BY <2>1, <2>2 DEF Falling
<1>9. /\ next.goal \in 0 .. b - 1 /\ next.rev \in next.goal .. b
      /\ next.at \in 1 .. IF next.rev = next.goal THEN 1 ELSE Len(Downgrades[next.rev]) + 1
  <2>1. next.rev # next.goal /\ next.at \in 1 .. Len(Downgrades[next.rev]) + 1
    BY <1>1, <1>4
  <2> QED
    BY <1>3, <1>4, <2>1
<1>10. \A q \in next.rev .. b :
         q > 1 /\ (q > next.rev \/ next.at > 1) => Downgrades[q][1].on \in next.held
  BY <1>4, <1>7
<1>11. next.removed = (Standing(b) \ Standing(next.rev))
                        \cup About(Downgrades[next.rev], next.at - 1, Removing)
  BY <1>4, <1>5, <1>6
<1> QED
  BY <1>3, <1>4, <1>8, <1>9, <1>10, <1>11 DEF Falling

LEMMA FallingStamps ==
  ASSUME NEW b \in 0 .. LastRevision, NEW v \in 0 .. LastRevision, Committed(v),
         NEW p, NEW run, run = runs[p], Shape(run), Falling(run, b, v),
         NEW r \in 1 .. LastRevision, run.rev = r, run.goal # r, NEW last \in Nat, NEW script,
         script = Downgrades[r], Len(script) + 1 = last, run.at = last,
         NEW s, s.do = "stamp", s.on = "alembic_version", s.from = r, s.to = r - 1,
         ~ Mismatched(p, s),
         NEW next, Took(p, s, run, next), Placed(run, next, r, last, last)
  PROVE  Falling(next, b, v)
<1>1. /\ Len(script) \in Nat /\ r \in Nat /\ b \in Nat /\ LastRevision \in Nat
      /\ last - 1 = Len(script) /\ r >= 1
  BY ChainTypes
<1>2. DowngradeApplies(r)
  BY ChainApplies
<1>3. /\ ~ run.up /\ run.added = {} /\ run.sown = {} /\ run.goal \in 0 .. b - 1
      /\ run.rev \in run.goal .. b
      /\ run.removed = (Standing(b) \ Standing(r)) \cup About(script, Len(script), Removing)
      /\ run.alone => v = b
  BY <1>1 DEF Falling
<1>4. /\ Shape(next) /\ next.alone = run.alone /\ ~ next.up /\ next.goal = run.goal
      /\ next.rev = r - 1 /\ next.at = 1 /\ next.added = {} /\ next.sown = {}
      /\ next.held = run.held \cup Touched(s) /\ next.mark = {Moved(p, s)}
      /\ next.removed = run.removed
  BY <1>3 DEF Took, Placed, Making, Filling, Removing
<1>5. "alembic_version" \in next.held
  BY <1>4 DEF Touched
<1>6. v = b /\ Moved(p, s) = Rows(r - 1)
  <2>1. SeenHeads(p) = IF run.mark # {} THEN UNION run.mark ELSE Rows(v)
    BY DEF SeenHeads, Committed
  <2>2. r \in SeenHeads(p)
    BY <1>1 DEF Mismatched
  <2>3. v = b /\ SeenHeads(p) = {r}
    <3>1. CASE run.mark = {} /\ r = b
      BY <2>1, <2>2, <3>1 DEF Rows
    <3>2. CASE run.mark = {Rows(r)} /\ v = b
      BY <1>1, <2>1, <3>2 DEF Rows
    <3> QED
      BY <3>1, <3>2 DEF Falling
  <2> QED
    BY <2>3 DEF Moved, Rows
<1>7. next.removed = (Standing(b) \ Standing(r - 1)) \cup About(Downgrades[r - 1], 0, Removing)
  <2>1. About(script, Len(script), Removing) = Brought(r) \ Lasting
    BY <1>2 DEF DowngradeApplies
  <2>2. About(Downgrades[r - 1], 0, Removing) = {}
    BY AboutNone
  <2>3. CASE r = 1
    <3>1. Standing(r) = {} /\ Standing(r - 1) = {} /\ Brought(r) \ Lasting = {}
      BY <2>3, StandingLow, ChainBegins
    <3> QED
      BY <1>3, <1>4, <2>1, <2>2, <3>1
  <2>4. CASE r # 1
    <3>1. r \in 2 .. LastRevision /\ r \in Nat \ {0, 1} /\ r <= b
      BY <1>1, <1>3, <2>4
    <3>2. Standing(r) = Standing(r - 1) \cup Brought(r)
      BY <3>1, StandingNext
    <3>3. /\ Brought(r) \cap Standing(r - 1) = {} /\ Brought(r) \cap Lasting = {}
          /\ Brought(r) \subseteq Standing(b)
      BY <3>1, BroughtIsNew, BroughtIsSince
    <3> QED
      BY <1>3, <1>4, <2>1, <2>2, <3>2, <3>3
  <2> QED
    BY <2>3, <2>4
<1>8. ASSUME NEW q \in r - 1 .. b, q > 1, q > r - 1
      PROVE  Downgrades[q][1].on \in next.held
  <2>1. q \in r .. b
    BY <1>1, <1>8
  <2>2. q = r => last > 1
    <3> SUFFICES ASSUME q = r PROVE last > 1
      OBVIOUS
    <3>1. script # << >> /\ script \in Seq(Statements)
      BY <1>2, <1>8, ChainTypes DEF DowngradeApplies
    <3>2. Len(script) # 0
      BY <3>1
    <3> QED
      BY <1>1, <3>2
  <2>3. q > r \/ run.at > 1
    BY <1>1, <2>1, <2>2
  <2> QED
    BY <1>4, <1>8, <2>1, <2>3 DEF Falling
<1>9. /\ next.goal \in 0 .. b - 1 /\ next.rev \in next.goal .. b
      /\ next.at \in 1 .. IF next.rev = next.goal THEN 1 ELSE Len(Downgrades[next.rev]) + 1
  <2>1. next.goal \in 0 .. b - 1 /\ next.rev \in next.goal .. b
    BY <1>1, <1>3, <1>4
  <2>2. CASE next.rev = next.goal
    BY <1>4, <2>1, <2>2
  <2>3. CASE next.rev # next.goal
    <3>1. next.rev \in 1 .. LastRevision
      BY <1>1, <1>4, <2>1, <2>3
    <3>2. Len(Downgrades[next.rev]) \in Nat
      BY <3>1, ChainTypes
    <3> QED
      BY <1>4, <2>1, <2>3, <3>2
  <2> QED
    BY <2>2, <2>3
<1>10. \A q \in next.rev .. b :
         q > 1 /\ (q > next.rev \/ next.at > 1) => Downgrades[q][1].on \in next.held
  BY <1>4, <1>8
<1>11. next.removed = (Standing(b) \ Standing(next.rev))
                        \cup About(Downgrades[next.rev], next.at - 1, Removing)
  <2>1. next.at - 1 = 0
    BY <1>4
  <2> QED
    BY <1>4, <1>7, <2>1
<1> QED
  BY <1>3, <1>4, <1>5, <1>6, <1>9, <1>10, <1>11 DEF Falling

\* A downgrade's next statement is never one that it would skip.
LEMMA FallingSkipsNothing ==
  ASSUME NEW b \in 0 .. LastRevision, NEW v \in 0 .. LastRevision, Committed(v),
         NEW p, NEW run, run = runs[p], Falling(run, b, v),
         NEW r \in 1 .. LastRevision, run.rev = r,
         NEW i \in 1 .. Len(Downgrades[r]), run.at = i, NEW s, s = Downgrades[r][i]
  PROVE  ~ Skipped(p, s)
<1>1. s.do \in Removing /\ r > 1
  BY DowngradeStatement
<1>2. Seen(p) = objects \ run.removed
  BY DEF Seen, Falling
<1>3. CASE i = 1
  <2>1. DowngradeApplies(r)
    BY ChainApplies
  <2>2. s.do = "drop"
    BY <1>1, <1>3, <2>1 DEF DowngradeApplies
  <2> QED
    BY <2>2 DEF Skipped
<1>4. CASE i # 1
  <2>1. b <= v
    <3>1. i > 1 /\ b <= b
      BY <1>4, ChainTypes
    <3> QED
      BY <3>1 DEF Falling
  <2>2. s.on \in Seen(p)
    BY <1>2, <2>1, FallingSees
  <2> QED
    BY <1>1, <2>2 DEF Skipped, Removing
<1> QED
  BY <1>3, <1>4

\* A downgrade that has the database to itself is refused nothing.
LEMMA FallingAlone ==
  ASSUME NEW b \in 0 .. LastRevision, NEW v \in 0 .. LastRevision, Committed(v),
         NEW p, NEW run, run = runs[p], Falling(run, b, v), run.alone,
         NEW r \in 1 .. LastRevision, run.rev = r, NEW script, script = Downgrades[r],
         NEW i \in 1 .. Len(script) + 1, run.at = i,
         NEW s, i <= Len(script) => s = script[i],
         i = Len(script) + 1 => s.do = "stamp" /\ s.from = r /\ s.to = r - 1
  PROVE  ~ Refused(p, s)
<1>1. Len(script) \in Nat /\ i \in Nat \ {0} /\ r \in Nat /\ r # 0 /\ b \in Nat
  BY ChainTypes
<1>2. v = b /\ b <= v
  BY <1>1 DEF Falling
<1>3. Seen(p) = objects \ run.removed
  BY DEF Seen, Falling
<1>4. CASE i <= Len(script)
  <2>1. i \in 1 .. Len(script) /\ s = script[i]
    BY <1>1, <1>4
  <2>2. s.do \in Removing
        /\ \A n \in (Standing(r) \cup Lasting) \ About(script, i - 1, Removing) :
             s.on \notin NeededBy(n)
    BY <2>1, DowngradeStatement
  <2>3. s.on \in Seen(p)
    BY <1>2, <1>3, <2>1, FallingSees
  <2>4. Seen(p) \subseteq (Standing(r) \cup Lasting) \ About(script, i - 1, Removing)
    <3>1. run.removed = (Standing(b) \ Standing(r)) \cup About(script, i - 1, Removing)
      BY DEF Falling
    <3>2. objects \subseteq Standing(b) \cup Lasting
      BY <1>2 DEF Committed
    <3> QED
      BY <1>3, <3>1, <3>2
  <2> QED
    BY <2>2, <2>3, <2>4 DEF Refused, Removing
<1>5. CASE i = Len(script) + 1
  <2>1. s.do = "stamp" /\ s.from = r
    BY <1>5
  <2>2. SeenHeads(p) = IF run.mark # {} THEN UNION run.mark ELSE Rows(v)
    BY DEF SeenHeads, Committed
  <2>3. SeenHeads(p) = Rows(r)
    <3>1. CASE run.mark = {} /\ r = b
      BY <1>2, <2>2, <3>1
    <3>2. CASE run.mark = {Rows(r)}
      BY <2>2, <3>2
    <3> QED
      BY <3>1, <3>2 DEF Falling
  <2>4. ~ Mismatched(p, s)
    BY <1>1, <2>1, <2>3 DEF Mismatched, Rows
  <2> QED
    BY <2>1, <2>4 DEF Refused
<1> QED
  BY <1>1, <1>4, <1>5

-----------------------------------------------------------------------------
(* A run at work.                                                           *)

\* Where a run is, and at which statement of "last".
PlaceOf(run, r, last, i) ==
  run.rev = r /\ run.at = i /\ last = Len(Scripts[run.up][r]) /\ i \in 1 .. last

UpAt(run, s, b, v, r, last, i) ==
  /\ PlaceOf(run, r, last, i) /\ Rising(run, b, v, objects) /\ last = Len(Upgrades[r]) + 1
  /\ i < last => s = Upgrades[r][i]
  /\ i = last => s = [do |-> "stamp", on |-> "alembic_version", from |-> r - 1, to |-> r]

DownAt(run, s, b, v, r, last, i) ==
  /\ PlaceOf(run, r, last, i) /\ Falling(run, b, v) /\ last = Len(Downgrades[r]) + 1
  /\ run.goal # r
  /\ i < last => s = Downgrades[r][i]
  /\ i = last => s = [do |-> "stamp", on |-> "alembic_version", from |-> r, to |-> r - 1]

\* The next statement of either kind of run.
LEMMA RunStatement ==
  ASSUME NEW v \in 0 .. LastRevision, Committed(v), NEW p, NEW run, run = runs[p],
         RunOK(run, v, objects), Active(p), ~ Complete(run), NEW s, s = Statement(p)
  PROVE  \E b \in 0 .. LastRevision, r \in 1 .. LastRevision, last \in Nat, i \in Nat :
           UpAt(run, s, b, v, r, last, i) \/ DownAt(run, s, b, v, r, last, i)
<1>1. PICK b \in 0 .. LastRevision : Rising(run, b, v, objects) \/ Falling(run, b, v)
  BY DEF RunOK, Active
<1>2. Shape(run)
  BY DEF RunOK
<1>3. CASE Rising(run, b, v, objects)
  <2>1. /\ run.rev \in 1 .. LastRevision /\ run.at \in 1 .. Len(Upgrades[run.rev]) + 1
        /\ Len(Upgrades[run.rev]) \in Nat
        /\ Len(Scripts[run.up][run.rev]) = Len(Upgrades[run.rev]) + 1
        /\ run.at <= Len(Upgrades[run.rev]) => s = Upgrades[run.rev][run.at]
        /\ run.at = Len(Upgrades[run.rev]) + 1 =>
             s = [do |-> "stamp", on |-> "alembic_version", from |-> run.rev - 1, to |-> run.rev]
    BY <1>3, RisingStatement
  <2>2. \A n \in Nat : run.at < n + 1 => run.at <= n
    BY <2>1
  <2>3. UpAt(run, s, b, v, run.rev, Len(Upgrades[run.rev]) + 1, run.at)
    BY <1>3, <2>1, <2>2 DEF UpAt, PlaceOf
  <2> QED
    BY <2>1, <2>3
<1>4. CASE Falling(run, b, v)
  <2>1. /\ run.rev \in 1 .. LastRevision /\ run.at \in 1 .. Len(Downgrades[run.rev]) + 1
        /\ Len(Downgrades[run.rev]) \in Nat
        /\ Len(Scripts[run.up][run.rev]) = Len(Downgrades[run.rev]) + 1
        /\ run.at <= Len(Downgrades[run.rev]) => s = Downgrades[run.rev][run.at]
        /\ run.at = Len(Downgrades[run.rev]) + 1 =>
             s = [do |-> "stamp", on |-> "alembic_version", from |-> run.rev, to |-> run.rev - 1]
    BY <1>2, <1>4, FallingStatement
  <2>2. run.goal # run.rev
    BY <1>2, <1>4 DEF Falling, Shape, Complete
  <2>3. \A n \in Nat : run.at < n + 1 => run.at <= n
    BY <2>1
  <2>4. DownAt(run, s, b, v, run.rev, Len(Downgrades[run.rev]) + 1, run.at)
    BY <1>4, <2>1, <2>2, <2>3 DEF DownAt, PlaceOf
  <2> QED
    BY <2>1, <2>4
<1> QED
  BY <1>1, <1>3, <1>4

\* A statement that is carried out.
LEMMA RunGoesOn ==
  ASSUME NEW v \in 0 .. LastRevision, Committed(v), NEW p, NEW run, run = runs[p],
         RunOK(run, v, objects), Active(p), ~ Complete(run),
         NEW s, s = Statement(p), ~ Refused(p, s),
         NEW next, next = Onward(p, Applied(p, s))
  PROVE  /\ RunOK(next, v, objects) /\ next.phase = "running" /\ next.alone = run.alone
         /\ next.held = run.held \cup Touched(s)
<1>1. PICK b \in 0 .. LastRevision, r \in 1 .. LastRevision, last \in Nat, i \in Nat :
        UpAt(run, s, b, v, r, last, i) \/ DownAt(run, s, b, v, r, last, i)
  BY RunStatement
<1>2. /\ Shape(run) /\ r \in Nat
      /\ run.rev = r /\ run.at = i /\ last = Len(Scripts[run.up][r]) /\ i \in 1 .. last
  BY <1>1, ChainTypes DEF RunOK, UpAt, DownAt, PlaceOf
<1>3. SUFFICES /\ s.do \in Making \cup Filling \cup Removing \cup {"stamp"}
               /\ Took(p, s, run, next) /\ Placed(run, next, r, i, last) =>
                    Rising(next, b, v, objects) \/ Falling(next, b, v)
  <2>1. Took(p, s, run, next) /\ Placed(run, next, r, i, last)
    BY <1>2, <1>3, GoneOn
  <2> QED
    BY <1>3, <2>1 DEF Took, RunOK
<1>4. CASE UpAt(run, s, b, v, r, last, i)
  <2>0. /\ run.rev = r /\ run.at = i /\ last = Len(Scripts[run.up][r]) /\ i \in 1 .. last
        /\ Rising(run, b, v, objects) /\ Len(Upgrades[r]) + 1 = last
        /\ i < last => s = Upgrades[r][i]
        /\ i = last => s.do = "stamp" /\ s.on = "alembic_version" /\ s.from = r - 1 /\ s.to = r
    BY <1>4 DEF UpAt, PlaceOf
  <2>1. Len(Upgrades[r]) \in Nat
    BY ChainTypes
  <2>2. CASE i = last
    <3>1. s.do = "stamp" /\ s.on = "alembic_version" /\ s.from = r - 1 /\ s.to = r
      BY <2>0, <2>2
    <3>2. ~ Mismatched(p, s)
      BY <3>1 DEF Refused
    <3> QED
      BY <1>2, <2>0, <2>2, <3>1, <3>2, RisingStamps
  <2>3. CASE i # last
    <3>1. i \in 1 .. Len(Upgrades[r]) /\ i \in 1 .. last - 1 /\ s = Upgrades[r][i]
      BY <2>0, <2>1, <2>3
    <3>2. s.do \in Making \cup Filling
      BY <3>1, UpgradeStatement DEF Filling
    <3>3. Seen(p) = objects \cup run.added
      BY <2>0 DEF Seen, Rising
    <3> QED
      BY <1>2, <2>0, <3>1, <3>2, <3>3, RisingGoesOn
  <2> QED
    BY <2>2, <2>3
<1>5. CASE DownAt(run, s, b, v, r, last, i)
  <2>0. /\ run.rev = r /\ run.at = i /\ last = Len(Scripts[run.up][r]) /\ i \in 1 .. last
        /\ Falling(run, b, v) /\ Len(Downgrades[r]) + 1 = last /\ run.goal # r
        /\ i < last => s = Downgrades[r][i]
        /\ i = last => s.do = "stamp" /\ s.on = "alembic_version" /\ s.from = r /\ s.to = r - 1
    BY <1>5 DEF DownAt, PlaceOf
  <2>1. Len(Downgrades[r]) \in Nat
    BY ChainTypes
  <2>2. CASE i = last
    <3>1. s.do = "stamp" /\ s.on = "alembic_version" /\ s.from = r /\ s.to = r - 1
      BY <2>0, <2>2
    <3>2. ~ Mismatched(p, s)
      BY <3>1 DEF Refused
    <3> QED
      BY <1>2, <2>0, <2>2, <3>1, <3>2, FallingStamps
  <2>3. CASE i # last
    <3>1. i \in 1 .. Len(Downgrades[r]) /\ i \in 1 .. last - 1 /\ s = Downgrades[r][i]
      BY <2>0, <2>1, <2>3
    <3>2. s.do \in Removing
      BY <3>1, DowngradeStatement
    <3>3. Seen(p) = objects \ run.removed
      BY <2>0 DEF Seen, Falling
    <3> QED
      BY <1>2, <2>0, <3>1, <3>2, <3>3, FallingGoesOn
  <2> QED
    BY <2>2, <2>3
<1> QED
  BY <1>1, <1>4, <1>5

\* A statement that is skipped.
LEMMA RunSkips ==
  ASSUME NEW v \in 0 .. LastRevision, Committed(v), NEW p, NEW run, run = runs[p],
         RunOK(run, v, objects), run.phase = "running", ~ Complete(run),
         NEW s, s = Statement(p), Skipped(p, s), NEW next, next = Onward(p, run)
  PROVE  /\ RunOK(next, v, objects) /\ next.phase = "running" /\ next.alone = run.alone
         /\ next.held = run.held
<1>0. Active(p)
  BY DEF Active
<1>1. PICK b \in 0 .. LastRevision, r \in 1 .. LastRevision, last \in Nat, i \in Nat :
        UpAt(run, s, b, v, r, last, i) \/ DownAt(run, s, b, v, r, last, i)
  BY <1>0, RunStatement
<1>2. /\ Shape(run) /\ r \in Nat
      /\ run.rev = r /\ run.at = i /\ last = Len(Scripts[run.up][r]) /\ i \in 1 .. last
  BY <1>1, ChainTypes DEF RunOK, UpAt, DownAt, PlaceOf
<1>3. /\ Shape(next) /\ next.phase = run.phase
      /\ next.alone = run.alone /\ next.up = run.up /\ next.goal = run.goal
      /\ next.held = run.held /\ next.added = run.added /\ next.removed = run.removed
      /\ next.sown = run.sown /\ next.mark = run.mark
      /\ Placed(run, next, r, i, last)
  BY <1>2, OnwardFields
<1>4. SUFFICES Rising(next, b, v, objects) \/ Falling(next, b, v)
  BY <1>3, <1>4 DEF RunOK
<1>5. i # last
  BY <1>1 DEF Skipped, UpAt, DownAt
<1>6. CASE UpAt(run, s, b, v, r, last, i)
  <2>0. /\ run.rev = r /\ run.at = i /\ last = Len(Scripts[run.up][r]) /\ i \in 1 .. last
        /\ Rising(run, b, v, objects) /\ Len(Upgrades[r]) + 1 = last
        /\ i < last => s = Upgrades[r][i]
        /\ i = last => s.do = "stamp" /\ s.on = "alembic_version" /\ s.from = r - 1 /\ s.to = r
    BY <1>6 DEF UpAt, PlaceOf
  <2>1. i \in 1 .. Len(Upgrades[r]) /\ s = Upgrades[r][i] /\ i < last
    BY <1>5, <2>0, ChainTypes
  <2>2. s.do \in Making \cup Filling
    BY <2>1, UpgradeStatement DEF Filling
  <2>3. s.do = "ensure" /\ s.on \in objects \cup run.added
    BY <2>0, <2>2 DEF Skipped, Making, Filling, Seen, Rising
  <2>4. next.rev = r /\ next.at = i + 1
    BY <1>3, <2>1 DEF Placed
  <2> QED
    BY ZenonT(30), <1>2, <1>3, <2>0, <2>1, <2>3, <2>4, RisingSkips
<1>7. CASE DownAt(run, s, b, v, r, last, i)
  <2>0. /\ run.rev = r /\ run.at = i /\ last = Len(Scripts[run.up][r]) /\ i \in 1 .. last
        /\ Falling(run, b, v) /\ Len(Downgrades[r]) + 1 = last /\ run.goal # r
        /\ i < last => s = Downgrades[r][i]
        /\ i = last => s.do = "stamp" /\ s.on = "alembic_version" /\ s.from = r /\ s.to = r - 1
    BY <1>7 DEF DownAt, PlaceOf
  <2>1. i \in 1 .. Len(Downgrades[r]) /\ s = Downgrades[r][i]
    BY <1>5, <2>0, ChainTypes
  <2> QED
    BY <2>0, <2>1, FallingSkipsNothing
<1> QED
  BY <1>1, <1>6, <1>7

\* A run that has the database to itself is refused nothing.
LEMMA RunAlone ==
  ASSUME NEW v \in 0 .. LastRevision, Committed(v), NEW p, NEW run, run = runs[p],
         RunOK(run, v, objects), Active(p), ~ Complete(run), run.alone,
         NEW s, s = Statement(p), ~ Skipped(p, s)
  PROVE  ~ Refused(p, s)
<1>1. PICK b \in 0 .. LastRevision, r \in 1 .. LastRevision, last \in Nat, i \in Nat :
        UpAt(run, s, b, v, r, last, i) \/ DownAt(run, s, b, v, r, last, i)
  BY RunStatement
<1>2. Shape(run)
  BY DEF RunOK
<1>3. CASE UpAt(run, s, b, v, r, last, i)
  <2>0. /\ run.rev = r /\ run.at = i /\ last = Len(Scripts[run.up][r]) /\ i \in 1 .. last
        /\ Rising(run, b, v, objects) /\ Len(Upgrades[r]) + 1 = last
        /\ i < last => s = Upgrades[r][i]
        /\ i = last => s.do = "stamp" /\ s.on = "alembic_version" /\ s.from = r - 1 /\ s.to = r
    BY <1>3 DEF UpAt, PlaceOf
  <2>1. i = last => s.do = "stamp" /\ s.from = r - 1 /\ s.to = r
    BY <2>0
  <2> QED
    BY SMTT(30), <1>2, <2>0, <2>1, RisingAlone
<1>4. CASE DownAt(run, s, b, v, r, last, i)
  <2>0. /\ run.rev = r /\ run.at = i /\ last = Len(Scripts[run.up][r]) /\ i \in 1 .. last
        /\ Falling(run, b, v) /\ Len(Downgrades[r]) + 1 = last /\ run.goal # r
        /\ i < last => s = Downgrades[r][i]
        /\ i = last => s.do = "stamp" /\ s.on = "alembic_version" /\ s.from = r /\ s.to = r - 1
    BY <1>4 DEF DownAt, PlaceOf
  <2>1. i = last => s.do = "stamp" /\ s.from = r /\ s.to = r - 1
    BY <2>0
  <2> QED
    BY SMTT(30), <1>2, <2>0, <2>1, FallingAlone
<1> QED
  BY <1>1, <1>3, <1>4

-----------------------------------------------------------------------------
(* The steps of the database.                                               *)

LEMMA RestingOK ==
  ASSUME NEW v, NEW present, NEW phase, NEW alone \in BOOLEAN,
         phase \notin {"running", "waiting"}, phase = "refused" => ~ alone
  PROVE  RunOK(Resting(phase, alone), v, present) /\ Resting(phase, alone).held = {}
         /\ Resting(phase, alone).phase = phase
  BY DEF RunOK, Resting, Shape, Fields

\* A process that does one thing within its transaction, or leaves it.
LEMMA DidKeeps ==
  ASSUME MigrationInv, NEW v \in 0 .. LastRevision, Committed(v),
         \A q \in Processes : RunOK(runs[q], v, objects),
         NEW p \in Processes, NEW next, runs' = [runs EXCEPT ![p] = next],
         UNCHANGED <<objects, filled, heads>>, RunOK(next, v, objects),
         \A q \in Processes : q # p => next.held \cap runs[q].held = {},
         next.phase \in {"running", "waiting"} => Active(p) /\ next.alone = runs[p].alone
  PROVE  MigrationInv'
<1>1. /\ runs = [q \in Processes |-> runs[q]] /\ Apart /\ AloneIsAlone
  BY DEF MigrationInv
<1>2. /\ runs' = [q \in Processes |-> runs'[q]] /\ runs'[p] = next
      /\ \A q \in Processes : q # p => runs'[q] = runs[q]
  BY <1>1
<1>3. Apart'
  BY <1>1, <1>2 DEF Apart
<1>4. AloneIsAlone'
  BY <1>1, <1>2 DEF AloneIsAlone, Active
<1>5. Committed(v)'
  BY DEF Committed
<1>6. \A q \in Processes : RunOK(runs'[q], v, objects')
  BY <1>2
<1> QED
  BY <1>2, <1>3, <1>4, <1>5, <1>6 DEF MigrationInv

\* The two ways out of a transaction that failed.
LEMMA RestKeeps ==
  ASSUME MigrationInv, NEW p \in Processes, NEW phase, NEW alone \in BOOLEAN,
         phase \notin {"running", "waiting"}, phase = "refused" => ~ alone,
         runs' = [runs EXCEPT ![p] = Resting(phase, alone)],
         UNCHANGED <<objects, filled, heads>>
  PROVE  MigrationInv'
<1>1. PICK v \in 0 .. LastRevision :
        Committed(v) /\ \A q \in Processes : RunOK(runs[q], v, objects)
  BY DEF MigrationInv
<1> DEFINE next == Resting(phase, alone)
<1>2. RunOK(next, v, objects) /\ next.held = {} /\ next.phase = phase
  BY RestingOK
<1> HIDE DEF next
<1>3. runs' = [runs EXCEPT ![p] = next]
  BY DEF next
<1> QED
  BY ZenonT(30), <1>1, <1>2, <1>3, DidKeeps

\* An active run does not stay alone when another begins.
LEMMA Joined ==
  ASSUME NEW v, NEW present, NEW run, RunOK(run, v, present),
         run.phase \in {"running", "waiting"}, NEW next, next = [run EXCEPT !.alone = FALSE]
  PROVE  /\ RunOK(next, v, present) /\ ~ next.alone /\ next.held = run.held
         /\ next.phase = run.phase
<1>1. /\ DOMAIN next = Fields /\ next.alone = FALSE /\ next.phase = run.phase
      /\ next.up = run.up /\ next.goal = run.goal /\ next.rev = run.rev /\ next.at = run.at
      /\ next.added = run.added /\ next.removed = run.removed /\ next.sown = run.sown
      /\ next.mark = run.mark /\ next.held = run.held
  BY DEF RunOK, Shape, Fields
<1>2. Shape(next)
  BY <1>1 DEF RunOK, Shape
<1>3. Complete(next) <=> Complete(run)
  BY <1>1 DEF Complete
<1>4. ASSUME NEW b, Rising(run, b, v, present)
      PROVE  Rising(next, b, v, present)
  BY <1>1, <1>4 DEF Rising, Trying, Sure, Doomed, Exactly
<1>5. ASSUME NEW b, Falling(run, b, v)
      PROVE  Falling(next, b, v)
  BY <1>1, <1>5 DEF Falling
<1> QED
  BY <1>1, <1>2, <1>3, <1>4, <1>5 DEF RunOK

\* A run that has just read the version.
Fresh(v, goal, alone) ==
  [Resting("running", alone) EXCEPT
     !.up = goal > v, !.goal = goal, !.at = 1, !.rev = IF goal > v THEN v + 1 ELSE v]

LEMMA BegunRun ==
  ASSUME NEW v \in 0 .. LastRevision, Committed(v), NEW alone \in BOOLEAN,
         NEW goal \in 0 .. LastRevision, goal # v, goal > v => goal = LastRevision,
         NEW run, run = Fresh(v, goal, alone)
  PROVE  /\ RunOK(run, v, objects) /\ run.phase = "running" /\ run.alone = alone
         /\ run.held = {}
<1>1. /\ DOMAIN run = Fields /\ run.alone = alone /\ run.phase = "running"
      /\ run.up = (goal > v) /\ run.goal = goal /\ run.rev = (IF goal > v THEN v + 1 ELSE v)
      /\ run.at = 1 /\ run.added = {} /\ run.removed = {} /\ run.sown = {}
      /\ run.mark = {} /\ run.held = {}
  BY DEF Fresh, Resting, Fields
<1>2. Shape(run) /\ v \in Nat /\ LastRevision \in Nat /\ goal \in Nat
  BY <1>1, ChainTypes DEF Shape
<1>3. CASE goal > v
  <2>1. run.up /\ run.rev = v + 1 /\ run.goal = LastRevision /\ v < LastRevision
    BY <1>1, <1>2, <1>3
  <2>2. run.at - 1 = 0 /\ run.rev - 1 = v /\ run.rev \in 1 .. LastRevision
    BY <1>1, <1>2, <2>1
  <2>3. About(Upgrades[run.rev], run.at - 1, Making) = {}
    BY <2>2, AboutNone
  <2>4. Exactly(run, v)
    BY <1>1, <2>2, <2>3 DEF Exactly
  <2>5. Trying(run, v, v, objects)
    BY <1>1, <1>2, <2>1, <2>2, <2>4 DEF Trying
  <2>6. Len(Upgrades[run.rev]) \in Nat
    BY <2>2, ChainTypes
  <2>7. run.rev > 1 => Lasting \subseteq objects \cup run.added
    BY <1>2, <2>1 DEF Committed
  <2>8. run.at \in 1 .. IF run.rev > LastRevision THEN 1 ELSE Len(Upgrades[run.rev]) + 1
    BY <1>1, <1>2, <2>2, <2>6
  <2>9. Rising(run, v, v, objects)
    BY <1>1, <1>2, <2>1, <2>5, <2>7, <2>8 DEF Rising
  <2> QED
    BY <1>1, <1>2, <2>9 DEF RunOK
<1>4. CASE ~ (goal > v)
  <2>1. ~ run.up /\ run.rev = v /\ goal \in 0 .. v - 1 /\ v \in 1 .. LastRevision
    <3>1. (goal > v) = FALSE
      BY <1>4
    <3>2. run.up = FALSE /\ run.rev = v
      BY <1>1, <3>1
    <3> QED
      BY <1>2, <1>4, <3>2
  <2>2. run.at - 1 = 0 /\ run.at = 1
    BY <1>1
  <2>3. About(Downgrades[run.rev], run.at - 1, Removing) = {}
    BY <2>2, AboutNone
  <2>4. Len(Downgrades[run.rev]) \in Nat
    BY <2>1, ChainTypes
  <2>5. run.at \in 1 .. IF run.rev = run.goal THEN 1 ELSE Len(Downgrades[run.rev]) + 1
    BY <1>1, <2>1, <2>4
  <2>6. run.rev \in run.goal .. v
    BY <1>1, <1>2, <2>1
  <2>7. \A r \in run.rev .. v : ~ (r > run.rev \/ run.at > 1)
    BY <1>2, <2>1, <2>2
  <2>8. Falling(run, v, v)
    BY <1>1, <1>2, <2>1, <2>2, <2>3, <2>5, <2>6, <2>7 DEF Falling
  <2> QED
    BY <1>1, <1>2, <2>8 DEF RunOK
<1> QED
  BY <1>3, <1>4

LEMMA BegunKeeps ==
  ASSUME MigrationInv, NEW p \in Processes, ~ Active(p), NEW goal \in 0 .. LastRevision,
         goal > Current => goal = LastRevision, Begun(p, goal),
         UNCHANGED <<objects, filled, heads>>
  PROVE  MigrationInv'
<1>1. PICK v \in 0 .. LastRevision :
        Committed(v) /\ \A q \in Processes : RunOK(runs[q], v, objects)
  BY DEF MigrationInv
<1>2. Current = v
  BY <1>1, CurrentVersion
<1> DEFINE alone == \A q \in Processes \ {p} : ~ Active(q)
           run == Fresh(v, goal, alone)
           mine == IF goal = v THEN Resting("done", TRUE) ELSE run
           other(q) == IF Active(q) THEN [runs[q] EXCEPT !.alone = FALSE] ELSE runs[q]
<1>3. runs' = [q \in Processes |-> IF q = p THEN mine ELSE other(q)]
  BY <1>2 DEF Begun, Fresh
<1>4. /\ RunOK(mine, v, objects) /\ mine.held = {}
      /\ mine.phase \in {"running", "waiting"} => mine.alone = alone
  <2>1. CASE goal = v
    <3>1. RunOK(Resting("done", TRUE), v, objects) /\ Resting("done", TRUE).held = {}
          /\ Resting("done", TRUE).phase = "done"
      BY RestingOK
    <3>2. mine = Resting("done", TRUE)
      BY <2>1
    <3> HIDE DEF mine
    <3> QED
      BY <3>1, <3>2
  <2>2. CASE goal # v
    <3>1. alone \in BOOLEAN
      OBVIOUS
    <3> HIDE DEF alone
    <3>a. run = Fresh(v, goal, alone)
      OBVIOUS
    <3>b. goal > v => goal = LastRevision
      BY <1>2
    <3> HIDE DEF run
    <3>2. RunOK(run, v, objects) /\ run.alone = alone /\ run.held = {}
      BY <1>1, <2>2, <3>1, <3>a, <3>b, BegunRun
    <3> QED
      BY <2>2, <3>2 DEF mine
  <2> QED
    BY <2>1, <2>2
<1>5. ASSUME NEW q \in Processes, q # p
      PROVE  /\ RunOK(other(q), v, objects) /\ other(q).held = runs[q].held
             /\ other(q).phase = runs[q].phase /\ (Active(q) => ~ other(q).alone)
  <2>1. CASE Active(q)
    BY <1>1, <2>1, Joined DEF Active
  <2>2. CASE ~ Active(q)
    BY <1>1, <2>2
  <2> QED
    BY <2>1, <2>2
<1> HIDE DEF mine, other
<1>6. /\ runs' = [q \in Processes |-> runs'[q]] /\ runs'[p] = mine
      /\ \A q \in Processes : q # p => runs'[q] = other(q)
  BY <1>3
<1>7. Apart'
  BY <1>4, <1>5, <1>6 DEF MigrationInv, Apart
<1>8. AloneIsAlone'
  <2> SUFFICES ASSUME NEW q \in Processes, NEW o \in Processes, q # o, Active(q)', Active(o)'
               PROVE  ~ runs'[q].alone
    BY DEF AloneIsAlone
  <2>1. CASE q = p
    <3>1. o # p /\ Active(o)
      BY <1>5, <1>6, <2>1 DEF Active
    <3>2. ~ alone
      BY <3>1
    <3>3. mine.phase \in {"running", "waiting"}
      BY <1>6, <2>1 DEF Active
    <3> HIDE DEF alone
    <3> QED
      BY <1>4, <1>6, <2>1, <3>2, <3>3
  <2>2. CASE q # p
    <3>1. Active(q)
      BY <1>5, <1>6, <2>2 DEF Active
    <3> QED
      BY <1>5, <1>6, <2>2, <3>1
  <2> QED
    BY <2>1, <2>2
<1>9. Committed(v)'
  BY <1>1 DEF Committed
<1>10. \A q \in Processes : RunOK(runs'[q], v, objects')
  BY <1>4, <1>5, <1>6
<1> QED
  BY <1>6, <1>7, <1>8, <1>9, <1>10 DEF MigrationInv

\* A run that waits: another has the object, so it is not alone.
LEMMA WaitsOK ==
  ASSUME NEW v, NEW present, NEW run, RunOK(run, v, present), run.phase = "running",
         ~ run.alone, ~ Complete(run), NEW next, next = [run EXCEPT !.phase = "waiting"]
  PROVE  /\ RunOK(next, v, present) /\ next.alone = run.alone /\ next.held = run.held
<1>1. /\ DOMAIN next = Fields /\ next.alone = run.alone /\ next.phase = "waiting"
      /\ next.up = run.up /\ next.goal = run.goal /\ next.rev = run.rev /\ next.at = run.at
      /\ next.added = run.added /\ next.removed = run.removed /\ next.sown = run.sown
      /\ next.mark = run.mark /\ next.held = run.held
  BY DEF RunOK, Shape, Fields
<1>2. Shape(next)
  BY <1>1 DEF RunOK, Shape
<1>3. Complete(next) <=> Complete(run)
  BY <1>1 DEF Complete
<1>4. ASSUME NEW b, Rising(run, b, v, present)
      PROVE  Rising(next, b, v, present)
  BY <1>1, <1>4 DEF Rising, Trying, Sure, Doomed, Exactly
<1>5. ASSUME NEW b, Falling(run, b, v)
      PROVE  Falling(next, b, v)
  BY <1>1, <1>5 DEF Falling
<1> QED
  BY <1>1, <1>2, <1>3, <1>4, <1>5 DEF RunOK

LEMMA BlockedIsNotAlone ==
  ASSUME MigrationInv, NEW p \in Processes, Active(p), Blocked(p)
  PROVE  ~ runs[p].alone
<1>1. PICK q \in Processes : q # p /\ runs[q].held # {}
  BY DEF Blocked, Blocks
<1>2. Active(q)
  BY <1>1 DEF MigrationInv, RunOK, Active
<1> QED
  BY <1>1, <1>2 DEF MigrationInv, AloneIsAlone

\* A statement carried out: nobody else has touched its objects.
LEMMA AppliedKeeps ==
  ASSUME MigrationInv, NEW p \in Processes, Active(p), ~ Complete(runs[p]), ~ Blocked(p),
         NEW s, s = Statement(p), ~ Refused(p, s),
         runs' = [runs EXCEPT ![p] = Onward(p, Applied(p, s))],
         UNCHANGED <<objects, filled, heads>>
  PROVE  MigrationInv'
<1>1. PICK v \in 0 .. LastRevision :
        Committed(v) /\ \A q \in Processes : RunOK(runs[q], v, objects)
  BY DEF MigrationInv
<1> DEFINE next == Onward(p, Applied(p, s))
<1>2. RunOK(next, v, objects) /\ next.alone = runs[p].alone /\ next.held = runs[p].held \cup Touched(s)
  BY <1>1, RunGoesOn
<1>3. runs' = [runs EXCEPT ![p] = next]
  OBVIOUS
<1> HIDE DEF next
<1>4. \A q \in Processes : q # p => next.held \cap runs[q].held = {}
  BY <1>2 DEF MigrationInv, Apart, Blocked, Blocks
<1> QED
  BY <1>1, <1>2, <1>3, <1>4, DidKeeps

LEMMA StepKeeps ==
  ASSUME MigrationInv, NEW p \in Processes, Step(p)
  PROVE  MigrationInv'
<1>1. PICK v \in 0 .. LastRevision :
        Committed(v) /\ \A q \in Processes : RunOK(runs[q], v, objects)
  BY DEF MigrationInv
<1> DEFINE s == Statement(p)
           next == IF Skipped(p, s) THEN Onward(p, runs[p])
                   ELSE IF Blocked(p) THEN [runs[p] EXCEPT !.phase = "waiting"]
                   ELSE IF Refused(p, s) THEN Resting("refused", runs[p].alone)
                   ELSE Onward(p, Applied(p, s))
<1>2. /\ runs[p].phase = "running" /\ ~ Complete(runs[p]) /\ Active(p)
      /\ runs' = [runs EXCEPT ![p] = next] /\ UNCHANGED <<objects, filled, heads>>
  BY DEF Step, Did, Active
<1>a. Active(p) /\ UNCHANGED <<objects, filled, heads>>
  BY <1>2
<1>3. \A q \in Processes : q # p => runs[p].held \cap runs[q].held = {}
  BY DEF MigrationInv, Apart
<1>4. CASE Skipped(p, s)
  <2> DEFINE on == Onward(p, runs[p])
  <2>1. RunOK(on, v, objects) /\ on.alone = runs[p].alone /\ on.held = runs[p].held
    BY <1>1, <1>2, <1>4, RunSkips
  <2>2. runs' = [runs EXCEPT ![p] = on]
    BY <1>2, <1>4
  <2> HIDE DEF on, next, s
  <2>3. \A q \in Processes : q # p => on.held \cap runs[q].held = {}
    BY <1>3, <2>1
  <2> QED
    BY <1>1, <1>a, <2>1, <2>2, <2>3, DidKeeps
<1>5. CASE ~ Skipped(p, s) /\ Blocked(p)
  <2> DEFINE on == [runs[p] EXCEPT !.phase = "waiting"]
  <2>1. ~ runs[p].alone
    BY <1>2, <1>5, BlockedIsNotAlone
  <2>2. RunOK(on, v, objects) /\ on.alone = runs[p].alone /\ on.held = runs[p].held
    BY <1>1, <1>2, <2>1, WaitsOK
  <2>3. runs' = [runs EXCEPT ![p] = on]
    BY <1>2, <1>5
  <2> HIDE DEF on, next, s
  <2>4. \A q \in Processes : q # p => on.held \cap runs[q].held = {}
    BY <1>3, <2>2
  <2> QED
    BY <1>1, <1>a, <2>2, <2>3, <2>4, DidKeeps
<1>6. CASE ~ Skipped(p, s) /\ ~ Blocked(p) /\ Refused(p, s)
  <2>1. ~ runs[p].alone /\ runs[p].alone \in BOOLEAN
    BY <1>1, <1>2, <1>6, RunAlone DEF RunOK, Shape
  <2>2. runs' = [runs EXCEPT ![p] = Resting("refused", runs[p].alone)]
    BY <1>2, <1>6
  <2>3. "refused" \notin {"running", "waiting"}
    OBVIOUS
  <2> HIDE DEF next, s
  <2> QED
    BY <1>a, <2>1, <2>2, <2>3, RestKeeps
<1>7. CASE ~ Skipped(p, s) /\ ~ Blocked(p) /\ ~ Refused(p, s)
  <2>1. runs' = [runs EXCEPT ![p] = Onward(p, Applied(p, s))]
    BY <1>2, <1>7
  <2> QED
    BY <1>2, <1>7, <2>1, AppliedKeeps
<1> QED
  BY <1>4, <1>5, <1>6, <1>7

LEMMA ResumeKeeps ==
  ASSUME MigrationInv, NEW p \in Processes, Resume(p)
  PROVE  MigrationInv'
<1>1. PICK v \in 0 .. LastRevision :
        Committed(v) /\ \A q \in Processes : RunOK(runs[q], v, objects)
  BY DEF MigrationInv
<1> DEFINE s == Statement(p)
<1>2. /\ runs[p].phase = "waiting" /\ ~ Blocked(p) /\ Active(p)
      /\ UNCHANGED <<objects, filled, heads>>
  BY DEF Resume, Did, Active
<1>3. ~ runs[p].alone /\ ~ Complete(runs[p]) /\ runs[p].alone \in BOOLEAN
  BY <1>1, <1>2 DEF RunOK, Shape
<1>4. CASE Refused(p, s)
  <2>1. runs' = [runs EXCEPT ![p] = Resting("refused", runs[p].alone)]
    BY <1>4 DEF Resume, Did
  <2>2. "refused" \notin {"running", "waiting"}
    OBVIOUS
  <2> HIDE DEF s
  <2> QED
    BY <1>2, <1>3, <2>1, <2>2, RestKeeps
<1>5. CASE ~ Refused(p, s)
  <2>1. runs' = [runs EXCEPT ![p] = Onward(p, Applied(p, s))]
    BY <1>5 DEF Resume, Did
  <2> QED
    BY <1>2, <1>3, <1>5, <2>1, AppliedKeeps
<1> QED
  BY <1>4, <1>5

-----------------------------------------------------------------------------
(* A commit: alembic_version has let one run through at a time.             *)

LEMMA RisenRun ==
  ASSUME NEW b \in 0 .. LastRevision, NEW v \in 0 .. LastRevision, Committed(v),
         NEW run, Rising(run, b, v, objects), Complete(run)
  PROVE  /\ run.mark = {{LastRevision}} /\ "alembic_version" \in run.held
         /\ run.removed = {} /\ Lasting \subseteq objects \cup run.added
         /\ (objects \cup run.added) \ Lasting = Standing(LastRevision)
<1>1. LastRevision \in Nat /\ LastRevision > 1
  BY ChainTypes
<1>2. run.rev = LastRevision + 1 /\ run.rev - 1 = LastRevision /\ run.rev > 1
  BY <1>1 DEF Rising, Complete
<1>3. run.at = 1
  BY <1>1, <1>2 DEF Rising
<1>4. Sure(run, b, v)
  BY <1>1, <1>2 DEF Rising, Trying, Doomed
<1>5. run.added \ Lasting = Standing(LastRevision) \ Standing(b)
  <2>1. run.at - 1 = 0
    BY <1>3
  <2>2. About(Upgrades[run.rev], run.at - 1, Making) = {}
    BY <2>1, AboutNone
  <2> QED
    BY <1>2, <1>4, <2>2 DEF Sure, Exactly
<1>6. Standing(b) \subseteq Standing(LastRevision) /\ objects \ Lasting = Standing(b)
  BY <1>1, <1>4, StandingGrows DEF Sure, Committed
<1>7. run.mark = {{LastRevision}} /\ "alembic_version" \in run.held
  BY <1>2, <1>4 DEF Sure
<1> QED
  BY <1>2, <1>5, <1>6, <1>7 DEF Rising

LEMMA FallenRun ==
  ASSUME NEW b \in 0 .. LastRevision, NEW v \in 0 .. LastRevision, Committed(v),
         NEW run, Shape(run), Falling(run, b, v), Complete(run)
  PROVE  /\ run.goal \in 0 .. LastRevision /\ run.goal < b /\ b = v
         /\ run.mark = {Rows(run.goal)} /\ "alembic_version" \in run.held
         /\ run.added = {} /\ run.removed \cap Lasting = {} /\ Lasting \subseteq objects
         /\ (objects \ run.removed) \ Lasting = Standing(run.goal)
         /\ \A r \in 2 .. b : r > run.goal => Downgrades[r][1].on \in run.held
<1>1. run.rev = run.goal /\ run.goal \in 0 .. b - 1 /\ b \in Nat /\ LastRevision \in Nat
  BY ChainTypes DEF Falling, Complete, Shape
<1>2. run.at = 1 /\ run.goal \in 0 .. LastRevision /\ run.goal < b /\ run.goal \in 0 .. b
  BY <1>1 DEF Falling
<1>3. b = v /\ run.mark = {Rows(run.goal)} /\ "alembic_version" \in run.held
  BY <1>1, <1>2 DEF Falling
<1>4. run.removed = Standing(b) \ Standing(run.goal)
  <2>1. run.at - 1 = 0
    BY <1>2
  <2>2. About(Downgrades[run.rev], run.at - 1, Removing) = {}
    BY <2>1, AboutNone
  <2> QED
    BY <1>1, <2>2 DEF Falling
<1>5. /\ Standing(run.goal) \subseteq Standing(b) /\ Standing(b) \cap Lasting = {}
      /\ objects \ Lasting = Standing(b) /\ Lasting \subseteq objects
  BY <1>1, <1>2, <1>3, StandingGrows, StandingIsApart DEF Committed
<1>6. \A r \in 2 .. b : r > run.goal => Downgrades[r][1].on \in run.held
  BY <1>1 DEF Falling
<1> QED
  BY <1>2, <1>3, <1>4, <1>5, <1>6 DEF Falling

\* A run that has not touched alembic_version outlives another's commit.
LEMMA OtherStays ==
  ASSUME NEW v \in 0 .. LastRevision, NEW w \in 0 .. LastRevision, NEW present,
         NEW run, RunOK(run, v, objects), run.phase \in {"running", "waiting"}, ~ run.alone,
         "alembic_version" \notin run.held, objects \cap Lasting \subseteq present,
         \A b \in 0 .. LastRevision :
           Falling(run, b, v) /\ run.mark = {} /\ run.at > 1 => b <= w
  PROVE  RunOK(run, w, present)
<1>1. PICK b \in 0 .. LastRevision : Rising(run, b, v, objects) \/ Falling(run, b, v)
  BY DEF RunOK
<1>2. LastRevision \in Nat /\ LastRevision > 1
  BY ChainTypes
<1>3. CASE Rising(run, b, v, objects)
  <2>1. Trying(run, b, v, objects)
    BY <1>3 DEF Rising, Sure, Doomed
  <2>2. b = 0 => \A i \in 1 .. run.at - 1 : Upgrades[run.rev][i].on \in present \cup run.added
    <3> SUFFICES ASSUME b = 0, NEW i \in 1 .. run.at - 1
                 PROVE  Upgrades[run.rev][i].on \in present \cup run.added
      OBVIOUS
    <3>1. run.rev = 1 /\ Len(Upgrades[1]) \in Nat
      BY <1>2, <2>1, ChainTypes DEF Trying
    <3>2. run.at \in 1 .. Len(Upgrades[1]) + 1
      BY <1>2, <1>3, <3>1 DEF Rising
    <3>3. i \in 1 .. Len(Upgrades[1]) /\ 1 \in 1 .. LastRevision
      BY <1>2, <3>1, <3>2
    <3>4. Upgrades[1][i].on \in Lasting
      BY <3>3, UpgradeStatement
    <3>5. Upgrades[1][i].on \in objects \cup run.added
      BY <2>1, <3>1 DEF Trying
    <3> QED
      BY <3>1, <3>4, <3>5
  <2>3. Trying(run, b, w, present)
    BY <2>1, <2>2 DEF Trying
  <2>4. Rising(run, b, w, present)
    BY <1>3, <2>3 DEF Rising
  <2> QED
    BY <2>4 DEF RunOK
<1>4. CASE Falling(run, b, v)
  <2>1. run.mark = {} /\ run.rev = b /\ (run.at > 1 => b <= w)
    BY <1>4 DEF Falling
  <2>2. Falling(run, b, w)
    BY <1>4, <2>1 DEF Falling
  <2> QED
    BY <2>2 DEF RunOK
<1> QED
  BY <1>1, <1>3, <1>4

\* What a commit must show of the version it leaves.
LEMMA CommittedKeeps ==
  ASSUME MigrationInv, NEW v \in 0 .. LastRevision, Committed(v),
         \A q \in Processes : RunOK(runs[q], v, objects),
         NEW p \in Processes, Active(p), Commit(p), "alembic_version" \in runs[p].held,
         NEW w \in 0 .. LastRevision, SeenHeads(p) = Rows(w),
         Seen(p) \ Lasting = Standing(w), w > 0 => Lasting \subseteq Seen(p),
         objects \cap Lasting \subseteq Seen(p),
         \A q \in Processes, b \in 0 .. LastRevision :
           q # p /\ Falling(runs[q], b, v) /\ runs[q].mark = {} /\ runs[q].at > 1 => b <= w
  PROVE  MigrationInv'
<1>1. /\ runs = [q \in Processes |-> runs[q]] /\ Apart /\ AloneIsAlone
  BY DEF MigrationInv
<1>2. /\ runs' = [runs EXCEPT ![p] = Resting("done", TRUE)]
      /\ objects' = Seen(p) /\ filled' = SeenFilled(p) /\ heads' = SeenHeads(p)
  BY DEF Commit
<1> DEFINE rest == Resting("done", TRUE)
<1>3. /\ RunOK(rest, w, objects') /\ rest.held = {} /\ rest.phase = "done"
  BY RestingOK
<1>4. runs' = [runs EXCEPT ![p] = rest]
  BY <1>2
<1> HIDE DEF rest
<1>5. /\ runs' = [q \in Processes |-> runs'[q]] /\ runs'[p] = rest
      /\ \A q \in Processes : q # p => runs'[q] = runs[q]
  BY <1>1, <1>4
<1>6. ASSUME NEW q \in Processes, q # p
      PROVE  RunOK(runs[q], w, objects')
  <2>1. CASE Active(q)
    <3>1. ~ runs[q].alone /\ "alembic_version" \notin runs[q].held
      BY <1>1, <1>6, <2>1 DEF AloneIsAlone, Apart
    <3>2. RunOK(runs[q], v, objects) /\ runs[q].phase \in {"running", "waiting"}
      BY <2>1 DEF Active
    <3>3. \A b \in 0 .. LastRevision :
            Falling(runs[q], b, v) /\ runs[q].mark = {} /\ runs[q].at > 1 => b <= w
      BY <1>6
    <3>4. objects \cap Lasting \subseteq objects'
      BY <1>2
    <3> QED
      BY <3>1, <3>2, <3>3, <3>4, OtherStays
  <2>2. CASE ~ Active(q)
    BY <2>2 DEF RunOK, Active
  <2> QED
    BY <2>1, <2>2
<1>7. Apart'
  BY <1>1, <1>3, <1>5 DEF Apart
<1>8. AloneIsAlone'
  BY <1>1, <1>3, <1>5 DEF AloneIsAlone, Active
<1>9. Committed(w)'
  BY <1>2 DEF Committed, SeenFilled
<1>10. \A q \in Processes : RunOK(runs'[q], w, objects')
  BY <1>3, <1>5, <1>6
<1> QED
  BY <1>5, <1>7, <1>8, <1>9, <1>10 DEF MigrationInv

LEMMA CommitKeeps ==
  ASSUME MigrationInv, NEW p \in Processes, Commit(p)
  PROVE  MigrationInv'
<1>1. PICK v \in 0 .. LastRevision :
        Committed(v) /\ \A q \in Processes : RunOK(runs[q], v, objects)
  BY DEF MigrationInv
<1>2. Active(p) /\ Complete(runs[p]) /\ Shape(runs[p])
  BY <1>1 DEF Commit, Active, RunOK
<1>3. PICK b \in 0 .. LastRevision : Rising(runs[p], b, v, objects) \/ Falling(runs[p], b, v)
  BY <1>1, <1>2 DEF RunOK, Active
<1>4. LastRevision \in Nat /\ LastRevision > 1
  BY ChainTypes
<1>5. CASE Rising(runs[p], b, v, objects)
  <2> DEFINE run == runs[p]
  <2>1. /\ run.mark = {{LastRevision}} /\ "alembic_version" \in run.held
        /\ run.removed = {} /\ Lasting \subseteq objects \cup run.added
        /\ (objects \cup run.added) \ Lasting = Standing(LastRevision)
    BY <1>1, <1>2, <1>5, RisenRun
  <2>2. SeenHeads(p) = Rows(LastRevision)
    BY <1>4, <2>1 DEF SeenHeads, Rows
  <2>3. Seen(p) = objects \cup run.added
    BY <2>1 DEF Seen
  <2>4. LastRevision \in 0 .. LastRevision /\ \A c \in 0 .. LastRevision : c <= LastRevision
    BY <1>4
  <2> QED
    BY <1>1, <1>2, <2>1, <2>2, <2>3, <2>4, CommittedKeeps
<1>6. CASE Falling(runs[p], b, v)
  <2> DEFINE run == runs[p]  w == run.goal
  <2>1. /\ w \in 0 .. LastRevision /\ w < b /\ b = v
        /\ run.mark = {Rows(w)} /\ "alembic_version" \in run.held
        /\ run.added = {} /\ run.removed \cap Lasting = {} /\ Lasting \subseteq objects
        /\ (objects \ run.removed) \ Lasting = Standing(w)
        /\ \A r \in 2 .. b : r > w => Downgrades[r][1].on \in run.held
    BY <1>1, <1>2, <1>6, FallenRun
  <2>2. SeenHeads(p) = Rows(w)
    BY <2>1 DEF SeenHeads
  <2>3. Seen(p) = objects \ run.removed
    BY <2>1 DEF Seen
  <2>4. Lasting \subseteq Seen(p) /\ Seen(p) \ Lasting = Standing(w)
    BY <2>1, <2>3
  <2>5. ASSUME NEW q \in Processes, NEW c \in 0 .. LastRevision, q # p,
               Falling(runs[q], c, v), runs[q].mark = {}, runs[q].at > 1
        PROVE  c <= w
    <3>1. runs[q].rev = c /\ c <= v /\ runs[q].goal \in 0 .. c - 1 /\ runs[q].rev # runs[q].goal
      BY <2>5, <1>4 DEF Falling
    <3>2. runs[q].at \in 1 .. Len(Downgrades[c]) + 1 /\ c \in 1 .. LastRevision
      BY <1>4, <2>5, <3>1 DEF Falling
    <3>3. 1 \in 1 .. Len(Downgrades[c])
      BY <2>5, <3>2, ChainTypes
    <3>4. c > 1
      BY <3>2, <3>3, DowngradeStatement
    <3>5. Downgrades[c][1].on \in runs[q].held
      BY <1>4, <2>5, <3>1, <3>4 DEF Falling
    <3>6. Downgrades[c][1].on \notin run.held
      BY <2>5, <3>5 DEF MigrationInv, Apart
    <3>7. c \in 2 .. b
      BY <1>4, <2>1, <3>1, <3>4
    <3> QED
      BY <1>4, <2>1, <3>6, <3>7
  <2> QED
    BY <1>1, <1>2, <2>1, <2>2, <2>4, <2>5, CommittedKeeps
<1> QED
  BY <1>3, <1>5, <1>6

-----------------------------------------------------------------------------
(* The invariant, and what it says.                                         *)

LEMMA MigrationStarts == MigrationInit => MigrationInv
<1> SUFFICES ASSUME MigrationInit PROVE MigrationInv
  OBVIOUS
<1>1. /\ runs = [p \in Processes |-> Resting("idle", TRUE)]
      /\ objects = {} /\ filled = {} /\ heads = {}
  BY DEF MigrationInit
<1>2. /\ RunOK(Resting("idle", TRUE), 0, objects) /\ Resting("idle", TRUE).held = {}
      /\ Resting("idle", TRUE).phase = "idle"
  BY RestingOK
<1> DEFINE rest == Resting("idle", TRUE)
<1> HIDE DEF rest
<1>3. /\ runs = [p \in Processes |-> runs[p]] /\ \A p \in Processes : runs[p] = rest
  BY <1>1 DEF rest
<1>4. Apart /\ AloneIsAlone
  BY <1>2, <1>3 DEF Apart, AloneIsAlone, Active, rest
<1>5. Committed(0)
  BY <1>1, StandingLow DEF Committed, Rows
<1>6. 0 \in 0 .. LastRevision
  BY ChainTypes
<1>7. \A p \in Processes : RunOK(runs[p], 0, objects)
  BY <1>2, <1>3 DEF rest
<1> QED
  BY <1>3, <1>4, <1>5, <1>6, <1>7 DEF MigrationInv

LEMMA MigrationGoesOn == MigrationInv /\ [MigrationNext]_migrationVars => MigrationInv'
<1> SUFFICES ASSUME MigrationInv, [MigrationNext]_migrationVars PROVE MigrationInv'
  OBVIOUS
<1>1. /\ LastRevision \in Nat /\ LastRevision > 1
      /\ Current \in 0 .. LastRevision
  BY CurrentVersion, ChainTypes DEF MigrationInv
<1>2. ASSUME NEW i \in Instances, StartInstance(i)
      PROVE  MigrationInv'
  <2>1. /\ i \in Processes /\ ~ Active(i) /\ Begun(i, LastRevision)
        /\ UNCHANGED <<objects, filled, heads>>
    BY <1>2 DEF StartInstance, Restartable, Active, Processes
  <2>2. LastRevision \in 0 .. LastRevision
    BY <1>1
  <2> QED
    BY <2>1, <2>2, BegunKeeps
<1>3. ASSUME NEW i \in Instances, CrashInstance(i)
      PROVE  MigrationInv'
  <2>1. /\ i \in Processes /\ runs' = [runs EXCEPT ![i] = Resting("idle", TRUE)]
        /\ UNCHANGED <<objects, filled, heads>>
    BY <1>3 DEF CrashInstance, Processes
  <2>2. "idle" \notin {"running", "waiting"} /\ "idle" # "refused" /\ TRUE \in BOOLEAN
    OBVIOUS
  <2> QED
    BY <2>1, <2>2, RestKeeps
<1>4. ASSUME NEW target \in Targets, StartOperator(target)
      PROVE  MigrationInv'
  <2>1. Operator \in Processes /\ ~ Active(Operator) /\ UNCHANGED <<objects, filled, heads>>
    BY <1>4 DEF StartOperator, Processes
  <2>2. CASE Begun(Operator, LastRevision)
    BY <1>1, <2>1, <2>2, BegunKeeps
  <2>3. CASE Current > 0 /\ Begun(Operator, Current - 1)
    <3>1. Current - 1 \in 0 .. LastRevision /\ ~ (Current - 1 > Current)
      BY <1>1, <2>3
    <3> QED
      BY <2>1, <2>3, <3>1, BegunKeeps
  <2>4. CASE Begun(Operator, 0)
    <3>1. 0 \in 0 .. LastRevision /\ ~ (0 > Current)
      BY <1>1
    <3> QED
      BY <2>1, <2>4, <3>1, BegunKeeps
  <2> QED
    BY <1>4, <2>2, <2>3, <2>4 DEF StartOperator
<1>5. ASSUME NEW p \in Processes, AbortDeadlocked(p)
      PROVE  MigrationInv'
  <2>1. /\ runs' = [runs EXCEPT ![p] = Resting("failed", runs[p].alone)]
        /\ UNCHANGED <<objects, filled, heads>> /\ runs[p].alone \in BOOLEAN
    BY <1>5 DEF AbortDeadlocked, Did, MigrationInv, RunOK, Shape
  <2>2. "failed" \notin {"running", "waiting"} /\ "failed" # "refused"
    OBVIOUS
  <2> QED
    BY <2>1, <2>2, RestKeeps
<1>6. CASE UNCHANGED migrationVars
  BY <1>6 DEF migrationVars, MigrationInv, Apart, AloneIsAlone, Active, Committed
<1> QED
  BY <1>2, <1>3, <1>4, <1>5, <1>6, StepKeeps, ResumeKeeps, CommitKeeps
     DEF MigrationNext, Advance

\* However upgrades, downgrades, crashes and concurrent runs of any number of instances
\* alternate, the committed schema is exactly what the version in alembic_version stands
\* for, at head it is the models', and a run that had the database to itself is refused
\* by none of its statements.
THEOREM SchemaAlwaysSound == MigrationSpec => []SchemaIsSound
<1>1. MigrationInv => SchemaIsSound
  <2> SUFFICES ASSUME MigrationInv PROVE SchemaIsSound
    OBVIOUS
  <2>1. PICK v \in 0 .. LastRevision :
          Committed(v) /\ \A p \in Processes : RunOK(runs[p], v, objects)
    BY DEF MigrationInv
  <2>2. Current = v
    BY <2>1, CurrentVersion
  <2>3. Cardinality(heads) <= 1
    <3>1. Cardinality({}) = 0 /\ Cardinality({v}) = 1
      BY FS_EmptySet, FS_Singleton
    <3>2. heads = {} \/ heads = {v}
      BY <2>1 DEF Committed, Rows
    <3> QED
      BY <3>1, <3>2
  <2>4. SchemaIsVersion
    BY <2>1, <2>2, <2>3 DEF SchemaIsVersion, Committed
  <2>5. SchemaMatchesModels
    <3> SUFFICES ASSUME heads = {LastRevision} PROVE SchemaMatchesModels
      BY DEF SchemaMatchesModels
    <3>1. LastRevision \in Nat /\ LastRevision > 1
      BY ChainTypes
    <3>2. v = LastRevision
      BY <2>1 DEF Committed, Rows
    <3>3. objects = Standing(LastRevision) \cup Lasting
      BY <2>1, <3>1, <3>2 DEF Committed
    <3>4. "alembic_version" \notin Standing(LastRevision)
      BY <3>2, StandingIsApart DEF Lasting
    <3>5. objects \ {"alembic_version"} = Standing(LastRevision) \cup {"geometry"}
      BY <3>3, <3>4 DEF Lasting
    <3>6. MigratedTables = ModelTables /\ Standing(LastRevision) \cup {"geometry"} =
            UNION {{t.name} \cup t.types : t \in ModelTables}
      BY ChainAssumption
    <3> QED
      BY <3>5, <3>6 DEF SchemaMatchesModels
  <2>6. AloneNeverRefused
    BY <2>1 DEF AloneNeverRefused, RunOK
  <2> QED
    BY <2>4, <2>5, <2>6 DEF SchemaIsSound
<1> QED
  BY <1>1, MigrationStarts, MigrationGoesOn, PTL DEF MigrationSpec
=============================================================================
