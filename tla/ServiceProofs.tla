---------------------------- MODULE ServiceProofs ----------------------------
(***************************************************************************)
(* Proofs about the services that keep their tables apart: AI suggestions,  *)
(* rules, resources, administration and crises, each for every set of       *)
(* requests, request bodies and pool size, whatever overlaps.  The board of *)
(* a crisis is sorted and picked from the journal: what DispatchProofs says *)
(* of lists is used for it.                                                 *)
(***************************************************************************)
EXTENDS MCServices, IncidentProofs, DispatchProofs

USE SessionsAssumption

-----------------------------------------------------------------------------
(* AI suggestions (app/ai).                                                 *)

TalkIsRow ==
  /\ talk = [texts |-> talk.texts, incident |-> talk.incident, removed |-> talk.removed]
  /\ talk.texts \in Nat /\ talk.incident \in {"i1", "i2", None}

\* What a request has read: a text is what was posted, a call's text is at least
\* the one that was the last when the request came.
AskedFor(r) ==
  r \in Open =>
    LET op == session[r].op  seen == session[r].seen
    IN  /\ op \in AIBodies /\ op.provider \in Providers
        /\ seen.since \in Nat
        /\ op.kind = "text" => seen.texts = 1 /\ seen.since = 1
        /\ op.kind = "call" => seen.since <= talk.texts
        /\ session[r].at = "loaded" => seen.texts \in Nat /\ seen.since <= seen.texts

AIInv ==
  /\ SessionsOK /\ AITypeOK /\ TalkIsRow
  /\ \A r \in Requests : AskedFor(r)
  /\ SuggestionIsSound

LEMMA AIInitial == AIInit => AIInv
<1> SUFFICES ASSUME AIInit PROVE AIInv
  OBVIOUS
<1>1. SessionsOK /\ \A r \in Requests : session[r].at = "idle"
  BY SessionsInitial DEF AIInit
<1>2. TalkIsRow
  BY DEF AIInit, TalkIsRow
<1>3. AITypeOK
  <2>1. talk.texts \in Nat /\ talk.incident \in {"i1", "i2", None}
    BY <1>2 DEF TalkIsRow
  <2>2. edits \in 0 .. MaxCallChanges /\ aiLog = {} /\ invoked = {}
    BY AIAssumption DEF AIInit
  <2> QED
    BY <2>1, <2>2 DEF AITypeOK
<1>4. SuggestionIsSound
  BY DEF AIInit, SuggestionIsSound, SuggestionIsAudited, SuggestionIsRecent
<1> QED
  BY <1>1, <1>2, <1>3, <1>4 DEF AIInv, AskedFor, Open

\* The other requests keep what they have read.
LEMMA AIOthers ==
  ASSUME AIInv, NEW r \in Requests, OthersKeep(r), UNCHANGED talk
  PROVE  \A q \in Requests \ {r} : AskedFor(q)'
  BY DEF AIInv, AskedFor, Open, OthersKeep

LEMMA AIReads ==
  ASSUME AIInv, NEW r \in Requests,
         \/ \E op \in AIBodies : ReceiveText(r, op) \/ ReceiveCall(r, op)
         \/ ReadTexts(r)
  PROVE  AIInv'
<1>1. UNCHANGED <<talk, edits, aiLog, invoked, suggested>>
  BY DEF ReceiveText, ReceiveCall, ReadTexts, aiTables
<1>2. talk.texts \in Nat /\ \A op \in AIBodies : op.kind \in {"text", "call"}
  BY AIAssumption DEF AIInv, AITypeOK, AIOperations
<1>3. SessionsOK' /\ OthersKeep(r) /\ AskedFor(r)'
  <2>1. ASSUME NEW op \in AIBodies, ReceiveText(r, op)
        PROVE  SessionsOK' /\ OthersKeep(r) /\ AskedFor(r)'
    <3> DEFINE seen == [texts |-> 1, since |-> 1, incident |-> op.incident]
    <3>1. /\ SessionsOK' /\ OthersKeep(r) /\ op.kind = "text" /\ op.provider \in Providers
          /\ session'[r].at = "row" /\ session'[r].op = op /\ session'[r].seen = seen
      BY <2>1, BeginStep DEF ReceiveText, AIInv, Registered
    <3> QED
      BY <3>1 DEF AskedFor
  <2>2. ASSUME NEW op \in AIBodies, ReceiveCall(r, op)
        PROVE  SessionsOK' /\ OthersKeep(r) /\ AskedFor(r)'
    <3> DEFINE seen == [since |-> talk.texts, incident |-> talk.incident]
    <3>1. /\ SessionsOK' /\ OthersKeep(r) /\ op.kind = "call" /\ op.provider \in Providers
          /\ session'[r].at = "row" /\ session'[r].op = op /\ session'[r].seen = seen
      BY <2>2, BeginStep DEF ReceiveCall, AIInv, Registered
    <3> QED
      BY <1>1, <1>2, <3>1 DEF AskedFor
  <2>3. ASSUME ReadTexts(r) PROVE SessionsOK' /\ OthersKeep(r) /\ AskedFor(r)'
    <3> DEFINE c == session[r].seen
               seen == [texts |-> IF session[r].op.kind = "text" THEN c.texts ELSE talk.texts,
                        since |-> c.since, incident |-> c.incident]
    <3>1. /\ SessionsOK' /\ OthersKeep(r) /\ session[r].at = "row"
          /\ session'[r].at = "loaded" /\ session'[r].op = session[r].op
          /\ session'[r].seen = seen
      BY <2>3, LoadStep DEF ReadTexts, AIInv
    <3>2. AskedFor(r) /\ r \in Open
      BY <3>1 DEF AIInv, Open
    <3> QED
      BY <1>1, <1>2, <3>1, <3>2 DEF AskedFor
  <2> QED
    BY <2>1, <2>2, <2>3
<1>4. \A q \in Requests : AskedFor(q)'
  BY <1>1, <1>3, AIOthers
<1> QED
  BY <1>1, <1>3, <1>4 DEF AIInv, AITypeOK, TalkIsRow, SuggestionIsSound, SuggestionIsAudited,
     SuggestionIsRecent

LEMMA AIAnswers ==
  ASSUME AIInv, NEW r \in Requests, Suggest(r) \/ Explode(r) \/ RejectAI(r)
  PROVE  AIInv'
<1>1. UNCHANGED <<talk, edits>> /\ r \in Open /\ \E at \in {"done", "failed"} : Finish(r, at)
  BY DEF Suggest, Explode, RejectAI, Analysing, Open, aiTables
<1>2. SessionsOK' /\ OthersKeep(r) /\ r \notin Open'
  BY <1>1, FinishStep DEF AIInv, Open
<1>3. \A q \in Requests : AskedFor(q)'
  BY <1>1, <1>2, AIOthers DEF AskedFor
<1>4. AITypeOK' /\ SuggestionIsSound'
  <2>1. CASE UNCHANGED <<aiLog, suggested>> /\ invoked' \in {invoked, invoked \cup {r}}
    BY <1>1, <2>1 DEF AIInv, AITypeOK, SuggestionIsSound, SuggestionIsAudited,
       SuggestionIsRecent
  <2>2. CASE Suggest(r)
    <3> DEFINE e == AuditEntry(r, "success")
               seen == session[r].seen
               s == [to |-> r, text |-> CallText(seen.texts), since |-> seen.since,
                     incident |-> seen.incident]
    <3>1. /\ aiLog' = aiLog \cup {e} /\ suggested' = suggested \cup {s}
          /\ invoked' = invoked \cup {r}
          /\ session[r].at = "loaded" /\ Refers(r)
      BY <2>2 DEF Suggest, Recorded, Analysing
    <3>2. /\ session[r].op.capability \in AICapabilities
          /\ session[r].op.provider \in Providers
          /\ seen.since <= seen.texts
      BY <1>1, <3>1, AIAssumption DEF AIInv, AskedFor, AIOperations, AICapabilities
    <3>3. /\ e \in AuditEntries /\ e.by = r /\ e.incident = seen.incident
          /\ e.status = "success"
      BY <3>1, <3>2 DEF AuditEntry, AuditEntries, Refers
    <3>4. s.to = r /\ s.incident = seen.incident /\ s.text >= s.since
      BY <3>2, <1>1, <3>1 DEF CallText, AIInv, AskedFor
    <3> HIDE DEF e, s, seen
    <3>5. SuggestionIsAudited'
      BY <3>1, <3>3, <3>4 DEF AIInv, SuggestionIsSound, SuggestionIsAudited
    <3>6. SuggestionIsRecent'
      BY <3>1, <3>4 DEF AIInv, SuggestionIsSound, SuggestionIsRecent
    <3>7. AITypeOK'
      BY <1>1, <3>1, <3>3 DEF AIInv, AITypeOK
    <3> QED
      BY <3>5, <3>6, <3>7 DEF SuggestionIsSound
  <2> QED
    BY <2>1, <2>2 DEF Explode, RejectAI, RolledBack, aiTables
<1> QED
  BY <1>1, <1>2, <1>3, <1>4 DEF AIInv, TalkIsRow

\* The call grows meanwhile, and what was read of it stays what it was.
LEMMA AICallChanges ==
  ASSUME AIInv, CallChanges
  PROVE  AIInv'
<1>1. UNCHANGED <<session, overlapped, aiLog, invoked, suggested>>
  BY DEF CallChanges, sessionVars
<1>2. TalkIsRow' /\ talk.texts <= talk'.texts
  BY DEF AIInv, TalkIsRow, CallChanges
<1>3. talk'.texts \in Nat /\ talk'.incident \in {"i1", "i2", None}
  BY <1>2 DEF TalkIsRow
<1>4. edits' \in 0 .. MaxCallChanges
  BY AIAssumption DEF AIInv, AITypeOK, CallChanges
<1>5. AITypeOK'
  BY <1>1, <1>3, <1>4 DEF AIInv, AITypeOK
<1>6. \A q \in Requests : AskedFor(q)'
  BY <1>1, <1>2, <1>3 DEF AIInv, AITypeOK, AskedFor, Open
<1>7. SessionsOK'
  BY <1>1, SessionsStutter DEF AIInv, sessionVars
<1> QED
  BY <1>1, <1>2, <1>5, <1>6, <1>7 DEF AIInv, SuggestionIsSound, SuggestionIsAudited,
     SuggestionIsRecent

LEMMA AIInductive == AIInv /\ [AINext]_aiVars => AIInv'
<1> SUFFICES ASSUME AIInv, [AINext]_aiVars PROVE AIInv'
  OBVIOUS
<1>1. CASE UNCHANGED aiVars
  <2>1. UNCHANGED <<talk, edits, aiLog, invoked, suggested>> /\ UNCHANGED sessionVars
    BY <1>1 DEF aiVars, aiTables
  <2>2. SessionsOK' /\ UNCHANGED <<session, overlapped>>
    BY <2>1, SessionsStutter DEF AIInv
  <2> QED
    BY <2>1, <2>2 DEF AIInv, AITypeOK, TalkIsRow, AskedFor, Open, SuggestionIsSound,
       SuggestionIsAudited, SuggestionIsRecent
<1> QED
  BY <1>1, AIReads, AIAnswers, AICallChanges DEF AINext

\* The audit rows of the AI platform, and the call that it reads, keep the types of
\* their tables.
THEOREM AITypeCorrect == AISpec => []AITypeOK
<1>1. AIInv => AITypeOK
  BY DEF AIInv
<1> QED
  BY <1>1, AIInitial, AIInductive, PTL DEF AISpec

\* Every suggestion that a dispatcher was given is on record with its incident, no
\* success is on record that nobody was given, and a suggestion is about a text at
\* least as recent as the last one when it was asked for - although the call
\* changes and other suggestions are made meanwhile.
THEOREM SuggestionsAlwaysSound == AISpec => []SuggestionIsSound
<1>1. AIInv => SuggestionIsSound
  BY DEF AIInv
<1> QED
  BY <1>1, AIInitial, AIInductive, PTL DEF AISpec

-----------------------------------------------------------------------------
(* Rules (app/rules).                                                       *)

Numbers(rows) == {v.number : v \in rows}
Dense(rows) == \E n \in Nat : Numbers(rows) = 1 .. n
Distinct(rows) == \A v, w \in rows : v.number = w.number => v = w

\* Versions that are numbered 1 to n are n.
LEMMA DenseCount ==
  ASSUME NEW rows, NEW n \in Nat, Numbers(rows) = 1 .. n, Distinct(rows)
  PROVE  Cardinality(rows) = n
<1> DEFINE f == [v \in rows |-> v.number]
<1>1. \A v \in rows : v.number \in 1 .. n
  BY DEF Numbers
<1>2. f \in Bijection(rows, 1 .. n)
  <2>1. f \in [rows -> 1 .. n]
    BY <1>1
  <2>2. \A k \in 1 .. n : \E v \in rows : v.number = k
    BY DEF Numbers
  <2>3. \A v, w \in rows : f[v] = f[w] => v = w
    BY DEF Distinct
  <2>4. \A k \in 1 .. n : \E v \in rows : f[v] = k
    BY <2>2
  <2> HIDE DEF f
  <2> QED
    BY <2>1, <2>3, <2>4, Fun_IsBij
<1>3. ExistsBijection(1 .. n, rows)
  BY <1>2, Fun_ExistsBijSymmetric DEF ExistsBijection
<1>4. IsFiniteSet(1 .. n) /\ Cardinality(1 .. n) = n
  BY FS_Interval
<1> QED
  BY <1>3, <1>4, FS_Bijection

\* The number of a new version is one more than those that were read.
LEMMA NextIsNext ==
  ASSUME NEW rows, NEW n \in Nat, Numbers(rows) = 1 .. n
  PROVE  NextNumber(rows) = n + 1
<1> DEFINE S == Numbers(rows) \cup {0}
<1>1. S = 0 .. n
  OBVIOUS
<1>2. \E x \in S : \A y \in S : x >= y
  <2>1. n \in S /\ \A y \in S : n >= y
    BY <1>1
  <2> QED
    BY <2>1
<1> DEFINE m == CHOOSE x \in S : \A y \in S : x >= y
<1>3. m \in S /\ \A y \in S : m >= y
  BY <1>2
<1>4. NextNumber(rows) = m + 1
  BY DEF NextNumber, Max, Numbers
<1> HIDE DEF m, S
<1> QED
  BY <1>1, <1>3, <1>4

\* An update keeps the versions, except that a published one that was read gives
\* way to a new one that is published, and adds its own.
Kept(r, v) ==
  IF Wanted(r).publish /\ v \in RuleSeen(r).versions /\ v.active
  THEN [v EXCEPT !.active = FALSE, !.status = "archived"] ELSE v

LEMMA StoredRows ==
  ASSUME NEW r \in Requests, NEW number
  PROVE  Stored(r, number) = {Kept(r, v) : v \in versions} \cup {NewVersion(r, number)}
<1> DEFINE gone(v) == CHOOSE d \in Deactivated({v}) : TRUE
<1>1. ASSUME NEW v, v.active
      PROVE  gone(v) = [v EXCEPT !.active = FALSE, !.status = "archived"]
  <2>1. Deactivated({v}) = {[v EXCEPT !.active = FALSE, !.status = "archived"]}
    BY <1>1 DEF Deactivated
  <2> QED
    BY <2>1
<1>2. CASE Wanted(r).publish
  <2> DEFINE old(v) == IF v \in RuleSeen(r).versions /\ v.active THEN gone(v) ELSE v
  <2>1. Stored(r, number) = {old(v) : v \in versions} \cup {NewVersion(r, number)}
    BY <1>2 DEF Stored
  <2> HIDE DEF gone
  <2>2. \A v \in versions : old(v) = Kept(r, v)
    BY <1>1, <1>2 DEF Kept
  <2> HIDE DEF old
  <2> QED
    BY <2>1, <2>2
<1>3. CASE ~Wanted(r).publish
  <2>1. \A v \in versions : Kept(r, v) = v
    BY <1>3 DEF Kept
  <2>2. versions = {Kept(r, v) : v \in versions}
    BY <2>1
  <2> QED
    BY <1>3, <2>2 DEF Stored
<1> QED
  BY <1>2, <1>3

LEMMA KeptRow ==
  ASSUME NEW r \in Requests, NEW v \in VersionRows
  PROVE  /\ Kept(r, v) \in VersionRows
         /\ Kept(r, v).number = v.number /\ Kept(r, v).by = v.by
         /\ \/ Kept(r, v) = v
            \/ ~Kept(r, v).active /\ v.active /\ Kept(r, v).status = "archived"
               /\ Wanted(r).publish
  BY DEF Kept, VersionRows, VersionStatuses

LEMMA NewVersionRow ==
  ASSUME NEW r \in Requests, NEW number \in Nat \ {0}, Wanted(r).publish \in BOOLEAN
  PROVE  LET v == NewVersion(r, number)
         IN  /\ v \in VersionRows /\ v.number = number /\ v.by = r
             /\ v.status \in {"published", "draft"}
             /\ v.active <=> v.status = "published"
             /\ v.status = "published" <=> Wanted(r).publish
  BY DEF NewVersion, VersionRows, VersionStatuses, Writers

\* What a request has read of the rule was there, and as long as nothing has
\* overlapped it is what there is.
RuleRead(r) ==
  r \in Open =>
    /\ session[r].op \in RuleBodies
    /\ RuleSeen(r).rule \in RuleRows \cup {None}
    /\ RuleSeen(r).rule # None => rule # None
    /\ session[r].at = "loaded" => /\ Dense(RuleSeen(r).versions)
                                   /\ Numbers(RuleSeen(r).versions) \subseteq Numbers(versions)
    /\ ~overlapped => /\ RuleSeen(r).rule = rule /\ RuleSeen(r).links = ruleLinks
                      /\ session[r].at = "loaded" => RuleSeen(r).versions = versions

\* Versions and history were written by requests that are over.
Authored ==
  /\ \A v \in versions : v.by \in Requests => session[v.by].at = "done"
  /\ \A e \in ruleEvents : e.by \in Requests => session[e.by].at = "done"

RuleRowsAgree ==
  /\ RuleTypeOK /\ (rule = None => versions = {})
  /\ Dense(versions) /\ Distinct(versions) /\ ActiveIsLatest /\ HistoryMatches

RuleInv ==
  /\ SessionsOK /\ RuleRowsAgree /\ Authored
  /\ \A r \in Requests : RuleRead(r)

LEMMA RuleInitial == RuleInit => RuleInv
<1> SUFFICES ASSUME RuleInit PROVE RuleInv
  OBVIOUS
<1> DEFINE first == [number |-> 1, by |-> Older, status |-> "published", active |-> TRUE]
           event(a) == [by |-> Older, number |-> 1, action |-> a]
           actions == {"created", "version_created", "published", "activated"}
<1>1. SessionsOK /\ \A r \in Requests : session[r].at = "idle" /\ RuleRead(r)
  BY SessionsInitial DEF RuleInit, RuleRead, Open
<1>2. /\ first \in VersionRows /\ first.number = 1 /\ first.by = Older
      /\ first.status = "published" /\ first.active
  BY DEF VersionRows, VersionStatuses, Writers
<1>3. \A a \in actions : /\ event(a) \in RuleEventRows /\ event(a).by = Older
                         /\ event(a).number = 1 /\ event(a).action = a
  BY DEF RuleEventRows, Writers, HistoryActions
<1>4. [enabled |-> TRUE, deleted |-> FALSE] \in RuleRows
  BY DEF RuleRows
<1>5. Entry(Older, 1, "activated") = event("activated")
  BY DEF Entry
<1>6. \/ rule = None /\ versions = {} /\ ruleLinks = {} /\ ruleEvents = {}
      \/ /\ rule \in RuleRows /\ versions = {first}
         /\ ruleLinks \in {ToSet(list) : list \in LinkLists}
         /\ ruleEvents = {event(a) : a \in actions}
  BY <1>4 DEF RuleInit
<1> HIDE DEF first, event
<1>7. CASE rule = None /\ versions = {} /\ ruleLinks = {} /\ ruleEvents = {}
  <2>1. Dense(versions)
    <3>1. Numbers(versions) = 1 .. 0
      BY <1>7 DEF Numbers
    <3> QED
      BY <3>1 DEF Dense
  <2> QED
    BY <1>1, <1>7, <2>1 DEF RuleInv, RuleRowsAgree, RuleTypeOK, Authored, Distinct,
       ActiveIsLatest, HistoryMatches
<1>8. CASE /\ rule \in RuleRows /\ versions = {first}
           /\ ruleLinks \in {ToSet(list) : list \in LinkLists}
           /\ ruleEvents = {event(a) : a \in actions}
  <2>1. Dense(versions)
    <3>1. Numbers(versions) = 1 .. 1
      BY <1>2, <1>8 DEF Numbers
    <3> QED
      BY <3>1 DEF Dense
  <2>2. Distinct(versions) /\ ActiveIsLatest
    BY <1>2, <1>8 DEF Distinct, ActiveIsLatest
  <2>3. RuleTypeOK
    BY <1>2, <1>3, <1>8 DEF RuleTypeOK, LinkValues
  <2>4. HistoryMatches
    BY <1>2, <1>3, <1>5, <1>8 DEF HistoryMatches
  <2>5. Authored
    BY <1>2, <1>3, <1>8, RulesAssumption DEF Authored
  <2> QED
    BY <1>1, <1>8, <2>1, <2>2, <2>3, <2>4, <2>5, RulesAssumption DEF RuleInv, RuleRowsAgree
<1> QED
  BY <1>6, <1>7, <1>8

\* The other requests keep what they have read, while rule and versions grow.
LEMMA RuleOthers ==
  ASSUME RuleInv, NEW r \in Requests, OthersKeep(r), overlapped' \in BOOLEAN,
         ~overlapped' => ~overlapped /\ \A q \in Requests \ {r} : q \notin Open,
         rule # None => rule' # None, Numbers(versions) \subseteq Numbers(versions')
  PROVE  \A q \in Requests \ {r} : RuleRead(q)'
<1> SUFFICES ASSUME NEW q \in Requests \ {r}, q \in Open' PROVE RuleRead(q)'
  BY DEF RuleRead
<1>1. session'[q] = session[q] /\ q \in Open /\ RuleRead(q)
  BY DEF RuleInv, OthersKeep, Open
<1>2. overlapped'
  BY <1>1
<1> QED
  BY <1>1, <1>2 DEF RuleRead, RuleSeen

\* What is known of the tables stays true when the rows stay and nobody un-commits.
LEMMA RuleTablesKept ==
  ASSUME RuleInv, NEW r \in Requests, OthersKeep(r), session[r].at # "done",
         UNCHANGED <<rule, versions, ruleLinks, ruleEvents>>
  PROVE  RuleRowsAgree' /\ Authored'
<1>1. RuleRowsAgree'
  BY DEF RuleInv, RuleRowsAgree, RuleTypeOK, ActiveIsLatest, HistoryMatches
<1>2. Authored'
  BY DEF RuleInv, Authored, OthersKeep
<1> QED
  BY <1>1, <1>2

LEMMA ReceiveRuleStep ==
  ASSUME RuleInv, NEW r \in Requests, NEW op \in RuleBodies, ReceiveRule(r, op)
  PROVE  RuleInv'
<1> DEFINE seen == [rule |-> rule, links |-> ruleLinks]
<1>1. /\ SessionsOK' /\ OthersKeep(r) /\ session[r].at = "idle"
      /\ session'[r].at = "row" /\ session'[r].op = op /\ session'[r].seen = seen
      /\ ~overlapped' => ~overlapped /\ \A q \in Requests : q \notin Open
  BY BeginStep DEF ReceiveRule, RuleInv
<1>2. UNCHANGED <<rule, versions, ruleLinks, ruleEvents>>
  BY DEF ReceiveRule, ruleTables
<1>3. seen.rule = rule /\ seen.links = ruleLinks
  OBVIOUS
<1> HIDE DEF seen
<1>4. RuleRead(r)'
  BY <1>1, <1>2, <1>3 DEF RuleRead, RuleSeen, RuleInv, RuleRowsAgree, RuleTypeOK
<1>5. \A q \in Requests \ {r} : RuleRead(q)'
  BY <1>1, <1>2, RuleOthers DEF SessionsOK
<1>6. RuleRowsAgree' /\ Authored'
  BY <1>1, <1>2, RuleTablesKept
<1> QED
  BY <1>1, <1>4, <1>5, <1>6 DEF RuleInv

LEMMA LoadVersionsStep ==
  ASSUME RuleInv, NEW r \in Requests, LoadVersions(r)
  PROVE  RuleInv'
<1> DEFINE seen == [rule |-> session[r].seen.rule, links |-> session[r].seen.links,
                    versions |-> versions]
<1>1. /\ SessionsOK' /\ OthersKeep(r) /\ session[r].at = "row"
      /\ session'[r].at = "loaded" /\ session'[r].op = session[r].op
      /\ session'[r].seen = seen /\ overlapped' = overlapped
  BY LoadStep DEF LoadVersions, RuleInv
<1>2. UNCHANGED <<rule, versions, ruleLinks, ruleEvents>>
  BY DEF LoadVersions, ruleTables
<1>3. /\ seen.rule = RuleSeen(r).rule /\ seen.links = RuleSeen(r).links
      /\ seen.versions = versions /\ RuleSeen(r)' = session'[r].seen
  BY DEF RuleSeen
<1> HIDE DEF seen
<1>4. r \in Open /\ RuleRead(r) /\ Dense(versions)
  BY <1>1 DEF Open, RuleInv, RuleRowsAgree
<1>5. RuleRead(r)'
  BY <1>1, <1>2, <1>3, <1>4 DEF RuleRead
<1>6. \A q \in Requests \ {r} : RuleRead(q)'
  BY <1>1, <1>2, <1>4, RuleOthers, OpenAlone DEF RuleInv, SessionsOK
<1>7. RuleRowsAgree' /\ Authored'
  BY <1>1, <1>2, RuleTablesKept
<1> QED
  BY <1>1, <1>5, <1>6, <1>7 DEF RuleInv

\* The end of a request, whatever it committed.
LEMMA RuleEnds ==
  ASSUME RuleInv, NEW r \in Requests, r \in Open, NEW at \in {"done", "failed"},
         Finish(r, at), rule # None => rule' # None, Numbers(versions) \subseteq Numbers(versions')
  PROVE  /\ SessionsOK' /\ OthersKeep(r) /\ session'[r].at = at
         /\ overlapped' = overlapped
         /\ session[r].at # "done"
         /\ \A q \in Requests : RuleRead(q)'
<1>1. /\ SessionsOK' /\ OthersKeep(r) /\ session'[r].at = at
      /\ overlapped' = overlapped
  BY FinishStep DEF RuleInv
<1>2. \A q \in Requests \ {r} : RuleRead(q)'
  BY <1>1, RuleOthers, OpenAlone DEF RuleInv, SessionsOK
<1>3. RuleRead(r)'
  BY <1>1 DEF RuleRead, Open
<1> QED
  BY <1>1, <1>2, <1>3 DEF Open

LEMMA RuleAnswers ==
  ASSUME RuleInv, NEW r \in Requests,
         FindApplicable(r) \/ RejectRule(r) \/ RuleConnectionLost(r)
  PROVE  RuleInv'
<1>1. /\ r \in Open /\ \E at \in {"done", "failed"} : Finish(r, at)
      /\ UNCHANGED <<rule, versions, ruleLinks, ruleEvents>>
  BY DEF FindApplicable, RejectRule, RuleConnectionLost, Lost, Requesting, Open, ruleTables
<1>2. /\ SessionsOK' /\ OthersKeep(r) /\ session[r].at # "done"
      /\ \A q \in Requests : RuleRead(q)'
  BY <1>1, RuleEnds
<1>3. RuleRowsAgree' /\ Authored'
  BY <1>1, <1>2, RuleTablesKept
<1> QED
  BY <1>2, <1>3 DEF RuleInv

LEMMA RuleOperation ==
  ASSUME NEW op \in RuleBodies
  PROVE  /\ op.kind \in {"new rule", "rule"} => op.publish \in BOOLEAN
         /\ op.kind = "new rule" => op.links \in LinkLists
         /\ op.kind = "rule" => /\ op.links \in LinkLists \cup {None}
                                /\ op.enabled \in BOOLEAN \cup {None}
  BY RulesAssumption DEF RuleOperations

\* What was authored stays, and the request that is over is one more author.
LEMMA AuthoredKept ==
  ASSUME RuleInv, NEW r \in Requests, OthersKeep(r), session'[r].at = "done",
         \A v \in versions' : v.by = r \/ \E w \in versions : w.by = v.by,
         \A e \in ruleEvents' : e.by = r \/ e \in ruleEvents
  PROVE  Authored'
  BY DEF RuleInv, Authored, OthersKeep

\* What a request logs of its version.
LEMMA EnteredRows ==
  ASSUME NEW r \in Requests, NEW number \in Nat
  PROVE  /\ \A e \in Entered(r, number) : /\ e \in RuleEventRows /\ e.by = r
                                          /\ e.number = number
         /\ \E e \in Entered(r, number) : e.action = "version_created"
         /\ Entry(r, number, "activated") \in Entered(r, number) <=> Wanted(r).publish
         /\ \A a \in HistoryActions : /\ Entry(r, number, a) \in RuleEventRows
                                      /\ Entry(r, number, a).by = r
                                      /\ Entry(r, number, a).action = a
<1> DEFINE actions == {"version_created"}
                        \cup (IF Wanted(r).publish THEN {"published", "activated"} ELSE {})
           e(a) == [by |-> r, number |-> number, action |-> a]
<1>1. actions \subseteq HistoryActions /\ "version_created" \in actions
      /\ ("activated" \in actions <=> Wanted(r).publish)
  BY DEF HistoryActions
<1>2. \A a \in HistoryActions : /\ e(a) \in RuleEventRows /\ e(a).by = r
                                /\ e(a).number = number /\ e(a).action = a
  BY DEF RuleEventRows, Writers
<1>3. "activated" \in HistoryActions
  BY DEF HistoryActions
<1> HIDE DEF actions, e
<1>4. \A a \in HistoryActions : Entry(r, number, a) = e(a)
  BY DEF Entry, e
<1>5. Entered(r, number) = {e(a) : a \in actions}
  BY DEF Entered, actions, e
<1> QED
  BY <1>1, <1>2, <1>3, <1>4, <1>5

LEMMA CreateRuleStep ==
  ASSUME RuleInv, NEW r \in Requests, CreateRule(r)
  PROVE  RuleInv'
<1> DEFINE new == NewVersion(r, 1)
           row == [enabled |-> TRUE, deleted |-> FALSE]
<1>1. /\ session[r].at = "loaded" /\ session[r].op.kind = "new rule" /\ rule = None
      /\ rule' = row /\ versions' = {new}
      /\ ruleLinks' = ToSet(Wanted(r).links)
      /\ ruleEvents' = Entered(r, 1) \cup {Entry(r, 1, "created")}
      /\ Finish(r, "done")
  BY DEF CreateRule, Requesting
<1>2. row \in RuleRows /\ row # None
  <2>1. row \in RuleRows
    BY DEF RuleRows
  <2> HIDE DEF row
  <2> QED
    BY <2>1, RulesAssumption
<1>3. r \in Open /\ RuleRead(r) /\ versions = {}
  BY <1>1 DEF Open, RuleInv, RuleRowsAgree
<1>4. Wanted(r).publish \in BOOLEAN /\ Wanted(r).links \in LinkLists
  BY <1>1, <1>3, RuleOperation DEF RuleRead, Wanted
<1>5. /\ new \in VersionRows /\ new.number = 1 /\ new.by = r
      /\ new.active <=> new.status = "published"
      /\ new.status \in {"published", "draft"}
      /\ new.status = "published" <=> Wanted(r).publish
  BY <1>4, NewVersionRow
<1> HIDE DEF new, row
<1>6. /\ SessionsOK' /\ OthersKeep(r) /\ session'[r].at = "done"
      /\ \A q \in Requests : RuleRead(q)'
  BY <1>1, <1>2, <1>3, RuleEnds DEF Numbers
<1>7. /\ \A e \in ruleEvents' : e \in RuleEventRows /\ e.by = r
      /\ {e.number : e \in {f \in ruleEvents' : f.action = "version_created"}} = {1}
      /\ Entry(r, 1, "activated") \in ruleEvents' <=> Wanted(r).publish
  <2>1. "created" \in HistoryActions /\ "activated" \in HistoryActions
        /\ "version_created" \in HistoryActions
    BY DEF HistoryActions
  <2>2. /\ \A e \in Entered(r, 1) : e \in RuleEventRows /\ e.by = r /\ e.number = 1
        /\ \E e \in Entered(r, 1) : e.action = "version_created"
        /\ Entry(r, 1, "activated") \in Entered(r, 1) <=> Wanted(r).publish
        /\ \A a \in HistoryActions : /\ Entry(r, 1, a) \in RuleEventRows
                                     /\ Entry(r, 1, a).by = r /\ Entry(r, 1, a).action = a
    BY EnteredRows
  <2>3. \A e \in ruleEvents' : e \in RuleEventRows /\ e.by = r
    BY <1>1, <2>1, <2>2
  <2>4. /\ \A e \in ruleEvents' : e.action = "version_created" => e.number = 1
        /\ \E e \in ruleEvents' : e.action = "version_created"
    BY <1>1, <2>1, <2>2
  <2>5. {e.number : e \in {f \in ruleEvents' : f.action = "version_created"}} = {1}
    BY <2>4
  <2>6. Entry(r, 1, "activated") # Entry(r, 1, "created")
    BY <2>1, <2>2
  <2> QED
    BY <1>1, <2>2, <2>3, <2>5, <2>6
<1>8. RuleTypeOK'
  BY <1>1, <1>2, <1>4, <1>5, <1>7 DEF RuleTypeOK, LinkValues
<1>9. Dense(versions') /\ Distinct(versions') /\ ActiveIsLatest'
  <2>1. versions' = {new} /\ new.number = 1
    BY <1>1, <1>5
  <2>2. Numbers(versions') = 1 .. 1
    BY <2>1 DEF Numbers
  <2> QED
    BY <1>1, <1>5, <2>2 DEF Dense, Distinct, ActiveIsLatest
<1>10. HistoryMatches'
  BY ZenonT(30), <1>1, <1>5, <1>7 DEF HistoryMatches
<1>11. Authored'
  BY <1>1, <1>5, <1>6, <1>7, AuthoredKept DEF RuleInv, Authored
<1> QED
  BY <1>1, <1>2, <1>6, <1>8, <1>9, <1>10, <1>11 DEF RuleInv, RuleRowsAgree

\* A column that an update or a deletion writes leaves a row.
LEMMA RuleRowMerged ==
  ASSUME NEW row \in RuleRows, NEW seen \in RuleRows, NEW value \in BOOLEAN
  PROVE  Merge(row, seen, [seen EXCEPT !.enabled = value]) \in RuleRows
<1> DEFINE mine == [seen EXCEPT !.enabled = value]
           m == Merge(row, seen, mine)
<1>1. mine \in RuleRows
  BY DEF RuleRows
<1>2. m = [f \in {"enabled", "deleted"} |-> IF mine[f] = seen[f] THEN row[f] ELSE mine[f]]
  BY DEF Merge, RuleRows
<1>3. \A x \in {row, mine} : x["enabled"] \in BOOLEAN /\ x["deleted"] \in BOOLEAN
  BY <1>1 DEF RuleRows
<1> HIDE DEF mine
<1>4. m["enabled"] \in BOOLEAN /\ m["deleted"] \in BOOLEAN
  BY <1>2, <1>3
<1> HIDE DEF m
<1>5. m \in RuleRows
  BY <1>2, <1>4 DEF RuleRows
<1> QED
  BY <1>5 DEF m, mine

LEMMA DeleteRuleStep ==
  ASSUME RuleInv, NEW r \in Requests, DeleteRule(r)
  PROVE  RuleInv'
<1>1. /\ session[r].at = "loaded" /\ Visible(RuleSeen(r).rule)
      /\ rule' = [rule EXCEPT !.deleted = TRUE]
      /\ ruleEvents' = ruleEvents \cup {Entry(r, 0, "deleted")}
      /\ Finish(r, "done") /\ UNCHANGED <<versions, ruleLinks>>
  BY DEF DeleteRule, Requesting
<1>2. r \in Open /\ RuleRead(r)
  BY <1>1 DEF Open, RuleInv
<1>3. rule \in RuleRows /\ rule # None
  BY <1>1, <1>2 DEF Visible, RuleRead, RuleInv, RuleRowsAgree, RuleTypeOK
<1>4. rule' \in RuleRows /\ rule' # None
  BY <1>1, <1>3, RulesAssumption DEF RuleRows
<1>5. /\ SessionsOK' /\ OthersKeep(r) /\ session'[r].at = "done"
      /\ \A q \in Requests : RuleRead(q)'
  BY <1>1, <1>2, <1>4, RuleEnds
<1> DEFINE e == Entry(r, 0, "deleted")
<1>6. e \in RuleEventRows /\ e.by = r /\ e.action = "deleted"
  BY EnteredRows DEF HistoryActions
<1> HIDE DEF e
<1>7. RuleTypeOK'
  BY <1>1, <1>4, <1>6 DEF RuleInv, RuleRowsAgree, RuleTypeOK, e
<1>8. \A v \in versions : Entry(v.by, v.number, "activated") # e
  BY <1>6 DEF Entry
<1>9. HistoryMatches'
  BY <1>1, <1>6, <1>8 DEF RuleInv, RuleRowsAgree, HistoryMatches, e
<1>10. Authored'
  BY <1>1, <1>5, <1>6, AuthoredKept DEF e
<1> QED
  BY <1>1, <1>4, <1>5, <1>7, <1>9, <1>10 DEF RuleInv, RuleRowsAgree, ActiveIsLatest

\* PUT: the row and the links, and with a version what is stored and logged of it.
LEMMA UpdateRuleFacts ==
  ASSUME RuleInv, NEW r \in Requests, UpdateRule(r)
  PROVE  /\ session[r].at = "loaded" /\ session[r].op.kind = "rule"
         /\ r \in Open /\ RuleRead(r) /\ Visible(RuleSeen(r).rule)
         /\ rule \in RuleRows /\ rule' \in RuleRows /\ rule # None /\ rule' # None
         /\ ruleLinks' = IF Wanted(r).links = None THEN ruleLinks ELSE Relinked(r)
         /\ ruleLinks' \subseteq LinkValues
         /\ \/ UNCHANGED versions /\ ruleEvents' = ruleEvents \cup {Entry(r, 0, "updated")}
            \/ \E m \in Nat :
                 /\ Numbers(RuleSeen(r).versions) = 1 .. m
                 /\ versions' = {Kept(r, v) : v \in versions} \cup {NewVersion(r, m + 1)}
                 /\ StorableVersion(versions')
                 /\ ruleEvents' = ruleEvents \cup Entered(r, m + 1)
                                    \cup {Entry(r, 0, "updated")}
         /\ Wanted(r).publish \in BOOLEAN
         /\ Finish(r, "done") /\ UNCHANGED answers
<1> DEFINE number == NextNumber(RuleSeen(r).versions)
<1>1. /\ session[r].at = "loaded" /\ session[r].op.kind = "rule"
      /\ Visible(RuleSeen(r).rule)
      /\ rule' = IF Wanted(r).enabled = None THEN rule
                 ELSE Merge(rule, RuleSeen(r).rule,
                             [RuleSeen(r).rule EXCEPT !.enabled = Wanted(r).enabled])
      /\ ruleLinks' = IF Wanted(r).links = None THEN ruleLinks ELSE Relinked(r)
      /\ \/ UNCHANGED versions /\ ruleEvents' = ruleEvents \cup {Entry(r, 0, "updated")}
         \/ /\ versions' = Stored(r, number) /\ StorableVersion(versions')
            /\ ruleEvents' = ruleEvents \cup Entered(r, number) \cup {Entry(r, 0, "updated")}
      /\ Finish(r, "done") /\ UNCHANGED answers
  BY DEF UpdateRule, Requesting
<1> HIDE DEF number
<1>2. r \in Open /\ RuleRead(r)
  BY <1>1 DEF Open, RuleInv
<1>3. /\ rule \in RuleRows /\ rule # None
      /\ RuleSeen(r).rule \in RuleRows
  BY <1>1, <1>2 DEF Visible, RuleRead, RuleInv, RuleRowsAgree, RuleTypeOK
<1>4. /\ Wanted(r).publish \in BOOLEAN /\ Wanted(r).links \in LinkLists \cup {None}
      /\ Wanted(r).enabled \in BOOLEAN \cup {None}
  BY <1>1, <1>2, RuleOperation DEF RuleRead, Wanted
<1>5. rule' \in RuleRows
  <2>1. CASE Wanted(r).enabled = None
    BY <1>1, <1>3, <2>1
  <2>2. CASE Wanted(r).enabled # None
    <3>1. Wanted(r).enabled \in BOOLEAN
      BY <1>4, <2>2
    <3> QED
      BY <1>1, <1>3, <2>2, <3>1, RuleRowMerged
  <2> QED
    BY <2>1, <2>2
<1>6. rule' # None
  BY <1>5, RulesAssumption
<1>7. ruleLinks' \subseteq LinkValues
  BY <1>1, <1>4 DEF RuleInv, RuleRowsAgree, RuleTypeOK, Relinked, LinkValues
<1>8. PICK m \in Nat : Numbers(RuleSeen(r).versions) = 1 .. m
  BY <1>1, <1>2 DEF RuleRead, Dense
<1>9. number = m + 1
  BY <1>8, NextIsNext DEF number
<1>10. Stored(r, number) = {Kept(r, v) : v \in versions} \cup {NewVersion(r, number)}
  BY StoredRows
<1> QED
  BY <1>1, <1>2, <1>3, <1>4, <1>5, <1>6, <1>7, <1>8, <1>9, <1>10

\* A version that is stored is the next one, and the only one that is active if it is
\* published: what another request stored meanwhile would have been refused.
LEMMA VersionStored ==
  ASSUME RuleInv, NEW r \in Requests, r \in Open, Wanted(r).publish \in BOOLEAN,
         NEW m \in Nat, Numbers(RuleSeen(r).versions) = 1 .. m,
         Numbers(RuleSeen(r).versions) \subseteq Numbers(versions),
         versions' = {Kept(r, v) : v \in versions} \cup {NewVersion(r, m + 1)},
         StorableVersion(versions')
  PROVE  /\ Numbers(versions) = 1 .. m /\ Numbers(versions') = 1 .. (m + 1)
         /\ versions' \subseteq VersionRows
         /\ Dense(versions') /\ Distinct(versions') /\ ActiveIsLatest'
         /\ \A v \in versions : v.by # r
<1> DEFINE new == NewVersion(r, m + 1)
<1>1. /\ new \in VersionRows /\ new.number = m + 1 /\ new.by = r
      /\ new.active <=> new.status = "published"
      /\ new.status \in {"published", "draft"}
      /\ new.status = "published" <=> Wanted(r).publish
  BY NewVersionRow
<1>2. versions' = {Kept(r, v) : v \in versions} \cup {new} /\ StorableVersion(versions')
  OBVIOUS
<1> HIDE DEF new
<1>3. \A v \in versions : v \in VersionRows /\ v.by # r
  BY DEF RuleInv, RuleRowsAgree, RuleTypeOK, Authored, Open
<1>4. \A v \in versions :
        /\ Kept(r, v) \in VersionRows /\ Kept(r, v).number = v.number
        /\ Kept(r, v).by = v.by
        /\ \/ Kept(r, v) = v
           \/ ~Kept(r, v).active /\ v.active /\ Kept(r, v).status = "archived"
  BY <1>3, KeptRow
<1>5. \A v \in versions : v.number # m + 1
  BY <1>1, <1>2, <1>3, <1>4 DEF StorableVersion
<1>6. PICK n \in Nat : Numbers(versions) = 1 .. n
  BY DEF RuleInv, RuleRowsAgree, Dense
<1>7. m = n
  <2>1. m + 1 \notin 1 .. n
    BY <1>5, <1>6 DEF Numbers
  <2>2. \A k \in 1 .. m : k \in 1 .. n
    BY <1>6
  <2> QED
    BY <2>1, <2>2
<1>8. Numbers(versions') = Numbers(versions) \cup {m + 1}
  <2>1. \A w \in versions' : w.number \in Numbers(versions) \cup {m + 1}
    BY <1>1, <1>2, <1>4 DEF Numbers
  <2>2. \A v \in versions : \E w \in versions' : w.number = v.number
    BY <1>2, <1>4
  <2>3. \E w \in versions' : w.number = m + 1
    BY <1>1, <1>2
  <2> QED
    BY <2>1, <2>2, <2>3 DEF Numbers
<1>9. Numbers(versions') = 1 .. (m + 1)
  <2>1. 1 .. (m + 1) = (1 .. m) \cup {m + 1}
    OBVIOUS
  <2> QED
    BY <1>6, <1>7, <1>8, <2>1
<1>10. Distinct(versions')
  <2>1. \A v, w \in versions' : v # w => v.number # w.number
    BY <1>2 DEF StorableVersion
  <2> QED
    BY <2>1 DEF Distinct
<1>11. ActiveIsLatest'
  <2>1. ASSUME NEW w \in versions'
        PROVE  w.active <=> w.status = "published"
    <3>1. CASE w = new
      BY <1>1, <3>1
    <3>2. ASSUME NEW v \in versions, w = Kept(r, v)
          PROVE  w.active <=> w.status = "published"
      <4>1. v.active <=> v.status = "published"
        BY DEF RuleInv, RuleRowsAgree, ActiveIsLatest
      <4>2. CASE w = v
        BY <4>1, <4>2
      <4>3. CASE ~w.active /\ w.status = "archived"
        BY <4>3
      <4> QED
        BY <1>4, <3>2, <4>2, <4>3
    <3> QED
      BY <1>2, <3>1, <3>2
  <2>2. ASSUME NEW v \in versions', NEW w \in versions' \ {v}, v.active
        PROVE  ~w.active /\ (w.status # "draft" => w.number < v.number)
    <3>1. ~w.active
      BY <1>2, <2>2 DEF StorableVersion
    <3>2. CASE v = new
      <4>1. w.number \in 1 .. m
        BY <1>2, <1>4, <1>6, <1>7, <2>2, <3>2 DEF Numbers
      <4> QED
        BY <1>1, <3>1, <3>2, <4>1
    <3>3. CASE v # new
      <4>1. PICK x \in versions : v = Kept(r, x)
        BY <1>2, <3>3
      <4>2. v = x /\ x.active
        BY <1>4, <2>2, <4>1
      <4>3. CASE w = new
        BY <1>1, <2>2, <3>1, <4>3
      <4>4. CASE w # new
        <5>1. PICK y \in versions : w = Kept(r, y)
          BY <1>2, <2>2, <4>4
        <5>2. y # x
          BY <2>2, <4>1, <5>1
        <5>3. y.status # "draft" => y.number < x.number
          BY <4>2, <5>2 DEF RuleInv, RuleRowsAgree, ActiveIsLatest
        <5>4. ~y.active
          BY <4>2, <5>2 DEF RuleInv, RuleRowsAgree, ActiveIsLatest
        <5> QED
          BY <1>4, <3>1, <4>2, <5>1, <5>3, <5>4
      <4> QED
        BY <4>3, <4>4
    <3> QED
      BY <3>2, <3>3
  <2> QED
    BY <2>1, <2>2 DEF ActiveIsLatest
<1>12. Dense(versions')
  <2>1. \E k \in Nat : Numbers(versions') = 1 .. k
    <3> WITNESS m + 1 \in Nat
    <3> QED
      BY <1>9
  <2> QED
    BY <2>1 DEF Dense
<1>13. versions' \subseteq VersionRows
  BY <1>1, <1>2, <1>4
<1> QED
  BY <1>3, <1>6, <1>7, <1>9, <1>10, <1>11, <1>12, <1>13

\* The history of a version that is stored.
LEMMA VersionLogged ==
  ASSUME RuleInv, NEW r \in Requests, r \in Open, Wanted(r).publish \in BOOLEAN,
         NEW m \in Nat,
         versions' = {Kept(r, v) : v \in versions} \cup {NewVersion(r, m + 1)},
         Numbers(versions) = 1 .. m, Numbers(versions') = 1 .. (m + 1),
         \A v \in versions : v \in VersionRows /\ v.by # r,
         ruleEvents' = ruleEvents \cup Entered(r, m + 1) \cup {Entry(r, 0, "updated")}
  PROVE  HistoryMatches' /\ \A e \in ruleEvents' : e \in RuleEventRows /\ (e.by = r \/ e \in ruleEvents)
<1> DEFINE new == NewVersion(r, m + 1)
           entered == Entered(r, m + 1)
           updated == Entry(r, 0, "updated")
<1>1. /\ new.number = m + 1 /\ new.by = r
      /\ new.status \in {"published", "draft"}
      /\ new.status = "published" <=> Wanted(r).publish
  BY NewVersionRow
<1>2. /\ \A e \in entered : e \in RuleEventRows /\ e.by = r /\ e.number = m + 1
      /\ \E e \in entered : e.action = "version_created"
      /\ Entry(r, m + 1, "activated") \in entered <=> Wanted(r).publish
  BY EnteredRows
<1>3. updated \in RuleEventRows /\ updated.by = r /\ updated.action = "updated"
  BY EnteredRows DEF HistoryActions
<1>4. \A n, a, by : Entry(by, n, a).by = by /\ Entry(by, n, a).action = a
  BY DEF Entry
<1>5. /\ versions' = {Kept(r, v) : v \in versions} \cup {new}
      /\ ruleEvents' = ruleEvents \cup entered \cup {updated}
  OBVIOUS
<1> HIDE DEF new, entered, updated
<1>6. \A e \in ruleEvents : e \in RuleEventRows /\ e.by # r
  BY DEF RuleInv, RuleRowsAgree, RuleTypeOK, Authored, Open
<1>7. {e.number : e \in {f \in ruleEvents' : f.action = "version_created"}}
        = {v.number : v \in versions'}
  <2>1. {e.number : e \in {f \in ruleEvents : f.action = "version_created"}} = Numbers(versions)
    BY DEF RuleInv, RuleRowsAgree, HistoryMatches, Numbers
  <2>2. {e.number : e \in {f \in ruleEvents' : f.action = "version_created"}}
          = {e.number : e \in {f \in ruleEvents : f.action = "version_created"}} \cup {m + 1}
    BY <1>2, <1>3, <1>5
  <2>3. 1 .. (m + 1) = (1 .. m) \cup {m + 1}
    OBVIOUS
  <2> QED
    BY <2>1, <2>2, <2>3 DEF Numbers
<1>8. ASSUME NEW w \in versions'
      PROVE  (w.status # "draft") <=> Entry(w.by, w.number, "activated") \in ruleEvents'
  <2>1. CASE w = new
    <3>1. Entry(r, m + 1, "activated") \notin ruleEvents
      BY <1>4, <1>6
    <3>2. Entry(r, m + 1, "activated") # updated
      BY <1>3, <1>4
    <3> QED
      BY <1>1, <1>2, <1>5, <2>1, <3>1, <3>2
  <2>2. ASSUME NEW v \in versions, w = Kept(r, v)
        PROVE  (w.status # "draft") <=> Entry(w.by, w.number, "activated") \in ruleEvents'
    <3>1. /\ w.number = v.number /\ w.by = v.by
          /\ w = v \/ (v.active /\ w.status = "archived")
      BY <2>2, KeptRow
    <3>2. (v.status # "draft") <=> Entry(v.by, v.number, "activated") \in ruleEvents
      BY DEF RuleInv, RuleRowsAgree, HistoryMatches
    <3>3. v.active => v.status = "published"
      BY DEF RuleInv, RuleRowsAgree, ActiveIsLatest
    <3>4. Entry(v.by, v.number, "activated") \in ruleEvents'
            <=> Entry(v.by, v.number, "activated") \in ruleEvents
      BY <1>2, <1>3, <1>4, <1>5
    <3> QED
      BY <3>1, <3>2, <3>3, <3>4
  <2> QED
    BY <1>5, <2>1, <2>2
<1> QED
  BY <1>2, <1>3, <1>5, <1>6, <1>7, <1>8 DEF HistoryMatches

LEMMA UpdateRuleStep ==
  ASSUME RuleInv, NEW r \in Requests, UpdateRule(r)
  PROVE  RuleInv'
<1>1. /\ r \in Open /\ RuleRead(r) /\ session[r].at = "loaded"
      /\ rule' \in RuleRows /\ rule' # None
      /\ ruleLinks' \subseteq LinkValues
      /\ Wanted(r).publish \in BOOLEAN
      /\ Finish(r, "done")
  BY UpdateRuleFacts
<1>2. CASE UNCHANGED versions /\ ruleEvents' = ruleEvents \cup {Entry(r, 0, "updated")}
  <2> DEFINE e == Entry(r, 0, "updated")
  <2>1. e \in RuleEventRows /\ e.by = r /\ e.action = "updated"
    BY EnteredRows DEF HistoryActions
  <2>2. \A v \in versions : Entry(v.by, v.number, "activated") # e
    BY <2>1 DEF Entry
  <2> HIDE DEF e
  <2>3. ruleEvents' = ruleEvents \cup {e}
    BY <1>2 DEF e
  <2>4. RuleRowsAgree'
    BY <1>1, <1>2, <2>1, <2>2, <2>3 DEF RuleInv, RuleRowsAgree, RuleTypeOK, ActiveIsLatest,
       HistoryMatches
  <2>5. /\ SessionsOK' /\ OthersKeep(r) /\ session'[r].at = "done"
        /\ \A q \in Requests : RuleRead(q)'
    BY <1>1, <1>2, RuleEnds
  <2>6. Authored'
    BY <1>2, <2>1, <2>3, <2>5, AuthoredKept
  <2> QED
    BY <2>4, <2>5, <2>6 DEF RuleInv
<1>3. CASE \E m \in Nat :
             /\ Numbers(RuleSeen(r).versions) = 1 .. m
             /\ versions' = {Kept(r, v) : v \in versions} \cup {NewVersion(r, m + 1)}
             /\ StorableVersion(versions')
             /\ ruleEvents' = ruleEvents \cup Entered(r, m + 1) \cup {Entry(r, 0, "updated")}
  <2>1. PICK m \in Nat :
          /\ Numbers(RuleSeen(r).versions) = 1 .. m
          /\ versions' = {Kept(r, v) : v \in versions} \cup {NewVersion(r, m + 1)}
          /\ StorableVersion(versions')
          /\ ruleEvents' = ruleEvents \cup Entered(r, m + 1) \cup {Entry(r, 0, "updated")}
    BY <1>3
  <2>2. /\ Numbers(versions) = 1 .. m /\ Numbers(versions') = 1 .. (m + 1)
        /\ versions' \subseteq VersionRows
        /\ Dense(versions') /\ Distinct(versions') /\ ActiveIsLatest'
        /\ \A v \in versions : v.by # r
    BY <1>1, <2>1, VersionStored DEF RuleRead
  <2>3. \A v \in versions : v \in VersionRows /\ v.by # r
    BY <2>2 DEF RuleInv, RuleRowsAgree, RuleTypeOK
  <2>4. HistoryMatches' /\ \A e \in ruleEvents' : e \in RuleEventRows /\ (e.by = r \/ e \in ruleEvents)
    BY <1>1, <2>1, <2>2, <2>3, VersionLogged
  <2>5. RuleRowsAgree'
    BY <1>1, <2>2, <2>4 DEF RuleRowsAgree, RuleTypeOK
  <2>6. Numbers(versions) \subseteq Numbers(versions')
    BY <2>2
  <2>7. /\ SessionsOK' /\ OthersKeep(r) /\ session'[r].at = "done"
        /\ \A q \in Requests : RuleRead(q)'
    BY <1>1, <2>6, RuleEnds
  <2>8. \A w \in versions' : w.by = r \/ \E v \in versions : v.by = w.by
    BY <2>1, <2>3, KeptRow, NewVersionRow, <1>1
  <2>9. Authored'
    BY <2>4, <2>7, <2>8, AuthoredKept
  <2> QED
    BY <2>5, <2>7, <2>9 DEF RuleInv
<1> QED
  BY <1>2, <1>3, UpdateRuleFacts

LEMMA RuleInductive == RuleInv /\ [RuleNext]_ruleVars => RuleInv'
<1> SUFFICES ASSUME RuleInv, [RuleNext]_ruleVars PROVE RuleInv'
  OBVIOUS
<1>1. CASE UNCHANGED ruleVars
  <2>1. UNCHANGED <<rule, versions, ruleLinks, ruleEvents>> /\ UNCHANGED sessionVars
    BY <1>1 DEF ruleVars, ruleTables
  <2>2. SessionsOK' /\ UNCHANGED <<session, overlapped>>
    BY <2>1, SessionsStutter DEF RuleInv
  <2>3. \A r \in Requests : RuleRead(r)'
    BY <2>1, <2>2 DEF RuleInv, RuleRead, RuleSeen, Open
  <2>4. RuleRowsAgree' /\ Authored'
    BY <2>1, <2>2 DEF RuleInv, RuleRowsAgree, RuleTypeOK, ActiveIsLatest, HistoryMatches,
       Authored
  <2> QED
    BY <2>2, <2>3, <2>4 DEF RuleInv
<1> QED
  BY <1>1, ReceiveRuleStep, LoadVersionsStep, CreateRuleStep, UpdateRuleStep, DeleteRuleStep,
     RuleAnswers DEF RuleNext

\* A rule, its versions, its links and its history keep the types of their tables.
THEOREM RuleTypeCorrect == RuleSpec => []RuleTypeOK
<1>1. RuleInv => RuleTypeOK
  BY DEF RuleInv, RuleRowsAgree
<1> QED
  BY <1>1, RuleInitial, RuleInductive, PTL DEF RuleSpec

\* The versions of a rule are numbered without a gap, one of them at most is active,
\* it is published and the newest that ever was, and the history names who created
\* and who published each - whatever updates overlap, for any number of them.
THEOREM VersionsAlwaysAgree == RuleSpec => []VersionsAgree
<1>1. RuleInv => VersionsAgree
  <2> SUFFICES ASSUME RuleInv PROVE NumbersAreDense
    BY DEF RuleInv, RuleRowsAgree, VersionsAgree
  <2>1. PICK n \in Nat : Numbers(versions) = 1 .. n
    BY DEF RuleInv, RuleRowsAgree, Dense
  <2>2. Cardinality(versions) = n
    BY <2>1, DenseCount DEF RuleInv, RuleRowsAgree
  <2> QED
    BY <2>1, <2>2 DEF NumbersAreDense, Numbers
<1> QED
  BY <1>1, RuleInitial, RuleInductive, PTL DEF RuleSpec

\* Steps of a rule: what was published stays, an accepted update leaves the links it
\* names, the engine answers what is in force, and a deleted rule does not change.
VersionsStay ==
  \A v \in versions : \E w \in versions' :
    /\ w.number = v.number /\ w.by = v.by
    /\ v.status # "draft" => w.status \in {v.status, "archived"}
LinksAreThoseAsked ==
  \A r \in Requests :
    ~overlapped' /\ Requesting(r, "rule") /\ session'[r].at = "done" /\ Wanted(r).links # None
      => ruleLinks' = ToSet(Wanted(r).links)
AnswersAreCurrent ==
  \A a \in answers' \ answers :
    ~overlapped' => /\ rule.enabled /\ ~rule.deleted /\ a.links = ruleLinks
                    /\ \E v \in versions : v.active /\ v.number = a.number
DeletedStays ==
  ~overlapped' /\ rule # None /\ rule.deleted => UNCHANGED <<rule, versions, ruleLinks>>

\* A step leaves the rows alone, or it is one of the three that write them.
LEMMA RuleStepCases ==
  ASSUME RuleInv, RuleNext
  PROVE  \/ \E r \in Requests : CreateRule(r) \/ UpdateRule(r) \/ DeleteRule(r)
         \/ UNCHANGED <<rule, versions, ruleLinks>>
  BY DEF RuleNext, ReceiveRule, LoadVersions, RejectRule, FindApplicable, RuleConnectionLost,
     ruleTables

LEMMA VersionsStayStep == ASSUME RuleInv, RuleNext PROVE VersionsStay
<1>1. CASE UNCHANGED versions
  BY <1>1 DEF VersionsStay
<1>2. ASSUME NEW r \in Requests, CreateRule(r) PROVE VersionsStay
  BY <1>2 DEF CreateRule, RuleInv, RuleRowsAgree, VersionsStay
<1>3. ASSUME NEW r \in Requests, UpdateRule(r) PROVE VersionsStay
  <2>1. CASE UNCHANGED versions
    BY <1>1, <2>1
  <2>2. CASE \E m \in Nat : versions' = {Kept(r, v) : v \in versions} \cup {NewVersion(r, m + 1)}
    <3>1. \A v \in versions : Kept(r, v) \in versions'
      BY <2>2
    <3>2. \A v \in versions : v \in VersionRows
      BY DEF RuleInv, RuleRowsAgree, RuleTypeOK
    <3>3. \A v \in versions :
            /\ Kept(r, v).number = v.number /\ Kept(r, v).by = v.by
            /\ Kept(r, v) = v \/ Kept(r, v).status = "archived"
      BY <3>2, KeptRow
    <3> QED
      BY <3>1, <3>3 DEF VersionsStay
  <2> QED
    BY <1>3, <2>1, <2>2, UpdateRuleFacts
<1>4. ASSUME NEW r \in Requests, DeleteRule(r) PROVE UNCHANGED versions
  BY <1>4 DEF DeleteRule
<1> QED
  BY <1>1, <1>2, <1>3, <1>4, RuleStepCases

\* Who goes from "loaded" to "done" with an update has made this update.
LEMMA UpdatesAreMade ==
  ASSUME RuleInv, RuleNext, NEW r \in Requests, Requesting(r, "rule"), session'[r].at = "done"
  PROVE  UpdateRule(r)
<1>1. session[r].at = "loaded" /\ session[r].op.kind = "rule"
  BY DEF Requesting
<1>2. PICK q \in Requests :
        \/ \E op \in RuleBodies : ReceiveRule(q, op)
        \/ LoadVersions(q)
        \/ CreateRule(q) \/ UpdateRule(q) \/ DeleteRule(q)
        \/ RejectRule(q) \/ FindApplicable(q) \/ RuleConnectionLost(q)
  BY DEF RuleNext
<1>3. q = r
  <2>1. \/ \E op, seen : Begin(q, op, seen)
        \/ \E seen : Load(q, seen)
        \/ \E at \in {"done", "failed"} : Finish(q, at)
    BY <1>2 DEF ReceiveRule, LoadVersions, CreateRule, UpdateRule, DeleteRule, RejectRule,
       FindApplicable, RuleConnectionLost, Lost
  <2>2. OthersKeep(q)
    BY <2>1, BeginStep, LoadStep, FinishStep DEF RuleInv
  <2> QED
    BY <1>1, <2>2 DEF OthersKeep
<1>4. ASSUME NEW op, ReceiveRule(r, op) PROVE FALSE
  BY <1>1, <1>4 DEF ReceiveRule, Begin
<1>5. ~LoadVersions(r)
  BY <1>1 DEF LoadVersions
<1>6. ~CreateRule(r) /\ ~DeleteRule(r) /\ ~FindApplicable(r)
  BY <1>1 DEF CreateRule, DeleteRule, FindApplicable, Requesting
<1>7. ~RejectRule(r) /\ ~RuleConnectionLost(r)
  <2>1. ~Finish(r, "failed")
    BY FinishStep DEF RuleInv
  <2> QED
    BY <2>1 DEF RejectRule, RuleConnectionLost, Lost
<1> QED
  BY <1>2, <1>3, <1>4, <1>5, <1>6, <1>7

LEMMA LinksAsAskedStep == ASSUME RuleInv, RuleNext PROVE LinksAreThoseAsked
<1> SUFFICES ASSUME NEW r \in Requests, ~overlapped', Requesting(r, "rule"),
                    session'[r].at = "done", Wanted(r).links # None
             PROVE  ruleLinks' = ToSet(Wanted(r).links)
  BY DEF LinksAreThoseAsked
<1>1. UpdateRule(r)
  BY UpdatesAreMade
<1>2. r \in Open /\ RuleRead(r) /\ ruleLinks' = Relinked(r) /\ Finish(r, "done")
  BY <1>1, UpdateRuleFacts
<1>3. ~overlapped
  BY <1>2 DEF Finish
<1>4. RuleSeen(r).links = ruleLinks
  BY <1>2, <1>3 DEF RuleRead
<1> QED
  BY <1>2, <1>4 DEF Relinked

LEMMA AnswersStep == ASSUME RuleInv, RuleNext PROVE AnswersAreCurrent
<1>1. CASE UNCHANGED answers
  BY <1>1 DEF AnswersAreCurrent
<1>2. ASSUME NEW r \in Requests, FindApplicable(r) PROVE AnswersAreCurrent
  <2> SUFFICES ASSUME NEW a \in answers' \ answers, ~overlapped'
               PROVE  /\ rule.enabled /\ ~rule.deleted /\ a.links = ruleLinks
                      /\ \E v \in versions : v.active /\ v.number = a.number
    BY DEF AnswersAreCurrent
  <2>1. session[r].at = "loaded" /\ ~overlapped
    BY <1>2 DEF FindApplicable, Requesting, Finish
  <2>2. RuleSeen(r).rule = rule /\ RuleSeen(r).links = ruleLinks
        /\ RuleSeen(r).versions = versions
    BY <2>1 DEF RuleInv, RuleRead, Open
  <2>3. PICK v \in IF Visible(rule) /\ rule.enabled THEN ActiveVersions(versions) ELSE {} :
          a = [by |-> r, number |-> v.number, links |-> ruleLinks]
    BY <1>2, <2>2 DEF FindApplicable
  <2>4. Visible(rule) /\ rule.enabled /\ v \in ActiveVersions(versions)
    BY <2>3
  <2> QED
    BY <2>3, <2>4 DEF Visible, ActiveVersions
<1> QED
  BY <1>1, <1>2 DEF RuleNext, ReceiveRule, LoadVersions, CreateRule, UpdateRule, DeleteRule,
     RejectRule, RuleConnectionLost

LEMMA DeletedStaysStep == ASSUME RuleInv, RuleNext PROVE DeletedStays
<1> SUFFICES ASSUME ~overlapped', rule # None, rule.deleted,
                    NEW r \in Requests, CreateRule(r) \/ UpdateRule(r) \/ DeleteRule(r)
             PROVE  FALSE
  BY RuleStepCases DEF DeletedStays
<1>1. UpdateRule(r) \/ DeleteRule(r)
  BY DEF CreateRule
<1>2. session[r].at = "loaded" /\ ~overlapped /\ Visible(RuleSeen(r).rule)
  <2>1. session[r].at = "loaded" /\ Visible(RuleSeen(r).rule) /\ Finish(r, "done")
    BY <1>1, UpdateRuleFacts DEF DeleteRule, Requesting
  <2> QED
    BY <2>1 DEF Finish
<1>3. RuleSeen(r).rule = rule
  BY <1>2 DEF RuleInv, RuleRead, Open
<1> QED
  BY <1>2, <1>3 DEF Visible

\* A published version stays and once archived does not come back, whatever
\* overlaps; and without overlaps an accepted update leaves exactly the links it
\* names, the engine answers with the active version of a rule in force, and nothing
\* is added to a rule that was deleted.
THEOREM RuleStepsAlwaysHold == RuleSpec => RuleStepsHold
<1>1. RuleInv /\ [RuleNext]_ruleVars
        => (VersionsStay /\ LinksAreThoseAsked /\ AnswersAreCurrent /\ DeletedStays)
           \/ UNCHANGED ruleVars
  BY VersionsStayStep, LinksAsAskedStep, AnswersStep, DeletedStaysStep
<1>2. RuleSpec => [][VersionsStay /\ LinksAreThoseAsked /\ AnswersAreCurrent
                      /\ DeletedStays]_ruleVars
  BY <1>1, RuleInitial, RuleInductive, PTL DEF RuleSpec
<1>3. RuleSpec => PublishedIsKept /\ LinksAsAsked /\ EngineIsCurrent /\ DeletedIsClosed
  BY <1>2, PTL DEF PublishedIsKept, LinksAsAsked, EngineIsCurrent, DeletedIsClosed,
     VersionsStay, LinksAreThoseAsked, AnswersAreCurrent, DeletedStays
<1> QED
  BY <1>3 DEF RuleStepsHold

-----------------------------------------------------------------------------
(* Resources (app/resources).                                               *)

LEMMA ResourceOperationArgument ==
  ASSUME NEW op \in ResourceOperations
  PROVE  /\ op.kind = "vehicle" => op.arg.row \in {Vehicle} \cup People /\ op.arg.to \in Codes
         /\ op.kind = "person" => op.arg.row \in People /\ op.arg.to \in Codes
         /\ op.kind = "bulk" => /\ op.arg.rows \in {{Vehicle}, Resources, {Vehicle, Ghost}}
                                /\ op.arg.to \in Codes
         /\ op.kind = "members" => op.arg.add \subseteq People /\ op.arg.remove \subseteq People
         /\ op.kind = "assign" => op.arg \in Incidents
  BY DEF ResourceOperations, ResourceOperation

\* What a request has read of the unit is well formed, and as long as nothing has
\* overlapped it is what there is.
UnitRead(r) ==
  r \in Open =>
    /\ session[r].op \in ResourceOperations
    /\ Copy(r).unit \in Codes
    /\ session[r].at = "loaded" => /\ Copy(r).status \in [Resources -> Codes]
                                   /\ Copy(r).member \in [People -> {"none", "on", "left"}]
    /\ ~overlapped => /\ Copy(r).unit = unitStatus
                      /\ session[r].at = "loaded" =>
                           Copy(r).status = status /\ Copy(r).member = member

ResourceRowsAgree ==
  /\ ResourceTypeOK /\ trail \in [Resources -> Seq(TrailRows)]
  /\ ResourcesAgree

ResourceInv ==
  /\ SessionsOK /\ ResourceRowsAgree
  /\ \A r \in Requests : UnitRead(r)

LEMMA ResourceInitial == ResourceInit => ResourceInv
<1> SUFFICES ASSUME ResourceInit PROVE ResourceInv
  OBVIOUS
<1>1. SessionsOK /\ \A r \in Requests : session[r].at = "idle" /\ UnitRead(r)
  BY SessionsInitial DEF ResourceInit, UnitRead, Open
<1>2. /\ unitStatus = "free" /\ status = [x \in Resources |-> "free"]
      /\ trail = [x \in Resources |-> <<>>]
      /\ events = {} /\ manned = FALSE /\ assignments = {}
      /\ member \in [People -> {"none", "on", "left"}]
  BY DEF ResourceInit
<1>3. \A x \in Resources : trail[x] = <<>>
  BY <1>2
<1>4. trail \in [Resources -> Seq(TrailRows)]
  <2> DEFINE histories == Seq(TrailRows)
  <2>1. <<>> \in histories
    OBVIOUS
  <2> HIDE DEF histories
  <2>2. [x \in Resources |-> <<>>] \in [Resources -> histories]
    BY <2>1
  <2>3. trail \in [Resources -> histories]
    BY <1>2, <2>2
  <2> QED
    BY <2>3 DEF histories
<1>5. ResourceTypeOK
  <2>1. \A x \in Resources : \A i \in DOMAIN trail[x] : trail[x][i] \in TrailRows
    <3>1. DOMAIN <<>> = {}
      OBVIOUS
    <3> QED
      BY <1>3, <3>1
  <2>2. "free" \in Codes /\ "free" \in UnitCodes
    BY DEF Codes, UnitCodes
  <2> QED
    BY <1>2, <2>1, <2>2 DEF ResourceTypeOK
<1>6. Vehicle \in Resources
  BY DEF Resources
<1>7. ResourcesAgree
  BY <1>2, <1>3, <1>6 DEF ResourcesAgree, ReleasedIsStamped, VehicleFollowsUnit,
     TrailEndsAtStatus
<1> QED
  BY <1>1, <1>4, <1>5, <1>7 DEF ResourceInv, ResourceRowsAgree

LEMMA UnitOthers ==
  ASSUME ResourceInv, NEW r \in Requests, OthersKeep(r), overlapped' \in BOOLEAN,
         ~overlapped' => ~overlapped /\ \A q \in Requests \ {r} : q \notin Open
  PROVE  \A q \in Requests \ {r} : UnitRead(q)'
<1> SUFFICES ASSUME NEW q \in Requests \ {r}, q \in Open' PROVE UnitRead(q)'
  BY DEF UnitRead
<1>1. session'[q] = session[q] /\ q \in Open /\ UnitRead(q)
  BY DEF ResourceInv, OthersKeep, Open
<1>2. overlapped'
  BY <1>1
<1> QED
  BY <1>1, <1>2 DEF UnitRead, Copy

\* The rows stay what they are, and who has changed the vehicle has changed it.
LEMMA ResourceRowsKept ==
  ASSUME ResourceInv, NEW r \in Requests, OthersKeep(r), session[r].at # "done",
         overlapped => overlapped', overlapped \in BOOLEAN, overlapped' \in BOOLEAN,
         UNCHANGED resourceTables
  PROVE  ResourceRowsAgree'
<1>1. UNCHANGED <<unitStatus, status, trail, events, member, manned, assignments>>
  BY DEF resourceTables
<1>2. \A q \in Done : q \in Done' /\ session'[q] = session[q]
  BY DEF Done, OthersKeep
<1>3. DirectlyChanged => DirectlyChanged'
  BY <1>2 DEF DirectlyChanged
<1>4. ReleasedIsStamped' /\ VehicleFollowsUnit' /\ TrailEndsAtStatus'
  BY <1>1, <1>3 DEF ResourceInv, ResourceRowsAgree, ResourcesAgree, ReleasedIsStamped,
     VehicleFollowsUnit, TrailEndsAtStatus
<1> QED
  BY <1>1, <1>4 DEF ResourceInv, ResourceRowsAgree, ResourceTypeOK, ResourcesAgree

LEMMA ReceiveResourceStep ==
  ASSUME ResourceInv, NEW r \in Requests, NEW op \in ResourceOperations,
         ReceiveResource(r, op)
  PROVE  ResourceInv'
<1> DEFINE seen == [unit |-> unitStatus]
<1>1. /\ SessionsOK' /\ OthersKeep(r) /\ session[r].at = "idle"
      /\ session'[r].at = "row" /\ session'[r].op = op /\ session'[r].seen = seen
      /\ ~overlapped' => ~overlapped /\ \A q \in Requests : q \notin Open
  BY BeginStep DEF ReceiveResource, ResourceInv
<1>2. UNCHANGED resourceTables
  BY DEF ReceiveResource
<1>3. seen.unit = unitStatus /\ unitStatus' = unitStatus /\ unitStatus \in Codes
  BY <1>2 DEF resourceTables, ResourceInv, ResourceRowsAgree, ResourceTypeOK, UnitCodes
<1> HIDE DEF seen
<1>4. UnitRead(r)'
  BY <1>1, <1>3 DEF UnitRead, Copy
<1>5. \A q \in Requests \ {r} : UnitRead(q)'
  BY <1>1, UnitOthers DEF SessionsOK
<1>6. ResourceRowsAgree'
  BY <1>1, <1>2, ResourceRowsKept DEF ResourceInv, SessionsOK
<1> QED
  BY <1>1, <1>4, <1>5, <1>6 DEF ResourceInv

LEMMA LoadUnitStep ==
  ASSUME ResourceInv, NEW r \in Requests, LoadUnit(r)
  PROVE  ResourceInv'
<1> DEFINE seen == [unit |-> session[r].seen.unit, status |-> status, member |-> member,
                    assignments |-> assignments]
<1>1. /\ SessionsOK' /\ OthersKeep(r) /\ session[r].at = "row"
      /\ session'[r].at = "loaded" /\ session'[r].op = session[r].op
      /\ session'[r].seen = seen /\ overlapped' = overlapped
  BY LoadStep DEF LoadUnit, ResourceInv
<1>2. UNCHANGED resourceTables
  BY DEF LoadUnit
<1>3. /\ seen.unit = Copy(r).unit /\ seen.status = status /\ seen.member = member
      /\ Copy(r)' = session'[r].seen
  BY DEF Copy
<1>4. UNCHANGED <<unitStatus, status, member>>
  BY <1>2 DEF resourceTables
<1>5. status \in [Resources -> Codes] /\ member \in [People -> {"none", "on", "left"}]
  BY DEF ResourceInv, ResourceRowsAgree, ResourceTypeOK
<1> HIDE DEF seen
<1>6. r \in Open /\ UnitRead(r)
  BY <1>1 DEF Open, ResourceInv
<1>7. UnitRead(r)'
  BY <1>1, <1>3, <1>4, <1>5, <1>6 DEF UnitRead
<1>8. \A q \in Requests \ {r} : UnitRead(q)'
  BY <1>1, <1>6, UnitOthers, OpenAlone DEF ResourceInv, SessionsOK
<1>9. ResourceRowsAgree'
  BY <1>1, <1>2, ResourceRowsKept DEF ResourceInv, SessionsOK
<1> QED
  BY <1>1, <1>7, <1>8, <1>9 DEF ResourceInv

LEMMA UnitEnds ==
  ASSUME ResourceInv, NEW r \in Requests, r \in Open, NEW at \in {"done", "failed"},
         Finish(r, at)
  PROVE  /\ SessionsOK' /\ OthersKeep(r) /\ session'[r].at = at
         /\ overlapped' = overlapped /\ overlapped \in BOOLEAN
         /\ session[r].at # "done"
         /\ at = "done" => session'[r].op = session[r].op
         /\ \A q \in Requests : UnitRead(q)'
         /\ DirectlyChanged => DirectlyChanged'
<1>1. /\ SessionsOK' /\ OthersKeep(r) /\ session'[r].at = at
      /\ overlapped' = overlapped
      /\ at = "done" => session'[r].op = session[r].op
  BY FinishStep DEF ResourceInv
<1>2. \A q \in Requests \ {r} : UnitRead(q)'
  BY <1>1, UnitOthers, OpenAlone DEF ResourceInv, SessionsOK
<1>3. UnitRead(r)' /\ session[r].at # "done"
  BY <1>1 DEF UnitRead, Open
<1>4. \A q \in Done : q \in Done' /\ session'[q] = session[q]
  BY <1>1, <1>3 DEF Done, OthersKeep
<1>5. DirectlyChanged => DirectlyChanged'
  BY <1>4 DEF DirectlyChanged
<1> QED
  BY <1>1, <1>2, <1>3, <1>5 DEF ResourceInv, SessionsOK

\* Statuses are set with an entry each: rows outside are left alone, and the status
\* of the others is the last of their history.
StatusSet(rows, to) ==
  /\ status' \in [Resources -> Codes] /\ trail' \in [Resources -> Seq(TrailRows)]
  /\ \A x \in Resources \ rows : status'[x] = status[x] /\ trail'[x] = trail[x]
  /\ \A x \in Resources : status'[x] # status[x] => x \in rows /\ status'[x] = to
  /\ \A x \in rows : trail'[x] # <<>> /\ Last(trail'[x]).to = to
                     /\ Len(trail'[x]) = Len(trail[x]) + 1

LEMMA TracedRows ==
  ASSUME ResourceInv, NEW r \in Requests, NEW rows \in SUBSET Resources, NEW to \in Codes,
         NEW from, \A x \in rows : from[x] \in Codes \cup {None},
         trail' = Traced(r, rows, to, from)
  PROVE  /\ trail' \in [Resources -> Seq(TrailRows)]
         /\ \A x \in Resources \ rows : trail'[x] = trail[x]
         /\ \A x \in rows : /\ trail'[x] # <<>> /\ Last(trail'[x]).to = to
                            /\ Len(trail'[x]) = Len(trail[x]) + 1
<1> DEFINE e(x) == [by |-> r, from |-> from[x], to |-> to]
<1>1. \A x \in rows : e(x) \in TrailRows /\ e(x).to = to
  BY DEF TrailRows
<1>2. \A x \in Resources : trail[x] \in Seq(TrailRows)
  BY DEF ResourceInv, ResourceRowsAgree
<1>3. trail' = [x \in Resources |-> IF x \in rows THEN Append(trail[x], e(x)) ELSE trail[x]]
  BY DEF Traced
<1> HIDE DEF e
<1>4. \A x \in rows : /\ Append(trail[x], e(x)) \in Seq(TrailRows)
                      /\ Len(Append(trail[x], e(x))) = Len(trail[x]) + 1
                      /\ Append(trail[x], e(x))[Len(trail[x]) + 1] = e(x)
  BY <1>1, <1>2, AppendProperties
<1>5. /\ \A x \in rows : trail'[x] = Append(trail[x], e(x))
      /\ \A x \in Resources \ rows : trail'[x] = trail[x]
  BY <1>3
<1>6. trail' \in [Resources -> Seq(TrailRows)]
  BY <1>2, <1>3, <1>4
<1>7. ASSUME NEW x \in rows
      PROVE  /\ trail'[x] # <<>> /\ Last(trail'[x]).to = to
             /\ Len(trail'[x]) = Len(trail[x]) + 1
  <2>1. Len(trail[x]) \in Nat
    BY <1>2
  <2>2. trail'[x] # <<>>
    BY <1>4, <1>5, <2>1
  <2> QED
    BY <1>1, <1>4, <1>5, <2>1, <2>2 DEF Last
<1> QED
  BY <1>5, <1>6, <1>7

\* The statuses and their history after they were set.
LEMMA StatusSetAgrees ==
  ASSUME ResourceInv, NEW r \in Requests, overlapped' = overlapped, overlapped \in BOOLEAN,
         NEW rows \in SUBSET Resources, NEW to, StatusSet(rows, to),
         ~overlapped => \A x \in rows : status'[x] = to
  PROVE  TrailEndsAtStatus'
<1>1. ASSUME ~overlapped, NEW x \in Resources, trail'[x] # <<>>
      PROVE  Last(trail'[x]).to = status'[x]
  <2>1. CASE x \in rows
    BY <1>1, <2>1 DEF StatusSet
  <2>2. CASE x \notin rows
    BY <1>1, <2>2 DEF StatusSet, ResourceInv, ResourceRowsAgree, ResourcesAgree,
       TrailEndsAtStatus
  <2> QED
    BY <2>1, <2>2
<1> QED
  BY <1>1 DEF TrailEndsAtStatus

LEMMA AppliedStatus ==
  ASSUME ResourceInv, NEW r \in Requests, session[r].at = "loaded", NEW x \in Resources,
         NEW to \in Codes, ApplyResourceStatus(r, x, to)
  PROVE  StatusSet({x}, to) /\ (~overlapped => status'[x] = to)
<1>1. /\ Copy(r).status \in [Resources -> Codes]
      /\ ~overlapped => Copy(r).status = status
      /\ status \in [Resources -> Codes]
  BY DEF ResourceInv, UnitRead, Open, ResourceRowsAgree, ResourceTypeOK
<1>2. status' = IF Copy(r).status[x] = to THEN status ELSE [status EXCEPT ![x] = to]
  BY DEF ApplyResourceStatus
<1>3. /\ trail' \in [Resources -> Seq(TrailRows)]
      /\ \A y \in Resources \ {x} : trail'[y] = trail[y]
      /\ trail'[x] # <<>> /\ Last(trail'[x]).to = to /\ Len(trail'[x]) = Len(trail[x]) + 1
  <2> DEFINE from == Copy(r).status
  <2>1. {x} \in SUBSET Resources /\ trail' = Traced(r, {x}, to, from)
    BY DEF ApplyResourceStatus
  <2>2. \A y \in {x} : from[y] \in Codes \cup {None}
    BY <1>1
  <2> HIDE DEF from
  <2>3. /\ trail' \in [Resources -> Seq(TrailRows)]
        /\ \A y \in Resources \ {x} : trail'[y] = trail[y]
        /\ \A y \in {x} : /\ trail'[y] # <<>> /\ Last(trail'[y]).to = to
                          /\ Len(trail'[y]) = Len(trail[y]) + 1
    BY <2>1, <2>2, TracedRows
  <2> QED
    BY <2>3
<1>4. /\ status' \in [Resources -> Codes]
      /\ \A y \in Resources \ {x} : status'[y] = status[y]
      /\ status'[x] # status[x] => status'[x] = to
      /\ ~overlapped => status'[x] = to
  BY <1>1, <1>2
<1>5. \A y \in Resources : status'[y] # status[y] => y \in {x} /\ status'[y] = to
  BY <1>4
<1>6. \A y \in {x} : trail'[y] # <<>> /\ Last(trail'[y]).to = to
                      /\ Len(trail'[y]) = Len(trail[y]) + 1
  BY <1>3
<1>7. \A y \in Resources \ {x} : status'[y] = status[y] /\ trail'[y] = trail[y]
  BY <1>3, <1>4
<1> QED
  BY <1>3, <1>4, <1>5, <1>6, <1>7 DEF StatusSet

LEMMA EventAdded ==
  ASSUME ResourceInv, NEW r \in Requests, NEW type \in EventTypes, Event(r, type)
  PROVE  events' \subseteq EventRows
<1>1. [by |-> r, type |-> type] \in EventRows
  BY DEF EventRows
<1> QED
  BY <1>1 DEF Event, ResourceInv, ResourceRowsAgree, ResourceTypeOK

\* A request that ends with new rows keeps the invariant when the rows do.
LEMMA ResourcesUpdated ==
  ASSUME ResourceInv, NEW r \in Requests, r \in Open, Finish(r, "done"),
         NEW type \in EventTypes, Event(r, type),
         unitStatus' \in UnitCodes, status' \in [Resources -> Codes],
         trail' \in [Resources -> Seq(TrailRows)],
         member' \in [People -> {"none", "on", "left"}], manned' \in BOOLEAN,
         assignments' \subseteq AssignmentRows,
         ReleasedIsStamped', VehicleFollowsUnit', TrailEndsAtStatus'
  PROVE  ResourceInv'
<1>1. events' \subseteq EventRows
  BY EventAdded
<1>2. \A x \in Resources : \A i \in DOMAIN trail'[x] : trail'[x][i] \in TrailRows
  <2> SUFFICES ASSUME NEW x \in Resources, NEW i \in DOMAIN trail'[x]
               PROVE  trail'[x][i] \in TrailRows
    OBVIOUS
  <2>1. trail'[x] \in Seq(TrailRows)
    OBVIOUS
  <2> QED
    BY <2>1
<1>3. ResourceTypeOK'
  BY <1>1, <1>2 DEF ResourceTypeOK
<1> QED
  BY <1>3, UnitEnds DEF ResourceInv, ResourceRowsAgree, ResourcesAgree

LEMMA UpdateUnitStatusStep ==
  ASSUME ResourceInv, NEW r \in Requests, UpdateUnitStatus(r)
  PROVE  ResourceInv' /\ StatusSet({Vehicle}, Body(r))
<1>1. /\ session[r].at = "loaded" /\ r \in Open /\ Body(r) \in Codes
      /\ unitStatus' = IF Copy(r).unit = Body(r) THEN unitStatus ELSE Body(r)
      /\ ApplyResourceStatus(r, Vehicle, Body(r))
      /\ Event(r, "unit_status_changed") /\ Finish(r, "done")
      /\ UNCHANGED <<member, manned, assignments>>
  BY DEF UpdateUnitStatus, Asked, Known, Propagate, Open
<1>2. StatusSet({Vehicle}, Body(r)) /\ (~overlapped => status'[Vehicle] = Body(r))
  BY <1>1, AppliedStatus DEF Resources
<1>3. /\ overlapped' = overlapped /\ overlapped \in BOOLEAN
  BY <1>1, UnitEnds
<1>4. /\ unitStatus \in Codes /\ (~overlapped => unitStatus' = Body(r))
  BY <1>1 DEF ResourceInv, UnitRead, ResourceRowsAgree, ResourceTypeOK, UnitCodes
<1>5. TrailEndsAtStatus'
  BY <1>1, <1>2, <1>3, StatusSetAgrees DEF Resources
<1>6. VehicleFollowsUnit'
  BY <1>2, <1>3, <1>4 DEF VehicleFollowsUnit
<1>7. ReleasedIsStamped'
  BY <1>1 DEF ReleasedIsStamped, ResourceInv, ResourceRowsAgree, ResourcesAgree
<1>8. /\ member' \in [People -> {"none", "on", "left"}] /\ manned' \in BOOLEAN
      /\ assignments' \subseteq AssignmentRows /\ unitStatus' \in UnitCodes
  BY <1>1, <1>4 DEF ResourceInv, ResourceRowsAgree, ResourceTypeOK, UnitCodes
<1>9. "unit_status_changed" \in EventTypes
  BY DEF EventTypes
<1> QED
  BY <1>1, <1>2, <1>5, <1>6, <1>7, <1>8, <1>9, ResourcesUpdated DEF StatusSet

LEMMA UpdateResourceStatusStep ==
  ASSUME ResourceInv, NEW r \in Requests, UpdateResourceStatus(r)
  PROVE  ResourceInv' /\ \E x \in Resources : StatusSet({x}, Body(r).to)
<1> DEFINE x == Body(r).row
<1>1. /\ session[r].at = "loaded" /\ r \in Open
      /\ \/ session[r].op.kind = "vehicle" /\ x = Vehicle /\ Event(r, "vehicle_status_changed")
         \/ session[r].op.kind = "person" /\ Event(r, "personnel_status_changed")
      /\ ApplyResourceStatus(r, x, Body(r).to)
      /\ Finish(r, "done")
      /\ UNCHANGED <<unitStatus, member, manned, assignments>>
  BY DEF UpdateResourceStatus, Asked, Open
<1>2. session[r].op \in ResourceOperations
  BY <1>1 DEF ResourceInv, UnitRead
<1>3. /\ Body(r).to \in Codes /\ x \in Resources
      /\ session[r].op.kind = "person" => x # Vehicle
  BY <1>1, <1>2, ResourceOperationArgument, ResourceAssumption DEF Body, Resources
<1>4. StatusSet({x}, Body(r).to) /\ (~overlapped => status'[x] = Body(r).to)
  BY <1>1, <1>3, AppliedStatus
<1>5. /\ overlapped' = overlapped /\ overlapped \in BOOLEAN
      /\ session'[r].at = "done" /\ session'[r].op = session[r].op
      /\ DirectlyChanged => DirectlyChanged'
  BY <1>1, UnitEnds
<1>6. TrailEndsAtStatus'
  BY <1>3, <1>4, <1>5, StatusSetAgrees
<1>7. VehicleFollowsUnit'
  <2>1. CASE session[r].op.kind = "vehicle"
    <3>1. DirectlyChanged'
      BY <1>1, <1>5, <2>1 DEF DirectlyChanged, Done, Body
    <3> QED
      BY <3>1 DEF VehicleFollowsUnit
  <2>2. CASE session[r].op.kind = "person"
    <3>1. status'[Vehicle] = status[Vehicle]
      BY <1>3, <1>4, <2>2 DEF StatusSet, Resources
    <3> QED
      BY <1>1, <1>5, <3>1 DEF VehicleFollowsUnit, ResourceInv, ResourceRowsAgree,
         ResourcesAgree
  <2> QED
    BY <1>1, <2>1, <2>2
<1>8. ReleasedIsStamped'
  BY <1>1 DEF ReleasedIsStamped, ResourceInv, ResourceRowsAgree, ResourcesAgree
<1>9. /\ member' \in [People -> {"none", "on", "left"}] /\ manned' \in BOOLEAN
      /\ assignments' \subseteq AssignmentRows /\ unitStatus' \in UnitCodes
  BY <1>1 DEF ResourceInv, ResourceRowsAgree, ResourceTypeOK
<1>10. \E type \in EventTypes : Event(r, type)
  BY <1>1 DEF EventTypes
<1> HIDE DEF x
<1> QED
  BY <1>1, <1>3, <1>4, <1>6, <1>7, <1>8, <1>9, <1>10, ResourcesUpdated DEF StatusSet

LEMMA BulkUpdateStatusStep ==
  ASSUME ResourceInv, NEW r \in Requests, BulkUpdateStatus(r)
  PROVE  ResourceInv' /\ \E rows \in SUBSET Resources : StatusSet(rows, Body(r).to)
<1> DEFINE rows == Body(r).rows
           to == Body(r).to
           from == [x \in Resources |-> None]
<1>1. /\ session[r].at = "loaded" /\ r \in Open /\ session[r].op.kind = "bulk"
      /\ Ghost \notin rows
      /\ status' = [x \in Resources |-> IF x \in rows THEN to ELSE status[x]]
      /\ trail' = Traced(r, rows, to, from)
      /\ Event(r, "vehicle_status_changed") /\ Finish(r, "done")
      /\ UNCHANGED <<unitStatus, member, manned, assignments>>
  BY DEF BulkUpdateStatus, Asked, Open
<1>2. session[r].op \in ResourceOperations
  BY <1>1 DEF ResourceInv, UnitRead
<1>3. /\ to \in Codes /\ rows \in SUBSET Resources /\ Vehicle \in rows
  BY <1>1, <1>2, ResourceOperationArgument DEF Body, Resources
<1>4. \A x \in rows : from[x] \in Codes \cup {None}
  BY <1>3
<1> HIDE DEF rows, to, from
<1>5. /\ trail' \in [Resources -> Seq(TrailRows)]
      /\ \A x \in Resources \ rows : trail'[x] = trail[x]
      /\ \A x \in rows : trail'[x] # <<>> /\ Last(trail'[x]).to = to
                         /\ Len(trail'[x]) = Len(trail[x]) + 1
  BY <1>1, <1>3, <1>4, TracedRows
<1>6. status \in [Resources -> Codes]
  BY DEF ResourceInv, ResourceRowsAgree, ResourceTypeOK
<1>7. StatusSet(rows, to) /\ \A x \in rows : status'[x] = to
  BY <1>1, <1>3, <1>5, <1>6 DEF StatusSet
<1>8. /\ overlapped' = overlapped /\ overlapped \in BOOLEAN
      /\ session'[r].at = "done" /\ session'[r].op = session[r].op
  BY <1>1, UnitEnds
<1>9. TrailEndsAtStatus'
  BY <1>3, <1>7, <1>8, StatusSetAgrees
<1>10. VehicleFollowsUnit'
  <2>1. DirectlyChanged'
    BY <1>1, <1>3, <1>8 DEF DirectlyChanged, Done, Body, rows
  <2> QED
    BY <2>1 DEF VehicleFollowsUnit
<1>11. ReleasedIsStamped'
  BY <1>1 DEF ReleasedIsStamped, ResourceInv, ResourceRowsAgree, ResourcesAgree
<1>12. /\ member' \in [People -> {"none", "on", "left"}] /\ manned' \in BOOLEAN
       /\ assignments' \subseteq AssignmentRows /\ unitStatus' \in UnitCodes
  BY <1>1 DEF ResourceInv, ResourceRowsAgree, ResourceTypeOK
<1>13. "vehicle_status_changed" \in EventTypes
  BY DEF EventTypes
<1>14. ResourceInv'
  BY <1>1, <1>7, <1>9, <1>10, <1>11, <1>12, <1>13, ResourcesUpdated DEF StatusSet
<1> QED
  BY <1>3, <1>7, <1>14 DEF to

\* Statuses and their history stay.
LEMMA StatusesKept ==
  ASSUME ResourceInv, NEW r \in Requests, r \in Open, Finish(r, "done"),
         UNCHANGED <<unitStatus, status, trail>>
  PROVE  /\ VehicleFollowsUnit' /\ TrailEndsAtStatus'
         /\ unitStatus' \in UnitCodes /\ status' \in [Resources -> Codes]
         /\ trail' \in [Resources -> Seq(TrailRows)]
<1>1. overlapped' = overlapped /\ (DirectlyChanged => DirectlyChanged')
  BY UnitEnds
<1> QED
  BY <1>1 DEF VehicleFollowsUnit, TrailEndsAtStatus, ResourceInv, ResourceRowsAgree,
     ResourcesAgree, ResourceTypeOK

LEMMA ChangeCrewStep ==
  ASSUME ResourceInv, NEW r \in Requests, ChangeCrewComposition(r)
  PROVE  ResourceInv'
<1>1. /\ session[r].at = "loaded" /\ r \in Open
      /\ member' = AfterChange(Copy(r).member, Body(r).add, Body(r).remove)
      /\ Event(r, "crew_member_changed") /\ Finish(r, "done")
      /\ UNCHANGED <<unitStatus, status, trail, manned, assignments>>
  BY DEF ChangeCrewComposition, Asked, Open
<1>2. member' \in [People -> {"none", "on", "left"}]
  BY <1>1 DEF AfterChange, ResourceInv, ResourceRowsAgree, ResourceTypeOK
<1>3. ReleasedIsStamped'
  BY <1>1 DEF ReleasedIsStamped, ResourceInv, ResourceRowsAgree, ResourcesAgree
<1>4. manned' \in BOOLEAN /\ assignments' \subseteq AssignmentRows
  BY <1>1 DEF ResourceInv, ResourceRowsAgree, ResourceTypeOK
<1>5. "crew_member_changed" \in EventTypes
  BY DEF EventTypes
<1> QED
  BY <1>1, <1>2, <1>3, <1>4, <1>5, StatusesKept, ResourcesUpdated

LEMMA AssignCrewStep ==
  ASSUME ResourceInv, NEW r \in Requests, AssignCrew(r)
  PROVE  ResourceInv'
<1>1. /\ session[r].at = "loaded" /\ r \in Open
      /\ manned' = TRUE
      /\ Event(r, "crew_changed") /\ Finish(r, "done")
      /\ UNCHANGED <<unitStatus, status, trail, member, assignments>>
  BY DEF AssignCrew, Asked, Open
<1>2. ReleasedIsStamped'
  BY <1>1 DEF ReleasedIsStamped, ResourceInv, ResourceRowsAgree, ResourcesAgree
<1>3. /\ member' \in [People -> {"none", "on", "left"}]
      /\ manned' \in BOOLEAN /\ assignments' \subseteq AssignmentRows
  BY <1>1 DEF ResourceInv, ResourceRowsAgree, ResourceTypeOK
<1>4. "crew_changed" \in EventTypes
  BY DEF EventTypes
<1> QED
  BY <1>1, <1>2, <1>3, <1>4, StatusesKept, ResourcesUpdated

LEMMA AssignToIncidentStep ==
  ASSUME ResourceInv, NEW r \in Requests, AssignToIncident(r)
  PROVE  ResourceInv' /\ assignments \subseteq assignments'
<1> DEFINE new == [by |-> r, incident |-> Body(r), status |-> "active", released |-> None]
<1>1. /\ session[r].at = "loaded" /\ r \in Open /\ session[r].op.kind = "assign"
      /\ assignments' = assignments \cup {new}
      /\ Event(r, "assigned") /\ Finish(r, "done")
      /\ UNCHANGED <<unitStatus, status, trail, member, manned>>
  BY DEF AssignToIncident, Asked, Open
<1>2. session[r].op \in ResourceOperations
  BY <1>1 DEF ResourceInv, UnitRead
<1>3. Body(r) \in Incidents
  BY <1>1, <1>2, ResourceOperationArgument DEF Body
<1>4. /\ new \in AssignmentRows
      /\ new.status # "released" /\ new.released = None
  BY <1>3 DEF AssignmentRows
<1> HIDE DEF new
<1>5. ReleasedIsStamped'
  BY <1>1, <1>4 DEF ReleasedIsStamped, ResourceInv, ResourceRowsAgree, ResourcesAgree
<1>6. /\ member' \in [People -> {"none", "on", "left"}]
      /\ manned' \in BOOLEAN /\ assignments' \subseteq AssignmentRows
  BY <1>1, <1>4 DEF ResourceInv, ResourceRowsAgree, ResourceTypeOK
<1>7. "assigned" \in EventTypes
  BY DEF EventTypes
<1> QED
  BY <1>1, <1>5, <1>6, <1>7, StatusesKept, ResourcesUpdated

LEMMA ReturnFromIncidentStep ==
  ASSUME ResourceInv, NEW r \in Requests, ReturnFromIncident(r)
  PROVE  /\ ResourceInv'
         /\ \A a \in assignments : a.status = "released" =>
              \E b \in assignments' : b.by = a.by /\ b.status = "released"
<1>1. /\ session[r].at = "loaded" /\ r \in Open
      /\ assignments' = {Released(r, a) : a \in assignments}
      /\ Event(r, "returned") /\ Finish(r, "done")
      /\ UNCHANGED <<unitStatus, status, trail, member, manned>>
  BY DEF ReturnFromIncident, Asked, Open
<1>2. ASSUME NEW a \in assignments
      PROVE  LET b == Released(r, a) IN
             /\ b \in AssignmentRows /\ b.by = a.by
             /\ a.status = "released" => b.status = "released"
             /\ b.status = "released" <=> b.released # None
  <2>1. /\ a \in AssignmentRows
        /\ a.status = "released" <=> a.released # None
    BY DEF ResourceInv, ResourceRowsAgree, ResourceTypeOK, ResourcesAgree, ReleasedIsStamped
  <2>2. CASE Released(r, a) = a
    BY <2>1, <2>2
  <2>3. CASE Released(r, a) = [a EXCEPT !.status = "released", !.released = r]
    BY <2>1, <2>3, SessionsAssumption DEF AssignmentRows
  <2> QED
    BY <2>2, <2>3 DEF Released
<1>3. assignments' \subseteq AssignmentRows
  BY <1>1, <1>2
<1>4. ReleasedIsStamped'
  BY <1>1, <1>2 DEF ReleasedIsStamped
<1>5. member' \in [People -> {"none", "on", "left"}] /\ manned' \in BOOLEAN
  BY <1>1 DEF ResourceInv, ResourceRowsAgree, ResourceTypeOK
<1>6. "returned" \in EventTypes
  BY DEF EventTypes
<1>7. ResourceInv'
  BY <1>1, <1>3, <1>4, <1>5, <1>6, StatusesKept, ResourcesUpdated
<1> QED
  BY <1>1, <1>2, <1>7

LEMMA ResourceFailedStep ==
  ASSUME ResourceInv, NEW r \in Requests, r \in Open, Finish(r, "failed"),
         UNCHANGED resourceTables
  PROVE  ResourceInv'
<1>1. /\ OthersKeep(r) /\ overlapped' = overlapped /\ overlapped \in BOOLEAN
      /\ session[r].at # "done" /\ SessionsOK' /\ \A q \in Requests : UnitRead(q)'
  BY UnitEnds
<1> QED
  BY <1>1, ResourceRowsKept DEF ResourceInv

LEMMA ResourceInductive == ResourceInv /\ [ResourceNext]_resourceVars => ResourceInv'
<1> SUFFICES ASSUME ResourceInv, [ResourceNext]_resourceVars PROVE ResourceInv'
  OBVIOUS
<1>1. ASSUME NEW r \in Requests, NEW op \in ResourceOperations, ReceiveResource(r, op)
      PROVE  ResourceInv'
  BY <1>1, ReceiveResourceStep
<1>2. ASSUME NEW r \in Requests, LoadUnit(r) \/ UnitRoutes(r) \/ ResourceRoutes(r)
      PROVE  ResourceInv'
  BY <1>2, LoadUnitStep, UpdateUnitStatusStep, AssignCrewStep, AssignToIncidentStep,
     ReturnFromIncidentStep, UpdateResourceStatusStep, BulkUpdateStatusStep, ChangeCrewStep
     DEF UnitRoutes, ResourceRoutes
<1>3. ASSUME NEW r \in Requests, RejectResource(r) \/ ResourceConnectionLost(r)
      PROVE  ResourceInv'
  <2>1. r \in Open /\ Finish(r, "failed") /\ UNCHANGED resourceTables
    BY <1>3 DEF RejectResource, Asked, ResourceConnectionLost, Lost, Open
  <2> QED
    BY <2>1, ResourceFailedStep
<1>4. CASE UNCHANGED resourceVars
  <2>1. /\ UNCHANGED <<session, overlapped>> /\ SessionsOK'
        /\ UNCHANGED <<unitStatus, status, trail, events, member, manned, assignments>>
    BY <1>4, SessionsStutter DEF resourceVars, resourceTables, ResourceInv
  <2>2. \A r \in Requests : UnitRead(r)'
    BY <2>1 DEF ResourceInv, UnitRead, Open, Copy
  <2>3. ResourceRowsAgree'
    BY <2>1 DEF ResourceInv, ResourceRowsAgree, ResourceTypeOK, ResourcesAgree,
       ReleasedIsStamped, VehicleFollowsUnit, TrailEndsAtStatus, DirectlyChanged, Done
  <2> QED
    BY <2>1, <2>2, <2>3 DEF ResourceInv
<1> QED
  BY <1>1, <1>2, <1>3, <1>4 DEF ResourceNext

\* Every unit, resource, crew, history and assignment row is well formed in every
\* reachable state of app/resources.
THEOREM ResourceTypeCorrect == ResourceSpec => []ResourceTypeOK
<1>1. ResourceInv => ResourceTypeOK
  BY DEF ResourceInv, ResourceRowsAgree
<1> QED
  BY <1>1, ResourceInitial, ResourceInductive, PTL DEF ResourceSpec

\* An assignment is released exactly when it is stamped, however requests overlap;
\* and as long as they do not, the status history of a resource ends at its status
\* and the vehicle has the status of its unit unless it was changed on its own.
THEOREM ResourcesAlwaysAgree == ResourceSpec => []ResourcesAgree
<1>1. ResourceInv => ResourcesAgree
  BY DEF ResourceInv, ResourceRowsAgree
<1> QED
  BY <1>1, ResourceInitial, ResourceInductive, PTL DEF ResourceSpec

StatusesAreTraced ==
  \A x \in Resources : status'[x] # status[x] =>
    \E i \in DOMAIN trail'[x] \ DOMAIN trail[x] : trail'[x][i].to = status'[x]

ReleasedStay ==
  \A a \in assignments : a.status = "released" =>
    \E b \in assignments' : b.by = a.by /\ b.status = "released"

AcceptedAreApplied ==
  \A r \in Requests :
    ~overlapped' /\ Asked(r, "members") /\ session'[r].at = "done" =>
      \A p \in People : /\ p \in Body(r).remove => member'[p] # "on"
                        /\ p \in Body(r).add \ Body(r).remove => member'[p] = "on"

LEMMA SetIsTraced ==
  ASSUME ResourceInv, NEW rows \in SUBSET Resources, NEW to, StatusSet(rows, to)
  PROVE  StatusesAreTraced
<1> SUFFICES ASSUME NEW x \in Resources, status'[x] # status[x]
             PROVE  \E i \in DOMAIN trail'[x] \ DOMAIN trail[x] : trail'[x][i].to = status'[x]
  BY DEF StatusesAreTraced
<1>1. x \in rows /\ status'[x] = to
  BY DEF StatusSet
<1>2. /\ trail'[x] # <<>> /\ Last(trail'[x]).to = to
      /\ Len(trail'[x]) = Len(trail[x]) + 1
  BY <1>1 DEF StatusSet
<1>3. trail[x] \in Seq(TrailRows) /\ trail'[x] \in Seq(TrailRows)
  BY DEF StatusSet, ResourceInv, ResourceRowsAgree
<1>4. Len(trail'[x]) \in DOMAIN trail'[x] \ DOMAIN trail[x]
  BY <1>2, <1>3
<1>5. trail'[x][Len(trail'[x])].to = status'[x]
  BY <1>1, <1>2 DEF Last
<1> QED
  BY <1>4, <1>5

LEMMA StatusesTracedStep == ASSUME ResourceInv, ResourceNext PROVE StatusesAreTraced
<1>1. CASE UNCHANGED status
  BY <1>1 DEF StatusesAreTraced
<1>2. ASSUME NEW r \in Requests, UpdateUnitStatus(r) PROVE StatusesAreTraced
  <2>1. {Vehicle} \in SUBSET Resources
    BY DEF Resources
  <2> QED
    BY <1>2, <2>1, UpdateUnitStatusStep, SetIsTraced
<1>3. ASSUME NEW r \in Requests, UpdateResourceStatus(r) PROVE StatusesAreTraced
  <2>1. PICK x \in Resources : StatusSet({x}, Body(r).to)
    BY <1>3, UpdateResourceStatusStep
  <2> QED
    BY <2>1, SetIsTraced
<1>4. ASSUME NEW r \in Requests, BulkUpdateStatus(r) PROVE StatusesAreTraced
  <2>1. PICK rows \in SUBSET Resources : StatusSet(rows, Body(r).to)
    BY <1>4, BulkUpdateStatusStep
  <2> QED
    BY <2>1, SetIsTraced
<1>5. UNCHANGED status \/ \E r \in Requests : \/ UpdateUnitStatus(r)
                                              \/ UpdateResourceStatus(r)
                                              \/ BulkUpdateStatus(r)
  BY DEF ResourceNext, UnitRoutes, ResourceRoutes, ReceiveResource, LoadUnit, AssignCrew,
     AssignToIncident, ReturnFromIncident, ChangeCrewComposition, RejectResource,
     ResourceConnectionLost, resourceTables
<1> QED
  BY <1>1, <1>2, <1>3, <1>4, <1>5

LEMMA ReleasedStayStep == ASSUME ResourceInv, ResourceNext PROVE ReleasedStay
<1>1. CASE assignments \subseteq assignments'
  BY <1>1 DEF ReleasedStay
<1>2. ASSUME NEW r \in Requests, ReturnFromIncident(r) PROVE ReleasedStay
  BY <1>2, ReturnFromIncidentStep DEF ReleasedStay
<1>3. ASSUME NEW r \in Requests, AssignToIncident(r) PROVE assignments \subseteq assignments'
  BY <1>3, AssignToIncidentStep
<1>4. UNCHANGED assignments \/ \E r \in Requests : AssignToIncident(r) \/ ReturnFromIncident(r)
  BY DEF ResourceNext, UnitRoutes, ResourceRoutes, ReceiveResource, LoadUnit, AssignCrew,
     UpdateUnitStatus, UpdateResourceStatus, BulkUpdateStatus, ChangeCrewComposition,
     RejectResource, ResourceConnectionLost, resourceTables
<1> QED
  BY <1>1, <1>2, <1>3, <1>4

\* A composition is accepted by nothing else.
LEMMA CompositionsAreMade ==
  ASSUME ResourceInv, ResourceNext, NEW r \in Requests, Asked(r, "members"),
         session'[r].at = "done"
  PROVE  ChangeCrewComposition(r)
<1>1. session[r].at = "loaded" /\ session[r].op.kind = "members"
  BY DEF Asked
<1>2. PICK q \in Requests :
        \/ \E op \in ResourceOperations : ReceiveResource(q, op)
        \/ LoadUnit(q)
        \/ UnitRoutes(q) \/ ResourceRoutes(q)
        \/ RejectResource(q) \/ ResourceConnectionLost(q)
  BY DEF ResourceNext
<1>3. q = r
  <2>1. \/ \E op, seen : Begin(q, op, seen)
        \/ \E seen : Load(q, seen)
        \/ \E at \in {"done", "failed"} : Finish(q, at)
    BY <1>2 DEF ReceiveResource, LoadUnit, UnitRoutes, ResourceRoutes, UpdateUnitStatus,
       AssignCrew, AssignToIncident, ReturnFromIncident, UpdateResourceStatus,
       BulkUpdateStatus, ChangeCrewComposition, RejectResource, ResourceConnectionLost, Lost
  <2>2. OthersKeep(q)
    BY <2>1, BeginStep, LoadStep, FinishStep DEF ResourceInv
  <2> QED
    BY <1>1, <2>2 DEF OthersKeep
<1>4. ASSUME NEW op, ReceiveResource(r, op) PROVE FALSE
  BY <1>1, <1>4 DEF ReceiveResource, Begin
<1>5. ~LoadUnit(r)
  BY <1>1 DEF LoadUnit
<1>6. ~UnitRoutes(r) /\ ~UpdateResourceStatus(r) /\ ~BulkUpdateStatus(r)
  BY <1>1 DEF UnitRoutes, UpdateUnitStatus, AssignCrew, AssignToIncident, ReturnFromIncident,
     UpdateResourceStatus, BulkUpdateStatus, Asked
<1>7. ~RejectResource(r) /\ ~ResourceConnectionLost(r)
  <2>1. ~Finish(r, "failed")
    BY FinishStep DEF ResourceInv
  <2> QED
    BY <2>1 DEF RejectResource, ResourceConnectionLost, Lost
<1> QED
  BY <1>2, <1>3, <1>4, <1>5, <1>6, <1>7 DEF ResourceRoutes

LEMMA AcceptedAppliedStep == ASSUME ResourceInv, ResourceNext PROVE AcceptedAreApplied
<1> SUFFICES ASSUME NEW r \in Requests, ~overlapped', Asked(r, "members"),
                    session'[r].at = "done", NEW p \in People
             PROVE  /\ p \in Body(r).remove => member'[p] # "on"
                    /\ p \in Body(r).add \ Body(r).remove => member'[p] = "on"
  BY DEF AcceptedAreApplied
<1>1. ChangeCrewComposition(r)
  BY CompositionsAreMade
<1>2. /\ member' = AfterChange(Copy(r).member, Body(r).add, Body(r).remove)
      /\ r \in Open /\ session[r].at = "loaded" /\ Finish(r, "done")
  BY <1>1 DEF ChangeCrewComposition, Asked, Open
<1>3. Copy(r).member = member /\ member \in [People -> {"none", "on", "left"}]
  <2>1. ~overlapped
    BY <1>2 DEF Finish
  <2> QED
    BY <1>2, <2>1 DEF ResourceInv, UnitRead, ResourceRowsAgree, ResourceTypeOK
<1>4. member'[p] = LET rows == NewMembers(member, Body(r).add)
                               \cup {s \in People : member[s] # "none"}
                   IN  IF p \in Body(r).remove \cap rows THEN "left"
                       ELSE IF p \in NewMembers(member, Body(r).add) THEN "on" ELSE member[p]
  BY <1>2, <1>3 DEF AfterChange
<1> QED
  BY <1>3, <1>4 DEF NewMembers

\* Whatever overlaps, no resource changes its status without an entry that names the
\* new one, and a released assignment stays released; and without overlaps an
\* accepted composition is the composition of the crew.
THEOREM ResourceStepsAlwaysHold == ResourceSpec => ResourceStepsHold
<1>1. ResourceInv /\ [ResourceNext]_resourceVars
        => (StatusesAreTraced /\ ReleasedStay /\ AcceptedAreApplied)
           \/ UNCHANGED resourceVars
  BY StatusesTracedStep, ReleasedStayStep, AcceptedAppliedStep
<1>2. ResourceSpec => [][StatusesAreTraced /\ ReleasedStay /\ AcceptedAreApplied]_resourceVars
  BY <1>1, ResourceInitial, ResourceInductive, PTL DEF ResourceSpec
<1>3. ResourceSpec => StatusChangeTraced /\ ReleasedIsFinal /\ AcceptedIsApplied
  BY <1>2, PTL DEF StatusChangeTraced, ReleasedIsFinal, AcceptedIsApplied,
     StatusesAreTraced, ReleasedStay, AcceptedAreApplied
<1> QED
  BY <1>3 DEF ResourceStepsHold

-----------------------------------------------------------------------------
(* Administration (app/admin).                                              *)

LEMMA AdminOperation ==
  ASSUME NEW op \in AdminOperations
  PROVE  /\ op.kind = "new setting" => op.value \in Values /\ op.secret \in BOOLEAN
         /\ op.kind = "setting" => /\ op.value \in Values \cup {None}
                                   /\ op.active \in BOOLEAN \cup {None}
         /\ op.kind = "user" => /\ op.super \in BOOLEAN \cup {None}
                                /\ op.active \in BOOLEAN \cup {None}
                                /\ op.roles \in (SUBSET Roles) \cup {None}
         /\ op.kind = "role" => op.role \in Roles /\ op.permissions \in SUBSET Permissions
         /\ op.kind = "integration" => /\ op.enabled \in BOOLEAN \cup {None}
                                       /\ op.provider \in {"sms", None}
                                       /\ op.configs \in (SUBSET {"host", "port"}) \cup {None}
  BY DEF AdminOperations

\* What a request has read is well formed, and as long as nothing has overlapped it
\* is what there is.  A setting that was read is still there, and as secret as it was.
AdminRead(r) ==
  r \in Open =>
    /\ session[r].op \in AdminOperations
    /\ Loaded(r).setting \in SettingRows \cup {None}
    /\ Loaded(r).setting # None => setting # None /\ setting.secret = Loaded(r).setting.secret
    /\ Loaded(r).user \in UserRows /\ Loaded(r).link \in LinkRowsOf
    /\ Loaded(r).configs \subseteq {"host", "port"}
    /\ session[r].at = "loaded" => Loaded(r).granted \in GrantRows /\ Loaded(r).holds \in HoldingRows
    /\ ~overlapped => /\ Loaded(r).setting = setting /\ Loaded(r).user = user
                      /\ Loaded(r).link = link /\ Loaded(r).configs = configs
                      /\ session[r].at = "loaded" =>
                           Loaded(r).granted = granted /\ Loaded(r).holds = holds

SettingKept == setting # None => setting' # None /\ setting'.secret = setting.secret

AdminRowsAgree ==
  /\ AdminTypeOK /\ settingLog \in Seq(SettingLogRows)
  /\ setting = None => settingLog = <<>>
  /\ SettingsAgree

AdminInv ==
  /\ SessionsOK /\ AdminRowsAgree
  /\ \A r \in Requests : AdminRead(r)

LEMMA AdminInitial == AdminInit => AdminInv
<1> SUFFICES ASSUME AdminInit PROVE AdminInv
  OBVIOUS
<1>1. SessionsOK /\ \A r \in Requests : session[r].at = "idle" /\ AdminRead(r)
  BY SessionsInitial DEF AdminInit, AdminRead, Open
<1>2. settingLog = <<>> /\ audit = {}
  BY DEF AdminInit
<1>3. setting \in SettingRows \cup {None}
  <2>1. [value |-> "v1", secret |-> TRUE, version |-> 1, active |-> TRUE] \in SettingRows
    BY DEF SettingRows, Values
  <2> QED
    BY <2>1 DEF AdminInit
<1>4. user \in UserRows /\ link \in LinkRowsOf
  <2>1. [super |-> FALSE, active |-> TRUE] \in UserRows
    BY DEF UserRows
  <2>2. [enabled |-> TRUE, status |-> "inactive", provider |-> None] \in LinkRowsOf
    BY DEF LinkRowsOf
  <2> QED
    BY <2>1, <2>2 DEF AdminInit
<1>5. granted \in GrantRows /\ holds \in HoldingRows /\ configs \subseteq {"host", "port"}
      /\ item \in {"old", "new", None}
  BY DEF AdminInit, GrantRows, HoldingRows
<1>6. settingLog \in Seq(SettingLogRows) /\ DOMAIN settingLog = {}
  BY <1>2
<1>7. AdminTypeOK
  BY <1>2, <1>3, <1>4, <1>5, <1>6 DEF AdminTypeOK
<1>8. SettingsAgree
  BY <1>2, <1>6 DEF SettingsAgree, SecretIsMasked, VersionCountsValues
<1> QED
  BY <1>1, <1>2, <1>6, <1>7, <1>8 DEF AdminInv, AdminRowsAgree

LEMMA AdminOthers ==
  ASSUME AdminInv, NEW r \in Requests, OthersKeep(r), overlapped' \in BOOLEAN, SettingKept,
         ~overlapped' => ~overlapped /\ \A q \in Requests \ {r} : q \notin Open
  PROVE  \A q \in Requests \ {r} : AdminRead(q)'
<1> SUFFICES ASSUME NEW q \in Requests \ {r}, q \in Open' PROVE AdminRead(q)'
  BY DEF AdminRead
<1>1. session'[q] = session[q] /\ q \in Open /\ AdminRead(q)
  BY DEF AdminInv, OthersKeep, Open
<1>2. overlapped'
  BY <1>1
<1>3. Loaded(q)' = Loaded(q)
  BY <1>1 DEF Loaded
<1> QED
  BY <1>1, <1>2, <1>3 DEF AdminRead, SettingKept

LEMMA AdminEnds ==
  ASSUME AdminInv, NEW r \in Requests, r \in Open, NEW at \in {"done", "failed"},
         Finish(r, at), SettingKept
  PROVE  /\ SessionsOK' /\ OthersKeep(r) /\ session'[r].at = at
         /\ overlapped' = overlapped /\ overlapped \in BOOLEAN
         /\ \A q \in Requests : AdminRead(q)'
<1>1. /\ SessionsOK' /\ OthersKeep(r) /\ session'[r].at = at
      /\ overlapped' = overlapped
  BY FinishStep DEF AdminInv
<1>2. \A q \in Requests \ {r} : AdminRead(q)'
  BY <1>1, AdminOthers, OpenAlone DEF AdminInv, SessionsOK
<1>3. AdminRead(r)'
  BY <1>1 DEF AdminRead, Open
<1> QED
  BY <1>1, <1>2, <1>3 DEF AdminInv, SessionsOK

\* The other tables may change as long as they stay well formed.
LEMMA SettingsUntouched ==
  ASSUME AdminInv, overlapped => overlapped', overlapped' \in BOOLEAN,
         UNCHANGED <<setting, settingLog>>,
         user' \in UserRows, granted' \in GrantRows, holds' \in HoldingRows,
         link' \in LinkRowsOf, configs' \subseteq {"host", "port"},
         item' \in {"old", "new", None}, audit' \subseteq AuditRows
  PROVE  AdminRowsAgree' /\ SettingKept
<1>1. SecretIsMasked' /\ VersionCountsValues'
  BY DEF AdminInv, AdminRowsAgree, SettingsAgree, SecretIsMasked, VersionCountsValues
<1> QED
  BY <1>1 DEF AdminInv, AdminRowsAgree, AdminTypeOK, SettingsAgree, SettingKept

LEMMA AdminTablesKept ==
  ASSUME AdminInv, overlapped => overlapped', overlapped' \in BOOLEAN, UNCHANGED adminTables
  PROVE  AdminRowsAgree' /\ SettingKept
  BY SettingsUntouched DEF adminTables, AdminInv, AdminRowsAgree, AdminTypeOK

LEMMA ReceiveAdminStep ==
  ASSUME AdminInv, NEW r \in Requests, NEW op \in AdminBodies, ReceiveAdmin(r, op)
  PROVE  AdminInv'
<1> DEFINE seen == [setting |-> setting, user |-> user, link |-> link, configs |-> configs,
                    item |-> item]
<1>1. /\ SessionsOK' /\ OthersKeep(r)
      /\ session'[r].at = "row" /\ session'[r].op = op /\ session'[r].seen = seen
      /\ ~overlapped' => ~overlapped /\ \A q \in Requests : q \notin Open
  BY BeginStep DEF ReceiveAdmin, AdminInv
<1>2. UNCHANGED adminTables
  BY DEF ReceiveAdmin
<1>3. /\ seen.setting = setting /\ seen.user = user /\ seen.link = link
      /\ seen.configs = configs
  OBVIOUS
<1>4. UNCHANGED <<setting, user, link, configs>> /\ op \in AdminOperations
  BY <1>2, AdminAssumption DEF adminTables
<1>5. AdminTypeOK
  BY DEF AdminInv, AdminRowsAgree
<1> HIDE DEF seen
<1>6. AdminRead(r)'
  BY <1>1, <1>3, <1>4, <1>5 DEF AdminRead, Loaded, AdminTypeOK
<1>7. overlapped \in BOOLEAN /\ overlapped' \in BOOLEAN
  BY <1>1 DEF AdminInv, SessionsOK
<1>8. AdminRowsAgree' /\ SettingKept
  BY <1>1, <1>2, <1>7, AdminTablesKept
<1>9. \A q \in Requests \ {r} : AdminRead(q)'
  BY <1>1, <1>7, <1>8, AdminOthers
<1> QED
  BY <1>1, <1>6, <1>8, <1>9 DEF AdminInv

LEMMA JunctionStep ==
  ASSUME AdminInv, NEW r \in Requests, Junction(r)
  PROVE  AdminInv'
<1> DEFINE c == session[r].seen
           seen == [setting |-> c.setting, user |-> c.user, link |-> c.link,
                    configs |-> c.configs, item |-> c.item, granted |-> granted,
                    holds |-> holds]
<1>1. /\ SessionsOK' /\ OthersKeep(r) /\ session[r].at = "row"
      /\ session'[r].at = "loaded" /\ session'[r].op = session[r].op
      /\ session'[r].seen = seen /\ overlapped' = overlapped
  BY LoadStep DEF Junction, AdminInv
<1>2. UNCHANGED adminTables
  BY DEF Junction
<1>3. /\ seen.setting = Loaded(r).setting /\ seen.user = Loaded(r).user
      /\ seen.link = Loaded(r).link /\ seen.configs = Loaded(r).configs
      /\ seen.granted = granted /\ seen.holds = holds
  BY DEF Loaded
<1>4. UNCHANGED <<setting, user, link, configs, granted, holds>>
  BY <1>2 DEF adminTables
<1>5. granted \in GrantRows /\ holds \in HoldingRows
  BY DEF AdminInv, AdminRowsAgree, AdminTypeOK
<1> HIDE DEF c, seen
<1>6. r \in Open /\ AdminRead(r)
  BY <1>1 DEF Open, AdminInv
<1>7. Loaded(r)' = seen
  BY <1>1 DEF Loaded
<1>8. AdminRead(r)'
  BY <1>1, <1>3, <1>4, <1>5, <1>6, <1>7 DEF AdminRead
<1>9. overlapped \in BOOLEAN /\ overlapped' \in BOOLEAN
  BY <1>1 DEF AdminInv, SessionsOK
<1>10. AdminRowsAgree' /\ SettingKept
  BY <1>1, <1>2, <1>9, AdminTablesKept
<1>11. \A q \in Requests \ {r} : AdminRead(q)'
  BY <1>1, <1>6, <1>9, <1>10, AdminOthers, OpenAlone DEF AdminInv
<1> QED
  BY <1>1, <1>8, <1>10, <1>11 DEF AdminInv

\* The history of a setting grows by one row, which masks what is secret.
LEMMA LogExtended ==
  ASSUME settingLog \in Seq(SettingLogRows), NEW e \in SettingLogRows,
         settingLog' = Append(settingLog, e)
  PROVE  /\ settingLog' \in Seq(SettingLogRows) /\ settingLog' # <<>>
         /\ Len(settingLog) \in Nat /\ Len(settingLog') = Len(settingLog) + 1
         /\ DOMAIN settingLog = 1 .. Len(settingLog)
         /\ DOMAIN settingLog' = 1 .. (Len(settingLog) + 1)
         /\ settingLog'[Len(settingLog) + 1] = e /\ Last(settingLog') = e
         /\ \A i \in 1 .. Len(settingLog) : settingLog'[i] = settingLog[i]
         /\ \A i \in 1 .. Len(settingLog) : settingLog[i] \in SettingLogRows
<1>1. /\ Append(settingLog, e) \in Seq(SettingLogRows) /\ Append(settingLog, e) # <<>>
      /\ Len(Append(settingLog, e)) = Len(settingLog) + 1
      /\ \A i \in 1 .. Len(settingLog) : Append(settingLog, e)[i] = settingLog[i]
      /\ Append(settingLog, e)[Len(settingLog) + 1] = e
  BY AppendProperties
<1>2. Len(settingLog) \in Nat /\ DOMAIN settingLog = 1 .. Len(settingLog)
  OBVIOUS
<1>3. DOMAIN settingLog' = 1 .. (Len(settingLog) + 1)
  BY <1>1, <1>2
<1>4. Last(settingLog') = e
  BY <1>1 DEF Last
<1>5. \A i \in 1 .. Len(settingLog) : settingLog[i] \in SettingLogRows
  OBVIOUS
<1> QED
  BY <1>1, <1>2, <1>3, <1>4, <1>5

LEMMA MaskedRow ==
  ASSUME NEW r \in Requests, NEW row \in SettingRows, NEW old \in Values \cup {None}
  PROVE  LET e == [by |-> r, old |-> Mask(row.secret, old),
                   new |-> Mask(row.secret, row.value), version |-> row.version]
         IN  /\ e \in SettingLogRows /\ e.version = row.version
             /\ e.old = Mask(row.secret, old) /\ e.new = Mask(row.secret, row.value)
             /\ row.secret => e.old \in {None, "***"} /\ e.new \in {None, "***"}
<1> DEFINE o == Mask(row.secret, old)
           n == Mask(row.secret, row.value)
<1>1. row.value \in Values \cup {None} /\ row.version \in Nat
  BY DEF SettingRows
<1>2. o \in Values \cup {None, "***"} /\ n \in Values \cup {None, "***"}
  BY <1>1 DEF Mask
<1>3. row.secret => o \in {None, "***"} /\ n \in {None, "***"}
  BY <1>1 DEF Mask
<1> HIDE DEF o, n
<1>4. [by |-> r, old |-> o, new |-> n, version |-> row.version] \in SettingLogRows
  BY <1>1, <1>2 DEF SettingLogRows
<1> QED
  BY <1>3, <1>4 DEF o, n

LEMMA RevisedRow ==
  ASSUME NEW old \in SettingRows, NEW value \in Values \cup {None},
         NEW active \in BOOLEAN \cup {None}
  PROVE  LET new == Revised(old, value, active)
         IN  /\ new \in SettingRows /\ new.secret = old.secret
             /\ new.version = IF new.value # old.value THEN old.version + 1 ELSE old.version
<1> DEFINE v == GivenOr(value, old.value)
           a == GivenOr(active, old.active)
           n == IF v # old.value THEN old.version + 1 ELSE old.version
           new == [old EXCEPT !.value = v, !.active = a, !.version = n]
<1>1. /\ old.value \in Values \cup {None} /\ old.version \in Nat
      /\ old = [value |-> old.value, secret |-> old.secret, version |-> old.version,
                active |-> old.active]
  BY DEF SettingRows
<1>2. old.secret \in BOOLEAN /\ old.active \in BOOLEAN
  BY DEF SettingRows
<1>3. v \in Values \cup {None} /\ n \in Nat
  BY <1>1 DEF GivenOr
<1>4. a \in BOOLEAN
  <2>1. CASE active = None
    BY <1>2, <2>1 DEF GivenOr
  <2>2. CASE active # None
    <3>1. active \in BOOLEAN
      BY <2>2
    <3> QED
      BY <2>2, <3>1 DEF GivenOr
  <2> QED
    BY <2>1, <2>2
<1>5. Revised(old, value, active) = new
  BY DEF Revised
<1>6. n = IF v # old.value THEN old.version + 1 ELSE old.version
  OBVIOUS
<1> HIDE DEF v, a, n
<1>7. DOMAIN old = {"value", "secret", "version", "active"}
  BY DEF SettingRows
<1>8. new.secret = old.secret /\ new.value = v /\ new.version = n
  BY <1>7
<1>9. new \in SettingRows
  BY <1>3, <1>4 DEF SettingRows
<1> HIDE DEF new
<1> QED
  BY <1>5, <1>6, <1>8, <1>9

LEMMA SettingMerged ==
  ASSUME NEW row \in SettingRows, NEW old \in SettingRows, NEW new \in SettingRows
  PROVE  LET m == Merge(row, old, new)
         IN  /\ m \in SettingRows
             /\ m.value = IF new.value = old.value THEN row.value ELSE new.value
             /\ m.secret = IF new.secret = old.secret THEN row.secret ELSE new.secret
             /\ m.version = IF new.version = old.version THEN row.version ELSE new.version
<1> DEFINE m == Merge(row, old, new)
           Fields == {"value", "secret", "version", "active"}
<1>1. /\ DOMAIN row = Fields
      /\ \A x \in {row, old, new} :
           /\ x.value = x["value"] /\ x.secret = x["secret"] /\ x.version = x["version"]
           /\ x["value"] \in Values \cup {None} /\ x["version"] \in Nat
  BY DEF SettingRows
<1>2. \A x \in {row, old, new} : x["secret"] \in BOOLEAN /\ x["active"] \in BOOLEAN
  BY DEF SettingRows
<1>3. m = [f \in Fields |-> IF new[f] = old[f] THEN row[f] ELSE new[f]]
  BY <1>1 DEF Merge
<1>4. \A f \in Fields : m[f] = IF new[f] = old[f] THEN row[f] ELSE new[f]
  BY <1>3
<1>5. /\ m["value"] = IF new["value"] = old["value"] THEN row["value"] ELSE new["value"]
      /\ m["secret"] = IF new["secret"] = old["secret"] THEN row["secret"] ELSE new["secret"]
      /\ m["version"] = IF new["version"] = old["version"] THEN row["version"]
                        ELSE new["version"]
  BY <1>4
<1>6. m["value"] \in Values \cup {None} /\ m["version"] \in Nat
  BY <1>1, <1>5
<1>7. m["secret"] \in BOOLEAN /\ m["active"] \in BOOLEAN
  BY <1>2, <1>3
<1> HIDE DEF m
<1>8. m = [value |-> m["value"], secret |-> m["secret"], version |-> m["version"],
           active |-> m["active"]]
  BY <1>3
<1>9. m \in SettingRows
  BY <1>6, <1>7, <1>8 DEF SettingRows
<1>10. m.value = m["value"] /\ m.secret = m["secret"] /\ m.version = m["version"]
  OBVIOUS
<1> QED
  BY <1>1, <1>5, <1>9, <1>10 DEF m

LEMMA AuditAdded ==
  ASSUME AdminInv, NEW r \in Requests, NEW entity \in Entities, NEW changed,
         AuditIf(changed, r, entity) \/ Audit(r, entity)
  PROVE  audit' \subseteq AuditRows
<1>1. [by |-> r, entity |-> entity] \in AuditRows
  BY DEF AuditRows
<1> QED
  BY <1>1 DEF AuditIf, Audit, AdminInv, AdminRowsAgree, AdminTypeOK

LEMMA CreateSettingStep ==
  ASSUME AdminInv, NEW r \in Requests, CreateSetting(r)
  PROVE  AdminInv'
<1> DEFINE p == Posted(r)
           new == [value |-> p.value, secret |-> p.secret, version |-> 1, active |-> TRUE]
           e == [by |-> r, old |-> Mask(new.secret, None), new |-> Mask(new.secret, new.value),
                 version |-> new.version]
<1>1. /\ session[r].at = "loaded" /\ r \in Open /\ p.kind = "new setting"
      /\ setting = None /\ setting' = new /\ settingLog' = Append(settingLog, e)
      /\ Audit(r, "setting") /\ Finish(r, "done")
      /\ UNCHANGED <<user, granted, holds, link, configs, item>>
  BY DEF CreateSetting, Handles, Posted, Close, Open, Logged
<1>2. p.value \in Values /\ p.secret \in BOOLEAN
  BY <1>1, AdminOperation DEF AdminInv, AdminRead, Posted
<1> HIDE DEF p
<1>3. new \in SettingRows /\ new.version = 1
  BY <1>2 DEF SettingRows
<1>4. new # None
  BY <1>3, AdminAssumption
<1> HIDE DEF new
<1>5. /\ e \in SettingLogRows /\ e.version = new.version
      /\ e.new = Mask(new.secret, new.value)
      /\ new.secret => e.old \in {None, "***"} /\ e.new \in {None, "***"}
  BY <1>3, MaskedRow
<1> HIDE DEF e
<1>6. settingLog = <<>> /\ settingLog \in Seq(SettingLogRows)
  BY <1>1 DEF AdminInv, AdminRowsAgree
<1>7. /\ settingLog' \in Seq(SettingLogRows) /\ settingLog' # <<>>
      /\ DOMAIN settingLog' = 1 .. 1 /\ Len(settingLog') = 1
      /\ settingLog'[1] = e /\ Last(settingLog') = e
  <2>1. /\ settingLog' \in Seq(SettingLogRows) /\ settingLog' # <<>>
        /\ Len(settingLog') = Len(settingLog) + 1
        /\ DOMAIN settingLog' = 1 .. (Len(settingLog) + 1)
        /\ settingLog'[Len(settingLog) + 1] = e /\ Last(settingLog') = e
    BY <1>1, <1>5, <1>6, LogExtended
  <2>2. Len(settingLog) = 0 /\ 0 + 1 = 1
    BY <1>6
  <2> QED
    BY <2>1, <2>2
<1>8. SecretIsMasked'
  <2>1. \A i \in DOMAIN settingLog' : settingLog'[i] = e
    BY <1>7
  <2>2. setting'.secret => e.old \in {None, "***"} /\ e.new \in {None, "***"}
    BY <1>1, <1>5, Zenon
  <2> QED
    BY <2>1, <2>2 DEF SecretIsMasked
<1>9. VersionCountsValues'
  <2>1. /\ setting'.version = Last(settingLog').version
        /\ Mask(setting'.secret, setting'.value) = Last(settingLog').new
    BY <1>1, <1>5, <1>7, Zenon
  <2>2. 1 .. Len(settingLog') - 1 = {}
    BY <1>7
  <2> QED
    BY <2>1, <2>2 DEF VersionCountsValues
<1>10. audit' \subseteq AuditRows
  BY <1>1, AuditAdded DEF Entities
<1>11. \A i \in DOMAIN settingLog' : settingLog'[i] \in SettingLogRows
  BY <1>5, <1>7
<1>12. AdminTypeOK'
  BY <1>1, <1>3, <1>10, <1>11 DEF AdminInv, AdminRowsAgree, AdminTypeOK
<1>13. SessionsOK' /\ \A q \in Requests : AdminRead(q)'
  BY <1>1, AdminEnds DEF SettingKept
<1> QED
  BY <1>1, <1>4, <1>7, <1>8, <1>9, <1>12, <1>13 DEF AdminInv, AdminRowsAgree, SettingsAgree

LEMMA UpdateSettingStep ==
  ASSUME AdminInv, NEW r \in Requests, UpdateSetting(r)
  PROVE  AdminInv'
<1> DEFINE p == Posted(r)
           old == Loaded(r).setting
           new == Revised(old, p.value, p.active)
           e == [by |-> r, old |-> Mask(new.secret, old.value),
                 new |-> Mask(new.secret, new.value), version |-> new.version]
<1>1. /\ session[r].at = "loaded" /\ r \in Open /\ p.kind = "setting" /\ old # None
      /\ setting' = Merge(setting, old, new)
      /\ settingLog' = IF new.value # old.value THEN Append(settingLog, e) ELSE settingLog
      /\ AuditIf(new # old, r, "setting") /\ Finish(r, "done")
      /\ UNCHANGED <<user, granted, holds, link, configs, item>>
  BY DEF UpdateSetting, Handles, Posted, Close, Open, Logged
<1>2. /\ p.value \in Values \cup {None} /\ p.active \in BOOLEAN \cup {None}
      /\ old \in SettingRows /\ setting # None /\ setting.secret = old.secret
      /\ ~overlapped => old = setting
  BY <1>1, AdminOperation DEF AdminInv, AdminRead, Posted
<1>3. setting \in SettingRows
  BY <1>2 DEF AdminInv, AdminRowsAgree, AdminTypeOK
<1> HIDE DEF p, old
<1>4. /\ new \in SettingRows /\ new.secret = old.secret
      /\ new.version = IF new.value # old.value THEN old.version + 1 ELSE old.version
  BY <1>2, RevisedRow
<1> HIDE DEF new
<1>5. /\ setting' \in SettingRows
      /\ setting'.value = IF new.value = old.value THEN setting.value ELSE new.value
      /\ setting'.secret = setting.secret
      /\ setting'.version = IF new.version = old.version THEN setting.version ELSE new.version
  BY <1>1, <1>2, <1>3, <1>4, SettingMerged
<1>6. setting' # None /\ SettingKept
  BY <1>5, AdminAssumption DEF SettingKept
<1>7. old.value \in Values \cup {None} /\ old.version \in Nat
  BY <1>2 DEF SettingRows
<1>8. /\ e \in SettingLogRows /\ e.version = new.version
      /\ e.old = Mask(new.secret, old.value) /\ e.new = Mask(new.secret, new.value)
      /\ new.secret => e.old \in {None, "***"} /\ e.new \in {None, "***"}
  BY <1>4, <1>7, MaskedRow
<1> HIDE DEF e
<1>9. settingLog \in Seq(SettingLogRows) /\ SecretIsMasked /\ VersionCountsValues
  BY DEF AdminInv, AdminRowsAgree, SettingsAgree
<1>10. /\ SessionsOK' /\ \A q \in Requests : AdminRead(q)'
       /\ overlapped' = overlapped /\ overlapped \in BOOLEAN
  BY <1>1, <1>6, AdminEnds
<1>11. ASSUME new.value = old.value
      PROVE  settingLog' \in Seq(SettingLogRows) /\ SecretIsMasked' /\ VersionCountsValues'
  <2>1. /\ setting'.value = setting.value /\ setting'.secret = setting.secret
        /\ setting'.version = setting.version /\ settingLog' = settingLog
    BY <1>1, <1>4, <1>5, <1>11
  <2>2. SecretIsMasked'
    BY <1>2, <1>9, <2>1 DEF SecretIsMasked
  <2>3. VersionCountsValues'
    BY <1>9, <1>10, <2>1 DEF VersionCountsValues
  <2>4. settingLog' \in Seq(SettingLogRows)
    BY <1>9, <2>1
  <2> QED
    BY <2>2, <2>3, <2>4
<1>12. ASSUME new.value # old.value
      PROVE  settingLog' \in Seq(SettingLogRows) /\ SecretIsMasked' /\ VersionCountsValues'
  <2>1. /\ settingLog' \in Seq(SettingLogRows) /\ settingLog' # <<>>
        /\ Len(settingLog) \in Nat /\ Len(settingLog') = Len(settingLog) + 1
        /\ DOMAIN settingLog = 1 .. Len(settingLog)
        /\ DOMAIN settingLog' = 1 .. (Len(settingLog) + 1)
        /\ settingLog'[Len(settingLog) + 1] = e /\ Last(settingLog') = e
        /\ \A i \in 1 .. Len(settingLog) : settingLog'[i] = settingLog[i]
    BY <1>1, <1>8, <1>9, <1>12, LogExtended
  <2>2. SecretIsMasked'
    <3> SUFFICES ASSUME setting'.secret, NEW i \in DOMAIN settingLog'
                 PROVE  {settingLog'[i].old, settingLog'[i].new} \subseteq {None, "***"}
      BY DEF SecretIsMasked
    <3>1. setting.secret /\ new.secret
      BY <1>2, <1>4, <1>5
    <3>2. CASE i = Len(settingLog) + 1
      BY <1>8, <2>1, <3>1, <3>2
    <3>3. CASE i \in DOMAIN settingLog
      BY <1>2, <1>9, <2>1, <3>1, <3>3 DEF SecretIsMasked
    <3> QED
      BY <2>1, <3>2, <3>3
  <2>3. ASSUME ~overlapped'
        PROVE  /\ setting'.version = Last(settingLog').version
               /\ Mask(setting'.secret, setting'.value) = Last(settingLog').new
               /\ \A i \in 1 .. Len(settingLog') - 1 :
                    /\ settingLog'[i + 1].version = settingLog'[i].version + 1
                    /\ settingLog'[i + 1].old = settingLog'[i].new
    <3>1. ~overlapped /\ old = setting
      BY <1>2, <1>10, <2>3
    <3>2. new.version = setting.version + 1 /\ setting.version \in Nat
      BY <1>4, <1>7, <1>12, <3>1
    <3>3. setting'.version = new.version /\ setting'.value = new.value
          /\ setting'.secret = new.secret /\ new.secret = setting.secret
      BY <1>2, <1>4, <1>5, <1>12, <3>1, <3>2
    <3>4. setting'.version = Last(settingLog').version
          /\ Mask(setting'.secret, setting'.value) = Last(settingLog').new
      BY <1>8, <2>1, <3>3
    <3>5. ASSUME NEW i \in 1 .. Len(settingLog') - 1
          PROVE  /\ settingLog'[i + 1].version = settingLog'[i].version + 1
                 /\ settingLog'[i + 1].old = settingLog'[i].new
      <4>1. i \in 1 .. Len(settingLog) /\ settingLog # <<>>
        BY <2>1, <3>5
      <4>2. /\ setting.version = settingLog[Len(settingLog)].version
            /\ Mask(setting.secret, setting.value) = settingLog[Len(settingLog)].new
        BY <1>9, <3>1, <4>1 DEF VersionCountsValues, Last
      <4>3. CASE i = Len(settingLog)
        BY <1>8, <2>1, <3>1, <3>2, <3>3, <4>2, <4>3
      <4>4. CASE i # Len(settingLog)
        <5> DEFINE n == Len(settingLog)
        <5>0. n \in Nat /\ i \in 1 .. n /\ i # n
          BY <2>1, <4>1, <4>4
        <5> HIDE DEF n
        <5>1. i \in 1 .. n - 1 /\ i + 1 \in 1 .. n
          BY <5>0
        <5> USE DEF n
        <5>2. /\ settingLog[i + 1].version = settingLog[i].version + 1
              /\ settingLog[i + 1].old = settingLog[i].new
          BY <1>9, <3>1, <4>1, <5>1 DEF VersionCountsValues
        <5> QED
          BY <2>1, <4>1, <5>1, <5>2
      <4> QED
        BY <4>3, <4>4
    <3> QED
      BY <3>4, <3>5
  <2>4. VersionCountsValues'
    BY <2>3 DEF VersionCountsValues
  <2> QED
    BY <2>1, <2>2, <2>4
<1>13. \A i \in DOMAIN settingLog' : settingLog'[i] \in SettingLogRows
  <2>1. settingLog' \in Seq(SettingLogRows)
    BY <1>11, <1>12
  <2> QED
    BY <2>1
<1>14. audit' \subseteq AuditRows
  BY <1>1, AuditAdded DEF Entities
<1>15. AdminTypeOK'
  BY <1>1, <1>5, <1>13, <1>14 DEF AdminInv, AdminRowsAgree, AdminTypeOK
<1> QED
  BY <1>6, <1>10, <1>11, <1>12, <1>15 DEF AdminInv, AdminRowsAgree, SettingsAgree

LEMMA Replacement ==
  ASSUME NEW S, NEW present \in SUBSET S, NEW gone \in SUBSET S, NEW new \in SUBSET S
  PROVE  /\ Replaced(present, gone, new) \in SUBSET S
         /\ gone = present => Replaced(present, gone, new) = new
  BY DEF Replaced

LEMMA UserMerged ==
  ASSUME NEW row \in UserRows, NEW old \in UserRows,
         NEW super \in BOOLEAN, NEW active \in BOOLEAN
  PROVE  LET new == [super |-> super, active |-> active]
         IN  Merge(row, old, new) \in UserRows /\ (new = old => Merge(row, old, new) = row)
<1> DEFINE new == [super |-> super, active |-> active]
           m == Merge(row, old, new)
<1>1. new \in UserRows
  BY DEF UserRows
<1>2. DOMAIN row = {"super", "active"} /\ row = [f \in {"super", "active"} |-> row[f]]
  BY DEF UserRows
<1>3. \A x \in {row, new} : x["super"] \in BOOLEAN /\ x["active"] \in BOOLEAN
  BY <1>1 DEF UserRows
<1> HIDE DEF new
<1>4. m = [f \in {"super", "active"} |-> IF new[f] = old[f] THEN row[f] ELSE new[f]]
  BY <1>2 DEF Merge
<1>5. m["super"] \in BOOLEAN /\ m["active"] \in BOOLEAN
  BY <1>3, <1>4
<1>6. new = old => m = row
  BY <1>2, <1>4
<1> HIDE DEF m
<1>7. m \in UserRows
  BY <1>4, <1>5 DEF UserRows
<1> QED
  BY <1>6, <1>7 DEF m, new

LEMMA LinkMerged ==
  ASSUME NEW row \in LinkRowsOf, NEW old \in LinkRowsOf, NEW new \in LinkRowsOf
  PROVE  /\ Merge(row, old, new) \in LinkRowsOf
         /\ row = old => Merge(row, old, new) = new
         /\ new.enabled = old.enabled => Merge(row, old, new).enabled = row.enabled
<1> DEFINE m == Merge(row, old, new)
           Fields == {"enabled", "status", "provider"}
<1>1. /\ DOMAIN row = Fields /\ DOMAIN new = Fields
      /\ new = [f \in Fields |-> new[f]]
      /\ \A x \in {row, old, new} : /\ x.enabled = x["enabled"]
                                    /\ x["status"] \in {"inactive", "active", "error"}
                                    /\ x["provider"] \in {"sms", None}
  BY DEF LinkRowsOf
<1>2. \A x \in {row, old, new} : x["enabled"] \in BOOLEAN
  BY DEF LinkRowsOf
<1>3. m = [f \in Fields |-> IF new[f] = old[f] THEN row[f] ELSE new[f]]
  BY <1>1 DEF Merge
<1>4. m["status"] \in {"inactive", "active", "error"} /\ m["provider"] \in {"sms", None}
  BY <1>1, <1>3
<1>5. m["enabled"] \in BOOLEAN
  BY <1>2, <1>3
<1>6. row = old => m = new
  <2>1. ASSUME row = old PROVE \A f \in Fields : (IF new[f] = old[f] THEN row[f] ELSE new[f]) = new[f]
    BY <2>1
  <2> QED
    BY <1>1, <1>3, <2>1
<1>7. new.enabled = old.enabled => m["enabled"] = row.enabled
  BY <1>1, <1>3
<1> HIDE DEF m
<1>8. m.enabled = m["enabled"]
  OBVIOUS
<1>9. m \in LinkRowsOf
  BY <1>3, <1>4, <1>5 DEF LinkRowsOf
<1> QED
  BY <1>6, <1>7, <1>8, <1>9 DEF m

LEMMA AdminUpdated ==
  ASSUME AdminInv, NEW r \in Requests, r \in Open, NEW at \in {"done", "failed"},
         Finish(r, at), UNCHANGED <<setting, settingLog>>,
         user' \in UserRows, granted' \in GrantRows, holds' \in HoldingRows,
         link' \in LinkRowsOf, configs' \subseteq {"host", "port"},
         item' \in {"old", "new", None}, audit' \subseteq AuditRows
  PROVE  AdminInv'
<1>1. overlapped' = overlapped /\ overlapped \in BOOLEAN
  BY FinishStep DEF AdminInv, SessionsOK
<1>2. AdminRowsAgree' /\ SettingKept
  BY <1>1, SettingsUntouched
<1> QED
  BY <1>2, AdminEnds DEF AdminInv

\* What is changed is recorded by the request that changes it.
RecordedBy(r) ==
  \/ \E a \in audit' : a.by = r
  \/ <<setting, user, granted, holds, configs, item, link.enabled>>'
       = <<setting, user, granted, holds, configs, item, link.enabled>>

LEMMA AuditedIsRecorded ==
  ASSUME NEW r \in Requests, NEW entity, Audit(r, entity)
  PROVE  RecordedBy(r)
<1>1. [by |-> r, entity |-> entity] \in audit'
  BY DEF Audit
<1> QED
  BY <1>1 DEF RecordedBy

\* What the tables hold, in the form that the steps need.
LEMMA AdminTables ==
  ASSUME AdminInv
  PROVE  /\ user \in UserRows /\ granted \in GrantRows /\ holds \in HoldingRows
         /\ link \in LinkRowsOf /\ configs \subseteq {"host", "port"}
         /\ item \in {"old", "new", None} /\ audit \subseteq AuditRows
  BY DEF AdminInv, AdminRowsAgree, AdminTypeOK

LEMMA AnsweredBoolean ==
  ASSUME NEW asked \in BOOLEAN \cup {None}, NEW present \in BOOLEAN
  PROVE  GivenOr(asked, present) \in BOOLEAN
<1>1. CASE asked = None
  BY <1>1 DEF GivenOr
<1>2. CASE asked # None
  <2>1. asked \in BOOLEAN
    BY <1>2
  <2> QED
    BY <1>2, <2>1 DEF GivenOr
<1> QED
  BY <1>1, <1>2

LEMMA UpdateUserStep ==
  ASSUME AdminInv, NEW r \in Requests, UpdateUser(r)
  PROVE  /\ AdminInv' /\ RecordedBy(r)
         /\ session[r].at = "loaded" /\ Posted(r).kind = "user"
         /\ ~overlapped /\ Posted(r).roles # None => granted' = Posted(r).roles
<1> DEFINE p == Posted(r)
           old == Loaded(r).user
           new == [super |-> GivenOr(p.super, old.super),
                   active |-> GivenOr(p.active, old.active)]
           gone == Loaded(r).granted
<1>1. /\ session[r].at = "loaded" /\ r \in Open /\ p.kind = "user"
      /\ user' = Merge(user, old, new)
      /\ AuditIf(Changed(r, new, old), r, "user")
      /\ Finish(r, "done")
      /\ UNCHANGED <<setting, settingLog, holds, link, configs, item>>
  BY DEF UpdateUser, Handles, Posted, Close, Open
<1>2. IF p.roles = None THEN granted' = granted ELSE granted' = Replaced(granted, gone, p.roles)
  BY DEF UpdateUser
<1>3. /\ p.super \in BOOLEAN \cup {None} /\ p.active \in BOOLEAN \cup {None}
      /\ p.roles \in (SUBSET Roles) \cup {None}
      /\ old \in UserRows /\ gone \in GrantRows
      /\ ~overlapped => gone = granted
  BY <1>1, AdminOperation DEF AdminInv, AdminRead, Posted
<1>4. Changed(r, new, old) \/ (new = old /\ p.roles = None)
  BY DEF Changed
<1> HIDE DEF p, old, gone
<1>5. old.super \in BOOLEAN /\ old.active \in BOOLEAN
  BY <1>3 DEF UserRows
<1>6. GivenOr(p.super, old.super) \in BOOLEAN /\ GivenOr(p.active, old.active) \in BOOLEAN
  BY <1>3, <1>5, AnsweredBoolean
<1>7. user' \in UserRows /\ (new = old => user' = user)
  BY <1>1, <1>3, <1>6, AdminTables, UserMerged
<1>8. granted' \in GrantRows /\ (~overlapped /\ p.roles # None => granted' = p.roles)
  <2>1. CASE p.roles = None
    BY <1>2, <2>1, AdminTables
  <2>2. CASE p.roles # None
    <3>1. p.roles \in SUBSET Roles
      BY <1>3, <2>2
    <3>2. granted \in SUBSET Roles /\ gone \in SUBSET Roles
      BY <1>3, AdminTables DEF GrantRows
    <3>3. /\ Replaced(granted, gone, p.roles) \in SUBSET Roles
          /\ gone = granted => Replaced(granted, gone, p.roles) = p.roles
      BY <3>1, <3>2 DEF Replaced
    <3> QED
      BY <1>2, <1>3, <2>2, <3>3 DEF GrantRows
  <2> QED
    BY <2>1, <2>2
<1>9. audit' \subseteq AuditRows
  BY <1>1, AuditAdded DEF Entities
<1>10. RecordedBy(r)
  <2>1. CASE Changed(r, new, old)
    BY <1>1, <2>1, AuditedIsRecorded DEF AuditIf
  <2>2. CASE new = old /\ p.roles = None
    BY <1>1, <1>2, <1>7, <2>2 DEF RecordedBy
  <2> QED
    BY <1>4, <2>1, <2>2
<1>11. AdminInv'
  BY <1>1, <1>7, <1>8, <1>9, AdminTables, AdminUpdated
<1> QED
  BY <1>1, <1>8, <1>10, <1>11 DEF p

LEMMA UpdateRoleStep ==
  ASSUME AdminInv, NEW r \in Requests, UpdateRole(r)
  PROVE  /\ AdminInv' /\ RecordedBy(r)
         /\ session[r].at = "loaded" /\ Posted(r).kind = "role"
         /\ ~overlapped => holds'[Posted(r).role] = Posted(r).permissions
<1> DEFINE role == Posted(r).role
           new == Posted(r).permissions
           gone == Loaded(r).holds[role]
<1>1. /\ session[r].at = "loaded" /\ r \in Open /\ Posted(r).kind = "role"
      /\ holds' = [holds EXCEPT ![role] = Replaced(@, gone, new)]
      /\ Audit(r, "role") /\ Finish(r, "done")
      /\ UNCHANGED <<setting, settingLog, user, granted, link, configs, item>>
  BY DEF UpdateRole, Handles, Posted, Close, Open
<1>2. /\ role \in Roles /\ new \in SUBSET Permissions
      /\ Loaded(r).holds \in HoldingRows /\ (~overlapped => Loaded(r).holds = holds)
  BY <1>1, AdminOperation DEF AdminInv, AdminRead, Posted
<1>3. gone \in SUBSET Permissions /\ (~overlapped => gone = holds[role])
  BY <1>2 DEF HoldingRows
<1>4. holds \in [Roles -> SUBSET Permissions]
  BY AdminTables DEF HoldingRows
<1> HIDE DEF role, new, gone
<1>5. /\ Replaced(holds[role], gone, new) \in SUBSET Permissions
      /\ ~overlapped => Replaced(holds[role], gone, new) = new
  BY <1>2, <1>3, <1>4, Replacement
<1>6. holds' \in HoldingRows /\ (~overlapped => holds'[role] = new)
  BY <1>1, <1>2, <1>4, <1>5 DEF HoldingRows
<1>7. audit' \subseteq AuditRows
  BY <1>1, AuditAdded DEF Entities
<1>8. AdminInv'
  BY <1>1, <1>6, <1>7, AdminTables, AdminUpdated
<1> QED
  BY <1>1, <1>6, <1>8, AuditedIsRecorded DEF role, new

LEMMA UpdateIntegrationStep ==
  ASSUME AdminInv, NEW r \in Requests, UpdateIntegration(r)
  PROVE  /\ AdminInv' /\ RecordedBy(r)
         /\ session[r].at = "loaded" /\ Posted(r).kind = "integration"
         /\ ~overlapped /\ Posted(r).configs # None => configs' = Posted(r).configs
<1> DEFINE p == Posted(r)
           old == Loaded(r).link
           new == [old EXCEPT !.enabled = GivenOr(p.enabled, old.enabled),
                              !.provider = GivenOr(p.provider, old.provider)]
           gone == Loaded(r).configs
<1>1. /\ session[r].at = "loaded" /\ r \in Open /\ p.kind = "integration"
      /\ link' = Merge(link, old, new)
      /\ AuditIf(new.enabled # old.enabled \/ p.configs # None, r, "integration")
      /\ Finish(r, "done")
      /\ UNCHANGED <<setting, settingLog, user, granted, holds, item>>
  BY DEF UpdateIntegration, Handles, Posted, Close, Open
<1>2. IF p.configs = None THEN configs' = configs
      ELSE configs' = Replaced(configs, gone, p.configs)
  BY DEF UpdateIntegration
<1>3. /\ p.enabled \in BOOLEAN \cup {None} /\ p.provider \in {"sms", None}
      /\ p.configs \in (SUBSET {"host", "port"}) \cup {None}
      /\ old \in LinkRowsOf /\ gone \in SUBSET {"host", "port"}
      /\ ~overlapped => gone = configs
  BY <1>1, AdminOperation DEF AdminInv, AdminRead, Posted
<1> HIDE DEF p, old, gone
<1>4. GivenOr(p.enabled, old.enabled) \in BOOLEAN
  <2>1. old.enabled \in BOOLEAN
    BY <1>3 DEF LinkRowsOf
  <2> QED
    BY <1>3, <2>1, AnsweredBoolean
<1>5. GivenOr(p.provider, old.provider) \in {"sms", None}
  BY <1>3 DEF LinkRowsOf, GivenOr
<1>6. new \in LinkRowsOf
  BY <1>3, <1>4, <1>5 DEF LinkRowsOf
<1> HIDE DEF new
<1>7. link' \in LinkRowsOf /\ (new.enabled = old.enabled => link'.enabled = link.enabled)
  BY <1>1, <1>3, <1>6, AdminTables, LinkMerged
<1>8. /\ configs' \subseteq {"host", "port"}
      /\ ~overlapped /\ p.configs # None => configs' = p.configs
  <2>1. CASE p.configs = None
    BY <1>2, <2>1, AdminTables
  <2>2. CASE p.configs # None
    <3>1. p.configs \in SUBSET {"host", "port"}
      BY <1>3, <2>2
    <3>2. configs \in SUBSET {"host", "port"}
      BY AdminTables
    <3>3. /\ Replaced(configs, gone, p.configs) \in SUBSET {"host", "port"}
          /\ gone = configs => Replaced(configs, gone, p.configs) = p.configs
      BY <1>3, <3>1, <3>2 DEF Replaced
    <3> QED
      BY <1>2, <1>3, <2>2, <3>3
  <2> QED
    BY <2>1, <2>2
<1>9. audit' \subseteq AuditRows
  BY <1>1, AuditAdded DEF Entities
<1>10. RecordedBy(r)
  <2>1. CASE new.enabled # old.enabled \/ p.configs # None
    BY <1>1, <2>1, AuditedIsRecorded DEF AuditIf
  <2>2. CASE new.enabled = old.enabled /\ p.configs = None
    BY <1>1, <1>2, <1>7, <2>2 DEF RecordedBy
  <2> QED
    BY <2>1, <2>2
<1>11. AdminInv'
  BY <1>1, <1>7, <1>8, <1>9, AdminTables, AdminUpdated
<1> QED
  BY <1>1, <1>8, <1>10, <1>11 DEF p

LEMMA HealthCheckStep ==
  ASSUME AdminInv, NEW r \in Requests, HealthCheck(r)
  PROVE  /\ AdminInv' /\ RecordedBy(r)
         /\ session[r].at = "loaded" /\ Posted(r).kind = "health"
         /\ ~overlapped => (link'.status = "active" <=> link'.enabled)
<1> DEFINE old == Loaded(r).link
           new == Health(old)
<1>1. /\ session[r].at = "loaded" /\ r \in Open /\ Posted(r).kind = "health"
      /\ link' = Merge(link, old, new) /\ Finish(r, "done")
      /\ UNCHANGED <<setting, settingLog, user, granted, holds, configs, item, audit>>
  BY DEF HealthCheck, Handles, Posted, Close, Open
<1>2. old \in LinkRowsOf /\ (~overlapped => old = link)
  BY <1>1 DEF AdminInv, AdminRead
<1> HIDE DEF old
<1>3. /\ new = [old EXCEPT !.status = IF old.enabled THEN "active" ELSE "inactive"]
      /\ DOMAIN old = {"enabled", "status", "provider"}
  BY <1>2 DEF Health, LinkRowsOf
<1>4. /\ new.status = IF old.enabled THEN "active" ELSE "inactive"
      /\ new.enabled = old.enabled
  BY <1>3
<1>5. new \in LinkRowsOf
  <2>1. CASE old.enabled
    <3>1. new = [old EXCEPT !.status = "active"]
      BY <1>3, <2>1
    <3> QED
      BY <1>2, <3>1 DEF LinkRowsOf
  <2>2. CASE ~old.enabled
    <3>1. new = [old EXCEPT !.status = "inactive"]
      BY <1>3, <2>2
    <3> QED
      BY <1>2, <3>1 DEF LinkRowsOf
  <2> QED
    BY <2>1, <2>2
<1> HIDE DEF new
<1>6. /\ link' \in LinkRowsOf /\ link'.enabled = link.enabled
      /\ ~overlapped => link' = new
  BY <1>1, <1>2, <1>4, <1>5, AdminTables, LinkMerged
<1>7. ~overlapped => (link'.status = "active" <=> link'.enabled)
  <2>1. CASE old.enabled
    BY <1>4, <1>6, <2>1
  <2>2. CASE ~old.enabled
    BY <1>4, <1>6, <2>2
  <2> QED
    BY <2>1, <2>2
<1>8. AdminInv'
  BY <1>1, <1>6, AdminTables, AdminUpdated
<1> QED
  BY <1>1, <1>6, <1>7, <1>8 DEF RecordedBy

LEMMA ItemStep ==
  ASSUME AdminInv, NEW r \in Requests, CreateItem(r) \/ UpdateItem(r)
  PROVE  /\ AdminInv' /\ RecordedBy(r)
         /\ session[r].at = "loaded" /\ Posted(r).kind \in {"new item", "item"}
<1>1. /\ session[r].at = "loaded" /\ r \in Open /\ Posted(r).kind \in {"new item", "item"}
      /\ Finish(r, "done") /\ item' \in {"old", "new", None}
      /\ UNCHANGED <<setting, settingLog, user, granted, holds, link, configs>>
  BY AdminTables DEF CreateItem, UpdateItem, Handles, Posted, Close, Open
<1>2. Audit(r, "directory") \/ (UNCHANGED <<item, audit>>)
  BY DEF CreateItem, UpdateItem, AuditIf
<1>3. RecordedBy(r)
  BY <1>1, <1>2, AuditedIsRecorded DEF RecordedBy
<1>4. audit' \subseteq AuditRows
  BY <1>2, AdminTables, AuditAdded DEF Entities
<1>5. AdminInv'
  BY <1>1, <1>4, AdminTables, AdminUpdated
<1> QED
  BY <1>1, <1>3, <1>5

LEMMA CheckPermissionStep ==
  ASSUME AdminInv, NEW r \in Requests, CheckPermission(r)
  PROVE  /\ AdminInv' /\ RecordedBy(r)
         /\ session[r].at = "loaded" /\ Posted(r).kind = "check"
<1>1. /\ session[r].at = "loaded" /\ r \in Open /\ Posted(r).kind = "check"
      /\ Finish(r, "done")
      /\ UNCHANGED <<setting, settingLog, user, granted, holds, link, configs, item, audit>>
  BY DEF CheckPermission, Handles, Posted, Open, adminTables
<1>2. AdminInv'
  BY <1>1, AdminTables, AdminUpdated
<1> QED
  BY <1>1, <1>2 DEF RecordedBy

LEMMA SettingsStep ==
  ASSUME AdminInv, NEW r \in Requests, Settings(r)
  PROVE  /\ AdminInv' /\ RecordedBy(r)
         /\ session[r].at = "loaded" /\ Posted(r).kind \in {"new setting", "setting"}
<1>1. CASE CreateSetting(r)
  <2>1. RecordedBy(r)
    BY <1>1, AuditedIsRecorded DEF CreateSetting
  <2> QED
    BY <1>1, <2>1, CreateSettingStep DEF CreateSetting, Handles, Posted
<1>2. CASE UpdateSetting(r)
  <2> DEFINE old == Loaded(r).setting
             new == Revised(old, Posted(r).value, Posted(r).active)
  <2>1. /\ session[r].at = "loaded" /\ r \in Open /\ Posted(r).kind = "setting" /\ old # None
        /\ setting' = Merge(setting, old, new) /\ AuditIf(new # old, r, "setting")
        /\ UNCHANGED <<user, granted, holds, link, configs, item>>
    BY <1>2 DEF UpdateSetting, Handles, Posted, Open
  <2>2. setting \in SettingRows
    BY <2>1 DEF AdminInv, AdminRead, AdminRowsAgree, AdminTypeOK
  <2> HIDE DEF old, new
  <2>3. new = old => setting' = setting
    <3>1. setting = [f \in DOMAIN setting |-> setting[f]]
      BY <2>2 DEF SettingRows
    <3> QED
      BY <2>1, <3>1 DEF Merge
  <2>4. RecordedBy(r)
    BY <2>1, <2>3, AuditedIsRecorded DEF AuditIf, RecordedBy
  <2> QED
    BY <1>2, <2>1, <2>4, UpdateSettingStep
<1> QED
  BY <1>1, <1>2 DEF Settings

LEMMA AdminFailedStep ==
  ASSUME AdminInv, NEW r \in Requests, RejectAdmin(r) \/ AdminConnectionLost(r)
  PROVE  AdminInv' /\ Finish(r, "failed") /\ UNCHANGED adminTables
<1>1. r \in Open /\ Finish(r, "failed") /\ UNCHANGED adminTables
  BY DEF RejectAdmin, AdminConnectionLost, Lost, Handles, Open
<1>2. AdminInv'
  BY <1>1, AdminTables, AdminUpdated DEF adminTables
<1> QED
  BY <1>1, <1>2

LEMMA AdminInductive == AdminInv /\ [AdminNext]_adminVars => AdminInv'
<1> SUFFICES ASSUME AdminInv, [AdminNext]_adminVars PROVE AdminInv'
  OBVIOUS
<1>1. ASSUME NEW r \in Requests, NEW op \in AdminBodies, ReceiveAdmin(r, op)
      PROVE  AdminInv'
  BY <1>1, ReceiveAdminStep
<1>2. ASSUME NEW r \in Requests, Junction(r) \/ Settings(r) \/ Accounts(r) \/ Catalogs(r)
      PROVE  AdminInv'
  BY <1>2, JunctionStep, SettingsStep, UpdateUserStep, UpdateRoleStep, CheckPermissionStep,
     UpdateIntegrationStep, HealthCheckStep, ItemStep DEF Accounts, Catalogs
<1>3. ASSUME NEW r \in Requests, RejectAdmin(r) \/ AdminConnectionLost(r)
      PROVE  AdminInv'
  BY <1>3, AdminFailedStep
<1>4. CASE UNCHANGED adminVars
  <2>1. /\ UNCHANGED <<session, overlapped>> /\ SessionsOK' /\ UNCHANGED adminTables
    BY <1>4, SessionsStutter DEF adminVars, AdminInv
  <2>2. overlapped' = overlapped /\ overlapped \in BOOLEAN
    BY <2>1 DEF AdminInv, SessionsOK
  <2>3. \A r \in Requests : AdminRead(r)'
    BY <2>1 DEF AdminInv, AdminRead, Open, Loaded, adminTables
  <2> QED
    BY <2>1, <2>2, <2>3, AdminTablesKept DEF AdminInv
<1> QED
  BY <1>1, <1>2, <1>3, <1>4 DEF AdminNext

\* The setting and its history, the account and what it may do, the integration and
\* the audit log are well formed in every reachable state of app/admin.
THEOREM AdminTypeCorrect == AdminSpec => []AdminTypeOK
<1>1. AdminInv => AdminTypeOK
  BY DEF AdminInv, AdminRowsAgree
<1> QED
  BY <1>1, AdminInitial, AdminInductive, PTL DEF AdminSpec

\* However requests overlap, the history of a secret setting shows masks only; and as
\* long as they do not, its rows lead from value to value, one version at a time, to
\* the value that the setting has.
THEOREM SettingsAlwaysAgree == AdminSpec => []SettingsAgree
<1>1. AdminInv => SettingsAgree
  BY DEF AdminInv, AdminRowsAgree
<1> QED
  BY <1>1, AdminInitial, AdminInductive, PTL DEF AdminSpec

ChangesAreRecorded ==
  \A r \in Requests :
    session'[r].at = "done" /\ session[r].at # "done"
    /\ <<setting, user, granted, holds, configs, item, link.enabled>>'
         # <<setting, user, granted, holds, configs, item, link.enabled>>
      => \E a \in audit' : a.by = r

AreReplacedAsAsked ==
  \A r \in Requests :
    ~overlapped' /\ session[r].at = "loaded" /\ session'[r].at = "done" =>
      /\ Posted(r).kind = "user" /\ Posted(r).roles # None => granted' = Posted(r).roles
      /\ Posted(r).kind = "role" => holds'[Posted(r).role] = Posted(r).permissions
      /\ Posted(r).kind = "integration" /\ Posted(r).configs # None
           => configs' = Posted(r).configs

DecisionsAreCurrent ==
  \A d \in decisions' \ decisions :
    ~overlapped' =>
      (d.allowed <=> user.super \/ d.permission \in UNION {holds[role] : role \in granted})

HealthsAreCurrent ==
  \A r \in Requests :
    ~overlapped' /\ session[r].at = "loaded" /\ session'[r].at = "done"
    /\ Posted(r).kind = "health" => (link'.status = "active" <=> link'.enabled)

\* A request is done by what it asked for, and by nothing else.
LEMMA AdminIsDone ==
  ASSUME AdminInv, AdminNext, NEW r \in Requests, session'[r].at = "done",
         session[r].at # "done"
  PROVE  /\ Settings(r) \/ Accounts(r) \/ Catalogs(r)
         /\ session[r].at = "loaded" /\ Finish(r, "done")
<1>1. PICK q \in Requests :
        \/ \E op \in AdminBodies : ReceiveAdmin(q, op)
        \/ Junction(q) \/ Settings(q) \/ Accounts(q) \/ Catalogs(q)
        \/ RejectAdmin(q) \/ AdminConnectionLost(q)
  BY DEF AdminNext
<1>2. /\ Settings(q) \/ Accounts(q) \/ Catalogs(q)
           => session[q].at = "loaded" /\ Finish(q, "done")
      /\ RejectAdmin(q) \/ AdminConnectionLost(q) => Finish(q, "failed")
  BY AdminFailedStep DEF Settings, Accounts, Catalogs, CreateSetting, UpdateSetting, UpdateUser,
     UpdateRole, CheckPermission, UpdateIntegration, HealthCheck, CreateItem, UpdateItem,
     Handles, Close
<1>3. ASSUME NEW op \in AdminBodies, ReceiveAdmin(q, op)
      PROVE  OthersKeep(q) /\ session'[q].at = "row"
  BY <1>3, BeginStep DEF ReceiveAdmin, AdminInv
<1>4. Junction(q) => OthersKeep(q) /\ session'[q].at = "loaded"
  BY LoadStep DEF Junction, AdminInv
<1>5. Finish(q, "done") => OthersKeep(q)
  BY FinishStep DEF AdminInv
<1>6. Finish(q, "failed") => OthersKeep(q) /\ session'[q].at = "failed"
  BY FinishStep DEF AdminInv
<1>7. OthersKeep(q)
  BY <1>1, <1>2, <1>3, <1>4, <1>5, <1>6
<1>8. q = r
  BY <1>7 DEF OthersKeep
<1> QED
  BY <1>1, <1>2, <1>3, <1>4, <1>6, <1>8

LEMMA AdminDoneStep ==
  ASSUME AdminInv, AdminNext
  PROVE  ChangesAreRecorded /\ AreReplacedAsAsked /\ HealthsAreCurrent
<1>1. ASSUME NEW r \in Requests, session'[r].at = "done", session[r].at # "done"
      PROVE  RecordedBy(r)
  <2>1. Settings(r) \/ Accounts(r) \/ Catalogs(r)
    BY <1>1, AdminIsDone
  <2> QED
    BY <2>1, SettingsStep, UpdateUserStep, UpdateRoleStep, CheckPermissionStep,
       UpdateIntegrationStep, HealthCheckStep, ItemStep DEF Accounts, Catalogs
<1>2. ChangesAreRecorded
  BY <1>1 DEF ChangesAreRecorded, RecordedBy
<1>3. ASSUME NEW r \in Requests, ~overlapped', session[r].at = "loaded", session'[r].at = "done"
      PROVE  /\ Posted(r).kind = "user" /\ Posted(r).roles # None => granted' = Posted(r).roles
             /\ Posted(r).kind = "role" => holds'[Posted(r).role] = Posted(r).permissions
             /\ Posted(r).kind = "integration" /\ Posted(r).configs # None
                  => configs' = Posted(r).configs
             /\ Posted(r).kind = "health" => (link'.status = "active" <=> link'.enabled)
  <2>1. (Settings(r) \/ Accounts(r) \/ Catalogs(r)) /\ Finish(r, "done")
    BY <1>3, AdminIsDone
  <2>2. ~overlapped
    BY <1>3, <2>1 DEF Finish
  <2>3. CASE Settings(r)
    BY <2>3, SettingsStep
  <2>4. CASE UpdateUser(r)
    BY <2>2, <2>4, UpdateUserStep
  <2>5. CASE UpdateRole(r)
    BY <2>2, <2>5, UpdateRoleStep
  <2>6. CASE CheckPermission(r)
    BY <2>6, CheckPermissionStep
  <2>7. CASE UpdateIntegration(r)
    BY <2>2, <2>7, UpdateIntegrationStep
  <2>8. CASE HealthCheck(r)
    BY <2>2, <2>8, HealthCheckStep
  <2>9. CASE CreateItem(r) \/ UpdateItem(r)
    BY <2>9, ItemStep
  <2> QED
    BY <2>1, <2>3, <2>4, <2>5, <2>6, <2>7, <2>8, <2>9 DEF Accounts, Catalogs
<1>4. AreReplacedAsAsked
  BY <1>3 DEF AreReplacedAsAsked
<1>5. HealthsAreCurrent
  BY <1>3 DEF HealthsAreCurrent
<1> QED
  BY <1>2, <1>4, <1>5

LEMMA DecisionsStep == ASSUME AdminInv, AdminNext PROVE DecisionsAreCurrent
<1>1. UNCHANGED decisions \/ \E r \in Requests : CheckPermission(r)
  BY DEF AdminNext, ReceiveAdmin, Junction, Settings, Accounts, Catalogs, CreateSetting,
     UpdateSetting, UpdateUser, UpdateRole, UpdateIntegration, HealthCheck, CreateItem,
     UpdateItem, RejectAdmin, AdminConnectionLost, Close
<1>2. ASSUME NEW r \in Requests, CheckPermission(r), NEW d \in decisions' \ decisions,
             ~overlapped'
      PROVE  d.allowed <=> user.super \/ d.permission \in UNION {holds[role] : role \in granted}
  <2> DEFINE p == Posted(r).permission
             allowed == Permitted(Loaded(r).user, Loaded(r).granted, Loaded(r).holds, p)
  <2>1. /\ session[r].at = "loaded" /\ Finish(r, "done")
        /\ d = [by |-> r, permission |-> p, allowed |-> allowed]
    BY <1>2 DEF CheckPermission, Handles
  <2>2. ~overlapped
    BY <1>2, <2>1 DEF Finish
  <2>3. /\ Loaded(r).user = user /\ Loaded(r).granted = granted /\ Loaded(r).holds = holds
    BY <2>1, <2>2 DEF AdminInv, AdminRead, Open
  <2> HIDE DEF allowed, p
  <2>4. d.permission = p /\ (d.allowed <=> allowed)
    BY <2>1, Zenon
  <2>5. allowed <=> user.super \/ \E role \in granted : p \in holds[role]
    BY <2>3, Zenon DEF allowed, Permitted
  <2>6. (\E role \in granted : p \in holds[role]) <=> p \in UNION {holds[role] : role \in granted}
    BY Zenon
  <2> QED
    BY <2>4, <2>5, <2>6, Zenon
<1> QED
  BY <1>1, <1>2 DEF DecisionsAreCurrent

\* Whatever overlaps, what an administrator is told was done is in the audit log; and
\* without overlaps a set is replaced by the one that was asked for, a permission is
\* given exactly when the user has it, and a health check leaves the status that
\* belongs to what is enabled.
THEOREM AdminStepsAlwaysHold == AdminSpec => AdminStepsHold
<1>1. AdminInv /\ [AdminNext]_adminVars
        => (ChangesAreRecorded /\ AreReplacedAsAsked /\ DecisionsAreCurrent /\ HealthsAreCurrent)
           \/ UNCHANGED adminVars
  BY AdminDoneStep, DecisionsStep
<1>2. AdminSpec => [][ChangesAreRecorded /\ AreReplacedAsAsked /\ DecisionsAreCurrent
                       /\ HealthsAreCurrent]_adminVars
  BY <1>1, AdminInitial, AdminInductive, PTL DEF AdminSpec
<1>3. AdminSpec => ChangeIsRecorded /\ ReplacedAsAsked /\ DecisionIsCurrent /\ HealthIsCurrent
  BY <1>2, PTL DEF ChangeIsRecorded, ReplacedAsAsked, DecisionIsCurrent, HealthIsCurrent,
     ChangesAreRecorded, AreReplacedAsAsked, DecisionsAreCurrent, HealthsAreCurrent
<1> QED
  BY <1>3 DEF AdminStepsHold

-----------------------------------------------------------------------------
(* Crisis operations (app/crisis).                                          *)

LEMMA CrisisArgument ==
  ASSUME NEW op \in CrisisOps
  PROVE  /\ op.kind = "steer" => op.arg \in {"active", "closed", "halted"}
         /\ op.kind = "sector" => op.arg = "south"
         /\ op.kind = "situation" => op.arg = "contained"
         /\ op.kind = "group" => op.arg \in {None, "north", "elsewhere"}
         /\ op.kind = "relocate" => op.arg \in AnySector \cup {None}
         /\ op.kind \in {"plan", "progress"} => op.arg \in {"stage", "task"}
         /\ op.kind = "add" => op.arg \in Tables
  BY DEF CrisisOps, CrisisOperation

\* What a request has read is well formed; an operation that was read is still there,
\* and has an end if it had one then; and as long as nothing has overlapped the forces
\* are where they were.
CrisisRead(r) ==
  r \in Open =>
    /\ session[r].op \in CrisisOps /\ Had(r).at \in Nat
    /\ Had(r).operation \in OperationRows \cup {None}
    /\ Had(r).operation # None =>
         /\ operation # None
         /\ Had(r).operation.ended # None => operation.ended # None
    /\ Had(r).place \in AnySector \cup {None, "absent"}
    /\ ~overlapped => Had(r).sector = sector /\ Had(r).place = place

OperationKept ==
  operation # None => /\ operation' # None
                      /\ operation.ended # None => operation'.ended # None

HeadquartersOK ==
  /\ operation \in OperationRows \cup {None}
  /\ operation = None => staff = {}
  /\ operation # None => \E x : staff = {x}
  /\ ClosedHasEnd

ForcesOK ==
  /\ sector \in [Sectors -> SectorStatuses \cup {None}]
  /\ place \in AnySector \cup {None, "absent"}
  /\ place \in Sectors => sector[place] # None
  /\ moves \in Seq(MoveRows) /\ MovesLeadToPlace

PlanOK ==
  /\ plan \in [{"stage", "task"} -> PlanStatuses \cup {None}]
  /\ added \subseteq [by : Requests, table : Tables]
  /\ journal \in Seq(JournalRows)

\* Every board that was answered shows the events of the journal as it was then.
BoardsOK ==
  /\ BoardIsClosed
  /\ \A b \in boards : b.entries \in Seq(JournalRows) /\ b.events = CriticalEvents(b.entries)

CrisisInv ==
  /\ SessionsOK /\ HeadquartersOK /\ ForcesOK /\ PlanOK /\ BoardsOK
  /\ \A r \in Requests : CrisisRead(r)

LEMMA CrisisInitial == CrisisInit => CrisisInv
<1> SUFFICES ASSUME CrisisInit PROVE CrisisInv
  OBVIOUS
<1>1. SessionsOK /\ \A r \in Requests : session[r].at = "idle" /\ CrisisRead(r)
  BY SessionsInitial DEF CrisisInit, CrisisRead, Open
<1>2. HeadquartersOK
  <2> DEFINE planned == [status |-> "planned", ended |-> None]
  <2>1. planned \in OperationRows /\ planned.status # "closed"
    BY DEF OperationRows, OperationStatuses
  <2>2. planned # None
    BY <2>1, CrisisAssumption
  <2>3. \/ operation = None /\ staff = {}
        \/ operation = planned /\ staff = {"earlier"}
    BY DEF CrisisInit
  <2> HIDE DEF planned
  <2> QED
    BY <2>1, <2>2, <2>3 DEF HeadquartersOK, ClosedHasEnd
<1>3. moves = <<>> /\ moves \in Seq(MoveRows) /\ 1 .. Len(moves) - 1 = {}
  BY DEF CrisisInit
<1>4. /\ sector \in [Sectors -> SectorStatuses \cup {None}]
      /\ place \in AnySector \cup {None, "absent"}
      /\ place \in Sectors => sector[place] # None
  BY CrisisAssumption DEF CrisisInit, Sectors, AnySector, SectorStatuses
<1>5. ForcesOK
  BY <1>3, <1>4 DEF ForcesOK, MovesLeadToPlace, LeadTo
<1>6. PlanOK /\ BoardsOK
  BY DEF CrisisInit, PlanOK, BoardsOK, BoardIsClosed
<1> QED
  BY <1>1, <1>2, <1>5, <1>6 DEF CrisisInv

LEMMA CrisisOthers ==
  ASSUME CrisisInv, NEW r \in Requests, OthersKeep(r), overlapped' \in BOOLEAN, OperationKept,
         ~overlapped' => ~overlapped /\ \A q \in Requests \ {r} : q \notin Open
  PROVE  \A q \in Requests \ {r} : CrisisRead(q)'
<1> SUFFICES ASSUME NEW q \in Requests \ {r}, q \in Open' PROVE CrisisRead(q)'
  BY DEF CrisisRead
<1>1. session'[q] = session[q] /\ q \in Open /\ CrisisRead(q)
  BY DEF CrisisInv, OthersKeep, Open
<1>2. overlapped'
  BY <1>1
<1>3. Had(q)' = Had(q)
  BY <1>1 DEF Had
<1> QED
  BY <1>1, <1>2, <1>3 DEF CrisisRead, OperationKept

\* What leaves the operation, the forces or the boards alone keeps what is known of them.
LEMMA HeadquartersKept ==
  ASSUME HeadquartersOK, UNCHANGED <<operation, staff>>
  PROVE  HeadquartersOK' /\ OperationKept
  BY DEF HeadquartersOK, ClosedHasEnd, OperationKept

LEMMA ForcesKept ==
  ASSUME ForcesOK, overlapped => overlapped', UNCHANGED <<sector, place, moves>>
  PROVE  ForcesOK'
  BY DEF ForcesOK, MovesLeadToPlace, LeadTo

LEMMA BoardsKept ==
  ASSUME BoardsOK, overlapped => overlapped', UNCHANGED boards
  PROVE  BoardsOK'
  BY DEF BoardsOK, BoardIsClosed

LEMMA ReceiveCrisisStep ==
  ASSUME CrisisInv, NEW r \in Requests, NEW op \in CrisisOps, ReceiveCrisis(r, op)
  PROVE  CrisisInv'
<1> DEFINE seen == [at |-> Begun, operation |-> operation, sector |-> sector,
                    place |-> place, plan |-> plan]
<1>1. /\ SessionsOK' /\ OthersKeep(r)
      /\ session'[r].at = "row" /\ session'[r].op = op /\ session'[r].seen = seen
      /\ ~overlapped' => ~overlapped /\ \A q \in Requests : q \notin Open
  BY BeginStep DEF ReceiveCrisis, CrisisInv
<1>2. UNCHANGED <<operation, staff, sector, place, moves, plan, added, journal, boards>>
  BY DEF ReceiveCrisis, crisisTables
<1>3. /\ seen.at = Begun /\ seen.operation = operation /\ seen.sector = sector
      /\ seen.place = place
  OBVIOUS
<1>4. Begun \in Nat
  <2>1. IsFiniteSet(Requests \ NotBegun)
    BY FS_Subset
  <2> QED
    BY <2>1, FS_CardinalityType DEF Begun
<1>5. overlapped \in BOOLEAN /\ overlapped' \in BOOLEAN
  BY <1>1 DEF CrisisInv, SessionsOK
<1> HIDE DEF seen
<1>6. Had(r)' = seen
  BY <1>1 DEF Had
<1>7. CrisisRead(r)'
  BY <1>1, <1>2, <1>3, <1>4, <1>6 DEF CrisisRead, CrisisInv, HeadquartersOK, ForcesOK
<1>8. HeadquartersOK' /\ ForcesOK' /\ BoardsOK' /\ OperationKept
  BY <1>1, <1>2, <1>5, HeadquartersKept, ForcesKept, BoardsKept DEF CrisisInv
<1>9. PlanOK'
  BY <1>2 DEF CrisisInv, PlanOK
<1>10. \A q \in Requests \ {r} : CrisisRead(q)'
  BY <1>1, <1>5, <1>8, CrisisOthers
<1> QED
  BY <1>1, <1>7, <1>8, <1>9, <1>10 DEF CrisisInv

LEMMA CrisisEnds ==
  ASSUME CrisisInv, NEW r \in Requests, r \in Open, NEW at \in {"done", "failed"},
         Finish(r, at)
  PROVE  /\ SessionsOK' /\ OthersKeep(r) /\ session'[r].at = at
         /\ at = "done" => session'[r].op = session[r].op
         /\ overlapped' = overlapped /\ overlapped \in BOOLEAN
         /\ OperationKept => \A q \in Requests : CrisisRead(q)'
<1>1. /\ SessionsOK' /\ OthersKeep(r) /\ session'[r].at = at
      /\ at = "done" => session'[r].op = session[r].op
      /\ overlapped' = overlapped
  BY FinishStep DEF CrisisInv
<1>2. OperationKept => \A q \in Requests \ {r} : CrisisRead(q)'
  BY <1>1, CrisisOthers, OpenAlone DEF CrisisInv, SessionsOK
<1>3. CrisisRead(r)'
  BY <1>1 DEF CrisisRead, Open
<1> QED
  BY <1>1, <1>2, <1>3 DEF CrisisInv, SessionsOK

LEMMA CrisisUpdated ==
  ASSUME CrisisInv, NEW r \in Requests, r \in Open, NEW at \in {"done", "failed"},
         Finish(r, at), HeadquartersOK', OperationKept, ForcesOK', PlanOK', BoardsOK'
  PROVE  CrisisInv'
  BY CrisisEnds DEF CrisisInv

\* The journal only grows, and by one entry of the request that writes it.
Journalled(r) ==
  /\ IsPrefix(journal, journal') /\ journal' \in Seq(JournalRows)
  /\ \E i \in DOMAIN journal' : journal'[i].by = r

LEMMA JournalAppended ==
  ASSUME CrisisInv, NEW r \in Requests, r \in Open, NEW kind \in JournalKinds,
         Journal(r, kind)
  PROVE  Journalled(r)
<1> DEFINE e == [by |-> r, at |-> Had(r).at, kind |-> kind]
           n == Len(journal)
<1>1. Had(r).at \in Nat /\ journal \in Seq(JournalRows)
  BY DEF CrisisInv, CrisisRead, PlanOK
<1>2. e \in JournalRows /\ e.by = r
  BY <1>1 DEF JournalRows
<1>3. journal' = Append(journal, e)
  BY DEF Journal
<1> HIDE DEF e
<1>4. /\ journal' \in Seq(JournalRows) /\ Len(journal') = n + 1 /\ n \in Nat
      /\ \A i \in 1 .. n : journal'[i] = journal[i]
      /\ journal'[n + 1] = e
  BY <1>1, <1>2, <1>3, AppendProperties
<1>5. n + 1 \in DOMAIN journal'
  BY <1>4
<1>6. IsPrefix(journal, journal')
  <2>1. /\ \A i \in 1 .. n : journal[i] \in JournalRows
        /\ \A i \in 1 .. n : journal'[i] \in JournalRows
    BY <1>1, <1>4
  <2>2. SubSeq(journal, 1, n) = SubSeq(journal', 1, n)
    BY <1>1, <1>4
  <2> QED
    BY <1>4, <2>2 DEF IsPrefix
<1> QED
  BY <1>2, <1>4, <1>5, <1>6 DEF Journalled

LEMMA JournalStays == ASSUME CrisisInv, UNCHANGED journal PROVE IsPrefix(journal, journal')
  BY DEF CrisisInv, PlanOK, IsPrefix

Commanded == {"operation", "steer", "decide", "sector", "situation", "group", "relocate"}
OnRecord(r) ==
  /\ IsPrefix(journal, journal')
  /\ session[r].op.kind \in Commanded => \E i \in DOMAIN journal' : journal'[i].by = r

LEMMA JournalledIsOnRecord ==
  ASSUME NEW r \in Requests, Journalled(r)
  PROVE  OnRecord(r)
  BY DEF Journalled, OnRecord

\* A request that leaves the plan alone and is journalled.
LEMMA PlanKept ==
  ASSUME CrisisInv, NEW r \in Requests, Journalled(r), UNCHANGED <<plan, added>>
  PROVE  PlanOK'
  BY DEF CrisisInv, PlanOK, Journalled

LEMMA CreateOperationStep ==
  ASSUME CrisisInv, NEW r \in Requests, CreateOperation(r)
  PROVE  CrisisInv' /\ Journalled(r) /\ r \in Open /\ Finish(r, "done")
<1> DEFINE row == [status |-> "planned", ended |-> None]
<1>1. /\ r \in Open /\ operation = None /\ operation' = row /\ staff' = {r}
      /\ Journal(r, "action") /\ Finish(r, "done")
      /\ UNCHANGED <<boards, sector, place, moves, plan, added>>
  BY DEF CreateOperation, Read, Commit, StaffOf, Open
<1>2. row \in OperationRows /\ row # None /\ row.status = "planned"
  BY CrisisAssumption DEF OperationRows, OperationStatuses
<1> HIDE DEF row
<1>3. HeadquartersOK' /\ OperationKept
  BY <1>1, <1>2 DEF HeadquartersOK, ClosedHasEnd, OperationKept
<1>4. Journalled(r)
  BY <1>1, JournalAppended DEF JournalKinds
<1>5. overlapped' = overlapped
  BY <1>1, CrisisEnds
<1>6. ForcesOK' /\ BoardsOK' /\ PlanOK'
  BY <1>1, <1>4, <1>5, ForcesKept, BoardsKept, PlanKept DEF CrisisInv
<1> QED
  BY <1>1, <1>3, <1>4, <1>6, CrisisUpdated

LEMMA UpdateOperationStep ==
  ASSUME CrisisInv, NEW r \in Requests, UpdateOperation(r)
  PROVE  CrisisInv' /\ Journalled(r) /\ r \in Open /\ Finish(r, "done")
<1> DEFINE seen == Had(r).operation
           mine == Updated(seen, Given(r), r)
           Parts == {"status", "ended"}
<1>1. /\ r \in Open /\ seen # None /\ Given(r) \in OperationStatuses
      /\ operation' = Merge(operation, seen, mine)
      /\ Journal(r, "action") /\ Finish(r, "done")
      /\ UNCHANGED <<boards, staff, sector, place, moves, plan, added>>
  BY DEF UpdateOperation, Read, Commit, Valid, Open
<1>2. /\ seen \in OperationRows /\ operation # None
      /\ seen.ended # None => operation.ended # None
  BY <1>1 DEF CrisisInv, CrisisRead
<1>3. operation \in OperationRows /\ (operation.status = "closed" => operation.ended # None)
  BY <1>2 DEF CrisisInv, HeadquartersOK, ClosedHasEnd
<1> HIDE DEF seen
<1>4. /\ mine = [status |-> mine.status, ended |-> mine.ended]
      /\ mine.status = Given(r)
      /\ mine.ended = IF Given(r) = "closed" THEN r ELSE seen.ended
  BY DEF Updated
<1>5. mine \in OperationRows
  BY <1>1, <1>2, <1>4 DEF OperationRows
<1> HIDE DEF mine
<1>6. /\ DOMAIN operation = Parts
      /\ \A x \in {operation, seen, mine} : x.status = x["status"] /\ x.ended = x["ended"]
  BY <1>2, <1>3, <1>5 DEF OperationRows
<1>7. operation' = [f \in Parts |-> IF mine[f] = seen[f] THEN operation[f] ELSE mine[f]]
  BY <1>1, <1>6 DEF Merge
<1>8. /\ operation'.status = IF mine.status = seen.status THEN operation.status ELSE mine.status
      /\ operation'.ended = IF mine.ended = seen.ended THEN operation.ended ELSE mine.ended
  BY <1>6, <1>7
<1>9. operation' = [status |-> operation'.status, ended |-> operation'.ended]
  BY <1>7
<1>10. /\ operation'.status \in OperationStatuses
       /\ operation'.ended \in Requests \cup {None}
  BY <1>2, <1>3, <1>5, <1>8 DEF OperationRows
<1>11. operation' \in OperationRows
  BY <1>9, <1>10 DEF OperationRows
<1>12. operation' # None /\ (operation.ended # None => operation'.ended # None)
       /\ (operation'.status = "closed" => operation'.ended # None)
  BY <1>2, <1>3, <1>4, <1>8, <1>11, CrisisAssumption
<1>13. HeadquartersOK' /\ OperationKept
  BY <1>1, <1>2, <1>11, <1>12 DEF HeadquartersOK, ClosedHasEnd, OperationKept, CrisisInv
<1>14. Journalled(r)
  BY <1>1, JournalAppended DEF JournalKinds
<1>15. overlapped' = overlapped
  BY <1>1, CrisisEnds
<1>16. ForcesOK' /\ BoardsOK' /\ PlanOK'
  BY <1>1, <1>14, <1>15, ForcesKept, BoardsKept, PlanKept DEF CrisisInv
<1> QED
  BY <1>1, <1>13, <1>14, <1>16, CrisisUpdated

LEMMA RecordDecisionStep ==
  ASSUME CrisisInv, NEW r \in Requests, RecordDecision(r)
  PROVE  CrisisInv' /\ Journalled(r) /\ r \in Open /\ Finish(r, "done")
<1>1. /\ r \in Open /\ Journal(r, "decision") /\ Finish(r, "done")
      /\ UNCHANGED <<boards, operation, staff, sector, place, moves, plan, added>>
  BY DEF RecordDecision, Read, Commit, Open
<1>2. Journalled(r)
  BY <1>1, JournalAppended DEF JournalKinds
<1>3. overlapped' = overlapped
  BY <1>1, CrisisEnds
<1>4. HeadquartersOK' /\ OperationKept /\ ForcesOK' /\ BoardsOK' /\ PlanOK'
  BY <1>1, <1>2, <1>3, HeadquartersKept, ForcesKept, BoardsKept, PlanKept DEF CrisisInv
<1> QED
  BY <1>1, <1>2, <1>4, CrisisUpdated

LEMMA CreateSectorStep ==
  ASSUME CrisisInv, NEW r \in Requests, CreateSector(r) \/ UpdateSector(r)
  PROVE  CrisisInv' /\ Journalled(r) /\ r \in Open /\ Finish(r, "done")
<1>1. /\ r \in Open /\ Finish(r, "done")
      /\ Journal(r, "action") \/ Journal(r, "situation")
      /\ UNCHANGED <<boards, operation, staff, place, moves, plan, added>>
  BY DEF CreateSector, UpdateSector, Read, Commit, Open
<1>2. Journalled(r)
  BY <1>1, JournalAppended DEF JournalKinds
<1>3. overlapped' = overlapped
  BY <1>1, CrisisEnds
<1>4. sector \in [Sectors -> SectorStatuses \cup {None}] /\ (place \in Sectors => sector[place] # None)
  BY DEF CrisisInv, ForcesOK
<1>5. /\ sector' \in [Sectors -> SectorStatuses \cup {None}]
      /\ \A s \in Sectors : sector[s] # None => sector'[s] # None
  <2>1. CASE CreateSector(r)
    <3>1. Given(r) = "south"
      BY <1>1, <2>1, CrisisArgument DEF CreateSector, Read, Given, CrisisInv, CrisisRead
    <3>2. sector' = [sector EXCEPT !["south"] = IF @ = None THEN "forming" ELSE @]
      BY <2>1, <3>1 DEF CreateSector
    <3> QED
      BY <1>4, <3>2, CrisisAssumption DEF Sectors, SectorStatuses
  <2>2. CASE UpdateSector(r)
    <3>1. Given(r) = "contained"
      BY <1>1, <2>2, CrisisArgument DEF UpdateSector, Read, Given, CrisisInv, CrisisRead
    <3>2. sector' = [sector EXCEPT !["north"] = IF Had(r).sector["north"] = "contained" THEN @
                                                ELSE "contained"]
      BY <2>2, <3>1 DEF UpdateSector
    <3> QED
      BY <1>4, <3>2, CrisisAssumption DEF Sectors, SectorStatuses
  <2> QED
    BY <2>1, <2>2
<1>6. ForcesOK'
  <2>1. MovesLeadToPlace'
    BY <1>1, <1>3 DEF CrisisInv, ForcesOK, MovesLeadToPlace, LeadTo
  <2> QED
    BY <1>1, <1>4, <1>5, <2>1 DEF CrisisInv, ForcesOK
<1>7. HeadquartersOK' /\ OperationKept /\ BoardsOK' /\ PlanOK'
  BY <1>1, <1>2, <1>3, HeadquartersKept, BoardsKept, PlanKept DEF CrisisInv
<1> QED
  BY <1>1, <1>2, <1>6, <1>7, CrisisUpdated

LEMMA CreateGroupStep ==
  ASSUME CrisisInv, NEW r \in Requests, CreateGroup(r)
  PROVE  CrisisInv' /\ Journalled(r) /\ r \in Open /\ Finish(r, "done")
<1>1. /\ r \in Open /\ session[r].op.kind = "group" /\ SectorExists(Given(r))
      /\ place' = IF place = "absent" THEN Given(r) ELSE place
      /\ Journal(r, "assignment") /\ Finish(r, "done")
      /\ UNCHANGED <<boards, operation, staff, sector, moves, plan, added>>
  BY DEF CreateGroup, Read, Commit, Open
<1>2. Given(r) \in {None, "north", "elsewhere"}
  BY <1>1, CrisisArgument DEF Given, CrisisInv, CrisisRead
<1>3. Journalled(r)
  BY <1>1, JournalAppended DEF JournalKinds
<1>4. overlapped' = overlapped
  BY <1>1, CrisisEnds
<1>5. /\ place \in AnySector \cup {None, "absent"} /\ moves \in Seq(MoveRows) /\ MovesLeadToPlace
      /\ place \in Sectors => sector[place] # None
      /\ sector \in [Sectors -> SectorStatuses \cup {None}]
  BY DEF CrisisInv, ForcesOK
<1>6. /\ place' \in AnySector \cup {None, "absent"}
      /\ place' \in Sectors => sector[place'] # None
  BY <1>1, <1>2, <1>5, CrisisAssumption DEF SectorExists, Sectors, AnySector
<1>7. ASSUME ~overlapped, moves # <<>> PROVE place' = place
  <2>1. moves[Len(moves)] \in MoveRows /\ moves[Len(moves)].to = place
    BY <1>5, <1>7 DEF MovesLeadToPlace, LeadTo
  <2>2. place # "absent"
    BY <2>1, CrisisAssumption DEF MoveRows, Sectors, AnySector
  <2> QED
    BY <1>1, <2>2
<1>8. MovesLeadToPlace'
  <2> SUFFICES ASSUME ~overlapped
               PROVE  /\ \A i \in 1 .. Len(moves) - 1 : moves[i + 1].from = moves[i].to
                      /\ moves # <<>> => moves[Len(moves)].to = place'
    BY <1>1, <1>4 DEF MovesLeadToPlace, LeadTo
  <2>1. /\ \A i \in 1 .. Len(moves) - 1 : moves[i + 1].from = moves[i].to
        /\ moves # <<>> => moves[Len(moves)].to = place
    BY <1>5 DEF MovesLeadToPlace, LeadTo
  <2> QED
    BY <1>7, <2>1
<1>9. ForcesOK'
  BY <1>1, <1>5, <1>6, <1>8 DEF ForcesOK
<1>10. HeadquartersOK' /\ OperationKept /\ BoardsOK' /\ PlanOK'
  BY <1>1, <1>3, <1>4, HeadquartersKept, BoardsKept, PlanKept DEF CrisisInv
<1> QED
  BY <1>1, <1>3, <1>9, <1>10, CrisisUpdated

LEMMA RelocateStep ==
  ASSUME CrisisInv, NEW r \in Requests, Relocate(r)
  PROVE  CrisisInv' /\ Journalled(r) /\ r \in Open /\ Finish(r, "done")
<1> DEFINE m == [by |-> r, from |-> Had(r).place, to |-> Given(r)]
           n == Len(moves)
<1>1. /\ r \in Open /\ session[r].op.kind = "relocate"
      /\ Had(r).place # "absent" /\ SectorExists(Given(r))
      /\ moves' = Append(moves, m)
      /\ place' = IF Had(r).place = Given(r) THEN place ELSE Given(r)
      /\ Journal(r, "assignment") /\ Finish(r, "done")
      /\ UNCHANGED <<boards, operation, staff, sector, plan, added>>
  BY DEF Relocate, Read, Commit, Open, Moved
<1>2. Given(r) \in AnySector \cup {None}
  BY <1>1, CrisisArgument DEF Given, CrisisInv, CrisisRead
<1>3. Journalled(r)
  BY <1>1, JournalAppended DEF JournalKinds
<1>4. overlapped' = overlapped
  BY <1>1, CrisisEnds
<1>5. /\ place \in AnySector \cup {None, "absent"} /\ moves \in Seq(MoveRows) /\ MovesLeadToPlace
      /\ place \in Sectors => sector[place] # None
      /\ sector \in [Sectors -> SectorStatuses \cup {None}]
      /\ Had(r).place \in AnySector \cup {None}
      /\ ~overlapped => Had(r).place = place
  BY <1>1 DEF CrisisInv, ForcesOK, CrisisRead
<1>6. m \in MoveRows /\ m.from = Had(r).place /\ m.to = Given(r)
  BY <1>2, <1>5 DEF MoveRows
<1>7. /\ place' \in AnySector \cup {None, "absent"}
      /\ place' \in Sectors => sector[place'] # None
  <2>1. CASE Had(r).place = Given(r)
    BY <1>1, <1>5, <2>1
  <2>2. CASE Had(r).place # Given(r)
    <3>1. Given(r) \in Sectors => sector[Given(r)] # None
      BY <1>1, CrisisAssumption DEF SectorExists
    <3> QED
      BY <1>1, <1>2, <2>2, <3>1
  <2> QED
    BY <2>1, <2>2
<1> HIDE DEF m
<1>8. /\ moves' \in Seq(MoveRows) /\ n \in Nat /\ Len(moves') = n + 1 /\ moves'[n + 1] = m
      /\ \A i \in 1 .. n : moves'[i] = moves[i]
  BY <1>1, <1>5, <1>6, AppendProperties
<1> HIDE DEF n
<1>9. MovesLeadToPlace'
  <2> SUFFICES ASSUME ~overlapped
               PROVE  /\ \A i \in 1 .. n : moves'[i + 1].from = moves'[i].to
                      /\ moves'[n + 1].to = place'
    BY <1>4, <1>8 DEF MovesLeadToPlace, LeadTo
  <2>1. Had(r).place = place
    BY <1>5
  <2>2. moves'[n + 1].to = place'
    BY <1>1, <1>6, <1>8, <2>1
  <2>3. ASSUME NEW i \in 1 .. n PROVE moves'[i + 1].from = moves'[i].to
    <3>1. CASE i = n
      <4>1. moves[n].to = place
        BY <1>5, <1>8, <2>3, <3>1 DEF MovesLeadToPlace, LeadTo, n
      <4> QED
        BY <1>6, <1>8, <2>1, <3>1, <4>1
    <3>2. CASE i # n
      <4>1. i \in 1 .. n - 1 /\ i + 1 \in 1 .. n
        BY <1>8, <3>2
      <4>2. moves[i + 1].from = moves[i].to
        BY <1>5, <4>1 DEF MovesLeadToPlace, LeadTo, n
      <4> QED
        BY <1>8, <4>1, <4>2
    <3> QED
      BY <3>1, <3>2
  <2> QED
    BY <2>2, <2>3
<1>10. ForcesOK'
  BY <1>1, <1>5, <1>7, <1>8, <1>9 DEF ForcesOK
<1>11. HeadquartersOK' /\ OperationKept /\ BoardsOK' /\ PlanOK'
  BY <1>1, <1>3, <1>4, HeadquartersKept, BoardsKept, PlanKept DEF CrisisInv
<1> QED
  BY <1>1, <1>3, <1>10, <1>11, CrisisUpdated

LEMMA PlanningStep ==
  ASSUME CrisisInv, NEW r \in Requests, AddToPlan(r) \/ SetPlanStatus(r) \/ AddRow(r)
  PROVE  CrisisInv' /\ OnRecord(r) /\ r \in Open /\ Finish(r, "done")
<1>1. /\ r \in Open /\ Finish(r, "done")
      /\ session[r].op.kind \in {"plan", "progress", "add"}
      /\ UNCHANGED journal \/ Journal(r, "action") \/ Journal(r, "assignment")
      /\ UNCHANGED <<boards, operation, staff, sector, place, moves>>
  BY DEF AddToPlan, SetPlanStatus, AddRow, Read, Commit, Open
<1>2. UNCHANGED journal \/ Journalled(r)
  BY <1>1, JournalAppended DEF JournalKinds
<1>3. journal' \in Seq(JournalRows) /\ OnRecord(r)
  BY <1>1, <1>2, JournalStays DEF OnRecord, Journalled, Commanded, CrisisInv, PlanOK
<1>4. overlapped' = overlapped
  BY <1>1, CrisisEnds
<1>5. /\ plan \in [{"stage", "task"} -> PlanStatuses \cup {None}]
      /\ added \subseteq [by : Requests, table : Tables]
  BY DEF CrisisInv, PlanOK
<1>6. /\ session[r].op.kind \in {"plan", "progress"} => Given(r) \in {"stage", "task"}
      /\ session[r].op.kind = "add" => Given(r) \in Tables
  BY <1>1, CrisisArgument DEF Given, CrisisInv, CrisisRead
<1>7. /\ plan' \in [{"stage", "task"} -> PlanStatuses \cup {None}]
      /\ added' \subseteq [by : Requests, table : Tables]
  <2>1. CASE AddToPlan(r)
    BY <1>5, <2>1 DEF AddToPlan, PlanStatuses
  <2>2. CASE SetPlanStatus(r)
    BY <1>5, <2>2 DEF SetPlanStatus, PlanStatuses
  <2>3. CASE AddRow(r)
    <3>1. Given(r) \in Tables /\ UNCHANGED plan
      BY <1>6, <2>3 DEF AddRow, Read
    <3>2. [by |-> r, table |-> Given(r)] \in [by : Requests, table : Tables]
      BY <3>1
    <3> QED
      BY <1>5, <2>3, <3>1, <3>2 DEF AddRow
  <2> QED
    BY <2>1, <2>2, <2>3
<1>8. HeadquartersOK' /\ OperationKept /\ ForcesOK' /\ BoardsOK' /\ PlanOK'
  BY <1>1, <1>3, <1>4, <1>7, HeadquartersKept, ForcesKept, BoardsKept DEF CrisisInv, PlanOK
<1> QED
  BY <1>1, <1>3, <1>8, CrisisUpdated

LEMMA AnswerBoardStep ==
  ASSUME CrisisInv, NEW r \in Requests, AnswerBoard(r)
  PROVE  CrisisInv' /\ OnRecord(r) /\ r \in Open /\ Finish(r, "done")
<1> DEFINE shown == {s \in Sectors : Had(r).sector[s] # None}
           shownEvents == CriticalEvents(journal)
           b == [by |-> r, sectors |-> shown, place |-> place, events |-> shownEvents,
                 entries |-> journal]
<1>1. /\ r \in Open /\ Finish(r, "done") /\ session[r].op.kind = "board"
      /\ boards' = boards \cup {b}
      /\ UNCHANGED <<operation, staff, sector, place, moves, plan, added, journal>>
  BY DEF AnswerBoard, Read, Open, crisisTables
<1>2. overlapped' = overlapped
  BY <1>1, CrisisEnds
<1>3. ~overlapped => (place \in Sectors => place \in shown)
  BY <1>1 DEF CrisisInv, CrisisRead, ForcesOK
<1>4. BoardsOK'
  <2> HIDE DEF shown, shownEvents
  <2>1. BoardIsClosed'
    BY <1>1, <1>2, <1>3 DEF CrisisInv, BoardsOK, BoardIsClosed
  <2>2. b.entries \in Seq(JournalRows) /\ b.events = CriticalEvents(b.entries)
    BY DEF CrisisInv, PlanOK, shownEvents
  <2> HIDE DEF b
  <2>3. \A a \in boards' :
          a.entries \in Seq(JournalRows) /\ a.events = CriticalEvents(a.entries)
    BY <1>1, <2>2 DEF CrisisInv, BoardsOK
  <2> QED BY <2>1, <2>3 DEF BoardsOK
<1> HIDE DEF shown, shownEvents
<1>5. HeadquartersOK' /\ OperationKept /\ ForcesOK'
  BY <1>1, <1>2, HeadquartersKept, ForcesKept DEF CrisisInv
<1>6. PlanOK'
  BY <1>1 DEF CrisisInv, PlanOK
<1>7. OnRecord(r)
  BY <1>1, JournalStays DEF OnRecord, Commanded
<1> QED
  BY <1>1, <1>4, <1>5, <1>6, <1>7, CrisisUpdated

LEMMA RefusedCrisisStep ==
  ASSUME CrisisInv, NEW r \in Requests, RefuseCrisis(r) \/ DenyCrisis(r)
  PROVE  CrisisInv' /\ UNCHANGED journal /\ r \in Open /\ Finish(r, "failed")
<1>1. /\ r \in Open /\ Finish(r, "failed")
      /\ UNCHANGED <<operation, staff, sector, place, moves, plan, added, journal, boards>>
  BY DEF RefuseCrisis, DenyCrisis, Lost, Read, Open, crisisTables
<1>2. overlapped' = overlapped
  BY <1>1, CrisisEnds
<1>3. HeadquartersOK' /\ OperationKept /\ ForcesOK' /\ BoardsOK'
  BY <1>1, <1>2, HeadquartersKept, ForcesKept, BoardsKept DEF CrisisInv
<1>4. PlanOK'
  BY <1>1 DEF CrisisInv, PlanOK
<1> QED
  BY <1>1, <1>3, <1>4, CrisisUpdated

LEMMA CommandStep ==
  ASSUME CrisisInv, NEW r \in Requests, Command(r) \/ Forces(r) \/ Planning(r)
  PROVE  CrisisInv' /\ OnRecord(r) /\ r \in Open /\ Finish(r, "done")
<1>1. CASE Command(r)
  BY <1>1, CreateOperationStep, UpdateOperationStep, RecordDecisionStep, JournalledIsOnRecord
     DEF Command
<1>2. CASE Forces(r)
  BY <1>2, CreateSectorStep, CreateGroupStep, RelocateStep, JournalledIsOnRecord DEF Forces
<1>3. CASE Planning(r)
  BY <1>3, PlanningStep, AnswerBoardStep DEF Planning
<1> QED
  BY <1>1, <1>2, <1>3

LEMMA CrisisInductive == CrisisInv /\ [CrisisNext]_crisisVars => CrisisInv'
<1> SUFFICES ASSUME CrisisInv, [CrisisNext]_crisisVars PROVE CrisisInv'
  OBVIOUS
<1>1. ASSUME NEW r \in Requests, NEW op \in CrisisOps, ReceiveCrisis(r, op)
      PROVE  CrisisInv'
  BY <1>1, ReceiveCrisisStep
<1>2. ASSUME NEW r \in Requests, Command(r) \/ Forces(r) \/ Planning(r)
      PROVE  CrisisInv'
  BY <1>2, CommandStep
<1>3. ASSUME NEW r \in Requests, RefuseCrisis(r) \/ DenyCrisis(r)
      PROVE  CrisisInv'
  BY <1>3, RefusedCrisisStep
<1>4. CASE UNCHANGED crisisVars
  <2>1. /\ UNCHANGED <<session, overlapped>> /\ SessionsOK'
        /\ UNCHANGED <<operation, staff, sector, place, moves, plan, added, journal, boards>>
    BY <1>4, SessionsStutter DEF crisisVars, crisisTables, CrisisInv
  <2>2. \A r \in Requests : CrisisRead(r)'
    BY <2>1 DEF CrisisInv, CrisisRead, Open, Had
  <2>3. HeadquartersOK' /\ ForcesOK' /\ BoardsOK' /\ PlanOK'
    BY <2>1, HeadquartersKept, ForcesKept, BoardsKept DEF CrisisInv, PlanOK
  <2> QED
    BY <2>1, <2>2, <2>3 DEF CrisisInv
<1> QED
  BY <1>1, <1>2, <1>3, <1>4 DEF CrisisNext

\* The operation, its sectors, forces, plan and journal are well formed in every
\* reachable state of app/crisis.
THEOREM CrisisTypeCorrect == CrisisSpec => []CrisisTypeOK
<1>1. CrisisInv => CrisisTypeOK
  BY DEF CrisisInv, HeadquartersOK, ForcesOK, PlanOK, CrisisTypeOK
<1> QED
  BY <1>1, CrisisInitial, CrisisInductive, PTL DEF CrisisSpec

\* Of a journal that is no longer than the window, the last that is picked in order
\* of created_at is the newest of the critical entries.
LEMMA EventsShowNewest ==
  ASSUME NEW entries \in Seq(JournalRows), Len(entries) <= BoardWindow,
         NEW i \in DOMAIN entries, Critical(entries[i])
  PROVE  /\ CriticalEvents(entries) # <<>>
         /\ CriticalEvents(entries)[1].at >= entries[i].at
<1> DEFINE D == DOMAIN entries
           earlier == {pair \in D \X D : entries[pair[1]].at < entries[pair[2]].at}
           order == Sorted(D, earlier)
           window == Timeline(entries)
           wanted == {k \in D : Critical(entries[k])}
           q == Picked(window, wanted)
           newest == Reverse(q)
           n == Min({CriticalShown, Len(newest)})
<1>1. D = 1 .. Len(entries) /\ Len(entries) \in Nat /\ BoardWindow \in Nat
  BY LenProperties, CrisisAssumption
<1>2. IsFiniteSet(D) /\ Cardinality(D) = Len(entries)
  <2>1. IsFiniteSet(1 .. Len(entries)) /\ Cardinality(1 .. Len(entries)) = Len(entries)
    <3> DEFINE m == Len(entries)
    <3>1. m \in Nat
      BY <1>1
    <3> HIDE DEF m
    <3>2. IsFiniteSet(1 .. m) /\ Cardinality(1 .. m) = m
      BY <3>1, FS_Interval
    <3> QED BY <3>2 DEF m
  <2> HIDE DEF D
  <2> QED BY <1>1, <2>1
<1>3. \A k \in D : entries[k].at \in Nat
  <2>1. \A k \in 1 .. Len(entries) : entries[k] \in JournalRows
    BY ElementOfSeq
  <2> HIDE DEF D
  <2> QED BY <1>1, <2>1 DEF JournalRows
<1>4. window = SubSeq(order, 1, Min({BoardWindow, Len(entries)}))
  BY DEF Timeline
<1>5. i \in wanted /\ wanted \subseteq D
  OBVIOUS
<1>6. CriticalEvents(entries) = [k \in 1 .. n |-> entries[newest[k]]]
  BY DEF CriticalEvents
<1> HIDE DEF D, wanted
<1>7. Before(D, earlier)
  BY <1>3 DEF Before
<1>8. \A k, l \in D : <<k, l>> \in earlier <=> entries[k].at < entries[l].at
  OBVIOUS
<1> HIDE DEF earlier
<1>9. /\ order \in Seq(D) /\ Len(order) = Len(entries)
      /\ \A x \in D : \E k \in 1 .. Len(order) : order[k] = x
      /\ InOrder(order, Len(order), earlier)
  BY <1>2, <1>7, SortedFacts
<1> HIDE DEF order
<1>10. Min({BoardWindow, Len(entries)}) = Len(order)
  BY ZenonT(30), <1>1, <1>9, MinOfTwo
<1>11. Once(order)
  BY <1>9 DEF Once, InOrder
<1>12. /\ window \in Seq(D) /\ Once(window) /\ Len(window) = Len(order)
       /\ \A k \in 1 .. Len(order) : window[k] = order[k]
  <2>1. Len(order) \in 0 .. Len(order)
    BY <1>1, <1>9
  <2>2. window = SubSeq(order, 1, Len(order))
    BY <1>4, <1>10
  <2> HIDE DEF window
  <2> QED BY <1>9, <1>11, <2>1, <2>2, FirstOfList
<1> HIDE DEF window
<1>13. /\ q \in Seq(D) /\ ToSet(q) = ToSet(window) \cap wanted
       /\ \A a, b \in 1 .. Len(q) :
            a < b => \E k, l \in 1 .. Len(window) : k < l /\ q[a] = window[k] /\ q[b] = window[l]
  BY <1>12, PickedFacts
<1> HIDE DEF q
<1>14. PICK a \in 1 .. Len(q) : q[a] = i
  <2>1. i \in ToSet(window)
    BY <1>5, <1>9, <1>12, MembersOfList
  <2> QED BY <1>5, <1>13, <2>1, MembersOfList
<1>15. Len(q) \in Nat /\ Len(q) >= 1 /\ Len(q) \in 1 .. Len(q)
  BY <1>13, <1>14, LenProperties
<1>16. Len(newest) = Len(q) /\ newest[1] = q[Len(q)]
  <2>1. newest = [k \in 1 .. Len(q) |-> q[(Len(q) - k) + 1]]
    BY DEF Reverse
  <2>2. newest \in Seq(D) /\ Len(newest) = Len(q)
    <3>1. \A k \in 1 .. Len(q) : q[(Len(q) - k) + 1] \in D
      <4> SUFFICES ASSUME NEW k \in 1 .. Len(q) PROVE q[(Len(q) - k) + 1] \in D
        OBVIOUS
      <4>1. (Len(q) - k) + 1 \in 1 .. Len(q)
        BY <1>15
      <4> QED BY <1>13, <4>1, ElementOfSeq
    <3>2. newest \in [1 .. Len(q) -> D]
      BY <2>1, <3>1
    <3> HIDE DEF newest
    <3> QED BY <1>15, <3>2, SeqDef, LenProperties
  <2>3. 1 \in 1 .. Len(q) /\ (Len(q) - 1) + 1 = Len(q)
    BY <1>15
  <2> HIDE DEF newest
  <2> QED BY <2>1, <2>2, <2>3
<1> HIDE DEF newest
<1>17. n \in Nat /\ n >= 1
  <2>1. CriticalShown \in Nat /\ CriticalShown >= 1
    BY CrisisAssumption
  <2>2. n = IF CriticalShown <= Len(newest) THEN CriticalShown ELSE Len(newest)
    BY <1>15, <1>16, <2>1, MinOfTwo
  <2> QED BY <1>15, <1>16, <2>1, <2>2
<1> HIDE DEF n
<1>18. entries[q[Len(q)]].at >= entries[i].at
  <2>1. i \in D /\ q[Len(q)] \in D
    BY <1>5, <1>13, <1>15, ElementOfSeq
  <2>2. CASE a = Len(q)
    BY <1>3, <1>14, <2>1, <2>2
  <2>3. CASE a # Len(q)
    <3>1. a < Len(q)
      BY <1>14, <1>15, <2>3
    <3>2. PICK k \in 1 .. Len(window), l \in 1 .. Len(window) :
            k < l /\ q[a] = window[k] /\ q[Len(q)] = window[l]
      BY <1>13, <1>15, <3>1
    <3>3. <<q[Len(q)], i>> \notin earlier
      BY <1>9, <1>12, <1>14, <3>2 DEF InOrder
    <3>4. ~ (entries[q[Len(q)]].at < entries[i].at)
      BY <1>8, <2>1, <3>3
    <3> QED BY <1>3, <2>1, <3>4
  <2> QED BY <2>2, <2>3
<1>19. CriticalEvents(entries) # <<>> /\ CriticalEvents(entries)[1] = entries[newest[1]]
  <2>1. 1 \in 1 .. n
    BY <1>17
  <2>2. 1 \notin DOMAIN <<>>
    OBVIOUS
  <2> QED BY <1>6, <2>1, <2>2
<1> QED BY <1>16, <1>18, <1>19

\* Whatever overlaps, an operation has exactly one headquarters, a closed one has an
\* end, and a board shows the newest critical entry first as long as the journal fits
\* its window; without overlaps the moves of the group lead without a gap to where it
\* is, and the board names no sector that it does not show.
THEOREM CommandAlwaysHolds == CrisisSpec => []CommandIsConsistent
<1>1. CrisisInv => OneHeadquarters
  <2> SUFFICES ASSUME CrisisInv PROVE OneHeadquarters
    OBVIOUS
  <2>1. CASE operation = None
    BY <2>1, FS_EmptySet DEF CrisisInv, HeadquartersOK, OneHeadquarters
  <2>2. CASE operation # None
    <3>1. PICK x : staff = {x}
      BY <2>2 DEF CrisisInv, HeadquartersOK
    <3> QED
      BY <2>2, <3>1, FS_Singleton DEF OneHeadquarters
  <2> QED
    BY <2>1, <2>2
<1>2. CrisisInv => ClosedHasEnd /\ MovesLeadToPlace /\ BoardIsClosed
  BY DEF CrisisInv, HeadquartersOK, ForcesOK, BoardsOK
<1>3. CrisisInv => BoardShowsNewest
  <2> SUFFICES ASSUME CrisisInv, NEW b \in boards, Len(b.entries) <= BoardWindow,
                      NEW i \in DOMAIN b.entries, Critical(b.entries[i])
               PROVE  b.events # <<>> /\ b.events[1].at >= b.entries[i].at
    BY DEF BoardShowsNewest
  <2>1. b.entries \in Seq(JournalRows) /\ b.events = CriticalEvents(b.entries)
    BY DEF CrisisInv, BoardsOK
  <2> QED BY <2>1, EventsShowNewest
<1>4. CrisisInv => CommandIsConsistent
  BY <1>1, <1>2, <1>3 DEF CommandIsConsistent
<1> QED
  BY <1>4, CrisisInitial, CrisisInductive, PTL DEF CrisisSpec

JournalGrows ==
  /\ IsPrefix(journal, journal')
  /\ \A r \in Done' \ Done :
       session'[r].op.kind \in {"operation", "steer", "decide", "sector", "situation",
                                "group", "relocate"}
         => \E i \in DOMAIN journal' : journal'[i].by = r

LEMMA JournalGrowsStep == ASSUME CrisisInv, CrisisNext PROVE JournalGrows
<1>1. ASSUME NEW r \in Requests, NEW op \in CrisisOps, ReceiveCrisis(r, op)
      PROVE  JournalGrows
  <2>1. OthersKeep(r) /\ session'[r].at = "row" /\ UNCHANGED journal
    BY <1>1, BeginStep DEF ReceiveCrisis, crisisTables, CrisisInv
  <2>2. Done' \ Done = {}
    BY <2>1 DEF Done, OthersKeep
  <2> QED
    BY <2>1, <2>2, JournalStays DEF JournalGrows
<1>2. ASSUME NEW r \in Requests, Command(r) \/ Forces(r) \/ Planning(r)
      PROVE  JournalGrows
  <2>1. OnRecord(r) /\ r \in Open /\ Finish(r, "done")
    BY <1>2, CommandStep
  <2>2. OthersKeep(r) /\ session'[r].op = session[r].op
    BY <2>1, CrisisEnds
  <2>3. \A q \in Done' \ Done : q = r
    BY <2>2 DEF Done, OthersKeep
  <2> QED
    BY <2>1, <2>2, <2>3 DEF JournalGrows, OnRecord, Commanded
<1>3. ASSUME NEW r \in Requests, RefuseCrisis(r) \/ DenyCrisis(r)
      PROVE  JournalGrows
  <2>1. UNCHANGED journal /\ r \in Open /\ Finish(r, "failed")
    BY <1>3, RefusedCrisisStep
  <2>2. OthersKeep(r) /\ session'[r].at = "failed"
    BY <2>1, CrisisEnds
  <2>3. Done' \ Done = {}
    BY <2>2 DEF Done, OthersKeep
  <2> QED
    BY <2>1, <2>3, JournalStays DEF JournalGrows
<1> QED
  BY <1>1, <1>2, <1>3 DEF CrisisNext

\* However requests overlap, the journal is only appended to, and whatever was
\* commanded is in it as soon as it is done.
THEOREM JournalAlwaysComplete == CrisisSpec => JournalComplete
<1>1. CrisisInv /\ [CrisisNext]_crisisVars => JournalGrows \/ UNCHANGED crisisVars
  BY JournalGrowsStep
<1> QED
  BY <1>1, CrisisInitial, CrisisInductive, PTL DEF CrisisSpec, JournalComplete, JournalGrows

-----------------------------------------------------------------------------
(* The services together (MCServices).                                      *)

\* Each service has the invariant of its own proof while it is the one that runs;
\* those at rest need no more than their types.
ServicesInv ==
  /\ scope \in Scopes /\ TypesOK
  /\ scope = "incidents" => IncidentInv
  /\ scope = "resources" => ResourceInv
  /\ scope = "crises" => CrisisInv
  /\ scope = "rules" => RuleInv
  /\ scope = "admin" => AdminInv
  /\ scope = "ai" => AIInv
  /\ scope \in {"dispatch", "dispatches"} => DispatchInv

LEMMA ServicesTyped ==
  /\ IncidentInv => TypeOK
  /\ ResourceInv => ResourceTypeOK
  /\ CrisisInv => CrisisTypeOK
  /\ RuleInv => RuleTypeOK
  /\ AdminInv => AdminTypeOK
  /\ AIInv => AITypeOK
  /\ DispatchInv => DispatchTypeOK
<1>1. IncidentInv => TypeOK
  BY DEF IncidentInv
<1>2. ResourceInv => ResourceTypeOK
  BY DEF ResourceInv, ResourceRowsAgree
<1>3. CrisisInv => CrisisTypeOK
  BY DEF CrisisInv, HeadquartersOK, ForcesOK, PlanOK, CrisisTypeOK
<1>4. RuleInv => RuleTypeOK
  BY DEF RuleInv, RuleRowsAgree
<1>5. AdminInv => AdminTypeOK
  BY DEF AdminInv, AdminRowsAgree
<1>6. AIInv => AITypeOK
  BY DEF AIInv
<1> QED
  BY <1>1, <1>2, <1>3, <1>4, <1>5, <1>6, DispatchTyped

\* Types are about the tables alone: they last as long as the tables stay.
LEMMA RestingTyped ==
  /\ TypeOK /\ UNCHANGED incidentVars => TypeOK'
  /\ ResourceTypeOK /\ UNCHANGED resourceTables => ResourceTypeOK'
  /\ CrisisTypeOK /\ UNCHANGED crisisRows => CrisisTypeOK'
  /\ RuleTypeOK /\ UNCHANGED ruleRows => RuleTypeOK'
  /\ AdminTypeOK /\ UNCHANGED adminRows => AdminTypeOK'
  /\ AITypeOK /\ UNCHANGED aiRows => AITypeOK'
  /\ DispatchTypeOK /\ UNCHANGED dispatchVars => DispatchTypeOK'
<1>1. TypeOK /\ UNCHANGED incidentVars => TypeOK'
  BY DEF TypeOK, incidentVars, tables
<1>2. ResourceTypeOK /\ UNCHANGED resourceTables => ResourceTypeOK'
  BY DEF ResourceTypeOK, resourceTables
<1>3. CrisisTypeOK /\ UNCHANGED crisisRows => CrisisTypeOK'
  BY DEF CrisisTypeOK, crisisRows, crisisTables
<1>4. RuleTypeOK /\ UNCHANGED ruleRows => RuleTypeOK'
  BY DEF RuleTypeOK, ruleRows, ruleTables
<1>5. AdminTypeOK /\ UNCHANGED adminRows => AdminTypeOK'
  BY DEF AdminTypeOK, adminRows, adminTables
<1>6. AITypeOK /\ UNCHANGED aiRows => AITypeOK'
  BY DEF AITypeOK, aiRows, aiTables
<1>7. DispatchTypeOK /\ UNCHANGED dispatchVars => DispatchTypeOK'
  BY DEF DispatchTypeOK, dispatchVars
<1> QED
  BY <1>1, <1>2, <1>3, <1>4, <1>5, <1>6, <1>7

LEMMA ServicesInitial == ServicesInit => ServicesInv
<1> SUFFICES ASSUME ServicesInit PROVE ServicesInv
  OBVIOUS
<1>1. scope \in Scopes
  BY DEF ServicesInit
<1>2. Init
  BY DEF ServicesInit, IncidentAtRest
<1>3. ResourceInit
  BY DEF ServicesInit, ResourceAtRest
<1>4. CrisisInit
  BY DEF ServicesInit, CrisisAtRest
<1>5. RuleInit
  BY DEF ServicesInit, RulesAtRest
<1>6. AdminInit
  BY DEF ServicesInit, AdminAtRest
<1>7. AIInit
  BY DEF ServicesInit, AIAtRest
<1>8. DispatchInit
  BY <1>1 DEF ServicesInit, DispatchAtRest, OverlapInit
<1>9. /\ IncidentInv /\ ResourceInv /\ CrisisInv /\ RuleInv /\ AdminInv /\ AIInv
      /\ DispatchInv
  BY <1>2, <1>3, <1>4, <1>5, <1>6, <1>7, <1>8, IncidentInitial, ResourceInitial,
     CrisisInitial, RuleInitial, AdminInitial, AIInitial, DispatchInitially
<1>10. TypesOK
  BY <1>9, ServicesTyped DEF TypesOK
<1> QED
  BY <1>1, <1>9, <1>10 DEF ServicesInv

LEMMA ServicesInductive == ServicesInv /\ [ServicesNext]_everything => ServicesInv'
<1> SUFFICES ASSUME ServicesInv, [ServicesNext]_everything PROVE ServicesInv'
  OBVIOUS
<1>1. scope \in Scopes /\ scope' = scope
  BY DEF ServicesInv, ServicesNext, everything
<1>2. /\ IncidentInv' => TypeOK'
      /\ ResourceInv' => ResourceTypeOK'
      /\ CrisisInv' => CrisisTypeOK'
      /\ RuleInv' => RuleTypeOK'
      /\ AdminInv' => AdminTypeOK'
      /\ AIInv' => AITypeOK'
      /\ DispatchInv' => DispatchTypeOK'
  BY ServicesTyped, PTL
<1>10. CASE UNCHANGED everything
  <2>1. /\ UNCHANGED incidentVars /\ UNCHANGED resourceTables /\ UNCHANGED crisisRows
        /\ UNCHANGED ruleRows /\ UNCHANGED adminRows /\ UNCHANGED aiRows
        /\ UNCHANGED dispatchVars /\ UNCHANGED sessionVars
    BY <1>10 DEF everything
  <2>2. TypesOK'
    BY <2>1, RestingTyped DEF ServicesInv, TypesOK
  <2>3. /\ UNCHANGED vars /\ UNCHANGED resourceVars /\ UNCHANGED crisisVars
        /\ UNCHANGED ruleVars /\ UNCHANGED adminVars /\ UNCHANGED aiVars
    BY <2>1 DEF incidentVars, crisisRows, ruleRows, adminRows, aiRows, vars, resourceVars,
       crisisVars, ruleVars, adminVars, aiVars
  <2>4. /\ IncidentInv => IncidentInv'
        /\ ResourceInv => ResourceInv'
        /\ CrisisInv => CrisisInv'
        /\ RuleInv => RuleInv'
        /\ AdminInv => AdminInv'
        /\ AIInv => AIInv'
        /\ DispatchInv => DispatchInv'
    BY <2>1, <2>3, IncidentInductive, ResourceInductive, CrisisInductive, RuleInductive,
       AdminInductive, AIInductive, DispatchInductive
  <2> QED
    BY <1>1, <2>2, <2>4 DEF ServicesInv
<1>3. CASE scope = "incidents" /\ Next /\ UNCHANGED <<resourceTables, crisisRows, ruleRows,
                                                      adminRows, aiRows, dispatchVars>>
  <2>1. IncidentInv'
    BY <1>3, IncidentInductive DEF ServicesInv
  <2>2. TypesOK'
    BY <1>2, <1>3, <2>1, RestingTyped DEF ServicesInv, TypesOK
  <2> QED
    BY <1>1, <1>3, <2>1, <2>2 DEF ServicesInv
<1>4. CASE scope = "resources" /\ ResourceNext
         /\ UNCHANGED <<incidentVars, crisisRows, ruleRows, adminRows, aiRows, dispatchVars>>
  <2>1. ResourceInv'
    BY <1>4, ResourceInductive DEF ServicesInv
  <2>2. TypesOK'
    BY <1>2, <1>4, <2>1, RestingTyped DEF ServicesInv, TypesOK
  <2> QED
    BY <1>1, <1>4, <2>1, <2>2 DEF ServicesInv
<1>5. CASE scope = "crises" /\ CrisisNext
         /\ UNCHANGED <<incidentVars, resourceTables, ruleRows, adminRows, aiRows, dispatchVars>>
  <2>1. CrisisInv'
    BY <1>5, CrisisInductive DEF ServicesInv
  <2>2. TypesOK'
    BY <1>2, <1>5, <2>1, RestingTyped DEF ServicesInv, TypesOK
  <2> QED
    BY <1>1, <1>5, <2>1, <2>2 DEF ServicesInv
<1>6. CASE scope = "rules" /\ RuleNext
         /\ UNCHANGED <<incidentVars, resourceTables, crisisRows, adminRows, aiRows, dispatchVars>>
  <2>1. RuleInv'
    BY <1>6, RuleInductive DEF ServicesInv
  <2>2. TypesOK'
    BY <1>2, <1>6, <2>1, RestingTyped DEF ServicesInv, TypesOK
  <2> QED
    BY <1>1, <1>6, <2>1, <2>2 DEF ServicesInv
<1>7. CASE scope = "admin" /\ AdminNext
         /\ UNCHANGED <<incidentVars, resourceTables, crisisRows, ruleRows, aiRows, dispatchVars>>
  <2>1. AdminInv'
    BY <1>7, AdminInductive DEF ServicesInv
  <2>2. TypesOK'
    BY <1>2, <1>7, <2>1, RestingTyped DEF ServicesInv, TypesOK
  <2> QED
    BY <1>1, <1>7, <2>1, <2>2 DEF ServicesInv
<1>8. CASE scope = "ai" /\ AINext
         /\ UNCHANGED <<incidentVars, resourceTables, crisisRows, ruleRows, adminRows, dispatchVars>>
  <2>1. AIInv'
    BY <1>8, AIInductive DEF ServicesInv
  <2>2. TypesOK'
    BY <1>2, <1>8, <2>1, RestingTyped DEF ServicesInv, TypesOK
  <2> QED
    BY <1>1, <1>8, <2>1, <2>2 DEF ServicesInv
<1>9. CASE scope \in {"dispatch", "dispatches"} /\ DispatchNext /\ UNCHANGED others
  <2>1. DispatchInv'
    BY <1>9, DispatchInductive DEF ServicesInv
  <2>2. TypesOK'
    BY <1>2, <1>9, <2>1, RestingTyped DEF ServicesInv, TypesOK, others
  <2> QED
    BY <1>1, <1>9, <2>1, <2>2 DEF ServicesInv
<1> QED
  BY <1>3, <1>4, <1>5, <1>6, <1>7, <1>8, <1>9, <1>10 DEF ServicesNext

\* Whichever of the services runs, for any requests, bodies, resources and rules, the
\* tables of all of them stay well formed and every recommendation is whole.
THEOREM ServicesTypeCorrect == ServicesSpec => []TypesOK
<1>1. ServicesInv => TypesOK
  BY DEF ServicesInv
<1> QED
  BY <1>1, ServicesInitial, ServicesInductive, PTL DEF ServicesSpec
=============================================================================
