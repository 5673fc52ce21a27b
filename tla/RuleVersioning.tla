--------------------------- MODULE RuleVersioning ---------------------------
(***************************************************************************)
(* One normative rule (app/rules): its row, its versions, the links that    *)
(* say where it applies, its history, and the rule engine that reads them.  *)
(* The content of a version is fixed when it is created; a version is a     *)
(* draft, becomes the active one when it is published, and is archived when *)
(* another one is.                                                          *)
(***************************************************************************)
EXTENDS Sessions, SequencesExt

CONSTANTS Older,      \* whoever created what is there at the beginning
          LinkLists,  \* lists of incident types, complexities or tags that requests send
          RuleBodies  \* the requests that are made

VARIABLES rule,       \* the row of rules, or None
          versions,   \* rule_versions of the rule
          ruleLinks,  \* rule_incident_types, rule_incident_categories, rule_tags
          ruleEvents, \* rule_history
          answers     \* what the rule engine answered

ruleTables == <<rule, versions, ruleLinks, ruleEvents>>
ruleVars == <<sessionVars, ruleTables, answers>>

Writers == Requests \cup {Older}
VersionStatuses == {"draft", "published", "archived"}
HistoryActions == {"created", "updated", "version_created", "published", "activated", "deleted"}
RuleRows == [enabled : BOOLEAN, deleted : BOOLEAN]
VersionRows == [number : Nat \ {0}, by : Writers, status : VersionStatuses, active : BOOLEAN]
RuleEventRows == [by : Writers, number : Nat, action : HistoryActions]  \* number 0: no version

LinkValues == UNION {ToSet(list) : list \in LinkLists}

RuleTypeOK ==
  /\ rule \in RuleRows \cup {None}
  /\ \A v \in versions : v \in VersionRows
  /\ ruleLinks \subseteq LinkValues
  /\ \A e \in ruleEvents : e \in RuleEventRows

\* A version that a request brings: None, or whether it is fit to be published.
Contents == {"complete", "incomplete"}
RuleOperations ==
       [kind : {"new rule"}, links : LinkLists, version : Contents, publish : BOOLEAN]
  \cup [kind : {"rule"}, enabled : BOOLEAN \cup {None}, links : LinkLists \cup {None},
        version : Contents \cup {None}, publish : BOOLEAN]
  \cup [kind : {"delete rule", "find rule"}]

ASSUME RulesAssumption ==
  RuleBodies \subseteq RuleOperations /\ Older \notin Requests /\ None \notin RuleRows

RuleInit ==
  /\ SessionsInit
  /\ answers = {}
  /\ \/ rule = None /\ versions = {} /\ ruleLinks = {} /\ ruleEvents = {}
     \/ /\ rule = [enabled |-> TRUE, deleted |-> FALSE]
        /\ versions = {[number |-> 1, by |-> Older, status |-> "published", active |-> TRUE]}
        /\ ruleLinks \in {ToSet(list) : list \in LinkLists}
        /\ ruleEvents = {[by |-> Older, number |-> 1, action |-> a] :
                       a \in {"created", "version_created", "published", "activated"}}

-----------------------------------------------------------------------------
Visible(row) == row # None /\ ~row.deleted

ReceiveRule(r, op) ==
  /\ Begin(r, op, [rule |-> rule, links |-> ruleLinks])
  /\ UNCHANGED <<ruleTables, answers>>

\* max_version_number, or the versions that selectinload adds to the rule.
LoadVersions(r) ==
  /\ session[r].at = "row"
  /\ Load(r, [rule |-> session[r].seen.rule, links |-> session[r].seen.links,
              versions |-> versions])
  /\ UNCHANGED <<ruleTables, answers>>

Requesting(r, kind) == session[r].at = "loaded" /\ session[r].op.kind = kind
Wanted(r) == session[r].op
RuleSeen(r) == session[r].seen

NextNumber(rows) == Max({v.number : v \in rows} \cup {0}) + 1

\* Mutant: the superseded version keeps its status.
DeactivatedOnly(rows) == {[v EXCEPT !.active = FALSE] : v \in rows}
\* _publish_and_activate: the active version gives way before the new one comes.
Deactivated(rows) ==
  {IF v.active THEN [v EXCEPT !.active = FALSE, !.status = "archived"] ELSE v : v \in rows}

NewVersion(r, number) ==
  [number |-> number, by |-> r, active |-> Wanted(r).publish,
   status |-> IF Wanted(r).publish THEN "published" ELSE "draft"]

\* uq_rule_version_number and the partial index on the active version.  An insert
\* waits for whoever has inserted the same number, so that the active versions
\* are the ones that the session has read, or the insert fails.
StorableVersion(rows) ==
  \A v, w \in rows : v # w => v.number # w.number /\ ~(v.active /\ w.active)

Stored(r, number) ==
  (IF Wanted(r).publish
   THEN {IF v \in RuleSeen(r).versions /\ v.active THEN CHOOSE d \in Deactivated({v}) : TRUE
         ELSE v : v \in versions}
   ELSE versions) \cup {NewVersion(r, number)}

\* RuleValidator: an incomplete version stays a draft.
Fit(r) == Wanted(r).version = "incomplete" => ~Wanted(r).publish

Entered(r, number) ==
  {[by |-> r, number |-> number, action |-> a] :
     a \in {"version_created"}
           \cup (IF Wanted(r).publish THEN {"published", "activated"} ELSE {})}
Entry(r, number, action) == [by |-> r, number |-> number, action |-> action]

\* Mutant: what the rule had stays.
RelinkedAdding(r) == ruleLinks \cup ToSet(Wanted(r).links)
\* The rows that were loaded are deleted and new ones inserted.
Relinked(r) == (ruleLinks \ RuleSeen(r).links) \cup ToSet(Wanted(r).links)
\* The inserts come first and must not meet a row that is there, a copy among the
\* loaded ones included: an update that keeps one of its links is refused.
Linkable(r, present) ==
  Wanted(r).links # None =>
    IsInjective(Wanted(r).links) /\ ToSet(Wanted(r).links) \cap present = {}

CreateRule(r) ==
  /\ Requesting(r, "new rule")
  /\ RuleSeen(r).rule = None /\ rule = None /\ Linkable(r, {}) /\ Fit(r)
  /\ rule' = [enabled |-> TRUE, deleted |-> FALSE]
  /\ versions' = {NewVersion(r, 1)}
  /\ ruleLinks' = ToSet(Wanted(r).links)
  /\ ruleEvents' = Entered(r, 1) \cup {Entry(r, 1, "created")}
  /\ Finish(r, "done") /\ UNCHANGED answers

UpdateRule(r) ==
  LET number == NextNumber(RuleSeen(r).versions) IN
  /\ Requesting(r, "rule") /\ Visible(RuleSeen(r).rule)
  /\ Linkable(r, ruleLinks)
  /\ rule' = IF Wanted(r).enabled = None THEN rule
             ELSE Merge(rule, RuleSeen(r).rule,
                         [RuleSeen(r).rule EXCEPT !.enabled = Wanted(r).enabled])
  /\ ruleLinks' = IF Wanted(r).links = None THEN ruleLinks ELSE Relinked(r)
  /\ \/ Wanted(r).version = None /\ UNCHANGED versions
        /\ ruleEvents' = ruleEvents \cup {Entry(r, 0, "updated")}
     \/ /\ Wanted(r).version # None /\ Fit(r) /\ StorableVersion(Stored(r, number))
        /\ versions' = Stored(r, number)
        /\ ruleEvents' = ruleEvents \cup Entered(r, number) \cup {Entry(r, 0, "updated")}
  /\ Finish(r, "done") /\ UNCHANGED answers

\* Only marked: its code can never be given again (it stays unique).
DeleteRule(r) ==
  /\ Requesting(r, "delete rule") /\ Visible(RuleSeen(r).rule)
  /\ rule' = [rule EXCEPT !.deleted = TRUE]
  /\ ruleEvents' = ruleEvents \cup {Entry(r, 0, "deleted")}
  /\ Finish(r, "done") /\ UNCHANGED <<versions, ruleLinks, answers>>

RejectRule(r) ==
  /\ \/ /\ Requesting(r, "new rule")
        /\ RuleSeen(r).rule # None \/ rule # None \/ ~Linkable(r, {}) \/ ~Fit(r)
     \/ /\ Requesting(r, "rule")
        /\ \/ ~Visible(RuleSeen(r).rule) \/ ~Linkable(r, ruleLinks)
           \/ /\ Wanted(r).version # None
              /\ ~Fit(r) \/ ~StorableVersion(Stored(r, NextNumber(RuleSeen(r).versions)))
     \/ Requesting(r, "delete rule") /\ ~Visible(RuleSeen(r).rule)
  /\ Finish(r, "failed") /\ UNCHANGED <<ruleTables, answers>>

ActiveVersions(rows) == {v \in rows : v.active /\ v.status = "published"}

\* RuleEngine.find_applicable, with the links that the first SELECT read.
FindApplicable(r) ==
  /\ Requesting(r, "find rule")
  /\ answers' = answers \cup
       {[by |-> r, number |-> v.number, links |-> RuleSeen(r).links] :
          v \in IF Visible(RuleSeen(r).rule) /\ RuleSeen(r).rule.enabled
                THEN ActiveVersions(RuleSeen(r).versions) ELSE {}}
  /\ Finish(r, "done") /\ UNCHANGED ruleTables

RuleConnectionLost(r) == Lost(r) /\ UNCHANGED <<ruleTables, answers>>

RuleNext ==
  \E r \in Requests :
    \/ \E op \in RuleBodies : ReceiveRule(r, op)
    \/ LoadVersions(r)
    \/ CreateRule(r) \/ UpdateRule(r) \/ DeleteRule(r)
    \/ RejectRule(r) \/ FindApplicable(r) \/ RuleConnectionLost(r)

RuleSpec == RuleInit /\ [][RuleNext]_ruleVars

-----------------------------------------------------------------------------
(* Whatever overlaps.                                                      *)

\* Version numbers are 1, 2, ..., n: two updates that overlap never get the same
\* one, and an update that fails leaves no gap.
NumbersAreDense == {v.number : v \in versions} = 1 .. Cardinality(versions)

\* At most one version is active; it is published, and the newest of those that
\* ever were.
ActiveIsLatest ==
  \A v \in versions :
    /\ v.active <=> v.status = "published"
    /\ v.active => \A w \in versions \ {v} :
                      ~w.active /\ (w.status # "draft" => w.number < v.number)

\* A version that was published keeps its number and content, and once archived
\* it does not come back.
PublishedIsKept ==
  [][\A v \in versions : \E w \in versions' :
       /\ w.number = v.number /\ w.by = v.by
       /\ v.status # "draft" => w.status \in {v.status, "archived"}]_ruleVars

\* The history says which request created and published each version, and
\* nothing of versions that do not exist.
HistoryMatches ==
  /\ {e.number : e \in {f \in ruleEvents : f.action = "version_created"}}
       = {v.number : v \in versions}
  /\ \A v \in versions :
       (v.status # "draft") <=> Entry(v.by, v.number, "activated") \in ruleEvents

(* As long as requests do not overlap.                                     *)

\* An accepted update leaves exactly the links that it names; of two that overlap
\* both may stay.
LinksAsAsked ==
  [][\A r \in Requests :
       ~overlapped' /\ Requesting(r, "rule") /\ session'[r].at = "done" /\ Wanted(r).links # None
         => ruleLinks' = ToSet(Wanted(r).links)]_ruleVars

\* The engine answers with the active version of a rule that is neither disabled
\* nor deleted, and with the links that this version goes with.
EngineIsCurrent ==
  [][\A a \in answers' \ answers :
       ~overlapped' => /\ rule.enabled /\ ~rule.deleted /\ a.links = ruleLinks
                       /\ \E v \in versions : v.active /\ v.number = a.number]_ruleVars

\* Nothing is added to a rule that has been deleted.
DeletedIsClosed ==
  [][~overlapped' /\ rule # None /\ rule.deleted =>
       UNCHANGED <<rule, versions, ruleLinks>>]_ruleVars

\* Numbers, statuses, the active version and the history of a rule agree.
VersionsAgree == NumbersAreDense /\ ActiveIsLatest /\ HistoryMatches

\* What is published stays, an accepted update is what was asked for, and the
\* engine applies it; a deleted rule is over.
RuleStepsHold == PublishedIsKept /\ LinksAsAsked /\ EngineIsCurrent /\ DeletedIsClosed
=============================================================================
