------------------------------ MODULE MCServices ------------------------------
(***************************************************************************)
(* The services of the backend on small instances: incidents, resources,    *)
(* crises, rules, administration, AI suggestions and dispatch               *)
(* recommendations.  They keep their tables apart and share nothing but the  *)
(* way sessions work, so a behaviour exercises one of them while the others   *)
(* are at rest: the run explores the sum of their states, not the product.    *)
(***************************************************************************)
EXTENDS IncidentService, ResourceManagement, CrisisOperations,
        RuleVersioning, Administration, AIPlatform, DispatchEngine

SomeUpdates == {[address |-> "a2"], [coords |-> "c2"], [address |-> None, coords |-> None],
                [address |-> "a1", priority |-> "high"], [priority |-> None]}
\* A chain of statuses, with a way out of it, and some on which a card can be found.
SomeTargets == {"confirmed", "cancelled", "completed", "archived"}
SomeStarted == {"checking", "liquidated", "cancelled"}
SomeCards == {[address |-> None, coords |-> None], [address |-> "a1", coords |-> "c1"]}
SomeUnitLists == {[units |-> {"u1"}, recommended |-> FALSE],
                  [units |-> {"u1", "u2"}, recommended |-> TRUE]}

SomeLists == {<<"t1">>, <<"t2">>, <<"t1", "t1">>}
Put == [kind |-> "rule", enabled |-> None, links |-> None, version |-> None,
        publish |-> FALSE]
SomeRuleBodies ==
  {[kind |-> "new rule", links |-> list, version |-> "complete", publish |-> TRUE] :
     list \in {<<"t1">>, <<"t1", "t1">>}}
  \cup {[Put EXCEPT !.enabled = FALSE], [Put EXCEPT !.links = <<"t2">>],
        [Put EXCEPT !.links = <<"t1">>, !.version = "complete"],
        [Put EXCEPT !.version = "complete", !.publish = TRUE],
        [Put EXCEPT !.version = "incomplete", !.publish = TRUE],
        [kind |-> "delete rule"], [kind |-> "find rule"]}

Patch == [kind |-> "setting", value |-> None, active |-> None, typed |-> TRUE]
PatchUser == [kind |-> "user", super |-> None, active |-> None, password |-> None,
              roles |-> None]
PatchLink == [kind |-> "integration", enabled |-> None, provider |-> None, configs |-> None]
SomeAdminBodies ==
  {[kind |-> "new setting", value |-> "v1", secret |-> secret, typed |-> TRUE] :
     secret \in BOOLEAN}
  \cup {[Patch EXCEPT !.value = "v1"], [Patch EXCEPT !.value = "v2"],
        [Patch EXCEPT !.value = "v2", !.typed = FALSE], [Patch EXCEPT !.active = FALSE]}
  \cup {[PatchUser EXCEPT !.super = TRUE], [PatchUser EXCEPT !.roles = {"chief"}],
        [PatchUser EXCEPT !.password = "good", !.roles = {}],
        [PatchUser EXCEPT !.password = "weak"]}
  \cup {[kind |-> "role", role |-> "chief", permissions |-> {}],
        [PatchLink EXCEPT !.enabled = FALSE], [PatchLink EXCEPT !.provider = "sms"],
        [PatchLink EXCEPT !.configs = {"port"}], [kind |-> "health"],
        [kind |-> "new item", known |-> TRUE], [kind |-> "item", known |-> TRUE],
        [kind |-> "item", known |-> FALSE], [kind |-> "check", permission |-> "crisis.command"]}

SomeAIBodies ==
  {[kind |-> "call", capability |-> "analyze", provider |-> "mock"],
   [kind |-> "text", capability |-> "classify", provider |-> "mock", incident |-> "i1"],
   [kind |-> "text", capability |-> "summarize", provider |-> "mock", incident |-> "gone"],
   [kind |-> "text", capability |-> "summarize", provider |-> "other", incident |-> None]}

ReadyStatus == [code |-> "ready", operational |-> TRUE, deployable |-> TRUE]
BusyStatus == [code |-> "busy", operational |-> TRUE, deployable |-> FALSE]
RepairStatus == [code |-> "repair", operational |-> FALSE, deployable |-> FALSE]
Row(state, distance, pump, ladder, areas) ==
  [status |-> state, distance |-> distance, areas |-> areas, category |-> "vehicle",
   organization |-> IF distance > 3 THEN "volunteers" ELSE "brigade",
   provides |-> ("pump" :> pump) @@ ("ladder" :> ladder)]
SomeUnitRows ==
  {Row(ReadyStatus, 1, 1, 0, {}), Row(ReadyStatus, 2, 2, 0, {"north"}),
   Row(ReadyStatus, 3, 0, 1, {}), Row(ReadyStatus, 6, 1, 1, {"south"}),
   Row(BusyStatus, 2, 1, 1, {}), Row(RepairStatus, 1, 1, 0, {}),
   Row(Nothing, 1, 2, 1, {}), Row(ReadyStatus, 4, 0, 0, {})}

Count(minimum, recommended, reserve) ==
  [minimum |-> minimum, recommended |-> recommended, reserve |-> reserve]
Need(quantity, mandatory) == [quantity |-> quantity, mandatory |-> mandatory]
Condition(type, operator, payload) == [type |-> type, operator |-> operator, payload |-> payload]
Always == [priority |-> "normal", counts |-> <<>>, needs |-> <<>>, complexities |-> {},
           conditions |-> {}]
SomeContents ==
  {[Always EXCEPT !.counts = "vehicle" :> Count(1, 1, 1), !.needs = "pump" :> Need(1, TRUE)],
   [Always EXCEPT !.counts = "vehicle" :> Count(2, 2, 0), !.priority = "high",
      !.conditions = {Condition("time_of_day", "between",
                        [Payload EXCEPT !.min = Number("20", 20), !.max = Number("23", 23)])}],
   [Always EXCEPT !.needs = ("pump" :> Need(2, TRUE)) @@ ("ladder" :> Need(1, TRUE)),
      !.complexities = {"complex"}],
   [Always EXCEPT !.needs = "ladder" :> Need(1, FALSE),
      !.conditions = {Condition("object_type", "not_in",
                        [Payload EXCEPT !.values = {Word("school")}])}]}

Facts(hour, complexity, object) ==
  [type \in ConditionTypes |->
     CASE type = "incident_type" -> Fact(Word("id"))
       [] type = "time_of_day" -> hour
       [] type = "incident_complexity" -> complexity
       [] type = "object_type" -> object
       [] type = "capability" -> Collection({})
       [] OTHER -> Unknown]
Plain == [point |-> "coordinates", known |-> TRUE, typed |-> TRUE, area |-> Nothing,
          danger |-> Nothing, excluded |-> {}, organizations |-> {}, radius |-> Nothing,
          preview |-> FALSE,
          facts |-> Facts(Fact(Number("20", 20)), Fact(Word("complex")), Fact(Word("hall")))]
Preview == [Plain EXCEPT !.preview = TRUE, !.point = "address"]
SomeAsks ==
  {Plain, Preview,
   [Plain EXCEPT !.point = "address", !.known = FALSE],
   [Plain EXCEPT !.facts = Facts(Unknown, Unknown, Unknown), !.danger = "critical"],
   [Plain EXCEPT !.radius = 2, !.area = "north",
      !.facts = Facts(Fact(Number("21.0", 21)), Fact(Word("simple")), Unknown)],
   [Plain EXCEPT !.excluded = {"u1"}, !.organizations = {"brigade"}, !.radius = 8]}

VARIABLE scope

incidentVars == <<tables, echo>>
crisisRows   == <<crisisTables, boards>>
ruleRows     == <<ruleTables, answers>>
adminRows    == <<adminTables, decisions>>
aiRows       == <<aiTables, invoked, suggested>>
everything == <<sessionVars, scope, incidentVars, resourceTables, crisisRows, ruleRows,
                adminRows, aiRows, dispatchVars>>
others == <<incidentVars, resourceTables, crisisRows, ruleRows, adminRows, aiRows, sessionVars>>

IncidentAtRest == Init /\ card = None
ResourceAtRest == ResourceInit /\ member = [p \in People |-> "none"]
CrisisAtRest   == CrisisInit /\ operation = None
RulesAtRest    == RuleInit /\ rule = None
AdminAtRest    == AdminInit /\ setting = None /\ granted = {} /\ item = None
AIAtRest       == AIInit /\ talk.texts = 0 /\ talk.incident = None
DispatchAtRest ==
  DispatchInit /\ unit = [u \in Units |-> Row(Nothing, 1, 2, 1, {})] /\ rulebook = {}

\* One recommendation at a time for any resources and rules; or two of the same
\* resources that overlap with each other and with changes of both.
OverlapInit ==
  /\ DispatchInit /\ Cardinality(rulebook) = 2
  /\ unit = ("u1" :> Row(ReadyStatus, 1, 1, 0, {}) @@ "u2" :> Row(ReadyStatus, 2, 2, 0, {"north"})
             @@ "u3" :> Row(ReadyStatus, 3, 0, 1, {}))
Asking == {r \in Askers : request[r].at # "new"}
OneAsks == Asking' \subseteq {"q1"} /\ changes' = 0
\* q1 is, without loss of generality, whoever comes first.
BothAsk ==
  /\ Asking' # {"q2"}
  /\ \A r \in Asking' : "ask" \in DOMAIN request'[r] =>
       request'[r].ask \in {Plain, Preview}

Scopes == {"incidents", "resources", "crises", "rules", "admin", "ai", "dispatch", "dispatches"}

ServicesInit ==
  /\ scope \in Scopes
  /\ IF scope = "incidents" THEN Init ELSE IncidentAtRest
  /\ IF scope = "resources" THEN ResourceInit ELSE ResourceAtRest
  /\ IF scope = "crises" THEN CrisisInit ELSE CrisisAtRest
  /\ IF scope = "rules" THEN RuleInit ELSE RulesAtRest
  /\ IF scope = "admin" THEN AdminInit /\ Cardinality(granted) = 1 ELSE AdminAtRest
  /\ IF scope = "ai" THEN AIInit ELSE AIAtRest
  /\ CASE scope = "dispatch" -> DispatchInit
       [] scope = "dispatches" -> OverlapInit
       [] OTHER -> DispatchAtRest

ServicesNext ==
  /\ UNCHANGED scope
  /\ \/ /\ scope = "incidents" /\ Next
        /\ UNCHANGED <<resourceTables, crisisRows, ruleRows, adminRows, aiRows, dispatchVars>>
     \/ /\ scope = "resources" /\ ResourceNext
        /\ UNCHANGED <<incidentVars, crisisRows, ruleRows, adminRows, aiRows, dispatchVars>>
     \/ /\ scope = "crises" /\ CrisisNext
        /\ UNCHANGED <<incidentVars, resourceTables, ruleRows, adminRows, aiRows, dispatchVars>>
     \/ /\ scope = "rules" /\ RuleNext
        /\ UNCHANGED <<incidentVars, resourceTables, crisisRows, adminRows, aiRows, dispatchVars>>
     \/ /\ scope = "admin" /\ AdminNext
        /\ UNCHANGED <<incidentVars, resourceTables, crisisRows, ruleRows, aiRows, dispatchVars>>
     \/ /\ scope = "ai" /\ AINext
        /\ UNCHANGED <<incidentVars, resourceTables, crisisRows, ruleRows, adminRows, dispatchVars>>
     \/ /\ scope = "dispatch" /\ DispatchNext /\ OneAsks /\ UNCHANGED others
     \/ /\ scope = "dispatches" /\ DispatchNext /\ BothAsk /\ UNCHANGED others

ServicesSpec == ServicesInit /\ [][ServicesNext]_everything

Symmetry == Permutations(Requests)

\* Every service keeps its tables and answers well formed: the columns have the
\* values that the schema allows, and a recommendation is whole.
TypesOK ==
  /\ TypeOK /\ ResourceTypeOK /\ CrisisTypeOK /\ RuleTypeOK /\ AdminTypeOK /\ AITypeOK
  /\ DispatchTypeOK
=============================================================================
