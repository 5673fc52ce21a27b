-------------------------- MODULE SchemaMigrations --------------------------
(***************************************************************************)
(* The Alembic chain of migrations/versions, run against one database by    *)
(* several processes: every instance of the server upgrades to head before  *)
(* it serves (docker-compose.yml), and an operator upgrades and downgrades. *)
(* A run is one transaction (migrations/env.py); its statements are taken   *)
(* one at a time, and PostgreSQL makes a statement wait for a transaction   *)
(* that has touched the same object.                                        *)
(***************************************************************************)
EXTENDS SchemaModels, Naturals, FiniteSets, FiniteSetsExt, Sequences, SequencesExt

CONSTANTS
  Instances,   \* the server's instances
  Operator,    \* who runs alembic by hand
  Targets,     \* what the operator asks for: "head", "minus one", "base"
  MaxOrders,   \* bound: runs of the operator
  MaxCrashes   \* bound: crashes and redeployments of instances

---------------------------------------------------------------------------
(* The tables each revision creates and drops, in the order it does.        *)

DataModelTables ==
  << T("administrative_areas", {}, {"administrative_areas"}, {}, {"geometry"}),
     T("availability_statuses", {}, {}, {}, {}),
     T("capabilities", {}, {}, {}, {}),
     T("equipment_types", {}, {}, {}, {}),
     T("incident_types", {}, {"incident_types"}, {}, {}),
     T("organizations", {}, {"organizations"}, {}, {}),
     T("permissions", {}, {}, {}, {}),
     T("personnel_roles", {}, {}, {}, {}) >>

DataModelTables2 ==
  << T("resource_types", {}, {}, {}, {"resource_category"}),
     T("roles", {}, {}, {}, {}),
     T("vehicle_types", {}, {}, {}, {}),
     T("incident_type_capabilities", {"capabilities", "incident_types"}, {}, {}, {}),
     T("locations", {}, {"administrative_areas"}, {}, {"geometry"}),
     T("role_permissions", {"permissions", "roles"}, {}, {}, {}),
     T("resources", {}, {"availability_statuses", "locations", "resources"},
       {"organizations", "resource_types"}, {"geometry"}) >>

DataModelTables3 ==
  << T("coordinate_history", {"resources"}, {}, {}, {"geometry"}),
     T("coverage_areas", {"resources"}, {"administrative_areas"}, {}, {"geometry"}),
     T("equipment", {"resources"}, {}, {"equipment_types"}, {}),
     T("personnel", {"resources"}, {}, {"personnel_roles"}, {}),
     T("resource_capabilities", {"capabilities", "resources"}, {}, {}, {}),
     T("stations", {"resources"}, {}, {}, {}) >>

DataModelTables4 ==
  << T("vehicles", {"resources"}, {}, {"vehicle_types"}, {}),
     T("coverage_area_incident_types", {"coverage_areas", "incident_types"}, {}, {}, {}),
     T("users", {}, {"personnel"}, {}, {}),
     T("audit_logs", {}, {"users"}, {}, {"audit_action"}),
     T("status_history", {"resources"}, {"availability_statuses", "users"},
       {"availability_statuses"}, {}),
     T("user_roles", {"roles", "users"}, {}, {}, {}) >>

DataModelDrops ==
  << "user_roles", "status_history", "audit_logs", "users",
     "coverage_area_incident_types", "vehicles", "stations",
     "resource_capabilities", "personnel", "equipment", "coverage_areas",
     "coordinate_history", "resources", "role_permissions", "locations",
     "incident_type_capabilities", "vehicle_types", "roles", "resource_types",
     "personnel_roles", "permissions", "organizations", "incident_types",
     "equipment_types", "capabilities", "availability_statuses",
     "administrative_areas" >>

GisTables ==
  << T("gis_coordinates", {}, {}, {}, {"geometry"}),
     T("gis_geocoding_logs", {}, {}, {}, {}),
     T("gis_regions", {}, {"administrative_areas"}, {}, {"geometry"}),
     T("gis_districts", {"gis_regions"}, {}, {}, {"geometry"}),
     T("gis_settlements", {}, {"gis_districts", "gis_regions"}, {}, {"geometry"}),
     T("gis_streets", {"gis_settlements"}, {}, {}, {}),
     T("gis_buildings", {}, {"gis_streets"}, {}, {"geometry"}) >>

GisTables2 ==
  << T("gis_addresses", {}, {"gis_buildings", "gis_coordinates", "gis_districts",
       "gis_regions", "gis_settlements", "gis_streets"}, {}, {"geometry"}) >>

GisDrops ==
  << "gis_addresses", "gis_buildings", "gis_streets", "gis_settlements",
     "gis_districts", "gis_regions", "gis_geocoding_logs", "gis_coordinates" >>

RulesTables ==
  << T("rule_categories", {}, {}, {}, {}),
     T("rule_sets", {}, {}, {}, {}),
     T("rules", {}, {"rule_sets"}, {"rule_categories"}, {}),
     T("rule_incident_categories", {"rules"}, {}, {}, {"incident_complexity"}),
     T("rule_incident_types", {"incident_types", "rules"}, {}, {}, {}),
     T("rule_tags", {"rules"}, {}, {}, {}),
     T("rule_versions", {"rules"}, {"users"}, {}, {"rule_priority", "rule_status"}),
     T("rule_actions", {"rule_versions"}, {}, {}, {"rule_action_type"}),
     T("rule_capability_requirements", {"rule_versions"}, {}, {}, {}) >>

RulesTables2 ==
  << T("rule_conditions", {"rule_versions"}, {}, {}, {"rule_condition_operator",
       "rule_condition_type"}),
     T("rule_history", {"rules"}, {"rule_versions", "users"}, {}, {"rule_history_action"}),
     T("rule_resource_requirements", {"rule_versions"}, {}, {}, {"resource_category",
       "rule_priority"}) >>

RulesDrops ==
  << "rule_resource_requirements", "rule_history", "rule_conditions",
     "rule_capability_requirements", "rule_actions", "rule_versions",
     "rule_tags", "rule_incident_types", "rule_incident_categories", "rules",
     "rule_sets", "rule_categories" >>

DispatchTables ==
  << T("dispatch_recommendations", {}, {"administrative_areas"}, {"incident_types"},
       {"dispatch_status", "incident_complexity", "recommendation_confidence",
       "rule_priority"}),
     T("dispatch_capability_matches", {"dispatch_recommendations"}, {}, {}, {}),
     T("dispatch_decisions", {"dispatch_recommendations"}, {}, {}, {"dispatch_status"}),
     T("dispatch_recommendation_summaries", {"dispatch_recommendations"}, {}, {}, {}),
     T("dispatch_recommendation_items", {"dispatch_recommendations", "resources"}, {}, {},
       {"recommendation_role"}),
     T("dispatch_resource_matches", {"dispatch_recommendations", "resources"}, {}, {},
       {"dispatch_exclusion_reason"}),
     T("dispatch_recommendation_reasons", {"dispatch_recommendation_items",
       "dispatch_recommendations"}, {}, {}, {}) >>

DispatchDrops ==
  << "dispatch_recommendation_reasons", "dispatch_resource_matches",
     "dispatch_recommendation_items", "dispatch_recommendation_summaries",
     "dispatch_decisions", "dispatch_capability_matches",
     "dispatch_recommendations" >>

IncidentsTables ==
  << T("incidents", {}, {"administrative_areas", "incident_types", "users"}, {},
       {"incident_category", "incident_priority", "incident_source", "incident_status"}),
     T("incident_attachments", {"incidents"}, {"users"}, {}, {"incident_attachment_kind"}),
     T("incident_comments", {"incidents"}, {"users"}, {}, {}),
     T("incident_dispatches", {"incidents", "resources"}, {}, {},
       {"incident_dispatch_status"}),
     T("incident_history", {"incidents"}, {"users"}, {}, {"incident_change_source"}),
     T("incident_locations", {"incidents"}, {"administrative_areas"}, {}, {}) >>

IncidentsTables2 ==
  << T("incident_logs", {"incidents"}, {"users"}, {}, {}),
     T("incident_participants", {"incidents"}, {"organizations"}, {}, {}),
     T("incident_recommendations", {"incidents"}, {"dispatch_recommendations"}, {}, {}),
     T("incident_timeline", {"incidents"}, {"users"}, {}, {"incident_timeline_event"}) >>

IncidentsDrops ==
  << "incident_timeline", "incident_recommendations", "incident_participants",
     "incident_logs", "incident_locations", "incident_history",
     "incident_dispatches", "incident_comments", "incident_attachments",
     "incidents" >>

FleetTables ==
  << T("shifts", {}, {}, {}, {}),
     T("personnel_qualifications", {"resources"}, {}, {}, {"personnel_qualification_kind"}),
     T("vehicle_states", {"resources"}, {}, {}, {"vehicle_technical_condition"}),
     T("units", {}, {"availability_statuses", "organizations", "resources", "stations"}, {},
       {}),
     T("crews", {}, {"organizations", "shifts", "units"}, {}, {}),
     T("crew_members", {"crews", "resources"}, {}, {}, {}),
     T("duty_rosters", {"crews", "shifts"}, {"units"}, {}, {}) >>

FleetTables2 ==
  << T("resource_assignments", {"units"}, {"incidents"}, {},
       {"resource_assignment_status"}),
     T("resource_management_history", {}, {"crews", "incidents", "resources", "units",
       "users"}, {}, {"resource_event_type"}) >>

FleetDrops ==
  << "resource_management_history", "resource_assignments", "duty_rosters",
     "crew_members", "crews", "units", "vehicle_states",
     "personnel_qualifications", "shifts" >>

CallsTables ==
  << T("calls", {}, {"incidents", "users"}, {}, {"call_direction", "call_priority",
       "call_source", "call_status", "call_type"}),
     T("call_history", {"calls"}, {"incidents", "users"}, {}, {"call_event_type",
       "call_status"}),
     T("call_incident_links", {"calls", "incidents"}, {}, {}, {"call_link_type"}),
     T("call_metadata", {"calls"}, {}, {}, {}),
     T("call_participants", {"calls"}, {"organizations"}, {}, {"call_participant_role"}),
     T("call_queue", {"calls"}, {"users"}, {}, {"call_priority", "call_queue_status"}) >>

CallsTables2 ==
  << T("call_recordings", {"calls"}, {}, {}, {"call_recording_status"}),
     T("call_transcripts", {"calls"}, {}, {}, {"call_transcript_status"}) >>

CallsDrops ==
  << "call_transcripts", "call_recordings", "call_queue", "call_participants",
     "call_metadata", "call_incident_links", "call_history", "calls" >>

AITables ==
  << T("ai_audit_log", {}, {"calls", "incidents"}, {}, {"ai_audit_capability",
       "ai_audit_status"}) >>

AIDrops ==
  << "ai_audit_log" >>

AdminTables ==
  << T("account_statuses", {}, {}, {}, {}),
     T("app_settings", {}, {}, {}, {"admin_setting_category", "admin_setting_type"}),
     T("authentication_methods", {}, {}, {}, {"admin_auth_method_kind"}),
     T("integration_providers", {}, {}, {}, {}),
     T("password_policies", {}, {}, {}, {}),
     T("permission_groups", {}, {}, {}, {}),
     T("integrations", {}, {"integration_providers"}, {}, {"admin_integration_status"}),
     T("permission_group_permissions", {"permission_groups", "permissions"}, {}, {}, {}),
     T("integration_configurations", {"integrations"}, {}, {}, {}) >>

AdminTables2 ==
  << T("integration_health_checks", {"integrations"}, {}, {}, {"admin_health_status"}),
     T("app_setting_history", {"app_settings"}, {"users"}, {}, {}),
     T("user_sessions", {"users"}, {}, {}, {}) >>

AdminDrops ==
  << "user_sessions", "app_setting_history", "integration_health_checks",
     "integration_configurations", "permission_group_permissions",
     "integrations", "permission_groups", "password_policies",
     "integration_providers", "authentication_methods", "app_settings",
     "account_statuses" >>

CrisisTables ==
  << T("crisis_response_levels", {}, {}, {}, {}),
     T("crisis_operations", {}, {"crisis_response_levels"}, {}, {}),
     T("crisis_headquarters", {"crisis_operations"}, {}, {}, {}),
     T("crisis_command_assignments", {"crisis_headquarters"}, {}, {}, {}),
     T("crisis_sectors", {"crisis_operations"}, {}, {}, {}),
     T("crisis_zones", {"crisis_operations"}, {"crisis_sectors"}, {}, {}) >>

CrisisTables2 ==
  << T("crisis_plan_stages", {"crisis_operations"}, {}, {}, {}),
     T("crisis_tasks", {"crisis_operations"}, {"crisis_plan_stages", "crisis_sectors"}, {},
       {}),
     T("crisis_resource_groups", {"crisis_operations"}, {"crisis_sectors"}, {}, {}),
     T("crisis_resource_group_members", {"crisis_resource_groups"}, {}, {}, {}),
     T("crisis_resource_moves", {"crisis_resource_groups"}, {"crisis_sectors"}, {}, {}) >>

CrisisTables3 ==
  << T("crisis_situation_reports", {"crisis_operations"}, {}, {}, {}),
     T("crisis_operational_orders", {"crisis_operations"}, {}, {}, {}),
     T("crisis_journal_entries", {"crisis_operations"}, {}, {}, {}) >>

CrisisDrops ==
  << "crisis_journal_entries", "crisis_operational_orders",
     "crisis_situation_reports", "crisis_resource_moves",
     "crisis_resource_group_members", "crisis_resource_groups", "crisis_tasks",
     "crisis_plan_stages", "crisis_zones", "crisis_sectors",
     "crisis_command_assignments", "crisis_headquarters", "crisis_operations",
     "crisis_response_levels" >>

RulesEnums ==
  << "rule_status", "rule_priority", "incident_complexity",
     "rule_condition_type", "rule_condition_operator", "rule_action_type",
     "rule_history_action" >>

DispatchEnums ==
  << "recommendation_role", "recommendation_confidence", "dispatch_status",
     "dispatch_exclusion_reason" >>

IncidentsEnums ==
  << "incident_status", "incident_priority", "incident_category",
     "incident_source", "incident_timeline_event", "incident_change_source",
     "incident_dispatch_status", "incident_attachment_kind" >>

FleetEnums ==
  << "vehicle_technical_condition", "personnel_qualification_kind",
     "resource_assignment_status", "resource_event_type" >>

CallsEnums ==
  << "call_status", "call_priority", "call_type", "call_source",
     "call_direction", "call_event_type", "call_queue_status",
     "call_participant_role", "call_recording_status", "call_transcript_status",
     "call_link_type" >>

AIEnums ==
  << "ai_audit_capability", "ai_audit_status" >>

AdminEnums ==
  << "admin_setting_type", "admin_setting_category", "admin_integration_status",
     "admin_health_status", "admin_auth_method_kind" >>

---------------------------------------------------------------------------
(* Statements.  "create" and "drop" fail on an object that is there, or is  *)
(* not; "ensure" and "discard" look first; "seed" leaves rows that are      *)
(* there alone, "insert" would add them twice and is refused.               *)

Each(do, names) == [i \in DOMAIN names |-> [do |-> do, on |-> names[i]]]
Created(tables) == Each("create", [i \in DOMAIN tables |-> tables[i].name])

DataModelUp ==
  Created(DataModelTables) \o Each("create", <<"resource_category">>)
    \o Created(DataModelTables2) \o Created(DataModelTables3)
    \o Each("create", <<"audit_action">>) \o Created(DataModelTables4)

DataModelDown ==
  Each("drop", DataModelDrops) \o Each("discard", <<"audit_action", "resource_category">>)

SeededStatuses == <<"availability_statuses">>

SeededCatalogs ==
  <<"account_statuses", "authentication_methods", "integration_providers",
    "password_policies">>

DefaultLevels == <<"crisis_response_levels">>

Upgrades ==
  << Each("ensure", <<"alembic_version", "geometry">>),
     DataModelUp,
     Created(GisTables \o GisTables2),
     Each("ensure", RulesEnums) \o Created(RulesTables \o RulesTables2),
     Each("ensure", DispatchEnums) \o Created(DispatchTables),
     Each("ensure", IncidentsEnums) \o Created(IncidentsTables \o IncidentsTables2),
     Each("ensure", FleetEnums) \o Created(FleetTables \o FleetTables2)
       \o Each("seed", SeededStatuses),
     Each("ensure", CallsEnums) \o Created(CallsTables \o CallsTables2),
     Each("ensure", AIEnums) \o Created(AITables),
     Each("ensure", AdminEnums) \o Created(AdminTables \o AdminTables2)
       \o Each("seed", SeededCatalogs),
     Created(CrisisTables \o CrisisTables2 \o CrisisTables3) \o Each("insert", DefaultLevels) >>

Downgrades ==
  << << >>,
     DataModelDown,
     Each("drop", GisDrops),
     Each("drop", RulesDrops) \o Each("discard", RulesEnums),
     Each("drop", DispatchDrops) \o Each("discard", Reverse(DispatchEnums)),
     Each("drop", IncidentsDrops) \o Each("discard", Reverse(IncidentsEnums)),
     Each("drop", FleetDrops) \o Each("discard", Reverse(FleetEnums)),
     Each("drop", CallsDrops) \o Each("discard", Reverse(CallsEnums)),
     Each("drop", AIDrops) \o Each("discard", Reverse(AIEnums)),
     Each("drop", AdminDrops) \o Each("discard", Reverse(AdminEnums)),
     Each("drop", CrisisDrops) >>

LastRevision == Len(Upgrades)

(* A revision's script ends by moving the row of alembic_version. *)
Stamp(from, to) ==
  << [do |-> "stamp", on |-> "alembic_version", from |-> from, to |-> to] >>

Scripts ==
  [up \in BOOLEAN |-> [r \in 1..LastRevision |->
     IF up THEN Upgrades[r] \o Stamp(r - 1, r) ELSE Downgrades[r] \o Stamp(r, r - 1)]]

(* What the first n statements of a script are about, of those that do one  *)
(* of "kinds".                                                               *)
About(script, n, kinds) == {script[i].on : i \in {j \in 1 .. n : script[j].do \in kinds}}
Making  == {"create", "ensure"}
Filling == {"seed", "insert"}
Removing == {"drop", "discard"}
Statements == [do : Making \cup Filling \cup Removing, on : STRING]

(* The objects a revision brings, those that stand at a version, and those  *)
(* that no downgrade takes away; all tables the chain creates.               *)
Brought(r)  == About(Upgrades[r], Len(Upgrades[r]), Making)
Standing(v) == UNION {Brought(r) : r \in 2 .. v}
Lasting     == {"alembic_version", "geometry"}

(* The tables with rows before statement n + 1 of a revision.               *)
Sown(r, n) ==
  (UNION {About(Upgrades[q], Len(Upgrades[q]), Filling) : q \in 1 .. r - 1})
    \cup About(Upgrades[r], n, Filling)

MigratedTables ==
  ToSet(DataModelTables \o DataModelTables2 \o DataModelTables3 \o DataModelTables4
        \o GisTables \o GisTables2 \o RulesTables \o RulesTables2 \o DispatchTables
        \o IncidentsTables \o IncidentsTables2 \o FleetTables \o FleetTables2
        \o CallsTables \o CallsTables2 \o AITables \o AdminTables \o AdminTables2
        \o CrisisTables \o CrisisTables2 \o CrisisTables3)

(* The objects a definition needs, itself apart. *)
Needs ==
  [n \in {t.name : t \in MigratedTables} |->
     LET t == CHOOSE x \in MigratedTables : x.name = n
     IN (t.owners \cup t.forgets \cup t.keeps \cup t.types) \ {n}]
NeededBy(n) == IF n \in DOMAIN Needs THEN Needs[n] ELSE {}

(* The statements of an upgrade in their order: each makes what is not there *)
(* out of what is, or fills a table that is there, and adds rows once; every  *)
(* type is one that a table of the revision needs.                            *)
UpgradeApplies(r) ==
  LET script == Upgrades[r]
      created == About(script, Len(script), {"create"})
  IN /\ \A i \in DOMAIN script :
          LET s == script[i]
              made == About(script, i - 1, Making)
              before == Standing(r - 1) \cup (IF r = 1 THEN {} ELSE Lasting) \cup made
          IN \/ s.do \in Making /\ s.on \notin before /\ NeededBy(s.on) \subseteq before
             \/ s.do = "seed" /\ s.on \in before
             \/ s.do = "insert" /\ s.on \in made \ Sown(r, i - 1)
     /\ r = 1 => \A i \in DOMAIN script : script[i].do = "ensure" /\ script[i].on \in Lasting
     /\ r > 1 => Brought(r) \subseteq created \cup UNION {NeededBy(n) : n \in created}

(* Those of a downgrade: each takes away what is there and nothing needs, a  *)
(* table first, and in the end all that the revision brought is gone.         *)
DowngradeApplies(r) ==
  LET script == Downgrades[r]
      gone(n) == About(script, n, Removing)
  IN /\ \A i \in DOMAIN script :
          LET left == (Standing(r) \cup Lasting) \ gone(i - 1)
          IN /\ script[i].do \in Removing /\ script[i].on \in left
             /\ \A n \in left : script[i].on \notin NeededBy(n)
     /\ gone(Len(script)) = Brought(r) \ Lasting
     /\ r > 1 => script # << >> /\ script[1].do = "drop"

(* Of the chain as it is written, which no constant changes: its scripts     *)
(* apply one after the other and back, and its tables are the models'.        *)
ASSUME ChainAssumption ==
  /\ Upgrades \in Seq(Seq(Statements)) /\ Downgrades \in Seq(Seq(Statements))
  /\ LastRevision > 1 /\ Len(Downgrades) = LastRevision
  /\ Brought(1) = Lasting
  /\ Upgrades[2] # << >> /\ Upgrades[2][1].do = "create"
  /\ \A r \in 1 .. LastRevision : UpgradeApplies(r) /\ DowngradeApplies(r)
  /\ MigratedTables = ModelTables
  /\ Standing(LastRevision) \cup {"geometry"} = UNION {{t.name} \cup t.types : t \in ModelTables}

---------------------------------------------------------------------------
(* The database, and a run of Alembic. *)

Processes == Instances \cup {Operator}

VARIABLES
  objects,   \* the tables and types of the committed schema
  filled,    \* the tables whose reference rows are committed
  heads,     \* the rows of alembic_version
  runs,      \* process -> its run
  orders, crashes

migrationVars == <<objects, filled, heads, runs, orders, crashes>>

Resting(phase, alone) ==
  [phase |-> phase, alone |-> alone, up |-> TRUE, goal |-> 0, rev |-> 0, at |-> 0,
   added |-> {}, removed |-> {}, sown |-> {}, mark |-> {}, held |-> {}]

Active(p) == runs[p].phase \in {"running", "waiting"}

(* What a transaction sees: what is committed and what it did itself. *)
Seen(p)      == (objects \ runs[p].removed) \cup runs[p].added
SeenHeads(p) == IF runs[p].mark # {}
                THEN UNION runs[p].mark ELSE heads

MigrationInit ==
  /\ objects = {} /\ filled = {} /\ heads = {}
  /\ runs = [p \in Processes |-> Resting("idle", TRUE)]
  /\ orders = 0 /\ crashes = 0

Current == IF heads = {} THEN 0 ELSE Max(heads)

(* Alembic reads the version and plans the revisions to run. *)
Begun(p, goal) ==
  LET alone == \A q \in Processes \ {p} : ~ Active(q)
      run == [Resting("running", alone) EXCEPT
                !.up = goal > Current, !.goal = goal, !.at = 1,
                !.rev = IF goal > Current THEN Current + 1 ELSE Current]
  IN runs' = [q \in Processes |->
                IF q = p THEN IF goal = Current THEN Resting("done", TRUE) ELSE run
                ELSE IF Active(q) THEN [runs[q] EXCEPT !.alone = FALSE] ELSE runs[q]]

(* Mutant: a container whose upgrade failed is not started again. *)
RestartNever == {"idle"}
Restartable == {"idle", "refused", "failed"}

StartInstance(i) ==
  /\ runs[i].phase \in Restartable
  /\ Begun(i, LastRevision)
  /\ UNCHANGED <<objects, filled, heads, orders, crashes>>

StartOperator(target) ==
  /\ ~ Active(Operator) /\ orders < MaxOrders
  /\ orders' = orders + 1
  /\ \/ target = "head" /\ Begun(Operator, LastRevision)
     \/ target = "minus one" /\ Current > 0 /\ Begun(Operator, Current - 1)
     \/ target = "base" /\ Begun(Operator, 0)
  /\ UNCHANGED <<objects, filled, heads, crashes>>

---------------------------------------------------------------------------
(* One statement. *)

Statement(p) == Scripts[runs[p].up][runs[p].rev][runs[p].at]

Touched(s) ==
  {s.on} \cup IF s.do \in {"create", "drop"} THEN NeededBy(s.on) \cap DOMAIN Needs ELSE {}

Blocks(q, p) == q # p /\ runs[q].held \cap Touched(Statement(p)) # {}
Blocked(p)   == \E q \in Processes : Blocks(q, p)

SeenFilled(p) == ((filled \cup runs[p].sown) \cap Seen(p))

Skipped(p, s) ==
  \/ s.do = "ensure" /\ s.on \in Seen(p)
  \/ s.do = "discard" /\ s.on \notin Seen(p)

(* Inserting the row of a version that is there, moving one that is not. *)
Mismatched(p, s) == IF s.from = 0 THEN s.to \in SeenHeads(p) ELSE s.from \notin SeenHeads(p)

Refused(p, s) ==
  \/ s.do \in {"create", "ensure"} /\ (s.on \in Seen(p) \/ ~ (NeededBy(s.on) \subseteq Seen(p)))
  \/ s.do \in {"drop", "discard"} /\ (s.on \notin Seen(p) \/ \E n \in Seen(p) : s.on \in NeededBy(n))
  \/ s.do \in {"seed", "insert"} /\ s.on \notin Seen(p)
  \/ s.do = "insert" /\ s.on \in SeenFilled(p)
  \/ s.do = "stamp" /\ Mismatched(p, s)

(* The statement's effect within the transaction, and the next one's place. *)
Onward(p, run) ==
  IF run.at < Len(Scripts[run.up][run.rev]) THEN [run EXCEPT !.at = @ + 1]
  ELSE [run EXCEPT !.at = 1, !.rev = IF run.up THEN @ + 1 ELSE @ - 1]

Applied(p, s) ==
  LET run == runs[p]
      kept == [run EXCEPT !.phase = "running", !.held = @ \cup Touched(s)]
  IN CASE s.do \in {"create", "ensure"} -> [kept EXCEPT !.added = @ \cup {s.on}]
       [] s.do \in {"drop", "discard"} -> [kept EXCEPT !.removed = @ \cup {s.on}]
       [] s.do \in {"seed", "insert"} -> [kept EXCEPT !.sown = @ \cup {s.on}]
       [] OTHER -> [kept EXCEPT !.mark =
                      {(SeenHeads(p) \ {s.from}) \cup ({s.to} \ {0})}]

Complete(run) == IF run.up THEN run.rev > run.goal ELSE run.rev = run.goal

(* Mutant: every statement is its own transaction. *)
DidAtOnce(p, run) ==
  /\ runs' = [runs EXCEPT ![p] = run]
  /\ objects' = (objects \ run.removed) \cup run.added
  /\ UNCHANGED <<filled, heads, orders, crashes>>

Did(p, run) ==
  /\ runs' = [runs EXCEPT ![p] = run]
  /\ UNCHANGED <<objects, filled, heads, orders, crashes>>

Step(p) ==
  /\ runs[p].phase = "running" /\ ~ Complete(runs[p])
  /\ LET s == Statement(p)
     IN Did(p, IF Skipped(p, s) THEN Onward(p, runs[p])
               ELSE IF Blocked(p) THEN [runs[p] EXCEPT !.phase = "waiting"]
               ELSE IF Refused(p, s) THEN Resting("refused", runs[p].alone)
               ELSE Onward(p, Applied(p, s)))

(* The other transaction is over: the statement goes on. *)
Resume(p) ==
  /\ runs[p].phase = "waiting" /\ ~ Blocked(p)
  /\ LET s == Statement(p)
     IN Did(p, IF Refused(p, s) THEN Resting("refused", runs[p].alone)
               ELSE Onward(p, Applied(p, s)))

Commit(p) ==
  /\ runs[p].phase = "running" /\ Complete(runs[p])
  /\ objects' = Seen(p)
  /\ filled' = SeenFilled(p)
  /\ heads' = SeenHeads(p)
  /\ runs' = [runs EXCEPT ![p] = Resting("done", TRUE)]
  /\ UNCHANGED <<orders, crashes>>

(* PostgreSQL aborts one of several transactions that wait for each other. *)
Deadlocked(p) ==
  \E S \in SUBSET Processes :
     /\ p \in S
     /\ \A q \in S : runs[q].phase = "waiting" /\ \E o \in S : Blocks(o, q)
AbortDeadlocked(p) == Deadlocked(p) /\ Did(p, Resting("failed", runs[p].alone))

(* An instance dies in its run, or is deployed again. *)
CrashInstance(i) ==
  /\ crashes < MaxCrashes
  /\ Active(i) \/ runs[i].phase = "done"
  /\ crashes' = crashes + 1
  /\ runs' = [runs EXCEPT ![i] = Resting("idle", TRUE)]
  /\ UNCHANGED <<objects, filled, heads, orders>>

Advance(p) == Step(p) \/ Resume(p) \/ Commit(p) \/ AbortDeadlocked(p)

MigrationNext ==
  \/ \E i \in Instances : StartInstance(i) \/ CrashInstance(i)
  \/ \E target \in Targets : StartOperator(target)
  \/ \E p \in Processes : Advance(p)

MigrationSpec == MigrationInit /\ [][MigrationNext]_migrationVars

(* The container restarts what failed, a process that runs goes on, and the *)
(* database takes one transaction out of a cycle.                            *)
MigrationFairness ==
  /\ \A i \in Instances : WF_migrationVars(StartInstance(i) \/ Advance(i))
  /\ WF_migrationVars(Advance(Operator))

---------------------------------------------------------------------------
(* Properties. *)

(* The committed schema is exactly what the committed version stands for,   *)
(* however upgrades, downgrades, crashes and concurrent runs alternated:     *)
(* nothing half applied, nothing left behind, never two versions.  PostGIS   *)
(* and Alembic's own table alone may outlive a downgrade to base.            *)
SchemaIsVersion ==
  /\ Cardinality(heads) <= 1
  /\ objects \ Lasting = Standing(Current)

(* At head the tables, their references with what a deletion does through    *)
(* them, and the native types are those of the models ("alembic check").     *)
SchemaMatchesModels ==
  heads = {LastRevision} =>
    /\ MigratedTables = ModelTables
    /\ objects \ {"alembic_version"} =
         UNION {{t.name} \cup t.types : t \in ModelTables}

(* A run that had the database to itself is never refused by a statement:    *)
(* the chain applies, rolls back and applies again from wherever it is.      *)
AloneNeverRefused == \A p \in Processes : runs[p].phase = "refused" => ~ runs[p].alone

(* The schema is one the migrations describe and the models expect, and no run  *)
(* that was alone has stumbled over it.                                          *)
SchemaIsSound == SchemaIsVersion /\ SchemaMatchesModels /\ AloneNeverRefused

(* "Rolling restarts and multiple instances are safe": the instances come to  *)
(* serve, whoever else migrates meanwhile and whichever of them died.         *)
InstancesComeUp ==
  <>[](\A i \in Instances : runs[i].phase = "done")
=============================================================================
