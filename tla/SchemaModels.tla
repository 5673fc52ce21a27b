---------------------------- MODULE SchemaModels ----------------------------
(***************************************************************************)
(* The tables of the object-relational models.  Of a table the model keeps  *)
(* what decides the order in which it can be created and dropped and what   *)
(* the deletion of a row does elsewhere: the tables its foreign keys name,  *)
(* by their ON DELETE rule, and the native types of its columns (the PostGIS*)
(* "geometry" among them).                                                  *)
(***************************************************************************)

(* A table: its name, the tables with which its rows are deleted (CASCADE), *)
(* those it forgets (SET NULL), those it keeps alive (RESTRICT), its types. *)
T(name, owners, forgets, keeps, types) ==
  [name |-> name, owners |-> owners, forgets |-> forgets, keeps |-> keeps,
   types |-> types]

AssetModels ==
  { T("stations", {"resources"}, {}, {}, {}),
    T("vehicles", {"resources"}, {}, {"vehicle_types"}, {}),
    T("personnel", {"resources"}, {}, {"personnel_roles"}, {}),
    T("equipment", {"resources"}, {}, {"equipment_types"}, {}) }

AuditModel ==
  { T("audit_logs", {}, {"users"}, {}, {"audit_action"}) }

CatalogModels ==
  { T("resource_types", {}, {}, {}, {"resource_category"}),
    T("vehicle_types", {}, {}, {}, {}),
    T("personnel_roles", {}, {}, {}, {}),
    T("equipment_types", {}, {}, {}, {}),
    T("availability_statuses", {}, {}, {}, {}),
    T("capabilities", {}, {}, {}, {}),
    T("incident_types", {}, {"incident_types"}, {}, {}),
    T("incident_type_capabilities", {"capabilities", "incident_types"}, {}, {}, {}) }

PlaceModels ==
  { T("administrative_areas", {}, {"administrative_areas"}, {}, {"geometry"}),
    T("locations", {}, {"administrative_areas"}, {}, {"geometry"}),
    T("coverage_areas", {"resources"}, {"administrative_areas"}, {}, {"geometry"}),
    T("coverage_area_incident_types", {"coverage_areas", "incident_types"}, {}, {}, {}) }

HistoryModels ==
  { T("status_history", {"resources"}, {"availability_statuses", "users"},
      {"availability_statuses"}, {}),
    T("coordinate_history", {"resources"}, {}, {}, {"geometry"}) }

OrganizationModel ==
  { T("organizations", {}, {"organizations"}, {}, {}) }

ResourceModels ==
  { T("resources", {}, {"availability_statuses", "locations", "resources"},
      {"organizations", "resource_types"}, {"geometry"}),
    T("resource_capabilities", {"capabilities", "resources"}, {}, {}, {}) }

SecurityModels ==
  { T("users", {}, {"personnel"}, {}, {}),
    T("roles", {}, {}, {}, {}),
    T("permissions", {}, {}, {}, {}),
    T("user_roles", {"roles", "users"}, {}, {}, {}),
    T("role_permissions", {"permissions", "roles"}, {}, {}, {}) }

GisModels ==
  { T("gis_regions", {}, {"administrative_areas"}, {}, {"geometry"}),
    T("gis_districts", {"gis_regions"}, {}, {}, {"geometry"}),
    T("gis_settlements", {}, {"gis_districts", "gis_regions"}, {}, {"geometry"}),
    T("gis_streets", {"gis_settlements"}, {}, {}, {}),
    T("gis_buildings", {}, {"gis_streets"}, {}, {"geometry"}),
    T("gis_coordinates", {}, {}, {}, {"geometry"}) }

GisModels2 ==
  { T("gis_addresses", {}, {"gis_buildings", "gis_coordinates", "gis_districts",
      "gis_regions", "gis_settlements", "gis_streets"}, {}, {"geometry"}),
    T("gis_geocoding_logs", {}, {}, {}, {}) }

RuleModels ==
  { T("rule_categories", {}, {}, {}, {}),
    T("rule_sets", {}, {}, {}, {}),
    T("rules", {}, {"rule_sets"}, {"rule_categories"}, {}),
    T("rule_versions", {"rules"}, {"users"}, {}, {"rule_priority", "rule_status"}),
    T("rule_conditions", {"rule_versions"}, {}, {}, {"rule_condition_operator",
      "rule_condition_type"}) }

RuleModels2 ==
  { T("rule_actions", {"rule_versions"}, {}, {}, {"rule_action_type"}),
    T("rule_resource_requirements", {"rule_versions"}, {}, {}, {"resource_category",
      "rule_priority"}),
    T("rule_capability_requirements", {"rule_versions"}, {}, {}, {}),
    T("rule_incident_types", {"incident_types", "rules"}, {}, {}, {}),
    T("rule_incident_categories", {"rules"}, {}, {}, {"incident_complexity"}),
    T("rule_tags", {"rules"}, {}, {}, {}),
    T("rule_history", {"rules"}, {"rule_versions", "users"}, {}, {"rule_history_action"}) }

DispatchModels ==
  { T("dispatch_recommendations", {}, {"administrative_areas"}, {"incident_types"},
      {"dispatch_status", "incident_complexity", "recommendation_confidence",
      "rule_priority"}),
    T("dispatch_recommendation_items", {"dispatch_recommendations", "resources"}, {}, {},
      {"recommendation_role"}),
    T("dispatch_recommendation_reasons", {"dispatch_recommendation_items",
      "dispatch_recommendations"}, {}, {}, {}) }

DispatchModels2 ==
  { T("dispatch_recommendation_summaries", {"dispatch_recommendations"}, {}, {}, {}),
    T("dispatch_resource_matches", {"dispatch_recommendations", "resources"}, {}, {},
      {"dispatch_exclusion_reason"}),
    T("dispatch_capability_matches", {"dispatch_recommendations"}, {}, {}, {}),
    T("dispatch_decisions", {"dispatch_recommendations"}, {}, {}, {"dispatch_status"}) }

IncidentModels ==
  { T("incidents", {}, {"administrative_areas", "incident_types", "users"}, {},
      {"incident_category", "incident_priority", "incident_source", "incident_status"}),
    T("incident_locations", {"incidents"}, {"administrative_areas"}, {}, {}),
    T("incident_participants", {"incidents"}, {"organizations"}, {}, {}) }

IncidentModels2 ==
  { T("incident_comments", {"incidents"}, {"users"}, {}, {}),
    T("incident_attachments", {"incidents"}, {"users"}, {}, {"incident_attachment_kind"}),
    T("incident_timeline", {"incidents"}, {"users"}, {}, {"incident_timeline_event"}),
    T("incident_history", {"incidents"}, {"users"}, {}, {"incident_change_source"}),
    T("incident_recommendations", {"incidents"}, {"dispatch_recommendations"}, {}, {}),
    T("incident_dispatches", {"incidents", "resources"}, {}, {},
      {"incident_dispatch_status"}) }

IncidentModels3 ==
  { T("incident_logs", {"incidents"}, {"users"}, {}, {}) }

FleetModels ==
  { T("units", {}, {"availability_statuses", "organizations", "resources", "stations"}, {},
      {}),
    T("shifts", {}, {}, {}, {}),
    T("crews", {}, {"organizations", "shifts", "units"}, {}, {}),
    T("crew_members", {"crews", "resources"}, {}, {}, {}) }

FleetModels2 ==
  { T("duty_rosters", {"crews", "shifts"}, {"units"}, {}, {}),
    T("resource_assignments", {"units"}, {"incidents"}, {}, {"resource_assignment_status"}),
    T("vehicle_states", {"resources"}, {}, {}, {"vehicle_technical_condition"}),
    T("personnel_qualifications", {"resources"}, {}, {}, {"personnel_qualification_kind"}) }

FleetModels3 ==
  { T("resource_management_history", {}, {"crews", "incidents", "resources", "units",
      "users"}, {}, {"resource_event_type"}) }

CallModels ==
  { T("calls", {}, {"incidents", "users"}, {}, {"call_direction", "call_priority",
      "call_source", "call_status", "call_type"}),
    T("call_queue", {"calls"}, {"users"}, {}, {"call_priority", "call_queue_status"}) }

CallModels2 ==
  { T("call_history", {"calls"}, {"incidents", "users"}, {}, {"call_event_type",
      "call_status"}),
    T("call_participants", {"calls"}, {"organizations"}, {}, {"call_participant_role"}),
    T("call_recordings", {"calls"}, {}, {}, {"call_recording_status"}),
    T("call_transcripts", {"calls"}, {}, {}, {"call_transcript_status"}) }

CallModels3 ==
  { T("call_incident_links", {"calls", "incidents"}, {}, {}, {"call_link_type"}),
    T("call_metadata", {"calls"}, {}, {}, {}) }

AIModel ==
  { T("ai_audit_log", {}, {"calls", "incidents"}, {}, {"ai_audit_capability",
      "ai_audit_status"}) }

AdminModels ==
  { T("permission_groups", {}, {}, {}, {}),
    T("permission_group_permissions", {"permission_groups", "permissions"}, {}, {}, {}),
    T("account_statuses", {}, {}, {}, {}),
    T("user_sessions", {"users"}, {}, {}, {}),
    T("password_policies", {}, {}, {}, {}),
    T("authentication_methods", {}, {}, {}, {"admin_auth_method_kind"}) }

AdminModels2 ==
  { T("app_settings", {}, {}, {}, {"admin_setting_category", "admin_setting_type"}),
    T("app_setting_history", {"app_settings"}, {"users"}, {}, {}),
    T("integration_providers", {}, {}, {}, {}),
    T("integrations", {}, {"integration_providers"}, {}, {"admin_integration_status"}),
    T("integration_configurations", {"integrations"}, {}, {}, {}) }

AdminModels3 ==
  { T("integration_health_checks", {"integrations"}, {}, {}, {"admin_health_status"}) }

CrisisModels ==
  { T("crisis_response_levels", {}, {}, {}, {}),
    T("crisis_operations", {}, {"crisis_response_levels"}, {}, {}),
    T("crisis_headquarters", {"crisis_operations"}, {}, {}, {}),
    T("crisis_command_assignments", {"crisis_headquarters"}, {}, {}, {}),
    T("crisis_sectors", {"crisis_operations"}, {}, {}, {}),
    T("crisis_zones", {"crisis_operations"}, {"crisis_sectors"}, {}, {}),
    T("crisis_resource_groups", {"crisis_operations"}, {"crisis_sectors"}, {}, {}),
    T("crisis_resource_group_members", {"crisis_resource_groups"}, {}, {}, {}) }

CrisisModels2 ==
  { T("crisis_resource_moves", {"crisis_resource_groups"}, {"crisis_sectors"}, {}, {}),
    T("crisis_plan_stages", {"crisis_operations"}, {}, {}, {}),
    T("crisis_tasks", {"crisis_operations"}, {"crisis_plan_stages", "crisis_sectors"}, {},
      {}),
    T("crisis_situation_reports", {"crisis_operations"}, {}, {}, {}),
    T("crisis_operational_orders", {"crisis_operations"}, {}, {}, {}),
    T("crisis_journal_entries", {"crisis_operations"}, {}, {}, {}) }

ModelTables ==
  UNION
    {AssetModels, AuditModel, CatalogModels, PlaceModels, HistoryModels,
     OrganizationModel, ResourceModels, SecurityModels, GisModels,
     GisModels2, RuleModels, RuleModels2, DispatchModels,
     DispatchModels2, IncidentModels, IncidentModels2, IncidentModels3,
     FleetModels, FleetModels2, FleetModels3, CallModels, CallModels2,
     CallModels3, AIModel, AdminModels, AdminModels2, AdminModels3,
     CrisisModels, CrisisModels2}
=============================================================================
