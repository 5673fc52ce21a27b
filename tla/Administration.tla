--------------------------- MODULE Administration ---------------------------
(***************************************************************************)
(* The administration of the platform (app/admin): one versioned setting    *)
(* with its history, one user and one role with the permissions that they   *)
(* give, one integration, one entry of a directory, and the audit log that  *)
(* is to record every change.                                               *)
(***************************************************************************)
EXTENDS Sessions, SequencesExt

CONSTANTS Roles, Permissions,
          AdminBodies   \* the requests that are made

VARIABLES setting,    \* app_settings: [value, secret, version, active], or None
          settingLog, \* app_setting_history, in commit order
          user,       \* users: [super, active]
          granted,    \* user_roles of the user
          holds,      \* role_permissions: what each role holds
          link,       \* integrations: [enabled, status, provider]
          configs,    \* integration_configurations: the keys
          item,       \* a directory entry: its name, or None
          audit,      \* audit_logs
          decisions   \* answers of the permission check

adminTables == <<setting, settingLog, user, granted, holds, link, configs, item, audit>>
adminVars == <<sessionVars, adminTables, decisions>>

Values == {"v1", "v2"}
SettingRows == [value : Values \cup {None}, secret : BOOLEAN, version : Nat, active : BOOLEAN]
SettingLogRows == [by : Requests, old : Values \cup {None, "***"},
                   new : Values \cup {None, "***"}, version : Nat]
UserRows == [super : BOOLEAN, active : BOOLEAN]
LinkRowsOf == [enabled : BOOLEAN, status : {"inactive", "active", "error"},
               provider : {"sms", None}]
Entities == {"setting", "user", "role", "integration", "directory"}
AuditRows == [by : Requests, entity : Entities]

GrantRows == SUBSET Roles
HoldingRows == [Roles -> SUBSET Permissions]

AdminTypeOK ==
  /\ setting \in SettingRows \cup {None}
  /\ \A i \in DOMAIN settingLog : settingLog[i] \in SettingLogRows
  /\ user \in UserRows
  /\ granted \in GrantRows
  /\ holds \in HoldingRows
  /\ link \in LinkRowsOf
  /\ configs \subseteq {"host", "port"}
  /\ item \in {"old", "new", None}
  /\ audit \subseteq AuditRows

AdminOperations ==
       [kind : {"new setting"}, value : Values, secret : BOOLEAN, typed : BOOLEAN]
  \cup [kind : {"setting"}, value : Values \cup {None}, active : BOOLEAN \cup {None},
        typed : BOOLEAN]
  \cup [kind : {"user"}, super : BOOLEAN \cup {None}, active : BOOLEAN \cup {None},
        password : {None, "good", "weak"}, roles : (SUBSET Roles) \cup {None}]
  \cup [kind : {"role"}, role : Roles, permissions : SUBSET Permissions]
  \cup [kind : {"integration"}, enabled : BOOLEAN \cup {None}, provider : {"sms", None},
        configs : (SUBSET {"host", "port"}) \cup {None}]
  \cup [kind : {"health"}]
  \cup [kind : {"new item", "item"}, known : BOOLEAN]
  \cup [kind : {"check"}, permission : Permissions]

ASSUME AdminAssumption == AdminBodies \subseteq AdminOperations /\ None \notin SettingRows

AdminInit ==
  /\ SessionsInit
  /\ \/ setting = None
     \/ setting = [value |-> "v1", secret |-> TRUE, version |-> 1, active |-> TRUE]
  /\ settingLog = <<>> /\ audit = {} /\ decisions = {}
  /\ user = [super |-> FALSE, active |-> TRUE]
  /\ granted \in SUBSET Roles /\ holds \in [Roles -> {Permissions}]
  /\ link = [enabled |-> TRUE, status |-> "inactive", provider |-> None]
  /\ configs = {"host"} /\ item \in {"old", None}

-----------------------------------------------------------------------------
ReceiveAdmin(r, op) ==
  /\ Begin(r, op, [setting |-> setting, user |-> user, link |-> link, configs |-> configs,
                   item |-> item])
  /\ UNCHANGED <<adminTables, decisions>>

\* What is read from the junction tables, or deleted from them: a DELETE takes
\* the rows that are committed when it runs.
Junction(r) ==
  LET c == session[r].seen IN
  /\ session[r].at = "row"
  /\ Load(r, [setting |-> c.setting, user |-> c.user, link |-> c.link, configs |-> c.configs,
              item |-> c.item, granted |-> granted, holds |-> holds])
  /\ UNCHANGED <<adminTables, decisions>>

Handles(r, kind) == session[r].at = "loaded" /\ session[r].op.kind = kind
Posted(r) == session[r].op
Loaded(r) == session[r].seen
GivenOr(asked, present) == IF asked = None THEN present ELSE asked
Audit(r, entity) == audit' = audit \cup {[by |-> r, entity |-> entity]}
AuditIf(changed, r, entity) == IF changed THEN Audit(r, entity) ELSE UNCHANGED audit
Close(r) == Finish(r, "done") /\ UNCHANGED decisions

Mask(secret, value) == IF value # None /\ secret THEN "***" ELSE value

\* Mutant: the history row is written with the version before the change.
LoggedBefore(r, row, old) ==
  Append(settingLog, [by |-> r, old |-> Mask(row.secret, old),
                      new |-> Mask(row.secret, row.value), version |-> row.version - 1])
Logged(r, row, old) ==
  Append(settingLog, [by |-> r, old |-> Mask(row.secret, old),
                      new |-> Mask(row.secret, row.value), version |-> row.version])

CreateSetting(r) ==
  /\ Handles(r, "new setting") /\ Posted(r).typed
  /\ Loaded(r).setting = None /\ setting = None
  /\ setting' = [value |-> Posted(r).value, secret |-> Posted(r).secret, version |-> 1,
                 active |-> TRUE]
  /\ settingLog' = Logged(r, setting', None)
  /\ Audit(r, "setting") /\ Close(r)
  /\ UNCHANGED <<user, granted, holds, link, configs, item>>

\* The version is bumped when the value differs from the one loaded.
Revised(row, value, active) ==
  [row EXCEPT !.value = GivenOr(value, row.value), !.active = GivenOr(active, row.active),
              !.version = IF GivenOr(value, row.value) # row.value THEN row.version + 1
                          ELSE row.version]

UpdateSetting(r) ==
  /\ Handles(r, "setting") /\ Loaded(r).setting # None
  /\ LET old == Loaded(r).setting
         new == Revised(old, Posted(r).value, Posted(r).active)
     IN  /\ Posted(r).typed \/ new.value = old.value
         /\ setting' = Merge(setting, old, new)
         /\ settingLog' = IF new.value # old.value THEN Logged(r, new, old.value) ELSE settingLog
         /\ AuditIf(new # old, r, "setting")
  /\ Close(r) /\ UNCHANGED <<user, granted, holds, link, configs, item>>

\* Deleted and inserted: two replacements that overlap may both leave their rows,
\* unless these collide (Collides).
Replaced(present, gone, new) == (present \ gone) \cup new
Collides(present, gone, new) == new \cap (present \ gone) # {}

\* Mutant: only the columns of the row count as a change.
ChangedRow(r, new, old) == new # old
Changed(r, new, old) == new # old \/ Posted(r).password # None \/ Posted(r).roles # None

UpdateUser(r) ==
  /\ Handles(r, "user") /\ Posted(r).password # "weak"
  /\ LET old == Loaded(r).user
         new == [super |-> GivenOr(Posted(r).super, old.super),
                 active |-> GivenOr(Posted(r).active, old.active)]
     IN  /\ user' = Merge(user, old, new)
         /\ AuditIf(Changed(r, new, old), r, "user")
  /\ IF Posted(r).roles = None THEN UNCHANGED granted
     ELSE /\ ~Collides(granted, Loaded(r).granted, Posted(r).roles)
          /\ granted' = Replaced(granted, Loaded(r).granted, Posted(r).roles)
  /\ Close(r) /\ UNCHANGED <<setting, settingLog, holds, link, configs, item>>

UpdateRole(r) ==
  LET role == Posted(r).role IN
  /\ Handles(r, "role")
  /\ ~Collides(holds[role], Loaded(r).holds[role], Posted(r).permissions)
  /\ holds' = [holds EXCEPT ![role] = Replaced(@, Loaded(r).holds[role], Posted(r).permissions)]
  /\ Audit(r, "role") /\ Close(r)
  /\ UNCHANGED <<setting, settingLog, user, granted, link, configs, item>>

\* A new provider alone is not audited.
UpdateIntegration(r) ==
  /\ Handles(r, "integration")
  /\ LET old == Loaded(r).link
         new == [old EXCEPT !.enabled = GivenOr(Posted(r).enabled, old.enabled),
                            !.provider = GivenOr(Posted(r).provider, old.provider)]
     IN  /\ link' = Merge(link, old, new)
         /\ AuditIf(new.enabled # old.enabled \/ Posted(r).configs # None, r, "integration")
  /\ IF Posted(r).configs = None THEN UNCHANGED configs
     ELSE /\ ~Collides(configs, Loaded(r).configs, Posted(r).configs)
          /\ configs' = Replaced(configs, Loaded(r).configs, Posted(r).configs)
  /\ Close(r) /\ UNCHANGED <<setting, settingLog, user, granted, holds, item>>

Health(row) == [row EXCEPT !.status = IF row.enabled THEN "active" ELSE "inactive"]
HealthCheck(r) ==
  /\ Handles(r, "health")
  /\ link' = Merge(link, Loaded(r).link, Health(Loaded(r).link))
  /\ Close(r)
  /\ UNCHANGED <<setting, settingLog, user, granted, holds, configs, item, audit>>

\* A directory takes any column that it has; one that it has not is refused.
CreateItem(r) ==
  /\ Handles(r, "new item") /\ Posted(r).known
  /\ Loaded(r).item = None /\ item = None
  /\ item' = "old"
  /\ Audit(r, "directory") /\ Close(r)
  /\ UNCHANGED <<setting, settingLog, user, granted, holds, link, configs>>

UpdateItem(r) ==
  /\ Handles(r, "item") /\ Posted(r).known /\ Loaded(r).item # None
  /\ item' = IF Loaded(r).item = "new" THEN item ELSE "new"
  /\ AuditIf(Loaded(r).item # "new", r, "directory") /\ Close(r)
  /\ UNCHANGED <<setting, settingLog, user, granted, holds, link, configs>>

\* A superuser may do everything, others what one of their roles holds.
Permitted(row, has, held, p) == row.super \/ \E role \in has : p \in held[role]
CheckPermission(r) ==
  /\ Handles(r, "check")
  /\ decisions' = decisions \cup
       {[by |-> r, permission |-> Posted(r).permission,
         allowed |-> Permitted(Loaded(r).user, Loaded(r).granted, Loaded(r).holds,
                               Posted(r).permission)]}
  /\ Finish(r, "done") /\ UNCHANGED adminTables

\* 404, 409, 422 and constraint violations.
RejectAdmin(r) ==
  /\ \/ /\ Handles(r, "new setting")
        /\ ~Posted(r).typed \/ Loaded(r).setting # None \/ setting # None
     \/ /\ Handles(r, "setting")
        /\ \/ Loaded(r).setting = None
           \/ /\ Loaded(r).setting # None /\ ~Posted(r).typed
              /\ GivenOr(Posted(r).value, Loaded(r).setting.value) # Loaded(r).setting.value
     \/ /\ Handles(r, "user")
        /\ \/ Posted(r).password = "weak"
           \/ Posted(r).roles # None /\ Collides(granted, Loaded(r).granted, Posted(r).roles)
     \/ /\ Handles(r, "role")
        /\ Collides(holds[Posted(r).role], Loaded(r).holds[Posted(r).role],
                    Posted(r).permissions)
     \/ /\ Handles(r, "integration") /\ Posted(r).configs # None
        /\ Collides(configs, Loaded(r).configs, Posted(r).configs)
     \/ Handles(r, "new item") /\ (~Posted(r).known \/ Loaded(r).item # None \/ item # None)
     \/ Handles(r, "item") /\ (~Posted(r).known \/ Loaded(r).item = None)
  /\ Finish(r, "failed") /\ UNCHANGED <<adminTables, decisions>>

AdminConnectionLost(r) == Lost(r) /\ UNCHANGED <<adminTables, decisions>>

\* The routers of settings and users, of integrations and directories.
Settings(r) == CreateSetting(r) \/ UpdateSetting(r)
Accounts(r) == UpdateUser(r) \/ UpdateRole(r) \/ CheckPermission(r)
Catalogs(r) == UpdateIntegration(r) \/ HealthCheck(r) \/ CreateItem(r) \/ UpdateItem(r)

AdminNext ==
  \E r \in Requests :
    \/ \E op \in AdminBodies : ReceiveAdmin(r, op)
    \/ Junction(r) \/ Settings(r) \/ Accounts(r) \/ Catalogs(r)
    \/ RejectAdmin(r) \/ AdminConnectionLost(r)

AdminSpec == AdminInit /\ [][AdminNext]_adminVars

-----------------------------------------------------------------------------
(* Whatever overlaps.                                                      *)

\* The history of a secret setting holds a mask, never a value ("never stored in
\* history in clear text").
SecretIsMasked ==
  setting # None /\ setting.secret =>
    \A i \in DOMAIN settingLog : {settingLog[i].old, settingLog[i].new} \subseteq {None, "***"}

\* No request changes a setting, an account, a role or a directory without an
\* entry of the audit log ("every administrative change is recorded").  The
\* provider and the status of an integration do change without one.
ChangeIsRecorded ==
  [][\A r \in Requests :
       session'[r].at = "done" /\ session[r].at # "done"
       /\ <<setting, user, granted, holds, configs, item, link.enabled>>'
            # <<setting, user, granted, holds, configs, item, link.enabled>>
         => \E a \in audit' : a.by = r]_adminVars

(* As long as requests do not overlap.                                     *)

\* The version counts the values that a setting has had, and its history leads
\* from one to the next; of two that overlap both get the same version.
VersionCountsValues ==
  ~overlapped /\ settingLog # <<>> =>
    /\ setting.version = Last(settingLog).version
    /\ Mask(setting.secret, setting.value) = Last(settingLog).new
    /\ \A i \in 1 .. Len(settingLog) - 1 :
         /\ settingLog[i + 1].version = settingLog[i].version + 1
         /\ settingLog[i + 1].old = settingLog[i].new

\* Replacing a set of roles, permissions or configurations leaves exactly the new
\* one; of two replacements that overlap both may stay.
ReplacedAsAsked ==
  [][\A r \in Requests :
       ~overlapped' /\ session[r].at = "loaded" /\ session'[r].at = "done" =>
         /\ Posted(r).kind = "user" /\ Posted(r).roles # None => granted' = Posted(r).roles
         /\ Posted(r).kind = "role" => holds'[Posted(r).role] = Posted(r).permissions
         /\ Posted(r).kind = "integration" /\ Posted(r).configs # None
              => configs' = Posted(r).configs]_adminVars

\* A permission is given exactly when the user has it at that moment.
DecisionIsCurrent ==
  [][\A d \in decisions' \ decisions :
       ~overlapped' =>
         (d.allowed <=>
            user.super \/ d.permission \in UNION {holds[role] : role \in granted})]_adminVars

\* A health check leaves the status that belongs to what is enabled.
HealthIsCurrent ==
  [][\A r \in Requests :
       ~overlapped' /\ session[r].at = "loaded" /\ session'[r].at = "done"
       /\ Posted(r).kind = "health" => (link'.status = "active" <=> link'.enabled)]_adminVars

\* A setting and its history agree, and tell no secret.
SettingsAgree == SecretIsMasked /\ VersionCountsValues

\* What an administrator is told was done is done and on record, and decides at once.
AdminStepsHold == ChangeIsRecorded /\ ReplacedAsAsked /\ DecisionIsCurrent /\ HealthIsCurrent
=============================================================================
