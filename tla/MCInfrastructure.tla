--------------------------- MODULE MCInfrastructure ---------------------------
(***************************************************************************)
(* What the services rest on, on small instances: the migrations of the     *)
(* database, the caches of the lookups, and the workspace in the browser.    *)
(* None of them meets another, so a behaviour exercises one of them.         *)
(***************************************************************************)
EXTENDS SchemaMigrations, LookupCaches, DispatcherSocket, WorkspaceQueries

Question(place, shape) ==
  [place |-> place, form |-> shape, alternatives |-> FALSE, countries |-> None]
Address(place, shape, countries) ==
  [Question(place, shape) EXCEPT !.countries = countries]
SomeQuestions ==
  [l \in AllLookups |->
     CASE l = "route" -> {Question("avenue", "car"),
                          [Question("avenue", "car") EXCEPT !.alternatives = TRUE]}
       [] l = "geocode" -> {Address("avenue", "one", "ru"), Address("avenue", "one", "by"),
                            Address("street", "one", "ru"), Address("avenue", "five", "ru")}
       [] OTHER -> {Question("avenue", "one"), Question("avenue", "five")}]
StreetTypesDropped == [place \in {"avenue", "street"} |-> "lenina"]

VARIABLE scope

tables == <<scope, migrationVars, cacheVars, socketVars, queryVars>>

(* A component that is not exercised has nothing left to do: the instances serve, *)
(* and no screen polls.                                                             *)
MigrationsAtRest ==
  /\ objects = {} /\ filled = {} /\ heads = {} /\ orders = 0 /\ crashes = 0
  /\ runs = [p \in Processes |-> Resting("done", TRUE)]
CachesAtRest == CacheInit /\ lookup = "figures"
LogUnseen == logged = 0 /\ log = << >> /\ poll = [phase |-> "off"] /\ news = << >>

InfraInit ==
  /\ SocketInit /\ DetailAtRest /\ FormAtRest
  /\ \/ scope = "migrations" /\ MigrationInit /\ CachesAtRest /\ LogUnseen
     \/ scope = "lookups" /\ MigrationsAtRest /\ CacheInit /\ LogUnseen
     \/ scope = "log" /\ MigrationsAtRest /\ CachesAtRest /\ LogAtRest
     \/ /\ scope \in {"socket", "detail", "form"}
        /\ MigrationsAtRest /\ CachesAtRest /\ LogUnseen

InfraNext ==
  /\ UNCHANGED scope
  /\ \/ /\ scope = "migrations" /\ MigrationNext
        /\ UNCHANGED <<cacheVars, socketVars, queryVars>>
     \/ /\ scope = "lookups" /\ CacheNext
        /\ UNCHANGED <<migrationVars, socketVars, queryVars>>
     \/ /\ scope = "socket" /\ SocketNext
        /\ UNCHANGED <<migrationVars, cacheVars, queryVars>>
     \/ /\ scope = "detail" /\ DetailNext
        /\ UNCHANGED <<migrationVars, cacheVars, socketVars, logVars, formVars>>
     \/ /\ scope = "log" /\ LogNext
        /\ UNCHANGED <<migrationVars, cacheVars, socketVars, detailVars, formVars>>
     \/ /\ scope = "form" /\ FormNext
        /\ UNCHANGED <<migrationVars, cacheVars, socketVars, detailVars, logVars>>

(* At rest nothing that is fair is enabled. *)
InfraFairness == MigrationFairness /\ CacheFairness /\ SocketFairness /\ LogFairness

(* The workspace catches up with the server: its channel comes back, and the log *)
(* that it shows becomes the server's.                                            *)
WorkspaceCatchesUp == ChannelRecovers /\ LogCatchesUp

InfraSpec == InfraInit /\ [][InfraNext]_tables /\ InfraFairness
=============================================================================
