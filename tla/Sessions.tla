------------------------------ MODULE Sessions ------------------------------
(***************************************************************************)
(* What every handler of the backend has in common (app/database/session,   *)
(* app/repositories/base): a request borrows a connection of the pool, its  *)
(* session reads what the handler needs with one SELECT after another,      *)
(* computes on the copies, and at the end of the request either commits the *)
(* columns it changed or rolls everything back.  No row is locked between   *)
(* the read and the commit, so the requests of one component interleave.    *)
(*                                                                         *)
(* A component extends this module, keeps its tables in variables of its    *)
(* own and writes an operation as the commit of a session that has loaded.  *)
(***************************************************************************)
EXTENDS Naturals, FiniteSets

CONSTANTS Requests,  \* HTTP requests; each one runs at most once
          PoolSize,  \* database connections: DB_POOL_SIZE + DB_MAX_OVERFLOW
          None       \* NULL

ASSUME SessionsAssumption == /\ IsFiniteSet(Requests)
                             /\ PoolSize \in Nat \ {0}
                             /\ None \notin Requests

VARIABLES session,    \* where each request is, what it asks for, what it has read
          overlapped  \* history: two sessions have been open at the same time

sessionVars == <<session, overlapped>>

Places == {"idle", "row", "loaded", "done", "failed"}
Open == {r \in Requests : session[r].at \in {"row", "loaded"}}
NotBegun == {r \in Requests : session[r].at = "idle"}
Done == {r \in Requests : session[r].at = "done"}

SessionsInit ==
  /\ session = [r \in Requests |-> [at |-> "idle", op |-> None, seen |-> None]]
  /\ overlapped = FALSE

\* A request gets a connection and reads its first row; it waits while the pool
\* is empty.
Begin(r, op, seen) ==
  /\ session[r].at = "idle"
  /\ Cardinality(Open) < PoolSize
  /\ session' = [session EXCEPT ![r] = [at |-> "row", op |-> op, seen |-> seen]]
  /\ overlapped' = (overlapped \/ Open # {})

\* It reads more.
Load(r, seen) ==
  /\ session[r].at = "row"
  /\ session' = [session EXCEPT ![r].at = "loaded", ![r].seen = seen]
  /\ UNCHANGED overlapped

\* The request is over: "done" when it committed, "failed" when it rolled back.
Finish(r, at) ==
  /\ session' = [session EXCEPT ![r] = [at |-> at, seen |-> None,
                                       op |-> IF at = "done" THEN @.op ELSE None]]
  /\ UNCHANGED overlapped

\* The connection breaks, or the process dies: PostgreSQL rolls back.
Lost(r) == r \in Open /\ Finish(r, "failed")

\* Mutant: the UPDATE writes every column of the copy.
MergeAll(row, seen, mine) == mine
\* The row after a commit: the session writes the columns it changed since it
\* read them, the others keep what is there now.
Merge(row, seen, mine) ==
  [f \in DOMAIN row |-> IF mine[f] = seen[f] THEN row[f] ELSE mine[f]]
=============================================================================
