------------------------------ MODULE DbStartup ------------------------------
(***************************************************************************)
(* How a server makes sure of its tables before it serves anything: the    *)
(* constructors of class SQL, Database and IdentityServerDb,               *)
(* createDatabases of the backends and createTables.                       *)
(*                                                                         *)
(* Nothing of this is a transaction.  Every table is looked for, created,  *)
(* indexed and filled by queries of its own, all tables at the same time;  *)
(* a server may stop between any two of them and another may be starting   *)
(* on the same database.                                                   *)
(***************************************************************************)
EXTENDS Naturals, FiniteSets

CONSTANTS
  Starters,       \* servers that may start on the same database
  Schemas,        \* the tables they need
  InitRows,       \* the rows each table is created with (initializeValues)
  MaxStarts,      \* starts per behaviour, of all servers together
  MaxFaults       \* queries that fail and servers that stop, together

ASSUME InitRowsAssumption == DOMAIN InitRows = Schemas

VARIABLES
  scenario,       \* chosen once: see Scenarios
  inst,           \* what became of each server's ready promise
  run,            \* number of the start each server is in
  step,           \* where each server is with each table
  todo,           \* rows of initializeValues a server has not inserted yet
  made,           \* tables of the database, with the start that created each (0: none)
  initial,        \* the rows of initializeValues in each table
  starts, faults  \* counters for the bounds

startVars == <<scenario, inst, run, step, todo, made, initial, starts, faults>>

PgBackends == {"dbPg", "idPg"}
SqliteBackends == {"dbSqlite", "idSqlite"}

\* backend: which of the four files; module: the engine's module can be loaded; config: the
\* settings that PostgreSQL asks for are there; both: a second server may start too;
\* calls: the behaviour is about the calls that follow (module Database), nothing fails.
Scenarios ==
  {s \in [backend : PgBackends \union SqliteBackends, module : BOOLEAN, config : BOOLEAN,
          both : BOOLEAN, calls : BOOLEAN] :
     /\ ~ s.module => s.config /\ ~ s.both
     /\ ~ s.config => ~ s.both /\ s.backend \in PgBackends
     /\ s.calls => s.module /\ s.config /\ ~ s.both /\ s.backend = "dbPg"}

IsPg == scenario.backend \in PgBackends
First == CHOOSE s \in Starters : TRUE

StartInit ==
  /\ scenario \in Scenarios
  /\ inst = [s \in Starters |-> "down"]
  /\ run = [s \in Starters |-> 0]
  /\ step = [s \in Starters |-> [t \in Schemas |-> "idle"]]
  /\ todo = [s \in Starters |-> [t \in Schemas |-> {}]]
  /\ made = [t \in Schemas |-> 0]
  /\ initial = [t \in Schemas |-> {}]
  /\ starts = 0
  /\ faults = 0

MayFail == ~ scenario.calls /\ faults < MaxFaults

(***************************************************************************)
(* Constructors.  class SQL calls createDatabases and keeps its promise as *)
(* ready; Database and IdentityServerDb wait for that one.                 *)
(***************************************************************************)
Start(s) ==
  /\ inst[s] = "down"
  /\ starts < MaxStarts
  /\ s # First => scenario.both
  /\ scenario.calls => starts = 0
  /\ inst' = [inst EXCEPT ![s] = "loading"]
  /\ starts' = starts + 1
  /\ run' = [run EXCEPT ![s] = starts + 1]
  /\ UNCHANGED <<scenario, step, todo, made, initial, faults>>

Began(s) ==
  /\ inst' = [inst EXCEPT ![s] = "creating"]
  /\ step' = [step EXCEPT ![s] = [t \in Schemas |-> "exists"]]

Stayed(s, outcome) ==
  /\ inst' = [inst EXCEPT ![s] = outcome]
  /\ UNCHANGED step

\* Mutant: the error is thrown again where nobody settles the promise.
PgCreateDatabasesThrows(s) ==
  IF scenario.module /\ scenario.config THEN Began(s) ELSE Stayed(s, "lost")

\* pg.ts: a module that cannot be loaded and a setting that is missing reject the promise.
PgCreateDatabases(s) ==
  IF scenario.module /\ scenario.config THEN Began(s) ELSE Stayed(s, "failed")
IdPgCreateDatabases(s) == PgCreateDatabases(s)

\* sqlite.ts: the error is thrown again out of the catch, and nobody settles the promise.
SqliteCreateDatabases(s) ==
  IF scenario.module THEN Began(s) ELSE Stayed(s, "lost")
IdSqliteCreateDatabases(s) == SqliteCreateDatabases(s)

Load(s) ==
  /\ inst[s] = "loading"
  /\ CASE scenario.backend = "dbPg" -> PgCreateDatabases(s)
       [] scenario.backend = "idPg" -> IdPgCreateDatabases(s)
       [] scenario.backend = "dbSqlite" -> SqliteCreateDatabases(s)
       [] scenario.backend = "idSqlite" -> IdSqliteCreateDatabases(s)
  /\ UNCHANGED <<scenario, run, todo, made, initial, starts, faults>>

(***************************************************************************)
(* createTables, for one table                                             *)
(***************************************************************************)
Goto(s, t, where) == step' = [step EXCEPT ![s][t] = where]
Fault == MayFail /\ faults' = faults + 1

\* Mutant: the tables are created without looking for them.
ExistsSkipped(s, t) ==
  /\ step[s][t] = "exists"
  /\ Goto(s, t, "create")
  /\ UNCHANGED <<scenario, inst, run, todo, made, initial, starts, faults>>

\* exists() answers: a table that is there is taken as it is.
Exists(s, t) ==
  /\ step[s][t] = "exists"
  /\ Goto(s, t, IF made[t] # 0 THEN "done" ELSE "create")
  /\ UNCHANGED <<scenario, inst, run, todo, made, initial, starts, faults>>

\* exists() fails: pg.ts answers false, sqlite.ts rejects.
PgExistsFailed == "create"
IdPgExistsFailed == PgExistsFailed
SqliteExistsFailed == "rejected"
IdSqliteExistsFailed == SqliteExistsFailed

ExistsFails(s, t) ==
  /\ step[s][t] = "exists" /\ Fault
  /\ Goto(s, t, CASE scenario.backend = "dbPg" -> PgExistsFailed
                  [] scenario.backend = "idPg" -> IdPgExistsFailed
                  [] scenario.backend = "dbSqlite" -> SqliteExistsFailed
                  [] scenario.backend = "idSqlite" -> IdSqliteExistsFailed)
  /\ UNCHANGED <<scenario, inst, run, todo, made, initial, starts>>

\* rawQuery('CREATE TABLE ...'): an error when the table is there by now.
CreateTable(s, t) ==
  /\ step[s][t] = "create"
  /\ IF made[t] # 0 THEN Goto(s, t, "rejected") /\ UNCHANGED made
     ELSE Goto(s, t, "index") /\ made' = [made EXCEPT ![t] = run[s]]
  /\ UNCHANGED <<scenario, inst, run, todo, initial, starts, faults>>

CreateTableFails(s, t) ==
  /\ step[s][t] = "create" /\ Fault
  /\ Goto(s, t, "rejected")
  /\ UNCHANGED <<scenario, inst, run, todo, made, initial, starts>>

\* Mutant: the table is taken for done while its rows are being inserted.
CreateIndexesResolves(s, t) ==
  /\ step[s][t] = "index"
  /\ Goto(s, t, "done")
  /\ todo' = [todo EXCEPT ![s][t] = InitRows[t]]
  /\ UNCHANGED <<scenario, inst, run, made, initial, starts, faults>>

\* The indexes, whose errors are only logged; then all rows of initializeValues are sent.
CreateIndexes(s, t) ==
  /\ step[s][t] = "index"
  /\ Goto(s, t, IF InitRows[t] = {} THEN "done" ELSE "insert")
  /\ todo' = [todo EXCEPT ![s][t] = InitRows[t]]
  /\ UNCHANGED <<scenario, inst, run, made, initial, starts, faults>>

\* insert() of one of them; the table is done with the last, unless one was rejected.
InsertRow(s, t, r) ==
  /\ r \in todo[s][t]
  /\ todo' = [todo EXCEPT ![s][t] = @ \ {r}]
  /\ initial' = [initial EXCEPT ![t] = @ \union {r}]
  /\ Goto(s, t, IF r \in initial[t] THEN "rejected"
                ELSE IF step[s][t] = "insert" /\ todo[s][t] = {r} THEN "done" ELSE step[s][t])
  /\ UNCHANGED <<scenario, inst, run, made, starts, faults>>

InsertRowFails(s, t, r) ==
  /\ r \in todo[s][t] /\ Fault
  /\ todo' = [todo EXCEPT ![s][t] = @ \ {r}]
  /\ Goto(s, t, "rejected")
  /\ UNCHANGED <<scenario, inst, run, made, initial, starts>>

\* Promise.all: resolved with the last table, rejected with the first that is; the queries
\* already sent go on in either case.
Settled(s) ==
  /\ inst[s] = "creating"
  /\ \/ /\ \A t \in Schemas : step[s][t] = "done"
        /\ inst' = [inst EXCEPT ![s] = "ready"]
     \/ /\ \E t \in Schemas : step[s][t] = "rejected"
        /\ inst' = [inst EXCEPT ![s] = "failed"]
  /\ UNCHANGED <<scenario, run, step, todo, made, initial, starts, faults>>

\* The server stops, whatever it was doing.
Stop(s) ==
  /\ inst[s] # "down" /\ Fault
  /\ inst' = [inst EXCEPT ![s] = "down"]
  /\ step' = [step EXCEPT ![s] = [t \in Schemas |-> "idle"]]
  /\ todo' = [todo EXCEPT ![s] = [t \in Schemas |-> {}]]
  /\ UNCHANGED <<scenario, run, made, initial, starts>>

TableStep(s) ==
  \E t \in Schemas :
    \/ Exists(s, t) \/ CreateTable(s, t) \/ CreateIndexes(s, t)
    \/ \E r \in InitRows[t] : InsertRow(s, t, r)

TableFault(s) ==
  \E t \in Schemas :
    \/ ExistsFails(s, t) \/ CreateTableFails(s, t)
    \/ \E r \in InitRows[t] : InsertRowFails(s, t, r)

StartNext ==
  \E s \in Starters : Start(s) \/ Load(s) \/ TableStep(s) \/ TableFault(s) \/ Settled(s) \/ Stop(s)

\* A query that was sent is answered and a promise that can be settled is.
StartFairness ==
  \A s \in Starters :
    /\ WF_startVars(Load(s))
    /\ WF_startVars(TableStep(s))
    /\ WF_startVars(Settled(s))

(***************************************************************************)
(* Properties                                                              *)
(***************************************************************************)
\* A server that is ready has every table, and in the tables that it created itself every
\* row they are created with.  A table it found may lack them: the start that created it was
\* cut short, or is still inserting, and no later start repairs it (_createTables.ts:21).
ReadyMeansComplete ==
  \A s \in Starters : inst[s] = "ready" =>
    \A t \in Schemas : /\ made[t] # 0
                       /\ made[t] = run[s] => initial[t] = InitRows[t]

\* The ready promise of a start is settled, or the server stops, except when SQLite's module
\* cannot be loaded: nobody rejects it then (db/src/sql/sqlite.ts:62).
StartSettles ==
  scenario.module \/ IsPg =>
    \A s \in Starters : inst[s] \in {"loading", "creating"} ~> inst[s] \in {"ready", "failed", "down"}

\* A start that was cut short or rejected does not stand in the way of the next one: a server
\* that starts alone, with nothing more going wrong, gets ready whatever earlier starts left
\* behind.
RestartRecovers ==
  scenario.module /\ scenario.config /\ ~ scenario.both =>
    (inst[First] = "loading" /\ ~ MayFail) ~> (inst[First] = "ready")
=============================================================================
