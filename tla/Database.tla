------------------------------ MODULE Database ------------------------------
(***************************************************************************)
(* The database layer as its callers see it: class Database                *)
(* (db/src/database.ts) and class IdentityServerDb                         *)
(* (matrix-identity-server/src/db/index.ts), each on PostgreSQL and on     *)
(* SQLite.  The four receive the same calls one after the other, so that   *)
(* what a caller of one sees can be compared with what a caller of another *)
(* sees, and each answer with what the call asks for.                      *)
(*                                                                         *)
(* Every method sends one statement, so a call is one step.  Calls that    *)
(* come before the tables are there are rejected.                          *)
(***************************************************************************)
EXTENDS IdentityDb, DbStartup

CONSTANTS
  Tables,       \* names of tables; they all have the columns Columns
  ReadCalls,    \* the reads that are tried: records of a method and its arguments
  WriteCalls,   \* the writes that are tried
  MaxWrites     \* writes per behaviour

VARIABLES
  phase,        \* this.db: "null" before it is there, "open", "closed"
  db,           \* rows of every table of every backend
  call,         \* the call just answered, or NoCall
  before,       \* the rows when it was made
  answer,       \* what each backend answered
  writes        \* number of writes so far

callVars == <<phase, db, call, before, answer, writes>>
vars == <<startVars, callVars>>

Backends == {"dbPg", "dbSqlite", "idPg", "idSqlite"}
EngineOf(b) == IF b \in {"dbPg", "idPg"} THEN "pg" ELSE "sqlite"

NoCall == [fn |-> "none"]
NoAnswer == [ok |-> FALSE, rows |-> {}, count |-> 0]

(***************************************************************************)
(* getCount and getAll, which both engines inherit from class SQL, and     *)
(* which are gets with other arguments.                                    *)
(***************************************************************************)
getCount(c) ==
  [c EXCEPT !.f1 = IF c.value = Null THEN <<>> ELSE <<[key |-> c.target, vals |-> <<c.value>>]>>]
IdGetCount(c) == getCount(c)

getAll(c) == [c EXCEPT !.f1 = <<>>]
IdGetAll(c) == getAll(c)

(***************************************************************************)
(* The methods of the two classes hand the call to the backend.            *)
(***************************************************************************)
DatabaseCall(c) ==
  CASE c.fn = "getCount" -> getCount(c) [] c.fn = "getAll" -> getAll(c) [] OTHER -> c
IdentityServerDbCall(c) ==
  CASE c.fn = "getCount" -> IdGetCount(c) [] c.fn = "getAll" -> IdGetAll(c) [] OTHER -> c

StatementOf(b, c) ==
  CASE b = "dbPg"     -> PgStatement(DatabaseCall(c))
    [] b = "dbSqlite" -> SqliteStatement(DatabaseCall(c))
    [] b = "idPg"     -> IdPgStatement(IdentityServerDbCall(c))
    [] b = "idSqlite" -> IdSqliteStatement(IdentityServerDbCall(c))

\* The count of a column leaves out the rows where it is NULL.
CountOf(c, rows) ==
  IF c.fn = "getCount" THEN Cardinality({r \in rows : r[c.target[1]][c.target[2]] # Null}) ELSE 0

\* Without an open database every method rejects.
Reply(b, c) ==
  IF phase = "open" THEN Execute(EngineOf(b), StatementOf(b, c), db[b]) ELSE Failed(db[b])

(***************************************************************************)
(* Actions                                                                 *)
(***************************************************************************)
Init ==
  /\ StartInit
  /\ phase = "null"
  /\ db = [b \in Backends |-> [t \in Tables |-> {}]]
  /\ call = NoCall
  /\ before = db
  /\ answer = [b \in Backends |-> NoAnswer]
  /\ writes = 0

\* The calls that wait for the ready promise (module DbStartup has its steps).
Open ==
  /\ phase = "null" /\ call = NoCall
  /\ inst[First] = "ready"
  /\ phase' = "open"
  /\ UNCHANGED <<db, call, before, answer, writes>>

\* close(): nothing when there is no database yet.
Close ==
  /\ phase = "open" /\ call = NoCall
  /\ phase' = "closed"
  /\ UNCHANGED <<db, call, before, answer, writes>>

Answered(c) ==
  LET reply == [b \in Backends |-> Reply(b, c)]
  IN  /\ call = NoCall
      /\ call' = c
      /\ before' = db
      /\ db' = [b \in Backends |-> reply[b].db]
      /\ answer' = [b \in Backends |->
                      [ok |-> reply[b].ok, rows |-> reply[b].rows, count |-> CountOf(c, reply[b].rows)]]
      /\ UNCHANGED phase

Read(c) == Answered(c) /\ UNCHANGED writes
Write(c) == writes < MaxWrites /\ Answered(c) /\ writes' = writes + 1

\* The caller has seen the answer.
Settle ==
  /\ call # NoCall
  /\ call' = NoCall
  /\ before' = db
  /\ answer' = [b \in Backends |-> NoAnswer]
  /\ UNCHANGED <<phase, db, writes>>

\* Calls made while the start is under way are rejected like those made before it.
CallNext ==
  /\ scenario.calls /\ inst[First] \in {"down", "ready"}
  /\ \/ Open
     \/ Close
     \/ Settle
     \/ \E c \in ReadCalls : Read(c)
     \/ \E c \in WriteCalls : Write(c)
  /\ UNCHANGED startVars

Next == CallNext \/ (StartNext /\ UNCHANGED callVars)

Spec == Init /\ [][Next]_vars /\ StartFairness

(***************************************************************************)
(* What a call asks for, said without a statement                          *)
(***************************************************************************)
\* A filter with nothing but empty text asks for nothing.
Asks(f) == f.vals # <<>> /\ f.vals # <<Empty>>
At(cand, key) == cand[key[1]][key[2]]

MeetsFilter(op, f, cand) == Asks(f) => \E i \in DOMAIN f.vals : Compares("pg", op, At(cand, f.key), f.vals[i])
Meets(op, fs, cand) == \A k \in DOMAIN fs : MeetsFilter(op, fs[k], cand)
AsksNothing(fs) == \A k \in DOMAIN fs : ~ Asks(fs[k])

MeetsJoin(join, cand) ==
  \A k \in DOMAIN join.on :
    join.on[k].col # <<>> => Compares("pg", "=", At(cand, join.on[k].key), At(cand, join.on[k].col))

\* On PostgreSQL the number zero is taken for nothing to search for.
Finds(engine, needle, x) == x # Null /\ (Like(engine, needle, x) \/ (engine = "pg" /\ needle = "0"))

Wanted(engine, c, cand) ==
  CASE c.fn = "getAll" -> TRUE
    [] c.fn = "get" -> Meets("=", c.f1, cand)
    [] c.fn = "getCount" -> c.value # Null => (c.value = Empty \/ At(cand, c.target) = c.value)
    [] c.fn = "getJoin" -> Meets("=", c.f1, cand) /\ MeetsJoin(c.join, cand)
    [] c.fn = "getHigherThan" -> Meets(">", c.f1, cand)
    [] c.fn = "getWhereEqualOrDifferent" ->
         CASE AsksNothing(c.f1) -> Meets("<>", c.f2, cand)
           [] AsksNothing(c.f2) -> Meets("=", c.f1, cand)
           [] OTHER -> Meets("=", c.f1, cand) \/ Meets("<>", c.f2, cand)
    [] c.fn \in {"getWhereEqualAndHigher", "getMinWhereEqualAndHigher"} ->
         Meets("=", c.f1, cand) /\ Meets(">", c.f2, cand)
    [] c.fn = "getMaxWhereEqual" -> Meets("=", c.f1, cand)
    [] c.fn = "getMaxWhereEqualAndLower" -> Meets("=", c.f1, cand) /\ Meets("<", c.f2, cand)
    [] c.fn = "getMaxWhereEqualAndLowerJoin" ->
         Meets("=", c.f1, cand) /\ Meets("<", c.f2, cand) /\ MeetsJoin(c.join, cand)
    [] c.fn = "match" -> \E i \in DOMAIN c.search : Finds(engine, c.value, At(cand, c.search[i]))

TablesOf(c) == IF c.fn \in {"getJoin", "getMaxWhereEqualAndLowerJoin"} THEN c.tables ELSE <<c.table>>
IsExtreme(c) == c.fn \in {"getMaxWhereEqual", "getMaxWhereEqualAndLower", "getMinWhereEqualAndHigher",
                          "getMaxWhereEqualAndLowerJoin"}

\* The row that a deletion or an update names.
Named(c, row) ==
  CASE c.fn \in {"deleteEqual", "update"} -> row[c.cond1.field[2]] = c.cond1.value
    [] c.fn \in {"deleteEqualAnd", "updateAnd"} ->
         row[c.cond1.field[2]] = c.cond1.value /\ row[c.cond2.field[2]] = c.cond2.value
    [] c.fn = "deleteLowerThan" -> Compares("pg", "<", row[c.cond1.field[2]], c.cond1.value)
    [] c.fn = "deleteWhere" ->
         /\ c.conds # <<>>
         /\ \A i \in DOMAIN c.conds :
              Compares("pg", OperatorOf(c.conds[i]), row[c.conds[i].field[2]], c.conds[i].value)

IsDelete(c) == c.fn \in {"deleteEqual", "deleteEqualAnd", "deleteLowerThan", "deleteWhere"}

\* Calls for which the two engines are meant to be interchangeable: none that PostgreSQL
\* cannot group or that the backend refuses, none that SQLite compares without case.
Portable(c) ==
  /\ ~ IsExtreme(c)
  /\ IsDelete(c) /\ c.fn # "deleteWhere" => ~ Falsy(c.cond1.value)
  /\ c.fn = "deleteEqualAnd" => ~ Falsy(c.cond2.value)
  /\ c.fn = "match" => c.value # "0" /\ \A x \in Texts : Fold[x] = Fold[c.value] => x = c.value

(***************************************************************************)
(* The calls a caller can make, as the types of the methods have them      *)
(***************************************************************************)
ReadMethods ==
  {"get", "getCount", "getAll", "getJoin", "getHigherThan", "getWhereEqualOrDifferent",
   "getWhereEqualAndHigher", "getMaxWhereEqual", "getMaxWhereEqualAndLower",
   "getMinWhereEqualAndHigher", "getMaxWhereEqualAndLowerJoin", "match"}
WriteMethods ==
  {"insert", "update", "updateAnd", "deleteEqual", "deleteEqualAnd", "deleteLowerThan", "deleteWhere"}

Key == Tables \X Columns
Value == Texts \union {Null}
Filter == [key : Key, vals : Seq(Texts)]
Condition == [field : Key, value : Texts]
SqlComparaisonOperator == {"=", "!=", ">", "<", ">=", "<=", "<>"}
ISQLCondition == [field : Key, operator : SqlComparaisonOperator \union {Empty}, value : Texts]

Call ==
  [fn : ReadMethods \union WriteMethods, table : Tables, tables : Seq(Tables),
   f1 : Seq(Filter), f2 : Seq(Filter),
   join : [given : BOOLEAN, on : Seq([key : Key, col : Key \union {<<>>}])],
   order : BOOLEAN, target : Key, value : Value, values : [names : Seq(Columns), vals : Seq(Texts)],
   cond1 : Condition, cond2 : Condition, conds : Seq(ISQLCondition), search : Seq(Key)]

\* A search has something to look for, and names columns of its table; so does an extreme.
ASSUME ReadCallsAssumption ==
  /\ ReadCalls \subseteq Call
  /\ \A c \in ReadCalls :
       /\ c.fn \in ReadMethods
       /\ IsExtreme(c) => c.target[1] \in ToSet(TablesOf(c))
       /\ c.fn = "match" => c.value \in Texts /\ \A i \in DOMAIN c.search : c.search[i][1] = c.table

\* A value for every column that is assigned, and conditions on the table that is changed.
ASSUME WriteCallsAssumption ==
  /\ WriteCalls \subseteq Call
  /\ \A c \in WriteCalls :
       /\ c.fn \in WriteMethods
       /\ Len(c.values.names) = Len(c.values.vals)
       /\ c.fn # "insert" => /\ c.cond1.field[1] = c.table /\ c.cond2.field[1] = c.table
                             /\ \A i \in DOMAIN c.conds : c.conds[i].field[1] = c.table

(***************************************************************************)
(* Properties                                                              *)
(***************************************************************************)
\* A read that succeeds returns exactly the rows its filters, links and join describe, on
\* every backend: the placeholders of up to three conditions are numbered through, an array
\* of values stays inside its own condition, and OR and AND bind as the method's name says
\* (db/src/sql/pg.ts:287, sqlite.ts:284).  For MIN and MAX the row is one of those.
SelectsExactly ==
  call.fn \in ReadMethods => \A b \in Backends :
    LET wanted == {c \in Candidates(before[b], TablesOf(call)) : Wanted(EngineOf(b), call, c)}
    IN  answer[b].ok =>
          /\ answer[b].rows \subseteq wanted
          /\ ~ IsExtreme(call) => answer[b].rows = wanted
          /\ IsExtreme(call) => (answer[b].rows = {} <=> wanted = {})

\* A write changes the rows it names and no other, and all of them or none: an update
\* assigns the values to exactly the rows its conditions name, an insertion adds one row
\* that was not there, and a deletion that names nothing - an empty list of conditions,
\* an empty value - removes nothing (db/src/sql/pg.ts:178, :840, :1030).
WritesExactly ==
  call.fn \in WriteMethods => \A b \in Backends : \A t \in Tables :
    LET old == before[b][t]
        new == db[b][t]
        hit == {r \in old : Named(call, r)}
        assigned(r) == SetColumns(call.values.names, call.values.vals, r)
        inserted == assigned([col \in Columns |-> Null])
    IN  IF ~ answer[b].ok \/ t # call.table THEN new = old ELSE
        CASE IsDelete(call) -> new = old \ hit
          [] call.fn \in {"update", "updateAnd"} -> new = (old \ hit) \union {assigned(r) : r \in hit}
          [] call.fn = "insert" -> inserted \notin old /\ new = old \union {inserted}

\* The layer is meant to hide the engine: on the same rows, a portable call has the same
\* answer and the same effect on PostgreSQL and on SQLite, in the db package and in the
\* identity server's copy of it (db/src/database.ts:11).
EnginesAgree ==
  call # NoCall /\ Portable(call) => \A b, d \in Backends :
    before[b] = before[d] => answer[b] = answer[d] /\ db[b] = db[d]
=============================================================================
