------------------------------- MODULE DbPg -------------------------------
(***************************************************************************)
(* The PostgreSQL backend, db/src/sql/pg.ts: the statement each method of  *)
(* class Pg sends.  A call c is the record of the arguments of the method; *)
(* a method that rejects before it sends anything gives NoStatement.  The  *)
(* order of the rows and the aliases of the columns are left out: the      *)
(* answer of a method is the set of rows.                                  *)
(***************************************************************************)
EXTENDS SqlBuilder

(***************************************************************************)
(* Writes                                                                  *)
(***************************************************************************)
PgInsert(c) ==
  [Statement("insert", <<c.table>>, <<>>, c.values.vals) EXCEPT !.set = c.values.names]

\* Mutant: the condition's placeholder is the one of the last assignment.
PgUpdateOffByOne(c) ==
  LET vals == Append(c.values.vals, c.cond1.value)
  IN  [Statement("update", <<c.table>>,
                 <<[link |-> "WHERE", group |-> <<Atom(c.cond1.field, "=", Len(vals) - 1)>>]>>, vals)
         EXCEPT !.set = c.values.names, !.wellFormed = c.values.names # <<>>]

\* vals holds the assignments and then the value of the condition.
PgUpdate(c) ==
  LET vals == Append(c.values.vals, c.cond1.value)
  IN  [Statement("update", <<c.table>>,
                 <<[link |-> "WHERE", group |-> <<Atom(c.cond1.field, "=", Len(vals))>>]>>, vals)
         EXCEPT !.set = c.values.names, !.wellFormed = c.values.names # <<>>]

PgUpdateAnd(c) ==
  LET vals == c.values.vals \o <<c.cond1.value, c.cond2.value>>
  IN  [Statement("update", <<c.table>>,
                 <<[link |-> "WHERE", group |-> <<Atom(c.cond1.field, "=", Len(vals) - 1)>>],
                   [link |-> "AND", group |-> <<Atom(c.cond2.field, "=", Len(vals))>>]>>, vals)
         EXCEPT !.set = c.values.names, !.wellFormed = c.values.names # <<>>]

(***************************************************************************)
(* Reads                                                                   *)
(***************************************************************************)
Pg_get(tables, parts, join) == SelectWhere(tables, parts, join)

PgGet(c) == Pg_get(<<c.table>>, <<Part("=", "WHERE", c.f1)>>, NoJoin)
PgGetJoin(c) == Pg_get(c.tables, <<Part("=", "WHERE", c.f1)>>, c.join)
PgGetHigherThan(c) == Pg_get(<<c.table>>, <<Part(">", "WHERE", c.f1)>>, NoJoin)
PgGetWhereEqualOrDifferent(c) ==
  Pg_get(<<c.table>>, <<Part("=", "WHERE", c.f1), Part("<>", "OR", c.f2)>>, NoJoin)
PgGetWhereEqualAndHigher(c) ==
  Pg_get(<<c.table>>, <<Part("=", "WHERE", c.f1), Part(">", "AND", c.f2)>>, NoJoin)

\* ORDER BY is written before HAVING: a call with an order cannot be parsed.
Pg_getMinMax(minmax, tables, targetField, parts, join, order) ==
  LET st == SelectWhere(tables, parts, join)
  IN  [st EXCEPT !.agg = minmax, !.target = targetField, !.wellFormed = @ /\ ~ order]

PgGetMaxWhereEqual(c) ==
  Pg_getMinMax("MAX", <<c.table>>, c.target, <<Part("=", "WHERE", c.f1)>>, NoJoin, c.order)
PgGetMaxWhereEqualAndLower(c) ==
  Pg_getMinMax("MAX", <<c.table>>, c.target, <<Part("=", "WHERE", c.f1), Part("<", "AND", c.f2)>>, NoJoin, c.order)
PgGetMinWhereEqualAndHigher(c) ==
  Pg_getMinMax("MIN", <<c.table>>, c.target, <<Part("=", "WHERE", c.f1), Part(">", "AND", c.f2)>>, NoJoin, c.order)
PgGetMaxWhereEqualAndLowerJoin(c) ==
  Pg_getMinMax("MAX", c.tables, c.target, <<Part("=", "WHERE", c.f1), Part("<", "AND", c.f2)>>, c.join, c.order)

\* LIKE '%value%' on any of the search fields; a false value, 0 included, searches for '%'.
PgMatch(c) ==
  [Statement("select", <<c.table>>,
             [i \in DOMAIN c.search |-> [link |-> "OR", group |-> <<Atom(c.search[i], "LIKE", i)>>]],
             [i \in DOMAIN c.search |-> IF Falsy(c.value) THEN Empty ELSE c.value])
     EXCEPT !.wellFormed = c.search # <<>>]

(***************************************************************************)
(* Deletions: the three that take a field and a value reject a false one.  *)
(***************************************************************************)
PgDeleteEqual(c) ==
  IF Falsy(c.cond1.value) THEN NoStatement
  ELSE Statement("delete", <<c.table>>,
                 <<[link |-> "WHERE", group |-> <<Atom(c.cond1.field, "=", 1)>>]>>, <<c.cond1.value>>)

PgDeleteEqualAnd(c) ==
  IF Falsy(c.cond1.value) \/ Falsy(c.cond2.value) THEN NoStatement
  ELSE Statement("delete", <<c.table>>,
                 <<[link |-> "WHERE", group |-> <<Atom(c.cond1.field, "=", 1)>>],
                   [link |-> "AND", group |-> <<Atom(c.cond2.field, "=", 2)>>]>>,
                 <<c.cond1.value, c.cond2.value>>)

PgDeleteLowerThan(c) ==
  IF Falsy(c.cond1.value) THEN NoStatement
  ELSE Statement("delete", <<c.table>>,
                 <<[link |-> "WHERE", group |-> <<Atom(c.cond1.field, "<", 1)>>]>>, <<c.cond1.value>>)

\* Mutant: WHERE is written only when there is a condition to write.
PgDeleteWhereOptional(c) ==
  Statement("delete", <<c.table>>,
            [i \in DOMAIN c.conds |->
               [link |-> "AND", group |-> <<Atom(c.conds[i].field, OperatorOf(c.conds[i]), i)>>]],
            [i \in DOMAIN c.conds |-> c.conds[i].value])

\* WHERE is written even when there is no condition, and then nothing is deleted.
PgDeleteWhere(c) ==
  [Statement("delete", <<c.table>>,
             [i \in DOMAIN c.conds |->
                [link |-> "AND", group |-> <<Atom(c.conds[i].field, OperatorOf(c.conds[i]), i)>>]],
             [i \in DOMAIN c.conds |-> c.conds[i].value])
     EXCEPT !.wellFormed = c.conds # <<>>]

(***************************************************************************)
(* getCount and getAll are inherited from class SQL (sql.ts); the count of *)
(* a column is taken over the rows that get selects.                       *)
(***************************************************************************)
PgStatement(c) ==
  CASE c.fn = "insert" -> PgInsert(c)
    [] c.fn = "update" -> PgUpdate(c)
    [] c.fn = "updateAnd" -> PgUpdateAnd(c)
    [] c.fn \in {"get", "getCount", "getAll"} -> PgGet(c)
    [] c.fn = "getJoin" -> PgGetJoin(c)
    [] c.fn = "getHigherThan" -> PgGetHigherThan(c)
    [] c.fn = "getWhereEqualOrDifferent" -> PgGetWhereEqualOrDifferent(c)
    [] c.fn = "getWhereEqualAndHigher" -> PgGetWhereEqualAndHigher(c)
    [] c.fn = "getMaxWhereEqual" -> PgGetMaxWhereEqual(c)
    [] c.fn = "getMaxWhereEqualAndLower" -> PgGetMaxWhereEqualAndLower(c)
    [] c.fn = "getMinWhereEqualAndHigher" -> PgGetMinWhereEqualAndHigher(c)
    [] c.fn = "getMaxWhereEqualAndLowerJoin" -> PgGetMaxWhereEqualAndLowerJoin(c)
    [] c.fn = "match" -> PgMatch(c)
    [] c.fn = "deleteEqual" -> PgDeleteEqual(c)
    [] c.fn = "deleteEqualAnd" -> PgDeleteEqualAnd(c)
    [] c.fn = "deleteLowerThan" -> PgDeleteLowerThan(c)
    [] c.fn = "deleteWhere" -> PgDeleteWhere(c)
=============================================================================
