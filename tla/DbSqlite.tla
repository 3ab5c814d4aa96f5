------------------------------- MODULE DbSqlite -------------------------------
(***************************************************************************)
(* The SQLite backend, db/src/sql/sqlite.ts: the statement each method of  *)
(* class SQLite sends, in the terms of DbPg.  Outside _get the             *)
(* placeholders are question marks, which SQLite numbers in the order they *)
(* are written; the $1, $2 ... of _get are names to it, numbered in the    *)
(* order they first appear, which is the order they are written in too.    *)
(***************************************************************************)
EXTENDS SqlBuilder

(***************************************************************************)
(* Writes                                                                  *)
(***************************************************************************)
SqliteInsert(c) ==
  [Statement("insert", <<c.table>>, <<>>, c.values.vals) EXCEPT !.set = c.values.names]

\* One question mark per assignment, then the one of the condition.
SqliteUpdate(c) ==
  LET vals == Append(c.values.vals, c.cond1.value)
  IN  [Statement("update", <<c.table>>,
                 <<[link |-> "WHERE", group |-> <<Atom(c.cond1.field, "=", Len(vals))>>]>>, vals)
         EXCEPT !.set = c.values.names, !.wellFormed = c.values.names # <<>>]

SqliteUpdateAnd(c) ==
  LET vals == c.values.vals \o <<c.cond1.value, c.cond2.value>>
  IN  [Statement("update", <<c.table>>,
                 <<[link |-> "WHERE", group |-> <<Atom(c.cond1.field, "=", Len(vals) - 1)>>],
                   [link |-> "AND", group |-> <<Atom(c.cond2.field, "=", Len(vals))>>]>>, vals)
         EXCEPT !.set = c.values.names, !.wellFormed = c.values.names # <<>>]

(***************************************************************************)
(* Reads                                                                   *)
(***************************************************************************)
Sqlite_get(tables, parts, join) == SelectWhere(tables, parts, join)

SqliteGet(c) == Sqlite_get(<<c.table>>, <<Part("=", "WHERE", c.f1)>>, NoJoin)
SqliteGetJoin(c) == Sqlite_get(c.tables, <<Part("=", "WHERE", c.f1)>>, c.join)
SqliteGetHigherThan(c) == Sqlite_get(<<c.table>>, <<Part(">", "WHERE", c.f1)>>, NoJoin)
SqliteGetWhereEqualOrDifferent(c) ==
  Sqlite_get(<<c.table>>, <<Part("=", "WHERE", c.f1), Part("<>", "OR", c.f2)>>, NoJoin)
SqliteGetWhereEqualAndHigher(c) ==
  Sqlite_get(<<c.table>>, <<Part("=", "WHERE", c.f1), Part(">", "AND", c.f2)>>, NoJoin)

\* ORDER BY is written before HAVING: a call with an order cannot be parsed.
Sqlite_getMinMax(minmax, tables, targetField, parts, join, order) ==
  LET st == SelectWhere(tables, parts, join)
  IN  [st EXCEPT !.agg = minmax, !.target = targetField, !.wellFormed = @ /\ ~ order]

SqliteGetMaxWhereEqual(c) ==
  Sqlite_getMinMax("MAX", <<c.table>>, c.target, <<Part("=", "WHERE", c.f1)>>, NoJoin, c.order)
SqliteGetMaxWhereEqualAndLower(c) ==
  Sqlite_getMinMax("MAX", <<c.table>>, c.target, <<Part("=", "WHERE", c.f1), Part("<", "AND", c.f2)>>, NoJoin, c.order)
SqliteGetMinWhereEqualAndHigher(c) ==
  Sqlite_getMinMax("MIN", <<c.table>>, c.target, <<Part("=", "WHERE", c.f1), Part(">", "AND", c.f2)>>, NoJoin, c.order)
SqliteGetMaxWhereEqualAndLowerJoin(c) ==
  Sqlite_getMinMax("MAX", c.tables, c.target, <<Part("=", "WHERE", c.f1), Part("<", "AND", c.f2)>>, c.join, c.order)

\* LIKE '%value%' on any of the search fields.
SqliteMatch(c) ==
  [Statement("select", <<c.table>>,
             [i \in DOMAIN c.search |-> [link |-> "OR", group |-> <<Atom(c.search[i], "LIKE", i)>>]],
             [i \in DOMAIN c.search |-> c.value])
     EXCEPT !.wellFormed = c.search # <<>>]

(***************************************************************************)
(* Deletions: no value is refused.                                         *)
(***************************************************************************)
SqliteDeleteEqual(c) ==
  Statement("delete", <<c.table>>,
            <<[link |-> "WHERE", group |-> <<Atom(c.cond1.field, "=", 1)>>]>>, <<c.cond1.value>>)

SqliteDeleteEqualAnd(c) ==
  Statement("delete", <<c.table>>,
            <<[link |-> "WHERE", group |-> <<Atom(c.cond1.field, "=", 1)>>],
              [link |-> "AND", group |-> <<Atom(c.cond2.field, "=", 2)>>]>>,
            <<c.cond1.value, c.cond2.value>>)

SqliteDeleteLowerThan(c) ==
  Statement("delete", <<c.table>>,
            <<[link |-> "WHERE", group |-> <<Atom(c.cond1.field, "<", 1)>>]>>, <<c.cond1.value>>)

\* WHERE is written even when there is no condition, and then nothing is deleted.
SqliteDeleteWhere(c) ==
  [Statement("delete", <<c.table>>,
             [i \in DOMAIN c.conds |->
                [link |-> "AND", group |-> <<Atom(c.conds[i].field, OperatorOf(c.conds[i]), i)>>]],
             [i \in DOMAIN c.conds |-> c.conds[i].value])
     EXCEPT !.wellFormed = c.conds # <<>>]

(***************************************************************************)
(* getCount and getAll are inherited from class SQL (sql.ts); the count of *)
(* a column is taken over the rows that get selects.                       *)
(***************************************************************************)
SqliteStatement(c) ==
  CASE c.fn = "insert" -> SqliteInsert(c)
    [] c.fn = "update" -> SqliteUpdate(c)
    [] c.fn = "updateAnd" -> SqliteUpdateAnd(c)
    [] c.fn \in {"get", "getCount", "getAll"} -> SqliteGet(c)
    [] c.fn = "getJoin" -> SqliteGetJoin(c)
    [] c.fn = "getHigherThan" -> SqliteGetHigherThan(c)
    [] c.fn = "getWhereEqualOrDifferent" -> SqliteGetWhereEqualOrDifferent(c)
    [] c.fn = "getWhereEqualAndHigher" -> SqliteGetWhereEqualAndHigher(c)
    [] c.fn = "getMaxWhereEqual" -> SqliteGetMaxWhereEqual(c)
    [] c.fn = "getMaxWhereEqualAndLower" -> SqliteGetMaxWhereEqualAndLower(c)
    [] c.fn = "getMinWhereEqualAndHigher" -> SqliteGetMinWhereEqualAndHigher(c)
    [] c.fn = "getMaxWhereEqualAndLowerJoin" -> SqliteGetMaxWhereEqualAndLowerJoin(c)
    [] c.fn = "match" -> SqliteMatch(c)
    [] c.fn = "deleteEqual" -> SqliteDeleteEqual(c)
    [] c.fn = "deleteEqualAnd" -> SqliteDeleteEqualAnd(c)
    [] c.fn = "deleteLowerThan" -> SqliteDeleteLowerThan(c)
    [] c.fn = "deleteWhere" -> SqliteDeleteWhere(c)
=============================================================================
