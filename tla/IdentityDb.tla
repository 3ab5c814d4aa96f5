------------------------------ MODULE IdentityDb ------------------------------
(***************************************************************************)
(* The identity server's own copy of the two backends,                     *)
(* matrix-identity-server/src/db/sql/pg.ts and sqlite.ts.  The files       *)
(* repeat db/src/sql word for word but for their imports and the name in   *)
(* one log line, so every method is the one of DbPg or DbSqlite, named     *)
(* again because it is another method: a correction of one copy does not   *)
(* reach the other, and the runs compare the four.                         *)
(***************************************************************************)
EXTENDS DbPg, DbSqlite

(***************************************************************************)
(* matrix-identity-server/src/db/sql/pg.ts                                 *)
(***************************************************************************)
IdPgInsert(c) == PgInsert(c)
IdPgUpdate(c) == PgUpdate(c)
IdPgUpdateAnd(c) == PgUpdateAnd(c)
IdPg_get(tables, parts, join) == Pg_get(tables, parts, join)
IdPgGet(c) == IdPg_get(<<c.table>>, <<Part("=", "WHERE", c.f1)>>, NoJoin)
IdPgGetJoin(c) == IdPg_get(c.tables, <<Part("=", "WHERE", c.f1)>>, c.join)
IdPgGetHigherThan(c) == IdPg_get(<<c.table>>, <<Part(">", "WHERE", c.f1)>>, NoJoin)
IdPgGetWhereEqualOrDifferent(c) ==
  IdPg_get(<<c.table>>, <<Part("=", "WHERE", c.f1), Part("<>", "OR", c.f2)>>, NoJoin)
IdPgGetWhereEqualAndHigher(c) ==
  IdPg_get(<<c.table>>, <<Part("=", "WHERE", c.f1), Part(">", "AND", c.f2)>>, NoJoin)
IdPg_getMinMax(minmax, tables, targetField, parts, join, order) ==
  Pg_getMinMax(minmax, tables, targetField, parts, join, order)
IdPgGetMaxWhereEqual(c) ==
  IdPg_getMinMax("MAX", <<c.table>>, c.target, <<Part("=", "WHERE", c.f1)>>, NoJoin, c.order)
IdPgGetMaxWhereEqualAndLower(c) ==
  IdPg_getMinMax("MAX", <<c.table>>, c.target, <<Part("=", "WHERE", c.f1), Part("<", "AND", c.f2)>>, NoJoin, c.order)
IdPgGetMinWhereEqualAndHigher(c) ==
  IdPg_getMinMax("MIN", <<c.table>>, c.target, <<Part("=", "WHERE", c.f1), Part(">", "AND", c.f2)>>, NoJoin, c.order)
IdPgGetMaxWhereEqualAndLowerJoin(c) ==
  IdPg_getMinMax("MAX", c.tables, c.target, <<Part("=", "WHERE", c.f1), Part("<", "AND", c.f2)>>, c.join, c.order)
IdPgMatch(c) == PgMatch(c)
IdPgDeleteEqual(c) == PgDeleteEqual(c)
IdPgDeleteEqualAnd(c) == PgDeleteEqualAnd(c)
IdPgDeleteLowerThan(c) == PgDeleteLowerThan(c)
IdPgDeleteWhere(c) == PgDeleteWhere(c)

IdPgStatement(c) ==
  CASE c.fn = "insert" -> IdPgInsert(c)
    [] c.fn = "update" -> IdPgUpdate(c)
    [] c.fn = "updateAnd" -> IdPgUpdateAnd(c)
    [] c.fn \in {"get", "getCount", "getAll"} -> IdPgGet(c)
    [] c.fn = "getJoin" -> IdPgGetJoin(c)
    [] c.fn = "getHigherThan" -> IdPgGetHigherThan(c)
    [] c.fn = "getWhereEqualOrDifferent" -> IdPgGetWhereEqualOrDifferent(c)
    [] c.fn = "getWhereEqualAndHigher" -> IdPgGetWhereEqualAndHigher(c)
    [] c.fn = "getMaxWhereEqual" -> IdPgGetMaxWhereEqual(c)
    [] c.fn = "getMaxWhereEqualAndLower" -> IdPgGetMaxWhereEqualAndLower(c)
    [] c.fn = "getMinWhereEqualAndHigher" -> IdPgGetMinWhereEqualAndHigher(c)
    [] c.fn = "getMaxWhereEqualAndLowerJoin" -> IdPgGetMaxWhereEqualAndLowerJoin(c)
    [] c.fn = "match" -> IdPgMatch(c)
    [] c.fn = "deleteEqual" -> IdPgDeleteEqual(c)
    [] c.fn = "deleteEqualAnd" -> IdPgDeleteEqualAnd(c)
    [] c.fn = "deleteLowerThan" -> IdPgDeleteLowerThan(c)
    [] c.fn = "deleteWhere" -> IdPgDeleteWhere(c)

(***************************************************************************)
(* matrix-identity-server/src/db/sql/sqlite.ts                             *)
(***************************************************************************)
IdSqliteInsert(c) == SqliteInsert(c)
IdSqliteUpdate(c) == SqliteUpdate(c)
IdSqliteUpdateAnd(c) == SqliteUpdateAnd(c)
IdSqlite_get(tables, parts, join) == Sqlite_get(tables, parts, join)
IdSqliteGet(c) == IdSqlite_get(<<c.table>>, <<Part("=", "WHERE", c.f1)>>, NoJoin)
IdSqliteGetJoin(c) == IdSqlite_get(c.tables, <<Part("=", "WHERE", c.f1)>>, c.join)
IdSqliteGetHigherThan(c) == IdSqlite_get(<<c.table>>, <<Part(">", "WHERE", c.f1)>>, NoJoin)
IdSqliteGetWhereEqualOrDifferent(c) ==
  IdSqlite_get(<<c.table>>, <<Part("=", "WHERE", c.f1), Part("<>", "OR", c.f2)>>, NoJoin)
IdSqliteGetWhereEqualAndHigher(c) ==
  IdSqlite_get(<<c.table>>, <<Part("=", "WHERE", c.f1), Part(">", "AND", c.f2)>>, NoJoin)
IdSqlite_getMinMax(minmax, tables, targetField, parts, join, order) ==
  Sqlite_getMinMax(minmax, tables, targetField, parts, join, order)
IdSqliteGetMaxWhereEqual(c) ==
  IdSqlite_getMinMax("MAX", <<c.table>>, c.target, <<Part("=", "WHERE", c.f1)>>, NoJoin, c.order)
IdSqliteGetMaxWhereEqualAndLower(c) ==
  IdSqlite_getMinMax("MAX", <<c.table>>, c.target, <<Part("=", "WHERE", c.f1), Part("<", "AND", c.f2)>>, NoJoin, c.order)
IdSqliteGetMinWhereEqualAndHigher(c) ==
  IdSqlite_getMinMax("MIN", <<c.table>>, c.target, <<Part("=", "WHERE", c.f1), Part(">", "AND", c.f2)>>, NoJoin, c.order)
IdSqliteGetMaxWhereEqualAndLowerJoin(c) ==
  IdSqlite_getMinMax("MAX", c.tables, c.target, <<Part("=", "WHERE", c.f1), Part("<", "AND", c.f2)>>, c.join, c.order)
IdSqliteMatch(c) == SqliteMatch(c)
IdSqliteDeleteEqual(c) == SqliteDeleteEqual(c)
IdSqliteDeleteEqualAnd(c) == SqliteDeleteEqualAnd(c)
IdSqliteDeleteLowerThan(c) == SqliteDeleteLowerThan(c)
IdSqliteDeleteWhere(c) == SqliteDeleteWhere(c)

IdSqliteStatement(c) ==
  CASE c.fn = "insert" -> IdSqliteInsert(c)
    [] c.fn = "update" -> IdSqliteUpdate(c)
    [] c.fn = "updateAnd" -> IdSqliteUpdateAnd(c)
    [] c.fn \in {"get", "getCount", "getAll"} -> IdSqliteGet(c)
    [] c.fn = "getJoin" -> IdSqliteGetJoin(c)
    [] c.fn = "getHigherThan" -> IdSqliteGetHigherThan(c)
    [] c.fn = "getWhereEqualOrDifferent" -> IdSqliteGetWhereEqualOrDifferent(c)
    [] c.fn = "getWhereEqualAndHigher" -> IdSqliteGetWhereEqualAndHigher(c)
    [] c.fn = "getMaxWhereEqual" -> IdSqliteGetMaxWhereEqual(c)
    [] c.fn = "getMaxWhereEqualAndLower" -> IdSqliteGetMaxWhereEqualAndLower(c)
    [] c.fn = "getMinWhereEqualAndHigher" -> IdSqliteGetMinWhereEqualAndHigher(c)
    [] c.fn = "getMaxWhereEqualAndLowerJoin" -> IdSqliteGetMaxWhereEqualAndLowerJoin(c)
    [] c.fn = "match" -> IdSqliteMatch(c)
    [] c.fn = "deleteEqual" -> IdSqliteDeleteEqual(c)
    [] c.fn = "deleteEqualAnd" -> IdSqliteDeleteEqualAnd(c)
    [] c.fn = "deleteLowerThan" -> IdSqliteDeleteLowerThan(c)
    [] c.fn = "deleteWhere" -> IdSqliteDeleteWhere(c)
=============================================================================
