------------------------------ MODULE SqlEngine ------------------------------
(***************************************************************************)
(* What PostgreSQL and SQLite do with the statements that the two backends *)
(* of the database layer build.  Nothing here is code of the repository:   *)
(* it is the part of SQL the backends rely on, written down so that a      *)
(* statement has a meaning that can be compared with what was asked for.   *)
(*                                                                         *)
(* A row is a function from column to value.  A candidate of a SELECT is   *)
(* one row of each table in its FROM.  A WHERE clause is the sequence of   *)
(* its conditions in the order they are written, each with the word that   *)
(* stands before it, because the backends write no parentheses around      *)
(* them and AND binds tighter than OR; the values of an array filter are   *)
(* the one thing they do put in parentheses, a group of alternatives.      *)
(***************************************************************************)
EXTENDS Naturals, Sequences, SequencesExt

CONSTANTS
  Texts,      \* the values a column may hold; "0" is the number zero
  Null,       \* the SQL NULL
  Columns,    \* the columns of every table; "id" is the primary key
  Rank,       \* the place of each text in the collation of the database
  Fold        \* each text with its case folded

\* The empty text.
Empty == ""

ASSUME TextsAssumption == {Empty, "0"} \subseteq Texts /\ Null \notin Texts
ASSUME ColumnsAssumption == "id" \in Columns
ASSUME CollationAssumption == Rank \in [Texts -> Nat] /\ DOMAIN Fold = Texts

(***************************************************************************)
(* Statements                                                              *)
(***************************************************************************)
\* A comparison of a column with the value bound to placeholder ph, or, when ph is 0, with
\* another column.
Atom(key, op, ph) == [key |-> key, op |-> op, ph |-> ph, col |-> key]
ColumnAtom(key, col) == [key |-> key, op |-> "=", ph |-> 0, col |-> col]

Statement(kind, tables, where, vals) ==
  [kind |-> kind, tables |-> tables, where |-> where, vals |-> vals,
   set |-> <<>>, agg |-> "none", target |-> <<>>, wellFormed |-> TRUE]

\* A statement the backend refuses to send, or one that no engine can parse.
NoStatement == [Statement("none", <<>>, <<>>, <<>>) EXCEPT !.wellFormed = FALSE]

(***************************************************************************)
(* Conditions.  A comparison with NULL is unknown, which neither AND nor   *)
(* OR can turn into a row of the answer.                                   *)
(***************************************************************************)
\* LIKE '%v%' on one-letter texts; PostgreSQL compares case, SQLite does not.
Like(engine, v, x) ==
  \/ v = Empty
  \/ engine = "pg" /\ x = v
  \/ engine = "sqlite" /\ Fold[x] = Fold[v]

Compares(engine, op, x, y) ==
  /\ x # Null /\ y # Null
  /\ CASE op = "="  -> x = y
       [] op \in {"<>", "!="} -> x # y
       [] op = ">"  -> Rank[x] > Rank[y]
       [] op = "<"  -> Rank[x] < Rank[y]
       [] op = ">=" -> Rank[x] >= Rank[y]
       [] op = "<=" -> Rank[x] <= Rank[y]
       [] op = "LIKE" -> Like(engine, y, x)

AtomHolds(engine, a, vals, cand) ==
  Compares(engine, a.op, cand[a.key[1]][a.key[2]],
           IF a.ph = 0 THEN cand[a.col[1]][a.col[2]] ELSE vals[a.ph])

GroupHolds(engine, g, vals, cand) == \E i \in DOMAIN g : AtomHolds(engine, g[i], vals, cand)

\* A clause is a disjunction of the runs of conditions between two ORs.
ClauseHolds(engine, w, vals, cand) ==
  \/ w = <<>>
  \/ \E i \in DOMAIN w :
       /\ i = 1 \/ w[i].link = "OR"
       /\ \A k \in i..Len(w) :
            (\A j \in (i + 1)..k : w[j].link = "AND") => GroupHolds(engine, w[k].group, vals, cand)

(***************************************************************************)
(* Execution                                                               *)
(***************************************************************************)
Candidates(db, tables) ==
  {c \in [ToSet(tables) -> UNION {db[t] : t \in ToSet(tables)}] : \A t \in ToSet(tables) : c[t] \in db[t]}

Selected(engine, st, db) ==
  {c \in Candidates(db, st.tables) : ClauseHolds(engine, st.where, st.vals, c)}

Result(ok, rows, db) == [ok |-> ok, rows |-> rows, db |-> db]
Failed(db) == Result(FALSE, {}, db)

\* SELECT f, MAX(target) ... HAVING COUNT(*) > 0, with no GROUP BY: PostgreSQL refuses the
\* columns outside the aggregate, SQLite takes them from one of the extreme rows (the answer
\* is one of the rows given here).
ExtremeRows(engine, st, db) ==
  LET sel == Selected(engine, st, db)
      of(c) == c[st.target[1]][st.target[2]]
      known == {c \in sel : of(c) # Null}
      beyond(x, y) == IF st.agg = "MAX" THEN Rank[x] > Rank[y] ELSE Rank[x] < Rank[y]
  IN  IF known = {} THEN sel
      ELSE {c \in known : \A d \in known : ~ beyond(of(d), of(c))}

HasKey(rows, key) == \E r \in rows : r["id"] = key

\* The row when the named columns have been given their values.
PlaceOf(names, c) == CHOOSE i \in DOMAIN names : names[i] = c
SetColumns(names, vals, row) ==
  [c \in Columns |-> IF c \in ToSet(names) THEN vals[PlaceOf(names, c)] ELSE row[c]]

Inserted(st, db) ==
  LET t == st.tables[1]
      row == SetColumns(st.set, st.vals, [c \in Columns |-> Null])
  IN  IF HasKey(db[t], row["id"]) THEN Failed(db)
      ELSE Result(TRUE, {[x \in {t} |-> row]}, [db EXCEPT ![t] = @ \union {row}])

Updated(engine, st, db) ==
  LET t == st.tables[1]
      hit == {c[t] : c \in Selected(engine, st, db)}
      new(r) == SetColumns(st.set, st.vals, r)
      kept == db[t] \ hit
      clash == \/ \E r \in hit : HasKey(kept, new(r)["id"])
               \/ \E r, s \in hit : r # s /\ new(r)["id"] = new(s)["id"]
  IN  IF clash THEN Failed(db)
      ELSE Result(TRUE, {[x \in {t} |-> new(r)] : r \in hit},
                  [db EXCEPT ![t] = kept \union {new(r) : r \in hit}])

Deleted(engine, st, db) ==
  LET t == st.tables[1]
      hit == {c[t] : c \in Selected(engine, st, db)}
  IN  Result(TRUE, {}, [db EXCEPT ![t] = @ \ hit])

Execute(engine, st, db) ==
  IF ~ st.wellFormed THEN Failed(db) ELSE
  CASE st.kind = "select" /\ st.agg = "none" -> Result(TRUE, Selected(engine, st, db), db)
    [] st.kind = "select" /\ st.agg # "none" /\ engine = "pg" -> Failed(db)
    [] st.kind = "select" /\ st.agg # "none" /\ engine = "sqlite" ->
         Result(TRUE, ExtremeRows(engine, st, db), db)
    [] st.kind = "insert" -> Inserted(st, db)
    [] st.kind = "update" -> Updated(engine, st, db)
    [] st.kind = "delete" -> Deleted(engine, st, db)
=============================================================================
