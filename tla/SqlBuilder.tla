----------------------------- MODULE SqlBuilder -----------------------------
(***************************************************************************)
(* How both backends of the database layer put a WHERE clause together.    *)
(* The same lines stand in _get and in _getMinMax of each of the four      *)
(* backend files; the backends' modules say where each uses them.          *)
(*                                                                         *)
(* filterFields is the sequence of its keys with the values of each, in    *)
(* the order of Object.keys: <<>> for null or an empty array, one value    *)
(* for a scalar, several for an array.                                     *)
(***************************************************************************)
EXTENDS SqlEngine

\* A filter whose text is the empty text is left out: null, '', [] and [''].
LeftOut(f) == f.vals \in {<<>>, <<Empty>>}

\* The condition on one key; the values of an array are alternatives in parentheses.
KeyCondition(op, f, index) ==
  [link |-> "AND", group |-> [j \in DOMAIN f.vals |-> Atom(f.key, op, index + j)]]

NoCondition == [clause |-> <<>>, vals |-> <<>>]

\* One turn of the loop over the keys; index placeholders were written before the loop.
WithKey(op, f, index, written) ==
  IF LeftOut(f) THEN written
  ELSE [clause |-> Append(written.clause, KeyCondition(op, f, index + Len(written.vals))),
        vals |-> written.vals \o f.vals]

\* What is written after each turn.
KeyLoop(op, filterFields, index) ==
  LET written[k \in 0..Len(filterFields)] ==
        IF k = 0 THEN NoCondition ELSE WithKey(op, filterFields[k], index, written[k - 1])
  IN  written

\* Mutant: the placeholders are numbered from 1 again in every condition.
BuildConditionRestarts(op, filterFields, index) == KeyLoop(op, filterFields, 0)[Len(filterFields)]

\* One condition per key, joined by AND.
buildCondition(op, filterFields, index) == KeyLoop(op, filterFields, index)[Len(filterFields)]

\* What is written between the clause so far and the next condition.
LinkedTo(clause, cond, linkop) ==
  clause \o [i \in DOMAIN cond |->
               IF i = 1 THEN [cond[i] EXCEPT !.link = IF clause = <<>> THEN "WHERE" ELSE linkop]
               ELSE cond[i]]

Part(op, linkop, filterFields) == [op |-> op, link |-> linkop, filters |-> filterFields]

WithCondition(acc, p) ==
  LET c == buildCondition(p.op, p.filters, Len(acc.vals))
  IN  [clause |-> LinkedTo(acc.clause, c.clause, p.link), vals |-> acc.vals \o c.vals]

\* condition1 and condition2, numbered and linked in that order; no method has a condition3.
Conditions(parts) ==
  LET condition1 == WithCondition(NoCondition, parts[1])
  IN  IF Len(parts) = 1 THEN condition1 ELSE WithCondition(condition1, parts[2])

\* joinFields: absent, or a sequence of column pairs (an absent partner is left out).
NoJoin == [given |-> FALSE, on |-> <<>>]
WithPair(pair, written) ==
  IF pair.col = <<>> THEN written
  ELSE Append(written, [link |-> "AND", group |-> <<ColumnAtom(pair.key, pair.col)>>])
JoinLoop(join) ==
  LET written[k \in 0..Len(join.on)] ==
        IF k = 0 THEN <<>> ELSE WithPair(join.on[k], written[k - 1])
  IN  written
JoinCondition(join) == JoinLoop(join)[Len(join.on)]

\* joinFields with nothing to join on leaves a WHERE or an AND with nothing behind it.
JoinComplete(join) == join.given => JoinCondition(join) # <<>>

SelectWhere(tables, parts, join) ==
  LET c == Conditions(parts)
  IN  [Statement("select", tables, LinkedTo(c.clause, JoinCondition(join), "AND"), c.vals)
         EXCEPT !.wellFormed = JoinComplete(join)]

\* A value that JavaScript takes for false.
Falsy(value) == value \in {Empty, "0", Null}

\* The conditions ISQLCondition[] of deleteWhere; Empty is an operator that is not given.
OperatorOf(cond) == IF cond.operator = Empty THEN "=" ELSE cond.operator
=============================================================================
