----------------------------- MODULE MCDatabase -----------------------------
(***************************************************************************)
(* Two tables with a key and one more column, four texts (two of them the  *)
(* same letter in both cases), and for every method of the layer the calls *)
(* that tell its cases apart: filters that are absent, null, empty, scalar *)
(* and array, alone and two together.                                      *)
(***************************************************************************)
EXTENDS Database

MCTexts == {"", "0", "a", "A"}
MCRank == [x \in MCTexts |-> CASE x = "" -> 0 [] x = "0" -> 1 [] x = "A" -> 2 [] x = "a" -> 3]
MCFold == [x \in MCTexts |-> IF x = "A" THEN "a" ELSE x]

MCInitRows == [t \in {"keys", "hashes"} |-> IF t = "keys" THEN {"pepper", "previousPepper"} ELSE {}]

Id == <<"t", "id">>
N == <<"t", "n">>
F(key, vals) == [key |-> key, vals |-> vals]
Cond(key, value) == [field |-> key, value |-> value]
Where(key, operator, value) == [field |-> key, operator |-> operator, value |-> value]
Assign(names, vals) == [names |-> names, vals |-> vals]

NoArgs ==
  [fn |-> "", table |-> "t", tables |-> <<"t", "u">>, f1 |-> <<>>, f2 |-> <<>>, join |-> NoJoin,
   order |-> FALSE, target |-> N, value |-> "", values |-> Assign(<<>>, <<>>),
   cond1 |-> Cond(Id, "a"), cond2 |-> Cond(N, "a"), conds |-> <<>>, search |-> <<>>]

Filters ==
  {<<>>,
   <<F(N, <<"">>)>>,
   <<F(Id, <<"0">>)>>,
   <<F(Id, <<>>), F(N, <<"0">>)>>,
   <<F(N, <<"0", "a">>), F(Id, <<"a">>)>>}

\* Left out, in part, and with a list of values.
SecondFilters ==
  {<<F(N, <<"">>)>>, <<F(Id, <<>>), F(N, <<"0">>)>>, <<F(N, <<"0", "a">>), F(Id, <<"a">>)>>}

Joins ==
  {NoJoin,
   [given |-> TRUE, on |-> <<[key |-> N, col |-> <<"u", "n">>]>>],
   [given |-> TRUE, on |-> <<[key |-> N, col |-> <<"u", "n">>], [key |-> Id, col |-> <<>>]>>],
   [given |-> TRUE, on |-> <<[key |-> Id, col |-> <<>>]>>]}

MCReadCalls ==
  LET one == {"get", "getHigherThan"}
      two == {"getWhereEqualOrDifferent", "getWhereEqualAndHigher",
              "getMaxWhereEqualAndLower", "getMinWhereEqualAndHigher"}
  IN  UNION {
    {[NoArgs EXCEPT !.fn = fn, !.f1 = f] : fn \in one, f \in Filters},
    {[NoArgs EXCEPT !.fn = fn, !.f1 = f, !.f2 = g] : fn \in two, f \in Filters, g \in SecondFilters},
    {[NoArgs EXCEPT !.fn = "getMaxWhereEqual", !.f1 = f, !.order = o] : f \in Filters, o \in BOOLEAN},
    {[NoArgs EXCEPT !.fn = "getJoin", !.f1 = f, !.join = j] : f \in SecondFilters, j \in Joins},
    {[NoArgs EXCEPT !.fn = "getMaxWhereEqualAndLowerJoin", !.f1 = f, !.f2 = <<F(N, <<"a">>)>>, !.join = j] :
       f \in SecondFilters, j \in Joins},
    {[NoArgs EXCEPT !.fn = "getAll"]},
    {[NoArgs EXCEPT !.fn = "getCount", !.value = v] : v \in MCTexts \union {Null}},
    {[NoArgs EXCEPT !.fn = "match", !.search = s, !.value = v] :
       s \in {<<>>, <<N>>, <<Id, N>>}, v \in MCTexts}}

MCWriteCalls ==
  UNION {
    {[NoArgs EXCEPT !.fn = "insert", !.values = Assign(<<"id">>, <<"a">>)]},
    {[NoArgs EXCEPT !.fn = "insert", !.values = Assign(<<"n", "id">>, <<n, i>>)] :
       n \in {"0", "a"}, i \in {"0", "a"}},
    {[NoArgs EXCEPT !.fn = "insert", !.table = "u", !.values = Assign(<<"id", "n">>, <<"0", n>>)] : n \in {"0", "a"}},
    {[NoArgs EXCEPT !.fn = "update", !.values = v, !.cond1 = c] :
       v \in {Assign(<<>>, <<>>), Assign(<<"n">>, <<"A">>), Assign(<<"n", "id">>, <<"0", "0">>)},
       c \in {Cond(Id, "a"), Cond(N, "a"), Cond(N, "0")}},
    {[NoArgs EXCEPT !.fn = "updateAnd", !.values = Assign(<<"n">>, <<"0">>), !.cond2 = c] :
       c \in {Cond(N, "a"), Cond(N, "A")}},
    {[NoArgs EXCEPT !.fn = fn, !.cond1 = c] :
       fn \in {"deleteEqual", "deleteLowerThan"}, c \in {Cond(Id, "a"), Cond(N, "0"), Cond(N, "")}},
    {[NoArgs EXCEPT !.fn = "deleteEqualAnd", !.cond2 = Cond(N, v)] : v \in {"0", "a"}},
    {[NoArgs EXCEPT !.fn = "deleteWhere", !.conds = c] :
       c \in {<<>>, <<Where(N, "", "0")>>, <<Where(N, ">", "0"), Where(Id, "=", "a")>>,
             <<Where(N, ">=", "0"), Where(N, "<=", "A"), Where(Id, "!=", "a")>>}}}
=============================================================================
