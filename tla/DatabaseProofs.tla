--------------------------- MODULE DatabaseProofs ---------------------------
(***************************************************************************)
(* Proofs about Database, for any tables, rows, calls and servers.         *)
(*                                                                         *)
(* The start: a server is ready when every table is done, and StartInv     *)
(* says what each server knows about each table on the way there.  No two  *)
(* starts have the same number, so the start that created a table is the   *)
(* only one that fills it.                                                 *)
(*                                                                         *)
(* The calls: the loops that write a statement are followed turn by turn.  *)
(* After k turns the clause has one condition for each of the first k keys *)
(* that is not left out, every placeholder in it is the number of a value  *)
(* that was sent, and a candidate meets it when it meets the k filters (the *)
(* set of turns where this fails has no least element).  Linking two       *)
(* conditions and a join gives the meaning of a whole clause, each method's *)
(* statement the meaning of its call, and the engine's step the answer.    *)
(* AnswersInv says that the answers held are those of the call last made,  *)
(* on the rows before it, by one of two backends: IdentityServerDb sends   *)
(* what Database sends.                                                    *)
(***************************************************************************)
EXTENDS Database, FiniteSetTheorems, SequenceTheorems, WellFoundedInduction, TLAPS

(***************************************************************************)
(* The start of the servers                                                *)
(***************************************************************************)
Insts == {"down", "loading", "creating", "ready", "failed", "lost"}
Places == {"idle", "exists", "create", "index", "insert", "done", "rejected"}
AnyRow == UNION {InitRows[t] : t \in Schemas}

StartType ==
  /\ scenario \in Scenarios
  /\ inst \in [Starters -> Insts]
  /\ run \in [Starters -> Nat]
  /\ step \in [Starters -> [Schemas -> Places]]
  /\ todo \in [Starters -> [Schemas -> SUBSET AnyRow]]
  /\ made \in [Schemas -> Nat]
  /\ initial \in [Schemas -> SUBSET AnyRow]
  /\ starts \in Nat

\* Every start has a number of its own.
Numbered ==
  /\ \A s \in Starters : run[s] <= starts /\ (inst[s] # "down" => run[s] # 0)
  /\ \A s, u \in Starters : run[s] = run[u] /\ run[s] # 0 => s = u
  /\ \A t \in Schemas : made[t] <= starts /\ (made[t] = 0 => initial[t] = {})

\* What server s may rely on for table t.
Knows(s, t) ==
  /\ inst[s] \in {"down", "loading"} => step[s][t] = "idle"
  /\ inst[s] = "ready" => step[s][t] = "done"
  /\ step[s][t] \in {"idle", "exists", "create", "index", "done"} => todo[s][t] = {}
  /\ todo[s][t] # {} => made[t] = run[s]
  /\ inst[s] # "down" /\ step[s][t] \in {"idle", "exists", "create"} => made[t] # run[s]
  /\ step[s][t] = "index" => made[t] = run[s] /\ initial[t] = {}
  /\ step[s][t] = "insert" => made[t] = run[s] /\ initial[t] \union todo[s][t] = InitRows[t]
  /\ step[s][t] = "done" => made[t] # 0 /\ (made[t] = run[s] => initial[t] = InitRows[t])

StartInv == StartType /\ Numbered /\ \A s \in Starters, t \in Schemas : Knows(s, t)

LEMMA StartInitially == StartInit => StartInv
  BY DEF StartInit, StartInv, StartType, Numbered, Knows, Insts, Places

LEMMA StartKeeps ==
  ASSUME StartInv, NEW s \in Starters, Start(s)
  PROVE  StartInv'
  BY DEF StartInv, StartType, Numbered, Knows, Insts, Start

LEMMA LoadKeeps ==
  ASSUME StartInv, NEW s \in Starters, Load(s)
  PROVE  StartInv'
  <1>1. Began(s) \/ Stayed(s, "failed") \/ Stayed(s, "lost")
    <2>1. scenario.backend \in {"dbPg", "idPg", "dbSqlite", "idSqlite"}
      BY DEF StartInv, StartType, Scenarios, PgBackends, SqliteBackends
    <2> QED BY <2>1 DEF Load, PgCreateDatabases, IdPgCreateDatabases, SqliteCreateDatabases, IdSqliteCreateDatabases
  <1>2. CASE Began(s)
    BY <1>2 DEF StartInv, StartType, Numbered, Knows, Insts, Places, Load, Began
  <1>3. CASE Stayed(s, "failed")
    BY <1>3 DEF StartInv, StartType, Numbered, Knows, Insts, Places, Load, Stayed
  <1>4. CASE Stayed(s, "lost")
    BY <1>4 DEF StartInv, StartType, Numbered, Knows, Insts, Places, Load, Stayed
  <1> QED BY <1>1, <1>2, <1>3, <1>4

\* Only the place of server s with table t changes.
LEMMA GotoMoves ==
  ASSUME StartInv, NEW s \in Starters, NEW t \in Schemas, NEW where \in Places, Goto(s, t, where)
  PROVE  /\ step' \in [Starters -> [Schemas -> Places]] /\ step'[s][t] = where
         /\ \A u \in Starters, x \in Schemas : u # s \/ x # t => step'[u][x] = step[u][x]
  BY DEF StartInv, StartType, Goto

LEMMA LookKeeps ==
  ASSUME StartInv, NEW s \in Starters, NEW t \in Schemas, NEW where \in {"done", "create", "rejected"},
         step[s][t] \in {"exists", "create"}, Goto(s, t, where), where = "done" => made[t] # 0,
         UNCHANGED <<scenario, inst, run, todo, made, initial, starts>>
  PROVE  StartInv'
  <1>1. where \in Places
    BY DEF Places
  <1>2. /\ step' \in [Starters -> [Schemas -> Places]] /\ step'[s][t] = where
        /\ \A u \in Starters, x \in Schemas : u # s \/ x # t => step'[u][x] = step[u][x]
    BY <1>1, GotoMoves
  <1> QED BY <1>2 DEF StartInv, StartType, Numbered, Knows, Insts

LEMMA ExistsKeeps ==
  ASSUME StartInv, NEW s \in Starters, NEW t \in Schemas, Exists(s, t) \/ ExistsFails(s, t)
  PROVE  StartInv'
  <1>1. CASE Exists(s, t)
    BY <1>1, LookKeeps DEF Exists
  <1>2. CASE ExistsFails(s, t)
    <2>1. scenario.backend \in {"dbPg", "idPg", "dbSqlite", "idSqlite"}
      BY DEF StartInv, StartType, Scenarios, PgBackends, SqliteBackends
    <2>2. Goto(s, t, "create") \/ Goto(s, t, "rejected")
      BY <1>2, <2>1 DEF ExistsFails, PgExistsFailed, IdPgExistsFailed, SqliteExistsFailed, IdSqliteExistsFailed
    <2> QED BY <1>2, <2>2, LookKeeps DEF ExistsFails
  <1> QED BY <1>1, <1>2

LEMMA CreateTableKeeps ==
  ASSUME StartInv, NEW s \in Starters, NEW t \in Schemas, CreateTable(s, t) \/ CreateTableFails(s, t)
  PROVE  StartInv'
  <1>1. CASE Goto(s, t, "rejected") /\ UNCHANGED made
    BY <1>1, LookKeeps DEF CreateTable, CreateTableFails
  <1>2. CASE ~ (Goto(s, t, "rejected") /\ UNCHANGED made)
    <2>1. made[t] = 0 /\ Goto(s, t, "index") /\ made' = [made EXCEPT ![t] = run[s]] /\ step[s][t] = "create"
      BY <1>2 DEF CreateTable, CreateTableFails
    <2>2. UNCHANGED <<scenario, inst, run, todo, initial, starts>>
      BY <1>2 DEF CreateTable, CreateTableFails
    <2>3. "index" \in Places
      BY DEF Places
    <2>4. /\ step' \in [Starters -> [Schemas -> Places]] /\ step'[s][t] = "index"
          /\ \A u \in Starters, x \in Schemas : u # s \/ x # t => step'[u][x] = step[u][x]
      BY <2>1, <2>3, GotoMoves
    <2>5. /\ made' \in [Schemas -> Nat] /\ made'[t] = run[s] /\ \A x \in Schemas \ {t} : made'[x] = made[x]
      BY <2>1 DEF StartInv, StartType
    <2>6. StartType'
      BY <2>2, <2>4, <2>5 DEF StartInv, StartType
    <2>7. inst[s] # "down" /\ run[s] # 0
      BY <2>1 DEF StartInv, Knows, Numbered
    <2>8. Numbered'
      BY <2>2, <2>5, <2>7 DEF StartInv, StartType, Numbered
    <2>9. ASSUME NEW u \in Starters, NEW x \in Schemas
          PROVE  Knows(u, x)'
      <3>1. CASE x # t
        BY <2>2, <2>4, <2>5, <3>1 DEF StartInv, Knows
      <3>2. CASE x = t /\ u = s
        BY <2>1, <2>2, <2>4, <2>5, <2>7, <3>2 DEF StartInv, Knows, Numbered
      <3>3. CASE x = t /\ u # s
        <4>1. Knows(u, t) /\ step'[u][t] = step[u][t] /\ made'[t] = run[s] /\ run[u] # run[s]
          BY <2>4, <2>5, <2>7, <3>3 DEF StartInv, Numbered
        <4>2. step[u][t] # "done" /\ step[u][t] # "insert" /\ step[u][t] # "index" /\ todo[u][t] = {}
          BY <2>1, <4>1 DEF StartInv, Knows, Numbered
        <4> QED BY <2>2, <3>3, <4>1, <4>2 DEF Knows
      <3> QED BY <3>1, <3>2, <3>3
    <2> QED BY <2>6, <2>8, <2>9 DEF StartInv
  <1> QED BY <1>1, <1>2

LEMMA CreateIndexesKeeps ==
  ASSUME StartInv, NEW s \in Starters, NEW t \in Schemas, CreateIndexes(s, t)
  PROVE  StartInv'
  <1> DEFINE where == IF InitRows[t] = {} THEN "done" ELSE "insert"
  <1>1. where \in Places
    BY DEF Places
  <1>2. /\ step' \in [Starters -> [Schemas -> Places]] /\ step'[s][t] = where
        /\ \A u \in Starters, x \in Schemas : u # s \/ x # t => step'[u][x] = step[u][x]
    BY <1>1, GotoMoves DEF CreateIndexes
  <1>3. InitRows[t] \subseteq AnyRow
    BY DEF AnyRow
  <1>4. /\ todo' \in [Starters -> [Schemas -> SUBSET AnyRow]] /\ todo'[s][t] = InitRows[t]
        /\ \A u \in Starters, x \in Schemas : u # s \/ x # t => todo'[u][x] = todo[u][x]
    BY <1>3 DEF CreateIndexes, StartInv, StartType
  <1>5. step[s][t] = "index" /\ UNCHANGED <<scenario, inst, run, made, initial, starts>>
    BY DEF CreateIndexes
  <1>6. StartType' /\ Numbered'
    BY <1>2, <1>4, <1>5 DEF StartInv, StartType, Numbered
  <1>7. inst[s] # "down" /\ made[t] = run[s] /\ run[s] # 0
    BY <1>5 DEF StartInv, Knows, Numbered
  <1>8. ASSUME NEW u \in Starters, NEW x \in Schemas
        PROVE  Knows(u, x)'
    <2>1. CASE u # s \/ x # t
      BY <1>2, <1>4, <1>5, <2>1 DEF StartInv, Knows
    <2>2. CASE u = s /\ x = t
      <3>1. Knows(s, t)
        BY DEF StartInv
      <3>2. inst[s] \notin {"down", "loading", "ready"} /\ initial[t] = {}
        BY <1>5, <3>1 DEF Knows
      <3>3. CASE InitRows[t] = {}
        BY <1>2, <1>4, <1>5, <1>7, <2>2, <3>2, <3>3 DEF Knows
      <3>4. CASE InitRows[t] # {}
        BY <1>2, <1>4, <1>5, <1>7, <2>2, <3>2, <3>4 DEF Knows
      <3> QED BY <3>3, <3>4
    <2> QED BY <2>1, <2>2
  <1> QED BY <1>6, <1>8 DEF StartInv

LEMMA InsertRowKeeps ==
  ASSUME StartInv, NEW s \in Starters, NEW t \in Schemas, NEW r \in InitRows[t],
         InsertRow(s, t, r) \/ InsertRowFails(s, t, r)
  PROVE  StartInv'
  <1> DEFINE moved == IF r \in initial[t] THEN "rejected"
                      ELSE IF step[s][t] = "insert" /\ todo[s][t] = {r} THEN "done" ELSE step[s][t]
  <1>0. r \in todo[s][t] /\ r \in AnyRow
    BY DEF InsertRow, InsertRowFails, AnyRow
  <1>1. PICK where \in Places :
          Goto(s, t, where) /\ (where = "rejected" \/ (InsertRow(s, t, r) /\ where = moved))
    <2>1. moved \in Places
      BY DEF Places, StartInv, StartType
    <2> HIDE DEF moved
    <2>2. "rejected" \in Places
      BY DEF Places
    <2>3. CASE InsertRow(s, t, r)
      <3>1. Goto(s, t, moved)
        BY <2>3 DEF InsertRow, moved
      <3> QED BY <2>1, <2>3, <3>1
    <2>4. CASE InsertRowFails(s, t, r)
      <3>1. Goto(s, t, "rejected")
        BY <2>4 DEF InsertRowFails
      <3> WITNESS "rejected" \in Places
      <3> QED BY <3>1
    <2> QED BY <2>3, <2>4
  <1>2. /\ step' \in [Starters -> [Schemas -> Places]] /\ step'[s][t] = where
        /\ \A u \in Starters, x \in Schemas : u # s \/ x # t => step'[u][x] = step[u][x]
    BY <1>1, GotoMoves
  <1>3. /\ todo' \in [Starters -> [Schemas -> SUBSET AnyRow]] /\ todo'[s][t] = todo[s][t] \ {r}
        /\ \A u \in Starters, x \in Schemas : u # s \/ x # t => todo'[u][x] = todo[u][x]
    <2>1. todo' = [todo EXCEPT ![s][t] = todo[s][t] \ {r}]
      BY DEF InsertRow, InsertRowFails
    <2>2. todo \in [Starters -> [Schemas -> SUBSET AnyRow]] /\ todo[s][t] \ {r} \in SUBSET AnyRow
      BY DEF StartInv, StartType
    <2> QED BY <2>1, <2>2
  <1>4. /\ initial' \in [Schemas -> SUBSET AnyRow]
        /\ initial'[t] = initial[t] \/ initial'[t] = initial[t] \union {r}
        /\ InsertRow(s, t, r) => initial'[t] = initial[t] \union {r}
        /\ \A x \in Schemas \ {t} : initial'[x] = initial[x]
    BY <1>0 DEF InsertRow, InsertRowFails, StartInv, StartType
  <1>5. UNCHANGED <<scenario, inst, run, made, starts>>
    BY DEF InsertRow, InsertRowFails
  <1>6. inst[s] # "down" /\ made[t] = run[s] /\ run[s] # 0 /\ step[s][t] \in {"insert", "rejected"}
    BY <1>0 DEF StartInv, StartType, Knows, Numbered, Places
  <1>7. StartType' /\ Numbered'
    BY <1>2, <1>3, <1>4, <1>5, <1>6 DEF StartInv, StartType, Numbered
  <1>8. ASSUME NEW u \in Starters, NEW x \in Schemas
        PROVE  Knows(u, x)'
    <2>1. CASE x # t
      BY <1>2, <1>3, <1>4, <1>5, <2>1 DEF StartInv, Knows
    <2>2. CASE x = t /\ u # s
      <3>1. Knows(u, t) /\ step'[u][t] = step[u][t] /\ todo'[u][t] = todo[u][t] /\ run[u] # run[s]
        BY <1>2, <1>3, <1>6, <2>2 DEF StartInv, Numbered
      <3> QED BY <1>5, <1>6, <2>2, <3>1 DEF Knows
    <2>3. CASE x = t /\ u = s
      <3>1. Knows(s, t)
        BY DEF StartInv
      <3>2. where \in {"rejected", "insert", "done"}
        BY <1>1, <1>6
      <3>3. where = "insert" => initial'[t] \union todo'[s][t] = InitRows[t]
        BY <1>0, <1>1, <1>3, <1>4, <1>6, <3>1 DEF Knows
      <3>4. where = "done" => initial'[t] = InitRows[t] /\ todo'[s][t] = {}
        BY <1>0, <1>1, <1>3, <1>4, <1>6, <3>1 DEF Knows
      <3>5. inst[s] # "loading" /\ inst[s] # "ready"
        BY <1>6, <3>1 DEF Knows
      <3> QED BY <1>2, <1>5, <1>6, <2>3, <3>2, <3>3, <3>4, <3>5 DEF Knows
    <2> QED BY <2>1, <2>2, <2>3
  <1> QED BY <1>7, <1>8 DEF StartInv

LEMMA SettledKeeps ==
  ASSUME StartInv, NEW s \in Starters, Settled(s)
  PROVE  StartInv'
  <1>1. /\ inst' \in [Starters -> Insts] /\ \A u \in Starters \ {s} : inst'[u] = inst[u]
        /\ inst[s] = "creating" /\ inst'[s] \in {"ready", "failed"}
        /\ inst'[s] = "ready" => \A t \in Schemas : step[s][t] = "done"
    BY DEF StartInv, StartType, Insts, Settled
  <1>2. UNCHANGED <<scenario, run, step, todo, made, initial, starts>>
    BY DEF Settled
  <1>3. StartType' /\ Numbered'
    BY <1>1, <1>2 DEF StartInv, StartType, Numbered
  <1>4. ASSUME NEW u \in Starters, NEW x \in Schemas
        PROVE  Knows(u, x)'
    <2>1. CASE u = s
      BY <1>1, <1>2, <2>1 DEF StartInv, Knows
    <2>2. CASE u # s
      BY <1>1, <1>2, <2>2 DEF StartInv, Knows
    <2> QED BY <2>1, <2>2
  <1> QED BY <1>3, <1>4 DEF StartInv

LEMMA StopKeeps ==
  ASSUME StartInv, NEW s \in Starters, Stop(s)
  PROVE  StartInv'
  <1>1. /\ inst \in [Starters -> Insts] /\ step \in [Starters -> [Schemas -> Places]]
        /\ todo \in [Starters -> [Schemas -> SUBSET AnyRow]]
    BY DEF StartInv, StartType
  <1>2. /\ inst' \in [Starters -> Insts] /\ inst'[s] = "down"
        /\ \A u \in Starters \ {s} : inst'[u] = inst[u]
    BY <1>1 DEF Stop, Insts
  <1>3. /\ step' \in [Starters -> [Schemas -> Places]] /\ \A t \in Schemas : step'[s][t] = "idle"
        /\ \A u \in Starters \ {s} : step'[u] = step[u]
    BY <1>1 DEF Stop, Places
  <1>4. /\ todo' \in [Starters -> [Schemas -> SUBSET AnyRow]] /\ \A t \in Schemas : todo'[s][t] = {}
        /\ \A u \in Starters \ {s} : todo'[u] = todo[u]
    BY <1>1 DEF Stop
  <1>5. UNCHANGED <<scenario, run, made, initial, starts>>
    BY DEF Stop
  <1>6. StartType' /\ Numbered'
    BY <1>2, <1>3, <1>4, <1>5 DEF StartInv, StartType, Numbered
  <1>7. ASSUME NEW u \in Starters, NEW x \in Schemas
        PROVE  Knows(u, x)'
    <2>1. CASE u = s
      BY <1>2, <1>3, <1>4, <1>5, <2>1 DEF Knows
    <2>2. CASE u # s
      BY <1>2, <1>3, <1>4, <1>5, <2>2 DEF StartInv, Knows
    <2> QED BY <2>1, <2>2
  <1> QED BY <1>6, <1>7 DEF StartInv

LEMMA StartNextKeeps ==
  ASSUME StartInv, [StartNext]_startVars
  PROVE  StartInv'
  <1>1. CASE UNCHANGED startVars
    BY <1>1 DEF startVars, StartInv, StartType, Numbered, Knows
  <1>2. CASE StartNext
    <2>1. PICK s \in Starters : Start(s) \/ Load(s) \/ TableStep(s) \/ TableFault(s) \/ Settled(s) \/ Stop(s)
      BY <1>2 DEF StartNext
    <2> QED BY <2>1, StartKeeps, LoadKeeps, ExistsKeeps, CreateTableKeeps, CreateIndexesKeeps, InsertRowKeeps,
               SettledKeeps, StopKeeps DEF TableStep, TableFault
  <1> QED BY <1>1, <1>2

\* Spec => []ReadyMeansComplete (_createTables.ts:21): however many servers start on one
\* database, stop and fail in the middle, one that is ready has every table it needs, and the
\* tables it created itself hold every row they are created with.
THEOREM ReadyIsComplete == Spec => []ReadyMeansComplete
  <1>1. Init => StartInv
    BY StartInitially DEF Init
  <1>2. StartInv /\ [Next]_vars => StartInv'
    BY StartNextKeeps DEF Next, CallNext, vars
  <1>3. StartInv => ReadyMeansComplete
    BY DEF StartInv, Knows, ReadyMeansComplete
  <1> QED BY <1>1, <1>2, <1>3, PTL DEF Spec

(***************************************************************************)
(* Loops.  Induction is over a set of numbers, and a loop is a function of *)
(* the turn and of what was there before it.                               *)
(***************************************************************************)
LEMMA SmallestNumber ==
  ASSUME NEW T, T \subseteq Nat, T # {}
  PROVE  \E x \in T : \A y \in T : x <= y
  <1> DEFINE R == OpToRel(<, Nat)
  <1>1. IsWellFoundedOn(R, Nat)
    BY NatLessThanWellFounded
  <1>2. \A x, y \in Nat : y < x => <<y, x>> \in R
    BY DEF OpToRel
  <1> HIDE DEF R
  <1>3. PICK x \in T : \A y \in T : ~ (<<y, x>> \in R)
    BY <1>1, WFMin
  <1>4. \A y \in T : ~ (y < x) /\ y \in Nat /\ x \in Nat
    BY <1>2, <1>3
  <1> QED BY <1>3, <1>4

LEMMA Induction ==
  ASSUME NEW n \in Nat, NEW P, 0 \in P, \A k \in 1..n : k - 1 \in P => k \in P
  PROVE  0..n \subseteq P
  <1> DEFINE T == {k \in 0..n : k \notin P}
  <1>1. SUFFICES ASSUME T # {} PROVE FALSE
    OBVIOUS
  <1>2. PICK k \in T : \A y \in T : k <= y
    <2>1. T \subseteq Nat
      OBVIOUS
    <2> HIDE DEF T
    <2> QED BY <1>1, <2>1, SmallestNumber
  <1>3. k \in 1..n /\ k - 1 \in 0..n /\ k - 1 \notin T
    BY <1>2
  <1> QED BY <1>2, <1>3

\* The values of f are those of a loop that starts with a and has n turns, turn k being G[k].
IsLoop(f, n, a, G) == f[0] = a /\ \A k \in 1..n : f[k] = G[k][f[k - 1]]

LEMMA LoopExists ==
  ASSUME NEW n \in Nat, NEW S, NEW a \in S, NEW G \in [1..n -> [S -> S]]
  PROVE  \E f \in [0..n -> S] : IsLoop(f, n, a, G)
  <1> DEFINE Good(m, f) == f[0] = a /\ \A k \in 1..m : f[k] = G[k][f[k - 1]]
             P == {m \in 0..n : \E f \in [0..m -> S] : Good(m, f)}
  <1>1. 0 \in P
    <2> DEFINE f == [k \in 0..0 |-> a]
    <2>1. f \in [0..0 -> S] /\ Good(0, f)
      OBVIOUS
    <2>2. \E h \in [0..0 -> S] : Good(0, h)
      <3> HIDE DEF f, Good
      <3> QED BY <2>1
    <2> QED BY <2>2
  <1>2. ASSUME NEW k \in 1..n, k - 1 \in P
        PROVE  k \in P
    <2>1. PICK f \in [0..(k - 1) -> S] : Good(k - 1, f)
      BY <1>2
    <2> DEFINE g == [m \in 0..k |-> IF m = k THEN G[k][f[k - 1]] ELSE f[m]]
    <2>2. g \in [0..k -> S]
      OBVIOUS
    <2>3. \A m \in 0..(k - 1) : g[m] = f[m]
      OBVIOUS
    <2>4. Good(k, g)
      <3>1. g[0] = a
        BY <2>1, <2>3
      <3>2. ASSUME NEW m \in 1..k
            PROVE  g[m] = G[m][g[m - 1]]
        <4>1. CASE m = k
          BY <2>3, <4>1
        <4>2. CASE m # k
          BY <2>1, <2>3, <4>2
        <4> QED BY <4>1, <4>2
      <3> QED BY <3>1, <3>2
    <2>5. \E h \in [0..k -> S] : Good(k, h)
      <3> HIDE DEF g, Good
      <3> QED BY <2>2, <2>4
    <2>6. k \in 0..n
      OBVIOUS
    <2> HIDE DEF Good, g
    <2> QED BY <2>5, <2>6
  <1>3. n \in P
    <2> HIDE DEF P
    <2>1. 0..n \subseteq P
      BY <1>1, <1>2, Induction
    <2> QED BY <2>1
  <1> QED BY <1>3 DEF IsLoop

(***************************************************************************)
(* What buildCondition writes                                              *)
(***************************************************************************)
AnyOp == SqlComparaisonOperator \union {"LIKE"}
Comparison == [key : Key, op : AnyOp, ph : Nat, col : Key]
Piece == [link : {"WHERE", "AND", "OR"}, group : Seq(Comparison)]
AndPiece == [link : {"AND"}, group : Seq(Comparison)]
Written == [clause : Seq(AndPiece), vals : Seq(Texts)]

LEMMA KeyConditionType ==
  ASSUME NEW op \in AnyOp, NEW f \in Filter, NEW index \in Nat
  PROVE  /\ KeyCondition(op, f, index) \in AndPiece
         /\ DOMAIN KeyCondition(op, f, index).group = DOMAIN f.vals
         /\ \A j \in DOMAIN f.vals : KeyCondition(op, f, index).group[j] = Atom(f.key, op, index + j)
  <1> DEFINE g == [j \in DOMAIN f.vals |-> Atom(f.key, op, index + j)]
  <1>1. f.vals \in Seq(Texts) /\ f.key \in Key
    BY DEF Filter
  <1>2. DOMAIN f.vals = 1..Len(f.vals) /\ Len(f.vals) \in Nat
    BY <1>1
  <1>3. \A j \in 1..Len(f.vals) : Atom(f.key, op, index + j) \in Comparison
    BY <1>1, <1>2 DEF Atom, Comparison
  <1>4. g \in Seq(Comparison)
    BY <1>2, <1>3
  <1> HIDE DEF g
  <1>5. KeyCondition(op, f, index) = [link |-> "AND", group |-> g]
    BY DEF KeyCondition, g
  <1> QED BY <1>4, <1>5 DEF AndPiece, g

LEMMA WithKeyType ==
  ASSUME NEW op \in AnyOp, NEW f \in Filter, NEW index \in Nat, NEW w \in Written
  PROVE  WithKey(op, f, index, w) \in Written
  <1>1. w.clause \in Seq(AndPiece) /\ w.vals \in Seq(Texts) /\ f.vals \in Seq(Texts)
    BY DEF Written, Filter
  <1>2. KeyCondition(op, f, index + Len(w.vals)) \in AndPiece
    BY <1>1, KeyConditionType
  <1>3. Append(w.clause, KeyCondition(op, f, index + Len(w.vals))) \in Seq(AndPiece)
    BY <1>1, <1>2
  <1>4. w.vals \o f.vals \in Seq(Texts)
    BY <1>1
  <1> QED BY <1>3, <1>4 DEF WithKey, Written

\* The loop is what it says: a function with these values.
LEMMA KeyLoopIs ==
  ASSUME NEW op \in AnyOp, NEW ff \in Seq(Filter), NEW index \in Nat
  PROVE  /\ KeyLoop(op, ff, index)[0] = NoCondition
         /\ \A k \in 1..Len(ff) :
              KeyLoop(op, ff, index)[k] = WithKey(op, ff[k], index, KeyLoop(op, ff, index)[k - 1])
  <1> DEFINE n == Len(ff)
             Body(w) == [k \in 0..n |-> IF k = 0 THEN NoCondition ELSE WithKey(op, ff[k], index, w[k - 1])]
             G == [k \in 1..n |-> [b \in Written |-> WithKey(op, ff[k], index, b)]]
  <1>1. n \in Nat /\ \A k \in 1..n : ff[k] \in Filter
    OBVIOUS
  <1>2. NoCondition \in Written
    BY DEF NoCondition, Written
  <1>3. G \in [1..n -> [Written -> Written]]
    BY <1>1, WithKeyType
  <1>4. PICK f \in [0..n -> Written] : IsLoop(f, n, NoCondition, G)
    <2>1. n \in Nat
      OBVIOUS
    <2> HIDE DEF G, n
    <2> QED BY <1>2, <1>3, <2>1, LoopExists
  <1>5. \A k \in 1..n : f[k] = WithKey(op, ff[k], index, f[k - 1])
    BY <1>1, <1>4 DEF IsLoop
  <1>6. f = Body(f)
    BY <1>1, <1>4, <1>5 DEF IsLoop
  <1>7. KeyLoop(op, ff, index) = CHOOSE w : w = Body(w)
    BY DEF KeyLoop
  <1>8. KeyLoop(op, ff, index) = Body(KeyLoop(op, ff, index))
    <2> HIDE DEF Body
    <2> QED BY <1>6, <1>7
  <1>9. \A k \in 0..n : KeyLoop(op, ff, index)[k] =
           IF k = 0 THEN NoCondition ELSE WithKey(op, ff[k], index, KeyLoop(op, ff, index)[k - 1])
    BY <1>8
  <1> QED BY <1>1, <1>9

LEMMA KeyLoopType ==
  ASSUME NEW op \in AnyOp, NEW ff \in Seq(Filter), NEW index \in Nat
  PROVE  \A k \in 0..Len(ff) : KeyLoop(op, ff, index)[k] \in Written
  <1> DEFINE n == Len(ff)
             w == KeyLoop(op, ff, index)
             P == {k \in 0..n : w[k] \in Written}
  <1>1. n \in Nat /\ \A k \in 1..n : ff[k] \in Filter
    OBVIOUS
  <1>2. w[0] = NoCondition /\ \A k \in 1..n : w[k] = WithKey(op, ff[k], index, w[k - 1])
    BY KeyLoopIs
  <1> HIDE DEF w, n
  <1>3. 0 \in P
    <2>1. NoCondition \in Written
      BY DEF NoCondition, Written
    <2>2. 0 \in 0..n
      BY <1>1
    <2> QED BY <1>2, <2>1, <2>2
  <1>4. ASSUME NEW k \in 1..n, k - 1 \in P PROVE k \in P
    <2>1. w[k - 1] \in Written /\ ff[k] \in Filter /\ k \in 0..n
      BY <1>1, <1>4
    <2>2. WithKey(op, ff[k], index, w[k - 1]) \in Written
      BY <2>1, WithKeyType
    <2> QED BY <1>2, <2>1, <2>2
  <1>5. 0..n \subseteq P
    <2> HIDE DEF P
    <2> QED BY <1>1, <1>3, <1>4, Induction
  <1> QED BY <1>5 DEF w, n

(***************************************************************************)
(* What a clause means                                                     *)
(***************************************************************************)
Engines == {"pg", "sqlite"}
\* The operators that both engines understand in the same way.
PlainOps == SqlComparaisonOperator

\* Every condition of w holds of the candidate.
AllHold(e, w, V, cand) == \A k \in DOMAIN w : GroupHolds(e, w[k].group, V, cand)

\* The values stand in V behind the first index.
Carried(V, index, vals) == \A i \in 1..Len(vals) : V[index + i] = vals[i]

LEMMA CarriedConcat ==
  ASSUME NEW V, NEW index \in Nat, NEW a \in Seq(Texts), NEW b \in Seq(Texts), Carried(V, index, a \o b)
  PROVE  Carried(V, index, a) /\ Carried(V, index + Len(a), b)
  <1>1. /\ Len(a \o b) = Len(a) + Len(b)
        /\ \A i \in 1..Len(a) : (a \o b)[i] = a[i]
        /\ \A i \in 1..Len(b) : (a \o b)[Len(a) + i] = b[i]
    OBVIOUS
  <1>2. Len(a) \in Nat /\ Len(b) \in Nat
    OBVIOUS
  <1>3. ASSUME NEW i \in 1..Len(a) PROVE V[index + i] = a[i]
    <2>1. i \in 1..Len(a \o b)
      BY <1>1, <1>2
    <2> QED BY <1>1, <2>1 DEF Carried
  <1>4. ASSUME NEW i \in 1..Len(b) PROVE V[index + Len(a) + i] = b[i]
    <2>1. Len(a) + i \in 1..Len(a \o b) /\ index + (Len(a) + i) = index + Len(a) + i
      BY <1>1, <1>2
    <2>2. V[index + (Len(a) + i)] = (a \o b)[Len(a) + i]
      BY <2>1 DEF Carried
    <2> QED BY <1>1, <2>1, <2>2
  <1> QED BY <1>3, <1>4 DEF Carried

LEMMA AllHoldAppend ==
  ASSUME NEW e, NEW V, NEW cand, NEW S, NEW w \in Seq(S), NEW p \in S
  PROVE  AllHold(e, Append(w, p), V, cand) <=> AllHold(e, w, V, cand) /\ GroupHolds(e, p.group, V, cand)
  <1>1. /\ DOMAIN Append(w, p) = 1..(Len(w) + 1) /\ DOMAIN w = 1..Len(w) /\ Len(w) \in Nat
        /\ Append(w, p)[Len(w) + 1] = p
        /\ \A k \in 1..Len(w) : Append(w, p)[k] = w[k]
    OBVIOUS
  <1>2. \A k : k \in DOMAIN Append(w, p) <=> k \in DOMAIN w \/ k = Len(w) + 1
    BY <1>1
  <1> QED BY <1>1, <1>2 DEF AllHold

LEMMA ComparesAlike ==
  ASSUME NEW e, NEW op \in PlainOps, NEW x, NEW y
  PROVE  Compares(e, op, x, y) = Compares("pg", op, x, y)
  BY DEF Compares, PlainOps, SqlComparaisonOperator

LEMMA KeyConditionMeans ==
  ASSUME NEW e, NEW op \in PlainOps, NEW f \in Filter, NEW index \in Nat, NEW V, NEW cand,
         Carried(V, index, f.vals)
  PROVE  GroupHolds(e, KeyCondition(op, f, index).group, V, cand)
           <=> \E j \in DOMAIN f.vals : Compares("pg", op, At(cand, f.key), f.vals[j])
  <1> DEFINE g == KeyCondition(op, f, index).group
  <1>1. op \in AnyOp
    BY DEF PlainOps, AnyOp
  <1>2. DOMAIN g = DOMAIN f.vals /\ \A j \in DOMAIN f.vals : g[j] = Atom(f.key, op, index + j)
    BY <1>1, KeyConditionType
  <1>3. DOMAIN f.vals = 1..Len(f.vals) /\ Len(f.vals) \in Nat
    BY DEF Filter
  <1> HIDE DEF g
  <1>4. ASSUME NEW j \in DOMAIN f.vals
        PROVE  AtomHolds(e, g[j], V, cand) <=> Compares("pg", op, At(cand, f.key), f.vals[j])
    <2>1. index + j # 0 /\ V[index + j] = f.vals[j]
      BY <1>3 DEF Carried
    <2>2. g[j].key = f.key /\ g[j].op = op /\ g[j].ph = index + j
      <3>1. g[j] = Atom(f.key, op, index + j)
        BY <1>2
      <3> QED BY <3>1 DEF Atom
    <2>3. AtomHolds(e, g[j], V, cand) = Compares(e, op, At(cand, f.key), f.vals[j])
      BY <2>1, <2>2 DEF AtomHolds, At
    <2> QED BY <2>3, ComparesAlike
  <1> QED BY <1>2, <1>4 DEF GroupHolds, g

LEMMA Fields ==
  ASSUME NEW c, NEW v, NEW r, r = [clause |-> c, vals |-> v]
  PROVE  r.clause = c /\ r.vals = v
  OBVIOUS

LEMMA LeftOutAsksNothing ==
  ASSUME NEW f
  PROVE  LeftOut(f) <=> ~ Asks(f)
  BY DEF LeftOut, Asks

\* A condition selects what its filters ask for, wherever its placeholders begin.
LEMMA BuiltMeans ==
  ASSUME NEW e, NEW op \in PlainOps, NEW ff \in Seq(Filter), NEW index \in Nat, NEW V, NEW cand
  PROVE  /\ buildCondition(op, ff, index) \in Written
         /\ buildCondition(op, ff, index).clause = <<>> <=> AsksNothing(ff)
         /\ Carried(V, index, buildCondition(op, ff, index).vals) =>
              (AllHold(e, buildCondition(op, ff, index).clause, V, cand) <=> Meets(op, ff, cand))
  <1> DEFINE n == Len(ff)
             w == KeyLoop(op, ff, index)
             Fine(k) == /\ w[k].clause = <<>> <=> \A m \in 1..k : ~ Asks(ff[m])
                        /\ Carried(V, index, w[k].vals) =>
                             (AllHold(e, w[k].clause, V, cand) <=> \A m \in 1..k : MeetsFilter(op, ff[m], cand))
             P == {k \in 0..n : Fine(k)}
  <1>0. op \in AnyOp
    BY DEF PlainOps, AnyOp
  <1>1. n \in Nat /\ DOMAIN ff = 1..n /\ \A k \in 1..n : ff[k] \in Filter
    OBVIOUS
  <1>2. w[0] = NoCondition /\ \A k \in 1..n : w[k] = WithKey(op, ff[k], index, w[k - 1])
    BY <1>0, KeyLoopIs
  <1>3. \A k \in 0..n : w[k] \in Written
    BY <1>0, KeyLoopType
  <1>4. buildCondition(op, ff, index) = w[n]
    BY DEF buildCondition
  <1> HIDE DEF w, n
  <1>5. Fine(0)
    BY <1>2 DEF NoCondition, AllHold
  <1>6. ASSUME NEW k \in 1..n, Fine(k - 1)
        PROVE  Fine(k)
    <2> DEFINE b == w[k - 1]
               f == ff[k]
               p == KeyCondition(op, f, index + Len(b.vals))
    <2>1. b \in Written /\ f \in Filter /\ k - 1 \in 0..n /\ k \in Nat
      BY <1>1, <1>3
    <2>2. b.clause \in Seq(AndPiece) /\ b.vals \in Seq(Texts) /\ f.vals \in Seq(Texts) /\ Len(b.vals) \in Nat
      BY <2>1 DEF Written, Filter
    <2>3. \A m : m \in 1..k <=> m \in 1..(k - 1) \/ m = k
      BY <2>1
    <2>4. w[k] = WithKey(op, f, index, b)
      BY <1>2
    <2>5. /\ b.clause = <<>> <=> \A m \in 1..(k - 1) : ~ Asks(ff[m])
          /\ Carried(V, index, b.vals) =>
               (AllHold(e, b.clause, V, cand) <=> \A m \in 1..(k - 1) : MeetsFilter(op, ff[m], cand))
      BY <1>6
    <2>6. CASE LeftOut(f)
      <3>1. w[k] = b /\ ~ Asks(f) /\ MeetsFilter(op, f, cand)
        BY <2>4, <2>6, LeftOutAsksNothing DEF WithKey, MeetsFilter
      <3> QED BY <2>3, <2>5, <3>1
    <2>7. CASE ~ LeftOut(f)
      <3>1. w[k].clause = Append(b.clause, p) /\ w[k].vals = b.vals \o f.vals /\ Asks(f)
        <4> HIDE DEF p, b, f
        <4> DEFINE c == Append(b.clause, p)
                   v == b.vals \o f.vals
        <4>1. w[k] = [clause |-> c, vals |-> v]
          BY <2>4, <2>7 DEF WithKey, p
        <4>2. Asks(f)
          BY <2>7, LeftOutAsksNothing
        <4>3. w[k].clause = c /\ w[k].vals = v
          <5> HIDE DEF c, v
          <5> QED BY <4>1, Fields
        <4> QED BY <4>2, <4>3
      <3>2. p \in AndPiece
        BY <1>0, <2>1, <2>2, KeyConditionType
      <3>3. w[k].clause # <<>>
        <4> HIDE DEF p, b, f
        <4>1. Len(Append(b.clause, p)) = Len(b.clause) + 1 /\ Len(b.clause) \in Nat
          BY <2>2, <3>2
        <4>2. Append(b.clause, p) # <<>>
          BY <4>1
        <4> QED BY <3>1, <4>2
      <3>4. ASSUME Carried(V, index, w[k].vals)
            PROVE  AllHold(e, w[k].clause, V, cand) <=> \A m \in 1..k : MeetsFilter(op, ff[m], cand)
        <4>1. Carried(V, index, b.vals) /\ Carried(V, index + Len(b.vals), f.vals)
          BY <2>2, <3>1, <3>4, CarriedConcat
        <4>2. GroupHolds(e, p.group, V, cand) <=> MeetsFilter(op, f, cand)
          <5>1. index + Len(b.vals) \in Nat
            BY <2>2
          <5> QED BY <2>1, <3>1, <4>1, <5>1, KeyConditionMeans DEF MeetsFilter
        <4> HIDE DEF p, b, f
        <4>3. AllHold(e, Append(b.clause, p), V, cand)
                <=> AllHold(e, b.clause, V, cand) /\ GroupHolds(e, p.group, V, cand)
          BY <2>2, <3>2, AllHoldAppend
        <4> QED BY <2>3, <2>5, <3>1, <4>1, <4>2, <4>3 DEF f
      <3>5. ~ \A m \in 1..k : ~ Asks(ff[m])
        BY <2>3, <3>1
      <3> QED BY <3>3, <3>4, <3>5
    <2> QED BY <2>6, <2>7
  <1>7. n \in P
    <2> HIDE DEF Fine
    <2>1. 0 \in P
      BY <1>1, <1>5
    <2>2. \A k \in 1..n : k - 1 \in P => k \in P
      BY <1>1, <1>6
    <2>3. 0..n \subseteq P
      <3> HIDE DEF P
      <3> QED BY <1>1, <2>1, <2>2, Induction
    <2> QED BY <1>1, <2>3
  <1>8. Fine(n) /\ w[n] \in Written
    BY <1>1, <1>3, <1>7
  <1> QED BY <1>1, <1>4, <1>8 DEF AsksNothing, Meets

(***************************************************************************)
(* The condition of a join                                                 *)
(***************************************************************************)
Pair == [key : Key, col : Key \union {<<>>}]
Join == [given : BOOLEAN, on : Seq(Pair)]

LEMMA WithPairType ==
  ASSUME NEW pair \in Pair, NEW w \in Seq(AndPiece)
  PROVE  WithPair(pair, w) \in Seq(AndPiece)
  <1>1. CASE pair.col = <<>>
    BY <1>1 DEF WithPair
  <1>2. CASE pair.col # <<>>
    <2> DEFINE a == ColumnAtom(pair.key, pair.col)
               p == [link |-> "AND", group |-> <<a>>]
    <2>1. a \in Comparison
      BY <1>2 DEF ColumnAtom, Comparison, Pair, AnyOp, SqlComparaisonOperator
    <2>2. p \in AndPiece
      <3> HIDE DEF a
      <3>1. <<a>> \in Seq(Comparison)
        BY <2>1
      <3> QED BY <3>1 DEF AndPiece
    <2>3. WithPair(pair, w) = Append(w, p)
      BY <1>2 DEF WithPair
    <2> HIDE DEF p
    <2> QED BY <2>2, <2>3
  <1> QED BY <1>1, <1>2

LEMMA JoinLoopIs ==
  ASSUME NEW join \in Join
  PROVE  /\ JoinLoop(join)[0] = <<>>
         /\ \A k \in 1..Len(join.on) : JoinLoop(join)[k] = WithPair(join.on[k], JoinLoop(join)[k - 1])
  <1> DEFINE on == join.on
             n == Len(on)
             S == Seq(AndPiece)
             Body(w) == [k \in 0..n |-> IF k = 0 THEN <<>> ELSE WithPair(on[k], w[k - 1])]
             G == [k \in 1..n |-> [b \in S |-> WithPair(on[k], b)]]
  <1>1. n \in Nat /\ \A k \in 1..n : on[k] \in Pair
    BY DEF Join
  <1>2. <<>> \in S
    OBVIOUS
  <1>3. G \in [1..n -> [S -> S]]
    BY <1>1, WithPairType
  <1>4. PICK f \in [0..n -> S] : IsLoop(f, n, <<>>, G)
    <2>1. n \in Nat
      BY <1>1
    <2> HIDE DEF G, n, S
    <2> QED BY <1>2, <1>3, <2>1, LoopExists
  <1>5. f[0] = <<>> /\ \A k \in 1..n : f[k] = WithPair(on[k], f[k - 1])
    <2>1. f[0] = <<>> /\ \A k \in 1..n : f[k] = G[k][f[k - 1]]
      BY <1>4 DEF IsLoop
    <2>2. ASSUME NEW k \in 1..n PROVE f[k - 1] \in S
      BY <1>1, <1>4
    <2>3. ASSUME NEW k \in 1..n, NEW b \in S PROVE G[k][b] = WithPair(on[k], b)
      OBVIOUS
    <2> HIDE DEF G, S, n, on
    <2> QED BY <2>1, <2>2, <2>3
  <1>6. f = Body(f)
    BY <1>1, <1>4, <1>5
  <1>7. JoinLoop(join) = CHOOSE w : w = Body(w)
    BY DEF JoinLoop
  <1>8. JoinLoop(join) = Body(JoinLoop(join))
    <2> HIDE DEF Body
    <2> QED BY <1>6, <1>7
  <1>9. \A k \in 0..n : JoinLoop(join)[k] = IF k = 0 THEN <<>> ELSE WithPair(on[k], JoinLoop(join)[k - 1])
    BY <1>8
  <1> QED BY <1>1, <1>9

\* The condition of a join selects the candidates that agree on every pair of columns.
LEMMA JoinMeans ==
  ASSUME NEW e, NEW join \in Join, NEW V, NEW cand
  PROVE  /\ JoinCondition(join) \in Seq(AndPiece)
         /\ AllHold(e, JoinCondition(join), V, cand) <=> MeetsJoin(join, cand)
  <1> DEFINE on == join.on
             n == Len(on)
             w == JoinLoop(join)
             Agrees(j) == j.col # <<>> => Compares("pg", "=", At(cand, j.key), At(cand, j.col))
             Fine(k) == /\ w[k] \in Seq(AndPiece)
                        /\ AllHold(e, w[k], V, cand) <=> \A m \in 1..k : Agrees(on[m])
             P == {k \in 0..n : Fine(k)}
  <1>1. n \in Nat /\ DOMAIN on = 1..n /\ \A k \in 1..n : on[k] \in Pair
    BY DEF Join
  <1>2. w[0] = <<>> /\ \A k \in 1..n : w[k] = WithPair(on[k], w[k - 1])
    BY JoinLoopIs
  <1>4. JoinCondition(join) = w[n]
    BY DEF JoinCondition
  <1>9. MeetsJoin(join, cand) <=> \A m \in DOMAIN on : Agrees(on[m])
    BY DEF MeetsJoin
  <1> HIDE DEF w, n, on
  <1>5. Fine(0)
    BY <1>2 DEF AllHold
  <1>6. ASSUME NEW k \in 1..n, Fine(k - 1)
        PROVE  Fine(k)
    <2> DEFINE b == w[k - 1]
               j == on[k]
               a == ColumnAtom(j.key, j.col)
               p == [link |-> "AND", group |-> <<a>>]
    <2>1. j \in Pair /\ k - 1 \in 0..n /\ k \in Nat
      BY <1>1
    <2>2. b \in Seq(AndPiece) /\ (AllHold(e, b, V, cand) <=> \A m \in 1..(k - 1) : Agrees(on[m]))
      BY <1>6
    <2>3. \A m : m \in 1..k <=> m \in 1..(k - 1) \/ m = k
      BY <2>1
    <2>4. w[k] = WithPair(j, b)
      BY <1>2
    <2>5. w[k] \in Seq(AndPiece)
      BY <2>1, <2>2, <2>4, WithPairType
    <2>6. CASE j.col = <<>>
      <3>1. w[k] = b /\ Agrees(j)
        BY <2>4, <2>6 DEF WithPair
      <3> HIDE DEF Agrees
      <3> QED BY <2>2, <2>3, <2>5, <3>1
    <2>7. CASE j.col # <<>>
      <3>1. w[k] = Append(b, p)
        BY <2>4, <2>7 DEF WithPair
      <3>2. p \in AndPiece /\ p.group = <<a>>
        <4>1. a \in Comparison
          BY <2>1, <2>7 DEF ColumnAtom, Comparison, Pair, AnyOp, SqlComparaisonOperator
        <4> HIDE DEF a
        <4>2. <<a>> \in Seq(Comparison)
          BY <4>1
        <4> QED BY <4>2 DEF AndPiece
      <3>3. AtomHolds(e, a, V, cand) <=> Compares("pg", "=", At(cand, j.key), At(cand, j.col))
        <4>1. a.key = j.key /\ a.op = "=" /\ a.ph = 0 /\ a.col = j.col
          BY DEF ColumnAtom
        <4> HIDE DEF a
        <4>2. AtomHolds(e, a, V, cand) = Compares(e, "=", At(cand, j.key), At(cand, j.col))
          BY <4>1 DEF AtomHolds, At
        <4>3. "=" \in PlainOps
          BY DEF PlainOps, SqlComparaisonOperator
        <4> QED BY <4>2, <4>3, ComparesAlike
      <3>4. GroupHolds(e, <<a>>, V, cand) <=> AtomHolds(e, a, V, cand)
        <4> HIDE DEF a
        <4> QED BY DEF GroupHolds
      <3> HIDE DEF p, a
      <3>5. AllHold(e, w[k], V, cand) <=> AllHold(e, b, V, cand) /\ GroupHolds(e, p.group, V, cand)
        BY <2>2, <3>1, <3>2, AllHoldAppend
      <3>6. GroupHolds(e, p.group, V, cand) <=> Agrees(j)
        BY <2>7, <3>2, <3>3, <3>4
      <3> HIDE DEF Agrees
      <3> QED BY <2>2, <2>3, <2>5, <3>5, <3>6
    <2> QED BY <2>6, <2>7
  <1>7. n \in P
    <2> HIDE DEF Fine
    <2>1. 0 \in P
      BY <1>1, <1>5
    <2>2. \A k \in 1..n : k - 1 \in P => k \in P
      BY <1>1, <1>6
    <2>3. 0..n \subseteq P
      <3> HIDE DEF P
      <3> QED BY <1>1, <2>1, <2>2, Induction
    <2> QED BY <1>1, <2>3
  <1>8. Fine(n)
    BY <1>7
  <1> QED BY <1>1, <1>4, <1>8, <1>9

(***************************************************************************)
(* Conditions one behind the other                                         *)
(***************************************************************************)
\* Every condition but the first is linked by AND.
AndLinked(w) == \A k \in 2..Len(w) : w[k].link = "AND"

LEMMA AndClauseMeans ==
  ASSUME NEW e, NEW V, NEW cand, NEW S, NEW w \in Seq(S), AndLinked(w)
  PROVE  ClauseHolds(e, w, V, cand) <=> AllHold(e, w, V, cand)
  <1>1. DOMAIN w = 1..Len(w) /\ Len(w) \in Nat
    OBVIOUS
  <1>2. CASE w = <<>>
    BY <1>2 DEF ClauseHolds, AllHold
  <1>3. CASE w # <<>>
    <2>1. 1 \in DOMAIN w
      BY <1>1, <1>3
    <2>2. \A i \in DOMAIN w : i = 1 \/ w[i].link = "OR" => i = 1
      BY <1>1 DEF AndLinked
    <2>3. ClauseHolds(e, w, V, cand) <=>
            \A k \in 1..Len(w) : (\A j \in (1 + 1)..k : w[j].link = "AND") => GroupHolds(e, w[k].group, V, cand)
      BY <1>3, <2>1, <2>2 DEF ClauseHolds
    <2>4. \A k \in 1..Len(w) : \A j \in (1 + 1)..k : w[j].link = "AND"
      BY <1>1 DEF AndLinked
    <2> QED BY <1>1, <2>3, <2>4 DEF AllHold
  <1> QED BY <1>2, <1>3

\* OR between the conditions of a and those of b separates them.
LEMMA OrClauseMeans ==
  ASSUME NEW e, NEW V, NEW cand, NEW S, NEW w \in Seq(S), NEW n \in 1..(Len(w) - 1),
         \A k \in 2..Len(w) : w[k].link = IF k = n + 1 THEN "OR" ELSE "AND"
  PROVE  ClauseHolds(e, w, V, cand) <=>
           \/ \A k \in 1..n : GroupHolds(e, w[k].group, V, cand)
           \/ \A k \in (n + 1)..Len(w) : GroupHolds(e, w[k].group, V, cand)
  <1> DEFINE Holds(k) == GroupHolds(e, w[k].group, V, cand)
             From(i) == \A k \in i..Len(w) : (\A j \in (i + 1)..k : w[j].link = "AND") => Holds(k)
  <1>1. DOMAIN w = 1..Len(w) /\ Len(w) \in Nat /\ 1 \in DOMAIN w /\ n + 1 \in DOMAIN w /\ w # <<>> /\ n \in Nat
    OBVIOUS
  <1>2. \A i \in DOMAIN w : i = 1 \/ w[i].link = "OR" <=> i = 1 \/ i = n + 1
    BY <1>1
  <1>3. ClauseHolds(e, w, V, cand) <=> From(1) \/ From(n + 1)
    <2>1. ClauseHolds(e, w, V, cand) <=> \E i \in DOMAIN w : (i = 1 \/ w[i].link = "OR") /\ From(i)
      BY <1>1 DEF ClauseHolds
    <2> HIDE DEF From
    <2> QED BY <1>1, <1>2, <2>1
  <1>4. From(1) <=> \A k \in 1..n : Holds(k)
    <2>1. ASSUME NEW k \in 1..Len(w)
          PROVE  (\A j \in (1 + 1)..k : w[j].link = "AND") <=> k \in 1..n
      <3>1. CASE k \in 1..n
        BY <1>1, <3>1
      <3>2. CASE k \notin 1..n
        <4>1. n + 1 \in (1 + 1)..k /\ w[n + 1].link = "OR"
          BY <1>1, <3>2
        <4> QED BY <3>2, <4>1
      <3> QED BY <3>1, <3>2
    <2>2. \A k \in 1..n : k \in 1..Len(w)
      BY <1>1
    <2> HIDE DEF Holds
    <2> QED BY <2>1, <2>2
  <1>5. From(n + 1) <=> \A k \in (n + 1)..Len(w) : Holds(k)
    <2>1. ASSUME NEW k \in (n + 1)..Len(w)
          PROVE  \A j \in (n + 1 + 1)..k : w[j].link = "AND"
      BY <1>1
    <2> HIDE DEF Holds
    <2> QED BY <2>1
  <1> QED BY <1>3, <1>4, <1>5

\* Conditions in the place they are given by LinkedTo.
IsLinked(w, clause, cond, linkop) ==
  /\ w \in Seq(Piece) /\ Len(w) = Len(clause) + Len(cond)
  /\ \A k \in 1..Len(clause) : w[k] = clause[k]
  /\ \A k \in 1..Len(cond) :
       /\ w[Len(clause) + k].group = cond[k].group
       /\ k = 1 => w[Len(clause) + k].link = IF clause = <<>> THEN "WHERE" ELSE linkop
       /\ k # 1 => w[Len(clause) + k].link = "AND"

LEMMA LinkedToIs ==
  ASSUME NEW clause \in Seq(Piece), NEW cond \in Seq(AndPiece), NEW linkop \in {"WHERE", "AND", "OR"}
  PROVE  IsLinked(LinkedTo(clause, cond, linkop), clause, cond, linkop)
  <1> DEFINE first == IF clause = <<>> THEN "WHERE" ELSE linkop
             t == [i \in DOMAIN cond |-> IF i = 1 THEN [cond[i] EXCEPT !.link = first] ELSE cond[i]]
  <1>1. DOMAIN cond = 1..Len(cond) /\ Len(cond) \in Nat /\ \A i \in DOMAIN cond : cond[i] \in AndPiece
    OBVIOUS
  <1>2. first \in {"WHERE", "AND", "OR"}
    OBVIOUS
  <1>3. \A i \in DOMAIN cond : t[i] = IF i = 1 THEN [cond[i] EXCEPT !.link = first] ELSE cond[i]
    OBVIOUS
  <1> HIDE DEF first
  <1>4. \A i \in DOMAIN cond : /\ t[i] \in Piece /\ t[i].group = cond[i].group
                               /\ i = 1 => t[i].link = first
                               /\ i # 1 => t[i].link = "AND"
    BY <1>1, <1>2, <1>3 DEF Piece, AndPiece
  <1>5. t \in Seq(Piece) /\ Len(t) = Len(cond)
    BY <1>1, <1>4
  <1>6. LinkedTo(clause, cond, linkop) = clause \o t
    BY DEF LinkedTo, first
  <1> HIDE DEF t
  <1>7. /\ clause \o t \in Seq(Piece) /\ Len(clause \o t) = Len(clause) + Len(t)
        /\ \A k \in 1..Len(clause) : (clause \o t)[k] = clause[k]
        /\ \A k \in 1..Len(t) : (clause \o t)[Len(clause) + k] = t[k]
    BY <1>5
  <1> QED BY <1>1, <1>4, <1>5, <1>6, <1>7 DEF IsLinked, first

LEMMA LinkedToHolds ==
  ASSUME NEW clause \in Seq(Piece), NEW cond \in Seq(AndPiece), NEW linkop \in {"WHERE", "AND", "OR"},
         NEW e, NEW V, NEW cand
  PROVE  AllHold(e, LinkedTo(clause, cond, linkop), V, cand)
           <=> AllHold(e, clause, V, cand) /\ AllHold(e, cond, V, cand)
  <1> DEFINE w == LinkedTo(clause, cond, linkop)
             Holds(p) == GroupHolds(e, p.group, V, cand)
             m == Len(clause)
             n == Len(cond)
  <1>1. /\ w \in Seq(Piece) /\ Len(w) = m + n
        /\ \A k \in 1..m : w[k] = clause[k]
        /\ \A k \in 1..n : w[m + k].group = cond[k].group
    <2>1. IsLinked(w, clause, cond, linkop)
      BY LinkedToIs
    <2> HIDE DEF w
    <2>2. w \in Seq(Piece) /\ Len(w) = m + n
      BY <2>1 DEF IsLinked
    <2>3. \A k \in 1..m : w[k] = clause[k]
      BY <2>1 DEF IsLinked
    <2>4. \A k \in 1..n : w[m + k].group = cond[k].group
      BY <2>1 DEF IsLinked
    <2> QED BY <2>2, <2>3, <2>4
  <1>2. m \in Nat /\ n \in Nat /\ DOMAIN clause = 1..m /\ DOMAIN cond = 1..n
    OBVIOUS
  <1> HIDE DEF w, m, n
  <1>3. DOMAIN w = 1..(m + n)
    BY <1>1, <1>2
  <1>4. \A k : k \in 1..(m + n) <=> k \in 1..m \/ \E i \in 1..n : k = m + i
    <2>1. ASSUME NEW k \in 1..(m + n), k \notin 1..m
          PROVE  k - m \in 1..n /\ k = m + (k - m)
      BY <1>2, <2>1
    <2>2. \A k \in 1..(m + n) : k \in 1..m \/ \E i \in 1..n : k = m + i
      BY <2>1
    <2>3. \A k \in 1..m : k \in 1..(m + n)
      BY <1>2
    <2>4. \A i \in 1..n : m + i \in 1..(m + n)
      BY <1>2
    <2> QED BY <2>2, <2>3, <2>4
  <1>5. \A i \in 1..n : Holds(w[m + i]) <=> Holds(cond[i])
    BY <1>1
  <1>6. \A k \in 1..m : Holds(w[k]) <=> Holds(clause[k])
    BY <1>1
  <1> HIDE DEF Holds
  <1>7. (\A k \in 1..(m + n) : Holds(w[k])) <=> (\A k \in 1..m : Holds(clause[k])) /\ (\A k \in 1..n : Holds(cond[k]))
    BY <1>4, <1>5, <1>6
  <1> QED BY <1>2, <1>3, <1>7 DEF AllHold, Holds, w

Formed(c) == c.clause \in Seq(Piece) /\ c.vals \in Seq(Texts)

\* With its values bound, all conditions of c together say B.
Says(e, c, cand, B) == \A V : Carried(V, 0, c.vals) => (AllHold(e, c.clause, V, cand) <=> B)

IsWith(d, acc, b, linkop) ==
  d.clause = LinkedTo(acc.clause, b.clause, linkop) /\ d.vals = acc.vals \o b.vals

LEMMA WithConditionIs ==
  ASSUME NEW acc, NEW op, NEW linkop, NEW ff, NEW b, b = buildCondition(op, ff, Len(acc.vals)),
         NEW d, d = WithCondition(acc, Part(op, linkop, ff))
  PROVE  IsWith(d, acc, b, linkop)
  <1> DEFINE cl == LinkedTo(acc.clause, b.clause, linkop)
             vs == acc.vals \o b.vals
  <1>1. d = [clause |-> cl, vals |-> vs]
    BY DEF WithCondition, Part
  <1> HIDE DEF cl, vs
  <1>2. d.clause = cl /\ d.vals = vs
    BY <1>1, Fields
  <1> QED BY <1>2 DEF cl, vs, IsWith

LEMMA FirstCondition ==
  ASSUME NEW e, NEW cand, NEW op \in PlainOps, NEW ff \in Seq(Filter),
         NEW c, c = WithCondition(NoCondition, Part(op, "WHERE", ff))
  PROVE  /\ Formed(c) /\ AndLinked(c.clause) /\ Says(e, c, cand, Meets(op, ff, cand))
         /\ c.clause = <<>> <=> AsksNothing(ff)
  <1> DEFINE b == buildCondition(op, ff, 0)
  <1>0. NoCondition.clause = <<>> /\ NoCondition.vals = <<>> /\ Len(NoCondition.vals) = 0
    BY DEF NoCondition
  <1>1. c.clause = LinkedTo(<<>>, b.clause, "WHERE") /\ c.vals = <<>> \o b.vals
    <2>1. b = buildCondition(op, ff, Len(NoCondition.vals))
      BY <1>0
    <2> HIDE DEF b
    <2>2. IsWith(c, NoCondition, b, "WHERE")
      BY <2>1, WithConditionIs
    <2> QED BY <1>0, <2>2 DEF IsWith
  <1>2. b \in Written /\ (b.clause = <<>> <=> AsksNothing(ff))
    BY BuiltMeans
  <1>3. ASSUME NEW V, Carried(V, 0, b.vals)
        PROVE  AllHold(e, b.clause, V, cand) <=> Meets(op, ff, cand)
    BY <1>3, BuiltMeans
  <1> HIDE DEF b
  <1>4. b.clause \in Seq(AndPiece) /\ b.vals \in Seq(Texts)
    BY <1>2 DEF Written
  <1>5. c.vals = b.vals
    BY <1>1, <1>4
  <1>6. <<>> \in Seq(Piece)
    OBVIOUS
  <1>7. IsLinked(c.clause, <<>>, b.clause, "WHERE")
    BY <1>1, <1>4, <1>6, LinkedToIs
  <1>8. c.clause \in Seq(Piece) /\ Len(c.clause) = Len(b.clause)
    BY <1>4, <1>7 DEF IsLinked
  <1>9. AndLinked(c.clause)
    <2>1. \A k \in 1..Len(b.clause) : k # 1 => c.clause[Len(<<>>) + k].link = "AND"
      BY <1>7 DEF IsLinked
    <2>2. Len(<<>>) = 0
      OBVIOUS
    <2>3. Len(b.clause) \in Nat
      BY <1>4
    <2>4. ASSUME NEW k \in 2..Len(c.clause) PROVE c.clause[k].link = "AND"
      <3>1. k \in 1..Len(b.clause) /\ k # 1 /\ Len(<<>>) + k = k
        BY <1>8, <2>2, <2>3
      <3> QED BY <2>1, <3>1
    <2> QED BY <2>4 DEF AndLinked
  <1>10. Says(e, c, cand, Meets(op, ff, cand))
    <2>1. ASSUME NEW V, Carried(V, 0, c.vals)
          PROVE  AllHold(e, c.clause, V, cand) <=> Meets(op, ff, cand)
      <3>1. AllHold(e, b.clause, V, cand) <=> Meets(op, ff, cand)
        BY <1>3, <1>5, <2>1
      <3>2. AllHold(e, <<>>, V, cand)
        BY DEF AllHold
      <3>3. AllHold(e, LinkedTo(<<>>, b.clause, "WHERE"), V, cand)
              <=> AllHold(e, <<>>, V, cand) /\ AllHold(e, b.clause, V, cand)
        BY <1>4, <1>6, LinkedToHolds
      <3> QED BY <1>1, <3>1, <3>2, <3>3
    <2> QED BY <2>1 DEF Says
  <1>11. c.clause = <<>> <=> b.clause = <<>>
    BY <1>4, <1>8
  <1> QED BY <1>2, <1>5, <1>4, <1>8, <1>9, <1>10, <1>11 DEF Formed

\* What the second condition adds.
IsNext(e, cand, acc, op, linkop, ff, b, d) ==
  /\ Formed(d) /\ b.clause \in Seq(AndPiece) /\ (b.clause = <<>> <=> AsksNothing(ff))
  /\ d.clause = LinkedTo(acc.clause, b.clause, linkop)
  /\ IsLinked(d.clause, acc.clause, b.clause, linkop)
  /\ \A V : Carried(V, 0, d.vals) =>
       Carried(V, 0, acc.vals) /\ (AllHold(e, b.clause, V, cand) <=> Meets(op, ff, cand))

LEMMA NextCondition ==
  ASSUME NEW e, NEW cand, NEW op \in PlainOps, NEW ff \in Seq(Filter), NEW linkop \in {"AND", "OR"},
         NEW acc, Formed(acc), NEW b, b = buildCondition(op, ff, Len(acc.vals)),
         NEW d, d = WithCondition(acc, Part(op, linkop, ff))
  PROVE  IsNext(e, cand, acc, op, linkop, ff, b, d)
  <1>1. acc.clause \in Seq(Piece) /\ acc.vals \in Seq(Texts) /\ Len(acc.vals) \in Nat
    BY DEF Formed
  <1>2. d.clause = LinkedTo(acc.clause, b.clause, linkop) /\ d.vals = acc.vals \o b.vals
    <2>1. IsWith(d, acc, b, linkop)
      BY WithConditionIs
    <2> QED BY <2>1 DEF IsWith
  <1>3. b \in Written /\ (b.clause = <<>> <=> AsksNothing(ff))
    BY <1>1, BuiltMeans
  <1>4. b.clause \in Seq(AndPiece) /\ b.vals \in Seq(Texts)
    BY <1>3 DEF Written
  <1>5. IsLinked(d.clause, acc.clause, b.clause, linkop)
    <2>1. linkop \in {"WHERE", "AND", "OR"}
      OBVIOUS
    <2> QED BY <1>1, <1>2, <1>4, <2>1, LinkedToIs
  <1>6. d.vals \in Seq(Texts)
    BY <1>1, <1>2, <1>4
  <1>7. Formed(d)
    BY <1>5, <1>6 DEF Formed, IsLinked
  <1>8. ASSUME NEW V, Carried(V, 0, d.vals)
        PROVE  Carried(V, 0, acc.vals) /\ (AllHold(e, b.clause, V, cand) <=> Meets(op, ff, cand))
    <2>1. Carried(V, 0, acc.vals) /\ Carried(V, 0 + Len(acc.vals), b.vals)
      BY <1>1, <1>2, <1>4, <1>8, CarriedConcat
    <2>2. Carried(V, Len(acc.vals), b.vals)
      BY <1>1, <2>1
    <2>3. AllHold(e, b.clause, V, cand) <=> Meets(op, ff, cand)
      BY <1>1, <2>2, BuiltMeans
    <2> QED BY <2>1, <2>3
  <1> QED BY <1>2, <1>3, <1>4, <1>5, <1>7, <1>8 DEF IsNext

LEMMA AsksNothingMeets ==
  ASSUME NEW op, NEW ff, NEW cand, AsksNothing(ff)
  PROVE  Meets(op, ff, cand)
  BY DEF AsksNothing, Meets, MeetsFilter

\* A second condition that no OR precedes: both are asked for.
LEMMA AndCondition ==
  ASSUME NEW e, NEW cand, NEW op \in PlainOps, NEW ff \in Seq(Filter), NEW linkop \in {"AND", "OR"},
         NEW acc, Formed(acc), AndLinked(acc.clause), NEW B \in BOOLEAN, Says(e, acc, cand, B),
         linkop = "AND" \/ acc.clause = <<>> \/ AsksNothing(ff),
         NEW d, d = WithCondition(acc, Part(op, linkop, ff)), NEW M \in BOOLEAN, M = Meets(op, ff, cand)
  PROVE  Formed(d) /\ AndLinked(d.clause) /\ Says(e, d, cand, B /\ M)
  <1> DEFINE b == buildCondition(op, ff, Len(acc.vals))
  <1>1. /\ Formed(d) /\ b.clause \in Seq(AndPiece) /\ (b.clause = <<>> <=> AsksNothing(ff))
        /\ d.clause = LinkedTo(acc.clause, b.clause, linkop)
        /\ IsLinked(d.clause, acc.clause, b.clause, linkop)
        /\ \A V : Carried(V, 0, d.vals) =>
             Carried(V, 0, acc.vals) /\ (AllHold(e, b.clause, V, cand) <=> Meets(op, ff, cand))
    <2>1. IsNext(e, cand, acc, op, linkop, ff, b, d)
      BY NextCondition
    <2> QED BY <2>1 DEF IsNext
  <1> HIDE DEF b
  <1> DEFINE x == acc.clause
             y == b.clause
             z == d.clause
             m == Len(x)
             n == Len(y)
  <1>2. x \in Seq(Piece) /\ m \in Nat /\ n \in Nat /\ linkop \in {"WHERE", "AND", "OR"}
    BY <1>1 DEF Formed
  <1>3. AndLinked(z)
    <2>1. /\ Len(z) = m + n /\ \A k \in 1..m : z[k] = x[k]
          /\ \A k \in 1..n : (k = 1 => z[m + k].link = IF x = <<>> THEN "WHERE" ELSE linkop)
                             /\ (k # 1 => z[m + k].link = "AND")
      BY <1>1 DEF IsLinked
    <2>2. m = 0 <=> x = <<>>
      BY <1>2
    <2>3. n = 0 <=> y = <<>>
      BY <1>1
    <2>4. \A k \in 2..m : x[k].link = "AND"
      BY DEF AndLinked
    <2>5. linkop = "AND" \/ m = 0 \/ n = 0
      BY <1>1, <2>2, <2>3
    <2> HIDE DEF x, y, z, m, n
    <2>6. ASSUME NEW k \in 2..Len(z) PROVE z[k].link = "AND"
      <3>1. CASE k \in 1..m
        BY <1>2, <2>1, <2>4, <3>1
      <3>2. CASE k \notin 1..m
        <4>1. k - m \in 1..n /\ k = m + (k - m)
          BY <1>2, <2>1, <3>2
        <4>2. CASE k - m = 1
          BY <1>2, <2>1, <2>2, <2>5, <4>1, <4>2
        <4>3. CASE k - m # 1
          BY <2>1, <4>1, <4>3
        <4> QED BY <4>2, <4>3
      <3> QED BY <3>1, <3>2
    <2> QED BY <2>6 DEF AndLinked
  <1>4. ASSUME NEW V, Carried(V, 0, d.vals)
        PROVE  AllHold(e, z, V, cand) <=> (B /\ M)
    <2>1. AllHold(e, LinkedTo(x, y, linkop), V, cand) <=> AllHold(e, x, V, cand) /\ AllHold(e, y, V, cand)
      BY <1>1, <1>2, LinkedToHolds
    <2>2. AllHold(e, y, V, cand) <=> M
      BY <1>1, <1>4
    <2>3. AllHold(e, x, V, cand) <=> B
      BY <1>1, <1>4 DEF Says
    <2> QED BY <1>1, <2>1, <2>2, <2>3
  <1> QED BY <1>1, <1>3, <1>4 DEF Says

\* With its values bound, the clause of c says B.
Means(e, c, cand, B) == \A V : Carried(V, 0, c.vals) => (ClauseHolds(e, c.clause, V, cand) <=> B)

LEMMA SaysMeans ==
  ASSUME NEW e, NEW c, NEW cand, NEW B, Formed(c), AndLinked(c.clause), Says(e, c, cand, B)
  PROVE  Means(e, c, cand, B)
  <1>1. \A V : ClauseHolds(e, c.clause, V, cand) <=> AllHold(e, c.clause, V, cand)
    BY AndClauseMeans DEF Formed
  <1> QED BY <1>1 DEF Says, Means

\* A second condition behind an OR, when there is something on both sides: either is enough.
LEMMA OrCondition ==
  ASSUME NEW e, NEW cand, NEW op \in PlainOps, NEW ff \in Seq(Filter),
         NEW acc, Formed(acc), AndLinked(acc.clause), NEW B \in BOOLEAN, Says(e, acc, cand, B),
         acc.clause # <<>>, ~ AsksNothing(ff),
         NEW d, d = WithCondition(acc, Part(op, "OR", ff)), NEW M \in BOOLEAN, M = Meets(op, ff, cand)
  PROVE  Formed(d) /\ Means(e, d, cand, B \/ M)
  <1> DEFINE b == buildCondition(op, ff, Len(acc.vals))
  <1>1. /\ Formed(d) /\ b.clause \in Seq(AndPiece) /\ (b.clause = <<>> <=> AsksNothing(ff))
        /\ IsLinked(d.clause, acc.clause, b.clause, "OR")
        /\ \A V : Carried(V, 0, d.vals) =>
             Carried(V, 0, acc.vals) /\ (AllHold(e, b.clause, V, cand) <=> Meets(op, ff, cand))
    <2>1. IsNext(e, cand, acc, op, "OR", ff, b, d)
      BY NextCondition
    <2> QED BY <2>1 DEF IsNext
  <1> HIDE DEF b
  <1> DEFINE x == acc.clause
             y == b.clause
             z == d.clause
             m == Len(x)
             n == Len(y)
  <1>2. /\ x \in Seq(Piece) /\ m \in Nat /\ n \in Nat /\ m > 0 /\ n > 0
        /\ DOMAIN x = 1..m /\ DOMAIN y = 1..n
    <2>1. x \in Seq(Piece) /\ y \in Seq(AndPiece) /\ x # <<>> /\ y # <<>>
      BY <1>1 DEF Formed
    <2> HIDE DEF x, y
    <2> QED BY <2>1
  <1>3. /\ z \in Seq(Piece) /\ Len(z) = m + n /\ \A k \in 1..m : z[k] = x[k]
        /\ \A k \in 1..n : /\ z[m + k].group = y[k].group
                           /\ k = 1 => z[m + k].link = IF x = <<>> THEN "WHERE" ELSE "OR"
                           /\ k # 1 => z[m + k].link = "AND"
    BY <1>1 DEF IsLinked
  <1>4. x # <<>> /\ \A k \in 2..m : x[k].link = "AND"
    BY DEF AndLinked
  <1>5. ASSUME NEW V, Carried(V, 0, d.vals)
        PROVE  /\ (\A k \in 1..m : GroupHolds(e, x[k].group, V, cand)) <=> B
               /\ (\A k \in 1..n : GroupHolds(e, y[k].group, V, cand)) <=> M
    <2>1. AllHold(e, y, V, cand) <=> M
      BY <1>1, <1>5
    <2>2. AllHold(e, x, V, cand) <=> B
      BY <1>1, <1>5 DEF Says
    <2> HIDE DEF x, y, m, n
    <2> QED BY <1>2, <2>1, <2>2 DEF AllHold
  <1> HIDE DEF x, y, z, m, n
  <1>6. \A k \in 2..Len(z) : z[k].link = IF k = m + 1 THEN "OR" ELSE "AND"
    <2> SUFFICES ASSUME NEW k \in 2..Len(z)
                 PROVE  z[k].link = IF k = m + 1 THEN "OR" ELSE "AND"
      OBVIOUS
    <2>1. CASE k \in 1..m
      <3>1. k # m + 1 /\ k \in 2..m
        BY <1>2, <2>1
      <3> QED BY <1>3, <1>4, <2>1, <3>1
    <2>2. CASE k \notin 1..m
      <3>1. k - m \in 1..n /\ k = m + (k - m) /\ (k - m = 1 <=> k = m + 1)
        BY <1>2, <1>3, <2>2
      <3>2. CASE k - m = 1
        BY <1>3, <1>4, <3>1, <3>2
      <3>3. CASE k - m # 1
        BY <1>3, <3>1, <3>3
      <3> QED BY <3>2, <3>3
    <2> QED BY <2>1, <2>2
  <1>7. m \in 1..(Len(z) - 1)
    BY <1>2, <1>3
  <1>8. ASSUME NEW V, Carried(V, 0, d.vals)
        PROVE  ClauseHolds(e, z, V, cand) <=> (B \/ M)
    <2> DEFINE Holds(p) == GroupHolds(e, p.group, V, cand)
    <2>1. ClauseHolds(e, z, V, cand) <=> \/ \A k \in 1..m : Holds(z[k])
                                         \/ \A k \in (m + 1)..Len(z) : Holds(z[k])
      BY <1>3, <1>6, <1>7, OrClauseMeans
    <2>2. \A k \in 1..m : Holds(z[k]) <=> Holds(x[k])
      BY <1>3
    <2>3. \A k \in 1..n : Holds(z[m + k]) <=> Holds(y[k])
      BY <1>3
    <2>4. /\ (\A k \in 1..m : Holds(x[k])) <=> B
          /\ (\A k \in 1..n : Holds(y[k])) <=> M
      BY <1>5, <1>8
    <2> HIDE DEF Holds
    <2>5. \A k \in (m + 1)..Len(z) : k - m \in 1..n /\ k = m + (k - m)
      BY <1>2, <1>3
    <2>6. \A k \in 1..n : m + k \in (m + 1)..Len(z)
      BY <1>2, <1>3
    <2>7. (\A k \in (m + 1)..Len(z) : Holds(z[k])) <=> (\A k \in 1..n : Holds(y[k]))
      BY <2>3, <2>5, <2>6
    <2>8. (\A k \in 1..m : Holds(z[k])) <=> (\A k \in 1..m : Holds(x[k]))
      BY <2>2
    <2> QED BY <2>1, <2>4, <2>7, <2>8
  <1> QED BY <1>1, <1>8 DEF Means, z

(***************************************************************************)
(* The statement of a read                                                 *)
(***************************************************************************)
IsSelect(st, tables, join) ==
  /\ st.kind = "select" /\ st.tables = tables /\ st.agg = "none"
  /\ st.wellFormed = JoinComplete(join)

LEMMA SelectWhereIs ==
  ASSUME NEW tables, NEW parts, NEW join, NEW c, c = Conditions(parts),
         NEW st, st = SelectWhere(tables, parts, join)
  PROVE  /\ IsSelect(st, tables, join)
         /\ st.where = LinkedTo(c.clause, JoinCondition(join), "AND") /\ st.vals = c.vals
  <1> DEFINE w == LinkedTo(c.clause, JoinCondition(join), "AND")
  <1>1. st = [Statement("select", tables, w, c.vals) EXCEPT !.wellFormed = JoinComplete(join)]
    BY DEF SelectWhere
  <1> HIDE DEF w
  <1>2. st.where = w /\ st.vals = c.vals /\ IsSelect(st, tables, join)
    BY <1>1 DEF Statement, IsSelect
  <1> QED BY <1>2 DEF w

\* The values of a statement are bound to its placeholders.
LEMMA CarriedItself ==
  ASSUME NEW vals \in Seq(Texts)
  PROVE  Carried(vals, 0, vals)
  BY DEF Carried

LEMMA WithJoin ==
  ASSUME NEW e, NEW cand, NEW join \in Join, NEW c, Formed(c), AndLinked(c.clause),
         NEW B \in BOOLEAN, Says(e, c, cand, B), NEW w, w = LinkedTo(c.clause, JoinCondition(join), "AND")
  PROVE  ClauseHolds(e, w, c.vals, cand) <=> B /\ MeetsJoin(join, cand)
  <1> DEFINE y == JoinCondition(join)
             V == c.vals
             x == c.clause
             m == Len(x)
             n == Len(y)
  <1>1. y \in Seq(AndPiece) /\ (AllHold(e, y, V, cand) <=> MeetsJoin(join, cand))
    BY JoinMeans
  <1>2. x \in Seq(Piece) /\ V \in Seq(Texts)
    BY DEF Formed
  <1>3. AllHold(e, x, V, cand) <=> B
    BY <1>2, CarriedItself DEF Says
  <1> HIDE DEF y, V
  <1>4. AllHold(e, w, V, cand) <=> B /\ MeetsJoin(join, cand)
    BY <1>1, <1>2, <1>3, LinkedToHolds DEF y
  <1>5. IsLinked(w, x, y, "AND")
    BY <1>1, <1>2, LinkedToIs DEF y
  <1>6. w \in Seq(Piece) /\ AndLinked(w)
    <2>1. /\ w \in Seq(Piece) /\ Len(w) = m + n /\ \A k \in 1..m : w[k] = x[k]
          /\ \A k \in 1..n : /\ k = 1 => w[m + k].link = IF x = <<>> THEN "WHERE" ELSE "AND"
                             /\ k # 1 => w[m + k].link = "AND"
      BY <1>5 DEF IsLinked
    <2>2. m \in Nat /\ n \in Nat /\ (m = 0 <=> x = <<>>)
      BY <1>1, <1>2
    <2>3. \A k \in 2..m : x[k].link = "AND"
      BY DEF AndLinked
    <2> HIDE DEF x, m, n
    <2>4. ASSUME NEW k \in 2..Len(w) PROVE w[k].link = "AND"
      <3>1. CASE k \in 1..m
        BY <2>1, <2>2, <2>3, <3>1
      <3>2. CASE k \notin 1..m
        <4>1. k - m \in 1..n /\ k = m + (k - m)
          BY <2>1, <2>2, <3>2
        <4>2. CASE k - m = 1
          BY <2>1, <2>2, <4>1, <4>2
        <4>3. CASE k - m # 1
          BY <2>1, <4>1, <4>3
        <4> QED BY <4>2, <4>3
      <3> QED BY <3>1, <3>2
    <2> QED BY <2>1, <2>4 DEF AndLinked
  <1>7. ClauseHolds(e, w, V, cand) <=> AllHold(e, w, V, cand)
    BY <1>6, AndClauseMeans
  <1> QED BY <1>4, <1>7 DEF V

LEMMA NoJoinIs ==
  /\ NoJoin \in Join /\ JoinCondition(NoJoin) = <<>> /\ JoinComplete(NoJoin)
  /\ \A cand : MeetsJoin(NoJoin, cand)
  <1>1. NoJoin \in Join /\ NoJoin.on = <<>> /\ NoJoin.given = FALSE
    BY DEF NoJoin, Join
  <1>2. JoinLoop(NoJoin)[0] = <<>>
    BY <1>1, JoinLoopIs
  <1>3. JoinCondition(NoJoin) = <<>>
    BY <1>1, <1>2 DEF JoinCondition
  <1>4. JoinComplete(NoJoin)
    BY <1>1 DEF JoinComplete
  <1>5. \A cand : MeetsJoin(NoJoin, cand)
    BY <1>1 DEF MeetsJoin
  <1> QED BY <1>1, <1>3, <1>4, <1>5

LEMMA LinkedToNothing ==
  ASSUME NEW clause \in Seq(Piece)
  PROVE  LinkedTo(clause, <<>>, "AND") = clause
  <1> DEFINE none == <<>>
             w == LinkedTo(clause, none, "AND")
  <1>1. none \in Seq(AndPiece) /\ Len(none) = 0
    OBVIOUS
  <1>2. IsLinked(w, clause, none, "AND")
    <2> HIDE DEF none
    <2> QED BY <1>1, LinkedToIs
  <1>3. w \in Seq(Piece) /\ Len(w) = Len(clause) + Len(none) /\ \A k \in 1..Len(clause) : w[k] = clause[k]
    BY <1>2 DEF IsLinked
  <1> HIDE DEF w, none
  <1>4. Len(w) = Len(clause)
    BY <1>1, <1>3
  <1>5. w = clause
    BY <1>3, <1>4
  <1> QED BY <1>5 DEF w, none

\* A read with one condition.
SelectsOne(e, st, op, ff, join) ==
  \A cand : ClauseHolds(e, st.where, st.vals, cand) <=> Meets(op, ff, cand) /\ MeetsJoin(join, cand)

LEMMA SelectOne ==
  ASSUME NEW e, NEW tables, NEW op \in PlainOps, NEW ff \in Seq(Filter), NEW join \in Join,
         NEW st, st = SelectWhere(tables, <<Part(op, "WHERE", ff)>>, join)
  PROVE  IsSelect(st, tables, join) /\ SelectsOne(e, st, op, ff, join)
  <1> DEFINE p == Part(op, "WHERE", ff)
             parts == <<p>>
             c == Conditions(parts)
  <1>1. c = WithCondition(NoCondition, p)
    <2> HIDE DEF p
    <2> QED BY DEF Conditions
  <1>2. /\ IsSelect(st, tables, join)
        /\ st.where = LinkedTo(c.clause, JoinCondition(join), "AND") /\ st.vals = c.vals
    <2>1. c = Conditions(parts) /\ st = SelectWhere(tables, parts, join)
      OBVIOUS
    <2> HIDE DEF c, p, parts
    <2> QED BY <2>1, SelectWhereIs
  <1> HIDE DEF c, parts
  <1>3. ASSUME NEW cand
        PROVE  ClauseHolds(e, st.where, st.vals, cand) <=> Meets(op, ff, cand) /\ MeetsJoin(join, cand)
    <2> DEFINE B == Meets(op, ff, cand)
    <2>1. Formed(c) /\ AndLinked(c.clause) /\ Says(e, c, cand, B)
      BY <1>1, FirstCondition
    <2>2. B \in BOOLEAN
      BY DEF Meets
    <2> HIDE DEF B
    <2>3. ClauseHolds(e, st.where, c.vals, cand) <=> B /\ MeetsJoin(join, cand)
      BY <1>2, <2>1, <2>2, WithJoin
    <2> QED BY <1>2, <2>3 DEF B
  <1> QED BY <1>2, <1>3 DEF SelectsOne

\* A read with two conditions, both asked for.
SelectsBoth(e, st, op, f1, op2, f2, join) ==
  \A cand : ClauseHolds(e, st.where, st.vals, cand)
              <=> Meets(op, f1, cand) /\ Meets(op2, f2, cand) /\ MeetsJoin(join, cand)

LEMMA SelectAnd ==
  ASSUME NEW e, NEW tables, NEW op \in PlainOps, NEW f1 \in Seq(Filter),
         NEW op2 \in PlainOps, NEW f2 \in Seq(Filter), NEW join \in Join,
         NEW st, st = SelectWhere(tables, <<Part(op, "WHERE", f1), Part(op2, "AND", f2)>>, join)
  PROVE  IsSelect(st, tables, join) /\ SelectsBoth(e, st, op, f1, op2, f2, join)
  <1> DEFINE p == Part(op, "WHERE", f1)
             q == Part(op2, "AND", f2)
             parts == <<p, q>>
             a == WithCondition(NoCondition, p)
             c == Conditions(parts)
  <1>1. c = WithCondition(a, q)
    <2> HIDE DEF p, q
    <2> QED BY DEF Conditions
  <1>2. /\ IsSelect(st, tables, join)
        /\ st.where = LinkedTo(c.clause, JoinCondition(join), "AND") /\ st.vals = c.vals
    <2>1. c = Conditions(parts) /\ st = SelectWhere(tables, parts, join)
      OBVIOUS
    <2> HIDE DEF c, p, q, parts
    <2> QED BY <2>1, SelectWhereIs
  <1> HIDE DEF c, parts
  <1>3. ASSUME NEW cand
        PROVE  ClauseHolds(e, st.where, st.vals, cand)
                 <=> Meets(op, f1, cand) /\ Meets(op2, f2, cand) /\ MeetsJoin(join, cand)
    <2> DEFINE B == Meets(op, f1, cand)
               M == Meets(op2, f2, cand)
               BM == B /\ M
    <2>1. Formed(a) /\ AndLinked(a.clause) /\ Says(e, a, cand, B)
      BY FirstCondition
    <2>2. B \in BOOLEAN /\ M \in BOOLEAN /\ BM \in BOOLEAN
      BY DEF Meets
    <2> HIDE DEF a, B
    <2>3. Formed(c) /\ AndLinked(c.clause) /\ Says(e, c, cand, B /\ M)
      BY <1>1, <2>1, <2>2, AndCondition
    <2>4. Says(e, c, cand, BM)
      BY <2>3
    <2> HIDE DEF BM
    <2>5. ClauseHolds(e, st.where, c.vals, cand) <=> BM /\ MeetsJoin(join, cand)
      BY <1>2, <2>2, <2>3, <2>4, WithJoin
    <2> QED BY <1>2, <2>5 DEF B, BM
  <1> QED BY <1>2, <1>3 DEF SelectsBoth

\* A read with two conditions, one of which is enough when both ask for something.
SelectsEither(e, st, op, f1, op2, f2) ==
  \A cand : ClauseHolds(e, st.where, st.vals, cand)
              <=> CASE AsksNothing(f1) -> Meets(op2, f2, cand)
                    [] AsksNothing(f2) -> Meets(op, f1, cand)
                    [] OTHER -> Meets(op, f1, cand) \/ Meets(op2, f2, cand)

LEMMA SelectOr ==
  ASSUME NEW e, NEW tables, NEW op \in PlainOps, NEW f1 \in Seq(Filter),
         NEW op2 \in PlainOps, NEW f2 \in Seq(Filter),
         NEW st, st = SelectWhere(tables, <<Part(op, "WHERE", f1), Part(op2, "OR", f2)>>, NoJoin)
  PROVE  IsSelect(st, tables, NoJoin) /\ SelectsEither(e, st, op, f1, op2, f2)
  <1> DEFINE p == Part(op, "WHERE", f1)
             q == Part(op2, "OR", f2)
             parts == <<p, q>>
             a == WithCondition(NoCondition, p)
             c == Conditions(parts)
  <1>1. c = WithCondition(a, q)
    <2> HIDE DEF p, q
    <2> QED BY DEF Conditions
  <1>2. /\ IsSelect(st, tables, NoJoin)
        /\ st.where = LinkedTo(c.clause, <<>>, "AND") /\ st.vals = c.vals
    <2>1. c = Conditions(parts) /\ st = SelectWhere(tables, parts, NoJoin)
      OBVIOUS
    <2> HIDE DEF c, p, q, parts
    <2> QED BY <2>1, SelectWhereIs, NoJoinIs
  <1> HIDE DEF c, parts
  <1>3. ASSUME NEW cand
        PROVE  ClauseHolds(e, st.where, st.vals, cand)
                 <=> CASE AsksNothing(f1) -> Meets(op2, f2, cand)
                       [] AsksNothing(f2) -> Meets(op, f1, cand)
                       [] OTHER -> Meets(op, f1, cand) \/ Meets(op2, f2, cand)
    <2> DEFINE B == Meets(op, f1, cand)
               M == Meets(op2, f2, cand)
               Or == B \/ M
               And == B /\ M
    <2>1. Formed(a) /\ AndLinked(a.clause) /\ Says(e, a, cand, B) /\ (a.clause = <<>> <=> AsksNothing(f1))
      BY FirstCondition
    <2>2. B \in BOOLEAN /\ M \in BOOLEAN
      BY DEF Meets
    <2>3. (AsksNothing(f1) => B) /\ (AsksNothing(f2) => M)
      BY AsksNothingMeets
    <2> HIDE DEF a, B
    <2>4. ASSUME Formed(c), NEW C, Means(e, c, cand, C)
          PROVE  ClauseHolds(e, st.where, st.vals, cand) <=> C
      <3>1. c.clause \in Seq(Piece) /\ c.vals \in Seq(Texts)
        BY <2>4 DEF Formed
      <3>2. st.where = c.clause /\ Carried(c.vals, 0, c.vals)
        BY <1>2, <3>1, LinkedToNothing, CarriedItself
      <3> QED BY <1>2, <2>4, <3>2 DEF Means
    <2>5. CASE AsksNothing(f1) \/ AsksNothing(f2)
      <3>1. Formed(c) /\ AndLinked(c.clause) /\ Says(e, c, cand, B /\ M)
        BY <1>1, <2>1, <2>2, <2>5, AndCondition
      <3>2. Says(e, c, cand, And)
        BY <3>1
      <3> HIDE DEF And
      <3>3. Means(e, c, cand, And)
        BY <3>1, <3>2, SaysMeans
      <3>4. ClauseHolds(e, st.where, st.vals, cand) <=> And
        BY <2>4, <3>1, <3>3
      <3> QED BY <2>3, <2>5, <3>4 DEF And, B
    <2>6. CASE ~ (AsksNothing(f1) \/ AsksNothing(f2))
      <3>1. Formed(c) /\ Means(e, c, cand, B \/ M)
        BY <1>1, <2>1, <2>2, <2>6, OrCondition
      <3>2. Means(e, c, cand, Or)
        BY <3>1
      <3> HIDE DEF Or
      <3>3. ClauseHolds(e, st.where, st.vals, cand) <=> Or
        BY <2>4, <3>1, <3>2
      <3> QED BY <2>6, <3>3 DEF Or, B
    <2> QED BY <2>5, <2>6
  <1> QED BY <1>2, <1>3 DEF SelectsEither

(***************************************************************************)
(* The four backends send two kinds of statements                          *)
(***************************************************************************)
Sent(e, d) == IF e = "pg" THEN PgStatement(d) ELSE SqliteStatement(d)

Methods == ReadMethods \union WriteMethods

LEMMA IdPgSame ==
  ASSUME NEW c, c.fn \in Methods
  PROVE  IdPgStatement(c) = PgStatement(c)
  <1>1. /\ IdPgInsert(c) = PgInsert(c) /\ IdPgUpdate(c) = PgUpdate(c) /\ IdPgUpdateAnd(c) = PgUpdateAnd(c)
        /\ IdPgMatch(c) = PgMatch(c) /\ IdPgDeleteEqual(c) = PgDeleteEqual(c)
        /\ IdPgDeleteEqualAnd(c) = PgDeleteEqualAnd(c) /\ IdPgDeleteLowerThan(c) = PgDeleteLowerThan(c)
        /\ IdPgDeleteWhere(c) = PgDeleteWhere(c)
    BY DEF IdPgInsert, IdPgUpdate, IdPgUpdateAnd, IdPgMatch, IdPgDeleteEqual, IdPgDeleteEqualAnd,
           IdPgDeleteLowerThan, IdPgDeleteWhere
  <1>2. /\ IdPgGet(c) = PgGet(c) /\ IdPgGetJoin(c) = PgGetJoin(c) /\ IdPgGetHigherThan(c) = PgGetHigherThan(c)
        /\ IdPgGetWhereEqualOrDifferent(c) = PgGetWhereEqualOrDifferent(c)
        /\ IdPgGetWhereEqualAndHigher(c) = PgGetWhereEqualAndHigher(c)
    BY DEF IdPgGet, PgGet, IdPgGetJoin, PgGetJoin, IdPgGetHigherThan, PgGetHigherThan,
           IdPgGetWhereEqualOrDifferent, PgGetWhereEqualOrDifferent, IdPgGetWhereEqualAndHigher,
           PgGetWhereEqualAndHigher, IdPg_get
  <1>3. /\ IdPgGetMaxWhereEqual(c) = PgGetMaxWhereEqual(c)
        /\ IdPgGetMaxWhereEqualAndLower(c) = PgGetMaxWhereEqualAndLower(c)
        /\ IdPgGetMinWhereEqualAndHigher(c) = PgGetMinWhereEqualAndHigher(c)
        /\ IdPgGetMaxWhereEqualAndLowerJoin(c) = PgGetMaxWhereEqualAndLowerJoin(c)
    BY DEF IdPgGetMaxWhereEqual, PgGetMaxWhereEqual, IdPgGetMaxWhereEqualAndLower, PgGetMaxWhereEqualAndLower,
           IdPgGetMinWhereEqualAndHigher, PgGetMinWhereEqualAndHigher, IdPgGetMaxWhereEqualAndLowerJoin,
           PgGetMaxWhereEqualAndLowerJoin, IdPg_getMinMax
  <1> QED BY <1>1, <1>2, <1>3 DEF IdPgStatement, PgStatement, Methods, ReadMethods, WriteMethods

LEMMA IdSqliteSame ==
  ASSUME NEW c, c.fn \in Methods
  PROVE  IdSqliteStatement(c) = SqliteStatement(c)
  <1>1. /\ IdSqliteInsert(c) = SqliteInsert(c) /\ IdSqliteUpdate(c) = SqliteUpdate(c)
        /\ IdSqliteUpdateAnd(c) = SqliteUpdateAnd(c)
        /\ IdSqliteMatch(c) = SqliteMatch(c) /\ IdSqliteDeleteEqual(c) = SqliteDeleteEqual(c)
        /\ IdSqliteDeleteEqualAnd(c) = SqliteDeleteEqualAnd(c)
        /\ IdSqliteDeleteLowerThan(c) = SqliteDeleteLowerThan(c)
        /\ IdSqliteDeleteWhere(c) = SqliteDeleteWhere(c)
    BY DEF IdSqliteInsert, IdSqliteUpdate, IdSqliteUpdateAnd, IdSqliteMatch, IdSqliteDeleteEqual,
           IdSqliteDeleteEqualAnd, IdSqliteDeleteLowerThan, IdSqliteDeleteWhere
  <1>2. /\ IdSqliteGet(c) = SqliteGet(c) /\ IdSqliteGetJoin(c) = SqliteGetJoin(c)
        /\ IdSqliteGetHigherThan(c) = SqliteGetHigherThan(c)
        /\ IdSqliteGetWhereEqualOrDifferent(c) = SqliteGetWhereEqualOrDifferent(c)
        /\ IdSqliteGetWhereEqualAndHigher(c) = SqliteGetWhereEqualAndHigher(c)
    BY DEF IdSqliteGet, SqliteGet, IdSqliteGetJoin, SqliteGetJoin, IdSqliteGetHigherThan, SqliteGetHigherThan,
           IdSqliteGetWhereEqualOrDifferent, SqliteGetWhereEqualOrDifferent, IdSqliteGetWhereEqualAndHigher,
           SqliteGetWhereEqualAndHigher, IdSqlite_get
  <1>3. /\ IdSqliteGetMaxWhereEqual(c) = SqliteGetMaxWhereEqual(c)
        /\ IdSqliteGetMaxWhereEqualAndLower(c) = SqliteGetMaxWhereEqualAndLower(c)
        /\ IdSqliteGetMinWhereEqualAndHigher(c) = SqliteGetMinWhereEqualAndHigher(c)
        /\ IdSqliteGetMaxWhereEqualAndLowerJoin(c) = SqliteGetMaxWhereEqualAndLowerJoin(c)
    BY DEF IdSqliteGetMaxWhereEqual, SqliteGetMaxWhereEqual, IdSqliteGetMaxWhereEqualAndLower,
           SqliteGetMaxWhereEqualAndLower, IdSqliteGetMinWhereEqualAndHigher, SqliteGetMinWhereEqualAndHigher,
           IdSqliteGetMaxWhereEqualAndLowerJoin, SqliteGetMaxWhereEqualAndLowerJoin, IdSqlite_getMinMax
  <1> QED BY <1>1, <1>2, <1>3 DEF IdSqliteStatement, SqliteStatement, Methods, ReadMethods, WriteMethods

\* Methods that the two engines' backends write in the same way.
AlikeMethods == Methods \ {"match", "deleteEqual", "deleteEqualAnd", "deleteLowerThan"}

LEMMA SqliteAlike ==
  ASSUME NEW c, c.fn \in AlikeMethods
  PROVE  SqliteStatement(c) = PgStatement(c)
  <1>1. SqliteInsert(c) = PgInsert(c)
    BY DEF SqliteInsert, PgInsert
  <1>2. SqliteUpdate(c) = PgUpdate(c)
    BY DEF SqliteUpdate, PgUpdate
  <1>3. SqliteUpdateAnd(c) = PgUpdateAnd(c)
    BY DEF SqliteUpdateAnd, PgUpdateAnd
  <1>4. SqliteDeleteWhere(c) = PgDeleteWhere(c)
    BY DEF SqliteDeleteWhere, PgDeleteWhere
  <1>5. /\ SqliteGet(c) = PgGet(c) /\ SqliteGetJoin(c) = PgGetJoin(c)
        /\ SqliteGetHigherThan(c) = PgGetHigherThan(c)
        /\ SqliteGetWhereEqualOrDifferent(c) = PgGetWhereEqualOrDifferent(c)
        /\ SqliteGetWhereEqualAndHigher(c) = PgGetWhereEqualAndHigher(c)
    BY DEF SqliteGet, PgGet, SqliteGetJoin, PgGetJoin, SqliteGetHigherThan, PgGetHigherThan,
           SqliteGetWhereEqualOrDifferent, PgGetWhereEqualOrDifferent, SqliteGetWhereEqualAndHigher,
           PgGetWhereEqualAndHigher, Sqlite_get, Pg_get
  <1>6. ASSUME NEW m, NEW ts, NEW t, NEW ps, NEW j, NEW o
        PROVE  Sqlite_getMinMax(m, ts, t, ps, j, o) = Pg_getMinMax(m, ts, t, ps, j, o)
    BY DEF Sqlite_getMinMax, Pg_getMinMax
  <1>7. /\ SqliteGetMaxWhereEqual(c) = PgGetMaxWhereEqual(c)
        /\ SqliteGetMaxWhereEqualAndLower(c) = PgGetMaxWhereEqualAndLower(c)
        /\ SqliteGetMinWhereEqualAndHigher(c) = PgGetMinWhereEqualAndHigher(c)
        /\ SqliteGetMaxWhereEqualAndLowerJoin(c) = PgGetMaxWhereEqualAndLowerJoin(c)
    BY <1>6 DEF SqliteGetMaxWhereEqual, PgGetMaxWhereEqual,
           SqliteGetMaxWhereEqualAndLower, PgGetMaxWhereEqualAndLower,
           SqliteGetMinWhereEqualAndHigher, PgGetMinWhereEqualAndHigher,
           SqliteGetMaxWhereEqualAndLowerJoin, PgGetMaxWhereEqualAndLowerJoin
  <1> QED BY <1>1, <1>2, <1>3, <1>4, <1>5, <1>7
      DEF SqliteStatement, PgStatement, AlikeMethods, Methods, ReadMethods, WriteMethods

\* A call as the backend receives it: only getCount and getAll change their filters.
HandedFilter(c) ==
  CASE c.fn = "getAll" -> <<>>
    [] c.fn = "getCount" -> IF c.value = Null THEN <<>> ELSE <<[key |-> c.target, vals |-> <<c.value>>]>>
    [] OTHER -> c.f1

IsHanded(d, c) ==
  /\ d.fn = c.fn /\ d.table = c.table /\ d.tables = c.tables /\ d.f2 = c.f2 /\ d.join = c.join
  /\ d.order = c.order /\ d.target = c.target /\ d.value = c.value /\ d.values = c.values
  /\ d.cond1 = c.cond1 /\ d.cond2 = c.cond2 /\ d.conds = c.conds /\ d.search = c.search
  /\ d.f1 = HandedFilter(c)

LEMMA DatabaseCallIs ==
  ASSUME NEW c \in Call
  PROVE  DatabaseCall(c) = IdentityServerDbCall(c) /\ IsHanded(DatabaseCall(c), c)
  <1>1. DatabaseCall(c) = IdentityServerDbCall(c)
    BY DEF DatabaseCall, IdentityServerDbCall, IdGetCount, IdGetAll
  <1>2. CASE c.fn = "getCount"
    <2> DEFINE f == IF c.value = Null THEN <<>> ELSE <<[key |-> c.target, vals |-> <<c.value>>]>>
    <2>1. DatabaseCall(c) = [c EXCEPT !.f1 = f]
      BY <1>2 DEF DatabaseCall, getCount
    <2>2. HandedFilter(c) = f
      BY <1>2 DEF HandedFilter
    <2> HIDE DEF f
    <2>3. [c EXCEPT !.f1 = f].f1 = f
      BY DEF Call
    <2>4. \A x \in DOMAIN c : x # "f1" => [c EXCEPT !.f1 = f][x] = c[x]
      OBVIOUS
    <2>5. DOMAIN c = {"fn", "table", "tables", "f1", "f2", "join", "order", "target", "value", "values",
                      "cond1", "cond2", "conds", "search"}
      BY DEF Call
    <2> QED BY <1>1, <2>1, <2>2, <2>3, <2>4, <2>5 DEF IsHanded
  <1>3. CASE c.fn = "getAll"
    <2>1. DatabaseCall(c) = [c EXCEPT !.f1 = <<>>]
      BY <1>3 DEF DatabaseCall, getAll
    <2>5. HandedFilter(c) = <<>>
      BY <1>3 DEF HandedFilter
    <2>2. [c EXCEPT !.f1 = <<>>].f1 = <<>>
      BY DEF Call
    <2>3. \A x \in DOMAIN c : x # "f1" => [c EXCEPT !.f1 = <<>>][x] = c[x]
      OBVIOUS
    <2>4. DOMAIN c = {"fn", "table", "tables", "f1", "f2", "join", "order", "target", "value", "values",
                      "cond1", "cond2", "conds", "search"}
      BY DEF Call
    <2> QED BY <1>1, <2>1, <2>2, <2>3, <2>4, <2>5 DEF IsHanded
  <1>4. CASE c.fn \notin {"getCount", "getAll"}
    <2>1. DatabaseCall(c) = c
      BY <1>4 DEF DatabaseCall
    <2>2. HandedFilter(c) = c.f1
      BY <1>4 DEF HandedFilter
    <2> QED BY <1>1, <2>1, <2>2 DEF IsHanded
  <1> QED BY <1>1, <1>2, <1>3, <1>4

LEMMA StatementIs ==
  ASSUME NEW c \in Call, NEW b \in Backends
  PROVE  StatementOf(b, c) = Sent(EngineOf(b), DatabaseCall(c)) /\ EngineOf(b) \in Engines
  <1> DEFINE d == DatabaseCall(c)
  <1>1. d = IdentityServerDbCall(c) /\ d.fn = c.fn
    BY DatabaseCallIs DEF IsHanded
  <1>2. d.fn \in Methods
    BY <1>1 DEF Call, Methods
  <1> HIDE DEF d
  <1>3. IdPgStatement(d) = PgStatement(d) /\ IdSqliteStatement(d) = SqliteStatement(d)
    BY <1>2, IdPgSame, IdSqliteSame
  <1> QED BY <1>1, <1>3 DEF StatementOf, Sent, EngineOf, Engines, Backends, d

(***************************************************************************)
(* Every read sends a statement that selects what it wants                 *)
(***************************************************************************)
LEMMA MinMaxIs ==
  ASSUME NEW m, NEW tables, NEW target, NEW parts, NEW join, NEW order,
         NEW s, s = SelectWhere(tables, parts, join),
         NEW st, st = Pg_getMinMax(m, tables, target, parts, join, order)
  PROVE  /\ st.kind = "select" /\ st.tables = tables /\ st.agg = m /\ st.target = target
         /\ st.where = s.where /\ st.vals = s.vals
  <1> DEFINE c == Conditions(parts)
             w == LinkedTo(c.clause, JoinCondition(join), "AND")
             j == JoinComplete(join)
  <1>1. s = [Statement("select", tables, w, c.vals) EXCEPT !.wellFormed = j]
    BY DEF SelectWhere
  <1> HIDE DEF c, w, j
  <1>2. DOMAIN s = {"kind", "tables", "where", "vals", "set", "agg", "target", "wellFormed"}
    BY <1>1 DEF Statement
  <1>3. s.kind = "select" /\ s.tables = tables
    BY <1>1 DEF Statement
  <1>4. st = [s EXCEPT !.agg = m, !.target = target, !.wellFormed = @ /\ ~ order]
    BY DEF Pg_getMinMax
  <1>5. st.agg = m /\ st.target = target /\ \A x \in {"kind", "tables", "where", "vals"} : st[x] = s[x]
    BY <1>2, <1>4
  <1> QED BY <1>3, <1>5

\* The statement asks of the rows what the call wants of them.
Reads(e, c, st) ==
  /\ st.kind = "select" /\ st.tables = TablesOf(c)
  /\ IsExtreme(c) => st.agg \in {"MAX", "MIN"} /\ st.target = c.target
  /\ ~ IsExtreme(c) => st.agg = "none"
  /\ st.wellFormed => \A cand : ClauseHolds(e, st.where, st.vals, cand) <=> Wanted(e, c, cand)

LEMMA ReadsGet ==
  ASSUME NEW e, NEW c \in Call, c.fn = "get", NEW st, st = PgStatement(c)
  PROVE  Reads(e, c, st)
  <1>1. c.f1 \in Seq(Filter) /\ "=" \in PlainOps
    BY DEF Call, PlainOps, SqlComparaisonOperator
  <1>2. st = SelectWhere(<<c.table>>, <<Part("=", "WHERE", c.f1)>>, NoJoin)
    BY DEF PgStatement, PgGet, Pg_get
  <1>3. IsSelect(st, <<c.table>>, NoJoin) /\ SelectsOne(e, st, "=", c.f1, NoJoin)
    BY <1>1, <1>2, NoJoinIs, SelectOne
  <1>4. TablesOf(c) = <<c.table>> /\ ~ IsExtreme(c) /\ \A cand : Wanted(e, c, cand) <=> Meets("=", c.f1, cand)
    BY DEF TablesOf, IsExtreme, Wanted
  <1> QED BY <1>3, <1>4, NoJoinIs DEF Reads, IsSelect, SelectsOne

LEMMA ReadsGetHigherThan ==
  ASSUME NEW e, NEW c \in Call, c.fn = "getHigherThan", NEW st, st = PgStatement(c)
  PROVE  Reads(e, c, st)
  <1>1. c.f1 \in Seq(Filter) /\ ">" \in PlainOps
    BY DEF Call, PlainOps, SqlComparaisonOperator
  <1>2. st = SelectWhere(<<c.table>>, <<Part(">", "WHERE", c.f1)>>, NoJoin)
    BY DEF PgStatement, PgGetHigherThan, Pg_get
  <1>3. IsSelect(st, <<c.table>>, NoJoin) /\ SelectsOne(e, st, ">", c.f1, NoJoin)
    BY <1>1, <1>2, NoJoinIs, SelectOne
  <1>4. TablesOf(c) = <<c.table>> /\ ~ IsExtreme(c) /\ \A cand : Wanted(e, c, cand) <=> Meets(">", c.f1, cand)
    BY DEF TablesOf, IsExtreme, Wanted
  <1> QED BY <1>3, <1>4, NoJoinIs DEF Reads, IsSelect, SelectsOne

LEMMA ReadsGetJoin ==
  ASSUME NEW e, NEW c \in Call, c.fn = "getJoin", NEW st, st = PgStatement(c)
  PROVE  Reads(e, c, st)
  <1>1. c.f1 \in Seq(Filter) /\ "=" \in PlainOps /\ c.join \in Join
    BY DEF Call, PlainOps, SqlComparaisonOperator, Join, Pair
  <1>2. st = SelectWhere(c.tables, <<Part("=", "WHERE", c.f1)>>, c.join)
    BY DEF PgStatement, PgGetJoin, Pg_get
  <1>3. IsSelect(st, c.tables, c.join) /\ SelectsOne(e, st, "=", c.f1, c.join)
    BY <1>1, <1>2, SelectOne
  <1>4. /\ TablesOf(c) = c.tables /\ ~ IsExtreme(c)
        /\ \A cand : Wanted(e, c, cand) <=> Meets("=", c.f1, cand) /\ MeetsJoin(c.join, cand)
    BY DEF TablesOf, IsExtreme, Wanted
  <1> QED BY <1>3, <1>4 DEF Reads, IsSelect, SelectsOne

LEMMA ReadsGetWhereEqualOrDifferent ==
  ASSUME NEW e, NEW c \in Call, c.fn = "getWhereEqualOrDifferent", NEW st, st = PgStatement(c)
  PROVE  Reads(e, c, st)
  <1>1. c.f1 \in Seq(Filter) /\ c.f2 \in Seq(Filter) /\ "=" \in PlainOps /\ "<>" \in PlainOps
    BY DEF Call, PlainOps, SqlComparaisonOperator
  <1>2. st = SelectWhere(<<c.table>>, <<Part("=", "WHERE", c.f1), Part("<>", "OR", c.f2)>>, NoJoin)
    BY DEF PgStatement, PgGetWhereEqualOrDifferent, Pg_get
  <1>3. IsSelect(st, <<c.table>>, NoJoin) /\ SelectsEither(e, st, "=", c.f1, "<>", c.f2)
    BY <1>1, <1>2, SelectOr
  <1>4. /\ TablesOf(c) = <<c.table>> /\ ~ IsExtreme(c)
        /\ \A cand : Wanted(e, c, cand) <=>
             CASE AsksNothing(c.f1) -> Meets("<>", c.f2, cand)
               [] AsksNothing(c.f2) -> Meets("=", c.f1, cand)
               [] OTHER -> Meets("=", c.f1, cand) \/ Meets("<>", c.f2, cand)
    BY DEF TablesOf, IsExtreme, Wanted
  <1> QED BY <1>3, <1>4 DEF Reads, IsSelect, SelectsEither

LEMMA ReadsGetWhereEqualAndHigher ==
  ASSUME NEW e, NEW c \in Call, c.fn = "getWhereEqualAndHigher", NEW st, st = PgStatement(c)
  PROVE  Reads(e, c, st)
  <1>1. c.f1 \in Seq(Filter) /\ c.f2 \in Seq(Filter) /\ "=" \in PlainOps /\ ">" \in PlainOps
    BY DEF Call, PlainOps, SqlComparaisonOperator
  <1>2. st = SelectWhere(<<c.table>>, <<Part("=", "WHERE", c.f1), Part(">", "AND", c.f2)>>, NoJoin)
    BY DEF PgStatement, PgGetWhereEqualAndHigher, Pg_get
  <1>3. IsSelect(st, <<c.table>>, NoJoin) /\ SelectsBoth(e, st, "=", c.f1, ">", c.f2, NoJoin)
    BY <1>1, <1>2, NoJoinIs, SelectAnd
  <1>4. /\ TablesOf(c) = <<c.table>> /\ ~ IsExtreme(c)
        /\ \A cand : Wanted(e, c, cand) <=> Meets("=", c.f1, cand) /\ Meets(">", c.f2, cand)
    BY DEF TablesOf, IsExtreme, Wanted
  <1> QED BY <1>3, <1>4, NoJoinIs DEF Reads, IsSelect, SelectsBoth

LEMMA ReadsGetMaxWhereEqual ==
  ASSUME NEW e, NEW c \in Call, c.fn = "getMaxWhereEqual", NEW st, st = PgStatement(c)
  PROVE  Reads(e, c, st)
  <1> DEFINE s == SelectWhere(<<c.table>>, <<Part("=", "WHERE", c.f1)>>, NoJoin)
  <1>1. c.f1 \in Seq(Filter) /\ "=" \in PlainOps
    BY DEF Call, PlainOps, SqlComparaisonOperator
  <1>2. st = Pg_getMinMax("MAX", <<c.table>>, c.target, <<Part("=", "WHERE", c.f1)>>, NoJoin, c.order)
    BY DEF PgStatement, PgGetMaxWhereEqual
  <1>3. SelectsOne(e, s, "=", c.f1, NoJoin)
    BY <1>1, NoJoinIs, SelectOne
  <1>4. /\ st.kind = "select" /\ st.tables = <<c.table>> /\ st.agg = "MAX" /\ st.target = c.target
        /\ st.where = s.where /\ st.vals = s.vals
    BY <1>2, MinMaxIs
  <1>5. TablesOf(c) = <<c.table>> /\ IsExtreme(c) /\ \A cand : Wanted(e, c, cand) <=> Meets("=", c.f1, cand)
    BY DEF TablesOf, IsExtreme, Wanted
  <1> HIDE DEF s
  <1> QED BY <1>3, <1>4, <1>5, NoJoinIs DEF Reads, SelectsOne

LEMMA ReadsExtremeOfTwo ==
  ASSUME NEW e, NEW c \in Call, NEW op2 \in PlainOps, NEW m \in {"MAX", "MIN"},
         NEW tables, NEW join \in Join, tables = TablesOf(c), IsExtreme(c),
         \A cand : Wanted(e, c, cand) <=> Meets("=", c.f1, cand) /\ Meets(op2, c.f2, cand) /\ MeetsJoin(join, cand),
         NEW st, st = Pg_getMinMax(m, tables, c.target, <<Part("=", "WHERE", c.f1), Part(op2, "AND", c.f2)>>,
                                   join, c.order)
  PROVE  Reads(e, c, st)
  <1> DEFINE s == SelectWhere(tables, <<Part("=", "WHERE", c.f1), Part(op2, "AND", c.f2)>>, join)
  <1>1. c.f1 \in Seq(Filter) /\ c.f2 \in Seq(Filter) /\ "=" \in PlainOps
    BY DEF Call, PlainOps, SqlComparaisonOperator
  <1>3. SelectsBoth(e, s, "=", c.f1, op2, c.f2, join)
    BY <1>1, SelectAnd
  <1>4. /\ st.kind = "select" /\ st.tables = tables /\ st.agg = m /\ st.target = c.target
        /\ st.where = s.where /\ st.vals = s.vals
    BY MinMaxIs
  <1> HIDE DEF s
  <1> QED BY <1>3, <1>4 DEF Reads, SelectsBoth

LEMMA ReadsGetMaxWhereEqualAndLower ==
  ASSUME NEW e, NEW c \in Call, c.fn = "getMaxWhereEqualAndLower", NEW st, st = PgStatement(c)
  PROVE  Reads(e, c, st)
  <1>1. st = Pg_getMinMax("MAX", <<c.table>>, c.target, <<Part("=", "WHERE", c.f1), Part("<", "AND", c.f2)>>,
                          NoJoin, c.order)
    BY DEF PgStatement, PgGetMaxWhereEqualAndLower
  <1>2. "<" \in PlainOps /\ TablesOf(c) = <<c.table>> /\ IsExtreme(c)
    BY DEF TablesOf, IsExtreme, PlainOps, SqlComparaisonOperator
  <1>3. \A cand : Wanted(e, c, cand) <=> Meets("=", c.f1, cand) /\ Meets("<", c.f2, cand) /\ MeetsJoin(NoJoin, cand)
    BY NoJoinIs DEF Wanted
  <1> QED BY <1>1, <1>2, <1>3, NoJoinIs, ReadsExtremeOfTwo

LEMMA ReadsGetMinWhereEqualAndHigher ==
  ASSUME NEW e, NEW c \in Call, c.fn = "getMinWhereEqualAndHigher", NEW st, st = PgStatement(c)
  PROVE  Reads(e, c, st)
  <1>1. st = Pg_getMinMax("MIN", <<c.table>>, c.target, <<Part("=", "WHERE", c.f1), Part(">", "AND", c.f2)>>,
                          NoJoin, c.order)
    BY DEF PgStatement, PgGetMinWhereEqualAndHigher
  <1>2. ">" \in PlainOps /\ TablesOf(c) = <<c.table>> /\ IsExtreme(c)
    BY DEF TablesOf, IsExtreme, PlainOps, SqlComparaisonOperator
  <1>3. \A cand : Wanted(e, c, cand) <=> Meets("=", c.f1, cand) /\ Meets(">", c.f2, cand) /\ MeetsJoin(NoJoin, cand)
    BY NoJoinIs DEF Wanted
  <1> QED BY <1>1, <1>2, <1>3, NoJoinIs, ReadsExtremeOfTwo

LEMMA ReadsGetMaxWhereEqualAndLowerJoin ==
  ASSUME NEW e, NEW c \in Call, c.fn = "getMaxWhereEqualAndLowerJoin", NEW st, st = PgStatement(c)
  PROVE  Reads(e, c, st)
  <1>1. st = Pg_getMinMax("MAX", c.tables, c.target, <<Part("=", "WHERE", c.f1), Part("<", "AND", c.f2)>>,
                          c.join, c.order)
    BY DEF PgStatement, PgGetMaxWhereEqualAndLowerJoin
  <1>2. "<" \in PlainOps /\ TablesOf(c) = c.tables /\ IsExtreme(c) /\ c.join \in Join
    BY DEF TablesOf, IsExtreme, PlainOps, SqlComparaisonOperator, Call, Join, Pair
  <1>3. \A cand : Wanted(e, c, cand) <=> Meets("=", c.f1, cand) /\ Meets("<", c.f2, cand) /\ MeetsJoin(c.join, cand)
    BY DEF Wanted
  <1> QED BY <1>1, <1>2, <1>3, ReadsExtremeOfTwo

LEMMA ReadsGetAll ==
  ASSUME NEW e, NEW c \in Call, c.fn = "getAll", NEW d, IsHanded(d, c), NEW st, st = PgStatement(d)
  PROVE  Reads(e, c, st)
  <1> DEFINE none == <<>>
  <1>1. d.fn = "getAll" /\ d.table = c.table /\ d.f1 = none
    BY DEF IsHanded, HandedFilter
  <1>2. none \in Seq(Filter) /\ "=" \in PlainOps /\ \A cand : Meets("=", none, cand)
    BY DEF PlainOps, SqlComparaisonOperator, Meets
  <1> HIDE DEF none
  <1>3. st = SelectWhere(<<c.table>>, <<Part("=", "WHERE", none)>>, NoJoin)
    BY <1>1 DEF PgStatement, PgGet, Pg_get
  <1>4. IsSelect(st, <<c.table>>, NoJoin) /\ SelectsOne(e, st, "=", none, NoJoin)
    BY <1>2, <1>3, NoJoinIs, SelectOne
  <1>5. TablesOf(c) = <<c.table>> /\ ~ IsExtreme(c) /\ \A cand : Wanted(e, c, cand)
    BY DEF TablesOf, IsExtreme, Wanted
  <1> QED BY <1>2, <1>4, <1>5, NoJoinIs DEF Reads, IsSelect, SelectsOne

LEMMA ReadsGetCount ==
  ASSUME NEW e, NEW c \in Call, c.fn = "getCount", NEW d, IsHanded(d, c), NEW st, st = PgStatement(d)
  PROVE  Reads(e, c, st)
  <1> DEFINE ff == d.f1
  <1>1. d.fn = "getCount" /\ d.table = c.table
    BY DEF IsHanded
  <1>2. ff = IF c.value = Null THEN <<>> ELSE <<[key |-> c.target, vals |-> <<c.value>>]>>
    BY DEF IsHanded, HandedFilter
  <1>3. c.value \in Texts \/ c.value = Null
    BY DEF Call, Value
  <1>4. c.target \in Key
    BY DEF Call
  <1> HIDE DEF ff
  <1>5. /\ ff \in Seq(Filter)
        /\ \A cand : Meets("=", ff, cand) <=> (c.value # Null => (c.value = Empty \/ At(cand, c.target) = c.value))
    <2>1. CASE c.value = Null
      <3>1. ff = <<>>
        BY <1>2, <2>1
      <3> QED BY <2>1, <3>1 DEF Meets
    <2>2. CASE c.value # Null
      <3> DEFINE f == [key |-> c.target, vals |-> <<c.value>>]
      <3>1. ff = <<f>>
        BY <1>2, <2>2
      <3>2. f \in Filter
        BY <1>3, <1>4, <2>2 DEF Filter
      <3>3. f.key = c.target /\ f.vals = <<c.value>>
        OBVIOUS
      <3> HIDE DEF f
      <3>4. ff \in Seq(Filter) /\ DOMAIN ff = {1} /\ ff[1] = f
        BY <3>1, <3>2
      <3>5. Asks(f) <=> c.value # Empty
        BY <3>3 DEF Asks
      <3>6. ASSUME NEW cand
            PROVE  Meets("=", ff, cand) <=> (c.value # Null => (c.value = Empty \/ At(cand, c.target) = c.value))
        <4>1. Meets("=", ff, cand) <=> MeetsFilter("=", f, cand)
          BY <3>4 DEF Meets
        <4>2. DOMAIN f.vals = {1} /\ f.vals[1] = c.value
          BY <3>3
        <4>3. MeetsFilter("=", f, cand) <=> (c.value # Empty => Compares("pg", "=", At(cand, c.target), c.value))
          BY <3>3, <3>5, <4>2 DEF MeetsFilter
        <4>4. Compares("pg", "=", At(cand, c.target), c.value) <=> At(cand, c.target) = c.value
          BY <2>2 DEF Compares
        <4> QED BY <2>2, <4>1, <4>3, <4>4
      <3> QED BY <3>4, <3>6
    <2> QED BY <2>1, <2>2
  <1>6. "=" \in PlainOps
    BY DEF PlainOps, SqlComparaisonOperator
  <1>7. st = SelectWhere(<<c.table>>, <<Part("=", "WHERE", ff)>>, NoJoin)
    BY <1>1 DEF PgStatement, PgGet, Pg_get, ff
  <1>8. IsSelect(st, <<c.table>>, NoJoin) /\ SelectsOne(e, st, "=", ff, NoJoin)
    BY <1>5, <1>6, <1>7, NoJoinIs, SelectOne
  <1>9. /\ TablesOf(c) = <<c.table>> /\ ~ IsExtreme(c)
        /\ \A cand : Wanted(e, c, cand) <=> (c.value # Null => (c.value = Empty \/ At(cand, c.target) = c.value))
    BY DEF TablesOf, IsExtreme, Wanted
  <1> QED BY <1>5, <1>8, <1>9, NoJoinIs DEF Reads, IsSelect, SelectsOne

\* The columns of a search are alternatives.
LEMMA MatchMeans ==
  ASSUME NEW e, NEW search \in Seq(Key), search # <<>>, NEW needle, NEW cand,
         NEW w, w = [i \in DOMAIN search |-> [link |-> "OR", group |-> <<Atom(search[i], "LIKE", i)>>]],
         NEW V, V = [i \in DOMAIN search |-> needle]
  PROVE  ClauseHolds(e, w, V, cand) <=>
           \E i \in DOMAIN search : Compares(e, "LIKE", At(cand, search[i]), needle)
  <1> DEFINE n == Len(search)
  <1>1. DOMAIN search = 1..n /\ n \in Nat /\ n > 0
    OBVIOUS
  <1>2. \A i \in 1..n : w[i].link = "OR" /\ w[i].group = <<Atom(search[i], "LIKE", i)>>
    BY <1>1
  <1>3. DOMAIN w = 1..n /\ Len(w) = n /\ w # <<>>
    <2>1. DOMAIN w = 1..n
      BY <1>1
    <2> QED BY <1>1, <2>1
  <1>4. \A i \in 1..n : V[i] = needle
    BY <1>1
  <1> HIDE DEF n
  <1>5. ASSUME NEW i \in 1..n
        PROVE  GroupHolds(e, w[i].group, V, cand) <=> Compares(e, "LIKE", At(cand, search[i]), needle)
    <2> DEFINE a == Atom(search[i], "LIKE", i)
    <2>1. a.key = search[i] /\ a.op = "LIKE" /\ a.ph = i
      BY DEF Atom
    <2>2. w[i].group = <<a>>
      BY <1>2
    <2> HIDE DEF a
    <2>3. i # 0
      BY <1>1
    <2>4. AtomHolds(e, a, V, cand) <=> Compares(e, "LIKE", At(cand, search[i]), needle)
      BY <1>4, <2>1, <2>3 DEF AtomHolds, At
    <2>5. GroupHolds(e, <<a>>, V, cand) <=> AtomHolds(e, a, V, cand)
      BY DEF GroupHolds
    <2> QED BY <2>2, <2>4, <2>5
  <1> DEFINE Holds(k) == GroupHolds(e, w[k].group, V, cand)
  <1>6. ClauseHolds(e, w, V, cand) <=>
          \E i \in 1..n : \A k \in i..n : (\A j \in (i + 1)..k : w[j].link = "AND") => Holds(k)
    BY <1>2, <1>3 DEF ClauseHolds
  <1> HIDE DEF Holds
  <1>7. ASSUME NEW i \in 1..n
        PROVE  (\A k \in i..n : (\A j \in (i + 1)..k : w[j].link = "AND") => Holds(k)) <=> Holds(i)
    <2>1. i \in i..n /\ \A j \in (i + 1)..i : FALSE
      BY <1>1
    <2>2. ASSUME NEW k \in i..n, k # i
          PROVE  k \in (i + 1)..k /\ w[k].link = "OR"
      <3>1. k \in 1..n
        BY <1>1
      <3> QED BY <1>1, <1>2, <2>2, <3>1
    <2> QED BY <2>1, <2>2
  <1>8. ClauseHolds(e, w, V, cand) <=> \E i \in 1..n : Holds(i)
    BY <1>6, <1>7
  <1> QED BY <1>1, <1>5, <1>8 DEF Holds

LEMMA ReadsMatch ==
  ASSUME NEW e \in Engines, NEW c \in Call, c.fn = "match", c.value \in Texts, NEW st, st = Sent(e, c)
  PROVE  Reads(e, c, st)
  <1> DEFINE w == [i \in DOMAIN c.search |-> [link |-> "OR", group |-> <<Atom(c.search[i], "LIKE", i)>>]]
             needle == IF e = "pg" /\ Falsy(c.value) THEN Empty ELSE c.value
             V == [i \in DOMAIN c.search |-> needle]
             ok == c.search # <<>>
  <1>1. c.search \in Seq(Key) /\ c.value # Null /\ Empty # Null
    BY TextsAssumption DEF Call
  <1>2. st = [Statement("select", <<c.table>>, w, V) EXCEPT !.wellFormed = ok]
    <2>1. CASE e = "pg"
      BY <2>1 DEF Sent, PgStatement, PgMatch
    <2>2. CASE e # "pg"
      BY <2>2 DEF Sent, SqliteStatement, SqliteMatch
    <2> QED BY <2>1, <2>2
  <1>3. ASSUME ok, NEW cand
        PROVE  ClauseHolds(e, w, V, cand) <=> \E i \in DOMAIN c.search : Compares(e, "LIKE", At(cand, c.search[i]), needle)
    <2> HIDE DEF needle
    <2> QED BY <1>1, <1>3, MatchMeans
  <1>4. ASSUME NEW x
        PROVE  Compares(e, "LIKE", x, needle) <=> Finds(e, c.value, x)
    <2>0. e = "pg" \/ e = "sqlite"
      BY DEF Engines
    <2>1. needle # Null
      BY <1>1
    <2>2. Compares(e, "LIKE", x, needle) <=> x # Null /\ Like(e, needle, x)
      <3> HIDE DEF needle
      <3> QED BY <2>1 DEF Compares
    <2>3. Like(e, needle, x) <=> Like(e, c.value, x) \/ (e = "pg" /\ c.value = "0")
      <3>1. CASE e = "pg" /\ Falsy(c.value)
        <4>1. needle = Empty /\ (c.value = Empty \/ c.value = "0")
          BY <1>1, <3>1 DEF Falsy
        <4> HIDE DEF needle
        <4> QED BY <3>1, <4>1 DEF Like
      <3>2. CASE ~ (e = "pg" /\ Falsy(c.value))
        <4>1. needle = c.value /\ ~ (e = "pg" /\ c.value = "0")
          BY <3>2 DEF Falsy
        <4> HIDE DEF needle
        <4> QED BY <4>1
      <3> QED BY <3>1, <3>2
    <2> QED BY <2>2, <2>3 DEF Finds
  <1> HIDE DEF w, V, needle, ok
  <1>5. /\ st.kind = "select" /\ st.tables = <<c.table>> /\ st.agg = "none" /\ st.where = w /\ st.vals = V
        /\ st.wellFormed = ok
    BY <1>2 DEF Statement
  <1>6. /\ TablesOf(c) = <<c.table>> /\ ~ IsExtreme(c)
        /\ \A cand : Wanted(e, c, cand) <=> \E i \in DOMAIN c.search : Finds(e, c.value, At(cand, c.search[i]))
    BY DEF TablesOf, IsExtreme, Wanted
  <1>7. ASSUME ok, NEW cand
        PROVE  ClauseHolds(e, w, V, cand) <=> Wanted(e, c, cand)
    BY <1>3, <1>4, <1>6, <1>7
  <1> QED BY <1>5, <1>6, <1>7 DEF Reads

\* Every method that reads, on both engines.
LEMMA EveryRead ==
  ASSUME NEW e \in Engines, NEW c \in ReadCalls
  PROVE  Reads(e, c, Sent(e, DatabaseCall(c)))
  <1> DEFINE d == DatabaseCall(c)
             st == Sent(e, d)
  <1>0. SUFFICES Reads(e, c, st)
    OBVIOUS
  <1>1. c \in Call /\ c.fn \in ReadMethods /\ (c.fn = "match" => c.value \in Texts)
    BY ReadCallsAssumption
  <1>2. IsHanded(d, c)
    BY <1>1, DatabaseCallIs
  <1>3. d.fn = c.fn /\ (c.fn \notin {"getCount", "getAll"} => d = c)
    <2>1. d.fn = c.fn
      BY <1>2 DEF IsHanded
    <2>2. c.fn \notin {"getCount", "getAll"} => d = c
      BY DEF DatabaseCall
    <2> QED BY <2>1, <2>2
  <1> HIDE DEF d
  <1>4. c.fn # "match" => st = PgStatement(d)
    <2>1. c.fn # "match" => d.fn \in AlikeMethods
      BY <1>1, <1>3 DEF AlikeMethods, Methods, ReadMethods
    <2>2. c.fn # "match" => SqliteStatement(d) = PgStatement(d)
      BY <2>1, SqliteAlike
    <2> QED BY <2>2 DEF Sent
  <1> HIDE DEF st
  <1>5. CASE c.fn = "get"
    BY <1>1, <1>3, <1>4, <1>5, ReadsGet
  <1>6. CASE c.fn = "getCount"
    BY <1>1, <1>2, <1>4, <1>6, ReadsGetCount
  <1>7. CASE c.fn = "getAll"
    BY <1>1, <1>2, <1>4, <1>7, ReadsGetAll
  <1>8. CASE c.fn = "getJoin"
    BY <1>1, <1>3, <1>4, <1>8, ReadsGetJoin
  <1>9. CASE c.fn = "getHigherThan"
    BY <1>1, <1>3, <1>4, <1>9, ReadsGetHigherThan
  <1>10. CASE c.fn = "getWhereEqualOrDifferent"
    BY <1>1, <1>3, <1>4, <1>10, ReadsGetWhereEqualOrDifferent
  <1>11. CASE c.fn = "getWhereEqualAndHigher"
    BY <1>1, <1>3, <1>4, <1>11, ReadsGetWhereEqualAndHigher
  <1>12. CASE c.fn = "getMaxWhereEqual"
    BY <1>1, <1>3, <1>4, <1>12, ReadsGetMaxWhereEqual
  <1>13. CASE c.fn = "getMaxWhereEqualAndLower"
    BY <1>1, <1>3, <1>4, <1>13, ReadsGetMaxWhereEqualAndLower
  <1>14. CASE c.fn = "getMinWhereEqualAndHigher"
    BY <1>1, <1>3, <1>4, <1>14, ReadsGetMinWhereEqualAndHigher
  <1>15. CASE c.fn = "getMaxWhereEqualAndLowerJoin"
    BY <1>1, <1>3, <1>4, <1>15, ReadsGetMaxWhereEqualAndLowerJoin
  <1>16. CASE c.fn = "match"
    <2>1. st = Sent(e, c)
      BY <1>3, <1>16 DEF st
    <2> QED BY <1>1, <1>16, <2>1, ReadsMatch
  <1> QED
    BY <1>1, <1>5, <1>6, <1>7, <1>8, <1>9, <1>10, <1>11, <1>12, <1>13, <1>14, <1>15, <1>16 DEF ReadMethods

(***************************************************************************)
(* The rows of an extreme                                                  *)
(***************************************************************************)
Row == [Columns -> Value]
Store == {D \in [Tables -> SUBSET Row] : \A t \in Tables : IsFiniteSet(D[t])}

LEMMA FiniteBound ==
  ASSUME NEW S, IsFiniteSet(S), NEW g \in [S -> Nat]
  PROVE  \E m \in Nat : \A x \in S : g[x] <= m
  <1>1. PICK n \in Nat : ExistsSurjection(1..n, S)
    BY FS_NatSurjection
  <1>2. PICK f \in Surjection(1..n, S) : TRUE
    BY <1>1 DEF ExistsSurjection
  <1>3. f \in [1..n -> S] /\ \A x \in S : \E i \in 1..n : f[i] = x
    BY <1>2 DEF Surjection
  <1> DEFINE P == {k \in 0..n : \E m \in Nat : \A i \in 1..k : g[f[i]] <= m}
  <1>4. 0 \in P
    OBVIOUS
  <1>5. ASSUME NEW k \in 1..n, k - 1 \in P PROVE k \in P
    <2>1. PICK m \in Nat : \A i \in 1..(k - 1) : g[f[i]] <= m
      BY <1>5
    <2>2. g[f[k]] \in Nat
      BY <1>3
    <2>3. \A i \in 1..k : g[f[i]] \in Nat
      BY <1>3
    <2>4. ASSUME NEW i \in 1..k PROVE g[f[i]] <= m + g[f[k]]
      <3>1. CASE i = k
        BY <2>2, <3>1
      <3>2. CASE i # k
        <4>1. g[f[i]] <= m
          BY <2>1, <3>2
        <4> QED BY <2>2, <2>3, <4>1
      <3> QED BY <3>1, <3>2
    <2> DEFINE q == m + g[f[k]]
    <2>5. q \in Nat /\ \A i \in 1..k : g[f[i]] <= q
      BY <2>2, <2>4
    <2> HIDE DEF q
    <2>6. \E j \in Nat : \A i \in 1..k : g[f[i]] <= j
      BY <2>5
    <2> QED BY <2>6
  <1>6. 0..n \subseteq P
    <2> HIDE DEF P
    <2> QED BY <1>4, <1>5, Induction
  <1>7. PICK m \in Nat : \A i \in 1..n : g[f[i]] <= m
    <2>1. n \in P
      <3> HIDE DEF P
      <3> QED BY <1>6
    <2> QED BY <2>1
  <1> QED BY <1>3, <1>7

\* A choice by a number that is bounded has a greatest and a least.
LEMMA Extremes ==
  ASSUME NEW S, S # {}, NEW g \in [S -> Nat], NEW m \in Nat, \A x \in S : g[x] <= m
  PROVE  /\ \E x \in S : \A y \in S : ~ (g[y] > g[x])
         /\ \E x \in S : \A y \in S : ~ (g[y] < g[x])
  <1> DEFINE L == {g[x] : x \in S}
             G == {m - g[x] : x \in S}
  <1>1. \A x \in S : g[x] \in Nat /\ m - g[x] \in Nat
    OBVIOUS
  <1>2. L \subseteq Nat /\ L # {} /\ G \subseteq Nat /\ G # {}
    BY <1>1
  <1>3. PICK a \in L : \A y \in L : a <= y
    <2> HIDE DEF L, G
    <2> QED BY <1>2, SmallestNumber
  <1>4. PICK b \in G : \A y \in G : b <= y
    <2> HIDE DEF L, G
    <2> QED BY <1>2, SmallestNumber
  <1>5. PICK x \in S : a = g[x]
    BY <1>3
  <1>6. \A y \in S : ~ (g[y] < g[x])
    <2> SUFFICES ASSUME NEW y \in S PROVE ~ (g[y] < g[x])
      OBVIOUS
    <2>1. g[y] \in L /\ g[x] \in Nat /\ g[y] \in Nat
      OBVIOUS
    <2>2. g[x] <= g[y]
      <3> HIDE DEF L
      <3> QED BY <1>3, <1>5, <2>1
    <2> QED BY <2>1, <2>2
  <1>7. PICK z \in S : b = m - g[z]
    BY <1>4
  <1>8. \A y \in S : ~ (g[y] > g[z])
    <2> SUFFICES ASSUME NEW y \in S PROVE ~ (g[y] > g[z])
      OBVIOUS
    <2>1. m - g[y] \in G /\ g[z] \in Nat /\ g[y] \in Nat
      OBVIOUS
    <2>2. m - g[z] <= m - g[y]
      <3> HIDE DEF G
      <3> QED BY <1>4, <1>7, <2>1
    <2> QED BY <2>1, <2>2
  <1> QED BY <1>6, <1>8

LEMMA ExtremeRowsAre ==
  ASSUME NEW e, NEW st, NEW D \in Store, st.target \in Key, st.target[1] \in ToSet(st.tables),
         st.agg \in {"MAX", "MIN"}
  PROVE  /\ ExtremeRows(e, st, D) \subseteq Selected(e, st, D)
         /\ ExtremeRows(e, st, D) = {} <=> Selected(e, st, D) = {}
  <1> DEFINE sel == Selected(e, st, D)
             t == st.target[1]
             col == st.target[2]
             of(c) == c[t][col]
             known == {c \in sel : of(c) # Null}
             beyond(x, y) == IF st.agg = "MAX" THEN Rank[x] > Rank[y] ELSE Rank[x] < Rank[y]
             best == {c \in known : \A d \in known : ~ beyond(of(d), of(c))}
  <1>1. ExtremeRows(e, st, D) = IF known = {} THEN sel ELSE best
    BY DEF ExtremeRows
  <1>2. t \in Tables /\ col \in Columns
    BY DEF Key
  <1>3. D[t] \subseteq Row /\ IsFiniteSet(D[t])
    BY <1>2 DEF Store
  <1>4. \A c \in sel : c[t] \in D[t]
    BY DEF Selected, Candidates
  <1>5. \A r \in D[t] : r[col] # Null => r[col] \in Texts
    BY <1>2, <1>3 DEF Row, Value
  <1>6. \A c \in known : of(c) \in Texts /\ Rank[of(c)] \in Nat
    BY <1>4, <1>5, CollationAssumption
  <1> DEFINE h == [r \in D[t] |-> IF r[col] = Null THEN 0 ELSE Rank[r[col]]]
  <1>7. h \in [D[t] -> Nat]
    BY <1>5, CollationAssumption
  <1>8. PICK m \in Nat : \A r \in D[t] : h[r] <= m
    <2> HIDE DEF h
    <2> QED BY <1>3, <1>7, FiniteBound
  <1>9. \A c \in known : Rank[of(c)] <= m
    <2> SUFFICES ASSUME NEW c \in known PROVE Rank[of(c)] <= m
      OBVIOUS
    <2>1. c[t] \in D[t] /\ c[t][col] # Null
      BY <1>4
    <2>2. h[c[t]] = Rank[c[t][col]]
      BY <2>1
    <2> QED BY <1>8, <2>1, <2>2
  <1> HIDE DEF h, sel
  <1>10. ASSUME known # {} PROVE best # {}
    <2> DEFINE g == [c \in known |-> Rank[of(c)]]
    <2>1. g \in [known -> Nat] /\ \A c \in known : g[c] <= m /\ g[c] = Rank[of(c)]
      BY <1>6, <1>9
    <2> HIDE DEF g
    <2>2. /\ \E x \in known : \A y \in known : ~ (g[y] > g[x])
          /\ \E x \in known : \A y \in known : ~ (g[y] < g[x])
      <3> HIDE DEF known
      <3> QED BY <1>8, <1>10, <2>1, Extremes
    <2>3. /\ \E x \in known : \A y \in known : ~ (Rank[of(y)] > Rank[of(x)])
          /\ \E x \in known : \A y \in known : ~ (Rank[of(y)] < Rank[of(x)])
      <3> HIDE DEF known
      <3> QED BY <2>1, <2>2
    <2> QED BY <2>3
  <1>11. best \subseteq sel /\ known \subseteq sel
    OBVIOUS
  <1> QED BY <1>1, <1>10, <1>11 DEF sel

\* What the answer r to the read c has to be, on rows D.
RightRead(e, c, D, r) ==
  LET wanted == {x \in Candidates(D, TablesOf(c)) : Wanted(e, c, x)}
  IN  /\ r.db = D
      /\ r.ok => /\ r.rows \subseteq wanted
                 /\ ~ IsExtreme(c) => r.rows = wanted
                 /\ IsExtreme(c) => (r.rows = {} <=> wanted = {})

LEMMA ReadResult ==
  ASSUME NEW e \in Engines, NEW c \in ReadCalls, NEW D \in Store,
         NEW r, r = Execute(e, Sent(e, DatabaseCall(c)), D)
  PROVE  RightRead(e, c, D, r)
  <1> DEFINE st == Sent(e, DatabaseCall(c))
             wanted == {x \in Candidates(D, TablesOf(c)) : Wanted(e, c, x)}
  <1>1. Reads(e, c, st)
    BY EveryRead
  <1>2. c \in Call /\ (IsExtreme(c) => c.target[1] \in ToSet(TablesOf(c)))
    BY ReadCallsAssumption
  <1>3. c.target \in Key
    BY <1>2 DEF Call
  <1>4. r = Execute(e, st, D)
    OBVIOUS
  <1> HIDE DEF st
  <1>5. CASE ~ st.wellFormed
    <2>1. r = Failed(D)
      BY <1>4, <1>5 DEF Execute
    <2>2. r.db = D /\ ~ r.ok
      BY <2>1 DEF Failed, Result
    <2> QED BY <2>2 DEF RightRead
  <1>6. CASE st.wellFormed
    <2>1. Selected(e, st, D) = wanted
      BY <1>1, <1>6 DEF Reads, Selected
    <2> HIDE DEF wanted
    <2>2. CASE ~ IsExtreme(c)
      <3>1. r = Result(TRUE, wanted, D)
        BY <1>1, <1>4, <1>6, <2>1, <2>2 DEF Execute, Reads
      <3>2. r.db = D /\ r.rows = wanted
        BY <3>1 DEF Result
      <3> QED BY <2>2, <3>2 DEF RightRead, wanted
    <2>3. CASE IsExtreme(c)
      <3>1. st.kind = "select" /\ st.agg \in {"MAX", "MIN"} /\ st.target = c.target /\ st.tables = TablesOf(c)
        BY <1>1, <2>3 DEF Reads
      <3>2. CASE e = "pg"
        <4>1. r = Failed(D)
          BY <1>4, <1>6, <3>1, <3>2 DEF Execute
        <4>2. r.db = D /\ ~ r.ok
          BY <4>1 DEF Failed, Result
        <4> QED BY <4>2 DEF RightRead
      <3>3. CASE e = "sqlite"
        <4> DEFINE best == ExtremeRows(e, st, D)
        <4>1. best \subseteq wanted /\ (best = {} <=> wanted = {})
          BY <1>2, <1>3, <2>1, <2>3, <3>1, ExtremeRowsAre
        <4> HIDE DEF best
        <4>2. r = Result(TRUE, best, D)
          BY <1>4, <1>6, <3>1, <3>3 DEF Execute, best
        <4>3. r.db = D /\ r.rows = best
          BY <4>2 DEF Result
        <4> QED BY <2>3, <4>1, <4>3 DEF RightRead, wanted
      <3> QED BY <3>2, <3>3 DEF Engines
    <2> QED BY <2>2, <2>3
  <1> QED BY <1>5, <1>6

(***************************************************************************)
(* Every write sends a statement that reaches the rows it names            *)
(***************************************************************************)
LEMMA AtomMeans ==
  ASSUME NEW e, NEW V, NEW cand, NEW key, NEW op \in PlainOps, NEW ph \in Nat \ {0},
         NEW g, g = <<Atom(key, op, ph)>>
  PROVE  GroupHolds(e, g, V, cand) <=> Compares("pg", op, At(cand, key), V[ph])
  <1> DEFINE a == Atom(key, op, ph)
  <1>1. a.key = key /\ a.op = op /\ a.ph = ph
    BY DEF Atom
  <1>2. g = <<a>>
    OBVIOUS
  <1> HIDE DEF a
  <1>3. GroupHolds(e, g, V, cand) <=> AtomHolds(e, a, V, cand)
    BY <1>2 DEF GroupHolds
  <1>4. AtomHolds(e, a, V, cand) = Compares(e, op, At(cand, key), V[ph])
    BY <1>1 DEF AtomHolds, At
  <1> QED BY <1>3, <1>4, ComparesAlike

LEMMA OneConditionMeans ==
  ASSUME NEW e, NEW V, NEW cand, NEW key, NEW op \in PlainOps, NEW ph \in Nat \ {0},
         NEW w, w = <<[link |-> "WHERE", group |-> <<Atom(key, op, ph)>>]>>
  PROVE  ClauseHolds(e, w, V, cand) <=> Compares("pg", op, At(cand, key), V[ph])
  <1> DEFINE g == <<Atom(key, op, ph)>>
             p == [link |-> "WHERE", group |-> g]
  <1>1. GroupHolds(e, g, V, cand) <=> Compares("pg", op, At(cand, key), V[ph])
    BY AtomMeans
  <1> HIDE DEF g
  <1>2. p.group = g /\ w = <<p>>
    BY DEF g
  <1> HIDE DEF p
  <1>3. w \in Seq({p}) /\ Len(w) = 1 /\ DOMAIN w = {1} /\ w[1] = p
    BY <1>2
  <1>4. AndLinked(w)
    BY <1>3 DEF AndLinked
  <1>5. ClauseHolds(e, w, V, cand) <=> AllHold(e, w, V, cand)
    BY <1>3, <1>4, AndClauseMeans
  <1> QED BY <1>1, <1>2, <1>3, <1>5 DEF AllHold

LEMMA TwoConditionsMean ==
  ASSUME NEW e, NEW V, NEW cand, NEW key, NEW op \in PlainOps, NEW ph \in Nat \ {0},
         NEW key2, NEW op2 \in PlainOps, NEW ph2 \in Nat \ {0},
         NEW w, w = <<[link |-> "WHERE", group |-> <<Atom(key, op, ph)>>],
                      [link |-> "AND", group |-> <<Atom(key2, op2, ph2)>>]>>
  PROVE  ClauseHolds(e, w, V, cand) <=>
           Compares("pg", op, At(cand, key), V[ph]) /\ Compares("pg", op2, At(cand, key2), V[ph2])
  <1> DEFINE g == <<Atom(key, op, ph)>>
             h == <<Atom(key2, op2, ph2)>>
             p == [link |-> "WHERE", group |-> g]
             q == [link |-> "AND", group |-> h]
  <1>1. /\ GroupHolds(e, g, V, cand) <=> Compares("pg", op, At(cand, key), V[ph])
        /\ GroupHolds(e, h, V, cand) <=> Compares("pg", op2, At(cand, key2), V[ph2])
    BY AtomMeans
  <1> HIDE DEF g, h
  <1>2. p.group = g /\ q.group = h /\ q.link = "AND" /\ w = <<p, q>>
    BY DEF g, h
  <1> HIDE DEF p, q
  <1>3. w \in Seq({p, q}) /\ Len(w) = 2 /\ DOMAIN w = {1, 2} /\ w[1] = p /\ w[2] = q
    BY <1>2
  <1>4. AndLinked(w)
    BY <1>2, <1>3 DEF AndLinked
  <1>5. ClauseHolds(e, w, V, cand) <=> AllHold(e, w, V, cand)
    BY <1>3, <1>4, AndClauseMeans
  <1> QED BY <1>1, <1>2, <1>3, <1>5 DEF AllHold

\* The statement changes what the call names, and assigns what the call assigns.
Assigns(c, st) ==
  st.set = c.values.names /\ \A i \in DOMAIN c.values.names : st.vals[i] = c.values.vals[i]

Reaches(e, c, st) == \A cand : ClauseHolds(e, st.where, st.vals, cand) <=> Named(c, cand[c.table])

Writes(e, c, st) ==
  st.wellFormed =>
    /\ st.tables = <<c.table>>
    /\ c.fn = "insert" => st.kind = "insert" /\ Assigns(c, st)
    /\ c.fn \in {"update", "updateAnd"} => st.kind = "update" /\ Assigns(c, st) /\ Reaches(e, c, st)
    /\ IsDelete(c) => st.kind = "delete" /\ Reaches(e, c, st)

\* An equality with a text is never unknown.
LEMMA EqualityIs ==
  ASSUME NEW cond \in Condition, NEW t, cond.field[1] = t, NEW cand
  PROVE  /\ Compares("pg", "=", At(cand, cond.field), cond.value) <=> cand[t][cond.field[2]] = cond.value
         /\ Compares("pg", "<", At(cand, cond.field), cond.value)
              <=> Compares("pg", "<", cand[t][cond.field[2]], cond.value)
  <1>1. cond.value # Null
    BY TextsAssumption DEF Condition
  <1> QED BY <1>1 DEF Compares, At

WriteCall(c) ==
  /\ c \in Call /\ Len(c.values.names) = Len(c.values.vals)
  /\ c.fn # "insert" => /\ c.cond1.field[1] = c.table /\ c.cond2.field[1] = c.table
                        /\ \A i \in DOMAIN c.conds : c.conds[i].field[1] = c.table

LEMMA WritesInsert ==
  ASSUME NEW e, NEW c, WriteCall(c), c.fn = "insert", NEW st, st = PgStatement(c)
  PROVE  Writes(e, c, st)
  <1>1. st = [Statement("insert", <<c.table>>, <<>>, c.values.vals) EXCEPT !.set = c.values.names]
    BY DEF PgStatement, PgInsert
  <1>2. st.kind = "insert" /\ st.tables = <<c.table>> /\ st.set = c.values.names /\ st.vals = c.values.vals
    BY <1>1 DEF Statement
  <1> QED BY <1>2 DEF Writes, Assigns, IsDelete

LEMMA WritesUpdate ==
  ASSUME NEW e, NEW c, WriteCall(c), c.fn = "update", NEW st, st = PgStatement(c)
  PROVE  Writes(e, c, st)
  <1> DEFINE vals == Append(c.values.vals, c.cond1.value)
             n == Len(vals)
             w == <<[link |-> "WHERE", group |-> <<Atom(c.cond1.field, "=", n)>>]>>
             ok == c.values.names # <<>>
  <1>0. /\ c.values.vals \in Seq(Texts) /\ c.values.names \in Seq(Columns) /\ c.cond1 \in Condition
        /\ Len(c.values.names) = Len(c.values.vals) /\ c.cond1.field[1] = c.table /\ c.cond1.value \in Texts
    BY DEF WriteCall, Call, Condition
  <1>1. st = [Statement("update", <<c.table>>, w, vals) EXCEPT !.set = c.values.names, !.wellFormed = ok]
    BY DEF PgStatement, PgUpdate
  <1>2. n \in Nat \ {0} /\ vals[n] = c.cond1.value /\ \A i \in DOMAIN c.values.names : vals[i] = c.values.vals[i]
    <2>1. DOMAIN c.values.names = 1..Len(c.values.vals) /\ Len(c.values.vals) \in Nat
      BY <1>0
    <2> QED BY <1>0, <2>1
  <1>3. "=" \in PlainOps
    BY DEF PlainOps, SqlComparaisonOperator
  <1>4. ASSUME NEW cand
        PROVE  ClauseHolds(e, w, vals, cand) <=> Compares("pg", "=", At(cand, c.cond1.field), vals[n])
    <2> HIDE DEF vals, n
    <2> QED BY <1>2, <1>3, OneConditionMeans
  <1>5. \A cand : Named(c, cand[c.table]) <=> cand[c.table][c.cond1.field[2]] = c.cond1.value
    BY DEF Named
  <1> HIDE DEF vals, n, w, ok
  <1>6. st.kind = "update" /\ st.tables = <<c.table>> /\ st.set = c.values.names /\ st.vals = vals /\ st.where = w
    BY <1>1 DEF Statement
  <1>7. Reaches(e, c, st)
    <2> SUFFICES ASSUME NEW cand PROVE ClauseHolds(e, w, vals, cand) <=> Named(c, cand[c.table])
      BY <1>6 DEF Reaches
    <2>1. Compares("pg", "=", At(cand, c.cond1.field), c.cond1.value)
            <=> cand[c.table][c.cond1.field[2]] = c.cond1.value
      BY <1>0, EqualityIs
    <2> QED BY <1>2, <1>4, <1>5, <2>1
  <1> QED BY <1>2, <1>6, <1>7 DEF Writes, Assigns, IsDelete

LEMMA ConcatIs ==
  ASSUME NEW a \in Seq(Texts), NEW b \in Seq(Texts)
  PROVE  /\ Len(a \o b) = Len(a) + Len(b)
         /\ \A i \in 1..Len(a) : (a \o b)[i] = a[i]
         /\ \A i \in 1..Len(b) : (a \o b)[Len(a) + i] = b[i]
  OBVIOUS

LEMMA WritesUpdateAnd ==
  ASSUME NEW e, NEW c, WriteCall(c), c.fn = "updateAnd", NEW st, st = PgStatement(c)
  PROVE  Writes(e, c, st)
  <1> DEFINE two == <<c.cond1.value, c.cond2.value>>
             vals == c.values.vals \o two
             n == Len(vals)
             w == <<[link |-> "WHERE", group |-> <<Atom(c.cond1.field, "=", n - 1)>>],
                    [link |-> "AND", group |-> <<Atom(c.cond2.field, "=", n)>>]>>
             ok == c.values.names # <<>>
  <1>0. /\ c.values.vals \in Seq(Texts) /\ c.values.names \in Seq(Columns)
        /\ Len(c.values.names) = Len(c.values.vals)
        /\ c.cond1 \in Condition /\ c.cond1.field[1] = c.table /\ c.cond1.value \in Texts
        /\ c.cond2 \in Condition /\ c.cond2.field[1] = c.table /\ c.cond2.value \in Texts
    BY DEF WriteCall, Call, Condition
  <1>1. st = [Statement("update", <<c.table>>, w, vals) EXCEPT !.set = c.values.names, !.wellFormed = ok]
    BY DEF PgStatement, PgUpdateAnd
  <1>2. /\ n \in Nat \ {0} /\ n - 1 \in Nat \ {0} /\ vals[n - 1] = c.cond1.value /\ vals[n] = c.cond2.value
        /\ \A i \in DOMAIN c.values.names : vals[i] = c.values.vals[i]
    <2>1. DOMAIN c.values.names = 1..Len(c.values.vals) /\ Len(c.values.vals) \in Nat
      BY <1>0
    <2>2. two \in Seq(Texts) /\ Len(two) = 2 /\ two[1] = c.cond1.value /\ two[2] = c.cond2.value
      BY <1>0
    <2> HIDE DEF two
    <2> DEFINE u == c.values.vals
    <2>7. u \in Seq(Texts)
      BY <1>0
    <2> HIDE DEF u
    <2>8. /\ Len(u \o two) = Len(u) + Len(two)
          /\ \A i \in 1..Len(u) : (u \o two)[i] = u[i]
          /\ \A i \in 1..Len(two) : (u \o two)[Len(u) + i] = two[i]
      BY <2>2, <2>7, ConcatIs
    <2>3. n = Len(c.values.vals) + 2
      BY <2>2, <2>8 DEF u
    <2>4. \A i \in 1..Len(c.values.vals) : vals[i] = c.values.vals[i]
      BY <2>8 DEF u
    <2>5. vals[Len(c.values.vals) + 1] = two[1] /\ vals[Len(c.values.vals) + 2] = two[2]
      BY <2>2, <2>8 DEF u
    <2> HIDE DEF vals, n
    <2>6. n - 1 = Len(c.values.vals) + 1
      BY <2>1, <2>3
    <2> QED BY <2>1, <2>2, <2>3, <2>4, <2>5, <2>6
  <1>3. "=" \in PlainOps
    BY DEF PlainOps, SqlComparaisonOperator
  <1>4. ASSUME NEW cand
        PROVE  ClauseHolds(e, w, vals, cand) <=> /\ Compares("pg", "=", At(cand, c.cond1.field), vals[n - 1])
                                                 /\ Compares("pg", "=", At(cand, c.cond2.field), vals[n])
    <2> DEFINE m == n - 1
    <2>1. m \in Nat \ {0} /\ w = <<[link |-> "WHERE", group |-> <<Atom(c.cond1.field, "=", m)>>],
                                   [link |-> "AND", group |-> <<Atom(c.cond2.field, "=", n)>>]>>
      BY <1>2
    <2> HIDE DEF vals, n, m, w
    <2>2. ClauseHolds(e, w, vals, cand) <=> /\ Compares("pg", "=", At(cand, c.cond1.field), vals[m])
                                            /\ Compares("pg", "=", At(cand, c.cond2.field), vals[n])
      BY <1>2, <1>3, <2>1, TwoConditionsMean
    <2> QED BY <2>2 DEF m
  <1>5. \A cand : Named(c, cand[c.table]) <=> /\ cand[c.table][c.cond1.field[2]] = c.cond1.value
                                              /\ cand[c.table][c.cond2.field[2]] = c.cond2.value
    BY DEF Named
  <1> HIDE DEF vals, n, w, ok
  <1>6. st.kind = "update" /\ st.tables = <<c.table>> /\ st.set = c.values.names /\ st.vals = vals /\ st.where = w
    BY <1>1 DEF Statement
  <1>7. Reaches(e, c, st)
    <2> SUFFICES ASSUME NEW cand PROVE ClauseHolds(e, w, vals, cand) <=> Named(c, cand[c.table])
      BY <1>6 DEF Reaches
    <2>1. /\ Compares("pg", "=", At(cand, c.cond1.field), c.cond1.value)
               <=> cand[c.table][c.cond1.field[2]] = c.cond1.value
          /\ Compares("pg", "=", At(cand, c.cond2.field), c.cond2.value)
               <=> cand[c.table][c.cond2.field[2]] = c.cond2.value
      BY <1>0, EqualityIs
    <2> QED BY <1>2, <1>4, <1>5, <2>1
  <1> QED BY <1>2, <1>6, <1>7 DEF Writes, Assigns, IsDelete

LEMMA WritesDeleteEqual ==
  ASSUME NEW e, NEW c, WriteCall(c), c.fn = "deleteEqual", NEW st, st = Sent(e, c)
  PROVE  Writes(e, c, st)
  <1> DEFINE vals == <<c.cond1.value>>
             w == <<[link |-> "WHERE", group |-> <<Atom(c.cond1.field, "=", 1)>>]>>
  <1>0. c.cond1 \in Condition /\ c.cond1.field[1] = c.table
    BY DEF WriteCall, Call
  <1>1. st = Statement("delete", <<c.table>>, w, vals) \/ st = NoStatement
    <2>1. CASE e = "pg"
      BY <2>1 DEF Sent, PgStatement, PgDeleteEqual
    <2>2. CASE e # "pg"
      BY <2>2 DEF Sent, SqliteStatement, SqliteDeleteEqual
    <2> QED BY <2>1, <2>2
  <1>2. vals[1] = c.cond1.value /\ 1 \in Nat \ {0} /\ "=" \in PlainOps
    BY DEF PlainOps, SqlComparaisonOperator
  <1>3. ASSUME NEW cand
        PROVE  ClauseHolds(e, w, vals, cand) <=> Compares("pg", "=", At(cand, c.cond1.field), c.cond1.value)
    <2> HIDE DEF vals
    <2> QED BY <1>2, OneConditionMeans
  <1>4. \A cand : Named(c, cand[c.table]) <=> cand[c.table][c.cond1.field[2]] = c.cond1.value
    BY DEF Named
  <1> HIDE DEF vals, w
  <1>5. \A cand : ClauseHolds(e, w, vals, cand) <=> Named(c, cand[c.table])
    BY <1>0, <1>3, <1>4, EqualityIs
  <1>6. CASE st = NoStatement
    BY <1>6 DEF NoStatement, Statement, Writes
  <1>7. CASE st = Statement("delete", <<c.table>>, w, vals)
    <2>1. st.kind = "delete" /\ st.tables = <<c.table>> /\ st.vals = vals /\ st.where = w
      BY <1>7 DEF Statement
    <2> QED BY <1>5, <2>1 DEF Writes, Reaches
  <1> QED BY <1>1, <1>6, <1>7

LEMMA WritesDeleteLowerThan ==
  ASSUME NEW e, NEW c, WriteCall(c), c.fn = "deleteLowerThan", NEW st, st = Sent(e, c)
  PROVE  Writes(e, c, st)
  <1> DEFINE vals == <<c.cond1.value>>
             w == <<[link |-> "WHERE", group |-> <<Atom(c.cond1.field, "<", 1)>>]>>
  <1>0. c.cond1 \in Condition /\ c.cond1.field[1] = c.table
    BY DEF WriteCall, Call
  <1>1. st = Statement("delete", <<c.table>>, w, vals) \/ st = NoStatement
    <2>1. CASE e = "pg"
      BY <2>1 DEF Sent, PgStatement, PgDeleteLowerThan
    <2>2. CASE e # "pg"
      BY <2>2 DEF Sent, SqliteStatement, SqliteDeleteLowerThan
    <2> QED BY <2>1, <2>2
  <1>2. vals[1] = c.cond1.value /\ 1 \in Nat \ {0} /\ "<" \in PlainOps
    BY DEF PlainOps, SqlComparaisonOperator
  <1>3. ASSUME NEW cand
        PROVE  ClauseHolds(e, w, vals, cand) <=> Compares("pg", "<", At(cand, c.cond1.field), c.cond1.value)
    <2> HIDE DEF vals
    <2> QED BY <1>2, OneConditionMeans
  <1>4. \A cand : Named(c, cand[c.table]) <=> Compares("pg", "<", cand[c.table][c.cond1.field[2]], c.cond1.value)
    BY DEF Named
  <1> HIDE DEF vals, w
  <1>5. \A cand : ClauseHolds(e, w, vals, cand) <=> Named(c, cand[c.table])
    BY <1>0, <1>3, <1>4, EqualityIs
  <1>6. CASE st = NoStatement
    BY <1>6 DEF NoStatement, Statement, Writes
  <1>7. CASE st = Statement("delete", <<c.table>>, w, vals)
    <2>1. st.kind = "delete" /\ st.tables = <<c.table>> /\ st.vals = vals /\ st.where = w
      BY <1>7 DEF Statement
    <2> QED BY <1>5, <2>1 DEF Writes, Reaches
  <1> QED BY <1>1, <1>6, <1>7

LEMMA WritesDeleteEqualAnd ==
  ASSUME NEW e, NEW c, WriteCall(c), c.fn = "deleteEqualAnd", NEW st, st = Sent(e, c)
  PROVE  Writes(e, c, st)
  <1> DEFINE vals == <<c.cond1.value, c.cond2.value>>
             w == <<[link |-> "WHERE", group |-> <<Atom(c.cond1.field, "=", 1)>>],
                    [link |-> "AND", group |-> <<Atom(c.cond2.field, "=", 2)>>]>>
  <1>0. /\ c.cond1 \in Condition /\ c.cond1.field[1] = c.table
        /\ c.cond2 \in Condition /\ c.cond2.field[1] = c.table
    BY DEF WriteCall, Call
  <1>1. st = Statement("delete", <<c.table>>, w, vals) \/ st = NoStatement
    <2>1. CASE e = "pg"
      BY <2>1 DEF Sent, PgStatement, PgDeleteEqualAnd
    <2>2. CASE e # "pg"
      BY <2>2 DEF Sent, SqliteStatement, SqliteDeleteEqualAnd
    <2> QED BY <2>1, <2>2
  <1>2. /\ vals[1] = c.cond1.value /\ vals[2] = c.cond2.value
        /\ 1 \in Nat \ {0} /\ 2 \in Nat \ {0} /\ "=" \in PlainOps
    BY DEF PlainOps, SqlComparaisonOperator
  <1>3. ASSUME NEW cand
        PROVE  ClauseHolds(e, w, vals, cand) <=> /\ Compares("pg", "=", At(cand, c.cond1.field), c.cond1.value)
                                                 /\ Compares("pg", "=", At(cand, c.cond2.field), c.cond2.value)
    <2> HIDE DEF vals
    <2> QED BY <1>2, TwoConditionsMean
  <1>4. \A cand : Named(c, cand[c.table]) <=> /\ cand[c.table][c.cond1.field[2]] = c.cond1.value
                                              /\ cand[c.table][c.cond2.field[2]] = c.cond2.value
    BY DEF Named
  <1> HIDE DEF vals, w
  <1>5. \A cand : ClauseHolds(e, w, vals, cand) <=> Named(c, cand[c.table])
    BY <1>0, <1>3, <1>4, EqualityIs
  <1>6. CASE st = NoStatement
    BY <1>6 DEF NoStatement, Statement, Writes
  <1>7. CASE st = Statement("delete", <<c.table>>, w, vals)
    <2>1. st.kind = "delete" /\ st.tables = <<c.table>> /\ st.vals = vals /\ st.where = w
      BY <1>7 DEF Statement
    <2> QED BY <1>5, <2>1 DEF Writes, Reaches
  <1> QED BY <1>1, <1>6, <1>7

LEMMA WritesDeleteWhere ==
  ASSUME NEW e, NEW c, WriteCall(c), c.fn = "deleteWhere", NEW st, st = PgStatement(c)
  PROVE  Writes(e, c, st)
  <1> DEFINE conds == c.conds
             G(i) == <<Atom(conds[i].field, OperatorOf(conds[i]), i)>>
             w == [i \in DOMAIN conds |-> [link |-> "AND", group |-> G(i)]]
             vals == [i \in DOMAIN conds |-> conds[i].value]
             ok == conds # <<>>
             n == Len(conds)
  <1>0. /\ conds \in Seq(ISQLCondition) /\ DOMAIN conds = 1..n /\ n \in Nat
        /\ \A i \in 1..n : conds[i].field[1] = c.table
    BY DEF WriteCall, Call
  <1>1. st = [Statement("delete", <<c.table>>, w, vals) EXCEPT !.wellFormed = ok]
    BY DEF PgStatement, PgDeleteWhere
  <1>2. \A i \in 1..n : OperatorOf(conds[i]) \in PlainOps
    <2> SUFFICES ASSUME NEW x \in ISQLCondition PROVE OperatorOf(x) \in PlainOps
      BY <1>0
    <2>1. x.operator \in SqlComparaisonOperator \/ x.operator = Empty
      BY DEF ISQLCondition
    <2> QED BY <2>1 DEF OperatorOf, PlainOps, SqlComparaisonOperator
  <1>3. ASSUME NEW i \in 1..n, NEW cand
        PROVE  GroupHolds(e, G(i), vals, cand)
                 <=> Compares("pg", OperatorOf(conds[i]), cand[c.table][conds[i].field[2]], conds[i].value)
    <2>1. i \in Nat \ {0} /\ vals[i] = conds[i].value
      BY <1>0
    <2>2. GroupHolds(e, G(i), vals, cand)
            <=> Compares("pg", OperatorOf(conds[i]), At(cand, conds[i].field), vals[i])
      <3> HIDE DEF vals, conds
      <3> QED BY <1>2, <2>1, AtomMeans
    <2> QED BY <1>0, <2>1, <2>2 DEF At
  <1>4. \A cand : Named(c, cand[c.table]) <=>
          /\ ok
          /\ \A i \in DOMAIN conds : Compares("pg", OperatorOf(conds[i]), cand[c.table][conds[i].field[2]], conds[i].value)
    BY DEF Named
  <1> HIDE DEF G, vals, conds, ok
  <1>5. /\ w \in Seq({w[i] : i \in 1..n}) /\ DOMAIN w = 1..n /\ Len(w) = n
        /\ \A i \in 1..n : w[i].link = "AND" /\ w[i].group = G(i)
    BY <1>0
  <1> HIDE DEF w
  <1>6. ASSUME ok, NEW cand
        PROVE  ClauseHolds(e, w, vals, cand) <=> Named(c, cand[c.table])
    <2>1. AndLinked(w)
      BY <1>0, <1>5 DEF AndLinked
    <2>2. ClauseHolds(e, w, vals, cand) <=> AllHold(e, w, vals, cand)
      BY <1>5, <2>1, AndClauseMeans
    <2>3. AllHold(e, w, vals, cand) <=> \A i \in 1..n : GroupHolds(e, G(i), vals, cand)
      BY <1>5 DEF AllHold
    <2> QED BY <1>0, <1>3, <1>4, <1>6, <2>2, <2>3
  <1>7. st.kind = "delete" /\ st.tables = <<c.table>> /\ st.vals = vals /\ st.where = w /\ st.wellFormed = ok
    BY <1>1 DEF Statement
  <1> QED BY <1>6, <1>7 DEF Writes, Reaches

\* Every method that writes, on both engines.
LEMMA EveryWrite ==
  ASSUME NEW e \in Engines, NEW c \in WriteCalls
  PROVE  Writes(e, c, Sent(e, c)) /\ DatabaseCall(c) = c /\ WriteCall(c)
  <1> DEFINE st == Sent(e, c)
  <1>1. WriteCall(c) /\ c.fn \in WriteMethods
    BY WriteCallsAssumption DEF WriteCall
  <1>2. DatabaseCall(c) = c
    BY <1>1 DEF DatabaseCall, WriteMethods
  <1>3. c.fn \in {"insert", "update", "updateAnd", "deleteWhere"} => st = PgStatement(c)
    <2>1. c.fn \in {"insert", "update", "updateAnd", "deleteWhere"} => c.fn \in AlikeMethods
      BY DEF AlikeMethods, Methods, WriteMethods
    <2> QED BY <2>1, SqliteAlike DEF Sent
  <1>4. SUFFICES Writes(e, c, st)
    BY <1>1, <1>2
  <1>5. CASE c.fn = "insert"
    BY <1>1, <1>3, <1>5, WritesInsert
  <1>6. CASE c.fn = "update"
    BY <1>1, <1>3, <1>6, WritesUpdate
  <1>7. CASE c.fn = "updateAnd"
    BY <1>1, <1>3, <1>7, WritesUpdateAnd
  <1>8. CASE c.fn = "deleteEqual"
    BY <1>1, <1>8, WritesDeleteEqual
  <1>9. CASE c.fn = "deleteEqualAnd"
    BY <1>1, <1>9, WritesDeleteEqualAnd
  <1>10. CASE c.fn = "deleteLowerThan"
    BY <1>1, <1>10, WritesDeleteLowerThan
  <1>11. CASE c.fn = "deleteWhere"
    BY <1>1, <1>3, <1>11, WritesDeleteWhere
  <1> HIDE DEF st
  <1> QED BY <1>1, <1>5, <1>6, <1>7, <1>8, <1>9, <1>10, <1>11 DEF WriteMethods

(***************************************************************************)
(* What a write leaves behind                                              *)
(***************************************************************************)
\* The row after the assignments of c.
Assigned(c, row) == SetColumns(c.values.names, c.values.vals, row)

LEMMA PlaceOfIs ==
  ASSUME NEW names, NEW col \in ToSet(names)
  PROVE  PlaceOf(names, col) \in DOMAIN names
  <1>1. \E i \in DOMAIN names : names[i] = col
    BY DEF ToSet
  <1> QED BY <1>1 DEF PlaceOf

LEMMA AssignedIs ==
  ASSUME NEW c, NEW st, Assigns(c, st), NEW row
  PROVE  SetColumns(st.set, st.vals, row) = Assigned(c, row)
  <1> DEFINE names == c.values.names
  <1>1. st.set = names /\ \A i \in DOMAIN names : st.vals[i] = c.values.vals[i]
    BY DEF Assigns
  <1> HIDE DEF names
  <1>2. \A col \in ToSet(names) : st.vals[PlaceOf(names, col)] = c.values.vals[PlaceOf(names, col)]
    BY <1>1, PlaceOfIs
  <1>3. SetColumns(names, st.vals, row) = SetColumns(names, c.values.vals, row)
    BY <1>2 DEF SetColumns
  <1> QED BY <1>1, <1>3 DEF Assigned, names

LEMMA AssignedType ==
  ASSUME NEW c, WriteCall(c), NEW row \in Row
  PROVE  Assigned(c, row) \in Row
  <1> DEFINE names == c.values.names
             V == c.values.vals
  <1>1. V \in Seq(Texts) /\ names \in Seq(Columns) /\ Len(names) = Len(V)
    BY DEF WriteCall, Call
  <1> HIDE DEF names, V
  <1>2. \A i \in DOMAIN names : V[i] \in Value
    BY <1>1 DEF Value
  <1>3. \A col \in ToSet(names) : V[PlaceOf(names, col)] \in Value
    BY <1>2, PlaceOfIs
  <1>4. \A col \in Columns : row[col] \in Value
    BY DEF Row
  <1>5. SetColumns(names, V, row) \in Row
    BY <1>3, <1>4 DEF SetColumns, Row
  <1> QED BY <1>5 DEF Assigned, names, V

\* The rows that a condition on one table selects.
LEMMA HitsAre ==
  ASSUME NEW e, NEW c, NEW st, NEW D, NEW t, t = c.table, st.tables = <<t>>, Reaches(e, c, st)
  PROVE  {x[t] : x \in Selected(e, st, D)} = {r \in D[t] : Named(c, r)}
  <1>1. ToSet(st.tables) = {t}
    BY DEF ToSet
  <1>2. Candidates(D, st.tables) = {x \in [{t} -> D[t]] : x[t] \in D[t]}
    <2>1. UNION {D[s] : s \in {t}} = D[t]
      OBVIOUS
    <2> QED BY <1>1, <2>1 DEF Candidates
  <1>3. Selected(e, st, D) = {x \in [{t} -> D[t]] : Named(c, x[t])}
    BY <1>2 DEF Selected, Reaches
  <1>4. ASSUME NEW r \in D[t], Named(c, r)
        PROVE  \E x \in Selected(e, st, D) : x[t] = r
    <2> DEFINE x == [y \in {t} |-> r]
    <2>1. x \in [{t} -> D[t]] /\ x[t] = r
      OBVIOUS
    <2> HIDE DEF x
    <2> QED BY <1>3, <1>4, <2>1
  <1>5. \A x \in Selected(e, st, D) : x[t] \in D[t] /\ Named(c, x[t])
    BY <1>3
  <1> QED BY <1>4, <1>5

\* What the write c makes of the rows old of its table.
Blank == [col \in Columns |-> Null]
Hits(c, old) == {x \in old : Named(c, x)}
RightRows(c, old, new) ==
  CASE IsDelete(c) -> new = old \ Hits(c, old)
    [] c.fn \in {"update", "updateAnd"} ->
         new = (old \ Hits(c, old)) \union {Assigned(c, x) : x \in Hits(c, old)}
    [] c.fn = "insert" -> Assigned(c, Blank) \notin old /\ new = old \union {Assigned(c, Blank)}

\* What the write c may leave of rows D, when r is the answer.
RightWrite(c, D, r) ==
  \A t \in Tables : /\ ~ r.ok \/ t # c.table => r.db[t] = D[t]
                    /\ r.ok /\ t = c.table => RightRows(c, D[t], r.db[t])

LEMMA StoreWith ==
  ASSUME NEW D \in Store, NEW t \in Tables, NEW R \in SUBSET Row, IsFiniteSet(R)
  PROVE  [D EXCEPT ![t] = R] \in Store
  BY DEF Store

LEMMA FailedWrite ==
  ASSUME NEW c, NEW D \in Store, NEW r, r = Failed(D)
  PROVE  RightWrite(c, D, r) /\ r.db \in Store
  <1>1. r.db = D /\ ~ r.ok
    BY DEF Failed, Result
  <1> QED BY <1>1 DEF RightWrite

LEMMA RightInsert ==
  ASSUME NEW c, WriteCall(c), c.fn = "insert", NEW st, st.tables = <<c.table>>, Assigns(c, st),
         NEW D \in Store, NEW r, r = Inserted(st, D)
  PROVE  RightWrite(c, D, r) /\ r.db \in Store
  <1> DEFINE t == c.table
             row == SetColumns(st.set, st.vals, Blank)
             R == D[t] \union {row}
             rows == {[x \in {t} |-> row]}
  <1>0. t \in Tables /\ st.tables[1] = t
    BY DEF WriteCall, Call
  <1>1. Blank \in Row
    BY DEF Blank, Row, Value
  <1>2. row = Assigned(c, Blank)
    BY AssignedIs
  <1>3. row \in Row
    BY <1>1, <1>2, AssignedType
  <1>4. r = IF HasKey(D[t], row["id"]) THEN Failed(D) ELSE Result(TRUE, rows, [D EXCEPT ![t] = R])
    BY <1>0 DEF Inserted, Blank
  <1> HIDE DEF row, rows
  <1>5. CASE HasKey(D[t], row["id"])
    BY <1>4, <1>5, FailedWrite
  <1>6. CASE ~ HasKey(D[t], row["id"])
    <2>1. row \notin D[t]
      BY <1>6 DEF HasKey
    <2>2. R \in SUBSET Row /\ IsFiniteSet(R)
      <3>1. D[t] \subseteq Row /\ IsFiniteSet(D[t])
        BY <1>0 DEF Store
      <3> QED BY <1>3, <3>1, FS_AddElement
    <2> HIDE DEF R
    <2>3. r.db = [D EXCEPT ![t] = R]
      BY <1>4, <1>6 DEF Result
    <2>3a. r.ok
      BY <1>4, <1>6 DEF Result
    <2>4. r.db \in Store
      BY <1>0, <2>2, <2>3, StoreWith
    <2>5. D \in [Tables -> SUBSET Row]
      BY DEF Store
    <2>6. \A s \in Tables : r.db[s] = IF s = t THEN R ELSE D[s]
      BY <2>3, <2>5
    <2>7. ~ IsDelete(c) /\ c.fn \notin {"update", "updateAnd"}
      BY DEF IsDelete
    <2>8. RightWrite(c, D, r)
      <3>1. RightRows(c, D[t], R)
        BY <1>2, <2>1, <2>7 DEF RightRows, R
      <3> QED BY <2>3a, <2>6, <3>1 DEF RightWrite
    <2> QED BY <2>4, <2>8
  <1> QED BY <1>5, <1>6

LEMMA RightUpdate ==
  ASSUME NEW e, NEW c, WriteCall(c), c.fn \in {"update", "updateAnd"}, NEW st, st.tables = <<c.table>>,
         Assigns(c, st), Reaches(e, c, st), NEW D \in Store, NEW r, r = Updated(e, st, D)
  PROVE  RightWrite(c, D, r) /\ r.db \in Store
  <1> DEFINE t == c.table
             hit == {x[t] : x \in Selected(e, st, D)}
             new(x) == SetColumns(st.set, st.vals, x)
             kept == D[t] \ hit
             R == kept \union {new(x) : x \in hit}
             rows == {[x \in {t} |-> new(y)] : y \in hit}
             clash == \/ \E x \in hit : HasKey(kept, new(x)["id"])
                      \/ \E x, y \in hit : x # y /\ new(x)["id"] = new(y)["id"]
  <1>0. t \in Tables /\ st.tables[1] = t
    BY DEF WriteCall, Call
  <1>1. r = IF clash THEN Failed(D) ELSE Result(TRUE, rows, [D EXCEPT ![t] = R])
    BY <1>0 DEF Updated
  <1>2. hit = Hits(c, D[t])
    BY HitsAre DEF Hits
  <1>3. \A x : new(x) = Assigned(c, x)
    BY AssignedIs
  <1> HIDE DEF clash, hit, rows
  <1>4. D[t] \subseteq Row /\ IsFiniteSet(D[t])
    BY <1>0 DEF Store
  <1>5. hit \subseteq D[t]
    BY <1>2 DEF Hits
  <1>6. R \subseteq Row
    BY <1>3, <1>4, <1>5, AssignedType
  <1>7. IsFiniteSet(R)
    <2>1. IsFiniteSet(hit) /\ IsFiniteSet(kept)
      BY <1>4, <1>5, FS_Subset
    <2> DEFINE I == {new(x) : x \in hit}
               f == [x \in hit |-> new(x)]
    <2>2. f \in Surjection(hit, I)
      BY DEF Surjection
    <2>3. IsFiniteSet(I)
      <3> HIDE DEF f, I
      <3> QED BY <2>1, <2>2, FS_Surjection
    <2> HIDE DEF I, kept
    <2> QED BY <2>1, <2>3, FS_Union DEF I
  <1>8. R = (D[t] \ Hits(c, D[t])) \union {Assigned(c, x) : x \in Hits(c, D[t])}
    BY <1>2, <1>3
  <1> HIDE DEF R
  <1>9. CASE clash
    BY <1>1, <1>9, FailedWrite
  <1>10. CASE ~ clash
    <2>1. r.db = [D EXCEPT ![t] = R]
      BY <1>1, <1>10 DEF Result
    <2>1a. r.ok
      BY <1>1, <1>10 DEF Result
    <2>2. r.db \in Store
      BY <1>0, <1>6, <1>7, <2>1, StoreWith
    <2>3. D \in [Tables -> SUBSET Row]
      BY DEF Store
    <2>4. \A s \in Tables : r.db[s] = IF s = t THEN R ELSE D[s]
      BY <2>1, <2>3
    <2>5. ~ IsDelete(c) /\ c.fn # "insert"
      BY DEF IsDelete
    <2>6. RightRows(c, D[t], R)
      BY <1>8, <2>5 DEF RightRows
    <2> QED BY <2>1a, <2>2, <2>4, <2>6 DEF RightWrite
  <1> QED BY <1>9, <1>10

LEMMA RightDelete ==
  ASSUME NEW e, NEW c, WriteCall(c), IsDelete(c), NEW st, st.tables = <<c.table>>, Reaches(e, c, st),
         NEW D \in Store, NEW r, r = Deleted(e, st, D)
  PROVE  RightWrite(c, D, r) /\ r.db \in Store
  <1> DEFINE t == c.table
             hit == {x[t] : x \in Selected(e, st, D)}
             R == D[t] \ hit
  <1>0. t \in Tables /\ st.tables[1] = t
    BY DEF WriteCall, Call
  <1>1. r = Result(TRUE, {}, [D EXCEPT ![t] = R])
    BY <1>0 DEF Deleted
  <1>2. hit = Hits(c, D[t])
    <2>1. t = c.table /\ st.tables = <<t>>
      OBVIOUS
    <2> HIDE DEF t
    <2> QED BY <2>1, HitsAre DEF Hits
  <1> HIDE DEF hit
  <1>3. D[t] \subseteq Row /\ IsFiniteSet(D[t])
    BY <1>0 DEF Store
  <1>4. R \subseteq Row /\ IsFiniteSet(R)
    BY <1>3, FS_Subset
  <1>5. RightRows(c, D[t], R)
    <2>1. c.fn # "insert" /\ c.fn \notin {"update", "updateAnd"}
      BY DEF IsDelete
    <2> QED BY <1>2, <2>1 DEF RightRows
  <1> HIDE DEF R
  <1>6. r.db = [D EXCEPT ![t] = R]
    BY <1>1 DEF Result
  <1>6a. r.ok
    BY <1>1 DEF Result
  <1>7. r.db \in Store
    BY <1>0, <1>4, <1>6, StoreWith
  <1>8. D \in [Tables -> SUBSET Row]
    BY DEF Store
  <1>9. \A s \in Tables : r.db[s] = IF s = t THEN R ELSE D[s]
    BY <1>6, <1>8
  <1> QED BY <1>5, <1>6a, <1>7, <1>9 DEF RightWrite

LEMMA WriteResult ==
  ASSUME NEW e \in Engines, NEW c \in WriteCalls, NEW D \in Store,
         NEW r, r = Execute(e, Sent(e, DatabaseCall(c)), D)
  PROVE  RightWrite(c, D, r) /\ r.db \in Store
  <1> DEFINE st == Sent(e, c)
  <1>1. Writes(e, c, st) /\ WriteCall(c) /\ r = Execute(e, st, D)
    BY EveryWrite
  <1>2. c.fn \in WriteMethods
    BY WriteCallsAssumption
  <1> HIDE DEF st
  <1>3. CASE ~ st.wellFormed
    BY <1>1, <1>3, FailedWrite DEF Execute
  <1>4. CASE st.wellFormed /\ c.fn = "insert"
    <2>1. st.tables = <<c.table>> /\ Assigns(c, st) /\ st.kind = "insert"
      BY <1>1, <1>4 DEF Writes
    <2>2. r = Inserted(st, D)
      BY <1>1, <1>4, <2>1 DEF Execute
    <2> QED BY <1>1, <1>4, <2>1, <2>2, RightInsert
  <1>5. CASE st.wellFormed /\ c.fn \in {"update", "updateAnd"}
    <2>1. st.tables = <<c.table>> /\ Assigns(c, st) /\ Reaches(e, c, st) /\ st.kind = "update"
      BY <1>1, <1>5 DEF Writes
    <2>2. r = Updated(e, st, D)
      BY <1>1, <1>5, <2>1 DEF Execute
    <2> QED BY <1>1, <1>5, <2>1, <2>2, RightUpdate
  <1>6. CASE st.wellFormed /\ IsDelete(c)
    <2>1. st.tables = <<c.table>> /\ Reaches(e, c, st) /\ st.kind = "delete"
      BY <1>1, <1>6 DEF Writes
    <2>2. r = Deleted(e, st, D)
      BY <1>1, <1>6, <2>1 DEF Execute
    <2> QED BY <1>1, <1>6, <2>1, <2>2, RightDelete
  <1> QED BY <1>2, <1>3, <1>4, <1>5, <1>6 DEF WriteMethods, IsDelete

(***************************************************************************)
(* Calls on which the engines agree                                        *)
(***************************************************************************)
LEMMA SameExecution ==
  ASSUME NEW st, NEW D,
         st.wellFormed => /\ st.kind \in {"select", "update", "delete"} => Selected("pg", st, D) = Selected("sqlite", st, D)
                          /\ st.kind = "select" => st.agg = "none"
                          /\ st.kind \in {"select", "insert", "update", "delete"}
  PROVE  Execute("pg", st, D) = Execute("sqlite", st, D)
  <1>1. CASE ~ st.wellFormed
    BY <1>1 DEF Execute
  <1>2. CASE st.wellFormed /\ st.kind = "insert"
    BY <1>2 DEF Execute
  <1>3. CASE st.wellFormed /\ st.kind = "select"
    BY <1>3 DEF Execute
  <1>4. CASE st.wellFormed /\ st.kind = "update"
    <2>1. Updated("pg", st, D) = Updated("sqlite", st, D)
      BY <1>4 DEF Updated
    <2> QED BY <1>4, <2>1 DEF Execute
  <1>5. CASE st.wellFormed /\ st.kind = "delete"
    <2>1. Deleted("pg", st, D) = Deleted("sqlite", st, D)
      BY <1>5 DEF Deleted
    <2> QED BY <1>5, <2>1 DEF Execute
  <1> QED BY <1>1, <1>2, <1>3, <1>4, <1>5

LEMMA PortableMatch ==
  ASSUME NEW c \in Call, c.fn = "match", c.value \in Texts, Portable(c)
  PROVE  PgMatch(c) = SqliteMatch(c)
  <1>1. c.value # "0" /\ c.value # Null
    BY TextsAssumption DEF Portable
  <1> DEFINE needle == IF Falsy(c.value) THEN Empty ELSE c.value
  <1>2. needle = c.value
    BY <1>1 DEF Falsy
  <1>3. [i \in DOMAIN c.search |-> needle] = [i \in DOMAIN c.search |-> c.value]
    <2> HIDE DEF needle
    <2> QED BY <1>2
  <1> QED BY <1>3 DEF PgMatch, SqliteMatch

LEMMA PortableFinds ==
  ASSUME NEW c \in Call, c.fn = "match", c.value \in Texts, Portable(c),
         \A i \in DOMAIN c.search : c.search[i][1] = c.table, NEW D \in Store,
         NEW x \in Candidates(D, <<c.table>>)
  PROVE  Wanted("pg", c, x) <=> Wanted("sqlite", c, x)
  <1>1. c.value # "0" /\ \A y \in Texts : Fold[y] = Fold[c.value] => y = c.value
    BY DEF Portable
  <1>2. c.search \in Seq(Key) /\ c.table \in Tables
    BY DEF Call
  <1>3. x[c.table] \in Row
    <2>1. c.table \in ToSet(<<c.table>>)
      BY DEF ToSet
    <2>2. x[c.table] \in D[c.table]
      BY <2>1 DEF Candidates
    <2> QED BY <1>2, <2>2 DEF Store
  <1>4. ASSUME NEW i \in DOMAIN c.search
        PROVE  Finds("pg", c.value, At(x, c.search[i])) <=> Finds("sqlite", c.value, At(x, c.search[i]))
    <2> DEFINE y == At(x, c.search[i])
    <2>1. c.search[i] \in Key /\ c.search[i][1] = c.table
      BY <1>2
    <2>2. y = Null \/ y \in Texts
      BY <1>3, <2>1 DEF At, Key, Row, Value
    <2> HIDE DEF y
    <2>3. CASE y = Null
      BY <2>3 DEF Finds, y
    <2>4. CASE y \in Texts
      <3>1. Like("pg", c.value, y) <=> Like("sqlite", c.value, y)
        BY <1>1, <2>4 DEF Like
      <3> QED BY <1>1, <3>1 DEF Finds, y
    <2> QED BY <2>2, <2>3, <2>4
  <1>5. \A e : Wanted(e, c, x) <=> \E i \in DOMAIN c.search : Finds(e, c.value, At(x, c.search[i]))
    BY DEF Wanted
  <1> QED BY <1>4, <1>5

LEMMA PortableRead ==
  ASSUME NEW c \in ReadCalls, Portable(c), NEW D \in Store, NEW d, d = DatabaseCall(c)
  PROVE  Execute("pg", Sent("pg", d), D) = Execute("sqlite", Sent("sqlite", d), D)
  <1> DEFINE st == Sent("pg", d)
  <1>1. /\ c \in Call /\ c.fn \in ReadMethods
        /\ c.fn = "match" => c.value \in Texts /\ \A i \in DOMAIN c.search : c.search[i][1] = c.table
    BY ReadCallsAssumption
  <1>2. "pg" \in Engines /\ "sqlite" \in Engines
    BY DEF Engines
  <1>3. Reads("pg", c, st) /\ Reads("sqlite", c, Sent("sqlite", d))
    BY <1>2, EveryRead
  <1>4. d.fn = c.fn /\ (c.fn = "match" => d = c)
    <2>1. d.fn = c.fn
      BY <1>1, DatabaseCallIs DEF IsHanded
    <2>2. c.fn = "match" => d = c
      BY DEF DatabaseCall
    <2> QED BY <2>1, <2>2
  <1>5. ~ IsExtreme(c)
    BY DEF Portable
  <1>6. Sent("sqlite", d) = st
    <2>1. CASE c.fn = "match"
      <3>1. PgStatement(d) = PgMatch(c) /\ SqliteStatement(d) = SqliteMatch(c)
        BY <1>4, <2>1 DEF PgStatement, SqliteStatement
      <3> QED BY <1>1, <2>1, <3>1, PortableMatch DEF Sent
    <2>2. CASE c.fn # "match"
      <3>1. d.fn \in AlikeMethods
        BY <1>1, <1>4, <2>2 DEF AlikeMethods, Methods, ReadMethods
      <3> QED BY <3>1, SqliteAlike DEF Sent
    <2> QED BY <2>1, <2>2
  <1>7. ASSUME NEW x \in Candidates(D, TablesOf(c))
        PROVE  Wanted("pg", c, x) <=> Wanted("sqlite", c, x)
    <2>1. CASE c.fn = "match"
      <3>1. TablesOf(c) = <<c.table>>
        BY <2>1 DEF TablesOf
      <3> QED BY <1>1, <1>7, <2>1, <3>1, PortableFinds
    <2>2. CASE c.fn # "match"
      BY <1>1, <2>2 DEF Wanted, ReadMethods
    <2> QED BY <2>1, <2>2
  <1> HIDE DEF st
  <1>8. st.kind = "select" /\ st.agg = "none"
    BY <1>3, <1>5 DEF Reads
  <1>9. ASSUME st.wellFormed
        PROVE  Selected("pg", st, D) = Selected("sqlite", st, D)
    <2>1. /\ st.tables = TablesOf(c)
          /\ \A x : ClauseHolds("pg", st.where, st.vals, x) <=> Wanted("pg", c, x)
          /\ \A x : ClauseHolds("sqlite", st.where, st.vals, x) <=> Wanted("sqlite", c, x)
      BY <1>3, <1>6, <1>9 DEF Reads
    <2> QED BY <1>7, <2>1 DEF Selected
  <1>10. Execute("pg", st, D) = Execute("sqlite", st, D)
    BY <1>8, <1>9, SameExecution
  <1> QED BY <1>6, <1>10 DEF st

LEMMA PortableWrite ==
  ASSUME NEW c \in WriteCalls, Portable(c), NEW D \in Store, NEW d, d = DatabaseCall(c)
  PROVE  Execute("pg", Sent("pg", d), D) = Execute("sqlite", Sent("sqlite", d), D)
  <1> DEFINE st == Sent("pg", c)
  <1>1. c.fn \in WriteMethods
    BY WriteCallsAssumption
  <1>2. "pg" \in Engines /\ "sqlite" \in Engines
    BY DEF Engines
  <1>3. Writes("pg", c, st) /\ Writes("sqlite", c, Sent("sqlite", c)) /\ d = c
    BY <1>2, EveryWrite
  <1>4. Sent("sqlite", c) = st
    <2>1. CASE c.fn = "deleteEqual"
      <3>1. ~ Falsy(c.cond1.value)
        BY <2>1 DEF Portable, IsDelete
      <3> QED BY <2>1, <3>1 DEF Sent, PgStatement, SqliteStatement, PgDeleteEqual, SqliteDeleteEqual
    <2>2. CASE c.fn = "deleteLowerThan"
      <3>1. ~ Falsy(c.cond1.value)
        BY <2>2 DEF Portable, IsDelete
      <3> QED BY <2>2, <3>1 DEF Sent, PgStatement, SqliteStatement, PgDeleteLowerThan, SqliteDeleteLowerThan
    <2>3. CASE c.fn = "deleteEqualAnd"
      <3>1. ~ Falsy(c.cond1.value) /\ ~ Falsy(c.cond2.value)
        BY <2>3 DEF Portable, IsDelete
      <3> QED BY <2>3, <3>1 DEF Sent, PgStatement, SqliteStatement, PgDeleteEqualAnd, SqliteDeleteEqualAnd
    <2>4. CASE c.fn \notin {"deleteEqual", "deleteLowerThan", "deleteEqualAnd"}
      <3>1. c.fn \in AlikeMethods
        BY <1>1, <2>4 DEF AlikeMethods, Methods, WriteMethods
      <3> QED BY <3>1, SqliteAlike DEF Sent
    <2> QED BY <2>1, <2>2, <2>3, <2>4
  <1> HIDE DEF st
  <1>5. ASSUME st.wellFormed
        PROVE  /\ st.kind \in {"insert", "update", "delete"}
               /\ st.kind # "insert" => Reaches("pg", c, st) /\ Reaches("sqlite", c, st)
    BY <1>1, <1>3, <1>4, <1>5 DEF Writes, WriteMethods, IsDelete
  <1>6. ASSUME st.wellFormed, st.kind # "insert"
        PROVE  Selected("pg", st, D) = Selected("sqlite", st, D)
    <2>1. Reaches("pg", c, st) /\ Reaches("sqlite", c, st)
      BY <1>5, <1>6
    <2> QED BY <2>1 DEF Reaches, Selected
  <1>7. Execute("pg", st, D) = Execute("sqlite", st, D)
    BY <1>5, <1>6, SameExecution
  <1> QED BY <1>3, <1>4, <1>7 DEF st

(***************************************************************************)
(* The answers of a state                                                  *)
(***************************************************************************)
Calls == ReadCalls \union WriteCalls

ReplyTo(open, b, c, D) == IF open THEN Execute(EngineOf(b), StatementOf(b, c), D) ELSE Failed(D)
AnswerOf(c, r) == [ok |-> r.ok, rows |-> r.rows, count |-> CountOf(c, r.rows)]

\* Each backend answered the call on the rows it had before it, and phase is still the one
\* in which it did.
IsAnswer(b, c) ==
  LET r == ReplyTo(phase = "open", b, c, before[b]) IN db[b] = r.db /\ answer[b] = AnswerOf(c, r)

StoresType == db \in [Backends -> Store] /\ before \in [Backends -> Store]
AnswersInv == StoresType /\ (call # NoCall => call \in Calls /\ \A b \in Backends : IsAnswer(b, call))

LEMMA AnswerOfIs ==
  ASSUME NEW c, NEW r, NEW a, a = AnswerOf(c, r)
  PROVE  (a.ok <=> r.ok) /\ a.rows = r.rows
  <1> DEFINE n == CountOf(c, r.rows)
  <1>1. a = [ok |-> r.ok, rows |-> r.rows, count |-> n]
    BY DEF AnswerOf
  <1> HIDE DEF n
  <1>2. a.ok = r.ok /\ a.rows = r.rows
    BY <1>1
  <1> QED BY <1>2, Zenon

LEMMA CallsAreCalls ==
  ASSUME NEW c \in Calls
  PROVE  c \in Call
  BY ReadCallsAssumption, WriteCallsAssumption DEF Calls

LEMMA ReplyToIs ==
  ASSUME NEW b \in Backends, NEW c \in Calls, NEW D
  PROVE  ReplyTo(TRUE, b, c, D) = Execute(EngineOf(b), Sent(EngineOf(b), DatabaseCall(c)), D) /\ EngineOf(b) \in Engines
  BY CallsAreCalls, StatementIs DEF ReplyTo

LEMMA ReplyRead ==
  ASSUME NEW open \in BOOLEAN, NEW b \in Backends, NEW c \in ReadCalls, NEW D \in Store
  PROVE  RightRead(EngineOf(b), c, D, ReplyTo(open, b, c, D))
  <1>1. CASE open
    <2>1. c \in Calls
      BY DEF Calls
    <2>2. ReplyTo(open, b, c, D) = Execute(EngineOf(b), Sent(EngineOf(b), DatabaseCall(c)), D) /\ EngineOf(b) \in Engines
      BY <1>1, <2>1, ReplyToIs
    <2> QED BY <2>2, ReadResult
  <1>2. CASE ~ open
    <2>1. ReplyTo(open, b, c, D) = Failed(D)
      BY <1>2 DEF ReplyTo
    <2>2. Failed(D).db = D /\ ~ Failed(D).ok
      BY DEF Failed, Result
    <2> QED BY <2>1, <2>2 DEF RightRead
  <1> QED BY <1>1, <1>2

LEMMA ReplyWrite ==
  ASSUME NEW open \in BOOLEAN, NEW b \in Backends, NEW c \in WriteCalls, NEW D \in Store
  PROVE  RightWrite(c, D, ReplyTo(open, b, c, D)) /\ ReplyTo(open, b, c, D).db \in Store
  <1>1. CASE open
    <2>1. c \in Calls
      BY DEF Calls
    <2>2. ReplyTo(open, b, c, D) = Execute(EngineOf(b), Sent(EngineOf(b), DatabaseCall(c)), D) /\ EngineOf(b) \in Engines
      BY <1>1, <2>1, ReplyToIs
    <2> QED BY <2>2, WriteResult
  <1>2. CASE ~ open
    <2>1. ReplyTo(open, b, c, D) = Failed(D)
      BY <1>2 DEF ReplyTo
    <2> QED BY <2>1, FailedWrite
  <1> QED BY <1>1, <1>2

LEMMA ReplyStores ==
  ASSUME NEW open \in BOOLEAN, NEW b \in Backends, NEW c \in Calls, NEW D \in Store
  PROVE  ReplyTo(open, b, c, D).db \in Store
  <1>1. CASE c \in ReadCalls
    BY <1>1, ReplyRead DEF RightRead
  <1>2. CASE c \in WriteCalls
    BY <1>2, ReplyWrite
  <1> QED BY <1>1, <1>2 DEF Calls

LEMMA ReplyAgrees ==
  ASSUME NEW open \in BOOLEAN, NEW b \in Backends, NEW d \in Backends, NEW c \in Calls, Portable(c), NEW D \in Store
  PROVE  ReplyTo(open, b, c, D) = ReplyTo(open, d, c, D)
  <1>1. CASE open
    <2> DEFINE E(e) == Execute(e, Sent(e, DatabaseCall(c)), D)
    <2>1. /\ ReplyTo(open, b, c, D) = E(EngineOf(b)) /\ ReplyTo(open, d, c, D) = E(EngineOf(d))
          /\ EngineOf(b) \in {"pg", "sqlite"} /\ EngineOf(d) \in {"pg", "sqlite"}
      BY <1>1, ReplyToIs DEF Engines
    <2>2. E("pg") = E("sqlite")
      BY PortableRead, PortableWrite DEF Calls
    <2> HIDE DEF E
    <2> QED BY <2>1, <2>2
  <1>2. CASE ~ open
    BY <1>2 DEF ReplyTo
  <1> QED BY <1>1, <1>2

(***************************************************************************)
(* The invariant                                                           *)
(***************************************************************************)
LEMMA AnswersInit ==
  ASSUME Init
  PROVE  AnswersInv
  <1> DEFINE D == [t \in Tables |-> {}]
  <1>1. D \in Store
    BY FS_EmptySet DEF Store
  <1> HIDE DEF D
  <1>2. db = [b \in Backends |-> D] /\ before = db /\ call = NoCall
    BY DEF Init, D
  <1> QED BY <1>1, <1>2 DEF AnswersInv, StoresType

LEMMA AnsweredInv ==
  ASSUME AnswersInv, NEW c \in Calls, Answered(c)
  PROVE  AnswersInv'
  <1> DEFINE open == phase = "open"
             r(b) == ReplyTo(open, b, c, db[b])
  <1>1. \A b \in Backends : db[b] \in Store
    BY DEF AnswersInv, StoresType
  <1>2. \A b : Reply(b, c) = r(b)
    BY DEF Reply, ReplyTo
  <1>3. phase' = phase /\ call' = c /\ before' = db
    BY DEF Answered
  <1>4. db' = [b \in Backends |-> r(b).db] /\ answer' = [b \in Backends |-> AnswerOf(c, r(b))]
    <2> DEFINE reply == [b \in Backends |-> Reply(b, c)]
    <2>1. \A b \in Backends : reply[b] = r(b)
      BY <1>2
    <2>2. /\ db' = [b \in Backends |-> reply[b].db]
          /\ answer' = [b \in Backends |-> AnswerOf(c, reply[b])]
      BY DEF Answered, AnswerOf
    <2> HIDE DEF reply, r
    <2> QED BY <2>1, <2>2
  <1>5. \A b \in Backends : r(b).db \in Store
    BY <1>1, ReplyStores
  <1>6. StoresType'
    <2> HIDE DEF r
    <2>1. db' \in [Backends -> Store]
      BY <1>4, <1>5
    <2>2. before' \in [Backends -> Store]
      BY <1>3 DEF AnswersInv, StoresType
    <2> QED BY <2>1, <2>2 DEF StoresType
  <1>7. ASSUME NEW b \in Backends PROVE IsAnswer(b, c)'
    <2>1. db'[b] = r(b).db /\ answer'[b] = AnswerOf(c, r(b))
      <3> HIDE DEF r
      <3> QED BY <1>4
    <2>2. ReplyTo(phase' = "open", b, c, before'[b]) = r(b)
      BY <1>3
    <2> HIDE DEF r
    <2> QED BY <2>1, <2>2 DEF IsAnswer
  <1> QED BY <1>3, <1>6, <1>7 DEF AnswersInv

LEMMA AnswersNext ==
  ASSUME AnswersInv, [Next]_vars
  PROVE  AnswersInv'
  <1>1. CASE UNCHANGED callVars
    BY <1>1 DEF AnswersInv, StoresType, IsAnswer, callVars
  <1>2. CASE Open
    BY <1>2 DEF Open, AnswersInv, StoresType
  <1>3. CASE Close
    BY <1>3 DEF Close, AnswersInv, StoresType
  <1>4. CASE Settle
    BY <1>4 DEF Settle, AnswersInv, StoresType
  <1>5. ASSUME NEW c \in ReadCalls, Read(c) PROVE AnswersInv'
    BY <1>5, AnsweredInv DEF Read, Calls
  <1>6. ASSUME NEW c \in WriteCalls, Write(c) PROVE AnswersInv'
    BY <1>6, AnsweredInv DEF Write, Calls
  <1> QED BY <1>1, <1>2, <1>3, <1>4, <1>5, <1>6 DEF Next, CallNext, vars

LEMMA CallOfMethod ==
  ASSUME AnswersInv
  PROVE  /\ call.fn \in ReadMethods => call # NoCall /\ call \in ReadCalls
         /\ call.fn \in WriteMethods => call # NoCall /\ call \in WriteCalls
  <1>1. call # NoCall => call \in ReadCalls \union WriteCalls
    BY DEF AnswersInv, Calls
  <1>2. call = NoCall => call.fn \notin ReadMethods /\ call.fn \notin WriteMethods
    BY DEF NoCall, ReadMethods, WriteMethods
  <1>3. call \in ReadCalls => call.fn \in ReadMethods
    BY ReadCallsAssumption
  <1>4. call \in WriteCalls => call.fn \in WriteMethods
    BY WriteCallsAssumption
  <1>5. ~ (call.fn \in ReadMethods /\ call.fn \in WriteMethods)
    BY DEF ReadMethods, WriteMethods
  <1> QED BY <1>1, <1>2, <1>3, <1>4, <1>5

LEMMA AnswersSelect ==
  ASSUME AnswersInv
  PROVE  SelectsExactly
  <1> SUFFICES ASSUME call # NoCall, call \in ReadCalls, NEW b \in Backends, answer[b].ok
               PROVE  LET wanted == {c \in Candidates(before[b], TablesOf(call)) : Wanted(EngineOf(b), call, c)}
                      IN  /\ answer[b].rows \subseteq wanted
                          /\ ~ IsExtreme(call) => answer[b].rows = wanted
                          /\ IsExtreme(call) => (answer[b].rows = {} <=> wanted = {})
    BY CallOfMethod DEF SelectsExactly
  <1> DEFINE r == ReplyTo(phase = "open", b, call, before[b])
  <1>1. before[b] \in Store /\ answer[b] = AnswerOf(call, r)
    BY DEF AnswersInv, StoresType, IsAnswer
  <1>2. RightRead(EngineOf(b), call, before[b], r)
    BY <1>1, ReplyRead
  <1> HIDE DEF r
  <1>3. (answer[b].ok <=> r.ok) /\ answer[b].rows = r.rows
    BY <1>1, AnswerOfIs
  <1> QED BY <1>2, <1>3 DEF RightRead

LEMMA AnswersWrite ==
  ASSUME AnswersInv
  PROVE  WritesExactly
  <1> SUFFICES ASSUME call # NoCall, call \in WriteCalls, NEW b \in Backends, NEW t \in Tables
               PROVE  /\ ~ answer[b].ok \/ t # call.table => db[b][t] = before[b][t]
                      /\ answer[b].ok /\ t = call.table => RightRows(call, before[b][t], db[b][t])
    <2>1. call.fn \in WriteMethods => call # NoCall /\ call \in WriteCalls
      BY CallOfMethod
    <2> QED BY <2>1 DEF WritesExactly, RightRows, Hits, Assigned, Blank, WriteMethods, IsDelete
  <1> DEFINE r == ReplyTo(phase = "open", b, call, before[b])
  <1>1. before[b] \in Store /\ answer[b] = AnswerOf(call, r)
    BY DEF AnswersInv, StoresType, IsAnswer
  <1>2. db[b] = r.db
    BY DEF AnswersInv, IsAnswer
  <1>3. RightWrite(call, before[b], r)
    BY <1>1, ReplyWrite
  <1> HIDE DEF r
  <1>4. answer[b].ok <=> r.ok
    BY <1>1, AnswerOfIs
  <1>5. /\ ~ r.ok \/ t # call.table => r.db[t] = before[b][t]
        /\ r.ok /\ t = call.table => RightRows(call, before[b][t], r.db[t])
    BY <1>3, Zenon DEF RightWrite
  <1>6. /\ ~ r.ok \/ t # call.table => db[b][t] = before[b][t]
        /\ r.ok /\ t = call.table => RightRows(call, before[b][t], db[b][t])
    BY <1>2, <1>5, Zenon
  <1> QED BY <1>4, <1>6, Zenon

LEMMA AnswersAgree ==
  ASSUME AnswersInv
  PROVE  EnginesAgree
  <1> SUFFICES ASSUME call # NoCall, Portable(call), NEW b \in Backends, NEW d \in Backends, before[b] = before[d]
               PROVE  answer[b] = answer[d] /\ db[b] = db[d]
    BY DEF EnginesAgree
  <1> DEFINE r(x) == ReplyTo(phase = "open", x, call, before[x])
  <1>1. /\ call \in Calls /\ before[b] \in Store
        /\ answer[b] = AnswerOf(call, r(b)) /\ db[b] = r(b).db
        /\ answer[d] = AnswerOf(call, r(d)) /\ db[d] = r(d).db
    BY DEF AnswersInv, StoresType, IsAnswer
  <1>2. r(b) = r(d)
    <2> DEFINE open == phase = "open"
    <2>1. open \in BOOLEAN
      OBVIOUS
    <2> HIDE DEF open
    <2>2. ReplyTo(open, b, call, before[b]) = ReplyTo(open, d, call, before[b])
      BY <1>1, <2>1, ReplyAgrees
    <2> QED BY <2>2 DEF open
  <1> HIDE DEF r
  <1> QED BY <1>1, <1>2

\* A select, searched by key, by lists of values, by conditions or with a
\* join, for an ordering or an extreme value, returns exactly the rows of the
\* tables that meet what the caller asked for, whatever the loops of
\* SQL._get and SQL._buildCondition put in the query and wherever they start
\* counting the parameters: pg.ts and sqlite.ts agree with the caller, for
\* every table, row, call and interleaving of the servers' starts.
THEOREM ReadsAreExact == Spec => []SelectsExactly
  <1>1. Init => AnswersInv
    BY AnswersInit
  <1>2. AnswersInv /\ [Next]_vars => AnswersInv'
    BY AnswersNext
  <1>3. AnswersInv => SelectsExactly
    BY AnswersSelect
  <1> QED BY <1>1, <1>2, <1>3, PTL DEF Spec

\* insert, update, updateAnd and the deletions change the rows they name and
\* no others: a write that fails changes nothing, one that succeeds leaves
\* every other table alone and its own table as the caller's filter and
\* fields say.
THEOREM WritesAreExact == Spec => []WritesExactly
  <1>1. Init => AnswersInv
    BY AnswersInit
  <1>2. AnswersInv /\ [Next]_vars => AnswersInv'
    BY AnswersNext
  <1>3. AnswersInv => WritesExactly
    BY AnswersWrite
  <1> QED BY <1>1, <1>2, <1>3, PTL DEF Spec

\* For a call both engines have, pg.ts with $1, $2... and sqlite.ts with its
\* own parameters give the same answer and leave the same rows, from the same
\* rows.
THEOREM BackendsAgree == Spec => []EnginesAgree
  <1>1. Init => AnswersInv
    BY AnswersInit
  <1>2. AnswersInv /\ [Next]_vars => AnswersInv'
    BY AnswersNext
  <1>3. AnswersInv => EnginesAgree
    BY AnswersAgree
  <1> QED BY <1>1, <1>2, <1>3, PTL DEF Spec
=============================================================================
