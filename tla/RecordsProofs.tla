---------------------------- MODULE RecordsProofs ----------------------------
(***************************************************************************)
(* Proofs about what the worker records: the isolation of the tenants in   *)
(* the shared tables and the start-up of the database, for any number of   *)
(* tenants, rows, processes and schema versions; what the reconciliation   *)
(* loop writes into the journal, for any number of orders; and the slices  *)
(* of a TWAP order, for any quantity, unit, step and notional floor.       *)
(***************************************************************************)
EXTENDS MCRecords, SumsProofs, TLAPS

-----------------------------------------------------------------------------
(* TenantStore *)

\* Every row is free or belongs to a tenant.
StoreInv == pRows \in [Ids -> Row \cup {Free}] /\ ReadsStayInTenant

\* What every step is, for WritesStayInTenant.
WritesStay == Scoped' => OwnRowsChange

LEMMA FreeFacts == Free.tenant = Everyone /\ Free \notin Row
BY StoreAssumption DEF Free, Row

\* Every query of the repositories names the tenant.
NamesTenant(q) == \E k \in 1 .. Len(q.text) : q.text[k] = "tenant"

LEMMA QueryFacts ==
  ASSUME NEW q \in Queries
  PROVE  NamesTenant(q)
<1>1. /\ NamesTenant(Query(<<"tenant">>)) /\ NamesTenant(Query(<<"tenant", "limit">>))
      /\ NamesTenant(Query(<<"arg", "tenant">>)) /\ NamesTenant(Query(<<"arg", "arg", "tenant">>))
      /\ NamesTenant(Query(<<"arg", "tenant", "limit">>)) /\ NamesTenant(Limited)
  BY DEF NamesTenant, Query, Limited
<1>2. q \in {Query(<<"tenant">>), Query(<<"tenant", "limit">>), Query(<<"arg", "tenant">>),
             Query(<<"arg", "arg", "tenant">>), Query(<<"arg", "tenant", "limit">>), Limited}
  BY DEF Queries, AccountQueries, PositionQueries, OrderQueries, TradeQueries, DecisionQueries,
         SessionQueries, SnapshotQueries, OptimizationQueries, ConfigChangeQueries,
         BreakerEventQueries, ErrorLogQueries, StrategyStateQueries, FundingQueries,
         LiquidationQueries
<1> QED BY <1>1, <1>2

\* A row that a scoped repository's query returns is one of the tenant, however
\* the parameters are bound.
LEMMA SelectFacts ==
  ASSUME NEW scope, NEW q \in Queries, NEW name, NEW row,
         \A k \in 1 .. Len(q.text) : Matches(row, q.text[k], q.params[k], scope, name)
  PROVE  row.tenant = scope
<1>1. PICK k \in 1 .. Len(q.text) : q.text[k] = "tenant"
  BY QueryFacts DEF NamesTenant
<1>2. Matches(row, "tenant", q.params[k], scope, name)
  BY <1>1
<1> QED BY <1>2 DEF Matches

LEMMA StoreInitially == StoreInit => StoreInv
BY DEF StoreInit, StoreInv, ReadsStayInTenant, Scoped

\* Operations that only read.
LEMMA StoreReads ==
  ASSUME StoreInv, NEW scope, pBy' = scope, UNCHANGED pRows,
         scope # Everyone => \A i \in pGot' : pRows[i].tenant = scope
  PROVE  StoreInv' /\ WritesStay
BY DEF StoreInv, ReadsStayInTenant, Scoped, WritesStay, OwnRowsChange

\* Operations that write one row, which is free or within the scope, and stays so.
LEMMA StoreWrites ==
  ASSUME StoreInv, NEW scope, NEW i \in Ids, NEW row \in Row \cup {Free},
         pBy' = scope, pRows' = [pRows EXCEPT ![i] = row],
         scope # Everyone => /\ pRows[i].tenant \in {Everyone, scope}
                             /\ row.tenant \in {Everyone, scope},
         pGot' = {} \/ (pGot' = {i} /\ row.tenant = scope) \/ (pGot' = {i} /\ scope = Everyone)
  PROVE  StoreInv' /\ WritesStay
<1>1. pRows' \in [Ids -> Row \cup {Free}] /\ pRows'[i] = row
  BY DEF StoreInv
<1>2. ReadsStayInTenant'
  BY <1>1 DEF ReadsStayInTenant, Scoped
<1>3. WritesStay
  BY <1>1 DEF StoreInv, WritesStay, OwnRowsChange, Scoped
<1> QED BY <1>1, <1>2, <1>3 DEF StoreInv

LEMMA StoreStep ==
  ASSUME StoreInv, StoreNext
  PROVE  StoreInv' /\ WritesStay
<1>1. PICK scope \in Scopes \cup {Everyone} :
    \/ \E i \in Ids, row \in Row : Create(scope, i, row) \/ UpsertAccount(scope, i, row)
    \/ \E i \in Ids : Get(scope, i) \/ Delete(scope, i)
    \/ \E named \in Scopes \cup {Everyone}, name \in Names : List(scope, named, name)
    \/ \E i \in Ids, name \in Names : Update(scope, i, name) \/ Upsert(scope, i, name)
    \/ \E query \in Queries, name \in Names : Select(scope, query, name)
    \/ \E named \in Scopes : SumPnlSince(scope, named)
  BY DEF StoreNext
<1>0. pRows \in [Ids -> Row \cup {Free}]
  BY DEF StoreInv
<1>2. ASSUME NEW i \in Ids, NEW row \in Row, Create(scope, i, row)
      PROVE  StoreInv' /\ WritesStay
  <2>1. pRows[i] = Free
    BY <1>2 DEF Create, Used
  <2>2. Stamp(scope, row) \in Row /\ (scope # Everyone => Stamp(scope, row).tenant = scope)
    BY <1>1 DEF Stamp, Row
  <2> QED BY <1>2, <2>1, <2>2, FreeFacts, StoreWrites DEF Create, By
<1>3. ASSUME NEW i \in Ids, Get(scope, i)
      PROVE  StoreInv' /\ WritesStay
  BY <1>3, StoreReads DEF Get, GetRow, InScope, By
<1>4. ASSUME NEW i \in Ids, Delete(scope, i)
      PROVE  StoreInv' /\ WritesStay
  <2>1. CASE Guarded(scope, i)
    BY <1>4, <2>1, FreeFacts, StoreWrites DEF Delete, Guarded, InScope, By
  <2>2. CASE ~Guarded(scope, i)
    BY <1>4, <2>2, StoreReads DEF Delete, By
  <2> QED BY <2>1, <2>2
<1>5. ASSUME NEW named \in Scopes \cup {Everyone}, NEW name \in Names, List(scope, named, name)
      PROVE  StoreInv' /\ WritesStay
  BY <1>5, StoreReads DEF List, Filter, By
<1>6. ASSUME NEW i \in Ids, NEW name \in Names, Update(scope, i, name)
      PROVE  StoreInv' /\ WritesStay
  <2>1. CASE Guarded(scope, i)
    <3>1. pRows[i] \in Row /\ pRows[i].tenant = scope
      BY <1>0, <1>6, <2>1 DEF Update, Guarded, InScope, Used
    <3> DEFINE row == [pRows[i] EXCEPT !.name = name]
    <3>2. row \in Row /\ row.tenant = scope
      BY <3>1 DEF Row
    <3>3. pRows' = [pRows EXCEPT ![i] = row]
      BY <1>6, <2>1 DEF Update
    <3> HIDE DEF row
    <3> QED BY <1>6, <3>1, <3>2, <3>3, StoreWrites DEF Update, By
  <2>2. CASE ~Guarded(scope, i)
    BY <1>6, <2>2, StoreReads DEF Update, By
  <2> QED BY <2>1, <2>2
<1>7. ASSUME NEW i \in Ids, NEW name \in Names, Upsert(scope, i, name)
      PROVE  StoreInv' /\ WritesStay
  <2> DEFINE row == [tenant |-> scope, name |-> name]
             own == {j \in Used : pRows[j] = row}
  <2>1. CASE UNCHANGED pRows /\ pGot' = own
    BY <1>7, <2>1, StoreReads DEF Upsert, By
  <2>2. CASE i \notin Used /\ pRows' = [pRows EXCEPT ![i] = row] /\ pGot' = {i}
    <3>1. row \in Row /\ row.tenant = scope /\ pRows[i] = Free
      BY <1>1, <1>7, <2>2 DEF Upsert, Row, Used
    <3> HIDE DEF row
    <3> QED BY <1>7, <2>2, <3>1, FreeFacts, StoreWrites DEF Upsert, By
  <2> QED BY <1>7, <2>1, <2>2 DEF Upsert
<1>8. ASSUME NEW query \in Queries, NEW name \in Names, Select(scope, query, name)
      PROVE  StoreInv' /\ WritesStay
  <2>1. \A i \in pGot' : pRows[i].tenant = scope
    BY <1>8, SelectFacts DEF Select
  <2> QED BY <1>8, <2>1, StoreReads DEF Select, By
<1>9. ASSUME NEW named \in Scopes, SumPnlSince(scope, named)
      PROVE  StoreInv' /\ WritesStay
  BY <1>9, StoreReads DEF SumPnlSince, By
<1>10. ASSUME NEW i \in Ids, NEW row \in Row, UpsertAccount(scope, i, row)
       PROVE  StoreInv' /\ WritesStay
  <2> DEFINE new == Stamp(scope, row)
  <2>1. new \in Row /\ (scope # Everyone => new.tenant = scope)
    BY <1>1 DEF Stamp, Row
  <2> HIDE DEF new
  <2>2. pRows' = [pRows EXCEPT ![i] = new] /\ pBy' = scope /\ pGot' = {i} /\ pAccounts
    BY <1>10 DEF UpsertAccount, By, new
  <2>3. pRows' \in [Ids -> Row \cup {Free}] /\ pRows'[i] = new
    BY <1>0, <2>1, <2>2
  <2>4. WritesStay
    BY <2>1, <2>2 DEF StoreInv, WritesStay, OwnRowsChange, Scoped
  <2>5. StoreInv'
    BY <2>1, <2>2, <2>3 DEF StoreInv, ReadsStayInTenant, Scoped
  <2> QED BY <2>4, <2>5
<1> QED BY <1>1, <1>2, <1>3, <1>4, <1>5, <1>6, <1>7, <1>8, <1>9, <1>10

LEMMA StoreStutters ==
  ASSUME StoreInv, UNCHANGED pVars
  PROVE  StoreInv'
BY DEF StoreInv, ReadsStayInTenant, Scoped, pVars

\* No operation of a scoped repository returns a row of another tenant, and none but
\* the upsert of the table accounts creates, changes, moves or deletes one, for any
\* number of tenants and rows.
THEOREM StoreHolds == StoreSpec => TenantIsolation
<1>1. StoreInv /\ [StoreNext]_pVars => StoreInv' /\ [WritesStay]_pVars
  BY StoreStep, StoreStutters
<1>2. StoreSpec => []StoreInv
  BY <1>1, StoreInitially, PTL DEF StoreSpec
<1>3. StoreSpec => [][WritesStay]_pVars
  BY <1>1, <1>2, PTL DEF StoreSpec
<1>4. StoreInv => ReadsStayInTenant
  BY DEF StoreInv
<1>5. StoreSpec => []ReadsStayInTenant
  BY <1>2, <1>4, PTL
<1> QED BY <1>3, <1>5 DEF TenantIsolation, WritesStayInTenant, WritesStay

-----------------------------------------------------------------------------
(* Schema *)

SchemaTypes ==
  /\ dTables \in BOOLEAN /\ dAlone \in BOOLEAN
  /\ dVersion \in 0 .. Target
  /\ dLev \in {"none", "old5", "chosen5", "other"}
  /\ dAt \in [Procs -> {"down", "read", "migrate", "serving"}]
  /\ dRead \in [Procs -> 0 .. Target]

\* The columns of every version up to the recorded one exist, and of every version
\* up to the one a migrating process has read; a process serves once all are there.
ColumnsInOrder ==
  /\ dCols \subseteq Versions /\ 1 .. dVersion \subseteq dCols
  /\ \A p \in Procs : dAt[p] = "migrate" => 1 .. dRead[p] \subseteq dCols
  /\ \A p \in Procs : dAt[p] = "serving" => dVersion = Target

\* A leverage of the tenant's choice is younger than the backfill; and as long as
\* versions are read one process at a time, the migrating one knows the version.
ChoicesInOrder ==
  /\ dLev = "chosen5" => dVersion >= Backfill
  /\ dAlone => /\ \A p, q \in Procs : dAt[p] = "migrate" /\ dAt[q] = "migrate" => p = q
               /\ \A p \in Procs : dAt[p] = "migrate" => dRead[p] = dVersion

SchemaInv == SchemaTypes /\ ColumnsInOrder /\ ChoicesInOrder

\* What every step is, for ChoiceSurvivesStart.
ChoiceSurvives ==
  dAlone /\ dLev = "chosen5" /\ dLev' # dLev => \E p \in Procs : dAt[p] = "serving" /\ dAt' = dAt

LEMMA SchemaInitially == SchemaInit => SchemaInv
<1> SUFFICES ASSUME SchemaInit PROVE SchemaInv
  OBVIOUS
<1> USE SchemaAssumption
<1>1. dAt = [p \in Procs |-> "down"] /\ dRead = [p \in Procs |-> 0] /\ dAlone = TRUE
  BY DEF SchemaInit
<1>2. dVersion \in 0 .. Target /\ dTables \in BOOLEAN /\ dCols = 1 .. dVersion
  <2>1. CASE dTables = FALSE /\ dVersion = 0 /\ dCols = {}
    <3>1. 1 .. 0 = {} /\ 0 \in 0 .. Target
      OBVIOUS
    <3> QED BY <2>1, <3>1
  <2>2. CASE dTables = TRUE /\ dVersion \in 0 .. Target /\ dCols = 1 .. dVersion
    BY <2>2
  <2> QED BY <2>1, <2>2 DEF SchemaInit
<1>3. dLev \in {"none", "old5", "chosen5", "other"} /\ (dLev = "chosen5" => dVersion >= Backfill)
  BY DEF SchemaInit
<1>4. SchemaTypes
  BY <1>1, <1>2, <1>3 DEF SchemaTypes
<1>5. ColumnsInOrder
  BY <1>1, <1>2 DEF ColumnsInOrder, Versions
<1>6. ChoicesInOrder
  BY <1>1, <1>3 DEF ChoicesInOrder
<1> QED BY <1>4, <1>5, <1>6 DEF SchemaInv

LEMMA SchemaStep ==
  ASSUME SchemaInv, SchemaNext
  PROVE  SchemaInv' /\ ChoiceSurvives
<1> USE SchemaAssumption
<1>0. SchemaTypes /\ ColumnsInOrder /\ ChoicesInOrder
  BY DEF SchemaInv
<1>1. ASSUME NEW p \in Procs, Initialize(p) PROVE SchemaInv' /\ ChoiceSurvives
  <2>1. /\ UNCHANGED <<dVersion, dLev, dRead, dAlone>> /\ dTables' = TRUE
        /\ dAt' = [dAt EXCEPT ![p] = "read"] /\ dCols' \in {dCols, Versions}
    BY <1>1 DEF Initialize, Move
  <2>2. SchemaTypes'
    BY <1>0, <2>1 DEF SchemaTypes
  <2>3. ColumnsInOrder'
    BY <1>0, <2>1 DEF SchemaTypes, ColumnsInOrder, Versions
  <2>4. ChoicesInOrder'
    BY <1>0, <2>1 DEF SchemaTypes, ChoicesInOrder
  <2> QED BY <2>1, <2>2, <2>3, <2>4 DEF SchemaInv, ChoiceSurvives
<1>2. ASSUME NEW p \in Procs, ReadVersion(p) PROVE SchemaInv' /\ ChoiceSurvives
  <2>1. /\ UNCHANGED <<dTables, dVersion, dCols, dLev>>
        /\ dRead' = [dRead EXCEPT ![p] = dVersion]
    BY <1>2 DEF ReadVersion
  <2>2. /\ dAt' = [dAt EXCEPT ![p] = IF UpToDate THEN "serving" ELSE "migrate"]
        /\ dAlone' \in BOOLEAN
        /\ dAlone' => dAlone /\ (UpToDate \/ \A q \in Procs : dAt[q] # "migrate")
    BY <1>2 DEF ReadVersion, Move
  <2>3. UpToDate <=> dVersion = Target
    BY <1>0 DEF UpToDate, SchemaTypes
  <2>4. SchemaTypes'
    <3>1. dAt' \in [Procs -> {"down", "read", "migrate", "serving"}]
      BY <1>0, <2>2 DEF SchemaTypes
    <3>2. dRead' \in [Procs -> 0 .. Target]
      BY <1>0, <2>1 DEF SchemaTypes
    <3> QED BY <1>0, <2>1, <2>2, <3>1, <3>2 DEF SchemaTypes
  <2>5. ColumnsInOrder'
    <3>1. ASSUME NEW q \in Procs, dAt'[q] = "migrate" PROVE 1 .. dRead'[q] \subseteq dCols
      BY <1>0, <2>1, <2>2, <3>1 DEF SchemaTypes, ColumnsInOrder
    <3>2. ASSUME NEW q \in Procs, dAt'[q] = "serving" PROVE dVersion = Target
      BY <1>0, <2>2, <2>3, <3>2 DEF SchemaTypes, ColumnsInOrder
    <3> QED BY <1>0, <2>1, <3>1, <3>2 DEF ColumnsInOrder
  <2>6. ChoicesInOrder'
    <3>1. ASSUME dAlone', NEW q \in Procs, dAt'[q] = "migrate" PROVE dRead'[q] = dVersion
      BY <1>0, <2>1, <2>2, <3>1 DEF SchemaTypes, ChoicesInOrder
    <3>2. ASSUME dAlone', NEW q \in Procs, NEW r \in Procs, dAt'[q] = "migrate", dAt'[r] = "migrate"
          PROVE  q = r
      BY <1>0, <2>2, <3>2 DEF SchemaTypes, ChoicesInOrder
    <3> QED BY <1>0, <2>1, <3>1, <3>2 DEF ChoicesInOrder
  <2> QED BY <2>1, <2>4, <2>5, <2>6 DEF SchemaInv, ChoiceSurvives
<1>3. ASSUME NEW p \in Procs, Migrate(p) PROVE SchemaInv' /\ ChoiceSurvives
  <2>1. /\ UNCHANGED <<dTables, dRead, dAlone>> /\ dVersion' = Target
        /\ dAt[p] = "migrate" /\ dAt' = [dAt EXCEPT ![p] = "serving"]
        /\ dCols' = dCols \cup Outstanding(p)
        /\ dLev' \in {dLev, "other"} /\ (dLev' # dLev => Backfill \in Outstanding(p))
    BY <1>3 DEF Migrate, Move, Recorded
  <2>2. SchemaTypes'
    BY <1>0, <2>1 DEF SchemaTypes
  <2>3. dCols' = Versions
    <3>1. dRead[p] \in 0 .. Target /\ 1 .. dRead[p] \subseteq dCols /\ dCols \subseteq Versions
      BY <1>0, <2>1 DEF SchemaTypes, ColumnsInOrder
    <3>2. \A v \in Versions : v \in 1 .. dRead[p] \/ v \in (dRead[p] + 1) .. Target
      BY <3>1 DEF Versions
    <3>3. \A v \in (dRead[p] + 1) .. Target : v \in Versions
      BY <3>1 DEF Versions
    <3>4. dCols' = dCols \cup ((dRead[p] + 1) .. Target)
      BY <2>1 DEF Outstanding
    <3> QED BY <3>1, <3>2, <3>3, <3>4
  <2>4. ColumnsInOrder'
    <3>1. \A q \in Procs : dRead'[q] \in 0 .. Target
      BY <2>2 DEF SchemaTypes
    <3>2. \A q \in Procs : 1 .. dRead'[q] \subseteq dCols'
      BY <2>3, <3>1 DEF Versions
    <3> QED BY <2>1, <2>3, <3>2 DEF ColumnsInOrder, Versions
  <2>5. ChoicesInOrder'
    <3>1. \A q \in Procs : dAt'[q] = "migrate" => dAt[q] = "migrate" /\ q # p
      BY <1>0, <2>1 DEF SchemaTypes
    <3>2. dAlone' => \A q \in Procs : dAt'[q] # "migrate"
      BY <1>0, <2>1, <3>1 DEF ChoicesInOrder
    <3>3. dLev' = "chosen5" => dVersion' >= Backfill
      BY <2>1
    <3> QED BY <3>2, <3>3 DEF ChoicesInOrder
  <2>6. ChoiceSurvives
    <3> SUFFICES ASSUME dAlone, dLev = "chosen5", dLev' # dLev PROVE FALSE
      BY DEF ChoiceSurvives
    <3>1. dRead[p] = dVersion /\ dVersion >= Backfill /\ dVersion \in 0 .. Target
      BY <1>0, <2>1 DEF ChoicesInOrder, SchemaTypes
    <3>2. Backfill \in (dRead[p] + 1) .. Target
      BY <2>1 DEF Outstanding
    <3> QED BY <3>1, <3>2
  <2> QED BY <2>2, <2>4, <2>5, <2>6 DEF SchemaInv
<1>4. ASSUME NEW p \in Procs, Dies(p) PROVE SchemaInv' /\ ChoiceSurvives
  <2>1. /\ UNCHANGED <<dTables, dVersion, dCols, dLev, dRead, dAlone>>
        /\ dAt' = [dAt EXCEPT ![p] = "down"]
    BY <1>4 DEF Dies, Move
  <2>2. SchemaTypes'
    BY <1>0, <2>1 DEF SchemaTypes
  <2>3. ColumnsInOrder'
    BY <1>0, <2>1 DEF SchemaTypes, ColumnsInOrder
  <2>4. ChoicesInOrder'
    BY <1>0, <2>1 DEF SchemaTypes, ChoicesInOrder
  <2> QED BY <2>1, <2>2, <2>3, <2>4 DEF SchemaInv, ChoiceSurvives
<1>5. ASSUME NEW p \in Procs, TenantChooses(p) PROVE SchemaInv' /\ ChoiceSurvives
  <2>1. /\ UNCHANGED <<dTables, dVersion, dCols, dAt, dRead, dAlone>>
        /\ dAt[p] = "serving" /\ dLev' \in {"chosen5", "other"}
    BY <1>5 DEF TenantChooses
  <2>2. SchemaTypes'
    BY <1>0, <2>1 DEF SchemaTypes
  <2>3. ColumnsInOrder'
    BY <1>0, <2>1 DEF ColumnsInOrder
  <2>4. ChoicesInOrder'
    BY <1>0, <2>1 DEF ColumnsInOrder, ChoicesInOrder
  <2> QED BY <2>1, <2>2, <2>3, <2>4 DEF SchemaInv, ChoiceSurvives
<1> QED BY <1>1, <1>2, <1>3, <1>4, <1>5 DEF SchemaNext

LEMMA SchemaStutters ==
  ASSUME SchemaInv, UNCHANGED dVars
  PROVE  SchemaInv'
BY DEF SchemaInv, SchemaTypes, ColumnsInOrder, ChoicesInOrder, dVars

LEMMA SchemaImplies ==
  ASSUME SchemaInv
  PROVE  ServesCompleteSchema
BY DEF SchemaInv, ColumnsInOrder, ServesCompleteSchema, Versions

\* Whatever version a file had, however many processes start on it and wherever they
\* die: who serves does so on a complete schema, and a leverage the tenant chose
\* outlives later starts as long as they read the version one at a time.
THEOREM SchemaHolds == SchemaSpec => SchemaSound
<1>1. SchemaInv /\ [SchemaNext]_dVars => SchemaInv' /\ [ChoiceSurvives]_dVars
  BY SchemaStep, SchemaStutters
<1>2. SchemaSpec => []SchemaInv
  BY <1>1, SchemaInitially, PTL DEF SchemaSpec
<1>3. SchemaSpec => [][ChoiceSurvives]_dVars
  BY <1>1, <1>2, PTL DEF SchemaSpec
<1>4. SchemaSpec => []ServesCompleteSchema
  BY <1>2, SchemaImplies, PTL
<1> QED BY <1>3, <1>4 DEF SchemaSound, ChoiceSurvivesStart, ChoiceSurvives

-----------------------------------------------------------------------------
(* TradeJournal *)

Exec == [ord : Nat \ {0}, pair : Pairs, side : {"BUY", "SELL"}, pnl : {0, 1}]

JournalTypes ==
  /\ jExecs \in Seq(Exec) /\ jOpen \in [Pairs -> {"flat", "BUY", "SELL"}]
  /\ IsFiniteSet(jRows) /\ jTodo \subseteq DOMAIN jExecs /\ jAt \in 0 .. Len(jExecs)
  /\ jLongs \in Int /\ jShorts \in Int /\ jBlind \in Nat

\* Executions of one order are equal and later orders have higher ids.
OrdersInOrder(e) ==
  \A i, j \in DOMAIN e : /\ i <= j => e[i].ord <= e[j].ord
                         /\ e[i].ord = e[j].ord => e[i] = e[j]

Oldest(e, i) == \A j \in DOMAIN e : j < i => e[j].pair # e[i].pair
Newest(e, i) == \A j \in DOMAIN e : i < j => e[j].pair # e[i].pair
\* i is the execution of its pair before j.
Before(e, i, j) ==
  i < j /\ e[i].pair = e[j].pair /\ \A k \in DOMAIN e : i < k /\ k < j => e[k].pair # e[i].pair

\* The position of a pair is what its newest execution left, the oldest opened it,
\* and from one order to the next entries and closes alternate.
EntriesAlternate(e, open) ==
  /\ \A p \in Pairs : (\A i \in DOMAIN e : e[i].pair # p) => open[p] = "flat"
  /\ \A i \in DOMAIN e : Newest(e, i) => open[e[i].pair] = IF e[i].pnl = 1 THEN "flat" ELSE e[i].side
  /\ \A i \in DOMAIN e : Oldest(e, i) => e[i].pnl = 0
  /\ \A i, j \in DOMAIN e : Before(e, i, j) /\ e[i].ord # e[j].ord =>
       /\ e[i].pnl # e[j].pnl
       /\ e[j].pnl = 1 => e[j].side = Opposite(e[i].side)

AtOnce(e) == \A i, j \in DOMAIN e : e[i].ord = e[j].ord => i = j

\* The pass misses no leg: what is older than a leg to come is to come too, or is
\* behind the loop in the symbol it is at.
PassInOrder(e, todo, at) ==
  \A i \in todo :
    /\ at # 0 /\ e[at].pair = e[i].pair => at < i
    /\ \A j \in DOMAIN e : j < i /\ e[j].pair = e[i].pair =>
         j \in todo \/ (at # 0 /\ e[at].pair = e[i].pair /\ j <= at)

\* The queues hold what the leg behind the loop left open.
LongsOf(x) == IF x.pnl = 0 /\ x.side = "BUY" THEN 1 ELSE 0
ShortsOf(x) == IF x.pnl = 0 /\ x.side = "SELL" THEN 1 ELSE 0
QueuesMatch(e, at, longs, shorts) ==
  AtOnce(e) /\ at # 0 => longs = LongsOf(e[at]) /\ shorts = ShortsOf(e[at])

\* A row of the loop is that of an execution, with its PnL.
RowMatches(e, r) ==
  /\ r.key = r.ord
  /\ \E i \in DOMAIN e : e[i].ord = r.ord /\ e[i].side = r.side /\ (AtOnce(e) => r.pnl = e[i].pnl)
RowsMatch(e, rows) == \A r \in rows : r.by = "loop" => RowMatches(e, r)

JournalInv ==
  /\ JournalTypes /\ OrdersInOrder(jExecs) /\ EntriesAlternate(jExecs, jOpen)
  /\ PassInOrder(jExecs, jTodo, jAt) /\ QueuesMatch(jExecs, jAt, jLongs, jShorts)
  /\ RowsMatch(jExecs, jRows) /\ IngestedOnce

LEMMA JournalInitially == JInit => JournalInv
<1> SUFFICES ASSUME JInit PROVE JournalInv
  OBVIOUS
<1>1. /\ jExecs = <<>> /\ jOpen = [p \in Pairs |-> "flat"] /\ jRows = {} /\ jTodo = {}
      /\ jAt = 0 /\ jLongs = 0 /\ jShorts = 0 /\ jBlind = 0
  BY DEF JInit
<1>2. JournalTypes
  <2>1. IsFiniteSet(jRows)
    BY <1>1, FS_EmptySet
  <2> QED BY <1>1, <2>1 DEF JournalTypes
<1>3. DOMAIN jExecs = {}
  BY <1>1
<1>4. EntriesAlternate(jExecs, jOpen)
  BY <1>1, <1>3 DEF EntriesAlternate
<1>5. IngestedOnce
  <2>1. LoopRows = {} /\ {r.ord : r \in LoopRows} = {}
    BY <1>1 DEF LoopRows
  <2>2. Cardinality({}) = 0
    BY FS_EmptySet
  <2>3. Cardinality(LoopRows) = 0 /\ Cardinality({r.ord : r \in LoopRows}) = 0 /\ jBlind = 0
    BY <1>1, <2>1, <2>2, Zenon
  <2> DEFINE a == Cardinality(LoopRows)  b == Cardinality({r.ord : r \in LoopRows})
  <2>4. a = 0 /\ b = 0 /\ jBlind = 0
    BY <2>3
  <2> HIDE DEF a, b
  <2>5. a <= b + jBlind
    BY <2>4
  <2> QED BY <2>5 DEF IngestedOnce, a, b
<1> QED BY <1>1, <1>2, <1>3, <1>4, <1>5 DEF JournalInv, OrdersInOrder, PassInOrder, QueuesMatch, RowsMatch

-----------------------------------------------------------------------------
\* An order of n executions is appended.
Repeated(x, n) == [i \in 1 .. n |-> x]
IsLonger(f, e, x, n) ==
  /\ Len(f) = Len(e) + n /\ Len(e) \in Nat /\ DOMAIN e = 1 .. Len(e) /\ DOMAIN f = 1 .. Len(f)
  /\ \A i \in DOMAIN e : i \in DOMAIN f /\ f[i] = e[i] /\ e[i] \in Exec
  /\ \A i \in DOMAIN f \ DOMAIN e : f[i] = x /\ i > Len(e)

LEMMA Appended ==
  ASSUME NEW e \in Seq(Exec), NEW x \in Exec, NEW n \in Nat \ {0}, NEW f, f = e \o Repeated(x, n)
  PROVE  f \in Seq(Exec) /\ IsLonger(f, e, x, n)
<1> DEFINE t == [i \in 1 .. n |-> x]
<1>1. t \in Seq(Exec) /\ Len(t) = n /\ DOMAIN t = 1 .. n /\ \A i \in 1 .. n : t[i] = x
  OBVIOUS
<1> HIDE DEF t
<1>2. f = e \o t
  BY DEF t, Repeated
<1>3. f \in Seq(Exec) /\ Len(f) = Len(e) + n
  BY <1>1, <1>2
<1>4. \A i \in 1 .. Len(e) : f[i] = e[i]
  BY <1>1, <1>2
<1>5. \A i \in 1 .. (Len(e) + n) : i > Len(e) => f[i] = t[i - Len(e)]
  BY <1>1, <1>2
<1>6. ASSUME NEW i \in 1 .. (Len(e) + n), i > Len(e) PROVE f[i] = x
  <2>1. i - Len(e) \in 1 .. n
    BY <1>6
  <2> QED BY <1>1, <1>5, <1>6, <2>1
<1>7. \A i \in 1 .. Len(e) : e[i] \in Exec
  OBVIOUS
<1> QED BY <1>3, <1>4, <1>6, <1>7 DEF IsLonger

LEMMA OrdersAppended ==
  ASSUME NEW e \in Seq(Exec), OrdersInOrder(e), NEW x \in Exec, NEW n \in Nat \ {0},
         NEW f, f = e \o Repeated(x, n),
         x.ord = IF e = <<>> THEN 1 ELSE e[Len(e)].ord + 1
  PROVE  OrdersInOrder(f) /\ \A i \in DOMAIN e : e[i].ord < x.ord
<1>1. /\ Len(f) = Len(e) + n /\ Len(e) \in Nat /\ DOMAIN e = 1 .. Len(e) /\ DOMAIN f = 1 .. Len(f)
      /\ \A i \in DOMAIN e : i \in DOMAIN f /\ f[i] = e[i]
      /\ \A i \in DOMAIN f \ DOMAIN e : f[i] = x /\ i > Len(e)
      /\ \A i \in DOMAIN e : e[i] \in Exec
  <2>1. IsLonger(f, e, x, n)
    BY Appended
  <2> QED BY <2>1 DEF IsLonger
<1>2. \A i \in DOMAIN e : e[i] \in Exec /\ e[i].ord \in Nat
  BY <1>1 DEF Exec
<1>3. ASSUME NEW i \in DOMAIN e PROVE e[i].ord < x.ord
  <2>1. e # <<>> /\ Len(e) \in DOMAIN e /\ i <= Len(e)
    BY <1>1, <1>3
  <2>2. e[i].ord <= e[Len(e)].ord
    BY <2>1 DEF OrdersInOrder
  <2>3. x.ord = e[Len(e)].ord + 1
    BY <2>1
  <2> QED BY <1>2, <2>1, <2>2, <2>3
<1>4. x.ord \in Nat
  BY DEF Exec
<1>5. ASSUME NEW i \in DOMAIN f, NEW j \in DOMAIN f
      PROVE  /\ i <= j => f[i].ord <= f[j].ord
             /\ f[i].ord = f[j].ord => f[i] = f[j]
  <2>1. CASE i \in DOMAIN e /\ j \in DOMAIN e
    BY <1>1, <2>1 DEF OrdersInOrder
  <2>2. CASE i \in DOMAIN e /\ j \notin DOMAIN e
    BY <1>1, <1>2, <1>3, <1>4, <2>2
  <2>3. CASE i \notin DOMAIN e /\ j \in DOMAIN e
    <3>1. ~(i <= j)
      BY <1>1, <2>3
    <3>2. f[j].ord < f[i].ord /\ f[j].ord \in Nat /\ f[i].ord \in Nat
      BY <1>1, <1>2, <1>3, <1>4, <2>3
    <3> QED BY <3>1, <3>2
  <2>4. CASE i \notin DOMAIN e /\ j \notin DOMAIN e
    BY <1>1, <1>4, <2>4
  <2> QED BY <2>1, <2>2, <2>3, <2>4
<1> QED BY <1>3, <1>5 DEF OrdersInOrder

\* Entries and closes alternate after an entry of a flat pair or the close of its
\* position.
LEMMA TradesAppended ==
  ASSUME NEW e \in Seq(Exec), OrdersInOrder(e), NEW open, EntriesAlternate(e, open),
         open \in [Pairs -> {"flat", "BUY", "SELL"}],
         NEW x \in Exec, NEW n \in Nat \ {0}, NEW f, f = e \o Repeated(x, n),
         \A i \in DOMAIN e : e[i].ord < x.ord,
         \/ open[x.pair] = "flat" /\ x.pnl = 0
         \/ open[x.pair] # "flat" /\ x.pnl = 1 /\ x.side = Opposite(open[x.pair])
  PROVE  EntriesAlternate(f, [open EXCEPT ![x.pair] = IF x.pnl = 1 THEN "flat" ELSE x.side])
<1>1. /\ Len(f) = Len(e) + n /\ Len(e) \in Nat /\ DOMAIN e = 1 .. Len(e) /\ DOMAIN f = 1 .. Len(f)
      /\ \A i \in DOMAIN e : i \in DOMAIN f /\ f[i] = e[i]
      /\ \A i \in DOMAIN f \ DOMAIN e : f[i] = x /\ i > Len(e)
      /\ \A i \in DOMAIN e : e[i] \in Exec
  <2>1. IsLonger(f, e, x, n)
    BY Appended
  <2> QED BY <2>1 DEF IsLonger
<1>2. /\ x.pair \in Pairs /\ x.pnl \in {0, 1} /\ x.side \in {"BUY", "SELL"}
      /\ \A i \in DOMAIN e : e[i] \in Exec /\ e[i].pair \in Pairs
  BY <1>1 DEF Exec
<1> DEFINE k == Len(e) + 1
           next == [open EXCEPT ![x.pair] = IF x.pnl = 1 THEN "flat" ELSE x.side]
<1>3. k \in DOMAIN f /\ k \notin DOMAIN e /\ f[k] = x /\ \A i \in DOMAIN e : i < k
  BY <1>1
<1>4. \A i \in DOMAIN f \ DOMAIN e : i = k \/ (k < i /\ i - 1 \in DOMAIN f /\ i - 1 \notin DOMAIN e /\ i - 1 < i)
  BY <1>1
<1>5. next[x.pair] = (IF x.pnl = 1 THEN "flat" ELSE x.side) /\ \A p \in Pairs : p # x.pair => next[p] = open[p]
  BY <1>2
<1> HIDE DEF k, next
<1>6. ASSUME NEW p \in Pairs, \A i \in DOMAIN f : f[i].pair # p PROVE next[p] = "flat"
  <2>1. p # x.pair /\ \A i \in DOMAIN e : e[i].pair # p
    BY <1>1, <1>3, <1>6
  <2> QED BY <1>5, <2>1 DEF EntriesAlternate
<1>7. ASSUME NEW i \in DOMAIN f, Newest(f, i)
      PROVE  next[f[i].pair] = IF f[i].pnl = 1 THEN "flat" ELSE f[i].side
  <2>1. CASE i \in DOMAIN e
    <3>1. f[i] = e[i] /\ e[i].pair # x.pair
      BY <1>1, <1>3, <1>7, <2>1 DEF Newest
    <3>2. Newest(e, i)
      BY <1>1, <1>7, <2>1 DEF Newest
    <3> QED BY <1>2, <1>5, <2>1, <3>1, <3>2 DEF EntriesAlternate
  <2>2. CASE i \notin DOMAIN e
    BY <1>1, <1>5, <2>2
  <2> QED BY <2>1, <2>2
<1>8. ASSUME NEW i \in DOMAIN f, Oldest(f, i) PROVE f[i].pnl = 0
  <2>1. CASE i \in DOMAIN e
    <3>1. Oldest(e, i) /\ f[i] = e[i]
      BY <1>1, <1>8, <2>1 DEF Oldest
    <3> QED BY <2>1, <3>1 DEF EntriesAlternate
  <2>2. CASE i \notin DOMAIN e
    <3>1. f[i] = x
      BY <1>1, <2>2
    <3>2. i = k
      <4>1. SUFFICES ASSUME i # k PROVE FALSE
        OBVIOUS
      <4>2. i - 1 \in DOMAIN f /\ i - 1 \notin DOMAIN e /\ i - 1 < i
        BY <1>4, <2>2, <4>1
      <4>3. f[i - 1] = x
        BY <1>1, <4>2
      <4> QED BY <1>8, <3>1, <4>2, <4>3 DEF Oldest
    <3>3. \A j \in DOMAIN e : e[j].pair # x.pair
      BY <1>1, <1>3, <1>8, <3>1, <3>2 DEF Oldest
    <3>4. open[x.pair] = "flat"
      BY <1>2, <3>3 DEF EntriesAlternate
    <3> QED BY <3>1, <3>4
  <2> QED BY <2>1, <2>2
<1>9. ASSUME NEW i \in DOMAIN f, NEW j \in DOMAIN f, Before(f, i, j), f[i].ord # f[j].ord
      PROVE  /\ f[i].pnl # f[j].pnl
             /\ f[j].pnl = 1 => f[j].side = Opposite(f[i].side)
  <2>1. CASE j \in DOMAIN e
    <3>1. i \in DOMAIN e
      BY <1>1, <1>9, <2>1 DEF Before
    <3>2. Before(e, i, j) /\ f[i] = e[i] /\ f[j] = e[j]
      BY <1>1, <1>9, <2>1, <3>1 DEF Before
    <3> QED BY <1>9, <2>1, <3>1, <3>2 DEF EntriesAlternate
  <2>2. CASE j \notin DOMAIN e
    <3>1. f[j] = x
      BY <1>1, <2>2
    <3>2. i \in DOMAIN e
      BY <1>1, <1>9, <3>1
    <3>3. j = k
      <4>1. SUFFICES ASSUME j # k PROVE FALSE
        OBVIOUS
      <4>2. k < j /\ i < k /\ f[k].pair = x.pair
        BY <1>3, <1>4, <2>2, <3>2, <4>1
      <4>3. f[i].pair = f[j].pair
        BY <1>9 DEF Before
      <4> QED BY <1>3, <1>9, <3>1, <4>2, <4>3 DEF Before
    <3>4. f[i] = e[i] /\ e[i].pair = x.pair
      BY <1>1, <1>9, <3>1, <3>2 DEF Before
    <3>5. Newest(e, i)
      BY <1>1, <1>3, <1>9, <3>2, <3>3, <3>4 DEF Before, Newest
    <3>6. open[x.pair] = IF e[i].pnl = 1 THEN "flat" ELSE e[i].side
      BY <3>2, <3>4, <3>5 DEF EntriesAlternate
    <3>7. e[i].side \in {"BUY", "SELL"} /\ e[i].pnl \in {0, 1}
      BY <1>2, <3>2 DEF Exec
    <3> QED BY <3>1, <3>4, <3>6, <3>7
  <2> QED BY <2>1, <2>2
<1>10. EntriesAlternate(f, next)
  BY <1>6, <1>7, <1>8, <1>9 DEF EntriesAlternate
<1> QED BY <1>10 DEF next

\* What holds of the executions there were keeps holding.
LEMMA PassAppended ==
  ASSUME NEW e \in Seq(Exec), NEW x \in Exec, NEW n \in Nat \ {0}, NEW f, f = e \o Repeated(x, n),
         NEW todo \in SUBSET DOMAIN e, NEW at \in 0 .. Len(e), NEW longs, NEW shorts, NEW rows,
         PassInOrder(e, todo, at), QueuesMatch(e, at, longs, shorts), RowsMatch(e, rows)
  PROVE  /\ PassInOrder(f, todo, at) /\ QueuesMatch(f, at, longs, shorts) /\ RowsMatch(f, rows)
         /\ todo \subseteq DOMAIN f /\ at \in 0 .. Len(f)
<1>1. /\ Len(f) = Len(e) + n /\ Len(e) \in Nat /\ DOMAIN e = 1 .. Len(e) /\ DOMAIN f = 1 .. Len(f)
      /\ \A i \in DOMAIN e : i \in DOMAIN f /\ f[i] = e[i]
      /\ \A i \in DOMAIN f \ DOMAIN e : f[i] = x /\ i > Len(e)
      /\ \A i \in DOMAIN e : e[i] \in Exec
  <2>1. IsLonger(f, e, x, n)
    BY Appended
  <2> QED BY <2>1 DEF IsLonger
<1>2. todo \subseteq DOMAIN f /\ at \in 0 .. Len(f) /\ (at # 0 => at \in DOMAIN e)
  BY <1>1
<1>3. \A i \in DOMAIN e, j \in DOMAIN f : j < i => j \in DOMAIN e
  BY <1>1
<1>4. PassInOrder(f, todo, at)
  BY <1>1, <1>2, <1>3 DEF PassInOrder
<1>5. AtOnce(f) => AtOnce(e)
  BY <1>1 DEF AtOnce
<1>6. QueuesMatch(f, at, longs, shorts)
  BY <1>1, <1>2, <1>5 DEF QueuesMatch
<1>7. RowsMatch(f, rows)
  <2> SUFFICES ASSUME NEW r \in rows, r.by = "loop" PROVE RowMatches(f, r)
    BY DEF RowsMatch
  <2>1. r.key = r.ord
    BY DEF RowsMatch, RowMatches
  <2>2. PICK i \in DOMAIN e : e[i].ord = r.ord /\ e[i].side = r.side /\ (AtOnce(e) => r.pnl = e[i].pnl)
    BY DEF RowsMatch, RowMatches
  <2>3. i \in DOMAIN f /\ f[i] = e[i]
    BY <1>1
  <2> QED BY <1>5, <2>1, <2>2, <2>3 DEF RowMatches
<1> QED BY <1>2, <1>4, <1>6, <1>7

-----------------------------------------------------------------------------
\* A row more, and an order more unless it had one.
LEMMA OneRowMore ==
  ASSUME NEW R, IsFiniteSet(R), NEW r
  PROVE  LET S == R \cup {r} IN
         /\ Cardinality(R) \in Nat /\ Cardinality(S) \in Nat /\ Cardinality(S) <= Cardinality(R) + 1
         /\ Cardinality({q.ord : q \in R}) \in Nat /\ Cardinality({q.ord : q \in S}) \in Nat
         /\ Cardinality({q.ord : q \in R}) <= Cardinality({q.ord : q \in S})
         /\ (\A q \in R : q.ord # r.ord) => Cardinality({q.ord : q \in S}) = Cardinality({q.ord : q \in R}) + 1
<1> DEFINE S == R \cup {r}  A == {q.ord : q \in R}  B == {q.ord : q \in S}
<1>1. IsFiniteSet(A)
  <2> DEFINE g == [q \in R |-> q.ord]
  <2>1. A = {g[q] : q \in R} /\ g \in Surjection(R, A)
    BY DEF Surjection
  <2> HIDE DEF g, A
  <2> QED BY <2>1, FS_Surjection
<1>2. B = A \cup {r.ord}
  OBVIOUS
<1> HIDE DEF A, B
<1>3. /\ Cardinality(A) \in Nat /\ IsFiniteSet(A \cup {r.ord})
      /\ Cardinality(A \cup {r.ord}) = IF r.ord \in A THEN Cardinality(A) ELSE Cardinality(A) + 1
  BY <1>1, FS_AddElement, FS_CardinalityType
<1>4. /\ Cardinality(R) \in Nat
      /\ Cardinality(R \cup {r}) = IF r \in R THEN Cardinality(R) ELSE Cardinality(R) + 1
  BY FS_AddElement, FS_CardinalityType
<1>5. (\A q \in R : q.ord # r.ord) => r.ord \notin A
  BY DEF A
<1>6. Cardinality(S) \in Nat /\ Cardinality(S) <= Cardinality(R) + 1
  BY <1>4
<1>7. Cardinality(B) \in Nat /\ Cardinality(A) <= Cardinality(B) /\ (r.ord \notin A => Cardinality(B) = Cardinality(A) + 1)
  BY <1>2, <1>3
<1> QED BY <1>3, <1>4, <1>5, <1>6, <1>7 DEF A, B

-----------------------------------------------------------------------------
(* The exchange trades *)

LEMMA JournalTrades ==
  ASSUME JournalInv, NEW p \in Pairs, NEW n \in 1 .. MaxParts,
         NEW side \in {"BUY", "SELL"}, NEW pnl \in {0, 1}, Trade(p, side, n, pnl),
         \/ jOpen[p] = "flat" /\ pnl = 0
         \/ jOpen[p] # "flat" /\ pnl = 1 /\ side = Opposite(jOpen[p]),
         UNCHANGED <<jRows, jTodo, jAt, jLongs, jShorts, jBlind>>
  PROVE  JournalInv'
<1> DEFINE x == [ord |-> NewOrder, pair |-> p, side |-> side, pnl |-> pnl]
<1>1. /\ jExecs \in Seq(Exec) /\ OrdersInOrder(jExecs) /\ EntriesAlternate(jExecs, jOpen)
      /\ jOpen \in [Pairs -> {"flat", "BUY", "SELL"}]
      /\ jTodo \in SUBSET DOMAIN jExecs /\ jAt \in 0 .. Len(jExecs)
      /\ PassInOrder(jExecs, jTodo, jAt) /\ QueuesMatch(jExecs, jAt, jLongs, jShorts)
      /\ RowsMatch(jExecs, jRows)
  BY DEF JournalInv, JournalTypes
<1>2. NewOrder \in Nat \ {0}
  <2>1. CASE jExecs = <<>>
    BY <2>1 DEF NewOrder
  <2>2. CASE jExecs # <<>>
    <3>1. jExecs[Len(jExecs)] \in Exec
      BY <1>1, <2>2
    <3>2. jExecs[Len(jExecs)].ord \in Nat
      BY <3>1 DEF Exec
    <3> QED BY <2>2, <3>2 DEF NewOrder
  <2> QED BY <2>1, <2>2
<1>3. x \in Exec /\ x.pair = p /\ x.side = side /\ x.pnl = pnl /\ x.ord = NewOrder
  BY <1>2 DEF Exec
<1>4. n \in Nat \ {0}
  BY JournalAssumption
<1>5. jExecs' = jExecs \o Repeated(x, n) /\ jOpen' = [jOpen EXCEPT ![p] = IF pnl = 1 THEN "flat" ELSE side]
  BY DEF Trade, Repeated
<1>6. x.ord = IF jExecs = <<>> THEN 1 ELSE jExecs[Len(jExecs)].ord + 1
  BY <1>3 DEF NewOrder
<1> HIDE DEF x
<1>7. OrdersInOrder(jExecs') /\ \A i \in DOMAIN jExecs : jExecs[i].ord < x.ord
  BY <1>1, <1>3, <1>4, <1>5, <1>6, OrdersAppended
<1>8. EntriesAlternate(jExecs', [jOpen EXCEPT ![x.pair] = IF x.pnl = 1 THEN "flat" ELSE x.side])
  <2>1. \/ jOpen[x.pair] = "flat" /\ x.pnl = 0
        \/ jOpen[x.pair] # "flat" /\ x.pnl = 1 /\ x.side = Opposite(jOpen[x.pair])
    BY <1>3
  <2>2. jExecs' = jExecs \o Repeated(x, n)
    BY <1>5
  <2> QED BY <1>1, <1>3, <1>4, <2>2, <1>7, <2>1, TradesAppended
<1>9. EntriesAlternate(jExecs', jOpen')
  BY <1>3, <1>5, <1>8
<1>10. /\ PassInOrder(jExecs', jTodo, jAt) /\ QueuesMatch(jExecs', jAt, jLongs, jShorts)
       /\ RowsMatch(jExecs', jRows) /\ jTodo \subseteq DOMAIN jExecs' /\ jAt \in 0 .. Len(jExecs')
  <2>1. jExecs' = jExecs \o Repeated(x, n)
    BY <1>5
  <2> QED BY <1>1, <1>3, <1>4, <2>1, PassAppended
<1>11. jExecs' \in Seq(Exec)
  BY <1>1, <1>3, <1>4, <1>5, Appended
<1>12. jOpen' \in [Pairs -> {"flat", "BUY", "SELL"}]
  BY <1>1, <1>5
<1>13. JournalTypes'
  BY <1>10, <1>11, <1>12 DEF JournalInv, JournalTypes
<1>14. IngestedOnce'
  BY DEF JournalInv, IngestedOnce, LoopRows
<1> QED BY <1>7, <1>9, <1>10, <1>13, <1>14 DEF JournalInv

-----------------------------------------------------------------------------
(* The loop takes a leg *)

\* The queues tell a close from an entry, and are what the leg leaves open.
LEMMA LegFacts ==
  ASSUME JournalInv, NEW i, IsNext(i), AdvanceQueues(jExecs[i])
  PROVE  /\ AtOnce(jExecs) => (Closes(jExecs[i]) <=> jExecs[i].pnl = 1)
         /\ QueuesMatch(jExecs, i, jLongs', jShorts')
<1> DEFINE x == jExecs[i]
<1>1. /\ jTodo \subseteq DOMAIN jExecs /\ jAt \in 0 .. Len(jExecs) /\ jExecs \in Seq(Exec)
      /\ EntriesAlternate(jExecs, jOpen) /\ PassInOrder(jExecs, jTodo, jAt)
      /\ QueuesMatch(jExecs, jAt, jLongs, jShorts)
  BY DEF JournalInv, JournalTypes
<1>2. i \in jTodo /\ i \in DOMAIN jExecs /\ i \in Nat
  BY <1>1 DEF IsNext
<1>3. x \in Exec /\ x.side \in {"BUY", "SELL"} /\ x.pnl \in {0, 1}
  <2>1. x \in Exec
    BY <1>1, <1>2
  <2> QED BY <2>1 DEF Exec
<1>4. \A j \in jTodo : jExecs[j].pair = x.pair => i <= j
  BY DEF IsNext
<1> SUFFICES ASSUME AtOnce(jExecs)
             PROVE  /\ Closes(x) <=> x.pnl = 1
                    /\ jLongs' = LongsOf(x) /\ jShorts' = ShortsOf(x)
  BY DEF QueuesMatch
<1>5. ASSUME NEW longs \in {0, 1}, NEW shorts \in {0, 1}, Longs(x) = longs, Shorts(x) = shorts,
             x.pnl = 0 => longs = 0 /\ shorts = 0,
             x.pnl = 1 => IF x.side = "BUY" THEN shorts = 1 /\ longs = 0 ELSE longs = 1 /\ shorts = 0
      PROVE  /\ Closes(x) <=> x.pnl = 1
             /\ jLongs' = LongsOf(x) /\ jShorts' = ShortsOf(x)
  <2>1. CASE x.pnl = 0 /\ x.side = "BUY"
    BY <1>5, <2>1 DEF Closes, AdvanceQueues, LongsOf, ShortsOf
  <2>2. CASE x.pnl = 0 /\ x.side = "SELL"
    BY <1>5, <2>2 DEF Closes, AdvanceQueues, LongsOf, ShortsOf
  <2>3. CASE x.pnl = 1 /\ x.side = "BUY"
    BY <1>5, <2>3 DEF Closes, AdvanceQueues, LongsOf, ShortsOf
  <2>4. CASE x.pnl = 1 /\ x.side = "SELL"
    BY <1>5, <2>4 DEF Closes, AdvanceQueues, LongsOf, ShortsOf
  <2> QED BY <1>3, <2>1, <2>2, <2>3, <2>4
<1>6. CASE ~AtSymbol(x)
  <2>1. Oldest(jExecs, i)
    BY <1>1, <1>2, <1>4, <1>6 DEF Oldest, PassInOrder, AtSymbol
  <2>2. x.pnl = 0
    BY <1>1, <1>2, <2>1 DEF EntriesAlternate
  <2>3. Longs(x) = 0 /\ Shorts(x) = 0
    BY <1>6 DEF Longs, Shorts
  <2> QED BY <1>5, <2>2, <2>3
<1>7. CASE AtSymbol(x)
  <2> DEFINE y == jExecs[jAt]
  <2>1. jAt # 0 /\ y.pair = x.pair /\ jAt \in DOMAIN jExecs /\ jAt < i
    BY <1>1, <1>2, <1>7 DEF AtSymbol, PassInOrder
  <2>2. Before(jExecs, jAt, i)
    <3> SUFFICES ASSUME NEW k \in DOMAIN jExecs, jAt < k, k < i, jExecs[k].pair = y.pair PROVE FALSE
      BY <2>1 DEF Before
    <3>1. k \in jTodo \/ k <= jAt
      BY <1>1, <1>2, <2>1 DEF PassInOrder
    <3>2. k \in Nat /\ jAt \in Nat
      BY <1>1
    <3> QED BY <1>2, <1>4, <2>1, <3>1, <3>2
  <2>3. y.ord # x.ord
    BY <1>2, <2>1 DEF AtOnce
  <2>4. y.pnl # x.pnl /\ (x.pnl = 1 => x.side = Opposite(y.side))
    BY <1>1, <1>2, <2>1, <2>2, <2>3 DEF EntriesAlternate
  <2>5. y.pnl \in {0, 1} /\ y.side \in {"BUY", "SELL"}
    <3>1. y \in Exec
      BY <1>1, <2>1
    <3> QED BY <3>1 DEF Exec
  <2>6. Longs(x) = LongsOf(y) /\ Shorts(x) = ShortsOf(y)
    BY <1>1, <1>7, <2>1 DEF Longs, Shorts, QueuesMatch
  <2>7. LongsOf(y) \in {0, 1} /\ ShortsOf(y) \in {0, 1}
    BY DEF LongsOf, ShortsOf
  <2>8. x.pnl = 0 => LongsOf(y) = 0 /\ ShortsOf(y) = 0
    BY <2>4, <2>5 DEF LongsOf, ShortsOf
  <2>9. x.pnl = 1 => IF x.side = "BUY" THEN ShortsOf(y) = 1 /\ LongsOf(y) = 0
                                       ELSE LongsOf(y) = 1 /\ ShortsOf(y) = 0
    BY <1>3, <2>4, <2>5 DEF LongsOf, ShortsOf, Opposite
  <2> QED BY <1>5, <2>6, <2>7, <2>8, <2>9
<1> QED BY <1>6, <1>7

\* The pass stays in order, whether it goes on or ends here.
LEMMA PassFacts ==
  ASSUME JournalInv, NEW i, IsNext(i), NEW todo, todo \in {{}, jTodo \ {i}}
  PROVE  PassInOrder(jExecs, todo, i) /\ i \in DOMAIN jExecs
<1>1. /\ jTodo \subseteq DOMAIN jExecs /\ jAt \in 0 .. Len(jExecs) /\ jExecs \in Seq(Exec)
      /\ PassInOrder(jExecs, jTodo, jAt)
  BY DEF JournalInv, JournalTypes
<1>2. i \in jTodo /\ i \in DOMAIN jExecs /\ i \in Nat /\ i # 0
  BY <1>1 DEF IsNext
<1>3. ASSUME NEW k \in jTodo, k # i, jExecs[i].pair = jExecs[k].pair PROVE i < k
  <2>1. i <= k /\ k \in Nat
    BY <1>1, <1>3 DEF IsNext
  <2> QED BY <1>2, <1>3, <2>1
<1>4. ASSUME NEW k \in jTodo, k # i, NEW j \in DOMAIN jExecs, j < k, jExecs[j].pair = jExecs[k].pair,
             j \notin jTodo \ {i}
      PROVE  jExecs[i].pair = jExecs[k].pair /\ j <= i
  <2>1. CASE j = i
    BY <1>2, <1>4, <2>1
  <2>2. CASE j # i
    <3>1. jAt # 0 /\ jExecs[jAt].pair = jExecs[k].pair /\ j <= jAt
      BY <1>1, <1>4, <2>2 DEF PassInOrder
    <3>2. AtSymbol(jExecs[k])
      BY <3>1 DEF AtSymbol
    <3>3. AtSymbol(jExecs[i])
      BY <1>4, <3>2 DEF IsNext
    <3>4. jExecs[i].pair = jExecs[k].pair /\ jAt < i
      BY <1>1, <1>2, <3>1, <3>3 DEF AtSymbol, PassInOrder
    <3>5. j \in Nat /\ jAt \in Nat
      BY <1>1
    <3> QED BY <1>2, <3>1, <3>4, <3>5
  <2> QED BY <2>1, <2>2
<1>5. PassInOrder(jExecs, jTodo \ {i}, i)
  BY <1>2, <1>3, <1>4 DEF PassInOrder
<1>6. PassInOrder(jExecs, {}, i)
  BY DEF PassInOrder
<1> QED BY <1>2, <1>5, <1>6

\* The row of the leg, when there is one, matches its execution; and it is one row
\* per order, unless the lookup failed.
LEMMA RowFacts ==
  ASSUME JournalInv, NEW i, NEW found, Leg(i, found),
         \/ found = ExistsForOrder(jExecs[i]) /\ jBlind' = jBlind
         \/ jBlind' = jBlind + 1
  PROVE  IsFiniteSet(jRows') /\ RowsMatch(jExecs, jRows') /\ IngestedOnce' /\ jBlind' \in Nat
<1> DEFINE x == jExecs[i]
           r == [key |-> x.ord, ord |-> x.ord, side |-> x.side, by |-> "loop",
                 at |-> i, nth |-> Cardinality(Rows(x.ord, "loop")) + 1, pnl |-> IF Closes(x) THEN x.pnl ELSE 0]
           old == LoopRows
<1>1. /\ IsFiniteSet(jRows) /\ RowsMatch(jExecs, jRows) /\ jBlind \in Nat /\ OrdersInOrder(jExecs)
      /\ jExecs \in Seq(Exec) /\ jTodo \subseteq DOMAIN jExecs
      /\ Cardinality(old) <= Cardinality({q.ord : q \in old}) + jBlind
  BY DEF JournalInv, JournalTypes, IngestedOnce
<1>2. IsNext(i) /\ AdvanceQueues(x) /\ jRows' \in {jRows, jRows \cup {r}}
  BY DEF Leg
<1>3. i \in DOMAIN jExecs /\ x \in Exec /\ jBlind' \in Nat
  <2>1. i \in DOMAIN jExecs
    BY <1>1, <1>2 DEF IsNext
  <2> QED BY <1>1, <2>1
<1>4. r.key = x.ord /\ r.ord = x.ord /\ r.side = x.side /\ r.by = "loop"
      /\ r.pnl = IF Closes(x) THEN x.pnl ELSE 0
  OBVIOUS
<1>5. CASE jRows' = jRows
  <2>1. IngestedOnce'
    <3>1. LoopRows' = old
      BY <1>5 DEF LoopRows
    <3> DEFINE a == Cardinality(old)  b == Cardinality({q.ord : q \in old})
    <3>2. a \in Nat /\ b \in Nat
      <4>1. IsFiniteSet(old)
        BY <1>1, FS_Subset DEF LoopRows
      <4> HIDE DEF old
      <4> QED BY <4>1, OneRowMore
    <3>3. a <= b + jBlind
      BY <1>1
    <3> HIDE DEF a, b, old
    <3>4. a <= b + jBlind'
      BY <1>1, <3>2, <3>3
    <3> QED BY <3>1, <3>4 DEF IngestedOnce, a, b
  <2> QED BY <1>1, <1>3, <1>5, <2>1
<1>6. CASE jRows' = jRows \cup {r} /\ ~found
  <2>1. RowMatches(jExecs, r)
    <3>1. AtOnce(jExecs) => r.pnl = x.pnl
      <4> SUFFICES ASSUME AtOnce(jExecs) PROVE r.pnl = x.pnl
        OBVIOUS
      <4>1. Closes(x) <=> x.pnl = 1
        BY <1>2, LegFacts
      <4>2. x.pnl \in {0, 1}
        BY <1>3 DEF Exec
      <4> QED BY <1>4, <4>1, <4>2
    <3> HIDE DEF r
    <3> QED BY <1>3, <1>4, <3>1 DEF RowMatches
  <2>2. \A q \in old : q.key = q.ord /\ (q.ord = x.ord => q.side = x.side)
    <3> SUFFICES ASSUME NEW q \in old PROVE q.key = q.ord /\ (q.ord = x.ord => q.side = x.side)
      OBVIOUS
    <3>1. RowMatches(jExecs, q)
      BY <1>1 DEF RowsMatch, LoopRows
    <3>2. PICK j \in DOMAIN jExecs : jExecs[j].ord = q.ord /\ jExecs[j].side = q.side
      BY <3>1 DEF RowMatches
    <3>3. q.ord = x.ord => jExecs[j] = x
      BY <1>1, <1>3, <3>2 DEF OrdersInOrder
    <3> QED BY <3>1, <3>2, <3>3 DEF RowMatches
  <2>3. found = ExistsForOrder(x) => \A q \in old : q.ord # r.ord
    <3> SUFFICES ASSUME ~ExistsForOrder(x), NEW q \in old, q.ord = x.ord PROVE FALSE
      BY <1>4, <1>6
    <3>1. q \in jRows /\ q.key = x.ord /\ q.side = x.side
      BY <2>2 DEF LoopRows
    <3> QED BY <3>1 DEF ExistsForOrder
  <2>4. LoopRows' = old \cup {r}
    BY <1>4, <1>6 DEF LoopRows
  <2>5. IsFiniteSet(old)
    BY <1>1, FS_Subset DEF LoopRows
  <2>6. RowsMatch(jExecs, jRows') /\ IsFiniteSet(jRows')
    <3> HIDE DEF r
    <3>1. IsFiniteSet(jRows \cup {r})
      BY <1>1, FS_AddElement
    <3>2. RowsMatch(jExecs, jRows')
      BY <1>1, <1>6, <2>1 DEF RowsMatch
    <3> QED BY <1>6, <3>1, <3>2
  <2>7. IngestedOnce'
    <3> DEFINE new == old \cup {r}
               a == Cardinality(old)  b == Cardinality({q.ord : q \in old})
               c == Cardinality(new)  d == Cardinality({q.ord : q \in new})
    <3> HIDE DEF old, r
    <3>1. /\ a \in Nat /\ b \in Nat /\ c \in Nat /\ d \in Nat /\ c <= a + 1 /\ b <= d
          /\ (\A q \in old : q.ord # r.ord) => d = b + 1
      BY <2>5, OneRowMore
    <3>2. a <= b + jBlind
      BY <1>1
    <3>3. d = b + 1 \/ jBlind' = jBlind + 1
      BY <2>3, <3>1 DEF old
    <3>4. jBlind' = jBlind \/ jBlind' = jBlind + 1
      OBVIOUS
    <3> HIDE DEF a, b, c, d, new
    <3>5. c <= d + jBlind'
      BY <1>1, <3>1, <3>2, <3>3, <3>4
    <3>6. LoopRows' = new
      BY <2>4 DEF new
    <3> QED BY <3>5, <3>6 DEF IngestedOnce, c, d
  <2> QED BY <1>3, <2>6, <2>7
<1> QED BY <1>2, <1>5, <1>6 DEF Leg

LEMMA JournalLegs ==
  ASSUME JournalInv, NEW i, NEW found, Leg(i, found),
         \/ found = ExistsForOrder(jExecs[i]) /\ jBlind' = jBlind
         \/ jBlind' = jBlind + 1
  PROVE  JournalInv'
<1>1. /\ IsNext(i) /\ AdvanceQueues(jExecs[i]) /\ jAt' = i
      /\ jTodo' \in {{}, jTodo \ {i}} /\ UNCHANGED <<jExecs, jOpen>>
  BY DEF Leg
<1>2. /\ jExecs \in Seq(Exec) /\ jTodo \subseteq DOMAIN jExecs
      /\ jOpen \in [Pairs -> {"flat", "BUY", "SELL"}]
      /\ OrdersInOrder(jExecs) /\ EntriesAlternate(jExecs, jOpen)
      /\ jLongs \in Int /\ jShorts \in Int
  BY DEF JournalInv, JournalTypes
<1>3. PassInOrder(jExecs, jTodo', i) /\ i \in DOMAIN jExecs
  BY <1>1, PassFacts
<1>4. QueuesMatch(jExecs, i, jLongs', jShorts')
  BY <1>1, LegFacts
<1>5. IsFiniteSet(jRows') /\ RowsMatch(jExecs, jRows') /\ IngestedOnce' /\ jBlind' \in Nat
  BY RowFacts
<1>6. jLongs' \in Int /\ jShorts' \in Int
  <2> DEFINE x == jExecs[i]
  <2>1. Longs(x) \in Int /\ Shorts(x) \in Int
    BY <1>2 DEF Longs, Shorts
  <2>2. jLongs' \in {Longs(x) - 1, Longs(x), Longs(x) + 1} /\ jShorts' \in {Shorts(x) - 1, Shorts(x), Shorts(x) + 1}
    <3>1. AdvanceQueues(x)
      BY <1>1
    <3> QED BY <2>1, <3>1 DEF AdvanceQueues
  <2> QED BY <2>1, <2>2
<1>7. jAt' \in 0 .. Len(jExecs') /\ jTodo' \subseteq DOMAIN jExecs'
  BY <1>1, <1>2, <1>3
<1>8. JournalTypes'
  BY <1>1, <1>2, <1>5, <1>6, <1>7 DEF JournalTypes
<1>9. /\ OrdersInOrder(jExecs') /\ EntriesAlternate(jExecs', jOpen')
      /\ PassInOrder(jExecs', jTodo', jAt') /\ QueuesMatch(jExecs', jAt', jLongs', jShorts')
      /\ RowsMatch(jExecs', jRows')
  BY <1>1, <1>2, <1>3, <1>4, <1>5
<1> QED BY <1>5, <1>8, <1>9 DEF JournalInv

\* A pass starts with all the legs of the symbols it fetched.
LEMMA JournalStarts ==
  ASSUME JournalInv, NEW P, StartPass({i \in DOMAIN jExecs : jExecs[i].pair \in P})
  PROVE  JournalInv'
<1> DEFINE legs == {i \in DOMAIN jExecs : jExecs[i].pair \in P}
<1>1. /\ jTodo' = legs /\ jAt' = 0 /\ jLongs' = 0 /\ jShorts' = 0
      /\ UNCHANGED <<jExecs, jOpen, jRows, jBlind>>
  BY DEF StartPass
<1>2. PassInOrder(jExecs, legs, 0) /\ QueuesMatch(jExecs, 0, 0, 0)
  BY DEF PassInOrder, QueuesMatch
<1>3. JournalTypes'
  <2>1. 0 \in 0 .. Len(jExecs) /\ 0 \in Int
    BY DEF JournalInv, JournalTypes
  <2> QED BY <1>1, <2>1 DEF JournalInv, JournalTypes
<1>4. IngestedOnce'
  BY <1>1 DEF JournalInv, IngestedOnce, LoopRows
<1>5. PassInOrder(jExecs', jTodo', jAt') /\ QueuesMatch(jExecs', jAt', jLongs', jShorts')
  BY <1>1, <1>2
<1> QED BY <1>1, <1>3, <1>4, <1>5 DEF JournalInv

LEMMA JournalStep ==
  ASSUME JournalInv, JNext
  PROVE  JournalInv'
<1>0. jOpen \in [Pairs -> {"flat", "BUY", "SELL"}]
  BY DEF JournalInv, JournalTypes
<1>1. ASSUME NEW p \in Pairs, NEW n \in 1 .. MaxParts, EngineFills(p, n)
      PROVE  JournalInv'
  <2>1. UNCHANGED <<jRows, jTodo, jAt, jLongs, jShorts, jBlind>>
    BY <1>1 DEF EngineFills
  <2>2. CASE jOpen[p] = "flat"
    <3>1. PICK side \in {"BUY", "SELL"} : Trade(p, side, n, 0)
      BY <1>1, <2>2 DEF EngineFills
    <3> QED BY <2>1, <2>2, <3>1, JournalTrades
  <2>3. CASE jOpen[p] # "flat"
    <3>1. Trade(p, Opposite(jOpen[p]), n, 1) /\ Opposite(jOpen[p]) \in {"BUY", "SELL"}
      BY <1>1, <2>3 DEF EngineFills, Opposite
    <3> QED BY <2>1, <2>3, <3>1, JournalTrades
  <2> QED BY <2>2, <2>3
<1>2. ASSUME NEW p \in Pairs, NEW n \in 1 .. MaxParts, BracketFills(p, n)
      PROVE  JournalInv'
  <2>1. /\ UNCHANGED <<jRows, jTodo, jAt, jLongs, jShorts, jBlind>> /\ jOpen[p] # "flat"
        /\ Trade(p, Opposite(jOpen[p]), n, 1) /\ Opposite(jOpen[p]) \in {"BUY", "SELL"}
    BY <1>2 DEF BracketFills, Opposite
  <2> QED BY <2>1, JournalTrades
<1>3. ASSUME NEW o \in jPending, PersistTrade(o)
      PROVE  JournalInv'
  <2> DEFINE r == [key |-> 0, ord |-> o, side |-> ExecOf(o).side, by |-> "engine"]
  <2>1. /\ UNCHANGED <<jExecs, jOpen, jTodo, jAt, jLongs, jShorts, jBlind>>
        /\ jRows' \in {jRows, jRows \cup {r}}
    BY <1>3 DEF PersistTrade
  <2>2. r.by = "engine"
    OBVIOUS
  <2> HIDE DEF r
  <2>3. LoopRows' = LoopRows
    BY <2>1, <2>2 DEF LoopRows
  <2>4. IsFiniteSet(jRows')
    BY <2>1, FS_AddElement DEF JournalInv, JournalTypes
  <2>5. RowsMatch(jExecs, jRows')
    BY <2>1, <2>2 DEF JournalInv, RowsMatch
  <2>6. IngestedOnce'
    BY <2>1, <2>3 DEF JournalInv, IngestedOnce
  <2>7. JournalTypes'
    BY <2>1, <2>4 DEF JournalInv, JournalTypes
  <2> QED BY <2>1, <2>5, <2>6, <2>7 DEF JournalInv
<1>4. ASSUME NEW p \in Pairs, FetchSkips(p)
      PROVE  JournalInv'
  <2> DEFINE P == {q \in Pairs : jOpen[q] # "flat" /\ q # p}
  <2>1. {i \in UserTrades : jExecs[i].pair # p} = {i \in DOMAIN jExecs : jExecs[i].pair \in P}
    <3>1. \A i \in DOMAIN jExecs : jExecs[i].pair \in Pairs
      <4>1. \A i \in DOMAIN jExecs : jExecs[i] \in Exec
        BY DEF JournalInv, JournalTypes
      <4> QED BY <4>1 DEF Exec
    <3> QED BY <3>1 DEF UserTrades
  <2> HIDE DEF P
  <2>2. StartPass({i \in DOMAIN jExecs : jExecs[i].pair \in P})
    BY <1>4, <2>1 DEF FetchSkips
  <2> QED BY <2>2, JournalStarts
<1>5. CASE IngestStart
  <2> DEFINE P == {q \in Pairs : jOpen[q] # "flat"}
  <2>1. UserTrades = {i \in DOMAIN jExecs : jExecs[i].pair \in P}
    <3>1. \A i \in DOMAIN jExecs : jExecs[i].pair \in Pairs
      <4>1. \A i \in DOMAIN jExecs : jExecs[i] \in Exec
        BY DEF JournalInv, JournalTypes
      <4> QED BY <4>1 DEF Exec
    <3> QED BY <3>1 DEF UserTrades
  <2> HIDE DEF P
  <2>2. StartPass({i \in DOMAIN jExecs : jExecs[i].pair \in P})
    BY <1>5, <2>1 DEF IngestStart
  <2> QED BY <2>2, JournalStarts
<1>6. ASSUME NEW i \in jTodo, IngestLeg(i)
      PROVE  JournalInv'
  BY <1>6, JournalLegs DEF IngestLeg
<1>7. ASSUME NEW i \in jTodo, LookupFails(i)
      PROVE  JournalInv'
  BY <1>7, JournalLegs DEF LookupFails
<1>8. CASE IngestFails \/ WorkerRestarts
  <2>1. /\ jTodo' = {} /\ UNCHANGED <<jExecs, jOpen, jRows, jBlind>>
        /\ \/ UNCHANGED <<jAt, jLongs, jShorts>>
           \/ jAt' = 0 /\ jLongs' = 0 /\ jShorts' = 0
    BY <1>8 DEF IngestFails, WorkerRestarts
  <2>2. PassInOrder(jExecs', jTodo', jAt')
    BY <2>1 DEF PassInOrder
  <2>3. QueuesMatch(jExecs', jAt', jLongs', jShorts')
    BY <2>1 DEF JournalInv, QueuesMatch
  <2>4. IngestedOnce'
    BY <2>1 DEF JournalInv, IngestedOnce, LoopRows
  <2>5. JournalTypes'
    <3>1. 0 \in 0 .. Len(jExecs) /\ 0 \in Int
      BY DEF JournalInv, JournalTypes
    <3> QED BY <2>1, <3>1 DEF JournalInv, JournalTypes
  <2> QED BY <2>1, <2>2, <2>3, <2>4, <2>5 DEF JournalInv
<1> QED BY <1>1, <1>2, <1>3, <1>4, <1>5, <1>6, <1>7, <1>8 DEF JNext, Ingest

LEMMA JournalStutters ==
  ASSUME JournalInv, UNCHANGED jVars
  PROVE  JournalInv'
<1>1. UNCHANGED <<jExecs, jOpen, jRows, jTodo, jAt, jLongs, jShorts, jBlind>>
  BY DEF jVars
<1>2. IngestedOnce'
  BY <1>1 DEF JournalInv, IngestedOnce, LoopRows
<1>3. JournalTypes'
  BY <1>1 DEF JournalInv, JournalTypes
<1> QED BY <1>1, <1>2, <1>3 DEF JournalInv

LEMMA JournalImplies ==
  ASSUME JournalInv
  PROVE  JournalSound
<1>1. ClosePnlKept
  <2> SUFFICES ASSUME TradedAtOnce, NEW r \in LoopRows PROVE r.pnl = ExecOf(r.ord).pnl
    BY DEF ClosePnlKept
  <2>1. AtOnce(jExecs) /\ RowMatches(jExecs, r)
    BY DEF TradedAtOnce, AtOnce, JournalInv, RowsMatch, LoopRows
  <2>2. PICK i \in DOMAIN jExecs : jExecs[i].ord = r.ord /\ r.pnl = jExecs[i].pnl
    BY <2>1 DEF RowMatches
  <2>3. PICK j \in DOMAIN jExecs : jExecs[j].ord = r.ord /\ ExecOf(r.ord) = jExecs[j]
    BY <2>2 DEF ExecOf
  <2>4. jExecs[i] = jExecs[j]
    BY <2>2, <2>3 DEF JournalInv, OrdersInOrder
  <2> QED BY <2>2, <2>3, <2>4
<1> QED BY <1>1 DEF JournalInv, JournalSound

\* Whatever fills, closes, fails and restarts in between, for any number of orders,
\* parts and pairs: the loop writes one row per order unless a lookup failed, and
\* the row of a close has its PnL (_ingest_exchange_trades, exists_for_order).
THEOREM JournalHolds == JSpec => []JournalSound
<1>1. JournalInv /\ [JNext]_jVars => JournalInv'
  BY JournalStep, JournalStutters
<1>2. JSpec => []JournalInv
  BY <1>1, JournalInitially, PTL DEF JSpec
<1> QED BY <1>2, JournalImplies, PTL
-----------------------------------------------------------------------------
(* TwapSlicer: the plan *)

LEMMA IsSequence ==
  ASSUME NEW k \in Nat, NEW T, NEW f, f = [i \in 1 .. k |-> f[i]], \A i \in 1 .. k : f[i] \in T
  PROVE  f \in Seq(T) /\ Len(f) = k /\ DOMAIN f = 1 .. k
<1>1. f \in [1 .. k -> T]
  <2> DEFINE D == 1 .. k
  <2> HIDE DEF D
  <2>1. f = [i \in D |-> f[i]] /\ \A i \in D : f[i] \in T
    BY DEF D
  <2> QED BY <2>1 DEF D
<1> QED BY <1>1

LEMMA MaxFacts ==
  ASSUME NEW S \in SUBSET Int, IsFiniteSet(S), S # {}
  PROVE  Max(S) \in S
<1>1. \E m \in S : \A x \in S : m >= x
  BY Greatest
<1> QED BY <1>1 DEF Max

LEMMA MaxPair ==
  ASSUME NEW a \in Int, NEW b \in Int
  PROVE  Max({a, b}) = IF a >= b THEN a ELSE b
BY DEF Max

LEMMA MinPair ==
  ASSUME NEW a \in Int, NEW b \in Int
  PROVE  Min({a, b}) = IF a <= b THEN a ELSE b
BY DEF Min

\* There is at least one slice.
LEMMA CountFacts ==
  ASSUME NEW qty \in Nat, NEW step \in Nat
  PROVE  SliceCount(qty, step) \in Nat \ {0}
<1> DEFINE units == qty \div Unit
           most == Min({Max({units, MinSlices}), MaxSlices})
           ok == {n \in 1 .. most : n = 1 \/ step = 0 \/ Price = 0 \/ qty * Price >= MinNotional * n}
<1>1. units \in Nat
  BY TwapAssumption
<1>2. most \in Nat /\ most >= 1
  <2> HIDE DEF units
  <2>1. Max({units, MinSlices}) \in Nat /\ Max({units, MinSlices}) >= 1
    BY <1>1, TwapAssumption, MaxPair
  <2> QED BY <2>1, TwapAssumption, MinPair
<1> HIDE DEF most
<1>3. ok \in SUBSET Int /\ 1 \in ok /\ ok \subseteq 1 .. most
  BY <1>2
<1>4. IsFiniteSet(1 .. most)
  BY <1>2, FS_Interval
<1>5. IsFiniteSet(ok)
  BY <1>3, <1>4, FS_Subset
<1> HIDE DEF ok
<1>6. Max(ok) \in 1 .. most
  BY <1>3, <1>5, MaxFacts
<1>7. SliceCount(qty, step) = Max(ok)
  BY DEF SliceCount, ok, most, units
<1> QED BY <1>2, <1>6, <1>7

\* The quotient and the remainder, in the forms the provers know and need.
LEMMA DivFacts ==
  ASSUME NEW a \in Nat, NEW b \in Nat \ {0}
  PROVE  /\ a \div b \in Nat /\ a % b \in 0 .. b - 1
         /\ b * (a \div b) + (a % b) = a
         /\ (a \div b) * b = b * (a \div b)
         /\ (a < b => a \div b = 0 /\ a % b = a)
         /\ (a >= b => a \div b >= 1)
<1>1. a \div b \in Nat /\ a % b \in 0 .. b - 1
  OBVIOUS
<1>2. a % b = a - b * (a \div b)
  OBVIOUS
<1> DEFINE q == a \div b  r == a % b
<1>3. q \in Nat /\ r \in Nat /\ r < b /\ r = a - b * q
  BY <1>1, <1>2
<1> HIDE DEF q, r
<1>4. b * q + r = a /\ q * b = b * q
  BY <1>3
<1>5. ASSUME a < b PROVE q = 0 /\ r = a
  BY <1>3, <1>4, <1>5
<1>6. ASSUME a >= b PROVE q >= 1
  BY <1>3, <1>4, <1>6
<1>7. /\ q \in Nat /\ r \in 0 .. b - 1 /\ b * q + r = a /\ q * b = b * q
      /\ (a < b => q = 0 /\ r = a) /\ (a >= b => q >= 1)
  BY <1>3, <1>4, <1>5, <1>6
<1> QED BY <1>7, Zenon DEF q, r

\* What the first j slices have before rounding, in units.
Share(i, base, rem) == base + (IF i <= rem THEN 1 ELSE 0)
UpTo(j, base, rem) == j * base + (IF j <= rem THEN j ELSE rem)

LEMMA RawSums ==
  ASSUME NEW unit \in Nat, NEW base \in Nat, NEW rem \in Nat, NEW k \in Nat,
         NEW raw, \A i \in 1 .. k : raw[i] = unit * Share(i, base, rem)
  PROVE  SumOf(raw, 1 .. k) = unit * UpTo(k, base, rem)
<1> DEFINE upTo(j) == UpTo(j, base, rem)
           C == {j \in 0 .. k : SumOf(raw, 1 .. j) = unit * upTo(j)}
<1> USE DEF UpTo, Share
<1>0. \A i \in 1 .. k : raw[i] \in Nat
  <2> TAKE i \in 1 .. k
  <2> DEFINE share == base + (IF i <= rem THEN 1 ELSE 0)
  <2>1. share \in Nat /\ raw[i] = unit * share
    OBVIOUS
  <2> HIDE DEF share
  <2> QED BY <2>1
<1>1. 0 \in C
  <2>1. 1 .. 0 = {} /\ unit * upTo(0) = 0 /\ 0 \in 0 .. k
    OBVIOUS
  <2> QED BY <2>1, SumEmpty
<1>2. ASSUME NEW j \in C, j < k PROVE j + 1 \in C
  <2>1. j + 1 \in 1 .. k /\ j + 1 \notin 1 .. j /\ 1 .. (j + 1) = (1 .. j) \cup {j + 1}
    BY <1>2
  <2>2. IsFiniteSet(1 .. j)
    BY FS_Interval
  <2>3. \A i \in (1 .. j) \cup {j + 1} : raw[i] \in Int
    BY <1>0, <2>1
  <2>4. SumOf(raw, (1 .. j) \cup {j + 1}) = raw[j + 1] + SumOf(raw, 1 .. j)
    <3> DEFINE S == 1 .. j  y == j + 1
    <3>1. IsFiniteSet(S) /\ y \notin S /\ \A i \in S \cup {y} : raw[i] \in Int
      BY <2>1, <2>2, <2>3
    <3> HIDE DEF S, y
    <3>2. SumOf(raw, S \cup {y}) = raw[y] + SumOf(raw, S)
      BY <3>1, SumAdd
    <3> QED BY <3>2 DEF S, y
  <2>5. raw[j + 1] = unit * (base + (IF j + 1 <= rem THEN 1 ELSE 0))
    BY <2>1
  <2>6. (j + 1) * base = j * base + base
    OBVIOUS
  <2>7. upTo(j + 1) = upTo(j) + (base + (IF j + 1 <= rem THEN 1 ELSE 0))
    BY <2>6
  <2>8. unit * upTo(j + 1) = unit * upTo(j) + unit * (base + (IF j + 1 <= rem THEN 1 ELSE 0))
    <3> DEFINE a == upTo(j)  b == base + (IF j + 1 <= rem THEN 1 ELSE 0)
    <3>1. a \in Nat /\ b \in Nat
      OBVIOUS
    <3>2. upTo(j + 1) = a + b
      BY <2>7
    <3> HIDE DEF a, b
    <3>3. unit * (a + b) = unit * a + unit * b
      BY <3>1
    <3> QED BY <3>2, <3>3 DEF a, b
  <2>9. SumOf(raw, 1 .. (j + 1)) = unit * upTo(j + 1)
    <3> DEFINE p == raw[j + 1]  q == SumOf(raw, 1 .. j)
    <3>1. p \in Int /\ q \in Int
      <4>1. q \in Int
        <5> DEFINE S == 1 .. j
        <5>1. IsFiniteSet(S) /\ \A i \in S : raw[i] \in Int
          BY <2>2, <2>3
        <5> HIDE DEF S
        <5>2. SumOf(raw, S) \in Int
          BY <5>1, SumInt
        <5> QED BY <5>2 DEF S
      <4> QED BY <2>3, <4>1
    <3>2. SumOf(raw, 1 .. (j + 1)) = p + q
      BY <2>1, <2>4
    <3>3. q = unit * upTo(j) /\ p = unit * (base + (IF j + 1 <= rem THEN 1 ELSE 0))
      BY <2>5
    <3> HIDE DEF p, q
    <3> QED BY <2>8, <3>1, <3>2, <3>3
  <2> QED BY <2>1, <2>9
<1> HIDE DEF C
<1>3. k \in C
  <2>1. C \in SUBSET Nat
    BY DEF C
  <2> QED BY <1>1, <1>2, <2>1, CountInduction
<1> QED BY <1>3 DEF C

\* Every slice before rounding has a unit, and together they have all of them.
LEMMA RawFacts ==
  ASSUME NEW qty \in Nat, NEW step \in Nat, qty \div Unit # 0
  PROVE  LET raw == RawQuantities(qty, step)  k == Len(raw)
         IN  /\ k \in Nat \ {0} /\ raw = [i \in 1 .. k |-> raw[i]]
             /\ \A i \in 1 .. k : raw[i] \in Nat \ {0}
             /\ SumOf(raw, 1 .. k) = Unit * (qty \div Unit)
<1> DEFINE n == SliceCount(qty, step)  units == qty \div Unit
           base == units \div n  rem == units % n
           k == Min({n, units})
           raw == RawQuantities(qty, step)
<1>1. n \in Nat \ {0} /\ units \in Nat \ {0} /\ Unit \in Nat \ {0}
  BY CountFacts, DivFacts, TwapAssumption
<1> HIDE DEF n
<1>2. raw = [i \in 1 .. k |-> Unit * (base + (IF i <= rem THEN 1 ELSE 0))]
  BY DEF RawQuantities, n
<1> HIDE DEF units
<1>3. /\ base \in Nat /\ rem \in Nat /\ n * base + rem = units
      /\ (units < n => base = 0 /\ rem = units) /\ (units >= n => base >= 1) /\ rem < n
  BY <1>1, DivFacts
<1>4. k \in Nat \ {0} /\ k = IF n <= units THEN n ELSE units
  BY <1>1, MinPair
<1> HIDE DEF raw, base, rem, k
<1>5. DOMAIN raw = 1 .. k /\ raw = [i \in 1 .. k |-> raw[i]]
  BY <1>2
<1>6. Len(raw) = k
  <2> DEFINE T == {raw[i] : i \in 1 .. k}
  <2>1. \A i \in 1 .. k : raw[i] \in T
    OBVIOUS
  <2> HIDE DEF T
  <2> QED BY <1>4, <1>5, <2>1, IsSequence
<1>7. ASSUME NEW i \in 1 .. k PROVE raw[i] \in Nat \ {0}
  <2> DEFINE share == base + (IF i <= rem THEN 1 ELSE 0)
  <2>1. share \in Nat \ {0}
    BY <1>1, <1>3, <1>4
  <2>2. raw[i] = Unit * share
    BY <1>2
  <2> HIDE DEF share
  <2>3. Unit * share \in Nat \ {0}
    BY <1>1, <2>1
  <2> QED BY <2>2, <2>3
<1>8. SumOf(raw, 1 .. k) = Unit * UpTo(k, base, rem)
  <2>1. Unit \in Nat /\ k \in Nat /\ base \in Nat /\ rem \in Nat
    BY <1>1, <1>3, <1>4
  <2>2. \A i \in 1 .. k : raw[i] = Unit * Share(i, base, rem)
    BY <1>2 DEF Share
  <2> QED BY <2>1, <2>2, RawSums
<1>9. UpTo(k, base, rem) = units
  <2>1. CASE n <= units
    BY <1>1, <1>3, <1>4, <2>1 DEF UpTo
  <2>2. CASE units < n
    <3>1. k * base = 0
      BY <1>3, <1>4, <2>2
    <3> QED BY <1>1, <1>3, <1>4, <2>2, <3>1 DEF UpTo
  <2> QED BY <1>1, <2>1, <2>2
<1> QED BY <1>4, <1>5, <1>6, <1>7, <1>8, <1>9 DEF raw, units

LEMMA DownFacts ==
  ASSUME NEW q \in Nat \ {0}, NEW step \in Nat \ {0}
  PROVE  Down(q, step) \in Nat \ {0} /\ Down(q, step) <= q
<1> DEFINE p == (q \div step) * step
<1>1. p \in Nat /\ p <= q
  <2>1. q \div step \in Nat /\ q % step \in Nat /\ step * (q \div step) + (q % step) = q /\ p = step * (q \div step)
    BY DivFacts
  <2> DEFINE a == q \div step  b == q % step  c == step * a
  <2>2. a \in Nat /\ b \in Nat /\ c + b = q /\ p = c
    BY <2>1
  <2> HIDE DEF a, b, p
  <2>3. c \in Nat
    BY <2>2
  <2> HIDE DEF c
  <2> QED BY <2>2, <2>3
<1> HIDE DEF p
<1>2. Down(q, step) = IF p = 0 THEN q ELSE p
  BY DEF Down, p
<1> QED BY <1>1, <1>2

\* What a plan is: positive slices that add up to the parent or to its whole units.
GoodPlan(s, qty) ==
  /\ Len(s) \in Nat /\ DOMAIN s = 1 .. Len(s)
  /\ \A i \in 1 .. Len(s) : s[i] \in Nat \ {0}
  /\ SumOf(s, 1 .. Len(s)) \in {qty, Unit * (qty \div Unit)} /\ SumOf(s, 1 .. Len(s)) <= qty

LEMMA PlanIsGood ==
  ASSUME NEW qty \in Nat, NEW step \in Nat, Plan(qty, step) # <<>>
  PROVE  GoodPlan(Plan(qty, step), qty)
<1>0. qty \div Unit # 0
  BY DEF Plan
<1> DEFINE raw == RawQuantities(qty, step)  k == Len(raw)
           plan == Plan(qty, step)
           al == Align(qty, raw, step)
<1>1. /\ k \in Nat \ {0} /\ raw = [i \in 1 .. k |-> raw[i]]
      /\ \A i \in 1 .. k : raw[i] \in Nat \ {0}
      /\ SumOf(raw, 1 .. k) = Unit * (qty \div Unit)
  BY <1>0, RawFacts
<1>2. Unit * (qty \div Unit) \in Nat /\ Unit * (qty \div Unit) <= qty
  <2> DEFINE a == qty \div Unit  b == qty % Unit  c == Unit * a
  <2>1. a \in Nat /\ b \in 0 .. Unit - 1 /\ c + b = qty /\ Unit \in Nat
    BY DivFacts, TwapAssumption
  <2> HIDE DEF a, b
  <2>2. c \in Nat
    BY <2>1
  <2> HIDE DEF c
  <2>3. c <= qty
    BY <2>1, <2>2
  <2> QED BY <2>2, <2>3 DEF a, c
<1>3. plan = [i \in 1 .. (IF al[Len(al)] > 0 THEN Len(al) ELSE Len(al) - 1) |-> al[i]]
  BY <1>0 DEF Plan
<1> HIDE DEF plan, al, raw, k
<1>4. ASSUME Len(al) = k, DOMAIN al = 1 .. k, \A i \in 1 .. k : al[i] \in Nat \ {0},
             NEW total \in {qty, Unit * (qty \div Unit)}, SumOf(al, 1 .. k) = total, total <= qty
      PROVE  GoodPlan(plan, qty)
  <2>1. al[k] > 0 /\ al[k] \in Nat
    BY <1>1, <1>4
  <2>2. plan = [i \in 1 .. k |-> al[i]]
    BY <1>3, <1>4, <2>1
  <2>3. Len(plan) = k /\ DOMAIN plan = 1 .. k
    <3>1. plan = [i \in 1 .. k |-> plan[i]] /\ \A i \in 1 .. k : plan[i] \in Nat
      BY <1>4, <2>2
    <3> QED BY <1>1, <3>1, IsSequence
  <2>4. SumOf(plan, 1 .. k) = total
    <3> DEFINE S == 1 .. k
    <3>1. IsFiniteSet(S)
      <4>1. k \in Int /\ 1 \in Int
        BY <1>1
      <4> QED BY <4>1, FS_Interval
    <3>2. \A x \in S : plan[x] \in Int /\ plan[x] = al[x]
      BY <1>4, <2>2
    <3>3. SumOf(al, S) = total
      BY <1>4
    <3> HIDE DEF S
    <3>4. SumOf(plan, S) = SumOf(al, S)
      BY <3>1, <3>2, SumSame
    <3> QED BY <3>3, <3>4 DEF S
  <2> QED BY <1>1, <1>4, <2>2, <2>3, <2>4 DEF GoodPlan
<1>5. CASE step = 0 \/ k <= 1
  <2>1. al = raw
    BY <1>5 DEF Align, al, k
  <2>2. DOMAIN raw = 1 .. k
    BY <1>1
  <2>3. Len(al) = k /\ DOMAIN al = 1 .. k /\ \A i \in 1 .. k : al[i] \in Nat \ {0}
    BY <1>1, <2>1, <2>2 DEF k
  <2>4. SumOf(al, 1 .. k) = Unit * (qty \div Unit)
    BY <1>1, <2>1
  <2> DEFINE total == Unit * (qty \div Unit)
  <2>5. total \in {qty, Unit * (qty \div Unit)} /\ SumOf(al, 1 .. k) = total /\ total <= qty
    BY <1>2, <2>4
  <2> HIDE DEF total
  <2>6. GoodPlan(plan, qty)
    BY <1>4, <2>3, <2>5
  <2> QED BY <2>6 DEF plan
<1>6. CASE step # 0 /\ k > 1
  <2> DEFINE S == 1 .. (k - 1)
             head == [i \in S |-> Down(raw[i], step)]
  <2>1. al = [i \in 1 .. k |-> IF i < k THEN head[i] ELSE qty - SumOf(head, DOMAIN head)]
    BY <1>1, <1>6 DEF Align, al, k
  <2>2. IsFiniteSet(S) /\ DOMAIN head = S
    BY <1>1, FS_Interval
  <2>3. \A i \in S : i \in 1 .. k /\ i < k /\ i # k
    BY <1>1
  <2>4. \A i \in S : head[i] \in Nat \ {0} /\ head[i] <= raw[i] /\ raw[i] \in Nat \ {0}
    <3> TAKE i \in S
    <3>1. raw[i] \in Nat \ {0} /\ head[i] = Down(raw[i], step)
      BY <1>1, <2>3
    <3>2. step \in Nat \ {0}
      BY <1>6
    <3> QED BY <3>1, <3>2, DownFacts
  <2>5. 1 .. k = S \cup {k} /\ k \notin S
    BY <1>1, <1>6
  <2>6. al = [i \in 1 .. k |-> IF i < k THEN head[i] ELSE qty - SumOf(head, S)]
    BY <2>1, <2>2
  <2> HIDE DEF S, head
  <2>7. SumOf(head, S) \in Nat
    BY <2>2, <2>4, SumNat
  <2>8. SumOf(head, S) <= SumOf(raw, S) /\ SumOf(raw, S) \in Nat
    BY <2>2, <2>4, SumMonotonic, SumNat
  <2>9. SumOf(raw, 1 .. k) = raw[k] + SumOf(raw, S)
    <3>1. \A x \in S \cup {k} : raw[x] \in Int
      BY <1>1, <2>5
    <3> QED BY <2>2, <2>5, <3>1, SumAdd
  <2>10. raw[k] \in Nat \ {0}
    BY <1>1
  <2>11. al[k] = qty - SumOf(head, S) /\ k \in 1 .. k
    BY <1>1, <2>6
  <2>12. al[k] \in Nat \ {0}
    <3> DEFINE x == SumOf(head, S)  y == SumOf(raw, S)  z == raw[k]  w == Unit * (qty \div Unit)
    <3>1. x \in Nat /\ y \in Nat /\ z \in Nat \ {0} /\ w \in Nat /\ x <= y /\ z + y = w /\ w <= qty
      BY <1>1, <1>2, <2>7, <2>8, <2>9, <2>10
    <3> HIDE DEF x, y, z, w
    <3>2. qty - x \in Nat \ {0}
      BY <3>1
    <3> QED BY <2>11, <3>2 DEF x
  <2>13. ASSUME NEW i \in S PROVE al[i] = head[i] /\ al[i] \in Nat \ {0}
    BY <2>3, <2>4, <2>6
  <2>14. SumOf(al, S) = SumOf(head, S)
    <3>1. \A i \in S : al[i] \in Int /\ al[i] = head[i]
      BY <2>13
    <3> QED BY <2>2, <3>1, SumSame
  <2>15. SumOf(al, 1 .. k) = al[k] + SumOf(al, S)
    <3>1. \A x \in S \cup {k} : al[x] \in Int
      BY <2>12, <2>13
    <3> QED BY <2>2, <2>5, <3>1, SumAdd
  <2>16. SumOf(al, 1 .. k) = qty
    <3> DEFINE x == SumOf(head, S)
    <3>1. SumOf(al, 1 .. k) = (qty - x) + x /\ x \in Nat
      BY <2>7, <2>11, <2>14, <2>15
    <3> HIDE DEF x
    <3> QED BY <3>1
  <2>17. Len(al) = k /\ DOMAIN al = 1 .. k
    <3>1. \A i \in 1 .. k : al[i] \in Nat \ {0}
      BY <2>5, <2>12, <2>13
    <3>2. al = [i \in 1 .. k |-> al[i]]
      BY <2>6
    <3> QED BY <1>1, <3>1, <3>2, IsSequence
  <2>18. \A i \in 1 .. k : al[i] \in Nat \ {0}
    BY <2>5, <2>12, <2>13
  <2>19. qty <= qty /\ qty \in {qty, Unit * (qty \div Unit)}
    OBVIOUS
  <2>20. GoodPlan(plan, qty)
    BY <1>4, <2>16, <2>17, <2>18, <2>19
  <2> QED BY <2>20 DEF plan
<1>7. k <= 1 \/ k > 1
  BY <1>1
<1> QED BY <1>5, <1>6, <1>7 DEF plan

-----------------------------------------------------------------------------
(* TwapSlicer: the execution *)

\* What the slices from n on still ask for.
Ahead(s, n) == SumOf(s, n .. Len(s))

TwapTypes ==
  /\ tQty \in Nat /\ tNext \in Nat \ {0} /\ tFilled \in Nat /\ tTraded \in Nat
  /\ tTruthful \in BOOLEAN
  /\ tState \in {"new", "slicing", "urgent", "done", "failed"}
  /\ tSlices # <<>> => GoodPlan(tSlices, tQty)

\* The reports never add up to more than the parent, because the slices that are
\* still to come fit into what is missing; and as long as the answers are true the
\* reports are what has traded.
TwapInv ==
  /\ TwapTypes
  /\ tTruthful => tTraded = tFilled
  /\ tFilled <= tQty
  /\ tState = "new" => tSlices = <<>> /\ tNext = 1 /\ tFilled = 0
  /\ tState = "slicing" => /\ tSlices # <<>> /\ tNext <= Len(tSlices)
                           /\ tFilled + Ahead(tSlices, tNext) <= tQty
  /\ tState = "urgent" => tFilled < tQty

LEMMA TwapInitially == TInit => TwapInv
BY TwapAssumption DEF TInit, TwapInv, TwapTypes

LEMMA AheadFacts ==
  ASSUME NEW s, NEW qty \in Nat, GoodPlan(s, qty), NEW n \in Nat \ {0}, n <= Len(s)
  PROVE  /\ s[n] \in Nat \ {0} /\ Ahead(s, n + 1) \in Nat
         /\ Ahead(s, n) = s[n] + Ahead(s, n + 1)
<1> DEFINE k == Len(s)  S == (n + 1) .. k
<1>1. k \in Nat /\ \A i \in 1 .. k : s[i] \in Nat \ {0}
  BY DEF GoodPlan
<1> HIDE DEF k
<1>2. n \in 1 .. k /\ n .. k = S \cup {n} /\ n \notin S /\ \A i \in S \cup {n} : i \in 1 .. k
  BY <1>1 DEF k
<1>3. IsFiniteSet(S)
  <2>1. n + 1 \in Int /\ k \in Int
    BY <1>1
  <2> QED BY <2>1, FS_Interval
<1>4. \A i \in S \cup {n} : s[i] \in Nat /\ s[i] \in Int
  BY <1>1, <1>2
<1> HIDE DEF S
<1>5. SumOf(s, S \cup {n}) = s[n] + SumOf(s, S)
  BY <1>2, <1>3, <1>4, SumAdd
<1>6. SumOf(s, S) \in Nat
  BY <1>3, <1>4, SumNat
<1> QED BY <1>1, <1>2, <1>5, <1>6 DEF Ahead, S, k

\* An answer to an order for q that fits into what is missing.
LEMMA AnswerFacts ==
  ASSUME TwapInv, NEW q \in Nat, tFilled + q <= tQty, SubmitQty(q) \/ Rejected(q)
  PROVE  /\ tFilled' \in Nat /\ tTraded' \in Nat /\ tTruthful' \in BOOLEAN
         /\ tFilled' <= tFilled + q
         /\ tTruthful' => tTraded' = tFilled'
<1>1. tFilled \in Nat /\ tTraded \in Nat /\ tTruthful \in BOOLEAN /\ (tTruthful => tTraded = tFilled)
  BY DEF TwapInv, TwapTypes
<1>2. CASE tTraded' = tTraded + q /\ tFilled' = tFilled + q /\ UNCHANGED tTruthful
  BY <1>1, <1>2
<1>3. ASSUME NEW part \in 0 .. q - 1, tTraded' = tTraded + part, tFilled' = tFilled + part,
             UNCHANGED tTruthful
      PROVE  /\ tFilled' \in Nat /\ tTraded' \in Nat /\ tTruthful' \in BOOLEAN
             /\ tFilled' <= tFilled + q
             /\ tTruthful' => tTraded' = tFilled'
  BY <1>1, <1>3
<1>4. CASE UNCHANGED <<tTraded, tFilled, tTruthful>>
  BY <1>1, <1>4
<1>5. CASE tTraded' = tTraded + q /\ tTruthful' = FALSE /\ UNCHANGED tFilled
  <2>1. tTruthful' \in BOOLEAN /\ (tTruthful' => tTraded' = tFilled')
    BY <1>5
  <2>2. tFilled \in Nat /\ tTraded \in Nat
    BY <1>1
  <2>3. tFilled' \in Nat /\ tTraded' \in Nat /\ tFilled' <= tFilled + q
    BY <1>5, <2>2
  <2> QED BY <2>1, <2>3
<1> QED BY <1>2, <1>3, <1>4, <1>5 DEF SubmitQty, Rejected

LEMMA Fits ==
  ASSUME NEW qty \in Nat, NEW f \in Nat, NEW q \in Nat, NEW rest \in Nat, NEW g \in Nat,
         f + (q + rest) <= qty, g <= f + q
  PROVE  g <= qty /\ g + rest <= qty
OBVIOUS

LEMMA Halves ==
  ASSUME NEW qty \in Nat, NEW f \in Nat, f * 2 < qty
  PROVE  f < qty
OBVIOUS

LEMMA TwapStep ==
  ASSUME TwapInv, TNext
  PROVE  TwapInv'
<1>0. /\ TwapTypes /\ tFilled <= tQty /\ tQty \in Nat /\ tNext \in Nat \ {0} /\ tFilled \in Nat
  BY DEF TwapInv, TwapTypes
<1>1. CASE Slice
  <2>1. PICK step \in Steps : tSlices' = Plan(tQty, step)
    BY <1>1 DEF Slice
  <2>2. tSlices' # <<>> => GoodPlan(tSlices', tQty)
    <3>1. step \in Nat
      BY TwapAssumption
    <3> QED BY <1>0, <2>1, <3>1, PlanIsGood
  <2>3. /\ UNCHANGED <<tQty, tNext, tFilled, tTraded, tTruthful>>
        /\ tState = "new" /\ tState' = IF tSlices' = <<>> THEN "done" ELSE "slicing"
    BY <1>1 DEF Slice
  <2>4. tNext = 1 /\ tFilled = 0
    BY <2>3 DEF TwapInv
  <2>5. TwapTypes'
    BY <1>0, <2>2, <2>3 DEF TwapTypes
  <2>6. ASSUME tSlices' # <<>>
        PROVE  tNext' <= Len(tSlices') /\ tFilled' + Ahead(tSlices, tNext)' <= tQty'
    <3> DEFINE k == Len(tSlices')  sum == SumOf(tSlices', 1 .. k)
    <3>1. k \in Nat /\ DOMAIN tSlices' = 1 .. k /\ sum <= tQty /\ \A i \in 1 .. k : tSlices'[i] \in Nat
      BY <2>2, <2>6 DEF GoodPlan
    <3>2. Ahead(tSlices, tNext)' = sum
      BY <2>3, <2>4 DEF Ahead
    <3>3. sum \in Nat
      <4> DEFINE S == 1 .. k
      <4>1. IsFiniteSet(S)
        <5>1. k \in Int /\ 1 \in Int
          BY <3>1
        <5> QED BY <5>1, FS_Interval
      <4>2. \A i \in S : tSlices'[i] \in Nat
        BY <3>1
      <4> HIDE DEF S
      <4>3. SumOf(tSlices', S) \in Nat
        BY <4>1, <4>2, SumNat
      <4> QED BY <4>3 DEF S
    <3>4. k # 0
      BY <1>0, <2>1, <2>6, <3>1 DEF Plan
    <3> HIDE DEF k, sum
    <3>5. 1 <= k /\ 0 + sum <= tQty
      BY <1>0, <3>1, <3>3, <3>4
    <3> QED BY <2>3, <2>4, <3>2, <3>5 DEF k
  <2> QED BY <1>0, <2>3, <2>4, <2>5, <2>6 DEF TwapInv
<1>2. CASE SubmitSlice
  <2> DEFINE q == tSlices[tNext]  rest == Ahead(tSlices, tNext + 1)
  <2>1. /\ tState = "slicing" /\ UNCHANGED <<tQty, tSlices>> /\ tNext' = tNext + 1
        /\ SubmitQty(q) \/ Rejected(q)
        /\ \/ tState' = IF FinalSlice THEN "done" ELSE "slicing"
           \/ ~FinalSlice /\ tFilled' * 2 < tQty /\ tState' = "urgent"
    BY <1>2 DEF SubmitSlice
  <2>2. /\ tSlices # <<>> /\ GoodPlan(tSlices, tQty) /\ tNext <= Len(tSlices) /\ Len(tSlices) \in Nat
        /\ tFilled + Ahead(tSlices, tNext) <= tQty
    BY <2>1 DEF TwapInv, TwapTypes, GoodPlan
  <2>3. q \in Nat \ {0} /\ rest \in Nat /\ Ahead(tSlices, tNext) = q + rest
    BY <1>0, <2>2, AheadFacts
  <2> HIDE DEF q, rest
  <2>4. tFilled + q <= tQty /\ tFilled + (q + rest) <= tQty
    BY <1>0, <2>2, <2>3
  <2>5. /\ tFilled' \in Nat /\ tTraded' \in Nat /\ tTruthful' \in BOOLEAN
        /\ tFilled' <= tFilled + q /\ (tTruthful' => tTraded' = tFilled')
    BY <2>1, <2>3, <2>4, AnswerFacts
  <2>6. tFilled' \in Nat /\ tFilled' <= tQty /\ tFilled' + rest <= tQty
    <3>1. tFilled' \in Nat /\ tFilled' <= tFilled + q
      BY <2>5
    <3> QED BY <1>0, <2>3, <2>4, <3>1, Fits
  <2>7. tState' \in {"done", "slicing", "urgent"}
    BY <2>1
  <2>8. TwapTypes'
    BY <1>0, <2>1, <2>2, <2>5, <2>7 DEF TwapTypes
  <2>9. ASSUME tState' = "slicing" PROVE tNext' <= Len(tSlices') /\ tFilled' + Ahead(tSlices, tNext)' <= tQty'
    <3>1. ~FinalSlice
      BY <2>1, <2>9
    <3>2. tNext + 1 <= Len(tSlices)
      BY <1>0, <2>2, <3>1 DEF FinalSlice
    <3> QED BY <2>1, <2>6, <3>2 DEF rest, Ahead
  <2>10. ASSUME tState' = "urgent" PROVE tFilled' < tQty'
    <3>1. tFilled' * 2 < tQty
      BY <2>1, <2>10
    <3>2. tQty' = tQty
      BY <2>1
    <3> QED BY <1>0, <2>6, <3>1, <3>2, Halves
  <2> QED BY <2>1, <2>2, <2>5, <2>6, <2>7, <2>8, <2>9, <2>10 DEF TwapInv
<1>3. CASE SliceTimesOut
  <2>1. /\ tState \in {"slicing", "urgent"} /\ tState' = "failed"
        /\ UNCHANGED <<tQty, tSlices, tNext, tFilled>>
        /\ Rejected(IF tState = "slicing" THEN tSlices[tNext] ELSE tQty - tFilled)
    BY <1>3 DEF SliceTimesOut, Rejected
  <2> DEFINE q == IF tState = "slicing" THEN tSlices[tNext] ELSE tQty - tFilled
  <2>2. q \in Nat /\ tFilled + q <= tQty
    <3>1. CASE tState = "slicing"
      <4>1. /\ GoodPlan(tSlices, tQty) /\ tNext <= Len(tSlices)
            /\ tFilled + Ahead(tSlices, tNext) <= tQty
        BY <3>1 DEF TwapInv, TwapTypes
      <4>2. /\ q \in Nat \ {0} /\ Ahead(tSlices, tNext + 1) \in Nat
            /\ Ahead(tSlices, tNext) = q + Ahead(tSlices, tNext + 1)
        BY <1>0, <3>1, <4>1, AheadFacts
      <4> HIDE DEF q
      <4> QED BY <1>0, <4>1, <4>2
    <3>2. CASE tState = "urgent"
      BY <1>0, <3>2
    <3> QED BY <2>1, <3>1, <3>2
  <2>3. Rejected(q)
    BY <2>1
  <2> HIDE DEF q
  <2>4. tTraded' \in Nat /\ tTruthful' \in BOOLEAN /\ (tTruthful' => tTraded' = tFilled')
    BY <2>2, <2>3, AnswerFacts
  <2>5. TwapTypes'
    BY <1>0, <2>1, <2>4 DEF TwapTypes
  <2> QED BY <1>0, <2>1, <2>4, <2>5 DEF TwapInv
<1>4. CASE SubmitUrgent
  <2>1. /\ tState = "urgent" /\ tState' = "done" /\ UNCHANGED <<tQty, tSlices, tNext>>
        /\ SubmitQty(tQty - tFilled) \/ Rejected(tQty - tFilled)
    BY <1>4 DEF SubmitUrgent, Remaining
  <2> DEFINE q == tQty - tFilled
  <2>2. q \in Nat /\ tFilled + q = tQty
    BY <1>0
  <2>3. SubmitQty(q) \/ Rejected(q)
    BY <2>1
  <2> HIDE DEF q
  <2>4. /\ tFilled' \in Nat /\ tTraded' \in Nat /\ tTruthful' \in BOOLEAN
        /\ tFilled' <= tQty /\ (tTruthful' => tTraded' = tFilled')
    BY <1>0, <2>2, <2>3, AnswerFacts
  <2>5. TwapTypes'
    BY <1>0, <2>1, <2>4 DEF TwapTypes
  <2> QED BY <1>0, <2>1, <2>4, <2>5 DEF TwapInv
<1> QED BY <1>1, <1>2, <1>3, <1>4 DEF TNext

LEMMA TwapStutters ==
  ASSUME TwapInv, UNCHANGED tVars
  PROVE  TwapInv'
BY DEF TwapInv, TwapTypes, tVars, Ahead

LEMMA TwapImplies ==
  ASSUME TwapInv
  PROVE  TwapSound
<1>1. PlanCoversParent
  BY DEF TwapInv, TwapTypes, GoodPlan, PlanCoversParent, Total
<1>2. NoOverfill
  BY DEF TwapInv, TwapTypes, NoOverfill
<1> QED BY <1>1, <1>2 DEF TwapSound

\* The slices add up to the parent or to its whole units, for any quantity, unit, step,
\* notional floor and slice limits; and while the answers are true the slices and
\* the urgent order never trade more than the parent (TwapSlicer.plan, execute).
THEOREM TwapHolds == TSpec => []TwapSound
<1>1. TwapInv /\ [TNext]_tVars => TwapInv'
  BY TwapStep, TwapStutters
<1>2. TSpec => []TwapInv
  BY <1>1, TwapInitially, PTL DEF TSpec
<1> QED BY <1>2, TwapImplies, PTL
-----------------------------------------------------------------------------
(* The records, one part at a time *)

LEMMA RecordSteps ==
  ASSUME [RecordsNext]_<<jVars, tVars, pVars, dVars>>
  PROVE  /\ (StoreNext \/ UNCHANGED pVars) /\ (SchemaNext \/ UNCHANGED dVars)
         /\ (JNext \/ UNCHANGED jVars) /\ (TNext \/ UNCHANGED tVars)
BY DEF RecordsNext

RecordsInv == StoreInv /\ SchemaInv /\ JournalInv /\ TwapInv

LEMMA RecordsInitially == RecordsInit => RecordsInv
BY StoreInitially, SchemaInitially, JournalInitially, TwapInitially
DEF RecordsInit, StoreRests, SchemaRests, TwapRests, RecordsInv

LEMMA RecordsStep ==
  ASSUME RecordsInv, [RecordsNext]_<<jVars, tVars, pVars, dVars>>
  PROVE  RecordsInv' /\ [WritesStay]_pVars /\ [ChoiceSurvives]_dVars
BY RecordSteps, StoreStep, StoreStutters, SchemaStep, SchemaStutters, JournalStep, JournalStutters,
   TwapStep, TwapStutters DEF RecordsInv

\* The isolation of tenants in the specification the records run checks, where the
\* store shares its steps with the journal, the TWAP slicer and the schema.
THEOREM IsolationHolds == RecordsSpec => TenantIsolation
<1>1. RecordsSpec => []RecordsInv
  BY RecordsInitially, RecordsStep, PTL DEF RecordsSpec
<1>2. RecordsSpec => [][WritesStay]_pVars
  BY <1>1, RecordsStep, PTL DEF RecordsSpec
<1>3. RecordsInv => ReadsStayInTenant
  BY DEF RecordsInv, StoreInv
<1>4. RecordsSpec => []ReadsStayInTenant
  BY <1>1, <1>3, PTL
<1> QED BY <1>2, <1>4 DEF TenantIsolation, WritesStayInTenant, WritesStay

\* And there too, who serves does so on a complete schema, and a chosen leverage
\* outlives starts that read the version one at a time (initialize, migrate).
THEOREM StartsHold == RecordsSpec => SchemaSound
<1>1. RecordsSpec => []RecordsInv
  BY RecordsInitially, RecordsStep, PTL DEF RecordsSpec
<1>2. RecordsSpec => [][ChoiceSurvives]_dVars
  BY <1>1, RecordsStep, PTL DEF RecordsSpec
<1>3. RecordsInv => ServesCompleteSchema
  BY SchemaImplies DEF RecordsInv
<1>4. RecordsSpec => []ServesCompleteSchema
  BY <1>1, <1>3, PTL
<1> QED BY <1>2, <1>4 DEF SchemaSound, ChoiceSurvivesStart, ChoiceSurvives

\* And there too, what the loop writes into the journal is right, and the slices and
\* what they trade stay with the parent.
THEOREM RecordsHold == RecordsSpec => [](JournalSound /\ TwapSound)
<1>1. RecordsSpec => []RecordsInv
  BY RecordsInitially, RecordsStep, PTL DEF RecordsSpec
<1>2. RecordsInv => JournalSound /\ TwapSound
  BY JournalImplies, TwapImplies DEF RecordsInv
<1> QED BY <1>1, <1>2, PTL
=============================================================================
