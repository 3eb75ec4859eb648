----------------------------- MODULE TenantStore -----------------------------
(***************************************************************************)
(* The repositories (persistence/repositories.py) over one table that has  *)
(* a tenant_id column, shared by all tenants.  A worker's repositories are *)
(* scoped to its tenant: BaseRepository stamps, filters and guards, and    *)
(* every method with SQL of its own adds the tenant predicate by hand.     *)
(* The control plane's are not scoped: its routes pass the tenant as a     *)
(* filter.  SQLite binds parameters by position: database.py rewrites each *)
(* $N of a query to ?, so the query's text and its parameter list have to  *)
(* name the same things in the same order.                                 *)
(***************************************************************************)
EXTENDS Naturals, Sequences

CONSTANTS
  Scopes,     \* tenants
  Everyone,   \* the scope of an unscoped repository
  Ids,        \* primary keys
  Names       \* values of the columns that queries filter by

ASSUME StoreAssumption == Everyone \notin Scopes

VARIABLES
  pRows,     \* the table
  pLegacy,   \* fixed: the table kept its old UNIQUE(strategy_name)
  pAccounts, \* fixed: the table is accounts
  pBy,       \* the scope of the last operation's repository
  pGot       \* ids of the rows it returned

pVars == <<pRows, pLegacy, pAccounts, pBy, pGot>>

Row == [tenant : Scopes, name : Names]
Free == [tenant |-> Everyone, name |-> CHOOSE n \in Names : TRUE]

StoreInit ==
  /\ pRows = [i \in Ids |-> Free]
  /\ pLegacy \in BOOLEAN /\ pAccounts \in BOOLEAN
  /\ ~ (pLegacy /\ pAccounts)
  /\ pBy = Everyone /\ pGot = {}

Used == {i \in Ids : pRows[i] # Free}

By(scope) == pBy' = scope /\ UNCHANGED <<pLegacy, pAccounts>>
Scoped == pBy # Everyone

-----------------------------------------------------------------------------
(* BaseRepository *)

\* create stamps the scope on the model, whatever tenant it names.
Stamp(scope, row) == IF scope = Everyone THEN row ELSE [row EXCEPT !.tenant = scope]

Create(scope, i, row) ==
  /\ i \notin Used
  /\ pRows' = [pRows EXCEPT ![i] = Stamp(scope, row)]
  /\ By(scope)
  /\ pGot' = {i}

\* Whether a row is within a repository's scope.
InScope(scope, i) == scope = Everyone \/ pRows[i].tenant = scope

GetRow(scope, i) == {j \in {i} \cap Used : InScope(scope, j)}

Get(scope, i) ==
  /\ scope # Everyone
  /\ pGot' = GetRow(scope, i)
  /\ By(scope)
  /\ UNCHANGED pRows

\* list and count: the tenant is the one the filters name, else the scope.  The
\* routes name one, the workers' scoped repositories are never given one.
Filter(scope, named) == IF named = Everyone THEN scope ELSE named

List(scope, named, name) ==
  /\ scope = Everyone <=> named # Everyone
  /\ pGot' = {i \in Used : pRows[i].name = name /\ pRows[i].tenant = Filter(scope, named)}
  /\ By(scope)
  /\ UNCHANGED pRows

\* Mutant: the update is guarded by the id alone.
ById(scope, i) == i \in Used
Guarded(scope, i) == i \in Used /\ InScope(scope, i)

Update(scope, i, name) ==
  /\ scope # Everyone
  /\ pRows' = IF Guarded(scope, i) THEN [pRows EXCEPT ![i].name = name] ELSE pRows
  /\ By(scope)
  /\ pGot' = {}

Delete(scope, i) ==
  /\ scope # Everyone
  /\ pRows' = IF Guarded(scope, i) THEN [pRows EXCEPT ![i] = Free] ELSE pRows
  /\ By(scope)
  /\ pGot' = {}

-----------------------------------------------------------------------------
(* Queries: what the placeholders of the text stand for, in its order, and *)
(* what the parameter list holds, in its order.                            *)

Query(text) == [text |-> text, params |-> text]
Limited == [text |-> <<"arg", "tenant", "limit">>, params |-> <<"arg", "limit", "tenant">>]

AccountQueries == {Query(<<"arg", "tenant">>)}
PositionQueries == {Query(<<"arg", "arg", "tenant">>), Query(<<"arg", "tenant">>), Query(<<"tenant">>)}
OrderQueries == {Query(<<"tenant">>), Query(<<"tenant", "limit">>)}
TradeQueries == {Query(<<"tenant", "limit">>), Query(<<"arg", "arg", "tenant">>)}
DecisionQueries == {Query(<<"tenant", "limit">>), Query(<<"arg", "arg", "tenant">>),
                    Query(<<"arg", "tenant", "limit">>)}
SessionQueries == {Query(<<"tenant">>)}
SnapshotQueries == {Query(<<"tenant", "limit">>), Query(<<"arg", "arg", "tenant">>)}
OptimizationQueries == {Query(<<"arg", "arg", "tenant">>), Query(<<"tenant", "limit">>),
                        Query(<<"arg", "tenant">>), Query(<<"tenant">>)}
ConfigChangeQueries == {Query(<<"tenant", "limit">>), Limited}
BreakerEventQueries == {Query(<<"tenant", "limit">>), Query(<<"arg", "arg", "tenant">>), Limited}
ErrorLogQueries == {Query(<<"tenant", "limit">>), Query(<<"arg", "arg", "tenant">>), Limited}
StrategyStateQueries == {Query(<<"arg", "tenant">>), Query(<<"tenant">>)}
FundingQueries == {Limited, Query(<<"arg", "tenant">>)}
LiquidationQueries == {Query(<<"arg", "arg", "tenant">>), Query(<<"arg", "tenant">>)}

Queries ==
  AccountQueries \cup PositionQueries \cup OrderQueries \cup TradeQueries
  \cup DecisionQueries \cup SessionQueries \cup SnapshotQueries
  \cup OptimizationQueries \cup ConfigChangeQueries \cup BreakerEventQueries
  \cup ErrorLogQueries \cup StrategyStateQueries \cup FundingQueries \cup LiquidationQueries

\* _rewrite_params: the i-th placeholder of the text gets the i-th parameter.
\* A column compared with something of another kind matches no row, and LIMIT
\* with a tenant's id is an error.
Matches(row, role, bound, scope, name) ==
  /\ bound = role
  /\ CASE role = "arg" -> row.name = name
       [] role = "tenant" -> row.tenant = scope
       [] role = "limit" -> TRUE

Select(scope, query, name) ==
  /\ scope # Everyone
  /\ pGot' = {i \in Used : \A k \in 1 .. Len(query.text) :
                Matches(pRows[i], query.text[k], query.params[k], scope, name)}
  /\ By(scope)
  /\ UNCHANGED pRows

-----------------------------------------------------------------------------
(* Methods that are neither *)

\* StrategyStateRepository.upsert: insert, or update the row of this strategy and
\* tenant.  A table that kept its old constraint refuses the insert when another
\* tenant has the strategy, and the update it falls back to matches no row.
Upsert(scope, i, name) ==
  /\ scope # Everyone
  /\ LET own == {j \in Used : pRows[j] = [tenant |-> scope, name |-> name]}
         taken == pLegacy /\ \E j \in Used : pRows[j].name = name
     IN  IF own # {} \/ taken
           THEN UNCHANGED pRows /\ pGot' = own
           ELSE /\ i \notin Used
                /\ pRows' = [pRows EXCEPT ![i] = [tenant |-> scope, name |-> name]]
                /\ pGot' = {i}
  /\ By(scope)

\* AccountRepository.upsert_account: the tenant is stamped, and a row that has the id
\* of the account is overwritten, tenant and all, whoever's it is.
UpsertAccount(scope, i, row) ==
  /\ pAccounts
  /\ pRows' = [pRows EXCEPT ![i] = Stamp(scope, row)]
  /\ By(scope)
  /\ pGot' = {i}

\* TradeRepository.sum_pnl_since has a WHERE of its own when it is scoped, on the
\* tenant of its argument, and none when it is not.  A scoped repository is asked for
\* its own tenant's sum; the only caller so far has an unscoped one.
SumPnlSince(scope, named) ==
  /\ scope # Everyone => named = scope
  /\ pGot' = {i \in Used : scope = Everyone \/ pRows[i].tenant = named}
  /\ By(scope)
  /\ UNCHANGED pRows

StoreNext ==
  \E scope \in Scopes \cup {Everyone} :
    \/ \E i \in Ids, row \in Row : Create(scope, i, row) \/ UpsertAccount(scope, i, row)
    \/ \E i \in Ids : Get(scope, i) \/ Delete(scope, i)
    \/ \E named \in Scopes \cup {Everyone}, name \in Names : List(scope, named, name)
    \/ \E i \in Ids, name \in Names : Update(scope, i, name) \/ Upsert(scope, i, name)
    \/ \E query \in Queries, name \in Names : Select(scope, query, name)
    \/ \E named \in Scopes : SumPnlSince(scope, named)

StoreSpec == StoreInit /\ [][StoreNext]_pVars

-----------------------------------------------------------------------------
(* Properties *)

\* "When set, writes are stamped, reads auto-filter, and update/delete/get are
\* guarded to this tenant" (BaseRepository): no operation of a scoped repository
\* returns a row of another tenant, whoever wrote it, and however the parameters
\* of its query are bound.
ReadsStayInTenant == Scoped => \A i \in pGot : pRows[i].tenant = pBy

\* Nor does it change, move or delete one, and a row that it writes ends up with the
\* repository's own tenant.  In the table accounts only the latter holds: the upsert by
\* id overwrites whosever row has the id, against the comment quoted above.
OwnRowsChange ==
  \A i \in Ids : pRows'[i] # pRows[i] =>
    /\ pAccounts \/ pRows[i].tenant \in {Everyone, pBy'}
    /\ pRows'[i].tenant \in {Everyone, pBy'}
WritesStayInTenant == [][Scoped' => OwnRowsChange]_pVars

\* Both directions of the isolation of a scoped repository.
TenantIsolation == []ReadsStayInTenant /\ WritesStayInTenant
=============================================================================
