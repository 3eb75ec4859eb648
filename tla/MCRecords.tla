----------------------------- MODULE MCRecords -----------------------------
(***************************************************************************)
(* What the worker records, and where: the writers of the trades table,    *)
(* the TWAP slicer, the repositories over the shared tables and the        *)
(* start-up of the database.  Each is explored while the others rest.      *)
(***************************************************************************)
EXTENDS TradeJournal, TwapSlicer, TenantStore, Schema

TwapRests == TInit /\ tQty = Min(Parents)
StoreRests == StoreInit /\ ~pLegacy /\ ~pAccounts
SchemaRests == SchemaInit /\ dTables = FALSE

RecordsInit ==
  \/ JInit /\ TInit /\ StoreRests /\ SchemaRests
  \/ JInit /\ TwapRests /\ StoreInit /\ SchemaRests
  \/ JInit /\ TwapRests /\ StoreRests /\ SchemaInit

\* A step of one part while the others rest.
RecordsNext ==
  \/ /\ JNext /\ TwapRests /\ StoreRests /\ SchemaRests
     /\ UNCHANGED <<tVars, pVars, dVars>>
  \/ /\ TNext /\ JInit /\ StoreRests /\ SchemaRests
     /\ UNCHANGED <<jVars, pVars, dVars>>
  \/ /\ StoreNext /\ JInit /\ TwapRests /\ SchemaRests
     /\ UNCHANGED <<jVars, tVars, dVars>>
  \/ /\ SchemaNext /\ JInit /\ TwapRests /\ StoreRests
     /\ UNCHANGED <<jVars, tVars, pVars>>

RecordsSpec ==
  RecordsInit /\ [][RecordsNext]_<<jVars, tVars, pVars, dVars>> /\ WF_jVars(Ingest)
=============================================================================
