------------------------------- MODULE Schema -------------------------------
(***************************************************************************)
(* Start-up of the database (persistence/database.py initialize and        *)
(* migrate, pg.py alike; models.py SCHEMA_MIGRATIONS): create the tables   *)
(* and indexes that are missing, read the schema version, apply the        *)
(* outstanding migrations in one transaction.  The control plane and every *)
(* worker do it on the same file.  The columns of a version are one thing  *)
(* here; the data is the leverage in one tenant's config, which migration  *)
(* Backfill rewrites.                                                      *)
(***************************************************************************)
EXTENDS Naturals

CONSTANTS
  Procs,        \* processes that open the database
  Target,       \* SCHEMA_VERSION (10)
  TenantCols,   \* the version whose columns the base indexes are on (5)
  Backfill      \* the version that turns leverage 5 into 10 (8)

ASSUME SchemaAssumption ==
  /\ Target \in Nat \ {0}
  /\ TenantCols \in 1 .. Target /\ Backfill \in 1 .. Target

VARIABLES
  dTables,    \* the tables exist
  dVersion,   \* MAX(version) of _schema_version
  dCols,      \* versions whose columns exist
  dLev,       \* the config row's leverage: "none", "old5", "chosen5", "other"
  dAt,        \* each process: "down", "read", "migrate", "serving"
  dRead,      \* the version it read
  dAlone      \* history: no version was read while another process migrated

dVars == <<dTables, dVersion, dCols, dLev, dAt, dRead, dAlone>>

Versions == 1 .. Target

\* A new file, or a database that an older release left.
SchemaInit ==
  /\ \/ dTables = FALSE /\ dVersion = 0 /\ dCols = {} /\ dLev = "none"
     \/ /\ dTables = TRUE /\ dVersion \in 0 .. Target
        /\ dCols = 1 .. dVersion
        /\ dLev \in IF dVersion < TenantCols THEN {"none"}
                    ELSE IF dVersion < Backfill THEN {"none", "old5", "other"}
                    ELSE {"none", "chosen5", "other"}
  /\ dAt = [p \in Procs |-> "down"]
  /\ dRead = [p \in Procs |-> 0]
  /\ dAlone = TRUE

Move(p, point) == dAt' = [dAt EXCEPT ![p] = point]

\* initialize: a missing table is created with all columns of today; an index on a
\* column that an old table lacks raises, and the transaction is rolled back.
Initialize(p) ==
  /\ dAt[p] = "down"
  /\ dTables => TenantCols \in dCols
  /\ dTables' = TRUE
  /\ dCols' = IF dTables THEN dCols ELSE Versions
  /\ Move(p, "read")
  /\ UNCHANGED <<dVersion, dLev, dRead, dAlone>>

\* migrate: the version is read before the transaction begins.
UpToDate == dVersion >= Target

ReadVersion(p) ==
  /\ dAt[p] = "read"
  /\ dRead' = [dRead EXCEPT ![p] = dVersion]
  /\ Move(p, IF UpToDate THEN "serving" ELSE "migrate")
  /\ dAlone' = (dAlone /\ (UpToDate \/ \A q \in Procs : dAt[q] # "migrate"))
  /\ UNCHANGED <<dTables, dVersion, dCols, dLev>>

Outstanding(p) == (dRead[p] + 1) .. Target

\* The version row is written with the statements it stands for.
\* Mutant: it is not written.
Unrecorded(p) == dVersion
Recorded(p) == Target

Migrate(p) ==
  /\ dAt[p] = "migrate"
  /\ dCols' = dCols \cup Outstanding(p)
  /\ dVersion' = Recorded(p)
  /\ dLev' = IF Backfill \in Outstanding(p) /\ dLev \in {"old5", "chosen5"} THEN "other" ELSE dLev
  /\ Move(p, "serving")
  /\ UNCHANGED <<dTables, dRead, dAlone>>

\* The process dies, or its transaction fails and is rolled back.
Dies(p) ==
  /\ dAt[p] # "down"
  /\ Move(p, "down")
  /\ UNCHANGED <<dTables, dVersion, dCols, dLev, dRead, dAlone>>

\* A tenant sets the leverage through the running control plane.
TenantChooses(p) ==
  /\ dAt[p] = "serving"
  /\ dLev' \in {"chosen5", "other"}
  /\ UNCHANGED <<dTables, dVersion, dCols, dAt, dRead, dAlone>>

SchemaNext ==
  \E p \in Procs : Initialize(p) \/ ReadVersion(p) \/ Migrate(p) \/ Dies(p) \/ TenantChooses(p)

SchemaSpec == SchemaInit /\ [][SchemaNext]_dVars

-----------------------------------------------------------------------------
(* Properties *)

\* A process serves only on a complete schema, whatever version the file had and
\* wherever an earlier start was cut off (initialize, migrate).
ServesCompleteSchema == (\E p \in Procs : dAt[p] = "serving") => dCols = Versions

\* The backfill of version 8 is for values from before: a leverage that the tenant
\* chose afterwards is never rewritten by a later start, as long as no process
\* reads the version while another one is about to migrate (then both do).
ChoiceSurvivesStart ==
  [][dAlone /\ dLev = "chosen5" /\ dLev' # dLev
       => \E p \in Procs : dAt[p] = "serving" /\ dAt' = dAt]_dVars

\* What a start leaves behind, of the schema and of the data.
SchemaSound == []ServesCompleteSchema /\ ChoiceSurvivesStart
=============================================================================
