---------------------------- MODULE TradeJournal ----------------------------
(***************************************************************************)
(* The trades table and its two writers: execute(), which records the      *)
(* fills of its own orders (_persist_trade), and the reconciliation loop,  *)
(* which copies the exchange's execution list (_ingest_exchange_trades).   *)
(* The daily PnL that the risk manager reads is the sum over this table.   *)
(*                                                                         *)
(* An order trades in one or more executions.  The loop awaits the         *)
(* database for every leg, so orders fill, brackets close positions and    *)
(* the worker restarts while it walks through its list.  Executions are    *)
(* numbered in time order; an entry opens a flat symbol in one direction   *)
(* and a close flattens it, as in one-way mode.                            *)
(*                                                                         *)
(* Both writers insert position_id 0, and no position has that id.  With   *)
(* ForeignKeys = TRUE, which is what models.py and database.py set up, the *)
(* insert is refused.  ForeignKeys = FALSE is a table that takes the rows, *)
(* as the repository doubles of the tests do: it shows what the writers    *)
(* themselves guarantee.                                                   *)
(***************************************************************************)
EXTENDS Integers, Sequences, FiniteSets

CONSTANTS Pairs,        \* traded symbols
          MaxOrders,    \* bound: orders on the exchange
          MaxParts,     \* bound: executions per order
          MaxUpsets,    \* bound: database errors and restarts of the worker
          ForeignKeys   \* the database enforces the table's foreign keys

ASSUME JournalAssumption ==
  /\ MaxOrders \in Nat /\ MaxParts \in Nat \ {0} /\ MaxUpsets \in Nat
  /\ ForeignKeys \in BOOLEAN

VARIABLES
  jExecs,    \* the exchange's executions, oldest first
  jOpen,     \* the open position of each pair: "flat", "BUY" or "SELL"
  jPending,  \* orders whose fill execute() still has to record
  jRows,     \* the trades table
  jTodo,     \* places in jExecs of the legs the loop still has to go through
  jAt,       \* place of the leg it went through last, 0 at the start of a pass
  jLongs, jShorts,    \* lengths of the loop's FIFO queues for the symbol of that leg
  jBlind,             \* history: lookups in the table that failed
  jUpsets             \* errors and restarts still to come
jVars == <<jExecs, jOpen, jPending, jRows, jTodo, jAt, jLongs, jShorts, jBlind, jUpsets>>

Opposite(side) == IF side = "BUY" THEN "SELL" ELSE "BUY"
Orders == {jExecs[i].ord : i \in DOMAIN jExecs}

JInit ==
  /\ jExecs = <<>> /\ jOpen = [p \in Pairs |-> "flat"] /\ jPending = {}
  /\ jRows = {} /\ jTodo = {} /\ jAt = 0 /\ jLongs = 0 /\ jShorts = 0
  /\ jBlind = 0 /\ jUpsets = MaxUpsets

-----------------------------------------------------------------------------
(* The exchange *)

\* Order ids count up.
NewOrder == IF jExecs = <<>> THEN 1 ELSE jExecs[Len(jExecs)].ord + 1

\* One order with n executions.  A closing execution realises a PnL: only
\* whether it does matters, so pnl is 1 for every part of a close and 0 otherwise.
Trade(p, side, n, pnl) ==
  /\ NewOrder <= MaxOrders
  /\ jExecs' = jExecs \o [i \in 1 .. n |-> [ord |-> NewOrder, pair |-> p, side |-> side, pnl |-> pnl]]
  /\ jOpen' = [jOpen EXCEPT ![p] = IF pnl = 1 THEN "flat" ELSE side]

\* An entry or a close that execute() placed and saw FILLED.
EngineFills(p, n) ==
  /\ IF jOpen[p] = "flat" THEN \E side \in {"BUY", "SELL"} : Trade(p, side, n, 0)
     ELSE Trade(p, Opposite(jOpen[p]), n, 1)
  /\ jPending' = jPending \cup {NewOrder}
  /\ UNCHANGED <<jRows, jTodo, jAt, jLongs, jShorts, jBlind, jUpsets>>

\* A TP/SL bracket closes the position on the exchange.
BracketFills(p, n) ==
  /\ jOpen[p] # "flat" /\ Trade(p, Opposite(jOpen[p]), n, 1)
  /\ UNCHANGED <<jPending, jRows, jTodo, jAt, jLongs, jShorts, jBlind, jUpsets>>

-----------------------------------------------------------------------------
(* Writers of the table *)

ExecOf(o) == jExecs[CHOOSE i \in DOMAIN jExecs : jExecs[i].ord = o]

Rows(o, by) == {r \in jRows : r.ord = o /\ r.by = by}

\* _persist_trade: one row for the whole order.  Bybit's order ids are UUIDs,
\* for which the row gets the sentinel 0.  Its own PnL (serial closes only, the
\* others lack the position side) is left out.  An error is swallowed.
PersistTrade(o) ==
  /\ o \in jPending
  /\ jPending' = jPending \ {o}
  /\ \/ /\ jRows' = IF ForeignKeys THEN jRows
                    ELSE jRows \cup {[key |-> 0, ord |-> o, side |-> ExecOf(o).side, by |-> "engine"]}
        /\ UNCHANGED jUpsets
     \/ /\ jUpsets > 0 /\ jUpsets' = jUpsets - 1 /\ UNCHANGED jRows
  /\ UNCHANGED <<jExecs, jOpen, jTodo, jAt, jLongs, jShorts, jBlind>>

\* get_user_trades asks for the executions of the symbols with an open position.
UserTrades == {i \in DOMAIN jExecs : jOpen[jExecs[i].pair] # "flat"}

\* exists_for_order
\* Mutant: any row of the same side counts.
ExistsForSide(x) == \E r \in jRows : r.side = x.side
ExistsForOrder(x) == \E r \in jRows : r.key = x.ord /\ r.side = x.side

\* The fetch returns the legs to walk through.
StartPass(legs) ==
  /\ jTodo = {} /\ legs # {}
  /\ jTodo' = legs /\ jAt' = 0 /\ jLongs' = 0 /\ jShorts' = 0
  /\ UNCHANGED <<jExecs, jOpen, jPending, jRows, jBlind>>

IngestStart == StartPass(UserTrades) /\ UNCHANGED jUpsets

\* A symbol whose executions cannot be fetched is passed over.
FetchSkips(p) ==
  /\ jUpsets > 0 /\ jUpsets' = jUpsets - 1
  /\ StartPass({i \in UserTrades : jExecs[i].pair # p})

\* The legs are grouped by symbol, each group oldest first: the next leg is the
\* oldest of the symbol the loop is at, and only then one of another symbol.
AtSymbol(x) == jAt # 0 /\ jExecs[jAt].pair = x.pair
IsNext(i) ==
  /\ i \in jTodo /\ \A j \in jTodo : jExecs[j].pair = jExecs[i].pair => i <= j
  /\ AtSymbol(jExecs[i]) \/ \A j \in jTodo : ~AtSymbol(jExecs[j])

\* The queues start empty for every symbol.
Longs(x) == IF AtSymbol(x) THEN jLongs ELSE 0
Shorts(x) == IF AtSymbol(x) THEN jShorts ELSE 0

\* A leg either closes the oldest entry of the other direction or is an entry.
Closes(x) == IF x.side = "BUY" THEN Shorts(x) > 0 ELSE Longs(x) > 0
\* Mutant: a leg that is in the table already leaves the queues alone.
AdvanceNewOnly(x) ==
  LET step == IF ExistsForOrder(x) THEN 0 ELSE IF Closes(x) THEN -1 ELSE 1
      long == (x.side = "BUY") # Closes(x)
  IN  /\ jLongs' = Longs(x) + (IF long THEN step ELSE 0)
      /\ jShorts' = Shorts(x) + (IF long THEN 0 ELSE step)
AdvanceQueues(x) ==
  LET step == IF Closes(x) THEN -1 ELSE 1
      long == (x.side = "BUY") # Closes(x)
  IN  /\ jLongs' = Longs(x) + (IF long THEN step ELSE 0)
      /\ jShorts' = Shorts(x) + (IF long THEN 0 ELSE step)

\* One leg: it is skipped when its order is found in the table, and otherwise
\* written, with the exchange's PnL if the queues make it a close.  A refused
\* insert ends the pass.
Leg(i, found) ==
  LET x == jExecs[i] IN
  /\ IsNext(i) /\ jAt' = i
  /\ jTodo' = IF ~found /\ ForeignKeys THEN {} ELSE jTodo \ {i}
  /\ AdvanceQueues(x)
  /\ jRows' = IF found \/ ForeignKeys THEN jRows
              ELSE jRows \cup {[key |-> x.ord, ord |-> x.ord, side |-> x.side, by |-> "loop",
                                 at |-> i, nth |-> Cardinality(Rows(x.ord, "loop")) + 1,
                                 pnl |-> IF Closes(x) THEN x.pnl ELSE 0]}
  /\ UNCHANGED <<jExecs, jOpen, jPending>>

IngestLeg(i) == Leg(i, ExistsForOrder(jExecs[i])) /\ UNCHANGED <<jBlind, jUpsets>>

\* exists_for_order swallows a database error and answers False.
LookupFails(i) ==
  /\ jUpsets > 0 /\ jUpsets' = jUpsets - 1 /\ jBlind' = jBlind + 1
  /\ Leg(i, FALSE)

\* An error ends the pass; the rest waits for the next one.
IngestFails ==
  /\ jTodo # {} /\ jUpsets > 0 /\ jUpsets' = jUpsets - 1
  /\ jTodo' = {}
  /\ UNCHANGED <<jExecs, jOpen, jPending, jRows, jAt, jLongs, jShorts, jBlind>>

\* A restart loses the pass and what execute() had not written yet.
WorkerRestarts ==
  /\ jUpsets > 0 /\ jUpsets' = jUpsets - 1
  /\ jTodo' = {} /\ jPending' = {} /\ jAt' = 0 /\ jLongs' = 0 /\ jShorts' = 0
  /\ UNCHANGED <<jExecs, jOpen, jRows, jBlind>>

-----------------------------------------------------------------------------
Ingest == IngestStart \/ \E i \in jTodo : IngestLeg(i)
JNext ==
  \/ \E p \in Pairs, n \in 1 .. MaxParts : EngineFills(p, n) \/ BracketFills(p, n)
  \/ \E o \in jPending : PersistTrade(o)
  \/ \E p \in Pairs : FetchSkips(p)
  \/ \E i \in jTodo : LookupFails(i)
  \/ Ingest \/ IngestFails \/ WorkerRestarts

JSpec == JInit /\ [][JNext]_jVars /\ WF_jVars(Ingest)

-----------------------------------------------------------------------------
(* Properties *)

\* However often the loop walks over an execution, with restarts and failed
\* passes, it writes one row per order; a second one needs a lookup that failed.
LoopRows == {r \in jRows : r.by = "loop"}
IngestedOnce == Cardinality(LoopRows) <= Cardinality({r.ord : r \in LoopRows}) + jBlind

\* The row of a close carries its PnL, whichever pass wrote it and whichever of
\* its legs earlier passes had written, as long as every order traded at once.
TradedAtOnce == \A i, j \in DOMAIN jExecs : jExecs[i].ord = jExecs[j].ord => i = j
ClosePnlKept == TradedAtOnce => \A r \in LoopRows : r.pnl = ExecOf(r.ord).pnl

\* While its symbol has a position, an order gets a row of the loop, if the table
\* takes the rows at all (ForeignKeys = FALSE).  One row is all that it gets: the
\* lookup by order then finds it, and further executions are skipped, whatever the
\* docstring says of "every fill" (FillIsJournaled).
OrderIsJournaled ==
  \A o \in 1 .. MaxOrders :
    (o \in Orders) ~> (o \in Orders /\ (Rows(o, "loop") # {} \/ jOpen[ExecOf(o).pair] = "flat"))

\* What the docstring of _ingest_exchange_trades says: it "pulls GET /v5/execution/list
\* and upserts every fill that is not already in the journal".  No fill enters a table
\* with the foreign keys of the schema, and only the first execution of an order would
\* enter one without.
Executed(i) == i \in DOMAIN jExecs
Journaled(i) == \E r \in jRows : r.by = "loop" /\ r.at = i
FillIsJournaled ==
  \A i \in 1 .. MaxOrders * MaxParts :
    Executed(i) ~> (Executed(i) /\ (Journaled(i) \/ jOpen[jExecs[i].pair] = "flat"))

\* What the loop has written is right.
JournalSound == IngestedOnce /\ ClosePnlKept
=============================================================================
