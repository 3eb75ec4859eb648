-------------------------- MODULE ExecutionEngine --------------------------
(***************************************************************************)
(* ExecutionEngine.execute (execution/engine.py) around the order gateway, *)
(* run concurrently with the Telegram kill switch (bot/_safety_mixin.py).  *)
(*                                                                         *)
(* execute() awaits between its risk check, the quantity normalisation and *)
(* the submission; the kill switch runs in those gaps.  The kill flag is   *)
(* the KILL_SWITCH breaker of the risk manager, read by evaluate(), which  *)
(* execute() calls itself or its caller has called just before.            *)
(*                                                                         *)
(* The separate bracket submits of execute() need an entry whose request   *)
(* has neither TP nor SL while its action has one; _build_request copies   *)
(* both, so that code is never reached and is not modelled.                *)
(***************************************************************************)
EXTENDS OrderGateway

CONSTANT BracketsOn   \* risk.per_position_sl / per_position_tp enabled

VARIABLES
  stage,      \* progress of each execute() call
  asked,      \* the OrderRequest _build_request makes of the action
  reported,   \* status of the OrderResult returned to the caller
  journal,    \* calls whose fill execute() wrote to the trades table
  killed,     \* KILL_SWITCH breaker active
  kill,       \* progress of cmd_kill_callback
  listed,     \* orders _cancel_all_open_orders found
  handled,    \* those it has gone through
  failed,     \* orders it reports as not cancelled
  cleared     \* history: calls past their risk check when the switch was thrown

engineVars == <<stage, asked, reported, journal>>
killVars   == <<killed, kill, listed, handled, failed, cleared>>
allVars    == <<vars, engineVars, killVars>>

LiveOrders == {l \in Links : book[l] \in Live}

\* Calls between their risk check and their answer, and calls with an order on
\* the exchange or on its way there.
UnderWay == {c \in Calls : stage[c] \in {"checked", "submitted"}}
Posted   == {l \in Links : book[l] # "none" \/ l \in inflight}

EngineInit ==
  /\ Init
  /\ stage      = [c \in Calls |-> "new"]
  /\ asked      \in [Calls -> Requests]
  /\ reported   = [c \in Calls |-> "none"]
  /\ journal    = {}
  /\ killed     = FALSE
  /\ kill       = "idle"
  /\ listed     = {}
  /\ handled    = {}
  /\ failed     = {}
  /\ cleared    = {}

-----------------------------------------------------------------------------
(* execute() *)

\* Every early return of execute(): a REJECTED result, nothing submitted.
RejectEarly(c) ==
  /\ stage'    = [stage EXCEPT ![c] = "returned"]
  /\ reported' = [reported EXCEPT ![c] = "REJECTED"]
  /\ UNCHANGED <<asked, journal>>

\* The risk check: an active breaker rejects; the gates and the sizing may.
\* Mutant: the verdict is taken before the breakers are asked.
RiskUnasked(c) ==
  /\ stage[c] = "new"
  /\ \/ RejectEarly(c)
     \/ /\ stage' = [stage EXCEPT ![c] = "checked"]
        /\ UNCHANGED <<asked, reported, journal>>
  /\ UNCHANGED <<vars, killVars>>
RiskEvaluate(c) ==
  /\ stage[c] = "new"
  /\ \/ RejectEarly(c)
     \/ /\ ~killed
        /\ stage' = [stage EXCEPT ![c] = "checked"]
        /\ UNCHANGED <<asked, reported, journal>>
  /\ UNCHANGED <<vars, killVars>>

\* An entry without its stop-loss and take-profit prices.
Naked(r) == BracketsOn /\ r.entry /\ ~r.brackets

\* _prepare_quantity fails, or the last-mile protection check refuses.
PrepareRejects(c) ==
  /\ stage[c] = "checked"
  /\ RejectEarly(c)
  /\ UNCHANGED <<vars, killVars>>

\* The quantity is final: build the request and enter submit().
EngineSubmit(c) ==
  /\ stage[c] = "checked"
  /\ ~Naked(asked[c])
  /\ Submit(c, asked[c])
  /\ stage' = [stage EXCEPT ![c] = "submitted"]
  /\ UNCHANGED <<asked, reported, journal, killVars>>

\* OrderRejectedError and OrderTimeoutError both become a REJECTED result.
\* Mutant: a timeout is taken for a fill.
ReportOptimistic(result) ==
  IF result = "timeout" THEN "FILLED" ELSE IF result = "rejected" THEN "REJECTED" ELSE result
Report(result) == IF result \in {"rejected", "timeout"} THEN "REJECTED" ELSE result

\* execute() returns; a fill is journaled first (best effort).
CollectResult(c) ==
  /\ stage[c] = "submitted" /\ pc[c] = "done"
  /\ stage'    = [stage EXCEPT ![c] = "returned"]
  /\ reported' = [reported EXCEPT ![c] = Report(outcome[c])]
  /\ \/ reported'[c] = "FILLED" /\ journal' = journal \cup {c}
     \/ UNCHANGED journal
  /\ UNCHANGED <<asked, vars, killVars>>

-----------------------------------------------------------------------------
(* The kill switch *)

\* Step 1 of cmd_kill_callback: trigger the breaker.
KillTrigger ==
  /\ kill = "idle"
  /\ kill' = "listing"
  /\ killed' = TRUE
  /\ cleared' = UnderWay \cup {l[1] : l \in Posted}
  /\ UNCHANGED <<listed, handled, failed, engineVars, vars>>

\* _cancel_all_open_orders asks the exchange; a failed query leaves the
\* gateway's own tracked orders.
KillList ==
  /\ kill = "listing"
  /\ kill' = "cancelling"
  /\ \E ok \in BOOLEAN :
       listed' = (IF ok THEN LiveOrders ELSE {}) \cup {LinkId(c, 1) : c \in active}
  /\ UNCHANGED <<killed, handled, failed, cleared, engineVars, vars>>

\* What the exchange did, and whether the adapter's cancel_order says True: it
\* answers False on every error, a lost acknowledgement among them.
CancelEffect(l, ok) ==
  \/ book[l] \in Live /\ ok /\ book' = [book EXCEPT ![l] = "CANCELLED"]
  \/ book[l] \in Live /\ ~ok /\ book' = [book EXCEPT ![l] = "CANCELLED"]
  \/ ~ok /\ UNCHANGED book

\* The orders counted as failed after a cancel of l answered ok.
\* Mutant: a refused cancel is not counted.
CountOnlyErrors(l, ok) == failed
CountFailed(l, ok) == IF ok THEN failed ELSE failed \cup {l}

KillCancel(l) ==
  /\ kill = "cancelling" /\ l \in listed \ handled
  /\ \E ok \in BOOLEAN :
       /\ CancelEffect(l, ok)
       /\ failed' = CountFailed(l, ok)
  /\ handled' = handled \cup {l}
  /\ UNCHANGED <<killed, kill, listed, cleared, engineVars, gatewayVars, inflight>>

\* The loop over the orders is over, whether or not each was cancelled.
\* Mutant: it goes on until none failed.
KillAllCancelled == handled = listed /\ failed = {}
KillDone == handled = listed

\* The operator reads how many failed.
KillReport ==
  /\ kill = "cancelling" /\ KillDone
  /\ kill' = "reported"
  /\ UNCHANGED <<killed, listed, handled, failed, cleared, engineVars, vars>>

-----------------------------------------------------------------------------
Kill == KillTrigger \/ KillList \/ KillReport \/ \E l \in Links : KillCancel(l)

Execute(c) == \/ RiskEvaluate(c)
              \/ PrepareRejects(c)
              \/ EngineSubmit(c)
              \/ CollectResult(c)

Await(c) == GatewayStep(c) /\ UNCHANGED <<engineVars, killVars>>

EngineNext ==
  \/ \E c \in Calls : Execute(c) \/ Await(c)
  \/ Kill
  \/ /\ \E l \in Links : DelayedArrival(l) \/ OrderMoves(l)
     /\ UNCHANGED <<engineVars, killVars>>

\* Coroutines that can run do run, and awaited calls end.
EngineFairness ==
  /\ \A c \in Calls : WF_allVars(Execute(c)) /\ WF_allVars(Await(c))
  /\ WF_allVars(KillList \/ KillReport \/ \E l \in Links : KillCancel(l))

EngineSpec == EngineInit /\ [][EngineNext]_allVars /\ EngineFairness

-----------------------------------------------------------------------------
(* Properties *)

\* No phantom trade: a FILLED result, and every row execute() writes to the
\* trades table, stands for an order that really is filled on the exchange.
NoPhantomTrade ==
  \A c \in Calls : c \in journal \/ reported[c] = "FILLED"
                     => book[LinkId(c, 1)] = "FILLED"

\* What a thrown kill switch still stops.  execute() uses a verdict read before
\* several awaits and looks at the breaker only once, so it may submit while the switch
\* cancels (against its comment, "nothing new is submitted"), and an abandoned POST can
\* arrive much later; yet from the moment the switch is thrown on, also after its
\* report, every order that reaches the exchange or is sent to it belongs to a call
\* that had its verdict by then.
OnlyClearedTrade == killed => \A l \in Posted : l[1] \in cleared

\* The kill switch's own accounting: every order it has gone through is off
\* the exchange for good or counted as failed, whatever was lost or delayed.
KillAccounting == \A l \in handled : book[l] \in Live => l \in failed

\* Every execute() past its risk check returns a result to the trading cycle,
\* through both retry loops and the confirmation wait.
ExecuteReturns == \A c \in Calls : stage[c] = "checked" ~> stage[c] = "returned"

\* A thrown kill switch reports to the operator, also when cancels fail.
KillReports == killed ~> kill = "reported"

\* engine.py: "an entry must never go out naked".  An entry order on the
\* exchange was posted with its TP/SL attached.
EntryNeverNaked ==
  BracketsOn => \A c \in Calls :
    book[LinkId(c, 1)] # "none" /\ request[c].entry => request[c].brackets

\* Whoever calls the engine gets an answer: the trading cycle and the operator.
EngineAnswers == ExecuteReturns /\ KillReports
=============================================================================
