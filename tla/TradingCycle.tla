---------------------------- MODULE TradingCycle ----------------------------
(***************************************************************************)
(* The trading loop of one worker (orchestrator/): the main cycle in its   *)
(* trend, scalp and legacy modes, the TradingView webhook handlers, and    *)
(* the manual /execute command, which share one account and, except for    *)
(* /execute, the trade lock.                                               *)
(*                                                                         *)
(* A step runs from one await to the next.  The judge, the candles and the *)
(* indicators are the choice of a decision; an order trades one unit.      *)
(* A cycle that cannot read the account or has no judge sleeps again and   *)
(* changes nothing; such a step is not written out.                        *)
(*                                                                         *)
(* _close_all_positions never gets past its cancellations when a position  *)
(* is open: it builds the EXIT tasks with the name StrategyContext, which  *)
(* _positions_mixin imports for type checkers only, so the call raises     *)
(* NameError.  The lines after it are unreachable and not modelled.        *)
(***************************************************************************)
EXTENDS Integers, Sequences, FiniteSets

CONSTANTS
  Pairs,        \* ai.pairs: a sequence of symbols
  Directions,   \* entries the judge and the operator may ask for: 1, -1
  Cycle, Manual, Handlers,   \* tasks: the main cycle, /execute, webhook requests
  Configs,      \* configurations: mode, serial_trade_mode, close each cycle
  MaxPositions, \* risk.max_positions
  Alerts,       \* TradingView alerts: symbol, type, stamped
  Window,       \* seconds an alert is remembered (300)
  Fresh,        \* seconds after which a stamped alert is stale (60)
  Faults,       \* what may go wrong: "read", "unconfirmed", "adjust", "manual", "restart"
  MaxUnits, MaxLive, MaxClock, MaxFaults     \* bounds

Symbols == {Pairs[i] : i \in DOMAIN Pairs}
Tasks == {Cycle, Manual} \cup Handlers
Modes == {"trend", "scalp", "legacy"}

ASSUME PairsAssumption == Pairs \in Seq(Symbols) /\ Pairs # <<>>
ASSUME TasksAssumption == Cycle # Manual /\ Cycle \notin Handlers /\ Manual \notin Handlers
ASSUME ConfigsAssumption == Configs \subseteq [mode : Modes, serial : BOOLEAN, roll : BOOLEAN]
ASSUME DirectionsAssumption == Directions \subseteq {-1, 1}
ASSUME AlertsAssumption ==
  Alerts \subseteq [sym : Symbols, type : {"entry", "exit"}, stamped : BOOLEAN]
ASSUME TimesAssumption ==
  /\ Window \in Nat /\ Fresh \in Nat /\ Fresh < Window
  /\ MaxPositions \in Nat \ {0}
  /\ MaxUnits \in Nat /\ MaxLive \in Nat /\ MaxClock \in Nat /\ MaxFaults \in Nat

VARIABLES
  config,     \* the worker's configuration, fixed
  pos,        \* exchange: units held per symbol, negative when short
  live,       \* exchange: orders whose sender gave up and that may still fill
  queue,      \* _trade_lock: its holder, then the waiting tasks in order
  at,         \* the await each task is suspended in
  job,        \* the decision each task acts on
  loc,        \* locals of the cycle's iteration
  index,      \* _rotation_index
  recent,     \* _last_trend_roll_ts: symbols whose next roll is not due
  scalpHeld,  \* _scalp_held
  seen,       \* _tv_seen: when an alert was first seen, -1 when unknown
  now,        \* clock; every alert was raised at 0
  faults,     \* faults still to come
  \* history, not read by any action:
  clean,      \* what is held or may fill came from confirmed, checked entries only
  acted       \* per alert, how often it was acted on in this life of the worker

market == <<pos, live, clean>>
tv     == <<seen, now, acted>>
memory == <<index, recent, scalpHeld>>
vars == <<config, market, queue, at, job, loc, memory, tv, faults>>

-----------------------------------------------------------------------------
(* The exchange *)

Sign(n) == IF n > 0 THEN 1 ELSE IF n < 0 THEN -1 ELSE 0
Abs(n) == IF n < 0 THEN -n ELSE n
Positions == [s \in Symbols |-> Sign(pos[s])]
NoPositions == [s \in Symbols |-> 0]
OpenIn(view) == {s \in Symbols : view[s] # 0}
Flat == pos = NoPositions

Orders == [sym : Symbols, dir : {-1, 1}]
NoJob == [kind |-> "none", sym |-> Pairs[1], dir |-> 1]
OrderOf(j) == [sym |-> j.sym, dir |-> j.dir]

Fill(o) ==
  /\ Abs(pos[o.sym] + o.dir) <= MaxUnits
  /\ pos' = [pos EXCEPT ![o.sym] = @ + o.dir]

\* The history starts over when nothing is held and nothing can fill.
Track(fine) == clean' = (fine \/ (pos' = NoPositions /\ live' = {}))

-----------------------------------------------------------------------------
(* Control *)

\* StrategyContext.positions, the managed symbol, pairs scanned, decisions left
\* to execute, live_symbols of the scalp loop.
NoLocals == [view |-> NoPositions, held |-> Pairs[1], scanned |-> 0,
             todo |-> <<>>, slots |-> {}]

Init ==
  /\ config \in Configs
  /\ pos = NoPositions /\ live = {} /\ clean = TRUE
  /\ queue = <<>>
  /\ at = [p \in Tasks |-> "idle"]
  /\ job = [p \in Tasks |-> NoJob]
  /\ loc = NoLocals
  /\ index = 1 /\ recent = {} /\ scalpHeld = {}
  /\ seen = [a \in Alerts |-> -1] /\ now = 0
  /\ acted = [a \in Alerts |-> 0]
  /\ faults = MaxFaults

\* One of the faults happens; failed queries that nobody acts on are free.
Fault(kind) == kind \in Faults /\ faults > 0 /\ faults' = faults - 1

Goto(p, point) == at' = [at EXCEPT ![p] = point]
NextIndex(i) == IF i = Len(Pairs) THEN 1 ELSE i + 1
IndexOf(s) == CHOOSE i \in DOMAIN Pairs : Pairs[i] = s

CycleEnds == Goto(Cycle, "idle") /\ loc' = NoLocals

\* Call _execute_ai_action: wait for the lock, first come first served.
Act(p, j) ==
  /\ Goto(p, "act")
  /\ job' = [job EXCEPT ![p] = j]
  /\ queue' = Append(queue, p)

Holds(p) == queue # <<>> /\ Head(queue) = p

\* Leave "async with lock", however the body ends; a task that is not inside it
\* (/execute, or a close of the cycle itself) leaves the lock alone.
\* Mutant: an exception leaves the lock taken.
KeepOnRaise(p) == IF Holds(p) /\ at[p] # "cancelling" THEN Tail(queue) ELSE queue
Released(p) == IF Holds(p) THEN Tail(queue) ELSE queue

Leave(p) ==
  /\ queue' = Released(p)
  /\ job' = [job EXCEPT ![p] = NoJob]

\* The rest of a scan after the pair at the index: the next one, or the end.
ScanOn ==
  /\ index' = NextIndex(index)
  /\ IF loc.scanned + 1 < Len(Pairs)
       THEN Goto(Cycle, "scan") /\ loc' = [loc EXCEPT !.scanned = @ + 1]
       ELSE CycleEnds

\* _execute_ai_action answers ok to the cycle: the rotation moves on after a
\* success, scans on after a failure; the scalp loop takes its next decision.
CycleResumes(j, ok) ==
  CASE config.mode = "trend" /\ j.kind = "ENTER" ->
         /\ IF ok THEN index' = NextIndex(index) /\ CycleEnds ELSE ScanOn
         /\ UNCHANGED scalpHeld
    [] config.mode = "scalp" ->
         LET update(held) == IF ~ok THEN held
                             ELSE IF j.kind = "ENTER" THEN held \cup {j.sym}
                             ELSE held \ {j.sym}
         IN /\ scalpHeld' = update(scalpHeld)
            /\ loc' = [loc EXCEPT !.todo = Tail(@), !.slots = update(@)]
            /\ Goto(Cycle, "scalp")
            /\ UNCHANGED index
    [] OTHER -> CycleEnds /\ UNCHANGED <<index, scalpHeld>>

\* _execute_ai_action (for /execute: engine.execute) returns to its caller.
Return(p, ok) ==
  /\ Leave(p)
  /\ IF p = Cycle THEN CycleResumes(job[p], ok)
                  ELSE Goto(p, "idle") /\ UNCHANGED <<loc, index, scalpHeld>>

\* An exception reaches the handler of the cycle (ai_cycle_failed) or of the
\* webhook (tv_webhook_execution_error).
Raise(p) ==
  /\ Leave(p)
  /\ Goto(p, "idle")
  /\ loc' = IF p = Cycle THEN NoLocals ELSE loc

-----------------------------------------------------------------------------
(* _close_all_positions *)

\* It answers TRUE when it finds nothing open and FALSE when the query fails.
\* Mutant: a failed query passes for a flat account.
FlatOrUnknown == {ok \in {TRUE} : Flat \/ "read" \in Faults}
CloseAnswers == {ok \in BOOLEAN : IF ok THEN Flat ELSE "read" \in Faults}

\* Otherwise it goes on to cancel every open order.
CloseCancels(p) == ~Flat /\ Goto(p, "cancelling")

\* Each cancellation may fail; then the EXIT tasks are built and NameError is
\* raised.
CancelThenRaise(p) ==
  /\ at[p] = "cancelling"
  /\ live' \in SUBSET live
  /\ UNCHANGED pos /\ Track(clean)
  /\ Raise(p)
  /\ UNCHANGED <<config, memory, tv, faults>>

-----------------------------------------------------------------------------
(* _execute_ai_action_locked, and engine.execute for /execute *)

\* An ENTER needs a flat account.  In serial mode everything is closed first;
\* otherwise an open position refuses it, but a failed query passes for flat.
Proceed(p) == Goto(p, "checked") /\ UNCHANGED <<queue, job, loc, index, scalpHeld>>
FlatCheck(p) ==
  IF config.serial
    THEN /\ \/ \E ok \in CloseAnswers : IF ok THEN Proceed(p) ELSE Return(p, FALSE)
            \/ CloseCancels(p) /\ UNCHANGED <<queue, job, loc, index, scalpHeld>>
         /\ UNCHANGED <<clean, faults>>
    ELSE \/ (IF Flat THEN Proceed(p) ELSE Return(p, FALSE)) /\ UNCHANGED <<clean, faults>>
         \/ ~Flat /\ Fault("read") /\ Proceed(p) /\ clean' = FALSE

BeginAction(p) ==
  /\ at[p] = "act" /\ Holds(p)
  /\ IF job[p].kind = "ENTER"
       THEN FlatCheck(p)
       ELSE Proceed(p) /\ UNCHANGED <<clean, faults>>
  /\ UNCHANGED <<config, pos, live, recent, tv>>

\* The brackets, the risk check, the sizing or the exchange refuse the order.
Refused(p) ==
  /\ at[p] = "checked"
  /\ Return(p, FALSE)
  /\ UNCHANGED <<config, market, recent, tv, faults>>

\* The webhook's context has no account: the portfolio gate refuses its entries
\* and its exits are sized to zero, which the engine refuses.
Funded(p) == p \notin Handlers

\* The order fills and the engine says so.
Filled(p) ==
  /\ at[p] = "checked" /\ Funded(p)
  /\ Fill(OrderOf(job[p])) /\ UNCHANGED live
  /\ Track(clean /\ p = Cycle /\ job[p].kind = "ENTER")
  /\ Return(p, TRUE)
  /\ UNCHANGED <<config, recent, tv, faults>>

\* The engine answers REJECTED, after a lost answer or a confirmation timeout,
\* and the order may still fill.
Unconfirmed(p) ==
  /\ at[p] = "checked" /\ Funded(p)
  /\ Fault("unconfirmed") /\ Cardinality(live) < MaxLive
  /\ live' = live \cup {OrderOf(job[p])} /\ UNCHANGED pos
  /\ Track(FALSE)
  /\ Return(p, FALSE)
  /\ UNCHANGED <<config, recent, tv>>

-----------------------------------------------------------------------------
(* The main cycle.  Each step before _execute_ai_action leaves the exchange,   *)
(* the alerts and the configuration alone.                                     *)

Frame == UNCHANGED <<config, market, tv>>
NoCall == UNCHANGED <<queue, job, faults>>

\* Read the account and the open positions.
CycleReads ==
  /\ at[Cycle] = "idle"
  /\ Goto(Cycle, "decide")
  /\ loc' = [NoLocals EXCEPT !.view = Positions]
  /\ UNCHANGED memory /\ Frame /\ NoCall

\* _run_ai_rotation, case A: a position is open.  With close each cycle it is
\* rolled when due and managed until then; without, a position held too long or
\* beyond its brackets is closed and any other managed.
TrendHolds(s) ==
  /\ at[Cycle] = "decide" /\ config.mode = "trend" /\ s \in OpenIn(loc.view)
  /\ loc' = [NoLocals EXCEPT !.held = s]
  /\ IF config.roll
       THEN IF s \in recent THEN Goto(Cycle, "manage") /\ UNCHANGED recent
                            ELSE Goto(Cycle, "c_roll") /\ recent' = recent \cup {s}
       ELSE \E point \in {"c_hold", "c_bracket", "manage"} : Goto(Cycle, point) /\ UNCHANGED recent
  /\ UNCHANGED <<index, scalpHeld>> /\ Frame /\ NoCall

\* Roll: after the close the scan starts at the pair after the closed one.
RollCloses ==
  /\ at[Cycle] = "c_roll"
  /\ \/ \E ok \in CloseAnswers :
          IF ok THEN /\ index' = NextIndex(IndexOf(loc.held))
                     /\ Goto(Cycle, "scan") /\ loc' = NoLocals
                ELSE CycleEnds /\ UNCHANGED index
     \/ CloseCancels(Cycle) /\ UNCHANGED <<index, loc>>
  /\ UNCHANGED <<recent, scalpHeld>> /\ Frame /\ NoCall

\* The guards of a held position; when the close fails the next guard and then
\* the scan follow.
HoldGuardCloses ==
  /\ at[Cycle] \in {"c_hold", "c_bracket"}
  /\ \/ \E ok \in CloseAnswers :
          IF ok THEN CycleEnds
                ELSE /\ UNCHANGED loc
                     /\ \/ Goto(Cycle, "manage")
                        \/ at[Cycle] = "c_hold" /\ Goto(Cycle, "c_bracket")
     \/ CloseCancels(Cycle) /\ UNCHANGED loc
  /\ UNCHANGED memory /\ Frame /\ NoCall

\* Scan the held pair.  An EXIT needs a position in the scan's own context and
\* closes everything (only with close each cycle); adjust_stop and
\* reduce_position are executed with the side the judge gave; all else waits.
Manage ==
  /\ at[Cycle] = "manage"
  /\ \/ CycleEnds /\ NoCall
     \/ config.roll /\ pos[loc.held] # 0 /\ Goto(Cycle, "c_exit") /\ UNCHANGED loc /\ NoCall
     \/ /\ Fault("adjust")
        /\ \E d \in {-1, 1} : Act(Cycle, [kind |-> "ADJUST", sym |-> loc.held, dir |-> d])
        /\ UNCHANGED loc
  /\ UNCHANGED memory /\ Frame

\* The judge's EXIT: whatever the close answers, the cycle is over.
ExitCloses ==
  /\ at[Cycle] = "c_exit"
  /\ \/ CloseAnswers # {} /\ CycleEnds
     \/ CloseCancels(Cycle) /\ UNCHANGED loc
  /\ UNCHANGED memory /\ Frame /\ NoCall

\* Case B: flat, scan the pairs from the index on.
TrendFlat ==
  /\ at[Cycle] = "decide" /\ config.mode = "trend" /\ OpenIn(loc.view) = {}
  /\ Goto(Cycle, "scan") /\ loc' = NoLocals
  /\ UNCHANGED memory /\ Frame /\ NoCall

\* One pair: enter it, pass over it, or stop at a rate limit.
Scan ==
  /\ at[Cycle] = "scan"
  /\ \/ /\ \E d \in Directions : Act(Cycle, [kind |-> "ENTER", sym |-> Pairs[index], dir |-> d])
        /\ UNCHANGED <<loc, index, faults>>
     \/ ScanOn /\ NoCall
     \/ CycleEnds /\ UNCHANGED index /\ NoCall
  /\ UNCHANGED <<recent, scalpHeld>> /\ Frame

\* _run_scalp_rotation: live_symbols come from the positions of the cycle.
ScalpStarts ==
  /\ at[Cycle] = "decide" /\ config.mode = "scalp"
  /\ Goto(Cycle, "timestop")
  /\ loc' = [loc EXCEPT !.slots = OpenIn(loc.view)]
  /\ UNCHANGED memory /\ Frame /\ NoCall

\* A scalp held too long is closed if every position is a scalp; the answer of
\* the close is ignored.
TimeStop(s) ==
  /\ at[Cycle] = "timestop" /\ s \in scalpHeld \cap loc.slots /\ loc.slots \subseteq scalpHeld
  /\ \/ /\ CloseAnswers # {}
        /\ scalpHeld' = scalpHeld \ {s} /\ loc' = [loc EXCEPT !.slots = @ \ {s}]
        /\ UNCHANGED at
     \/ CloseCancels(Cycle) /\ UNCHANGED <<scalpHeld, loc>>
  /\ UNCHANGED <<index, recent>> /\ Frame /\ NoCall

\* The batch judgement: at most one decision per pair, an EXIT only for a
\* position the judge's context shows.
Decisions ==
  [kind : {"ENTER"}, sym : Symbols, dir : Directions]
    \cup {[kind |-> "EXIT", sym |-> s, dir |-> 1] : s \in OpenIn(Positions)}
Batches ==
  {<<>>} \cup {<<d>> : d \in Decisions}
    \cup {<<d, e>> : d \in Decisions, e \in Decisions}

\* The side of an EXIT closes what the cycle's own context shows; without a
\* position there it cannot be derived and the decision is skipped, as if the
\* judge had not made it.
Derivable(d) == d.kind = "EXIT" => loc.view[d.sym] # 0
Derived(d) == IF d.kind = "EXIT" THEN [d EXCEPT !.dir = -loc.view[d.sym]] ELSE d

ScalpJudged ==
  /\ at[Cycle] = "timestop"
  /\ \E batch \in Batches :
       /\ \A i, j \in DOMAIN batch : batch[i].sym = batch[j].sym => i = j
       /\ \A i \in DOMAIN batch : Derivable(batch[i])
       /\ loc' = [NoLocals EXCEPT !.todo = [i \in DOMAIN batch |-> Derived(batch[i])],
                                  !.slots = loc.slots]
  /\ Goto(Cycle, "scalp")
  /\ UNCHANGED memory /\ Frame /\ NoCall

\* The decisions in order: an ENTER needs a free slot.
ScalpNext ==
  /\ at[Cycle] = "scalp"
  /\ IF loc.todo = <<>>
       THEN CycleEnds /\ NoCall
       ELSE LET d == Head(loc.todo)
            IN IF d.kind = "ENTER" => Cardinality(loc.slots) < MaxPositions
                 THEN Act(Cycle, d) /\ UNCHANGED <<loc, faults>>
                 ELSE loc' = [loc EXCEPT !.todo = Tail(@)] /\ UNCHANGED at /\ NoCall
  /\ UNCHANGED memory /\ Frame

\* The legacy path: close all in serial mode, whatever comes of it, then one
\* decision on any symbol.
LegacyStarts ==
  /\ at[Cycle] = "decide" /\ config.mode = "legacy"
  /\ \/ (config.serial => CloseAnswers # {}) /\ Goto(Cycle, "legacy")
     \/ config.serial /\ CloseCancels(Cycle)
  /\ UNCHANGED <<loc, memory>> /\ Frame /\ NoCall

LegacyDecides ==
  /\ at[Cycle] = "legacy"
  /\ \/ CycleEnds /\ NoCall
     \/ /\ \E d \in [kind : {"ENTER"}, sym : Symbols, dir : Directions]
                    \cup [kind : {"EXIT"}, sym : Symbols, dir : {1}] :
             Derivable(d) /\ Act(Cycle, Derived(d))
        /\ UNCHANGED <<loc, faults>>
  /\ UNCHANGED memory /\ Frame

-----------------------------------------------------------------------------
(* TradingView alerts *)

\* _tv_seen without the entries outside the window.
\* Mutant: the window is the time an alert stays fresh.
RememberedWhileFresh == [a \in Alerts |-> IF seen[a] >= 0 /\ now - seen[a] < Fresh THEN seen[a] ELSE -1]
Remembered == [a \in Alerts |-> IF seen[a] >= 0 /\ now - seen[a] < Window THEN seen[a] ELSE -1]

\* An alert arrives, for the first time or again.  A known one is refused; a new
\* one is registered, and then refused if it is stale.
AlertArrives(h, a) ==
  /\ at[h] = "idle"
  /\ IF Remembered[a] >= 0
       THEN seen' = Remembered /\ UNCHANGED <<at, job, acted>>
       ELSE /\ seen' = [Remembered EXCEPT ![a] = now]
            /\ IF a.stamped /\ now > Fresh
                 THEN UNCHANGED <<at, job, acted>>
                 ELSE /\ Goto(h, "tvread")
                      /\ job' = [job EXCEPT ![h] = [kind |-> IF a.type = "exit" THEN "EXIT" ELSE "ENTER",
                                                    sym |-> a.sym, dir |-> 1]]
                      /\ acted' = [acted EXCEPT ![a] = @ + 1]
  /\ UNCHANGED <<config, market, queue, loc, memory, now, faults>>

\* The handler reads the positions (none when the query fails) and acts, unless
\* an EXIT finds no position.
AlertReads(h) ==
  /\ at[h] = "tvread"
  /\ \E view \in {Positions} \cup (IF "read" \in Faults THEN {NoPositions} ELSE {}) :
       IF job[h].kind = "EXIT" /\ view[job[h].sym] = 0
         THEN Goto(h, "idle") /\ job' = [job EXCEPT ![h] = NoJob] /\ UNCHANGED queue
         ELSE Act(h, IF job[h].kind = "EXIT" THEN [job[h] EXCEPT !.dir = -view[job[h].sym]] ELSE job[h])
  /\ UNCHANGED <<loc, memory, faults>> /\ Frame

-----------------------------------------------------------------------------
(* The rest of the world *)

\* /execute: the orders of a strategy go to the engine, without the lock and
\* without a look at the positions.
ManualTrade ==
  /\ Fault("manual") /\ at[Manual] = "idle"
  /\ \E s \in Symbols, d \in Directions :
       job' = [job EXCEPT ![Manual] = [kind |-> "ENTER", sym |-> s, dir |-> d]]
  /\ Goto(Manual, "checked")
  /\ UNCHANGED <<queue, loc, memory>> /\ Frame

\* A bracket fires, or the position is closed by hand.
PositionCloses(s) ==
  /\ pos[s] # 0
  /\ pos' = [pos EXCEPT ![s] = 0] /\ UNCHANGED live
  /\ Track(clean)
  /\ UNCHANGED <<config, queue, at, job, loc, memory, tv, faults>>

\* An order whose sender gave up fills, or dies.
LateFill(o) ==
  /\ o \in live /\ live' = live \ {o}
  /\ Fill(o) \/ UNCHANGED pos
  /\ Track(FALSE)
  /\ UNCHANGED <<config, queue, at, job, loc, memory, tv, faults>>

\* Time passes: for the alerts, and for the next roll.
Tick ==
  /\ now < MaxClock /\ now' = now + 1
  /\ UNCHANGED <<config, market, queue, at, job, loc, memory, seen, acted, faults>>
RollDue(s) ==
  /\ s \in recent /\ recent' = recent \ {s}
  /\ UNCHANGED <<config, market, queue, at, job, loc, index, scalpHeld, tv, faults>>

\* The worker dies and starts again.  Orders on their way may arrive; the
\* positions left over are met by _close_orphan_positions_on_start, whose close
\* cancels orders and raises, which is logged.
Restart ==
  /\ Fault("restart")
  /\ LET sent == {OrderOf(job[p]) : p \in {q \in Tasks : at[q] = "checked" /\ Funded(q)}}
     IN \E lost \in SUBSET (live \cup sent) : Cardinality(lost) <= MaxLive /\ live' = lost
  /\ UNCHANGED pos /\ Track(live' = {} /\ clean)
  /\ queue' = <<>> /\ at' = [p \in Tasks |-> "idle"] /\ job' = [p \in Tasks |-> NoJob]
  /\ loc' = NoLocals /\ index' = 1 /\ recent' = {} /\ scalpHeld' = {}
  /\ seen' = [a \in Alerts |-> -1] /\ acted' = [a \in Alerts |-> 0]
  /\ UNCHANGED <<config, now>>

-----------------------------------------------------------------------------
TaskStep(p) == BeginAction(p) \/ Refused(p) \/ Filled(p) \/ Unconfirmed(p) \/ CancelThenRaise(p)

CycleStep ==
  \/ TaskStep(Cycle)
  \/ CycleReads \/ (\E s \in Symbols : TrendHolds(s) \/ TimeStop(s))
  \/ RollCloses \/ HoldGuardCloses \/ Manage \/ ExitCloses \/ TrendFlat \/ Scan
  \/ ScalpStarts \/ ScalpJudged \/ ScalpNext
  \/ LegacyStarts \/ LegacyDecides

HandlerStep(h) == TaskStep(h) \/ AlertReads(h)

Next ==
  \/ CycleStep
  \/ \E h \in Handlers : HandlerStep(h) \/ (\E a \in Alerts : AlertArrives(h, a))
  \/ TaskStep(Manual) \/ ManualTrade
  \/ (\E s \in Symbols : PositionCloses(s) \/ RollDue(s))
  \/ (\E o \in Orders : LateFill(o))
  \/ Tick \/ Restart

\* The event loop runs every coroutine whose await has ended, every await ends,
\* the lock is first come first served, and the clock runs.
Fairness ==
  /\ WF_vars(CycleStep)
  /\ \A h \in Handlers : WF_vars(HandlerStep(h))
  /\ WF_vars(TaskStep(Manual))
  /\ \A s \in Symbols : WF_vars(RollDue(s))

Spec == Init /\ [][Next]_vars /\ Fairness

-----------------------------------------------------------------------------
(* Properties *)

CyclePoints == {"idle", "decide", "c_roll", "c_hold", "c_bracket", "c_exit", "manage", "scan",
                "timestop", "scalp", "legacy", "act", "checked", "cancelling"}
HandlerPoints == {"idle", "tvread", "act", "checked", "cancelling"}
Jobs == [kind : {"none", "ENTER", "EXIT", "ADJUST"}, sym : Symbols, dir : {-1, 1}]
Views == [Symbols -> {-1, 0, 1}]
Locals == [view : Views, held : Symbols, scanned : 0 .. Len(Pairs) - 1,
           todo : Seq(Jobs), slots : SUBSET Symbols]

TypeOK ==
  /\ config \in Configs
  /\ pos \in [Symbols -> -MaxUnits .. MaxUnits] /\ live \in SUBSET Orders
  /\ queue \in Seq(Tasks \ {Manual})
  /\ at[Cycle] \in CyclePoints /\ at[Manual] \in {"idle", "checked"}
  /\ \A h \in Handlers : at[h] \in HandlerPoints
  /\ job \in [Tasks -> Jobs] /\ loc \in Locals
  /\ index \in DOMAIN Pairs /\ recent \in SUBSET Symbols /\ scalpHeld \in SUBSET Symbols
  /\ seen \in [Alerts -> -1 .. MaxClock] /\ now \in 0 .. MaxClock
  /\ acted \in [Alerts -> Nat]
  /\ faults \in 0 .. MaxFaults /\ clean \in BOOLEAN

\* The "one trade in, one trade out" rule of _execute_ai_action_locked: as long as
\* no order went unconfirmed, no adjustment and no /execute traded and no failed
\* query passed for a flat account, at most one unit is held in all.
OneTrade ==
  clean => \A s, t \in Symbols : pos[s] # 0 /\ pos[t] # 0 => s = t /\ Abs(pos[s]) = 1

\* Everything between the flat check and the end of the order happens under the
\* trade lock, so no other locked action falls in between; exceptions outside the
\* lock do not free it.
TradesUnderLock ==
  \A p \in Tasks \ {Manual} : at[p] = "checked" => Holds(p)

\* A time-stamped alert is acted on at most once in a life of the worker, however
\* often and however late TradingView delivers it.
AlertOnce == \A a \in Alerts : a.stamped => acted[a] <= 1

\* The cycle comes round and every alert is answered, although closes raise in
\* the middle of a locked action and others queue for the lock.
CycleComesRound == []<>(at[Cycle] = "idle")
AlertsAnswered == \A h \in Handlers : at[h] # "idle" ~> at[h] = "idle"

\* worker.py, of the rolling configuration: "One trade per cycle, rolled hourly:
\* close the previous trade before opening a new one; never hold a stale position
\* past max_hold_seconds."  A position that is open is closed eventually.
Rolled == \A s \in Symbols : pos[s] # 0 ~> pos[s] = 0

\* The rule and the lock that the rule rests on.
OneTradeUnderLock == TypeOK /\ OneTrade /\ TradesUnderLock
=============================================================================
