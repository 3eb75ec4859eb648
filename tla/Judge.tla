-------------------------------- MODULE Judge -------------------------------
(***************************************************************************)
(* When the worker pays for a judgement and what becomes of it: the gate   *)
(* with its daily budgets, the judge call with its escalation, the         *)
(* validation and the journal of decisions (orchestrator/_rotation_mixin,  *)
(* _decisions_mixin).                                                      *)
(*                                                                         *)
(* One cycle at a time.  The trend rotation scans the held pair, or one    *)
(* pair after the other while flat; the scalp rotation gates all pairs and *)
(* makes one call for those that pass.  Prices, sizes and the order itself *)
(* are those of TradingCycle; here an order is filled or it is not.        *)
(***************************************************************************)
EXTENDS DecisionValidator, FiniteSets

CONSTANTS
  Names,          \* the contracts that the model may name
  Pairs,          \* sequence of the pairs of the rotation
  Budget,         \* judge_max_calls_per_day, scalp.max_calls_per_day; 0 is no limit
  Answers,        \* what the model may answer
  Signals,        \* local signals: [direction, setup, strong]
  Backdrops,      \* indicators: [trend, rsi]
  MinConfidence,  \* min_confidence_to_trade
  MaxEvents, MaxJournal   \* bounds: new days, new candles and restarts; journal rows

Symbols == {Pairs[i] : i \in DOMAIN Pairs}
NoSide == "none"

ASSUME JudgeAssumption ==
  /\ Pairs \in Seq(Names) /\ Pairs # <<>> /\ Signals # {}
  /\ Budget \in Nat /\ MinConfidence \in 0 .. 100
  /\ Answers \subseteq [shape : {"object", "text"}, action : Words, direction : Words, side : Words,
                        confidence : Int, contract : Names]
  /\ Signals \subseteq [direction : {"LONG", "SHORT", "NEUTRAL"}, setup : BOOLEAN, strong : BOOLEAN]
  /\ MaxEvents \in Nat /\ MaxJournal \in Nat

VARIABLES
  mode,            \* ai.mode: "trend" or "scalp"
  today, candle,   \* the UTC day; the timestamp of the latest closed candle
  counter,         \* _judge_day and _judge_used, or _scalp_day and _scalp_used
  lastTs,          \* _last_judge_candle_ts
  held,            \* the exchange's positions
  journal,         \* ENTER rows of the decisions table
  scan,            \* where the cycle is; scan.todo: the places of the pairs still to come;
                   \* scan.later: entries of a batch behind the decision at hand;
                   \* scan.shown: the indicators that an entry was validated on
  restarts,
  \* history, not read by any action:
  paid,            \* judge calls made today by this process
  unbilled,        \* of these, the second calls that were not charged
  twice,           \* a flat pair was judged twice on one candle
  judgedFlat,      \* <<pair, candle>> judged while flat by this process
  opener           \* opener[s]: the journal row whose order opened the position

judgeVars == <<mode, today, candle, counter, lastTs, held, journal, scan, restarts, paid, unbilled, twice, judgedFlat, opener>>

\* The cycle between two pairs, and between two cycles.
Between(todo, seen) ==
  [pc |-> "gate", symbol |-> Pairs[1], side |-> NoSide, signal |-> CHOOSE s \in Signals : TRUE,
   cheap |-> {}, todo |-> todo, decision |-> Hold(Pairs[1]), row |-> 0, seen |-> seen,
   shown |-> {}, later |-> {}]
Resting == [Between({}, {}) EXCEPT !.pc = "rest"]

JudgeInit ==
  /\ mode \in {"trend", "scalp"}
  /\ today = 1 /\ candle = 1
  /\ counter = [day |-> 0, used |-> 0] /\ lastTs = [s \in Symbols |-> 0]
  /\ held = [s \in Symbols |-> NoSide] /\ journal = <<>> /\ scan = Resting /\ restarts = 0
  /\ paid = 0 /\ unbilled = 0 /\ twice = FALSE /\ judgedFlat = {} /\ opener = [s \in Symbols |-> 0]

-----------------------------------------------------------------------------
(* The gate *)

\* _day_budget_allows: the counter starts over with the first question of a day.
Counter == IF counter.day = today THEN counter ELSE [day |-> today, used |-> 0]
BudgetAllows == Budget = 0 \/ Counter.used < Budget

\* _judge_gate_check: an open position, or a setup on a candle not judged yet.
Worthy(s, side, signal) ==
  side # NoSide \/ (lastTs[s] # candle /\ signal.setup /\ signal.direction # "NEUTRAL")

\* The candle is remembered and the budget charged before the call.
Charge(s) == counter' = [Counter EXCEPT !.used = @ + 1] /\ lastTs' = [lastTs EXCEPT ![s] = candle]

PaysFor(S) ==
  /\ paid' = paid + 1
  /\ twice' = (twice \/ \E s \in S : held[s] = NoSide /\ <<s, candle>> \in judgedFlat)
  /\ judgedFlat' = judgedFlat \cup {<<s, candle>> : s \in {x \in S : held[x] = NoSide}}

-----------------------------------------------------------------------------
(* The cycle *)

\* The positions are read and the journal is reconciled with them: an open row of
\* a symbol without a position becomes flat.
\* Mutant: only executed rows do.
ResolvedIfExecuted(r, open) == IF r.symbol \in open \/ ~ r.executed THEN r ELSE [r EXCEPT !.outcome = "flat"]
Resolved(r, open) == IF r.symbol \in open THEN r ELSE [r EXCEPT !.outcome = "flat"]
OpenSymbols == {s \in Symbols : held[s] # NoSide}
CycleReconciles ==
  /\ scan.pc = "rest"
  /\ scan' = Between({i \in DOMAIN Pairs : OpenSymbols # {} => Pairs[i] \in OpenSymbols}, OpenSymbols)
  /\ journal' = [i \in DOMAIN journal |-> Resolved(journal[i], OpenSymbols)]
  /\ UNCHANGED <<mode, today, candle, counter, lastTs, held, restarts, paid, unbilled, twice, judgedFlat, opener>>

\* _scan_pair up to the judge call, for the pair in turn.
ScanPair(i, signal) ==
  LET s == Pairs[i] IN
  /\ mode = "trend" /\ scan.pc = "gate" /\ i \in scan.todo /\ \A j \in scan.todo : i <= j
  /\ IF Worthy(s, held[s], signal) /\ BudgetAllows
       THEN /\ Charge(s) /\ PaysFor({s})
            /\ scan' = [scan EXCEPT !.pc = "asked", !.symbol = s, !.side = held[s], !.signal = signal,
                                    !.todo = @ \ {i}]
       ELSE /\ scan' = Between(scan.todo \ {i}, scan.seen)   \* a HOLD on the local signal
            /\ counter' = IF Worthy(s, held[s], signal) THEN Counter ELSE counter
            /\ UNCHANGED <<lastTs, paid, twice, judgedFlat>>
  /\ UNCHANGED <<mode, today, candle, held, journal, restarts, unbilled, opener>>

CycleEnds ==
  /\ scan.pc = "gate" /\ scan.todo = {}
  /\ scan' = Resting
  /\ UNCHANGED <<mode, today, candle, counter, lastTs, held, journal, restarts, paid, unbilled, twice, judgedFlat, opener>>

\* A judge that opposes a strong local signal is asked again, on the smart model.
Opposes(d) ==
  /\ scan.signal.strong /\ scan.signal.direction # "NEUTRAL"
  /\ {d.direction, scan.signal.direction} = {"LONG", "SHORT"}

\* Validation, the journal and the pin.  The row is written with the contract that
\* the model named, before the contract is pinned to the scanned pair.
Judged(d, backdrop) ==
  LET v == NormalizeDecision(d, scan.side, backdrop, "veto", MinConfidence)
  IN IF v.ok THEN v ELSE Hold(scan.symbol)
Decide(d, backdrop, logged) ==
  LET v == Judged(d, backdrop)
      write == v.action = "ENTER" /\ logged
  IN /\ write => Len(journal) < MaxJournal
     /\ journal' = IF write THEN Append(journal, [symbol |-> v.contract, outcome |-> "open", executed |-> FALSE])
                            ELSE journal
     /\ scan' = [scan EXCEPT !.pc = "decided", !.cheap = {}, !.decision = [v EXCEPT !.contract = scan.symbol],
                             !.shown = IF v.action = "ENTER" THEN {backdrop} ELSE {}, !.row = IF write THEN Len(journal) + 1 ELSE 0]

JudgeAnswers(raw, backdrop, logged) ==
  LET d == ParseTradingDecision(raw) IN
  /\ scan.pc = "asked" /\ mode = "trend"
  /\ IF Opposes(d)
       THEN /\ scan' = [scan EXCEPT !.pc = "escalated", !.cheap = {d}]
            /\ paid' = paid + 1 /\ UNCHANGED journal
       ELSE Decide(d, backdrop, logged) /\ UNCHANGED paid
  /\ UNCHANGED <<mode, today, candle, counter, lastTs, held, restarts, unbilled, twice, judgedFlat, opener>>

\* The verdict of the smart model stands if it is at least as sure: a missing confidence
\* counts as 0, one unreadable text makes both 0, and no comparison with NaN holds.
Sureness(c) == IF c = Missing THEN 0 ELSE c
SmartWins(smart, cheap) ==
  \/ Unreadable \in {smart.confidence, cheap.confidence}
  \/ /\ NotANumber \notin {smart.confidence, cheap.confidence}
     /\ Sureness(smart.confidence) >= Sureness(cheap.confidence)

\* The second call is charged after it, without a look at the budget or the day.
SmartAnswers(raw, backdrop, logged) ==
  LET smart == ParseTradingDecision(raw)
      cheap == CHOOSE d \in scan.cheap : TRUE
  IN /\ scan.pc = "escalated"
     /\ counter' = [counter EXCEPT !.used = @ + 1]
     /\ Decide(IF SmartWins(smart, cheap) THEN smart ELSE cheap, backdrop, logged)
     /\ unbilled' = IF counter.day = today THEN unbilled ELSE unbilled + 1
     /\ UNCHANGED <<mode, today, candle, lastTs, held, restarts, paid, twice, judgedFlat, opener>>

\* The client raises; the cycle holds this pair and goes on with the next.
JudgeFails ==
  /\ scan.pc \in {"asked", "escalated"}
  /\ scan' = Between(IF mode = "scalp" THEN {} ELSE scan.todo, scan.seen)
  /\ unbilled' = IF scan.pc = "escalated" THEN unbilled + 1 ELSE unbilled
  /\ UNCHANGED <<mode, today, candle, counter, lastTs, held, journal, restarts, paid, twice, judgedFlat, opener>>

\* An entry of a flat account is executed; while a position is open an ENTER or an
\* EXIT of the judge is not (hold until the brackets close).
NotExecuted ==
  /\ scan.pc = "decided"
  /\ scan.decision.action # "ENTER" \/ scan.seen # {}
  /\ scan' = Between(scan.todo, scan.seen)
  /\ UNCHANGED <<mode, today, candle, counter, lastTs, held, journal, restarts, paid, unbilled, twice, judgedFlat, opener>>

\* The entries of a batch are taken in its order.
Take(entries) ==
  LET e == CHOOSE e \in entries : \A f \in entries : e.at <= f.at
  IN [scan EXCEPT !.pc = "decided", !.decision = e.decision, !.shown = e.shown, !.row = 0, !.todo = {},
                  !.later = entries \ {e}]

\* The order is confirmed, and the row is marked; or the order is refused, and the
\* batch goes on with its next entry, the cycle with its next pair.
EntryFills ==
  LET s == scan.decision.contract IN
  /\ scan.pc = "decided" /\ scan.decision.action = "ENTER" /\ scan.seen = {}
  /\ held' = [held EXCEPT ![s] = IF scan.decision.side = "BUY" THEN "LONG" ELSE "SHORT"]
  /\ journal' = IF scan.row = 0 THEN journal ELSE [journal EXCEPT ![scan.row].executed = TRUE]
  /\ opener' = [opener EXCEPT ![s] = scan.row]
  /\ scan' = Between({}, scan.seen)
  /\ UNCHANGED <<mode, today, candle, counter, lastTs, restarts, paid, unbilled, twice, judgedFlat>>
EntryRefused ==
  /\ scan.pc = "decided" /\ scan.decision.action = "ENTER" /\ scan.seen = {}
  /\ scan' = IF scan.later = {} THEN Between(scan.todo, scan.seen) ELSE Take(scan.later)
  /\ UNCHANGED <<mode, today, candle, counter, lastTs, held, journal, restarts, paid, unbilled, twice, judgedFlat, opener>>

-----------------------------------------------------------------------------
(* The scalp rotation *)

\* All pairs pass the gate one after the other, without an await, each charging
\* the budget; one call then judges those that passed.
GateAll(sig) ==
  LET worthy == {i \in DOMAIN Pairs : Worthy(Pairs[i], held[Pairs[i]], sig[Pairs[i]])}
  IN {i \in worthy : Budget = 0 \/ Counter.used + Cardinality({j \in worthy : j < i}) < Budget}

ScalpScan(sig) ==
  LET go   == GateAll(sig)
      pass == {Pairs[i] : i \in go}
  IN /\ mode = "scalp" /\ scan.pc = "gate" /\ scan.todo # {}
     /\ counter' = IF \E s \in Symbols : Worthy(s, held[s], sig[s])
                     THEN [day |-> today, used |-> Counter.used + Cardinality(go)] ELSE counter
     /\ lastTs' = [s \in Symbols |-> IF s \in pass THEN candle ELSE lastTs[s]]
     /\ IF go = {}
          THEN scan' = Resting /\ UNCHANGED <<paid, twice, judgedFlat>>
          ELSE scan' = [scan EXCEPT !.pc = "asked", !.todo = go] /\ PaysFor(pass)
     /\ UNCHANGED <<mode, today, candle, held, journal, restarts, unbilled, opener>>

\* The batch is answered and its decisions are taken one by one, each validated on
\* the indicators of its pair; the first entry that fills takes the only slot.  Scalp
\* decisions are not written to the journal.
BatchAnswers(items, backdrop) ==
  LET batch == DecideBatch(items, [i \in scan.todo |-> Pairs[i]])
      v(i)  == NormalizeDecision(batch[i], held[batch[i].contract], backdrop[Pairs[i]], "veto", MinConfidence)
      go    == {i \in DOMAIN batch : v(i).ok /\ v(i).action = "ENTER"}
  IN /\ mode = "scalp" /\ scan.pc = "asked"
     /\ scan' = IF go = {} \/ scan.seen # {} THEN Resting
                ELSE Take({[at |-> i, decision |-> v(i), shown |-> {backdrop[Pairs[i]]}] : i \in go})
     /\ UNCHANGED <<mode, today, candle, counter, lastTs, held, journal, restarts, paid, unbilled, twice, judgedFlat, opener>>

-----------------------------------------------------------------------------
(* Around the cycle *)

EventsLeft == today + candle + restarts < MaxEvents + 2

NewCandle ==
  /\ EventsLeft /\ candle' = candle + 1
  /\ UNCHANGED <<mode, today, counter, lastTs, held, journal, scan, restarts, paid, unbilled, twice, judgedFlat, opener>>

NewDay ==
  /\ EventsLeft /\ today' = today + 1
  /\ paid' = 0 /\ unbilled' = 0
  /\ UNCHANGED <<mode, candle, counter, lastTs, held, journal, scan, restarts, twice, judgedFlat, opener>>

\* A bracket closes the position.
BracketCloses(s) ==
  /\ held[s] # NoSide /\ held' = [held EXCEPT ![s] = NoSide]
  /\ UNCHANGED <<mode, today, candle, counter, lastTs, journal, scan, restarts, paid, unbilled, twice, judgedFlat, opener>>

\* The worker crashes, at any step, and starts over: budgets and candles are in memory.
WorkerRestarts ==
  /\ EventsLeft /\ restarts' = restarts + 1
  /\ scan' = Resting /\ counter' = [day |-> 0, used |-> 0] /\ lastTs' = [s \in Symbols |-> 0]
  /\ paid' = 0 /\ unbilled' = 0 /\ judgedFlat' = {}
  /\ UNCHANGED <<mode, today, candle, held, journal, twice, opener>>

JudgeSteps ==
  \/ CycleReconciles \/ CycleEnds \/ NotExecuted \/ EntryFills \/ EntryRefused \/ JudgeFails
  \/ \E i \in DOMAIN Pairs, signal \in Signals : ScanPair(i, signal)
  \/ \E sig \in [Symbols -> Signals] : ScalpScan(sig)
  \/ \E raw \in Answers, backdrop \in Backdrops, logged \in BOOLEAN :
       JudgeAnswers(raw, backdrop, logged) \/ SmartAnswers(raw, backdrop, logged)
  \/ \E raw, other \in Answers, backdrop \in [Symbols -> Backdrops] : BatchAnswers(<<raw, other>>, backdrop)

JudgeNext ==
  \/ JudgeSteps
  \/ NewCandle \/ NewDay \/ WorkerRestarts \/ \E s \in Symbols : BracketCloses(s)

\* The main loop goes round, and a call of the client ends (GroqClient!ChatEnds).
JudgeFairness == WF_judgeVars(JudgeSteps)
JudgeSpec == JudgeInit /\ [][JudgeNext]_judgeVars /\ JudgeFairness

-----------------------------------------------------------------------------
(* Properties *)

JudgeTypeOK ==
  /\ mode \in {"trend", "scalp"} /\ today \in Nat /\ candle \in Nat /\ restarts \in Nat
  /\ counter.day \in 0 .. today /\ counter.used \in Nat
  /\ lastTs \in [Symbols -> 0 .. candle] /\ held \in [Symbols -> {"none", "LONG", "SHORT"}]
  /\ journal \in Seq([symbol : Names, outcome : {"open", "flat"}, executed : BOOLEAN])
  /\ scan.pc \in {"rest", "gate", "asked", "escalated", "decided"} /\ scan.symbol \in Symbols
  /\ scan.todo \subseteq DOMAIN Pairs /\ scan.row \in 0 .. Len(journal)
  /\ paid \in Nat /\ unbilled \in Nat /\ twice \in BOOLEAN

\* Across midnights, failures and escalations a worker pays for at most one call
\* more than its daily budget, apart from second calls that failed or were charged
\* to the day before (_day_budget_allows, the escalation of _scan_pair).
SpendWithinBudget == Budget > 0 => paid <= Budget + 1 + unbilled

\* A flat pair is judged at most once on a candle, although the judge may fail, the
\* day may change and the position may have closed on it (_judge_gate_check).
JudgedOncePerCandle == ~ twice

\* No entry reaches execution with a side that the direction does not imply, an
\* unsure one, or one that the indicators it was validated on veto: whatever the model
\* wrote in "side", whichever of two models decided, and also when it is its turn only
\* because the entries before it in the batch were refused.
WellJudged(d, shown) ==
  /\ <<d.direction, d.side>> \in {<<"LONG", "BUY">>, <<"SHORT", "SELL">>}
  /\ d.confidence >= MinConfidence
  /\ \E ind \in shown : PlausibilityCheck(d.direction, ind)
TradesAreJudged ==
  scan.pc = "decided" /\ scan.decision.action = "ENTER" => WellJudged(scan.decision, scan.shown)

\* The journal follows the exchange: the row of an open position is open, through
\* refused entries, rows that were not executed and closes between two reads, if
\* the model named the pair it was asked about.
RowFollowsPosition ==
  \A s \in Symbols :
    held[s] # NoSide /\ opener[s] # 0 /\ journal[opener[s]].symbol = s => journal[opener[s]].outcome = "open"

\* And every row is resolved once its symbol has no position.
RowIsStale(i) == i <= Len(journal) /\ journal[i].outcome = "open" /\ journal[i].symbol \notin OpenSymbols
RowsResolved == \A i \in 1 .. MaxJournal : RowIsStale(i) ~> ~ RowIsStale(i)

\* What the judge pays for, lets through and records, together.
JudgeSound ==
  /\ JudgeTypeOK /\ SpendWithinBudget /\ JudgedOncePerCandle
  /\ TradesAreJudged /\ RowFollowsPosition
=============================================================================
