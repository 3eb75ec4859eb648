-------------------------- MODULE CircuitBreakers --------------------------
(***************************************************************************)
(* The seven circuit breakers (risk/circuit_breakers.py) as the risk       *)
(* manager (risk/manager.py) and the trading cycle feed them.              *)
(*                                                                         *)
(* The cycle builds its context once, with the realised PnL of the UTC     *)
(* day at that moment, and hands it to update_monitoring at its end,       *)
(* after minutes of scanning and trading: trades close, the day changes    *)
(* and the operator acts in between.  The manager's lock spans no await,   *)
(* so each of its operations is one step.  Breaker state is written to a   *)
(* JSON file after every change and read back when the worker starts.      *)
(*                                                                         *)
(* Days are counted; tm_yday, which the code compares, repeats after a     *)
(* year. peak_value, triggered_at, reason and tier are never read by a     *)
(* check and are left out.  check_all, the same checks without the streak  *)
(* update, has no caller.                                                  *)
(***************************************************************************)
EXTENDS Integers, FiniteSets

CONSTANTS Symbols,         \* traded symbols
          MaxLoss,         \* risk.max_daily_loss_usd
          MaxConsecutive,  \* circuit_breakers.consecutive_losses.max_consecutive
          StreakCap,       \* the loss counter stops here (100 in the code)
          MaxSpikes,       \* funding_rate_spike.max_consecutive_spikes
          Shows,           \* the parts of the market that the contexts carry
          PnlBound, MaxDay, MaxFaults, MaxRestarts   \* bounds of the environment

ASSUME LimitsAssumption ==
  /\ MaxLoss \in Nat /\ MaxConsecutive \in Nat \ {0} /\ MaxSpikes \in Nat \ {0}
  /\ StreakCap \in Nat /\ MaxConsecutive <= StreakCap
  /\ Shows \subseteq {"drawdown", "positions", "funding", "contracts"}
ASSUME BoundsAssumption ==
  /\ PnlBound \in Nat /\ MaxDay \in Nat \ {0} /\ MaxFaults \in Nat /\ MaxRestarts \in Nat

DAILY == "DAILY_LOSS_BREAKER"
DRAWDOWN == "DRAWDOWN_BREAKER"
STREAK == "CONSECUTIVE_LOSS_BREAKER"
KILL == "KILL_SWITCH"
CASCADE == "LIQUIDATION_CASCADE_BREAKER"
FUNDING == "FUNDING_RATE_SPIKE_BREAKER"
VOLATILITY == "VOLATILITY_BREAKER"
ALL_BREAKERS == {DAILY, DRAWDOWN, STREAK, KILL, CASCADE, FUNDING, VOLATILITY}

VARIABLES
  active,    \* active flag of each breaker
  lossDay,   \* last_utc_day of the daily-loss breaker
  streak,    \* consecutive_losses
  started,   \* _prev_daily_pnl has been set
  prev,      \* _prev_daily_pnl
  near,      \* near_liquidation_positions
  spikes,    \* funding_spike_counts, counted up to MaxSpikes
  disk,      \* the state file, as _load_state would read it
  cycle,     \* "idle", or "open" between building and using the context
  seen,      \* daily_pnl in the context of the open cycle
  day, pnl,  \* the UTC day and the realised PnL of that day
  faults, restarts,  \* faults and restarts still to come
  \* history, not read by any action:
  thrown,    \* the kill switch was thrown and no token has reset it
  blocked,   \* the daily-loss breaker tripped today and nobody reset it
  lostSave,  \* some write of the state file failed
  spikeRun   \* per symbol, consecutive checks up to now that saw a spike

breakerVars == <<active, lossDay, streak, started, prev, near, spikes>>
worldVars   == <<day, pnl>>
cycleVars   == <<cycle, seen>>
histVars    == <<thrown, blocked, spikeRun>>
vars == <<breakerVars, disk, cycleVars, worldVars, faults, restarts, lostSave, histVars>>

-----------------------------------------------------------------------------
(* Persistence *)

Off == [b \in ALL_BREAKERS |-> FALSE]

\* A missing or unreadable file loads like one with the defaults.
Defaults == [active |-> Off, lossDay |-> 0, streak |-> 0]

\* The persisted fields: neither the spike counts nor the near-liquidation set.
\* Mutant: last_utc_day is not written either.
SavedWithoutDay == [active |-> active, lossDay |-> 0, streak |-> streak]
Saved == [active |-> active, lossDay |-> lossDay, streak |-> streak]

\* _save_state rewrites the file in place.  A failure is swallowed and leaves
\* the old contents, or a truncated file.
SaveState ==
  \/ /\ disk' = Saved'
     /\ UNCHANGED <<faults, lostSave>>
  \/ /\ faults > 0 /\ faults' = faults - 1
     /\ disk' \in {disk, Defaults}
     /\ lostSave' = TRUE

Init ==
  /\ active = Off /\ lossDay = 0 /\ streak = 0
  /\ started = FALSE /\ prev = 0
  /\ near = {} /\ spikes = [s \in Symbols |-> 0]
  /\ disk = Defaults
  /\ cycle = "idle" /\ seen = 0
  /\ day = 1 /\ pnl = 0
  /\ faults = MaxFaults /\ restarts = MaxRestarts
  /\ thrown = FALSE /\ blocked = FALSE /\ lostSave = FALSE
  /\ spikeRun = [s \in Symbols |-> 0]

-----------------------------------------------------------------------------
(* The checks: the flag after a check of a breaker whose flag was a. *)

\* Active until the UTC day changes; the check that clears it looks no further.
\* Mutant: it trips at most once a day, also after a reset.
DailyLossOnceADay(a, p) == IF a THEN day = lossDay ELSE p < -MaxLoss /\ day # lossDay
DailyLoss(a, p) == IF a THEN day = lossDay ELSE p < -MaxLoss

\* Drawdown above the limit trips it, at or below the limit less the
\* hysteresis clears it; in the band between it stays as it is.
Drawdown(a, dd) == IF a THEN dd # "recovered" ELSE dd = "exceeded"

\* A lower daily PnL is a loss, a higher one a win; the first only initialises.
NewStreak(p) ==
  IF ~started THEN streak
  ELSE IF p < prev THEN (IF streak < StreakCap THEN streak + 1 ELSE streak)
  ELSE IF p > prev THEN 0 ELSE streak

ConsecutiveLosses(n) == n >= MaxConsecutive

\* A symbol that was near liquidation and is gone trips it; it clears as soon
\* as no position is near.
LiquidationCascade(a, held, nearNow) ==
  IF a THEN nearNow # {} ELSE near \ (nearNow \cup held) # {}

\* Consecutive spikes per symbol; one check without a spike starts over.
\* Mutant: a count survives a calm check.
CountAllSpikes(spiking) ==
  [s \in Symbols |-> IF s \in spiking /\ spikes[s] < MaxSpikes THEN spikes[s] + 1 ELSE spikes[s]]
CountSpikes(spiking) ==
  [s \in Symbols |-> IF s \notin spiking THEN 0
                     ELSE IF spikes[s] < MaxSpikes THEN spikes[s] + 1 ELSE spikes[s]]

Escalating(counts) == {s \in Symbols : counts[s] >= MaxSpikes}

\* The checks of update_monitoring_data (and of check_all) on one context c.
CheckBreakers(p, n, c) ==
  /\ active' = [active EXCEPT
       ![DAILY]      = DailyLoss(@, p),
       ![DRAWDOWN]   = Drawdown(@, c.drawdown),
       ![STREAK]     = ConsecutiveLosses(n),
       ![CASCADE]    = LiquidationCascade(@, c.held, c.near),
       ![FUNDING]    = Escalating(CountSpikes(c.spiking)) # {},
       ![VOLATILITY] = c.volatile]
  /\ lossDay' = IF ~active[DAILY] /\ p < -MaxLoss THEN day ELSE lossDay
  /\ near'    = c.near
  /\ spikes'  = CountSpikes(c.spiking)

\* The market as it is, and the part of it a context shows.  In the running
\* system Shows is empty: get_status always answers a drawdown of 0, and
\* _main_cycle_loop puts no futures positions, funding rates or contracts in
\* its context.
Markets ==
  LET Part(part, values, default) == IF part \in Shows THEN values ELSE {default}
  IN  {m \in [drawdown : Part("drawdown", {"recovered", "band", "exceeded"}, "recovered"),
              held : Part("positions", SUBSET Symbols, {}),
              near : Part("positions", SUBSET Symbols, {}),
              volatile : Part("contracts", BOOLEAN, FALSE),
              spiking : SUBSET Symbols] : m.near \subseteq m.held}
Shown(m) == IF "funding" \in Shows THEN m ELSE [m EXCEPT !.spiking = {}]

-----------------------------------------------------------------------------
(* Operations *)

\* get_status at the start of a cycle; the PnL reads 0 when the query fails.
BuildContext ==
  /\ cycle = "idle" /\ cycle' = "open"
  /\ \/ seen' = pnl /\ UNCHANGED faults
     \/ faults > 0 /\ faults' = faults - 1 /\ seen' = 0
  /\ UNCHANGED <<breakerVars, disk, worldVars, restarts, lostSave, histVars>>

SpikeRun(spiking) ==
  [s \in Symbols |-> IF s \notin spiking THEN 0
                     ELSE IF spikeRun[s] < MaxSpikes THEN spikeRun[s] + 1 ELSE spikeRun[s]]

\* update_monitoring at the end of the cycle, with its context.
UpdateMonitoring(m) ==
  /\ cycle = "open" /\ cycle' = "idle" /\ seen' = 0
  /\ CheckBreakers(seen, NewStreak(seen), Shown(m))
  /\ streak' = NewStreak(seen) /\ prev' = seen /\ started' = TRUE
  /\ blocked' = (blocked \/ (~active[DAILY] /\ active'[DAILY]))
  /\ spikeRun' = SpikeRun(m.spiking)
  /\ UNCHANGED <<worldVars, restarts, thrown>>
  /\ SaveState

\* trigger_kill_switch.
TriggerKillSwitch ==
  /\ active' = [active EXCEPT ![KILL] = TRUE]
  /\ thrown' = TRUE
  /\ UNCHANGED <<lossDay, streak, started, prev, near, spikes, cycleVars, worldVars,
                 restarts, blocked, spikeRun>>
  /\ SaveState

\* reset(b): refused for the kill switch.
\* Mutant: any breaker can be reset.
AnyResettable(b) == TRUE
Resettable(b) == b # KILL
Reset(b) ==
  /\ Resettable(b) /\ active[b]
  /\ active' = [active EXCEPT ![b] = FALSE]
  /\ blocked' = (blocked /\ b # DAILY)
  /\ UNCHANGED <<lossDay, streak, started, prev, near, spikes, cycleVars, worldVars,
                 restarts, thrown, spikeRun>>
  /\ SaveState

\* reset_kill_switch with a well-formed token; any other changes nothing.
ResetKillSwitch ==
  /\ active[KILL]
  /\ active' = [active EXCEPT ![KILL] = FALSE]
  /\ thrown' = FALSE
  /\ UNCHANGED <<lossDay, streak, started, prev, near, spikes, cycleVars, worldVars,
                 restarts, blocked, spikeRun>>
  /\ SaveState

\* The worker restarts: __init__ and _load_state.  What is not in the file
\* starts over.
Restart ==
  /\ restarts > 0 /\ restarts' = restarts - 1
  /\ active' = disk.active /\ lossDay' = disk.lossDay /\ streak' = disk.streak
  /\ started' = FALSE /\ prev' = 0
  /\ near' = {} /\ spikes' = [s \in Symbols |-> 0]
  /\ cycle' = "idle" /\ seen' = 0
  /\ UNCHANGED <<disk, worldVars, faults, lostSave, histVars>>

-----------------------------------------------------------------------------
(* Environment *)

\* A position closes at a loss or a profit, between the cycle's reads.
TradeCloses ==
  /\ \E p \in -PnlBound .. PnlBound :
       /\ p # pnl /\ pnl' = p
  /\ UNCHANGED <<breakerVars, disk, cycleVars, day, faults, restarts, lostSave, histVars>>

\* UTC midnight: the daily PnL starts at zero.
Midnight ==
  /\ day < MaxDay /\ day' = day + 1
  /\ pnl' = 0
  /\ blocked' = FALSE
  /\ UNCHANGED <<breakerVars, disk, cycleVars, faults, restarts, lostSave,
                 thrown, spikeRun>>

-----------------------------------------------------------------------------
Monitor == \E m \in Markets : UpdateMonitoring(m)

Next ==
  \/ BuildContext \/ Monitor
  \/ TriggerKillSwitch \/ ResetKillSwitch
  \/ \E b \in ALL_BREAKERS : Reset(b)
  \/ Restart \/ TradeCloses \/ Midnight

\* The cycle comes round: every stage of it ends, and it sleeps a bounded time.
Fairness == WF_vars(BuildContext) /\ WF_vars(Monitor)

Spec == Init /\ [][Next]_vars /\ Fairness

-----------------------------------------------------------------------------
(* Properties *)

Pnls == -PnlBound .. PnlBound
Flags == [ALL_BREAKERS -> BOOLEAN]

TypeOK ==
  /\ active \in Flags /\ lossDay \in 0 .. MaxDay /\ streak \in 0 .. StreakCap
  /\ started \in BOOLEAN /\ prev \in Pnls
  /\ near \in SUBSET Symbols /\ spikes \in [Symbols -> 0 .. MaxSpikes]
  /\ disk \in [active : Flags, lossDay : 0 .. MaxDay, streak : 0 .. StreakCap]
  /\ cycle \in {"idle", "open"} /\ seen \in Pnls
  /\ day \in 1 .. MaxDay /\ pnl \in Pnls
  /\ faults \in 0 .. MaxFaults /\ restarts \in 0 .. MaxRestarts
  /\ thrown \in BOOLEAN /\ blocked \in BOOLEAN /\ lostSave \in BOOLEAN
  /\ spikeRun \in [Symbols -> 0 .. MaxSpikes]

\* A thrown kill switch blocks trading until a token resets it: no check, no
\* reset() and no restart clears it, as long as the state file was written.
KillSwitchHolds == thrown /\ ~lostSave => active[KILL]

\* The daily-loss breaker blocks for the rest of the UTC day it tripped on,
\* whatever the PnL does and however often the worker restarts.
DailyLossHolds == blocked /\ ~lostSave => active[DAILY]

\* The funding breaker is active only after MaxSpikes checks in a row saw one
\* symbol spike, restarts included: an isolated spike never blocks trading.
FundingTripIsEarned ==
  active[FUNDING] /\ ~lostSave => \E s \in Symbols : spikeRun[s] >= MaxSpikes

\* A loss over the limit that stands blocks trading before long, although a
\* cycle may work with a stale PnL, a failed query or yesterday's breaker.
DailyLossBlocks == pnl < -MaxLoss ~> active[DAILY] \/ pnl >= -MaxLoss
=============================================================================
