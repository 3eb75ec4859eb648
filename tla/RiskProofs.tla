----------------------------- MODULE RiskProofs -----------------------------
(***************************************************************************)
(* Proofs about the two halves of RiskManager: the circuit breakers, for   *)
(* any symbols, limits, days, PnL range, faults and restarts; and gates,   *)
(* sizer, tracker and the engine's last adjustment, for any settings,      *)
(* contracts, marks, filters and account.                                  *)
(***************************************************************************)
EXTENDS MCCircuitBreakers, SumsProofs

-----------------------------------------------------------------------------
(* CircuitBreakers *)

\* The types, by the part of the state they are about.
MemoryOK == /\ active \in Flags /\ lossDay \in 0 .. MaxDay /\ streak \in 0 .. StreakCap
            /\ started \in BOOLEAN /\ prev \in Pnls
            /\ near \in SUBSET Symbols /\ spikes \in [Symbols -> 0 .. MaxSpikes]
DiskOK   == disk \in [active : Flags, lossDay : 0 .. MaxDay, streak : 0 .. StreakCap]
CycleOK  == cycle \in {"idle", "open"} /\ seen \in Pnls
WorldOK  == day \in 1 .. MaxDay /\ pnl \in Pnls
BudgetOK == faults \in 0 .. MaxFaults /\ restarts \in 0 .. MaxRestarts /\ lostSave \in BOOLEAN
HistOK   == thrown \in BOOLEAN /\ blocked \in BOOLEAN
            /\ spikeRun \in [Symbols -> 0 .. MaxSpikes]
Types    == MemoryOK /\ DiskOK /\ CycleOK /\ WorldOK /\ BudgetOK /\ HistOK

\* As long as no write has failed, a restart reads back what memory holds.
DiskCurrent == ~lostSave => disk = Saved

\* A breaker that tripped today knows that it did.
TrippedToday == blocked /\ ~lostSave => active[DAILY] /\ lossDay = day

\* The counts never exceed the spikes really seen in a row.
CountsAreReal == \A s \in Symbols : spikes[s] <= spikeRun[s]

\* The inductive invariant.
IInv == /\ Types
        /\ DiskCurrent
        /\ KillSwitchHolds
        /\ TrippedToday
        /\ CountsAreReal
        /\ FundingTripIsEarned

-----------------------------------------------------------------------------
\* Constants as the induction uses them.
LEMMA Numbers ==
  /\ 0 \in Pnls /\ Off \in Flags
  /\ Defaults \in [active : Flags, lossDay : 0 .. MaxDay, streak : 0 .. StreakCap]
  /\ [s \in Symbols |-> 0] \in [Symbols -> 0 .. MaxSpikes]
  /\ 0 \in 0 .. MaxDay /\ 0 \in 0 .. StreakCap
<1>1. 0 \in Pnls
  BY BoundsAssumption DEF Pnls
<1>2. Off \in Flags
  BY DEF Off, Flags
<1>3. 0 \in 0 .. MaxDay /\ 0 \in 0 .. StreakCap /\ 0 \in 0 .. MaxSpikes
  BY BoundsAssumption, LimitsAssumption
<1> QED BY <1>1, <1>2, <1>3 DEF Defaults

LEMMA InitIInv == Init => IInv
<1> SUFFICES ASSUME Init PROVE IInv
  OBVIOUS
<1>1. Types
  <2>1. MemoryOK
    BY Numbers DEF Init, MemoryOK
  <2>2. DiskOK /\ CycleOK /\ HistOK
    BY Numbers DEF Init, DiskOK, CycleOK, HistOK
  <2>3. day \in 1 .. MaxDay /\ faults \in 0 .. MaxFaults /\ restarts \in 0 .. MaxRestarts
    BY BoundsAssumption DEF Init
  <2>4. WorldOK /\ BudgetOK
    BY <2>3, Numbers DEF Init, WorldOK, BudgetOK
  <2> QED BY <2>1, <2>2, <2>4 DEF Types
<1>2. DiskCurrent
  BY DEF Init, DiskCurrent, Saved, Defaults
<1>3. ~active[FUNDING] /\ ~active[KILL]
  BY DEF Init, Off, ALL_BREAKERS, FUNDING, KILL
<1>4. CountsAreReal
  BY DEF Init, CountsAreReal
<1> QED BY <1>1, <1>2, <1>3, <1>4 DEF Init, IInv, KillSwitchHolds, TrippedToday,
           FundingTripIsEarned

\* What a save leaves behind, given that memory is well typed afterwards.
LEMMA SaveFacts ==
  ASSUME DiskOK, DiskCurrent, BudgetOK, MemoryOK', SaveState
  PROVE  /\ DiskOK' /\ DiskCurrent'
         /\ faults' \in 0 .. MaxFaults /\ lostSave' \in BOOLEAN
         /\ ~lostSave' => ~lostSave
<1>1. CASE disk' = Saved' /\ UNCHANGED <<faults, lostSave>>
  <2>1. DiskOK'
    BY <1>1 DEF DiskOK, MemoryOK, Saved
  <2> QED BY <1>1, <2>1 DEF DiskCurrent, BudgetOK
<1>2. CASE faults > 0 /\ faults' = faults - 1 /\ disk' \in {disk, Defaults} /\ lostSave' = TRUE
  <2>1. DiskOK'
    BY <1>2, Numbers DEF DiskOK
  <2>2. faults' \in 0 .. MaxFaults
    BY <1>2, BoundsAssumption DEF BudgetOK
  <2> QED BY <1>2, <2>1, <2>2 DEF DiskCurrent
<1> QED BY <1>1, <1>2 DEF SaveState

\* The two counts of consecutive spikes after one check.
LEMMA SpikeFacts ==
  ASSUME NEW c \in SUBSET Symbols, NEW d \in SUBSET Symbols, c \subseteq d,
         spikes \in [Symbols -> 0 .. MaxSpikes], spikeRun \in [Symbols -> 0 .. MaxSpikes],
         CountsAreReal
  PROVE  /\ CountSpikes(c) \in [Symbols -> 0 .. MaxSpikes]
         /\ SpikeRun(d) \in [Symbols -> 0 .. MaxSpikes]
         /\ \A s \in Symbols : CountSpikes(c)[s] <= SpikeRun(d)[s]
<1>1. CountSpikes(c) \in [Symbols -> 0 .. MaxSpikes]
  BY LimitsAssumption DEF CountSpikes
<1>2. SpikeRun(d) \in [Symbols -> 0 .. MaxSpikes]
  BY LimitsAssumption DEF SpikeRun
<1>3. \A s \in Symbols : CountSpikes(c)[s] <= SpikeRun(d)[s]
  BY LimitsAssumption DEF CountSpikes, SpikeRun, CountsAreReal
<1> QED BY <1>1, <1>2, <1>3

\* Monitoring: kill flag untouched, the daily breaker kept on its day, the
\* funding breaker decided by the new counts.
LEMMA MonitorStep ==
  ASSUME IInv, NEW m \in Markets, UpdateMonitoring(m)
  PROVE  IInv'
<1> DEFINE c == Shown(m)
<1>0. /\ m.spiking \in SUBSET Symbols /\ c.spiking \in SUBSET Symbols
      /\ c.spiking \subseteq m.spiking /\ c.near \in SUBSET Symbols /\ c.volatile \in BOOLEAN
  BY DEF Markets, Shown
<1>1. /\ active' = [active EXCEPT ![DAILY] = DailyLoss(@, seen),
                      ![DRAWDOWN] = Drawdown(@, c.drawdown),
                      ![STREAK] = ConsecutiveLosses(NewStreak(seen)),
                      ![CASCADE] = LiquidationCascade(@, c.held, c.near),
                      ![FUNDING] = Escalating(CountSpikes(c.spiking)) # {},
                      ![VOLATILITY] = c.volatile]
      /\ lossDay' = IF ~active[DAILY] /\ seen < -MaxLoss THEN day ELSE lossDay
      /\ near' = c.near /\ spikes' = CountSpikes(c.spiking)
  BY DEF UpdateMonitoring, CheckBreakers
<1>2. /\ active' \in Flags
      /\ active'[KILL] = active[KILL]
      /\ active'[DAILY] = DailyLoss(active[DAILY], seen)
      /\ active'[FUNDING] = (Escalating(CountSpikes(c.spiking)) # {})
  <2>1. /\ DailyLoss(active[DAILY], seen) \in BOOLEAN
        /\ Drawdown(active[DRAWDOWN], c.drawdown) \in BOOLEAN
        /\ ConsecutiveLosses(NewStreak(seen)) \in BOOLEAN
        /\ LiquidationCascade(active[CASCADE], c.held, c.near) \in BOOLEAN
        /\ (Escalating(CountSpikes(c.spiking)) # {}) \in BOOLEAN
    <3>1. DailyLoss(active[DAILY], seen) \in BOOLEAN
      <4>1. seen \in Int /\ -MaxLoss \in Int
        BY BoundsAssumption, LimitsAssumption DEF IInv, Types, CycleOK, Pnls
      <4>2. (seen < -MaxLoss) \in BOOLEAN /\ (day = lossDay) \in BOOLEAN
        BY <4>1
      <4> QED BY <4>2, Zenon DEF DailyLoss
    <3>2. Drawdown(active[DRAWDOWN], c.drawdown) \in BOOLEAN
      BY DEF Drawdown
    <3>3. ConsecutiveLosses(NewStreak(seen)) \in BOOLEAN
      BY DEF ConsecutiveLosses
    <3>4. LiquidationCascade(active[CASCADE], c.held, c.near) \in BOOLEAN
      BY DEF LiquidationCascade
    <3>5. (Escalating(CountSpikes(c.spiking)) # {}) \in BOOLEAN
      OBVIOUS
    <3> QED BY <3>1, <3>2, <3>3, <3>4, <3>5
  <2>2. active \in Flags
    BY DEF IInv, Types, MemoryOK
  <2>3. active' = [active EXCEPT ![DAILY] = DailyLoss(active[DAILY], seen),
                     ![DRAWDOWN] = Drawdown(active[DRAWDOWN], c.drawdown),
                     ![STREAK] = ConsecutiveLosses(NewStreak(seen)),
                     ![CASCADE] = LiquidationCascade(active[CASCADE], c.held, c.near),
                     ![FUNDING] = Escalating(CountSpikes(c.spiking)) # {},
                     ![VOLATILITY] = c.volatile]
    BY <1>1, <2>2 DEF Flags, ALL_BREAKERS, DAILY, DRAWDOWN, STREAK, KILL, CASCADE, FUNDING,
       VOLATILITY
  <2>4. c.volatile \in BOOLEAN
    BY <1>0
  <2> DEFINE v1 == DailyLoss(active[DAILY], seen)
             v2 == Drawdown(active[DRAWDOWN], c.drawdown)
             v3 == ConsecutiveLosses(NewStreak(seen))
             v4 == LiquidationCascade(active[CASCADE], c.held, c.near)
             v5 == Escalating(CountSpikes(c.spiking)) # {}
             v6 == c.volatile
  <2>5. /\ v1 \in BOOLEAN /\ v2 \in BOOLEAN /\ v3 \in BOOLEAN
        /\ v4 \in BOOLEAN /\ v5 \in BOOLEAN /\ v6 \in BOOLEAN
    BY <2>1, <2>4
  <2>6. active' = [active EXCEPT ![DAILY] = v1, ![DRAWDOWN] = v2, ![STREAK] = v3,
                                 ![CASCADE] = v4, ![FUNDING] = v5, ![VOLATILITY] = v6]
    BY <2>3
  <2>7. /\ active' \in Flags /\ active'[KILL] = active[KILL]
        /\ active'[DAILY] = v1 /\ active'[FUNDING] = v5
    <3> HIDE DEF v1, v2, v3, v4, v5, v6
    <3> QED BY <2>2, <2>5, <2>6 DEF Flags, ALL_BREAKERS, DAILY, DRAWDOWN, STREAK, KILL,
               CASCADE, FUNDING, VOLATILITY
  <2> QED BY <2>7
<1>3. streak' \in 0 .. StreakCap
  BY LimitsAssumption DEF IInv, Types, MemoryOK, UpdateMonitoring, NewStreak
<1>4. /\ spikes' \in [Symbols -> 0 .. MaxSpikes] /\ spikeRun' \in [Symbols -> 0 .. MaxSpikes]
      /\ CountsAreReal'
  BY <1>0, <1>1, SpikeFacts DEF IInv, Types, MemoryOK, HistOK, UpdateMonitoring, CountsAreReal
<1>5. MemoryOK'
  <2>1. lossDay' \in 0 .. MaxDay
    BY <1>1, BoundsAssumption DEF IInv, Types, MemoryOK, WorldOK
  <2>2. prev' \in Pnls /\ started' \in BOOLEAN
    BY DEF IInv, Types, CycleOK, UpdateMonitoring
  <2> QED BY <1>0, <1>1, <1>2, <1>3, <1>4, <2>1, <2>2 DEF MemoryOK
<1>6. /\ DiskOK' /\ DiskCurrent' /\ faults' \in 0 .. MaxFaults /\ lostSave' \in BOOLEAN
      /\ ~lostSave' => ~lostSave
  BY <1>5, SaveFacts DEF IInv, Types, UpdateMonitoring
<1>7. Types'
  <2>1. CycleOK' /\ WorldOK'
    BY Numbers DEF IInv, Types, WorldOK, CycleOK, UpdateMonitoring, worldVars
  <2>2. BudgetOK'
    BY <1>6 DEF IInv, Types, BudgetOK, UpdateMonitoring
  <2>3. HistOK'
    BY <1>4 DEF IInv, Types, HistOK, UpdateMonitoring
  <2> QED BY <1>5, <1>6, <2>1, <2>2, <2>3 DEF Types
<1>8. KillSwitchHolds'
  BY <1>2, <1>6 DEF IInv, KillSwitchHolds, UpdateMonitoring
<1>9. TrippedToday'
  <2>1. UNCHANGED day /\ blocked' = (blocked \/ (~active[DAILY] /\ active'[DAILY]))
    BY DEF UpdateMonitoring, worldVars
  <2>2. SUFFICES ASSUME blocked', ~lostSave'
                 PROVE  active'[DAILY] /\ lossDay' = day'
    BY DEF TrippedToday
  <2>3. CASE active[DAILY]
    <3>1. blocked
      BY <2>1, <2>2, <2>3
    <3>2. lossDay = day
      BY <1>6, <2>2, <3>1 DEF IInv, TrippedToday
    <3> QED BY <1>1, <1>2, <2>1, <2>3, <3>2 DEF DailyLoss
  <2>4. CASE ~active[DAILY]
    <3>1. ~blocked
      BY <1>6, <2>2, <2>4 DEF IInv, TrippedToday
    <3>2. active'[DAILY]
      BY <2>1, <2>2, <3>1
    <3>3. seen < -MaxLoss
      BY <1>2, <2>4, <3>2 DEF DailyLoss
    <3> QED BY <1>1, <2>1, <2>4, <3>2, <3>3
  <2> QED BY <2>3, <2>4
<1>10. FundingTripIsEarned'
  <2> SUFFICES ASSUME active'[FUNDING]
               PROVE  \E s \in Symbols : spikeRun'[s] >= MaxSpikes
    BY DEF FundingTripIsEarned
  <2>1. PICK s \in Symbols : CountSpikes(c.spiking)[s] >= MaxSpikes
    BY <1>2 DEF Escalating
  <2>2. spikes'[s] >= MaxSpikes /\ spikes'[s] <= spikeRun'[s]
    BY <1>1, <1>4, <2>1 DEF CountsAreReal
  <2>3. spikes'[s] \in Nat /\ spikeRun'[s] \in Nat
    BY <1>4
  <2> QED BY <2>2, <2>3, LimitsAssumption
<1> QED BY <1>4, <1>6, <1>7, <1>8, <1>9, <1>10 DEF IInv

\* An operator's reset or trigger sets one flag and saves.
LEMMA FlagStep ==
  ASSUME IInv, NEW b \in ALL_BREAKERS, NEW v \in BOOLEAN,
         active' = [active EXCEPT ![b] = v], SaveState,
         UNCHANGED <<lossDay, streak, started, prev, near, spikes, cycleVars, worldVars,
                     restarts, spikeRun>>,
         thrown' \in BOOLEAN, blocked' \in BOOLEAN,
         b # KILL => thrown' = thrown,
         b = KILL => thrown' = v,
         blocked' => blocked /\ b # DAILY,
         b = FUNDING => ~v
  PROVE  IInv'
<1>1. /\ active' \in Flags /\ active'[b] = v
      /\ \A d \in ALL_BREAKERS \ {b} : active'[d] = active[d]
  BY DEF IInv, Types, MemoryOK, Flags
<1>2. MemoryOK'
  BY <1>1 DEF IInv, Types, MemoryOK
<1>3. /\ DiskOK' /\ DiskCurrent' /\ faults' \in 0 .. MaxFaults /\ lostSave' \in BOOLEAN
      /\ ~lostSave' => ~lostSave
  BY <1>2, SaveFacts DEF IInv, Types
<1>4. Types'
  BY <1>2, <1>3 DEF IInv, Types, CycleOK, WorldOK, BudgetOK, HistOK, cycleVars, worldVars
<1>5. KILL \in ALL_BREAKERS /\ DAILY \in ALL_BREAKERS /\ FUNDING \in ALL_BREAKERS
  BY DEF ALL_BREAKERS
<1>6. KillSwitchHolds'
  BY <1>1, <1>3, <1>5 DEF IInv, KillSwitchHolds
<1>7. TrippedToday'
  BY <1>1, <1>3, <1>5 DEF IInv, TrippedToday, worldVars
<1>8. CountsAreReal'
  BY DEF IInv, CountsAreReal
<1>9. FundingTripIsEarned'
  BY <1>1, <1>3, <1>5 DEF IInv, FundingTripIsEarned
<1> QED BY <1>3, <1>4, <1>6, <1>7, <1>8, <1>9 DEF IInv

\* A restart reads back what memory held, or a write has failed before.
LEMMA RestartStep ==
  ASSUME IInv, Restart
  PROVE  IInv'
<1>1. /\ active' = disk.active /\ lossDay' = disk.lossDay /\ streak' = disk.streak
      /\ UNCHANGED <<disk, worldVars, faults, lostSave, histVars>>
  BY DEF Restart
<1>2. ~lostSave => UNCHANGED <<active, lossDay, streak>>
  BY <1>1 DEF IInv, DiskCurrent, Saved
<1>3. MemoryOK'
  BY <1>1, Numbers DEF IInv, Types, DiskOK, Restart, MemoryOK
<1>4. Types'
  <2>1. restarts' \in 0 .. MaxRestarts
    BY BoundsAssumption DEF IInv, Types, BudgetOK, Restart
  <2>2. CycleOK'
    BY Numbers DEF Restart, CycleOK
  <2> QED BY <1>1, <1>3, <2>1, <2>2 DEF IInv, Types, DiskOK, WorldOK, BudgetOK, HistOK,
             worldVars, histVars
<1>5. DiskCurrent'
  BY <1>1, <1>2 DEF IInv, DiskCurrent, Saved
<1>6. KillSwitchHolds' /\ TrippedToday'
  BY <1>1, <1>2 DEF IInv, KillSwitchHolds, TrippedToday, worldVars, histVars
<1>7. CountsAreReal'
  BY <1>1 DEF IInv, Types, HistOK, CountsAreReal, Restart, histVars
<1>8. FundingTripIsEarned'
  BY <1>1, <1>2 DEF IInv, FundingTripIsEarned, histVars
<1> QED BY <1>4, <1>5, <1>6, <1>7, <1>8 DEF IInv

\* The cycle's read and the environment leave the breakers alone.
LEMMA OtherStep ==
  ASSUME IInv, BuildContext \/ TradeCloses \/ Midnight
  PROVE  IInv'
<1>1. UNCHANGED <<breakerVars, disk, restarts, lostSave, thrown, spikeRun>>
  BY DEF BuildContext, TradeCloses, Midnight, histVars
<1>2. Types'
  <2>1. MemoryOK' /\ DiskOK'
    BY <1>1 DEF IInv, Types, MemoryOK, DiskOK, breakerVars
  <2>2. BudgetOK'
    BY <1>1, BoundsAssumption DEF IInv, Types, BudgetOK, BuildContext, TradeCloses, Midnight
  <2>3. CycleOK'
    BY Numbers DEF IInv, Types, CycleOK, WorldOK, BuildContext, TradeCloses, Midnight, cycleVars
  <2>4. WorldOK'
    <3>1. CASE BuildContext
      BY <3>1 DEF IInv, Types, WorldOK, BuildContext, worldVars
    <3>2. CASE TradeCloses
      BY <3>2 DEF IInv, Types, WorldOK, TradeCloses, Pnls
    <3>3. CASE Midnight
      BY <3>3, Numbers, BoundsAssumption DEF IInv, Types, WorldOK, Midnight
    <3> QED BY <3>1, <3>2, <3>3
  <2>5. HistOK'
    BY DEF IInv, Types, HistOK, BuildContext, TradeCloses, Midnight, histVars
  <2> QED BY <2>1, <2>2, <2>3, <2>4, <2>5 DEF Types
<1>3. DiskCurrent' /\ KillSwitchHolds' /\ CountsAreReal' /\ FundingTripIsEarned'
  BY <1>1 DEF IInv, DiskCurrent, Saved, KillSwitchHolds, CountsAreReal, FundingTripIsEarned,
     breakerVars
<1>4. TrippedToday'
  BY <1>1 DEF IInv, TrippedToday, BuildContext, TradeCloses, Midnight, breakerVars, worldVars,
     histVars
<1> QED BY <1>2, <1>3, <1>4 DEF IInv

LEMMA NextIInv == IInv /\ [Next]_vars => IInv'
<1> SUFFICES ASSUME IInv, [Next]_vars PROVE IInv'
  OBVIOUS
<1>1. CASE Monitor
  BY <1>1, MonitorStep DEF Monitor
<1>2. CASE TriggerKillSwitch
  <2>1. KILL \in ALL_BREAKERS /\ KILL # DAILY /\ KILL # FUNDING
    BY DEF ALL_BREAKERS, KILL, DAILY, FUNDING
  <2>2. blocked \in BOOLEAN
    BY DEF IInv, Types, HistOK
  <2> QED BY <1>2, <2>1, <2>2, FlagStep DEF TriggerKillSwitch
<1>3. CASE ResetKillSwitch
  <2>1. KILL \in ALL_BREAKERS /\ KILL # DAILY /\ KILL # FUNDING
    BY DEF ALL_BREAKERS, KILL, DAILY, FUNDING
  <2>2. blocked \in BOOLEAN
    BY DEF IInv, Types, HistOK
  <2> QED BY <1>3, <2>1, <2>2, FlagStep DEF ResetKillSwitch
<1>4. ASSUME NEW b \in ALL_BREAKERS, Reset(b) PROVE IInv'
  <2>1. b # KILL
    BY <1>4 DEF Reset, Resettable
  <2>2. blocked' \in BOOLEAN /\ thrown' \in BOOLEAN /\ thrown' = thrown
    BY <1>4 DEF Reset, IInv, Types, HistOK
  <2>3. blocked' => blocked /\ b # DAILY
    BY <1>4 DEF Reset
  <2>4. /\ active' = [active EXCEPT ![b] = FALSE] /\ SaveState
        /\ UNCHANGED <<lossDay, streak, started, prev, near, spikes, cycleVars, worldVars,
                       restarts, spikeRun>>
    BY <1>4 DEF Reset
  <2> QED BY <2>1, <2>2, <2>3, <2>4, FlagStep
<1>5. CASE Restart
  BY <1>5, RestartStep
<1>6. CASE BuildContext \/ TradeCloses \/ Midnight
  BY <1>6, OtherStep
<1>7. CASE UNCHANGED vars
  BY <1>7 DEF IInv, Types, MemoryOK, DiskOK, CycleOK, WorldOK, BudgetOK, HistOK, DiskCurrent,
     Saved, KillSwitchHolds, TrippedToday, CountsAreReal, FundingTripIsEarned, vars,
     breakerVars, cycleVars, worldVars, histVars
<1> QED BY <1>1, <1>2, <1>3, <1>4, <1>5, <1>6, <1>7 DEF Next

-----------------------------------------------------------------------------
\* The inductive invariant holds in every reachable state.
THEOREM Invariance == Spec => []IInv
BY InitIInv, NextIInv, PTL DEF Spec

\* The breakers' state is well typed and the loss counter keeps its cap.
THEOREM TypeCorrect == Spec => []TypeOK
<1>1. IInv => TypeOK
  BY DEF IInv, Types, MemoryOK, DiskOK, CycleOK, WorldOK, BudgetOK, HistOK, TypeOK
<1> QED BY <1>1, Invariance, PTL

\* A thrown kill switch holds through checks, resets and restarts.
THEOREM KillSwitchStands == Spec => []KillSwitchHolds
<1>1. IInv => KillSwitchHolds
  BY DEF IInv
<1> QED BY <1>1, Invariance, PTL

\* A tripped daily-loss breaker holds for the rest of its UTC day.
THEOREM DailyLossStands == Spec => []DailyLossHolds
<1>1. IInv => DailyLossHolds
  BY DEF IInv, TrippedToday, DailyLossHolds
<1> QED BY <1>1, Invariance, PTL

\* The funding breaker trips only after its full run of spikes.
THEOREM FundingEarned == Spec => []FundingTripIsEarned
<1>1. IInv => FundingTripIsEarned
  BY DEF IInv
<1> QED BY <1>1, Invariance, PTL

-----------------------------------------------------------------------------
(* RiskEvaluation *)

\* A context is a snapshot of the account; the bare one shows nothing of it.
ContextOK(c) ==
  /\ c.is = "ctx" /\ c.equity \in Nat /\ c.pnl \in Int /\ c.drawdown = 0
  /\ c.positions \in SUBSET Held /\ c.size \in [c.positions -> Int]
  /\ c.kind = "bare" => c.positions = {} /\ c.equity = 0 /\ c.pnl = 0

\* What is known of the action last judged: the gates would judge it the same now,
\* because a new context and a switched gate discard it.
VerdictOK ==
  rOut.is = "verdict" =>
    /\ rAct \in Requests /\ rCtx.is = "ctx"
    /\ rOut.gate = GatesEvaluate(rAct, rCtx)
    /\ rOut.qty = IF rOut.gate = "ALL" THEN ComputeSize(rAct, rCtx) ELSE 0

RiskInv ==
  /\ rEquity \in Nat /\ rPnl \in Int /\ rBook \in [Held -> Int]
  /\ rCtx = None \/ ContextOK(rCtx)
  /\ VerdictOK /\ RaisedWithinCaps /\ ExposureAgreesWithGates

LEMMA MinOfTwo ==
  ASSUME NEW a \in Int, NEW b \in Int
  PROVE  /\ Min({a, b}) \in Int /\ Min({a, b}) <= a /\ Min({a, b}) <= b
         /\ a >= 0 /\ b >= 0 => Min({a, b}) >= 0
<1>1. \E x \in {a, b} : \A y \in {a, b} : x <= y
  OBVIOUS
<1> QED BY <1>1 DEF Min

LEMMA MaxOfTwo ==
  ASSUME NEW a \in Int, NEW b \in Int
  PROVE  Max({a, b}) \in Int /\ a <= Max({a, b})
<1>1. \E x \in {a, b} : \A y \in {a, b} : x >= y
  OBVIOUS
<1> QED BY <1>1 DEF Max

LEMMA MinOfThree ==
  ASSUME NEW a \in Int, NEW b \in Int, NEW c \in Int
  PROVE  /\ Min({a, b, c}) \in Int /\ Min({a, b, c}) <= b
         /\ a >= 0 /\ b >= 0 /\ c >= 0 => Min({a, b, c}) >= 0
<1>1. \E x \in {a, b, c} : \A y \in {a, b, c} : x <= y
  OBVIOUS
<1> QED BY <1>1 DEF Min

LEMMA MinOfFour ==
  ASSUME NEW a \in Int, NEW b \in Int, NEW c \in Int, NEW d \in Int
  PROVE  Min({a, b, c, d}) \in {a, b, c, d}
<1>1. \E x \in {a, b, c, d} : \A y \in {a, b, c, d} : x <= y
  OBVIOUS
<1> QED BY <1>1 DEF Min

LEMMA HundredthsFacts ==
  ASSUME NEW q \in Int
  PROVE  /\ ToHundredths(q) \in Int /\ (q >= 0 => ToHundredths(q) >= 0)
         /\ \A r \in Int : q <= r /\ r % 10 = 0 => ToHundredths(q) <= r
BY DEF ToHundredths

LEMMA SettingFacts ==
  /\ \A s \in Settings : Risk[s] \in Nat
  /\ Risk.max_leverage \in Nat \ {0} /\ AccountLeverage \in Nat
BY RiskAssumption DEF Settings

LEMMA DefaultSizeNat ==
  ASSUME NEW e \in Nat
  PROVE  DefaultSize(e) \in Nat
<1> DEFINE x == Risk.default_fraction * e * 10
           y == Risk.max_position_size_usd * 1000
           z == Risk.min_position_size_usd * 1000
<1>1. x \in Nat /\ y \in Nat /\ z \in Nat
  <2>1. /\ Risk.default_fraction \in Nat /\ Risk.max_position_size_usd \in Nat
        /\ Risk.min_position_size_usd \in Nat
    BY SettingFacts DEF Settings
  <2> QED BY <2>1
<1> HIDE DEF x, y, z
<1>2. Min({x, y}) \in Nat
  <2>1. x \in Int /\ y \in Int /\ x >= 0 /\ y >= 0
    BY <1>1
  <2>2. Min({x, y}) \in Int /\ Min({x, y}) >= 0
    BY <2>1, MinOfTwo, Zenon
  <2> QED BY <2>2
<1>3. Max({Min({x, y}), z}) \in Nat
  BY <1>1, <1>2, MaxOfTwo
<1> QED BY <1>3 DEF DefaultSize, x, y, z

LEMMA KellyNat ==
  ASSUME NEW w \in 0 .. 100, NEW e \in Nat
  PROVE  AdjustedKelly(KellyFraction(w), e) \in Nat
<1>1. (100 - w) \div Payout \in Int
  BY RiskAssumption
<1>2. KellyFraction(w) \in Nat
  <2> DEFINE x == w - (100 - w) \div Payout
  <2>1. Max({0, x}) \in Nat
    <3>1. x \in Int
      BY <1>1
    <3> HIDE DEF x
    <3> QED BY <3>1, MaxOfTwo
  <2> QED BY <2>1 DEF KellyFraction
<1> DEFINE size == (KellyFraction(w) * Risk.kelly_multiplier * e) \div (10 * Risk.max_leverage)
<1>3. size \in Nat
  <2>1. KellyFraction(w) * Risk.kelly_multiplier * e \in Nat
    <3>1. Risk.kelly_multiplier \in Nat
      BY SettingFacts DEF Settings
    <3> QED BY <1>2, <3>1
  <2>2. 10 * Risk.max_leverage \in Nat \ {0}
    BY SettingFacts
  <2> QED BY <2>1, <2>2
<1> DEFINE x == Risk.max_position_size_pct * e * 10
           y == Risk.max_position_size_usd * 1000
           z == e * 1000
<1>4. x \in Nat /\ y \in Nat /\ z \in Nat
  <2>1. Risk.max_position_size_pct \in Nat /\ Risk.max_position_size_usd \in Nat
    BY SettingFacts DEF Settings
  <2> QED BY <2>1
<1> HIDE DEF size, x, y, z
<1>5. Min({size, x, y, z}) \in Nat
  BY <1>3, <1>4, MinOfFour
<1> QED BY <1>5, DefaultSizeNat DEF AdjustedKelly, size, x, y, z

\* The sizer never returns more than was asked, on the grid it rounds to.
LEMMA SizeFacts ==
  ASSUME NEW a \in Requests, NEW c, ContextOK(c)
  PROVE  /\ ComputeSize(a, c) \in Nat
         /\ a.qty % 10 = 0 => ComputeSize(a, c) <= a.qty
<1>1. a.qty \in Nat /\ a.win \in 0 .. 100 /\ c.equity \in Nat
  BY RiskAssumption DEF Requests, ContextOK
<1> DEFINE kelly == IF a.win = 0 THEN DefaultSize(c.equity)
                    ELSE AdjustedKelly(KellyFraction(a.win), c.equity)
           least == Min({kelly, a.qty, MaxSizeFromTpSl})
<1>2. kelly \in Nat /\ MaxSizeFromTpSl \in Nat
  <2>1. DefaultSize(c.equity) \in Nat /\ AdjustedKelly(KellyFraction(a.win), c.equity) \in Nat
    BY <1>1, DefaultSizeNat, KellyNat
  <2>2. Risk.trade_capital_usd \in Nat /\ Risk.max_leverage \in Nat
    BY SettingFacts DEF Settings
  <2> QED BY <2>1, <2>2 DEF MaxSizeFromTpSl
<1> HIDE DEF kelly
<1>3. least \in Nat /\ least <= a.qty
  BY <1>1, <1>2, MinOfThree
<1> HIDE DEF least
<1>4. ComputeSize(a, c) = IF a.exact THEN ToHundredths(a.qty) ELSE ToHundredths(least)
  BY DEF ComputeSize, kelly, least
<1> QED BY <1>1, <1>3, <1>4, HundredthsFacts

LEMMA NotionalInt ==
  ASSUME NEW c, ContextOK(c), NEW hs \in SUBSET c.positions
  PROVE  /\ IsFiniteSet(hs) /\ NotionalOf(c, hs) \in Int
         /\ \A h \in hs : Notional(c, h) \in Int
<1>1. hs \in SUBSET Held
  BY DEF ContextOK
<1>2. IsFiniteSet(Held)
  <2>1. IsFiniteSet(Sides)
    <3>1. IsFiniteSet({"long"} \cup {"short"})
      BY FS_AddElement, FS_Singleton
    <3> QED BY <3>1, Zenon DEF Sides
  <2> QED BY <2>1, RiskAssumption, FS_Product DEF Held
<1>3. IsFiniteSet(hs)
  BY <1>1, <1>2, FS_Subset
<1>4. \A h \in hs : Notional(c, h) \in Int
  <2> SUFFICES ASSUME NEW h \in hs PROVE Notional(c, h) \in Int
    OBVIOUS
  <2>1. h[1] \in Contracts
    BY <1>1 DEF Held
  <2>2. c.size[h] \in Int /\ Mark[h[1]] \in Int
    BY <2>1, RiskAssumption DEF ContextOK
  <2> QED BY <2>2 DEF Notional
<1> DEFINE f == [h \in hs |-> Notional(c, h)]
<1>5. \A h \in hs : f[h] \in Int
  BY <1>4
<1> HIDE DEF f
<1>6. SumOf(f, hs) \in Int
  BY <1>3, <1>5, SumInt
<1> QED BY <1>3, <1>4, <1>6 DEF NotionalOf, f

-----------------------------------------------------------------------------
\* A smaller quantity weighs less.
LEMMA WithFacts ==
  ASSUME NEW a \in Requests, NEW c, ContextOK(c), NEW hs \in SUBSET c.positions,
         NEW q \in Int, q <= a.qty
  PROVE  LET b == [a EXCEPT !.qty = q]
         IN  /\ ProposedNotional(a, c) \in Int /\ ProposedNotional(b, c) \in Int
             /\ ProposedNotional(b, c) <= ProposedNotional(a, c)
             /\ With(a, c, hs) \in Int /\ With(b, c, hs) \in Int
             /\ With(b, c, hs) <= With(a, c, hs)
<1> DEFINE b == [a EXCEPT !.qty = q]
           m == ResolveMarkPrice(c, a.sym)
<1>1. a.qty \in Nat /\ a.sym \in Contracts
  BY RiskAssumption DEF Requests
<1>2. b.sym = a.sym /\ b.qty = q /\ b.type = a.type
  BY DEF Requests
<1>3. m \in Nat
  BY <1>1, RiskAssumption DEF ResolveMarkPrice
<1> HIDE DEF m
<1>4. a.qty * m \in Int /\ q * m \in Int /\ q * m <= a.qty * m
  BY <1>1, <1>3
<1>5. /\ ProposedNotional(a, c) = IF m > 0 THEN a.qty * m ELSE a.qty
      /\ ProposedNotional(b, c) = IF m > 0 THEN q * m ELSE q
  BY <1>2 DEF ProposedNotional, m
<1>6. /\ ProposedNotional(a, c) \in Int /\ ProposedNotional(b, c) \in Int
      /\ ProposedNotional(b, c) <= ProposedNotional(a, c)
  BY <1>1, <1>4, <1>5
<1>7. NotionalOf(c, hs) \in Int /\ IsEntry(b) = IsEntry(a)
  BY <1>2, NotionalInt DEF IsEntry
<1> HIDE DEF b
<1>8. /\ With(a, c, hs) \in Int /\ With(b, c, hs) \in Int
      /\ With(b, c, hs) <= With(a, c, hs)
  BY <1>6, <1>7 DEF With
<1> QED BY <1>6, <1>8 DEF b

\* Gate by gate: what passes, passes with a smaller quantity.
LEMMA SmallerPassesGroups ==
  ASSUME NEW a \in Requests, NEW c, ContextOK(c), NEW q \in Int, q <= a.qty
  PROVE  LET b == [a EXCEPT !.qty = q]
         IN  /\ CheckPositionConcentration(a, c) => CheckPositionConcentration(b, c)
             /\ CheckCorrelation(a, c) => CheckCorrelation(b, c)
<1> DEFINE b == [a EXCEPT !.qty = q]
<1>1. /\ ProposedNotional(a, c) \in Int /\ ProposedNotional(b, c) \in Int
      /\ ProposedNotional(b, c) <= ProposedNotional(a, c)
  BY WithFacts
<1>2. b.sym = a.sym /\ IsEntry(b) = IsEntry(a) /\ c.equity \in Nat
  BY DEF Requests, IsEntry, ContextOK
<1>3. \A hs \in SUBSET c.positions : NotionalOf(c, hs) \in Int
  BY NotionalInt
<1>4. Risk.max_position_concentration \in Nat /\ Risk.correlation_threshold_pct \in Nat
  BY SettingFacts DEF Settings
<1>5. ASSUME NEW n \in Int, NEW x \in Int, NEW y \in Int, NEW z \in Int, y <= x, (n + x) * 100 <= z
      PROVE  (n + y) * 100 <= z
  BY <1>5
<1> HIDE DEF b
<1>6. ASSUME CheckPositionConcentration(a, c) PROVE CheckPositionConcentration(b, c)
  <2> SUFFICES ASSUME c.equity > 0, NEW g \in {s : s \in Contracts}
               PROVE  (NotionalOf(c, {h \in c.positions : h[1] = g})
                        + (IF IsEntry(b) /\ b.sym = g THEN ProposedNotional(b, c) ELSE 0)) * 100
                         <= Risk.max_position_concentration * c.equity * 1000
    BY DEF CheckPositionConcentration, GroupWithin
  <2> DEFINE n == NotionalOf(c, {h \in c.positions : h[1] = g})
             x == IF IsEntry(a) /\ a.sym = g THEN ProposedNotional(a, c) ELSE 0
             y == IF IsEntry(b) /\ b.sym = g THEN ProposedNotional(b, c) ELSE 0
             z == Risk.max_position_concentration * c.equity * 1000
  <2>1. (n + x) * 100 <= z
    BY <1>6 DEF CheckPositionConcentration, GroupWithin
  <2>2. n \in Int /\ z \in Int
    BY <1>2, <1>3, <1>4
  <2>3. x \in Int /\ y \in Int /\ y <= x
    BY <1>1, <1>2
  <2> HIDE DEF n, x, y, z
  <2>4. (n + y) * 100 <= z
    BY <1>5, <2>1, <2>2, <2>3
  <2> QED BY <2>4 DEF n, y, z
<1>7. ASSUME CheckCorrelation(a, c) PROVE CheckCorrelation(b, c)
  <2> SUFFICES ASSUME c.equity > 0, NEW g \in {Quote[s] : s \in Contracts}
               PROVE  (NotionalOf(c, {h \in c.positions : Quote[h[1]] = g})
                        + (IF IsEntry(b) /\ Quote[b.sym] = g THEN ProposedNotional(b, c) ELSE 0)) * 100
                         <= Risk.correlation_threshold_pct * c.equity * 1000
    BY DEF CheckCorrelation, GroupWithin
  <2> DEFINE n == NotionalOf(c, {h \in c.positions : Quote[h[1]] = g})
             x == IF IsEntry(a) /\ Quote[a.sym] = g THEN ProposedNotional(a, c) ELSE 0
             y == IF IsEntry(b) /\ Quote[b.sym] = g THEN ProposedNotional(b, c) ELSE 0
             z == Risk.correlation_threshold_pct * c.equity * 1000
  <2>1. (n + x) * 100 <= z
    BY <1>7 DEF CheckCorrelation, GroupWithin
  <2>2. n \in Int /\ z \in Int
    BY <1>2, <1>3, <1>4
  <2>3. x \in Int /\ y \in Int /\ y <= x
    BY <1>1, <1>2
  <2> HIDE DEF n, x, y, z
  <2>4. (n + y) * 100 <= z
    BY <1>5, <2>1, <2>2, <2>3
  <2> QED BY <2>4 DEF n, y, z
<1> QED BY <1>6, <1>7 DEF b

LEMMA SmallerPasses ==
  ASSUME NEW a \in Requests, NEW c, ContextOK(c), NEW q \in Int, q <= a.qty
  PROVE  LET b == [a EXCEPT !.qty = q]
         IN  /\ CheckMaxPositions(b, c) = CheckMaxPositions(a, c)
             /\ CheckPortfolioRisk(a, c) => CheckPortfolioRisk(b, c)
             /\ CheckDailyLoss(b, c) = CheckDailyLoss(a, c)
             /\ CheckDrawdown(b, c) = CheckDrawdown(a, c)
             /\ CheckLiquidationRisk(b, c) = CheckLiquidationRisk(a, c)
             /\ CheckFundingRateCost(b, c) = CheckFundingRateCost(a, c)
             /\ CheckLeverageLimit(a, c) => CheckLeverageLimit(b, c)
<1> DEFINE b == [a EXCEPT !.qty = q]
<1>1. /\ With(a, c, c.positions) \in Int /\ With(b, c, c.positions) \in Int
      /\ With(b, c, c.positions) <= With(a, c, c.positions)
  BY WithFacts
<1>2. b.sym = a.sym /\ IsEntry(b) = IsEntry(a) /\ c.equity \in Nat
  BY DEF Requests, IsEntry, ContextOK
<1>3. Risk.max_portfolio_risk_pct \in Nat /\ Risk.max_leverage \in Nat
  BY SettingFacts DEF Settings
<1>4. Min({Risk.max_leverage, AccountLeverage}) \in Int
  <2> DEFINE x == Risk.max_leverage
  <2>1. x \in Int /\ AccountLeverage \in Int
    BY <1>3, SettingFacts
  <2> HIDE DEF x
  <2>2. Min({x, AccountLeverage}) \in Int
    BY <2>1, MinOfTwo
  <2> QED BY <2>2 DEF x
<1> HIDE DEF b
<1>5. CheckMaxPositions(b, c) = CheckMaxPositions(a, c)
  BY <1>2 DEF CheckMaxPositions
<1>6. CheckPortfolioRisk(a, c) => CheckPortfolioRisk(b, c)
  <2>1. Risk.max_portfolio_risk_pct * c.equity * 1000 \in Int
    BY <1>2, <1>3
  <2> QED BY <1>1, <1>2, <2>1 DEF CheckPortfolioRisk
<1>7. CheckDailyLoss(b, c) = CheckDailyLoss(a, c) /\ CheckDrawdown(b, c) = CheckDrawdown(a, c)
        /\ CheckLiquidationRisk(b, c) = CheckLiquidationRisk(a, c)
  BY DEF CheckDailyLoss, CheckDrawdown, CheckLiquidationRisk
<1>8. CheckFundingRateCost(b, c) = CheckFundingRateCost(a, c)
  BY <1>2 DEF CheckFundingRateCost
<1>9. CheckLeverageLimit(a, c) => CheckLeverageLimit(b, c)
  <2>1. Min({Risk.max_leverage, AccountLeverage}) * c.equity * 1000 \in Int
    BY <1>2, <1>4
  <2> QED BY <1>1, <1>2, <2>1 DEF CheckLeverageLimit
<1> QED BY <1>5, <1>6, <1>7, <1>8, <1>9 DEF b

\* evaluate() says ALL exactly when every enabled gate passes.
Passes(a, c) ==
  /\ "MAX_POSITIONS" \in rEnabled => CheckMaxPositions(a, c)
  /\ "PORTFOLIO_RISK" \in rEnabled => CheckPortfolioRisk(a, c)
  /\ "DAILY_LOSS" \in rEnabled => CheckDailyLoss(a, c)
  /\ "DRAWDOWN" \in rEnabled => CheckDrawdown(a, c)
  /\ "LIQUIDATION_RISK" \in rEnabled => CheckLiquidationRisk(a, c)
  /\ "FUNDING_RATE_COST" \in rEnabled => CheckFundingRateCost(a, c)
  /\ "LEVERAGE_LIMIT" \in rEnabled => CheckLeverageLimit(a, c)
  /\ "POSITION_CONCENTRATION" \in rEnabled => CheckPositionConcentration(a, c)
  /\ "CORRELATION" \in rEnabled => CheckCorrelation(a, c)

LEMMA LeastOfNine ==
  ASSUME NEW F \in SUBSET (1 .. 9), F # {}
  PROVE  Min(F) \in F
<1>1. \E x \in F : \A y \in F : x <= y
  <2>1. CASE F \subseteq 1 .. 9 /\ 1 \in F
    BY <2>1
  <2>2. CASE F \subseteq 2 .. 9 /\ 2 \in F
    BY <2>2
  <2>3. CASE F \subseteq 3 .. 9 /\ 3 \in F
    BY <2>3
  <2>4. CASE F \subseteq 4 .. 9 /\ 4 \in F
    BY <2>4
  <2>5. CASE F \subseteq 5 .. 9 /\ 5 \in F
    BY <2>5
  <2>6. CASE F \subseteq 6 .. 9 /\ 6 \in F
    BY <2>6
  <2>7. CASE F \subseteq 7 .. 9 /\ 7 \in F
    BY <2>7
  <2>8. CASE F \subseteq 8 .. 9 /\ 8 \in F
    BY <2>8
  <2>9. CASE F \subseteq 9 .. 9 /\ 9 \in F
    BY <2>9
  <2>11. F \subseteq 1 .. 9 => 1 \in F \/ F \subseteq 2 .. 9
    OBVIOUS
  <2>12. F \subseteq 2 .. 9 => 2 \in F \/ F \subseteq 3 .. 9
    OBVIOUS
  <2>13. F \subseteq 3 .. 9 => 3 \in F \/ F \subseteq 4 .. 9
    OBVIOUS
  <2>14. F \subseteq 4 .. 9 => 4 \in F \/ F \subseteq 5 .. 9
    OBVIOUS
  <2>15. F \subseteq 5 .. 9 => 5 \in F \/ F \subseteq 6 .. 9
    OBVIOUS
  <2>16. F \subseteq 6 .. 9 => 6 \in F \/ F \subseteq 7 .. 9
    OBVIOUS
  <2>17. F \subseteq 7 .. 9 => 7 \in F \/ F \subseteq 8 .. 9
    OBVIOUS
  <2>18. F \subseteq 8 .. 9 => 8 \in F \/ F \subseteq 9 .. 9
    OBVIOUS
  <2>19. F \subseteq 9 .. 9 => 9 \in F
    <3>1. PICK x \in F : TRUE
      OBVIOUS
    <3> QED BY <3>1
  <2> QED BY <2>1, <2>2, <2>3, <2>4, <2>5, <2>6, <2>7, <2>8, <2>9,
             <2>11, <2>12, <2>13, <2>14, <2>15, <2>16, <2>17, <2>18, <2>19
<1> QED BY <1>1 DEF Min

LEMMA GatesVerdict ==
  ASSUME NEW a, NEW c
  PROVE  GatesEvaluate(a, c) = "ALL" <=> Passes(a, c)
<1> DEFINE gs == GateSequence(a, c)
           failing == {i \in DOMAIN gs : gs[i][1] \in rEnabled /\ ~gs[i][2]}
<1>1. DOMAIN gs = 1 .. 9
  BY DEF GateSequence
<1>2. /\ gs[1] = <<"MAX_POSITIONS", CheckMaxPositions(a, c)>>
      /\ gs[2] = <<"PORTFOLIO_RISK", CheckPortfolioRisk(a, c)>>
      /\ gs[3] = <<"DAILY_LOSS", CheckDailyLoss(a, c)>>
      /\ gs[4] = <<"DRAWDOWN", CheckDrawdown(a, c)>>
      /\ gs[5] = <<"LIQUIDATION_RISK", CheckLiquidationRisk(a, c)>>
      /\ gs[6] = <<"FUNDING_RATE_COST", CheckFundingRateCost(a, c)>>
      /\ gs[7] = <<"LEVERAGE_LIMIT", CheckLeverageLimit(a, c)>>
      /\ gs[8] = <<"POSITION_CONCENTRATION", CheckPositionConcentration(a, c)>>
      /\ gs[9] = <<"CORRELATION", CheckCorrelation(a, c)>>
  BY DEF GateSequence
<1>3. \A i \in 1 .. 9 : i \in {1, 2, 3, 4, 5, 6, 7, 8, 9}
  OBVIOUS
<1> HIDE DEF gs
<1>4. \A i \in 1 .. 9 : gs[i][1] # "ALL"
  BY <1>2, <1>3
<1>5. failing = {} <=> \A i \in 1 .. 9 : gs[i][1] \in rEnabled => gs[i][2]
  BY <1>1
<1>6. (\A i \in 1 .. 9 : gs[i][1] \in rEnabled => gs[i][2]) <=> Passes(a, c)
  BY <1>2, <1>3 DEF Passes
<1>7. GatesEvaluate(a, c) = IF failing = {} THEN "ALL" ELSE gs[Min(failing)][1]
  BY DEF GatesEvaluate, gs
<1>8. failing \in SUBSET (1 .. 9)
  BY <1>1
<1> HIDE DEF failing
<1>9. failing # {} => GatesEvaluate(a, c) # "ALL"
  BY <1>4, <1>7, <1>8, LeastOfNine
<1> QED BY <1>5, <1>6, <1>7, <1>9

\* Gating before sizing is sound, whatever the account.
LEMMA SizedPasses ==
  ASSUME NEW a \in Requests, NEW c, ContextOK(c), a.qty % 10 = 0, GatesEvaluate(a, c) = "ALL"
  PROVE  GatesEvaluate([a EXCEPT !.qty = ComputeSize(a, c)], c) = "ALL"
<1> DEFINE q == ComputeSize(a, c)
           b == [a EXCEPT !.qty = q]
<1>1. q \in Nat /\ q <= a.qty
  BY SizeFacts
<1> HIDE DEF q
<1>2. Passes(a, c)
  BY GatesVerdict
<1>3. Passes(b, c)
  BY <1>1, <1>2, SmallerPasses, SmallerPassesGroups DEF Passes
<1> HIDE DEF b
<1>4. GatesEvaluate(b, c) = "ALL"
  BY <1>3, GatesVerdict
<1> QED BY <1>4 DEF b, q

\* In the bare context no gate stands in the way of an exit.
LEMMA ExitPasses ==
  ASSUME NEW a \in Requests, a.type = "EXIT", NEW c, ContextOK(c), c.kind = "bare"
  PROVE  GatesEvaluate(a, c) = "ALL"
<1>1. ~IsEntry(a) /\ c.positions = {} /\ c.equity = 0 /\ c.pnl = 0 /\ c.drawdown = 0
  BY DEF IsEntry, ContextOK
<1>2. /\ Risk.max_positions \in Nat /\ Risk.max_daily_loss_usd \in Nat /\ Risk.max_drawdown_pct \in Nat
  BY SettingFacts DEF Settings
<1>3. CheckMaxPositions(a, c)
  BY <1>1, <1>2, FS_EmptySet DEF CheckMaxPositions
<1>4. CheckPortfolioRisk(a, c) /\ CheckLiquidationRisk(a, c) /\ CheckFundingRateCost(a, c)
  BY <1>1 DEF CheckPortfolioRisk, CheckLiquidationRisk, CheckFundingRateCost
<1>5. CheckDailyLoss(a, c) /\ CheckDrawdown(a, c)
  BY <1>1, <1>2 DEF CheckDailyLoss, CheckDrawdown
<1>6. CheckLeverageLimit(a, c) /\ CheckPositionConcentration(a, c) /\ CheckCorrelation(a, c)
  BY <1>1 DEF CheckLeverageLimit, CheckPositionConcentration, CheckCorrelation, GroupWithin
<1>7. Passes(a, c)
  BY <1>3, <1>4, <1>5, <1>6 DEF Passes
<1> QED BY <1>7, GatesVerdict

-----------------------------------------------------------------------------
LEMMA RiskInitially ==
  ASSUME RInit
  PROVE  RiskInv
<1>1. Risk.max_daily_loss_usd \in Nat
  BY SettingFacts DEF Settings
<1>2. rEquity \in Nat /\ rPnl \in Int /\ rBook \in [Held -> Int]
  BY <1>1, RiskAssumption DEF RInit
<1> QED BY <1>2 DEF RInit, RiskInv, None, VerdictOK, RaisedWithinCaps, ExposureAgreesWithGates

LEMMA TakeContextKeeps ==
  ASSUME RiskInv, NEW k \in Kinds, TakeContext(k)
  PROVE  RiskInv'
<1>1. ContextOK(Context(k))
  BY DEF RiskInv, ContextOK, Context
<1> QED BY <1>1 DEF RiskInv, TakeContext, None, VerdictOK, RaisedWithinCaps, ExposureAgreesWithGates

\* The tracker sums by symbol what the gate sums at once.
LEMMA ExposureAgrees ==
  ASSUME NEW c, ContextOK(c)
  PROVE  SumOf(NotionalPerSymbol(c), DOMAIN NotionalPerSymbol(c)) = NotionalOf(c, c.positions)
<1> DEFINE P == c.positions
           f == [h \in P |-> Notional(c, h)]
           key == [h \in P |-> h[1]]
           K == {h[1] : h \in P}
           g == [k \in K |-> SumOf(f, {x \in P : key[x] = k})]
<1>1. IsFiniteSet(P) /\ \A h \in P : f[h] \in Int
  BY NotionalInt
<1>2. IsFiniteSet(K)
  <2>1. K \in SUBSET Contracts
    BY DEF ContextOK, Held
  <2> QED BY <2>1, RiskAssumption, FS_Subset
<1>3. \A h \in P : key[h] \in K
  OBVIOUS
<1>4. NotionalPerSymbol(c) = g
  <2>1. ASSUME NEW k \in K
        PROVE  NotionalOf(c, {h \in P : h[1] = k}) = SumOf(f, {x \in P : key[x] = k})
    <3> DEFINE hs == {h \in P : h[1] = k}
               e == [h \in hs |-> Notional(c, h)]
    <3>1. hs \in SUBSET P /\ hs = {x \in P : key[x] = k}
      OBVIOUS
    <3>2. IsFiniteSet(hs) /\ \A h \in hs : e[h] \in Int /\ e[h] = f[h]
      BY <3>1, NotionalInt
    <3> HIDE DEF e, f, hs
    <3>3. SumOf(e, hs) = SumOf(f, hs)
      BY <3>2, SumSame
    <3> QED BY <3>1, <3>3 DEF NotionalOf, e, hs
  <2> QED BY <2>1 DEF NotionalPerSymbol
<1>5. DOMAIN g = K
  OBVIOUS
<1>6. SumOf(g, K) = SumOf(f, P)
  <2> HIDE DEF f, key, K, P
  <2> QED BY <1>1, <1>2, <1>3, SumByGroup
<1> HIDE DEF g, K
<1> QED BY <1>4, <1>5, <1>6 DEF NotionalOf

LEMMA ComputeExposureKeeps ==
  ASSUME RiskInv, ComputeExposure
  PROVE  RiskInv'
<1>1. ContextOK(rCtx)
  BY DEF RiskInv, ComputeExposure
<1>2. ExposureAgreesWithGates'
  BY <1>1, ExposureAgrees DEF ComputeExposure, ExposureAgreesWithGates
<1>3. VerdictOK'
  BY DEF RiskInv, VerdictOK, ComputeExposure, GatesEvaluate, GateSequence
<1> QED BY <1>2, <1>3 DEF RiskInv, ComputeExposure, RaisedWithinCaps

LEMMA EvaluateKeeps ==
  ASSUME RiskInv, NEW a \in Requests, Evaluate(a)
  PROVE  RiskInv'
<1>1. rCtx.is = "ctx" /\ rCtx' = rCtx /\ rEnabled' = rEnabled
  BY DEF RiskInv, Evaluate, ContextOK
<1>2. GatesEvaluate(a, rCtx)' = GatesEvaluate(a, rCtx)
  BY <1>1 DEF GatesEvaluate, GateSequence
<1>3. VerdictOK'
  BY <1>1, <1>2 DEF Evaluate, VerdictOK
<1> QED BY <1>3 DEF RiskInv, Evaluate, RaisedWithinCaps, ExposureAgreesWithGates

\* The order's quantity is a number, and exceeds the sized one only within the caps.
LEMMA PreparedFacts ==
  ASSUME NEW q \in Nat, NEW s \in Contracts, NEW p
  PROVE  /\ PrepareQuantity(q, s, p) \in Int
         /\ PrepareQuantity(q, s, p) > q =>
              PrepareQuantity(q, s, p) <= p /\ WithinCap(PrepareQuantity(q, s, p), s)
<1>1. Filters.step_size \in Nat \ {0} /\ Filters.min_qty \in Nat /\ Filters.min_notional \in Nat
      /\ Mark[s] \in Nat \ {0}
  BY RiskAssumption
<1>2. \A n \in Int : RoundDown(n) \in Int /\ RoundDown(n) <= n
  <2> SUFFICES ASSUME NEW n \in Int PROVE RoundDown(n) \in Int /\ RoundDown(n) <= n
    OBVIOUS
  <2> DEFINE d == Filters.step_size
  <2>1. d \in Nat \ {0}
    BY <1>1
  <2> HIDE DEF d
  <2>2. n \div d \in Int /\ (n \div d) * d <= n
    BY <2>1
  <2>3. (n \div d) * d \in Int
    BY <2>1, <2>2
  <2> QED BY <2>2, <2>3 DEF RoundDown, d
<1>3. FloorToCompliant(q, s) \in Int
  <2> DEFINE t == Max({q, Filters.min_qty})
             n == CeilDiv(Filters.min_notional, Mark[s])
  <2>1. t \in Int
    <3> DEFINE m == Filters.min_qty
    <3>1. m \in Int /\ q \in Int
      BY <1>1
    <3> HIDE DEF m
    <3>2. Max({q, m}) \in Int
      BY <3>1, MaxOfTwo, Zenon
    <3> QED BY <3>2 DEF m
  <2>2. n \in Int
    BY <1>1 DEF CeilDiv
  <2>3. RoundUp(n) \in Int
    BY <1>1, <1>2, <2>2 DEF RoundUp
  <2> HIDE DEF t, n
  <2> QED BY <2>1, <2>2, <2>3 DEF FloorToCompliant, t, n
<1> QED BY <1>2, <1>3 DEF PrepareQuantity

LEMMA PlaceOrderKeeps ==
  ASSUME RiskInv, NEW u \in BOOLEAN, NEW side \in Sides, NEW liq, PlaceOrder(u, side, liq)
  PROVE  RiskInv'
<1> DEFINE precap == IF u THEN rOut.qty ELSE rAct.qty
           final == PrepareQuantity(rOut.qty, rAct.sym, precap)
           h == <<rAct.sym, side>>
           size == IF IsEntry(rAct) THEN rBook[h] + final ELSE Max({0, rBook[h] - final})
<1>1. rAct \in Requests /\ ContextOK(rCtx) /\ rOut.qty = ComputeSize(rAct, rCtx)
  BY DEF RiskInv, VerdictOK, PlaceOrder, None
<1>2. rOut.qty \in Nat /\ rAct.sym \in Contracts
  BY <1>1, SizeFacts DEF Requests
<1> HIDE DEF precap
<1>3. final \in Int /\ (final > rOut.qty => final <= precap /\ WithinCap(final, rAct.sym))
  BY <1>2, PreparedFacts
<1> HIDE DEF final
<1>4. h \in Held /\ rBook[h] \in Int
  BY <1>2 DEF RiskInv, Held
<1>5. size \in Int
  <2> DEFINE x == rBook[h] - final
  <2>1. x \in Int /\ 0 \in Int
    BY <1>3, <1>4
  <2> HIDE DEF x
  <2>2. Max({0, x}) \in Int
    BY <2>1, MaxOfTwo, Zenon
  <2> QED BY <1>3, <1>4, <2>2 DEF x
<1>6. /\ rBook' = [rBook EXCEPT ![h] = size]
      /\ rOut' = [is |-> "order", qty |-> final, sized |-> rOut.qty, precap |-> precap]
      /\ UNCHANGED <<rEquity, rPnl, rEnabled, rCtx, rAct, rReport>>
  BY DEF PlaceOrder, precap, final
<1> HIDE DEF size, h
<1>7. rBook' \in [Held -> Int]
  BY <1>5, <1>6 DEF RiskInv
<1>8. RaisedWithinCaps' /\ VerdictOK'
  BY <1>3, <1>6 DEF RaisedWithinCaps, VerdictOK, WithinCap
<1> QED BY <1>6, <1>7, <1>8 DEF RiskInv, ExposureAgreesWithGates

LEMMA RiskStep ==
  ASSUME RiskInv, RNext
  PROVE  RiskInv'
<1>1. ASSUME NEW h \in Held, PositionCloses(h) PROVE RiskInv'
  <2>1. GatesEvaluate(rAct, rCtx)' = GatesEvaluate(rAct, rCtx)
    BY <1>1 DEF PositionCloses, GatesEvaluate, GateSequence
  <2>2. VerdictOK'
    BY <1>1, <2>1 DEF RiskInv, VerdictOK, PositionCloses
  <2> QED BY <1>1, <2>2 DEF RiskInv, PositionCloses, RaisedWithinCaps, ExposureAgreesWithGates
<1>2. ASSUME NEW g \in Switchable, SetGateEnabled(g) PROVE RiskInv'
  BY <1>2 DEF RiskInv, SetGateEnabled, None, VerdictOK, RaisedWithinCaps, ExposureAgreesWithGates
<1> QED BY <1>1, <1>2, TakeContextKeeps, ComputeExposureKeeps, EvaluateKeeps, PlaceOrderKeeps DEF RNext

LEMMA RiskStutters ==
  ASSUME RiskInv, UNCHANGED rVars
  PROVE  RiskInv'
<1>1. GatesEvaluate(rAct, rCtx)' = GatesEvaluate(rAct, rCtx)
  BY DEF rVars, GatesEvaluate, GateSequence
<1>2. VerdictOK'
  BY <1>1 DEF RiskInv, VerdictOK, rVars
<1> QED BY <1>2 DEF RiskInv, rVars, RaisedWithinCaps, ExposureAgreesWithGates

LEMMA RiskImplies ==
  ASSUME RiskInv
  PROVE  RiskSound
<1>1. rOut.is = "verdict" => rAct \in Requests /\ ContextOK(rCtx)
  BY DEF RiskInv, VerdictOK, None
<1>2. SizedStillPasses
  BY <1>1, SizedPasses DEF RiskInv, VerdictOK, SizedStillPasses
<1>3. CloseIsNeverGated
  BY <1>1, ExitPasses DEF RiskInv, VerdictOK, CloseIsNeverGated
<1> QED BY <1>2, <1>3 DEF RiskInv, RiskSound

\* Gates, sizer, tracker and the engine's last adjustment agree on what an approved
\* action may become, and no gate holds back a close-all (RiskManager.evaluate,
\* _prepare_quantity), for any settings, contracts, marks and account.
THEOREM RiskHolds == RSpec => []RiskSound
BY RiskInitially, RiskStep, RiskStutters, RiskImplies, PTL DEF RSpec

\* The same beside the circuit breakers, as the run explores them.
THEOREM EvaluationHolds == RiskSpec => []RiskSound
<1>1. RiskInit => RiskInv
  BY RiskInitially DEF RiskInit
<1>2. RiskInv /\ [RiskNext]_<<vars, rVars>> => RiskInv'
  BY RiskStep, RiskStutters DEF RiskNext
<1> QED BY <1>1, <1>2, RiskImplies, PTL DEF RiskSpec
=============================================================================
