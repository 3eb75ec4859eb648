------------------------- MODULE TradingCycleProofs -------------------------
(***************************************************************************)
(* Proofs about TradingCycle for any pairs, handlers, alerts, limits and   *)
(* configurations: one trade at a time, every locked trade under the lock, *)
(* and every stamped alert acted on at most once.                          *)
(***************************************************************************)
EXTENDS TradingCycle, TLAPS

Points == CyclePoints \cup HandlerPoints

\* Where a task is while it is in the lock's queue, or was.
Locked == {"act", "checked", "cancelling"}

\* The lock: nobody queues twice, only tasks in an action queue, and whoever is
\* past the beginning of its action is at the head.
LockInOrder ==
  /\ at \in [Tasks -> Points]
  /\ \A i, j \in DOMAIN queue : queue[i] = queue[j] => i = j
  /\ \A i \in DOMAIN queue : at[queue[i]] \in Locked
  /\ \A i \in DOMAIN queue : at[queue[i]] # "act" => i = 1
  /\ TradesUnderLock

\* The scalp loop acts on the first decision of a list that has one.
ScalpHasDecision ==
  config.mode = "scalp" =>
    /\ at[Cycle] \in {"idle", "decide", "timestop", "scalp"} \cup Locked
    /\ at[Cycle] \in {"act", "checked"} => loc.todo # <<>>

\* As long as the history is clean no order is on its way unseen, and the cycle
\* past its flat check still finds the account flat.
CleanIsFlat ==
  /\ clean => live = {}
  /\ clean /\ at[Cycle] = "checked" /\ job[Cycle].kind = "ENTER" => Flat
  /\ OneTrade

\* An alert that was acted on is remembered or stale.
ActedIsKnown ==
  \A a \in Alerts : a.stamped => /\ acted[a] <= 1
                                 /\ acted[a] = 1 => seen[a] >= 0 \/ now > Fresh

\* The inductive invariant.
CInv == TypeOK /\ LockInOrder /\ ScalpHasDecision /\ CleanIsFlat /\ ActedIsKnown

-----------------------------------------------------------------------------
(* Facts about the operators *)

LEMMA PairFacts ==
  /\ Pairs[1] \in Symbols /\ DOMAIN Pairs = 1 .. Len(Pairs) /\ Len(Pairs) \in Nat \ {0}
  /\ \A i \in DOMAIN Pairs : NextIndex(i) \in DOMAIN Pairs /\ Pairs[i] \in Symbols
  /\ \A s \in Symbols : IndexOf(s) \in DOMAIN Pairs
<1>1. DOMAIN Pairs = 1 .. Len(Pairs) /\ Len(Pairs) \in Nat \ {0}
  BY PairsAssumption
<1>2. \A s \in Symbols : IndexOf(s) \in DOMAIN Pairs
  BY DEF Symbols, IndexOf
<1> QED BY <1>1, <1>2 DEF NextIndex, Symbols

LEMMA TaskFacts ==
  /\ Cycle \in Tasks /\ Manual \in Tasks /\ Cycle # Manual
  /\ Handlers \subseteq Tasks \ {Cycle, Manual}
BY TasksAssumption DEF Tasks

LEMMA ConfigFacts ==
  ASSUME NEW c \in Configs
  PROVE  c.mode \in {"trend", "scalp", "legacy"} /\ c.serial \in BOOLEAN /\ c.roll \in BOOLEAN
BY ConfigsAssumption DEF Modes

LEMMA ValueFacts ==
  /\ NoPositions \in Views
  /\ NoLocals \in Locals
  /\ NoJob \in Jobs
  /\ \A j \in Jobs : OrderOf(j) \in Orders
<1>1. NoPositions \in Views
  BY DEF NoPositions, Views
<1> QED BY <1>1, PairFacts DEF NoLocals, Locals, NoJob, Jobs, OrderOf, Orders

LEMMA ViewFacts ==
  ASSUME TypeOK
  PROVE  Positions \in Views
BY DEF TypeOK, Positions, Sign, Views

-----------------------------------------------------------------------------
(* The lock *)

\* A step within an action, or of a task that is not queued.
LEMMA LockStays ==
  ASSUME TypeOK, LockInOrder, NEW p \in Tasks, NEW point \in Points,
         Goto(p, point), UNCHANGED queue,
         \/ at[p] \notin Locked /\ point # "checked"
         \/ p = Manual
         \/ Holds(p) /\ point \in {"checked", "cancelling"}
  PROVE  LockInOrder'
<1>1. /\ at' = [at EXCEPT ![p] = point] /\ at' \in [Tasks -> Points]
      /\ queue \in Seq(Tasks \ {Manual}) /\ queue' = queue
  BY DEF Goto, LockInOrder, TypeOK
<1>2. CASE p = Manual \/ at[p] \notin Locked
  <2>1. \A i \in DOMAIN queue : queue[i] # p /\ queue[i] \in Tasks
    BY <1>1, <1>2 DEF LockInOrder
  <2>2. p = Manual \/ point # "checked"
    BY <1>1, <1>2, <2>1 DEF Holds
  <2> QED
    BY <1>1, <2>1, <2>2 DEF LockInOrder, TradesUnderLock, Holds
<1>3. CASE Holds(p) /\ point \in {"checked", "cancelling"} /\ p # Manual
  <2>1. 1 \in DOMAIN queue /\ queue[1] = p /\ queue # <<>> /\ Head(queue) = p
    BY <1>1, <1>3 DEF Holds
  <2>2. \A i \in DOMAIN queue : i # 1 => queue[i] # p /\ queue[i] \in Tasks
    BY <1>1, <2>1 DEF LockInOrder
  <2>3. \A i \in DOMAIN queue' : at'[queue'[i]] \in Locked /\ (at'[queue'[i]] # "act" => i = 1)
    BY <1>1, <1>3, <2>1, <2>2 DEF LockInOrder, Locked
  <2>4. TradesUnderLock'
    BY <1>1, <1>3, <2>1 DEF LockInOrder, TradesUnderLock, Holds
  <2> QED BY <1>1, <2>3, <2>4 DEF LockInOrder
<1> QED BY <1>2, <1>3

\* A task enters _execute_ai_action and waits for the lock.
LEMMA LockJoins ==
  ASSUME TypeOK, LockInOrder, NEW p \in Tasks \ {Manual}, NEW j, Act(p, j), at[p] \notin Locked
  PROVE  LockInOrder' /\ queue' \in Seq(Tasks \ {Manual})
<1>1. /\ at' = [at EXCEPT ![p] = "act"] /\ at' \in [Tasks -> Points]
      /\ queue \in Seq(Tasks \ {Manual}) /\ queue' = Append(queue, p)
      /\ queue' \in Seq(Tasks \ {Manual})
  BY DEF Act, Goto, LockInOrder, TypeOK, Points, CyclePoints
<1>2. /\ Len(queue') = Len(queue) + 1 /\ queue'[Len(queue) + 1] = p
      /\ \A i \in 1 .. Len(queue) : queue'[i] = queue[i]
      /\ DOMAIN queue = 1 .. Len(queue) /\ DOMAIN queue' = 1 .. Len(queue) + 1
  BY <1>1
<1>3. \A i \in 1 .. Len(queue) : queue[i] # p /\ queue[i] \in Tasks
  BY <1>1, <1>2 DEF LockInOrder
<1>4. ASSUME NEW i \in DOMAIN queue', NEW k \in DOMAIN queue', queue'[i] = queue'[k]
      PROVE  i = k
  <2>1. CASE i \in 1 .. Len(queue) /\ k \in 1 .. Len(queue)
    BY <1>2, <1>4, <2>1 DEF LockInOrder
  <2> QED BY <1>1, <1>2, <1>3, <1>4, <2>1
<1>5. ASSUME NEW i \in DOMAIN queue'
      PROVE  at'[queue'[i]] \in Locked /\ (at'[queue'[i]] # "act" => i = 1)
  <2>1. CASE i \in 1 .. Len(queue)
    BY <1>1, <1>2, <1>3, <2>1 DEF LockInOrder
  <2>2. CASE i = Len(queue) + 1
    BY <1>1, <1>2, <2>2 DEF Locked, LockInOrder
  <2> QED BY <1>1, <1>2, <2>1, <2>2
<1>6. TradesUnderLock'
  <2> SUFFICES ASSUME NEW q \in Tasks \ {Manual}, at'[q] = "checked"
               PROVE  queue' # <<>> /\ Head(queue') = q
    BY DEF TradesUnderLock, Holds
  <2>1. at[q] = "checked"
    BY <1>1 DEF LockInOrder
  <2>2. queue # <<>> /\ Head(queue) = q
    BY <2>1 DEF LockInOrder, TradesUnderLock, Holds
  <2> QED BY <1>1, <2>2
<1> QED BY <1>1, <1>4, <1>5, <1>6 DEF LockInOrder

\* A task leaves its action: the holder frees the lock, any other leaves it alone.
LEMMA LockLeaves ==
  ASSUME TypeOK, LockInOrder, NEW p \in Tasks, NEW point \in Points \ Locked,
         Goto(p, point), queue' = Released(p),
         Holds(p) \/ p = Manual \/ at[p] \in {"checked", "cancelling"}
  PROVE  LockInOrder' /\ queue' \in Seq(Tasks \ {Manual})
<1>1. /\ at' = [at EXCEPT ![p] = point] /\ at' \in [Tasks -> Points]
      /\ queue \in Seq(Tasks \ {Manual})
  BY DEF Goto, LockInOrder, TypeOK
<1>2. CASE Holds(p)
  <2>1. /\ queue # <<>> /\ queue[1] = p /\ queue' = Tail(queue)
        /\ queue' \in Seq(Tasks \ {Manual})
        /\ DOMAIN queue = 1 .. Len(queue) /\ DOMAIN queue' = 1 .. Len(queue) - 1
        /\ \A i \in DOMAIN queue' : queue'[i] = queue[i + 1] /\ i + 1 \in DOMAIN queue /\ i + 1 # 1
        /\ 1 \in DOMAIN queue
    BY <1>1, <1>2 DEF Holds, Released
  <2>2. \A i \in DOMAIN queue' : queue'[i] # p /\ queue'[i] \in Tasks /\ at[queue'[i]] = "act"
    BY <1>1, <2>1 DEF LockInOrder
  <2>3. \A i, k \in DOMAIN queue' : queue'[i] = queue'[k] => i = k
    BY <2>1 DEF LockInOrder
  <2>4. \A i \in DOMAIN queue' : at'[queue'[i]] = "act"
    BY <1>1, <2>2
  <2>5. TradesUnderLock'
    <3> SUFFICES ASSUME NEW q \in Tasks \ {Manual}, at'[q] = "checked"
                 PROVE  FALSE
      BY DEF TradesUnderLock
    <3>1. q # p /\ at[q] = "checked"
      BY <1>1 DEF Locked, LockInOrder
    <3>2. Head(queue) = q
      BY <3>1 DEF LockInOrder, TradesUnderLock, Holds
    <3> QED BY <1>2, <3>1, <3>2 DEF Holds
  <2> QED BY <1>1, <2>1, <2>3, <2>4, <2>5 DEF LockInOrder, Locked
<1>3. CASE ~Holds(p)
  <2>1. queue' = queue
    BY <1>3 DEF Released
  <2>2. \A i \in DOMAIN queue : queue[i] # p /\ queue[i] \in Tasks
    BY <1>1, <1>3 DEF LockInOrder, Holds
  <2> QED
    BY <1>1, <2>1, <2>2 DEF LockInOrder, TradesUnderLock, Holds, Locked
<1> QED BY <1>2, <1>3

-----------------------------------------------------------------------------
(* The control state *)

ControlTypes ==
  /\ queue \in Seq(Tasks \ {Manual})
  /\ at[Cycle] \in CyclePoints /\ at[Manual] \in {"idle", "checked"}
  /\ \A h \in Handlers : at[h] \in HandlerPoints
  /\ job \in [Tasks -> Jobs] /\ loc \in Locals
  /\ index \in DOMAIN Pairs /\ recent \in SUBSET Symbols /\ scalpHeld \in SUBSET Symbols

WorldTypes ==
  /\ config \in Configs
  /\ pos \in [Symbols -> -MaxUnits .. MaxUnits] /\ live \in SUBSET Orders
  /\ seen \in [Alerts -> -1 .. MaxClock] /\ now \in 0 .. MaxClock
  /\ acted \in [Alerts -> Nat]
  /\ faults \in 0 .. MaxFaults /\ clean \in BOOLEAN

ControlInv == ControlTypes /\ LockInOrder /\ ScalpHasDecision
WorldInv == WorldTypes /\ CleanIsFlat /\ ActedIsKnown

\* The cycle stays where it is, or goes somewhere before its flat check.
CycleQuiet ==
  \/ at'[Cycle] # "checked"
  \/ at'[Cycle] = at[Cycle] /\ job'[Cycle] = job[Cycle]

\* A task moves to a point of its own.
LEMMA GotoTypes ==
  ASSUME CInv, NEW p \in Tasks, NEW point, Goto(p, point),
         p = Cycle => point \in CyclePoints,
         p = Manual => point \in {"idle", "checked"},
         p \in Handlers => point \in HandlerPoints
  PROVE  /\ at' = [at EXCEPT ![p] = point] /\ at' \in [Tasks -> Points]
         /\ at'[Cycle] \in CyclePoints /\ at'[Manual] \in {"idle", "checked"}
         /\ \A h \in Handlers : at'[h] \in HandlerPoints
         /\ point \in Points
<1>1. at \in [Tasks -> Points] /\ at' = [at EXCEPT ![p] = point]
  BY DEF CInv, LockInOrder, Goto
<1>2. point \in Points
  BY TaskFacts DEF Tasks, Points, HandlerPoints, CyclePoints
<1> QED BY <1>1, <1>2, TaskFacts DEF CInv, TypeOK

\* _execute_ai_action returns: the lock is free, the caller goes on.
LEMMA ReturnControl ==
  ASSUME CInv, NEW p \in Tasks, NEW ok \in BOOLEAN, Return(p, ok),
         Holds(p) \/ p = Manual \/ at[p] = "checked",
         p = Cycle => at[p] \in {"act", "checked"},
         UNCHANGED <<config, recent>>
  PROVE  ControlInv' /\ CycleQuiet
<1>0. /\ queue' = Released(p) /\ job' = [job EXCEPT ![p] = NoJob]
      /\ job' \in [Tasks -> Jobs] /\ recent' \in SUBSET Symbols
  BY ValueFacts DEF Return, Leave, CInv, TypeOK
<1>1. CASE p # Cycle
  <2>1. Goto(p, "idle") /\ UNCHANGED <<loc, index, scalpHeld>>
    BY <1>1 DEF Return
  <2>2. /\ at' = [at EXCEPT ![p] = "idle"] /\ at' \in [Tasks -> Points]
        /\ at'[Cycle] \in CyclePoints /\ at'[Manual] \in {"idle", "checked"}
        /\ \A h \in Handlers : at'[h] \in HandlerPoints
        /\ "idle" \in Points \ Locked
    BY <1>1, <2>1, GotoTypes DEF HandlerPoints, Locked
  <2>3. LockInOrder' /\ queue' \in Seq(Tasks \ {Manual})
    BY <1>0, <2>1, <2>2, LockLeaves DEF CInv
  <2>4. at'[Cycle] = at[Cycle] /\ job'[Cycle] = job[Cycle]
    BY <1>0, <1>1, <2>2, TaskFacts DEF CInv, LockInOrder, TypeOK
  <2> QED
    BY <1>0, <2>1, <2>2, <2>3, <2>4 DEF ControlInv, ControlTypes, CycleQuiet, CInv, TypeOK,
       ScalpHasDecision
<1>2. CASE p = Cycle
  <2>1. CycleResumes(job[p], ok)
    BY <1>2 DEF Return
  <2>2. PICK point \in {"idle", "scan", "scalp"} :
          /\ Goto(Cycle, point)
          /\ config.mode = "scalp" => point = "scalp"
          /\ loc' \in Locals /\ index' \in DOMAIN Pairs /\ scalpHeld' \in SUBSET Symbols
    <3>0. /\ loc \in Locals /\ index \in DOMAIN Pairs /\ scalpHeld \in SUBSET Symbols
          /\ config \in Configs /\ job[p] \in Jobs
      BY DEF CInv, TypeOK
    <3>1. CASE config.mode = "trend" /\ job[p].kind = "ENTER"
      <4>1. UNCHANGED scalpHeld /\ (\/ index' = NextIndex(index) /\ CycleEnds
                                    \/ ScanOn)
        BY <2>1, <3>1 DEF CycleResumes
      <4>2. CASE index' = NextIndex(index) /\ CycleEnds
        BY <3>0, <3>1, <4>1, <4>2, PairFacts, ValueFacts DEF CycleEnds
      <4>3. CASE ScanOn
        <5>1. index' \in DOMAIN Pairs
          BY <3>0, <4>3, PairFacts DEF ScanOn
        <5>2. CASE loc.scanned + 1 < Len(Pairs)
          <6>1. Goto(Cycle, "scan") /\ loc' = [loc EXCEPT !.scanned = @ + 1]
            BY <4>3, <5>2 DEF ScanOn
          <6>2. loc.scanned + 1 \in 0 .. Len(Pairs) - 1
            BY <3>0, <5>2, PairFacts DEF Locals
          <6>3. loc' \in Locals
            BY <3>0, <6>1, <6>2 DEF Locals
          <6> QED BY <3>0, <3>1, <4>1, <5>1, <6>1, <6>3
        <5>3. CASE ~(loc.scanned + 1 < Len(Pairs))
          BY <3>0, <3>1, <4>1, <4>3, <5>1, <5>3, ValueFacts DEF ScanOn, CycleEnds
        <5> QED BY <5>2, <5>3
      <4> QED BY <4>1, <4>2, <4>3
    <3>2. CASE config.mode = "scalp"
      <4>1. loc.todo # <<>> /\ loc.todo \in Seq(Jobs) /\ Tail(loc.todo) \in Seq(Jobs)
        BY <1>2, <3>0, <3>2 DEF CInv, ScalpHasDecision, Locals
      <4>2. PICK slots \in SUBSET Symbols :
              /\ scalpHeld' \in SUBSET Symbols
              /\ loc' = [loc EXCEPT !.todo = Tail(@), !.slots = slots]
              /\ Goto(Cycle, "scalp") /\ UNCHANGED index
        <5> DEFINE update(held) == IF ~ok THEN held
                                   ELSE IF job[p].kind = "ENTER" THEN held \cup {job[p].sym}
                                   ELSE held \ {job[p].sym}
        <5>1. /\ scalpHeld' = update(scalpHeld)
              /\ loc' = [loc EXCEPT !.todo = Tail(@), !.slots = update(@)]
              /\ Goto(Cycle, "scalp") /\ UNCHANGED index
          BY <2>1, <3>2 DEF CycleResumes
        <5>2. \A held \in SUBSET Symbols : update(held) \in SUBSET Symbols
          BY <3>0 DEF Jobs
        <5>3. loc.slots \in SUBSET Symbols
          BY <3>0 DEF Locals
        <5>4. update(loc.slots) \in SUBSET Symbols /\ scalpHeld' \in SUBSET Symbols
          BY <3>0, <5>1, <5>2, <5>3
        <5>5. loc' = [loc EXCEPT !.todo = Tail(@), !.slots = update(loc.slots)]
          BY <5>1
        <5> HIDE DEF update
        <5> QED BY <5>1, <5>4, <5>5
      <4>3. loc' \in Locals
        BY <3>0, <4>1, <4>2 DEF Locals
      <4> QED BY <3>0, <4>2, <4>3
    <3>3. CASE ~(config.mode = "trend" /\ job[p].kind = "ENTER") /\ config.mode # "scalp"
      BY <2>1, <3>0, <3>3, ValueFacts DEF CycleResumes, CycleEnds
    <3> QED BY <3>1, <3>2, <3>3
  <2>3. /\ at' = [at EXCEPT ![Cycle] = point] /\ at' \in [Tasks -> Points]
        /\ at'[Cycle] \in CyclePoints /\ at'[Manual] \in {"idle", "checked"}
        /\ \A h \in Handlers : at'[h] \in HandlerPoints
        /\ point \in Points \ Locked
    BY <2>2, GotoTypes, TaskFacts DEF CyclePoints, Locked
  <2>4. LockInOrder' /\ queue' \in Seq(Tasks \ {Manual})
    BY <1>0, <1>2, <2>2, <2>3, LockLeaves DEF CInv
  <2>5. at'[Cycle] = point
    BY <2>3, TaskFacts DEF CInv, LockInOrder
  <2> QED
    BY <1>0, <2>2, <2>3, <2>4, <2>5 DEF ControlInv, ControlTypes, CycleQuiet, ScalpHasDecision
<1> QED BY <1>1, <1>2

\* An exception leaves the action, and with it the lock if it was held.
LEMMA RaiseControl ==
  ASSUME CInv, NEW p \in Tasks, Raise(p), at[p] = "cancelling", UNCHANGED <<config, memory>>
  PROVE  ControlInv' /\ CycleQuiet
<1>0. /\ queue' = Released(p) /\ job' = [job EXCEPT ![p] = NoJob] /\ Goto(p, "idle")
      /\ job' \in [Tasks -> Jobs] /\ loc' \in Locals /\ UNCHANGED <<index, recent, scalpHeld>>
      /\ p # Cycle => loc' = loc
  BY ValueFacts DEF Raise, Leave, CInv, TypeOK, memory
<1>1. /\ at' = [at EXCEPT ![p] = "idle"] /\ at' \in [Tasks -> Points]
      /\ at'[Cycle] \in CyclePoints /\ at'[Manual] \in {"idle", "checked"}
      /\ \A h \in Handlers : at'[h] \in HandlerPoints
      /\ "idle" \in Points \ Locked
  BY <1>0, GotoTypes DEF HandlerPoints, CyclePoints, Locked
<1>2. LockInOrder' /\ queue' \in Seq(Tasks \ {Manual})
  BY <1>0, <1>1, LockLeaves DEF CInv
<1>3. at'[Cycle] = "idle" \/ (p # Cycle /\ at'[Cycle] = at[Cycle] /\ job'[Cycle] = job[Cycle])
  BY <1>0, <1>1, TaskFacts DEF CInv, LockInOrder, TypeOK
<1> QED
  BY <1>0, <1>1, <1>2, <1>3 DEF ControlInv, ControlTypes, CycleQuiet, CInv, TypeOK,
     ScalpHasDecision

\* A task calls _execute_ai_action.
LEMMA ActControl ==
  ASSUME CInv, NEW p \in Tasks \ {Manual}, NEW j \in Jobs, Act(p, j), at[p] \notin Locked,
         p = Cycle /\ config.mode = "scalp" => loc.todo # <<>>,
         UNCHANGED <<config, loc, memory>>
  PROVE  ControlInv' /\ CycleQuiet
<1>0. job' = [job EXCEPT ![p] = j] /\ job' \in [Tasks -> Jobs] /\ Goto(p, "act")
  BY DEF Act, CInv, TypeOK
<1>1. /\ at' = [at EXCEPT ![p] = "act"] /\ at' \in [Tasks -> Points]
      /\ at'[Cycle] \in CyclePoints /\ at'[Manual] \in {"idle", "checked"}
      /\ \A h \in Handlers : at'[h] \in HandlerPoints
  BY <1>0, GotoTypes DEF HandlerPoints, CyclePoints
<1>2. LockInOrder' /\ queue' \in Seq(Tasks \ {Manual})
  BY LockJoins DEF CInv
<1>3. at'[Cycle] = "act" \/ (p # Cycle /\ at'[Cycle] = at[Cycle] /\ job'[Cycle] = job[Cycle])
  BY <1>0, <1>1, TaskFacts DEF CInv, LockInOrder, TypeOK
<1>4. p = Cycle => at'[Cycle] = "act"
  BY <1>1, TaskFacts DEF CInv, LockInOrder
<1> QED
  BY <1>0, <1>1, <1>2, <1>3, <1>4 DEF ControlInv, ControlTypes, CycleQuiet, CInv, TypeOK,
     ScalpHasDecision, memory, Locked

\* The cycle moves on outside the lock.
LEMMA CycleMoves ==
  ASSUME CInv, NEW point \in CyclePoints \ {"act", "checked"}, Goto(Cycle, point), at[Cycle] \notin Locked,
         config.mode = "scalp" => point \in {"idle", "decide", "timestop", "scalp", "cancelling"},
         UNCHANGED <<config, queue, job>>,
         loc' \in Locals, index' \in DOMAIN Pairs, recent' \in SUBSET Symbols,
         scalpHeld' \in SUBSET Symbols
  PROVE  ControlInv' /\ CycleQuiet
<1>1. /\ at' = [at EXCEPT ![Cycle] = point] /\ at' \in [Tasks -> Points]
      /\ at'[Cycle] \in CyclePoints /\ at'[Manual] \in {"idle", "checked"}
      /\ \A h \in Handlers : at'[h] \in HandlerPoints
      /\ point \in Points
  BY GotoTypes, TaskFacts
<1>2. LockInOrder'
  BY <1>1, LockStays, TaskFacts DEF CInv
<1>3. at'[Cycle] = point
  BY <1>1, TaskFacts DEF CInv, LockInOrder
<1> QED
  BY <1>1, <1>2, <1>3 DEF ControlInv, ControlTypes, CycleQuiet, CInv, TypeOK, ScalpHasDecision,
     Locked

\* A step that only moves the cycle's control leaves the rest of the invariant.
LEMMA FrameWorld ==
  ASSUME CInv, CycleQuiet, Frame, faults' \in 0 .. MaxFaults
  PROVE  WorldInv'
BY DEF CInv, TypeOK, WorldInv, WorldTypes, CycleQuiet, Frame, market, tv, CleanIsFlat, OneTrade,
   Flat, NoPositions, ActedIsKnown

LEMMA NoCallWorld ==
  ASSUME CInv, CycleQuiet, Frame, NoCall
  PROVE  WorldInv'
BY FrameWorld DEF CInv, TypeOK, NoCall

LEMMA FaultFacts ==
  ASSUME CInv, NEW kind, Fault(kind)
  PROVE  faults' \in 0 .. MaxFaults
BY TimesAssumption DEF CInv, TypeOK, Fault

-----------------------------------------------------------------------------
(* The steps of the cycle outside the lock *)

LEMMA Initially ==
  ASSUME Init
  PROVE  CInv
<1>1. TypeOK
  BY ValueFacts, PairFacts, TaskFacts, TimesAssumption
     DEF Init, TypeOK, NoPositions, CyclePoints, HandlerPoints
<1>2. LockInOrder
  BY DEF Init, LockInOrder, TradesUnderLock, Points, CyclePoints
<1>3. ScalpHasDecision
  BY TaskFacts DEF Init, ScalpHasDecision
<1>4. CleanIsFlat
  BY TaskFacts DEF Init, CleanIsFlat, OneTrade, NoPositions
<1>5. ActedIsKnown
  BY DEF Init, ActedIsKnown
<1> QED BY <1>1, <1>2, <1>3, <1>4, <1>5 DEF CInv

\* What an unfinished cycle keeps, in the form the steps below use it.
LEMMA CycleFacts ==
  ASSUME CInv
  PROVE  /\ at \in [Tasks -> Points] /\ at[Cycle] \in CyclePoints
         /\ config \in Configs /\ loc \in Locals /\ index \in DOMAIN Pairs
         /\ recent \in SUBSET Symbols /\ scalpHeld \in SUBSET Symbols /\ NoLocals \in Locals
         /\ loc.view \in Views /\ loc.held \in Symbols /\ loc.todo \in Seq(Jobs)
         /\ loc.slots \in SUBSET Symbols
         /\ config.mode = "scalp" =>
              at[Cycle] \in {"idle", "decide", "timestop", "scalp"} \cup Locked
BY ValueFacts DEF CInv, TypeOK, LockInOrder, Locals, ScalpHasDecision

LEMMA CycleReadsKeeps ==
  ASSUME CInv, CycleReads
  PROVE  ControlInv' /\ WorldInv'
<1>1. loc' \in Locals
  BY CycleFacts, ViewFacts DEF CycleReads, Locals, CInv
<1>2. ControlInv' /\ CycleQuiet
  BY <1>1, CycleFacts, CycleMoves DEF CycleReads, Frame, NoCall, memory, CyclePoints, Locked
<1> QED BY <1>2, NoCallWorld DEF CycleReads

LEMMA TrendHoldsKeeps ==
  ASSUME CInv, NEW s \in Symbols, TrendHolds(s)
  PROVE  ControlInv' /\ WorldInv'
<1>1. loc' \in Locals
  BY CycleFacts DEF TrendHolds, Locals
<1>2. PICK point \in {"manage", "c_roll", "c_hold", "c_bracket"} :
        Goto(Cycle, point) /\ recent' \in SUBSET Symbols
  BY CycleFacts DEF TrendHolds
<1>3. ControlInv' /\ CycleQuiet
  BY <1>1, <1>2, CycleFacts, CycleMoves DEF TrendHolds, Frame, NoCall, CyclePoints, Locked
<1> QED BY <1>3, NoCallWorld DEF TrendHolds

LEMMA RollClosesKeeps ==
  ASSUME CInv, RollCloses
  PROVE  ControlInv' /\ WorldInv'
<1>1. PICK point \in {"scan", "idle", "cancelling"} :
        Goto(Cycle, point) /\ loc' \in Locals /\ index' \in DOMAIN Pairs
  BY CycleFacts, PairFacts DEF RollCloses, CycleEnds, CloseCancels
<1>2. ControlInv' /\ CycleQuiet
  BY <1>1, CycleFacts, CycleMoves DEF RollCloses, Frame, NoCall, CyclePoints, Locked
<1> QED BY <1>2, NoCallWorld DEF RollCloses

LEMMA HoldGuardClosesKeeps ==
  ASSUME CInv, HoldGuardCloses
  PROVE  ControlInv' /\ WorldInv'
<1>1. PICK point \in {"manage", "c_bracket", "idle", "cancelling"} :
        Goto(Cycle, point) /\ loc' \in Locals
  BY CycleFacts DEF HoldGuardCloses, CycleEnds, CloseCancels
<1>2. ControlInv' /\ CycleQuiet
  BY <1>1, CycleFacts, CycleMoves DEF HoldGuardCloses, Frame, NoCall, memory, CyclePoints, Locked
<1> QED BY <1>2, NoCallWorld DEF HoldGuardCloses

LEMMA ManageKeeps ==
  ASSUME CInv, Manage
  PROVE  ControlInv' /\ WorldInv'
<1>0. at[Cycle] = "manage" /\ config.mode # "scalp" /\ UNCHANGED memory /\ Frame
  BY CycleFacts DEF Manage, Locked
<1>1. CASE NoCall /\ (\/ CycleEnds
                      \/ Goto(Cycle, "c_exit") /\ UNCHANGED loc)
  <2>1. PICK point \in {"idle", "c_exit"} : Goto(Cycle, point) /\ loc' \in Locals
    BY <1>1, CycleFacts DEF CycleEnds
  <2>2. ControlInv' /\ CycleQuiet
    BY <1>0, <1>1, <2>1, CycleFacts, CycleMoves DEF Frame, NoCall, memory, CyclePoints, Locked
  <2> QED BY <1>0, <1>1, <2>2, NoCallWorld
<1>2. CASE /\ Fault("adjust") /\ UNCHANGED loc
           /\ \E d \in {-1, 1} : Act(Cycle, [kind |-> "ADJUST", sym |-> loc.held, dir |-> d])
  <2>1. PICK d \in {-1, 1} : Act(Cycle, [kind |-> "ADJUST", sym |-> loc.held, dir |-> d])
    BY <1>2
  <2>2. [kind |-> "ADJUST", sym |-> loc.held, dir |-> d] \in Jobs
    BY CycleFacts DEF Jobs
  <2>3. ControlInv' /\ CycleQuiet
    BY <1>0, <1>2, <2>1, <2>2, ActControl, TaskFacts DEF Frame, Locked
  <2> QED BY <1>0, <1>2, <2>3, FaultFacts, FrameWorld
<1> QED BY <1>1, <1>2 DEF Manage

LEMMA ExitClosesKeeps ==
  ASSUME CInv, ExitCloses
  PROVE  ControlInv' /\ WorldInv'
<1>1. PICK point \in {"idle", "cancelling"} : Goto(Cycle, point) /\ loc' \in Locals
  BY CycleFacts DEF ExitCloses, CycleEnds, CloseCancels
<1>2. ControlInv' /\ CycleQuiet
  BY <1>1, CycleFacts, CycleMoves DEF ExitCloses, Frame, NoCall, memory, CyclePoints, Locked
<1> QED BY <1>2, NoCallWorld DEF ExitCloses

LEMMA TrendFlatKeeps ==
  ASSUME CInv, TrendFlat
  PROVE  ControlInv' /\ WorldInv'
<1>1. ControlInv' /\ CycleQuiet
  BY CycleFacts, CycleMoves DEF TrendFlat, Frame, NoCall, memory, CyclePoints, Locked
<1> QED BY <1>1, NoCallWorld DEF TrendFlat

\* The scan goes on to a pair it has not scanned, or ends.
LEMMA ScanOnMoves ==
  ASSUME CInv, ScanOn
  PROVE  /\ index' \in DOMAIN Pairs /\ loc' \in Locals
         /\ \E point \in {"scan", "idle"} : Goto(Cycle, point)
<1>1. index' \in DOMAIN Pairs
  BY CycleFacts, PairFacts DEF ScanOn
<1>2. CASE loc.scanned + 1 < Len(Pairs)
  <2>1. Goto(Cycle, "scan") /\ loc' = [loc EXCEPT !.scanned = @ + 1]
    BY <1>2 DEF ScanOn
  <2>2. loc.scanned + 1 \in 0 .. Len(Pairs) - 1
    BY CycleFacts, <1>2, PairFacts DEF Locals
  <2>3. loc' \in Locals
    BY CycleFacts, <2>1, <2>2 DEF Locals
  <2> QED BY <1>1, <2>1, <2>3
<1>3. CASE ~(loc.scanned + 1 < Len(Pairs))
  BY <1>1, <1>3, CycleFacts DEF ScanOn, CycleEnds
<1> QED BY <1>2, <1>3

LEMMA ScanKeeps ==
  ASSUME CInv, Scan
  PROVE  ControlInv' /\ WorldInv'
<1>0. at[Cycle] = "scan" /\ config.mode # "scalp" /\ UNCHANGED <<recent, scalpHeld>> /\ Frame
  BY CycleFacts DEF Scan, Locked
<1>1. CASE NoCall /\ (\/ ScanOn
                      \/ CycleEnds /\ UNCHANGED index)
  <2>1. PICK point \in {"scan", "idle"} :
          Goto(Cycle, point) /\ loc' \in Locals /\ index' \in DOMAIN Pairs
    BY <1>1, CycleFacts, ScanOnMoves DEF CycleEnds
  <2>2. ControlInv' /\ CycleQuiet
    BY <1>0, <1>1, <2>1, CycleFacts, CycleMoves DEF Frame, NoCall, CyclePoints, Locked
  <2> QED BY <1>0, <1>1, <2>2, NoCallWorld
<1>2. CASE /\ \E d \in Directions : Act(Cycle, [kind |-> "ENTER", sym |-> Pairs[index], dir |-> d])
           /\ UNCHANGED <<loc, index, faults>>
  <2>1. PICK d \in Directions : Act(Cycle, [kind |-> "ENTER", sym |-> Pairs[index], dir |-> d])
    BY <1>2
  <2>2. [kind |-> "ENTER", sym |-> Pairs[index], dir |-> d] \in Jobs
    BY CycleFacts, PairFacts, DirectionsAssumption DEF Jobs
  <2>3. ControlInv' /\ CycleQuiet
    BY <1>0, <1>2, <2>1, <2>2, ActControl, TaskFacts DEF Frame, Locked, memory
  <2> QED BY <1>0, <1>2, <2>3, FrameWorld DEF CInv, TypeOK
<1> QED BY <1>1, <1>2 DEF Scan

LEMMA ScalpStartsKeeps ==
  ASSUME CInv, ScalpStarts
  PROVE  ControlInv' /\ WorldInv'
<1>1. loc' \in Locals
  BY CycleFacts DEF ScalpStarts, Locals, OpenIn
<1>2. ControlInv' /\ CycleQuiet
  BY <1>1, CycleFacts, CycleMoves DEF ScalpStarts, Frame, NoCall, memory, CyclePoints, Locked
<1> QED BY <1>2, NoCallWorld DEF ScalpStarts

LEMMA TimeStopKeeps ==
  ASSUME CInv, NEW s \in Symbols, TimeStop(s)
  PROVE  ControlInv' /\ WorldInv'
<1>1. PICK point \in {"timestop", "cancelling"} : Goto(Cycle, point)
  BY CycleFacts, TaskFacts DEF TimeStop, CloseCancels, Goto
<1>2. scalpHeld' \in SUBSET Symbols /\ loc' \in Locals
  <2>1. loc.slots \ {s} \in SUBSET Symbols /\ scalpHeld \ {s} \in SUBSET Symbols
    BY CycleFacts
  <2> QED BY <2>1, CycleFacts DEF TimeStop, Locals
<1>3. ControlInv' /\ CycleQuiet
  BY <1>1, <1>2, CycleFacts, CycleMoves DEF TimeStop, Frame, NoCall, CyclePoints, Locked
<1> QED BY <1>3, NoCallWorld DEF TimeStop

\* A decision whose side can be derived is a job.
LEMMA DerivedIsJob ==
  ASSUME CInv, NEW d, Derivable(d),
         \/ d \in [kind : {"ENTER"}, sym : Symbols, dir : Directions]
         \/ d \in [kind : {"EXIT"}, sym : Symbols, dir : {1}]
  PROVE  Derived(d) \in Jobs
<1>1. CASE d \in [kind : {"ENTER"}, sym : Symbols, dir : Directions]
  BY <1>1, DirectionsAssumption DEF Derived, Jobs
<1>2. CASE d \in [kind : {"EXIT"}, sym : Symbols, dir : {1}]
  <2>1. loc.view[d.sym] \in {-1, 1}
    BY <1>2, CycleFacts DEF Derivable, Views
  <2> QED BY <1>2, <2>1 DEF Derived, Jobs
<1> QED BY <1>1, <1>2

LEMMA ScalpJudgedKeeps ==
  ASSUME CInv, ScalpJudged
  PROVE  ControlInv' /\ WorldInv'
<1>1. PICK batch \in Batches :
        /\ \A i \in DOMAIN batch : Derivable(batch[i])
        /\ loc' = [NoLocals EXCEPT !.todo = [i \in DOMAIN batch |-> Derived(batch[i])],
                                   !.slots = loc.slots]
  BY DEF ScalpJudged
<1>2. /\ Len(batch) \in Nat /\ DOMAIN batch = 1 .. Len(batch)
      /\ \A i \in DOMAIN batch : batch[i] \in Decisions
  <2>1. CASE batch = <<>>
    BY <2>1
  <2>2. ASSUME NEW d \in Decisions, batch = <<d>>
        PROVE  <1>2
    BY <2>2
  <2>3. ASSUME NEW d \in Decisions, NEW e \in Decisions, batch = <<d, e>>
        PROVE  <1>2
    BY <2>3
  <2>4. \/ batch = <<>>
        \/ \E d \in Decisions : batch = <<d>>
        \/ \E d \in Decisions, e \in Decisions : batch = <<d, e>>
    <3>1. \/ batch = <<>>
          \/ batch \in {<<d>> : d \in Decisions}
          \/ batch \in {<<d, e>> : d \in Decisions, e \in Decisions}
      BY <1>1 DEF Batches
    <3> QED BY <3>1
  <2> QED BY <2>1, <2>2, <2>3, <2>4
<1>3. \A i \in DOMAIN batch : Derived(batch[i]) \in Jobs
  <2> SUFFICES ASSUME NEW i \in DOMAIN batch PROVE Derived(batch[i]) \in Jobs
    OBVIOUS
  <2>1. \/ batch[i] \in [kind : {"ENTER"}, sym : Symbols, dir : Directions]
        \/ batch[i] \in [kind : {"EXIT"}, sym : Symbols, dir : {1}]
    BY <1>2 DEF Decisions, OpenIn
  <2> QED BY <1>1, <2>1, DerivedIsJob
<1>4. [i \in DOMAIN batch |-> Derived(batch[i])] \in Seq(Jobs)
  BY <1>2, <1>3
<1>5. loc' \in Locals
  BY <1>1, <1>4, CycleFacts DEF Locals
<1>6. ControlInv' /\ CycleQuiet
  BY <1>5, CycleFacts, CycleMoves DEF ScalpJudged, Frame, NoCall, memory, CyclePoints, Locked
<1> QED BY <1>6, NoCallWorld DEF ScalpJudged

LEMMA ScalpNextKeeps ==
  ASSUME CInv, ScalpNext
  PROVE  ControlInv' /\ WorldInv'
<1>0. at[Cycle] = "scalp" /\ UNCHANGED memory /\ Frame
  BY DEF ScalpNext
<1>1. CASE loc.todo = <<>>
  <2>1. CycleEnds /\ NoCall
    BY <1>1 DEF ScalpNext
  <2>2. ControlInv' /\ CycleQuiet
    BY <1>0, <2>1, CycleFacts, CycleMoves DEF CycleEnds, Frame, NoCall, memory, CyclePoints, Locked
  <2> QED BY <1>0, <2>1, <2>2, NoCallWorld
<1>2. CASE /\ loc.todo # <<>>
           /\ Head(loc.todo).kind = "ENTER" => Cardinality(loc.slots) < MaxPositions
  <2>1. Act(Cycle, Head(loc.todo)) /\ UNCHANGED <<loc, faults>> /\ Head(loc.todo) \in Jobs
    BY <1>2, CycleFacts DEF ScalpNext
  <2>2. ControlInv' /\ CycleQuiet
    BY <1>0, <1>2, <2>1, ActControl, TaskFacts DEF Frame, Locked
  <2> QED BY <1>0, <2>1, <2>2, FrameWorld DEF CInv, TypeOK
<1>3. CASE /\ loc.todo # <<>>
           /\ ~(Head(loc.todo).kind = "ENTER" => Cardinality(loc.slots) < MaxPositions)
  <2>1. loc' = [loc EXCEPT !.todo = Tail(@)] /\ UNCHANGED at /\ NoCall
    BY <1>3 DEF ScalpNext
  <2>2. loc' \in Locals
    <3>1. Tail(loc.todo) \in Seq(Jobs)
      BY <1>3, CycleFacts
    <3> QED BY <2>1, <3>1, CycleFacts DEF Locals
  <2>3. Goto(Cycle, "scalp")
    BY <1>0, <2>1, CycleFacts, TaskFacts DEF Goto
  <2>4. ControlInv' /\ CycleQuiet
    BY <1>0, <2>1, <2>2, <2>3, CycleFacts, CycleMoves DEF Frame, NoCall, memory, CyclePoints, Locked
  <2> QED BY <1>0, <2>1, <2>4, NoCallWorld
<1> QED BY <1>1, <1>2, <1>3

LEMMA LegacyStartsKeeps ==
  ASSUME CInv, LegacyStarts
  PROVE  ControlInv' /\ WorldInv'
<1>1. PICK point \in {"legacy", "cancelling"} : Goto(Cycle, point)
  BY DEF LegacyStarts, CloseCancels
<1>2. ControlInv' /\ CycleQuiet
  BY <1>1, CycleFacts, CycleMoves DEF LegacyStarts, Frame, NoCall, memory, CyclePoints, Locked
<1> QED BY <1>2, NoCallWorld DEF LegacyStarts

LEMMA LegacyDecidesKeeps ==
  ASSUME CInv, LegacyDecides
  PROVE  ControlInv' /\ WorldInv'
<1>0. at[Cycle] = "legacy" /\ config.mode # "scalp" /\ UNCHANGED memory /\ Frame
  BY CycleFacts DEF LegacyDecides, Locked
<1>1. CASE CycleEnds /\ NoCall
  <2>1. ControlInv' /\ CycleQuiet
    BY <1>0, <1>1, CycleFacts, CycleMoves DEF CycleEnds, Frame, NoCall, memory, CyclePoints, Locked
  <2> QED BY <1>0, <1>1, <2>1, NoCallWorld
<1>2. CASE /\ \E d \in [kind : {"ENTER"}, sym : Symbols, dir : Directions]
                       \cup [kind : {"EXIT"}, sym : Symbols, dir : {1}] :
                Derivable(d) /\ Act(Cycle, Derived(d))
           /\ UNCHANGED <<loc, faults>>
  <2>1. PICK d \in [kind : {"ENTER"}, sym : Symbols, dir : Directions]
                     \cup [kind : {"EXIT"}, sym : Symbols, dir : {1}] :
                Derivable(d) /\ Act(Cycle, Derived(d))
    BY <1>2
  <2>2. Derived(d) \in Jobs
    BY <2>1, DerivedIsJob
  <2>3. ControlInv' /\ CycleQuiet
    BY <1>0, <1>2, <2>1, <2>2, ActControl, TaskFacts DEF Frame, Locked
  <2> QED BY <1>0, <1>2, <2>3, FrameWorld DEF CInv, TypeOK
<1> QED BY <1>1, <1>2 DEF LegacyDecides

-----------------------------------------------------------------------------
(* The market *)

\* At most one unit is held.
AtMostOne ==
  \A s, t \in Symbols : pos[s] # 0 /\ pos[t] # 0 => s = t /\ Abs(pos[s]) = 1

\* A step that moves the market keeps its part of the invariant if a history that
\* stays clean is worth it.
LEMMA TrackWorld ==
  ASSUME CInv, UNCHANGED <<config, tv>>, faults' \in 0 .. MaxFaults,
         pos' \in [Symbols -> -MaxUnits .. MaxUnits], live' \in SUBSET Orders,
         NEW fine \in BOOLEAN, Track(fine),
         fine => /\ live' = {} /\ AtMostOne'
                 /\ at'[Cycle] = "checked" /\ job'[Cycle].kind = "ENTER" => Flat'
  PROVE  WorldInv'
<1>1. clean' = (fine \/ (pos' = NoPositions /\ live' = {})) /\ clean' \in BOOLEAN
  BY DEF Track
<1>2. clean' => live' = {}
  BY <1>1
<1>3. clean' /\ at'[Cycle] = "checked" /\ job'[Cycle].kind = "ENTER" => Flat'
  BY <1>1 DEF Flat, NoPositions
<1>4. OneTrade'
  <2>1. pos' = NoPositions => AtMostOne'
    BY DEF AtMostOne, NoPositions
  <2> QED BY <1>1, <2>1 DEF OneTrade, AtMostOne
<1>5. WorldTypes' /\ ActedIsKnown'
  BY <1>1 DEF CInv, TypeOK, WorldTypes, ActedIsKnown, tv
<1> QED BY <1>2, <1>3, <1>4, <1>5 DEF WorldInv, CleanIsFlat

\* The type of an account after a fill.
LEMMA FillTypes ==
  ASSUME CInv, NEW o \in Orders, Fill(o)
  PROVE  pos' \in [Symbols -> -MaxUnits .. MaxUnits] /\ pos' = [pos EXCEPT ![o.sym] = @ + o.dir]
<1>1. o.sym \in Symbols /\ o.dir \in {-1, 1} /\ pos \in [Symbols -> -MaxUnits .. MaxUnits]
  BY DEF Orders, CInv, TypeOK
<1>2. pos[o.sym] \in -MaxUnits .. MaxUnits /\ MaxUnits \in Nat
  BY <1>1, TimesAssumption
<1>3. pos[o.sym] + o.dir \in -MaxUnits .. MaxUnits
  BY <1>1, <1>2 DEF Fill, Abs
<1> QED BY <1>1, <1>3 DEF Fill

\* The holder goes from its flat check to the order, or to the cancellations.
LEMMA HolderMoves ==
  ASSUME CInv, NEW p \in Tasks \ {Manual}, NEW point \in {"checked", "cancelling"},
         at[p] = "act", Holds(p), Goto(p, point), UNCHANGED <<config, queue, job, loc, memory>>
  PROVE  /\ ControlInv'
         /\ at' = [at EXCEPT ![p] = point] /\ at \in [Tasks -> Points]
<1>1. /\ at' = [at EXCEPT ![p] = point] /\ at' \in [Tasks -> Points]
      /\ at'[Cycle] \in CyclePoints /\ at'[Manual] \in {"idle", "checked"}
      /\ \A h \in Handlers : at'[h] \in HandlerPoints
      /\ point \in Points
  BY GotoTypes DEF CyclePoints, HandlerPoints
<1>2. LockInOrder'
  BY <1>1, LockStays DEF CInv
<1>3. at \in [Tasks -> Points]
  BY DEF CInv, LockInOrder
<1>4. ScalpHasDecision'
  BY <1>1, <1>3, TaskFacts DEF CInv, ScalpHasDecision, Locked
<1> QED
  BY <1>1, <1>2, <1>3, <1>4 DEF ControlInv, ControlTypes, CInv, TypeOK, memory

\* _execute_ai_action_locked up to its order: past the check the account is flat,
\* or a failed query has ended the clean history.
LEMMA BeginActionKeeps ==
  ASSUME CInv, NEW p \in Tasks, BeginAction(p)
  PROVE  ControlInv' /\ WorldInv'
<1>0. /\ at[p] = "act" /\ Holds(p) /\ p \in Tasks \ {Manual}
      /\ UNCHANGED <<config, pos, live, recent, tv>> /\ job[p] \in Jobs
  BY DEF BeginAction, CInv, TypeOK
<1>1. ASSUME CycleQuiet, UNCHANGED <<clean, faults>>
      PROVE  WorldInv'
  BY <1>0, <1>1, NoCallWorld, FrameWorld DEF Frame, market, CInv, TypeOK
<1>2. ASSUME Return(p, FALSE), UNCHANGED <<clean, faults>>
      PROVE  ControlInv' /\ WorldInv'
  <2>1. ControlInv' /\ CycleQuiet
    BY <1>0, <1>2, ReturnControl
  <2> QED BY <1>1, <1>2, <2>1
<1>3. ASSUME CloseCancels(p), UNCHANGED <<queue, job, loc, index, scalpHeld, clean, faults>>
      PROVE  ControlInv' /\ WorldInv'
  <2>1. ControlInv' /\ at' = [at EXCEPT ![p] = "cancelling"] /\ at \in [Tasks -> Points]
    BY <1>0, <1>3, HolderMoves DEF CloseCancels, memory
  <2>2. CycleQuiet
    BY <1>3, <2>1, TaskFacts DEF CycleQuiet
  <2> QED BY <1>1, <1>3, <2>1, <2>2
<1>4. ASSUME Proceed(p), faults' \in 0 .. MaxFaults, clean' \in BOOLEAN, clean' => clean,
             job[p].kind = "ENTER" /\ clean' => Flat
      PROVE  ControlInv' /\ WorldInv'
  <2>1. ControlInv' /\ at' = [at EXCEPT ![p] = "checked"] /\ at \in [Tasks -> Points]
    BY <1>0, <1>4, HolderMoves DEF Proceed, memory
  <2>2. clean' => (at'[Cycle] = "checked" /\ job'[Cycle].kind = "ENTER" => Flat')
    <3>1. CASE p = Cycle
      BY <1>0, <1>4, <3>1 DEF Proceed, Flat, NoPositions
    <3>2. CASE p # Cycle
      BY <1>0, <1>4, <2>1, <3>2, TaskFacts DEF Proceed, Flat, NoPositions, CInv, CleanIsFlat
    <3> QED BY <3>1, <3>2
  <2>3. (clean' => live' = {}) /\ OneTrade'
    BY <1>0, <1>4 DEF CInv, CleanIsFlat, OneTrade
  <2>4. WorldTypes' /\ ActedIsKnown'
    BY <1>0, <1>4 DEF CInv, TypeOK, WorldTypes, ActedIsKnown, tv
  <2> QED BY <2>1, <2>2, <2>3, <2>4 DEF WorldInv, CleanIsFlat
<1>5. /\ faults \in 0 .. MaxFaults /\ clean \in BOOLEAN
      /\ \A ok \in CloseAnswers : ok \in BOOLEAN /\ (ok => Flat)
  BY DEF CInv, TypeOK, CloseAnswers
<1>6. CASE job[p].kind # "ENTER"
  BY <1>4, <1>5, <1>6 DEF BeginAction
<1>7. CASE job[p].kind = "ENTER" /\ config.serial
  <2>1. FlatCheck(p)
    BY <1>7 DEF BeginAction
  <2>2. /\ UNCHANGED <<clean, faults>>
        /\ \/ \E ok \in CloseAnswers : IF ok THEN Proceed(p) ELSE Return(p, FALSE)
           \/ CloseCancels(p) /\ UNCHANGED <<queue, job, loc, index, scalpHeld>>
    BY <1>7, <2>1 DEF FlatCheck
  <2>3. \/ Proceed(p) /\ Flat
        \/ Return(p, FALSE)
        \/ CloseCancels(p) /\ UNCHANGED <<queue, job, loc, index, scalpHeld>>
    BY <1>5, <2>2
  <2> QED BY <1>2, <1>3, <1>4, <1>5, <2>2, <2>3
<1>8. CASE job[p].kind = "ENTER" /\ ~config.serial
  <2>1. FlatCheck(p)
    BY <1>8 DEF BeginAction
  <2>2. \/ (IF Flat THEN Proceed(p) ELSE Return(p, FALSE)) /\ UNCHANGED <<clean, faults>>
        \/ Fault("read") /\ Proceed(p) /\ clean' = FALSE
    BY <1>8, <2>1 DEF FlatCheck
  <2> QED BY <1>2, <1>4, <1>5, <2>2, FaultFacts
<1> QED BY <1>6, <1>7, <1>8

LEMMA RefusedKeeps ==
  ASSUME CInv, NEW p \in Tasks, Refused(p)
  PROVE  ControlInv' /\ WorldInv'
<1>1. ControlInv' /\ CycleQuiet
  BY ReturnControl DEF Refused
<1> QED BY <1>1, FrameWorld DEF Refused, Frame, CInv, TypeOK

\* A clean history stays clean through an order of the cycle only, and that finds
\* the account flat: one unit is held after it.
LEMMA FilledKeeps ==
  ASSUME CInv, NEW p \in Tasks, Filled(p)
  PROVE  ControlInv' /\ WorldInv'
<1>0. /\ at[p] = "checked" /\ job[p] \in Jobs /\ OrderOf(job[p]) \in Orders
      /\ Fill(OrderOf(job[p])) /\ Return(p, TRUE) /\ live' = live
      /\ UNCHANGED <<config, recent, tv, faults>>
  BY ValueFacts DEF Filled, CInv, TypeOK
<1>1. ControlInv' /\ CycleQuiet
  BY <1>0, ReturnControl
<1>2. /\ pos' \in [Symbols -> -MaxUnits .. MaxUnits]
      /\ pos' = [pos EXCEPT ![job[p].sym] = @ + job[p].dir]
      /\ job[p].sym \in Symbols /\ job[p].dir \in {-1, 1} /\ pos \in [Symbols -> -MaxUnits .. MaxUnits]
  BY <1>0, FillTypes DEF OrderOf, Jobs, CInv, TypeOK
<1> DEFINE fine == clean /\ p = Cycle /\ job[p].kind = "ENTER"
<1>3. ASSUME fine
      PROVE  /\ live' = {} /\ AtMostOne'
             /\ at'[Cycle] = "checked" /\ job'[Cycle].kind = "ENTER" => Flat'
  <2>1. Flat /\ live' = {}
    BY <1>0, <1>3 DEF CInv, CleanIsFlat
  <2>2. \A s \in Symbols : pos[s] = 0
    BY <2>1 DEF Flat, NoPositions
  <2>3. \A s \in Symbols : pos'[s] = IF s = job[p].sym THEN job[p].dir ELSE 0
    BY <1>2, <2>2
  <2>4. AtMostOne'
    BY <1>2, <2>3 DEF AtMostOne, Abs
  <2>5. job'[Cycle].kind = "none"
    BY <1>0, <1>3 DEF Return, Leave, NoJob, CInv, TypeOK
  <2> QED BY <2>1, <2>4, <2>5
<1>4. Track(fine) /\ fine \in BOOLEAN /\ live' \in SUBSET Orders /\ faults' \in 0 .. MaxFaults
  BY <1>0 DEF Filled, CInv, TypeOK
<1> HIDE DEF fine
<1>5. WorldInv'
  BY <1>0, <1>2, <1>3, <1>4, TrackWorld
<1> QED BY <1>1, <1>5

LEMMA UnconfirmedKeeps ==
  ASSUME CInv, NEW p \in Tasks, Unconfirmed(p)
  PROVE  ControlInv' /\ WorldInv'
<1>0. /\ at[p] = "checked" /\ OrderOf(job[p]) \in Orders /\ Return(p, FALSE)
      /\ live' = live \cup {OrderOf(job[p])} /\ pos' = pos /\ Track(FALSE)
      /\ faults' \in 0 .. MaxFaults /\ UNCHANGED <<config, recent, tv>>
  BY ValueFacts, FaultFacts DEF Unconfirmed, CInv, TypeOK
<1>1. ControlInv' /\ CycleQuiet
  BY <1>0, ReturnControl
<1>2. WorldInv'
  BY <1>0, TrackWorld DEF CInv, TypeOK
<1> QED BY <1>1, <1>2

LEMMA CancelThenRaiseKeeps ==
  ASSUME CInv, NEW p \in Tasks, CancelThenRaise(p)
  PROVE  ControlInv' /\ WorldInv'
<1>0. /\ at[p] = "cancelling" /\ live' \in SUBSET live /\ pos' = pos /\ Track(clean) /\ Raise(p)
      /\ UNCHANGED <<config, memory, tv, faults>> /\ clean \in BOOLEAN
  BY DEF CancelThenRaise, CInv, TypeOK
<1>1. ControlInv' /\ CycleQuiet
  BY <1>0, RaiseControl
<1>2. clean => /\ live' = {} /\ AtMostOne'
               /\ at'[Cycle] = "checked" /\ job'[Cycle].kind = "ENTER" => Flat'
  BY <1>0, <1>1 DEF CInv, CleanIsFlat, OneTrade, AtMostOne, CycleQuiet, Flat, NoPositions
<1>3. WorldInv'
  BY <1>0, <1>2, TrackWorld DEF CInv, TypeOK
<1> QED BY <1>1, <1>3

LEMMA TaskStepKeeps ==
  ASSUME CInv, NEW p \in Tasks, TaskStep(p)
  PROVE  ControlInv' /\ WorldInv'
BY BeginActionKeeps, RefusedKeeps, FilledKeeps, UnconfirmedKeeps, CancelThenRaiseKeeps DEF TaskStep

LEMMA CycleStepKeeps ==
  ASSUME CInv, CycleStep
  PROVE  ControlInv' /\ WorldInv'
BY TaskFacts, TaskStepKeeps, CycleReadsKeeps, TrendHoldsKeeps, TimeStopKeeps, RollClosesKeeps,
   HoldGuardClosesKeeps, ManageKeeps, ExitClosesKeeps, TrendFlatKeeps, ScanKeeps,
   ScalpStartsKeeps, ScalpJudgedKeeps, ScalpNextKeeps, LegacyStartsKeeps, LegacyDecidesKeeps
   DEF CycleStep

-----------------------------------------------------------------------------
(* The alerts, /execute and the rest of the world *)

\* A step that leaves the control state alone, except perhaps the recent rolls.
LEMMA SameControl ==
  ASSUME CInv, UNCHANGED <<config, queue, at, job, loc, index, scalpHeld>>,
         recent' \in SUBSET Symbols
  PROVE  ControlInv' /\ CycleQuiet
BY DEF CInv, ControlInv, ControlTypes, TypeOK, LockInOrder, TradesUnderLock, Holds,
   ScalpHasDecision, CycleQuiet

\* An alert that was acted on is still known while it is fresh: the window is
\* longer than that.
LEMMA AlertArrivesKeeps ==
  ASSUME CInv, NEW h \in Handlers, NEW a \in Alerts, AlertArrives(h, a)
  PROVE  ControlInv' /\ WorldInv'
<1>0. /\ h \in Tasks /\ h # Cycle /\ h # Manual /\ at[h] = "idle"
      /\ UNCHANGED <<config, market, queue, loc, memory, now, faults>>
      /\ a.sym \in Symbols
  BY TaskFacts, AlertsAssumption DEF AlertArrives
<1>1. /\ seen \in [Alerts -> -1 .. MaxClock] /\ now \in 0 .. MaxClock /\ acted \in [Alerts -> Nat]
      /\ MaxClock \in Nat /\ Window \in Nat /\ Fresh \in Nat /\ Fresh < Window
  BY TimesAssumption DEF CInv, TypeOK
<1>2. /\ Remembered \in [Alerts -> -1 .. MaxClock]
      /\ \A b \in Alerts : Remembered[b] = seen[b] \/ (Remembered[b] = -1 /\ now > Fresh)
      /\ \A b \in Alerts : seen[b] >= 0 /\ now <= Fresh => Remembered[b] = seen[b]
  BY <1>1 DEF Remembered
<1>3. CASE UNCHANGED <<at, job, acted>>
  <2>1. ControlInv' /\ CycleQuiet
    BY <1>0, <1>3, SameControl DEF memory, CInv, TypeOK
  <2>2. seen' \in [Alerts -> -1 .. MaxClock]
        /\ \A b \in Alerts : seen'[b] >= 0 \/ seen'[b] = Remembered[b]
    BY <1>1, <1>2 DEF AlertArrives
  <2>3. ActedIsKnown'
    BY <1>0, <1>1, <1>2, <1>3, <2>2 DEF CInv, ActedIsKnown
  <2>4. CleanIsFlat'
    BY <1>0, <1>3 DEF CInv, CleanIsFlat, OneTrade, Flat, NoPositions, market
  <2>5. WorldTypes'
    BY <1>0, <1>3, <2>2 DEF CInv, TypeOK, WorldTypes, market
  <2> QED BY <2>1, <2>3, <2>4, <2>5 DEF WorldInv
<1>4. CASE /\ ~(Remembered[a] >= 0) /\ ~(a.stamped /\ now > Fresh)
           /\ seen' = [Remembered EXCEPT ![a] = now]
           /\ Goto(h, "tvread") /\ acted' = [acted EXCEPT ![a] = @ + 1]
           /\ job' = [job EXCEPT ![h] = [kind |-> IF a.type = "exit" THEN "EXIT" ELSE "ENTER",
                                         sym |-> a.sym, dir |-> 1]]
  <2>1. job' \in [Tasks -> Jobs] /\ job'[Cycle] = job[Cycle]
    BY <1>0, <1>4, TaskFacts DEF CInv, TypeOK, Jobs
  <2>2. /\ at' = [at EXCEPT ![h] = "tvread"] /\ at' \in [Tasks -> Points]
        /\ at'[Cycle] \in CyclePoints /\ at'[Manual] \in {"idle", "checked"}
        /\ \A k \in Handlers : at'[k] \in HandlerPoints
        /\ "tvread" \in Points
    BY <1>0, <1>4, GotoTypes DEF HandlerPoints
  <2>3. LockInOrder'
    BY <1>0, <1>4, <2>2, LockStays DEF CInv, Locked
  <2>4. at'[Cycle] = at[Cycle]
    BY <1>0, <2>2, TaskFacts DEF CInv, LockInOrder
  <2>5. ControlInv'
    BY <1>0, <2>1, <2>2, <2>3, <2>4 DEF ControlInv, ControlTypes, CInv, TypeOK, memory,
       ScalpHasDecision
  <2>6. ActedIsKnown'
    <3> SUFFICES ASSUME NEW b \in Alerts, b.stamped
                 PROVE  acted'[b] <= 1 /\ (acted'[b] = 1 => seen'[b] >= 0 \/ now' > Fresh)
      BY DEF ActedIsKnown
    <3>1. acted[b] <= 1 /\ (acted[b] = 1 => seen[b] >= 0 \/ now > Fresh)
      BY DEF CInv, ActedIsKnown
    <3>2. CASE b = a
      <4>1. acted[a] = 0
        BY <1>1, <1>2, <1>4, <3>1, <3>2
      <4> QED BY <1>0, <1>1, <1>2, <1>4, <3>2, <4>1
    <3>3. CASE b # a
      BY <1>0, <1>1, <1>2, <1>4, <3>1, <3>3
    <3> QED BY <3>2, <3>3
  <2>7. CleanIsFlat'
    BY <1>0, <2>1, <2>4 DEF CInv, CleanIsFlat, OneTrade, Flat, NoPositions, market
  <2>8. WorldTypes'
    BY <1>0, <1>1, <1>2, <1>4 DEF CInv, TypeOK, WorldTypes, market
  <2> QED BY <2>5, <2>6, <2>7, <2>8 DEF WorldInv
<1> QED BY <1>3, <1>4 DEF AlertArrives

LEMMA AlertReadsKeeps ==
  ASSUME CInv, NEW h \in Handlers, AlertReads(h)
  PROVE  ControlInv' /\ WorldInv'
<1>0. /\ h \in Tasks /\ h # Cycle /\ h # Manual /\ at[h] = "tvread" /\ job[h] \in Jobs
      /\ UNCHANGED <<loc, memory, faults>> /\ Frame /\ UNCHANGED config
  BY TaskFacts DEF AlertReads, Frame, CInv, TypeOK
<1>1. PICK view \in Views :
        IF job[h].kind = "EXIT" /\ view[job[h].sym] = 0
         THEN Goto(h, "idle") /\ job' = [job EXCEPT ![h] = NoJob] /\ UNCHANGED queue
         ELSE Act(h, IF job[h].kind = "EXIT" THEN [job[h] EXCEPT !.dir = -view[job[h].sym]] ELSE job[h])
  <2>1. Positions \in Views /\ NoPositions \in Views
    BY ViewFacts, ValueFacts DEF CInv
  <2> QED BY <2>1 DEF AlertReads
<1>2. CASE job[h].kind = "EXIT" /\ view[job[h].sym] = 0
  <2>1. Goto(h, "idle") /\ job' = [job EXCEPT ![h] = NoJob] /\ UNCHANGED queue
    BY <1>1, <1>2
  <2>2. job' \in [Tasks -> Jobs] /\ job'[Cycle] = job[Cycle]
    BY <1>0, <2>1, ValueFacts, TaskFacts DEF CInv, TypeOK
  <2>3. /\ at' = [at EXCEPT ![h] = "idle"] /\ at' \in [Tasks -> Points]
        /\ at'[Cycle] \in CyclePoints /\ at'[Manual] \in {"idle", "checked"}
        /\ \A k \in Handlers : at'[k] \in HandlerPoints
        /\ "idle" \in Points
    BY <1>0, <2>1, GotoTypes DEF HandlerPoints
  <2>4. LockInOrder'
    BY <1>0, <2>1, <2>3, LockStays DEF CInv, Locked
  <2>5. at'[Cycle] = at[Cycle]
    BY <1>0, <2>3, TaskFacts DEF CInv, LockInOrder
  <2>6. ControlInv' /\ CycleQuiet
    BY <1>0, <2>1, <2>2, <2>3, <2>4, <2>5 DEF ControlInv, ControlTypes, CInv, TypeOK, memory,
       ScalpHasDecision, CycleQuiet
  <2> QED BY <1>0, <2>6, FrameWorld DEF CInv, TypeOK
<1>3. CASE ~(job[h].kind = "EXIT" /\ view[job[h].sym] = 0)
  <2> DEFINE j == IF job[h].kind = "EXIT" THEN [job[h] EXCEPT !.dir = -view[job[h].sym]] ELSE job[h]
  <2>1. Act(h, j)
    BY <1>1, <1>3
  <2>2. j \in Jobs
    <3>1. CASE job[h].kind = "EXIT"
      <4>1. -view[job[h].sym] \in {-1, 1}
        BY <1>0, <1>1, <1>3, <3>1 DEF Views, Jobs
      <4> QED BY <1>0, <3>1, <4>1 DEF Jobs
    <3>2. CASE job[h].kind # "EXIT"
      BY <1>0, <3>2
    <3> QED BY <3>1, <3>2
  <2> HIDE DEF j
  <2>3. ControlInv' /\ CycleQuiet
    BY <1>0, <2>1, <2>2, ActControl DEF Locked
  <2> QED BY <1>0, <2>3, FrameWorld DEF CInv, TypeOK
<1> QED BY <1>2, <1>3

LEMMA ManualTradeKeeps ==
  ASSUME CInv, ManualTrade
  PROVE  ControlInv' /\ WorldInv'
<1>0. /\ Goto(Manual, "checked") /\ UNCHANGED <<queue, loc, memory>> /\ Frame /\ UNCHANGED config
      /\ faults' \in 0 .. MaxFaults
  BY FaultFacts DEF ManualTrade, Frame
<1>1. job' \in [Tasks -> Jobs] /\ job'[Cycle] = job[Cycle]
  <2>1. PICK s \in Symbols, d \in Directions :
          job' = [job EXCEPT ![Manual] = [kind |-> "ENTER", sym |-> s, dir |-> d]]
    BY DEF ManualTrade
  <2>2. [kind |-> "ENTER", sym |-> s, dir |-> d] \in Jobs
    BY DirectionsAssumption DEF Jobs
  <2> QED BY <2>1, <2>2, TaskFacts DEF CInv, TypeOK
<1>2. /\ at' = [at EXCEPT ![Manual] = "checked"] /\ at' \in [Tasks -> Points]
      /\ at'[Cycle] \in CyclePoints /\ at'[Manual] \in {"idle", "checked"}
      /\ \A h \in Handlers : at'[h] \in HandlerPoints
      /\ "checked" \in Points
  BY <1>0, GotoTypes, TaskFacts DEF Points, CyclePoints
<1>3. LockInOrder'
  BY <1>0, <1>2, LockStays, TaskFacts DEF CInv
<1>4. at'[Cycle] = at[Cycle]
  BY <1>2, TaskFacts DEF CInv, LockInOrder
<1>5. ControlInv' /\ CycleQuiet
  BY <1>0, <1>1, <1>2, <1>3, <1>4 DEF ControlInv, ControlTypes, CInv, TypeOK, memory,
     ScalpHasDecision, CycleQuiet
<1> QED BY <1>0, <1>5, FrameWorld

LEMMA PositionClosesKeeps ==
  ASSUME CInv, NEW s \in Symbols, PositionCloses(s)
  PROVE  ControlInv' /\ WorldInv'
<1>0. /\ pos' = [pos EXCEPT ![s] = 0] /\ live' = live /\ Track(clean) /\ clean \in BOOLEAN
      /\ UNCHANGED <<config, queue, at, job, loc, memory, tv, faults>>
      /\ pos \in [Symbols -> -MaxUnits .. MaxUnits] /\ MaxUnits \in Nat
  BY TimesAssumption DEF PositionCloses, CInv, TypeOK
<1>1. ControlInv'
  BY <1>0, SameControl DEF memory, CInv, TypeOK
<1>2. \A t \in Symbols : pos'[t] = pos[t] \/ pos'[t] = 0
  BY <1>0
<1>3. clean => /\ live' = {} /\ AtMostOne'
               /\ at'[Cycle] = "checked" /\ job'[Cycle].kind = "ENTER" => Flat'
  <2>1. clean => live' = {} /\ AtMostOne'
    BY <1>0, <1>2 DEF CInv, CleanIsFlat, OneTrade, AtMostOne, Abs
  <2>2. Flat => Flat'
    BY <1>0 DEF Flat, NoPositions
  <2> QED BY <1>0, <2>1, <2>2 DEF CInv, CleanIsFlat
<1>4. pos' \in [Symbols -> -MaxUnits .. MaxUnits]
  BY <1>0
<1>5. WorldInv'
  BY <1>0, <1>3, <1>4, TrackWorld DEF CInv, TypeOK
<1> QED BY <1>1, <1>5

LEMMA LateFillKeeps ==
  ASSUME CInv, NEW o \in Orders, LateFill(o)
  PROVE  ControlInv' /\ WorldInv'
<1>0. /\ live' = live \ {o} /\ Track(FALSE)
      /\ UNCHANGED <<config, queue, at, job, loc, memory, tv, faults>>
  BY DEF LateFill
<1>1. ControlInv'
  BY <1>0, SameControl DEF memory, CInv, TypeOK
<1>2. pos' \in [Symbols -> -MaxUnits .. MaxUnits]
  BY FillTypes DEF LateFill, CInv, TypeOK
<1>3. WorldInv'
  BY <1>0, <1>2, TrackWorld DEF CInv, TypeOK
<1> QED BY <1>1, <1>3

LEMMA TickKeeps ==
  ASSUME CInv, Tick
  PROVE  ControlInv' /\ WorldInv'
<1>0. /\ now' = now + 1 /\ now' \in 0 .. MaxClock
      /\ UNCHANGED <<config, market, queue, at, job, loc, memory, seen, acted, faults>>
  BY TimesAssumption DEF Tick, CInv, TypeOK
<1>1. ControlInv'
  BY <1>0, SameControl DEF memory, CInv, TypeOK
<1>2. ActedIsKnown'
  BY <1>0, TimesAssumption DEF CInv, TypeOK, ActedIsKnown
<1>3. CleanIsFlat'
  BY <1>0 DEF CInv, CleanIsFlat, OneTrade, Flat, NoPositions, market
<1>4. WorldTypes'
  BY <1>0 DEF CInv, TypeOK, WorldTypes, market
<1> QED BY <1>1, <1>2, <1>3, <1>4 DEF WorldInv

LEMMA RollDueKeeps ==
  ASSUME CInv, NEW s \in Symbols, RollDue(s)
  PROVE  ControlInv' /\ WorldInv'
<1>1. ControlInv' /\ CycleQuiet
  BY SameControl DEF RollDue, CInv, TypeOK
<1> QED BY <1>1, FrameWorld DEF RollDue, Frame, CInv, TypeOK

\* The worker starts again with what the exchange still holds.
LEMMA RestartKeeps ==
  ASSUME CInv, Restart
  PROVE  ControlInv' /\ WorldInv'
<1>0. /\ queue' = <<>> /\ at' = [p \in Tasks |-> "idle"] /\ job' = [p \in Tasks |-> NoJob]
      /\ loc' = NoLocals /\ index' = 1 /\ recent' = {} /\ scalpHeld' = {}
      /\ seen' = [a \in Alerts |-> -1] /\ acted' = [a \in Alerts |-> 0]
      /\ pos' = pos /\ UNCHANGED <<config, now>> /\ faults' \in 0 .. MaxFaults
  BY FaultFacts DEF Restart
<1>1. live' \in SUBSET Orders
  <2> DEFINE sent == {OrderOf(job[p]) : p \in {q \in Tasks : at[q] = "checked" /\ Funded(q)}}
  <2>1. sent \in SUBSET Orders
    BY ValueFacts DEF CInv, TypeOK
  <2>2. \E lost \in SUBSET (live \cup sent) : live' = lost
    BY DEF Restart
  <2> HIDE DEF sent
  <2> QED BY <2>1, <2>2 DEF CInv, TypeOK
<1>2. ControlTypes'
  BY <1>0, ValueFacts, PairFacts, TaskFacts DEF ControlTypes, CyclePoints, HandlerPoints
<1>3. LockInOrder' /\ ScalpHasDecision' /\ at'[Cycle] = "idle"
  BY <1>0, TaskFacts DEF LockInOrder, TradesUnderLock, ScalpHasDecision, Points, CyclePoints
<1>4. clean' \in BOOLEAN /\ (clean' => live' = {} /\ (clean \/ pos' = NoPositions))
  BY DEF Restart, Track, CInv, TypeOK
<1>5. CleanIsFlat'
  BY <1>0, <1>3, <1>4 DEF CInv, CleanIsFlat, OneTrade, NoPositions
<1>6. ActedIsKnown'
  BY <1>0 DEF ActedIsKnown
<1>7. WorldTypes'
  BY <1>0, <1>1, <1>4, TimesAssumption DEF WorldTypes, CInv, TypeOK
<1> QED BY <1>2, <1>3, <1>5, <1>6, <1>7 DEF ControlInv, WorldInv

-----------------------------------------------------------------------------
(* The theorems *)

\* The inductive invariant holds in every reachable state of the worker, whatever
\* its mode, its pairs and the number of concurrent webhook requests.
THEOREM CycleInvariance == Spec => []CInv
<1>1. Init => CInv
  BY Initially
<1>2. CInv /\ [Next]_vars => CInv'
  <2> SUFFICES ASSUME CInv, [Next]_vars
               PROVE  ControlInv' /\ WorldInv'
    <3>1. CInv' <=> ControlInv' /\ WorldInv'
      BY DEF CInv, ControlInv, WorldInv, TypeOK, ControlTypes, WorldTypes
    <3> QED BY <3>1
  <2>1. CASE CycleStep
    BY <2>1, CycleStepKeeps
  <2>2. ASSUME NEW h \in Handlers, HandlerStep(h)
        PROVE  ControlInv' /\ WorldInv'
    BY <2>2, TaskStepKeeps, AlertReadsKeeps, TaskFacts DEF HandlerStep
  <2>3. ASSUME NEW h \in Handlers, NEW a \in Alerts, AlertArrives(h, a)
        PROVE  ControlInv' /\ WorldInv'
    BY <2>3, AlertArrivesKeeps
  <2>4. CASE TaskStep(Manual) \/ ManualTrade
    BY <2>4, TaskStepKeeps, ManualTradeKeeps, TaskFacts
  <2>5. ASSUME NEW s \in Symbols, PositionCloses(s) \/ RollDue(s)
        PROVE  ControlInv' /\ WorldInv'
    BY <2>5, PositionClosesKeeps, RollDueKeeps
  <2>6. ASSUME NEW o \in Orders, LateFill(o)
        PROVE  ControlInv' /\ WorldInv'
    BY <2>6, LateFillKeeps
  <2>7. CASE Tick \/ Restart
    BY <2>7, TickKeeps, RestartKeeps
  <2>8. CASE UNCHANGED vars
    <3>1. ControlInv' /\ CycleQuiet
      BY <2>8, SameControl DEF vars, memory, CInv, TypeOK
    <3> QED BY <2>8, <3>1, NoCallWorld DEF vars, Frame, NoCall
  <2> QED BY <2>1, <2>2, <2>3, <2>4, <2>5, <2>6, <2>7, <2>8 DEF Next
<1> QED BY <1>1, <1>2, PTL DEF Spec

\* One trade in, one trade out: while the history is clean at most one unit is held,
\* and whoever is past the flat check of _execute_ai_action_locked holds the lock.
THEOREM OneTradeHolds == Spec => []OneTradeUnderLock
<1>1. CInv => OneTradeUnderLock
  BY DEF CInv, LockInOrder, CleanIsFlat, OneTradeUnderLock
<1> QED BY <1>1, CycleInvariance, PTL

\* A stamped TradingView alert is acted on at most once in a life of the worker.
THEOREM AlertsOnce == Spec => []AlertOnce
<1>1. CInv => AlertOnce
  BY DEF CInv, ActedIsKnown, AlertOnce
<1> QED BY <1>1, CycleInvariance, PTL
=============================================================================
