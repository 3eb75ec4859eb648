------------------------- MODULE ControlPlaneProofs -------------------------
(***************************************************************************)
(* Proofs about the control plane: the supervisor of a tenant's worker,    *)
(* for any number of concurrent requests, any restart budget and any       *)
(* number of faults and control-plane restarts; and beside it the registry *)
(* rows behind the API, the rate limiter, the kill route, the linking of   *)
(* chats and the /execute conversation, for any number of requests, keys,  *)
(* markets, chats and users and any limits.                                *)
(***************************************************************************)
EXTENDS MCSupervisor, FiniteSetTheorems, SequenceTheorems, WellFoundedInduction, TLAPS

-----------------------------------------------------------------------------
(* Supervisor *)

\* A running record tracks a process and a config path; an unknown worker has
\* no config path.
Tracked(i) == /\ i.state = "running" => i.proc # "none" /\ i.path
              /\ i.state = "absent" => ~i.path

\* The inductive invariant, by the part of the state it is about: the worker
\* record with the file, the tasks' control, and the rest.
MemoryOK  == /\ w \in WorkerInfos /\ Tracked(w)
             /\ file \in BOOLEAN /\ orphan \in BOOLEAN
             /\ KeysOnDisk
ControlOK == op \in [Tasks -> Requests] /\ at \in [Tasks -> Points]
RestOK    == /\ status \in {"active", "halted"} /\ creds \in BOOLEAN
             /\ ackHalt \in BOOLEAN
             /\ faults \in 0 .. MaxFaults /\ reboots \in 0 .. MaxReboots
             /\ serial \in BOOLEAN
IInv == MemoryOK /\ ControlOK /\ RestOK

-----------------------------------------------------------------------------
\* What _poll returns: a record of the right type.  Either nothing changed, or a
\* dead worker was reaped and is no longer running.
LEMMA PollFacts ==
  ASSUME NEW i \in WorkerInfos, Tracked(i), NEW j \in Poll(i)
  PROVE  /\ j \in WorkerInfos /\ Tracked(j) /\ j.path = i.path
         /\ j = i \/ (i.path /\ j # i)
<1>1. CASE i.state = "running" /\ i.proc = "dead"
  <2>1. PICK n \in CrashCounts(i.crashes) :
          j = [state   |-> IF n > MaxRestarts THEN "failed" ELSE "stopped",
               path    |-> i.path, crashes |-> n, proc |-> "none"]
    BY <1>1 DEF Poll
  <2>2. n \in 0 .. MaxRestarts + 1
    BY BoundsAssumption DEF CrashCounts, WorkerInfos
  <2>3. i.path \in BOOLEAN /\ i.path
    BY <1>1 DEF Tracked, WorkerInfos
  <2>4. j \in WorkerInfos
    BY <2>1, <2>2, <2>3 DEF WorkerInfos
  <2>5. j.path = i.path /\ j.state \notin {"running", "absent"} /\ j.proc = "none"
    BY <2>1
  <2> QED BY <1>1, <2>3, <2>4, <2>5 DEF Tracked
<1>2. CASE ~(i.state = "running" /\ i.proc = "dead")
  BY <1>2 DEF Poll
<1> QED BY <1>1, <1>2

\* Polling, as status(), sweep() and ensure() do it, keeps the memory sound.
LEMMA PollMemory ==
  ASSUME IInv, NEW i \in Poll(w), w' = i, file' = FileAfterPoll(w, i), UNCHANGED <<orphan, reboots>>
  PROVE  MemoryOK'
<1>1. /\ i \in WorkerInfos /\ Tracked(i) /\ i.path = w.path
      /\ i = w \/ (w.path /\ i # w)
  BY PollFacts DEF IInv, MemoryOK
<1>2. CASE i = w
  BY <1>1, <1>2 DEF IInv, MemoryOK, FileAfterPoll, KeysOnDisk
<1>3. CASE i # w
  BY <1>1, <1>3 DEF IInv, MemoryOK, FileAfterPoll, KeysOnDisk, Tracked
<1> QED BY <1>2, <1>3

\* So does stop(), which also leaves no file behind that it knows of.
LEMMA StopMemory ==
  ASSUME IInv, Stop, UNCHANGED reboots
  PROVE  MemoryOK'
<1>1. CASE w.state = "absent"
  <2>1. w' = [w EXCEPT !.state = "stopped"] /\ UNCHANGED <<file, orphan>>
    BY <1>1 DEF Stop
  <2>2. w' \in WorkerInfos /\ Tracked(w') /\ w'.path = w.path /\ w'.crashes = w.crashes
    BY <2>1 DEF IInv, MemoryOK, WorkerInfos, Tracked
  <2>3. KeysOnDisk'
    BY <1>1, <2>1 DEF IInv, MemoryOK, KeysOnDisk, Tracked
  <2> QED BY <2>1, <2>2, <2>3 DEF IInv, MemoryOK
<1>2. CASE w.state # "absent"
  <2>1. PICK i \in Poll(w) : /\ w' = Stopped(i)
                             /\ file' = (FileAfterPoll(w, i) /\ ~i.path)
                             /\ UNCHANGED orphan
    BY <1>2 DEF Stop
  <2>2. i \in WorkerInfos /\ i.path = w.path
    BY PollFacts DEF IInv, MemoryOK
  <2>3. w' \in WorkerInfos /\ Tracked(w')
    BY <2>1, <2>2 DEF Stopped, WorkerInfos, Tracked
  <2>4. file' \in BOOLEAN /\ (file' => file /\ ~w.path)
    BY <2>1, <2>2 DEF FileAfterPoll
  <2>5. KeysOnDisk'
    BY <2>4 DEF IInv, MemoryOK, KeysOnDisk
  <2> QED BY <2>1, <2>3, <2>4, <2>5 DEF IInv, MemoryOK
<1> QED BY <1>1, <1>2

\* Starting the worker: the file belongs to a running or a failed record.
LEMMA SpawnMemory ==
  ASSUME IInv, Spawn, UNCHANGED reboots
  PROVE  MemoryOK' /\ faults' \in 0 .. MaxFaults
<1>0. faults' \in 0 .. MaxFaults
  BY BoundsAssumption DEF Spawn, IInv, RestOK
<1>1. /\ file' = TRUE /\ orphan' \in BOOLEAN
      /\ \/ w' = [w EXCEPT !.state = "running", !.path = TRUE, !.proc = "alive"]
         \/ w' = [w EXCEPT !.state = "failed", !.path = TRUE]
  BY DEF Spawn, IInv, MemoryOK
<1>2. w' \in WorkerInfos /\ Tracked(w') /\ w'.path /\ w'.state # "stopped"
  BY <1>1 DEF IInv, MemoryOK, WorkerInfos, Tracked
<1> QED BY <1>0, <1>1, <1>2 DEF MemoryOK, KeysOnDisk

\* What ensure() does to a polled record before building the config.
LEMMA PreparedMemory ==
  ASSUME IInv, NEW i \in Poll(w), ~AlreadyRunning(i), w' = Prepared(i),
         file' = FileAfterPoll(w, i), UNCHANGED <<orphan, reboots>>
  PROVE  MemoryOK'
<1>1. /\ i \in WorkerInfos /\ Tracked(i) /\ i.path = w.path
      /\ i = w \/ (w.path /\ i # w)
  BY PollFacts DEF IInv, MemoryOK
<1>2. file' \in BOOLEAN /\ (file' => file /\ (i = w \/ ~w.path))
  BY DEF FileAfterPoll, IInv, MemoryOK
<1>3. w' \in WorkerInfos /\ Tracked(w') /\ w'.path = i.path
  <2>1. CASE i.state = "absent"
    BY <1>1, <2>1 DEF Prepared, WorkerInfos, Tracked
  <2>2. CASE i.state = "failed"
    <3>1. w' = [i EXCEPT !.state = "stopped", !.crashes = 0]
      BY <2>2 DEF Prepared
    <3>2. 0 \in 0 .. MaxRestarts + 1
      BY BoundsAssumption
    <3> QED BY <1>1, <3>1, <3>2 DEF WorkerInfos, Tracked
  <2>3. CASE i.state \notin {"absent", "failed"}
    BY <1>1, <2>3 DEF Prepared
  <2> QED BY <2>1, <2>2, <2>3
<1>4. KeysOnDisk'
  <2> SUFFICES ASSUME file', reboots' = MaxReboots
               PROVE  w'.path /\ (w'.state = "stopped" => w'.crashes = 0)
    BY DEF KeysOnDisk
  <2>1. i = w /\ w.path /\ (w.state = "stopped" => w.crashes = 0)
    BY <1>1, <1>2 DEF IInv, MemoryOK, KeysOnDisk
  <2>2. w.state # "absent"
    BY <2>1 DEF IInv, MemoryOK, Tracked
  <2> QED BY <1>1, <1>3, <2>1, <2>2 DEF Prepared, WorkerInfos
<1> QED BY <1>2, <1>3, <1>4 DEF IInv, MemoryOK

-----------------------------------------------------------------------------
\* The ways a task moves on keep its control state well formed.
LEMMA ControlFacts ==
  ASSUME ControlOK, NEW k \in Tasks
  PROVE  /\ \A p \in Points : Goto(k, p) => ControlOK'
         /\ Finish(k) => ControlOK'
         /\ SweepDone(k) => ControlOK'
         /\ EnsureDone(k) => ControlOK'
         /\ \A r \in Requests, p \in Points : Begin(k, r, p) => ControlOK'
<1>1. \A p \in Points : Goto(k, p) => ControlOK'
  BY DEF Goto, ControlOK
<1>2. Finish(k) => ControlOK'
  BY DEF Finish, ControlOK, Points, Requests
<1>3. SweepDone(k) => ControlOK'
  BY <1>1, <1>2 DEF SweepDone, Points
<1>4. EnsureDone(k) => ControlOK'
  BY <1>2, <1>3 DEF EnsureDone
<1>5. \A r \in Requests, p \in Points : Begin(k, r, p) => ControlOK'
  BY DEF Begin, ControlOK
<1> QED BY <1>1, <1>2, <1>3, <1>4, <1>5

\* A step that leaves the worker record and the file alone.
LEMMA UntouchedMemory ==
  ASSUME IInv, UNCHANGED <<w, file, orphan, reboots>>
  PROVE  MemoryOK'
BY DEF IInv, MemoryOK, KeysOnDisk

-----------------------------------------------------------------------------
LEMMA InitIInv == Init => IInv
<1> SUFFICES ASSUME Init PROVE IInv
  OBVIOUS
<1>1. Absent \in WorkerInfos /\ Tracked(Absent)
  BY BoundsAssumption DEF Absent, WorkerInfos, Tracked
<1>2. MemoryOK
  BY <1>1 DEF Init, MemoryOK, KeysOnDisk
<1>3. ControlOK
  BY DEF Init, ControlOK, Points, Requests
<1>4. faults \in 0 .. MaxFaults /\ reboots \in 0 .. MaxReboots
  BY BoundsAssumption DEF Init
<1>5. /\ status \in {"active", "halted"} /\ creds \in BOOLEAN
      /\ ackHalt \in BOOLEAN /\ serial \in BOOLEAN
  BY DEF Init
<1> QED BY <1>2, <1>3, <1>4, <1>5 DEF IInv, RestOK

\* Requests arriving.
LEMMA RequestStep ==
  ASSUME IInv, NEW k \in Handlers, Request(k)
  PROVE  IInv'
<1>0. k \in Tasks
  BY DEF Tasks
<1>1. ControlOK'
  <2>1. \E r \in Requests, p \in Points : Begin(k, r, p)
    BY DEF Request, Connect, Disconnect, Kill, Resume, Restart, Requests, Points
  <2> QED BY <1>0, <2>1, ControlFacts DEF IInv
<1>2. RestOK'
  BY DEF Request, Connect, Disconnect, Kill, Resume, Restart, registry, IInv, RestOK
<1>3. CASE Connect(k) \/ Disconnect(k) \/ Kill(k) \/ Resume(k)
  <2>1. UNCHANGED <<w, file, orphan, reboots>>
    BY <1>3 DEF Connect, Disconnect, Kill, Resume
  <2> QED BY <1>1, <1>2, <2>1, UntouchedMemory DEF IInv
<1>4. CASE Restart(k)
  <2>1. MemoryOK'
    BY <1>4, StopMemory DEF Restart
  <2> QED BY <1>1, <1>2, <2>1 DEF IInv
<1> QED BY <1>3, <1>4 DEF Request

\* Steps of handlers, of the sweep and of the config builder that leave the
\* worker record alone.
Elsewhere(k) == \/ StoreCredentials(k) \/ KillHalt(k) \/ Unhalt(k) \/ ResumeEnsure(k)
                \/ HandlerFails(k) \/ SweepAborted(k) \/ SweepLookup(k)
                \/ BuildTenant(k) \/ BuildCreds(k) \/ EnsureFails(k)

LEMMA ElsewhereStep ==
  ASSUME IInv, NEW k \in Tasks, Elsewhere(k)
  PROVE  IInv'
<1>1. MemoryOK'
  <2>1. UNCHANGED <<w, file, orphan, reboots>>
    BY DEF Elsewhere, StoreCredentials, KillHalt, Unhalt, ResumeEnsure, HandlerFails,
           SweepAborted, SweepLookup, BuildTenant, BuildCreds, EnsureFails
  <2> QED BY <2>1, UntouchedMemory
<1>2. RestOK'
  <2>1. faults' = faults \/ (faults > 0 /\ faults' = faults - 1)
    BY DEF Elsewhere, StoreCredentials, KillHalt, Unhalt, ResumeEnsure, HandlerFails,
           SweepAborted, SweepLookup, BuildTenant, BuildCreds, EnsureFails
  <2>2. faults' \in 0 .. MaxFaults
    BY <2>1, BoundsAssumption DEF IInv, RestOK
  <2>3. /\ status' \in {"active", "halted"} /\ creds' \in BOOLEAN
        /\ ackHalt' \in BOOLEAN /\ reboots' = reboots /\ serial' = serial
    BY DEF Elsewhere, StoreCredentials, KillHalt, Unhalt, ResumeEnsure, HandlerFails,
           SweepAborted, SweepLookup, BuildTenant, BuildCreds, EnsureFails, registry,
           IInv, RestOK
  <2> QED BY <2>2, <2>3 DEF IInv, RestOK
<1>3. ControlOK'
  <2>1. \/ \E p \in Points : Goto(k, p)
        \/ Finish(k) \/ SweepDone(k) \/ EnsureDone(k)
    BY DEF Elsewhere, StoreCredentials, KillHalt, Unhalt, ResumeEnsure, HandlerFails,
           SweepAborted, SweepLookup, BuildTenant, BuildCreds, EnsureFails, Points, Nested
  <2> QED BY <2>1, ControlFacts DEF IInv
<1> QED BY <1>1, <1>2, <1>3 DEF IInv

\* The steps of a task that touch the worker record.
LEMMA TaskStep ==
  ASSUME IInv, NEW k \in Tasks, Step(k)
  PROVE  IInv'
<1>1. CASE Elsewhere(k)
  BY <1>1, ElsewhereStep
<1>2. CASE DisconnectStop(k) \/ KillStop(k)
  <2>1. Stop /\ UNCHANGED <<registry, ackHalt, faults, reboots, serial>>
    BY <1>2 DEF DisconnectStop, KillStop
  <2>2. ControlOK'
    BY <1>2, ControlFacts DEF DisconnectStop, KillStop, IInv, Points
  <2>3. MemoryOK'
    BY <2>1, StopMemory
  <2> QED BY <2>1, <2>2, <2>3 DEF IInv, RestOK, registry
<1>3. CASE SweepTenant(k)
  <2>1. PICK i \in Poll(w) :
          /\ w' = i /\ file' = FileAfterPoll(w, i)
          /\ IF NeedsRestart(i) THEN Goto(k, "lookup") ELSE SweepDone(k)
    BY <1>3 DEF SweepTenant
  <2>2. UNCHANGED <<orphan, registry, ackHalt, faults, reboots, serial>>
    BY <1>3 DEF SweepTenant
  <2>3. MemoryOK'
    BY <2>1, <2>2, PollMemory
  <2>4. ControlOK'
    BY <2>1, ControlFacts DEF IInv, Points
  <2> QED BY <2>2, <2>3, <2>4 DEF IInv, RestOK, registry
<1>4. CASE EnsureEntry(k)
  <2>1. PICK i \in Poll(w) :
          /\ file' = FileAfterPoll(w, i)
          /\ IF AlreadyRunning(i)
               THEN w' = i /\ EnsureDone(k)
               ELSE /\ w' = Prepared(i)
                    /\ Goto(k, IF at[k] = "own" THEN "tenant" ELSE "n_tenant")
    BY <1>4 DEF EnsureEntry
  <2>2. UNCHANGED <<orphan, registry, ackHalt, faults, reboots, serial>>
    BY <1>4 DEF EnsureEntry
  <2>3. MemoryOK'
    BY <2>1, <2>2, PollMemory, PreparedMemory
  <2>4. ControlOK'
    BY <2>1, ControlFacts DEF IInv, Points, Nested
  <2> QED BY <2>2, <2>3, <2>4 DEF IInv, RestOK, registry
<1>5. CASE BuildRefused(k)
  <2>1. /\ w' = [w EXCEPT !.state = "failed"] /\ EnsureDone(k)
        /\ UNCHANGED <<file, orphan, registry, ackHalt, faults, reboots, serial>>
    BY <1>5 DEF BuildRefused
  <2>2. w' \in WorkerInfos /\ Tracked(w') /\ w'.path = w.path /\ w'.state = "failed"
    BY <2>1 DEF IInv, MemoryOK, WorkerInfos, Tracked
  <2>3. MemoryOK'
    BY <2>1, <2>2 DEF IInv, MemoryOK, KeysOnDisk
  <2>4. ControlOK'
    BY <2>1, ControlFacts DEF IInv
  <2> QED BY <2>1, <2>3, <2>4 DEF IInv, RestOK, registry
<1>6. CASE EnsureSpawn(k)
  <2>1. Spawn /\ EnsureDone(k) /\ UNCHANGED <<registry, ackHalt, reboots, serial>>
    BY <1>6 DEF EnsureSpawn
  <2>2. MemoryOK' /\ faults' \in 0 .. MaxFaults
    BY <2>1, SpawnMemory
  <2>3. ControlOK'
    BY <2>1, ControlFacts DEF IInv
  <2> QED BY <2>1, <2>2, <2>3 DEF IInv, RestOK, registry
<1> QED BY <1>1, <1>2, <1>3, <1>4, <1>5, <1>6 DEF Step, Elsewhere

\* Everything that is not a request's own step.
LEMMA OtherStep ==
  ASSUME IInv, SweepLoop \/ Status \/ WorkerExits \/ OrphanExits \/ Reboot
  PROVE  IInv'
<1>1. CASE SweepLoop
  <2>1. MemoryOK'
    BY <1>1, UntouchedMemory DEF SweepLoop
  <2>2. ControlOK'
    BY <1>1, ControlFacts DEF SweepLoop, Tasks, Requests, Points, IInv
  <2> QED BY <1>1, <2>1, <2>2 DEF SweepLoop, IInv, RestOK, registry
<1>2. CASE Status
  <2>1. PICK i \in Poll(w) : w' = i /\ file' = FileAfterPoll(w, i)
    BY <1>2 DEF Status
  <2>2. UNCHANGED <<orphan, registry, op, at, ackHalt, faults, reboots, serial>>
    BY <1>2 DEF Status
  <2>3. MemoryOK'
    BY <2>1, <2>2, PollMemory
  <2> QED BY <2>2, <2>3 DEF IInv, ControlOK, RestOK, registry
<1>3. CASE WorkerExits
  <2>1. /\ w' = [w EXCEPT !.proc = "dead"]
        /\ UNCHANGED <<file, orphan, registry, op, at, ackHalt, faults, reboots, serial>>
    BY <1>3 DEF WorkerExits
  <2>2. /\ w' \in WorkerInfos /\ Tracked(w')
        /\ w'.path = w.path /\ w'.state = w.state /\ w'.crashes = w.crashes
    BY <2>1 DEF IInv, MemoryOK, WorkerInfos, Tracked
  <2>3. MemoryOK'
    BY <2>1, <2>2 DEF IInv, MemoryOK, KeysOnDisk
  <2> QED BY <2>1, <2>3 DEF IInv, ControlOK, RestOK, registry
<1>4. CASE OrphanExits
  BY <1>4 DEF OrphanExits, IInv, MemoryOK, KeysOnDisk, ControlOK, RestOK, registry
<1>5. CASE Reboot
  <2>1. Absent \in WorkerInfos /\ Tracked(Absent)
    BY BoundsAssumption DEF Absent, WorkerInfos, Tracked
  <2>2. reboots' \in 0 .. MaxReboots /\ reboots' # MaxReboots
    BY <1>5, BoundsAssumption DEF Reboot, IInv, RestOK
  <2>3. MemoryOK'
    BY <1>5, <2>1, <2>2 DEF Reboot, IInv, MemoryOK, KeysOnDisk
  <2>4. ControlOK'
    BY <1>5 DEF Reboot, ControlOK, Points, Requests
  <2> QED BY <1>5, <2>2, <2>3, <2>4 DEF Reboot, IInv, RestOK, registry
<1> QED BY <1>1, <1>2, <1>3, <1>4, <1>5

LEMMA NextIInv ==
  ASSUME IInv, [Next]_vars
  PROVE  IInv'
<1>1. CASE UNCHANGED vars
  BY <1>1 DEF vars, IInv, MemoryOK, KeysOnDisk, ControlOK, RestOK
<1> QED BY <1>1, RequestStep, TaskStep, OtherStep DEF Next

\* The invariant holds in every reachable state.
THEOREM Invariance == Spec => []IInv
<1> QED BY InitIInv, NextIInv, PTL DEF Spec

\* Every variable keeps its type, and a record in state "running" always tracks
\* a process and a config path, whatever requests and sweeps overlap.
THEOREM TypeCorrect == Spec => []TypeOK
<1>1. IInv => TypeOK
  BY DEF IInv, MemoryOK, ControlOK, RestOK, Tracked, TypeOK
<1> QED BY <1>1, Invariance, PTL

\* Decrypted keys on disk are always accounted for: no interleaving of crashes,
\* stops, sweeps and ensures makes the supervisor forget a file it wrote.
THEOREM KeysAccounted == Spec => []KeysOnDisk
<1>1. IInv => KeysOnDisk
  BY DEF IInv, MemoryOK
<1> QED BY <1>1, Invariance, PTL

-----------------------------------------------------------------------------
(* Requests and sweeps one after the other *)

\* Where a task rests on what it saw of the worker: a sweep that is about to
\* restart it, and an ensure() that is building its config.
Building == {"lookup", "tenant", "creds", "config", "refused"} \cup Nested

\* Points no task reaches while a /kill stands.
BeyondHalt == {"unhalt", "creds", "config", "n_creds", "n_config"}

\* What a task suspended at p may count on.
PointOK(p) == /\ p \in Building => w.state = "stopped"
              /\ p = "halt" => w.state # "running"
              /\ ackHalt => p \notin BeyondHalt

\* A live process is that of a running record and the only one; a /kill that
\* stands has left the tenant halted and the worker down.
WorldOK == /\ w.proc = "alive" => w.state = "running"
           /\ ~orphan
           /\ ackHalt => status = "halted" /\ w.state # "running"

SerialOK == /\ \A k, m \in Tasks : at[k] # "idle" /\ at[m] # "idle" => k = m
            /\ WorldOK
            /\ \A k \in Tasks : PointOK(at[k])

\* The sweep loop's task only ever sweeps.
LoopOK == /\ at[Loop] # "idle" => op[Loop] = "sweep"
          /\ at[Loop] # "own"

SInv == IInv /\ LoopOK /\ (Serially => SerialOK)

LEMMA LoopStep ==
  ASSUME ControlOK, LoopOK, [Next]_vars
  PROVE  LoopOK'
<1>0. Loop \in Tasks /\ op \in [Tasks -> Requests] /\ at \in [Tasks -> Points] /\ \A k \in Handlers : k # Loop /\ k \in Tasks
  BY LoopAssumption DEF ControlOK, Tasks
<1>1. ASSUME NEW k \in Handlers, Request(k) PROVE LoopOK'
  BY <1>0, <1>1 DEF Request, Connect, Disconnect, Kill, Resume, Restart, Begin, LoopOK
<1>2. ASSUME NEW k \in Tasks, Step(k) PROVE LoopOK'
  <2>1. CASE k # Loop
    <3>1. at'[Loop] = at[Loop] /\ op'[Loop] = op[Loop]
      <4>1. \/ \E p \in Points : Goto(k, p)
            \/ Finish(k) \/ SweepDone(k) \/ EnsureDone(k)
        BY <1>2 DEF Step, StoreCredentials, DisconnectStop, KillStop, KillHalt, Unhalt, ResumeEnsure,
           HandlerFails, SweepTenant, SweepAborted, SweepLookup, EnsureEntry, BuildTenant, BuildCreds,
           BuildRefused, EnsureSpawn, EnsureFails, Points, Nested
      <4> QED BY <1>0, <2>1, <4>1 DEF Goto, Finish, SweepDone, EnsureDone
    <3> QED BY <3>1 DEF LoopOK
  <2>2. CASE k = Loop
    <3>1. at[k] # "idle"
      BY <1>2 DEF Step, StoreCredentials, DisconnectStop, KillStop, KillHalt, Unhalt, ResumeEnsure,
           HandlerFails, SweepTenant, SweepAborted, SweepLookup, EnsureEntry, BuildTenant, BuildCreds,
           BuildRefused, EnsureSpawn, EnsureFails, Points, Nested
    <3>2. op[k] = "sweep"
      BY <2>2, <3>1 DEF LoopOK
    <3>3. Finish(k) \/ \E p \in Points \ {"own"} : Goto(k, p)
      BY <1>2, <3>2 DEF Step, StoreCredentials, DisconnectStop, KillStop, KillHalt, Unhalt, ResumeEnsure,
           HandlerFails, SweepTenant, SweepAborted, SweepLookup, EnsureEntry, BuildTenant, BuildCreds,
           BuildRefused, EnsureSpawn, EnsureFails, SweepDone, EnsureDone, Points, Nested
    <3> QED BY <1>0, <2>2, <3>2, <3>3 DEF Goto, Finish, LoopOK
  <2> QED BY <2>1, <2>2
<1>3. CASE SweepLoop
  BY <1>0, <1>3 DEF SweepLoop, Begin, LoopOK
<1>4. CASE Reboot
  BY <1>0, <1>4 DEF Reboot, LoopOK
<1>5. CASE Status \/ WorkerExits \/ OrphanExits \/ UNCHANGED vars
  <2>1. UNCHANGED <<op, at>>
    BY <1>5 DEF Status, WorkerExits, OrphanExits, vars
  <2> QED BY <2>1 DEF LoopOK
<1> QED BY <1>1, <1>2, <1>3, <1>4, <1>5 DEF Next

\* The only task in progress moves on, or one starts when there is none.
LEMMA MoveOK ==
  ASSUME ControlOK, NEW k \in Tasks, NEW p, at' = [at EXCEPT ![k] = p],
         \A m \in Tasks : m # k => at[m] = "idle",
         WorldOK', PointOK(p)'
  PROVE  SerialOK'
<1>1. /\ at'[k] = p /\ \A m \in Tasks : m # k => at'[m] = "idle"
  BY DEF ControlOK
<1>2. PointOK("idle")'
  BY DEF PointOK, Building, BeyondHalt, Nested
<1>3. \A m \in Tasks : PointOK(at[m])'
  <2> SUFFICES ASSUME NEW m \in Tasks PROVE PointOK(at[m])'
    OBVIOUS
  <2>1. CASE m = k
    BY <1>1, <2>1 DEF PointOK
  <2>2. CASE m # k
    BY <1>1, <1>2, <2>2 DEF PointOK
  <2> QED BY <2>1, <2>2
<1> QED BY <1>1, <1>3 DEF SerialOK

\* A task that ends, or returns from a sweep, counts on nothing.
LEMMA EndsOK ==
  ASSUME ControlOK, NEW k \in Tasks, Finish(k) \/ SweepDone(k) \/ EnsureDone(k),
         \A m \in Tasks : m # k => at[m] = "idle", WorldOK'
  PROVE  SerialOK'
<1>1. PICK p \in {"idle", "own"} : at' = [at EXCEPT ![k] = p]
  BY DEF Finish, SweepDone, EnsureDone, Goto
<1>2. PointOK(p)'
  BY <1>1 DEF PointOK, Building, BeyondHalt, Nested
<1> QED BY <1>1, <1>2, MoveOK

\* Polling changes a running record at most, to one without a process.
LEMMA PollSeen ==
  ASSUME NEW j \in Poll(w)
  PROVE  \/ j = w
         \/ w.state = "running" /\ j.state \in {"stopped", "failed"} /\ j.proc = "none"
BY DEF Poll

\* stop() leaves no process and no running record, and a verdict as it is.
LEMMA StopSeen ==
  ASSUME IInv, Stop, w.proc = "alive" => w.state = "running"
  PROVE  /\ w'.proc # "alive" /\ w'.state # "running" /\ orphan' = orphan
         /\ w.state = "failed" => w'.state = "failed"
<1>1. CASE w.state = "absent"
  BY <1>1 DEF Stop, IInv, MemoryOK, WorkerInfos
<1>2. CASE w.state # "absent"
  <2>1. PICK i \in Poll(w) : w' = Stopped(i) /\ UNCHANGED orphan
    BY <1>2 DEF Stop
  <2>2. i \in WorkerInfos
    BY PollFacts DEF IInv, MemoryOK
  <2>3. w'.proc = "none" /\ w'.state = IF i.state = "running" THEN "stopped" ELSE i.state
    BY <2>1, <2>2 DEF Stopped, WorkerInfos
  <2>4. w.state = "failed" => i = w
    BY PollSeen, <2>1
  <2> QED BY <2>1, <2>3, <2>4
<1> QED BY <1>1, <1>2

\* What every step is, for VerdictStands.
VerdictKept ==
  Serially' /\ w.state = "failed" /\ w.crashes > MaxRestarts /\ w'.state # "failed"
    => \E k \in Handlers : at[k] = "own" /\ at'[k] # "own"

LEMMA RequestSerially ==
  ASSUME IInv, SerialOK, serial, NEW k \in Handlers, Request(k)
  PROVE  SerialOK' /\ VerdictKept
<1>0. k \in Tasks /\ ControlOK /\ WorldOK
  BY DEF Tasks, IInv, SerialOK
<1>1. \A m \in Tasks : at[m] = "idle"
  BY DEF Request, Connect, Disconnect, Kill, Resume, Restart, Begin, CanStart
<1>2. PICK p \in {"store", "audit", "flatten", "unhalt", "sweep"} : at' = [at EXCEPT ![k] = p] /\ (p = "unhalt" => ~ackHalt')
  BY DEF Request, Connect, Disconnect, Kill, Resume, Restart, Begin
<1>3. PointOK(p)'
  BY <1>2 DEF PointOK, Building, BeyondHalt, Nested
<1>4. WorldOK' /\ (w.state = "failed" => w'.state = "failed")
  <2>1. CASE Restart(k)
    <3>1. w'.proc # "alive" /\ w'.state # "running" /\ orphan' = orphan /\ (w.state = "failed" => w'.state = "failed")
      BY <1>0, <2>1, StopSeen DEF Restart, WorldOK
    <3>2. UNCHANGED <<status, ackHalt>>
      BY <2>1 DEF Restart, registry
    <3> QED BY <1>0, <3>1, <3>2 DEF WorldOK
  <2>2. CASE Connect(k) \/ Disconnect(k) \/ Kill(k) \/ Resume(k)
    <3>1. UNCHANGED <<w, orphan, status>>
      BY <2>2 DEF Connect, Disconnect, Kill, Resume, registry
    <3>2. ackHalt' = ackHalt \/ ackHalt' = FALSE
      BY <2>2 DEF Connect, Disconnect, Kill, Resume
    <3> QED BY <1>0, <3>1, <3>2 DEF WorldOK
  <2> QED BY <2>1, <2>2 DEF Request
<1> QED BY <1>0, <1>1, <1>2, <1>3, <1>4, MoveOK DEF VerdictKept

\* Steps that leave the worker record alone.
LEMMA ElsewhereSerially ==
  ASSUME IInv, SerialOK, NEW k \in Tasks, Elsewhere(k)
  PROVE  SerialOK'
<1>0. /\ ControlOK /\ WorldOK /\ PointOK(at[k]) /\ status \in {"active", "halted"}
      /\ ackHalt \in BOOLEAN
  BY DEF IInv, SerialOK, RestOK
<1>1. UNCHANGED <<w, orphan>> /\ at[k] # "idle"
  BY DEF Elsewhere, StoreCredentials, KillHalt, Unhalt, ResumeEnsure, HandlerFails,
         SweepAborted, SweepLookup, BuildTenant, BuildCreds, EnsureFails
<1>2. \A m \in Tasks : m # k => at[m] = "idle"
  BY <1>1 DEF SerialOK
<1>3. CASE KillHalt(k)
  <2>1. w.state # "running" /\ status' = "halted" /\ Finish(k)
    BY <1>0, <1>3 DEF KillHalt, PointOK
  <2>2. WorldOK'
    BY <1>0, <1>1, <2>1 DEF WorldOK
  <2> QED BY <1>0, <1>2, <2>1, <2>2, EndsOK
<1>4. CASE Unhalt(k)
  <2>1. ~ackHalt /\ ackHalt' = ackHalt /\ at' = [at EXCEPT ![k] = "credcheck"]
    BY <1>0, <1>4 DEF Unhalt, PointOK, BeyondHalt, Goto
  <2>2. WorldOK'
    BY <1>0, <1>1, <2>1 DEF WorldOK
  <2>3. PointOK("credcheck")'
    BY DEF PointOK, Building, BeyondHalt, Nested
  <2> QED BY <1>0, <1>2, <2>1, <2>2, <2>3, MoveOK
<1>5. CASE Elsewhere(k) /\ ~KillHalt(k) /\ ~Unhalt(k)
  <2>1. UNCHANGED <<status, ackHalt>>
    BY <1>5 DEF Elsewhere, StoreCredentials, ResumeEnsure, HandlerFails,
           SweepAborted, SweepLookup, BuildTenant, BuildCreds, EnsureFails, registry
  <2>2. WorldOK'
    BY <1>0, <1>1, <2>1 DEF WorldOK
  <2>3. CASE Finish(k) \/ SweepDone(k) \/ EnsureDone(k)
    BY <1>0, <1>2, <2>2, <2>3, EndsOK
  <2>4. CASE StoreCredentials(k) \/ ResumeEnsure(k)
    <3>1. CASE Goto(k, "sweep")
      <4>1. PointOK("sweep")'
        BY DEF PointOK, Building, BeyondHalt, Nested
      <4> QED BY <1>0, <1>2, <2>2, <3>1, <4>1, MoveOK DEF Goto
    <3> QED BY <2>3, <2>4, <3>1 DEF StoreCredentials, ResumeEnsure
  <2>5. CASE SweepLookup(k)
    <3>1. CASE Goto(k, "nested")
      <4>1. PointOK("nested")'
        BY <1>0, <1>1, <2>5 DEF SweepLookup, PointOK, Building, BeyondHalt, Nested
      <4> QED BY <1>0, <1>2, <2>2, <3>1, <4>1, MoveOK DEF Goto
    <3> QED BY <2>3, <2>5, <3>1 DEF SweepLookup
  <2>6. CASE BuildTenant(k)
    <3>1. PICK p \in {"creds", "refused", "n_creds", "n_refused"} :
            /\ at' = [at EXCEPT ![k] = p]
            /\ p \in {"creds", "n_creds"} => status = "active"
      BY <2>6 DEF BuildTenant, Goto, TenantActive
    <3>2. PointOK(p)'
      <4>1. w.state = "stopped"
        BY <1>0, <2>6 DEF BuildTenant, PointOK, Building, Nested
      <4>2. p \in {"creds", "n_creds"} => ~ackHalt
        BY <1>0, <3>1 DEF WorldOK
      <4> QED BY <1>1, <2>1, <3>1, <4>1, <4>2 DEF PointOK, Building, BeyondHalt, Nested
    <3> QED BY <1>0, <1>2, <2>2, <3>1, <3>2, MoveOK
  <2>7. CASE BuildCreds(k)
    <3>1. PICK p \in {"config", "refused", "n_config", "n_refused"} : at' = [at EXCEPT ![k] = p]
      BY <2>7 DEF BuildCreds, Goto
    <3>2. PointOK(p)'
      <4>1. w.state = "stopped" /\ ~ackHalt
        BY <1>0, <2>7 DEF BuildCreds, PointOK, Building, BeyondHalt, Nested
      <4> QED BY <1>1, <2>1, <3>1, <4>1 DEF PointOK, Building, BeyondHalt, Nested
    <3> QED BY <1>0, <1>2, <2>2, <3>1, <3>2, MoveOK
  <2> QED BY <1>5, <2>3, <2>4, <2>5, <2>6, <2>7 DEF Elsewhere, HandlerFails, SweepAborted, EnsureFails
<1> QED BY <1>3, <1>4, <1>5

\* Steps that touch it.
LEMMA TaskSerially ==
  ASSUME IInv, LoopOK, SerialOK, NEW k \in Tasks, Step(k)
  PROVE  SerialOK' /\ VerdictKept
<1>0. /\ ControlOK /\ WorldOK /\ PointOK(at[k]) /\ w \in WorkerInfos
  BY DEF IInv, SerialOK, RestOK, MemoryOK
<1>1. at[k] # "idle"
  BY DEF Step, StoreCredentials, DisconnectStop, KillStop, KillHalt, Unhalt, ResumeEnsure,
         HandlerFails, SweepTenant, SweepAborted, SweepLookup, EnsureEntry, BuildTenant, BuildCreds,
         BuildRefused, EnsureSpawn, EnsureFails, Nested
<1>2. \A m \in Tasks : m # k => at[m] = "idle"
  BY <1>1 DEF SerialOK
<1>3. CASE Elsewhere(k)
  <2>1. w' = w
    BY <1>3 DEF Elsewhere, StoreCredentials, KillHalt, Unhalt, ResumeEnsure, HandlerFails,
           SweepAborted, SweepLookup, BuildTenant, BuildCreds, EnsureFails
  <2> QED BY <1>3, <2>1, ElsewhereSerially DEF VerdictKept
<1>4. CASE DisconnectStop(k) \/ KillStop(k)
  <2>1. /\ Stop /\ UNCHANGED <<status, ackHalt>>
        /\ Finish(k) \/ Goto(k, "halt")
    BY <1>4 DEF DisconnectStop, KillStop, registry
  <2>2. w'.proc # "alive" /\ w'.state # "running" /\ orphan' = orphan /\ (w.state = "failed" => w'.state = "failed")
    BY <1>0, <2>1, StopSeen DEF WorldOK
  <2>3. WorldOK'
    BY <1>0, <2>1, <2>2 DEF WorldOK
  <2>4. PointOK("halt")'
    BY <2>2 DEF PointOK, Building, BeyondHalt, Nested
  <2>5. SerialOK'
    BY <1>0, <1>2, <2>1, <2>3, <2>4, EndsOK, MoveOK DEF Goto
  <2> QED BY <2>2, <2>5 DEF VerdictKept
<1>5. CASE SweepTenant(k)
  <2>1. PICK i \in Poll(w) :
          /\ w' = i
          /\ IF NeedsRestart(i) THEN Goto(k, "lookup") ELSE SweepDone(k)
    BY <1>5 DEF SweepTenant
  <2>2. UNCHANGED <<orphan, status, ackHalt>>
    BY <1>5 DEF SweepTenant, registry
  <2>3. i = w \/ (w.state = "running" /\ i.state \in {"stopped", "failed"} /\ i.proc = "none")
    BY PollSeen
  <2>4. WorldOK'
    BY <1>0, <2>1, <2>2, <2>3 DEF WorldOK
  <2>5. CASE NeedsRestart(i)
    <3>1. PointOK("lookup")'
      BY <2>1, <2>5 DEF NeedsRestart, PointOK, BeyondHalt
    <3>2. SerialOK'
      BY <1>0, <1>2, <2>1, <2>4, <2>5, <3>1, MoveOK DEF Goto
    <3> QED BY <2>1, <2>3, <3>2 DEF VerdictKept
  <2>6. CASE ~NeedsRestart(i)
    <3>1. SerialOK'
      BY <1>0, <1>2, <2>1, <2>4, <2>6, EndsOK
    <3> QED BY <2>1, <2>3, <3>1 DEF VerdictKept
  <2> QED BY <2>5, <2>6
<1>6. CASE EnsureEntry(k)
  <2>1. PICK i \in Poll(w) :
          IF AlreadyRunning(i)
            THEN w' = i /\ EnsureDone(k)
            ELSE /\ w' = Prepared(i)
                 /\ Goto(k, IF at[k] = "own" THEN "tenant" ELSE "n_tenant")
    BY <1>6 DEF EnsureEntry
  <2>2. UNCHANGED <<orphan, status, ackHalt>> /\ at[k] \in {"own", "nested"}
    BY <1>6 DEF EnsureEntry, registry
  <2>3. i = w \/ (w.state = "running" /\ i.state \in {"stopped", "failed"} /\ i.proc = "none")
    BY PollSeen
  <2>4. i \in WorkerInfos
    BY PollFacts DEF IInv, MemoryOK
  <2>5. CASE AlreadyRunning(i)
    <3>1. w' = i /\ EnsureDone(k)
      BY <2>1, <2>5
    <3>2. WorldOK'
      BY <1>0, <2>2, <2>3, <3>1 DEF WorldOK
    <3>3. SerialOK'
      BY <1>0, <1>2, <3>1, <3>2, EndsOK
    <3>4. VerdictKept
      BY <2>3, <3>1 DEF VerdictKept
    <3> QED BY <3>3, <3>4
  <2>6. CASE ~AlreadyRunning(i)
    <3>1. PICK p \in {"tenant", "n_tenant"} : at' = [at EXCEPT ![k] = p]
      BY <2>1, <2>6 DEF Goto
    <3>2. w' = Prepared(i)
      BY <2>1, <2>6
    <3>3. w'.state = "stopped" /\ w'.proc = i.proc
      <4>1. i.state \in {"absent", "stopped", "failed"}
        BY <2>4, <2>6 DEF AlreadyRunning, WorkerInfos
      <4>2. CASE i.state = "absent"
        BY <2>4, <3>2, <4>2 DEF Prepared, WorkerInfos
      <4>3. CASE i.state = "failed"
        <5>1. w' = [i EXCEPT !.state = "stopped", !.crashes = 0]
          BY <3>2, <4>3 DEF Prepared
        <5> QED BY <2>4, <5>1 DEF WorkerInfos
      <4>4. CASE i.state = "stopped"
        BY <3>2, <4>4 DEF Prepared
      <4> QED BY <4>1, <4>2, <4>3, <4>4
    <3>4. i.proc # "alive"
      BY <1>0, <2>3, <2>6 DEF WorldOK, AlreadyRunning
    <3>5. WorldOK'
      BY <1>0, <2>2, <3>3, <3>4 DEF WorldOK
    <3>6. PointOK(p)'
      BY <3>1, <3>3 DEF PointOK, BeyondHalt
    <3>7. SerialOK'
      BY <1>0, <1>2, <3>1, <3>5, <3>6, MoveOK
    <3>8. VerdictKept
      <4> SUFFICES ASSUME w.state = "failed"
                   PROVE  \E h \in Handlers : at[h] = "own" /\ at'[h] # "own"
        BY DEF VerdictKept
      <4>1. at[k] = "own"
        BY <1>0, <2>2 DEF PointOK, Building, Nested
      <4>2. k \in Handlers
        BY <4>1 DEF LoopOK, Tasks
      <4>3. at'[k] # "own"
        BY <1>0, <3>1 DEF ControlOK
      <4> QED BY <4>1, <4>2, <4>3
    <3> QED BY <3>7, <3>8
  <2> QED BY <2>5, <2>6
<1>7. CASE BuildRefused(k)
  <2>1. /\ w' = [w EXCEPT !.state = "failed"] /\ EnsureDone(k)
        /\ UNCHANGED <<orphan, status, ackHalt>> /\ at[k] \in {"refused", "n_refused"}
    BY <1>7 DEF BuildRefused, registry
  <2>2. w'.state = "failed" /\ w'.proc = w.proc
    BY <1>0, <2>1 DEF WorkerInfos
  <2>3. w.proc # "alive"
    BY <1>0, <2>1 DEF PointOK, WorldOK, Building, Nested
  <2>4. WorldOK'
    BY <1>0, <2>1, <2>2, <2>3 DEF WorldOK
  <2>5. SerialOK'
    BY <1>0, <1>2, <2>1, <2>4, EndsOK
  <2> QED BY <2>2, <2>5 DEF VerdictKept
<1>8. CASE EnsureSpawn(k)
  <2>1. /\ Spawn /\ EnsureDone(k) /\ UNCHANGED <<status, ackHalt>>
        /\ at[k] \in {"config", "n_config"}
    BY <1>8 DEF EnsureSpawn, registry
  <2>2. w.state = "stopped" /\ ~ackHalt /\ w.proc # "alive"
    BY <1>0, <2>1 DEF PointOK, WorldOK, Building, BeyondHalt, Nested
  <2>3. ~orphan' /\ (w'.proc = "alive" => w'.state = "running")
    <3>1. orphan' = (orphan \/ w.proc = "alive") \/ orphan' = orphan
      BY <2>1 DEF Spawn
    <3>2. ~orphan'
      BY <1>0, <2>2, <3>1 DEF WorldOK
    <3>3. \/ w' = [w EXCEPT !.state = "running", !.path = TRUE, !.proc = "alive"]
          \/ w' = [w EXCEPT !.state = "failed", !.path = TRUE]
      BY <2>1 DEF Spawn
    <3>4. w'.proc = "alive" => w'.state = "running"
      BY <1>0, <2>2, <3>3 DEF WorkerInfos
    <3> QED BY <3>2, <3>4
  <2>4. WorldOK'
    BY <2>1, <2>2, <2>3 DEF WorldOK
  <2>5. SerialOK'
    BY <1>0, <1>2, <2>1, <2>4, EndsOK
  <2> QED BY <2>2, <2>5 DEF VerdictKept
<1> QED BY <1>3, <1>4, <1>5, <1>6, <1>7, <1>8 DEF Step, Elsewhere

LEMMA OtherSerially ==
  ASSUME IInv, SerialOK, serial, reboots' = MaxReboots,
         SweepLoop \/ Status \/ WorkerExits \/ OrphanExits \/ Reboot
  PROVE  SerialOK' /\ VerdictKept
<1>0. /\ ControlOK /\ WorldOK /\ w \in WorkerInfos /\ reboots \in 0 .. MaxReboots
      /\ \A k \in Tasks : PointOK(at[k])
  BY DEF IInv, SerialOK, RestOK, MemoryOK
\* The tasks stay where they are.
<1>1. ASSUME at' = at, UNCHANGED <<orphan, status, ackHalt>>,
             \/ w'.state = w.state /\ (w'.proc = "alive" => w.proc = "alive")
             \/ w.state = "running" /\ w'.state \in {"stopped", "failed"} /\ w'.proc = "none"
      PROVE  SerialOK' /\ VerdictKept
  <2>1. WorldOK'
    BY <1>0, <1>1 DEF WorldOK
  <2>2. \A k \in Tasks : PointOK(at[k])'
    BY <1>0, <1>1 DEF PointOK
  <2> QED BY <1>1, <2>1, <2>2 DEF SerialOK, VerdictKept
<1>2. CASE SweepLoop
  <2>1. /\ \A m \in Tasks : at[m] = "idle"
        /\ at' = [at EXCEPT ![Loop] = "sweep"] /\ UNCHANGED <<w, orphan, status, ackHalt>>
    BY <1>2 DEF SweepLoop, Begin, CanStart, registry
  <2>2. WorldOK'
    BY <1>0, <2>1 DEF WorldOK
  <2>3. PointOK("sweep")'
    BY DEF PointOK, Building, BeyondHalt, Nested
  <2>4. Loop \in Tasks
    BY DEF Tasks
  <2>5. SerialOK'
    BY <1>0, <2>1, <2>2, <2>3, <2>4, MoveOK
  <2> QED BY <2>1, <2>5 DEF VerdictKept
<1>3. CASE Status
  <2>1. PICK i \in Poll(w) : w' = i
    BY <1>3 DEF Status
  <2> QED BY <1>1, <1>3, <2>1, PollSeen DEF Status, registry
<1>4. CASE WorkerExits
  <2>1. w'.state = w.state /\ w'.proc = "dead"
    BY <1>0, <1>4 DEF WorkerExits, WorkerInfos
  <2> QED BY <1>1, <1>4, <2>1 DEF WorkerExits, registry
<1>5. CASE OrphanExits
  BY <1>0, <1>5 DEF OrphanExits, WorldOK
<1>6. CASE Reboot
  <2>1. reboots' # MaxReboots
    BY <1>0, <1>6, BoundsAssumption DEF Reboot
  <2> QED BY <2>1
<1> QED BY <1>2, <1>3, <1>4, <1>5, <1>6

LEMMA InitSInv == Init => SInv
<1> SUFFICES ASSUME Init PROVE SInv
  OBVIOUS
<1>1. Loop \in Tasks /\ \A k \in Tasks : at[k] = "idle"
  BY DEF Init, Tasks
<1>2. LoopOK
  BY <1>1 DEF LoopOK
<1>3. WorldOK
  BY DEF Init, Absent, WorldOK
<1>4. PointOK("idle")
  BY DEF PointOK, Building, BeyondHalt, Nested
<1>5. SerialOK
  BY <1>1, <1>3, <1>4 DEF SerialOK
<1> QED BY <1>2, <1>5, InitIInv DEF SInv

LEMMA NextSInv ==
  ASSUME SInv, [Next]_vars
  PROVE  SInv' /\ [VerdictKept]_vars
<1>1. IInv' /\ LoopOK'
  BY NextIInv, LoopStep DEF SInv, IInv
<1>2. serial' = serial /\ (reboots' = MaxReboots => reboots = MaxReboots)
  <2>1. serial' = serial /\ (reboots' = reboots \/ reboots' = reboots - 1)
    BY DEF Next, vars, Request, Connect, Disconnect, Kill, Resume, Restart,
         Step, StoreCredentials, DisconnectStop, KillStop, KillHalt, Unhalt, ResumeEnsure,
         HandlerFails, SweepTenant, SweepAborted, SweepLookup, EnsureEntry, BuildTenant, BuildCreds,
         BuildRefused, EnsureSpawn, EnsureFails, SweepLoop, Status, WorkerExits, OrphanExits, Reboot
  <2> QED BY <2>1, BoundsAssumption DEF SInv, IInv, RestOK
<1>3. CASE ~Serially'
  BY <1>1, <1>3 DEF SInv, VerdictKept
<1>4. CASE Serially'
  <2>1. serial /\ reboots' = MaxReboots /\ SerialOK /\ IInv /\ LoopOK
    BY <1>2, <1>4 DEF Serially, SInv
  <2>2. CASE UNCHANGED vars
    <3>1. SerialOK'
      BY <2>1, <2>2 DEF vars, SerialOK, WorldOK, PointOK
    <3> QED BY <1>1, <2>2, <3>1 DEF SInv
  <2>3. CASE Next
    <3>1. SerialOK' /\ VerdictKept
      BY <2>1, <2>3, RequestSerially, TaskSerially, OtherSerially DEF Next
    <3> QED BY <1>1, <3>1 DEF SInv
  <2> QED BY <2>2, <2>3
<1> QED BY <1>3, <1>4

LEMMA SInvImplies ==
  ASSUME SInv
  PROVE  TypeOK /\ OneProcessSerially /\ HaltedStaysStopped
<1>1. TypeOK
  BY DEF SInv, IInv, MemoryOK, ControlOK, RestOK, Tracked, TypeOK
<1>2. OneProcessSerially
  BY DEF SInv, SerialOK, WorldOK, OneProcessSerially, OneProcessPerTenant
<1>3. HaltedStaysStopped
  BY DEF SInv, SerialOK, WorldOK, HaltedStaysStopped
<1> QED BY <1>1, <1>2, <1>3

\* As long as requests and sweeps come one after the other and the control plane
\* lives, a tenant has one worker process, none between the answer of /kill and
\* the next /resume, and a crash-loop verdict stands until an explicit ensure(),
\* whatever crashes and whatever queries and spawns fail.
THEOREM WorkersHold == Spec => WorkersSound
<1>1. Spec => []SInv
  BY InitSInv, NextSInv, PTL DEF Spec
<1>2. Spec => [][VerdictKept]_vars
  BY <1>1, NextSInv, PTL DEF Spec
<1>3. Spec => [](TypeOK /\ OneProcessSerially /\ HaltedStaysStopped)
  BY <1>1, SInvImplies, PTL
<1> QED BY <1>2, <1>3 DEF WorkersSound, VerdictStands, VerdictKept

-----------------------------------------------------------------------------
(* TenantAccess *)

AccessPoints ==
  {"idle", "tenant", "created", "issue", "revoke", "update", "reply", "replace", "add", "delete"}
    \cup DOMAIN Caller \cup {Missing[p] : p \in DOMAIN Missing}

\* The rows are there once or not at all, and every body on its way to the config
\* row has passed the cap.
RowsInOrder ==
  /\ aTenants \in {0, 1} /\ aConfigs \in {0, 1} /\ aCreds \in {0, 1}
  /\ aConf \in Bodies /\ Allowed(aConf)
  /\ aReq \in [Slots -> [at : AccessPoints, ver : Nat, body : Bodies]]
  /\ \A r \in Slots : Allowed(aReq[r].body)

\* While revocations come one by one, the one in progress has read the version
\* that is still in the row, and the versions below it are those written off.
VersionsInOrder ==
  /\ aVersion \in Nat \ {0} /\ aTokens \in SUBSET (Nat \ {0}) /\ aSerial \in BOOLEAN
  /\ \A r \in Slots : aReq[r].at # "idle" => aReq[r].ver > 0
  /\ aSerial => /\ aDead = 1 .. aVersion - 1
                /\ \A r \in Revoking : aReq[r].ver = aVersion
                /\ \A r, q \in Revoking : r = q

AccessInv == RowsInOrder /\ VersionsInOrder

LEMMA AccessFacts ==
  /\ Linear \in Bodies /\ Allowed(Linear)
  /\ Quiet \in [at : AccessPoints, ver : Nat, body : Bodies]
  /\ Quiet.at = "idle" /\ Quiet.body = Linear
  /\ DOMAIN Caller = {"login_config", "put_config", "get_config"} /\ DOMAIN Missing = DOMAIN Caller
  /\ Caller["login_config"] = "issue" /\ Caller["put_config"] = "update"
  /\ Caller["get_config"] = "reply"
  /\ Missing["login_config"] = "login_default" /\ Missing["put_config"] = "put_default"
  /\ Missing["get_config"] = "get_default"
  /\ AccessPoints = {"idle", "tenant", "created", "issue", "revoke", "update", "reply", "replace",
                     "add", "delete", "login_config", "put_config", "get_config",
                     "login_default", "put_default", "get_default"}
<1>1. Linear \in Bodies /\ Allowed(Linear)
  BY DEF Linear, Bodies, Modes, Leverages, ScalpCap, Allowed
<1>2. /\ DOMAIN Caller = {"login_config", "put_config", "get_config"} /\ DOMAIN Missing = DOMAIN Caller
      /\ Caller["login_config"] = "issue" /\ Caller["put_config"] = "update"
      /\ Caller["get_config"] = "reply"
      /\ Missing["login_config"] = "login_default" /\ Missing["put_config"] = "put_default"
      /\ Missing["get_config"] = "get_default"
  BY DEF Caller, Missing
<1>3. AccessPoints = {"idle", "tenant", "created", "issue", "revoke", "update", "reply", "replace",
                      "add", "delete", "login_config", "put_config", "get_config",
                      "login_default", "put_default", "get_default"}
  BY <1>2 DEF AccessPoints
<1> QED BY <1>1, <1>2, <1>3 DEF Quiet

LEMMA AccessInitially ==
  ASSUME AccessInit
  PROVE  AccessInv
BY AccessFacts DEF AccessInit, AccessInv, RowsInOrder, VersionsInOrder, Revoking

\* A request moves to a point, with a version and a body that may be used there.
AccessRequests == [at : AccessPoints, ver : Nat, body : Bodies]
Moved(r, point) ==
  \E q \in AccessRequests : /\ q.at = point /\ Allowed(q.body) /\ (point # "idle" => q.ver > 0)
                            /\ aReq' = [aReq EXCEPT ![r] = q]

LEMMA AnswerMoves ==
  ASSUME AccessInv, NEW r \in Slots, Answer(r)
  PROVE  Moved(r, "idle")
<1>1. Quiet \in AccessRequests /\ Quiet.at = "idle" /\ Allowed(Quiet.body)
  BY AccessFacts DEF AccessRequests
<1> QED BY <1>1 DEF Answer, Moved

LEMMA SuspendMoves ==
  ASSUME AccessInv, NEW r \in Slots, NEW point \in AccessPoints, Suspend(r, point),
         aReq[r].at # "idle"
  PROVE  Moved(r, point)
<1>1. /\ aReq \in [Slots -> AccessRequests] /\ aReq[r] \in AccessRequests
      /\ Allowed(aReq[r].body) /\ aReq[r].ver > 0
  BY DEF AccessInv, RowsInOrder, VersionsInOrder, AccessRequests
<1> DEFINE q == [at |-> point, ver |-> aReq[r].ver, body |-> aReq[r].body]
<1>2. [aReq[r] EXCEPT !.at = point] = q
  BY <1>1 DEF AccessRequests
<1>3. aReq' = [aReq EXCEPT ![r] = q]
  BY <1>1, <1>2 DEF Suspend
<1>4. q \in AccessRequests /\ q.at = point /\ q.ver > 0 /\ Allowed(q.body)
  BY <1>1 DEF AccessRequests
<1> HIDE DEF q
<1> QED BY <1>3, <1>4 DEF Moved

\* A request that carries the version of the row, and a checked body if any.
LEMMA FreshMoves ==
  ASSUME AccessInv, NEW r \in Slots, NEW point \in AccessPoints, NEW body \in Bodies, Allowed(body),
         aReq' = [aReq EXCEPT ![r] = [at |-> point, ver |-> aVersion, body |-> body]]
  PROVE  Moved(r, point)
<1> DEFINE q == [at |-> point, ver |-> aVersion, body |-> body]
<1>1. q \in AccessRequests /\ q.at = point /\ q.ver > 0 /\ Allowed(q.body)
  BY DEF AccessRequests, AccessInv, VersionsInOrder
<1> HIDE DEF q
<1> QED BY <1>1 DEF Moved, q

LEMMA CarryingMoves ==
  ASSUME AccessInv, NEW r \in Slots, NEW point \in AccessPoints,
         aReq' = [aReq EXCEPT ![r] = Carrying(point)]
  PROVE  Moved(r, point)
<1>1. Linear \in Bodies /\ Allowed(Linear)
  BY AccessFacts
<1> QED BY <1>1, FreshMoves DEF Carrying

\* The invariant after such a move, unless it is into a revocation.
LEMMA RequestMoves ==
  ASSUME AccessInv, NEW r \in Slots, NEW point \in AccessPoints \ {"revoke"}, Moved(r, point),
         UNCHANGED <<aVersion, aDead, aSerial>>,
         aTenants' \in {0, 1}, aConfigs' \in {0, 1}, aCreds' \in {0, 1},
         aConf' \in Bodies, Allowed(aConf'), aTokens' \in SUBSET (Nat \ {0})
  PROVE  AccessInv'
<1>0. PICK q \in AccessRequests : /\ q.at = point /\ Allowed(q.body) /\ (point # "idle" => q.ver > 0)
                                  /\ aReq' = [aReq EXCEPT ![r] = q]
  BY DEF Moved
<1>1. RowsInOrder'
  BY <1>0 DEF AccessInv, RowsInOrder, AccessRequests
<1>2. VersionsInOrder'
  <2>1. \A p \in Revoking' : p \in Revoking /\ aReq'[p] = aReq[p]
    BY <1>0 DEF Revoking, AccessInv, RowsInOrder
  <2>2. \A p \in Slots : aReq'[p].at # "idle" => aReq'[p].ver > 0
    BY <1>0 DEF AccessInv, RowsInOrder, VersionsInOrder
  <2> QED BY <2>1, <2>2 DEF AccessInv, VersionsInOrder
<1> QED BY <1>1, <1>2 DEF AccessInv

LEMMA RequestOnly ==
  ASSUME AccessInv, NEW r \in Slots, NEW point \in AccessPoints \ {"revoke"}, Moved(r, point),
         UNCHANGED <<aRows, aConf, aAuth>>
  PROVE  AccessInv'
BY RequestMoves DEF aRows, aAuth, AccessInv, RowsInOrder, VersionsInOrder

LEMMA RevokeTokensKeeps ==
  ASSUME AccessInv, NEW r \in Slots, RevokeTokens(r)
  PROVE  AccessInv'
<1>0. /\ aReq \in [Slots -> AccessRequests] /\ \A p \in Slots : Allowed(aReq[p].body)
      /\ \A p \in Slots : aReq[p].at # "idle" => aReq[p].ver > 0
      /\ aVersion \in Nat \ {0} /\ aSerial \in BOOLEAN
  BY DEF AccessInv, RowsInOrder, VersionsInOrder, AccessRequests
<1> DEFINE q == [at |-> "revoke", ver |-> aVersion, body |-> Linear]
<1>1. /\ aReq[r].at = "idle" /\ aReq' = [aReq EXCEPT ![r] = q]
      /\ UNCHANGED <<aRows, aConf, aVersion, aTokens, aDead>>
      /\ aSerial' = (aSerial /\ Revoking = {})
  BY DEF RevokeTokens, Authenticated, Carrying
<1>2. "revoke" \in AccessPoints
  BY AccessFacts
<1>3. q \in AccessRequests /\ Allowed(q.body) /\ q.at = "revoke" /\ q.ver = aVersion
  BY <1>0, <1>2, AccessFacts DEF AccessRequests
<1> HIDE DEF q
<1>4. RowsInOrder'
  BY <1>0, <1>1, <1>3 DEF RowsInOrder, aRows, AccessRequests, AccessInv
<1>5. aSerial' => /\ aDead' = 1 .. aVersion' - 1
                  /\ \A p \in Revoking' : p = r /\ aReq'[p].ver = aVersion'
  BY <1>0, <1>1, <1>3 DEF Revoking, AccessInv, VersionsInOrder
<1>6. \A p \in Slots : aReq'[p].at # "idle" => aReq'[p].ver > 0
  BY <1>0, <1>1, <1>3
<1>7. VersionsInOrder'
  BY <1>0, <1>1, <1>5, <1>6 DEF VersionsInOrder, AccessInv
<1> QED BY <1>4, <1>7 DEF AccessInv

\* The version that was read is still in the row when it is written plus one.
LEMMA UpdateTokenVersionKeeps ==
  ASSUME AccessInv, NEW r \in Slots, UpdateTokenVersion(r)
  PROVE  AccessInv'
<1>0. /\ aReq \in [Slots -> AccessRequests] /\ aReq[r].ver \in Nat
      /\ \A p \in Slots : aReq[p].at # "idle" => aReq[p].ver > 0
      /\ aVersion \in Nat \ {0} /\ aSerial \in BOOLEAN /\ aTokens \in SUBSET (Nat \ {0})
  BY DEF AccessInv, RowsInOrder, VersionsInOrder, AccessRequests
<1>1. /\ aReq[r].at = "revoke" /\ aReq' = [aReq EXCEPT ![r] = Quiet]
      /\ UNCHANGED <<aRows, aConf, aTokens, aSerial>>
  BY DEF UpdateTokenVersion, Answer
<1>2. Quiet \in AccessRequests /\ Quiet.at = "idle" /\ Allowed(Quiet.body)
  BY AccessFacts DEF AccessRequests
<1>3. CASE UNCHANGED <<aVersion, aDead>>
  <2>1. Moved(r, "idle") /\ "idle" \in AccessPoints \ {"revoke"}
    BY AnswerMoves, AccessFacts DEF UpdateTokenVersion
  <2> QED BY <1>1, <1>3, <2>1, RequestOnly DEF aAuth
<1>4. CASE aVersion' = aReq[r].ver + 1 /\ aDead' = aDead \cup 1 .. aReq[r].ver
  <2>1. RowsInOrder'
    BY <1>0, <1>1, <1>2 DEF AccessInv, RowsInOrder, aRows, AccessRequests
  <2>2. aVersion' \in Nat \ {0}
    BY <1>0, <1>4
  <2>3. ASSUME aSerial
        PROVE  aDead' = 1 .. aVersion' - 1 /\ Revoking' = {}
    <3>1. aReq[r].ver = aVersion /\ aDead = 1 .. aVersion - 1 /\ Revoking = {r}
      BY <1>1, <2>3 DEF AccessInv, VersionsInOrder, Revoking
    <3>2. Revoking' = {}
      BY <1>0, <1>1, <1>2, <3>1 DEF Revoking
    <3> QED BY <1>0, <1>4, <3>1, <3>2
  <2>4. \A p \in Slots : aReq'[p].at # "idle" => aReq'[p].ver > 0
    BY <1>0, <1>1, <1>2
  <2>5. VersionsInOrder'
    BY <1>0, <1>1, <2>2, <2>3, <2>4 DEF VersionsInOrder
  <2> QED BY <2>1, <2>5 DEF AccessInv
<1> QED BY <1>3, <1>4 DEF UpdateTokenVersion

LEMMA AccessStep ==
  ASSUME AccessInv, AccessNext
  PROVE  AccessInv'
<1>0. /\ aTenants \in {0, 1} /\ aConfigs \in {0, 1} /\ aCreds \in {0, 1}
      /\ aConf \in Bodies /\ Allowed(aConf) /\ aTokens \in SUBSET (Nat \ {0})
  BY DEF AccessInv, RowsInOrder, VersionsInOrder
<1>p. /\ {"idle", "tenant", "created", "issue", "update", "reply", "replace", "add", "delete",
         "login_config", "put_config", "get_config", "login_default", "put_default",
         "get_default"} \subseteq AccessPoints \ {"revoke"}
  BY AccessFacts
<1> SUFFICES ASSUME NEW r \in Slots,
               \/ TelegramLogin(r) \/ CreateTenant(r) \/ ReadCreated(r) \/ IssueToken(r)
               \/ RevokeTokens(r) \/ UpdateTokenVersion(r)
               \/ \E body \in Bodies : PutConfig(r, body)
               \/ GetConfig(r) \/ GetOrDefault(r) \/ CreateDefault(r) \/ UpdateConfig(r) \/ Reply(r)
               \/ UpsertEncrypted(r) \/ AddCredentials(r) \/ ReplaceCredentials(r)
               \/ DeleteCredentials(r) \/ Deleted(r)
             PROVE AccessInv'
  BY DEF AccessNext
<1>q. /\ aReq[r].ver \in Nat /\ aReq[r].body \in Bodies /\ Allowed(aReq[r].body)
      /\ aReq[r].at # "idle" => aReq[r].ver > 0
  BY DEF AccessInv, RowsInOrder, VersionsInOrder
<1>1. CASE TelegramLogin(r)
  <2>1. PICK point \in {"issue", "tenant"} :
          aReq' = [aReq EXCEPT ![r] = Carrying(point)]
    BY <1>1 DEF TelegramLogin
  <2>2. Moved(r, point)
    BY <1>p, <2>1, CarryingMoves
  <2> QED BY <1>1, <1>p, <2>2, RequestOnly DEF TelegramLogin
<1>2. CASE CreateTenant(r)
  <2>1. CASE Insertable(aTenants)
    <3>1. Moved(r, "created") /\ aTenants' = 1 /\ UNCHANGED <<aConfigs, aCreds, aConf, aAuth>>
      BY <1>p, <1>2, <2>1, SuspendMoves DEF CreateTenant, Insertable
    <3> QED BY <1>0, <1>p, <3>1, RequestMoves DEF aAuth
  <2>2. CASE ~Insertable(aTenants)
    <3>1. Moved(r, "idle") /\ UNCHANGED <<aTenants, aConfigs, aCreds, aConf, aAuth>>
      BY <1>2, <2>2, AnswerMoves DEF CreateTenant
    <3> QED BY <1>p, <3>1, RequestOnly DEF aRows
  <2> QED BY <2>1, <2>2
<1>3. CASE ReadCreated(r)
  <2>1. Moved(r, "login_config")
    BY <1>3, <1>p, CarryingMoves DEF ReadCreated
  <2> QED BY <1>3, <1>p, <2>1, RequestOnly DEF ReadCreated
<1>4. CASE IssueToken(r)
  <2>1. aReq[r].ver \in Nat \ {0} /\ aTokens' = aTokens \cup {aReq[r].ver}
    BY <1>q, <1>4 DEF IssueToken
  <2>2. aTokens' \in SUBSET (Nat \ {0})
    BY <1>0, <2>1
  <2>3. Moved(r, "idle")
    BY <1>4, AnswerMoves DEF IssueToken
  <2> QED BY <1>0, <1>4, <1>p, <2>2, <2>3, RequestMoves DEF IssueToken, aRows
<1>5. CASE RevokeTokens(r) \/ UpdateTokenVersion(r)
  BY <1>5, RevokeTokensKeeps, UpdateTokenVersionKeeps
<1>6. ASSUME NEW body \in Bodies, PutConfig(r, body)
      PROVE  AccessInv'
  <2>1. Moved(r, "put_config")
    BY <1>6, <1>p, FreshMoves DEF PutConfig
  <2> QED BY <1>6, <1>p, <2>1, RequestOnly DEF PutConfig
<1>7. ASSUME NEW point \in {"get_config", "replace", "add", "delete"}, Authenticated(r, point),
             UNCHANGED aSerial
      PROVE  AccessInv'
  <2>1. Moved(r, point)
    BY <1>7, <1>p, CarryingMoves DEF Authenticated
  <2> QED BY <1>7, <1>p, <2>1, RequestOnly DEF Authenticated, aAuth
<1>8. CASE GetConfig(r) \/ UpsertEncrypted(r) \/ DeleteCredentials(r)
  BY <1>7, <1>8 DEF GetConfig, UpsertEncrypted, DeleteCredentials
<1>9. CASE GetOrDefault(r)
  <2>1. PICK point \in {"issue", "update", "reply", "login_default", "put_default", "get_default"} :
          Suspend(r, point) /\ aReq[r].at # "idle"
    BY <1>9, AccessFacts DEF GetOrDefault
  <2>2. Moved(r, point)
    BY <1>p, <2>1, SuspendMoves
  <2> QED BY <1>9, <1>p, <2>2, RequestOnly DEF GetOrDefault
<1>10. CASE CreateDefault(r)
  <2>1. PICK point \in {"issue", "update", "reply"} :
          /\ aReq[r].at # "idle"
          /\ IF Insertable(aConfigs)
               THEN aConfigs' = aConfigs + 1 /\ aConf' = Linear /\ Suspend(r, point)
               ELSE Answer(r) /\ UNCHANGED <<aConfigs, aConf>>
    BY <1>10, AccessFacts DEF CreateDefault
  <2>2. UNCHANGED <<aTenants, aCreds, aAuth>>
    BY <1>10 DEF CreateDefault
  <2>3. CASE Insertable(aConfigs)
    <3>1. aConfigs' = 1 /\ aConf' = Linear /\ Moved(r, point)
      BY <1>p, <2>1, <2>3, SuspendMoves DEF Insertable
    <3>2. Linear \in Bodies /\ Allowed(Linear)
      BY AccessFacts
    <3> QED BY <1>0, <1>p, <2>2, <3>1, <3>2, RequestMoves DEF aAuth
  <2>4. CASE ~Insertable(aConfigs)
    <3>1. Moved(r, "idle") /\ UNCHANGED <<aConfigs, aConf>>
      BY <2>1, <2>4, AnswerMoves
    <3> QED BY <1>p, <2>2, <3>1, RequestOnly DEF aRows
  <2> QED BY <2>3, <2>4
<1>11. CASE UpdateConfig(r)
  <2>1. Moved(r, "idle")
    BY <1>11, AnswerMoves DEF UpdateConfig
  <2> QED BY <1>0, <1>p, <1>q, <1>11, <2>1, RequestMoves DEF UpdateConfig, aRows, aAuth
<1>12. CASE Reply(r) \/ ReplaceCredentials(r)
  BY <1>p, <1>12, AnswerMoves, RequestOnly DEF Reply, ReplaceCredentials
<1>13. CASE AddCredentials(r) \/ Deleted(r)
  <2>1. Moved(r, "idle") /\ aCreds' \in {0, 1} /\ UNCHANGED <<aTenants, aConfigs, aConf, aAuth>>
    BY <1>0, <1>13, AnswerMoves DEF AddCredentials, Deleted, Insertable
  <2> QED BY <1>0, <1>p, <2>1, RequestMoves DEF aAuth
<1> QED
  BY <1>1, <1>2, <1>3, <1>4, <1>5, <1>6, <1>8, <1>9, <1>10, <1>11, <1>12, <1>13

LEMMA AccessStutters ==
  ASSUME AccessInv, UNCHANGED aVars
  PROVE  AccessInv'
BY DEF AccessInv, RowsInOrder, VersionsInOrder, Revoking, aVars

LEMMA AccessImplies ==
  ASSUME AccessInv
  PROVE  AccessSound
<1>1. OneRowEach
  BY DEF AccessInv, RowsInOrder, OneRowEach
<1>2. RevocationExact
  BY DEF AccessInv, VersionsInOrder, RevocationExact, Accepted
<1>3. ScalpLeverageCapped
  BY DEF AccessInv, RowsInOrder, Allowed, ScalpLeverageCapped, Bodies, Leverages, ScalpCap
<1> QED BY <1>1, <1>2, <1>3 DEF AccessSound

\* The registry rows: however many requests of a user overlap, there is one row of
\* each kind, a token is refused exactly when its version was written off, and the
\* stored config keeps the cap on leverage.
THEOREM AccessHolds == AccessSpec => []AccessSound
BY AccessInitially, AccessStep, AccessStutters, AccessImplies, PTL DEF AccessSpec

-----------------------------------------------------------------------------
(* RateLimiter *)

\* Every set of numbers that is not empty has a least element.
LEMMA LeastNumber ==
  ASSUME NEW S, S \subseteq Nat, S # {}
  PROVE  \E n \in S : \A m \in S : n <= m
<1> DEFINE R == {ss \in Nat \X Nat : ss[1] < ss[2]}
<1>1. IsWellFoundedOn(R, Nat)
  BY NatLessThanWellFounded DEF OpToRel
<1> HIDE DEF R
<1>2. PICK n \in S : \A m \in S : ~(<<m, n>> \in R)
  BY <1>1, WFMin
<1>3. \A m \in S : ~(m < n)
  BY <1>2 DEF R
<1> QED BY <1>2, <1>3

\* The loop that pops expired hits stops somewhere.
LEMMA PoppedFacts ==
  ASSUME NEW hits \in Seq(Nat)
  PROVE  /\ Popped(hits) \in 0 .. Len(hits)
         /\ \A i \in 1 .. Popped(hits) : Expired(hits[i])
         /\ Popped(hits) < Len(hits) => ~Expired(hits[Popped(hits) + 1])
<1> DEFINE stop == {n \in 0 .. Len(hits) : n < Len(hits) => ~Expired(hits[n + 1])}
<1>1. PICK n \in stop : \A m \in stop : n <= m
  <2>1. Len(hits) \in stop /\ stop \subseteq Nat
    OBVIOUS
  <2> HIDE DEF stop
  <2> QED BY <2>1, LeastNumber
<1>2. \A i \in 1 .. n : Expired(hits[i])
  <2> SUFFICES ASSUME NEW i \in 1 .. n, ~Expired(hits[i]) PROVE FALSE
    OBVIOUS
  <2>1. i - 1 \in stop
    BY <1>1
  <2>2. n \in Nat /\ i - 1 < n
    BY <1>1
  <2> HIDE DEF stop
  <2>3. n <= i - 1
    BY <1>1, <2>1
  <2> QED BY <2>2, <2>3
<1> HIDE DEF stop
<1>3. /\ n \in 0 .. Len(hits) /\ \A i \in 1 .. n : Expired(hits[i])
      /\ n < Len(hits) => ~Expired(hits[n + 1])
  BY <1>1, <1>2 DEF stop
<1> QED BY <1>3 DEF Popped

LEMMA CurrentFacts ==
  ASSUME NEW hits \in Seq(Nat)
  PROVE  /\ Current(hits) \in Seq(Nat)
         /\ Len(Current(hits)) = Len(hits) - Popped(hits)
         /\ \A i \in 1 .. Len(Current(hits)) : Current(hits)[i] = hits[Popped(hits) + i]
<1> DEFINE n == Popped(hits)
<1>1. n \in 0 .. Len(hits) /\ Len(hits) \in Nat
  BY PoppedFacts
<1> HIDE DEF n
<1>2. /\ SubSeq(hits, n + 1, Len(hits)) \in Seq(Nat)
      /\ Len(SubSeq(hits, n + 1, Len(hits))) = Len(hits) - n
      /\ \A i \in 1 .. Len(hits) - n : SubSeq(hits, n + 1, Len(hits))[i] = hits[n + i]
  <2>1. /\ n + 1 \in Int /\ Len(hits) \in Int /\ \A i \in n + 1 .. Len(hits) : hits[i] \in Nat
    BY <1>1
  <2>2. /\ SubSeq(hits, n + 1, Len(hits)) \in Seq(Nat)
        /\ Len(SubSeq(hits, n + 1, Len(hits))) =
             IF n + 1 <= Len(hits) THEN Len(hits) - (n + 1) + 1 ELSE 0
        /\ \A i \in 1 .. Len(hits) - (n + 1) + 1 :
             SubSeq(hits, n + 1, Len(hits))[i] = hits[(n + 1) + i - 1]
    BY <2>1, SubSeqProperties
  <2>3. Len(hits) - (n + 1) + 1 = Len(hits) - n
    BY <1>1
  <2>4. \A i \in 1 .. Len(hits) - n : (n + 1) + i - 1 = n + i
    BY <1>1
  <2>5. Len(SubSeq(hits, n + 1, Len(hits))) = Len(hits) - n
    BY <1>1, <2>2
  <2> QED BY <2>2, <2>3, <2>4, <2>5
<1> QED BY <1>2 DEF Current, n

\* The times of the accepted requests never go back.
Ordered(log) ==
  /\ \A i \in 1 .. Len(log) : log[i] <= rNow
  /\ \A i, j \in 1 .. Len(log) : i <= j => log[i] <= log[j]

\* The deque is the log without some of the expired requests at its front.
Kept(hits, log) ==
  \E n \in 0 .. Len(log) : /\ Len(hits) = Len(log) - n
                           /\ \A i \in 1 .. Len(hits) : hits[i] = log[n + i]
                           /\ \A i \in 1 .. n : Expired(log[i])

\* The inductive invariant: one request more than the limit ago has expired.
LimiterInv ==
  /\ rNow \in Nat /\ rCount \in Nat
  /\ rLog \in [Keys -> Seq(Nat)] /\ rHits \in [Keys -> Seq(Nat)]
  /\ \A k \in Keys :
       /\ Ordered(rLog[k]) /\ Kept(rHits[k], rLog[k])
       /\ Len(rLog[k]) > Limit[k] => Expired(rLog[k][Len(rLog[k]) - Limit[k]])

\* In an ordered log exactly the requests after the popped ones count.
LEMMA OrderedFacts ==
  ASSUME rNow \in Nat, NEW log \in Seq(Nat), Ordered(log)
  PROVE  \A i \in 1 .. Len(log) : Expired(log[i]) <=> i <= Popped(log)
<1>1. /\ Popped(log) \in 0 .. Len(log)
      /\ \A i \in 1 .. Popped(log) : Expired(log[i])
      /\ Popped(log) < Len(log) => ~Expired(log[Popped(log) + 1])
  BY PoppedFacts
<1>2. ASSUME NEW i \in 1 .. Len(log), i > Popped(log)
      PROVE  ~Expired(log[i])
  <2>1. Popped(log) + 1 \in 1 .. Len(log) /\ Popped(log) + 1 <= i /\ ~Expired(log[Popped(log) + 1])
    BY <1>1, <1>2
  <2>2. log[Popped(log) + 1] <= log[i]
    BY <1>2, <2>1 DEF Ordered
  <2>3. log[i] \in Nat /\ log[Popped(log) + 1] \in Nat
    BY <1>2, <2>1
  <2> QED BY <2>1, <2>2, <2>3, LimiterAssumption DEF Expired
<1> QED BY <1>1, <1>2

\* The limiter counts in the deque what counts in the log.
LEMMA CountsAlike ==
  ASSUME rNow \in Nat, NEW log \in Seq(Nat), Ordered(log), NEW hits \in Seq(Nat), Kept(hits, log)
  PROVE  /\ Len(Current(hits)) = Len(log) - Popped(log)
         /\ \A i \in 1 .. Len(Current(hits)) : Current(hits)[i] = log[Popped(log) + i]
<1>1. PICK n \in 0 .. Len(log) : /\ Len(hits) = Len(log) - n
                                 /\ \A i \in 1 .. Len(hits) : hits[i] = log[n + i]
                                 /\ \A i \in 1 .. n : Expired(log[i])
  BY DEF Kept
<1> DEFINE a == Popped(hits)
<1> DEFINE b == Popped(log)
<1>2. /\ a \in 0 .. Len(hits)
      /\ \A i \in 1 .. a : Expired(hits[i])
      /\ a < Len(hits) => ~Expired(hits[a + 1])
  BY PoppedFacts
<1>3. b \in 0 .. Len(log) /\ \A i \in 1 .. Len(log) : Expired(log[i]) <=> i <= b
  BY OrderedFacts, PoppedFacts
<1>4. /\ Len(Current(hits)) = Len(hits) - a
      /\ \A i \in 1 .. Len(Current(hits)) : Current(hits)[i] = hits[a + i]
  BY CurrentFacts
<1> HIDE DEF a, b
<1>5. /\ Len(log) \in Nat /\ Len(hits) \in Nat /\ n \in Nat /\ a \in Nat /\ b \in Nat
      /\ Len(hits) = Len(log) - n /\ n <= Len(log) /\ a <= Len(hits) /\ b <= Len(log)
  BY <1>1, <1>2, <1>3
<1>6. \A i \in 1 .. Len(hits) : hits[i] = log[n + i] /\ n + i \in 1 .. Len(log)
  BY <1>1, <1>5
<1>7. n <= b
  <2>1. CASE n > 0
    <3>1. n \in 1 .. n /\ n \in 1 .. Len(log)
      BY <1>5, <2>1
    <3> QED BY <1>1, <1>3, <3>1
  <2> QED BY <1>5, <2>1
<1>8. n + a <= b
  <2>1. CASE a > 0
    <3>1. a \in 1 .. a /\ a \in 1 .. Len(hits)
      BY <1>5, <2>1
    <3>2. Expired(hits[a]) /\ hits[a] = log[n + a] /\ n + a \in 1 .. Len(log)
      BY <1>2, <1>6, <3>1
    <3>3. Expired(log[n + a])
      BY <3>2
    <3> QED BY <1>3, <3>2, <3>3
  <2> QED BY <1>5, <1>7, <2>1
<1>9. n + a >= b
  <2>1. CASE a < Len(hits)
    <3>1. a + 1 \in 1 .. Len(hits)
      BY <1>5, <2>1
    <3>2. ~Expired(hits[a + 1]) /\ hits[a + 1] = log[n + (a + 1)] /\ n + (a + 1) \in 1 .. Len(log)
      BY <1>2, <1>6, <2>1, <3>1
    <3>3. ~Expired(log[n + (a + 1)])
      BY <3>2
    <3>4. ~(n + (a + 1) <= b)
      BY <1>3, <3>2, <3>3
    <3> QED BY <1>5, <3>4
  <2> QED BY <1>5, <2>1
<1>10. b = n + a
  BY <1>5, <1>8, <1>9
<1>11. Len(Current(hits)) = Len(log) - b
  BY <1>4, <1>5, <1>10
<1>12. ASSUME NEW i \in 1 .. Len(Current(hits))
       PROVE  Current(hits)[i] = log[b + i]
  <2>1. a + i \in 1 .. Len(hits) /\ Current(hits)[i] = hits[a + i]
    BY <1>4, <1>5
  <2>2. hits[a + i] = log[n + (a + i)] /\ n + (a + i) = b + i
    BY <1>5, <1>6, <1>10, <2>1
  <2> QED BY <2>1, <2>2
<1> QED BY <1>11, <1>12 DEF b

\* Popping, accepting and cleaning up keep the deque a part of the log.
LEMMA KeptWhenPopped ==
  ASSUME rNow \in Nat, NEW log \in Seq(Nat), Ordered(log), NEW hits \in Seq(Nat), Kept(hits, log)
  PROVE  Kept(Current(hits), log)
<1>1. /\ Popped(log) \in 0 .. Len(log)
      /\ \A i \in 1 .. Popped(log) : Expired(log[i])
  BY PoppedFacts
<1>2. /\ Len(Current(hits)) = Len(log) - Popped(log)
      /\ \A i \in 1 .. Len(Current(hits)) : Current(hits)[i] = log[Popped(log) + i]
  BY CountsAlike
<1> QED BY <1>1, <1>2 DEF Kept

LEMMA KeptWhenAccepted ==
  ASSUME NEW log \in Seq(Nat), NEW hits \in Seq(Nat), Kept(hits, log), NEW t \in Nat
  PROVE  Kept(Append(hits, t), Append(log, t))
<1>1. PICK n \in 0 .. Len(log) : /\ Len(hits) = Len(log) - n
                                 /\ \A i \in 1 .. Len(hits) : hits[i] = log[n + i]
                                 /\ \A i \in 1 .. n : Expired(log[i])
  BY DEF Kept
<1> DEFINE hits2 == Append(hits, t)
<1> DEFINE log2 == Append(log, t)
<1>2. /\ Len(hits2) = Len(hits) + 1 /\ Len(log2) = Len(log) + 1
      /\ Len(log) \in Nat /\ Len(hits) \in Nat /\ n \in Nat
      /\ hits2[Len(hits) + 1] = t /\ log2[Len(log) + 1] = t
      /\ \A i \in 1 .. Len(hits) : hits2[i] = hits[i]
      /\ \A i \in 1 .. Len(log) : log2[i] = log[i]
  BY <1>1
<1> HIDE DEF hits2, log2
<1>3. n \in 0 .. Len(log2) /\ Len(hits2) = Len(log2) - n
  BY <1>1, <1>2
<1>4. ASSUME NEW i \in 1 .. Len(hits2)
      PROVE  hits2[i] = log2[n + i]
  <2>1. CASE i \in 1 .. Len(hits)
    <3>1. n + i \in 1 .. Len(log)
      BY <1>1, <1>2, <2>1
    <3> QED BY <1>1, <1>2, <2>1, <3>1
  <2>2. CASE i = Len(hits) + 1
    <3>1. n + i = Len(log) + 1
      BY <1>1, <1>2, <2>2
    <3> QED BY <1>2, <2>2, <3>1
  <2> QED BY <1>2, <2>1, <2>2
<1>5. ASSUME NEW i \in 1 .. n
      PROVE  Expired(log2[i])
  <2>1. i \in 1 .. Len(log)
    BY <1>1, <1>2
  <2> QED BY <1>1, <1>2, <2>1
<1> QED BY <1>3, <1>4, <1>5 DEF Kept, hits2, log2

LEMMA KeptWhenCleaned ==
  ASSUME rNow \in Nat, NEW log \in Seq(Nat), Ordered(log), NEW hits \in Seq(Nat), Kept(hits, log),
         Stale(hits)
  PROVE  Kept(<<>>, log)
<1>1. PICK n \in 0 .. Len(log) : /\ Len(hits) = Len(log) - n
                                 /\ \A i \in 1 .. Len(hits) : hits[i] = log[n + i]
                                 /\ \A i \in 1 .. n : Expired(log[i])
  BY DEF Kept
<1>2. Len(log) \in Nat /\ Len(hits) \in Nat /\ n \in Nat
  BY <1>1
<1>3. \A i \in 1 .. Len(log) : Expired(log[i])
  <2>1. CASE hits = <<>>
    <3>1. n = Len(log)
      BY <1>1, <1>2, <2>1
    <3> QED BY <1>1, <3>1
  <2>2. CASE hits # <<>>
    <3>1. Len(hits) \in 1 .. Len(hits) /\ Expired(hits[Len(hits)])
      BY <1>2, <2>2 DEF Stale
    <3>2. hits[Len(hits)] = log[n + Len(hits)]
      BY <1>1, <3>1
    <3>3. n + Len(hits) = Len(log) /\ Len(log) \in 1 .. Len(log)
      BY <1>1, <1>2, <3>1
    <3>4. Expired(log[Len(log)])
      BY <3>1, <3>2, <3>3
    <3>5. Len(log) <= Popped(log) /\ Popped(log) \in 0 .. Len(log)
      BY <3>3, <3>4, OrderedFacts, PoppedFacts
    <3>6. Popped(log) = Len(log)
      BY <1>2, <3>5
    <3> QED BY <3>6, PoppedFacts
  <2> QED BY <2>1, <2>2
<1>4. Len(log) \in 0 .. Len(log) /\ Len(<<>>) = Len(log) - Len(log) /\ 1 .. Len(<<>>) = {}
  BY <1>2
<1>5. \A i \in 1 .. Len(<<>>) : <<>>[i] = log[Len(log) + i]
  BY <1>4
<1> QED BY <1>3, <1>4, <1>5 DEF Kept

LEMMA OrderedWhenAccepted ==
  ASSUME rNow \in Nat, NEW log \in Seq(Nat), Ordered(log)
  PROVE  Ordered(Append(log, rNow))
<1> DEFINE log2 == Append(log, rNow)
<1>1. /\ Len(log2) = Len(log) + 1 /\ Len(log) \in Nat /\ log2[Len(log) + 1] = rNow
      /\ \A i \in 1 .. Len(log) : log2[i] = log[i]
  OBVIOUS
<1> HIDE DEF log2
<1>2. \A i \in 1 .. Len(log2) : i = Len(log) + 1 \/ i \in 1 .. Len(log)
  BY <1>1
<1>3. \A i \in 1 .. Len(log2) : log2[i] <= rNow
  BY <1>1, <1>2 DEF Ordered
<1>4. ASSUME NEW i \in 1 .. Len(log2), NEW j \in 1 .. Len(log2), i <= j
      PROVE  log2[i] <= log2[j]
  <2>1. CASE j = Len(log) + 1
    BY <1>1, <1>3, <2>1
  <2>2. CASE j \in 1 .. Len(log)
    <3>1. i \in 1 .. Len(log)
      BY <1>1, <1>4, <2>2
    <3> QED BY <1>1, <1>4, <2>2, <3>1 DEF Ordered
  <2> QED BY <1>2, <2>1, <2>2
<1> QED BY <1>3, <1>4 DEF Ordered, log2

-----------------------------------------------------------------------------
LEMMA LimiterInitially ==
  ASSUME LimiterInit
  PROVE  LimiterInv
<1>1. rNow \in Nat /\ rCount \in Nat /\ rLog \in [Keys -> Seq(Nat)] /\ rHits \in [Keys -> Seq(Nat)]
  BY DEF LimiterInit
<1>2. ASSUME NEW k \in Keys
      PROVE  /\ Ordered(rLog[k]) /\ Kept(rHits[k], rLog[k])
             /\ ~(Len(rLog[k]) > Limit[k])
  <2>1. rLog[k] = <<>> /\ rHits[k] = <<>> /\ Len(<<>>) = 0 /\ 1 .. 0 = {}
    BY DEF LimiterInit
  <2>2. Ordered(<<>>)
    BY <2>1 DEF Ordered
  <2>3. Kept(<<>>, <<>>)
    <3>1. 0 \in 0 .. Len(<<>>) /\ Len(<<>>) = Len(<<>>) - 0
      BY <2>1
    <3> QED BY <2>1, <3>1 DEF Kept
  <2> QED BY <2>1, <2>2, <2>3, LimiterAssumption
<1> QED BY <1>1, <1>2 DEF LimiterInv

\* What has expired stays expired.
LEMMA LimiterTickKeeps ==
  ASSUME LimiterInv, LimiterTick
  PROVE  LimiterInv'
<1>1. rNow' = rNow + 1 /\ rNow' \in Nat /\ rNow \in Nat /\ UNCHANGED <<rHits, rCount, rLog>>
      /\ Window \in Nat
  BY LimiterAssumption DEF LimiterInv, LimiterTick
<1>2. ASSUME NEW k \in Keys
      PROVE  /\ Ordered(rLog[k])' /\ Kept(rHits[k], rLog[k])'
             /\ (Len(rLog[k]) > Limit[k] => Expired(rLog[k][Len(rLog[k]) - Limit[k]]))'
  <2>1. /\ Ordered(rLog[k]) /\ Kept(rHits[k], rLog[k]) /\ rLog[k] \in Seq(Nat)
        /\ Len(rLog[k]) > Limit[k] => Expired(rLog[k][Len(rLog[k]) - Limit[k]])
    BY DEF LimiterInv
  <2>2. \A i \in 1 .. Len(rLog[k]) : rLog[k][i] \in Nat
    BY <2>1
  <2>3. \A i \in 1 .. Len(rLog[k]) : Expired(rLog[k][i]) => Expired(rLog[k][i])'
    BY <1>1, <2>2 DEF Expired
  <2>4. Ordered(rLog[k])'
    BY <1>1, <2>1, <2>2 DEF Ordered
  <2>5. Kept(rHits[k], rLog[k])'
    <3>1. PICK n \in 0 .. Len(rLog[k]) :
            /\ Len(rHits[k]) = Len(rLog[k]) - n
            /\ \A i \in 1 .. Len(rHits[k]) : rHits[k][i] = rLog[k][n + i]
            /\ \A i \in 1 .. n : Expired(rLog[k][i])
      BY <2>1 DEF Kept
    <3>2. \A i \in 1 .. n : i \in 1 .. Len(rLog[k])
      BY <2>1, <3>1
    <3>3. \A i \in 1 .. n : Expired(rLog[k][i])'
      BY <2>3, <3>1, <3>2
    <3> QED BY <1>1, <3>1, <3>3 DEF Kept
  <2>6. (Len(rLog[k]) > Limit[k] => Expired(rLog[k][Len(rLog[k]) - Limit[k]]))'
    <3>1. SUFFICES ASSUME Len(rLog[k]) > Limit[k]
                   PROVE  Expired(rLog[k][Len(rLog[k]) - Limit[k]])'
      BY <1>1
    <3>2. Len(rLog[k]) - Limit[k] \in 1 .. Len(rLog[k])
      BY <2>1, <3>1, LimiterAssumption
    <3> QED BY <1>1, <2>1, <2>3, <3>1, <3>2
  <2> QED BY <2>4, <2>5, <2>6
<1> QED BY <1>1, <1>2 DEF LimiterInv

\* A step at one moment keeps the invariant if it does so key by key.
LEMMA LimiterByKey ==
  ASSUME LimiterInv, UNCHANGED rNow, rCount' \in Nat,
         rLog' \in [Keys -> Seq(Nat)], rHits' \in [Keys -> Seq(Nat)],
         \A k \in Keys :
           /\ Ordered(rLog'[k]) /\ Kept(rHits'[k], rLog'[k])
           /\ Len(rLog'[k]) > Limit[k] => Expired(rLog'[k][Len(rLog'[k]) - Limit[k]])
  PROVE  LimiterInv'
BY DEF LimiterInv, Ordered, Kept, Expired

LEMMA CheckRefusesKeeps ==
  ASSUME LimiterInv, NEW key \in Keys, CheckRefuses(key)
  PROVE  LimiterInv'
<1>1. /\ rHits' = [rHits EXCEPT ![key] = Current(rHits[key])] /\ UNCHANGED <<rNow, rCount, rLog>>
      /\ rNow \in Nat /\ rCount \in Nat
      /\ rLog \in [Keys -> Seq(Nat)] /\ rHits \in [Keys -> Seq(Nat)]
  BY DEF CheckRefuses, LimiterInv
<1>2. \A k \in Keys : /\ Ordered(rLog[k]) /\ Kept(rHits[k], rLog[k])
                      /\ Len(rLog[k]) > Limit[k] => Expired(rLog[k][Len(rLog[k]) - Limit[k]])
  BY DEF LimiterInv
<1>3. Current(rHits[key]) \in Seq(Nat) /\ Kept(Current(rHits[key]), rLog[key])
  BY <1>1, <1>2, CurrentFacts, KeptWhenPopped
<1>4. \A k \in Keys : Kept(rHits'[k], rLog'[k])
  BY <1>1, <1>2, <1>3
<1>5. rHits' \in [Keys -> Seq(Nat)]
  BY <1>1, <1>3
<1> QED BY <1>1, <1>2, <1>4, <1>5, LimiterByKey

\* The request is logged; a full log then ends with requests of which the one
\* beyond the limit has expired, since the deque was not full.
LEMMA CheckAcceptsKeeps ==
  ASSUME LimiterInv, NEW key \in Keys, CheckAccepts(key)
  PROVE  LimiterInv'
<1>0. /\ rNow \in Nat /\ rLog \in [Keys -> Seq(Nat)] /\ rHits \in [Keys -> Seq(Nat)]
      /\ rCount \in Nat /\ Limit[key] \in Nat \ {0}
  BY LimiterAssumption DEF LimiterInv
<1>1. \A k \in Keys : /\ Ordered(rLog[k]) /\ Kept(rHits[k], rLog[k])
                      /\ Len(rLog[k]) > Limit[k] => Expired(rLog[k][Len(rLog[k]) - Limit[k]])
  BY DEF LimiterInv
<1> DEFINE log == rLog[key]
           cur == Current(rHits[key])
           hits == [rHits EXCEPT ![key] = Append(cur, rNow)]
<1>2. /\ Len(cur) < Limit[key]
      /\ rHits' = IF rCount + 1 = CleanEvery THEN Cleaned(hits) ELSE hits
      /\ rLog' = [rLog EXCEPT ![key] = Append(log, rNow)]
      /\ UNCHANGED rNow /\ rCount' = (rCount + 1) % CleanEvery
  BY DEF CheckAccepts
<1>3. rCount' \in Nat
  BY <1>0, <1>2, LimiterAssumption
<1>4. log \in Seq(Nat) /\ cur \in Seq(Nat) /\ Kept(cur, log) /\ Ordered(log)
      /\ Len(cur) = Len(log) - Popped(log)
  BY <1>0, <1>1, CurrentFacts, KeptWhenPopped, CountsAlike
<1>5. rLog' \in [Keys -> Seq(Nat)] /\ \A k \in Keys : Ordered(rLog'[k])
  <2>1. Append(log, rNow) \in Seq(Nat) /\ Ordered(Append(log, rNow))
    BY <1>0, <1>4, OrderedWhenAccepted
  <2> QED BY <1>0, <1>1, <1>2, <2>1
<1>6. hits \in [Keys -> Seq(Nat)] /\ \A k \in Keys : Kept(hits[k], rLog'[k])
  <2>1. Append(cur, rNow) \in Seq(Nat) /\ Kept(Append(cur, rNow), Append(log, rNow))
    BY <1>0, <1>4, KeptWhenAccepted
  <2> HIDE DEF cur, log
  <2> QED BY <1>0, <1>1, <1>2, <2>1
<1>7. rHits' \in [Keys -> Seq(Nat)] /\ \A k \in Keys : Kept(rHits'[k], rLog'[k])
  <2> HIDE DEF hits
  <2>1. CASE rHits' = hits
    BY <1>6, <2>1
  <2>2. CASE rHits' = Cleaned(hits)
    <3>1. \A k \in Keys : rHits'[k] = IF Stale(hits[k]) THEN <<>> ELSE hits[k]
      BY <2>2 DEF Cleaned
    <3>2. \A k \in Keys : Stale(hits[k]) => Kept(<<>>, rLog'[k])
      BY <1>0, <1>5, <1>6, KeptWhenCleaned
    <3>3. rHits' \in [Keys -> Seq(Nat)]
      BY <1>6, <2>2 DEF Cleaned
    <3> QED BY <1>6, <3>1, <3>2, <3>3
  <2> QED BY <1>2, <2>1, <2>2
<1>8. ASSUME NEW k \in Keys, Len(rLog'[k]) > Limit[k]
      PROVE  Expired(rLog'[k][Len(rLog'[k]) - Limit[k]])
  <2>1. CASE k # key
    BY <1>0, <1>1, <1>2, <1>8, <2>1
  <2>2. CASE k = key
    <3>1. /\ rLog'[k] = Append(log, rNow) /\ Len(rLog'[k]) = Len(log) + 1 /\ Len(log) \in Nat
          /\ \A i \in 1 .. Len(log) : rLog'[k][i] = log[i]
      BY <1>0, <1>2, <1>4, <2>2
    <3>2. Popped(log) \in 0 .. Len(log) /\ \A j \in 1 .. Popped(log) : Expired(log[j])
      BY <1>4, PoppedFacts
    <3>3. Len(rLog'[k]) > Limit[k] /\ Len(log) - Popped(log) < Limit[k] /\ Limit[k] \in Nat \ {0}
      BY <1>0, <1>2, <1>4, <1>8, <2>2
    <3> HIDE DEF log, cur
    <3>4. Len(rLog'[k]) - Limit[k] \in 1 .. Len(log) /\ Len(rLog'[k]) - Limit[k] \in 1 .. Popped(log)
      BY <3>1, <3>2, <3>3
    <3>5. PICK i \in 1 .. Len(log) : i \in 1 .. Popped(log) /\ i = Len(rLog'[k]) - Limit[k]
      BY <3>4
    <3>6. rLog'[k][i] = log[i] /\ Expired(log[i])
      BY <3>1, <3>2, <3>5
    <3> QED BY <3>5, <3>6
  <2> QED BY <2>1, <2>2
<1> QED BY <1>2, <1>3, <1>5, <1>7, <1>8, LimiterByKey

LEMMA LimiterStep ==
  ASSUME LimiterInv, LimiterNext
  PROVE  LimiterInv'
BY LimiterTickKeeps, CheckAcceptsKeeps, CheckRefusesKeeps DEF LimiterNext

LEMMA LimiterStutters ==
  ASSUME LimiterInv, UNCHANGED rVars
  PROVE  LimiterInv'
BY DEF LimiterInv, Ordered, Kept, Expired, rVars

LEMMA LimiterImplies ==
  ASSUME LimiterInv
  PROVE  WindowExact
<1> SUFFICES ASSUME NEW k \in Keys
             PROVE  /\ Len(Current(rHits[k])) = Cardinality(AcceptedInWindow(k))
                    /\ Cardinality(AcceptedInWindow(k)) <= Limit[k]
  BY DEF WindowExact
<1> DEFINE log == rLog[k]
           b == Popped(log)
<1>1. /\ rNow \in Nat /\ log \in Seq(Nat) /\ rHits[k] \in Seq(Nat) /\ Ordered(log)
      /\ Kept(rHits[k], log) /\ Limit[k] \in Nat \ {0} /\ Len(log) \in Nat
      /\ Len(log) > Limit[k] => Expired(log[Len(log) - Limit[k]])
  BY LimiterAssumption DEF LimiterInv
<1>2. Len(Current(rHits[k])) = Len(log) - b
  BY <1>1, CountsAlike
<1>3. b \in 0 .. Len(log) /\ \A i \in 1 .. Len(log) : Expired(log[i]) <=> i <= b
  BY <1>1, OrderedFacts, PoppedFacts
<1> HIDE DEF b
<1>4. AcceptedInWindow(k) = b + 1 .. Len(log)
  BY <1>1, <1>3 DEF AcceptedInWindow
<1>5. Cardinality(AcceptedInWindow(k)) = Len(log) - b
  <2>1. Cardinality(b + 1 .. Len(log)) = IF b + 1 > Len(log) THEN 0 ELSE Len(log) - (b + 1) + 1
    <3>1. b + 1 \in Int /\ Len(log) \in Int
      BY <1>1, <1>3
    <3> QED BY <3>1, FS_Interval
  <2> QED BY <1>1, <1>3, <1>4, <2>1
<1>6. Len(log) - b <= Limit[k]
  <2>1. CASE Len(log) > Limit[k]
    <3>1. Len(log) - Limit[k] \in 1 .. Len(log)
      BY <1>1, <2>1
    <3>2. Len(log) - Limit[k] <= b
      BY <1>1, <1>3, <2>1, <3>1
    <3> QED BY <1>1, <1>3, <3>2
  <2> QED BY <1>1, <1>3, <2>1
<1> QED BY <1>2, <1>5, <1>6

\* RateLimiter.check: whatever keys, limits, window and clean-up interval, the deque
\* counts exactly the requests accepted within the window, never more than the limit.
THEOREM LimiterHolds == LimiterSpec => []WindowExact
BY LimiterInitially, LimiterStep, LimiterStutters, LimiterImplies, PTL DEF LimiterSpec

-----------------------------------------------------------------------------
(* Flatten *)

\* A reduce-only order leaves a position between what it was and nothing, and the
\* order for the whole of it closes it.
LEMMA ReduceOnlyFacts ==
  ASSUME NEW pos \in Int, NEW order \in Int
  PROVE  /\ ReduceOnly(pos, order) \in Int
         /\ ReduceOnly(pos, order) \in 0 .. pos \/ ReduceOnly(pos, order) \in pos .. 0
         /\ ReduceOnly(0, order) = 0
         /\ ReduceOnly(pos, CloseOrder(pos)) = 0
<1>1. /\ ReduceOnly(pos, order) \in Int
      /\ ReduceOnly(pos, order) \in 0 .. pos \/ ReduceOnly(pos, order) \in pos .. 0
  <2>1. CASE Sign(order) # -Sign(pos)
    BY <2>1 DEF ReduceOnly
  <2>2. CASE pos > 0 /\ order < 0
    <3>1. Sign(order) = -1 /\ Sign(pos) = 1
      BY <2>2 DEF Sign
    <3> QED BY <2>2, <3>1 DEF ReduceOnly, Abs, Smaller
  <2>3. CASE pos < 0 /\ order > 0
    <3>1. Sign(order) = 1 /\ Sign(pos) = -1
      BY <2>3 DEF Sign
    <3> QED BY <2>3, <3>1 DEF ReduceOnly, Abs, Smaller
  <2>4. CASE pos = 0 /\ order = 0
    <3>1. Sign(order) = 0 /\ Sign(pos) = 0
      BY <2>4 DEF Sign
    <3> QED BY <2>4, <3>1 DEF ReduceOnly, Abs, Smaller
  <2> QED BY <2>1, <2>2, <2>3, <2>4 DEF Sign
<1>2. ReduceOnly(0, order) = 0
  <2>1. CASE order = 0
    BY <2>1 DEF ReduceOnly, Sign, Abs, Smaller
  <2>2. CASE order # 0
    <3>1. Sign(order) \in {-1, 1} /\ Sign(0) = 0
      BY <2>2 DEF Sign
    <3> QED BY <3>1 DEF ReduceOnly
  <2> QED BY <2>1, <2>2
<1>3. ReduceOnly(pos, CloseOrder(pos)) = 0
  <2>1. CASE pos > 0
    <3>1. Sign(-pos) = -1 /\ Sign(pos) = 1 /\ Abs(-pos) = pos /\ Abs(pos) = pos
      BY <2>1 DEF Sign, Abs
    <3> QED BY <3>1 DEF ReduceOnly, Smaller, CloseOrder
  <2>2. CASE pos < 0
    <3>1. Sign(-pos) = 1 /\ Sign(pos) = -1 /\ Abs(-pos) = -pos /\ Abs(pos) = -pos
      BY <2>2 DEF Sign, Abs
    <3> QED BY <3>1 DEF ReduceOnly, Smaller, CloseOrder
  <2>3. CASE pos = 0
    BY <1>2, <2>3 DEF ReduceOnly, Sign, Abs, Smaller, CloseOrder
  <2> QED BY <2>1, <2>2, <2>3
<1> QED BY <1>1, <1>2, <1>3

\* The inductive invariant: without a warning or a late trade, what was passed is
\* flat and what is left is as listed, or closed by its bracket.
FlattenInv ==
  /\ fAt \in {"trading", "list", "close", "stop", "halt", "done"}
  /\ fPos \in [Markets -> Int] /\ fListed \in [Markets -> Int] /\ fLeft \in SUBSET Markets
  /\ fWarned \in BOOLEAN /\ fMoved \in BOOLEAN
  /\ fAt = "close" /\ ~fWarned /\ ~fMoved =>
       \A s \in Markets : fPos[s] = 0 \/ (s \in fLeft /\ fPos[s] = fListed[s])
  /\ fAt \in {"stop", "halt", "done"} /\ ~fWarned /\ ~fMoved => \A s \in Markets : fPos[s] = 0

LEMMA FlattenInitially ==
  ASSUME FlattenInit
  PROVE  FlattenInv
<1>1. Flat \in [Markets -> Int]
  BY DEF Flat
<1> QED BY <1>1 DEF FlattenInit, FlattenInv

LEMMA ClosePositionKeeps ==
  ASSUME FlattenInv, NEW s \in Markets, ClosePosition(s)
  PROVE  /\ FlattenInv'
         /\ \A t \in Markets : fPos'[t] \in 0 .. fPos[t] \/ fPos'[t] \in fPos[t] .. 0 \/ fPos'[t] = fPos[t]
<1>0. /\ fAt = "close" /\ s \in fLeft /\ fLeft' = fLeft \ {s}
      /\ UNCHANGED <<fAt, fOrders, fListed, fWorker, fMoved>>
      /\ fPos \in [Markets -> Int] /\ fListed \in [Markets -> Int] /\ fLeft \in SUBSET Markets
      /\ fWarned \in BOOLEAN /\ fMoved \in BOOLEAN
  BY DEF ClosePosition, FlattenInv
<1>1. CASE fWarned' = TRUE /\ UNCHANGED fPos
  BY <1>0, <1>1 DEF FlattenInv
<1>2. CASE /\ fPos' = [fPos EXCEPT ![s] = ReduceOnly(fPos[s], CloseOrder(fListed[s]))]
           /\ fWarned' = (fWarned \/ fPos' = fPos)
  <2> DEFINE r == ReduceOnly(fPos[s], CloseOrder(fListed[s]))
  <2>1. CloseOrder(fListed[s]) \in Int /\ fPos[s] \in Int /\ fListed[s] \in Int
    BY <1>0 DEF CloseOrder
  <2>2. r \in Int /\ (r \in 0 .. fPos[s] \/ r \in fPos[s] .. 0)
        /\ (fPos[s] = 0 => r = 0) /\ (fPos[s] = fListed[s] => r = 0)
    BY <2>1, ReduceOnlyFacts
  <2> HIDE DEF r
  <2>3. fPos' = [fPos EXCEPT ![s] = r]
    BY <1>2 DEF r
  <2>4. fPos' \in [Markets -> Int] /\ fWarned' \in BOOLEAN /\ (fWarned => fWarned')
    BY <1>0, <1>2, <2>2, <2>3
  <2>5. ASSUME ~fWarned', ~fMoved'
        PROVE  \A t \in Markets : fPos'[t] = 0 \/ (t \in fLeft' /\ fPos'[t] = fListed'[t])
    <3>1. \A t \in Markets : fPos[t] = 0 \/ (t \in fLeft /\ fPos[t] = fListed[t])
      BY <1>0, <2>4, <2>5 DEF FlattenInv
    <3>2. fPos'[s] = 0
      BY <1>0, <2>2, <2>3, <3>1
    <3> QED BY <1>0, <2>3, <3>1, <3>2
  <2>6. \A t \in Markets : fPos'[t] \in 0 .. fPos[t] \/ fPos'[t] \in fPos[t] .. 0 \/ fPos'[t] = fPos[t]
    BY <1>0, <2>2, <2>3
  <2> QED BY <1>0, <2>4, <2>5, <2>6 DEF FlattenInv
<1> QED BY <1>1, <1>2 DEF ClosePosition

LEMMA FlattenStep ==
  ASSUME FlattenInv, FlattenNext
  PROVE  FlattenInv'
<1>1. CASE CancelAllOrders
  BY <1>1 DEF CancelAllOrders, FlattenInv
<1>2. CASE GetPositions
  BY <1>2 DEF GetPositions, FlattenInv
<1>3. CASE AllClosed
  BY <1>3 DEF AllClosed, FlattenInv
<1>4. CASE StopWorker \/ HaltTenant
  BY <1>4 DEF StopWorker, HaltTenant, FlattenInv
<1>5. ASSUME NEW s \in Markets, ClosePosition(s)
      PROVE  FlattenInv'
  BY <1>5, ClosePositionKeeps
<1>6. ASSUME NEW s \in Markets, BracketFires(s)
      PROVE  FlattenInv'
  BY <1>6 DEF BracketFires, FlattenInv
<1>7. ASSUME NEW s \in Markets, NEW q \in {-1, 1}, WorkerTrades(s, q)
      PROVE  FlattenInv'
  <2>1. /\ fPos' \in [Markets -> Int] /\ UNCHANGED <<fAt, fListed, fLeft, fWarned, fWorker>>
        /\ fMoved' = (fMoved \/ fAt \notin {"trading", "list"})
    BY <1>7 DEF WorkerTrades, FlattenInv
  <2> QED BY <2>1 DEF FlattenInv
<1> QED BY <1>1, <1>2, <1>3, <1>4, <1>5, <1>6, <1>7 DEF FlattenNext, KillSteps

LEMMA FlattenStutters ==
  ASSUME FlattenInv, UNCHANGED fVars
  PROVE  FlattenInv'
BY DEF FlattenInv, fVars

LEMMA FlattenImplies ==
  ASSUME FlattenInv
  PROVE  KilledIsFlat
BY DEF FlattenInv, KilledIsFlat, Flat

\* What every step of the account and the kill route is, for KillOnlyReduces.
OnlyReduces ==
  fAt # "trading" /\ fLeft' # fLeft /\ fAt' = fAt =>
    \A s \in Markets : fPos'[s] = fPos[s] \/ fPos'[s] \in 0 .. fPos[s] \/ fPos'[s] \in fPos[s] .. 0

LEMMA FlattenReduces ==
  ASSUME FlattenInv, FlattenNext
  PROVE  OnlyReduces
<1>1. ASSUME NEW s \in Markets, ClosePosition(s)
      PROVE  OnlyReduces
  BY <1>1, ClosePositionKeeps DEF OnlyReduces
<1>2. CASE CancelAllOrders \/ GetPositions \/ AllClosed \/ StopWorker \/ HaltTenant
  BY <1>2 DEF CancelAllOrders, GetPositions, AllClosed, StopWorker, HaltTenant, OnlyReduces
<1>3. ASSUME NEW s \in Markets, BracketFires(s) \/ \E q \in {-1, 1} : WorkerTrades(s, q)
      PROVE  OnlyReduces
  BY <1>3 DEF BracketFires, WorkerTrades, OnlyReduces
<1> QED BY <1>1, <1>2, <1>3 DEF FlattenNext, KillSteps

\* The kill route ends with a flat account unless it warned or the worker traded
\* past its list, and no step of it opens, grows or turns a position, whatever
\* markets and sizes, and whatever brackets fire and calls fail meanwhile.
THEOREM KillHolds == FlattenSpec => KillFlattens
<1>1. FlattenInv /\ [FlattenNext]_fVars => FlattenInv' /\ [OnlyReduces]_fVars
  BY FlattenStep, FlattenStutters, FlattenReduces
<1>2. FlattenSpec => []FlattenInv
  BY <1>1, FlattenInitially, PTL DEF FlattenSpec
<1>3. FlattenSpec => [][OnlyReduces]_fVars
  BY <1>1, <1>2, PTL DEF FlattenSpec
<1>4. FlattenSpec => []KilledIsFlat
  BY <1>2, FlattenImplies, PTL
<1> QED BY <1>3, <1>4 DEF KillFlattens, KillOnlyReduces, OnlyReduces

-----------------------------------------------------------------------------
(* ChatLinking *)

LinkTypes ==
  /\ kCode \in [Codes -> {"none", "valid", "expired", "used"}]
  /\ kBound \in [Chats -> Tenants \cup {Nobody}]
  /\ kAt \in [Chats -> {"idle", "bind", "insert", "move", "mark"}]
  /\ kUsing \in [Chats -> Codes \cup {NoCode}]
  /\ \A h \in Chats : kAt[h] # "idle" => kUsing[h] \in Codes
  /\ kBy \in [Codes -> SUBSET Chats] /\ kClean \in BOOLEAN

\* While redemptions come one by one and to their end, a code that has bound a
\* chat is used or about to be marked, and one that is being redeemed has bound none.
RedeemedInOrder ==
  kClean => /\ \A g, h \in Chats : kAt[g] # "idle" /\ kAt[h] # "idle" => g = h
            /\ \A c \in Codes : \A g, h \in kBy[c] : g = h
            /\ \A c \in Codes : kBy[c] # {} =>
                 kCode[c] = "used" \/ \E h \in Chats : kAt[h] = "mark" /\ kUsing[h] = c
            /\ \A h \in Chats : kAt[h] \in {"bind", "insert", "move"} => kBy[kUsing[h]] = {}

LinkInv == LinkTypes /\ OneChatPerTenant /\ RedeemedInOrder

LEMMA OwnerFacts ==
  ASSUME NEW c \in Codes
  PROVE  Owner(c) \in Tenants /\ Owner(c) # Nobody
BY LinkAssumption DEF Codes, Owner

LEMMA LinkInitially ==
  ASSUME LinkInit
  PROVE  LinkInv
<1>1. LinkTypes
  BY DEF LinkInit, LinkTypes
<1>2. OneChatPerTenant
  BY DEF LinkInit, OneChatPerTenant
<1>3. RedeemedInOrder
  BY DEF LinkInit, RedeemedInOrder
<1> QED BY <1>1, <1>2, <1>3 DEF LinkInv

LEMMA LinkStep ==
  ASSUME LinkInv, LinkNext
  PROVE  LinkInv'
<1> USE DEF LinkInv
<1>1. ASSUME NEW c \in Codes, IssuePairingCode(c) \/ CodeExpires(c)
      PROVE  LinkInv'
  <2>1. UNCHANGED <<kBound, kAt, kUsing, kBy, kClean>>
    BY <1>1 DEF IssuePairingCode, CodeExpires
  <2>2. /\ kCode' \in [Codes -> {"none", "valid", "expired", "used"}]
        /\ \A d \in Codes : kCode[d] = "used" => kCode'[d] = "used"
    BY <1>1 DEF IssuePairingCode, CodeExpires, LinkTypes
  <2> QED BY <2>1, <2>2 DEF LinkTypes, OneChatPerTenant, RedeemedInOrder
<1>2. ASSUME NEW h \in Chats, NEW c \in Codes, StartWithCode(h, c)
      PROVE  LinkInv'
  <2>1. /\ kAt[h] = "idle" /\ kCode[c] = "valid" /\ UNCHANGED <<kCode, kBound, kBy>>
        /\ kAt' = [kAt EXCEPT ![h] = "bind"] /\ kUsing' = [kUsing EXCEPT ![h] = c]
        /\ kClean' = (kClean /\ \A g \in Chats : kAt[g] = "idle")
    BY <1>2 DEF StartWithCode, GetValid
  <2>2. LinkTypes'
    BY <2>1 DEF LinkTypes
  <2>3. OneChatPerTenant'
    BY <2>1 DEF OneChatPerTenant
  <2>4. RedeemedInOrder'
    <3> SUFFICES ASSUME kClean' PROVE RedeemedInOrder'
      BY DEF RedeemedInOrder
    <3>1. kClean /\ \A g \in Chats : kAt[g] = "idle"
      BY <2>1
    <3>2. \A g \in Chats : kAt'[g] # "idle" => g = h /\ kAt'[g] = "bind" /\ kUsing'[g] = c
      BY <2>1, <3>1 DEF LinkTypes
    <3>3. kBy'[c] = {}
      BY <2>1, <3>1 DEF RedeemedInOrder
    <3>4. \A d \in Codes : kBy'[d] # {} => kCode'[d] = "used"
      BY <2>1, <3>1 DEF RedeemedInOrder
    <3>5. \A d \in Codes : \A f, g \in kBy'[d] : f = g
      BY <2>1, <3>1 DEF RedeemedInOrder
    <3>6. \A g \in Chats : kAt'[g] \in {"bind", "insert", "move"} => kBy'[kUsing'[g]] = {}
      BY <3>2, <3>3
    <3> QED BY <3>2, <3>4, <3>5, <3>6 DEF RedeemedInOrder
  <2> QED BY <2>2, <2>3, <2>4
<1>3. ASSUME NEW h \in Chats, BindLookup(h)
      PROVE  LinkInv'
  <2>1. PICK point \in {"insert", "move"} : kAt' = [kAt EXCEPT ![h] = point]
    BY <1>3 DEF BindLookup
  <2>2. kAt[h] = "bind" /\ UNCHANGED <<kCode, kBound, kUsing, kBy, kClean>>
    BY <1>3 DEF BindLookup
  <2>3. /\ \A g \in Chats : (kAt'[g] # "idle" <=> kAt[g] # "idle") /\ (kAt'[g] = "mark" <=> kAt[g] = "mark")
        /\ \A g \in Chats : kAt'[g] \in {"bind", "insert", "move"} => kAt[g] \in {"bind", "insert", "move"}
    BY <2>1, <2>2 DEF LinkTypes
  <2>4. LinkTypes'
    BY <2>1, <2>2 DEF LinkTypes
  <2>5. OneChatPerTenant' /\ RedeemedInOrder'
    BY <2>2, <2>3 DEF OneChatPerTenant, RedeemedInOrder
  <2> QED BY <2>4, <2>5
<1>4. ASSUME NEW h \in Chats, kAt[h] \notin {"idle", "mark"} \/ ~kClean',
             kAt' = [kAt EXCEPT ![h] = "idle"], UNCHANGED <<kCode, kBound, kUsing, kBy>>,
             kClean' => kClean, kClean' \in BOOLEAN
      PROVE  LinkInv'
  <2>1. LinkTypes' /\ OneChatPerTenant'
    BY <1>4 DEF LinkTypes, OneChatPerTenant
  <2>2. \A g \in Chats : kAt'[g] # "idle" => g # h /\ kAt'[g] = kAt[g]
    BY <1>4 DEF LinkTypes
  <2>3. kClean' => \A g \in Chats : kAt[g] = "mark" => kAt'[g] = "mark"
    BY <1>4 DEF LinkTypes
  <2>4. RedeemedInOrder'
    BY <1>4, <2>2, <2>3 DEF RedeemedInOrder
  <2> QED BY <2>1, <2>4
<1>5. ASSUME NEW h \in Chats, BindWrite(h)
      PROVE  LinkInv'
  <2>1. kAt[h] \in {"insert", "move"} /\ UNCHANGED <<kCode, kUsing, kClean>> /\ kUsing[h] \in Codes
    BY <1>5 DEF BindWrite, LinkTypes
  <2>2. CASE ~TenantFree(h, Owner(kUsing[h]))
    BY <1>4, <1>5, <2>1, <2>2 DEF BindWrite, LinkTypes
  <2>3. CASE TenantFree(h, Owner(kUsing[h]))
    <3> DEFINE c == kUsing[h]
               t == Owner(c)
    <3>1. /\ kBound' = [kBound EXCEPT ![h] = t] /\ kBy' = [kBy EXCEPT ![c] = kBy[c] \cup {h}]
          /\ kAt' = [kAt EXCEPT ![h] = "mark"]
      BY <1>5, <2>3 DEF BindWrite
    <3>2. t \in Tenants /\ t # Nobody /\ \A g \in Chats \ {h} : kBound[g] # t
      BY <2>1, <2>3, OwnerFacts DEF TenantFree
    <3>3. c \in Codes /\ c = kUsing[h] /\ Owner(c) = t
      BY <2>1
    <3> HIDE DEF c, t
    <3>4. LinkTypes'
      BY <2>1, <3>1, <3>2, <3>3 DEF LinkTypes
    <3>5. OneChatPerTenant'
      <4>1. \A g \in Chats : kBound'[g] = IF g = h THEN t ELSE kBound[g]
        BY <3>1 DEF LinkTypes
      <4>2. /\ \A d \in Codes : \A g \in kBy[d] : g \in kBy'[d]
            /\ h \in kBy'[c]
        BY <3>1, <3>3 DEF LinkTypes
      <4>3. ASSUME NEW g \in Chats, kBound'[g] # Nobody
            PROVE  /\ \A f \in Chats \ {g} : kBound'[f] # kBound'[g]
                   /\ \E d \in Codes : Owner(d) = kBound'[g] /\ g \in kBy'[d]
        BY <3>2, <3>3, <4>1, <4>2, <4>3 DEF OneChatPerTenant
      <4> QED BY <4>3 DEF OneChatPerTenant
    <3>6. RedeemedInOrder'
      <4> SUFFICES ASSUME kClean PROVE RedeemedInOrder'
        BY <2>1 DEF RedeemedInOrder
      <4>1. kBy[c] = {} /\ \A g \in Chats : kAt[g] # "idle" => g = h
        BY <2>1, <3>3 DEF RedeemedInOrder
      <4>2. \A d \in Codes : kBy'[d] = IF d = c THEN {h} ELSE kBy[d]
        BY <3>1, <3>3, <4>1 DEF LinkTypes
      <4>3. \A g \in Chats : kAt'[g] # "idle" => g = h /\ kAt'[g] = "mark"
        BY <3>1, <4>1 DEF LinkTypes
      <4>4. kAt'[h] = "mark" /\ kUsing'[h] = c
        BY <2>1, <3>1, <3>3 DEF LinkTypes
      <4>5. \A d \in Codes : kBy'[d] # {} =>
              kCode'[d] = "used" \/ \E g \in Chats : kAt'[g] = "mark" /\ kUsing'[g] = d
        <5> SUFFICES ASSUME NEW d \in Codes, d # c, kBy[d] # {} PROVE kCode[d] = "used"
          BY <2>1, <4>2, <4>4
        <5> QED BY <2>1, <4>1 DEF RedeemedInOrder
      <4>6. \A d \in Codes : \A f, g \in kBy'[d] : f = g
        BY <4>2 DEF RedeemedInOrder
      <4> QED BY <4>3, <4>5, <4>6 DEF RedeemedInOrder
    <3> QED BY <3>4, <3>5, <3>6
  <2> QED BY <2>2, <2>3
<1>6. ASSUME NEW h \in Chats, MarkUsed(h)
      PROVE  LinkInv'
  <2>1. /\ kAt[h] = "mark" /\ kCode' = [kCode EXCEPT ![kUsing[h]] = "used"] /\ kUsing[h] \in Codes
        /\ kAt' = [kAt EXCEPT ![h] = "idle"] /\ UNCHANGED <<kBound, kUsing, kBy, kClean>>
    BY <1>6 DEF MarkUsed, LinkTypes
  <2>2. LinkTypes' /\ OneChatPerTenant'
    BY <2>1 DEF LinkTypes, OneChatPerTenant
  <2>3. RedeemedInOrder'
    <3> SUFFICES ASSUME kClean PROVE RedeemedInOrder'
      BY <2>1 DEF RedeemedInOrder
    <3>1. \A g \in Chats : kAt[g] # "idle" => g = h
      BY <2>1 DEF RedeemedInOrder
    <3>2. \A g \in Chats : kAt'[g] = "idle"
      BY <2>1, <3>1 DEF LinkTypes
    <3>3. \A d \in Codes : kBy'[d] # {} => kCode'[d] = "used"
      BY <2>1, <3>1 DEF LinkTypes, RedeemedInOrder
    <3> QED BY <2>1, <3>2, <3>3 DEF RedeemedInOrder
  <2> QED BY <2>2, <2>3
<1>7. ASSUME NEW h \in Chats, HandlerCut(h)
      PROVE  LinkInv'
  BY <1>4, <1>7 DEF HandlerCut
<1> QED BY <1>1, <1>2, <1>3, <1>5, <1>6, <1>7 DEF LinkNext

LEMMA LinkStutters ==
  ASSUME LinkInv, UNCHANGED kVars
  PROVE  LinkInv'
BY DEF LinkInv, LinkTypes, OneChatPerTenant, RedeemedInOrder, kVars

LEMMA LinkImplies ==
  ASSUME LinkInv
  PROVE  LinkSound
<1>1. ASSUME kClean, NEW c \in Codes
      PROVE  Cardinality(kBy[c]) <= 1
  <2>1. CASE kBy[c] = {}
    BY <2>1, FS_EmptySet
  <2>2. CASE kBy[c] # {}
    <3>1. PICK h \in kBy[c] : kBy[c] = {h}
      BY <1>1, <2>2 DEF LinkInv, RedeemedInOrder
    <3>2. Cardinality({h}) = 1
      BY FS_Singleton
    <3> QED BY <3>1, <3>2
  <2> QED BY <2>1, <2>2
<1> QED BY <1>1 DEF LinkInv, LinkSound, CodeBindsOneChat

\* Whatever chats redeem whatever codes, and wherever handlers are cut off, a tenant
\* has one chat, bound by a code of the tenant; and a code binds one chat as long
\* as redemptions neither overlap nor are cut off.
THEOREM LinksHold == LinkSpec => []LinkSound
BY LinkInitially, LinkStep, LinkStutters, LinkImplies, PTL DEF LinkSpec

-----------------------------------------------------------------------------
(* BotCommands *)

\* A run that the conversation can still lead to and no tap has claimed yet.
Open(u) == IF bConv[u] # "none" /\ bTaps[u] + bBusy[u] = 0 THEN 1 ELSE 0

Choices == Strategies \cup {Misread, Unknown}

BotClock ==
  /\ bNow \in Nat /\ bNow >= Cooldown
  /\ bLast \in [Users -> Nat] /\ \A u \in Users : bLast[u] <= bNow

BotTypes ==
  /\ BotClock
  /\ bConv \in [Users -> {"none", "select", "confirm"}]
  /\ bChoice \in [Users -> Choices] /\ bCard \in [Users -> Choices]
  /\ bTaps \in [Users -> Nat] /\ bBusy \in [Users -> Nat]
  /\ bSerial \in BOOLEAN
  /\ bRuns \in [Users -> Seq([ran : Choices, card : Choices])]

\* While taps do not overlap: one handler at a time; what a waiting tap, or the
\* next one, will run is what the card says; and what has run, is claimed by a tap
\* or can still be claimed was each paid for with a cooldown.
BotOne(u) == bTaps[u] + bBusy[u] <= 1
BotCard(u) == bConv[u] = "confirm" \/ bTaps[u] > 0 => bChoice[u] = bCard[u]
BotRan(u) == \A n \in 1 .. Len(bRuns[u]) : bRuns[u][n].ran = bRuns[u][n].card
BotPaid(u) == (Len(bRuns[u]) + bTaps[u] + Open(u)) * Cooldown <= bLast[u]

BotInv ==
  /\ BotTypes
  /\ bSerial => \A u \in Users : BotOne(u) /\ BotCard(u) /\ BotRan(u) /\ BotPaid(u)

\* A claim dropped needs no more paying for, and a new one costs one cooldown.
LEMMA Payments ==
  ASSUME NEW n \in Nat, NEW m \in Nat, NEW c \in Nat, m <= n
  PROVE  /\ m * c \in Nat /\ m * c <= n * c
         /\ (n + 1) * c = n * c + c
BY SMT

\* What has been paid for out of a clock is bounded by the clock.
LEMMA Affordable ==
  ASSUME NEW n \in Nat, NEW c \in Nat \ {0}, NEW a \in Nat, n * c <= a + c
  PROVE  n <= 1 + a \div c
<1> DEFINE q == a \div c
<1>1. q \in Nat /\ a < q * c + c
  BY SMT
<1> HIDE DEF q
<1>2. ASSUME n >= q + 2 PROVE FALSE
  <2>1. (q + 2) * c <= n * c
    BY <1>1, <1>2, Payments
  <2>2. (q + 2) * c = q * c + c + c
    BY <1>1
  <2>3. q * c \in Nat /\ n * c \in Nat
    BY <1>1
  <2> QED BY <1>1, <2>1, <2>2, <2>3
<1>3. n <= 1 + q
  BY <1>1, <1>2
<1> QED BY <1>3 DEF q

LEMMA BotInitially ==
  ASSUME BotInit
  PROVE  BotInv
<1>1. BotTypes
  BY BotAssumption DEF BotInit, BotTypes, BotClock, Choices
<1>2. ASSUME NEW u \in Users PROVE BotOne(u) /\ BotCard(u) /\ BotRan(u) /\ BotPaid(u)
  <2>1. Len(bRuns[u]) = 0 /\ bTaps[u] = 0 /\ bBusy[u] = 0 /\ Open(u) = 0 /\ bLast[u] = 0
    BY DEF BotInit, Open
  <2>2. BotPaid(u)
    BY <2>1, BotAssumption DEF BotPaid
  <2> QED BY <2>1, <2>2 DEF BotInit, BotOne, BotCard, BotRan
<1> QED BY <1>1, <1>2 DEF BotInv

\* Another user's conversation, or the clock, leaves this user's facts alone.
LEMMA BotFrame ==
  ASSUME NEW v \in Users,
         bConv'[v] = bConv[v], bTaps'[v] = bTaps[v], bBusy'[v] = bBusy[v],
         bChoice'[v] = bChoice[v], bCard'[v] = bCard[v], bRuns'[v] = bRuns[v],
         bLast'[v] = bLast[v],
         BotOne(v) /\ BotCard(v) /\ BotRan(v) /\ BotPaid(v)
  PROVE  (BotOne(v) /\ BotCard(v) /\ BotRan(v) /\ BotPaid(v))'
BY DEF BotOne, BotCard, BotRan, BotPaid, Open

LEMMA BotStutters ==
  ASSUME BotInv, UNCHANGED bVars
  PROVE  BotInv'
<1>1. BotTypes'
  BY DEF BotInv, BotTypes, BotClock, bVars
<1>2. ASSUME bSerial', NEW v \in Users PROVE (BotOne(v) /\ BotCard(v) /\ BotRan(v) /\ BotPaid(v))'
  BY <1>2, BotFrame DEF BotInv, bVars
<1> QED BY <1>1, <1>2 DEF BotInv

LEMMA BotTypesStep ==
  ASSUME BotTypes, BotNext
  PROVE  BotTypes' /\ (bSerial' => bSerial)
<1> USE BotAssumption
<1>0. ASSUME UNCHANGED <<bNow, bLast>> PROVE BotClock'
  BY <1>0 DEF BotTypes, BotClock
<1>1. CASE BotTick
  <2>1. BotClock'
    <3>1. bNow \in Nat /\ bNow' = bNow + 1 /\ bLast' = bLast /\ Cooldown \in Nat
      BY <1>1 DEF BotTick, BotTypes, BotClock
    <3>2. \A u \in Users : bLast[u] \in Nat /\ bLast[u] <= bNow
      BY DEF BotTypes, BotClock
    <3>3. bNow' \in Nat /\ bNow' >= Cooldown /\ \A u \in Users : bLast[u] <= bNow'
      BY <3>1, <3>2 DEF BotTypes, BotClock
    <3> QED BY <3>1, <3>3 DEF BotTypes, BotClock
  <2> QED BY <1>1, <2>1 DEF BotTypes, BotTick
<1>2. ASSUME NEW u \in Users, ExecuteStart(u) PROVE BotTypes' /\ (bSerial' => bSerial)
  <2>1. BotClock'
    BY <1>2 DEF BotTypes, BotClock, ExecuteStart, CheckRateLimit
  <2> QED BY <1>2, <2>1 DEF BotTypes, ExecuteStart
<1>3. ASSUME NEW u \in Users, ExecuteCancel(u) PROVE BotTypes' /\ (bSerial' => bSerial)
  BY <1>0, <1>3 DEF BotTypes, ExecuteCancel
<1>4. ASSUME NEW u \in Users, TapConfirm(u) PROVE BotTypes' /\ (bSerial' => bSerial)
  <2>1. bTaps' \in [Users -> Nat]
    BY <1>4 DEF BotTypes, TapConfirm
  <2>2. bSerial' \in BOOLEAN /\ (bSerial' => bSerial)
    BY <1>4 DEF TapConfirm
  <2>3. UNCHANGED <<bNow, bLast, bConv, bChoice, bCard, bBusy, bRuns>>
    BY <1>4 DEF TapConfirm
  <2> QED BY <1>0, <2>1, <2>2, <2>3 DEF BotTypes
<1>5. ASSUME NEW u \in Users, ExecuteConfirm(u) PROVE BotTypes' /\ (bSerial' => bSerial)
  <2> DEFINE R == [ran : Choices, card : Choices]
             run == [ran |-> bChoice[u], card |-> bCard[u]]
  <2>1. run \in R
    BY DEF BotTypes
  <2>2. bRuns \in [Users -> Seq(R)] /\ bRuns' = [bRuns EXCEPT ![u] = Append(@, run)]
    BY <1>5 DEF BotTypes, ExecuteConfirm
  <2> HIDE DEF R, run
  <2>3. Append(bRuns[u], run) \in Seq(R)
    BY <2>1, <2>2
  <2>4. bRuns' \in [Users -> Seq(R)]
    BY <2>2, <2>3
  <2> USE DEF R
  <2>5. bTaps' \in [Users -> Nat] /\ bBusy' \in [Users -> Nat]
    <3>1. /\ bTaps \in [Users -> Nat] /\ bBusy \in [Users -> Nat] /\ bTaps[u] > 0
          /\ bTaps' = [bTaps EXCEPT ![u] = @ - 1] /\ bBusy' = [bBusy EXCEPT ![u] = @ + 1]
      BY <1>5 DEF BotTypes, ExecuteConfirm
    <3> QED BY <3>1
  <2>6. UNCHANGED <<bNow, bLast, bConv, bChoice, bCard, bSerial>>
    BY <1>5 DEF ExecuteConfirm
  <2> QED BY <1>0, <2>4, <2>5, <2>6 DEF BotTypes
<1>6. ASSUME NEW u \in Users, ExecuteReturns(u) PROVE BotTypes' /\ (bSerial' => bSerial)
  <2>1. bBusy' \in [Users -> Nat]
    <3>1. bBusy \in [Users -> Nat] /\ bBusy[u] > 0 /\ bBusy' = [bBusy EXCEPT ![u] = @ - 1]
      BY <1>6 DEF BotTypes, ExecuteReturns
    <3> QED BY <3>1
  <2>2. bChoice' \in [Users -> Choices] /\ bConv' \in [Users -> {"none", "select", "confirm"}]
    BY <1>6 DEF BotTypes, ExecuteReturns, Choices
  <2>3. UNCHANGED <<bNow, bLast, bCard, bTaps, bRuns, bSerial>>
    BY <1>6 DEF ExecuteReturns
  <2> QED BY <1>0, <2>1, <2>2, <2>3 DEF BotTypes
<1>7. ASSUME NEW u \in Users, NEW s \in Strategies \cup {Misread}, ExecuteStrategySelected(u, s)
      PROVE  BotTypes' /\ (bSerial' => bSerial)
  BY <1>0, <1>7 DEF BotTypes, ExecuteStrategySelected, Chosen, Choices
<1> QED BY <1>1, <1>2, <1>3, <1>4, <1>5, <1>6, <1>7 DEF BotNext

LEMMA BotStep ==
  ASSUME BotInv, BotNext
  PROVE  BotInv'
<1> USE BotAssumption
<1> DEFINE Good(v) == BotOne(v) /\ BotCard(v) /\ BotRan(v) /\ BotPaid(v)
<1>t. BotTypes /\ BotTypes' /\ (bSerial' => bSerial)
  BY BotTypesStep DEF BotInv
<1> SUFFICES ASSUME bSerial' PROVE \A v \in Users : Good(v)'
  BY <1>t DEF BotInv
<1>0. \A v \in Users : Good(v)
  BY <1>t DEF BotInv
<1>n. \A v \in Users : /\ bTaps[v] \in Nat /\ bBusy[v] \in Nat /\ Open(v) \in {0, 1}
                       /\ Len(bRuns[v]) \in Nat /\ bLast[v] \in Nat
  BY <1>t DEF BotTypes, BotClock, Open
<1>m. Cooldown \in Nat
  OBVIOUS
<1> HIDE DEF Good
<1>f. ASSUME NEW v \in Users,
             bConv'[v] = bConv[v], bTaps'[v] = bTaps[v], bBusy'[v] = bBusy[v],
             bChoice'[v] = bChoice[v], bCard'[v] = bCard[v], bRuns'[v] = bRuns[v],
             bLast'[v] = bLast[v]
      PROVE  Good(v)'
  BY <1>0, <1>f, BotFrame DEF Good
\* Fewer claims than before are paid for.
<1>p. ASSUME NEW v \in Users, bLast'[v] = bLast[v],
             Len(bRuns'[v]) + bTaps'[v] + Open(v)' \in Nat,
             Len(bRuns'[v]) + bTaps'[v] + Open(v)' <= Len(bRuns[v]) + bTaps[v] + Open(v)
      PROVE  BotPaid(v)'
  <2> DEFINE n == Len(bRuns[v]) + bTaps[v] + Open(v)
             m == Len(bRuns'[v]) + bTaps'[v] + Open(v)'
  <2>1. n \in Nat /\ m \in Nat /\ m <= n
    BY <1>n, <1>p
  <2>2. n * Cooldown <= bLast[v]
    BY <1>0 DEF Good, BotPaid
  <2>3. m * Cooldown \in Nat /\ m * Cooldown <= n * Cooldown /\ n * Cooldown \in Nat
    <3> HIDE DEF n, m
    <3> QED BY <2>1, <1>m, Payments
  <2>4. m * Cooldown <= bLast'[v]
    <3> HIDE DEF n, m
    <3> QED BY <2>2, <2>3, <1>n, <1>p
  <2> QED BY <2>4 DEF BotPaid
<1>1. CASE BotTick
  BY <1>1, <1>f DEF BotTick
<1>2. ASSUME NEW u \in Users, ExecuteStart(u) PROVE \A v \in Users : Good(v)'
  <2>1. ASSUME NEW v \in Users, v # u PROVE Good(v)'
    BY <1>2, <1>f, <1>t, <2>1 DEF ExecuteStart, CheckRateLimit, BotTypes, BotClock
  <2>2. /\ bTaps' = bTaps /\ bBusy' = bBusy /\ bRuns' = bRuns /\ bChoice' = bChoice /\ bCard' = bCard
        /\ bConv[u] = "none" /\ bConv'[u] = "select" /\ bLast'[u] = bNow
        /\ bNow - bLast[u] >= Cooldown /\ bNow \in Nat
    BY <1>2, <1>t DEF ExecuteStart, CheckRateLimit, BotTypes, BotClock
  <2>3. BotOne(u)' /\ BotCard(u)' /\ BotRan(u)'
    BY <1>0, <2>2 DEF Good, BotOne, BotCard, BotRan
  <2>4. BotPaid(u)'
    <3> DEFINE n == Len(bRuns[u]) + bTaps[u]
    <3>1. n \in Nat /\ Open(u) = 0 /\ Open(u)' \in {0, 1}
      BY <1>n, <2>2 DEF Open
    <3>2. n * Cooldown <= bLast[u]
      <4>1. n + Open(u) = n
        BY <3>1
      <4> QED BY <1>0, <4>1 DEF Good, BotPaid
    <3>3. /\ n * Cooldown \in Nat /\ (n + 1) * Cooldown = n * Cooldown + Cooldown
          /\ (n + Open(u)') * Cooldown <= (n + 1) * Cooldown /\ (n + Open(u)') * Cooldown \in Nat
      <4> HIDE DEF n
      <4>1. n + Open(u)' \in Nat /\ n + Open(u)' <= n + 1 /\ n + 1 \in Nat /\ n <= n
        BY <3>1
      <4> QED BY <3>1, <4>1, <1>m, Payments
    <3>4. (n + Open(u)') * Cooldown <= bLast'[u]
      <4> HIDE DEF n
      <4> QED BY <3>2, <3>3, <2>2, <1>n, <1>m
    <3> QED BY <3>4, <2>2 DEF BotPaid
  <2> QED BY <2>1, <2>3, <2>4 DEF Good
<1>3. ASSUME NEW u \in Users, ExecuteCancel(u) PROVE \A v \in Users : Good(v)'
  <2>1. ASSUME NEW v \in Users, v # u PROVE Good(v)'
    BY <1>3, <1>f, <1>t, <2>1 DEF ExecuteCancel, BotTypes
  <2>2. /\ UNCHANGED <<bLast, bChoice, bCard, bTaps, bBusy, bRuns>> /\ bConv'[u] = "none"
    BY <1>3, <1>t DEF ExecuteCancel, BotTypes
  <2>3. BotOne(u)' /\ BotCard(u)' /\ BotRan(u)'
    BY <1>0, <2>2 DEF Good, BotOne, BotCard, BotRan
  <2>4. BotPaid(u)'
    <3>1. Open(u)' = 0
      BY <2>2 DEF Open
    <3> QED BY <3>1, <2>2, <1>n, <1>p
  <2> QED BY <2>1, <2>3, <2>4 DEF Good
<1>4. ASSUME NEW u \in Users, TapConfirm(u) PROVE \A v \in Users : Good(v)'
  <2>1. ASSUME NEW v \in Users, v # u PROVE Good(v)'
    BY <1>4, <1>f, <1>t, <2>1 DEF TapConfirm, BotTypes
  <2>2. /\ UNCHANGED <<bLast, bConv, bChoice, bCard, bBusy, bRuns>>
        /\ bConv[u] = "confirm" /\ bTaps[u] + bBusy[u] = 0 /\ bTaps'[u] = bTaps[u] + 1
    BY <1>4, <1>t DEF TapConfirm, BotTypes
  <2>3. BotOne(u)' /\ BotCard(u)' /\ BotRan(u)'
    <3>1. BotOne(u)'
      BY <1>n, <2>2 DEF BotOne
    <3> QED BY <1>0, <2>2, <3>1 DEF Good, BotCard, BotRan
  <2>4. BotPaid(u)'
    <3>1. Open(u) = 1
      BY <2>2 DEF Open
    <3>2. Open(u)' = 0
      BY <2>2, <1>n DEF Open
    <3> QED BY <3>1, <3>2, <2>2, <1>n, <1>p
  <2> QED BY <2>1, <2>3, <2>4 DEF Good
<1>5. ASSUME NEW u \in Users, ExecuteConfirm(u) PROVE \A v \in Users : Good(v)'
  <2> DEFINE run == [ran |-> bChoice[u], card |-> bCard[u]]
  <2>1. ASSUME NEW v \in Users, v # u PROVE Good(v)'
    BY <1>5, <1>f, <1>t, <2>1 DEF ExecuteConfirm, BotTypes
  <2>2. /\ UNCHANGED <<bLast, bConv, bChoice, bCard>>
        /\ bTaps[u] > 0 /\ bTaps'[u] = bTaps[u] - 1 /\ bBusy'[u] = bBusy[u] + 1
        /\ bRuns'[u] = Append(bRuns[u], run)
    BY <1>5, <1>t DEF ExecuteConfirm, BotTypes
  <2>3. bTaps[u] = 1 /\ bBusy[u] = 0 /\ bChoice[u] = bCard[u]
    BY <1>0, <1>n, <2>2 DEF Good, BotOne, BotCard
  <2>4. BotOne(u)' /\ BotCard(u)'
    BY <1>0, <2>2, <2>3 DEF Good, BotOne, BotCard
  <2>5. BotRan(u)' /\ Len(bRuns'[u]) = Len(bRuns[u]) + 1
    <3> DEFINE s == bRuns[u]
    <3>1. s \in Seq([ran : Choices, card : Choices]) /\ run.ran = run.card
      BY <1>t, <2>3 DEF BotTypes
    <3>2. \A j \in 1 .. Len(s) : s[j].ran = s[j].card
      BY <1>0 DEF Good, BotRan
    <3> HIDE DEF s, run
    <3>3. /\ Len(Append(s, run)) = Len(s) + 1
          /\ \A j \in 1 .. Len(s) + 1 : Append(s, run)[j] = IF j <= Len(s) THEN s[j] ELSE run
      BY <3>1
    <3>4. \A j \in 1 .. Len(s) + 1 : Append(s, run)[j].ran = Append(s, run)[j].card
      BY <3>1, <3>2, <3>3
    <3>5. bRuns'[u] = Append(s, run)
      BY <2>2 DEF s
    <3> QED BY <3>3, <3>4, <3>5 DEF BotRan, s
  <2>6. BotPaid(u)'
    <3>1. Open(u) = 0
      BY <2>3 DEF Open
    <3>2. Open(u)' = 0
      BY <2>2, <2>3 DEF Open
    <3> QED BY <3>1, <3>2, <2>2, <2>3, <2>5, <1>n, <1>p
  <2> QED BY <2>1, <2>4, <2>5, <2>6 DEF Good
<1>6. ASSUME NEW u \in Users, ExecuteReturns(u) PROVE \A v \in Users : Good(v)'
  <2>1. ASSUME NEW v \in Users, v # u PROVE Good(v)'
    BY <1>6, <1>f, <1>t, <2>1 DEF ExecuteReturns, BotTypes
  <2>2. /\ UNCHANGED <<bLast, bCard, bTaps, bRuns>>
        /\ bBusy[u] > 0 /\ bBusy'[u] = bBusy[u] - 1 /\ bConv'[u] = "none"
    BY <1>6, <1>t DEF ExecuteReturns, BotTypes
  <2>3. bTaps[u] = 0 /\ bBusy[u] = 1
    BY <1>0, <1>n, <2>2 DEF Good, BotOne
  <2>4. BotOne(u)' /\ BotCard(u)' /\ BotRan(u)'
    BY <1>0, <2>2, <2>3 DEF Good, BotOne, BotCard, BotRan
  <2>5. BotPaid(u)'
    <3>1. Open(u)' = 0
      BY <2>2 DEF Open
    <3> QED BY <3>1, <2>2, <1>n, <1>p
  <2> QED BY <2>1, <2>4, <2>5 DEF Good
<1>7. ASSUME NEW u \in Users, NEW s \in Strategies \cup {Misread}, ExecuteStrategySelected(u, s)
      PROVE  \A v \in Users : Good(v)'
  <2>1. ASSUME NEW v \in Users, v # u PROVE Good(v)'
    BY <1>7, <1>f, <1>t, <2>1 DEF ExecuteStrategySelected, BotTypes
  <2>2. /\ UNCHANGED <<bLast, bTaps, bBusy, bRuns>>
        /\ bConv[u] = "select" /\ bConv'[u] = "confirm" /\ bChoice'[u] = s /\ bCard'[u] = s
    BY <1>7, <1>t DEF ExecuteStrategySelected, BotTypes, Chosen
  <2>3. BotOne(u)' /\ BotCard(u)' /\ BotRan(u)'
    BY <1>0, <2>2 DEF Good, BotOne, BotCard, BotRan
  <2>4. BotPaid(u)'
    <3>1. Open(u)' = Open(u)
      BY <2>2 DEF Open
    <3> QED BY <3>1, <2>2, <1>n, <1>p
  <2> QED BY <2>1, <2>3, <2>4 DEF Good
<1> QED BY <1>1, <1>2, <1>3, <1>4, <1>5, <1>6, <1>7 DEF BotNext

LEMMA BotImplies ==
  ASSUME BotInv
  PROVE  BotSound
<1>1. ASSUME bSerial PROVE RunsWhatWasConfirmed
  BY <1>1 DEF BotInv, BotRan, RunsWhatWasConfirmed
<1>2. ASSUME bSerial, NEW u \in Users PROVE Len(bRuns[u]) <= 1 + (bNow - Cooldown) \div Cooldown
  <2> DEFINE n == Len(bRuns[u])
             k == n + bTaps[u] + Open(u)
             a == bNow - Cooldown
  <2>1. /\ n \in Nat /\ k \in Nat /\ n <= k /\ a \in Nat /\ Cooldown \in Nat \ {0}
        /\ bLast[u] \in Nat /\ bLast[u] <= a + Cooldown
    BY BotAssumption DEF BotInv, BotTypes, BotClock, Open
  <2>2. k * Cooldown <= bLast[u]
    BY <1>2 DEF BotInv, BotPaid
  <2> HIDE DEF n, k, a
  <2>3. n * Cooldown <= k * Cooldown /\ n * Cooldown \in Nat /\ k * Cooldown \in Nat
    BY <2>1, Payments
  <2>4. n * Cooldown <= a + Cooldown
    BY <2>1, <2>2, <2>3
  <2>5. n <= 1 + a \div Cooldown
    BY <2>1, <2>4, Affordable
  <2> QED BY <2>5 DEF n, a
<1>3. RunsWhatWasConfirmed
  BY <1>1 DEF RunsWhatWasConfirmed
<1> QED BY <1>2, <1>3 DEF BotSound, ExecutionsPaced

\* Whatever questions users leave open, cancel or answer, and however late: as long
\* as taps on Confirm do not overlap, what runs is what the card said, and a user
\* runs at most one strategy per cooldown.
THEOREM BotHolds == BotSpec => []BotSound
BY BotInitially, BotStep, BotStutters, BotImplies, PTL DEF BotSpec

-----------------------------------------------------------------------------
(* The control plane *)

PartsInv == SInv /\ AccessInv /\ LimiterInv /\ FlattenInv /\ LinkInv /\ BotInv

\* A step of the control plane is one of every part, or leaves the part alone.
LEMMA PartSteps ==
  ASSUME [ControlPlaneNext]_<<vars, otherVars>>
  PROVE  /\ [Next]_vars
         /\ AccessNext \/ UNCHANGED aVars
         /\ LimiterNext \/ UNCHANGED rVars
         /\ FlattenNext \/ UNCHANGED fVars
         /\ LinkNext \/ UNCHANGED kVars
         /\ BotNext \/ UNCHANGED bVars
BY DEF ControlPlaneNext, otherVars

LEMMA PartsInitially == ControlPlaneInit => PartsInv
BY InitSInv, AccessInitially, LimiterInitially, FlattenInitially, LinkInitially, BotInitially
   DEF ControlPlaneInit, OthersRest, PartsInv

LEMMA PartsStep ==
  ASSUME PartsInv, [ControlPlaneNext]_<<vars, otherVars>>
  PROVE  PartsInv'
<1>1. SInv'
  BY PartSteps, NextSInv DEF PartsInv
<1>2. AccessInv'
  BY PartSteps, AccessStep, AccessStutters DEF PartsInv
<1>3. LimiterInv'
  BY PartSteps, LimiterStep, LimiterStutters DEF PartsInv
<1>4. FlattenInv'
  BY PartSteps, FlattenStep, FlattenStutters DEF PartsInv
<1>5. LinkInv'
  BY PartSteps, LinkStep, LinkStutters DEF PartsInv
<1>6. BotInv'
  BY PartSteps, BotStep, BotStutters DEF PartsInv
<1> QED BY <1>1, <1>2, <1>3, <1>4, <1>5, <1>6 DEF PartsInv

\* The inductive invariants of the supervisor, the registry, the limiter, the kill
\* route, the linking and the bot hold together: no step of one disturbs another's.
THEOREM PartsHold == ControlPlaneSpec => []PartsInv
BY PartsInitially, PartsStep, PTL DEF ControlPlaneSpec

\* In the whole control plane, a request reaches a tenant only as the limiter's
\* window and unique, current registry rows allow, for any number of requests,
\* limiter keys and limits.
THEOREM RequestsHold == ControlPlaneSpec => []RequestsGuarded
<1>1. PartsInv => RequestsGuarded
  BY AccessImplies, LimiterImplies DEF PartsInv, RequestsGuarded
<1> QED BY <1>1, PartsHold, PTL

\* And a chat reaches a tenant only as the linking and the /execute conversation
\* allow, for any number of tenants, chats, codes and users.
THEOREM ChatsHold == ControlPlaneSpec => []ChatsGuarded
<1>1. PartsInv => ChatsGuarded
  BY LinkImplies, BotImplies DEF PartsInv, ChatsGuarded
<1> QED BY <1>1, PartsHold, PTL

\* The config files with decrypted keys are accounted for beside the other parts too.
THEOREM KeysHold == ControlPlaneSpec => []KeysOnDisk
<1>1. PartsInv => KeysOnDisk
  BY DEF PartsInv, SInv, IInv, MemoryOK
<1> QED BY <1>1, PartsHold, PTL

\* The kill route flattens without opening, growing or turning a position, beside
\* the other parts too.
THEOREM KillRouteHolds == ControlPlaneSpec => KillFlattens
<1>1. PartsInv /\ [ControlPlaneNext]_<<vars, otherVars>> => [OnlyReduces]_fVars
  BY PartSteps, FlattenReduces DEF PartsInv
<1>2. ControlPlaneSpec => [][OnlyReduces]_fVars
  BY <1>1, PartsHold, PTL DEF ControlPlaneSpec
<1>3. PartsInv => KilledIsFlat
  BY FlattenImplies DEF PartsInv
<1>4. ControlPlaneSpec => []KilledIsFlat
  BY <1>3, PartsHold, PTL
<1> QED BY <1>2, <1>4 DEF KillFlattens, KillOnlyReduces, OnlyReduces

\* And so do the promises about a tenant's worker process.
THEOREM WorkersHoldThere == ControlPlaneSpec => WorkersSound
<1>1. PartsInv /\ [ControlPlaneNext]_<<vars, otherVars>> => [VerdictKept]_vars
  BY PartSteps, NextSInv DEF PartsInv
<1>2. ControlPlaneSpec => [][VerdictKept]_vars
  BY <1>1, PartsHold, PTL DEF ControlPlaneSpec
<1>3. PartsInv => TypeOK /\ OneProcessSerially /\ HaltedStaysStopped
  BY SInvImplies DEF PartsInv
<1>4. ControlPlaneSpec => [](TypeOK /\ OneProcessSerially /\ HaltedStaysStopped)
  BY <1>3, PartsHold, PTL
<1> QED BY <1>2, <1>4 DEF WorkersSound, VerdictStands, VerdictKept
=============================================================================
