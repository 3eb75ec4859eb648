----------------------------- MODULE Supervisor -----------------------------
(***************************************************************************)
(* The worker supervisor (supervisor.py) of one tenant, driven by the      *)
(* concurrent API handlers of api/routes_worker.py and routes_exchange.py  *)
(* and by the sweep loop of api/app.py.                                    *)
(*                                                                         *)
(* Handlers are coroutines of one event loop: what happens between two     *)
(* awaits is one step here.  stop() awaits nothing and is a single step;   *)
(* ensure() awaits the sweep it starts with and three registry queries.    *)
(* Other tenants have records of their own and share only the sweep: it    *)
(* may suspend in their queries before or after it reaches this tenant,    *)
(* and an error of theirs ends it early (SweepAborted).                    *)
(***************************************************************************)
EXTENDS Naturals

CONSTANTS
  Handlers,     \* API requests that can be in progress at the same time
  Loop,         \* the sweep loop's task
  MaxRestarts,  \* max_restarts: crashes tolerated inside the window
  MaxFaults,    \* bound: failing database queries and spawns
  MaxReboots    \* bound: restarts of the control plane

ASSUME LoopAssumption == Loop \notin Handlers
ASSUME BoundsAssumption == MaxRestarts \in Nat /\ MaxFaults \in Nat /\ MaxReboots \in Nat

Tasks == Handlers \cup {Loop}

VARIABLES
  w,        \* WorkerInfo: state, config_path set, crashes in the window, _process
  file,     \* the rendered config file, with decrypted keys, is on disk
  orphan,   \* some live worker process of the tenant is not w's _process
  status,   \* registry: tenant.status
  creds,    \* registry: active exchange credentials exist
  op,       \* the request each task serves
  at,       \* the await each task is suspended in
  ackHalt,  \* history: /kill has answered and no /resume came since
  faults,   \* faults left
  reboots,  \* control-plane restarts left
  serial    \* environment, fixed: requests and sweeps never overlap

registry == <<status, creds>>
vars == <<w, file, orphan, status, creds, op, at, ackHalt, faults, reboots, serial>>

Absent == [state |-> "absent", path |-> FALSE, crashes |-> 0, proc |-> "none"]

Init ==
  /\ w = Absent /\ file = FALSE /\ orphan = FALSE
  /\ status = "active" /\ creds = FALSE
  /\ op = [k \in Tasks |-> "none"]
  /\ at = [k \in Tasks |-> "idle"]
  /\ ackHalt = FALSE
  /\ faults = MaxFaults /\ reboots = MaxReboots
  /\ serial \in BOOLEAN

-----------------------------------------------------------------------------
(* WorkerInfo *)

\* Number of recorded crashes once one more is added and those older than the
\* window are dropped; beyond MaxRestarts the count no longer matters.
CrashCounts(n) == 1 .. (IF n > MaxRestarts THEN n ELSE n + 1)

\* _poll: a process that exited while "running" is reaped.
\* Mutant: config_path is forgotten along with the process.
PollForgettingPath(i) ==
  IF i.state = "running" /\ i.proc = "dead"
    THEN {[state   |-> IF n > MaxRestarts THEN "failed" ELSE "stopped",
           path    |-> FALSE, crashes |-> n, proc |-> "none"] :
          n \in CrashCounts(i.crashes)}
    ELSE {i}
Poll(i) ==
  IF i.state = "running" /\ i.proc = "dead"
    THEN {[state   |-> IF n > MaxRestarts THEN "failed" ELSE "stopped",
           path    |-> i.path, crashes |-> n, proc |-> "none"] :
          n \in CrashCounts(i.crashes)}
    ELSE {i}

\* The config file after _poll turned i into j: reaping removes it.
\* Mutant: only stop() removes it.
FileKept(i, j) == file
FileAfterPoll(i, j) == file /\ (i = j \/ ~i.path)

\* stop(): poll, terminate the tracked process, drop the config file.  A worker
\* the supervisor does not know is only recorded.
Stopped(i) == [i EXCEPT !.proc = "none", !.path = FALSE,
                        !.state = IF @ = "running" THEN "stopped" ELSE @]
Stop ==
  IF w.state = "absent"
    THEN /\ w' = [w EXCEPT !.state = "stopped"]
         /\ UNCHANGED <<file, orphan>>
    ELSE \E i \in Poll(w) :
           /\ w' = Stopped(i)
           /\ file' = (FileAfterPoll(w, i) /\ ~i.path)
           /\ UNCHANGED orphan

\* Write the config file and _spawn.  Popen may fail; a process still tracked
\* from before is overwritten.
Spawn ==
  \/ /\ w' = [w EXCEPT !.state = "running", !.path = TRUE, !.proc = "alive"]
     /\ file' = TRUE
     /\ orphan' = (orphan \/ w.proc = "alive")
     /\ UNCHANGED faults
  \/ /\ faults > 0 /\ faults' = faults - 1
     /\ w' = [w EXCEPT !.state = "failed", !.path = TRUE]
     /\ file' = TRUE
     /\ UNCHANGED orphan

-----------------------------------------------------------------------------
(* Control of a task *)

Goto(k, point) == at' = [at EXCEPT ![k] = point] /\ UNCHANGED op
Finish(k) == at' = [at EXCEPT ![k] = "idle"] /\ op' = [op EXCEPT ![k] = "none"]

\* Points of an ensure() the sweep called; the others belong to an ensure()
\* a handler called.
Nested == {"nested", "n_tenant", "n_creds", "n_config", "n_refused"}

\* Where a task goes when the sweep has dealt with this tenant.
SweepDone(k) == IF op[k] = "sweep" THEN Finish(k) ELSE Goto(k, "own")
EnsureDone(k) == IF at[k] \in Nested THEN SweepDone(k) ELSE Finish(k)

\* An idle task may start, alone when requests are serialised.
CanStart(k) == /\ at[k] = "idle"
               /\ serial => \A m \in Tasks : at[m] = "idle"

Begin(k, request, point) ==
  /\ CanStart(k)
  /\ op' = [op EXCEPT ![k] = request]
  /\ at' = [at EXCEPT ![k] = point]

-----------------------------------------------------------------------------
(* API handlers *)

\* POST /exchange/connect: refused for a halted tenant; then the credentials
\* are verified and stored, and the worker is ensured.
Connect(k) ==
  /\ status = "active"
  /\ Begin(k, "connect", "store")
  /\ UNCHANGED <<w, file, orphan, registry, ackHalt, faults, reboots, serial>>
StoreCredentials(k) ==
  /\ at[k] = "store"
  /\ creds' = TRUE
  /\ Goto(k, "sweep")
  /\ UNCHANGED <<w, file, orphan, status, ackHalt, faults, reboots, serial>>

\* DELETE /exchange/disconnect: delete the credentials, audit, stop.
Disconnect(k) ==
  /\ Begin(k, "disconnect", "audit")
  /\ creds' = FALSE
  /\ UNCHANGED <<w, file, orphan, status, ackHalt, faults, reboots, serial>>
DisconnectStop(k) ==
  /\ at[k] = "audit"
  /\ Stop /\ Finish(k)
  /\ UNCHANGED <<registry, ackHalt, faults, reboots, serial>>

\* POST /worker/kill: flatten the account, stop, halt the tenant, answer.
Kill(k) ==
  /\ Begin(k, "kill", "flatten")
  /\ UNCHANGED <<w, file, orphan, registry, ackHalt, faults, reboots, serial>>
KillStop(k) ==
  /\ at[k] = "flatten"
  /\ Stop /\ Goto(k, "halt")
  /\ UNCHANGED <<registry, ackHalt, faults, reboots, serial>>
KillHalt(k) ==
  /\ at[k] = "halt"
  /\ status' = "halted"
  /\ ackHalt' = (\A m \in Tasks : op[m] # "resume")
  /\ Finish(k)
  /\ UNCHANGED <<w, file, orphan, creds, faults, reboots, serial>>

\* POST /worker/resume: un-halt, then ensure when credentials exist.
Resume(k) ==
  /\ Begin(k, "resume", "unhalt")
  /\ ackHalt' = FALSE
  /\ UNCHANGED <<w, file, orphan, registry, faults, reboots, serial>>
Unhalt(k) ==
  /\ at[k] = "unhalt"
  /\ status' = "active"
  /\ Goto(k, "credcheck")
  /\ UNCHANGED <<w, file, orphan, creds, ackHalt, faults, reboots, serial>>
ResumeEnsure(k) ==
  /\ at[k] = "credcheck"
  /\ IF creds THEN Goto(k, "sweep") ELSE Finish(k)
  /\ UNCHANGED <<w, file, orphan, registry, ackHalt, faults, reboots, serial>>

\* POST /worker/restart: stop, then ensure.
Restart(k) ==
  /\ Begin(k, "restart", "sweep")
  /\ Stop
  /\ UNCHANGED <<registry, ackHalt, faults, reboots, serial>>

\* GET /worker/status and /exchange/status poll.
Status ==
  /\ \E i \in Poll(w) : w' = i /\ file' = FileAfterPoll(w, i)
  /\ UNCHANGED <<orphan, registry, op, at, ackHalt, faults, reboots, serial>>

\* A handler whose own query fails, or whose credentials are refused by the
\* exchange, answers with an error.
HandlerFails(k) ==
  /\ at[k] \in {"store", "halt", "unhalt", "credcheck"}
  /\ faults > 0 /\ faults' = faults - 1
  /\ Finish(k)
  /\ UNCHANGED <<w, file, orphan, registry, ackHalt, reboots, serial>>

-----------------------------------------------------------------------------
(* sweep() and ensure() *)

\* The sweep loop wakes up.
SweepLoop ==
  /\ Begin(Loop, "sweep", "sweep")
  /\ UNCHANGED <<w, file, orphan, registry, ackHalt, faults, reboots, serial>>

\* Whether the sweep restarts the polled worker: an unexpected exit.
NeedsRestart(i) == i.state = "stopped" /\ i.path

\* The sweep reaches this tenant.
SweepTenant(k) ==
  /\ at[k] = "sweep"
  /\ \E i \in Poll(w) :
       /\ w' = i /\ file' = FileAfterPoll(w, i)
       /\ IF NeedsRestart(i) THEN Goto(k, "lookup") ELSE SweepDone(k)
  /\ UNCHANGED <<orphan, registry, ackHalt, faults, reboots, serial>>

\* Another tenant's error ends the sweep early; ensure() goes on without it.
SweepAborted(k) ==
  /\ at[k] = "sweep"
  /\ faults > 0 /\ faults' = faults - 1
  /\ SweepDone(k)
  /\ UNCHANGED <<w, file, orphan, registry, ackHalt, reboots, serial>>

\* The sweep reads the tenant's status: a halted one is not restarted, a failed
\* query counts as no tenant and leaves the check to ensure().
SweepLookup(k) ==
  /\ at[k] = "lookup"
  /\ \/ status = "active" /\ Goto(k, "nested") /\ UNCHANGED faults
     \/ status # "active" /\ SweepDone(k) /\ UNCHANGED faults
     \/ faults > 0 /\ faults' = faults - 1 /\ Goto(k, "nested")
  /\ UNCHANGED <<w, file, orphan, registry, ackHalt, reboots, serial>>

\* What ensure() makes of the polled record before it builds the config: an
\* unknown worker gets a record, a crash-loop verdict is cleared.
Prepared(i) ==
  IF i.state = "absent" THEN [i EXCEPT !.state = "stopped"]
  ELSE IF i.state = "failed" THEN [i EXCEPT !.state = "stopped", !.crashes = 0]
  ELSE i

\* Whether ensure() has nothing to do.
AlreadyRunning(i) == i.state = "running"

EnsureEntry(k) ==
  /\ at[k] \in {"own", "nested"}
  /\ \E i \in Poll(w) :
       /\ file' = FileAfterPoll(w, i)
       /\ IF AlreadyRunning(i)
            THEN w' = i /\ EnsureDone(k)
            ELSE /\ w' = Prepared(i)
                 /\ Goto(k, IF at[k] = "own" THEN "tenant" ELSE "n_tenant")
  /\ UNCHANGED <<orphan, registry, ackHalt, faults, reboots, serial>>

\* build_worker_config, three queries: the tenant must be active and have
\* credentials; its config row only supplies values.
\* Mutant: the tenant's status is not looked at.
AnyTenant == TRUE
TenantActive == status = "active"
BuildTenant(k) ==
  /\ at[k] \in {"tenant", "n_tenant"}
  /\ IF at[k] = "tenant" THEN Goto(k, IF TenantActive THEN "creds" ELSE "refused")
                         ELSE Goto(k, IF TenantActive THEN "n_creds" ELSE "n_refused")
  /\ UNCHANGED <<w, file, orphan, registry, ackHalt, faults, reboots, serial>>
BuildCreds(k) ==
  /\ at[k] \in {"creds", "n_creds"}
  /\ IF at[k] = "creds" THEN Goto(k, IF creds THEN "config" ELSE "refused")
                        ELSE Goto(k, IF creds THEN "n_config" ELSE "n_refused")
  /\ UNCHANGED <<w, file, orphan, registry, ackHalt, faults, reboots, serial>>

\* WorkerConfigError: the worker is marked failed.
BuildRefused(k) ==
  /\ at[k] \in {"refused", "n_refused"}
  /\ w' = [w EXCEPT !.state = "failed"]
  /\ EnsureDone(k)
  /\ UNCHANGED <<file, orphan, registry, ackHalt, faults, reboots, serial>>

\* The config is built: write it and start the worker.
EnsureSpawn(k) ==
  /\ at[k] \in {"config", "n_config"}
  /\ Spawn
  /\ EnsureDone(k)
  /\ UNCHANGED <<registry, ackHalt, reboots, serial>>

\* Any other error of a query leaves ensure(): out of the handler or the loop,
\* or into the handler's own ensure(), which ignores a failed sweep.
EnsureFails(k) ==
  /\ at[k] \in {"tenant", "n_tenant", "creds", "n_creds", "config", "n_config"}
  /\ faults > 0 /\ faults' = faults - 1
  /\ EnsureDone(k)
  /\ UNCHANGED <<w, file, orphan, registry, ackHalt, reboots, serial>>

-----------------------------------------------------------------------------
(* Environment *)

\* Worker processes exit on their own.
WorkerExits ==
  /\ w.proc = "alive"
  /\ w' = [w EXCEPT !.proc = "dead"]
  /\ UNCHANGED <<file, orphan, registry, op, at, ackHalt, faults, reboots, serial>>
OrphanExits ==
  /\ orphan /\ orphan' \in BOOLEAN
  /\ UNCHANGED <<w, file, registry, op, at, ackHalt, faults, reboots, serial>>

\* The control plane restarts: its memory is lost, the registry and the files
\* stay, the workers survive it or are taken down with it.
Reboot ==
  /\ reboots > 0 /\ reboots' = reboots - 1
  /\ w' = Absent
  /\ orphan' \in {FALSE, orphan \/ w.proc = "alive"}
  /\ op' = [k \in Tasks |-> "none"]
  /\ at' = [k \in Tasks |-> "idle"]
  /\ UNCHANGED <<file, registry, ackHalt, faults, serial>>

-----------------------------------------------------------------------------
Request(k) == Connect(k) \/ Disconnect(k) \/ Kill(k) \/ Resume(k) \/ Restart(k)

\* The next step of a task that is in progress.
Step(k) == \/ StoreCredentials(k) \/ DisconnectStop(k) \/ KillStop(k) \/ KillHalt(k)
           \/ Unhalt(k) \/ ResumeEnsure(k) \/ HandlerFails(k)
           \/ SweepTenant(k) \/ SweepAborted(k) \/ SweepLookup(k)
           \/ EnsureEntry(k) \/ BuildTenant(k) \/ BuildCreds(k)
           \/ BuildRefused(k) \/ EnsureSpawn(k) \/ EnsureFails(k)

Next == \/ \E k \in Handlers : Request(k)
        \/ \E k \in Tasks : Step(k)
        \/ SweepLoop \/ Status \/ WorkerExits \/ OrphanExits \/ Reboot

\* The event loop runs every coroutine whose await has ended, queries end, and
\* the sweep loop wakes up every 60 seconds.  Nobody has to send a request.
Fairness == /\ \A k \in Tasks : WF_vars(Step(k))
            /\ WF_vars(SweepLoop)

Spec == Init /\ [][Next]_vars /\ Fairness

-----------------------------------------------------------------------------
(* Properties *)

Points == {"idle", "store", "audit", "flatten", "halt", "unhalt", "credcheck",
           "sweep", "lookup", "own", "tenant", "creds", "config", "refused"} \cup Nested
Requests == {"none", "connect", "disconnect", "kill", "resume", "restart", "sweep"}
WorkerInfos == [state : {"absent", "running", "stopped", "failed"}, path : BOOLEAN,
                crashes : 0 .. MaxRestarts + 1, proc : {"none", "alive", "dead"}]

\* Types, and that a record in state "running" tracks a process.
TypeOK ==
  /\ w \in WorkerInfos
  /\ w.state = "running" => w.proc # "none" /\ w.path
  /\ file \in BOOLEAN /\ orphan \in BOOLEAN
  /\ status \in {"active", "halted"} /\ creds \in BOOLEAN
  /\ op \in [Tasks -> Requests] /\ at \in [Tasks -> Points]
  /\ ackHalt \in BOOLEAN
  /\ faults \in 0 .. MaxFaults /\ reboots \in 0 .. MaxReboots
  /\ serial \in BOOLEAN

\* Decrypted keys do not linger: within one life of the control plane, a config
\* file on disk is one the supervisor still remembers (so the next stop() removes
\* it), and never that of a crashed or stopped worker.  A "stopped" record with
\* a file is one whose failure an ensure() has just cleared.
\* (supervisor.py: "Crash path must also drop the rendered config FILE".)
KeysOnDisk == file /\ reboots = MaxReboots
                => w.path /\ (w.state = "stopped" => w.crashes = 0)

\* A crashed worker is brought back by the sweep loop, unless the crash-loop
\* guard, a refused config, the registry or an operator's request is against it,
\* or the control plane itself restarts and forgets it.
CrashedWorkerHandled ==
  w.state = "running" /\ w.proc = "dead"
    ~> \/ w.proc = "alive" \/ w.state \in {"failed", "absent"}
       \/ status # "active" \/ ~creds
       \/ \E k \in Handlers : op[k] \in {"kill", "restart", "disconnect"}

\* supervisor.py: "One OS process per active tenant".  Two ensure() that overlap
\* break it.
OneProcessPerTenant == ~(orphan /\ w.proc = "alive")

\* It holds, as the promises below do, when requests and sweeps come one after the
\* other, within one life of the control plane.
Serially == serial /\ reboots = MaxReboots

\* A tenant never has two worker processes, whatever crashes, fails or is
\* requested in whatever order.
OneProcessSerially == Serially => OneProcessPerTenant

\* routes_worker.py, worker_kill: "a crashed-loop restart or stray ensure cannot
\* revive trading until an explicit /resume".  After the answer of /kill no
\* worker process lives until /resume is called.
HaltedStaysStopped == Serially /\ ackHalt => w.proc # "alive" /\ ~orphan

\* supervisor.py: crashes beyond the budget mark "the worker failed until the
\* next explicit ensure".
VerdictStands ==
  [][Serially' /\ w.state = "failed" /\ w.crashes > MaxRestarts /\ w'.state # "failed"
       => \E k \in Handlers : at[k] = "own" /\ at'[k] # "own"]_vars

\* What the supervisor promises of one tenant's process, together.
WorkersSound == [](TypeOK /\ OneProcessSerially /\ HaltedStaysStopped) /\ VerdictStands
=============================================================================
