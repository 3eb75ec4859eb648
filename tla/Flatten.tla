------------------------------- MODULE Flatten -------------------------------
(***************************************************************************)
(* The exchange side of POST /v1/worker/kill (api/flatten.py,              *)
(* flatten_account, and routes_worker.py, worker_kill): cancel every       *)
(* order, list the positions, close each one with a reduce-only market     *)
(* order, then stop the worker and halt the tenant.  The worker trades and *)
(* brackets fire until they are stopped; every call may fail, which is     *)
(* collected as a warning.  Positions are signed quantities.               *)
(***************************************************************************)
EXTENDS Integers

CONSTANTS
  Markets,    \* symbols of the account
  MaxSize     \* bound on the size of a position

ASSUME FlattenAssumption == MaxSize \in Nat

VARIABLES
  fAt,        \* "trading", "list", "close", "stop", "halt", "done"
  fPos,       \* the exchange: signed size of each position
  fOrders,    \* the exchange: symbols with a resting bracket
  fListed,    \* the position list the handler works on
  fLeft,      \* symbols it has not come to yet
  fWarned,    \* warnings were collected
  fWorker,    \* the worker process trades
  fMoved      \* history: the worker traded after the positions were listed

fVars == <<fAt, fPos, fOrders, fListed, fLeft, fWarned, fWorker, fMoved>>

Flat == [s \in Markets |-> 0]
Positions == [Markets -> -MaxSize .. MaxSize]

FlattenInit ==
  /\ fAt = "trading" /\ fPos = Flat /\ fOrders = {}
  /\ fListed = Flat /\ fLeft = {}
  /\ fWarned = FALSE /\ fWorker = TRUE /\ fMoved = FALSE

-----------------------------------------------------------------------------
(* The account meanwhile *)

\* The worker opens or adds to a position, with a bracket.
WorkerTrades(s, q) ==
  /\ fWorker
  /\ fPos' = [fPos EXCEPT ![s] = @ + q] /\ fPos' \in Positions
  /\ fOrders' = fOrders \cup {s}
  /\ fMoved' = (fMoved \/ fAt \notin {"trading", "list"})
  /\ UNCHANGED <<fAt, fListed, fLeft, fWarned, fWorker>>

BracketFires(s) ==
  /\ s \in fOrders
  /\ fPos' = [fPos EXCEPT ![s] = 0]
  /\ fOrders' = fOrders \ {s}
  /\ UNCHANGED <<fAt, fListed, fLeft, fWarned, fWorker, fMoved>>

-----------------------------------------------------------------------------
(* flatten_account *)

CancelAllOrders ==
  /\ fAt = "trading"
  /\ fAt' = "list"
  /\ \/ fOrders' = {} /\ UNCHANGED fWarned
     \/ fWarned' = TRUE /\ UNCHANGED fOrders
  /\ UNCHANGED <<fPos, fListed, fLeft, fWorker, fMoved>>

GetPositions ==
  /\ fAt = "list"
  /\ \/ /\ fListed' = fPos
        /\ fLeft' = {s \in Markets : fPos[s] # 0}
        /\ fAt' = "close"
        /\ UNCHANGED fWarned
     \/ /\ fWarned' = TRUE       \* flatten_account returns
        /\ fAt' = "stop"
        /\ UNCHANGED <<fListed, fLeft>>
  /\ UNCHANGED <<fPos, fOrders, fWorker, fMoved>>

Abs(n) == IF n < 0 THEN -n ELSE n
Sign(n) == IF n < 0 THEN -1 ELSE IF n > 0 THEN 1 ELSE 0
Smaller(m, n) == IF m < n THEN m ELSE n

\* What a market order of the given signed size leaves of a position.
\* Mutant: the order is not reduce-only.
MarketOrder(pos, order) == pos + order
ReduceOnly(pos, order) ==
  IF Sign(order) = -Sign(pos) THEN pos + Sign(order) * Smaller(Abs(order), Abs(pos)) ELSE pos

\* The order that closes a listed position.
CloseOrder(size) == -size

\* place_order is filled, or fails: a reduce-only order without a position to
\* reduce is refused by the exchange.
ClosePosition(s) ==
  /\ fAt = "close" /\ s \in fLeft
  /\ fLeft' = fLeft \ {s}
  /\ \/ /\ fPos' = [fPos EXCEPT ![s] = ReduceOnly(@, CloseOrder(fListed[s]))]
        /\ fWarned' = (fWarned \/ fPos' = fPos)
     \/ fWarned' = TRUE /\ UNCHANGED fPos
  /\ UNCHANGED <<fAt, fOrders, fListed, fWorker, fMoved>>

AllClosed ==
  /\ fAt = "close" /\ fLeft = {}
  /\ fAt' = "stop"
  /\ UNCHANGED <<fPos, fOrders, fListed, fLeft, fWarned, fWorker, fMoved>>

\* worker_kill goes on: sup.stop, then status = "halted" and the answer.
StopWorker ==
  /\ fAt = "stop"
  /\ fAt' = "halt"
  /\ fWorker' = FALSE
  /\ UNCHANGED <<fPos, fOrders, fListed, fLeft, fWarned, fMoved>>
HaltTenant ==
  /\ fAt = "halt"
  /\ fAt' = "done"
  /\ UNCHANGED <<fPos, fOrders, fListed, fLeft, fWarned, fWorker, fMoved>>

KillSteps == CancelAllOrders \/ GetPositions \/ AllClosed \/ StopWorker \/ HaltTenant
             \/ \E s \in Markets : ClosePosition(s)

FlattenNext ==
  \/ KillSteps
  \/ \E s \in Markets : BracketFires(s) \/ \E q \in {-1, 1} : WorkerTrades(s, q)

FlattenSpec == FlattenInit /\ [][FlattenNext]_fVars

-----------------------------------------------------------------------------
(* Properties *)

\* The list is old when its positions are closed: a bracket or the worker may have
\* closed, shrunk or turned one.  No step of the kill switch ever opens, grows or
\* turns a position (flatten_account: "reduceOnly").
KillOnlyReduces ==
  [][fAt # "trading" /\ fLeft' # fLeft /\ fAt' = fAt =>
       \A s \in Markets : fPos'[s] = fPos[s] \/ fPos'[s] \in 0 .. fPos[s] \/ fPos'[s] \in fPos[s] .. 0]_fVars

\* worker_kill without a warning leaves a flat account, brackets or not, unless
\* the worker, which is stopped last, traded after the positions were listed.
KilledIsFlat == fAt = "done" /\ ~fWarned /\ ~fMoved => fPos = Flat

\* The kill switch ends flat, and does no harm on the way.
KillFlattens == []KilledIsFlat /\ KillOnlyReduces
=============================================================================
