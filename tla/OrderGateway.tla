---------------------------- MODULE OrderGateway ----------------------------
(***************************************************************************)
(* Order submission: OrderGateway.submit (execution/gateway.py), the REST  *)
(* retry loop under it (BybitAdapter._request, exchange/bybit.py) and the  *)
(* exchange the POST reaches (external).                                   *)
(*                                                                         *)
(* A call c owns one client order id.  One POST may be acknowledged, be    *)
(* refused, or fail on the client side with its effect unknown: the order  *)
(* may be on the exchange already, may still arrive later, or may never.   *)
(*                                                                         *)
(* cancel(), get_status() and refresh_state() of the gateway act only on   *)
(* _active_orders, which is empty whenever control is at an await (theorem *)
(* NeverTracked of ExchangeProofs): each takes its "not found" path, so    *)
(* they are no actions here.                                               *)
(***************************************************************************)
EXTENDS Naturals, Sequences

CONSTANTS Calls,            \* submit() calls, each with its client_order_id
          MaxRestAttempts,  \* _MAX_REST_ATTEMPTS of the adapter
          MaxRetries,       \* exchange.gateway.max_retries
          CompletedMax      \* exchange.gateway.completed_ids_maxlen

ASSUME RestAttemptsAssumption == MaxRestAttempts \in Nat \ {0}
ASSUME RetriesAssumption      == MaxRetries \in Nat \ {0}
ASSUME CompletedAssumption    == CompletedMax \in Nat \ {0}

VARIABLES
  pc,         \* progress of each call through submit()
  tries,      \* attempt number of the gateway's own retry_async loop
  posts,      \* attempt number of the adapter's retry_async loop
  request,    \* the OrderRequest handed to place_order
  pending,    \* _pending_confirmations: calls with a registered event
  active,     \* _active_orders: calls tracked as active
  completed,  \* _completed_ids: ring buffer of finished calls
  outcome,    \* what submit() returned or raised
  book,       \* exchange side: status of the order under each orderLinkId
  inflight    \* exchange side: link ids of POSTs that may still arrive

gatewayVars == <<pc, tries, posts, request, pending, active, completed, outcome>>
vars == <<pc, tries, posts, request, pending, active, completed, outcome,
          book, inflight>>

-----------------------------------------------------------------------------
(* Statuses and errors *)

Live     == {"NEW", "PARTIALLY_FILLED"}
Terminal == {"FILLED", "CANCELLED", "REJECTED", "EXPIRED"}

\* Statuses an accepted order can have when the exchange creates it.
Created == {"NEW", "PARTIALLY_FILLED", "FILLED", "CANCELLED"}

\* How one POST can fail.  The exchange refused it (a non-zero retCode, a
\* duplicate orderLinkId among them), rate-limited it, or the client lost the
\* answer: a timeout, or a connection reset.
Failures  == {"refused", "rate_limit", "timeout", "reset"}
Ambiguous == {"timeout", "reset"}

\* BybitAdapter._is_retryable: rate limits by type, timeouts by their text.
RestRetryable(failure) == failure \in {"rate_limit", "timeout"}

\* BybitAdapter._normalize_error: every error becomes an ExchangeError.
NormalizeError(failure) ==
  IF failure = "rate_limit" THEN "ExchangeRateLimitError" ELSE "ExchangeError"

\* retry_async: whether attempt n of limit is followed by another.
AttemptsLeft(n, limit) == n < limit

\* The gateway retries only the built-in exceptions.
GatewayRetryable(error) == error \in {"TimeoutError", "ConnectionError"}

\* _normalize_order_status(data.get("orderStatus", "Created")): a create
\* response without a status counts as NEW.
\* Mutant: an acknowledged market order counts as filled.
AckOptimistic(status, carried) == IF carried THEN status ELSE "FILLED"
AckStatus(status, carried) == IF carried THEN status ELSE "NEW"

\* The orderLinkId of call c's n-th POST: chosen once per call, so a repeated
\* POST carries the same id.  A link is a call and a discriminator.
\* Mutant: a fresh id for every POST.
LinkIdPerPost(c, n) == <<c, n>>
LinkId(c, n) == <<c, 0>>

\* The link ids the exchange could be sent.
Links == Calls \X (0 .. MaxRestAttempts)

\* Requests as the engine builds them and as submit() rebuilds them: the copy
\* does not carry take_profit_price and stop_loss_price over.
Requests == [entry : BOOLEAN, brackets : BOOLEAN]
Rebuild(r) == [r EXCEPT !.brackets = FALSE]

-----------------------------------------------------------------------------
Init ==
  /\ pc        = [c \in Calls |-> "idle"]
  /\ tries     = [c \in Calls |-> 0]
  /\ posts     = [c \in Calls |-> 0]
  /\ request   = [c \in Calls |-> [entry |-> FALSE, brackets |-> FALSE]]
  /\ pending   = {}
  /\ active    = {}
  /\ completed = <<>>
  /\ outcome   = [c \in Calls |-> "none"]
  /\ book      = [l \in Links |-> "none"]
  /\ inflight  = {}

-----------------------------------------------------------------------------
(* submit() *)

\* Client id, request copy and confirmation event; then the first POST.
Submit(c, r) ==
  /\ pc[c] = "idle"
  /\ pc'      = [pc EXCEPT ![c] = "posting"]
  /\ tries'   = [tries EXCEPT ![c] = 1]
  /\ posts'   = [posts EXCEPT ![c] = 1]
  /\ request' = [request EXCEPT ![c] = Rebuild(r)]
  /\ pending' = pending \cup {c}
  /\ UNCHANGED <<active, completed, outcome, book, inflight>>

\* deque(maxlen=CompletedMax).append
AppendBounded(seq, x) ==
  LET longer == Append(seq, x)
  IN  IF Len(longer) > CompletedMax THEN Tail(longer) ELSE longer

\* submit() ends: the event is popped and the outcome handed to the caller.
\* Mutant: the event stays registered.
ReturnKeepingEvent(c, result) ==
  /\ pc'      = [pc EXCEPT ![c] = "done"]
  /\ outcome' = [outcome EXCEPT ![c] = result]
  /\ UNCHANGED pending
Return(c, result) ==
  /\ pc'      = [pc EXCEPT ![c] = "done"]
  /\ outcome' = [outcome EXCEPT ![c] = result]
  /\ pending' = pending \ {c}

\* Step 5 of submit(): track the order, and resolve it at once when terminal
\* (_move_to_completed).
Track(c, status) ==
  IF status \in Terminal
    THEN /\ active'    = active \ {c}
         /\ completed' = AppendBounded(completed, c)
    ELSE /\ active'    = active \cup {c}
         /\ UNCHANGED completed

\* The POST creates the order and its answer arrives.  A terminal status is
\* the confirmation; any other waits for an event nobody else sets.
PostAcknowledged(c) ==
  LET link == LinkId(c, posts[c]) IN
  /\ pc[c] = "posting"
  /\ book[link] = "none"
  /\ \E status \in Created, carried \in BOOLEAN :
       LET ack == AckStatus(status, carried) IN
       /\ book' = [book EXCEPT ![link] = status]
       /\ IF ack \in Terminal
            THEN Return(c, ack) /\ Track(c, ack)
            ELSE /\ pc' = [pc EXCEPT ![c] = "waiting"]
                 /\ UNCHANGED <<outcome, pending, active, completed>>
  /\ UNCHANGED <<tries, posts, request, inflight>>

\* What became of a failed POST on the exchange.
FailedPostEffect(link, failure) ==
  \/ UNCHANGED <<book, inflight>>
  \/ /\ failure \in Ambiguous /\ book[link] = "none"
     /\ \E status \in Created : book' = [book EXCEPT ![link] = status]
     /\ UNCHANGED inflight
  \/ /\ failure \in Ambiguous
     /\ inflight' = inflight \cup {link}
     /\ UNCHANGED book

\* A failed POST: the adapter's loop repeats it, or gives the normalised
\* error to the gateway's loop, which repeats place_order or rejects.
PostFailed(c) ==
  /\ pc[c] = "posting"
  /\ \E failure \in Failures :
       /\ FailedPostEffect(LinkId(c, posts[c]), failure)
       /\ IF RestRetryable(failure) /\ AttemptsLeft(posts[c], MaxRestAttempts)
            THEN /\ posts' = [posts EXCEPT ![c] = @ + 1]
                 /\ UNCHANGED <<pc, tries, pending, outcome>>
            ELSE IF /\ GatewayRetryable(NormalizeError(failure))
                    /\ AttemptsLeft(tries[c], MaxRetries)
              THEN /\ tries' = [tries EXCEPT ![c] = @ + 1]
                   /\ posts' = [posts EXCEPT ![c] = 1]
                   /\ UNCHANGED <<pc, pending, outcome>>
              ELSE Return(c, "rejected") /\ UNCHANGED <<tries, posts>>
  /\ UNCHANGED <<request, active, completed>>

\* asyncio.wait_for(event.wait(), confirmation_timeout) expires.
\* Mutant: event.wait() without a timeout, so only a set event ends the wait.
WaitWithoutTimeout(c) ==
  /\ pc[c] = "waiting" /\ outcome[c] \in Terminal
  /\ Return(c, "timeout")
  /\ UNCHANGED <<tries, posts, request, active, completed, book, inflight>>
ConfirmationTimeout(c) ==
  /\ pc[c] = "waiting"
  /\ Return(c, "timeout")
  /\ UNCHANGED <<tries, posts, request, active, completed, book, inflight>>

-----------------------------------------------------------------------------
(* The exchange (external) *)

\* A POST whose sender gave up arrives, and is deduplicated by its link id.
DelayedArrival(l) ==
  /\ l \in inflight
  /\ inflight' = inflight \ {l}
  /\ \/ /\ book[l] = "none"
        /\ \E status \in Created : book' = [book EXCEPT ![l] = status]
     \/ book[l] # "none" /\ UNCHANGED book
  /\ UNCHANGED gatewayVars

\* A live order is filled, in part or whole, or ends unfilled.
OrderMoves(l) ==
  /\ book[l] \in Live
  /\ \E status \in {"PARTIALLY_FILLED", "FILLED", "CANCELLED", "EXPIRED"} :
       book' = [book EXCEPT ![l] = status]
  /\ UNCHANGED <<gatewayVars, inflight>>

-----------------------------------------------------------------------------
GatewayStep(c) == PostAcknowledged(c) \/ PostFailed(c) \/ ConfirmationTimeout(c)

Next ==
  \/ \E c \in Calls : \/ \E r \in Requests : Submit(c, r)
                      \/ GatewayStep(c)
  \/ \E l \in Links : DelayedArrival(l) \/ OrderMoves(l)

\* Every await of submit() ends: the HTTP client and wait_for have timeouts.
Fairness == \A c \in Calls : WF_vars(GatewayStep(c))

Spec == Init /\ [][Next]_vars /\ Fairness

-----------------------------------------------------------------------------
(* Properties *)

Statuses == Live \cup Terminal

TypeOK ==
  /\ pc \in [Calls -> {"idle", "posting", "waiting", "done"}]
  /\ tries \in [Calls -> 0 .. MaxRetries]
  /\ posts \in [Calls -> 0 .. MaxRestAttempts]
  /\ request \in [Calls -> Requests]
  /\ pending \in SUBSET Calls
  /\ active \in SUBSET Calls
  /\ completed \in Seq(Calls)
  /\ outcome \in [Calls -> {"none", "rejected", "timeout"} \cup Terminal]
  /\ book \in [Links -> {"none"} \cup Statuses]
  /\ inflight \in SUBSET Links

\* Idempotency of the retry: however many POSTs of one call are lost, delayed
\* or repeated, the exchange creates at most one order for it
\* (gateway.py submit, "Idempotency key").
AtMostOneOrder ==
  \A c \in Calls : \A l, m \in Links :
    l[1] = c /\ m[1] = c /\ book[l] # "none" /\ book[m] # "none" => l = m

\* No confirmation event outlives its call: _pending_confirmations holds
\* exactly the calls still inside submit(), on every path out of it.
NoLeakedConfirmation ==
  pending = {c \in Calls : pc[c] \in {"posting", "waiting"}}

\* A call that reports a terminal status reports the truth: its order exists
\* and has that status, also when earlier POSTs of the call were lost.
AnswerMatchesExchange ==
  \A c \in Calls : outcome[c] \in Terminal => book[LinkId(c, 1)] = outcome[c]

\* No order is tracked while control is at an await: non-terminal orders are
\* never entered in _active_orders and terminal ones leave it at once.  The
\* reconciliation loop, cancel() and refresh_state() have nothing to act on.
NothingTracked == active = {}

\* The ring buffer of finished ids stays bounded, and only calls that ended
\* in a terminal status enter it.
CompletedAreFinished ==
  /\ Len(completed) <= CompletedMax
  /\ \A i \in 1 .. Len(completed) : outcome[completed[i]] \in Terminal

\* Every call that enters submit() leaves it, whatever the network does.
SubmitReturns == \A c \in Calls : pc[c] = "posting" ~> pc[c] = "done"

\* submit() implements at-most-once order placement.
Abstract == INSTANCE AtMostOnceOrder WITH
              order  <- [c \in Calls |-> book[LinkId(c, 1)]],
              answer <- outcome
AtMostOnce == Abstract!Spec

\* The gateway's own books: every path out of submit() leaves no event, no tracked
\* order and no unfinished id behind.
BookkeepingSound ==
  TypeOK /\ NoLeakedConfirmation /\ NothingTracked /\ CompletedAreFinished
=============================================================================
