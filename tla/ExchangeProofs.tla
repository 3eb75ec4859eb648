--------------------------- MODULE ExchangeProofs ---------------------------
(***************************************************************************)
(* Proofs about the worker's channels to the exchange.                     *)
(*                                                                         *)
(* The way of an order: OrderGateway, for any number of calls, attempts    *)
(* and retries and any ring-buffer size, its refinement of                 *)
(* AtMostOnceOrder, and ExecutionEngine, execute() and the kill switch     *)
(* around the gateway.                                                     *)
(*                                                                         *)
(* Market data: the WebSocket connection, for any subscriptions and any    *)
(* number of calls and reconnects, and the caches, for any prices, buffer  *)
(* sizes and ages.                                                         *)
(***************************************************************************)
EXTENDS ExecutionEngine, MCExchange, SequenceTheorems, TLAPS

-----------------------------------------------------------------------------
(* OrderGateway *)

\* The parts of the inductive invariant that relate the caller's side to the
\* exchange's side.

\* A call that waits for confirmation has its order on the exchange.
WaitingHasLanded == \A c \in Calls : pc[c] = "waiting" => book[<<c, 0>>] # "none"

\* An outcome exists exactly when submit() has ended.
OutcomeWhenDone == \A c \in Calls : outcome[c] # "none" <=> pc[c] = "done"

\* A timeout is raised only for an order that landed.
TimeoutHasLanded == \A c \in Calls : outcome[c] = "timeout" => book[<<c, 0>>] # "none"

\* A terminal answer is the order's exchange status.
TerminalIsTrue == \A c \in Calls : outcome[c] \in Terminal => book[<<c, 0>>] = outcome[c]

\* The exchange has seen no other link id of a call than its own.
OwnLinkOnly == \A l \in Links : book[l] # "none" \/ l \in inflight => l[2] = 0

\* The inductive invariant.
IInv == /\ TypeOK
        /\ WaitingHasLanded
        /\ OutcomeWhenDone
        /\ TimeoutHasLanded
        /\ TerminalIsTrue
        /\ OwnLinkOnly
        /\ NoLeakedConfirmation
        /\ NothingTracked
        /\ CompletedAreFinished

-----------------------------------------------------------------------------
\* Every POST of a call carries the call's own link id.
LEMMA LinkFacts ==
  /\ \A c \in Calls : <<c, 0>> \in Links
  /\ \A c \in Calls, n \in Nat : LinkId(c, n) = <<c, 0>>
BY RestAttemptsAssumption DEF Links, LinkId

\* What appending to the ring buffer keeps: its bound and its element type,
\* and every element of the result was there before or is the new one.
LEMMA AppendBoundedFacts ==
  ASSUME NEW s \in Seq(Calls), NEW x \in Calls, Len(s) <= CompletedMax
  PROVE  /\ AppendBounded(s, x) \in Seq(Calls)
         /\ Len(AppendBounded(s, x)) <= CompletedMax
         /\ \A i \in 1 .. Len(AppendBounded(s, x)) :
              \/ AppendBounded(s, x)[i] = x
              \/ \E j \in 1 .. Len(s) : AppendBounded(s, x)[i] = s[j]
<1> DEFINE a == Append(s, x)
<1>1. /\ a \in Seq(Calls) /\ Len(a) = Len(s) + 1 /\ a # <<>>
      /\ \A i \in 1 .. Len(s) : a[i] = s[i]
      /\ a[Len(s) + 1] = x
  OBVIOUS
<1>2. /\ Tail(a) \in Seq(Calls) /\ Len(Tail(a)) = Len(s)
      /\ \A i \in 1 .. Len(s) : Tail(a)[i] = a[i + 1]
  BY <1>1
<1>3. CASE Len(a) > CompletedMax
  <2>1. AppendBounded(s, x) = Tail(a)
    BY <1>3 DEF AppendBounded
  <2>2. \A i \in 1 .. Len(s) : Tail(a)[i] = x \/ \E j \in 1 .. Len(s) : Tail(a)[i] = s[j]
    <3> SUFFICES ASSUME NEW i \in 1 .. Len(s)
                 PROVE  Tail(a)[i] = x \/ \E j \in 1 .. Len(s) : Tail(a)[i] = s[j]
      OBVIOUS
    <3>1. CASE i = Len(s)
      BY <3>1, <1>1, <1>2
    <3>2. CASE i # Len(s)
      <4>1. i + 1 \in 1 .. Len(s)
        BY <3>2
      <4> QED BY <4>1, <1>1, <1>2
    <3> QED BY <3>1, <3>2
  <2> QED BY <2>1, <2>2, <1>2
<1>4. CASE ~(Len(a) > CompletedMax)
  <2>1. AppendBounded(s, x) = a
    BY <1>4 DEF AppendBounded
  <2> QED BY <2>1, <1>1, <1>4, CompletedAssumption
<1> QED BY <1>3, <1>4

-----------------------------------------------------------------------------
(* Initial states and steps *)

LEMMA InitIInv == Init => IInv
<1> SUFFICES ASSUME Init PROVE IInv
  OBVIOUS
<1>1. TypeOK
  BY RetriesAssumption, RestAttemptsAssumption DEF Init, TypeOK, Requests
<1>2. CompletedAreFinished
  BY CompletedAssumption DEF Init, CompletedAreFinished
<1> QED
  BY <1>1, <1>2, LinkFacts DEF Init, IInv, WaitingHasLanded, OutcomeWhenDone,
     TimeoutHasLanded, TerminalIsTrue, OwnLinkOnly, NoLeakedConfirmation, NothingTracked,
     Terminal

\* Entering submit(): the request copy is well formed, the event is registered.
LEMMA SubmitStep ==
  ASSUME IInv, NEW c \in Calls, NEW r \in Requests, Submit(c, r)
  PROVE  IInv'
<1>1. Rebuild(r) \in Requests
  BY DEF Rebuild, Requests
<1>2. TypeOK'
  BY <1>1, RetriesAssumption, RestAttemptsAssumption DEF IInv, TypeOK, Submit
<1>3. NoLeakedConfirmation'
  BY DEF IInv, TypeOK, NoLeakedConfirmation, Submit
<1>4. CompletedAreFinished'
  BY DEF IInv, CompletedAreFinished, Submit
<1> QED
  BY <1>2, <1>3, <1>4 DEF IInv, TypeOK, WaitingHasLanded, OutcomeWhenDone,
     TimeoutHasLanded, TerminalIsTrue, OwnLinkOnly, NothingTracked, Submit

\* An acknowledged POST: the order lands, and a terminal status ends the call.
LEMMA AcknowledgedStep ==
  ASSUME IInv, NEW c \in Calls, PostAcknowledged(c)
  PROVE  IInv'
<1> DEFINE link == <<c, 0>>
<1>0. LinkId(c, posts[c]) = link /\ link \in Links
  BY LinkFacts DEF IInv, TypeOK
<1>1. PICK status \in Created, carried \in BOOLEAN :
        LET ack == AckStatus(status, carried) IN
        /\ book' = [book EXCEPT ![link] = status]
        /\ IF ack \in Terminal
             THEN Return(c, ack) /\ Track(c, ack)
             ELSE /\ pc' = [pc EXCEPT ![c] = "waiting"]
                  /\ UNCHANGED <<outcome, pending, active, completed>>
  BY <1>0 DEF PostAcknowledged
<1> DEFINE ack == AckStatus(status, carried)
<1>2. /\ pc[c] = "posting" /\ book[link] = "none" /\ outcome[c] = "none"
      /\ UNCHANGED <<tries, posts, request, inflight>>
      /\ book' = [book EXCEPT ![link] = status]
  BY <1>0, <1>1 DEF PostAcknowledged, IInv, OutcomeWhenDone
<1>3. status # "none" /\ status \in Statuses /\ ack \in Statuses /\ (ack \in Terminal => ack = status)
  BY DEF Created, Statuses, Live, Terminal, AckStatus
<1>4. /\ book'[<<c, 0>>] = status /\ status # "none"
      /\ \A d \in Calls : d # c => book'[<<d, 0>>] = book[<<d, 0>>]
  BY <1>0, <1>2, <1>3, LinkFacts DEF IInv, TypeOK
<1>5. OwnLinkOnly'
  BY <1>0, <1>2 DEF IInv, TypeOK, OwnLinkOnly
<1>6. CASE ack \in Terminal
  <2>1. /\ pc' = [pc EXCEPT ![c] = "done"]
        /\ outcome' = [outcome EXCEPT ![c] = ack]
        /\ pending' = pending \ {c}
        /\ active' = active \ {c}
        /\ completed' = AppendBounded(completed, c)
    BY <1>1, <1>6 DEF Return, Track
  <2>2. /\ completed' \in Seq(Calls)
        /\ Len(completed') <= CompletedMax
        /\ \A i \in 1 .. Len(completed') :
             completed'[i] = c \/ \E j \in 1 .. Len(completed) : completed'[i] = completed[j]
    BY <2>1, AppendBoundedFacts DEF IInv, TypeOK, CompletedAreFinished
  <2>3. TypeOK'
    BY <1>2, <1>3, <1>6, <2>1, <2>2, <1>0 DEF IInv, TypeOK
  <2>4. CompletedAreFinished'
    <3>1. \A i \in 1 .. Len(completed) :
            completed[i] \in Calls /\ outcome[completed[i]] \in Terminal
      BY DEF IInv, TypeOK, CompletedAreFinished
    <3>2. \A i \in 1 .. Len(completed') : outcome'[completed'[i]] \in Terminal
      BY <3>1, <2>1, <2>2, <1>6 DEF IInv, TypeOK
    <3> QED BY <3>2, <2>2 DEF CompletedAreFinished
  <2>5. NoLeakedConfirmation' /\ NothingTracked'
    BY <1>2, <2>1 DEF IInv, TypeOK, NoLeakedConfirmation, NothingTracked
  <2>6. /\ pc'[c] = "done" /\ outcome'[c] = status
        /\ \A d \in Calls : d # c => pc'[d] = pc[d] /\ outcome'[d] = outcome[d]
    BY <1>3, <1>6, <2>1 DEF IInv, TypeOK
  <2>7. status \notin {"none", "timeout"}
    BY <1>3 DEF Statuses, Live, Terminal
  <2>8. WaitingHasLanded' /\ OutcomeWhenDone' /\ TimeoutHasLanded' /\ TerminalIsTrue'
    BY <1>4, <2>6, <2>7 DEF IInv, WaitingHasLanded, OutcomeWhenDone,
       TimeoutHasLanded, TerminalIsTrue
  <2> QED BY <1>5, <2>3, <2>4, <2>5, <2>8 DEF IInv
<1>7. CASE ack \notin Terminal
  <2>1. /\ pc' = [pc EXCEPT ![c] = "waiting"]
        /\ UNCHANGED <<outcome, pending, active, completed>>
    BY <1>1, <1>7
  <2>2. TypeOK'
    BY <1>0, <1>2, <1>3, <2>1 DEF IInv, TypeOK
  <2>3. NoLeakedConfirmation' /\ NothingTracked' /\ CompletedAreFinished'
    BY <1>2, <2>1 DEF IInv, TypeOK, NoLeakedConfirmation, NothingTracked, CompletedAreFinished
  <2>4. /\ pc'[c] = "waiting" /\ outcome' = outcome
        /\ \A d \in Calls : d # c => pc'[d] = pc[d]
    BY <2>1 DEF IInv, TypeOK
  <2>5. outcome[c] \notin Terminal \cup {"timeout"}
    BY <1>2 DEF Terminal
  <2>6. WaitingHasLanded' /\ OutcomeWhenDone' /\ TimeoutHasLanded' /\ TerminalIsTrue'
    BY <1>2, <1>4, <2>4, <2>5 DEF IInv, WaitingHasLanded, OutcomeWhenDone,
       TimeoutHasLanded, TerminalIsTrue
  <2> QED BY <1>5, <2>2, <2>3, <2>6 DEF IInv
<1> QED BY <1>6, <1>7

\* What the exchange's records may do in a step that no acknowledgement
\* reports: an order appears, or a live one changes; none disappears.
BookMoves == /\ book' \in [Links -> {"none"} \cup Statuses]
             /\ inflight' \in SUBSET Links
             /\ \A c \in Calls : \/ book'[<<c, 0>>] = book[<<c, 0>>]
                                  \/ /\ book[<<c, 0>>] \in {"none"} \cup Live
                                     /\ book'[<<c, 0>>] # "none"
             /\ OwnLinkOnly'

\* Such a step keeps every promise made to a caller.
LEMMA BookMovesKeeps ==
  ASSUME IInv, BookMoves, UNCHANGED outcome
  PROVE  TimeoutHasLanded' /\ TerminalIsTrue'
BY DEF IInv, BookMoves, TimeoutHasLanded, TerminalIsTrue, Terminal, Live

\* One link's entry changing from "none" or a live status is such a move.
LEMMA OneEntryMoves ==
  ASSUME IInv, NEW l \in Links, NEW status \in Statuses, OwnLinkOnly',
         book[l] \in {"none"} \cup Live, inflight' \in SUBSET Links,
         book' = [book EXCEPT ![l] = status]
  PROVE  BookMoves
<1>1. status # "none"
  BY DEF Statuses, Live, Terminal
<1>2. book' \in [Links -> {"none"} \cup Statuses]
  BY DEF IInv, TypeOK
<1>3. ASSUME NEW c \in Calls
      PROVE  \/ book'[<<c, 0>>] = book[<<c, 0>>]
             \/ /\ book[<<c, 0>>] \in {"none"} \cup Live
                /\ book'[<<c, 0>>] # "none"
  BY <1>1, LinkFacts DEF IInv, TypeOK
<1> QED BY <1>2, <1>3 DEF BookMoves

\* A failed POST moves the exchange's records at most by landing its order.
LEMMA FailedPostMoves ==
  ASSUME IInv, NEW l \in Links, l[2] = 0, NEW failure \in Failures,
         FailedPostEffect(l, failure)
  PROVE  BookMoves
<1>0. OwnLinkOnly'
  BY DEF IInv, TypeOK, OwnLinkOnly, FailedPostEffect
<1>1. CASE UNCHANGED <<book, inflight>>
  BY <1>0, <1>1 DEF IInv, TypeOK, BookMoves
<1>2. CASE /\ book[l] = "none"
           /\ \E status \in Created : book' = [book EXCEPT ![l] = status]
           /\ UNCHANGED inflight
  <2>1. PICK status \in Created : book' = [book EXCEPT ![l] = status]
    BY <1>2
  <2>2. status \in Statuses
    BY DEF Created, Statuses, Live, Terminal
  <2>3. inflight' \in SUBSET Links
    BY <1>2 DEF IInv, TypeOK
  <2> QED BY <1>0, <1>2, <2>1, <2>2, <2>3, OneEntryMoves
<1>3. CASE inflight' = inflight \cup {l} /\ UNCHANGED book
  BY <1>0, <1>3 DEF IInv, TypeOK, BookMoves
<1> QED BY <1>1, <1>2, <1>3 DEF FailedPostEffect

\* Leaving submit() without a terminal status: rejected, or timed out with the
\* order on the exchange.
LEMMA ReturnStep ==
  ASSUME IInv, NEW c \in Calls, pc[c] \in {"posting", "waiting"},
         NEW result \in {"rejected", "timeout"}, Return(c, result),
         result = "timeout" => pc[c] = "waiting",
         BookMoves, UNCHANGED <<tries, posts, request, active, completed>>
  PROVE  IInv'
<1>1. /\ pc' = [pc EXCEPT ![c] = "done"]
      /\ outcome' = [outcome EXCEPT ![c] = result]
      /\ pending' = pending \ {c}
  BY DEF Return
<1>2. TypeOK'
  BY <1>1 DEF IInv, TypeOK, BookMoves
<1>3. /\ pc'[c] = "done" /\ outcome'[c] = result
      /\ \A d \in Calls : d # c => pc'[d] = pc[d] /\ outcome'[d] = outcome[d]
  BY <1>1 DEF IInv, TypeOK
<1>4. NoLeakedConfirmation' /\ NothingTracked'
  BY <1>1, <1>3 DEF IInv, TypeOK, NoLeakedConfirmation, NothingTracked
<1>5. result \notin Terminal /\ result # "none"
  BY DEF Terminal
<1>6. outcome[c] = "none"
  BY DEF IInv, OutcomeWhenDone
<1>7. CompletedAreFinished'
  <2>1. \A i \in 1 .. Len(completed) :
          completed[i] \in Calls /\ outcome[completed[i]] \in Terminal /\ completed[i] # c
    BY <1>6 DEF IInv, TypeOK, CompletedAreFinished, Terminal
  <2> QED BY <1>3, <2>1 DEF IInv, CompletedAreFinished
<1>8. WaitingHasLanded'
  BY <1>3 DEF IInv, WaitingHasLanded, BookMoves
<1>9. OutcomeWhenDone'
  BY <1>3, <1>5 DEF IInv, OutcomeWhenDone
<1>10. TimeoutHasLanded' /\ TerminalIsTrue'
  <2>1. ASSUME NEW d \in Calls, outcome'[d] = "timeout"
        PROVE  book'[<<d, 0>>] # "none"
    BY <1>3, <2>1 DEF IInv, TimeoutHasLanded, WaitingHasLanded, BookMoves
  <2>2. ASSUME NEW d \in Calls, outcome'[d] \in Terminal
        PROVE  book'[<<d, 0>>] = outcome'[d]
    BY <1>3, <1>5, <2>2 DEF IInv, TerminalIsTrue, BookMoves, Live, Terminal
  <2> QED BY <2>1, <2>2 DEF TimeoutHasLanded, TerminalIsTrue
<1> QED BY <1>2, <1>4, <1>7, <1>8, <1>9, <1>10 DEF IInv, BookMoves

\* A step that leaves the calls' control state alone, apart from the attempt
\* counters, and moves the exchange's records.
LEMMA QuietStep ==
  ASSUME IInv, BookMoves, UNCHANGED <<pc, request, pending, active, completed, outcome>>,
         tries' \in [Calls -> 0 .. MaxRetries],
         posts' \in [Calls -> 0 .. MaxRestAttempts]
  PROVE  IInv'
<1>1. TypeOK'
  BY DEF IInv, TypeOK, BookMoves
<1>2. WaitingHasLanded'
  BY DEF IInv, WaitingHasLanded, BookMoves
<1>3. TimeoutHasLanded' /\ TerminalIsTrue'
  BY BookMovesKeeps
<1> QED
  BY <1>1, <1>2, <1>3 DEF IInv, BookMoves, OutcomeWhenDone, NoLeakedConfirmation,
     NothingTracked, CompletedAreFinished

\* A failed POST is repeated within the attempt limits or rejects the call.
LEMMA FailedStep ==
  ASSUME IInv, NEW c \in Calls, PostFailed(c)
  PROVE  IInv'
<1>0. LinkId(c, posts[c]) \in Links /\ LinkId(c, posts[c])[2] = 0
  BY LinkFacts DEF IInv, TypeOK
<1>1. PICK failure \in Failures :
       /\ FailedPostEffect(LinkId(c, posts[c]), failure)
       /\ \/ /\ AttemptsLeft(posts[c], MaxRestAttempts)
             /\ posts' = [posts EXCEPT ![c] = @ + 1]
             /\ UNCHANGED <<pc, tries, pending, outcome>>
          \/ /\ AttemptsLeft(tries[c], MaxRetries)
             /\ tries' = [tries EXCEPT ![c] = @ + 1]
             /\ posts' = [posts EXCEPT ![c] = 1]
             /\ UNCHANGED <<pc, pending, outcome>>
          \/ Return(c, "rejected") /\ UNCHANGED <<tries, posts>>
  BY DEF PostFailed
<1>2. pc[c] = "posting" /\ UNCHANGED <<request, active, completed>>
  BY DEF PostFailed
<1>3. BookMoves
  BY <1>0, <1>1, FailedPostMoves
<1>4. CASE /\ AttemptsLeft(posts[c], MaxRestAttempts)
           /\ posts' = [posts EXCEPT ![c] = @ + 1]
           /\ UNCHANGED <<pc, tries, pending, outcome>>
  <2>1. posts' \in [Calls -> 0 .. MaxRestAttempts] /\ tries' \in [Calls -> 0 .. MaxRetries]
    BY <1>4, RestAttemptsAssumption DEF IInv, TypeOK, AttemptsLeft
  <2> QED BY <1>2, <1>3, <1>4, <2>1, QuietStep
<1>5. CASE /\ AttemptsLeft(tries[c], MaxRetries)
           /\ tries' = [tries EXCEPT ![c] = @ + 1]
           /\ posts' = [posts EXCEPT ![c] = 1]
           /\ UNCHANGED <<pc, pending, outcome>>
  <2>1. posts' \in [Calls -> 0 .. MaxRestAttempts] /\ tries' \in [Calls -> 0 .. MaxRetries]
    BY <1>5, RestAttemptsAssumption, RetriesAssumption DEF IInv, TypeOK, AttemptsLeft
  <2> QED BY <1>2, <1>3, <1>5, <2>1, QuietStep
<1>6. CASE Return(c, "rejected") /\ UNCHANGED <<tries, posts>>
  BY <1>2, <1>3, <1>6, ReturnStep
<1> QED BY <1>1, <1>4, <1>5, <1>6

\* The confirmation timeout ends a call whose order is on the exchange.
LEMMA TimeoutStep ==
  ASSUME IInv, NEW c \in Calls, ConfirmationTimeout(c)
  PROVE  IInv'
<1>1. BookMoves
  BY DEF ConfirmationTimeout, IInv, TypeOK, OwnLinkOnly, BookMoves
<1> QED BY <1>1, ReturnStep DEF ConfirmationTimeout

\* The exchange's own steps move its records only.
LEMMA ExchangeMoves ==
  ASSUME IInv, NEW l \in Links, DelayedArrival(l) \/ OrderMoves(l)
  PROVE  BookMoves /\ UNCHANGED gatewayVars
<1>1. inflight' \in SUBSET Links /\ UNCHANGED gatewayVars
  BY DEF DelayedArrival, OrderMoves, IInv, TypeOK
<1>0. OwnLinkOnly'
  BY DEF DelayedArrival, OrderMoves, IInv, TypeOK, OwnLinkOnly, Live
<1>2. CASE UNCHANGED book
  BY <1>0, <1>1, <1>2 DEF IInv, TypeOK, BookMoves
<1>3. CASE book' # book
  <2>1. PICK status \in Statuses : book' = [book EXCEPT ![l] = status]
    BY <1>3 DEF DelayedArrival, OrderMoves, Created, Statuses, Live, Terminal
  <2>2. book[l] \in {"none"} \cup Live
    BY <1>3 DEF DelayedArrival, OrderMoves
  <2> QED BY <1>0, <1>1, <2>1, <2>2, OneEntryMoves
<1> QED BY <1>2, <1>3

-----------------------------------------------------------------------------
\* The inductive step, one case per action.
LEMMA NextIInv ==
  ASSUME IInv, [Next]_vars
  PROVE  IInv'
<1>1. ASSUME NEW c \in Calls, NEW r \in Requests, Submit(c, r) PROVE IInv'
  BY <1>1, SubmitStep
<1>2. ASSUME NEW c \in Calls, GatewayStep(c) PROVE IInv'
  BY <1>2, AcknowledgedStep, FailedStep, TimeoutStep DEF GatewayStep
<1>3. ASSUME NEW l \in Links, DelayedArrival(l) \/ OrderMoves(l) PROVE IInv'
  <2>1. BookMoves /\ UNCHANGED gatewayVars
    BY <1>3, ExchangeMoves
  <2>2. tries' \in [Calls -> 0 .. MaxRetries] /\ posts' \in [Calls -> 0 .. MaxRestAttempts]
    BY <2>1 DEF IInv, TypeOK, gatewayVars
  <2> QED BY <2>1, <2>2, QuietStep DEF gatewayVars
<1>4. CASE UNCHANGED vars
  <2>1. BookMoves
    BY <1>4 DEF vars, IInv, TypeOK, OwnLinkOnly, BookMoves
  <2>2. tries' \in [Calls -> 0 .. MaxRetries] /\ posts' \in [Calls -> 0 .. MaxRestAttempts]
    BY <1>4 DEF IInv, TypeOK, vars
  <2> QED BY <1>4, <2>1, <2>2, QuietStep DEF vars
<1> QED BY <1>1, <1>2, <1>3, <1>4 DEF Next

\* IInv holds in every reachable state.
THEOREM Invariance == Spec => []IInv
<1> QED BY InitIInv, NextIInv, PTL DEF Spec

\* Every variable keeps its type: attempt counters within their limits among
\* them, so no call posts more often than _MAX_REST_ATTEMPTS in one place_order.
THEOREM TypeCorrect == Spec => []TypeOK
<1>1. IInv => TypeOK
  BY DEF IInv
<1> QED BY <1>1, Invariance, PTL

\* submit() never leaves an event in _pending_confirmations, whichever of its
\* exits it takes.
THEOREM ConfirmationsReleased == Spec => []NoLeakedConfirmation
<1>1. IInv => NoLeakedConfirmation
  BY DEF IInv
<1> QED BY <1>1, Invariance, PTL

\* _active_orders is empty at every await, so reconciliation sees no order.
THEOREM NeverTracked == Spec => []NothingTracked
<1>1. IInv => NothingTracked
  BY DEF IInv
<1> QED BY <1>1, Invariance, PTL

\* A terminal status that submit() returns is the order's exchange status, and
\* stays so.
THEOREM AnswersAreTrue == Spec => []AnswerMatchesExchange
<1>1. IInv => AnswerMatchesExchange
  BY LinkFacts DEF IInv, TerminalIsTrue, AnswerMatchesExchange
<1> QED BY <1>1, Invariance, PTL

\* The ring buffer of finished ids is bounded and holds finished calls only.
THEOREM CompletedSound == Spec => []CompletedAreFinished
<1>1. IInv => CompletedAreFinished
  BY DEF IInv
<1> QED BY <1>1, Invariance, PTL

\* However often a call's POST is repeated, it has at most one order.
THEOREM Idempotent == Spec => []AtMostOneOrder
<1>1. IInv => AtMostOneOrder
  <2> SUFFICES ASSUME IInv, NEW l \in Links, NEW m \in Links, l[1] = m[1],
                      book[l] # "none", book[m] # "none"
               PROVE  l = m
    BY DEF AtMostOneOrder
  <2>1. l[2] = 0 /\ m[2] = 0
    BY DEF IInv, OwnLinkOnly
  <2> QED BY <2>1 DEF Links
<1> QED BY <1>1, Invariance, PTL

\* The gateway's books are in order at every await of every call: the
\* four theorems above, as the property the exchange run checks.
THEOREM BooksInOrder == Spec => []BookkeepingSound
<1>1. TypeOK /\ NoLeakedConfirmation /\ NothingTracked /\ CompletedAreFinished => BookkeepingSound
  BY DEF BookkeepingSound
<1> QED BY <1>1, TypeCorrect, ConfirmationsReleased, NeverTracked, CompletedSound, PTL

-----------------------------------------------------------------------------
(* submit() implements at-most-once placement *)

\* The abstract order of each call: the exchange's record of its link id.
OrderOf == [c \in Calls |-> book[LinkId(c, 1)]]

LEMMA OrderOfFacts ==
  /\ OrderOf = [c \in Calls |-> book[<<c, 0>>]]
  /\ OrderOf' = [c \in Calls |-> book'[<<c, 0>>]]
BY LinkFacts DEF OrderOf

\* An entry of the book that changes under call c's link id changes c's
\* abstract order and no other.
LEMMA OrderOfUpdate ==
  ASSUME IInv, NEW c \in Calls, NEW status, book' = [book EXCEPT ![<<c, 0>>] = status]
  PROVE  /\ OrderOf' = [OrderOf EXCEPT ![c] = status]
         /\ OrderOf[c] = book[<<c, 0>>]
BY OrderOfFacts, LinkFacts DEF IInv, TypeOK

\* A POST whose answer is lost, or that arrives late, is a Land step of the
\* abstract specification: its call has not been promised anything yet.
LEMMA LandStep ==
  ASSUME IInv, NEW c \in Calls, NEW status \in Created, book[<<c, 0>>] = "none",
         book' = [book EXCEPT ![<<c, 0>>] = status], UNCHANGED outcome
  PROVE  Abstract!Land(c)
<1>1. outcome[c] \in {"none", "rejected"}
  BY DEF IInv, TypeOK, TimeoutHasLanded, TerminalIsTrue, Terminal
<1>2. status \in Live \cup Terminal
  BY DEF Created, Live, Terminal
<1>3. OrderOf' = [OrderOf EXCEPT ![c] = status] /\ OrderOf[c] = "none"
  BY OrderOfUpdate
<1> QED BY <1>1, <1>2, <1>3 DEF Abstract!Land, OrderOf

\* An acknowledgement lands the order; a terminal one answers as well.
LEMMA AcknowledgedRefines ==
  ASSUME IInv, NEW c \in Calls, PostAcknowledged(c)
  PROVE  Abstract!Land(c) \/ Abstract!Answer(c)
<1>1. LinkId(c, posts[c]) = <<c, 0>>
  BY LinkFacts DEF IInv, TypeOK
<1>2. PICK status \in Created, carried \in BOOLEAN :
        LET ack == AckStatus(status, carried) IN
        /\ book' = [book EXCEPT ![<<c, 0>>] = status]
        /\ IF ack \in Terminal
             THEN Return(c, ack) /\ Track(c, ack)
             ELSE /\ pc' = [pc EXCEPT ![c] = "waiting"]
                  /\ UNCHANGED <<outcome, pending, active, completed>>
  BY <1>1 DEF PostAcknowledged
<1> DEFINE ack == AckStatus(status, carried)
<1>3. pc[c] = "posting" /\ book[<<c, 0>>] = "none" /\ outcome[c] = "none"
  BY <1>1 DEF PostAcknowledged, IInv, OutcomeWhenDone
<1>4. CASE ack \in Terminal
  <2>1. ack = status /\ status \in Live \cup Terminal
    BY <1>4 DEF AckStatus, Created, Live, Terminal
  <2>2. outcome' = [outcome EXCEPT ![c] = status]
    BY <1>2, <1>4, <2>1 DEF Return
  <2>3. OrderOf' = [OrderOf EXCEPT ![c] = status] /\ OrderOf[c] = "none"
    BY <1>2, <1>3, OrderOfUpdate
  <2>4. OrderOf'[c] = status
    BY <2>3 DEF OrderOf
  <2> QED BY <1>3, <1>4, <2>1, <2>2, <2>3, <2>4 DEF Abstract!Answer, OrderOf
<1>5. CASE ack \notin Terminal
  BY <1>2, <1>3, <1>5, LandStep
<1> QED BY <1>4, <1>5

\* A failed POST may land the order; the last one also answers "rejected".
LEMMA FailedRefines ==
  ASSUME IInv, NEW c \in Calls, PostFailed(c)
  PROVE  Abstract!Land(c) \/ Abstract!Answer(c) \/ UNCHANGED <<OrderOf, outcome>>
<1>1. LinkId(c, posts[c]) = <<c, 0>> /\ outcome[c] = "none"
  BY LinkFacts DEF IInv, TypeOK, OutcomeWhenDone, PostFailed
<1>2. outcome' = outcome \/ outcome' = [outcome EXCEPT ![c] = "rejected"]
  BY DEF PostFailed, Return
<1>3. CASE UNCHANGED book
  <2>1. UNCHANGED OrderOf
    BY <1>3, OrderOfFacts
  <2>2. CASE outcome' = [outcome EXCEPT ![c] = "rejected"]
    BY <1>1, <2>1, <2>2 DEF Abstract!Answer, OrderOf
  <2> QED BY <1>2, <2>1, <2>2
<1>4. CASE book' # book
  <2>1. PICK status \in Created : book' = [book EXCEPT ![<<c, 0>>] = status]
    BY <1>1, <1>4 DEF PostFailed, FailedPostEffect
  <2>2. book[<<c, 0>>] = "none"
    BY <1>1, <1>4 DEF PostFailed, FailedPostEffect
  <2>3. CASE outcome' = outcome
    BY <2>1, <2>2, <2>3, LandStep
  <2>4. CASE outcome' = [outcome EXCEPT ![c] = "rejected"]
    <3>1. OrderOf' = [OrderOf EXCEPT ![c] = status] /\ OrderOf[c] = "none"
      BY <2>1, <2>2, OrderOfUpdate
    <3>2. status \in Live \cup Terminal
      BY DEF Created, Live, Terminal
    <3> QED BY <1>1, <2>4, <3>1, <3>2 DEF Abstract!Answer, OrderOf
  <2> QED BY <1>2, <2>3, <2>4
<1> QED BY <1>3, <1>4

\* A confirmation timeout answers for an order that has landed.
LEMMA TimeoutRefines ==
  ASSUME IInv, NEW c \in Calls, ConfirmationTimeout(c)
  PROVE  Abstract!Answer(c)
<1>1. /\ outcome[c] = "none" /\ book[<<c, 0>>] # "none" /\ UNCHANGED book
      /\ outcome' = [outcome EXCEPT ![c] = "timeout"]
  BY DEF ConfirmationTimeout, Return, IInv, OutcomeWhenDone, WaitingHasLanded
<1>2. UNCHANGED OrderOf /\ OrderOf'[c] # "none"
  BY <1>1, OrderOfFacts
<1> QED BY <1>1, <1>2 DEF Abstract!Answer, OrderOf

\* The exchange's own steps land a delayed POST or move a live order.
LEMMA ExchangeRefines ==
  ASSUME IInv, NEW l \in Links, DelayedArrival(l) \/ OrderMoves(l)
  PROVE  \/ \E c \in Calls : Abstract!Land(c) \/ Abstract!Progress(c)
         \/ UNCHANGED <<OrderOf, outcome>>
<1>1. UNCHANGED outcome
  BY DEF DelayedArrival, OrderMoves, gatewayVars
<1>2. CASE UNCHANGED book
  BY <1>1, <1>2, OrderOfFacts
<1>3. CASE book' # book
  <2>1. l[2] = 0
    BY DEF DelayedArrival, OrderMoves, Live, IInv, OwnLinkOnly
  <2>2. PICK c \in Calls : l = <<c, 0>>
    BY <2>1 DEF Links
  <2>3. CASE DelayedArrival(l)
    <3>1. PICK status \in Created : book' = [book EXCEPT ![<<c, 0>>] = status]
      BY <1>3, <2>2, <2>3 DEF DelayedArrival
    <3>2. book[<<c, 0>>] = "none"
      BY <1>3, <2>2, <2>3 DEF DelayedArrival
    <3> QED BY <1>1, <3>1, <3>2, LandStep
  <2>4. CASE OrderMoves(l)
    <3>1. PICK status \in Live \cup Terminal : book' = [book EXCEPT ![<<c, 0>>] = status]
      BY <2>2, <2>4 DEF OrderMoves, Live, Terminal
    <3>2. OrderOf' = [OrderOf EXCEPT ![c] = status] /\ OrderOf[c] \in Live
      BY <2>2, <2>4, <3>1, OrderOfUpdate DEF OrderMoves
    <3> QED BY <1>1, <3>1, <3>2 DEF Abstract!Progress, OrderOf
  <2> QED BY <2>3, <2>4
<1> QED BY <1>2, <1>3

\* Every step of submit() and of the exchange is a step of the abstract
\* specification, or leaves what it sees unchanged.
LEMMA NextRefines ==
  ASSUME IInv, [Next]_vars
  PROVE  [Abstract!Next]_(Abstract!vars)
<1>1. ASSUME NEW c \in Calls, NEW r \in Requests, Submit(c, r)
      PROVE  UNCHANGED <<OrderOf, outcome>>
  BY <1>1, OrderOfFacts DEF Submit
<1>2. ASSUME NEW c \in Calls, GatewayStep(c)
      PROVE  Abstract!Next \/ UNCHANGED <<OrderOf, outcome>>
  BY <1>2, AcknowledgedRefines, FailedRefines, TimeoutRefines DEF GatewayStep, Abstract!Next
<1>3. ASSUME NEW l \in Links, DelayedArrival(l) \/ OrderMoves(l)
      PROVE  Abstract!Next \/ UNCHANGED <<OrderOf, outcome>>
  BY <1>3, ExchangeRefines DEF Abstract!Next
<1>4. ASSUME UNCHANGED vars
      PROVE  UNCHANGED <<OrderOf, outcome>>
  BY <1>4, OrderOfFacts DEF vars
<1>5. Abstract!Next \/ UNCHANGED <<OrderOf, outcome>>
  BY <1>1, <1>2, <1>3, <1>4 DEF Next
<1> QED BY <1>5 DEF Abstract!vars, OrderOf

\* The detailed specification implements the abstract one: submit() with its
\* two retry loops, lost acknowledgements and delayed POSTs is at-most-once
\* placement with truthful terminal answers.
THEOREM Refinement == Spec => AtMostOnce
<1>1. Init => Abstract!Init
  BY LinkFacts DEF Init, Abstract!Init
<1>2. IInv /\ [Next]_vars => [Abstract!Next]_(Abstract!vars)
  BY NextRefines
<1> QED BY <1>1, <1>2, Invariance, PTL DEF Spec, AtMostOnce, Abstract!Spec

-----------------------------------------------------------------------------
(* ExecutionEngine.  The gateway's inductive invariant carries over, since   *)
(* every step of the engine is a gateway step, a stutter of the gateway or a *)
(* cancellation.                                                             *)

EngineTypes ==
  /\ stage \in [Calls -> {"new", "checked", "submitted", "returned"}]
  /\ asked \in [Calls -> Requests]
  /\ reported \in [Calls -> {"none"} \cup Terminal]
  /\ journal \in SUBSET Calls
  /\ listed \in SUBSET Links /\ handled \in SUBSET listed
  /\ cleared \in SUBSET Calls

\* Before EngineSubmit a call has not entered submit().
UnsubmittedIsIdle == \A c \in Calls : stage[c] \in {"new", "checked"} => pc[c] = "idle"

\* What execute() reports or journals as a fill is what submit() returned.
FillsAreAnswers ==
  \A c \in Calls : c \in journal \/ reported[c] = "FILLED" => outcome[c] = "FILLED"

\* A call inside submit() is awaited by its execute().
InsideIsSubmitted ==
  \A c \in Calls : pc[c] \in {"posting", "waiting"} => stage[c] = "submitted"

\* Once the switch is thrown, whoever can still post or has posted had its verdict.
ClearedBeforeKill ==
  killed => UnderWay \subseteq cleared /\ \A l \in Posted : l[1] \in cleared

\* The kill switch works on orders that are on the exchange.
ListedHaveLanded == \A l \in listed : book[l] # "none"

\* It has handled nothing before it has its list.
ListComesFirst == kill \in {"idle", "listing"} => handled = {}

\* The inductive invariant.
EInv == /\ IInv
        /\ EngineTypes
        /\ UnsubmittedIsIdle
        /\ FillsAreAnswers
        /\ InsideIsSubmitted
        /\ ClearedBeforeKill
        /\ ListedHaveLanded
        /\ ListComesFirst
        /\ KillAccounting

-----------------------------------------------------------------------------
\* An order's status only moves forward: from nothing or a live status to some
\* status, never out of a terminal one.
Forward ==
  \A l \in Links : \/ book'[l] = book[l]
                   \/ book[l] \in {"none"} \cup Live /\ book'[l] # "none"

\* The kill switch's promises survive any such move.
LEMMA ForwardKeeps ==
  ASSUME EInv, Forward, UNCHANGED <<kill, listed, handled, failed>>
  PROVE  ListedHaveLanded' /\ ListComesFirst' /\ KillAccounting'
BY DEF EInv, EngineTypes, Forward, ListedHaveLanded, ListComesFirst, KillAccounting, Live

LEMMA EngineInitEInv == EngineInit => EInv
<1> SUFFICES ASSUME EngineInit PROVE EInv
  OBVIOUS
<1>1. IInv
  BY InitIInv DEF EngineInit
<1> QED
  BY <1>1, LinkFacts DEF EngineInit, Init, EInv, EngineTypes, UnsubmittedIsIdle, FillsAreAnswers,
     InsideIsSubmitted, ClearedBeforeKill, ListedHaveLanded, ListComesFirst, KillAccounting

\* Steps of execute() that leave the gateway alone: rejections, the risk check
\* and the return of a result.
LEMMA ExecuteStep ==
  ASSUME EInv, NEW c \in Calls, RiskEvaluate(c) \/ PrepareRejects(c) \/ CollectResult(c)
  PROVE  EInv'
<1>1. UNCHANGED vars /\ UNCHANGED killVars /\ UNCHANGED asked
  BY DEF RiskEvaluate, PrepareRejects, CollectResult, RejectEarly
<1>2. IInv'
  BY <1>1, NextIInv DEF EInv
<1>3. /\ stage' = [stage EXCEPT ![c] = "checked"] \/ stage' = [stage EXCEPT ![c] = "returned"]
      /\ stage'[c] = "checked" => stage[c] = "new" /\ (killed => c \in cleared)
      /\ pc[c] \notin {"posting", "waiting"}
  BY DEF EInv, EngineTypes, UnsubmittedIsIdle, RiskEvaluate, PrepareRejects, CollectResult, RejectEarly
<1>4. /\ reported' \in [Calls -> {"none"} \cup Terminal]
      /\ journal' \in SUBSET Calls
      /\ FillsAreAnswers'
  <2>1. CASE UNCHANGED <<reported, journal>>
    BY <1>1, <2>1 DEF EInv, EngineTypes, FillsAreAnswers, vars
  <2>2. CASE reported' = [reported EXCEPT ![c] = "REJECTED"] /\ UNCHANGED journal
    BY <1>1, <2>2 DEF EInv, EngineTypes, FillsAreAnswers, vars, Terminal
  <2>3. CASE CollectResult(c)
    <3>1. outcome[c] \in {"rejected", "timeout"} \cup Terminal
      BY <2>3 DEF CollectResult, EInv, IInv, TypeOK, OutcomeWhenDone
    <3>2. Report(outcome[c]) \in Terminal
      BY <3>1 DEF Report, Terminal
    <3>3. Report(outcome[c]) = "FILLED" => outcome[c] = "FILLED"
      BY <3>1 DEF Report, Terminal
    <3>4. /\ reported' = [reported EXCEPT ![c] = Report(outcome[c])]
          /\ \/ journal' = journal
             \/ journal' = journal \cup {c} /\ reported'[c] = "FILLED"
          /\ outcome' = outcome
      BY <2>3, <1>1 DEF CollectResult, vars
    <3> QED BY <3>2, <3>3, <3>4 DEF EInv, EngineTypes, FillsAreAnswers
  <2> QED BY <2>1, <2>2, <2>3 DEF RiskEvaluate, PrepareRejects, RejectEarly
<1>5. InsideIsSubmitted' /\ UnsubmittedIsIdle'
  BY <1>1, <1>3 DEF EInv, EngineTypes, InsideIsSubmitted, UnsubmittedIsIdle, vars
<1>6. ClearedBeforeKill'
  <2>1. UnderWay' \subseteq UnderWay \cup {c} /\ Posted' = Posted
    BY <1>1, <1>3 DEF UnderWay, Posted, vars, EInv, EngineTypes
  <2>2. killed /\ c \in UnderWay' => c \in cleared
    BY <1>3 DEF UnderWay, EInv, EngineTypes
  <2> QED BY <1>1, <2>1, <2>2 DEF EInv, ClearedBeforeKill, killVars
<1> QED
  BY <1>1, <1>2, <1>3, <1>4, <1>5, <1>6 DEF EInv, EngineTypes, ListedHaveLanded, ListComesFirst, KillAccounting, vars, killVars

\* The hand-over to submit(): a call that was idle and has its verdict.
LEMMA EngineSubmitStep ==
  ASSUME EInv, NEW c \in Calls, EngineSubmit(c)
  PROVE  EInv'
<1>1. asked[c] \in Requests /\ Submit(c, asked[c])
  BY DEF EngineSubmit, EInv, EngineTypes
<1>2. IInv'
  BY <1>1, SubmitStep DEF EInv
<1>3. ClearedBeforeKill'
  BY DEF EInv, EngineTypes, EngineSubmit, Submit, ClearedBeforeKill, UnderWay, Posted, killVars
<1> QED
  BY <1>2, <1>3 DEF EInv, IInv, TypeOK, EngineTypes, UnsubmittedIsIdle, FillsAreAnswers,
     InsideIsSubmitted, ListedHaveLanded, ListComesFirst, KillAccounting, EngineSubmit,
     Submit, killVars

\* What a step inside submit() leaves alone, and what it may move.
LEMMA AwaitMoves ==
  ASSUME EInv, NEW c \in Calls, GatewayStep(c)
  PROVE  /\ Forward
         /\ \A d \in Calls : pc[d] # "idle" <=> pc'[d] # "idle"
         /\ \A d \in Calls : outcome[d] # "none" => outcome'[d] = outcome[d]
         /\ \A l \in Posted' : l \in Posted \/ l[1] = c
         /\ \A d \in Calls : pc'[d] \in {"posting", "waiting"} => pc[d] \in {"posting", "waiting"}
         /\ pc[c] \in {"posting", "waiting"}
<1>0. LinkId(c, posts[c]) = <<c, 0>> /\ <<c, 0>> \in Links
  BY LinkFacts DEF EInv, IInv, TypeOK
<1>1. pc[c] \in {"posting", "waiting"} /\ outcome[c] = "none"
  BY DEF GatewayStep, PostAcknowledged, PostFailed, ConfirmationTimeout, EInv, IInv, TypeOK,
     OutcomeWhenDone
<1>2. /\ pc' = pc \/ \E p \in {"waiting", "done"} : pc' = [pc EXCEPT ![c] = p]
      /\ outcome' = outcome \/ \E o : outcome' = [outcome EXCEPT ![c] = o]
  BY DEF GatewayStep, PostAcknowledged, PostFailed, ConfirmationTimeout, Return
<1>3. \/ UNCHANGED book
      \/ \E status \in Created : book[<<c, 0>>] = "none" /\ book' = [book EXCEPT ![<<c, 0>>] = status]
  BY <1>0 DEF GatewayStep, PostAcknowledged, PostFailed, FailedPostEffect, ConfirmationTimeout
<1>4. inflight' = inflight \/ inflight' = inflight \cup {<<c, 0>>}
  BY <1>0 DEF GatewayStep, PostAcknowledged, PostFailed, FailedPostEffect, ConfirmationTimeout
<1>5. Forward
  BY <1>0, <1>3 DEF Forward, Created, EInv, IInv, TypeOK
<1>6. /\ \A d \in Calls : pc[d] # "idle" <=> pc'[d] # "idle"
      /\ \A d \in Calls : pc'[d] \in {"posting", "waiting"} => pc[d] \in {"posting", "waiting"}
      /\ \A d \in Calls : outcome[d] # "none" => outcome'[d] = outcome[d]
  BY <1>1, <1>2 DEF EInv, IInv, TypeOK
<1>7. ASSUME NEW l \in Posted', l \notin Posted
      PROVE  l[1] = c
  <2>1. l = <<c, 0>>
    BY <1>0, <1>3, <1>4, <1>7 DEF Posted, EInv, IInv, TypeOK
  <2> QED BY <2>1
<1> QED BY <1>1, <1>5, <1>6, <1>7

\* A step inside submit(): the POST lands, fails, or the wait times out.
LEMMA AwaitStep ==
  ASSUME EInv, NEW c \in Calls, Await(c)
  PROVE  EInv'
<1>1. IInv'
  BY AcknowledgedStep, FailedStep, TimeoutStep DEF Await, GatewayStep, EInv
<1>2. UNCHANGED <<stage, asked, reported, journal, killed, kill, listed, handled, failed, cleared>>
  BY DEF Await, engineVars, killVars
<1>3. ListedHaveLanded' /\ ListComesFirst' /\ KillAccounting'
  BY <1>2, AwaitMoves, ForwardKeeps DEF Await
<1>4. UnsubmittedIsIdle' /\ InsideIsSubmitted'
  BY <1>2, AwaitMoves DEF Await, EInv, UnsubmittedIsIdle, InsideIsSubmitted
<1>5. FillsAreAnswers'
  BY <1>2, AwaitMoves DEF Await, EInv, FillsAreAnswers
<1>6. ClearedBeforeKill'
  <2>1. c \in UnderWay /\ UnderWay' = UnderWay
    BY <1>2, AwaitMoves DEF Await, EInv, InsideIsSubmitted, UnderWay
  <2>2. \A l \in Posted' : l \in Posted \/ l[1] = c
    BY AwaitMoves DEF Await
  <2> QED BY <1>2, <2>1, <2>2 DEF EInv, ClearedBeforeKill
<1> QED BY <1>1, <1>2, <1>3, <1>4, <1>5, <1>6 DEF EInv, EngineTypes

\* The exchange's own steps.
LEMMA ExchangeStep ==
  ASSUME EInv, NEW l \in Links, DelayedArrival(l) \/ OrderMoves(l),
         UNCHANGED <<engineVars, killVars>>
  PROVE  EInv'
<1>1. IInv'
  BY NextIInv DEF EInv, Next
<1>2. UNCHANGED <<pc, outcome, stage, asked, reported, journal, kill, listed, handled, failed, cleared>>
  BY DEF DelayedArrival, OrderMoves, gatewayVars, engineVars, killVars
<1>3. Forward
  BY DEF DelayedArrival, OrderMoves, Created, Live, Forward, EInv, IInv, TypeOK
<1>4. ListedHaveLanded' /\ ListComesFirst' /\ KillAccounting'
  BY <1>2, <1>3, ForwardKeeps
<1>5. ClearedBeforeKill'
  <2>1. Posted' \subseteq Posted
    BY DEF DelayedArrival, OrderMoves, Live, Posted, EInv, IInv, TypeOK
  <2>2. UNCHANGED <<killed, cleared, UnderWay>>
    BY DEF engineVars, killVars, UnderWay
  <2> QED BY <2>1, <2>2 DEF EInv, ClearedBeforeKill
<1> QED
  BY <1>1, <1>2, <1>4, <1>5 DEF EInv, EngineTypes, UnsubmittedIsIdle, FillsAreAnswers,
     InsideIsSubmitted, killVars

\* The kill switch: only a cancellation touches the exchange.
LEMMA KillStep ==
  ASSUME EInv, Kill
  PROVE  EInv'
<1>1. ASSUME KillTrigger \/ KillReport PROVE EInv'
  <2>1. /\ UNCHANGED vars /\ UNCHANGED engineVars /\ UNCHANGED <<listed, handled, failed>>
        /\ kill' = "listing" => kill = "idle"
        /\ kill' # "idle"
    BY <1>1 DEF KillTrigger, KillReport
  <2>2. IInv'
    BY <2>1, NextIInv DEF EInv
  <2>3. ClearedBeforeKill' /\ cleared' \in SUBSET Calls
    <3>1. UNCHANGED <<UnderWay, Posted>>
      BY <2>1 DEF UnderWay, Posted, vars, engineVars
    <3>2. \A l \in Posted : l[1] \in Calls
      BY DEF Posted, Links
    <3>3. CASE KillTrigger
      BY <3>1, <3>2, <3>3 DEF KillTrigger, ClearedBeforeKill, UnderWay
    <3>4. CASE KillReport
      BY <3>1, <3>4 DEF KillReport, ClearedBeforeKill, EInv, EngineTypes
    <3> QED BY <1>1, <3>3, <3>4
  <2> QED
    BY <2>1, <2>2, <2>3 DEF EInv, EngineTypes, UnsubmittedIsIdle, FillsAreAnswers,
       InsideIsSubmitted, ListedHaveLanded, ListComesFirst, KillAccounting, vars, engineVars
<1>2. ASSUME KillList PROVE EInv'
  <2>1. /\ UNCHANGED vars /\ UNCHANGED engineVars
        /\ UNCHANGED <<killed, handled, failed, cleared>> /\ handled = {}
    BY <1>2 DEF KillList, EInv, ListComesFirst
  <2>2. IInv'
    BY <2>1, NextIInv DEF EInv
  <2>3. active = {}
    BY DEF EInv, IInv, NothingTracked
  <2>4. listed' \in SUBSET LiveOrders
    BY <1>2, <2>3 DEF KillList
  <2>5. listed' \in SUBSET Links /\ \A l \in listed' : book[l] # "none"
    BY <2>4 DEF LiveOrders, Live
  <2>6. kill' = "cancelling"
    BY <1>2 DEF KillList
  <2>7. ClearedBeforeKill'
    BY <2>1 DEF EInv, ClearedBeforeKill, UnderWay, Posted, vars, engineVars
  <2> QED
    BY <2>1, <2>2, <2>5, <2>6, <2>7 DEF EInv, EngineTypes, UnsubmittedIsIdle, FillsAreAnswers,
       InsideIsSubmitted, ListedHaveLanded, ListComesFirst, KillAccounting,
       vars, engineVars
<1>3. ASSUME NEW l \in Links, KillCancel(l) PROVE EInv'
  <2>1. /\ UNCHANGED gatewayVars /\ UNCHANGED inflight
        /\ UNCHANGED engineVars /\ UNCHANGED <<killed, kill, listed, cleared>>
        /\ kill = "cancelling" /\ l \in listed /\ handled' = handled \cup {l}
    BY <1>3 DEF KillCancel
  <2>2. PICK ok \in BOOLEAN : CancelEffect(l, ok) /\ failed' = CountFailed(l, ok)
    BY <1>3 DEF KillCancel
  <2>3. \/ UNCHANGED book
        \/ book[l] \in Live /\ book' = [book EXCEPT ![l] = "CANCELLED"]
    BY <2>2 DEF CancelEffect
  <2>4. BookMoves
    <3>0. OwnLinkOnly'
      BY <2>1, <2>3 DEF EInv, IInv, TypeOK, OwnLinkOnly, Live
    <3>1. CASE UNCHANGED book
      BY <3>0, <3>1, <2>1 DEF BookMoves, EInv, IInv, TypeOK
    <3>2. CASE book[l] \in Live /\ book' = [book EXCEPT ![l] = "CANCELLED"]
      <4>1. "CANCELLED" \in Statuses /\ inflight' \in SUBSET Links
        BY <2>1 DEF Statuses, Terminal, EInv, IInv, TypeOK
      <4> QED BY <3>0, <3>2, <4>1, OneEntryMoves DEF EInv
    <3> QED BY <2>3, <3>1, <3>2
  <2>5. IInv'
    BY <2>1, <2>4, QuietStep DEF EInv, IInv, TypeOK, gatewayVars
  <2>6. Forward
    BY <2>3 DEF Forward, EInv, IInv, TypeOK
  <2>7. ListedHaveLanded'
    BY <2>1, <2>6 DEF EInv, EngineTypes, ListedHaveLanded, Forward
  <2>8. KillAccounting'
    <3>1. book'[l] \in Live => l \in failed'
      BY <2>2 DEF CancelEffect, CountFailed, Live, EInv, IInv, TypeOK
    <3>2. failed \subseteq failed'
      BY <2>2 DEF CountFailed
    <3> QED
      BY <2>1, <2>6, <3>1, <3>2 DEF EInv, EngineTypes, KillAccounting, Forward, ListedHaveLanded
  <2>9. ClearedBeforeKill'
    <3>1. Posted' = Posted /\ UnderWay' = UnderWay
      BY <2>1, <2>3 DEF Posted, UnderWay, EInv, IInv, TypeOK, Live, engineVars
    <3> QED BY <2>1, <3>1 DEF EInv, ClearedBeforeKill
  <2> QED
    BY <2>1, <2>5, <2>7, <2>8, <2>9 DEF EInv, EngineTypes, UnsubmittedIsIdle, FillsAreAnswers,
       InsideIsSubmitted, ListComesFirst, gatewayVars, engineVars
<1> QED BY <1>1, <1>2, <1>3 DEF Kill

-----------------------------------------------------------------------------
LEMMA EngineNextEInv ==
  ASSUME EInv, [EngineNext]_allVars
  PROVE  EInv'
<1>1. ASSUME NEW c \in Calls, Execute(c) PROVE EInv'
  BY <1>1, ExecuteStep, EngineSubmitStep DEF Execute
<1>2. ASSUME NEW c \in Calls, Await(c) PROVE EInv'
  BY <1>2, AwaitStep
<1>3. CASE Kill
  BY <1>3, KillStep
<1>4. ASSUME NEW l \in Links, DelayedArrival(l) \/ OrderMoves(l),
             UNCHANGED <<engineVars, killVars>>
      PROVE  EInv'
  BY <1>4, ExchangeStep
<1>5. CASE UNCHANGED allVars
  <2>1. UNCHANGED vars /\ UNCHANGED engineVars /\ UNCHANGED killVars
    BY <1>5 DEF allVars
  <2>2. IInv'
    BY <2>1, NextIInv DEF EInv
  <2> QED
    BY <2>1, <2>2 DEF EInv, EngineTypes, UnsubmittedIsIdle, FillsAreAnswers, InsideIsSubmitted,
       ClearedBeforeKill, UnderWay, Posted, ListedHaveLanded, ListComesFirst, KillAccounting,
       vars, engineVars, killVars
<1> QED BY <1>1, <1>2, <1>3, <1>4, <1>5 DEF EngineNext

\* The invariant holds in every reachable state.
THEOREM EngineInvariance == EngineSpec => []EInv
<1> QED BY EngineInitEInv, EngineNextEInv, PTL DEF EngineSpec

\* No phantom trade: what execute() reports or journals as FILLED is filled on
\* the exchange, whatever was lost, repeated or cancelled meanwhile.
THEOREM NoPhantoms == EngineSpec => []NoPhantomTrade
<1>1. EInv => NoPhantomTrade
  BY LinkFacts DEF EInv, FillsAreAnswers, IInv, TerminalIsTrue, NoPhantomTrade, Terminal
<1> QED BY <1>1, EngineInvariance, PTL

\* Once the kill switch is thrown, no order reaches the exchange or is sent to it
\* but for a call that had its risk verdict by then (execute(), evaluate()).
THEOREM KillStopsTheRest == EngineSpec => []OnlyClearedTrade
<1>1. EInv => OnlyClearedTrade
  BY DEF EInv, ClearedBeforeKill, OnlyClearedTrade
<1> QED BY <1>1, EngineInvariance, PTL

\* The kill switch tells the operator of every order it could not take off the
\* exchange (_cancel_all_open_orders).
THEOREM KillAccounted == EngineSpec => []KillAccounting
<1>1. EInv => KillAccounting
  BY DEF EInv
<1> QED BY <1>1, EngineInvariance, PTL

-----------------------------------------------------------------------------
(* WebSocketManager *)

\* Whoever stopped or gave up has no task that connects or reads, only such a task
\* has a connection, and an open session without a running feed means that it gave
\* up or that stop() is waiting.
TaskInOrder ==
  /\ ~running => task \in {"none", "loop", "unwinding"}
  /\ conn # "none" => task \in {"snapshot", "reading"}
  /\ running => session /\ reconnects <= MaxReconnects /\ ~stopped
  /\ session /\ ~running => reconnects > MaxReconnects \/ "stop" \in calls
  /\ ~session /\ ~stopped => reconnects = 0
  /\ "stop" \in calls => session /\ ~running /\ ~stopped

\* Every topic asked for is in the snapshot or in the queue while the snapshot is
\* being sent; afterwards it is served, queued or was dropped.
TopicsInOrder ==
  /\ task = "snapshot" =>
       sent \subseteq server /\ \A s \in wsSubs : TopicOf(s) \in sent \cup Queued("subscribe")
  /\ task = "reading" /\ conn = "up" =>
       \A s \in wsSubs : TopicOf(s) \in server \cup dropped \cup Queued("subscribe")
  /\ task \in {"snapshot", "reading"} => Queued("unsubscribe") \subseteq dropped

FeedInv == WsTypeOK /\ NobodyMissed /\ TaskInOrder /\ TopicsInOrder

LEMMA TopicFacts ==
  /\ \A s \in Subs : TopicOf(s) \in Topics
  /\ \A s \in Subs, t \in Topics : TopicOf(s) = t /\ ~Matches(s, t) => Channel[s] = "candle1m"
BY ChannelAssumption DEF ChannelNames, TopicOf, Topic, ChannelOf, Matches, Topics

LEMMA FeedInitially == WsInit => FeedInv
<1> SUFFICES ASSUME WsInit PROVE FeedInv
  OBVIOUS
<1> USE WsBoundsAssumption
<1>1. WsTypeOK
  <2>1. 0 \in 0 .. MaxReconnects + 1 /\ MaxOps \in 0 .. MaxOps
    OBVIOUS
  <2>2. running \in BOOLEAN /\ session \in BOOLEAN /\ stopped \in BOOLEAN
    BY DEF WsInit
  <2> QED BY <2>1, <2>2 DEF WsInit, WsTypeOK
<1> QED BY <1>1 DEF WsInit, FeedInv, NobodyMissed, TaskInOrder, TopicsInOrder

\* The calls that queue an operation.
LEMMA AskKeeps ==
  ASSUME FeedInv, NEW s \in Subs, Subscribe(s) \/ Unsubscribe(s)
  PROVE  FeedInv'
<1> DEFINE o(op) == [op |-> op, topic |-> TopicOf(s)]
<1>0. TopicOf(s) \in Topics /\ ops' \in 0 .. MaxOps
  BY WsBoundsAssumption, TopicFacts DEF Subscribe, Unsubscribe, FeedInv, WsTypeOK
<1>1. UNCHANGED <<running, session, task, conn, server, sent, reconnects, calls, stopped, missed>>
  BY DEF Subscribe, Unsubscribe
<1>2. TaskInOrder' /\ NobodyMissed'
  BY <1>1 DEF FeedInv, TaskInOrder, NobodyMissed
<1>3. CASE Subscribe(s)
  <2>1. wsSubs' = wsSubs \cup {s} /\ wsPending' = wsPending \cup {o("subscribe")} /\ dropped' = dropped
    BY <1>3 DEF Subscribe
  <2>2. WsTypeOK'
    BY <1>0, <1>1, <2>1 DEF FeedInv, WsTypeOK
  <2>3. Queued("subscribe")' = Queued("subscribe") \cup {TopicOf(s)}
    BY <1>0, <2>1 DEF Queued
  <2>4. Queued("unsubscribe")' = Queued("unsubscribe")
    BY <2>1 DEF Queued
  <2>5. TopicsInOrder'
    <3>1. \A x : TopicOf(x)' = TopicOf(x)
      BY DEF TopicOf
    <3> HIDE DEF o
    <3> QED BY <1>1, <2>1, <2>3, <2>4, <3>1 DEF FeedInv, TopicsInOrder
  <2> QED BY <1>2, <2>2, <2>5 DEF FeedInv
<1>4. CASE Unsubscribe(s)
  <2>1. /\ wsSubs' = wsSubs \ {s} /\ wsPending' = wsPending \cup {o("unsubscribe")}
        /\ dropped' = dropped \cup {TopicOf(s)}
    BY <1>4 DEF Unsubscribe
  <2>2. WsTypeOK'
    BY <1>0, <1>1, <2>1 DEF FeedInv, WsTypeOK
  <2>3. Queued("unsubscribe")' = Queued("unsubscribe") \cup {TopicOf(s)}
    BY <1>0, <2>1 DEF Queued
  <2>4. Queued("subscribe")' = Queued("subscribe")
    BY <2>1 DEF Queued
  <2>5. TopicsInOrder'
    <3>1. \A x : TopicOf(x)' = TopicOf(x)
      BY DEF TopicOf
    <3> HIDE DEF o
    <3> QED BY <1>1, <2>1, <2>3, <2>4, <3>1 DEF FeedInv, TopicsInOrder
  <2> QED BY <1>2, <2>2, <2>5 DEF FeedInv
<1> QED BY <1>3, <1>4

\* The calls that start, stop and restart the task.
LEMMA CallKeeps ==
  ASSUME FeedInv,
         WsStart \/ StopCalled \/ StopReturnsAtOnce \/ StopReturns \/ ResubscribeAll \/ ResubscribeRestarts
  PROVE  FeedInv'
<1> USE WsBoundsAssumption DEF Cancelled
<1>0. UNCHANGED <<wsSubs, wsPending, reconnects, dropped, missed>>
  BY DEF WsStart, StopCalled, StopReturnsAtOnce, StopReturns, ResubscribeAll, ResubscribeRestarts
<1>1. ops' \in 0 .. MaxOps /\ calls' \in SUBSET {"stop", "resubscribe"}
  <2>0. ops \in 0 .. MaxOps /\ calls \in SUBSET {"stop", "resubscribe"}
    BY DEF FeedInv, WsTypeOK
  <2>1. ops' = ops \/ (ops > 0 /\ ops' = ops - 1)
    BY DEF WsStart, StopCalled, StopReturnsAtOnce, StopReturns, ResubscribeAll, ResubscribeRestarts
  <2>2. calls' \subseteq calls \cup {"stop", "resubscribe"}
    BY DEF WsStart, StopCalled, StopReturnsAtOnce, StopReturns, ResubscribeAll, ResubscribeRestarts
  <2> QED BY <2>0, <2>1, <2>2
<1>2. running' \in BOOLEAN /\ session' \in BOOLEAN /\ stopped' \in BOOLEAN
  <2>0. running \in BOOLEAN /\ session \in BOOLEAN /\ stopped \in BOOLEAN
    BY DEF FeedInv, WsTypeOK
  <2>1. running' = running \/ running' = TRUE \/ running' = FALSE
    BY DEF WsStart, StopCalled, StopReturnsAtOnce, StopReturns, ResubscribeAll, ResubscribeRestarts
  <2>2. session' = session \/ session' = TRUE \/ session' = FALSE
    BY DEF WsStart, StopCalled, StopReturnsAtOnce, StopReturns, ResubscribeAll, ResubscribeRestarts
  <2>3. stopped' = stopped \/ stopped' = TRUE
    BY DEF WsStart, StopCalled, StopReturnsAtOnce, StopReturns, ResubscribeAll, ResubscribeRestarts
  <2> QED BY <2>0, <2>1, <2>2, <2>3
<1>3. /\ task' \in {"none", "loop", "connecting", "snapshot", "reading", "lost", "unwinding"}
      /\ conn' \in {"none", "up", "silent"} /\ server' \in SUBSET Topics /\ sent' \in SUBSET Topics
  BY DEF WsStart, StopCalled, StopReturnsAtOnce, StopReturns, ResubscribeAll, ResubscribeRestarts,
     FeedInv, WsTypeOK
<1>4. WsTypeOK' /\ NobodyMissed'
  BY <1>0, <1>1, <1>2, <1>3 DEF FeedInv, WsTypeOK, NobodyMissed
<1>5. TaskInOrder'
  <2>0. TaskInOrder /\ reconnects \in 0 .. MaxReconnects + 1
    BY DEF FeedInv, WsTypeOK
  <2>1. CASE WsStart
    BY <2>0, <2>1 DEF WsStart, TaskInOrder
  <2>2. CASE StopCalled
    BY <2>0, <2>2 DEF StopCalled, TaskInOrder
  <2>3. CASE StopReturnsAtOnce
    BY <2>0, <2>3 DEF StopReturnsAtOnce, TaskInOrder
  <2>4. CASE StopReturns
    <3>1. ~running
      BY <2>0, <2>4 DEF StopReturns, TaskInOrder
    <3> QED BY <2>0, <2>4, <3>1 DEF StopReturns, TaskInOrder
  <2>5. CASE ResubscribeAll
    BY <2>0, <2>5 DEF ResubscribeAll, TaskInOrder
  <2>6. CASE ResubscribeRestarts
    BY <2>0, <2>6 DEF ResubscribeRestarts, TaskInOrder
  <2> QED BY <2>1, <2>2, <2>3, <2>4, <2>5, <2>6
<1>6. TopicsInOrder'
  <2>1. CASE UNCHANGED <<task, conn, server, sent>>
    BY <1>0, <2>1 DEF FeedInv, TopicsInOrder, Queued, TopicOf
  <2>2. CASE task' \notin {"snapshot", "reading"}
    BY <2>2 DEF TopicsInOrder
  <2> QED BY <2>1, <2>2 DEF WsStart, StopCalled, StopReturnsAtOnce, StopReturns, ResubscribeAll,
             ResubscribeRestarts
<1> QED BY <1>4, <1>5, <1>6 DEF FeedInv

\* The steps of _run_connection, of its network and of its handlers.
LEMMA TaskKeeps ==
  ASSUME FeedInv, TaskSteps \/ ConnectFails \/ ReadEnds \/ GoesSilent
  PROVE  FeedInv'
<1> USE WsBoundsAssumption
<1>0. /\ UNCHANGED <<session, wsSubs, calls, ops, stopped, missed>>
      /\ WsTypeOK /\ TaskInOrder /\ TopicsInOrder
  BY DEF TaskSteps, Unwinds, Loop, Connects, SnapshotSent, ProcessPending, CountReconnect, ConnectFails,
     ReadEnds, GoesSilent, TaskFrame, Still, FeedInv
<1>1. NobodyMissed'
  BY <1>0 DEF FeedInv, NobodyMissed
\* Steps that leave the topics to their new task.
<1>2. ASSUME UNCHANGED <<wsPending, dropped, reconnects>>, sent' = sent, running' = running,
             \/ server' = server /\ conn' = conn
             \/ server' = {} /\ conn' = "none" /\ task' = "lost",
             task' \in {"none", "loop", "connecting", "lost"},
             conn = "none" \/ conn' = "none",
             ~running => task' = "none"
      PROVE  FeedInv'
  <2>1. WsTypeOK'
    BY <1>0, <1>2 DEF WsTypeOK
  <2>2. TaskInOrder'
    BY <1>0, <1>2 DEF TaskInOrder
  <2>3. TopicsInOrder'
    BY <1>2 DEF TopicsInOrder
  <2> QED BY <1>1, <2>1, <2>2, <2>3 DEF FeedInv
<1>3. CASE Unwinds \/ Loop \/ ConnectFails
  BY <1>0, <1>2, <1>3 DEF Unwinds, Loop, ConnectFails, TaskInOrder, Still
<1>4. CASE ReadEnds
  BY <1>0, <1>2, <1>4 DEF ReadEnds, TaskInOrder, Still
<1>5. CASE CountReconnect
  <2>0. /\ task = "lost" /\ reconnects' = reconnects + 1 /\ running /\ conn = "none"
        /\ UNCHANGED <<conn, server, wsPending, sent, dropped>>
        /\ IF reconnects' > MaxReconnects
             THEN task' = "none" /\ running' = FALSE
             ELSE task' = "loop" /\ UNCHANGED running
    BY <1>0, <1>5 DEF CountReconnect, TaskInOrder
  <2>1. reconnects \in 0 .. MaxReconnects
    BY <1>0, <2>0 DEF WsTypeOK, TaskInOrder
  <2>2. running' \in BOOLEAN
    BY <1>0, <2>0 DEF WsTypeOK
  <2>3. reconnects' \in 0 .. MaxReconnects + 1
    BY <2>0, <2>1
  <2>4. task' \in {"none", "loop"}
    BY <2>0
  <2>5. WsTypeOK'
    BY <1>0, <2>0, <2>2, <2>3, <2>4 DEF WsTypeOK
  <2>6. TaskInOrder'
    <3>1. CASE reconnects' > MaxReconnects
      BY <1>0, <2>0, <2>3, <3>1 DEF TaskInOrder
    <3>2. CASE ~(reconnects' > MaxReconnects)
      BY <1>0, <2>0, <2>3, <3>2 DEF TaskInOrder
    <3> QED BY <3>1, <3>2
  <2>7. TopicsInOrder'
    BY <2>0 DEF TopicsInOrder
  <2> QED BY <1>1, <2>5, <2>6, <2>7 DEF FeedInv
<1>6. CASE Connects
  <2>0. /\ task = "connecting" /\ task' = "snapshot" /\ conn' = "up" /\ running
        /\ sent' = {TopicOf(s) : s \in wsSubs} /\ server' = sent'
        /\ dropped' = Queued("unsubscribe") /\ UNCHANGED <<wsPending, running, reconnects>>
    BY <1>0, <1>6 DEF Connects, Still, TaskInOrder
  <2>1. sent' \subseteq Topics /\ dropped' \subseteq Topics
    BY <1>0, <2>0, TopicFacts DEF WsTypeOK, Queued
  <2>2. WsTypeOK'
    BY <1>0, <2>0, <2>1 DEF WsTypeOK
  <2>3. TaskInOrder'
    BY <1>0, <2>0 DEF TaskInOrder
  <2>4. TopicsInOrder'
    <3>1. \A s : TopicOf(s)' = TopicOf(s)
      BY DEF TopicOf
    <3>2. Queued("unsubscribe")' = Queued("unsubscribe")
      BY <2>0 DEF Queued
    <3> QED BY <1>0, <2>0, <3>1, <3>2 DEF TopicsInOrder
  <2> QED BY <1>1, <2>2, <2>3, <2>4 DEF FeedInv
<1>7. CASE SnapshotSent
  <2>0. /\ task = "snapshot" /\ task' = "reading" /\ sent' = {}
        /\ wsPending' = IF sent = {} THEN wsPending ELSE Kept
        /\ UNCHANGED <<conn, server, dropped, running, reconnects>> /\ running
    BY <1>0, <1>7 DEF SnapshotSent, Still, TaskInOrder
  <2>1. wsPending' = Kept
    BY <2>0 DEF Kept
  <2>2. WsTypeOK'
    BY <1>0, <2>0, <2>1 DEF WsTypeOK, Kept
  <2>3. TaskInOrder'
    BY <1>0, <2>0 DEF TaskInOrder
  <2>4. Queued("subscribe")' = Queued("subscribe") \ sent
    BY <2>1 DEF Queued, Kept
  <2>5. Queued("unsubscribe")' = Queued("unsubscribe")
    BY <2>1 DEF Queued, Kept
  <2>6. TopicsInOrder'
    <3>1. \A s : TopicOf(s)' = TopicOf(s)
      BY DEF TopicOf
    <3> QED BY <1>0, <2>0, <2>4, <2>5, <3>1 DEF TopicsInOrder
  <2> QED BY <1>1, <2>2, <2>3, <2>6 DEF FeedInv
<1>8. CASE ProcessPending
  <2>0. /\ task = "reading" /\ wsPending' = {}
        /\ server' = IF conn = "up" THEN (server \cup Queued("subscribe")) \ Queued("unsubscribe")
                                    ELSE server
        /\ UNCHANGED <<task, conn, sent, dropped, running, reconnects>>
    BY <1>8 DEF ProcessPending, Still
  <2>1. server' \subseteq Topics
    BY <1>0, <2>0 DEF WsTypeOK, Queued
  <2>2. WsTypeOK'
    BY <1>0, <2>0, <2>1 DEF WsTypeOK
  <2>3. TaskInOrder'
    BY <1>0, <2>0 DEF TaskInOrder
  <2>4. Queued("unsubscribe")' = {}
    BY <2>0 DEF Queued
  <2>5. TopicsInOrder'
    <3>1. \A s : TopicOf(s)' = TopicOf(s)
      BY DEF TopicOf
    <3> QED BY <1>0, <2>0, <2>4, <3>1 DEF TopicsInOrder
  <2> QED BY <1>1, <2>2, <2>3, <2>5 DEF FeedInv
<1>9. CASE GoesSilent
  <2>0. /\ conn = "up" /\ conn' = "silent"
        /\ UNCHANGED <<task, server, wsPending, sent, dropped, running, reconnects>>
    BY <1>9 DEF GoesSilent, Still
  <2>1. WsTypeOK'
    BY <1>0, <2>0 DEF WsTypeOK
  <2>2. TaskInOrder'
    BY <1>0, <2>0 DEF TaskInOrder
  <2>3. TopicsInOrder'
    BY <1>0, <2>0 DEF TopicsInOrder, Queued, TopicOf
  <2> QED BY <1>1, <2>1, <2>2, <2>3 DEF FeedInv
<1> QED BY <1>3, <1>4, <1>5, <1>6, <1>7, <1>8, <1>9 DEF TaskSteps

LEMMA DispatchKeeps ==
  ASSUME FeedInv, NEW t \in Topics, Dispatch(t)
  PROVE  FeedInv'
<1>0. /\ UNCHANGED <<task, conn, server, wsPending, sent, dropped, running, reconnects>>
      /\ UNCHANGED <<session, wsSubs, calls, ops, stopped>>
      /\ missed' = missed \cup {s \in wsSubs : TopicOf(s) = t /\ ~Matches(s, t)}
  BY DEF Dispatch, TaskFrame
<1>1. WsTypeOK'
  BY <1>0 DEF FeedInv, WsTypeOK
<1>2. NobodyMissed'
  <2>1. wsSubs \subseteq Subs
    BY DEF FeedInv, WsTypeOK
  <2> QED BY <1>0, <2>1, TopicFacts DEF FeedInv, NobodyMissed
<1>3. TaskInOrder'
  BY <1>0 DEF FeedInv, TaskInOrder
<1>4. TopicsInOrder'
  BY <1>0 DEF FeedInv, TopicsInOrder, Queued, TopicOf
<1> QED BY <1>1, <1>2, <1>3, <1>4 DEF FeedInv

LEMMA FeedStutters ==
  ASSUME FeedInv, UNCHANGED wsVars
  PROVE  FeedInv'
<1>1. WsTypeOK'
  BY DEF FeedInv, WsTypeOK, wsVars
<1> QED BY <1>1 DEF FeedInv, NobodyMissed, TaskInOrder, TopicsInOrder, Queued, TopicOf, wsVars

LEMMA FeedStep ==
  ASSUME FeedInv, WsNext
  PROVE  FeedInv'
BY AskKeeps, CallKeeps, TaskKeeps, DispatchKeeps DEF WsNext

LEMMA FeedImplies ==
  ASSUME FeedInv
  PROVE  FeedSound
<1> USE WsBoundsAssumption
<1>1. ActiveTopicsServed
  <2> SUFFICES ASSUME task = "reading", conn = "up", wsPending = {}, NEW s \in wsSubs
               PROVE  TopicOf(s) \in server \cup dropped
    BY DEF ActiveTopicsServed
  <2>1. Queued("subscribe") = {}
    BY DEF Queued
  <2> QED BY <2>1 DEF FeedInv, TopicsInOrder
<1>2. StopReleases
  BY DEF FeedInv, TaskInOrder, StopReleases
<1> QED BY <1>1, <1>2 DEF FeedInv, FeedSound

\* At every moment of the connection task, whatever is subscribed, dropped, stopped or
\* resubscribed during it: what is active is served once the queue is empty, a message
\* misses candle subscriptions only, and a stop() that returned left nothing reading.
THEOREM FeedHolds == WsSpec => []FeedSound
BY FeedInitially, FeedStep, FeedStutters, FeedImplies, PTL DEF WsSpec

-----------------------------------------------------------------------------
(* MarketCaches *)

\* A message on the wire has an update id no larger than its sequence number, which
\* is at least 1; the book that is held is one of them, and its receive time is the
\* one of the cache.
MessagesInOrder ==
  /\ \A b \in wire : b \in Books /\ b.seq >= 1
  /\ issued.update <= issued.seq
  /\ held = None \/ held \in wire
  /\ newest \in Nat
  /\ stamp["order_book"] = bookAt

\* The buffer is the end of what was received.
TicksInOrder ==
  /\ traded \in Seq(Prices)
  /\ Len(ticks) = IF Len(traded) < MaxTicks THEN Len(traded) ELSE MaxTicks
  /\ \A n \in 1 .. Len(ticks) : ticks[n] = traded[Len(traded) - Len(ticks) + n]

CachesInv == CachesTypeOK /\ BookIsNewest /\ MessagesInOrder /\ TicksInOrder

LEMMA CachesInitially == CachesInit => CachesInv
<1> SUFFICES ASSUME CachesInit PROVE CachesInv
  OBVIOUS
<1> USE CachesAssumption
<1>1. None \in Books
  BY DEF None, Books
<1>2. <<>> \in Seq(Prices) /\ Len(<<>>) = 0
  OBVIOUS
<1>3. stamp \in [Caches -> Never .. MaxNow] /\ stamp["order_book"] = Never /\ Never \in Never .. MaxNow
  BY DEF CachesInit, Caches, Never
<1>4. engineUp \in BOOLEAN
  BY DEF CachesInit
<1>5. CachesTypeOK
  <2>1. 0 \in 0 .. MaxNow /\ 0 <= MaxTicks
    OBVIOUS
  <2> QED BY <1>1, <1>2, <1>3, <1>4, <2>1 DEF CachesInit, CachesTypeOK
<1>6. BookIsNewest /\ MessagesInOrder
  BY <1>3 DEF CachesInit, BookIsNewest, MessagesInOrder, None
<1>7. TicksInOrder
  BY <1>2 DEF CachesInit, TicksInOrder
<1> QED BY <1>5, <1>6, <1>7 DEF CachesInv

LEMMA PublishesKeeps ==
  ASSUME CachesInv, Publishes
  PROVE  CachesInv'
<1> USE CachesAssumption
<1>1. PICK update \in {issued.update + 1, 1} : issued' = [seq |-> issued.seq + 1, update |-> update]
  BY DEF Publishes
<1>2. /\ wire' = wire \cup {issued'} /\ issued.seq < MaxBooks
      /\ UNCHANGED <<held, last, mark, stamp, ticks, engineUp, clock, newest, bookAt, traded>>
  BY DEF Publishes
<1>3. issued \in Books /\ issued.update <= issued.seq
  BY DEF CachesInv, CachesTypeOK, MessagesInOrder
<1>4. issued' \in Books /\ issued'.seq >= 1 /\ issued'.update <= issued'.seq
  BY <1>1, <1>2, <1>3 DEF Books
<1>5. CachesTypeOK'
  BY <1>2, <1>4 DEF CachesInv, CachesTypeOK
<1>6. BookIsNewest' /\ MessagesInOrder'
  BY <1>2, <1>4 DEF CachesInv, BookIsNewest, MessagesInOrder
<1>7. TicksInOrder'
  BY <1>2 DEF CachesInv, TicksInOrder
<1> QED BY <1>5, <1>6, <1>7 DEF CachesInv

\* A message that is not older replaces the book, its number and its time together.
LEMMA BookKeeps ==
  ASSUME CachesInv, NEW item \in wire, HandleBook(item)
  PROVE  CachesInv'
<1> USE CachesAssumption
<1>0. /\ held' = IF BookIsStale(item) THEN held ELSE item
      /\ stamp' = Touched(item)
      /\ newest' = IF item.seq > newest THEN item.seq ELSE newest
      /\ bookAt' = IF held' = held THEN bookAt ELSE clock
      /\ UNCHANGED <<last, mark, ticks, engineUp, wire, issued, clock, traded>>
  BY DEF HandleBook
<1>1. /\ item \in Books /\ item.seq >= 1 /\ held \in Books /\ held.seq = newest
      /\ stamp \in [Caches -> Never .. MaxNow] /\ clock \in 0 .. MaxNow /\ clock \in Never .. MaxNow
      /\ stamp["order_book"] = bookAt /\ bookAt \in Never .. MaxNow /\ "order_book" \in Caches
  BY DEF CachesInv, CachesTypeOK, MessagesInOrder, BookIsNewest, Never, Caches
<1>2. item.seq \in Nat /\ held.seq \in Nat /\ item.update \in Nat /\ held.update \in Nat
  BY <1>1 DEF Books
<1>3. /\ held' \in Books /\ held'.seq = newest' /\ newest' \in Nat
      /\ stamp' \in [Caches -> Never .. MaxNow] /\ bookAt' \in Never .. MaxNow
      /\ stamp'["order_book"] = bookAt' /\ (held' = None \/ held' \in wire)
  <2>1. CASE BookIsStale(item)
    <3>1. item.seq <= held.seq
      BY <1>2, <2>1 DEF BookIsStale
    <3>2. held' = held /\ stamp' = stamp /\ bookAt' = bookAt
      BY <1>0, <2>1 DEF Touched
    <3> QED BY <1>0, <1>1, <1>2, <3>1, <3>2 DEF CachesInv, MessagesInOrder
  <2>2. CASE ~BookIsStale(item)
    <3>1. item # held
      <4>1. CASE held = None
        BY <1>1, <4>1 DEF None
      <4>2. CASE held # None
        BY <1>2, <2>2, <4>2 DEF BookIsStale
      <4> QED BY <4>1, <4>2
    <3>2. item.seq >= held.seq
      <4>1. CASE held = None
        BY <1>2, <4>1 DEF None
      <4>2. CASE held # None
        BY <1>2, <2>2, <4>2 DEF BookIsStale
      <4> QED BY <4>1, <4>2
    <3>3. held' = item /\ stamp' = [stamp EXCEPT !["order_book"] = clock] /\ bookAt' = clock
      BY <1>0, <2>2, <3>1 DEF Touched
    <3>4. newest' = item.seq
      BY <1>0, <1>1, <1>2, <3>2
    <3>5. stamp' \in [Caches -> Never .. MaxNow] /\ stamp'["order_book"] = clock
      BY <1>1, <3>3
    <3> QED BY <1>1, <1>2, <3>3, <3>4, <3>5
  <2> QED BY <2>1, <2>2
<1>4. CachesTypeOK'
  BY <1>0, <1>3 DEF CachesInv, CachesTypeOK
<1>5. BookIsNewest' /\ MessagesInOrder'
  BY <1>0, <1>3 DEF CachesInv, BookIsNewest, MessagesInOrder
<1>6. TicksInOrder'
  BY <1>0 DEF CachesInv, TicksInOrder
<1> QED BY <1>4, <1>5, <1>6 DEF CachesInv

\* PriceBuffer.append: a price at the end, and the oldest one goes when it is full.
LEMMA AppendTickFacts ==
  ASSUME NEW s \in Seq(Prices), NEW x \in Prices, Len(s) <= MaxTicks
  PROVE  /\ AppendTick(s, x) \in Seq(Prices)
         /\ Len(AppendTick(s, x)) = IF Len(s) < MaxTicks THEN Len(s) + 1 ELSE MaxTicks
         /\ \A n \in 1 .. Len(AppendTick(s, x)) :
              AppendTick(s, x)[n] = Append(s, x)[Len(s) + 1 - Len(AppendTick(s, x)) + n]
<1> USE CachesAssumption
<1> DEFINE t == Append(s, x)
           m == IF Len(t) > MaxTicks THEN 2 ELSE 1
<1>1. t \in Seq(Prices) /\ Len(t) = Len(s) + 1 /\ Len(s) \in Nat
  OBVIOUS
<1>2. AppendTick(s, x) = SubSeq(t, m, Len(t))
  BY DEF AppendTick
<1>3. m \in 1 .. 2 /\ m <= Len(t)
  BY <1>1
<1>4. \A n \in m .. Len(t) : t[n] \in Prices
  BY <1>1, <1>3
<1> HIDE DEF t
<1>5. /\ SubSeq(t, m, Len(t)) \in Seq(Prices)
      /\ Len(SubSeq(t, m, Len(t))) = IF m <= Len(t) THEN Len(t) - m + 1 ELSE 0
      /\ \A n \in 1 .. Len(t) - m + 1 : SubSeq(t, m, Len(t))[n] = t[m + n - 1]
  <2>1. m \in Int /\ Len(t) \in Int
    BY <1>1, <1>3
  <2> HIDE DEF m
  <2> QED BY <1>4, <2>1, SubSeqProperties
<1>6. Len(t) - m + 1 = IF Len(s) < MaxTicks THEN Len(s) + 1 ELSE MaxTicks
  <2>1. CASE Len(s) < MaxTicks
    <3>1. m = 1
      BY <1>1, <2>1
    <3> QED BY <1>1, <2>1, <3>1
  <2>2. CASE ~(Len(s) < MaxTicks)
    <3>1. Len(s) = MaxTicks /\ m = 2
      BY <1>1, <2>2
    <3> QED BY <1>1, <2>2, <3>1
  <2> QED BY <2>1, <2>2
<1>7. Len(AppendTick(s, x)) = Len(t) - m + 1
  BY <1>2, <1>3, <1>5
<1> HIDE DEF m
<1>8. ASSUME NEW n \in 1 .. Len(t) - m + 1
      PROVE  AppendTick(s, x)[n] = t[Len(s) + 1 - Len(AppendTick(s, x)) + n]
  <2>1. m + n - 1 = Len(s) + 1 - Len(AppendTick(s, x)) + n
    BY <1>1, <1>3, <1>7
  <2> QED BY <1>2, <1>5, <1>8, <2>1
<1> QED BY <1>2, <1>5, <1>6, <1>7, <1>8 DEF t

LEMMA TickerKeeps ==
  ASSUME CachesInv, NEW price \in Prices, NEW markPrice \in Prices, HandleTicker(price, markPrice)
  PROVE  CachesInv'
<1> USE CachesAssumption
<1>0. /\ last' = price /\ mark' = markPrice
      /\ stamp' = [stamp EXCEPT !["ticker"] = clock, !["mark_price"] = clock]
      /\ ticks' = IF price > 0 THEN AppendTick(ticks, price) ELSE ticks
      /\ traded' = IF price > 0 THEN Append(traded, price) ELSE traded
      /\ UNCHANGED <<held, engineUp, wire, issued, clock, newest, bookAt>>
  BY DEF HandleTicker
<1>1. /\ ticks \in Seq(Prices) /\ Len(ticks) <= MaxTicks /\ traded \in Seq(Prices)
      /\ Len(ticks) = IF Len(traded) < MaxTicks THEN Len(traded) ELSE MaxTicks
      /\ \A n \in 1 .. Len(ticks) : ticks[n] = traded[Len(traded) - Len(ticks) + n]
      /\ stamp \in [Caches -> Never .. MaxNow] /\ clock \in 0 .. MaxNow
  BY DEF CachesInv, CachesTypeOK, TicksInOrder
<1>2. stamp' \in [Caches -> Never .. MaxNow] /\ stamp'["order_book"] = stamp["order_book"]
  <2>1. clock \in Never .. MaxNow
    BY <1>1 DEF Never
  <2> QED BY <1>0, <1>1, <2>1 DEF Caches
<1>3. ticks' \in Seq(Prices) /\ Len(ticks') <= MaxTicks /\ TicksInOrder'
  <2>1. CASE ~(price > 0)
    <3>1. ticks' = ticks /\ traded' = traded
      BY <1>0, <2>1
    <3> QED BY <1>1, <3>1 DEF TicksInOrder
  <2>2. CASE price > 0
    <3> DEFINE a == AppendTick(ticks, price)
    <3>0. ticks' = a /\ traded' = Append(traded, price)
      BY <1>0, <2>2
    <3>1. /\ a \in Seq(Prices) /\ Len(a) = IF Len(ticks) < MaxTicks THEN Len(ticks) + 1 ELSE MaxTicks
          /\ \A n \in 1 .. Len(a) : a[n] = Append(ticks, price)[Len(ticks) + 1 - Len(a) + n]
      BY <1>1, AppendTickFacts
    <3> HIDE DEF a
    <3>2. /\ Append(traded, price) \in Seq(Prices) /\ Len(Append(traded, price)) = Len(traded) + 1
          /\ \A n \in 1 .. Len(traded) : Append(traded, price)[n] = traded[n]
          /\ Append(traded, price)[Len(traded) + 1] = price
      BY <1>1
    <3>3. /\ \A n \in 1 .. Len(ticks) : Append(ticks, price)[n] = ticks[n]
          /\ Append(ticks, price)[Len(ticks) + 1] = price
      BY <1>1
    <3>4. Len(ticks) \in Nat /\ Len(traded) \in Nat /\ Len(a) \in Nat
      BY <1>1, <3>1
    <3>5. Len(a) = (IF Len(traded) + 1 < MaxTicks THEN Len(traded) + 1 ELSE MaxTicks) /\ Len(a) <= MaxTicks
      BY <1>1, <3>1, <3>4
    <3>6. ASSUME NEW n \in 1 .. Len(a)
          PROVE  a[n] = Append(traded, price)[Len(traded) + 1 - Len(a) + n]
      <4> DEFINE k == Len(ticks) + 1 - Len(a) + n
      <4>0. Len(a) \in {Len(ticks), Len(ticks) + 1}
        BY <1>1, <3>1, <3>4
      <4>1. k \in 1 .. (Len(ticks) + 1) /\ a[n] = Append(ticks, price)[k]
        BY <3>1, <3>4, <4>0
      <4>2. Len(traded) + 1 - Len(a) + n = Len(traded) - Len(ticks) + k
        BY <3>4
      <4>3. Len(ticks) <= Len(traded)
        BY <1>1, <3>4
      <4> HIDE DEF k
      <4>4. CASE k = Len(ticks) + 1
        <5>1. Len(traded) - Len(ticks) + k = Len(traded) + 1
          BY <3>4, <4>4
        <5> QED BY <3>2, <3>3, <4>1, <4>2, <4>4, <5>1
      <4>5. CASE k \in 1 .. Len(ticks)
        <5>1. Len(traded) - Len(ticks) + k \in 1 .. Len(traded)
          BY <3>4, <4>3, <4>5
        <5> QED BY <1>1, <3>2, <3>3, <4>1, <4>2, <4>5, <5>1
      <4>6. k = Len(ticks) + 1 \/ k \in 1 .. Len(ticks)
        BY <3>4, <4>1
      <4> QED BY <4>4, <4>5, <4>6
    <3>7. TicksInOrder'
      <4>1. traded' \in Seq(Prices) /\ Len(traded') = Len(traded) + 1 /\ ticks' = a
        BY <3>0, <3>2
      <4>2. Len(ticks') = IF Len(traded') < MaxTicks THEN Len(traded') ELSE MaxTicks
        BY <3>5, <4>1
      <4>3. \A n \in 1 .. Len(ticks') : ticks'[n] = traded'[Len(traded') - Len(ticks') + n]
        <5> SUFFICES ASSUME NEW n \in 1 .. Len(a)
                     PROVE  a[n] = Append(traded, price)[Len(traded') - Len(a) + n]
          BY <3>0
        <5>1. Len(traded') - Len(a) + n = Len(traded) + 1 - Len(a) + n
          BY <4>1
        <5> QED BY <3>6, <5>1
      <4> QED BY <4>1, <4>2, <4>3 DEF TicksInOrder
    <3> QED BY <3>0, <3>1, <3>5, <3>7
  <2> QED BY <2>1, <2>2
<1>4. CachesTypeOK'
  BY <1>0, <1>2, <1>3 DEF CachesInv, CachesTypeOK
<1>5. BookIsNewest' /\ MessagesInOrder'
  BY <1>0, <1>2 DEF CachesInv, BookIsNewest, MessagesInOrder
<1> QED BY <1>3, <1>4, <1>5 DEF CachesInv

LEMMA CachesStep ==
  ASSUME CachesInv, CachesNext \/ UNCHANGED cacheVars
  PROVE  CachesInv'
<1> USE CachesAssumption
<1>1. CASE EngineStarts
  <2>1. /\ ticks' = <<>> /\ traded' = <<>> /\ engineUp' \in BOOLEAN
        /\ UNCHANGED <<held, last, mark, stamp, wire, issued, clock, newest, bookAt>>
    BY <1>1 DEF EngineStarts
  <2>2. <<>> \in Seq(Prices) /\ Len(<<>>) = 0
    OBVIOUS
  <2>3. CachesTypeOK'
    BY <2>1, <2>2 DEF CachesInv, CachesTypeOK
  <2>4. BookIsNewest' /\ MessagesInOrder'
    BY <2>1 DEF CachesInv, BookIsNewest, MessagesInOrder
  <2>5. TicksInOrder'
    BY <2>1, <2>2 DEF TicksInOrder
  <2> QED BY <2>3, <2>4, <2>5 DEF CachesInv
<1>2. CASE EngineStops \/ CacheTick \/ UNCHANGED cacheVars
  <2>1. UNCHANGED <<held, last, mark, stamp, ticks, wire, issued, newest, bookAt, traded>>
    BY <1>2 DEF EngineStops, CacheTick, cacheVars
  <2>2. engineUp' = engineUp \/ engineUp' = FALSE
    BY <1>2 DEF EngineStops, CacheTick, cacheVars
  <2>3. clock' \in 0 .. MaxNow
    BY <1>2 DEF EngineStops, CacheTick, cacheVars, CachesInv, CachesTypeOK
  <2>4. CachesTypeOK'
    <3>1. engineUp' \in BOOLEAN
      BY <2>2 DEF CachesInv, CachesTypeOK
    <3> QED BY <2>1, <2>3, <3>1 DEF CachesInv, CachesTypeOK
  <2>5. BookIsNewest' /\ MessagesInOrder' /\ TicksInOrder'
    BY <2>1 DEF CachesInv, BookIsNewest, MessagesInOrder, TicksInOrder
  <2> QED BY <2>4, <2>5 DEF CachesInv
<1> QED BY <1>1, <1>2, PublishesKeeps, BookKeeps, TickerKeeps DEF CachesNext

LEMMA CachesImplies ==
  ASSUME CachesInv
  PROVE  CachesSound
<1> USE CachesAssumption
<1>1. BookReadIsFresh
  <2> SUFFICES ASSUME Get("order_book") # {} PROVE clock - bookAt <= MaxAge
    BY DEF BookReadIsFresh
  <2>1. ~IsStale("order_book")
    BY DEF Get
  <2>2. stamp["order_book"] = bookAt /\ bookAt \in Never .. MaxNow /\ clock \in 0 .. MaxNow
    BY DEF CachesInv, MessagesInOrder, CachesTypeOK
  <2> QED BY <2>1, <2>2 DEF IsStale, Never
<1>2. BufferHoldsLatest
  <2> SUFFICES ASSUME NEW n \in 1 .. MaxTicks, n <= Len(traded)
               PROVE  GetRecent(n) = [i \in 1 .. n |-> traded[Len(traded) - i + 1]]
    BY DEF BufferHoldsLatest
  <2>1. /\ ticks \in Seq(Prices) /\ traded \in Seq(Prices)
        /\ Len(ticks) = IF Len(traded) < MaxTicks THEN Len(traded) ELSE MaxTicks
        /\ \A k \in 1 .. Len(ticks) : ticks[k] = traded[Len(traded) - Len(ticks) + k]
    BY DEF CachesInv, CachesTypeOK, TicksInOrder
  <2>2. Len(ticks) \in Nat /\ Len(traded) \in Nat /\ n \in Nat
    BY <2>1
  <2>3. n <= Len(ticks)
    BY <2>1, <2>2
  <2> DEFINE m == Len(ticks) - n + 1
             r == SubSeq(ticks, m, Len(ticks))
  <2>4. GetRecent(n) = Reverse(r)
    <3>1. (IF n < Len(ticks) THEN n ELSE Len(ticks)) = n
      BY <2>2, <2>3
    <3> QED BY <3>1 DEF GetRecent
  <2>5. /\ r \in Seq(Prices) /\ Len(r) = n
        /\ \A i \in 1 .. n : r[i] = ticks[m + i - 1]
    <3>1. m \in 1 .. Len(ticks) /\ \A i \in m .. Len(ticks) : ticks[i] \in Prices
      BY <2>1, <2>2, <2>3
    <3>2. Len(ticks) - m + 1 = n
      BY <2>2
    <3>3. m \in Int /\ Len(ticks) \in Int /\ m <= Len(ticks)
      BY <2>2, <3>1
    <3> HIDE DEF m
    <3> QED BY <3>1, <3>2, <3>3, SubSeqProperties
  <2>6. Reverse(r) = [i \in 1 .. n |-> r[(n - i) + 1]]
    BY <2>5 DEF Reverse
  <2> HIDE DEF r
  <2>7. ASSUME NEW i \in 1 .. n PROVE r[(n - i) + 1] = traded[Len(traded) - i + 1]
    <3>1. (n - i) + 1 \in 1 .. n
      BY <2>2
    <3>2. m + ((n - i) + 1) - 1 = Len(ticks) - i + 1 /\ Len(ticks) - i + 1 \in 1 .. Len(ticks)
      BY <2>2, <2>3
    <3>3. r[(n - i) + 1] = ticks[Len(ticks) - i + 1]
      <4> HIDE DEF m
      <4> QED BY <2>5, <3>1, <3>2
    <3>4. Len(traded) - Len(ticks) + (Len(ticks) - i + 1) = Len(traded) - i + 1
      BY <2>2
    <3>5. ticks[Len(ticks) - i + 1] = traded[Len(traded) - Len(ticks) + (Len(ticks) - i + 1)]
      BY <2>1, <3>2
    <3> QED BY <3>3, <3>4, <3>5
  <2> QED BY <2>4, <2>6, <2>7
<1> QED BY <1>1, <1>2 DEF CachesInv, CachesSound

\* Whatever messages are lost, repeated or overtaken and however update ids start over:
\* the newest book received is held, no reader is given one older than it asked for, and
\* the price buffer holds the latest prices, also when it has wrapped.
THEOREM CachesHold == CachesSpec => []CachesSound
BY CachesInitially, CachesStep, CachesImplies, PTL DEF CachesSpec

-----------------------------------------------------------------------------
(* Both beside the order channel, in the specification the exchange run checks. *)

LEMMA ExchangePartsStep ==
  ASSUME FeedInv, CachesInv, [ExchangeNext]_<<vars, wsVars, cacheVars>>
  PROVE  FeedInv' /\ CachesInv'
<1>1. WsNext \/ UNCHANGED wsVars
  BY DEF ExchangeNext
<1>2. CachesNext \/ UNCHANGED cacheVars
  BY DEF ExchangeNext
<1> QED BY <1>1, <1>2, FeedStep, FeedStutters, CachesStep

\* The connection's promises hold there (market_data/websocket.py).
THEOREM ExchangeFeedHolds == ExchangeSpec => []FeedSound
<1>1. ExchangeInit => FeedInv /\ CachesInv
  BY FeedInitially, CachesInitially DEF ExchangeInit
<1> QED BY <1>1, ExchangePartsStep, FeedImplies, PTL DEF ExchangeSpec

\* And so do those of the caches (market_data/engine.py, buffers.py).
THEOREM ExchangeCachesHold == ExchangeSpec => []CachesSound
<1>1. ExchangeInit => FeedInv /\ CachesInv
  BY FeedInitially, CachesInitially DEF ExchangeInit
<1> QED BY <1>1, ExchangePartsStep, CachesImplies, PTL DEF ExchangeSpec
=============================================================================
