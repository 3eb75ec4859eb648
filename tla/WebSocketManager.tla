-------------------------- MODULE WebSocketManager --------------------------
(***************************************************************************)
(* The market-data connection (market_data/websocket.py): subscriptions,   *)
(* the queue of pending operations, and the one task that connects, reads  *)
(* and reconnects.                                                         *)
(*                                                                         *)
(* Subscriptions are for one symbol; topics of different symbols do not    *)
(* touch.  aiohttp hands no pong frame to the caller and the exchange      *)
(* answers {"op": "ping"} with a text message, so the branch that resets   *)
(* _reconnect_count is never taken and last_pong stays at the time of the  *)
(* connection.  The backoff is a wait of some length.                      *)
(***************************************************************************)
EXTENDS Integers, FiniteSets

CONSTANTS
  Subs,            \* subscription ids
  Channel,         \* Channel[s]: the logical channel s asks for
  MaxReconnects,   \* ws_max_reconnects
  MaxOps           \* bound: subscribe and unsubscribe calls

ChannelNames == {"tickers", "mark-price", "books5", "candle1m"}
ASSUME ChannelAssumption == Channel \in [Subs -> ChannelNames]
ASSUME WsBoundsAssumption == MaxReconnects \in Nat /\ MaxOps \in Nat

\* channel_to_topic and topic_to_channel_symbol: mark-price shares the ticker
\* feed; a candle channel loses its interval on the way back.
Topic(c) ==
  CASE c \in {"tickers", "mark-price"} -> "tickers"
    [] c = "books5"                    -> "orderbook"
    [] OTHER                           -> "kline"
ChannelOf(t) ==
  CASE t = "tickers"   -> "tickers"
    [] t = "orderbook" -> "books5"
    [] OTHER           -> "candle"
Topics == {"tickers", "orderbook", "kline"}
TopicOf(s) == Topic(Channel[s])

VARIABLES
  running,     \* _running
  session,     \* the HTTP session is open
  task,        \* where _run_connection is
  conn,        \* the network's view of the connection
  server,      \* topics the exchange sends on this connection
  wsSubs,      \* _subscriptions
  wsPending,   \* _pending_ops, as a set: who takes them out groups them by kind
  sent,        \* topics of the snapshot just sent
  reconnects,  \* _reconnect_count
  calls,       \* of stop() and resubscribe_all(), the ones waiting for the task
  ops,         \* calls still to come
  \* history, not read by any action:
  stopped,     \* stop() has returned
  dropped,     \* topics with an unsubscribe asked for since the snapshot, or queued then
  missed       \* subscriptions that did not get a message of their topic

wsVars == <<running, session, task, conn, server, wsSubs, wsPending, sent,
            reconnects, calls, ops, stopped, dropped, missed>>

WsInit ==
  /\ running = FALSE /\ session = FALSE /\ task = "none" /\ conn = "none"
  /\ server = {} /\ wsSubs = {} /\ wsPending = {} /\ sent = {}
  /\ reconnects = 0 /\ calls = {} /\ ops = MaxOps
  /\ stopped = FALSE /\ dropped = {} /\ missed = {}

\* resubscribe_all holds the lock until the old task has ended.
LockFree == "resubscribe" \notin calls

-----------------------------------------------------------------------------
(* Calls *)

WsStart ==
  /\ ~running /\ ~stopped /\ task = "none" /\ ~session
  /\ running' = TRUE /\ session' = TRUE /\ task' = "loop"
  /\ UNCHANGED <<conn, server, wsSubs, wsPending, sent, reconnects, calls, ops, stopped, dropped, missed>>

Subscribe(s) ==
  /\ s \notin wsSubs /\ LockFree /\ ops > 0 /\ ops' = ops - 1
  /\ wsSubs' = wsSubs \cup {s}
  /\ wsPending' = wsPending \cup {[op |-> "subscribe", topic |-> TopicOf(s)]}
  /\ UNCHANGED <<running, session, task, conn, server, sent, reconnects, calls, stopped, dropped, missed>>

Unsubscribe(s) ==
  /\ s \in wsSubs /\ LockFree /\ ops > 0 /\ ops' = ops - 1
  /\ wsSubs' = wsSubs \ {s}
  /\ wsPending' = wsPending \cup {[op |-> "unsubscribe", topic |-> TopicOf(s)]}
  /\ dropped' = dropped \cup {TopicOf(s)}
  /\ UNCHANGED <<running, session, task, conn, server, sent, reconnects, calls, stopped, missed>>

\* Close the connection and cancel the task, which unwinds at its next step.
Cancelled ==
  /\ task' = IF task = "none" THEN "none" ELSE "unwinding"
  /\ conn' = "none" /\ server' = {} /\ sent' = {}

StopCalled ==
  /\ running
  /\ running' = FALSE /\ calls' = calls \cup {"stop"}
  /\ Cancelled
  /\ UNCHANGED <<session, wsSubs, wsPending, reconnects, ops, stopped, dropped, missed>>

\* After a feed that gave up stop() returns at once: _running is FALSE.
StopReturnsAtOnce ==
  /\ ~running /\ session /\ ~stopped /\ "stop" \notin calls
  /\ stopped' = TRUE
  /\ UNCHANGED <<running, session, task, conn, server, wsSubs, wsPending, sent, reconnects, calls, ops, dropped, missed>>

\* _cancel_connection_task waits for the task, unless resubscribe_all took it;
\* then the session is closed.
StopReturns ==
  /\ "stop" \in calls /\ (task = "none" \/ ~LockFree)
  /\ session' = FALSE /\ stopped' = TRUE /\ calls' = calls \ {"stop"}
  /\ UNCHANGED <<running, task, conn, server, wsSubs, wsPending, sent, reconnects, ops, dropped, missed>>

ResubscribeAll ==
  /\ session /\ LockFree /\ ops > 0 /\ ops' = ops - 1
  /\ calls' = calls \cup {"resubscribe"}
  /\ Cancelled
  /\ UNCHANGED <<running, session, wsSubs, wsPending, reconnects, stopped, dropped, missed>>

ResubscribeRestarts ==
  /\ ~LockFree /\ task = "none"
  /\ task' = "loop" /\ calls' = calls \ {"resubscribe"}
  /\ UNCHANGED <<running, session, conn, server, wsSubs, wsPending, sent, reconnects, ops, stopped, dropped, missed>>

-----------------------------------------------------------------------------
(* _run_connection *)

TaskFrame == UNCHANGED <<session, wsSubs, calls, ops, stopped>>
Still == UNCHANGED <<running, reconnects, missed>>

Unwinds ==
  /\ task = "unwinding" /\ task' = "none"
  /\ UNCHANGED <<conn, server, wsPending, sent, dropped>> /\ TaskFrame /\ Still

\* The top of the loop: end, sleep while nobody subscribed, or connect.
\* Mutant: the task ends when there is no subscription.
ReturnsWithoutSubs ==
  /\ task = "loop" /\ LockFree
  /\ task' = IF running /\ wsSubs # {} THEN "connecting" ELSE "none"
  /\ UNCHANGED <<conn, server, wsPending, sent, dropped>> /\ TaskFrame /\ Still
Loop ==
  /\ task = "loop" /\ LockFree
  /\ ~running \/ wsSubs # {}
  /\ task' = IF running THEN "connecting" ELSE "none"
  /\ UNCHANGED <<conn, server, wsPending, sent, dropped>> /\ TaskFrame /\ Still

\* ws_connect fails.
ConnectFails ==
  /\ task = "connecting" /\ task' = "lost"
  /\ UNCHANGED <<conn, server, wsPending, sent, dropped>> /\ TaskFrame /\ Still

\* ws_connect answers; _subscribe_all_topics sends a subscribe for every topic.
Queued(op) == {t \in Topics : [op |-> op, topic |-> t] \in wsPending}
Connects ==
  /\ task = "connecting" /\ LockFree
  /\ task' = "snapshot" /\ conn' = "up"
  /\ sent' = {TopicOf(s) : s \in wsSubs}
  /\ server' = sent'
  /\ dropped' = Queued("unsubscribe")
  /\ UNCHANGED wsPending /\ TaskFrame /\ Still

\* Then it drops the queued subscribes that the snapshot covers.
\* Mutant: it drops every queued subscribe.
KeptUnsubscribes == {o \in wsPending : o.op = "unsubscribe"}
Kept == {o \in wsPending : o.op = "unsubscribe" \/ o.topic \notin sent}
SnapshotSent ==
  /\ task = "snapshot" /\ task' = "reading"
  /\ wsPending' = IF sent = {} THEN wsPending ELSE Kept
  /\ sent' = {}
  /\ UNCHANGED <<conn, server, dropped>> /\ TaskFrame /\ Still

\* _process_pending_ops: all subscribes, then all unsubscribes.
ProcessPending ==
  /\ task = "reading" /\ wsPending # {}
  /\ wsPending' = {}
  /\ server' = IF conn = "up" THEN (server \cup Queued("subscribe")) \ Queued("unsubscribe")
                              ELSE server
  /\ UNCHANGED <<task, conn, sent, dropped>> /\ TaskFrame /\ Still

\* _handle_message: a data message goes to the subscriptions of its channel.
Matches(s, t) ==
  \/ Channel[s] = ChannelOf(t)
  \/ Channel[s] = "mark-price" /\ ChannelOf(t) = "tickers"
Dispatch(t) ==
  /\ task = "reading" /\ conn = "up" /\ t \in server /\ LockFree
  /\ missed' = missed \cup {s \in wsSubs : TopicOf(s) = t /\ ~Matches(s, t)}
  /\ UNCHANGED <<task, conn, server, wsPending, sent, dropped, running, reconnects>> /\ TaskFrame

\* Leave _connect_and_read: a close frame, a ping that cannot be sent, or the
\* dead-connection check.  The check is reached only after a message and finds
\* no pong since the connection was made.
ReadEnds ==
  /\ task = "reading"
  /\ task' = "lost" /\ conn' = "none" /\ server' = {}
  /\ UNCHANGED <<wsPending, sent, dropped>> /\ TaskFrame /\ Still

\* Count the reconnect: give up, or wait and go round.
CountReconnect ==
  /\ task = "lost" /\ LockFree
  /\ reconnects' = reconnects + 1
  /\ IF reconnects' > MaxReconnects
       THEN task' = "none" /\ running' = FALSE
       ELSE task' = "loop" /\ UNCHANGED running
  /\ UNCHANGED <<conn, server, wsPending, sent, dropped, missed>> /\ TaskFrame

\* The network fails without a word; only a failing ping tells.
GoesSilent ==
  /\ conn = "up" /\ conn' = "silent"
  /\ UNCHANGED <<task, server, wsPending, sent, dropped>> /\ TaskFrame /\ Still

-----------------------------------------------------------------------------
TaskSteps ==
  \/ Unwinds \/ Loop \/ Connects \/ SnapshotSent \/ ProcessPending \/ CountReconnect

WsNext ==
  \/ WsStart \/ StopCalled \/ StopReturnsAtOnce \/ StopReturns
  \/ ResubscribeAll \/ ResubscribeRestarts
  \/ (\E s \in Subs : Subscribe(s) \/ Unsubscribe(s))
  \/ TaskSteps \/ ConnectFails \/ ReadEnds \/ GoesSilent
  \/ (\E t \in Topics : Dispatch(t))

\* The event loop runs the task and whoever waits for it; every connection is
\* found dead in the end, by the check if messages come and by TCP if not.
WsFairness ==
  WF_wsVars(TaskSteps) /\ WF_wsVars(ReadEnds)
    /\ WF_wsVars(ResubscribeRestarts \/ StopReturns)

WsSpec == WsInit /\ [][WsNext]_wsVars /\ WsFairness

-----------------------------------------------------------------------------
(* Properties *)

WsTypeOK ==
  /\ running \in BOOLEAN /\ session \in BOOLEAN /\ stopped \in BOOLEAN
  /\ task \in {"none", "loop", "connecting", "snapshot", "reading", "lost", "unwinding"}
  /\ conn \in {"none", "up", "silent"}
  /\ server \in SUBSET Topics /\ sent \in SUBSET Topics /\ dropped \in SUBSET Topics
  /\ wsSubs \in SUBSET Subs /\ missed \in SUBSET Subs
  /\ wsPending \subseteq [op : {"subscribe", "unsubscribe"}, topic : Topics]
  /\ reconnects \in 0 .. MaxReconnects + 1
  /\ calls \in SUBSET {"stop", "resubscribe"} /\ ops \in 0 .. MaxOps

\* A subscribe() at any moment, while the snapshot is being sent included, is not
\* lost: once the queue is empty every active topic for which no unsubscribe was
\* asked on this connection is served.
ActiveTopicsServed ==
  task = "reading" /\ conn = "up" /\ wsPending = {} =>
    \A s \in wsSubs : TopicOf(s) \in server \cup dropped

\* The task outlives times without a subscription, failed connections and
\* resubscribe_all: who subscribes to a feed that goes on running is served.
SubscriptionServed ==
  \A s \in Subs :
    (running /\ s \in wsSubs) ~> (TopicOf(s) \in server \cup dropped \/ s \notin wsSubs \/ ~running)

\* A message reaches every subscription of its topic, except the candle
\* subscriptions: the way back from the topic loses their interval.
NobodyMissed == \A s \in missed : Channel[s] = "candle1m"

\* When stop() has returned the session is closed and nothing reads or connects,
\* also if resubscribe_all was under way.  A feed that gave up keeps its session.
StopReleases ==
  stopped => /\ session => reconnects > MaxReconnects
             /\ task \notin {"connecting", "snapshot", "reading"} /\ conn = "none"

\* What the connection promises its subscribers at every moment.
FeedSound == WsTypeOK /\ ActiveTopicsServed /\ NobodyMissed /\ StopReleases
=============================================================================
