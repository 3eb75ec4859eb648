----------------------------- MODULE MCExchange -----------------------------
(***************************************************************************)
(* The worker's two channels to the exchange: orders through the gateway   *)
(* over REST, and market data over the WebSocket into the caches.  They    *)
(* share no state; each is explored while the others rest.                 *)
(***************************************************************************)
EXTENDS OrderGateway, WebSocketManager, MarketCaches

CONSTANTS ticker, markSub, candle

MCChannel == [s \in Subs |-> CASE s = ticker  -> "tickers"
                               [] s = markSub -> "mark-price"
                               [] OTHER       -> "candle1m"]

ExchangeInit == Init /\ WsInit /\ CachesInit

\* A step of one part while the others rest.
ExchangeNext ==
  \/ Next /\ WsInit /\ CachesInit /\ UNCHANGED <<wsVars, cacheVars>>
  \/ WsNext /\ Init /\ CachesInit /\ UNCHANGED <<vars, cacheVars>>
  \/ CachesNext /\ Init /\ WsInit /\ UNCHANGED <<vars, wsVars>>

ExchangeSpec ==
  /\ ExchangeInit
  /\ [][ExchangeNext]_<<vars, wsVars, cacheVars>>
  /\ Fairness /\ WsFairness
=============================================================================
