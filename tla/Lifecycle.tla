------------------------------ MODULE Lifecycle ------------------------------
(***************************************************************************)
(* The life of one worker process (orchestrator.py start, stop,            *)
(* run_forever, _shutdown_all; _bootstrap_mixin.py; bot.py start, stop;    *)
(* health.py).  start() runs the initialisation steps in a fixed order;    *)
(* each one may assign a subsystem, open it, or raise, and a raise unwinds *)
(* what is there.  run_forever then trades until SIGTERM sets the stop     *)
(* event, cancels the cycle task and unwinds.  The unwinding calls every   *)
(* subsystem's own stop method, swallows what it raises and clears the     *)
(* attribute.                                                              *)
(***************************************************************************)
EXTENDS Naturals, Sequences, FiniteSets

CONSTANTS
    Pairs,         \* trading.underlyings
    MaxPolls,      \* max_polling_retries (3)
    MaxRaises      \* bound on the stop methods that raise

ASSUME LifecycleAssumption ==
    IsFiniteSet(Pairs) /\ MaxPolls \in Nat \ {0} /\ MaxRaises \in Nat

VARIABLES
    lPhase,     \* "starting", "running" (the cycle task exists), "unwinding", "over"
    lAt,        \* the step of start() or of _shutdown_all that is next
    lHeld,      \* subsystem attributes that are not None
    lOpen,      \* subsystems that hold connections, tasks or ports
    lFaulty,    \* subsystems whose own stop method raised
    lSignal,    \* _stop_event
    lConf,      \* which optional parts the configuration enables
    lBot,       \* the Telegram application: "none", "app" (started), "polling"
    lPolls,     \* polling attempts made
    lLeverage,  \* per pair: does the exchange have the leverage the bot asks for
    lHolding,   \* pairs with an open position at start-up
    lFailed,    \* pairs whose leverage or margin mode the exchange refused to set
    lSeen       \* held pairs whose leverage the account setup read back and compared

lVars == <<lPhase, lAt, lHeld, lOpen, lFaulty, lSignal, lConf, lBot, lPolls,
           lLeverage, lHolding, lFailed, lSeen>>

Parts == {"config", "health", "database", "sink", "exchange", "market_data", "risk",
          "execution", "strategies", "groq", "optimizer", "bot", "metrics", "webhook"}

Options == {"live", "health", "groq", "bot", "webhook"}

StartOrder ==
    <<"config", "health", "database", "exchange", "sync", "account", "market_data",
      "risk", "execution", "orphans", "strategies", "groq", "optimizer", "bot",
      "metrics", "webhook">>

ShutdownOrder ==
    <<"health", "bot", "strategies", "execution", "risk", "market_data", "exchange",
      "sink", "database", "groq", "webhook", "config">>

After(order, step) ==
    LET i == CHOOSE j \in 1..Len(order) : order[j] = step
    IN  IF i = Len(order) THEN "end" ELSE order[i + 1]

LifecycleTypeOK ==
    /\ lPhase \in {"starting", "running", "unwinding", "over"}
    /\ lHeld \subseteq Parts /\ lOpen \subseteq Parts /\ lFaulty \subseteq Parts
    /\ lSignal \in BOOLEAN
    /\ lConf \subseteq Options
    /\ lBot \in {"none", "app", "polling"}
    /\ lPolls \in 0..MaxPolls
    /\ lLeverage \in [Pairs -> BOOLEAN]
    /\ lHolding \subseteq Pairs /\ lFailed \subseteq Pairs /\ lSeen \subseteq Pairs

LifecycleInit ==
    /\ lPhase = "starting" /\ lAt = "config"
    /\ lHeld = {} /\ lOpen = {} /\ lFaulty = {}
    /\ lSignal = FALSE
    /\ lConf \in SUBSET Options
    /\ lBot = "none" /\ lPolls = 0
    /\ lLeverage \in [Pairs -> BOOLEAN]
    /\ lHolding \in SUBSET Pairs
    /\ lFailed = {} /\ lSeen = {}

-----------------------------------------------------------------------------
(* How a step of start() ends: it passes, leaving some attributes assigned *)
(* and some of them open, or it raises and _shutdown_all begins.           *)

At(step) == lPhase = "starting" /\ lAt = step

Passes(held, open) ==
    /\ lHeld' = lHeld \cup held
    /\ lOpen' = lOpen \cup open
    /\ lAt' = After(StartOrder, lAt)
    /\ UNCHANGED <<lPhase, lFaulty, lSignal, lConf>>

Raises(held, open) ==
    /\ lHeld' = lHeld \cup held
    /\ lOpen' = lOpen \cup open
    /\ lPhase' = "unwinding"
    /\ lAt' = ShutdownOrder[1]
    /\ UNCHANGED <<lFaulty, lSignal, lConf>>

botVars == <<lBot, lPolls>>
accountVars == <<lLeverage, lHolding, lFailed, lSeen>>

InitConfigManager ==
    /\ At("config")
    /\ Passes({"config"}, {}) \/ Raises({}, {})
    /\ UNCHANGED <<botVars, accountVars>>

(* A port in use raises after the attribute and its runner are there.      *)
InitHealthServer ==
    /\ At("health")
    /\ IF "health" \in lConf
       THEN Passes({"health"}, {"health"}) \/ Raises({"health"}, {"health"})
       ELSE Passes({}, {})
    /\ UNCHANGED <<botVars, accountVars>>

(* create, connect, initialize, migrate, and then the error sink.          *)
InitDatabase ==
    /\ At("database")
    /\ \/ Passes({"database", "sink"}, {"database", "sink"})
       \/ Passes({"database"}, {"database"})       \* error_sink.enabled is off
       \/ Raises({"database"}, {})
       \/ Raises({"database"}, {"database"})
    /\ UNCHANGED <<botVars, accountVars>>

(* An unknown mode raises before the adapter exists, connect after.        *)
InitExchangeAdapter ==
    /\ At("exchange")
    /\ \/ Passes({"exchange"}, {"exchange"})
       \/ Raises({}, {})
       \/ Raises({"exchange"}, {})
    /\ UNCHANGED <<botVars, accountVars>>

(* The position sync and the closing of orphans only warn when they fail.  *)
SyncPositions ==
    /\ At("sync") \/ At("orphans")
    /\ Passes({}, {})
    /\ UNCHANGED <<botVars, accountVars>>

-----------------------------------------------------------------------------
(* _setup_futures_account.  A call that fails is collected; one that is    *)
(* accepted may still change nothing (open position, risk tier), which     *)
(* only the read-back of the open positions can tell.  It compares what it *)
(* can: not the positions after a raise, nor a leverage that is None, that *)
(* int() cannot parse or that differs only in what int() cuts off.  The    *)
(* position-mode sync at its end is left out: nothing in the process reads *)
(* its outcome.                                                            *)

Live == "live" \in lConf

(* Mutant: a live worker stops for what the read-back shows, no more.      *)
RefusesMismatchOnly(failed, mismatch) == mismatch # {} /\ Live

Refuses(failed, mismatch) == (failed # {} \/ mismatch # {}) /\ Live

SetupFuturesAccount ==
    /\ At("account")
    /\ \E failed, moved \in SUBSET Pairs, seen \in SUBSET lHolding :
          /\ lLeverage' = [p \in Pairs |-> lLeverage[p] \/ p \in moved]
          /\ lFailed' = failed
          /\ lSeen' = seen
          /\ IF Refuses(failed, {p \in seen : ~lLeverage'[p]})
             THEN Raises({}, {}) ELSE Passes({}, {})
    /\ UNCHANGED <<lHolding, botVars>>

-----------------------------------------------------------------------------
(* Attributes are assigned before the subsystem's own start is awaited.    *)
InitMarketData ==
    /\ At("market_data")
    /\ \/ Passes({"market_data"}, {"market_data"})
       \/ Raises({"market_data"}, {"market_data"})
       \/ Raises({"market_data"}, {})
    /\ UNCHANGED <<botVars, accountVars>>

InitRiskManager ==
    /\ At("risk")
    /\ Passes({"risk"}, {}) \/ Raises({}, {})
    /\ UNCHANGED <<botVars, accountVars>>

InitExecutionEngine ==
    /\ At("execution")
    /\ \/ Passes({"execution"}, {"execution"})
       \/ Raises({"execution"}, {"execution"})
    /\ UNCHANGED <<botVars, accountVars>>

InitStrategies ==
    /\ At("strategies")
    /\ Passes({"strategies"}, {}) \/ Raises({}, {})
    /\ UNCHANGED <<botVars, accountVars>>

InitGroqAi ==
    /\ At("groq")
    /\ \/ LET parts == lConf \cap {"groq"} IN Passes(parts, parts)
       \/ Raises({}, {})
    /\ UNCHANGED <<botVars, accountVars>>

(* Without a Groq client or with retraining off there is no optimizer; a   *)
(* failing constructor only logs.                                          *)
InitOptimizer ==
    /\ At("optimizer")
    /\ \/ "groq" \in lHeld /\ Passes({"optimizer"}, {})
       \/ Passes({}, {})
    /\ UNCHANGED <<botVars, accountVars>>

-----------------------------------------------------------------------------
(* _init_telegram_bot.  QuadBot.start runs the application (its job queue  *)
(* included) and then tries to poll; a conflict with another poller is     *)
(* retried, any other Telegram error ends the attempts, and the bot goes   *)
(* on without polling.  A failing start is not fatal.                      *)

BotDisabled ==
    /\ At("bot") /\ lBot = "none"
    /\ Passes({}, {})       \* no token, not enabled, or start() raised: _bot = None
    /\ UNCHANGED <<botVars, accountVars>>

BotApplicationStarts ==
    /\ At("bot") /\ lBot = "none" /\ "bot" \in lConf
    /\ lBot' = "app"
    /\ lHeld' = lHeld \cup {"bot"} /\ lOpen' = lOpen \cup {"bot"}
    /\ UNCHANGED <<lPhase, lAt, lFaulty, lSignal, lConf, lPolls, accountVars>>

PollAgain == lPolls' < MaxPolls

StartPolling ==
    /\ At("bot") /\ lBot = "app"
    /\ \/ lBot' = "polling" /\ lPolls' = lPolls + 1 /\ Passes({}, {})
       \/ /\ lPolls' = lPolls + 1      \* Conflict
          /\ UNCHANGED lBot
          /\ IF PollAgain
             THEN UNCHANGED <<lPhase, lAt, lHeld, lOpen, lFaulty, lSignal, lConf>>
             ELSE Passes({}, {})
       \/ UNCHANGED botVars /\ Passes({}, {})   \* another TelegramError
    /\ UNCHANGED accountVars

-----------------------------------------------------------------------------
InitMetrics ==
    /\ At("metrics")
    /\ Passes({"metrics"}, {})
    /\ UNCHANGED <<botVars, accountVars>>

(* The webhook is a route of the health server.                            *)
InitTradingviewWebhook ==
    /\ At("webhook")
    /\ \/ LET parts == IF "health" \in lHeld THEN lConf \cap {"webhook"} ELSE {}
          IN  Passes(parts, parts)
       \/ Raises({}, {})
    /\ UNCHANGED <<botVars, accountVars>>

(* Mutant: start() clears the stop event when it is through.               *)
ClearsSignalLate ==
    /\ lPhase = "starting" /\ lAt = "end"
    /\ lPhase' = "running"
    /\ lSignal' = FALSE
    /\ UNCHANGED <<lAt, lHeld, lOpen, lFaulty, lConf, botVars, accountVars>>

(* start() returns and run_forever creates the cycle task.                 *)
CycleStarts ==
    /\ lPhase = "starting" /\ lAt = "end"
    /\ lPhase' = "running"
    /\ UNCHANGED <<lAt, lHeld, lOpen, lFaulty, lSignal, lConf, botVars, accountVars>>

(* SIGTERM or SIGINT, during start() as well.                              *)
Signal ==
    /\ lPhase \in {"starting", "running"} /\ ~lSignal
    /\ lSignal' = TRUE
    /\ UNCHANGED <<lPhase, lAt, lHeld, lOpen, lFaulty, lConf, botVars, accountVars>>

(* run_forever wakes up, cancels the cycle task, awaits it, calls stop().  *)
RunForeverEnds ==
    /\ lPhase = "running" /\ lSignal
    /\ lPhase' = "unwinding" /\ lAt' = ShutdownOrder[1]
    /\ UNCHANGED <<lHeld, lOpen, lFaulty, lSignal, lConf, botVars, accountVars>>

-----------------------------------------------------------------------------
(* _shutdown_all, one subsystem after the other.                           *)

Advance == lAt' = After(ShutdownOrder, lAt)

Closing(part) == IF part = "health" THEN {"health", "webhook"} ELSE {part}

ShutdownPart ==
    /\ lPhase = "unwinding" /\ lAt \notin {"end", "bot"}
    /\ lHeld' = lHeld \ {lAt}
    /\ \/ /\ lOpen' = IF lAt \in lHeld THEN lOpen \ Closing(lAt) ELSE lOpen
          /\ UNCHANGED lFaulty
       \/ /\ lAt \in lHeld \cap lOpen /\ Cardinality(lFaulty) < MaxRaises
          /\ lFaulty' = lFaulty \cup (lOpen \cap Closing(lAt))
          /\ UNCHANGED lOpen
    /\ Advance
    /\ UNCHANGED <<lPhase, lSignal, lConf, botVars, accountVars>>

(* QuadBot.stop awaits updater.stop() first, which raises when polling     *)
(* never started: the application is then neither stopped nor shut down.   *)
ShutdownBot ==
    /\ lPhase = "unwinding" /\ lAt = "bot"
    /\ lHeld' = lHeld \ {"bot"}
    /\ IF lBot = "polling" THEN lBot' = "none" /\ lOpen' = lOpen \ {"bot"}
                           ELSE UNCHANGED <<lBot, lOpen>>
    /\ Advance
    /\ UNCHANGED <<lPhase, lFaulty, lSignal, lConf, lPolls, accountVars>>

ShutdownEnds ==
    /\ lPhase = "unwinding" /\ lAt = "end"
    /\ lPhase' = "over"
    /\ UNCHANGED <<lAt, lHeld, lOpen, lFaulty, lSignal, lConf, botVars, accountVars>>

LifecycleSteps ==
    \/ InitConfigManager \/ InitHealthServer \/ InitDatabase \/ InitExchangeAdapter
    \/ SyncPositions \/ SetupFuturesAccount \/ InitMarketData \/ InitRiskManager
    \/ InitExecutionEngine \/ InitStrategies \/ InitGroqAi \/ InitOptimizer
    \/ BotDisabled \/ BotApplicationStarts \/ StartPolling \/ InitMetrics
    \/ InitTradingviewWebhook \/ CycleStarts \/ RunForeverEnds
    \/ ShutdownPart \/ ShutdownBot \/ ShutdownEnds

LifecycleNext == LifecycleSteps \/ Signal

LifecycleSpec == LifecycleInit /\ [][LifecycleNext]_lVars

-----------------------------------------------------------------------------
(* The readiness answer of the health server: its checks are built when    *)
(* the server is, early in start(), so the parts created later (bot, AI,   *)
(* webhook) are never among them.                                          *)

HealthComponents == {"config", "database", "exchange", "market_data", "execution",
                     "strategies"}

Ready ==
    /\ "health" \in lOpen
    /\ HealthComponents \subseteq lHeld
    /\ {"exchange", "market_data"} \subseteq lOpen

-----------------------------------------------------------------------------
(* What a part needs to be open while it is open itself.                   *)
Needs ==
    [part \in Parts |->
        CASE part \in {"sink"} -> {"database"}
          [] part = "market_data" -> {"database", "exchange"}
          [] part = "execution" -> {"database", "exchange", "market_data"}
          [] OTHER -> {}]

(* The shutdown runs in reverse dependency order: no part outlives one it  *)
(* uses, so the sink flushes into an open database and the engine's stop   *)
(* reaches an open exchange, also when the unwinding starts halfway        *)
(* through start() (_shutdown_all).                                        *)
NothingOutlivesItsNeeds ==
    \A part \in lOpen \ lFaulty : Needs[part] \subseteq lOpen

(* However start() or the trading ends, every part that was opened is      *)
(* closed, unless its own stop method raised; the Telegram application is  *)
(* the exception (see ShutdownBot) (start, stop, _shutdown_all).           *)
EverythingReleased ==
    lPhase = "over" => /\ lHeld \subseteq {"optimizer", "metrics"}
                       /\ lOpen \subseteq lFaulty \cup {"bot"}

(* A live worker trades only if the exchange accepted every setting of     *)
(* every pair, and then with the leverage it asked for on each held pair   *)
(* whose leverage the setup could read back and compare.  What it could    *)
(* not read it does not check (_setup_futures_account).                    *)
LiveTradesOnItsLeverage ==
    (lPhase = "running" /\ Live) => lFailed = {} /\ \A p \in lSeen : lLeverage[p]

(* The readiness probe says yes only between the end of the initialisation *)
(* of the trading stack and the beginning of the shutdown                  *)
(* (_build_health_components, _handle_readiness).                          *)
ReadyMeansServing ==
    Ready => /\ {"database", "exchange", "market_data", "execution"} \subseteq lOpen
             /\ "risk" \in lHeld
             /\ lPhase # "starting" \/ lAt \in {"groq", "optimizer", "bot", "metrics", "webhook", "end"}

(* A stop signal is never lost, not even one that arrives while start() is *)
(* still running: the process ends, everything unwound                     *)
(* (_setup_signal_handlers, run_forever).                                  *)
SignalEndsTheProcess == lSignal ~> lPhase = "over"

(* What holds of the parts of the worker at every moment of its life.      *)
LifecycleSound ==
    /\ LifecycleTypeOK /\ NothingOutlivesItsNeeds /\ EverythingReleased
    /\ LiveTradesOnItsLeverage /\ ReadyMeansServing
=============================================================================
