--------------------------- MODULE MCTradingCycle ---------------------------
(* The trading loop on two pairs, in the three modes, with and without serial trades. *)
EXTENDS TradingCycle

CONSTANTS s1, s2

MCPairs == <<s1, s2>>
MCDirections == {1}
MCConfigs == {
  [mode |-> "trend",  serial |-> TRUE,  roll |-> TRUE],
  [mode |-> "trend",  serial |-> FALSE, roll |-> FALSE],
  [mode |-> "scalp",  serial |-> FALSE, roll |-> TRUE],
  [mode |-> "legacy", serial |-> TRUE,  roll |-> TRUE]}
MCAlerts == {[sym |-> s1, type |-> "entry", stamped |-> TRUE]}
Rolling == {[mode |-> "trend", serial |-> TRUE, roll |-> TRUE]}
=============================================================================
