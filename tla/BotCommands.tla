----------------------------- MODULE BotCommands -----------------------------
(***************************************************************************)
(* The /execute conversation of the Telegram bot (bot/commands.py,         *)
(* get_execute_conversation_handler) with the per-user cooldown that every *)
(* command shares (_check_rate_limit): pick a strategy, confirm the card,  *)
(* run it.  The bot handles updates concurrently and a conversation        *)
(* changes its state only when a handler returns, so a second tap on       *)
(* Confirm finds the conversation where the first one did.  The choice     *)
(* travels in user_data, which nothing clears when the user cancels.       *)
(***************************************************************************)
EXTENDS Naturals, Sequences

CONSTANTS
  Users,        \* users of the bot
  Operators,    \* those who write in the operator's chat
  Strategies,   \* registered strategies
  Cooldown,     \* of /execute: 60 seconds
  MaxNow,       \* bound on the clock
  MaxTaps       \* bound on the confirmations handled at the same time

ASSUME BotAssumption ==
  /\ Operators \subseteq Users
  /\ Cooldown \in Nat \ {0} /\ MaxNow \in Nat /\ MaxTaps \in Nat

Unknown == "unknown"            \* user_data holds no choice
Misread == "exec_confirm"       \* an old Confirm button, read as a strategy's name

VARIABLES
  bNow,      \* the clock
  bLast,     \* _last_cmd: when each user last ran /execute
  bConv,     \* the conversation's state: "none", "select", "confirm"
  bChoice,   \* user_data["execute_strategy"]
  bCard,     \* history: the strategy on the last confirmation card
  bTaps,     \* execute_confirm handlers that have not run the strategy yet
  bBusy,     \* execute_confirm handlers inside execute_strategy
  bRuns,     \* history: what was run, and the card that was confirmed
  bSerial    \* history: no user has tapped while a tap was being handled

bVars == <<bNow, bLast, bConv, bChoice, bCard, bTaps, bBusy, bRuns, bSerial>>

\* time.time() is far past any cooldown when the bot starts.
BotInit ==
  /\ bNow = Cooldown
  /\ bLast = [u \in Users |-> 0]
  /\ bConv = [u \in Users |-> "none"]
  /\ bChoice = [u \in Users |-> Unknown] /\ bCard = [u \in Users |-> Unknown]
  /\ bTaps = [u \in Users |-> 0] /\ bBusy = [u \in Users |-> 0]
  /\ bRuns = [u \in Users |-> <<>>]
  /\ bSerial = TRUE

BotTick ==
  /\ bNow < MaxNow
  /\ bNow' = bNow + 1
  /\ UNCHANGED <<bLast, bConv, bChoice, bCard, bTaps, bBusy, bRuns, bSerial>>

\* _check_rate_limit: passes, and remembers the time, once the cooldown is over.
CheckRateLimit(u) ==
  /\ bNow - bLast[u] >= Cooldown
  /\ bLast' = [bLast EXCEPT ![u] = bNow]

\* /execute: operators only; others and impatient users are told so.
ExecuteStart(u) ==
  /\ bConv[u] = "none" /\ u \in Operators
  /\ CheckRateLimit(u)
  /\ bConv' = [bConv EXCEPT ![u] = "select"]
  /\ UNCHANGED <<bNow, bChoice, bCard, bTaps, bBusy, bRuns, bSerial>>

\* Mutant: a choice that is there is kept.
KeepsFirst(u, s) == IF bChoice[u] = Unknown THEN s ELSE bChoice[u]
Chosen(u, s) == s

ExecuteStrategySelected(u, s) ==
  /\ bConv[u] = "select"
  /\ bChoice' = [bChoice EXCEPT ![u] = Chosen(u, s)]
  /\ bCard' = [bCard EXCEPT ![u] = s]
  /\ bConv' = [bConv EXCEPT ![u] = "confirm"]
  /\ UNCHANGED <<bNow, bLast, bTaps, bBusy, bRuns, bSerial>>

\* The Cancel button or /cancel, at either question.
ExecuteCancel(u) ==
  /\ bConv[u] # "none"
  /\ bConv' = [bConv EXCEPT ![u] = "none"]
  /\ UNCHANGED <<bNow, bLast, bChoice, bCard, bTaps, bBusy, bRuns, bSerial>>

\* Confirm is tapped: the handler awaits the answer and the operator check.
TapConfirm(u) ==
  /\ bConv[u] = "confirm"
  /\ bTaps[u] + bBusy[u] < MaxTaps
  /\ bTaps' = [bTaps EXCEPT ![u] = @ + 1]
  /\ bSerial' = (bSerial /\ bTaps[u] + bBusy[u] = 0)
  /\ UNCHANGED <<bNow, bLast, bConv, bChoice, bCard, bBusy, bRuns>>

\* It reads the choice and calls execute_strategy.
ExecuteConfirm(u) ==
  /\ bTaps[u] > 0
  /\ bTaps' = [bTaps EXCEPT ![u] = @ - 1]
  /\ bBusy' = [bBusy EXCEPT ![u] = @ + 1]
  /\ bRuns' = [bRuns EXCEPT ![u] = Append(@, [ran |-> bChoice[u], card |-> bCard[u]])]
  /\ UNCHANGED <<bNow, bLast, bConv, bChoice, bCard, bSerial>>

\* execute_strategy has returned or raised: the choice is dropped, the
\* conversation ends.
ExecuteReturns(u) ==
  /\ bBusy[u] > 0
  /\ bBusy' = [bBusy EXCEPT ![u] = @ - 1]
  /\ bChoice' = [bChoice EXCEPT ![u] = Unknown]
  /\ bConv' = [bConv EXCEPT ![u] = "none"]
  /\ UNCHANGED <<bNow, bLast, bCard, bTaps, bRuns, bSerial>>

BotNext ==
  \/ BotTick
  \/ \E u \in Users :
       \/ ExecuteStart(u) \/ ExecuteCancel(u) \/ TapConfirm(u)
       \/ ExecuteConfirm(u) \/ ExecuteReturns(u)
       \/ \E s \in Strategies \cup {Misread} : ExecuteStrategySelected(u, s)

BotSpec == BotInit /\ [][BotNext]_bVars

-----------------------------------------------------------------------------
(* Properties *)

\* What runs is what the last card said, also after a cancelled conversation has
\* left its choice behind, as long as taps do not overlap (execute_confirm).
RunsWhatWasConfirmed ==
  bSerial => \A u \in Users : \A i \in 1 .. Len(bRuns[u]) : bRuns[u][i].ran = bRuns[u][i].card

\* The cooldown, taken when the conversation starts, paces the runs at its end: a
\* user runs at most one strategy per cooldown, however long questions stay
\* unanswered, as long as taps do not overlap ("Generous enough to stop an
\* accidental double-tap"; two overlapping taps on Confirm do run it twice).
ExecutionsPaced ==
  bSerial => \A u \in Users :
    Len(bRuns[u]) <= 1 + (bNow - Cooldown) \div Cooldown

\* What the conversation runs, and how often.
BotSound == RunsWhatWasConfirmed /\ ExecutionsPaced
=============================================================================
