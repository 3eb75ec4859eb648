-------------------------- MODULE DecisionValidator -------------------------
(***************************************************************************)
(* From the text of the language model to a decision that may be traded:   *)
(* the parser of ai/groq.py and the rules of ai/validator.py.              *)
(*                                                                         *)
(* A word of the answer stands for all its synonyms and for the phrases it *)
(* begins; "" is a missing field.  Confidences are in per cent; NotANumber *)
(* is the float NaN, which the JSON reader accepts.                        *)
(***************************************************************************)
EXTENDS Integers, Sequences

NotANumber == 1000
Missing == -1000      \* a confidence that is absent or null
Unreadable == -2000   \* a text that float() refuses

\* The words that the rules tell apart; "flat" stands for every other one.
Words == {"", "ENTER", "EXIT", "HOLD", "adjust_stop", "reduce_position",
          "LONG", "long", "buy", "SHORT", "short", "sell", "flat"}

\* canonical_direction
CanonicalDirection(w) ==
  CASE w \in {"LONG", "long", "buy"}    -> "LONG"
    [] w \in {"SHORT", "short", "sell"} -> "SHORT"
    [] OTHER                            -> "NEUTRAL"
DirectionOf(d) == CanonicalDirection(IF d.direction = "" THEN d.side ELSE d.direction)
KnownAction(a) == IF a \in {"ENTER", "EXIT", "HOLD", "adjust_stop", "reduce_position"} THEN a ELSE "HOLD"

\* derive_side: the side of an ENTER comes from the direction, that of an EXIT
\* from the position.
DeriveSide(action, direction, held) ==
  CASE action = "ENTER" /\ direction = "LONG"  -> "BUY"
    [] action = "ENTER" /\ direction = "SHORT" -> "SELL"
    [] action = "EXIT"  /\ held = "LONG"       -> "SELL"
    [] action = "EXIT"  /\ held = "SHORT"      -> "BUY"
    [] OTHER                                   -> "none"

\* plausibility_check on the trend regime and the RSI; -1 is a missing RSI.
PlausibilityCheck(direction, ind) ==
  ~ \/ direction = "LONG"  /\ ind.trend = "downtrend" /\ ind.rsi > 70
    \/ direction = "SHORT" /\ ind.trend = "uptrend" /\ ind.rsi \in 0 .. 29

\* max(0, min(1, c)): Python's min and max keep their first argument against NaN.
Clamp(c) ==
  CASE c \in {Missing, Unreadable} -> 0
    [] c = NotANumber \/ c > 100 -> 100
    [] c < 0 -> 0
    [] OTHER -> c

\* _parse_trading_decision: what is no JSON object becomes a HOLD, an unknown
\* action too; a missing direction is read from the legacy side.
ParseTradingDecision(raw) ==
  IF raw.shape # "object"
    THEN [action |-> "HOLD", direction |-> "NEUTRAL", side |-> "", confidence |-> 0, contract |-> raw.contract]
    ELSE [action     |-> IF raw.action \in {"ENTER", "EXIT", "HOLD"} THEN raw.action ELSE "HOLD",
          direction  |-> DirectionOf(raw),
          side       |-> raw.side,
          confidence |-> raw.confidence,
          contract   |-> raw.contract]

\* _side_token
SideToken(w) ==
  CASE w \in {"buy", "long", "LONG"}    -> "BUY"
    [] w \in {"sell", "short", "SHORT"} -> "SELL"
    [] OTHER                            -> "none"

\* Only an ENTER and an EXIT are held to a minimal confidence; NaN is not below it.
TooUnsure(d, minConfidence) ==
  /\ minConfidence > 0 /\ d.action \in {"ENTER", "EXIT"}
  /\ d.confidence # NotANumber /\ d.confidence < minConfidence

\* The plausibility gate vetoes only in veto mode.
\* Mutant: the indicators are not asked.
NeverVetoes(d, ind, gateMode) == TRUE
Plausible(d, ind, gateMode) == gateMode = "veto" => PlausibilityCheck(DirectionOf(d), ind)

\* normalize_decision, of a parsed answer or of an item of a batch.
NormalizeDecision(d, held, ind, gateMode, minConfidence) ==
  LET action    == KnownAction(d.action)
      direction == DirectionOf(d)
      side      == DeriveSide(action, direction, held)
      trade     == action \in {"ENTER", "EXIT"}
  IN [action     |-> action,
      direction  |-> IF action = "HOLD" THEN "NEUTRAL" ELSE direction,
      side       |-> IF action \in {"adjust_stop", "reduce_position"} THEN SideToken(d.side) ELSE side,
      confidence |-> Clamp(d.confidence),
      contract   |-> d.contract,
      ok         |-> /\ trade => side # "none"
                     /\ Plausible(d, ind, gateMode)
                     /\ ~ TooUnsure([d EXCEPT !.action = action], minConfidence),
      corrected  |-> trade /\ side # "none" /\ d.side # "" /\ SideToken(d.side) # side]

\* What the callers put in the place of a rejected decision.
Hold(contract) ==
  [action |-> "HOLD", direction |-> "NEUTRAL", side |-> "none", confidence |-> 0, contract |-> contract,
   ok |-> TRUE, corrected |-> FALSE]

\* decide_batch: one decision per symbol asked for, in that order; the first answer
\* for a symbol counts, an answer for another symbol does not, a symbol without one
\* is held.
AnswerFor(items, s) ==
  LET mine == {j \in DOMAIN items : items[j].contract = s}
  IN IF mine = {} THEN [action |-> "HOLD", direction |-> "", side |-> "", confidence |-> 0,
                        contract |-> s, shape |-> "object"]
     ELSE items[CHOOSE j \in mine : \A k \in mine : j <= k]
DecideBatch(items, symbols) == [i \in DOMAIN symbols |-> AnswerFor(items, symbols[i])]
=============================================================================
