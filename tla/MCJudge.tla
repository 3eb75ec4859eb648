------------------------------ MODULE MCJudge ------------------------------
(* The client and the judge: the judge sees of the client only that a call ends *)
(* in an answer or an exception, so each is explored while the other rests.     *)
EXTENDS GroqClient, Judge

MCNames == {"BTC", "ETH", "XRP"}   \* XRP is no pair of the rotation
MCPairs == <<"BTC", "ETH">>
MCSignals == [direction : {"LONG"}, setup : {TRUE}, strong : {TRUE}]
               \cup [direction : {"NEUTRAL"}, setup : {FALSE}, strong : {FALSE}]
MCBackdrops == {[trend |-> "uptrend", rsi |-> 20], [trend |-> "none", rsi |-> -1]}
Says(a, d, s, c, k) == [shape |-> "object", action |-> a, direction |-> d, side |-> s, confidence |-> c, contract |-> k]
MCAnswers ==
  {Says("ENTER", "long", "sell", 60, "BTC"), Says("ENTER", "long", "", 60, "ETH"),
   Says("ENTER", "short", "", 80, "BTC"), Says("ENTER", "", "sell", NotANumber, "ETH"),
   Says("ENTER", "short", "", Unreadable, "BTC"), Says("EXIT", "flat", "", 80, "BTC"),
   Says("HOLD", "short", "", 80, "BTC"), Says("ENTER", "buy", "", 60, "XRP")}

Init == GroqInit /\ JudgeInit
Next ==
  \/ JudgeInit /\ mode = "trend" /\ GroqNext /\ UNCHANGED judgeVars
  \/ GroqInit /\ JudgeNext /\ UNCHANGED groqVars
Spec == Init /\ [][Next]_<<groqVars, judgeVars>> /\ GroqFairness
          /\ WF_judgeVars(GroqInit /\ JudgeSteps /\ UNCHANGED groqVars)   \* JudgeFairness, while the client rests
=============================================================================
