----------------------------- MODULE GroqClient -----------------------------
(***************************************************************************)
(* The client of the language model (ai/groq.py): overlapping chat() calls *)
(* share one pool of API keys, one HTTP client and one window of recorded  *)
(* usage.  The trading cycle, the bot and the analysis jobs call it.       *)
(*                                                                         *)
(* _check_rate_limit, _check_token_budget and the start of the request run *)
(* without giving up control, so they are one step; so are the return of a *)
(* request and what is recorded of it.  The server answers what it wants.  *)
(***************************************************************************)
EXTENDS Sums, Sequences

CONSTANTS
  Callers,       \* tasks that call chat()
  NumKeys,       \* keys of the pool
  MaxRetries,    \* max_retries
  Estimates,     \* estimated tokens of a call
  MaxTokens,     \* max_tokens_per_day, enforced
  MaxRequests,   \* max_requests_per_day, enforced
  GWindow,       \* window_seconds
  MaxChats, MaxTime   \* bounds

ASSUME GroqAssumption ==
  /\ IsFiniteSet(Callers) /\ Callers # {} /\ IsFiniteSet(Estimates) /\ Estimates # {}
  /\ NumKeys \in Nat /\ MaxRetries \in Nat \ {0} /\ Estimates \subseteq Nat \ {0}
  /\ MaxTokens \in Nat /\ MaxRequests \in Nat \ {0} /\ GWindow \in Nat
  /\ MaxChats \in Nat /\ MaxTime \in Nat

VARIABLES
  pool,      \* _api_keys; the client uses the first
  usage,     \* _request_timestamps and _token_usages: a set, as each call is recorded once
  chat,      \* chat[c]: where the call of c is
  gclock,
  chats      \* calls still to come, and the number of the next one

groqVars == <<pool, usage, chat, gclock, chats>>

Keys == 1 .. NumKeys
Idle == [pc |-> "idle", call |-> 0, model |-> "primary", attempt |-> 1, fallback |-> TRUE, est |-> 0, why |-> "none"]

GroqInit ==
  /\ pool = [i \in Keys |-> i] /\ usage = {}
  /\ chat = [c \in Callers |-> Idle]
  /\ gclock = 0 /\ chats = MaxChats

GroqFrame == UNCHANGED <<gclock, chats>>

\* _prune_token_usages, _prune_timestamps: entries older than the window go.
Pruned == {u \in usage : u.at >= gclock - GWindow}
Tokens(U) == SumOf([u \in U |-> u.tokens], U)
TokensUsed == Tokens(Pruned)

\* _check_rate_limit and _check_token_budget.
OverBudget(est) == Cardinality(Pruned) >= MaxRequests \/ TokensUsed + est > MaxTokens

\* _try_fallback
TryFallback(c) == chat[c].fallback /\ chat[c].model # "fallback"

\* _chat on the fallback model; only the last refusal is kept in "why".
OnFallback(k) == [k EXCEPT !.pc = "check", !.model = "fallback", !.attempt = 1, !.fallback = FALSE]
Raise(k, why) == [k EXCEPT !.pc = "raised", !.why = why]
Asleep(k) == [k EXCEPT !.pc = "asleep"]

\* chat(): without a key it raises before anything else.
Chat(c, model, est) ==
  /\ chat[c].pc = "idle" /\ chats > 0 /\ chats' = chats - 1
  /\ chat' = [chat EXCEPT ![c] = [Idle EXCEPT !.pc = IF pool = <<>> THEN "raised" ELSE "check",
                                              !.call = chats, !.model = model, !.est = est]]
  /\ UNCHANGED <<pool, usage, gclock>>

\* The local checks guard the primary; then the request goes out on the current key.
Send(c) ==
  LET k == chat[c] IN
  /\ k.pc = "check"
  /\ chat' = [chat EXCEPT ![c] =
       CASE k.fallback /\ OverBudget(k.est) ->
              IF TryFallback(c) THEN OnFallback(k) ELSE Raise(k, "quota")
         [] OTHER -> [k EXCEPT !.pc = "sent"]]
  /\ UNCHANGED <<pool, usage>> /\ GroqFrame

\* The completion arrives.
Answered(c) ==
  /\ chat[c].pc = "sent"
  /\ usage' = Pruned \cup {[call |-> chat[c].call, at |-> gclock, tokens |-> chat[c].est, local |-> chat[c].fallback]}
  /\ chat' = [chat EXCEPT ![c] = [@ EXCEPT !.pc = "done"]]
  /\ UNCHANGED pool /\ GroqFrame

\* A 429 that is not handled by another key: sleep, fall back, or raise.
\* Mutant: the last attempt raises.
RaiseAtLast(c) ==
  IF chat[c].attempt < MaxRetries THEN Asleep(chat[c])
  ELSE Raise(chat[c], "quota")
Throttled(c) ==
  IF chat[c].attempt < MaxRetries THEN Asleep(chat[c])
  ELSE IF TryFallback(c) THEN OnFallback(chat[c])
  ELSE Raise(chat[c], "quota")

\* 429 with a short wait, or none.
Burst(c) ==
  /\ chat[c].pc = "sent"
  /\ chat' = [chat EXCEPT ![c] = Throttled(c)]
  /\ UNCHANGED <<pool, usage>> /\ GroqFrame

\* _rotate_key: drop the first key, whichever key the request was sent with.
\* Mutant: the key goes to the end of the pool.
KeyToTheEnd == [ok |-> Len(pool) > 1, pool |-> Append(Tail(pool), pool[1])]
RotateKey == [ok |-> Len(pool) > 1, pool |-> Tail(pool)]

\* 429 with a long wait: another key, else the fallback, else as a burst.
QuotaWall(c) ==
  LET k == chat[c] IN
  /\ k.pc = "sent"
  /\ IF RotateKey.ok
       THEN /\ pool' = RotateKey.pool
            /\ chat' = [chat EXCEPT ![c] = [k EXCEPT !.pc = "check", !.attempt = 1]]
       ELSE /\ UNCHANGED pool
            /\ chat' = [chat EXCEPT ![c] = IF TryFallback(c) THEN OnFallback(k) ELSE Throttled(c)]
  /\ UNCHANGED usage /\ GroqFrame

\* A connection error is retried; closing the client of a dropped key causes one too.
ConnectionError(c) ==
  LET k == chat[c] IN
  /\ k.pc = "sent"
  /\ chat' = [chat EXCEPT ![c] = IF k.attempt < MaxRetries THEN Asleep(k)
                                                           ELSE Raise(k, "network")]
  /\ UNCHANGED <<pool, usage>> /\ GroqFrame

StatusError(c) ==
  /\ chat[c].pc = "sent"
  /\ chat' = [chat EXCEPT ![c] = Raise(chat[c], "status")]
  /\ UNCHANGED <<pool, usage>> /\ GroqFrame

WakeUp(c) ==
  /\ chat[c].pc = "asleep"
  /\ chat' = [chat EXCEPT ![c] = [chat[c] EXCEPT !.pc = "check", !.attempt = @ + 1]]
  /\ UNCHANGED <<pool, usage>> /\ GroqFrame

\* chat() returns to its caller.
Returned(c) ==
  /\ chat[c].pc \in {"done", "raised"}
  /\ chat' = [chat EXCEPT ![c] = Idle]
  /\ UNCHANGED <<pool, usage>> /\ GroqFrame

GroqTick ==
  /\ gclock < MaxTime /\ gclock' = gclock + 1
  /\ UNCHANGED <<pool, usage, chat, chats>>

Replies(c) == Answered(c) \/ Burst(c) \/ QuotaWall(c) \/ ConnectionError(c) \/ StatusError(c)

GroqNext ==
  \/ GroqTick
  \/ \E c \in Callers :
       \/ \E model \in {"primary", "fallback"}, est \in Estimates : Chat(c, model, est)
       \/ Send(c) \/ Replies(c) \/ WakeUp(c) \/ Returned(c)

\* The event loop runs every call; a request is answered or times out.
GroqFairness == \A c \in Callers : WF_groqVars(Send(c) \/ Replies(c) \/ WakeUp(c) \/ Returned(c))
GroqSpec == GroqInit /\ [][GroqNext]_groqVars /\ GroqFairness

-----------------------------------------------------------------------------
(* Properties *)

\* A pool that had a key never loses the last one: the client always has a key.
GroqTypeOK ==
  /\ pool \in Seq(Keys) /\ (NumKeys > 0 => pool # <<>>)
  /\ usage \subseteq [call : 1 .. MaxChats, at : 0 .. MaxTime, tokens : Estimates, local : BOOLEAN]
  /\ chat \in [Callers -> [pc : {"idle", "check", "sent", "asleep", "done", "raised"}, call : 0 .. MaxChats,
                           model : {"primary", "fallback"}, attempt : 1 .. MaxRetries,
                           fallback : BOOLEAN, est : Estimates \cup {0},
                           why : {"none", "quota", "network", "status"}]]

\* The checks run before a request and the tokens are recorded after it: requests
\* under the local budget spend at most what the other calls in flight may add.
LocalSpend == Tokens({u \in Pruned : u.local})
SpendIsBounded == LocalSpend <= MaxTokens + (Cardinality(Callers) - 1) * Max(Estimates)

\* A quota refusal, local or of the server, at any attempt and after any rotation
\* of keys, reaches the caller only when the fallback model was tried.
RescueTried == \A c \in Callers : chat[c].why = "quota" => chat[c].model = "fallback"

\* Every call ends, although a rotation starts the attempts over.
ChatEnds == \A c \in Callers : chat[c].pc # "idle" ~> chat[c].pc = "idle"

\* What overlapping calls do to the shared pool and budget stays within bounds.
ClientSound == GroqTypeOK /\ SpendIsBounded /\ RescueTried
=============================================================================
