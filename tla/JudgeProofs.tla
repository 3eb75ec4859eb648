----------------------------- MODULE JudgeProofs ----------------------------
(***************************************************************************)
(* Proofs about the client of the language model, for any callers, keys,   *)
(* retries and budgets, and about the judge, for any pairs, budget,        *)
(* signals and answers.                                                    *)
(***************************************************************************)
EXTENDS MCJudge, SumsProofs

-----------------------------------------------------------------------------
(* GroqClient *)

Calls == [pc : {"idle", "check", "sent", "asleep", "done", "raised"}, call : 0 .. MaxChats,
          model : {"primary", "fallback"}, attempt : 1 .. MaxRetries, fallback : BOOLEAN,
          est : Estimates \cup {0}, why : {"none", "quota", "network", "status"}]
Entries == [call : 1 .. MaxChats, at : 0 .. MaxTime, tokens : Estimates, local : BOOLEAN]

\* Calls are numbered: each is recorded once, so no two entries are one.
CallOK(k) ==
  /\ k.pc # "idle" => k.est \in Estimates /\ k.call > chats
  /\ k.pc = "asleep" => k.attempt < MaxRetries
  /\ k.pc \in {"check", "sent", "asleep"} => \A u \in usage : u.call # k.call
  /\ k.fallback = FALSE => k.model = "fallback"
  /\ k.why = "quota" => k.model = "fallback"
CallsOK ==
  /\ chat \in [Callers -> Calls] /\ \A c \in Callers : CallOK(chat[c])
  /\ \A c, d \in Callers : c # d /\ chat[c].pc # "idle" /\ chat[d].pc # "idle" => chat[c].call # chat[d].call
UsageOK ==
  /\ usage \in SUBSET Entries /\ IsFiniteSet(usage) /\ \A u \in usage : u.call > chats
  /\ gclock \in 0 .. MaxTime /\ chats \in 0 .. MaxChats
PoolOK == pool \in Seq(Keys) /\ (NumKeys > 0 => pool # <<>>)

\* The tokens spent, and those that the requests under way were let through with.
InFlight(ch) == {c \in Callers : ch[c].pc = "sent" /\ ch[c].fallback = TRUE}
Est(ch) == [c \in Callers |-> ch[c].est]
Pending(ch) == SumOf(Est(ch), InFlight(ch))
Largest == Max(Estimates)
Bound == MaxTokens + (Cardinality(Callers) - 1) * Largest
FlightOK == LocalSpend + Pending(chat) <= Bound

ClientInv == CallsOK /\ UsageOK /\ PoolOK /\ FlightOK

LEMMA ConstantFacts ==
  /\ MaxTokens \in Nat /\ MaxRetries \in Nat \ {0} /\ MaxChats \in Nat /\ MaxTime \in Nat /\ GWindow \in Nat
  /\ Estimates \in SUBSET (Nat \ {0}) /\ IsFiniteSet(Callers)
  /\ Cardinality(Callers) \in Nat \ {0}
  /\ Largest \in Estimates /\ Largest \in Nat /\ \A e \in Estimates : e <= Largest
<1>1. /\ MaxTokens \in Nat /\ MaxRetries \in Nat \ {0} /\ MaxChats \in Nat /\ MaxTime \in Nat /\ GWindow \in Nat
      /\ Estimates \in SUBSET (Nat \ {0}) /\ IsFiniteSet(Callers) /\ Callers # {}
      /\ IsFiniteSet(Estimates) /\ Estimates # {}
  BY GroqAssumption
<1>2. Cardinality(Callers) \in Nat \ {0}
  BY <1>1, FS_CardinalityType, FS_EmptySet
<1>3. \E m \in Estimates : \A x \in Estimates : m >= x
  <2>1. Estimates \in SUBSET Int
    BY <1>1
  <2>2. PICK m \in Estimates : \A x \in Estimates : x <= m
    BY <1>1, <2>1, Greatest
  <2> QED BY <2>1, <2>2
<1>4. Largest \in Estimates /\ \A x \in Estimates : Largest >= x
  BY <1>3 DEF Largest, Max
<1>5. Largest \in Nat /\ \A e \in Estimates : e <= Largest
  <2> HIDE DEF Largest
  <2> QED BY <1>1, <1>4
<1> QED BY <1>1, <1>2, <1>4, <1>5

LEMMA TokensFacts ==
  ASSUME NEW U, IsFiniteSet(U), \A u \in U : u.tokens \in Nat, NEW V \in SUBSET U
  PROVE  Tokens(U) \in Nat /\ Tokens(V) \in Nat /\ Tokens(V) <= Tokens(U)
<1> DEFINE f == [u \in U |-> u.tokens]
           g == [u \in V |-> u.tokens]
<1>1. IsFiniteSet(V) /\ \A u \in U : f[u] \in Nat
  BY FS_Subset
<1>2. \A u \in V : f[u] \in Int /\ f[u] = g[u]
  OBVIOUS
<1> HIDE DEF f, g
<1>3. SumOf(f, U) \in Nat /\ SumOf(f, V) \in Nat
  BY <1>1, SumNat
<1>4. SumOf(f, V) <= SumOf(f, U)
  BY <1>1, SumSubset
<1>5. SumOf(f, V) = SumOf(g, V)
  BY <1>1, <1>2, SumSame
<1> QED BY <1>3, <1>4, <1>5 DEF Tokens, f, g

LEMMA TokensAdd ==
  ASSUME NEW U, IsFiniteSet(U), \A u \in U : u.tokens \in Nat, NEW x, x \notin U, x.tokens \in Nat
  PROVE  Tokens(U \cup {x}) = Tokens(U) + x.tokens
<1> DEFINE f == [u \in U \cup {x} |-> u.tokens]
           g == [u \in U |-> u.tokens]
<1>1. \A u \in U \cup {x} : f[u] \in Int
  OBVIOUS
<1>2. (\A u \in U : f[u] \in Int /\ f[u] = g[u]) /\ f[x] = x.tokens
  OBVIOUS
<1> HIDE DEF f, g
<1>3. SumOf(f, U \cup {x}) = f[x] + SumOf(f, U)
  BY <1>1, SumAdd
<1>4. SumOf(f, U) = SumOf(g, U) /\ SumOf(f, U) \in Int
  BY <1>2, SumSame, SumInt
<1> QED BY <1>2, <1>3, <1>4 DEF Tokens, f, g

LEMMA EstimateFacts ==
  ASSUME NEW k \in Calls
  PROVE  k.est \in Nat /\ k.est <= Largest
<1>1. k.est \in Estimates \cup {0}
  BY DEF Calls
<1>2. Largest \in Nat
  BY ConstantFacts
<1>3. CASE k.est \in Estimates
  BY <1>3, ConstantFacts
<1>4. CASE k.est = 0
  BY <1>2, <1>4
<1> QED BY <1>1, <1>3, <1>4

\* What the other calls hold, whatever becomes of one.
Others(ch, c) == SumOf(Est(ch), InFlight(ch) \ {c})
LEMMA OthersFacts ==
  ASSUME NEW ch \in [Callers -> Calls], NEW c \in Callers
  PROVE  /\ Others(ch, c) \in Nat /\ Others(ch, c) <= (Cardinality(Callers) - 1) * Largest
         /\ Pending(ch) = IF c \in InFlight(ch) THEN ch[c].est + Others(ch, c) ELSE Others(ch, c)
<1> DEFINE rest == InFlight(ch) \ {c}
<1>1. \A d \in Callers : Est(ch)[d] \in Nat /\ Est(ch)[d] = ch[d].est /\ Est(ch)[d] <= Largest
  <2> SUFFICES ASSUME NEW d \in Callers PROVE Est(ch)[d] \in Nat /\ Est(ch)[d] = ch[d].est /\ Est(ch)[d] <= Largest
    OBVIOUS
  <2>1. ch[d].est \in Nat /\ ch[d].est <= Largest
    BY EstimateFacts
  <2> QED BY <2>1 DEF Est
<1>2. /\ IsFiniteSet(InFlight(ch)) /\ IsFiniteSet(rest) /\ InFlight(ch) \in SUBSET Callers /\ rest \subseteq Callers \ {c}
      /\ IsFiniteSet(Callers \ {c})
  <2>1. InFlight(ch) \in SUBSET Callers /\ rest \subseteq Callers \ {c}
    BY DEF InFlight
  <2>2. IsFiniteSet(Callers) /\ IsFiniteSet(Callers \ {c})
    BY ConstantFacts, FS_RemoveElement
  <2> HIDE DEF rest
  <2> QED BY <2>1, <2>2, FS_Subset
<1>3. Cardinality(rest) <= Cardinality(Callers) - 1 /\ Cardinality(rest) \in Nat
  <2>1. Cardinality(Callers \ {c}) = Cardinality(Callers) - 1
    BY ConstantFacts, FS_RemoveElement
  <2>2. Cardinality(rest) <= Cardinality(Callers \ {c}) /\ Cardinality(rest) \in Nat
    BY <1>2, FS_Subset, FS_CardinalityType
  <2> QED BY <2>1, <2>2
<1>4. SumOf(Est(ch), rest) \in Nat
  BY <1>1, <1>2, SumNat
<1>5. SumOf(Est(ch), rest) <= Cardinality(rest) * Largest
  <2>1. Largest \in Nat /\ \A d \in rest : Est(ch)[d] \in Int /\ Est(ch)[d] <= Largest
    BY <1>1, <1>2, ConstantFacts
  <2> QED BY <1>2, <2>1, SumAtMost
<1>6. Cardinality(rest) * Largest <= (Cardinality(Callers) - 1) * Largest
  <2> DEFINE a == Cardinality(rest)
             b == Cardinality(Callers) - 1
  <2>1. a \in Nat /\ b \in Nat /\ a <= b /\ Largest \in Nat
    BY <1>3, ConstantFacts
  <2> HIDE DEF a, b, Largest
  <2>2. b * Largest = a * Largest + (b - a) * Largest /\ (b - a) * Largest \in Nat /\ a * Largest \in Nat
    BY <2>1
  <2>3. a * Largest <= b * Largest
    BY <2>2
  <2> QED BY <2>3 DEF a, b
<1>7. c \in InFlight(ch) => Pending(ch) = Est(ch)[c] + SumOf(Est(ch), rest)
  BY <1>1, <1>2, SumRemove DEF Pending
<1>8. c \notin InFlight(ch) => rest = InFlight(ch)
  OBVIOUS
<1>9. SumOf(Est(ch), rest) <= (Cardinality(Callers) - 1) * Largest
  <2> DEFINE x == SumOf(Est(ch), rest)
             y == Cardinality(rest) * Largest
             z == (Cardinality(Callers) - 1) * Largest
  <2>1. x \in Int /\ y \in Int /\ z \in Int
    BY <1>3, <1>4, ConstantFacts
  <2> HIDE DEF x, y, z
  <2>2. x <= y /\ y <= z
    BY <1>5, <1>6 DEF x, y, z
  <2> QED BY <2>1, <2>2 DEF x, z
<1> HIDE DEF rest
<1>10. Others(ch, c) = SumOf(Est(ch), rest)
  BY DEF Others, rest
<1> QED BY <1>1, <1>4, <1>7, <1>8, <1>9, <1>10 DEF Pending

LEMMA OthersSame ==
  ASSUME NEW ch \in [Callers -> Calls], NEW c \in Callers, NEW k \in Calls,
         NEW new, new = [ch EXCEPT ![c] = k]
  PROVE  /\ Pending(new) = IF k.pc = "sent" /\ k.fallback = TRUE THEN k.est + Others(ch, c) ELSE Others(ch, c)
         /\ Others(ch, c) \in Nat /\ k.est \in Nat /\ new \in [Callers -> Calls]
<1>1. new \in [Callers -> Calls] /\ new[c] = k /\ \A d \in Callers : d # c => new[d] = ch[d]
  OBVIOUS
<1>0. \A d \in Callers : ch[d].est \in Nat /\ new[d].est \in Nat
  <2>1. \A x \in Calls : x.est \in Nat
    BY EstimateFacts
  <2> HIDE DEF Calls
  <2> QED BY <1>1, <2>1
<1> HIDE DEF Calls
<1>2. InFlight(new) \ {c} = InFlight(ch) \ {c} /\ (c \in InFlight(new) <=> k.pc = "sent" /\ k.fallback = TRUE)
  BY <1>1 DEF InFlight
<1>3. \A d \in InFlight(ch) \ {c} : Est(ch)[d] \in Int /\ Est(ch)[d] = Est(new)[d]
  BY <1>0, <1>1 DEF Est, InFlight
<1>4. IsFiniteSet(InFlight(ch) \ {c})
  <2>1. InFlight(ch) \ {c} \subseteq Callers
    BY DEF InFlight
  <2> QED BY <2>1, ConstantFacts, FS_Subset
<1>5. SumOf(Est(ch), InFlight(ch) \ {c}) = SumOf(Est(new), InFlight(ch) \ {c})
  BY <1>3, <1>4, SumSame
<1>6. Others(new, c) = Others(ch, c)
  BY <1>2, <1>5 DEF Others
<1>7. Pending(new) = IF c \in InFlight(new) THEN new[c].est + Others(new, c) ELSE Others(new, c)
  BY <1>1, OthersFacts
<1>8. Others(ch, c) \in Nat
  BY OthersFacts
<1> QED BY <1>0, <1>1, <1>2, <1>6, <1>7, <1>8

LEMMA SpendFacts ==
  ASSUME UsageOK
  PROVE  /\ IsFiniteSet(Pruned) /\ Pruned \in SUBSET usage /\ \A u \in Pruned : u.tokens \in Nat
         /\ LocalSpend \in Nat /\ TokensUsed \in Nat /\ LocalSpend <= TokensUsed
<1>1. Pruned \in SUBSET usage /\ usage \in SUBSET Entries /\ IsFiniteSet(usage)
  BY DEF UsageOK, Pruned
<1>2. IsFiniteSet(Pruned)
  BY <1>1, FS_Subset
<1>3. \A u \in Pruned : u.tokens \in Nat
  <2> SUFFICES ASSUME NEW u \in Pruned PROVE u.tokens \in Nat
    OBVIOUS
  <2>1. u.tokens \in Estimates
    BY <1>1 DEF Entries
  <2> QED BY <2>1, ConstantFacts
<1> DEFINE loc == {u \in Pruned : u.local}
<1>4. loc \in SUBSET Pruned
  OBVIOUS
<1> HIDE DEF loc
<1>5. Tokens(Pruned) \in Nat /\ Tokens(loc) \in Nat /\ Tokens(loc) <= Tokens(Pruned)
  BY <1>2, <1>3, <1>4, TokensFacts
<1> QED BY <1>1, <1>2, <1>3, <1>5 DEF LocalSpend, TokensUsed, loc

LEMMA BoundFacts ==
  Bound \in Nat /\ (Cardinality(Callers) - 1) * Largest \in Nat /\ MaxTokens <= Bound
<1> DEFINE n == Cardinality(Callers) - 1
<1>1. n \in Nat /\ Largest \in Nat /\ MaxTokens \in Nat
  BY ConstantFacts
<1> HIDE DEF n, Largest
<1>2. n * Largest \in Nat
  BY <1>1
<1> QED BY <1>1, <1>2 DEF Bound, n

\* A call under way goes on: what else must hold of its new record.
LEMMA MoveKeeps ==
  ASSUME ClientInv, NEW c \in Callers, chat[c].pc \in {"check", "sent", "asleep"},
         NEW k \in Calls, chat' = [chat EXCEPT ![c] = k], k.pc # "idle",
         k.call = chat[c].call, k.est = chat[c].est, k.pc = "asleep" => k.attempt < MaxRetries,
         k.fallback = FALSE => k.model = "fallback", k.why = "quota" => k.model = "fallback",
         k.pc = "sent" /\ k.fallback = TRUE => LocalSpend + k.est <= MaxTokens,
         PoolOK', UNCHANGED <<usage, gclock, chats>>
  PROVE  ClientInv'
<1>1. chat \in [Callers -> Calls] /\ UsageOK /\ CallOK(chat[c])
  BY DEF ClientInv, CallsOK
<1>2. UsageOK'
  BY <1>1 DEF UsageOK
<1>3. CallsOK'
  <2>1. chat' \in [Callers -> Calls] /\ chat'[c] = k /\ \A d \in Callers : d # c => chat'[d] = chat[d]
    BY <1>1
  <2> HIDE DEF Calls
  <2>2. ASSUME NEW d \in Callers PROVE CallOK(chat[d])'
    <3>1. CASE d = c
      BY <1>1, <2>1, <3>1 DEF CallOK
    <3>2. CASE d # c
      <4>1. CallOK(chat[d]) /\ chat'[d] = chat[d]
        BY <2>1, <3>2 DEF ClientInv, CallsOK
      <4> QED BY <4>1 DEF CallOK
    <3> QED BY <3>1, <3>2
  <2>3. ASSUME NEW d \in Callers, NEW e \in Callers, d # e, chat'[d].pc # "idle", chat'[e].pc # "idle"
        PROVE  chat'[d].call # chat'[e].call
    <3>1. \A x \in Callers : chat'[x].call = chat[x].call /\ (chat'[x].pc # "idle" => chat[x].pc # "idle")
      BY <2>1
    <3> QED BY <2>3, <3>1 DEF ClientInv, CallsOK
  <2> QED BY <2>1, <2>2, <2>3 DEF CallsOK
<1>4. FlightOK'
  <2>1. LocalSpend' = LocalSpend
    BY DEF LocalSpend, Pruned
  <2>2. LocalSpend \in Nat /\ Bound \in Nat /\ (Cardinality(Callers) - 1) * Largest \in Nat
    BY <1>1, SpendFacts, BoundFacts
  <2>3. /\ Pending(chat') = IF k.pc = "sent" /\ k.fallback = TRUE THEN k.est + Others(chat, c) ELSE Others(chat, c)
        /\ Others(chat, c) \in Nat /\ k.est \in Nat
    BY <1>1, OthersSame
  <2>4. /\ Others(chat, c) <= (Cardinality(Callers) - 1) * Largest
        /\ Pending(chat) = IF c \in InFlight(chat) THEN chat[c].est + Others(chat, c) ELSE Others(chat, c)
    BY <1>1, OthersFacts
  <2> DEFINE z == (Cardinality(Callers) - 1) * Largest
             o == Others(chat, c)
  <2>5. Bound = MaxTokens + z /\ MaxTokens \in Nat
    BY ConstantFacts DEF Bound
  <2> HIDE DEF z, o, LocalSpend, Calls
  <2>6. CASE k.pc = "sent" /\ k.fallback = TRUE
    <3>1. Pending(chat') = k.est + o /\ o <= z /\ LocalSpend + k.est <= MaxTokens /\ o \in Nat /\ z \in Nat
      BY <2>2, <2>3, <2>4, <2>6 DEF z, o
    <3> QED BY <2>1, <2>2, <2>3, <2>5, <3>1 DEF FlightOK, Bound, z
  <2>7. CASE ~ (k.pc = "sent" /\ k.fallback = TRUE)
    <3>1. Pending(chat') = o /\ o \in Nat
      BY <2>3, <2>7 DEF o
    <3>2. o <= Pending(chat) /\ Pending(chat) \in Nat
      BY <1>1, <2>3, <2>4 DEF o
    <3>3. LocalSpend + Pending(chat) <= Bound
      BY DEF ClientInv, FlightOK
    <3> HIDE DEF Bound
    <3>4. LocalSpend + Pending(chat') <= Bound
      BY <2>2, <3>1, <3>2, <3>3
    <3> QED BY <2>1, <3>4 DEF FlightOK, Bound
  <2> QED BY <2>6, <2>7
<1> QED BY <1>2, <1>3, <1>4 DEF ClientInv

LEMMA ClientInitially ==
  ASSUME GroqInit
  PROVE  ClientInv
<1>1. Idle \in Calls
  BY ConstantFacts DEF Idle, Calls
<1>2. chat = [c \in Callers |-> Idle] /\ usage = {} /\ gclock = 0 /\ chats = MaxChats /\ pool = [i \in Keys |-> i]
  BY DEF GroqInit
<1>3. CallsOK
  <2> HIDE DEF Calls
  <2> QED BY <1>1, <1>2 DEF CallsOK, CallOK, Idle
<1>4. UsageOK
  BY <1>2, ConstantFacts, FS_EmptySet DEF UsageOK
<1>5. PoolOK
  <2>1. NumKeys \in Nat
    BY GroqAssumption
  <2>2. pool \in Seq(Keys) /\ Len(pool) = NumKeys
    BY <1>2, <2>1 DEF Keys
  <2> QED BY <2>1, <2>2 DEF PoolOK
<1>6. FlightOK
  <2>1. {u \in Pruned : u.local} = {}
    BY <1>2 DEF Pruned
  <2>2. LocalSpend = 0
    BY <2>1, SumEmpty DEF LocalSpend, Tokens
  <2>3. InFlight(chat) = {}
    BY <1>2 DEF InFlight, Idle
  <2>4. Pending(chat) = 0
    BY <2>3, SumEmpty DEF Pending
  <2> QED BY <2>2, <2>4, BoundFacts DEF FlightOK
<1> QED BY <1>3, <1>4, <1>5, <1>6 DEF ClientInv

LEMMA ChatKeeps ==
  ASSUME ClientInv, NEW c \in Callers, NEW model \in {"primary", "fallback"}, NEW est \in Estimates, Chat(c, model, est)
  PROVE  ClientInv'
<1> DEFINE k == [Idle EXCEPT !.pc = IF pool = <<>> THEN "raised" ELSE "check",
                             !.call = chats, !.model = model, !.est = est]
<1>1. /\ chat[c].pc = "idle" /\ chats > 0 /\ chats' = chats - 1
      /\ chat' = [chat EXCEPT ![c] = k] /\ UNCHANGED <<pool, usage, gclock>>
  BY DEF Chat
<1>2. chat \in [Callers -> Calls] /\ UsageOK /\ chats \in 0 .. MaxChats /\ MaxChats \in Nat
  BY ConstantFacts DEF ClientInv, CallsOK, UsageOK
<1>3. k \in Calls /\ k.call = chats /\ k.est = est /\ k.pc \in {"raised", "check"} /\ k.why = "none" /\ k.fallback = TRUE
  <2> DEFINE p == IF pool = <<>> THEN "raised" ELSE "check"
  <2>1. p \in {"raised", "check"} /\ 1 \in 1 .. MaxRetries /\ est \in Estimates \cup {0}
    BY ConstantFacts
  <2>2. k = [Idle EXCEPT !.pc = p, !.call = chats, !.model = model, !.est = est]
    OBVIOUS
  <2> HIDE DEF p, k
  <2>3. k = [pc |-> p, call |-> chats, model |-> model, attempt |-> 1, fallback |-> TRUE, est |-> est, why |-> "none"]
    BY <2>2 DEF Idle
  <2> QED BY <1>2, <2>1, <2>3 DEF Calls
<1> HIDE DEF k, Calls
<1>4. chat' \in [Callers -> Calls] /\ chat'[c] = k /\ \A d \in Callers : d # c => chat'[d] = chat[d]
  BY <1>1, <1>2, <1>3
<1>6. \A u \in usage : u.call > chats /\ u.call \in Int
  BY <1>2 DEF UsageOK, Entries
<1>5. UsageOK'
  <2>1. (\A u \in usage' : u.call > chats') /\ chats' \in 0 .. MaxChats
    BY <1>1, <1>2, <1>6
  <2> QED BY <1>1, <1>2, <2>1 DEF UsageOK
<1>7. \A d \in Callers : chat[d].pc # "idle" => chat[d].call > chats /\ chat[d].call \in Int
  <2>1. \A d \in Callers : chat[d].call \in Int
    BY <1>2 DEF Calls
  <2> QED BY <2>1 DEF ClientInv, CallsOK, CallOK
<1>8. CallsOK'
  <2>2. ASSUME NEW d \in Callers PROVE CallOK(chat[d])'
    <3>1. CASE d = c
      <4>1. \A u \in usage' : u.call # k.call
        BY <1>1, <1>2, <1>3, <1>6
      <4>2. k.est \in Estimates /\ k.call > chats'
        BY <1>1, <1>2, <1>3
      <4> QED BY <1>3, <1>4, <3>1, <4>1, <4>2 DEF CallOK
    <3>2. CASE d # c
      <4>1. CallOK(chat[d]) /\ chat'[d] = chat[d]
        BY <1>4, <3>2 DEF ClientInv, CallsOK
      <4>2. chat[d].pc # "idle" => chat[d].call > chats'
        BY <1>1, <1>2, <1>7
      <4> QED BY <1>1, <4>1, <4>2 DEF CallOK
    <3> QED BY <3>1, <3>2
  <2>3. ASSUME NEW d \in Callers, NEW e \in Callers, d # e, chat'[d].pc # "idle", chat'[e].pc # "idle"
        PROVE  chat'[d].call # chat'[e].call
    <3>1. CASE d = c
      BY <1>2, <1>3, <1>4, <1>7, <2>3, <3>1
    <3>2. CASE e = c
      BY <1>2, <1>3, <1>4, <1>7, <2>3, <3>2
    <3>3. CASE d # c /\ e # c
      BY <1>4, <2>3, <3>3 DEF ClientInv, CallsOK
    <3> QED BY <3>1, <3>2, <3>3
  <2> QED BY <1>4, <2>2, <2>3 DEF CallsOK
<1>9. FlightOK'
  <2>1. LocalSpend' = LocalSpend
    BY <1>1 DEF LocalSpend, Pruned
  <2>2. Pending(chat') = Others(chat, c)
    BY <1>1, <1>2, <1>3, OthersSame
  <2>3. c \notin InFlight(chat)
    BY <1>1 DEF InFlight
  <2>4. Pending(chat) = Others(chat, c)
    BY <1>2, <2>3, OthersFacts
  <2> QED BY <2>1, <2>2, <2>4 DEF ClientInv, FlightOK
<1>10. PoolOK'
  BY <1>1 DEF ClientInv, PoolOK
<1> QED BY <1>5, <1>8, <1>9, <1>10 DEF ClientInv

LEMMA Moved ==
  ASSUME NEW k \in Calls
  PROVE  /\ OnFallback(k) \in Calls /\ OnFallback(k).call = k.call /\ OnFallback(k).est = k.est
         /\ OnFallback(k).pc = "check" /\ OnFallback(k).model = "fallback"
         /\ \A why \in {"quota", "network", "status"} :
              /\ Raise(k, why) \in Calls /\ Raise(k, why).call = k.call /\ Raise(k, why).est = k.est
              /\ Raise(k, why).pc = "raised" /\ Raise(k, why).why = why /\ Raise(k, why).model = k.model
              /\ Raise(k, why).fallback = k.fallback
         /\ Asleep(k) \in Calls /\ Asleep(k).call = k.call /\ Asleep(k).est = k.est
         /\ Asleep(k).pc = "asleep" /\ Asleep(k).model = k.model /\ Asleep(k).why = k.why
         /\ Asleep(k).attempt = k.attempt /\ Asleep(k).fallback = k.fallback
<1>1. 1 \in 1 .. MaxRetries
  BY ConstantFacts
<1> QED BY <1>1 DEF OnFallback, Raise, Asleep, Calls

\* What is known of a call that moves.
LEMMA CallFacts ==
  ASSUME ClientInv, NEW c \in Callers
  PROVE  /\ chat \in [Callers -> Calls] /\ chat[c] \in Calls /\ CallOK(chat[c])
         /\ ~ (chat[c].fallback = TRUE /\ chat[c].model # "fallback") => chat[c].model = "fallback"
         /\ chat[c].fallback \in BOOLEAN /\ UsageOK /\ PoolOK /\ FlightOK
         /\ chat[c].attempt \in 1 .. MaxRetries
         /\ TryFallback(c) <=> chat[c].fallback = TRUE /\ chat[c].model # "fallback"
<1>1. chat \in [Callers -> Calls] /\ CallOK(chat[c]) /\ UsageOK /\ PoolOK /\ FlightOK
  BY DEF ClientInv, CallsOK
<1>2. chat[c] \in Calls
  BY <1>1
<1>3. chat[c].fallback \in BOOLEAN /\ chat[c].attempt \in 1 .. MaxRetries /\ chat[c].model \in {"primary", "fallback"}
  BY <1>2 DEF Calls
<1>4. chat[c].fallback = FALSE => chat[c].model = "fallback"
  BY <1>1 DEF CallOK
<1>5. TryFallback(c) <=> chat[c].fallback = TRUE /\ chat[c].model # "fallback"
  BY <1>3 DEF TryFallback
<1> HIDE DEF Calls
<1> QED BY <1>1, <1>2, <1>3, <1>4, <1>5

LEMMA SendKeeps ==
  ASSUME ClientInv, NEW c \in Callers, Send(c)
  PROVE  ClientInv'
<1> DEFINE k == chat[c]
           sent == [k EXCEPT !.pc = "sent"]
<1>1. /\ k \in Calls /\ CallOK(k) /\ k.fallback \in BOOLEAN /\ UsageOK
      /\ ~ (k.fallback = TRUE /\ k.model # "fallback") => k.model = "fallback"
      /\ TryFallback(c) <=> k.fallback = TRUE /\ k.model # "fallback"
  BY CallFacts
<1>2. k.pc = "check" /\ UNCHANGED <<pool, usage, gclock, chats>>
  BY DEF Send, GroqFrame
<1>3. PoolOK'
  BY <1>2, CallFacts DEF PoolOK
<1>4. CASE k.fallback /\ OverBudget(k.est)
  <2>1. chat' = [chat EXCEPT ![c] = IF TryFallback(c) THEN OnFallback(k) ELSE Raise(k, "quota")]
    BY <1>4 DEF Send
  <2> HIDE DEF k, Calls
  <2>2. CASE TryFallback(c)
    <3>1. chat' = [chat EXCEPT ![c] = OnFallback(k)]
      BY <2>1, <2>2
    <3> QED BY <1>1, <1>2, <1>3, <3>1, Moved, MoveKeeps DEF k
  <2>3. CASE ~ TryFallback(c)
    <3>1. chat' = [chat EXCEPT ![c] = Raise(k, "quota")]
      BY <2>1, <2>3
    <3>2. k.model = "fallback"
      BY <1>1, <2>3
    <3>3. /\ Raise(k, "quota") \in Calls /\ Raise(k, "quota").call = k.call /\ Raise(k, "quota").est = k.est
          /\ Raise(k, "quota").pc = "raised" /\ Raise(k, "quota").model = "fallback"
      BY <1>1, <3>2, Moved
    <3> QED BY <1>1, <1>2, <1>3, <3>1, <3>3, MoveKeeps DEF k
  <2> QED BY <2>2, <2>3
<1>5. CASE ~ (k.fallback /\ OverBudget(k.est))
  <2>1. chat' = [chat EXCEPT ![c] = sent]
    BY <1>5 DEF Send
  <2>2. sent \in Calls /\ sent.call = k.call /\ sent.est = k.est /\ sent.pc = "sent" /\ sent.fallback = k.fallback
        /\ sent.model = k.model /\ sent.why = k.why
    BY <1>1 DEF Calls
  <2>3. k.fallback = TRUE => LocalSpend + k.est <= MaxTokens
    <3>1. k.est \in Nat /\ MaxTokens \in Nat
      BY <1>1, EstimateFacts, ConstantFacts
    <3>2. LocalSpend \in Nat /\ TokensUsed \in Nat /\ LocalSpend <= TokensUsed
      BY <1>1, SpendFacts
    <3>3. k.fallback = TRUE => ~ (TokensUsed + k.est > MaxTokens)
      BY <1>5 DEF OverBudget
    <3> HIDE DEF LocalSpend, TokensUsed, k
    <3> QED BY <3>1, <3>2, <3>3
  <2> HIDE DEF sent, k, Calls, LocalSpend
  <2>4. sent.fallback = FALSE => sent.model = "fallback"
    BY <1>1, <2>2
  <2>5. sent.why = "quota" => sent.model = "fallback"
    BY <1>1, <2>2 DEF CallOK
  <2>6. chat[c] = k
    BY DEF k
  <2> QED BY <1>2, <1>3, <2>1, <2>2, <2>3, <2>4, <2>5, <2>6, MoveKeeps
<1> QED BY <1>4, <1>5

\* A record that a refusal leads to.
Refused(c, k) == k \in {OnFallback(chat[c]), Asleep(chat[c]), Raise(chat[c], "network"),
                        Raise(chat[c], "status"), Raise(chat[c], "quota")}
LEMMA RefusedKeeps ==
  ASSUME ClientInv, NEW c \in Callers, chat[c].pc = "sent", NEW k, Refused(c, k), chat' = [chat EXCEPT ![c] = k],
         k = Asleep(chat[c]) => chat[c].attempt < MaxRetries,
         k = Raise(chat[c], "quota") => ~ TryFallback(c),
         UNCHANGED <<pool, usage, gclock, chats>>
  PROVE  ClientInv'
<1> DEFINE q == chat[c]
<1>1. /\ q \in Calls /\ CallOK(q) /\ q.fallback \in BOOLEAN
      /\ ~ (q.fallback = TRUE /\ q.model # "fallback") => q.model = "fallback"
      /\ TryFallback(c) <=> q.fallback = TRUE /\ q.model # "fallback"
  BY CallFacts
<1>2. PoolOK'
  BY CallFacts DEF PoolOK
<1>3. q.pc = "sent" /\ q = chat[c]
  OBVIOUS
<1>4. q.why = "quota" => q.model = "fallback"
  BY <1>1 DEF CallOK
<1> HIDE DEF q, Calls
<1>5. CASE k = OnFallback(q)
  BY <1>1, <1>2, <1>3, <1>5, Moved, MoveKeeps
<1>6. CASE k = Asleep(q)
  <2>1. /\ k \in Calls /\ k.call = q.call /\ k.est = q.est /\ k.pc = "asleep" /\ k.model = q.model
        /\ k.why = q.why /\ k.attempt = q.attempt /\ k.fallback = q.fallback
    BY <1>1, <1>6, Moved
  <2>2. k.attempt < MaxRetries
    BY <1>3, <1>6, <2>1
  <2>3. (k.why = "quota" => k.model = "fallback") /\ (k.fallback = FALSE => k.model = "fallback")
    BY <1>1, <1>4, <2>1
  <2> QED BY <1>2, <1>3, <2>1, <2>2, <2>3, MoveKeeps
<1>7. ASSUME NEW w \in {"network", "status", "quota"}, k = Raise(q, w), w = "quota" => ~ TryFallback(c)
      PROVE  ClientInv'
  <2>1. /\ k \in Calls /\ k.call = q.call /\ k.est = q.est /\ k.pc = "raised" /\ k.model = q.model
        /\ k.why = w /\ k.fallback = q.fallback
    BY <1>1, <1>7, Moved
  <2>2. (k.why = "quota" => k.model = "fallback") /\ (k.fallback = FALSE => k.model = "fallback")
    BY <1>1, <1>7, <2>1
  <2> QED BY <1>2, <1>3, <2>1, <2>2, MoveKeeps
<1>8. k = Raise(q, "quota") => ~ TryFallback(c)
  BY <1>3
<1> QED BY <1>3, <1>5, <1>6, <1>7, <1>8 DEF Refused

LEMMA ThrottledKeeps ==
  ASSUME ClientInv, NEW c \in Callers, chat[c].pc = "sent", chat' = [chat EXCEPT ![c] = Throttled(c)],
         UNCHANGED <<pool, usage, gclock, chats>>
  PROVE  ClientInv'
<1> DEFINE q == chat[c]
<1>1. q \in Calls
  BY CallFacts
<1>2. /\ OnFallback(q).pc = "check" /\ Asleep(q).pc = "asleep" /\ Raise(q, "quota").pc = "raised"
  BY <1>1, Moved
<1>3. CASE q.attempt < MaxRetries
  <2>1. Throttled(c) = Asleep(q)
    BY <1>3 DEF Throttled
  <2> QED BY <1>2, <1>3, <2>1, RefusedKeeps DEF Refused
<1>4. CASE ~ (q.attempt < MaxRetries) /\ TryFallback(c)
  <2>1. Throttled(c) = OnFallback(q)
    BY <1>4 DEF Throttled
  <2> QED BY <1>2, <2>1, RefusedKeeps DEF Refused
<1>5. CASE ~ (q.attempt < MaxRetries) /\ ~ TryFallback(c)
  <2>1. Throttled(c) = Raise(q, "quota")
    BY <1>5 DEF Throttled
  <2> QED BY <1>2, <1>5, <2>1, RefusedKeeps DEF Refused
<1> QED BY <1>3, <1>4, <1>5

LEMMA QuotaWallKeeps ==
  ASSUME ClientInv, NEW c \in Callers, QuotaWall(c)
  PROVE  ClientInv'
<1> DEFINE q == chat[c]
           again == [q EXCEPT !.pc = "check", !.attempt = 1]
<1>1. /\ q \in Calls /\ CallOK(q) /\ q.fallback \in BOOLEAN /\ PoolOK
      /\ ~ (q.fallback = TRUE /\ q.model # "fallback") => q.model = "fallback"
  BY CallFacts
<1>2. q.pc = "sent" /\ UNCHANGED <<usage, gclock, chats>>
  BY DEF QuotaWall, GroqFrame
<1>3. CASE RotateKey.ok
  <2>1. Len(pool) > 1 /\ pool' = Tail(pool) /\ chat' = [chat EXCEPT ![c] = again]
    BY <1>3 DEF QuotaWall, RotateKey
  <2>2. PoolOK'
    <3>1. pool \in Seq(Keys)
      BY <1>1 DEF PoolOK
    <3>2. Tail(pool) \in Seq(Keys) /\ Len(Tail(pool)) = Len(pool) - 1 /\ Len(pool) \in Nat
      BY <2>1, <3>1
    <3>3. Tail(pool) # <<>>
      <4> DEFINE t == Tail(pool)
      <4>1. Len(t) = Len(pool) - 1 /\ Len(pool) \in Nat
        BY <3>2
      <4>3. Len(pool) > 1
        BY <2>1
      <4> HIDE DEF t
      <4>2. t # <<>>
        BY <4>1, <4>3
      <4> QED BY <4>2 DEF t
    <3> QED BY <2>1, <3>2, <3>3 DEF PoolOK
  <2>3. again \in Calls /\ again.call = q.call /\ again.est = q.est /\ again.pc = "check" /\ again.fallback = q.fallback
        /\ again.model = q.model /\ again.why = q.why
    <3>1. 1 \in 1 .. MaxRetries
      BY ConstantFacts
    <3> QED BY <1>1, <3>1 DEF Calls
  <2>4. q.why = "quota" => q.model = "fallback"
    BY <1>1 DEF CallOK
  <2>5. q = chat[c]
    OBVIOUS
  <2> HIDE DEF again, q, Calls
  <2> QED BY <1>1, <1>2, <2>1, <2>2, <2>3, <2>4, <2>5, MoveKeeps
<1>4. CASE ~ RotateKey.ok
  <2>1. UNCHANGED pool /\ chat' = [chat EXCEPT ![c] = IF TryFallback(c) THEN OnFallback(q) ELSE Throttled(c)]
    BY <1>4 DEF QuotaWall
  <2>2. /\ OnFallback(q).pc = "check" /\ Asleep(q).pc = "asleep" /\ Raise(q, "quota").pc = "raised"
    BY <1>1, Moved
  <2>3. CASE TryFallback(c)
    <3>1. chat' = [chat EXCEPT ![c] = OnFallback(q)]
      BY <2>1, <2>3
    <3> QED BY <1>2, <2>1, <2>2, <3>1, RefusedKeeps DEF Refused
  <2>4. CASE ~ TryFallback(c)
    <3>1. chat' = [chat EXCEPT ![c] = Throttled(c)]
      BY <2>1, <2>4
    <3> QED BY <1>2, <2>1, <3>1, ThrottledKeeps
  <2> QED BY <2>3, <2>4
<1> QED BY <1>3, <1>4

LEMMA ErrorKeeps ==
  ASSUME ClientInv, NEW c \in Callers, Burst(c) \/ ConnectionError(c) \/ StatusError(c)
  PROVE  ClientInv'
<1> DEFINE q == chat[c]
<1>1. q \in Calls
  BY CallFacts
<1>2. q.pc = "sent" /\ UNCHANGED <<pool, usage, gclock, chats>>
  BY DEF Burst, ConnectionError, StatusError, GroqFrame
<1>3. /\ OnFallback(q).pc = "check" /\ Asleep(q).pc = "asleep" /\ Raise(q, "quota").pc = "raised"
      /\ Raise(q, "quota").why = "quota" /\ Raise(q, "network").why = "network" /\ Raise(q, "status").why = "status"
      /\ Raise(q, "network").pc = "raised" /\ Raise(q, "status").pc = "raised"
  BY <1>1, Moved
<1>4. CASE Burst(c)
  BY <1>2, <1>4, ThrottledKeeps DEF Burst
<1>5. CASE ConnectionError(c)
  <2>1. CASE q.attempt < MaxRetries
    <3>1. chat' = [chat EXCEPT ![c] = Asleep(q)]
      BY <1>5, <2>1 DEF ConnectionError
    <3> QED BY <1>2, <1>3, <2>1, <3>1, RefusedKeeps DEF Refused
  <2>2. CASE ~ (q.attempt < MaxRetries)
    <3>1. chat' = [chat EXCEPT ![c] = Raise(q, "network")]
      BY <1>5, <2>2 DEF ConnectionError
    <3> QED BY <1>2, <1>3, <3>1, RefusedKeeps DEF Refused
  <2> QED BY <2>1, <2>2
<1>6. CASE StatusError(c)
  <2>1. chat' = [chat EXCEPT ![c] = Raise(q, "status")]
    BY <1>6 DEF StatusError
  <2> QED BY <1>2, <1>3, <2>1, RefusedKeeps DEF Refused
<1> QED BY <1>4, <1>5, <1>6

LEMMA WakeUpKeeps ==
  ASSUME ClientInv, NEW c \in Callers, WakeUp(c)
  PROVE  ClientInv'
<1> DEFINE q == chat[c]
           k == [q EXCEPT !.pc = "check", !.attempt = @ + 1]
<1>1. /\ q \in Calls /\ CallOK(q) /\ q.fallback \in BOOLEAN /\ PoolOK /\ q.attempt \in 1 .. MaxRetries
      /\ ~ (q.fallback = TRUE /\ q.model # "fallback") => q.model = "fallback"
  BY CallFacts
<1>2. q.pc = "asleep" /\ chat' = [chat EXCEPT ![c] = k] /\ UNCHANGED <<pool, usage, gclock, chats>>
  BY DEF WakeUp, GroqFrame
<1>3. q.attempt + 1 \in 1 .. MaxRetries
  <2>1. q.attempt < MaxRetries
    BY <1>1, <1>2 DEF CallOK
  <2> QED BY <1>1, <2>1, ConstantFacts
<1>4. k \in Calls /\ k.call = q.call /\ k.est = q.est /\ k.pc = "check" /\ k.fallback = q.fallback
      /\ k.model = q.model /\ k.why = q.why
  BY <1>1, <1>3 DEF Calls
<1>5. PoolOK' /\ (q.why = "quota" => q.model = "fallback")
  BY <1>1, <1>2 DEF PoolOK, CallOK
<1>6. q = chat[c]
  OBVIOUS
<1> HIDE DEF k, q, Calls
<1> QED BY <1>1, <1>2, <1>4, <1>5, <1>6, MoveKeeps

\* A completed call: its tokens move from those under way to those spent.
LEMMA AnsweredKeeps ==
  ASSUME ClientInv, NEW c \in Callers, Answered(c)
  PROVE  ClientInv'
<1> DEFINE q == chat[c]
           k == [q EXCEPT !.pc = "done"]
           u == [call |-> q.call, at |-> gclock, tokens |-> q.est, local |-> q.fallback]
<1>1. /\ q \in Calls /\ CallOK(q) /\ q.fallback \in BOOLEAN /\ PoolOK /\ UsageOK /\ FlightOK
      /\ chat \in [Callers -> Calls]
  BY CallFacts
<1>2. q.pc = "sent" /\ chat' = [chat EXCEPT ![c] = k] /\ usage' = Pruned \cup {u} /\ UNCHANGED <<pool, gclock, chats>>
  BY DEF Answered, GroqFrame
<1>3. q.est \in Estimates /\ q.est \in Nat /\ q.call > chats /\ \A x \in usage : x.call # q.call
  BY <1>1, <1>2, EstimateFacts DEF CallOK
<1>4. /\ IsFiniteSet(Pruned) /\ Pruned \in SUBSET usage /\ (\A x \in Pruned : x.tokens \in Nat)
      /\ LocalSpend \in Nat
  BY <1>1, SpendFacts
<1>5. u \in Entries /\ u \notin usage /\ u.call = q.call /\ u.tokens = q.est /\ u.local = q.fallback /\ u.at = gclock
  <2>1. q.call \in 1 .. MaxChats /\ gclock \in 0 .. MaxTime /\ chats \in 0 .. MaxChats
    BY <1>1, <1>3, ConstantFacts DEF Calls, UsageOK
  <2>2. u.call = q.call
    OBVIOUS
  <2>3. u \in Entries
    BY <1>1, <1>3, <2>1 DEF Entries
  <2> QED BY <1>3, <2>2, <2>3
<1>6. k \in Calls /\ k.call = q.call /\ k.est = q.est /\ k.pc = "done" /\ k.fallback = q.fallback
      /\ k.model = q.model /\ k.why = q.why
  BY <1>1 DEF Calls
<1>7. q = chat[c]
  OBVIOUS
<1> HIDE DEF u, k, q, Calls, Entries
<1>8. UsageOK'
  <2>1. IsFiniteSet(Pruned \cup {u})
    BY <1>4, FS_AddElement
  <2>2. \A x \in Pruned \cup {u} : x \in Entries /\ x.call > chats
    BY <1>1, <1>3, <1>4, <1>5 DEF UsageOK
  <2> QED BY <1>1, <1>2, <2>1, <2>2 DEF UsageOK
<1>9. PoolOK'
  BY <1>1, <1>2 DEF PoolOK
<1>10. chat' \in [Callers -> Calls] /\ chat'[c] = k /\ \A d \in Callers : d # c => chat'[d] = chat[d]
  BY <1>1, <1>2, <1>6
<1>11. CallsOK'
  <2>2. ASSUME NEW d \in Callers PROVE CallOK(chat[d])'
    <3>1. CASE d = c
      BY <1>1, <1>2, <1>3, <1>6, <1>10, <3>1 DEF CallOK
    <3>2. CASE d # c
      <4>1. CallOK(chat[d]) /\ chat'[d] = chat[d]
        BY <1>10, <3>2 DEF ClientInv, CallsOK
      <4>2. chat[d].pc # "idle" => chat[d].call # q.call
        BY <1>2, <1>7, <3>2 DEF ClientInv, CallsOK
      <4>3. chat[d].pc \in {"check", "sent", "asleep"} => \A x \in usage' : x.call # chat[d].call
        BY <1>2, <1>4, <1>5, <4>1, <4>2 DEF CallOK
      <4> QED BY <1>2, <4>1, <4>3 DEF CallOK
    <3> QED BY <3>1, <3>2
  <2>3. ASSUME NEW d \in Callers, NEW e \in Callers, d # e, chat'[d].pc # "idle", chat'[e].pc # "idle"
        PROVE  chat'[d].call # chat'[e].call
    <3>1. \A x \in Callers : chat'[x].call = chat[x].call /\ (chat'[x].pc # "idle" => chat[x].pc # "idle")
      BY <1>2, <1>6, <1>7, <1>10
    <3> QED BY <2>3, <3>1 DEF ClientInv, CallsOK
  <2> QED BY <1>10, <2>2, <2>3 DEF CallsOK
<1>12. FlightOK'
  <2> DEFINE loc == {x \in Pruned : x.local}
  <2>1. Pruned' = Pruned \cup {u}
    <3>1. gclock - GWindow <= gclock
      BY <1>1, ConstantFacts DEF UsageOK
    <3> QED BY <1>2, <1>5, <3>1 DEF Pruned
  <2>2. {x \in Pruned' : x.local} = IF q.fallback = TRUE THEN loc \cup {u} ELSE loc
    BY <1>1, <1>5, <2>1
  <2>3. IsFiniteSet(loc) /\ (\A x \in loc : x.tokens \in Nat) /\ u \notin loc /\ u.tokens \in Nat
    <3>1. loc \subseteq Pruned
      OBVIOUS
    <3> QED BY <1>3, <1>4, <1>5, <3>1, FS_Subset
  <2>4. LocalSpend = Tokens(loc)
    BY DEF LocalSpend
  <2> HIDE DEF loc
  <2>5. LocalSpend' = IF q.fallback = TRUE THEN LocalSpend + q.est ELSE LocalSpend
    <3>1. Tokens(loc \cup {u}) = Tokens(loc) + q.est
      BY <1>5, <2>3, TokensAdd
    <3> QED BY <2>2, <2>4, <3>1 DEF LocalSpend
  <2>6. Pending(chat') = Others(chat, c) /\ Others(chat, c) \in Nat
    BY <1>1, <1>2, <1>6, OthersSame
  <2>7. Pending(chat) = IF q.fallback = TRUE THEN q.est + Others(chat, c) ELSE Others(chat, c)
    <3>1. c \in InFlight(chat) <=> q.fallback = TRUE
      BY <1>2, <1>7 DEF InFlight
    <3> QED BY <1>1, <1>7, <3>1, OthersFacts
  <2>8. LocalSpend' + Pending(chat') = LocalSpend + Pending(chat)
    BY <1>3, <1>4, <2>5, <2>6, <2>7
  <2> QED BY <1>1, <2>8 DEF FlightOK, Bound
<1> QED BY <1>8, <1>9, <1>11, <1>12 DEF ClientInv

LEMMA ReturnedKeeps ==
  ASSUME ClientInv, NEW c \in Callers, Returned(c)
  PROVE  ClientInv'
<1>1. Idle \in Calls /\ Idle.pc = "idle" /\ Idle.fallback = TRUE /\ Idle.why = "none"
  BY ConstantFacts DEF Idle, Calls
<1>2. /\ chat[c].pc \in {"done", "raised"} /\ chat' = [chat EXCEPT ![c] = Idle]
      /\ UNCHANGED <<pool, usage, gclock, chats>>
  BY DEF Returned, GroqFrame
<1>3. chat \in [Callers -> Calls] /\ UsageOK /\ PoolOK /\ FlightOK
  BY CallFacts
<1> HIDE DEF Calls
<1>4. chat' \in [Callers -> Calls] /\ chat'[c] = Idle /\ \A d \in Callers : d # c => chat'[d] = chat[d]
  BY <1>1, <1>2, <1>3
<1>5. CallsOK'
  <2>1. ASSUME NEW d \in Callers PROVE CallOK(chat[d])'
    <3>1. CASE d = c
      BY <1>1, <1>4, <3>1 DEF CallOK
    <3>2. CASE d # c
      BY <1>2, <1>4, <3>2 DEF ClientInv, CallsOK, CallOK
    <3> QED BY <3>1, <3>2
  <2>2. ASSUME NEW d \in Callers, NEW e \in Callers, d # e, chat'[d].pc # "idle", chat'[e].pc # "idle"
        PROVE  chat'[d].call # chat'[e].call
    <3>1. d # c /\ e # c
      BY <1>1, <1>4, <2>2
    <3> QED BY <1>4, <2>2, <3>1 DEF ClientInv, CallsOK
  <2> QED BY <1>4, <2>1, <2>2 DEF CallsOK
<1>6. UsageOK' /\ PoolOK'
  BY <1>2, <1>3 DEF UsageOK, PoolOK
<1>7. FlightOK'
  <2>1. LocalSpend' = LocalSpend
    BY <1>2 DEF LocalSpend, Pruned
  <2>2. Pending(chat') = Others(chat, c)
    BY <1>1, <1>2, <1>3, OthersSame
  <2>3. c \notin InFlight(chat)
    BY <1>2 DEF InFlight
  <2>4. Pending(chat) = Others(chat, c)
    BY <1>3, <2>3, OthersFacts
  <2> QED BY <1>3, <2>1, <2>2, <2>4 DEF FlightOK
<1> QED BY <1>5, <1>6, <1>7 DEF ClientInv

LEMMA TickKeeps ==
  ASSUME ClientInv, GroqTick
  PROVE  ClientInv'
<1>1. gclock < MaxTime /\ gclock' = gclock + 1 /\ UNCHANGED <<pool, usage, chat, chats>>
  BY DEF GroqTick
<1>2. CallsOK' /\ PoolOK'
  BY <1>1 DEF ClientInv, CallsOK, CallOK, PoolOK
<1>3. UsageOK /\ gclock \in Nat /\ GWindow \in Nat /\ MaxTime \in Nat
  BY ConstantFacts DEF ClientInv, UsageOK
<1>4. UsageOK'
  <2>1. gclock' \in 0 .. MaxTime
    BY <1>1, <1>3
  <2> QED BY <1>1, <1>3, <2>1 DEF UsageOK
<1>5. FlightOK'
  <2> DEFINE new == {u \in Pruned' : u.local}
             old == {u \in Pruned : u.local}
  <2>1. new \in SUBSET old
    <3>1. \A u \in usage : u.at \in Int
      BY <1>3, ConstantFacts DEF UsageOK, Entries
    <3> QED BY <1>1, <1>3, <3>1 DEF Pruned
  <2>2. old \subseteq Pruned
    OBVIOUS
  <2>3. IsFiniteSet(old) /\ \A u \in old : u.tokens \in Nat
    BY <1>3, <2>2, SpendFacts, FS_Subset
  <2> HIDE DEF new, old
  <2>4. Tokens(new) \in Nat /\ Tokens(old) \in Nat /\ Tokens(new) <= Tokens(old)
    BY <2>1, <2>3, TokensFacts
  <2>5. LocalSpend = Tokens(old) /\ LocalSpend' = Tokens(new)
    BY DEF LocalSpend, old, new
  <2>6. Pending(chat) \in Nat /\ Bound \in Nat /\ LocalSpend + Pending(chat) <= Bound
    <3>1. PICK c \in Callers : TRUE
      BY GroqAssumption
    <3>2. chat \in [Callers -> Calls] /\ chat[c] \in Calls
      BY CallFacts
    <3>3. chat[c].est \in Nat
      BY <3>2, EstimateFacts
    <3>4. Others(chat, c) \in Nat /\ Pending(chat) = IF c \in InFlight(chat) THEN chat[c].est + Others(chat, c) ELSE Others(chat, c)
      BY <3>2, OthersFacts
    <3>5. Pending(chat) \in Nat
      BY <3>3, <3>4
    <3> QED BY <3>5, BoundFacts DEF ClientInv, FlightOK
  <2> HIDE DEF Bound
  <2>7. LocalSpend' + Pending(chat) <= Bound
    BY <2>4, <2>5, <2>6
  <2> QED BY <1>1, <2>7 DEF FlightOK, Bound
<1> QED BY <1>2, <1>4, <1>5 DEF ClientInv

LEMMA ClientStep ==
  ASSUME ClientInv, GroqNext
  PROVE  ClientInv'
BY ChatKeeps, SendKeeps, AnsweredKeeps, ErrorKeeps, QuotaWallKeeps, WakeUpKeeps, ReturnedKeeps, TickKeeps
   DEF GroqNext, Replies

LEMMA ClientStutters ==
  ASSUME ClientInv, UNCHANGED groqVars
  PROVE  ClientInv'
<1>1. CallsOK' /\ UsageOK' /\ PoolOK'
  BY DEF groqVars, ClientInv, CallsOK, CallOK, UsageOK, PoolOK
<1>2. FlightOK'
  BY DEF groqVars, ClientInv, FlightOK, LocalSpend, Pruned
<1> QED BY <1>1, <1>2 DEF ClientInv

LEMMA ClientImplies ==
  ASSUME ClientInv
  PROVE  ClientSound
<1>1. GroqTypeOK
  BY DEF ClientInv, CallsOK, UsageOK, PoolOK, Calls, Entries, GroqTypeOK
<1>2. RescueTried
  BY DEF ClientInv, CallsOK, CallOK, RescueTried
<1>3. SpendIsBounded
  <2>1. PICK c \in Callers : TRUE
    BY GroqAssumption
  <2>2. chat \in [Callers -> Calls] /\ chat[c] \in Calls /\ UsageOK
    BY CallFacts
  <2>3. chat[c].est \in Nat
    BY <2>2, EstimateFacts
  <2>4. Others(chat, c) \in Nat /\ Pending(chat) = IF c \in InFlight(chat) THEN chat[c].est + Others(chat, c) ELSE Others(chat, c)
    BY <2>2, OthersFacts
  <2>5. Pending(chat) \in Nat
    BY <2>3, <2>4
  <2>6. LocalSpend \in Nat
    BY <2>2, SpendFacts
  <2>7. LocalSpend <= Bound
    <3>1. LocalSpend + Pending(chat) <= Bound /\ Bound \in Nat
      BY BoundFacts DEF ClientInv, FlightOK
    <3> HIDE DEF Bound, LocalSpend
    <3> QED BY <2>5, <2>6, <3>1
  <2> QED BY <2>7 DEF SpendIsBounded, Bound, Largest
<1> QED BY <1>1, <1>2, <1>3 DEF ClientSound

\* Overlapping calls of chat() that share keys, client and budget keep a key, overspend
\* the local token budget by no more than the other calls in flight may add, and raise a
\* quota error only after the fallback model was tried (GroqClient._chat, _rotate_key),
\* for any number of callers, keys, retries and any estimates.
THEOREM ClientHolds == GroqSpec => []ClientSound
<1>1. ClientInv /\ [GroqNext]_groqVars => ClientInv'
  BY ClientStep, ClientStutters
<1> QED BY <1>1, ClientInitially, ClientImplies, PTL DEF GroqSpec

-----------------------------------------------------------------------------
(* Judge *)

Sides == {NoSide, "LONG", "SHORT"}
Parsed == [action : {"ENTER", "EXIT", "HOLD"}, direction : {"LONG", "SHORT", "NEUTRAL"},
           side : Words, confidence : Int, contract : Names]
Raw == [shape : {"object", "text"}, action : Words, direction : Words, side : Words, confidence : Int,
        contract : Names]
Rows == [symbol : Names, outcome : {"open", "flat"}, executed : BOOLEAN]
Verdict(c) ==
  [action : {"ENTER", "EXIT", "HOLD", "adjust_stop", "reduce_position"},
   direction : {"LONG", "SHORT", "NEUTRAL"}, side : {"BUY", "SELL", "none"}, confidence : 0 .. 100,
   contract : c, ok : BOOLEAN, corrected : BOOLEAN]
Verdicts == Verdict(Symbols)
LaterEntries == [at : DOMAIN Pairs, decision : Verdicts, shown : SUBSET Backdrops]
Scans == [pc : {"rest", "gate", "asked", "escalated", "decided"}, symbol : Symbols, side : Sides,
          signal : Signals, cheap : SUBSET Parsed, todo : SUBSET (DOMAIN Pairs), decision : Verdicts,
          row : Nat, seen : SUBSET Symbols, shown : SUBSET Backdrops, later : SUBSET LaterEntries]

\* The gate: what it charged today, and what was asked on the current candle.
Charged == IF counter.day = today THEN counter.used ELSE 0
GateOK ==
  /\ mode \in {"trend", "scalp"} /\ today \in Nat \ {0} /\ candle \in Nat \ {0} /\ restarts \in Nat
  /\ counter \in [day : Nat, used : Nat] /\ counter.day <= today
  /\ lastTs \in [Symbols -> 0 .. candle]
  /\ paid \in Nat /\ unbilled \in Nat
HeldOK == held \in [Symbols -> Sides]
OnceOK ==
  /\ twice = FALSE
  /\ \A e \in judgedFlat :
       \E s \in Symbols : \E c \in 1 .. candle : e = <<s, c>> /\ (c = candle => lastTs[s] = candle)

\* A second call under way is paid for and not charged; it is made only within the budget.
SpendOK ==
  Budget > 0 =>
    IF scan.pc = "escalated" THEN paid <= Charged + 1 + unbilled /\ Charged <= Budget
    ELSE /\ paid <= Charged + unbilled /\ Charged <= Budget + 1
         /\ scan.pc = "asked" => Charged <= Budget

\* The entries of a batch that wait for their turn are as good as the one at hand.
LaterAreJudged == \A e \in scan.later : e.decision.action = "ENTER" /\ WellJudged(e.decision, e.shown)

\* The cycle, and the row of the decision at hand.
ScanOK ==
  /\ scan \in Scans /\ scan.row <= Len(journal)
  /\ scan.pc = "escalated" => scan.cheap # {}
  /\ scan.pc = "decided" /\ scan.row # 0 => journal[scan.row].outcome = "open"
  /\ TradesAreJudged /\ LaterAreJudged
RowsOK ==
  /\ journal \in Seq(Rows)
  /\ opener \in [Symbols -> Nat] /\ \A s \in Symbols : opener[s] <= Len(journal)
  /\ RowFollowsPosition

JudgeInv == GateOK /\ HeldOK /\ OnceOK /\ SpendOK /\ ScanOK /\ RowsOK

LEMMA PairFacts ==
  /\ Pairs[1] \in Symbols /\ \A i \in DOMAIN Pairs : Pairs[i] \in Symbols
  /\ Symbols \subseteq Names
<1>1. DOMAIN Pairs = 1 .. Len(Pairs) /\ Len(Pairs) \in Nat /\ Len(Pairs) # 0
  BY JudgeAssumption
<1>2. 1 \in DOMAIN Pairs
  BY <1>1
<1> QED BY <1>1, <1>2, JudgeAssumption DEF Symbols

LEMMA BetweenOK ==
  ASSUME NEW todo \in SUBSET (DOMAIN Pairs), NEW seen \in SUBSET Symbols
  PROVE  /\ Between(todo, seen) \in Scans /\ Between(todo, seen).pc = "gate"
         /\ Between(todo, seen).row = 0 /\ Between(todo, seen).later = {}
<1>1. (CHOOSE s \in Signals : TRUE) \in Signals
  BY JudgeAssumption
<1>2. Hold(Pairs[1]) \in Verdicts
  BY PairFacts DEF Hold, Verdicts, Verdict
<1>3. NoSide \in Sides
  BY DEF Sides
<1> HIDE DEF Verdicts, Symbols, LaterEntries
<1> QED BY <1>1, <1>2, <1>3, PairFacts DEF Between, Scans

LEMMA RestingOK ==
  Resting \in Scans /\ Resting.pc = "rest" /\ Resting.row = 0 /\ Resting.later = {}
<1>1. {} \in SUBSET (DOMAIN Pairs) /\ {} \in SUBSET Symbols
  OBVIOUS
<1>2. Between({}, {}) \in Scans /\ Between({}, {}).row = 0 /\ Between({}, {}).later = {}
  BY <1>1, BetweenOK
<1> HIDE DEF Between
<1> QED BY <1>2 DEF Resting, Scans

-----------------------------------------------------------------------------
(* What the validator lets through *)

LEMMA Directions ==
  ASSUME NEW d
  PROVE  DirectionOf(d) \in {"LONG", "SHORT", "NEUTRAL"}
BY DEF DirectionOf, CanonicalDirection

LEMMA ClampFacts ==
  ASSUME NEW c \in Int
  PROVE  /\ Clamp(c) \in 0 .. 100
         /\ (MinConfidence > 0 => ~ (c # NotANumber /\ c < MinConfidence)) => Clamp(c) >= MinConfidence
<1>4. MinConfidence \in 0 .. 100
  BY JudgeAssumption
<1>1. CASE c \in {Missing, Unreadable}
  BY <1>1, <1>4 DEF Clamp, Missing, Unreadable, NotANumber
<1>2. CASE c \notin {Missing, Unreadable} /\ (c = NotANumber \/ c > 100)
  BY <1>2, <1>4 DEF Clamp, Missing, Unreadable, NotANumber
<1>3. CASE c \notin {Missing, Unreadable} /\ ~ (c = NotANumber \/ c > 100)
  BY <1>3, <1>4 DEF Clamp, Missing, Unreadable, NotANumber
<1> QED BY <1>1, <1>2, <1>3

LEMMA NormalFacts ==
  ASSUME NEW d \in Parsed \cup Raw, NEW side, NEW ind, NEW v,
         v = NormalizeDecision(d, side, ind, "veto", MinConfidence)
  PROVE  /\ v \in Verdict({d.contract})
         /\ v.ok /\ v.action = "ENTER" =>
              WellJudged(v, {ind})
<1> DEFINE action == KnownAction(d.action)
           e == [d EXCEPT !.action = action]
<1>1. action \in {"ENTER", "EXIT", "HOLD", "adjust_stop", "reduce_position"}
  BY DEF KnownAction
<1>2. DeriveSide(action, DirectionOf(d), side) \in {"BUY", "SELL", "none"}
  BY DEF DeriveSide
<1>3. SideToken(d.side) \in {"BUY", "SELL", "none"}
  BY DEF SideToken
<1>4. d.confidence \in Int /\ e.confidence = d.confidence /\ e.action = action
  BY DEF Parsed, Raw
<1>5. Clamp(d.confidence) \in 0 .. 100
  BY <1>4, ClampFacts
<1>6. action = "ENTER" /\ DeriveSide(action, DirectionOf(d), side) # "none"
        => <<DirectionOf(d), DeriveSide(action, DirectionOf(d), side)>> \in {<<"LONG", "BUY">>, <<"SHORT", "SELL">>}
  BY Directions DEF DeriveSide
<1>7. action = "ENTER" /\ ~ TooUnsure(e, MinConfidence) => Clamp(d.confidence) >= MinConfidence
  BY <1>4, ClampFacts DEF TooUnsure
<1> DEFINE dir == DirectionOf(d)
           sd == DeriveSide(action, dir, side)
           conf == Clamp(d.confidence)
           unsure == TooUnsure(e, MinConfidence)
           tok == SideToken(d.side)
           pl == Plausible(d, ind, "veto")
<1>9. dir \in {"LONG", "SHORT", "NEUTRAL"}
  BY Directions
<1> DEFINE okay == (action \in {"ENTER", "EXIT"} => sd # "none") /\ pl /\ ~ unsure
           cor == action \in {"ENTER", "EXIT"} /\ sd # "none" /\ d.side # "" /\ tok # sd
           dr == IF action = "HOLD" THEN "NEUTRAL" ELSE dir
           si == IF action \in {"adjust_stop", "reduce_position"} THEN tok ELSE sd
<1>8. v = [action |-> action, direction |-> dr, side |-> si, confidence |-> conf, contract |-> d.contract,
           ok |-> okay, corrected |-> cor]
  BY DEF NormalizeDecision
<1>10. okay \in BOOLEAN /\ cor \in BOOLEAN
  OBVIOUS
<1>13. dr \in {"LONG", "SHORT", "NEUTRAL"} /\ si \in {"BUY", "SELL", "none"}
  BY <1>2, <1>3, <1>9
<1>14. okay /\ action = "ENTER" => ~ unsure /\ sd # "none" /\ dr = dir /\ si = sd /\ PlausibilityCheck(dir, ind)
  BY DEF Plausible
<1> HIDE DEF dir, sd, conf, unsure, tok, pl, action, okay, cor, dr, si
<1>11. v \in Verdict({d.contract})
  BY <1>1, <1>5, <1>8, <1>10, <1>13 DEF conf, Verdict
<1>12. v.ok = okay /\ v.action = action /\ v.direction = dr /\ v.side = si /\ v.confidence = conf
  BY <1>8
<1>15. ASSUME v.ok, v.action = "ENTER"
       PROVE  <<v.direction, v.side>> = <<dir, sd>> /\ v.confidence = conf /\ sd # "none" /\ ~ unsure /\ action = "ENTER"
              /\ PlausibilityCheck(v.direction, ind)
  BY <1>12, <1>14, <1>15
<1> QED BY <1>6, <1>7, <1>11, <1>15 DEF dir, sd, conf, unsure, WellJudged

-----------------------------------------------------------------------------
(* The steps *)

LEMMA JudgeInitially ==
  ASSUME JudgeInit
  PROVE  JudgeInv
<1>1. GateOK /\ HeldOK /\ OnceOK
  <2>1. GateOK
    BY DEF JudgeInit, GateOK
  <2>2. HeldOK
    BY DEF JudgeInit, HeldOK, Sides
  <2>3. OnceOK
    BY DEF JudgeInit, OnceOK
  <2> QED BY <2>1, <2>2, <2>3
<1>2. SpendOK
  <2>1. Budget \in Nat
    BY JudgeAssumption
  <2> QED BY <2>1, RestingOK DEF JudgeInit, SpendOK, Charged
<1>3. ScanOK
  BY RestingOK DEF JudgeInit, ScanOK, TradesAreJudged, LaterAreJudged
<1>4. RowsOK
  BY DEF JudgeInit, RowsOK, RowFollowsPosition
<1> QED BY <1>1, <1>2, <1>3, <1>4 DEF JudgeInv

\* A cycle that goes on to the next pair, or to rest, changes nothing else.
LEMMA MovesOn ==
  ASSUME JudgeInv, scan' \in Scans, scan'.row = 0, scan'.pc \in {"gate", "rest"}, scan.pc # "escalated",
         scan'.later = {},
         UNCHANGED <<mode, today, candle, counter, lastTs, held, journal, restarts, paid, unbilled,
                     twice, judgedFlat, opener>>
  PROVE  JudgeInv'
<1>1. GateOK' /\ HeldOK' /\ OnceOK' /\ RowsOK'
  BY DEF JudgeInv, GateOK, HeldOK, OnceOK, RowsOK, RowFollowsPosition
<1>2. SpendOK'
  BY DEF JudgeInv, SpendOK, Charged
<1>3. ScanOK'
  BY DEF JudgeInv, ScanOK, RowsOK, TradesAreJudged, LaterAreJudged
<1> QED BY <1>1, <1>2, <1>3 DEF JudgeInv

LEMMA ReconcilesKeeps ==
  ASSUME JudgeInv, CycleReconciles
  PROVE  JudgeInv'
<1> DEFINE todo == {i \in DOMAIN Pairs : OpenSymbols # {} => Pairs[i] \in OpenSymbols}
<1>1. todo \in SUBSET (DOMAIN Pairs) /\ OpenSymbols \in SUBSET Symbols
  BY DEF OpenSymbols
<1>2. scan' = Between(todo, OpenSymbols)
  BY DEF CycleReconciles
<1>3. scan' \in Scans /\ scan'.row = 0 /\ scan'.pc = "gate" /\ scan'.later = {}
  BY <1>1, <1>2, BetweenOK
<1>4. /\ journal' \in Seq(Rows) /\ Len(journal') = Len(journal)
      /\ \A i \in 1 .. Len(journal) : journal'[i] = Resolved(journal[i], OpenSymbols)
  <2>1. journal \in Seq(Rows) /\ journal' = [i \in DOMAIN journal |-> Resolved(journal[i], OpenSymbols)]
    BY DEF JudgeInv, RowsOK, CycleReconciles
  <2>2. \A i \in DOMAIN journal : Resolved(journal[i], OpenSymbols) \in Rows
    <3> SUFFICES ASSUME NEW i \in DOMAIN journal PROVE Resolved(journal[i], OpenSymbols) \in Rows
      OBVIOUS
    <3>1. journal[i] \in Rows
      BY <2>1
    <3> QED BY <3>1 DEF Resolved, Rows
  <2>3. DOMAIN journal = 1 .. Len(journal) /\ Len(journal) \in Nat
    BY <2>1
  <2> HIDE DEF Rows
  <2> QED BY <2>1, <2>2, <2>3
<1>5. GateOK' /\ HeldOK' /\ OnceOK'
  BY DEF JudgeInv, GateOK, HeldOK, OnceOK, CycleReconciles
<1>6. SpendOK'
  BY <1>3 DEF JudgeInv, SpendOK, Charged, CycleReconciles
<1>7. ScanOK'
  BY <1>3, <1>4 DEF JudgeInv, ScanOK, RowsOK, TradesAreJudged, LaterAreJudged
<1>8. RowsOK'
  <2>1. opener' = opener /\ held' = held
    BY DEF CycleReconciles
  <2>2. ASSUME NEW s \in Symbols, held[s] # NoSide, opener[s] # 0, journal'[opener[s]].symbol = s
        PROVE  journal'[opener[s]].outcome = "open"
    <3>1. opener[s] \in 1 .. Len(journal) /\ journal[opener[s]] \in Rows
      BY <2>2 DEF JudgeInv, RowsOK
    <3>2. s \in OpenSymbols
      BY <2>2 DEF OpenSymbols
    <3>3. journal'[opener[s]] = Resolved(journal[opener[s]], OpenSymbols)
      BY <1>4, <3>1
    <3>4. journal[opener[s]].symbol = s
      BY <2>2, <3>1, <3>3 DEF Resolved, Rows
    <3>5. journal'[opener[s]] = journal[opener[s]]
      BY <3>2, <3>3, <3>4 DEF Resolved
    <3> QED BY <2>2, <3>4, <3>5 DEF JudgeInv, RowsOK, RowFollowsPosition
  <2> QED BY <1>4, <2>1, <2>2 DEF JudgeInv, RowsOK, RowFollowsPosition
<1> QED BY <1>5, <1>6, <1>7, <1>8 DEF JudgeInv

\* What a call for the pairs S does to the candles, if each flat one was not judged on this candle.
LEMMA PaysOnce ==
  ASSUME JudgeInv, NEW S \in SUBSET Symbols, PaysFor(S), UNCHANGED candle,
         \A s \in S : held[s] = NoSide => lastTs[s] # candle,
         lastTs' \in [Symbols -> 0 .. candle],
         \A s \in Symbols : lastTs'[s] = IF s \in S THEN candle ELSE lastTs[s]
  PROVE  OnceOK'
<1>1. candle \in Nat \ {0} /\ OnceOK
  BY DEF JudgeInv, GateOK
<1>2. \A s \in S : held[s] = NoSide => <<s, candle>> \notin judgedFlat
  <2> SUFFICES ASSUME NEW s \in S, held[s] = NoSide, <<s, candle>> \in judgedFlat PROVE FALSE
    OBVIOUS
  <2>1. PICK t \in Symbols : \E c \in 1 .. candle : <<s, candle>> = <<t, c>> /\ (c = candle => lastTs[t] = candle)
    BY <1>1 DEF OnceOK
  <2>2. PICK c \in 1 .. candle : <<s, candle>> = <<t, c>> /\ (c = candle => lastTs[t] = candle)
    BY <2>1
  <2>3. s = t /\ c = candle
    BY <2>2
  <2> QED BY <2>2, <2>3
<1>3. twice' = FALSE
  BY <1>1, <1>2 DEF OnceOK, PaysFor
<1>4. ASSUME NEW e \in judgedFlat'
      PROVE  \E s \in Symbols : \E c \in 1 .. candle : e = <<s, c>> /\ (c = candle => lastTs'[s] = candle)
  <2>1. CASE e \in judgedFlat
    <3>1. PICK t \in Symbols : \E c \in 1 .. candle : e = <<t, c>> /\ (c = candle => lastTs[t] = candle)
      BY <1>1, <2>1 DEF OnceOK
    <3>2. PICK c \in 1 .. candle : e = <<t, c>> /\ (c = candle => lastTs[t] = candle)
      BY <3>1
    <3>3. c = candle => lastTs'[t] = candle
      BY <3>2
    <3> QED BY <3>2, <3>3
  <2>2. CASE e \notin judgedFlat
    <3>1. PICK s \in S : e = <<s, candle>>
      BY <2>2, <1>4 DEF PaysFor
    <3>2. lastTs'[s] = candle /\ candle \in 1 .. candle /\ s \in Symbols
      BY <1>1
    <3> QED BY <3>1, <3>2
  <2> QED BY <2>1, <2>2
<1> QED BY <1>3, <1>4 DEF OnceOK

LEMMA CounterFacts ==
  ASSUME GateOK
  PROVE  Counter \in [day : Nat, used : Nat] /\ Counter.day = today /\ Counter.used = Charged
BY DEF GateOK, Counter, Charged

LEMMA ScanPairKeeps ==
  ASSUME JudgeInv, NEW i \in DOMAIN Pairs, NEW signal \in Signals, ScanPair(i, signal)
  PROVE  JudgeInv'
<1> DEFINE s == Pairs[i]
<1>1. s \in Symbols /\ GateOK /\ HeldOK /\ scan \in Scans /\ scan.pc = "gate"
  BY PairFacts DEF JudgeInv, ScanOK, ScanPair
<1>2. Counter \in [day : Nat, used : Nat] /\ Counter.day = today /\ Counter.used = Charged
  BY <1>1, CounterFacts
<1> HIDE DEF s
<1>3. CASE Worthy(s, held[s], signal) /\ BudgetAllows
  <2>1. /\ Charge(s) /\ PaysFor({s})
        /\ scan' = [scan EXCEPT !.pc = "asked", !.symbol = s, !.side = held[s], !.signal = signal,
                                !.todo = @ \ {i}]
        /\ UNCHANGED <<mode, today, candle, held, journal, restarts, unbilled, opener>>
    BY <1>3 DEF ScanPair, s
  <2>2. counter' = [Counter EXCEPT !.used = @ + 1] /\ lastTs' = [lastTs EXCEPT ![s] = candle] /\ paid' = paid + 1
    BY <2>1 DEF Charge, PaysFor
  <2>3. GateOK'
    <3>1. counter' \in [day : Nat, used : Nat] /\ counter'.day = today
      BY <1>2, <2>2
    <3> QED BY <1>1, <2>1, <2>2, <3>1 DEF GateOK
  <2>4. HeldOK' /\ RowsOK'
    BY <2>1 DEF JudgeInv, HeldOK, RowsOK, RowFollowsPosition
  <2>5. OnceOK'
    <3>1. {s} \in SUBSET Symbols /\ \A x \in {s} : held[x] = NoSide => lastTs[x] # candle
      BY <1>1, <1>3 DEF Worthy
    <3>2. lastTs' \in [Symbols -> 0 .. candle] /\ \A x \in Symbols : lastTs'[x] = IF x \in {s} THEN candle ELSE lastTs[x]
      BY <1>1, <2>2 DEF GateOK
    <3> QED BY <2>1, <3>1, <3>2, PaysOnce
  <2>6. scan' \in Scans /\ scan'.pc = "asked" /\ scan'.row = scan.row /\ scan'.later = scan.later
    <3>1. held[s] \in Sides /\ scan.todo \ {i} \in SUBSET (DOMAIN Pairs)
      BY <1>1 DEF HeldOK, Scans
    <3> HIDE DEF Sides, Verdicts, Parsed, Symbols, LaterEntries
    <3> QED BY <1>1, <2>1, <3>1 DEF Scans
  <2>7. ScanOK'
    BY <2>1, <2>6 DEF JudgeInv, ScanOK, TradesAreJudged, LaterAreJudged
  <2>8. SpendOK'
    <3>1. Charged' = Charged + 1 /\ today' = today
      BY <1>2, <2>1, <2>2 DEF Charged
    <3>2. Budget > 0 => Charged < Budget /\ paid <= Charged + unbilled
      BY <1>1, <1>2, <1>3 DEF BudgetAllows, JudgeInv, SpendOK
    <3>3. Charged \in Nat /\ paid \in Nat /\ unbilled \in Nat /\ Budget \in Nat
      BY <1>1, JudgeAssumption DEF GateOK, Charged
    <3> HIDE DEF Charged
    <3> QED BY <2>1, <2>2, <2>6, <3>1, <3>2, <3>3 DEF SpendOK
  <2> QED BY <2>3, <2>4, <2>5, <2>7, <2>8 DEF JudgeInv
<1>4. CASE ~ (Worthy(s, held[s], signal) /\ BudgetAllows)
  <2>1. /\ scan' = Between(scan.todo \ {i}, scan.seen)
        /\ counter' = IF Worthy(s, held[s], signal) THEN Counter ELSE counter
        /\ UNCHANGED <<mode, today, candle, held, journal, restarts, unbilled, opener,
                       lastTs, paid, twice, judgedFlat>>
    BY <1>4 DEF ScanPair, s
  <2>2. scan' \in Scans /\ scan'.row = 0 /\ scan'.pc = "gate" /\ scan'.later = {}
    BY <1>1, <2>1, BetweenOK DEF Scans
  <2>3. counter' \in [day : Nat, used : Nat] /\ counter'.day <= today /\ Charged' = Charged
    BY <1>1, <1>2, <2>1 DEF GateOK, Charged
  <2>4. GateOK' /\ HeldOK' /\ OnceOK' /\ RowsOK'
    BY <2>1, <2>3 DEF JudgeInv, GateOK, HeldOK, OnceOK, RowsOK, RowFollowsPosition
  <2>5. SpendOK'
    BY <1>1, <2>1, <2>2, <2>3 DEF JudgeInv, SpendOK
  <2>6. ScanOK'
    <3>1. TradesAreJudged' /\ LaterAreJudged'
      BY <2>2 DEF TradesAreJudged, LaterAreJudged
    <3>2. Len(journal') \in Nat
      BY <2>1 DEF JudgeInv, RowsOK
    <3> QED BY <2>2, <3>1, <3>2 DEF ScanOK
  <2> QED BY <2>4, <2>5, <2>6 DEF JudgeInv
<1> QED BY <1>3, <1>4

LEMMA QuietKeeps ==
  ASSUME JudgeInv, CycleEnds \/ NotExecuted \/ (EntryRefused /\ scan.later = {})
  PROVE  JudgeInv'
<1>1. scan \in Scans /\ scan.todo \in SUBSET (DOMAIN Pairs) /\ scan.seen \in SUBSET Symbols
  BY DEF JudgeInv, ScanOK, Scans
<1>2. /\ Between(scan.todo, scan.seen) \in Scans /\ Between(scan.todo, scan.seen).row = 0
      /\ Between(scan.todo, scan.seen).pc = "gate" /\ Between(scan.todo, scan.seen).later = {}
  BY <1>1, BetweenOK
<1>3. scan' \in Scans /\ scan'.row = 0 /\ scan'.pc \in {"gate", "rest"} /\ scan.pc # "escalated" /\ scan'.later = {}
  BY <1>2, RestingOK DEF CycleEnds, NotExecuted, EntryRefused
<1>4. UNCHANGED <<mode, today, candle, counter, lastTs, held, journal, restarts, paid, unbilled,
                  twice, judgedFlat, opener>>
  BY DEF CycleEnds, NotExecuted, EntryRefused
<1> QED BY <1>3, <1>4, MovesOn

LEMMA FailsKeeps ==
  ASSUME JudgeInv, JudgeFails
  PROVE  JudgeInv'
<1>1. scan \in Scans /\ scan.todo \in SUBSET (DOMAIN Pairs) /\ scan.seen \in SUBSET Symbols
  BY DEF JudgeInv, ScanOK, Scans
<1>2. scan' \in Scans /\ scan'.row = 0 /\ scan'.pc = "gate" /\ scan'.later = {}
  <2> DEFINE todo == IF mode = "scalp" THEN {} ELSE scan.todo
  <2>1. todo \in SUBSET (DOMAIN Pairs) /\ scan' = Between(todo, scan.seen)
    BY <1>1 DEF JudgeFails
  <2> HIDE DEF todo
  <2> QED BY <1>1, <2>1, BetweenOK
<1>3. /\ unbilled' = IF scan.pc = "escalated" THEN unbilled + 1 ELSE unbilled
      /\ UNCHANGED <<mode, today, candle, counter, lastTs, held, journal, restarts, paid, twice, judgedFlat, opener>>
  BY DEF JudgeFails
<1>4. GateOK' /\ HeldOK' /\ OnceOK' /\ RowsOK'
  BY <1>3 DEF JudgeInv, GateOK, HeldOK, OnceOK, RowsOK, RowFollowsPosition
<1>5. SpendOK'
  <2>1. Charged' = Charged
    BY <1>3 DEF Charged
  <2>2. Charged \in Nat /\ paid \in Nat /\ unbilled \in Nat /\ Budget \in Nat
    BY JudgeAssumption DEF JudgeInv, GateOK, Charged
  <2> HIDE DEF Charged
  <2> QED BY <1>2, <1>3, <2>1, <2>2 DEF JudgeInv, SpendOK
<1>6. ScanOK'
  BY <1>2, <1>3 DEF JudgeInv, ScanOK, RowsOK, TradesAreJudged, LaterAreJudged
<1> QED BY <1>4, <1>5, <1>6 DEF JudgeInv

-----------------------------------------------------------------------------
(* Answers *)

LEMMA ParsedOK ==
  ASSUME NEW raw \in Answers
  PROVE  raw \in Raw /\ ParseTradingDecision(raw) \in Parsed
<1>1. raw \in Raw
  BY JudgeAssumption DEF Raw
<1>2. DirectionOf(raw) \in {"LONG", "SHORT", "NEUTRAL"}
  BY Directions
<1> DEFINE nul == ""
<1>3. nul \in Words
  BY DEF Words
<1> DEFINE dir == DirectionOf(raw)
           act == IF raw.action \in {"ENTER", "EXIT", "HOLD"} THEN raw.action ELSE "HOLD"
<1>4. act \in {"ENTER", "EXIT", "HOLD"}
  OBVIOUS
<1>5. ParseTradingDecision(raw) =
        IF raw.shape # "object"
          THEN [action |-> "HOLD", direction |-> "NEUTRAL", side |-> nul, confidence |-> 0, contract |-> raw.contract]
          ELSE [action |-> act, direction |-> dir, side |-> raw.side, confidence |-> raw.confidence,
                contract |-> raw.contract]
  BY DEF ParseTradingDecision
<1>6. raw.side \in Words /\ raw.confidence \in Int /\ raw.contract \in Names
  BY <1>1 DEF Raw
<1> HIDE DEF dir, act, nul, Words
<1> DEFINE no == [action |-> "HOLD", direction |-> "NEUTRAL", side |-> nul, confidence |-> 0, contract |-> raw.contract]
           yes == [action |-> act, direction |-> dir, side |-> raw.side, confidence |-> raw.confidence,
                   contract |-> raw.contract]
<1>7. no \in Parsed
  BY <1>3, <1>6 DEF Parsed
<1>8. yes \in Parsed
  BY <1>2, <1>4, <1>6 DEF Parsed, dir
<1> HIDE DEF no, yes
<1>9. ParseTradingDecision(raw) \in {no, yes}
  BY <1>5 DEF no, yes
<1> QED BY <1>1, <1>7, <1>8, <1>9

\* A decision is journaled as an open row, and may be traded only if it was judged.
LEMMA DecideKeeps ==
  ASSUME JudgeInv, NEW d \in Parsed, NEW backdrop \in Backdrops, NEW logged \in BOOLEAN, Decide(d, backdrop, logged),
         UNCHANGED <<held, opener>>
  PROVE  ScanOK' /\ RowsOK' /\ scan'.pc = "decided"
<1> DEFINE n == NormalizeDecision(d, scan.side, backdrop, "veto", MinConfidence)
           v == Judged(d, backdrop)
           write == v.action = "ENTER" /\ logged
           row == [symbol |-> v.contract, outcome |-> "open", executed |-> FALSE]
           w == [v EXCEPT !.contract = scan.symbol]
           sh == IF v.action = "ENTER" THEN {backdrop} ELSE {}
<1>1. scan \in Scans /\ scan.symbol \in Symbols /\ journal \in Seq(Rows) /\ scan.row \in Nat
  BY DEF JudgeInv, ScanOK, Scans, RowsOK
<1>2. d \in Parsed \cup Raw /\ d.contract \in Names
  BY DEF Parsed
<1>3. v \in Verdict(Names)
      /\ (v.action = "ENTER" => WellJudged(v, {backdrop}))
  <2>1. n \in Verdict({d.contract})
        /\ (n.ok /\ n.action = "ENTER" => WellJudged(n, {backdrop}))
    BY <1>2, NormalFacts
  <2>2. v = IF n.ok THEN n ELSE Hold(scan.symbol)
    BY DEF Judged
  <2> HIDE DEF n, v
  <2>3. n \in Verdict(Names)
    BY <1>2, <2>1 DEF Verdict
  <2>4. Hold(scan.symbol) \in Verdict(Names) /\ Hold(scan.symbol).action = "HOLD"
    BY <1>1, PairFacts DEF Hold, Verdict
  <2> QED BY <2>1, <2>2, <2>3, <2>4
<1> HIDE DEF v
<1>4. w \in Verdicts /\ w.action = v.action /\ w.direction = v.direction /\ w.side = v.side /\ w.confidence = v.confidence
  BY <1>1, <1>3 DEF Verdicts, Verdict
<1>5. /\ journal' = IF write THEN Append(journal, row) ELSE journal
      /\ scan' = [scan EXCEPT !.pc = "decided", !.cheap = {}, !.decision = w, !.shown = sh,
                              !.row = IF write THEN Len(journal) + 1 ELSE 0]
  BY DEF Decide, v
<1>6. row \in Rows
  BY <1>3 DEF Verdict, Rows
<1> HIDE DEF w, row, Verdicts, Rows, Parsed, Sides, Symbols, LaterEntries
<1>7. /\ journal' \in Seq(Rows) /\ Len(journal') \in Nat /\ Len(journal) <= Len(journal')
      /\ \A i \in 1 .. Len(journal) : journal'[i] = journal[i]
      /\ write => Len(journal') = Len(journal) + 1 /\ journal'[Len(journal) + 1] = row
  <2> HIDE DEF write
  <2>1. CASE write
    BY <1>1, <1>5, <1>6, <2>1
  <2>2. CASE ~ write
    BY <1>1, <1>5, <2>2
  <2> QED BY <2>1, <2>2
<1>8. scan' \in Scans /\ scan'.pc = "decided" /\ scan'.decision = w /\ scan'.later = scan.later
      /\ scan'.shown = sh
      /\ scan'.row = IF write THEN Len(journal) + 1 ELSE 0
  <2> DEFINE at == IF write THEN Len(journal) + 1 ELSE 0
  <2>1. at \in Nat
    BY <1>1
  <2>2. scan' = [scan EXCEPT !.pc = "decided", !.cheap = {}, !.decision = w, !.shown = sh, !.row = at]
    BY <1>5
  <2>4. sh \in SUBSET Backdrops
    OBVIOUS
  <2> HIDE DEF at, sh
  <2>3. scan' \in Scans /\ scan'.pc = "decided" /\ scan'.decision = w /\ scan'.row = at
        /\ scan'.shown = sh /\ scan'.later = scan.later
    BY <1>1, <1>4, <2>1, <2>2, <2>4 DEF Scans
  <2> QED BY <2>3 DEF at
<1>9. ScanOK'
  <2>1. scan'.row <= Len(journal')
    BY <1>1, <1>7, <1>8
  <2>2. scan'.row # 0 => journal'[scan'.row].outcome = "open"
    BY <1>7, <1>8 DEF row
  <2>3. TradesAreJudged'
    BY <1>3, <1>4, <1>8 DEF TradesAreJudged, WellJudged
  <2>4. LaterAreJudged'
    BY <1>8 DEF JudgeInv, ScanOK, LaterAreJudged
  <2> QED BY <1>8, <2>1, <2>2, <2>3, <2>4 DEF ScanOK
<1>10. RowsOK'
  <2>1. opener \in [Symbols -> Nat] /\ \A s \in Symbols : opener[s] <= Len(journal)
    BY DEF JudgeInv, RowsOK
  <2>2. \A s \in Symbols : opener[s] # 0 => journal'[opener[s]] = journal[opener[s]]
    BY <1>1, <1>7, <2>1
  <2>3. RowFollowsPosition'
    BY <2>2 DEF JudgeInv, RowsOK, RowFollowsPosition
  <2> QED BY <1>1, <1>7, <2>1, <2>3 DEF RowsOK
<1> QED BY <1>8, <1>9, <1>10

LEMMA AnswersKeeps ==
  ASSUME JudgeInv, NEW raw \in Answers, NEW backdrop \in Backdrops, NEW logged \in BOOLEAN, JudgeAnswers(raw, backdrop, logged)
  PROVE  JudgeInv'
<1> DEFINE d == ParseTradingDecision(raw)
<1>1. d \in Parsed
  BY ParsedOK
<1> HIDE DEF d
<1>2. /\ scan.pc = "asked"
      /\ UNCHANGED <<mode, today, candle, counter, lastTs, held, restarts, unbilled, twice, judgedFlat, opener>>
      /\ \/ /\ scan' = [scan EXCEPT !.pc = "escalated", !.cheap = {d}]
            /\ paid' = paid + 1 /\ UNCHANGED journal
         \/ Decide(d, backdrop, logged) /\ UNCHANGED paid
  BY DEF JudgeAnswers, d
<1>3. Charged' = Charged /\ Charged \in Nat /\ paid \in Nat /\ unbilled \in Nat /\ Budget \in Nat
  BY <1>2, JudgeAssumption DEF JudgeInv, GateOK, Charged
<1>4. HeldOK' /\ OnceOK' /\ GateOK'
  BY <1>2, <1>3 DEF JudgeInv, GateOK, HeldOK, OnceOK
<1> HIDE DEF Charged
<1>5. CASE Decide(d, backdrop, logged) /\ UNCHANGED paid
  <2>1. ScanOK' /\ RowsOK' /\ scan'.pc = "decided"
    BY <1>1, <1>2, <1>5, DecideKeeps
  <2>2. SpendOK'
    BY <1>2, <1>3, <1>5, <2>1 DEF JudgeInv, SpendOK
  <2> QED BY <1>4, <2>1, <2>2 DEF JudgeInv
<1>6. CASE /\ scan' = [scan EXCEPT !.pc = "escalated", !.cheap = {d}]
           /\ paid' = paid + 1 /\ UNCHANGED journal
  <2>1. scan \in Scans
    BY DEF JudgeInv, ScanOK
  <2>2. scan' \in Scans /\ scan'.pc = "escalated" /\ scan'.cheap # {} /\ scan'.row = scan.row
        /\ scan'.later = scan.later
    <3> HIDE DEF Parsed, Verdicts, Symbols, Sides, LaterEntries
    <3> QED BY <1>1, <1>6, <2>1 DEF Scans
  <2>3. ScanOK'
    BY <1>6, <2>2 DEF JudgeInv, ScanOK, TradesAreJudged, LaterAreJudged
  <2>4. RowsOK'
    BY <1>2, <1>6 DEF JudgeInv, RowsOK, RowFollowsPosition
  <2>5. SpendOK'
    BY <1>2, <1>3, <1>6, <2>2 DEF JudgeInv, SpendOK
  <2> QED BY <1>4, <2>3, <2>4, <2>5 DEF JudgeInv
<1> QED BY <1>2, <1>5, <1>6

LEMMA SmartKeeps ==
  ASSUME JudgeInv, NEW raw \in Answers, NEW backdrop \in Backdrops, NEW logged \in BOOLEAN, SmartAnswers(raw, backdrop, logged)
  PROVE  JudgeInv'
<1> DEFINE smart == ParseTradingDecision(raw)
           cheap == CHOOSE d \in scan.cheap : TRUE
           d == IF SmartWins(smart, cheap) THEN smart ELSE cheap
<1>1. scan.pc = "escalated" /\ scan \in Scans /\ scan.cheap # {}
  BY DEF SmartAnswers, JudgeInv, ScanOK
<1>2. d \in Parsed
  <2>1. smart \in Parsed
    BY ParsedOK
  <2>2. cheap \in Parsed
    BY <1>1 DEF Scans
  <2> QED BY <2>1, <2>2
<1>3. /\ counter' = [counter EXCEPT !.used = @ + 1] /\ Decide(d, backdrop, logged)
      /\ unbilled' = IF counter.day = today THEN unbilled ELSE unbilled + 1
      /\ UNCHANGED <<mode, today, candle, lastTs, held, restarts, paid, twice, judgedFlat, opener>>
  BY DEF SmartAnswers
<1> HIDE DEF d
<1>4. ScanOK' /\ RowsOK' /\ scan'.pc = "decided"
  BY <1>2, <1>3, DecideKeeps
<1>5. counter' \in [day : Nat, used : Nat] /\ counter'.day = counter.day /\ counter'.used = counter.used + 1
  BY <1>3 DEF JudgeInv, GateOK
<1>6. GateOK' /\ HeldOK' /\ OnceOK'
  BY <1>3, <1>5 DEF JudgeInv, GateOK, HeldOK, OnceOK
<1>7. SpendOK'
  <2>1. counter.used \in Nat /\ paid \in Nat /\ unbilled \in Nat /\ Budget \in Nat
    BY JudgeAssumption DEF JudgeInv, GateOK
  <2> QED BY <1>1, <1>3, <1>4, <1>5, <2>1 DEF JudgeInv, SpendOK, Charged
<1> QED BY <1>4, <1>6, <1>7 DEF JudgeInv

-----------------------------------------------------------------------------
(* LaterEntries, and the scalp rotation *)

LEMMA FillsKeeps ==
  ASSUME JudgeInv, EntryFills
  PROVE  JudgeInv'
<1> DEFINE s == scan.decision.contract
           side == IF scan.decision.side = "BUY" THEN "LONG" ELSE "SHORT"
<1>1. scan \in Scans /\ s \in Symbols /\ scan.row \in Nat /\ scan.row <= Len(journal) /\ scan.pc = "decided"
      /\ scan.seen \in SUBSET Symbols
  BY DEF JudgeInv, ScanOK, Scans, Verdicts, Verdict, EntryFills
<1>2. /\ held' = [held EXCEPT ![s] = side]
      /\ journal' = IF scan.row = 0 THEN journal ELSE [journal EXCEPT ![scan.row].executed = TRUE]
      /\ opener' = [opener EXCEPT ![s] = scan.row]
      /\ scan' = Between({}, scan.seen)
      /\ UNCHANGED <<mode, today, candle, counter, lastTs, restarts, paid, unbilled, twice, judgedFlat>>
  BY DEF EntryFills
<1>3. scan' \in Scans /\ scan'.row = 0 /\ scan'.pc = "gate" /\ scan'.later = {}
  BY <1>1, <1>2, BetweenOK
<1>4. journal \in Seq(Rows) /\ opener \in [Symbols -> Nat] /\ \A x \in Symbols : opener[x] <= Len(journal)
  BY DEF JudgeInv, RowsOK
<1>5. /\ journal' \in Seq(Rows) /\ Len(journal') = Len(journal)
      /\ \A i \in 1 .. Len(journal) : journal'[i].symbol = journal[i].symbol /\ journal'[i].outcome = journal[i].outcome
  <2>1. CASE scan.row = 0
    BY <1>2, <1>4, <2>1
  <2>2. CASE scan.row # 0
    <3> DEFINE k == scan.row
               r == [journal[k] EXCEPT !.executed = TRUE]
    <3>1. k \in 1 .. Len(journal) /\ journal[k] \in Rows
      BY <1>1, <1>4, <2>2
    <3>2. r \in Rows /\ r.symbol = journal[k].symbol /\ r.outcome = journal[k].outcome
      BY <3>1 DEF Rows
    <3>3. journal' = [journal EXCEPT ![k] = r]
      BY <1>2, <2>2
    <3> HIDE DEF k, r, Rows
    <3> QED BY <1>4, <3>1, <3>2, <3>3
  <2> QED BY <2>1, <2>2
<1> HIDE DEF s
<1>6. GateOK' /\ HeldOK' /\ OnceOK'
  BY <1>1, <1>2 DEF JudgeInv, GateOK, HeldOK, OnceOK, Sides
<1>7. SpendOK'
  BY <1>1, <1>2, <1>3 DEF JudgeInv, SpendOK, Charged
<1>8. ScanOK'
  BY <1>3, <1>4, <1>5 DEF ScanOK, TradesAreJudged, LaterAreJudged
<1>9. RowsOK'
  <2>1. opener' \in [Symbols -> Nat] /\ \A x \in Symbols : opener'[x] <= Len(journal')
    BY <1>1, <1>2, <1>4, <1>5
  <2>2. ASSUME NEW x \in Symbols, held'[x] # NoSide, opener'[x] # 0, journal'[opener'[x]].symbol = x
        PROVE  journal'[opener'[x]].outcome = "open"
    <3>1. opener'[x] \in 1 .. Len(journal)
      BY <1>4, <1>5, <2>1, <2>2
    <3>2. CASE x = s
      <4>1. opener'[x] = scan.row
        BY <1>1, <1>2, <1>4, <3>2
      <4>2. journal[scan.row].outcome = "open"
        BY <1>1, <2>2, <4>1 DEF JudgeInv, ScanOK
      <4> QED BY <1>5, <3>1, <4>1, <4>2
    <3>3. CASE x # s
      <4>1. opener'[x] = opener[x] /\ held'[x] = held[x]
        BY <1>1, <1>2, <1>4, <3>3 DEF JudgeInv, HeldOK
      <4>2. journal[opener[x]].symbol = x /\ held[x] # NoSide /\ opener[x] # 0
        BY <1>5, <2>2, <3>1, <4>1
      <4>3. journal[opener[x]].outcome = "open"
        BY <4>2 DEF JudgeInv, RowsOK, RowFollowsPosition
      <4> QED BY <1>5, <3>1, <4>1, <4>3
    <3> QED BY <3>2, <3>3
  <2> QED BY <1>5, <2>1, <2>2 DEF RowsOK, RowFollowsPosition
<1> QED BY <1>6, <1>7, <1>8, <1>9 DEF JudgeInv

\* However many pairs pass the gate together, the budget holds.
LEMMA GateAllFits ==
  ASSUME GateOK, NEW sig, Budget > 0
  PROVE  GateAll(sig) # {} => Charged + Cardinality(GateAll(sig)) <= Budget
<1> DEFINE worthy == {i \in DOMAIN Pairs : Worthy(Pairs[i], held[Pairs[i]], sig[Pairs[i]])}
           before(i) == {j \in worthy : j < i}
           go == GateAll(sig)
<1>1. SUFFICES ASSUME go # {} PROVE Charged + Cardinality(go) <= Budget
  OBVIOUS
<1>2. Counter.used = Charged /\ Charged \in Nat /\ Budget \in Nat
  BY CounterFacts, JudgeAssumption DEF GateOK, Charged
<1>3. \A i \in go : i \in worthy /\ Charged + Cardinality(before(i)) < Budget
  BY <1>2 DEF GateAll
<1>4. DOMAIN Pairs = 1 .. Len(Pairs) /\ Len(Pairs) \in Nat
  BY JudgeAssumption
<1>5. go \subseteq worthy /\ worthy \subseteq 1 .. Len(Pairs)
  BY <1>3, <1>4
<1> HIDE DEF worthy, go
<1>6. IsFiniteSet(worthy) /\ IsFiniteSet(go)
  <2>1. IsFiniteSet(1 .. Len(Pairs))
    BY <1>4, FS_Interval
  <2>2. IsFiniteSet(worthy)
    BY <1>5, <2>1, FS_Subset
  <2> QED BY <1>5, <2>2, FS_Subset
<1>7. PICK m \in go : \A i \in go : i <= m
  BY <1>1, <1>4, <1>5, <1>6, Greatest
<1>8. IsFiniteSet(before(m)) /\ go \ {m} \subseteq before(m)
  <2>1. before(m) \subseteq worthy
    OBVIOUS
  <2>2. go \ {m} \subseteq before(m)
    BY <1>4, <1>5, <1>7
  <2> QED BY <1>6, <2>1, <2>2, FS_Subset
<1>9. Cardinality(go \ {m}) <= Cardinality(before(m)) /\ Cardinality(before(m)) \in Nat
  BY <1>8, FS_Subset, FS_CardinalityType
<1>10. Cardinality(go \ {m}) = Cardinality(go) - 1 /\ Cardinality(go) \in Nat
  BY <1>6, <1>7, FS_RemoveElement, FS_CardinalityType
<1>11. Charged + Cardinality(before(m)) < Budget
  BY <1>3
<1> QED BY <1>2, <1>9, <1>10, <1>11 DEF go

LEMMA ScalpKeeps ==
  ASSUME JudgeInv, NEW sig, ScalpScan(sig)
  PROVE  JudgeInv'
<1> DEFINE go == GateAll(sig)
           pass == {Pairs[i] : i \in go}
           n == Cardinality(go)
<1>1. go \in SUBSET (DOMAIN Pairs) /\ pass \in SUBSET Symbols /\ GateOK /\ HeldOK
  BY PairFacts DEF GateAll, JudgeInv
<1>2. \A s \in pass : Worthy(s, held[s], sig[s])
  BY DEF GateAll
<1>3. IsFiniteSet(go) /\ n \in Nat /\ (go # {} => n # 0)
  <2>1. IsFiniteSet(DOMAIN Pairs)
    BY JudgeAssumption, FS_Interval
  <2>2. IsFiniteSet(go)
    BY <1>1, <2>1, FS_Subset
  <2> QED BY <2>2, FS_CardinalityType, FS_EmptySet
<1>4. Budget > 0 /\ go # {} => Charged + n <= Budget
  BY <1>1, GateAllFits
<1>5. Counter \in [day : Nat, used : Nat] /\ Counter.day = today /\ Counter.used = Charged
  BY <1>1, CounterFacts
<1>6. /\ scan.pc = "gate"
      /\ counter' = IF \E s \in Symbols : Worthy(s, held[s], sig[s])
                      THEN [day |-> today, used |-> Counter.used + n] ELSE counter
      /\ lastTs' = [s \in Symbols |-> IF s \in pass THEN candle ELSE lastTs[s]]
      /\ IF go = {}
           THEN scan' = Resting /\ UNCHANGED <<paid, twice, judgedFlat>>
           ELSE scan' = [scan EXCEPT !.pc = "asked", !.todo = go] /\ PaysFor(pass)
      /\ UNCHANGED <<mode, today, candle, held, journal, restarts, unbilled, opener>>
  BY DEF ScalpScan
<1>7. pass = {} <=> go = {}
  OBVIOUS
<1>8. go = {} => n = 0
  BY FS_EmptySet
<1> HIDE DEF go, pass, n
<1>9. counter' \in [day : Nat, used : Nat] /\ counter'.day <= today /\ Charged' = Charged + n
  <2>1. Charged \in Nat /\ today \in Nat
    BY <1>1 DEF GateOK, Charged
  <2>2. CASE \E s \in Symbols : Worthy(s, held[s], sig[s])
    BY <1>3, <1>5, <1>6, <2>1, <2>2 DEF Charged
  <2>3. CASE ~ \E s \in Symbols : Worthy(s, held[s], sig[s])
    <3>1. n = 0
      BY <1>1, <1>2, <1>7, <1>8, <2>3
    <3>2. counter' = counter /\ today' = today
      BY <1>6, <2>3
    <3> QED BY <1>1, <2>1, <3>1, <3>2 DEF Charged, GateOK
  <2> QED BY <2>2, <2>3
<1>10. lastTs' \in [Symbols -> 0 .. candle]
  BY <1>1, <1>6 DEF GateOK
<1>11. HeldOK' /\ RowsOK'
  BY <1>6 DEF JudgeInv, HeldOK, RowsOK, RowFollowsPosition
<1>12. Charged \in Nat /\ paid \in Nat /\ unbilled \in Nat /\ Budget \in Nat
  BY <1>1, JudgeAssumption DEF GateOK, Charged
<1>13. CASE go = {}
  <2>1. GateOK' /\ OnceOK'
    <3>1. lastTs' = lastTs
      BY <1>1, <1>6, <1>7, <1>13 DEF GateOK
    <3> QED BY <1>1, <1>6, <1>9, <1>13, <3>1 DEF JudgeInv, GateOK, OnceOK
  <2>2. ScanOK'
    BY <1>6, <1>13, RestingOK DEF JudgeInv, ScanOK, RowsOK, TradesAreJudged, LaterAreJudged
  <2>3. SpendOK'
    <3> HIDE DEF Charged
    <3> QED BY <1>6, <1>8, <1>9, <1>12, <1>13, RestingOK DEF JudgeInv, SpendOK
  <2> QED BY <1>11, <2>1, <2>2, <2>3 DEF JudgeInv
<1>14. CASE go # {}
  <2>1. PaysFor(pass) /\ paid' = paid + 1
    BY <1>6, <1>14 DEF PaysFor
  <2>2. GateOK'
    BY <1>1, <1>6, <1>9, <1>10, <2>1 DEF GateOK
  <2>3. OnceOK'
    <3>1. \A s \in pass : held[s] = NoSide => lastTs[s] # candle
      BY <1>2 DEF Worthy
    <3>2. \A s \in Symbols : lastTs'[s] = IF s \in pass THEN candle ELSE lastTs[s]
      BY <1>6
    <3> QED BY <1>1, <1>6, <1>10, <2>1, <3>1, <3>2, PaysOnce
  <2>4. scan' \in Scans /\ scan'.pc = "asked" /\ scan'.row = scan.row /\ scan'.later = scan.later
    <3>1. scan \in Scans /\ scan' = [scan EXCEPT !.pc = "asked", !.todo = go]
      BY <1>6, <1>14 DEF JudgeInv, ScanOK
    <3> HIDE DEF Parsed, Verdicts, Symbols, Sides, LaterEntries
    <3> QED BY <1>1, <3>1 DEF Scans
  <2>5. ScanOK'
    BY <1>6, <2>4 DEF JudgeInv, ScanOK, TradesAreJudged, LaterAreJudged
  <2>6. SpendOK'
    <3> HIDE DEF Charged
    <3> QED BY <1>3, <1>4, <1>6, <1>9, <1>12, <1>14, <2>1, <2>4 DEF JudgeInv, SpendOK
  <2> QED BY <1>11, <2>2, <2>3, <2>5, <2>6 DEF JudgeInv
<1> QED BY <1>13, <1>14

LEMMA TakenIsCycle ==
  ASSUME NEW c \in Scans, NEW d \in Verdicts, NEW s \in SUBSET Backdrops, NEW rest \in SUBSET LaterEntries
  PROVE  [c EXCEPT !.pc = "decided", !.decision = d, !.shown = s, !.row = 0, !.todo = {}, !.later = rest] \in Scans
<1> DEFINE none == {}
           first == [c EXCEPT !.pc = "decided", !.decision = d, !.row = 0]
           then == [first EXCEPT !.shown = s, !.later = rest]
<1>1. none \in SUBSET (DOMAIN Pairs)
  OBVIOUS
<1> HIDE DEF Parsed, Verdicts, Symbols, Sides, LaterEntries, none
<1>2. first \in Scans
  BY DEF Scans
<1> HIDE DEF first
<1>3. then \in Scans
  BY <1>2 DEF Scans
<1> HIDE DEF then
<1>4. [then EXCEPT !.todo = none] \in Scans
  BY <1>1, <1>3 DEF Scans
<1>5. [then EXCEPT !.todo = none]
      = [c EXCEPT !.pc = "decided", !.decision = d, !.shown = s, !.row = 0, !.todo = none, !.later = rest]
  BY <1>4 DEF Scans, first, then
<1> QED BY <1>4, <1>5 DEF none

\* The next entry of a batch is taken.
LEMMA TakeKeeps ==
  ASSUME JudgeInv, NEW entries \in SUBSET LaterEntries, entries # {}, scan' = Take(entries),
         \A e \in entries : e.decision.action = "ENTER" /\ WellJudged(e.decision, e.shown),
         scan.pc \in {"asked", "decided"},
         UNCHANGED <<mode, today, candle, counter, lastTs, held, journal, restarts, paid, unbilled,
                     twice, judgedFlat, opener>>
  PROVE  JudgeInv'
<1> DEFINE e == CHOOSE e \in entries : \A f \in entries : e.at <= f.at
<1>1. scan \in Scans
  BY DEF JudgeInv, ScanOK
<1>2. e \in entries
  <2> DEFINE places == {f.at : f \in entries}
  <2>1. places \subseteq 1 .. Len(Pairs) /\ Len(Pairs) \in Nat
    BY JudgeAssumption DEF LaterEntries
  <2>2. places # {}
    OBVIOUS
  <2>3. \A f \in entries : f.at \in places
    OBVIOUS
  <2>4. \A k \in places : \E f \in entries : f.at = k
    OBVIOUS
  <2> HIDE DEF places
  <2>5. IsFiniteSet(places) /\ places \subseteq Int
    <3>1. IsFiniteSet(1 .. Len(Pairs))
      BY <2>1, FS_Interval
    <3>2. IsFiniteSet(places)
      BY <2>1, <3>1, FS_Subset
    <3> QED BY <2>1, <3>2
  <2>6. \E k \in places : \A j \in places : k <= j
    BY <2>2, <2>5, Least
  <2> QED BY <2>3, <2>4, <2>6
<1> DEFINE rest == entries \ {e}
<1>3. scan' = [scan EXCEPT !.pc = "decided", !.decision = e.decision, !.shown = e.shown, !.row = 0, !.todo = {},
                           !.later = rest]
  BY DEF Take
<1>4. e.decision \in Verdicts /\ e.shown \in SUBSET Backdrops /\ rest \in SUBSET LaterEntries
      /\ e.decision.action = "ENTER" /\ WellJudged(e.decision, e.shown)
  BY <1>2 DEF LaterEntries
<1> HIDE DEF e, rest
<1>5. scan' \in Scans /\ scan'.pc = "decided" /\ scan'.decision = e.decision /\ scan'.shown = e.shown
      /\ scan'.row = 0 /\ scan'.later = rest
  <2>1. scan' \in Scans
    <3> DEFINE d == e.decision
               shown == e.shown
    <3>1. d \in Verdicts /\ shown \in SUBSET Backdrops /\ rest \in SUBSET LaterEntries
      BY <1>4
    <3>2. scan' = [scan EXCEPT !.pc = "decided", !.decision = d, !.shown = shown, !.row = 0, !.todo = {}, !.later = rest]
      BY <1>3
    <3> HIDE DEF d, shown, Scans, Verdicts, LaterEntries
    <3>3. [scan EXCEPT !.pc = "decided", !.decision = d, !.shown = shown, !.row = 0, !.todo = {}, !.later = rest] \in Scans
      BY <1>1, <3>1, TakenIsCycle, Zenon
    <3> QED BY <3>2, <3>3, Zenon
  <2> HIDE DEF Parsed, Verdicts, Symbols, Sides, LaterEntries
  <2> QED BY <1>1, <1>3, <2>1 DEF Scans
<1>6. ScanOK'
  <2>1. TradesAreJudged'
    BY <1>4, <1>5 DEF TradesAreJudged
  <2>2. LaterAreJudged'
    <3>1. \A f \in rest : f.decision.action = "ENTER" /\ WellJudged(f.decision, f.shown)
      BY DEF rest
    <3> QED BY <1>5, <3>1 DEF LaterAreJudged, WellJudged
  <2>3. Len(journal') \in Nat
    BY DEF JudgeInv, RowsOK
  <2> QED BY <1>5, <2>1, <2>2, <2>3 DEF ScanOK
<1>7. GateOK' /\ HeldOK' /\ OnceOK' /\ RowsOK'
  BY DEF JudgeInv, GateOK, HeldOK, OnceOK, RowsOK, RowFollowsPosition
<1>8. SpendOK'
  <2>1. Charged' = Charged /\ Charged \in Nat /\ Budget \in Nat
    BY JudgeAssumption DEF JudgeInv, GateOK, Charged
  <2> HIDE DEF Charged
  <2> QED BY <1>5, <2>1 DEF JudgeInv, SpendOK
<1> QED BY <1>6, <1>7, <1>8 DEF JudgeInv

\* A refused entry gives its turn to the next one of its batch.
LEMMA NextEntryKeeps ==
  ASSUME JudgeInv, EntryRefused, scan.later # {}
  PROVE  JudgeInv'
<1>1. /\ scan.later \in SUBSET LaterEntries /\ scan.pc = "decided" /\ scan' = Take(scan.later)
      /\ \A e \in scan.later : e.decision.action = "ENTER" /\ WellJudged(e.decision, e.shown)
  BY DEF JudgeInv, ScanOK, Scans, LaterAreJudged, EntryRefused
<1>2. UNCHANGED <<mode, today, candle, counter, lastTs, held, journal, restarts, paid, unbilled,
                  twice, judgedFlat, opener>>
  BY DEF EntryRefused
<1> QED BY <1>1, <1>2, TakeKeeps

LEMMA BatchKeeps ==
  ASSUME JudgeInv, NEW a \in Answers, NEW b \in Answers, NEW backdrop \in [Symbols -> Backdrops],
         BatchAnswers(<<a, b>>, backdrop)
  PROVE  JudgeInv'
<1> DEFINE asked == [i \in scan.todo |-> Pairs[i]]
           batch == DecideBatch(<<a, b>>, asked)
           v(i) == NormalizeDecision(batch[i], held[batch[i].contract], backdrop[Pairs[i]], "veto", MinConfidence)
           go == {i \in DOMAIN batch : v(i).ok /\ v(i).action = "ENTER"}
<1>1. scan \in Scans /\ scan.todo \in SUBSET (DOMAIN Pairs) /\ scan.pc = "asked"
  BY DEF JudgeInv, ScanOK, Scans, BatchAnswers
<1>2. DOMAIN batch = scan.todo
  BY DEF DecideBatch
<1>3. ASSUME NEW i \in scan.todo PROVE batch[i] \in Raw /\ batch[i].contract = Pairs[i]
  <2> DEFINE items == <<a, b>>
             mine == {j \in DOMAIN items : items[j].contract = Pairs[i]}
             nul == ""
             none == [action |-> "HOLD", direction |-> nul, side |-> nul, confidence |-> 0,
                      contract |-> Pairs[i], shape |-> "object"]
             first == CHOOSE j \in mine : \A k \in mine : j <= k
  <2>1. batch[i] = IF mine = {} THEN none ELSE items[first]
    <3>1. batch[i] = AnswerFor(items, Pairs[i])
      BY DEF DecideBatch
    <3> HIDE DEF batch
    <3> QED BY <3>1, Zenon DEF AnswerFor
  <2>2. nul \in Words /\ "HOLD" \in Words
    BY DEF Words
  <2> HIDE DEF nul
  <2>3. Pairs[i] \in Names
    BY <1>1, PairFacts
  <2>4. none \in Raw /\ none.contract = Pairs[i]
    BY <2>2, <2>3 DEF Raw
  <2>5. mine # {} => first \in mine
    <3>1. DOMAIN items = {1, 2}
      OBVIOUS
    <3>2. mine \subseteq {1, 2}
      BY <3>1
    <3> HIDE DEF mine
    <3>3. mine # {} => \E j \in mine : \A k \in mine : j <= k
      <4>1. CASE 1 \in mine
        BY <3>2, <4>1
      <4>2. CASE 1 \notin mine
        <5>1. \A j \in mine : j = 2
          BY <3>2, <4>2
        <5> QED BY <5>1
      <4> QED BY <4>1, <4>2
    <3> QED BY <3>3
  <2>6. \A j \in mine : items[j] \in Raw /\ items[j].contract = Pairs[i]
    BY ParsedOK
  <2> HIDE DEF mine, first, none
  <2> QED BY <2>1, <2>4, <2>5, <2>6
<1> HIDE DEF batch
<1>7. UNCHANGED <<mode, today, candle, counter, lastTs, held, journal, restarts, paid, unbilled, twice, judgedFlat, opener>>
  BY DEF BatchAnswers
<1> DEFINE entries == {[at |-> i, decision |-> v(i), shown |-> {backdrop[Pairs[i]]}] : i \in go}
<1>4. scan' = IF go = {} \/ scan.seen # {} THEN Resting ELSE Take(entries)
  BY DEF BatchAnswers, batch
<1>5. CASE go = {} \/ scan.seen # {}
  <2>1. scan' = Resting
    BY <1>4, <1>5
  <2> QED BY <1>1, <1>7, <2>1, RestingOK, MovesOn
<1>6. CASE ~ (go = {} \/ scan.seen # {})
  <2>1. entries # {} /\ scan' = Take(entries)
    BY <1>4, <1>6
  <2>2. ASSUME NEW i \in go
        PROVE  /\ i \in DOMAIN Pairs /\ v(i) \in Verdicts /\ {backdrop[Pairs[i]]} \in SUBSET Backdrops
               /\ v(i).action = "ENTER" /\ WellJudged(v(i), {backdrop[Pairs[i]]})
    <3>1. i \in scan.todo /\ v(i).ok /\ v(i).action = "ENTER"
      BY <1>2, <2>2
    <3>2. batch[i] \in Parsed \cup Raw /\ batch[i].contract = Pairs[i] /\ Pairs[i] \in Symbols
      BY <1>1, <1>3, <3>1, PairFacts
    <3>3. v(i) \in Verdict({Pairs[i]}) /\ WellJudged(v(i), {backdrop[Pairs[i]]})
      BY <3>1, <3>2, NormalFacts
    <3>4. v(i) \in Verdicts
      BY <3>2, <3>3 DEF Verdicts, Verdict
    <3> QED BY <1>1, <3>1, <3>2, <3>3, <3>4
  <2> HIDE DEF v, go, Verdicts
  <2>3. /\ entries \in SUBSET LaterEntries
        /\ \A e \in entries : e.decision.action = "ENTER" /\ WellJudged(e.decision, e.shown)
    BY <2>2 DEF LaterEntries
  <2> HIDE DEF entries
  <2> QED BY <1>1, <1>7, <2>1, <2>3, TakeKeeps
<1> QED BY <1>5, <1>6

-----------------------------------------------------------------------------
(* Around the cycle *)

LEMMA CandleKeeps ==
  ASSUME JudgeInv, NewCandle
  PROVE  JudgeInv'
<1>1. /\ candle' = candle + 1
      /\ UNCHANGED <<mode, today, counter, lastTs, held, journal, scan, restarts, paid, unbilled, twice, judgedFlat, opener>>
  BY DEF NewCandle
<1>2. candle \in Nat \ {0} /\ OnceOK /\ GateOK
  BY DEF JudgeInv, GateOK
<1>3. GateOK'
  BY <1>1, <1>2 DEF GateOK
<1>4. OnceOK'
  <2>1. ASSUME NEW e \in judgedFlat
        PROVE  \E s \in Symbols : \E c \in 1 .. candle' : e = <<s, c>> /\ (c = candle' => lastTs'[s] = candle')
    <3>1. PICK s \in Symbols : \E c \in 1 .. candle : e = <<s, c>>
      BY <1>2, <2>1 DEF OnceOK
    <3>2. PICK c \in 1 .. candle : e = <<s, c>>
      BY <3>1
    <3>3. c \in 1 .. candle' /\ c # candle'
      BY <1>1, <1>2
    <3> QED BY <3>2, <3>3
  <2> QED BY <1>1, <1>2, <2>1 DEF OnceOK
<1>5. HeldOK' /\ RowsOK' /\ ScanOK'
  BY <1>1 DEF JudgeInv, HeldOK, RowsOK, RowFollowsPosition, ScanOK, TradesAreJudged, LaterAreJudged
<1>6. SpendOK'
  BY <1>1 DEF JudgeInv, SpendOK, Charged
<1> QED BY <1>3, <1>4, <1>5, <1>6 DEF JudgeInv

LEMMA DayKeeps ==
  ASSUME JudgeInv, NewDay
  PROVE  JudgeInv'
<1>1. /\ today' = today + 1 /\ paid' = 0 /\ unbilled' = 0
      /\ UNCHANGED <<mode, candle, counter, lastTs, held, journal, scan, restarts, twice, judgedFlat, opener>>
  BY DEF NewDay
<1>2. GateOK' /\ OnceOK'
  BY <1>1 DEF JudgeInv, GateOK, OnceOK
<1>3. HeldOK' /\ RowsOK' /\ ScanOK'
  BY <1>1 DEF JudgeInv, HeldOK, RowsOK, RowFollowsPosition, ScanOK, TradesAreJudged, LaterAreJudged
<1>4. SpendOK'
  <2>1. Charged' = 0
    BY <1>1 DEF JudgeInv, GateOK, Charged
  <2>2. Budget \in Nat
    BY JudgeAssumption
  <2> QED BY <1>1, <2>1, <2>2 DEF SpendOK
<1> QED BY <1>2, <1>3, <1>4 DEF JudgeInv

LEMMA ClosesKeeps ==
  ASSUME JudgeInv, NEW s \in Symbols, BracketCloses(s)
  PROVE  JudgeInv'
<1>1. /\ held' = [held EXCEPT ![s] = NoSide]
      /\ UNCHANGED <<mode, today, candle, counter, lastTs, journal, scan, restarts, paid, unbilled, twice, judgedFlat, opener>>
  BY DEF BracketCloses
<1>2. held \in [Symbols -> Sides] /\ NoSide \in Sides
  BY DEF JudgeInv, HeldOK, Sides
<1>3. HeldOK' /\ \A x \in Symbols : held'[x] # NoSide => held'[x] = held[x]
  BY <1>1, <1>2 DEF HeldOK
<1>4. GateOK' /\ OnceOK' /\ ScanOK'
  BY <1>1 DEF JudgeInv, GateOK, OnceOK, ScanOK, TradesAreJudged, LaterAreJudged
<1>5. RowsOK'
  BY <1>1, <1>3 DEF JudgeInv, RowsOK, RowFollowsPosition
<1>6. SpendOK'
  BY <1>1 DEF JudgeInv, SpendOK, Charged
<1> QED BY <1>3, <1>4, <1>5, <1>6 DEF JudgeInv

LEMMA RestartKeeps ==
  ASSUME JudgeInv, WorkerRestarts
  PROVE  JudgeInv'
<1>1. /\ restarts' = restarts + 1 /\ scan' = Resting /\ counter' = [day |-> 0, used |-> 0]
      /\ lastTs' = [s \in Symbols |-> 0] /\ paid' = 0 /\ unbilled' = 0 /\ judgedFlat' = {}
      /\ UNCHANGED <<mode, today, candle, held, journal, twice, opener>>
  BY DEF WorkerRestarts
<1>2. GateOK' /\ OnceOK'
  BY <1>1 DEF JudgeInv, GateOK, OnceOK
<1>3. HeldOK' /\ RowsOK'
  BY <1>1 DEF JudgeInv, HeldOK, RowsOK, RowFollowsPosition
<1>4. ScanOK'
  BY <1>1, RestingOK DEF JudgeInv, ScanOK, RowsOK, TradesAreJudged, LaterAreJudged
<1>5. SpendOK'
  <2>1. Charged' = 0
    BY <1>1 DEF JudgeInv, GateOK, Charged
  <2>2. Budget \in Nat
    BY JudgeAssumption
  <2> QED BY <1>1, <2>1, <2>2, RestingOK DEF SpendOK
<1> QED BY <1>2, <1>3, <1>4, <1>5 DEF JudgeInv

LEMMA JudgeStep ==
  ASSUME JudgeInv, JudgeNext
  PROVE  JudgeInv'
<1>1. ASSUME JudgeSteps PROVE JudgeInv'
  BY <1>1, ReconcilesKeeps, QuietKeeps, NextEntryKeeps, FillsKeeps, FailsKeeps, ScanPairKeeps, ScalpKeeps,
     AnswersKeeps, SmartKeeps, BatchKeeps DEF JudgeSteps
<1> QED BY <1>1, CandleKeeps, DayKeeps, RestartKeeps, ClosesKeeps DEF JudgeNext

LEMMA JudgeStutters ==
  ASSUME JudgeInv, UNCHANGED judgeVars
  PROVE  JudgeInv'
<1>1. GateOK' /\ HeldOK' /\ OnceOK'
  BY DEF judgeVars, JudgeInv, GateOK, HeldOK, OnceOK
<1>2. RowsOK' /\ ScanOK'
  BY DEF judgeVars, JudgeInv, RowsOK, RowFollowsPosition, ScanOK, TradesAreJudged, LaterAreJudged
<1>3. SpendOK'
  BY DEF judgeVars, JudgeInv, SpendOK, Charged
<1> QED BY <1>1, <1>2, <1>3 DEF JudgeInv

LEMMA JudgeImplies ==
  ASSUME JudgeInv
  PROVE  JudgeSound
<1>1. JudgeTypeOK
  <2>1. /\ mode \in {"trend", "scalp"} /\ today \in Nat /\ candle \in Nat /\ restarts \in Nat
        /\ counter.day \in 0 .. today /\ counter.used \in Nat
        /\ lastTs \in [Symbols -> 0 .. candle] /\ paid \in Nat /\ unbilled \in Nat
    BY DEF JudgeInv, GateOK
  <2>5. held \in [Symbols -> {"none", "LONG", "SHORT"}]
    BY DEF JudgeInv, HeldOK, Sides, NoSide
  <2>6. twice \in BOOLEAN
    BY DEF JudgeInv, OnceOK
  <2>2. /\ scan.pc \in {"rest", "gate", "asked", "escalated", "decided"} /\ scan.symbol \in Symbols
        /\ scan.todo \subseteq DOMAIN Pairs
    BY DEF JudgeInv, ScanOK, Scans
  <2>3. journal \in Seq([symbol : Names, outcome : {"open", "flat"}, executed : BOOLEAN])
    <3>1. journal \in Seq(Rows)
      BY DEF JudgeInv, RowsOK
    <3> QED BY <3>1, Zenon DEF Rows
  <2>4. scan.row \in 0 .. Len(journal)
    <3>1. Len(journal) \in Nat /\ scan.row \in Nat /\ scan.row <= Len(journal)
      BY DEF JudgeInv, RowsOK, ScanOK, Scans
    <3> QED BY <3>1
  <2> QED BY <2>1, <2>2, <2>3, <2>4, <2>5, <2>6 DEF JudgeTypeOK
<1>2. SpendWithinBudget
  <2>1. Charged \in Nat /\ paid \in Nat /\ unbilled \in Nat /\ Budget \in Nat
    BY JudgeAssumption DEF JudgeInv, GateOK, Charged
  <2> HIDE DEF Charged
  <2> QED BY <2>1 DEF JudgeInv, SpendOK, SpendWithinBudget
<1>3. JudgedOncePerCandle
  BY DEF JudgeInv, OnceOK, JudgedOncePerCandle
<1> QED BY <1>1, <1>2, <1>3 DEF JudgeInv, ScanOK, RowsOK, JudgeSound

\* Through failing calls, escalations, midnights and restarts the judge pays within its
\* daily budget, once per candle and flat pair, lets no unjudged entry through, and the
\* journal follows the positions (_rotation_mixin, _decisions_mixin), for any pairs,
\* budget, signals and answers.
THEOREM JudgeHolds == JudgeSpec => []JudgeSound
<1>1. JudgeInv /\ [JudgeNext]_judgeVars => JudgeInv'
  BY JudgeStep, JudgeStutters
<1> QED BY <1>1, JudgeInitially, JudgeImplies, PTL DEF JudgeSpec

-----------------------------------------------------------------------------
\* Both, as the run explores them.
THEOREM BothHold == Spec => [](ClientSound /\ JudgeSound)
<1> DEFINE Inv == ClientInv /\ JudgeInv
<1>1. Init => Inv
  BY ClientInitially, JudgeInitially DEF Init
<1>2. Inv /\ [Next]_<<groqVars, judgeVars>> => Inv'
  BY ClientStep, ClientStutters, JudgeStep, JudgeStutters DEF Next
<1>3. Inv => ClientSound /\ JudgeSound
  BY ClientImplies, JudgeImplies
<1> QED BY <1>1, <1>2, <1>3, PTL DEF Spec
=============================================================================
