---------------------------- MODULE MarketCaches ----------------------------
(***************************************************************************)
(* What MarketDataEngine keeps of one symbol (market_data/engine.py,       *)
(* buffers.py): the order book, the ticker with mark price and funding     *)
(* rate, their receive times, and the ring buffer of prices.               *)
(*                                                                         *)
(* A book is known by the sequence number and update id of the message it  *)
(* came from.  Sequence numbers grow for ever, update ids start over when  *)
(* the exchange restarts its service; messages may be repeated and         *)
(* overtaken across connections.  A ticker message may lack a field, which *)
(* is read as 0.                                                           *)
(***************************************************************************)
EXTENDS Integers, Sequences, SequencesExt

CONSTANTS
  Prices,      \* prices of a ticker message; 0 stands for a missing field
  MaxTicks,    \* buffer_sizes.ticks
  MaxAge,      \* max_age a reader asks for
  MaxBooks, MaxTickers, MaxNow   \* bounds

ASSUME CachesAssumption ==
  /\ Prices \subseteq Nat /\ MaxTicks \in Nat \ {0} /\ MaxAge \in Nat
  /\ MaxBooks \in Nat /\ MaxTickers \in Nat /\ MaxNow \in Nat

None == [seq |-> 0, update |-> 0]

VARIABLES
  held,       \* _order_book_cache: seq and update id, or None
  last, mark, \* _ticker_cache, _mark_price_cache: prices, -1 before the first
  stamp,      \* _cache_ts
  ticks,      \* _buffers of PriceBuffer
  engineUp,   \* _running of the engine
  wire,       \* book messages that may still arrive
  issued,     \* the newest book message of the exchange
  clock,
  \* history, not read by any action:
  newest,     \* highest sequence number handled
  bookAt,     \* when the book that is held was received
  traded      \* prices received

cacheVars == <<held, last, mark, stamp, ticks, engineUp, wire, issued, clock, newest, bookAt, traded>>

Caches == {"order_book", "mark_price", "ticker"}
Never == -1

CachesInit ==
  /\ held = None /\ last = -1 /\ mark = -1
  /\ stamp = [c \in Caches |-> Never]
  /\ ticks = <<>> /\ engineUp = FALSE
  /\ wire = {} /\ issued = None /\ clock = 0
  /\ newest = 0 /\ bookAt = Never /\ traded = <<>>

EngineStarts ==
  /\ ~engineUp /\ engineUp' = TRUE
  /\ ticks' = <<>> /\ traded' = <<>>
  /\ UNCHANGED <<held, last, mark, stamp, wire, issued, clock, newest, bookAt>>

\* stop() ends the feed; what is cached stays.
EngineStops ==
  /\ engineUp /\ engineUp' = FALSE
  /\ UNCHANGED <<held, last, mark, stamp, ticks, wire, issued, clock, newest, bookAt, traded>>

\* The exchange publishes a book, after a restart of its service with update id 1.
Publishes ==
  /\ issued.seq < MaxBooks
  /\ \E update \in {issued.update + 1, 1} :
       issued' = [seq |-> issued.seq + 1, update |-> update]
  /\ wire' = wire \cup {issued'}
  /\ UNCHANGED <<held, last, mark, stamp, ticks, engineUp, clock, newest, bookAt, traded>>

\* _book_is_stale.  Mutant: the update id alone decides.
StaleById(item) == held # None /\ item.update <= held.update
BookIsStale(item) ==
  /\ held # None
  /\ \/ item.seq < held.seq
     \/ item.update <= held.update /\ item.seq <= held.seq

\* _handle_book_ticker: a stale update changes nothing, any other replaces the
\* book.
Touched(item) == IF BookIsStale(item) THEN stamp ELSE [stamp EXCEPT !["order_book"] = clock]
HandleBook(item) ==
  /\ engineUp /\ item \in wire
  /\ held' = IF BookIsStale(item) THEN held ELSE item
  /\ stamp' = Touched(item)
  /\ newest' = IF item.seq > newest THEN item.seq ELSE newest
  /\ bookAt' = IF held' = held THEN bookAt ELSE clock
  /\ UNCHANGED <<last, mark, ticks, engineUp, wire, issued, clock, traded>>

\* PriceBuffer.append: a deque with maxlen.
AppendTick(s, x) == LET t == Append(s, x) IN SubSeq(t, IF Len(t) > MaxTicks THEN 2 ELSE 1, Len(t))

\* _handle_ticker_and_mark: the ticker, its receive time and, for a price above
\* zero, the buffer; then the mark price and the funding rate.
HandleTicker(price, markPrice) ==
  /\ engineUp /\ Len(traded) < MaxTickers
  /\ last' = price /\ mark' = markPrice
  /\ stamp' = [stamp EXCEPT !["ticker"] = clock, !["mark_price"] = clock]
  /\ ticks' = IF price > 0 THEN AppendTick(ticks, price) ELSE ticks
  /\ traded' = IF price > 0 THEN Append(traded, price) ELSE traded
  /\ UNCHANGED <<held, engineUp, wire, issued, clock, newest, bookAt>>

CacheTick ==
  /\ clock < MaxNow /\ clock' = clock + 1
  /\ UNCHANGED <<held, last, mark, stamp, ticks, engineUp, wire, issued, newest, bookAt, traded>>

\* is_stale and _fresh: what a reader with max_age is given.
IsStale(c) == stamp[c] = Never \/ clock - stamp[c] > MaxAge
\* get_order_book, get_mark_price, get_funding_rate, get_ticker: nothing if stale.
Get(c) ==
  IF IsStale(c) THEN {}
  ELSE CASE c = "order_book" -> {held}
         [] c = "mark_price" -> {mark}
         [] c = "ticker"     -> {last}
\* get_recent: the last n prices, the newest first.
GetRecent(n) == LET k == IF n < Len(ticks) THEN n ELSE Len(ticks)
                IN Reverse(SubSeq(ticks, Len(ticks) - k + 1, Len(ticks)))

CachesNext ==
  \/ EngineStarts \/ EngineStops \/ Publishes \/ CacheTick
  \/ \E item \in wire : HandleBook(item)
  \/ \E price, markPrice \in Prices : HandleTicker(price, markPrice)

CachesSpec == CachesInit /\ [][CachesNext]_cacheVars

-----------------------------------------------------------------------------
(* Properties *)

Books == [seq : 0 .. MaxBooks, update : 0 .. MaxBooks]
CachesTypeOK ==
  /\ held \in Books /\ issued \in Books /\ wire \in SUBSET Books
  /\ last \in Prices \cup {-1} /\ mark \in Prices \cup {-1}
  /\ stamp \in [Caches -> Never .. MaxNow] /\ bookAt \in Never .. MaxNow
  /\ ticks \in Seq(Prices) /\ Len(ticks) <= MaxTicks
  /\ engineUp \in BOOLEAN /\ clock \in 0 .. MaxNow

\* However messages are repeated or overtaken, and although update ids start over
\* when the exchange restarts, the book that is held is the newest one received.
BookIsNewest == held.seq = newest

\* A reader with max_age never gets a book that was received longer ago, although
\* stale messages keep arriving (is_stale, get_order_book).
BookReadIsFresh == Get("order_book") # {} => clock - bookAt <= MaxAge

\* The buffer answers with the latest prices, newest first, also when it has
\* wrapped (PriceBuffer.append, get_recent).
BufferHoldsLatest ==
  \A n \in 1 .. MaxTicks :
    n <= Len(traded) => GetRecent(n) = [i \in 1 .. n |-> traded[Len(traded) - i + 1]]

\* What a reader of the caches may rely on.
CachesSound == CachesTypeOK /\ BookIsNewest /\ BookReadIsFresh /\ BufferHoldsLatest
=============================================================================
