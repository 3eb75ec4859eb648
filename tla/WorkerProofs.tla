---------------------------- MODULE WorkerProofs ----------------------------
(***************************************************************************)
(* Proofs about the worker process's own machinery: the error sink, for    *)
(* any queue and batch size and any number of events, and the life cycle,  *)
(* for any set of pairs, any configuration and any number of faults.       *)
(***************************************************************************)
EXTENDS MCWorker, TLAPS

-----------------------------------------------------------------------------
(* ErrorSink *)

\* Events are queued in the order they are numbered.
Rising(s) == \A m, n \in 1 .. Len(s) : m < n => s[m] < s[n]

\* There are rows to insert exactly while a flush is writing, and only one of the
\* loop and stop() flushes.
FlushInOrder ==
    /\ sBatch # <<>> <=> Writing
    /\ sStop \in {"up", "cancel"} <=> sFlusher # "ended"

\* An event is in the batch or, if younger, in the queue at most once, and none
\* that waits has been inserted.
EventsInOrder ==
    /\ Rising(sBatch) /\ Rising(sQueue)
    /\ \A m \in 1 .. Len(sBatch), n \in 1 .. Len(sQueue) : sBatch[m] < sQueue[n]
    /\ \A n \in 1 .. Len(sQueue) : sQueue[n] < sNext /\ sWritten[sQueue[n]] = 0
    /\ \A m \in 1 .. Len(sBatch) : sBatch[m] < sNext /\ sWritten[sBatch[m]] = 0
    /\ \A e \in Events : e >= sNext => sWritten[e] = 0

SinkInv == SinkSound /\ FlushInOrder /\ EventsInOrder

LEMMA SinkInitially == SinkInit => SinkInv
<1> SUFFICES ASSUME SinkInit PROVE SinkInv
  OBVIOUS
<1> USE SinkAssumption
<1>1. SinkTypeOK
  <2>1. 1 \in 1 .. (MaxEvents + 1) /\ <<>> \in Seq(Events) /\ Len(<<>>) = 0
    OBVIOUS
  <2> QED BY <2>1 DEF SinkInit, SinkTypeOK
<1>2. WrittenOnce /\ DropsReported
  BY DEF SinkInit, WrittenOnce, DropsReported
<1>3. NothingForgotten
  BY DEF SinkInit, NothingForgotten
<1>4. FlushInOrder /\ EventsInOrder
  BY DEF SinkInit, FlushInOrder, EventsInOrder, Rising, Writing
<1> QED BY <1>1, <1>2, <1>3, <1>4 DEF SinkInv, SinkSound

\* What appending an event, and dropping the oldest one, do to a sequence of events.
LEMMA TailFacts ==
  ASSUME NEW s \in Seq(Events), s # <<>>
  PROVE  /\ Tail(s) \in Seq(Events) /\ Len(Tail(s)) = Len(s) - 1 /\ Len(s) \in Nat \ {0}
         /\ \A n \in 1 .. Len(Tail(s)) : Tail(s)[n] = s[n + 1] /\ n + 1 \in 1 .. Len(s)
         /\ Head(s) = s[1] /\ 1 \in 1 .. Len(s) /\ Head(s) \in Events
         /\ Rising(s) => Rising(Tail(s))
         /\ InSeq(s) = {Head(s)} \cup InSeq(Tail(s))
<1>1. /\ Tail(s) \in Seq(Events) /\ Len(Tail(s)) = Len(s) - 1 /\ Len(s) \in Nat \ {0}
      /\ Head(s) = s[1] /\ 1 \in 1 .. Len(s) /\ Head(s) \in Events
  OBVIOUS
<1>2. \A n \in 1 .. Len(Tail(s)) : Tail(s)[n] = s[n + 1] /\ n + 1 \in 1 .. Len(s)
  OBVIOUS
<1>3. Rising(s) => Rising(Tail(s))
  BY <1>1, <1>2 DEF Rising
<1>4. InSeq(s) = {Head(s)} \cup InSeq(Tail(s))
  <2>1. ASSUME NEW n \in 1 .. Len(s) PROVE s[n] \in {Head(s)} \cup InSeq(Tail(s))
    <3>1. CASE n = 1
      BY <1>1, <3>1
    <3>2. CASE n # 1
      <4>1. n - 1 \in 1 .. Len(Tail(s)) /\ Tail(s)[n - 1] = s[n]
        BY <1>1, <1>2, <3>2
      <4> QED BY <4>1 DEF InSeq
    <3> QED BY <3>1, <3>2
  <2>2. InSeq(Tail(s)) \subseteq InSeq(s)
    BY <1>2 DEF InSeq
  <2>3. Head(s) \in InSeq(s)
    BY <1>1 DEF InSeq
  <2> QED BY <2>1, <2>2, <2>3 DEF InSeq
<1> QED BY <1>1, <1>2, <1>3, <1>4

LEMMA AppendFacts ==
  ASSUME NEW s \in Seq(Events), NEW e \in Events
  PROVE  /\ Append(s, e) \in Seq(Events) /\ Len(Append(s, e)) = Len(s) + 1 /\ Len(s) \in Nat
         /\ \A n \in 1 .. Len(s) + 1 : Append(s, e)[n] = IF n <= Len(s) THEN s[n] ELSE e
         /\ Rising(s) /\ (\A n \in 1 .. Len(s) : s[n] < e) => Rising(Append(s, e))
         /\ InSeq(Append(s, e)) = InSeq(s) \cup {e}
<1>1. /\ Append(s, e) \in Seq(Events) /\ Len(Append(s, e)) = Len(s) + 1 /\ Len(s) \in Nat
      /\ \A n \in 1 .. Len(s) + 1 : Append(s, e)[n] = IF n <= Len(s) THEN s[n] ELSE e
  OBVIOUS
<1>2. Rising(s) /\ (\A n \in 1 .. Len(s) : s[n] < e) => Rising(Append(s, e))
  BY <1>1 DEF Rising
<1>3. InSeq(Append(s, e)) = InSeq(s) \cup {e}
  <2>1. \A n \in 1 .. Len(s) : Append(s, e)[n] = s[n] /\ n \in 1 .. Len(Append(s, e))
    BY <1>1
  <2>2. Append(s, e)[Len(s) + 1] = e /\ Len(s) + 1 \in 1 .. Len(Append(s, e))
    BY <1>1
  <2>3. ASSUME NEW n \in 1 .. Len(Append(s, e)) PROVE Append(s, e)[n] \in InSeq(s) \cup {e}
    BY <1>1 DEF InSeq
  <2> QED BY <2>1, <2>2, <2>3 DEF InSeq
<1> QED BY <1>1, <1>2, <1>3

\* Logging an event: it is the youngest, and the oldest one makes room for it.
LEMMA EnqueueFacts ==
  ASSUME SinkInv, sNext <= MaxEvents, Enqueue(sNext)
  PROVE  /\ sNext \in Events /\ sNext' = sNext + 1 /\ sNext' \in 1 .. (MaxEvents + 1)
         /\ sQueue' \in Seq(Events) /\ Len(sQueue') <= MaxQueue /\ Rising(sQueue')
         /\ \A n \in 1 .. Len(sQueue') : /\ sQueue'[n] < sNext' /\ sWritten[sQueue'[n]] = 0
                                         /\ \A m \in 1 .. Len(sBatch) : sBatch[m] < sQueue'[n]
         /\ InSeq(sQueue) \cup {sNext} = InSeq(sQueue') \cup Pushed \cup {sNext}
         /\ sNext \in InSeq(sQueue')
         /\ Pushed \subseteq Events /\ DropCount \in Nat /\ sEvicted' \in Nat
         /\ sEvicted' = sReported + DropCount
<1> DEFINE kept == IF Full THEN Tail(sQueue) ELSE sQueue
<1> USE SinkAssumption
<1>0. /\ sQueue \in Seq(Events) /\ Len(sQueue) <= MaxQueue /\ sBatch \in Seq(Events)
      /\ sDropped \in Nat /\ sEvicted \in Nat /\ sReported \in Nat /\ sNext \in 1 .. (MaxEvents + 1)
      /\ sEvicted = sReported + sDropped /\ EventsInOrder
  BY DEF SinkInv, SinkSound, SinkTypeOK, DropsReported
<1>1. sNext \in Events /\ sNext' = sNext + 1 /\ sNext' \in 1 .. (MaxEvents + 1)
  BY <1>0 DEF Enqueue, Events
<1>2. DropCount \in Nat /\ sEvicted' \in Nat /\ sEvicted' = sReported + DropCount
  BY <1>0 DEF Enqueue, DropCount
<1>3. Full => sQueue # <<>>
  BY DEF Full
<1>4. /\ kept \in Seq(Events) /\ Len(kept) + 1 <= MaxQueue /\ Rising(kept)
      /\ InSeq(sQueue) = InSeq(kept) \cup Pushed /\ Pushed \subseteq Events
      /\ \A n \in 1 .. Len(kept) : \E k \in 1 .. Len(sQueue) : kept[n] = sQueue[k]
  <2>1. CASE Full
    <3>1. kept = Tail(sQueue) /\ Pushed = {Head(sQueue)} /\ Len(sQueue) = MaxQueue
      BY <2>1 DEF Pushed, Full
    <3> QED BY <1>0, <1>3, <2>1, <3>1, TailFacts DEF EventsInOrder
  <2>2. CASE ~Full
    <3>1. kept = sQueue /\ Pushed = {} /\ Len(sQueue) # MaxQueue
      BY <2>2 DEF Pushed, Full
    <3>2. Len(sQueue) \in Nat /\ Len(sQueue) + 1 <= MaxQueue
      BY <1>0, <3>1
    <3>3. Rising(sQueue)
      BY <1>0 DEF EventsInOrder
    <3> HIDE DEF kept
    <3> QED BY <1>0, <3>1, <3>2, <3>3
  <2> QED BY <2>1, <2>2
<1>5. sQueue' = Append(kept, sNext)
  BY DEF Enqueue
<1> HIDE DEF kept
<1>6. \A n \in 1 .. Len(kept) : /\ kept[n] < sNext /\ sWritten[kept[n]] = 0
                                /\ \A m \in 1 .. Len(sBatch) : sBatch[m] < kept[n]
  BY <1>0, <1>4 DEF EventsInOrder
<1>7. /\ sQueue' \in Seq(Events) /\ Len(sQueue') = Len(kept) + 1 /\ Len(kept) \in Nat
      /\ \A n \in 1 .. Len(kept) + 1 : sQueue'[n] = IF n <= Len(kept) THEN kept[n] ELSE sNext
      /\ Rising(sQueue') /\ InSeq(sQueue') = InSeq(kept) \cup {sNext}
  BY <1>1, <1>4, <1>5, <1>6, AppendFacts
<1>8. /\ sWritten[sNext] = 0 /\ \A m \in 1 .. Len(sBatch) : sBatch[m] < sNext
  BY <1>0, <1>1 DEF EventsInOrder
<1>9. ASSUME NEW n \in 1 .. Len(sQueue')
      PROVE  /\ sQueue'[n] < sNext' /\ sWritten[sQueue'[n]] = 0
             /\ \A m \in 1 .. Len(sBatch) : sBatch[m] < sQueue'[n]
  <2>1. CASE n <= Len(kept)
    <3>1. n \in 1 .. Len(kept) /\ sQueue'[n] = kept[n] /\ kept[n] \in Events
      BY <1>4, <1>7, <2>1
    <3> QED BY <1>1, <1>6, <3>1 DEF Events
  <2>2. CASE ~(n <= Len(kept))
    <3>1. sQueue'[n] = sNext
      BY <1>7, <2>2
    <3> QED BY <1>1, <1>8, <3>1 DEF Events
  <2> QED BY <2>1, <2>2
<1>10. Len(sQueue') <= MaxQueue
  BY <1>4, <1>7
<1>11. InSeq(sQueue) \cup {sNext} = InSeq(sQueue') \cup Pushed \cup {sNext} /\ sNext \in InSeq(sQueue')
  BY <1>4, <1>7
<1> QED BY <1>1, <1>2, <1>4, <1>7, <1>9, <1>10, <1>11

LEMMA RecordKeeps ==
  ASSUME SinkInv, Record
  PROVE  SinkInv'
<1>1. Enqueue(sNext) /\ sNext <= MaxEvents /\ sDropped' = DropCount /\ sGone' = sGone \cup Pushed
      /\ UNCHANGED <<sBatch, sFlusher, sStop, sWritten, sReported>>
  BY DEF Record
<1>2. /\ sNext \in Events /\ sNext' = sNext + 1 /\ sNext' \in 1 .. (MaxEvents + 1)
      /\ sQueue' \in Seq(Events) /\ Len(sQueue') <= MaxQueue /\ Rising(sQueue')
      /\ \A n \in 1 .. Len(sQueue') : /\ sQueue'[n] < sNext' /\ sWritten[sQueue'[n]] = 0
                                      /\ \A m \in 1 .. Len(sBatch) : sBatch[m] < sQueue'[n]
      /\ InSeq(sQueue) \cup {sNext} = InSeq(sQueue') \cup Pushed \cup {sNext}
      /\ Pushed \subseteq Events /\ DropCount \in Nat /\ sEvicted' \in Nat
      /\ sEvicted' = sReported + DropCount
  BY <1>1, EnqueueFacts
<1>q. sNext \in InSeq(sQueue')
  BY <1>1, EnqueueFacts
<1>3. SinkTypeOK'
  BY <1>1, <1>2 DEF SinkInv, SinkSound, SinkTypeOK
<1>4. WrittenOnce' /\ DropsReported'
  BY <1>1, <1>2 DEF SinkInv, SinkSound, WrittenOnce, DropsReported
<1>5. NothingForgotten'
  <2> SUFFICES ASSUME NEW e \in 1 .. (sNext' - 1)
               PROVE  e \in InSeq(sQueue') \cup InSeq(sBatch') \cup sGone' \/ sWritten'[e] > 0
    BY DEF NothingForgotten
  <2>1. e = sNext \/ e \in 1 .. (sNext - 1)
    BY <1>2 DEF Events
  <2> QED BY <1>1, <1>2, <1>q, <2>1 DEF SinkInv, SinkSound, NothingForgotten
<1>6. FlushInOrder'
  BY <1>1 DEF SinkInv, FlushInOrder, Writing
<1>7. EventsInOrder'
  <2>1. \A m \in 1 .. Len(sBatch) : sBatch[m] < sNext' /\ sWritten[sBatch[m]] = 0
    <3> SUFFICES ASSUME NEW m \in 1 .. Len(sBatch) PROVE sBatch[m] < sNext' /\ sWritten[sBatch[m]] = 0
      OBVIOUS
    <3>1. sBatch[m] \in Events /\ sBatch[m] < sNext /\ sWritten[sBatch[m]] = 0
      BY DEF SinkInv, SinkSound, SinkTypeOK, EventsInOrder
    <3> QED BY <1>2, <3>1 DEF Events
  <2>2. \A e \in Events : e >= sNext' => sWritten[e] = 0
    BY <1>2 DEF SinkInv, EventsInOrder, Events
  <2> QED BY <1>1, <1>2, <2>1, <2>2 DEF SinkInv, EventsInOrder
<1> QED BY <1>3, <1>4, <1>5, <1>6, <1>7 DEF SinkInv, SinkSound

\* The flush is done with the oldest row of its batch.
LEMMA RowFacts ==
  ASSUME SinkInv, Writing, sStop # "cancel", NEW d \in Nat, AfterRow(d)
  PROVE  /\ sBatch \in Seq(Events) /\ sBatch # <<>> /\ sBatch' = Tail(sBatch)
         /\ sDropped' \in Nat /\ sReported' \in Nat /\ sReported' + sDropped' = sReported + d
         /\ sFlusher' \in {"sleep", "write", "ended"} /\ sStop' \in {"up", "cancel", "write", "done"}
         /\ FlushInOrder'
<1>0. /\ sBatch \in Seq(Events) /\ sBatch # <<>> /\ sBatch' = Tail(sBatch) /\ sReported \in Nat
      /\ sFlusher \in {"sleep", "write", "ended"} /\ sStop \in {"up", "cancel", "write", "done"}
  BY DEF SinkInv, SinkSound, SinkTypeOK, FlushInOrder, AfterRow
<1>1. Len(sBatch) \in Nat \ {0} /\ Len(sBatch') = Len(sBatch) - 1 /\ sBatch' \in Seq(Events)
  BY <1>0, TailFacts
<1>2. CASE Len(sBatch) > 1
  <2>1. sDropped' = d /\ UNCHANGED <<sReported, sFlusher, sStop>>
    BY <1>2 DEF AfterRow
  <2>2. sBatch' # <<>>
    BY <1>1, <1>2
  <2> QED BY <1>0, <2>1, <2>2 DEF SinkInv, FlushInOrder, Writing
<1>3. CASE ~(Len(sBatch) > 1)
  <2>1. /\ sReported' = sReported + d /\ sDropped' = 0
        /\ IF sStop = "write" THEN sStop' = "done" /\ UNCHANGED sFlusher
                              ELSE sFlusher' = "sleep" /\ UNCHANGED sStop
    BY <1>3 DEF AfterRow
  <2>2. sBatch' = <<>>
    BY <1>1, <1>3
  <2>3. FlushInOrder'
    BY <1>0, <2>1, <2>2 DEF SinkInv, FlushInOrder, Writing
  <2> QED BY <1>0, <2>1, <2>3
<1> QED BY <1>2, <1>3

LEMMA RowWrittenKeeps ==
  ASSUME SinkInv, RowWritten
  PROVE  SinkInv'
<1> DEFINE h == Head(sBatch)
<1>1. /\ Writing /\ sStop # "cancel" /\ AfterRow(sDropped)
      /\ sWritten' = [sWritten EXCEPT ![h] = @ + 1] /\ UNCHANGED <<sQueue, sNext, sGone, sEvicted>>
  BY DEF RowWritten
<1>0. /\ sDropped \in Nat /\ sWritten \in [Events -> Nat] /\ sNext \in 1 .. (MaxEvents + 1) /\ EventsInOrder
      /\ sQueue \in Seq(Events)
  BY DEF SinkInv, SinkSound, SinkTypeOK
<1>2. /\ sBatch \in Seq(Events) /\ sBatch # <<>> /\ sBatch' = Tail(sBatch)
      /\ sDropped' \in Nat /\ sReported' \in Nat /\ sReported' + sDropped' = sReported + sDropped
      /\ sFlusher' \in {"sleep", "write", "ended"} /\ sStop' \in {"up", "cancel", "write", "done"}
      /\ FlushInOrder'
  BY <1>0, <1>1, RowFacts
<1>3. /\ Tail(sBatch) \in Seq(Events) /\ Rising(Tail(sBatch)) /\ h = sBatch[1] /\ 1 \in 1 .. Len(sBatch)
      /\ \A n \in 1 .. Len(Tail(sBatch)) : Tail(sBatch)[n] = sBatch[n + 1] /\ n + 1 \in 1 .. Len(sBatch)
      /\ InSeq(sBatch) = {h} \cup InSeq(Tail(sBatch)) /\ h \in Events /\ sWritten[h] = 0 /\ h < sNext
  BY <1>0, <1>2, TailFacts DEF EventsInOrder
<1>4. /\ sWritten' \in [Events -> Nat] /\ sWritten'[h] = 1
      /\ \A e \in Events : e # h => sWritten'[e] = sWritten[e]
  BY <1>0, <1>1, <1>3
<1> HIDE DEF h
<1>5. SinkTypeOK'
  BY <1>1, <1>2, <1>3, <1>4 DEF SinkInv, SinkSound, SinkTypeOK
<1>6. WrittenOnce'
  BY <1>4 DEF SinkInv, SinkSound, WrittenOnce
<1>7. DropsReported'
  BY <1>1, <1>2 DEF SinkInv, SinkSound, DropsReported
<1>8. NothingForgotten'
  <2> SUFFICES ASSUME NEW e \in 1 .. (sNext - 1)
               PROVE  e \in InSeq(sQueue) \cup InSeq(sBatch') \cup sGone \/ sWritten'[e] > 0
    BY <1>1 DEF NothingForgotten
  <2>1. e \in Events
    BY <1>0, SinkAssumption DEF Events
  <2>2. e \in InSeq(sQueue) \cup InSeq(sBatch) \cup sGone \/ sWritten[e] > 0
    BY DEF SinkInv, SinkSound, NothingForgotten
  <2>3. CASE e = h
    BY <1>4, <2>3
  <2>4. CASE e # h
    BY <1>2, <1>3, <1>4, <2>1, <2>2, <2>4
  <2> QED BY <2>3, <2>4
<1>9. EventsInOrder'
  <2>1. \A n \in 1 .. Len(sQueue) : sQueue[n] \in Events /\ sQueue[n] # h
    <3> SUFFICES ASSUME NEW n \in 1 .. Len(sQueue) PROVE sQueue[n] \in Events /\ sQueue[n] # h
      OBVIOUS
    <3>1. sQueue[n] \in Events /\ sBatch[1] < sQueue[n]
      BY <1>0, <1>3 DEF EventsInOrder
    <3> QED BY <1>3, <3>1 DEF Events
  <2>2. \A n \in 1 .. Len(Tail(sBatch)) : Tail(sBatch)[n] \in Events /\ Tail(sBatch)[n] # h
    <3> SUFFICES ASSUME NEW n \in 1 .. Len(Tail(sBatch))
                 PROVE  Tail(sBatch)[n] \in Events /\ Tail(sBatch)[n] # h
      OBVIOUS
    <3>1. Tail(sBatch)[n] = sBatch[n + 1] /\ n + 1 \in 1 .. Len(sBatch) /\ 1 < n + 1
      BY <1>3
    <3>2. sBatch[1] < sBatch[n + 1] /\ sBatch[n + 1] \in Events /\ sBatch[1] \in Events
      BY <1>0, <1>2, <1>3, <3>1 DEF EventsInOrder, Rising
    <3> QED BY <1>3, <3>1, <3>2 DEF Events
  <2>3. \A n \in 1 .. Len(sQueue) : sQueue[n] < sNext /\ sWritten'[sQueue[n]] = 0
    BY <1>0, <1>4, <2>1 DEF EventsInOrder
  <2>4. \A n \in 1 .. Len(Tail(sBatch)) : Tail(sBatch)[n] < sNext /\ sWritten'[Tail(sBatch)[n]] = 0
    BY <1>0, <1>3, <1>4, <2>2 DEF EventsInOrder
  <2>5. \A m \in 1 .. Len(Tail(sBatch)), n \in 1 .. Len(sQueue) : Tail(sBatch)[m] < sQueue[n]
    BY <1>0, <1>3 DEF EventsInOrder
  <2>6. \A e \in Events : e >= sNext => sWritten'[e] = 0
    BY <1>0, <1>3, <1>4 DEF EventsInOrder, Events
  <2> QED BY <1>0, <1>1, <1>2, <1>3, <2>3, <2>4, <2>5, <2>6 DEF EventsInOrder
<1> QED BY <1>2, <1>5, <1>6, <1>7, <1>8, <1>9 DEF SinkInv, SinkSound

LEMMA RowFailsKeeps ==
  ASSUME SinkInv, RowFails
  PROVE  SinkInv'
<1> DEFINE h == Head(sBatch)
<1>1. /\ Writing /\ sStop # "cancel" /\ AfterRow(DropCount) /\ sNext <= MaxEvents /\ Enqueue(sNext)
      /\ sGone' = sGone \cup Pushed \cup {h} /\ UNCHANGED sWritten
  BY DEF RowFails
<1>0. /\ sWritten \in [Events -> Nat] /\ EventsInOrder /\ sQueue \in Seq(Events)
  BY DEF SinkInv, SinkSound, SinkTypeOK
<1>2. /\ sNext \in Events /\ sNext' = sNext + 1 /\ sNext' \in 1 .. (MaxEvents + 1)
      /\ sQueue' \in Seq(Events) /\ Len(sQueue') <= MaxQueue /\ Rising(sQueue')
      /\ \A n \in 1 .. Len(sQueue') : /\ sQueue'[n] < sNext' /\ sWritten[sQueue'[n]] = 0
                                      /\ \A m \in 1 .. Len(sBatch) : sBatch[m] < sQueue'[n]
      /\ InSeq(sQueue) \cup {sNext} = InSeq(sQueue') \cup Pushed \cup {sNext}
      /\ sNext \in InSeq(sQueue')
      /\ Pushed \subseteq Events /\ DropCount \in Nat /\ sEvicted' \in Nat
      /\ sEvicted' = sReported + DropCount
  BY <1>1, EnqueueFacts
<1>3. /\ sBatch \in Seq(Events) /\ sBatch # <<>> /\ sBatch' = Tail(sBatch)
      /\ sDropped' \in Nat /\ sReported' \in Nat /\ sReported' + sDropped' = sReported + DropCount
      /\ sFlusher' \in {"sleep", "write", "ended"} /\ sStop' \in {"up", "cancel", "write", "done"}
      /\ FlushInOrder'
  BY <1>1, <1>2, RowFacts
<1>4. /\ Tail(sBatch) \in Seq(Events) /\ Rising(Tail(sBatch))
      /\ \A n \in 1 .. Len(Tail(sBatch)) : Tail(sBatch)[n] = sBatch[n + 1] /\ n + 1 \in 1 .. Len(sBatch)
      /\ InSeq(sBatch) = {h} \cup InSeq(Tail(sBatch)) /\ h \in Events
  BY <1>0, <1>3, TailFacts DEF EventsInOrder
<1> HIDE DEF h
<1>5. SinkTypeOK'
  BY <1>1, <1>2, <1>3, <1>4 DEF SinkInv, SinkSound, SinkTypeOK
<1>6. WrittenOnce' /\ DropsReported'
  BY <1>1, <1>2, <1>3 DEF SinkInv, SinkSound, WrittenOnce, DropsReported
<1>7. NothingForgotten'
  <2> SUFFICES ASSUME NEW e \in 1 .. (sNext' - 1)
               PROVE  e \in InSeq(sQueue') \cup InSeq(sBatch') \cup sGone' \/ sWritten[e] > 0
    BY <1>1 DEF NothingForgotten
  <2>1. e = sNext \/ e \in 1 .. (sNext - 1)
    BY <1>2 DEF Events
  <2>2. CASE e = sNext
    BY <1>2, <2>2
  <2>3. CASE e \in 1 .. (sNext - 1)
    <3>1. e \in InSeq(sQueue) \cup InSeq(sBatch) \cup sGone \/ sWritten[e] > 0
      BY <2>3 DEF SinkInv, SinkSound, NothingForgotten
    <3> QED BY <1>1, <1>2, <1>3, <1>4, <3>1
  <2> QED BY <2>1, <2>2, <2>3
<1>8. EventsInOrder'
  <2>1. \A m \in 1 .. Len(Tail(sBatch)) : Tail(sBatch)[m] < sNext' /\ sWritten[Tail(sBatch)[m]] = 0
    <3> SUFFICES ASSUME NEW m \in 1 .. Len(Tail(sBatch))
                 PROVE  Tail(sBatch)[m] < sNext' /\ sWritten[Tail(sBatch)[m]] = 0
      OBVIOUS
    <3>1. Tail(sBatch)[m] \in Events /\ Tail(sBatch)[m] < sNext /\ sWritten[Tail(sBatch)[m]] = 0
      BY <1>0, <1>4 DEF EventsInOrder
    <3> QED BY <1>2, <3>1 DEF Events
  <2>2. \A e \in Events : e >= sNext' => sWritten[e] = 0
    BY <1>0, <1>2 DEF EventsInOrder, Events
  <2>3. \A m \in 1 .. Len(Tail(sBatch)), n \in 1 .. Len(sQueue') : Tail(sBatch)[m] < sQueue'[n]
    BY <1>2, <1>4
  <2> QED BY <1>1, <1>2, <1>3, <1>4, <2>1, <2>2, <2>3 DEF EventsInOrder
<1> QED BY <1>3, <1>5, <1>6, <1>7, <1>8 DEF SinkInv, SinkSound

\* The queue becomes the batch of a flush that had none, or whose batch is given up.
LEMMA TakeKeeps ==
  ASSUME SinkInv, Take, FlushInOrder', UNCHANGED <<sDropped, sNext, sEvicted, sReported>>,
         sFlusher' \in {"sleep", "write", "ended"}, sStop' \in {"up", "cancel", "write", "done"},
         sWritten' \in [Events -> Nat], sGone' \subseteq Events, sGone \subseteq sGone',
         \A e \in Events : e \notin InSeq(sBatch) => sWritten'[e] = sWritten[e],
         \A e \in Events : sWritten[e] <= sWritten'[e] /\ sWritten'[e] <= 1,
         \A e \in InSeq(sBatch) : e \in sGone' \/ sWritten'[e] > 0
  PROVE  SinkInv'
<1> USE SinkAssumption
<1>0. /\ sQueue \in Seq(Events) /\ sBatch \in Seq(Events) /\ sWritten \in [Events -> Nat]
      /\ EventsInOrder /\ sNext \in 1 .. (MaxEvents + 1)
      /\ sBatch' = sQueue /\ sQueue' = <<>>
  BY DEF SinkInv, SinkSound, SinkTypeOK, Take
<1>1. SinkTypeOK'
  <2>1. <<>> \in Seq(Events) /\ Len(<<>>) = 0
    OBVIOUS
  <2> QED BY <1>0, <2>1 DEF SinkInv, SinkSound, SinkTypeOK
<1>2. WrittenOnce' /\ DropsReported'
  BY DEF SinkInv, SinkSound, WrittenOnce, DropsReported
<1>3. NothingForgotten'
  <2> SUFFICES ASSUME NEW e \in 1 .. (sNext - 1)
               PROVE  e \in InSeq(sQueue') \cup InSeq(sBatch') \cup sGone' \/ sWritten'[e] > 0
    BY DEF NothingForgotten
  <2>1. e \in Events
    BY <1>0 DEF Events
  <2>2. e \in InSeq(sQueue) \cup InSeq(sBatch) \cup sGone \/ sWritten[e] > 0
    BY DEF SinkInv, SinkSound, NothingForgotten
  <2>3. sWritten[e] > 0 => sWritten'[e] > 0
    BY <1>0, <2>1
  <2> QED BY <1>0, <2>1, <2>2, <2>3
<1>4. EventsInOrder'
  <2>1. \A n \in 1 .. Len(sQueue) : sQueue[n] < sNext /\ sWritten'[sQueue[n]] = 0
    <3> SUFFICES ASSUME NEW n \in 1 .. Len(sQueue) PROVE sQueue[n] < sNext /\ sWritten'[sQueue[n]] = 0
      OBVIOUS
    <3>1. sQueue[n] \in Events /\ sQueue[n] < sNext /\ sWritten[sQueue[n]] = 0
      BY <1>0 DEF EventsInOrder
    <3>2. sQueue[n] \notin InSeq(sBatch)
      <4>1. ASSUME NEW m \in 1 .. Len(sBatch) PROVE sBatch[m] # sQueue[n]
        <5>1. sBatch[m] < sQueue[n] /\ sBatch[m] \in Events
          BY <1>0 DEF EventsInOrder
        <5> QED BY <3>1, <5>1 DEF Events
      <4> QED BY <4>1 DEF InSeq
    <3> QED BY <3>1, <3>2
  <2>2. \A e \in Events : e >= sNext => sWritten'[e] = 0
    <3> SUFFICES ASSUME NEW e \in Events, e >= sNext PROVE sWritten'[e] = 0
      OBVIOUS
    <3>1. sWritten[e] = 0
      BY <1>0 DEF EventsInOrder
    <3>2. e \notin InSeq(sBatch)
      <4>1. ASSUME NEW m \in 1 .. Len(sBatch) PROVE sBatch[m] # e
        <5>1. sBatch[m] < sNext /\ sBatch[m] \in Events
          BY <1>0 DEF EventsInOrder
        <5> QED BY <1>0, <5>1 DEF Events
      <4> QED BY <4>1 DEF InSeq
    <3> QED BY <3>1, <3>2
  <2>3. Rising(sQueue) /\ Rising(<<>>)
    BY <1>0 DEF EventsInOrder, Rising
  <2>4. Len(sQueue') = 0
    BY <1>0
  <2> QED BY <1>0, <2>1, <2>2, <2>3, <2>4 DEF EventsInOrder
<1> QED BY <1>1, <1>2, <1>3, <1>4 DEF SinkInv, SinkSound

LEMMA SinkStep ==
  ASSUME SinkInv, SinkNext
  PROVE  SinkInv'
<1> USE SinkAssumption
<1>0. /\ sQueue \in Seq(Events) /\ sBatch \in Seq(Events) /\ sWritten \in [Events -> Nat]
      /\ sGone \subseteq Events /\ sFlusher \in {"sleep", "write", "ended"}
      /\ sStop \in {"up", "cancel", "write", "done"} /\ WrittenOnce /\ FlushInOrder /\ EventsInOrder
  BY DEF SinkInv, SinkSound, SinkTypeOK
<1>1. CASE StopSink
  <2>1. FlushInOrder'
    BY <1>0, <1>1 DEF StopSink, FlushInOrder, Writing
  <2>2. SinkTypeOK'
    BY <1>1 DEF StopSink, SinkInv, SinkSound, SinkTypeOK
  <2> QED BY <1>1, <2>1, <2>2 DEF StopSink, SinkInv, SinkSound, WrittenOnce, NothingForgotten,
             DropsReported, EventsInOrder, Rising, InSeq
<1>2. CASE Wake
  <2>1. /\ Take /\ sFlusher = "sleep" /\ sStop = "up" /\ sFlusher' = "write" /\ Len(sQueue) >= BatchSize
        /\ UNCHANGED <<sDropped, sStop, sNext, sWritten, sGone, sEvicted, sReported>>
    BY <1>2 DEF Wake
  <2>2. sBatch = <<>> /\ sQueue # <<>>
    BY <1>0, <2>1 DEF FlushInOrder, Writing
  <2>3. FlushInOrder'
    BY <2>1, <2>2 DEF FlushInOrder, Writing, Take
  <2>4. InSeq(sBatch) = {}
    BY <2>2 DEF InSeq
  <2>5. \A e \in Events : sWritten[e] \in Nat /\ sWritten[e] <= 1
    BY <1>0 DEF WrittenOnce
  <2> QED BY <1>0, <2>1, <2>3, <2>4, <2>5, TakeKeeps
<1>3. CASE FlusherCancelled
  <2>1. /\ Take /\ sStop = "cancel" /\ sFlusher' = "ended" /\ CutOff
        /\ sStop' = (IF sQueue = <<>> THEN "done" ELSE "write")
        /\ UNCHANGED <<sDropped, sNext, sEvicted, sReported>>
    BY <1>3 DEF FlusherCancelled
  <2>2. FlushInOrder'
    BY <2>1 DEF FlushInOrder, Writing, Take
  <2>3. InSeq(sBatch) \subseteq Events
    BY <1>0 DEF InSeq
  <2>4. \A e \in Events : sWritten[e] \in Nat /\ sWritten[e] <= 1
    BY <1>0 DEF WrittenOnce
  <2>5. CASE sGone' = sGone \cup InSeq(sBatch) /\ UNCHANGED sWritten
    BY <1>0, <2>1, <2>2, <2>3, <2>4, <2>5, TakeKeeps
  <2>6. CASE /\ sBatch # <<>>
             /\ sWritten' = [sWritten EXCEPT ![Head(sBatch)] = @ + 1]
             /\ sGone' = sGone \cup InSeq(Tail(sBatch))
    <3> DEFINE h == Head(sBatch)
    <3>1. InSeq(sBatch) = {h} \cup InSeq(Tail(sBatch)) /\ h \in Events /\ h = sBatch[1] /\ 1 \in 1 .. Len(sBatch)
      BY <1>0, <2>6, TailFacts
    <3>2. sWritten[h] = 0
      BY <1>0, <3>1 DEF EventsInOrder
    <3> HIDE DEF h
    <3>3. sWritten' = [sWritten EXCEPT ![h] = @ + 1]
      BY <2>6 DEF h
    <3>4. /\ sWritten' \in [Events -> Nat] /\ sWritten'[h] = 1
          /\ \A e \in Events : e # h => sWritten'[e] = sWritten[e]
      BY <1>0, <3>1, <3>2, <3>3
    <3>5. \A e \in Events : e \notin InSeq(sBatch) => sWritten'[e] = sWritten[e]
      BY <3>1, <3>4
    <3>6. \A e \in Events : sWritten[e] <= sWritten'[e] /\ sWritten'[e] <= 1
      <4> SUFFICES ASSUME NEW e \in Events PROVE sWritten[e] <= sWritten'[e] /\ sWritten'[e] <= 1
        OBVIOUS
      <4>1. CASE e = h
        BY <3>2, <3>4, <4>1
      <4>2. CASE e # h
        BY <2>4, <3>4, <4>2
      <4> QED BY <4>1, <4>2
    <3>7. sGone' \subseteq Events /\ sGone \subseteq sGone'
      BY <1>0, <2>3, <2>6, <3>1
    <3>8. \A e \in InSeq(sBatch) : e \in sGone' \/ sWritten'[e] > 0
      BY <2>6, <3>1, <3>4
    <3> QED BY <2>1, <2>2, <3>4, <3>5, <3>6, <3>7, <3>8, TakeKeeps
  <2> QED BY <2>1, <2>5, <2>6 DEF CutOff
<1> QED BY <1>1, <1>2, <1>3, RecordKeeps, RowWrittenKeeps, RowFailsKeeps DEF SinkNext, SinkSteps

LEMMA SinkStutters ==
  ASSUME SinkInv, UNCHANGED sVars
  PROVE  SinkInv'
<1>1. SinkTypeOK'
  BY DEF SinkInv, SinkSound, SinkTypeOK, sVars
<1> QED BY <1>1 DEF SinkInv, SinkSound, WrittenOnce, NothingForgotten, DropsReported,
           FlushInOrder, Writing, EventsInOrder, Rising, InSeq, sVars

\* No event is inserted twice, none is lost but by the three ways the code gives one
\* up, and every eviction is counted once, whatever the queue and batch sizes and
\* wherever stop() cuts the flusher off.
THEOREM SinkHolds == SinkSpec => []SinkSound
<1>1. SinkInv => SinkSound
  BY DEF SinkInv
<1> QED BY <1>1, SinkInitially, SinkStep, SinkStutters, PTL DEF SinkSpec

-----------------------------------------------------------------------------
(* Lifecycle *)

StartSteps ==
    {"config", "health", "database", "exchange", "sync", "account", "market_data",
     "risk", "execution", "orphans", "strategies", "groq", "optimizer", "bot",
     "metrics", "webhook"}

ShutdownSteps ==
    {"health", "bot", "strategies", "execution", "risk", "market_data", "exchange",
     "sink", "database", "groq", "webhook", "config"}

\* The steps of an order that come before a step, all of them before "end".
Before(order, step) ==
    {order[n] : n \in {m \in 1 .. Len(order) : \A k \in 1 .. m : order[k] # step}}

Firm == {"database", "exchange", "market_data", "execution"}

\* The parts the trading stack rests on are open once their step is over, the
\* strategies come last, and attributes are assigned before a part opens.
StartInOrder ==
    /\ lPhase = "starting" =>
         /\ lAt \in StartSteps \cup {"end"}
         /\ Firm \cap Before(StartOrder, lAt) \subseteq lOpen
         /\ "risk" \in Before(StartOrder, lAt) => "risk" \in lHeld
         /\ "strategies" \in lHeld => "strategies" \in Before(StartOrder, lAt)
         /\ "bot" \notin Before(StartOrder, lAt) => lPolls < MaxPolls
    /\ lPhase \in {"starting", "running"} => lOpen \subseteq lHeld
    /\ lPhase \in {"starting", "running"} /\ Live => lFailed = {} /\ \A p \in lSeen : lLeverage[p]

\* Of the parts the unwinding has passed, none is held, and none is open but the
\* faulty ones and the bot; what is still open ahead of it is held.
UnwindInOrder ==
    /\ lPhase = "unwinding" => lAt \in ShutdownSteps \cup {"end"}
    /\ lPhase = "over" => lAt = "end"
    /\ lPhase \in {"unwinding", "over"} =>
         /\ lHeld \cap Before(ShutdownOrder, lAt) = {}
         /\ lOpen \cap Before(ShutdownOrder, lAt) \subseteq lFaulty \cup {"bot"}
         /\ lOpen \ Before(ShutdownOrder, lAt) \subseteq lHeld

PartsInOrder ==
    /\ "optimizer" \notin lOpen /\ "metrics" \notin lOpen
    /\ "strategies" \in lHeld => Firm \subseteq lOpen /\ "risk" \in lHeld
    /\ NothingOutlivesItsNeeds

LInv == LifecycleTypeOK /\ PartsInOrder /\ StartInOrder /\ UnwindInOrder

\* Going on to the next step of an order.
LEMMA StartAdvances ==
  ASSUME NEW step \in StartSteps
  PROVE  /\ After(StartOrder, step) \in StartSteps \cup {"end"}
         /\ Before(StartOrder, After(StartOrder, step)) = Before(StartOrder, step) \cup {step}
<1> DEFINE o == StartOrder
           n == CHOOSE j \in 1 .. Len(o) : o[j] = step
<1>0. Len(o) = 16
  BY DEF StartOrder
<1>1. \E j \in 1 .. Len(o) : o[j] = step
  BY DEF StartOrder, StartSteps
<1>2. n \in 1 .. 16 /\ o[n] = step
  BY <1>0, <1>1
<1>3. \A j, k \in 1 .. 16 : o[j] = o[k] => j = k
  BY DEF StartOrder
<1>4. \A j \in 1 .. 16 : o[j] \in StartSteps /\ o[j] # "end"
  BY DEF StartOrder, StartSteps
<1> DEFINE a == After(o, step)
<1>5. a = IF n = 16 THEN "end" ELSE o[n + 1]
  BY <1>0 DEF After
<1> HIDE DEF o, n, a
<1>6. \A m \in 1 .. 16 : (\A k \in 1 .. m : o[k] # step) <=> m < n
  BY <1>2, <1>3
<1>7. \A m \in 1 .. 16 : (\A k \in 1 .. m : o[k] # a) <=> m < n + 1
  <2>1. CASE n = 16
    BY <1>2, <1>4, <1>5, <2>1
  <2>2. CASE n # 16
    BY <1>2, <1>3, <1>5, <2>2
  <2> QED BY <2>1, <2>2
<1>8. Before(o, step) = {o[m] : m \in {j \in 1 .. 16 : j < n}}
  BY <1>0, <1>6 DEF Before
<1>9. Before(o, a) = {o[m] : m \in {j \in 1 .. 16 : j < n + 1}}
  BY <1>0, <1>7 DEF Before
<1>10. Before(o, a) = Before(o, step) \cup {step}
  BY <1>2, <1>8, <1>9
<1> QED BY <1>2, <1>4, <1>5, <1>10 DEF o, a

LEMMA ShutdownAdvances ==
  ASSUME NEW step \in ShutdownSteps
  PROVE  /\ After(ShutdownOrder, step) \in ShutdownSteps \cup {"end"}
         /\ Before(ShutdownOrder, After(ShutdownOrder, step)) = Before(ShutdownOrder, step) \cup {step}
<1> DEFINE o == ShutdownOrder
           n == CHOOSE j \in 1 .. Len(o) : o[j] = step
<1>0. Len(o) = 12
  BY DEF ShutdownOrder
<1>1. \E j \in 1 .. Len(o) : o[j] = step
  BY DEF ShutdownOrder, ShutdownSteps
<1>2. n \in 1 .. 12 /\ o[n] = step
  BY <1>0, <1>1
<1>3. \A j, k \in 1 .. 12 : o[j] = o[k] => j = k
  BY DEF ShutdownOrder
<1>4. \A j \in 1 .. 12 : o[j] \in ShutdownSteps /\ o[j] # "end"
  BY DEF ShutdownOrder, ShutdownSteps
<1> DEFINE a == After(o, step)
<1>5. a = IF n = 12 THEN "end" ELSE o[n + 1]
  BY <1>0 DEF After
<1> HIDE DEF o, n, a
<1>6. \A m \in 1 .. 12 : (\A k \in 1 .. m : o[k] # step) <=> m < n
  BY <1>2, <1>3
<1>7. \A m \in 1 .. 12 : (\A k \in 1 .. m : o[k] # a) <=> m < n + 1
  <2>1. CASE n = 12
    BY <1>2, <1>4, <1>5, <2>1
  <2>2. CASE n # 12
    BY <1>2, <1>3, <1>5, <2>2
  <2> QED BY <2>1, <2>2
<1>8. Before(o, step) = {o[m] : m \in {j \in 1 .. 12 : j < n}}
  BY <1>0, <1>6 DEF Before
<1>9. Before(o, a) = {o[m] : m \in {j \in 1 .. 12 : j < n + 1}}
  BY <1>0, <1>7 DEF Before
<1>10. Before(o, a) = Before(o, step) \cup {step}
  BY <1>2, <1>8, <1>9
<1> QED BY <1>2, <1>4, <1>5, <1>10 DEF o, a

\* What the two orders put before what.
LEMMA StartOrderFacts ==
  /\ Before(StartOrder, "config") = {}
  /\ {"database", "exchange"} \subseteq Before(StartOrder, "market_data")
  /\ {"database", "exchange", "market_data"} \subseteq Before(StartOrder, "execution")
  /\ Firm \cup {"risk"} \subseteq Before(StartOrder, "strategies")
  /\ \A step \in StartSteps : "strategies" \in Before(StartOrder, step)
       => step \in {"groq", "optimizer", "bot", "metrics", "webhook"}
  /\ "bot" \notin Before(StartOrder, "bot")
BY DEF Before, StartOrder, StartSteps, Firm

LEMMA ShutdownOrderFacts ==
  /\ ShutdownOrder[1] = "health" /\ Before(ShutdownOrder, "health") = {}
  /\ "execution" \in Before(ShutdownOrder, "market_data")
  /\ {"execution", "market_data"} \subseteq Before(ShutdownOrder, "exchange")
  /\ {"execution", "market_data", "sink"} \subseteq Before(ShutdownOrder, "database")
  /\ \A step \in ShutdownSteps \ {"health", "bot", "strategies"} :
       "strategies" \in Before(ShutdownOrder, step)
  /\ Before(ShutdownOrder, "end") = ShutdownSteps
BY DEF Before, ShutdownOrder, ShutdownSteps

LEMMA NeedsFacts ==
  /\ Needs["sink"] = {"database"} /\ Needs["market_data"] = {"database", "exchange"}
  /\ Needs["execution"] = {"database", "exchange", "market_data"}
  /\ \A part \in Parts \ {"sink", "market_data", "execution"} : Needs[part] = {}
BY DEF Needs, Parts

LEMMA LifecycleInitially == LifecycleInit => LInv
<1> SUFFICES ASSUME LifecycleInit PROVE LInv
  OBVIOUS
<1> USE LifecycleAssumption
<1>1. LifecycleTypeOK
  <2>1. /\ lPhase = "starting" /\ lHeld = {} /\ lOpen = {} /\ lFaulty = {} /\ lConf \subseteq Options
        /\ lBot = "none" /\ lPolls = 0 /\ lHolding \subseteq Pairs /\ lLeverage \in [Pairs -> BOOLEAN]
    BY DEF LifecycleInit
  <2>2. lSignal \in BOOLEAN /\ lFailed = {} /\ lSeen = {}
    BY DEF LifecycleInit
  <2>3. 0 \in 0 .. MaxPolls
    OBVIOUS
  <2> QED BY <2>1, <2>2, <2>3 DEF LifecycleTypeOK
<1>2. PartsInOrder
  BY DEF LifecycleInit, PartsInOrder, NothingOutlivesItsNeeds
<1>3. StartInOrder
  <2>1. /\ lPhase = "starting" /\ lAt = "config" /\ lHeld = {} /\ lOpen = {} /\ lFailed = {} /\ lSeen = {}
        /\ lPolls = 0
    BY DEF LifecycleInit
  <2>2. lAt \in StartSteps /\ Before(StartOrder, lAt) = {} /\ lPolls < MaxPolls
    BY <2>1, StartOrderFacts DEF StartSteps
  <2> QED BY <2>1, <2>2 DEF StartInOrder
<1>4. UnwindInOrder
  BY DEF LifecycleInit, UnwindInOrder
<1> QED BY <1>1, <1>2, <1>3, <1>4 DEF LInv

\* The bot and the account keep their types, and an account a live worker trades on
\* has its leverage.
SidesInOrder ==
    /\ lFailed \subseteq Pairs /\ lSeen \subseteq Pairs /\ lBot \in {"none", "app", "polling"} /\ lPolls \in 0 .. MaxPolls
    /\ lLeverage \in [Pairs -> BOOLEAN] /\ lHolding \subseteq Pairs

\* Parts that a step of start() may assign and open.
Fitting(held, open) ==
    /\ held \subseteq Parts /\ open \subseteq held
    /\ "optimizer" \notin open /\ "metrics" \notin open
    /\ "sink" \in open => "database" \in open
    /\ "market_data" \in open => lAt = "market_data"
    /\ "execution" \in open => lAt = "execution"
    /\ "strategies" \in held => lAt = "strategies"

\* More parts, none of them without what it needs.
LEMMA FittingParts ==
  ASSUME LInv, lPhase = "starting", lAt \in StartSteps, NEW held, NEW open, Fitting(held, open),
         lHeld' = lHeld \cup held, lOpen' = lOpen \cup open, UNCHANGED lFaulty
  PROVE  PartsInOrder' /\ lOpen' \subseteq lHeld'
<1>0. /\ lOpen \subseteq lHeld /\ lHeld \subseteq Parts /\ lOpen \subseteq Parts /\ PartsInOrder
      /\ Firm \cap Before(StartOrder, lAt) \subseteq lOpen
      /\ "risk" \in Before(StartOrder, lAt) => "risk" \in lHeld
  BY DEF LInv, StartInOrder, LifecycleTypeOK
<1>1. lOpen' \subseteq lHeld' /\ "optimizer" \notin lOpen' /\ "metrics" \notin lOpen'
  BY <1>0 DEF Fitting, PartsInOrder
<1>2. "strategies" \in lHeld' => Firm \subseteq lOpen' /\ "risk" \in lHeld'
  <2>1. CASE "strategies" \in lHeld
    BY <1>0, <2>1 DEF PartsInOrder
  <2>2. CASE "strategies" \in held
    <3>1. Firm \subseteq lOpen /\ "risk" \in lHeld
      BY <1>0, <2>2, StartOrderFacts DEF Fitting
    <3> QED BY <3>1
  <2> QED BY <2>1, <2>2
<1>3. NothingOutlivesItsNeeds'
  <2> SUFFICES ASSUME NEW part \in lOpen' \ lFaulty PROVE Needs[part] \subseteq lOpen'
    BY DEF NothingOutlivesItsNeeds
  <2>1. CASE part \in lOpen
    BY <1>0, <2>1 DEF PartsInOrder, NothingOutlivesItsNeeds
  <2>2. CASE part \in open
    <3>1. part \in Parts
      BY <2>2 DEF Fitting
    <3>2. CASE part = "sink"
      BY <2>2, <3>2, NeedsFacts DEF Fitting
    <3>3. CASE part = "market_data"
      BY <1>0, <2>2, <3>3, NeedsFacts, StartOrderFacts DEF Fitting, Firm
    <3>4. CASE part = "execution"
      BY <1>0, <2>2, <3>4, NeedsFacts, StartOrderFacts DEF Fitting, Firm
    <3> QED BY <3>1, <3>2, <3>3, <3>4, NeedsFacts
  <2> QED BY <2>1, <2>2
<1> QED BY <1>1, <1>2, <1>3 DEF PartsInOrder

LEMMA PassesKeeps ==
  ASSUME LInv, lPhase = "starting", lAt \in StartSteps, NEW held, NEW open, Fitting(held, open),
         Passes(held, open), SidesInOrder',
         lAt \in Firm => lAt \in open, lAt = "risk" => "risk" \in held,
         lAt = "bot" \/ lPolls' = lPolls,
         Live => lFailed' = {} /\ \A p \in lSeen' : lLeverage'[p]
  PROVE  LInv'
<1>1. /\ lHeld' = lHeld \cup held /\ lOpen' = lOpen \cup open /\ lAt' = After(StartOrder, lAt)
      /\ UNCHANGED <<lPhase, lFaulty, lSignal, lConf>>
  BY DEF Passes
<1>2. PartsInOrder' /\ lOpen' \subseteq lHeld'
  BY <1>1, FittingParts
<1>3. LifecycleTypeOK'
  BY <1>1 DEF LInv, LifecycleTypeOK, SidesInOrder, Fitting
<1>4. /\ lAt' \in StartSteps \cup {"end"}
      /\ Before(StartOrder, lAt') = Before(StartOrder, lAt) \cup {lAt}
  BY <1>1, StartAdvances
<1>5. StartInOrder'
  <2>0. /\ Firm \cap Before(StartOrder, lAt) \subseteq lOpen
        /\ "risk" \in Before(StartOrder, lAt) => "risk" \in lHeld
        /\ "strategies" \in lHeld => "strategies" \in Before(StartOrder, lAt)
        /\ "bot" \notin Before(StartOrder, lAt) => lPolls < MaxPolls
    BY DEF LInv, StartInOrder
  <2>1. Firm \cap Before(StartOrder, lAt') \subseteq lOpen'
    BY <1>1, <1>4, <2>0
  <2>2. "risk" \in Before(StartOrder, lAt') => "risk" \in lHeld'
    BY <1>1, <1>4, <2>0
  <2>3. "strategies" \in lHeld' => "strategies" \in Before(StartOrder, lAt')
    BY <1>1, <1>4, <2>0 DEF Fitting
  <2>4. "bot" \notin Before(StartOrder, lAt') => lPolls' < MaxPolls
    BY <1>4, <2>0
  <2>5. Live' = Live
    BY <1>1 DEF Live
  <2> QED BY <1>1, <1>2, <1>4, <2>1, <2>2, <2>3, <2>4, <2>5 DEF StartInOrder
<1>6. UnwindInOrder'
  BY <1>1 DEF UnwindInOrder
<1> QED BY <1>2, <1>3, <1>5, <1>6 DEF LInv

LEMMA RaisesKeeps ==
  ASSUME LInv, lPhase = "starting", lAt \in StartSteps, NEW held, NEW open, Fitting(held, open),
         Raises(held, open), SidesInOrder'
  PROVE  LInv'
<1>1. /\ lHeld' = lHeld \cup held /\ lOpen' = lOpen \cup open /\ lAt' = "health"
      /\ lPhase' = "unwinding" /\ UNCHANGED <<lFaulty, lSignal, lConf>>
  BY ShutdownOrderFacts DEF Raises
<1>2. PartsInOrder' /\ lOpen' \subseteq lHeld'
  BY <1>1, FittingParts
<1>3. LifecycleTypeOK'
  BY <1>1 DEF LInv, LifecycleTypeOK, SidesInOrder, Fitting
<1>4. UnwindInOrder'
  BY <1>1, <1>2, ShutdownOrderFacts DEF UnwindInOrder, ShutdownSteps
<1>5. StartInOrder'
  BY <1>1 DEF StartInOrder
<1> QED BY <1>2, <1>3, <1>4, <1>5 DEF LInv

\* The steps of start() that leave the bot and the account alone.
LEMMA InitKeeps ==
  ASSUME LInv, UNCHANGED <<botVars, accountVars>>, NEW step \in StartSteps, At(step),
         NEW held, NEW open, Fitting(held, open),
         \/ Passes(held, open) /\ (step \in Firm => step \in open) /\ (step = "risk" => "risk" \in held)
         \/ Raises(held, open)
  PROVE  LInv'
<1>1. lPhase = "starting" /\ lAt = step
  BY DEF At
<1>2. SidesInOrder' /\ lPolls' = lPolls
  BY DEF LInv, LifecycleTypeOK, SidesInOrder, botVars, accountVars
<1>3. Live => lFailed' = {} /\ \A p \in lSeen' : lLeverage'[p]
  BY <1>1 DEF LInv, StartInOrder, accountVars
<1> QED BY <1>1, <1>2, <1>3, PassesKeeps, RaisesKeeps

\* The parts that come with a component, and those a raise leaves behind.
LEMMA InitStep ==
  ASSUME LInv,
         \/ InitConfigManager \/ InitHealthServer \/ InitDatabase \/ InitExchangeAdapter
         \/ SyncPositions \/ InitMarketData \/ InitRiskManager \/ InitExecutionEngine
         \/ InitStrategies \/ InitGroqAi \/ InitOptimizer \/ InitMetrics \/ InitTradingviewWebhook
  PROVE  LInv'
<1> USE DEF Fitting, Parts, StartSteps, Firm
<1>0. Fitting({}, {})
  OBVIOUS
<1>1. CASE InitConfigManager
  <2>1. Fitting({"config"}, {})
    OBVIOUS
  <2> QED BY <1>0, <1>1, <2>1, InitKeeps DEF InitConfigManager
<1>2. CASE InitHealthServer
  <2>1. Fitting({"health"}, {"health"})
    OBVIOUS
  <2> QED BY <1>0, <1>2, <2>1, InitKeeps DEF InitHealthServer
<1>3. CASE InitDatabase
  <2>1. /\ Fitting({"database", "sink"}, {"database", "sink"}) /\ Fitting({"database"}, {"database"})
        /\ Fitting({"database"}, {})
    OBVIOUS
  <2> QED BY <1>3, <2>1, InitKeeps DEF InitDatabase
<1>4. CASE InitExchangeAdapter
  <2>1. Fitting({"exchange"}, {"exchange"}) /\ Fitting({"exchange"}, {})
    OBVIOUS
  <2> QED BY <1>0, <1>4, <2>1, InitKeeps DEF InitExchangeAdapter
<1>5. CASE SyncPositions
  BY <1>0, <1>5, InitKeeps DEF SyncPositions
<1>6. CASE InitMarketData
  <2>1. Fitting({"market_data"}, {"market_data"}) /\ Fitting({"market_data"}, {})
    BY <1>6 DEF InitMarketData, At
  <2> QED BY <1>6, <2>1, InitKeeps DEF InitMarketData
<1>7. CASE InitRiskManager
  <2>1. Fitting({"risk"}, {})
    OBVIOUS
  <2> QED BY <1>0, <1>7, <2>1, InitKeeps DEF InitRiskManager
<1>8. CASE InitExecutionEngine
  <2>1. Fitting({"execution"}, {"execution"})
    BY <1>8 DEF InitExecutionEngine, At
  <2> QED BY <1>8, <2>1, InitKeeps DEF InitExecutionEngine
<1>9. CASE InitStrategies
  <2>1. Fitting({"strategies"}, {})
    BY <1>9 DEF InitStrategies, At
  <2> QED BY <1>0, <1>9, <2>1, InitKeeps DEF InitStrategies
<1>10. CASE InitGroqAi
  <2>1. Fitting(lConf \cap {"groq"}, lConf \cap {"groq"})
    OBVIOUS
  <2> QED BY <1>0, <1>10, <2>1, InitKeeps DEF InitGroqAi
<1>11. CASE InitOptimizer
  <2>1. Fitting({"optimizer"}, {})
    OBVIOUS
  <2> QED BY <1>0, <1>11, <2>1, InitKeeps DEF InitOptimizer
<1>12. CASE InitMetrics
  <2>1. Fitting({"metrics"}, {})
    OBVIOUS
  <2> QED BY <1>12, <2>1, InitKeeps DEF InitMetrics
<1>13. CASE InitTradingviewWebhook
  <2> DEFINE parts == IF "health" \in lHeld THEN lConf \cap {"webhook"} ELSE {}
  <2>1. Fitting(parts, parts)
    OBVIOUS
  <2> QED BY <1>0, <1>13, <2>1, InitKeeps DEF InitTradingviewWebhook
<1> QED BY <1>1, <1>2, <1>3, <1>4, <1>5, <1>6, <1>7, <1>8, <1>9, <1>10, <1>11, <1>12, <1>13

\* The account setup lets a live worker on only without a refused setting and with
\* the leverage on every pair it compared.
LEMMA AccountKeeps ==
  ASSUME LInv, SetupFuturesAccount
  PROVE  LInv'
<1>0. Fitting({}, {}) /\ lAt \in StartSteps /\ lPhase = "starting" /\ lAt = "account"
  BY DEF SetupFuturesAccount, At, Fitting, StartSteps
<1> DEFINE mismatch(seen) == {p \in seen : ~lLeverage'[p]}
<1>1. PICK failed \in SUBSET Pairs, moved \in SUBSET Pairs, seen \in SUBSET lHolding :
        /\ lLeverage' = [p \in Pairs |-> lLeverage[p] \/ p \in moved]
        /\ lFailed' = failed
        /\ lSeen' = seen
        /\ IF Refuses(failed, mismatch(seen)) THEN Raises({}, {}) ELSE Passes({}, {})
  BY Zenon DEF SetupFuturesAccount
<1>2. lHolding' = lHolding /\ lBot' = lBot /\ lPolls' = lPolls
  BY DEF SetupFuturesAccount, botVars
<1>3. lLeverage' \in [Pairs -> BOOLEAN]
  BY <1>1
<1>4. SidesInOrder'
  BY <1>1, <1>2, <1>3 DEF SidesInOrder, LInv, LifecycleTypeOK
<1>5. CASE Refuses(failed, mismatch(seen))
  BY <1>0, <1>1, <1>4, <1>5, RaisesKeeps
<1>6. CASE ~Refuses(failed, mismatch(seen))
  <2>1. Passes({}, {})
    BY <1>1, <1>6
  <2>2. Live => lFailed' = {} /\ \A p \in lSeen' : lLeverage'[p]
    <3> SUFFICES ASSUME Live PROVE lFailed' = {} /\ \A p \in lSeen' : lLeverage'[p]
      OBVIOUS
    <3>1. failed = {} /\ mismatch(seen) = {}
      BY <1>6 DEF Refuses
    <3> QED BY <1>1, <3>1
  <2> QED BY <1>0, <1>2, <1>4, <2>1, <2>2, PassesKeeps DEF Firm
<1> QED BY <1>5, <1>6

LEMMA BotKeeps ==
  ASSUME LInv, BotDisabled \/ BotApplicationStarts \/ StartPolling
  PROVE  LInv'
<1> USE LifecycleAssumption
<1>0. /\ lPhase = "starting" /\ lAt = "bot" /\ lAt \in StartSteps /\ Fitting({}, {})
      /\ UNCHANGED accountVars
  BY DEF BotDisabled, BotApplicationStarts, StartPolling, At, StartSteps, Fitting
<1>1. lPolls \in 0 .. MaxPolls /\ lPolls < MaxPolls
  BY <1>0, StartOrderFacts DEF LInv, LifecycleTypeOK, StartInOrder
<1>2. /\ lFailed' \subseteq Pairs /\ lSeen' \subseteq Pairs /\ lLeverage' \in [Pairs -> BOOLEAN] /\ lHolding' \subseteq Pairs
  BY <1>0 DEF accountVars, LInv, LifecycleTypeOK
<1>3. Live => lFailed' = {} /\ \A p \in lSeen' : lLeverage'[p]
  BY <1>0 DEF LInv, StartInOrder, accountVars
<1>4. ASSUME Passes({}, {}), lBot' \in {"none", "app", "polling"}, lPolls' \in 0 .. MaxPolls
      PROVE  LInv'
  <2>1. SidesInOrder'
    BY <1>2, <1>4 DEF SidesInOrder
  <2> QED BY <1>0, <1>3, <1>4, <2>1, PassesKeeps DEF Firm
<1>5. lBot \in {"none", "app", "polling"}
  BY DEF LInv, LifecycleTypeOK
<1>6. ASSUME UNCHANGED <<lPhase, lAt, lFaulty, lSignal, lConf>>, PartsInOrder', lOpen' \subseteq lHeld',
             lHeld' \subseteq Parts, lHeld \subseteq lHeld', lOpen \subseteq lOpen',
             lBot' \in {"none", "app", "polling"}, lPolls' \in 0 .. MaxPolls, lPolls' < MaxPolls,
             "strategies" \in lHeld' => "strategies" \in lHeld
      PROVE  LInv'
  <2>1. LifecycleTypeOK'
    BY <1>2, <1>6 DEF LInv, LifecycleTypeOK
  <2>2. Live' = Live
    BY <1>6 DEF Live
  <2>3. StartInOrder'
    BY <1>0, <1>3, <1>6, <2>2 DEF LInv, StartInOrder
  <2>4. UnwindInOrder'
    BY <1>0, <1>6 DEF UnwindInOrder
  <2> QED BY <1>6, <2>1, <2>3, <2>4 DEF LInv
<1>7. CASE BotDisabled
  BY <1>1, <1>4, <1>5, <1>7 DEF BotDisabled, botVars
<1>8. CASE BotApplicationStarts
  <2>1. Fitting({"bot"}, {"bot"})
    BY DEF Fitting, Parts
  <2>2. /\ lHeld' = lHeld \cup {"bot"} /\ lOpen' = lOpen \cup {"bot"} /\ lBot' = "app"
        /\ UNCHANGED <<lPhase, lAt, lFaulty, lSignal, lConf, lPolls>>
    BY <1>8 DEF BotApplicationStarts
  <2>3. PartsInOrder' /\ lOpen' \subseteq lHeld'
    BY <1>0, <2>1, <2>2, FittingParts
  <2>4. lHeld' \subseteq Parts /\ ("strategies" \in lHeld' => "strategies" \in lHeld)
    BY <2>2 DEF LInv, LifecycleTypeOK, Parts
  <2> QED BY <1>1, <1>6, <2>2, <2>3, <2>4
<1>9. CASE StartPolling
  <2>1. CASE lBot' = "polling" /\ lPolls' = lPolls + 1 /\ Passes({}, {})
    BY <1>1, <1>4, <2>1
  <2>2. CASE /\ lPolls' = lPolls + 1 /\ UNCHANGED lBot
             /\ IF PollAgain
                THEN UNCHANGED <<lPhase, lAt, lHeld, lOpen, lFaulty, lSignal, lConf>>
                ELSE Passes({}, {})
    <3>1. CASE PollAgain
      <4>1. UNCHANGED <<lPhase, lAt, lHeld, lOpen, lFaulty, lSignal, lConf>> /\ lPolls' < MaxPolls
        BY <2>2, <3>1 DEF PollAgain
      <4>2. PartsInOrder'
        BY <4>1 DEF LInv, PartsInOrder, NothingOutlivesItsNeeds
      <4>3. lOpen \subseteq lHeld /\ lHeld \subseteq Parts
        BY <1>0 DEF LInv, StartInOrder, LifecycleTypeOK
      <4> QED BY <1>1, <1>5, <1>6, <2>2, <4>1, <4>2, <4>3
    <3>2. CASE ~PollAgain
      BY <1>1, <1>4, <1>5, <2>2, <3>2
    <3> QED BY <3>1, <3>2
  <2>3. CASE UNCHANGED botVars /\ Passes({}, {})
    BY <1>1, <1>4, <1>5, <2>3 DEF botVars
  <2> QED BY <1>9, <2>1, <2>2, <2>3 DEF StartPolling
<1> QED BY <1>7, <1>8, <1>9

\* The steps between start() and the end that change no part.
LEMMA TurnKeeps ==
  ASSUME LInv, CycleStarts \/ Signal \/ RunForeverEnds \/ ShutdownEnds \/ UNCHANGED lVars
  PROVE  LInv'
<1>0. /\ UNCHANGED <<lHeld, lOpen, lFaulty, lConf, lBot, lPolls, lLeverage, lHolding, lFailed, lSeen>>
  BY DEF CycleStarts, Signal, RunForeverEnds, ShutdownEnds, lVars, botVars, accountVars
<1>1. PartsInOrder' /\ Live' = Live
  BY <1>0 DEF LInv, PartsInOrder, NothingOutlivesItsNeeds, Live
<1>2. /\ lPhase' \in {"starting", "running", "unwinding", "over"} /\ lSignal' \in BOOLEAN
  BY DEF CycleStarts, Signal, RunForeverEnds, ShutdownEnds, lVars, LInv, LifecycleTypeOK
<1>3. LifecycleTypeOK'
  BY <1>0, <1>2 DEF LInv, LifecycleTypeOK
<1>4. StartInOrder'
  <2>1. CASE lPhase' = lPhase /\ lAt' = lAt
    BY <1>0, <1>1, <2>1 DEF LInv, StartInOrder
  <2>2. CASE lPhase = "starting" /\ lPhase' = "running"
    BY <1>0, <1>1, <2>2 DEF LInv, StartInOrder
  <2>3. CASE lPhase' \in {"unwinding", "over"}
    BY <2>3 DEF StartInOrder
  <2> QED BY <2>1, <2>2, <2>3 DEF CycleStarts, Signal, RunForeverEnds, ShutdownEnds, lVars
<1>5. UnwindInOrder'
  <2>1. CASE lPhase' = lPhase /\ lAt' = lAt
    BY <1>0, <2>1 DEF LInv, UnwindInOrder
  <2>2. CASE lPhase' = "running"
    BY <2>2 DEF UnwindInOrder
  <2>3. CASE RunForeverEnds
    <3>1. lPhase' = "unwinding" /\ lAt' = "health" /\ lOpen \subseteq lHeld
      BY <2>3, ShutdownOrderFacts DEF RunForeverEnds, LInv, StartInOrder
    <3> QED BY <1>0, <3>1, ShutdownOrderFacts DEF UnwindInOrder, ShutdownSteps
  <2>4. CASE ShutdownEnds
    BY <1>0, <2>4 DEF ShutdownEnds, LInv, UnwindInOrder
  <2> QED BY <2>1, <2>2, <2>3, <2>4 DEF CycleStarts, Signal, lVars
<1> QED BY <1>1, <1>3, <1>4, <1>5 DEF LInv

\* A part that goes while a part that needs it is open and not faulty would have
\* overtaken it.
LEMMA UnwindKeepsNeeds ==
  ASSUME LInv, lPhase = "unwinding", lAt \in ShutdownSteps, lOpen' \subseteq lOpen,
         lOpen \ Closing(lAt) \subseteq lOpen', lFaulty \subseteq lFaulty', lHeld' = lHeld \ {lAt}
  PROVE  PartsInOrder'
<1>0. /\ PartsInOrder /\ lOpen \subseteq Parts
      /\ lHeld \cap Before(ShutdownOrder, lAt) = {}
      /\ lOpen \cap Before(ShutdownOrder, lAt) \subseteq lFaulty \cup {"bot"}
  BY DEF LInv, LifecycleTypeOK, UnwindInOrder
<1>1. "strategies" \in lHeld' => Firm \subseteq lOpen' /\ "risk" \in lHeld'
  <2> SUFFICES ASSUME "strategies" \in lHeld' PROVE Firm \subseteq lOpen' /\ "risk" \in lHeld'
    OBVIOUS
  <2>1. lAt \in {"health", "bot"}
    BY <1>0, ShutdownOrderFacts
  <2>2. Firm \subseteq lOpen /\ "risk" \in lHeld
    BY <1>0 DEF PartsInOrder
  <2> QED BY <2>1, <2>2 DEF Closing, Firm
<1>2. NothingOutlivesItsNeeds'
  <2> SUFFICES ASSUME NEW part \in lOpen' \ lFaulty' PROVE Needs[part] \subseteq lOpen'
    BY DEF NothingOutlivesItsNeeds
  <2>1. part \in lOpen \ lFaulty /\ Needs[part] \subseteq lOpen /\ part \in Parts
    BY <1>0 DEF PartsInOrder, NothingOutlivesItsNeeds
  <2>2. part # "bot" => part \notin Before(ShutdownOrder, lAt)
    BY <1>0, <2>1
  <2>3. Closing(lAt) = IF lAt = "health" THEN {"health", "webhook"} ELSE {lAt}
    BY DEF Closing
  <2>4. CASE part = "sink"
    <3>1. lAt # "database"
      BY <2>2, <2>4, ShutdownOrderFacts
    <3> QED BY <2>1, <2>3, <2>4, <3>1, NeedsFacts
  <2>5. CASE part = "market_data"
    <3>1. lAt \notin {"database", "exchange"}
      BY <2>2, <2>5, ShutdownOrderFacts
    <3> QED BY <2>1, <2>3, <2>5, <3>1, NeedsFacts
  <2>6. CASE part = "execution"
    <3>1. lAt \notin {"database", "exchange", "market_data"}
      BY <2>2, <2>6, ShutdownOrderFacts
    <3> QED BY <2>1, <2>3, <2>6, <3>1, NeedsFacts
  <2> QED BY <2>1, <2>4, <2>5, <2>6, NeedsFacts
<1>3. "optimizer" \notin lOpen' /\ "metrics" \notin lOpen'
  BY <1>0 DEF PartsInOrder
<1> QED BY <1>1, <1>2, <1>3 DEF PartsInOrder

LEMMA UnwindKeeps ==
  ASSUME LInv, ShutdownPart \/ ShutdownBot
  PROVE  LInv'
<1>0. /\ lPhase = "unwinding" /\ lPhase' = "unwinding" /\ lAt # "end" /\ lHeld' = lHeld \ {lAt}
      /\ lAt' = After(ShutdownOrder, lAt)
      /\ UNCHANGED <<lSignal, lConf, lPolls, lLeverage, lHolding, lFailed, lSeen>>
  BY DEF ShutdownPart, ShutdownBot, Advance, botVars, accountVars
<1>1. /\ lAt \in ShutdownSteps
      /\ lHeld \cap Before(ShutdownOrder, lAt) = {}
      /\ lOpen \cap Before(ShutdownOrder, lAt) \subseteq lFaulty \cup {"bot"}
      /\ lOpen \ Before(ShutdownOrder, lAt) \subseteq lHeld
      /\ lOpen \subseteq Parts /\ lFaulty \subseteq Parts
  BY <1>0 DEF LInv, UnwindInOrder, LifecycleTypeOK
<1>2. /\ lAt' \in ShutdownSteps \cup {"end"}
      /\ Before(ShutdownOrder, lAt') = Before(ShutdownOrder, lAt) \cup {lAt}
  BY <1>0, <1>1, ShutdownAdvances
<1>3. /\ lOpen' \subseteq lOpen /\ lOpen \ Closing(lAt) \subseteq lOpen' /\ lFaulty \subseteq lFaulty'
      /\ lFaulty' \subseteq Parts
      /\ lAt \in lOpen' => lAt \in lFaulty' \cup {"bot"}
  <2>1. lAt \in Closing(lAt)
    BY DEF Closing
  <2>2. lAt \in lOpen => lAt \in lHeld \/ lAt \in lFaulty \cup {"bot"}
    BY <1>1
  <2>3. CASE ShutdownBot
    BY <1>1, <2>3 DEF ShutdownBot, Closing
  <2>4. CASE /\ lOpen' = IF lAt \in lHeld THEN lOpen \ Closing(lAt) ELSE lOpen
             /\ UNCHANGED lFaulty
    BY <1>1, <2>1, <2>2, <2>4
  <2>5. CASE /\ lFaulty' = lFaulty \cup (lOpen \cap Closing(lAt)) /\ UNCHANGED lOpen
    BY <1>1, <2>1, <2>5
  <2> QED BY <2>3, <2>4, <2>5 DEF ShutdownPart
<1>4. PartsInOrder'
  BY <1>0, <1>1, <1>3, UnwindKeepsNeeds
<1>5. lBot' \in {"none", "app", "polling"}
  BY DEF ShutdownPart, ShutdownBot, botVars, LInv, LifecycleTypeOK
<1>6. LifecycleTypeOK'
  BY <1>0, <1>1, <1>3, <1>5 DEF LInv, LifecycleTypeOK
<1>7. UnwindInOrder'
  BY <1>0, <1>1, <1>2, <1>3 DEF UnwindInOrder
<1>8. StartInOrder'
  BY <1>0 DEF StartInOrder
<1> QED BY <1>4, <1>6, <1>7, <1>8 DEF LInv

LEMMA LifecycleStep ==
  ASSUME LInv, LifecycleNext \/ UNCHANGED lVars
  PROVE  LInv'
BY InitStep, AccountKeeps, BotKeeps, TurnKeeps, UnwindKeeps DEF LifecycleNext, LifecycleSteps

LEMMA LifecycleImplies == LInv => LifecycleSound
<1> SUFFICES ASSUME LInv PROVE LifecycleSound
  OBVIOUS
<1>1. EverythingReleased
  <2> SUFFICES ASSUME lPhase = "over"
               PROVE  lHeld \subseteq {"optimizer", "metrics"} /\ lOpen \subseteq lFaulty \cup {"bot"}
    BY DEF EverythingReleased
  <2>1. Before(ShutdownOrder, lAt) = ShutdownSteps
    BY ShutdownOrderFacts DEF LInv, UnwindInOrder
  <2>2. /\ lHeld \cap ShutdownSteps = {} /\ lOpen \cap ShutdownSteps \subseteq lFaulty \cup {"bot"}
        /\ lHeld \subseteq Parts /\ lOpen \subseteq Parts
        /\ "optimizer" \notin lOpen /\ "metrics" \notin lOpen
    BY <2>1 DEF LInv, UnwindInOrder, LifecycleTypeOK, PartsInOrder
  <2>3. Parts \subseteq ShutdownSteps \cup {"optimizer", "metrics"}
    BY DEF Parts, ShutdownSteps
  <2> QED BY <2>2, <2>3
<1>2. LiveTradesOnItsLeverage
  BY DEF LInv, StartInOrder, LiveTradesOnItsLeverage
<1>3. ReadyMeansServing
  <2> SUFFICES ASSUME Ready
               PROVE  /\ Firm \subseteq lOpen /\ "risk" \in lHeld
                      /\ lPhase # "starting"
                           \/ lAt \in {"groq", "optimizer", "bot", "metrics", "webhook", "end"}
    BY DEF ReadyMeansServing, Firm
  <2>1. "strategies" \in lHeld
    BY DEF Ready, HealthComponents
  <2>2. Firm \subseteq lOpen /\ "risk" \in lHeld
    BY <2>1 DEF LInv, PartsInOrder
  <2>3. lPhase = "starting" => lAt \in {"groq", "optimizer", "bot", "metrics", "webhook", "end"}
    BY <2>1, StartOrderFacts DEF LInv, StartInOrder
  <2> QED BY <2>2, <2>3
<1> QED BY <1>1, <1>2, <1>3 DEF LInv, PartsInOrder, LifecycleSound

\* Wherever start() fails and whenever the stop signal comes, no part outlives what it
\* needs, everything is released that did not refuse to be, a live worker trades on the
\* leverage it read back, and the readiness answer is the truth.
THEOREM LifecycleHolds == LifecycleSpec => []LifecycleSound
<1> QED BY LifecycleInitially, LifecycleStep, LifecycleImplies, PTL DEF LifecycleSpec

-----------------------------------------------------------------------------
(* The worker: its life cycle and its error sink side by side. *)

LEMMA WorkerStep ==
  ASSUME LInv, SinkInv, [WorkerNext]_<<lVars, sVars>>
  PROVE  LInv' /\ SinkInv'
<1>1. CASE LifecycleNext /\ UNCHANGED sVars
  BY <1>1, LifecycleStep, SinkStutters
<1>2. CASE SinkNext /\ UNCHANGED lVars
  BY <1>2, LifecycleStep, SinkStep
<1>3. CASE UNCHANGED <<lVars, sVars>>
  BY <1>3, LifecycleStep, SinkStutters
<1> QED BY <1>1, <1>2, <1>3 DEF WorkerNext

\* The life cycle keeps its promises in the specification the worker run checks,
\* where life cycle and sink take turns.
THEOREM WorkerLifeHolds == WorkerSpec => []LifecycleSound
<1>1. WorkerInit => LInv /\ SinkInv
  BY LifecycleInitially, SinkInitially DEF WorkerInit
<1> QED BY <1>1, WorkerStep, LifecycleImplies, PTL DEF WorkerSpec

\* And the sink keeps its own there (ErrorSink: record, flush, stop).
THEOREM WorkerSinkHolds == WorkerSpec => []SinkSound
<1>1. WorkerInit => LInv /\ SinkInv
  BY LifecycleInitially, SinkInitially DEF WorkerInit
<1>2. SinkInv => SinkSound
  BY DEF SinkInv
<1> QED BY <1>1, <1>2, WorkerStep, PTL DEF WorkerSpec
=============================================================================
