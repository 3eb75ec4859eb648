------------------------------ MODULE ErrorSink ------------------------------
(***************************************************************************)
(* The error sink (monitoring/error_sink.py): a log processor that queues  *)
(* every ERROR event in a bounded deque and a background flusher that      *)
(* writes them to the error_logs table.  Events are numbered in the order  *)
(* they are logged.  A flush empties the queue first and then awaits one   *)
(* insert per row, so events arrive while it writes; a row that cannot be  *)
(* inserted is skipped, and its repository logs an ERROR of its own, which *)
(* the sink queues again.  stop() cancels the flusher wherever it is and   *)
(* flushes what is queued.                                                 *)
(***************************************************************************)
EXTENDS Naturals, Sequences

CONSTANTS
    MaxQueue,     \* max_queue: the deque's maxlen
    BatchSize,    \* batch_size: the loop flushes from this many on
    MaxEvents     \* bound on the events logged, the sink's own included

ASSUME SinkAssumption ==
    /\ MaxQueue \in Nat \ {0}
    /\ BatchSize \in 1..MaxQueue
    /\ MaxEvents \in Nat

VARIABLES
    sQueue,     \* _queue: events waiting
    sBatch,     \* the rows the running flush still has to insert
    sDropped,   \* _dropped: evictions not reported yet
    sFlusher,   \* the flush loop: "sleep", "write" (inside flush), "ended"
    sStop,      \* stop(): "up" (not called), "cancel", "write", "done"
    sNext,      \* number of the next event
    sWritten,   \* history: how often each event was inserted
    sGone,      \* history: events evicted, refused by the table or cut off by the cancel
    sEvicted,   \* history: how many events the full deque pushed out
    sReported   \* history: how many of them a warning has reported

sVars == <<sQueue, sBatch, sDropped, sFlusher, sStop, sNext, sWritten, sGone,
           sEvicted, sReported>>

Events == 1..MaxEvents

InSeq(s) == {s[i] : i \in 1..Len(s)}

SinkTypeOK ==
    /\ sQueue \in Seq(Events) /\ Len(sQueue) <= MaxQueue
    /\ sBatch \in Seq(Events)
    /\ sDropped \in Nat /\ sEvicted \in Nat /\ sReported \in Nat
    /\ sFlusher \in {"sleep", "write", "ended"}
    /\ sStop \in {"up", "cancel", "write", "done"}
    /\ sNext \in 1..(MaxEvents + 1)
    /\ sWritten \in [Events -> Nat]
    /\ sGone \subseteq Events

SinkInit ==
    /\ sQueue = <<>> /\ sBatch = <<>>
    /\ sDropped = 0 /\ sEvicted = 0 /\ sReported = 0
    /\ sFlusher = "sleep"
    /\ sStop = "up"
    /\ sNext = 1
    /\ sWritten = [e \in Events |-> 0]
    /\ sGone = {}

-----------------------------------------------------------------------------
(* _record: an event that does not fit pushes the oldest one out.          *)

Full == Len(sQueue) = MaxQueue

DropCount == IF Full THEN sDropped + 1 ELSE sDropped

Enqueue(e) ==
    /\ sQueue' = Append(IF Full THEN Tail(sQueue) ELSE sQueue, e)
    /\ sEvicted' = IF Full THEN sEvicted + 1 ELSE sEvicted
    /\ sNext' = e + 1

Pushed == IF Full THEN {Head(sQueue)} ELSE {}

Record ==
    /\ sNext <= MaxEvents
    /\ Enqueue(sNext)
    /\ sDropped' = DropCount
    /\ sGone' = sGone \cup Pushed
    /\ UNCHANGED <<sBatch, sFlusher, sStop, sWritten, sReported>>

-----------------------------------------------------------------------------
(* flush, called by the loop when it wakes up and by stop().               *)

Take ==
    /\ sBatch' = sQueue
    /\ sQueue' = <<>>

Wake ==
    /\ sFlusher = "sleep" /\ sStop = "up"
    /\ Len(sQueue) >= BatchSize
    /\ Take
    /\ sFlusher' = "write"
    /\ UNCHANGED <<sDropped, sStop, sNext, sWritten, sGone, sEvicted, sReported>>

Writing == sFlusher = "write" \/ sStop = "write"

(* After the last row the flush reports the drops and returns to its       *)
(* caller.                                                                 *)
AfterRow(dropped) ==
    /\ sBatch' = Tail(sBatch)
    /\ IF Len(sBatch) > 1
       THEN /\ sDropped' = dropped
            /\ UNCHANGED <<sReported, sFlusher, sStop>>
       ELSE /\ sReported' = sReported + dropped
            /\ sDropped' = 0
            /\ IF sStop = "write"
               THEN sStop' = "done" /\ UNCHANGED sFlusher
               ELSE sFlusher' = "sleep" /\ UNCHANGED sStop

RowWritten ==
    /\ Writing /\ sStop # "cancel"
    /\ sWritten' = [sWritten EXCEPT ![Head(sBatch)] = @ + 1]
    /\ AfterRow(sDropped)
    /\ UNCHANGED <<sQueue, sNext, sGone, sEvicted>>

(* The insert raises: the repository logs the failure, which queues an     *)
(* event about it, and the row is skipped.                                 *)
RowFails ==
    /\ Writing /\ sStop # "cancel"
    /\ sNext <= MaxEvents
    /\ Enqueue(sNext)
    /\ sGone' = sGone \cup Pushed \cup {Head(sBatch)}
    /\ AfterRow(DropCount)
    /\ UNCHANGED sWritten

-----------------------------------------------------------------------------
(* stop(): cancel the loop, wait for it, flush what is queued.             *)

StopSink ==
    /\ sStop = "up"
    /\ sStop' = "cancel"
    /\ UNCHANGED <<sQueue, sBatch, sDropped, sFlusher, sNext, sWritten, sGone,
                   sEvicted, sReported>>

(* The cancellation reaches the loop.  Inside flush it cuts the batch off: *)
(* the row being inserted may be in the table already, the rest is in no   *)
(* queue any more.                                                         *)
CutOff ==
    \/ /\ sBatch # <<>>
       /\ sWritten' = [sWritten EXCEPT ![Head(sBatch)] = @ + 1]
       /\ sGone' = sGone \cup InSeq(Tail(sBatch))
    \/ /\ sGone' = sGone \cup InSeq(sBatch)
       /\ UNCHANGED sWritten

(* Mutant: the cut batch goes back to the queue for the final flush.       *)
Requeues ==
    /\ sStop = "cancel"
    /\ sFlusher' = "ended"
    /\ CutOff
    /\ sBatch' = sBatch \o sQueue
    /\ sQueue' = <<>>
    /\ sStop' = IF sBatch \o sQueue = <<>> THEN "done" ELSE "write"
    /\ UNCHANGED <<sDropped, sNext, sEvicted, sReported>>

(* Mutant: stop() ends with the loop, without the final flush.             *)
StopsDry ==
    /\ sStop = "cancel"
    /\ sFlusher' = "ended"
    /\ CutOff
    /\ sBatch' = <<>>
    /\ sStop' = "done"
    /\ UNCHANGED <<sQueue, sDropped, sNext, sEvicted, sReported>>

FlusherCancelled ==
    /\ sStop = "cancel"
    /\ sFlusher' = "ended"
    /\ CutOff
    /\ Take
    /\ sStop' = IF sQueue = <<>> THEN "done" ELSE "write"
    /\ UNCHANGED <<sDropped, sNext, sEvicted, sReported>>

SinkSteps == Wake \/ RowWritten \/ RowFails \/ FlusherCancelled

SinkNext == Record \/ StopSink \/ SinkSteps

SinkSpec == SinkInit /\ [][SinkNext]_sVars

(* The event loop runs the flusher and stop() as long as they can move.    *)
SinkFairness == WF_sVars(Wake) /\ WF_sVars(RowWritten \/ RowFails) /\ WF_sVars(FlusherCancelled)

-----------------------------------------------------------------------------
(* No event is inserted twice, whatever the flusher, its cancellation and  *)
(* the final flush of stop() do to the row in flight (flush, stop).        *)
WrittenOnce == \A e \in Events : sWritten[e] <= 1

(* An event logged while a flush is writing is not wiped with the batch:   *)
(* every event is queued, in the batch, in the table, or was given up in   *)
(* one of the code's three ways: pushed out of the full queue, skipped     *)
(* after a failed insert (nothing puts it back for a retry), or cut off    *)
(* with the batch that stop() cancels (_record, flush, stop).              *)
NothingForgotten ==
    \A e \in 1..(sNext - 1) :
        \/ e \in InSeq(sQueue) \cup InSeq(sBatch) \cup sGone
        \/ sWritten[e] > 0

(* The drop counter neither misses nor double counts an eviction, and the  *)
(* report at the end of a flush takes all of them (_record, flush).        *)
DropsReported == sEvicted = sReported + sDropped

(* A queue that has reached the batch size is flushed (the loop survives   *)
(* failing inserts), unless stop() takes over.  A shorter queue waits for    *)
(* more events or for stop(), however long (_flush_loop).                  *)
FullBatchFlushed ==
    (sStop = "up" /\ Len(sQueue) >= BatchSize)
        ~> (Len(sQueue) < BatchSize \/ sStop # "up")

(* stop() returns, and what had been queued by then has left the queue.    *)
StopDrains ==
    \A e \in Events :
        (sStop = "cancel" /\ e < sNext) ~> (sStop = "done" /\ e \notin InSeq(sQueue) \cup InSeq(sBatch))

(* Every event is accounted for exactly once.                              *)
SinkSound == SinkTypeOK /\ WrittenOnce /\ NothingForgotten /\ DropsReported

(* And the sink moves on, in operation and at its end.                     *)
SinkDrains == FullBatchFlushed /\ StopDrains
=============================================================================
