----------------------- MODULE InvestigationRunProofs -----------------------
(* What InvestigationRun promises for any number of cancel requests,       *)
(* streams, retries and stages, and any set of faults.                     *)
EXTENDS InvestigationRun, SequenceTheorems, TLAPS

-----------------------------------------------------------------------------
(* The event store by itself, for every set of streams and of events.      *)

\* Position n of a request's queue is reached without passing a sentinel.
Unbroken(s, n) == \A j \in 1..n : put[s][j] # Closed

IdleInv == \A s \in Streams : streamPc[s] = "idle" => got[s] = 0

TakenInv == \A s \in Streams :
    /\ got[s] <= Len(put[s])
    /\ \A i \in 1..got[s] :
         put[s][i] = Closed => i = got[s] /\ streamPc[s] = "ended"

PrefixInv == \A s \in Streams : \A i \in 1..Len(put[s]) :
    Unbroken(s, i) => i <= Len(events) /\ put[s][i] = events[i]

\* The strengthening of ClientsSeeHistory and AttachedMissesNothing.
StoreInv == StoreTypeOK /\ IdleInv /\ TakenInv /\ PrefixInv /\ AttachedMissesNothing

-----------------------------------------------------------------------------
\* Deliver appends items to the attached queue and leaves the others alone.
LEMMA DeliverType ==
    ASSUME StoreTypeOK, NEW items \in Seq(Payloads \union {Closed}), Deliver(items)
    PROVE  /\ put' \in [Streams -> Seq(Payloads \union {Closed})]
           /\ \A s \in Streams : s # queueOf => put'[s] = put[s]
           /\ \A s \in Streams : s = queueOf => put'[s] = put[s] \o items
  BY DEF StoreTypeOK, Deliver

\* Every operation of the event store and every step of a stream keeps the
\* store well typed.
LEMMA StoreTypingStep == StoreTypeOK /\ [StoreNext]_storeVars => StoreTypeOK'
<1> SUFFICES ASSUME StoreTypeOK, [StoreNext]_storeVars PROVE StoreTypeOK'
  OBVIOUS
<1> USE DEF StoreTypeOK
<1>1. ASSUME NEW p \in Payloads, AppendEvent(p) PROVE StoreTypeOK'
  <2>1. <<p>> \in Seq(Payloads \union {Closed}) /\ Deliver(<<p>>)
    BY <1>1 DEF AppendEvent
  <2>2. put' \in [Streams -> Seq(Payloads \union {Closed})]
    BY <2>1, DeliverType
  <2>3. QED
    BY <1>1, <2>2 DEF AppendEvent, Touch
<1>2. ASSUME NEW p \in Payloads, AppendAndClose(p) PROVE StoreTypeOK'
  <2>1. <<p, Closed>> \in Seq(Payloads \union {Closed}) /\ Deliver(<<p, Closed>>)
    BY <1>2 DEF AppendAndClose
  <2>2. put' \in [Streams -> Seq(Payloads \union {Closed})]
    BY <2>1, DeliverType
  <2>3. QED
    BY <1>2, <2>2 DEF AppendAndClose, Touch
<1>3. CASE Close
  <2>1. <<Closed>> \in Seq(Payloads \union {Closed}) /\ Deliver(<<Closed>>)
    BY <1>3 DEF Close
  <2>2. put' \in [Streams -> Seq(Payloads \union {Closed})]
    BY <2>1, DeliverType
  <2>3. QED
    BY <1>3, <2>2 DEF Close
<1>4. CASE CancelRun
  <2>1. <<Closed>> \in Seq(Payloads \union {Closed}) /\ Deliver(<<Closed>>)
    BY <1>4 DEF CancelRun
  <2>2. put' \in [Streams -> Seq(Payloads \union {Closed})]
    BY <2>1, DeliverType
  <2>3. QED
    BY <1>4, <2>2 DEF CancelRun
<1>5. ASSUME NEW s \in Streams, Subscribe(s) PROVE StoreTypeOK'
  <2>1. events \in Seq(Payloads \union {Closed})
    OBVIOUS
  <2>2. QED BY <1>5, <2>1 DEF Subscribe
<1>6. ASSUME NEW s \in Streams, Take(s) PROVE StoreTypeOK'
  BY <1>6 DEF Take
<1>7. ASSUME NEW s \in Streams, Disconnect(s) PROVE StoreTypeOK'
  BY <1>7 DEF Disconnect
<1>8. CASE Restart
  <2>1. <<>> \in Seq(Payloads) /\ <<>> \in Seq(Payloads \union {Closed})
    OBVIOUS
  <2>2. QED BY <1>8, <2>1 DEF Restart
<1>9. CASE UNCHANGED storeVars
  BY <1>9 DEF storeVars
<1> QED
  BY <1>1, <1>2, <1>3, <1>4, <1>5, <1>6, <1>7, <1>8, <1>9 DEF StoreNext, StreamStep

-----------------------------------------------------------------------------
\* What delivering items does to the invariants: the history the items belong
\* to grows by the payloads among them.
LEMMA DeliverStep ==
    ASSUME StoreInv, StoreTypeOK',
           NEW items \in Seq(Payloads \union {Closed}), items # <<>>, Deliver(items),
           UNCHANGED <<streamPc, got>>,
           queueOf \in Streams => queueOf' = queueOf,
           queueOf \notin Streams => queueOf' \notin Streams,
           \/ events' = events /\ items = <<Closed>>
           \/ \E p \in Payloads : /\ events' = Append(events, p)
                                  /\ items \in {<<p>>, <<p, Closed>>}
    PROVE  StoreInv'
<1> USE DEF StoreInv
<1>1. /\ events \in Seq(Payloads) /\ events' \in Seq(Payloads)
      /\ put \in [Streams -> Seq(Payloads \union {Closed})]
      /\ put' \in [Streams -> Seq(Payloads \union {Closed})]
      /\ got \in [Streams -> Nat]
  BY DEF StoreTypeOK
<1>2. /\ Len(events') >= Len(events)
      /\ \A i \in 1..Len(events) : events'[i] = events[i]
  <2>1. CASE events' = events
    BY <1>1, <2>1
  <2>2. ASSUME NEW p \in Payloads, events' = Append(events, p)
        PROVE  /\ Len(events') >= Len(events)
               /\ \A i \in 1..Len(events) : events'[i] = events[i]
    BY <1>1, <2>2
  <2>3. QED BY <2>1, <2>2
<1>3. ASSUME NEW s \in Streams
      PROVE  /\ Len(put'[s]) >= Len(put[s])
             /\ \A i \in 1..Len(put[s]) : put'[s][i] = put[s][i]
  <2>1. put'[s] = put[s] \/ put'[s] = put[s] \o items
    BY DeliverType
  <2>2. CASE put'[s] = put[s]
    BY <1>1, <2>2
  <2>3. CASE put'[s] = put[s] \o items
    BY <1>1, <2>3
  <2>4. QED BY <2>1, <2>2, <2>3
<1>4. IdleInv'
  BY DEF IdleInv
<1>5. TakenInv'
  <2> SUFFICES ASSUME NEW s \in Streams
               PROVE  /\ got[s] <= Len(put'[s])
                      /\ \A i \in 1..got[s] :
                           put'[s][i] = Closed => i = got[s] /\ streamPc[s] = "ended"
    BY DEF TakenInv
  <2> QED
    BY <1>1, <1>3 DEF TakenInv
<1>6. PrefixInv'
  <2> SUFFICES ASSUME NEW s \in Streams, NEW i \in 1..Len(put'[s]),
                      \A j \in 1..i : put'[s][j] # Closed
               PROVE  i <= Len(events') /\ put'[s][i] = events'[i]
    BY DEF PrefixInv, Unbroken
  <2>1. CASE i \in 1..Len(put[s])
    <3>1. Unbroken(s, i)
      BY <1>1, <1>3, <2>1 DEF Unbroken
    <3>2. QED
      BY <1>1, <1>2, <1>3, <2>1, <3>1 DEF PrefixInv
  <2>2. CASE i \notin 1..Len(put[s])
    <3>1. s = queueOf
      BY <1>1, <2>2, DeliverType
    <3>2. put'[s] = put[s] \o items
      BY <3>1, DeliverType
    <3>3. put[s] = events
      BY <1>1, <1>3, <2>2, <3>1 DEF AttachedMissesNothing
    <3>4. put'[s][Len(put[s]) + 1] = items[1] /\ Len(put[s]) + 1 <= i
      BY <1>1, <2>2, <3>2
    <3>5. PICK p \in Payloads : /\ events' = Append(events, p)
                                /\ items \in {<<p>>, <<p, Closed>>}
      BY <1>1, <3>4
    <3>6. i = Len(put[s]) + 1
      <4>1. CASE items = <<p>>
        BY <1>1, <2>2, <3>2, <4>1
      <4>2. CASE items = <<p, Closed>>
        <5>1. Len(put'[s]) = Len(put[s]) + 2 /\ put'[s][Len(put[s]) + 2] = Closed
          BY <1>1, <3>2, <4>2
        <5>2. QED BY <1>1, <2>2, <5>1
      <4>3. QED BY <3>5, <4>1, <4>2
    <3>7. items[1] = p
      BY <3>5
    <3>8. QED
      BY <1>1, <3>3, <3>4, <3>5, <3>6, <3>7
  <2>3. QED BY <2>1, <2>2
<1>7. AttachedMissesNothing'
  <2> SUFFICES ASSUME queueOf \in Streams
               PROVE  \/ put'[queueOf] = events'
                      \/ \E i \in 1..Len(put'[queueOf]) : put'[queueOf][i] = Closed
    BY DEF AttachedMissesNothing
  <2>1. put'[queueOf] = put[queueOf] \o items
    BY DeliverType
  <2>2. CASE \E i \in 1..Len(put[queueOf]) : put[queueOf][i] = Closed
    <3>1. PICK i \in 1..Len(put[queueOf]) : put[queueOf][i] = Closed
      BY <2>2
    <3>2. Len(put'[queueOf]) >= Len(put[queueOf]) /\ put'[queueOf][i] = Closed
      BY <1>3, <3>1
    <3>3. i \in 1..Len(put'[queueOf])
      <4>1. Len(put[queueOf]) \in Nat /\ Len(put'[queueOf]) \in Nat
        BY <1>1
      <4>2. QED BY <3>2, <4>1
    <3>4. QED BY <3>2, <3>3
  <2>3. CASE put[queueOf] = events
    <3>1. ASSUME items = <<Closed>>
          PROVE  \E i \in 1..Len(put'[queueOf]) : put'[queueOf][i] = Closed
      <4>1. /\ Len(put'[queueOf]) = Len(put[queueOf]) + 1
            /\ put'[queueOf][Len(put[queueOf]) + 1] = Closed
        BY <1>1, <2>1, <3>1
      <4>2. QED BY <1>1, <4>1
    <3>2. ASSUME NEW p \in Payloads, events' = Append(events, p), items = <<p>>
          PROVE  put'[queueOf] = events'
      BY <1>1, <2>1, <2>3, <3>2
    <3>3. ASSUME NEW p \in Payloads, items = <<p, Closed>>
          PROVE  \E i \in 1..Len(put'[queueOf]) : put'[queueOf][i] = Closed
      <4>1. /\ Len(put'[queueOf]) = Len(put[queueOf]) + 2
            /\ put'[queueOf][Len(put[queueOf]) + 2] = Closed
        BY <1>1, <2>1, <3>3
      <4>2. Len(put[queueOf]) \in Nat
        BY <1>1
      <4>3. Len(put[queueOf]) + 2 \in 1..Len(put'[queueOf])
        BY <4>1, <4>2
      <4>4. QED BY <4>1, <4>3
    <3>4. QED BY <3>1, <3>2, <3>3
  <2>4. QED BY <2>2, <2>3 DEF AttachedMissesNothing
<1>8. QED
  BY <1>4, <1>5, <1>6, <1>7

-----------------------------------------------------------------------------
\* The inductive invariant of the store holds before the first event.
LEMMA StoreInvInit == StoreInit => StoreInv
<1> SUFFICES ASSUME StoreInit PROVE StoreInv
  OBVIOUS
<1>1. StoreTypeOK
  <2>1. <<>> \in Seq(Payloads) /\ <<>> \in Seq(Payloads \union {Closed})
    OBVIOUS
  <2>2. QED BY <2>1 DEF StoreInit, StoreTypeOK
<1>2. IdleInv /\ TakenInv /\ PrefixInv
  BY DEF StoreInit, IdleInv, TakenInv, PrefixInv
<1>3. AttachedMissesNothing
  BY StoreAssumption DEF StoreInit, AttachedMissesNothing
<1> QED BY <1>1, <1>2, <1>3 DEF StoreInv

\* The inductive invariant of the store is kept by every append, close,
\* subscription, delivery, disconnection and restart.
LEMMA StoreInvStep == StoreInv /\ [StoreNext]_storeVars => StoreInv'
<1> SUFFICES ASSUME StoreInv, [StoreNext]_storeVars PROVE StoreInv'
  OBVIOUS
<1>1. StoreTypeOK /\ StoreTypeOK'
  BY StoreTypingStep DEF StoreInv
<1>2. ASSUME NEW p \in Payloads, AppendEvent(p) PROVE StoreInv'
  <2>1. <<p>> \in Seq(Payloads \union {Closed}) /\ <<p>> # <<>>
    OBVIOUS
  <2>2. /\ Deliver(<<p>>) /\ events' = Append(events, p)
        /\ UNCHANGED <<streamPc, got>>
        /\ queueOf \in Streams => queueOf' = queueOf
        /\ queueOf \notin Streams => queueOf' \notin Streams
    BY <1>2, StoreAssumption DEF AppendEvent, Touch
  <2>3. QED BY <1>1, <2>1, <2>2, DeliverStep
<1>3. ASSUME NEW p \in Payloads, AppendAndClose(p) PROVE StoreInv'
  <2>1. <<p, Closed>> \in Seq(Payloads \union {Closed}) /\ <<p, Closed>> # <<>>
    OBVIOUS
  <2>2. /\ Deliver(<<p, Closed>>) /\ events' = Append(events, p)
        /\ UNCHANGED <<streamPc, got>>
        /\ queueOf \in Streams => queueOf' = queueOf
        /\ queueOf \notin Streams => queueOf' \notin Streams
    BY <1>3, StoreAssumption DEF AppendAndClose, Touch
  <2>3. QED BY <1>1, <2>1, <2>2, DeliverStep
<1>4. CASE Close \/ CancelRun
  <2>1. <<Closed>> \in Seq(Payloads \union {Closed}) /\ <<Closed>> # <<>>
    OBVIOUS
  <2>2. /\ Deliver(<<Closed>>) /\ events' = events
        /\ UNCHANGED <<streamPc, got>>
        /\ queueOf' = queueOf
    BY <1>4 DEF Close, CancelRun
  <2>3. QED BY <1>1, <2>1, <2>2, DeliverStep
<1>5. ASSUME NEW s \in Streams, Subscribe(s) PROVE StoreInv'
  <2> USE <1>1, <1>5 DEF StoreTypeOK, Subscribe
  <2>1. IdleInv' /\ got[s] = 0
    BY DEF StoreInv, IdleInv
  <2>2. put'[s] = events /\ \A t \in Streams \ {s} : put'[t] = put[t]
    OBVIOUS
  <2>3. TakenInv'
    <3> SUFFICES ASSUME NEW t \in Streams
                 PROVE  /\ got[t] <= Len(put'[t])
                        /\ \A i \in 1..got[t] :
                             put'[t][i] = Closed => i = got[t] /\ streamPc'[t] = "ended"
      BY DEF TakenInv
    <3>1. CASE t = s
      BY <2>1, <2>2, <3>1
    <3>2. CASE t # s
      BY <2>2, <3>2 DEF StoreInv, TakenInv
    <3>3. QED BY <3>1, <3>2
  <2>4. PrefixInv'
    BY <2>2 DEF StoreInv, PrefixInv, Unbroken
  <2>5. AttachedMissesNothing'
    BY <2>2 DEF AttachedMissesNothing
  <2>6. QED BY <2>1, <2>3, <2>4, <2>5 DEF StoreInv
<1>6. ASSUME NEW s \in Streams, Take(s) PROVE StoreInv'
  <2> USE <1>1, <1>6 DEF StoreTypeOK, Take
  <2>1. IdleInv'
    BY DEF StoreInv, IdleInv
  <2>2. TakenInv'
    <3> SUFFICES ASSUME NEW t \in Streams
                 PROVE  /\ got'[t] <= Len(put[t])
                        /\ \A i \in 1..got'[t] :
                             put[t][i] = Closed => i = got'[t] /\ streamPc'[t] = "ended"
      BY DEF TakenInv
    <3>1. CASE t = s
      <4>1. got'[s] = got[s] + 1 /\ got[s] + 1 <= Len(put[s])
        OBVIOUS
      <4>2. \A i \in 1..got[s] : put[s][i] # Closed
        BY DEF StoreInv, TakenInv
      <4>3. put[s][got[s] + 1] = Closed => streamPc'[s] = "ended"
        OBVIOUS
      <4>4. QED BY <3>1, <4>1, <4>2, <4>3
    <3>2. CASE t # s
      BY <3>2 DEF StoreInv, TakenInv
    <3>3. QED BY <3>1, <3>2
  <2>3. PrefixInv' /\ AttachedMissesNothing'
    BY DEF StoreInv, PrefixInv, Unbroken, AttachedMissesNothing
  <2>4. QED BY <2>1, <2>2, <2>3 DEF StoreInv
<1>7. ASSUME NEW s \in Streams, Disconnect(s) PROVE StoreInv'
  <2> USE <1>1, <1>7 DEF StoreTypeOK, Disconnect
  <2>1. IdleInv' /\ TakenInv'
    BY DEF StoreInv, IdleInv, TakenInv
  <2>2. PrefixInv' /\ AttachedMissesNothing'
    BY DEF StoreInv, PrefixInv, Unbroken, AttachedMissesNothing
  <2>3. QED BY <2>1, <2>2 DEF StoreInv
<1>8. CASE Restart
  <2>1. IdleInv' /\ TakenInv' /\ PrefixInv'
    BY <1>8 DEF Restart, IdleInv, TakenInv, PrefixInv
  <2>2. AttachedMissesNothing'
    BY <1>8, StoreAssumption DEF Restart, AttachedMissesNothing
  <2>3. QED BY <1>1, <2>1, <2>2 DEF StoreInv
<1>9. CASE UNCHANGED storeVars
  BY <1>1, <1>9 DEF storeVars, StoreInv, IdleInv, TakenInv, PrefixInv, Unbroken,
                    AttachedMissesNothing
<1> QED
  BY <1>2, <1>3, <1>4, <1>5, <1>6, <1>7, <1>8, <1>9 DEF StoreNext, StreamStep

\* The inductive invariant holds throughout every behaviour of the store.
LEMMA StoreInvHolds == StoreSpec => []StoreInv
  BY StoreInvInit, StoreInvStep, PTL DEF StoreSpec

-----------------------------------------------------------------------------
\* Whatever order the worker, the requests, disconnections and restarts come
\* in, the store's state is well formed.
THEOREM StoreTyping == StoreSpec => []StoreTypeOK
<1>1. StoreInv => StoreTypeOK
  BY DEF StoreInv
<1> QED BY <1>1, StoreInvHolds, PTL

\* Every client of every stream is sent a prefix of the run's history.
THEOREM HistoryTheorem == StoreSpec => []ClientsSeeHistory
<1>1. StoreInv => ClientsSeeHistory
  <2> SUFFICES ASSUME StoreInv, NEW s \in Streams, NEW i \in 1..got[s]
               PROVE  \/ i <= Len(events) /\ put[s][i] = events[i]
                      \/ i = got[s] /\ put[s][i] = Closed /\ streamPc[s] = "ended"
    BY DEF ClientsSeeHistory
  <2>1. i \in 1..Len(put[s]) /\ got[s] \in Nat
    BY DEF StoreInv, TakenInv, StoreTypeOK
  <2>2. CASE put[s][i] = Closed
    BY <2>2 DEF StoreInv, TakenInv
  <2>3. CASE put[s][i] # Closed
    <3>1. \A j \in 1..i : put[s][j] # Closed
      BY <2>1, <2>3 DEF StoreInv, TakenInv
    <3>2. QED BY <2>1, <3>1 DEF StoreInv, PrefixInv, Unbroken
  <2>4. QED BY <2>2, <2>3
<1> QED BY <1>1, StoreInvHolds, PTL

\* The current queue of the run holds the whole history until it is closed.
THEOREM AttachedTheorem == StoreSpec => []AttachedMissesNothing
<1>1. StoreInv => AttachedMissesNothing
  BY DEF StoreInv
<1> QED BY <1>1, StoreInvHolds, PTL

\* No step takes back or reorders an item of a queue that is being served.
THEOREM QueuesTheorem == StoreSpec => QueuesOnlyGrow
<1> DEFINE Grows == \A s \in Streams :
        streamPc[s] # "idle" /\ streamPc'[s] # "gone"
            => put[s] = SubSeq(put'[s], 1, Len(put[s]))
<1>1. StoreTypeOK /\ [StoreNext]_storeVars => [Grows]_storeVars
  <2> SUFFICES ASSUME StoreTypeOK, StoreNext,
                      NEW s \in Streams, streamPc[s] # "idle", streamPc'[s] # "gone"
               PROVE  put[s] = SubSeq(put'[s], 1, Len(put[s]))
    OBVIOUS
  <2>1. put[s] \in Seq(Payloads \union {Closed})
    BY DEF StoreTypeOK
  <2>2. ASSUME NEW items \in Seq(Payloads \union {Closed}), Deliver(items)
        PROVE  put[s] = SubSeq(put'[s], 1, Len(put[s]))
    <3>1. put'[s] = put[s] \/ put'[s] = put[s] \o items
      BY <2>2, DeliverType
    <3>2. QED BY <2>1, <3>1, SubSeqFull, SubSeqOfConcat1
  <2>3. CASE put'[s] = put[s]
    BY <2>1, <2>3, SubSeqFull
  <2>4. ASSUME NEW p \in Payloads, AppendEvent(p) \/ AppendAndClose(p)
        PROVE  put[s] = SubSeq(put'[s], 1, Len(put[s]))
    <3>1. /\ <<p>> \in Seq(Payloads \union {Closed})
          /\ <<p, Closed>> \in Seq(Payloads \union {Closed})
      OBVIOUS
    <3>2. Deliver(<<p>>) \/ Deliver(<<p, Closed>>)
      BY <2>4 DEF AppendEvent, AppendAndClose
    <3>3. QED BY <2>2, <3>1, <3>2
  <2>5. CASE Close \/ CancelRun
    <3>1. <<Closed>> \in Seq(Payloads \union {Closed}) /\ Deliver(<<Closed>>)
      BY <2>5 DEF Close, CancelRun
    <3>2. QED BY <2>2, <3>1
  <2>6. ASSUME NEW t \in Streams, Subscribe(t) \/ Take(t) \/ Disconnect(t)
        PROVE  put'[s] = put[s]
    BY <2>6 DEF Subscribe, Take, Disconnect, StoreTypeOK
  <2>7. ~Restart
    BY DEF Restart
  <2> QED BY <2>3, <2>4, <2>5, <2>6, <2>7 DEF StoreNext, StreamStep
<1>2. QED
  BY <1>1, StoreTyping, PTL DEF StoreSpec, QueuesOnlyGrow


-----------------------------------------------------------------------------
(* The run that writes into it.                                            *)

\* The worker's copy of the row agrees with how far the worker is; a row that
\* its worker left normally is settled.
WorkerInv ==
    /\ row = NoRow <=> workerPc = "none"
    /\ workerPc = "none" => \A c \in Requests : requestPc[c] = "idle"
    /\ workerPc \in {"marked", "graph"} => mem = "RUNNING"
    /\ workerPc = "audit" => mem = "SUCCEEDED"
    /\ workerPc = "commit" => mem \in {"SUCCEEDED", "FAILED"}
    /\ workerPc = "done" => row \in Terminal

RunTypeOK ==
    /\ celery \in BOOLEAN
    /\ row \in Status \union {NoRow}
    /\ mem \in Status \union {NoRow}
    /\ workerPc \in WorkerPcs
    /\ retries \in 0..MaxRetries
    /\ requestPc \in [Requests -> {"idle", "seen", "flagged", "refused",
                                   "committed", "aborted"}]

RunInv == RunTypeOK /\ WorkerInv

-----------------------------------------------------------------------------
\* The store changes only by its own operations.
LEMMA StepIsStoreStep == [Next]_vars => [StoreNext]_storeVars
<1> SUFFICES ASSUME [Next]_vars PROVE [StoreNext]_storeVars
  OBVIOUS
<1> USE RunAssumption DEF RunPayloads
<1>1. CASE Create \/ Enqueue \/ LoseDispatch \/ WorkerCrash
  BY <1>1 DEF Create, Enqueue, LoseDispatch, WorkerCrash
<1>2. CASE WorkerStep
  BY <1>2 DEF WorkerStep, Load, MarkRunning, HonourCancel, EnterGraph, Succeed, AuditOk,
              Commit, OnStore, StoreNext
<1>3. CASE EmitStage
  BY <1>3 DEF EmitStage, StoreNext
<1>4. CASE WorkerFault
  BY <1>4 DEF WorkerFault, SetupFails, GraphFails, AuditFails, DatabaseFails, CommitFails,
              OnStore, StoreNext
<1>5. ASSUME NEW c \in Requests, CancelStep(c) PROVE [StoreNext]_storeVars
  BY <1>5 DEF CancelStep, CancelSees, CancelRefused, CancelFlags, CancelCommits,
              CancelAborts, StoreNext
<1>6. CASE StreamRun
  BY <1>6 DEF StreamRun, StoreNext
<1>7. CASE ApiCrash
  BY <1>7 DEF ApiCrash, StoreNext
<1>8. CASE UNCHANGED vars
  BY <1>8 DEF vars
<1> QED
  BY <1>1, <1>2, <1>3, <1>4, <1>5, <1>6, <1>7, <1>8 DEF Next

\* The run changes the store by its operations only, so every theorem on the
\* store holds of it.
LEMMA StoreRefinement == Spec => StoreSpec
<1>1. Init => StoreInit
  BY DEF Init
<1> QED
  BY <1>1, StepIsStoreStep, PTL DEF Spec, StoreSpec

-----------------------------------------------------------------------------
\* The inductive invariant of the run holds before a run is created.
LEMMA RunInvInit == Init => RunInv
  BY RunAssumption DEF Init, RunInv, RunTypeOK, WorkerInv, Status, Active, Terminal, WorkerPcs

\* Every step of the worker, of a cancel request, of a stream and of a crash
\* keeps the inductive invariant of the run.
LEMMA RunInvStep == RunInv /\ [Next]_vars => RunInv'
<1> SUFFICES ASSUME RunInv, [Next]_vars PROVE RunInv'
  OBVIOUS
<1> USE RunAssumption DEF RunInv, RunTypeOK, WorkerInv, Status, Active, Terminal, WorkerPcs
<1>1. CASE Create
  BY <1>1 DEF Create
<1>2. CASE Enqueue \/ LoseDispatch
  BY <1>2 DEF Enqueue, LoseDispatch
<1>3. CASE Load
  BY <1>3 DEF Load
<1>4. CASE MarkRunning
  BY <1>4 DEF MarkRunning
<1>5. CASE HonourCancel \/ EnterGraph
  BY <1>5 DEF HonourCancel, EnterGraph
<1>6. CASE Succeed \/ AuditOk
  BY <1>6 DEF Succeed, AuditOk
<1>7. CASE Commit
  BY <1>7 DEF Commit
<1>8. CASE EmitStage
  BY <1>8 DEF EmitStage, runVars
<1>9. CASE SetupFails \/ DatabaseFails \/ CommitFails
  BY <1>9 DEF SetupFails, DatabaseFails, CommitFails, Escape
<1>10. CASE GraphFails \/ AuditFails
  BY <1>10 DEF GraphFails, AuditFails
<1>11. ASSUME NEW c \in Requests, CancelStep(c) PROVE RunInv'
  <2>0. workerPc # "none"
    BY <1>11 DEF CancelStep, CancelSees, CancelRefused, CancelFlags, CancelCommits,
                 CancelAborts
  <2>1. CASE CancelSees(c) \/ CancelRefused(c) \/ CancelFlags(c) \/ CancelAborts(c)
    BY <2>0, <2>1 DEF CancelSees, CancelRefused, CancelFlags, CancelAborts
  <2>2. CASE CancelCommits(c)
    <3>1. requestPc' \in [Requests -> {"idle", "seen", "flagged", "refused",
                                       "committed", "aborted"}]
      BY <2>2 DEF CancelCommits
    <3>2. QED BY <2>0, <2>2, <3>1 DEF CancelCommits
  <2>3. QED BY <1>11, <2>1, <2>2 DEF CancelStep
<1>12. CASE StreamRun
  BY <1>12 DEF StreamRun, runVars
<1>13. CASE WorkerCrash \/ ApiCrash
  BY <1>13 DEF WorkerCrash, ApiCrash
<1>14. CASE UNCHANGED vars
  BY <1>14 DEF vars, runVars
<1> QED
  BY <1>1, <1>2, <1>3, <1>4, <1>5, <1>6, <1>7, <1>8, <1>9, <1>10, <1>11, <1>12, <1>13, <1>14
     DEF Next, WorkerStep, WorkerFault

\* The inductive invariant holds throughout every behaviour of the run.
LEMMA RunInvHolds == Spec => []RunInv
  BY RunInvInit, RunInvStep, PTL DEF Spec

\* The state of the run is well formed, its store's included.
THEOREM RunTyping == Spec => []TypeOK
<1>1. RunInv /\ StoreTypeOK => TypeOK
  BY DEF RunInv, RunTypeOK, TypeOK
<1>2. Spec => StoreSpec
  BY StoreRefinement
<1> QED BY <1>1, <1>2, RunInvHolds, StoreTyping, PTL

\* No path through the worker's handlers returns with the row unsettled.
THEOREM NormalReturnTheorem == Spec => []NormalReturnSettles
<1>1. RunInv => NormalReturnSettles
  BY DEF RunInv, WorkerInv, NormalReturnSettles
<1> QED BY <1>1, RunInvHolds, PTL

\* Every client of the run's streams is sent a prefix of what the worker
\* emitted, whatever cancels, retries and crashes do.
THEOREM RunHistoryTheorem == Spec => []ClientsSeeHistory
<1>1. Spec => StoreSpec
  BY StoreRefinement
<1> QED BY <1>1, HistoryTheorem, PTL

-----------------------------------------------------------------------------
\* Each step of the run is a step of RunLifecycle or changes nothing of it.
LEMMA LifeStep == RunInv /\ [Next]_vars => [Life!LifeNext]_(Life!lifeVars)
<1> SUFFICES ASSUME RunInv, [Next]_vars
             PROVE  \/ Life!LifeNext
                    \/ row' = row /\ Work' = Work /\ Asked' = Asked
  BY DEF Life!lifeVars
<1> USE RunAssumption DEF Work, Asked
<1>0. ASSUME UNCHANGED requestPc PROVE Asked' = Asked
  BY <1>0
<1>1. CASE Create
  BY <1>1 DEF Create, Life!Create, Life!LifeNext
<1>2. CASE Enqueue \/ Load \/ EnterGraph \/ EmitStage \/ Succeed \/ AuditOk
             \/ GraphFails \/ AuditFails \/ StreamRun
  BY <1>2 DEF Enqueue, Load, EnterGraph, EmitStage, Succeed, AuditOk, GraphFails,
              AuditFails, StreamRun, runVars
<1>3. CASE MarkRunning
  BY <1>3 DEF MarkRunning, Life!Start, Life!LifeNext
<1>4. CASE HonourCancel \/ Commit
  <2>1. row' \in Terminal
    BY <1>4 DEF HonourCancel, Commit, RunInv, WorkerInv, Terminal
  <2>2. Life!Finish
    BY <1>4, <2>1 DEF HonourCancel, Commit, Life!Finish, Life!Terminal, Terminal
  <2>3. QED BY <2>2 DEF Life!LifeNext
<1>5. CASE LoseDispatch \/ SetupFails \/ DatabaseFails \/ CommitFails \/ WorkerCrash
  <2>1. Life!Abandon
    BY <1>5 DEF LoseDispatch, SetupFails, DatabaseFails, CommitFails, WorkerCrash, Escape,
                Life!Abandon
  <2>2. QED BY <2>1 DEF Life!LifeNext
<1>6. ASSUME NEW c \in Requests, CancelStep(c)
      PROVE  \/ Life!LifeNext
             \/ row' = row /\ Work' = Work /\ Asked' = Asked
  <2> USE DEF RunInv, RunTypeOK
  <2>1. CASE CancelSees(c)
    <3>1. Life!Ask(c)
      BY <2>1 DEF CancelSees, Life!Ask, Life!Active, Active
    <3>2. QED BY <3>1 DEF Life!LifeNext
  <2>2. CASE CancelRefused(c) \/ CancelFlags(c)
    BY <2>2 DEF CancelRefused, CancelFlags
  <2>3. CASE CancelCommits(c)
    <3>1. Asked' = Asked \ {c} /\ c \in Asked
      BY <2>3 DEF CancelCommits
    <3>2. Life!Apply(c)
      BY <2>3, <3>1 DEF CancelCommits, Life!Apply
    <3>3. QED BY <3>2 DEF Life!LifeNext
  <2>4. CASE CancelAborts(c)
    <3>1. Asked' = Asked \ {c} /\ {c} \in SUBSET Asked
      BY <2>4 DEF CancelAborts
    <3>2. Life!Drop
      BY <2>4, <3>1 DEF CancelAborts, Life!Drop
    <3>3. QED BY <3>2 DEF Life!LifeNext
  <2>5. QED BY <1>6, <2>1, <2>2, <2>3, <2>4 DEF CancelStep
<1>7. CASE ApiCrash
  <2>1. Asked' = Asked \ Asked
    BY <1>7 DEF ApiCrash
  <2>2. Work' \in {Work, IF Work = "none" THEN "none" ELSE "over"}
    BY <1>7 DEF ApiCrash, RunInv, RunTypeOK, WorkerPcs
  <2>3. Life!Drop
    BY <1>7, <2>1, <2>2 DEF ApiCrash, Life!Drop
  <2>4. QED BY <2>3 DEF Life!LifeNext
<1>8. CASE UNCHANGED vars
  BY <1>8 DEF vars, runVars
<1> QED
  BY <1>1, <1>2, <1>3, <1>4, <1>5, <1>6, <1>7, <1>8 DEF Next, WorkerStep, WorkerFault

\* The run implements the lifecycle a caller of the API may rely on.
THEOREM LifecycleRefinement == Spec => ImplementsLifecycle
<1>1. Init => Life!LifeInit
  BY DEF Init, Life!LifeInit, Work, Asked
<1> QED
  BY <1>1, LifeStep, RunInvHolds, PTL DEF Spec, ImplementsLifecycle, Life!LifeSpec

\* When the worker has stopped and no cancel request is open, the status that
\* callers read never changes again.
THEOREM SettledTheorem == Spec => SettledIsFinal
<1>1. Life!LifeNext => (Work = "over" /\ Asked = {} => row' = row)
  BY DEF Life!LifeNext, Life!Create, Life!Start, Life!Finish, Life!Abandon, Life!Drop,
         Life!Ask, Life!Apply
<1>2. [Life!LifeNext]_(Life!lifeVars)
        => [Work = "over" /\ Asked = {} => row' = row]_(Life!lifeVars)
  BY <1>1
<1> QED
  BY <1>2, LifecycleRefinement, PTL
     DEF ImplementsLifecycle, SettledIsFinal, Life!LifeSpec, Life!SettledIsFinal

-----------------------------------------------------------------------------
\* What was announced and what is stored: a worker in the API process is not
\* tried again, so it announces nothing before the graph, its last event is its
\* copy's status from the graph on, and the row gets that from Commit only.
AnnounceInv ==
    /\ Shared => retries = 0
    /\ ~Shared => events = <<>>
    /\ workerPc \in {"none", "created", "queued", "loaded", "marked"} => events = <<>>
    /\ Shared /\ workerPc \in {"audit", "commit"} =>
           events # <<>> /\ events[Len(events)] = mem
    /\ Shared /\ row \in {"SUCCEEDED", "FAILED"} => workerPc = "done"
    /\ \A c \in Requests : requestPc[c] = "flagged" => cancelled
    /\ LastAnnouncementHolds

\* An event appended is the last one.
LEMMA AppendedIsLast ==
    ASSUME events \in Seq(Payloads), NEW p \in Payloads, events' = Append(events, p)
    PROVE  events' # <<>> /\ events'[Len(events')] = p
<1>1. Len(events') = Len(events) + 1 /\ Len(events) \in Nat
  OBVIOUS
<1> QED BY <1>1

LEMMA AnnounceInvStep == RunInv /\ StoreTypeOK /\ AnnounceInv /\ [Next]_vars => AnnounceInv'
<1> SUFFICES ASSUME RunInv, StoreTypeOK, AnnounceInv, [Next]_vars PROVE AnnounceInv'
  OBVIOUS
<1>0. /\ RunTypeOK /\ WorkerInv /\ events \in Seq(Payloads)
      /\ {"stage", "SUCCEEDED", "FAILED"} = Payloads
  BY RunAssumption DEF RunInv, StoreTypeOK, RunPayloads
<1> USE <1>0 DEF AnnounceInv, Shared, LastAnnouncementHolds
<1>1. CASE Create \/ Enqueue \/ LoseDispatch \/ Load \/ EnterGraph \/ MarkRunning
  BY <1>1 DEF Create, Enqueue, LoseDispatch, Load, EnterGraph, MarkRunning, storeVars,
              RunTypeOK
<1>2. CASE HonourCancel
  BY <1>2 DEF HonourCancel, Close
<1>3. CASE EmitStage
  BY <1>3 DEF EmitStage, AppendEvent, runVars
<1>4. CASE Succeed
  <2>1. CASE Shared
    <3>1. events' # <<>> /\ events'[Len(events')] = "SUCCEEDED"
      BY <1>4, <2>1, AppendedIsLast DEF Succeed, OnStore, AppendEvent
    <3> QED BY <1>4, <2>1, <3>1 DEF Succeed, OnStore, AppendEvent
  <2>2. CASE ~Shared
    BY <1>4, <2>2 DEF Succeed, OnStore, storeVars
  <2> QED BY <2>1, <2>2
<1>5. CASE GraphFails \/ AuditFails
  <2>1. CASE Shared
    <3>1. events' # <<>> /\ events'[Len(events')] = "FAILED"
      BY <1>5, <2>1, AppendedIsLast DEF GraphFails, AuditFails, OnStore, AppendAndClose
    <3> QED BY <1>5, <2>1, <3>1 DEF GraphFails, AuditFails, OnStore, AppendAndClose
  <2>2. CASE ~Shared
    BY <1>5, <2>2 DEF GraphFails, AuditFails, OnStore, storeVars
  <2> QED BY <2>1, <2>2
<1>6. CASE AuditOk
  BY <1>6 DEF AuditOk, OnStore, Close, storeVars
<1>7. CASE Commit
  BY <1>7 DEF Commit, storeVars
<1>8. CASE SetupFails \/ DatabaseFails \/ CommitFails
  <2>1. UNCHANGED <<events, cancelled, row, mem, requestPc, celery>>
    BY <1>8 DEF SetupFails, DatabaseFails, CommitFails, OnStore, Close, storeVars
  <2>2. CASE Shared
    <3>1. workerPc' = "gone" /\ retries' = 0 /\ workerPc # "done"
      BY <1>8, <2>2 DEF SetupFails, DatabaseFails, CommitFails, Escape
    <3> QED BY <2>1, <2>2, <3>1
  <2>3. CASE ~Shared
    BY <1>8, <2>1, <2>3 DEF SetupFails, DatabaseFails, CommitFails, Escape
  <2> QED BY <2>2, <2>3
<1>9. ASSUME NEW c \in Requests, CancelStep(c) PROVE AnnounceInv'
  <2>0. workerPc' = workerPc /\ UNCHANGED <<events, mem, retries, celery>>
    BY <1>9 DEF CancelStep, CancelSees, CancelRefused, CancelFlags, CancelCommits,
                CancelAborts, CancelRun, storeVars
  <2> USE DEF RunTypeOK
  <2>1. CASE CancelSees(c) \/ CancelRefused(c) \/ CancelAborts(c)
    BY <2>0, <2>1 DEF CancelSees, CancelRefused, CancelAborts, storeVars
  <2>2. CASE CancelFlags(c)
    BY <2>0, <2>2 DEF CancelFlags, CancelRun
  <2>3. CASE CancelCommits(c)
    BY <2>0, <2>3 DEF CancelCommits, storeVars
  <2> QED BY <1>9, <2>1, <2>2, <2>3 DEF CancelStep
<1>10. CASE StreamRun
  BY <1>10 DEF StreamRun, StreamStep, Subscribe, Take, Disconnect, runVars
<1>11. CASE WorkerCrash
  BY <1>11 DEF WorkerCrash, storeVars
<1>12. CASE ApiCrash
  BY <1>12 DEF ApiCrash, Restart, RunTypeOK
<1>13. CASE UNCHANGED vars
  BY <1>13 DEF vars, storeVars, runVars
<1> QED
  BY <1>1, <1>2, <1>3, <1>4, <1>5, <1>6, <1>7, <1>8, <1>9, <1>10, <1>11, <1>12, <1>13
     DEF Next, WorkerStep, WorkerFault

LEMMA AnnounceInvHolds == Spec => []AnnounceInv
<1>1. Init => AnnounceInv
  BY RunAssumption DEF Init, StoreInit, AnnounceInv, Shared, LastAnnouncementHolds, Status,
                       Active, Terminal
<1>2. Spec => []StoreTypeOK
  <2>1. Spec => StoreSpec
    BY StoreRefinement
  <2> QED BY <2>1, StoreTyping, PTL
<1> QED
  BY <1>1, <1>2, AnnounceInvStep, RunInvHolds, PTL DEF Spec

\* What a run announces last is what its worker committed, and only a cancel
\* request that was flagged writes over that.
THEOREM LastAnnouncementTheorem == Spec => []LastAnnouncementHolds
<1>1. AnnounceInv => LastAnnouncementHolds
  BY DEF AnnounceInv
<1> QED BY <1>1, AnnounceInvHolds, PTL

\* No caller reads an outcome that no client was told.
THEOREM AnnouncedTheorem == Spec => []RowIsAnnounced
<1>1. AnnounceInv /\ StoreTypeOK => RowIsAnnounced
  <2> SUFFICES ASSUME AnnounceInv, StoreTypeOK, Shared, events # <<>>,
                      row \in {"SUCCEEDED", "FAILED"}
               PROVE  \E i \in 1..Len(events) : events[i] = row
    BY DEF RowIsAnnounced
  <2>1. events[Len(events)] = row
    BY DEF AnnounceInv, LastAnnouncementHolds
  <2>2. Len(events) \in 1..Len(events)
    BY DEF StoreTypeOK
  <2> QED BY <2>1, <2>2
<1>2. Spec => []StoreTypeOK
  <2>1. Spec => StoreSpec
    BY StoreRefinement
  <2> QED BY <2>1, StoreTyping, PTL
<1> QED BY <1>1, <1>2, AnnounceInvHolds, PTL

=============================================================================
