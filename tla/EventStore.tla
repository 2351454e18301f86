----------------------------- MODULE EventStore -----------------------------
(***************************************************************************)
(* The in-memory event buffer of ONE investigation run                     *)
(* (backend/app/agents/events.py) and the SSE generators that read it      *)
(* (stream_run in backend/app/api/v1/routes/agent_runs.py).                *)
(*                                                                         *)
(* The store keys everything by run_id and nothing crosses runs, so one    *)
(* run stands for all of them.  Every method is free of suspension points  *)
(* (put on an unbounded asyncio.Queue never waits), hence one action each. *)
(*                                                                         *)
(* An asyncio.Queue is the sequence of all the items ever put in it, with  *)
(* the number of items its reader has taken.                               *)
(***************************************************************************)
EXTENDS Naturals, Sequences

CONSTANTS Streams,   \* the GET /agent-runs/{id}/stream requests
          Payloads,  \* the events a worker can append
          Closed,    \* the None that ends a stream
          NoQueue,   \* _queues holds no queue for the run
          Unread     \* the queue the defaultdict made: no request reads it

ASSUME StoreAssumption ==
    /\ Closed \notin Payloads
    /\ NoQueue \notin Streams
    /\ Unread \notin Streams
    /\ NoQueue # Unread

VARIABLES events,     \* _events[run_id]
          queueOf,    \* whose queue _queues[run_id] is
          cancelled,  \* run_id \in _cancelled
          streamPc,   \* where each request's event_generator is
          put,        \* every item put in the request's queue
          got         \* how many of them its generator has taken

storeVars == <<events, queueOf, cancelled, streamPc, put, got>>

StoreTypeOK ==
    /\ events \in Seq(Payloads)
    /\ queueOf \in Streams \union {NoQueue, Unread}
    /\ cancelled \in BOOLEAN
    /\ streamPc \in [Streams -> {"idle", "open", "ended", "gone"}]
    /\ put \in [Streams -> Seq(Payloads \union {Closed})]
    /\ got \in [Streams -> Nat]

StoreInit ==
    /\ events = <<>>
    /\ queueOf = NoQueue
    /\ cancelled = FALSE
    /\ streamPc = [s \in Streams |-> "idle"]
    /\ put = [s \in Streams |-> <<>>]
    /\ got = [s \in Streams |-> 0]

-----------------------------------------------------------------------------
(* What the worker and the cancel endpoint call.                           *)

\* Mutant of Deliver: what is delivered replaces what the queue held.
DeliverFresh(items) ==
    put' = IF queueOf \in Streams THEN [put EXCEPT ![queueOf] = items] ELSE put

\* put_nowait on the queue that _queues names; the Unread queue's content
\* reaches nobody and is not kept.
Deliver(items) ==
    put' = IF queueOf \in Streams
           THEN [put EXCEPT ![queueOf] = @ \o items]
           ELSE put

\* Looking a missing run up in the defaultdict creates its queue.
Touch == queueOf' = IF queueOf = NoQueue THEN Unread ELSE queueOf

AppendEvent(p) ==
    /\ events' = Append(events, p)
    /\ Touch
    /\ Deliver(<<p>>)
    /\ UNCHANGED <<cancelled, streamPc, got>>

Close ==
    /\ Deliver(<<Closed>>)
    /\ UNCHANGED <<events, queueOf, cancelled, streamPc, got>>

\* The worker's last append and its close, with no await in between.
AppendAndClose(p) ==
    /\ events' = Append(events, p)
    /\ Touch
    /\ Deliver(<<p, Closed>>)
    /\ UNCHANGED <<cancelled, streamPc, got>>

CancelRun ==
    /\ cancelled' = TRUE
    /\ Deliver(<<Closed>>)
    /\ UNCHANGED <<events, queueOf, streamPc, got>>

-----------------------------------------------------------------------------
(* The event generator of a stream request.                                *)

\* Mutant of Subscribe: the history is not replayed.
SubscribeEmpty(s) ==
    /\ streamPc[s] = "idle"
    /\ streamPc' = [streamPc EXCEPT ![s] = "open"]
    /\ queueOf' = s
    /\ UNCHANGED <<events, cancelled, put, got>>

\* A new queue, loaded with the history, replaces the one _queues held:
\* the request that read that one gets nothing more.
Subscribe(s) ==
    /\ streamPc[s] = "idle"
    /\ streamPc' = [streamPc EXCEPT ![s] = "open"]
    /\ queueOf' = s
    /\ put' = [put EXCEPT ![s] = events]
    /\ UNCHANGED <<events, cancelled, got>>

\* Mutant of Take: the sentinel is sent on like an event.
TakeForever(s) ==
    /\ streamPc[s] = "open"
    /\ got[s] < Len(put[s])
    /\ got' = [got EXCEPT ![s] = @ + 1]
    /\ UNCHANGED <<events, queueOf, cancelled, streamPc, put>>

Take(s) ==
    /\ streamPc[s] = "open"
    /\ got[s] < Len(put[s])
    /\ got' = [got EXCEPT ![s] = @ + 1]
    /\ streamPc' = [streamPc EXCEPT
                      ![s] = IF put[s][got[s] + 1] = Closed THEN "ended" ELSE @]
    /\ UNCHANGED <<events, queueOf, cancelled, put>>

\* The client goes away; its queue stays the run's queue.
Disconnect(s) ==
    /\ streamPc[s] = "open"
    /\ streamPc' = [streamPc EXCEPT ![s] = "gone"]
    /\ UNCHANGED <<events, queueOf, cancelled, put, got>>

\* The API process dies: its memory and its connections are lost.  A request
\* it was serving, or had served, is gone with its queue.
Restart ==
    /\ events' = <<>>
    /\ queueOf' = NoQueue
    /\ cancelled' = FALSE
    /\ streamPc' = [s \in Streams |-> IF streamPc[s] = "idle" THEN "idle" ELSE "gone"]
    /\ put' = [s \in Streams |-> <<>>]
    /\ got' = [s \in Streams |-> 0]

StreamStep == \E s \in Streams : Subscribe(s) \/ Take(s) \/ Disconnect(s)

-----------------------------------------------------------------------------
(* The store under any client: whatever order the worker and the requests  *)
(* call it in.  InvestigationRun implements this specification.            *)

StoreNext ==
    \/ \E p \in Payloads : AppendEvent(p) \/ AppendAndClose(p)
    \/ Close
    \/ CancelRun
    \/ StreamStep
    \/ Restart

StoreSpec == StoreInit /\ [][StoreNext]_storeVars

-----------------------------------------------------------------------------
(* Properties.                                                             *)

\* What an event_generator has sent its client is a prefix of the run's
\* history, in order, without a gap or a repeat, whenever it subscribed and
\* whoever replaced its queue since; only its last item can be the sentinel.
ClientsSeeHistory ==
    \A s \in Streams : \A i \in 1..got[s] :
        \/ i <= Len(events) /\ put[s][i] = events[i]
        \/ i = got[s] /\ put[s][i] = Closed /\ streamPc[s] = "ended"

\* The queue _queues names misses no event: until a sentinel is put in it,
\* the items put in it are the whole history (subscribe replays the past and
\* append adds the present, with nothing lost between the two).
AttachedMissesNothing ==
    queueOf \in Streams
        => \/ put[queueOf] = events
           \/ \E i \in 1..Len(put[queueOf]) : put[queueOf][i] = Closed

\* Items already put in a request's queue are never withdrawn or reordered
\* while the request is served.
QueuesOnlyGrow ==
    [][\A s \in Streams :
        streamPc[s] # "idle" /\ streamPc'[s] # "gone"
            => put[s] = SubSeq(put'[s], 1, Len(put[s]))]_storeVars

\* A stream whose queue holds a sentinel ends, unless its client leaves or
\* the process dies first.
ClosedStreamEnds ==
    \A s \in Streams :
        streamPc[s] = "open" /\ (\E i \in 1..Len(put[s]) : put[s][i] = Closed)
            ~> streamPc[s] # "open"

=============================================================================
