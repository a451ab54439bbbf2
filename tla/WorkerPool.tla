------------------------------ MODULE WorkerPool ------------------------------
(***************************************************************************)
(* The requests of ModelStore on a bounded pool of worker threads.  Every  *)
(* handler and the dependency get_model_service are plain functions, which *)
(* FastAPI hands to a thread of the pool one after the other; the answer   *)
(* of a handler is validated, or streamed, by a thread as well.  So a      *)
(* request visits the pool up to three times and queues for each visit,    *)
(* and a fit that waits for the lock of its series keeps its thread.       *)
(*                                                                         *)
(* The pool is external to the code (anyio's CapacityLimiter: a fixed      *)
(* number of tokens, first come first served); what a handler does on its  *)
(* thread is ModelStore.                                                   *)
(***************************************************************************)
EXTENDS ModelStore, FiniteSets

CONSTANT Workers  \* the threads of the pool, 40 unless configured otherwise

ASSUME WorkersAssumption == Workers \in Nat \ {0}

VARIABLES
  sent,   \* request -> the descriptor its client sent
  visit,  \* request -> what it needs a thread for, or has one for
  queue   \* the requests that wait for a thread, in order of arrival

pvars == <<sent, visit, queue>>

-----------------------------------------------------------------------------
(* Shared definitions *)

Over == {"delivered", "lost"}
Visits == {"away", "dependency", "handler", "response"} \cup Over

\* The requests whose handler occupies a thread.
Busy == {r \in Requests : pc[r] \notin Ended \cup {"idle"}}

-----------------------------------------------------------------------------
(* Bugs this code could have.  They are no part of the specification: each *)
(* stands in for the definition its comment names.                         *)

\* Yield, answering without a thread for the response model.
YieldAtOnce(r, waiting) ==
  /\ visit' = [visit EXCEPT ![r] = IF pc'[r] = "done" THEN "response" ELSE "handler"]
  /\ queue' = waiting
  /\ UNCHANGED sent

-----------------------------------------------------------------------------
(* The visits of a request *)

PInit ==
  /\ Init
  /\ sent = [r \in Requests |-> CHOOSE m \in Menu : TRUE]
  /\ visit = [r \in Requests |-> "away"]
  /\ queue = <<>>

Arrive(r) ==
  /\ visit[r] = "away"
  /\ \E q \in Menu : sent' = [sent EXCEPT ![r] = q]
  /\ visit' = [visit EXCEPT ![r] = "dependency"]
  /\ queue' = Append(queue, r)
  /\ UNCHANGED vars

\* A thread is free and r is the next to get one.
Turn(r) ==
  /\ Cardinality(Busy) < Workers
  /\ queue # <<>>
  /\ r = Head(queue)

\* get_model_service touches no shared state: its visit is one step, after
\* which the request queues again for its handler.
Depend(r) ==
  /\ Turn(r)
  /\ visit[r] = "dependency"
  /\ visit' = [visit EXCEPT ![r] = "handler"]
  /\ queue' = Append(Tail(queue), r)
  /\ UNCHANGED <<vars, sent>>

\* What a step of the handler of r means for the pool, with waiting as the
\* queue it leaves: only an answer 200 needs a thread again, an exception is
\* turned into an answer by the event loop.
Yield(r, waiting) ==
  LET again == pc'[r] = "done" /\ status'[r] = 200 IN
    /\ visit' = [visit EXCEPT ![r] = IF again THEN "response"
                                     ELSE IF pc'[r] = "done" THEN "delivered"
                                     ELSE "handler"]
    /\ queue' = IF again THEN Append(waiting, r) ELSE waiting
    /\ UNCHANGED sent

Begin(r) ==
  /\ Turn(r)
  /\ visit[r] = "handler"
  /\ Submit(r)
  /\ req'[r] = sent[r]
  /\ Yield(r, Tail(queue))

Work(r) == Step(r) /\ Yield(r, queue)

Fail(r) == WriteFault(r) /\ Yield(r, queue)

\* The answer is validated against the response model on one thread.  A plot is
\* streamed: it takes a thread for each chunk of the image, one after another,
\* which are one visit here, for nothing happens between them but queueing.
Respond(r) ==
  /\ Turn(r)
  /\ visit[r] = "response"
  /\ visit' = [visit EXCEPT ![r] = "delivered"]
  /\ queue' = Tail(queue)
  /\ UNCHANGED <<vars, sent>>

PoolRestart ==
  /\ Restart
  /\ visit' = [r \in Requests |->
                 IF visit[r] \in {"away", "delivered"} THEN visit[r] ELSE "lost"]
  /\ queue' = <<>>
  /\ UNCHANGED sent

PoolDone ==
  /\ \A r \in Requests : visit[r] \in Over
  /\ UNCHANGED <<vars, pvars>>

Serve(r) == Depend(r) \/ Begin(r) \/ Respond(r)

PNext ==
  \/ \E r \in Requests : Arrive(r) \/ Serve(r) \/ Work(r) \/ Fail(r)
  \/ PoolRestart
  \/ PoolDone

PSpec == PInit /\ [][PNext]_<<vars, pvars>>

\* The limiter serves whoever is next, and the operating system runs the
\* threads of the reads.  Of a fit nothing is assumed: it may take for ever.
PoolFairness ==
  /\ WF_<<vars, pvars>>(\E r \in Requests : Serve(r))
  /\ \A r \in Requests : WF_<<vars, pvars>>(req[r].op # "fit" /\ Work(r))

FairPool == PSpec /\ PoolFairness

-----------------------------------------------------------------------------
(* Properties *)

\* The requests that need a thread and have none.
Waiting ==
  {r \in Requests : \/ visit[r] \in {"dependency", "response"}
                    \/ visit[r] = "handler" /\ pc[r] = "idle"}

\* Type invariant: a request that needs a thread queues for it exactly once, a
\* handler that runs has one and works on what its client sent, and the pool is
\* never larger than it is.
PoolInv ==
  /\ sent \in [Requests -> Menu]
  /\ visit \in [Requests -> Visits]
  /\ queue \in Seq(Requests)
  /\ Range(queue) = Waiting
  /\ IsInjective(queue)
  /\ \A r \in Busy : visit[r] = "handler" /\ req[r] = sent[r]
  /\ \A r \in Requests :
       /\ visit[r] \in {"away", "dependency"} => pc[r] = "idle"
       /\ visit[r] \in {"response", "delivered"} => pc[r] = "done"
  /\ IsFiniteSet(Busy) /\ Cardinality(Busy) <= Workers

\* A full pool is never stuck: however many fits wait on their threads for the
\* lock of a series, whoever keeps them waiting has a thread too, so that one
\* of the threads can go on.
PoolAlive ==
  Cardinality(Busy) >= Workers =>
    \E r \in Busy : pc[r] = "acquire" => lock[req[r].series] = NoOne

SentFits == {r \in Requests : visit[r] # "away" /\ sent[r].op = "fit"}

\* Reads take no lock: as long as fewer fits have been sent than there are
\* threads, every read is answered (or lost in a restart), even if the fits
\* hang with the locks they hold.
ReadsOutlastFits ==
  \A r \in Requests :
    visit[r] # "away" /\ sent[r].op # "fit"
      ~> visit[r] \in Over \/ Cardinality(SentFits) >= Workers

\* If the threads of the fits run as well, every request that arrived is
\* answered or lost in a restart, however small the pool: neither waiting for
\* locks on threads nor queueing three times starves anybody.
EveryArrivalEnds ==
  (\A r \in Requests : WF_<<vars, pvars>>(Work(r)))
    => \A r \in Requests : visit[r] # "away" ~> visit[r] \in Over

-----------------------------------------------------------------------------
(* What the documentation claims and the code does not do *)

\* ARCHITECTURE.md, section 2: "Training of different `series_id` values is
\* fully parallel".  A fit that queues for a thread is not held up by a thread
\* that does nothing but wait for the lock of another series.
SeriesTrainInParallel ==
  \A r \in Waiting, q \in Busy :
    /\ visit[r] = "handler"
    /\ sent[r].op = "fit"
    /\ Cardinality(Busy) >= Workers
    /\ pc[q] = "acquire"
    => lock[req[q].series] = NoOne \/ req[q].series = sent[r].series
=============================================================================
