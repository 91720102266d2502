---------------------------- MODULE Orchestrator ----------------------------
(***************************************************************************)
(* Orchestrator.run (orchestrator.py): one task per worker, a semaphore,   *)
(* an optional deadline per worker, a callback told of every change of     *)
(* status, and a report once all are over.  All tasks share one event      *)
(* loop, so what happens between two awaits is one step.                   *)
(*                                                                         *)
(* Abstractions: asyncio's semaphore serves its waiters in order; here it  *)
(* wakes any of them, since no property depends on the order.  A callback  *)
(* that raises is only logged, so it is not told apart.                    *)
(***************************************************************************)
EXTENDS Naturals, FiniteSets, Sequences

CONSTANTS
  Workers,
  Limits     \* the concurrency arguments

ASSUME WorkersAssumption == IsFiniteSet(Workers)
ASSUME LimitsAssumption == Limits \subseteq Nat \ {0}  \* __init__ refuses 0

VARIABLES
  concurrency,
  timed,       \* workers with a timeout
  phase,
  free,        \* value of the semaphore
  woken,       \* queued workers whose turn has come
  expired,     \* workers their own deadline has cancelled
  cancelled,   \* the caller has cancelled run()
  status,      \* worker -> status of its WorkerResult
  told,        \* worker -> statuses the callback got
  run,
  report

params == <<concurrency, timed>>
workerVars == <<phase, free, woken, expired, status, told>>
vars == <<params, workerVars, cancelled, run, report>>

Terminal == {"SUCCEEDED", "FAILED", "TIMED_OUT"}
In(phases) == {w \in Workers : phase[w] \in phases}
Ended(s) == {w \in Workers : status[w] = s}

\* Cancelling run() cancels every task that is not over.
Hit(w) == cancelled /\ phase[w] # "over"

TypeOK ==
  /\ concurrency \in Nat \ {0}
  /\ timed \subseteq Workers
  /\ phase \in [Workers -> {"new", "queued", "running", "over"}]
  /\ free \in Nat
  /\ woken \subseteq In({"queued"})
  /\ expired \subseteq timed
  /\ cancelled \in BOOLEAN
  /\ status \in [Workers -> Terminal \cup {"none", "cancelled"}]
  /\ \A w \in Workers : status[w] = "none" <=> phase[w] # "over"
  /\ told \in [Workers -> Seq({"PENDING", "RUNNING"} \cup Terminal)]
  /\ run \in {"waiting", "reported", "raised"}
  /\ run = "waiting" => report = "none"
  \* A slot is free, granted or in use.
  /\ free + Cardinality(woken) + Cardinality(In({"running"})) = concurrency

Init ==
  /\ concurrency \in Limits
  /\ timed \in SUBSET Workers
  /\ phase = [w \in Workers |-> "new"]
  /\ free = concurrency
  /\ woken = {}
  /\ expired = {}
  /\ cancelled = FALSE
  /\ status = [w \in Workers |-> "none"]
  /\ told = [w \in Workers |-> <<>>]
  /\ run = "waiting"
  /\ report = "none"

-----------------------------------------------------------------------------
(* The semaphore.  slots are at hand; at most most of the waiters who have *)
(* not had their turn get theirs.                                          *)

Wake(slots, most, waiters, others) ==
  \E lucky \in SUBSET waiters :
    /\ Cardinality(lucky) <= slots
    /\ Cardinality(lucky) <= most
    /\ Cardinality(lucky) = Cardinality(waiters)
         \/ Cardinality(lucky) = slots \/ Cardinality(lucky) = most
    /\ free' = slots - Cardinality(lucky)
    /\ woken' = others \cup lucky

\* Waiters that a release can still wake.
Idle == {w \in In({"queued"}) \ woken : ~Hit(w)}

Tell(w, new) == told' = [told EXCEPT ![w] = @ \o new]

\* A worker's task starts and is told PENDING; with a slot free and nobody
\* ahead it runs at once, otherwise it waits.
Begin(w) ==
  /\ phase[w] = "new" /\ ~Hit(w)
  /\ \/ /\ free > 0 /\ In({"queued"}) = {}
        /\ phase' = [phase EXCEPT ![w] = "running"]
        /\ free' = free - 1
        /\ Tell(w, <<"PENDING", "RUNNING">>)
     \/ /\ free = 0 \/ In({"queued"}) # {}
        /\ phase' = [phase EXCEPT ![w] = "queued"]
        /\ Tell(w, <<"PENDING">>)
        /\ UNCHANGED free
  /\ UNCHANGED <<params, woken, expired, cancelled, status, run, report>>

\* Its turn has come: it runs, and slots still free go to those behind it.
ResumeMutant(w) ==
  /\ w \in woken /\ ~Hit(w)
  /\ phase' = [phase EXCEPT ![w] = "running"]
  /\ Wake(free + 1, Cardinality(Idle), Idle, woken \ {w})
  /\ Tell(w, <<"RUNNING">>)
  /\ UNCHANGED <<params, expired, cancelled, status, run, report>>

Resume(w) ==
  /\ w \in woken /\ ~Hit(w)
  /\ phase' = [phase EXCEPT ![w] = "running"]
  /\ Wake(free, Cardinality(Idle), Idle, woken \ {w})
  /\ Tell(w, <<"RUNNING">>)
  /\ UNCHANGED <<params, expired, cancelled, status, run, report>>

\* wait_for's deadline passes and cancels what the worker awaits.
Expire(w) ==
  /\ phase[w] = "running" /\ w \in timed \ expired
  /\ expired' = expired \cup {w}
  /\ UNCHANGED <<params, phase, free, woken, cancelled, status, told, run, report>>

-----------------------------------------------------------------------------
(* How a worker ends.  The slot is given back by "async with".             *)

\* What _execute_worker makes of the way the worker's function ends.  A
\* function may swallow a cancellation and still return, or raise another
\* error while it cleans up; one that raises TimeoutError when called, before
\* there is a coroutine, is taken for one that ran into its deadline.
Verdicts(w) ==
  {"SUCCEEDED", "FAILED"}
    \cup (IF Hit(w) THEN {"cancelled"}
          ELSE IF w \in expired THEN {"TIMED_OUT"} ELSE {"TIMED_OUT", "cancelled"})

EndMutant(w, s) ==
  /\ phase[w] = "running" /\ s \in Verdicts(w)
  /\ phase' = [phase EXCEPT ![w] = "over"]
  /\ status' = [status EXCEPT ![w] = s]
  /\ Tell(w, IF s = "cancelled" THEN <<>> ELSE <<s>>)
  /\ IF s = "TIMED_OUT" THEN UNCHANGED <<free, woken>>
                        ELSE Wake(free + 1, 1, Idle, woken)
  /\ UNCHANGED <<params, expired, cancelled, run, report>>

ToldTwiceMutant(w, s) ==
  /\ phase[w] = "running" /\ s \in Verdicts(w)
  /\ phase' = [phase EXCEPT ![w] = "over"]
  /\ status' = [status EXCEPT ![w] = s]
  /\ Tell(w, IF w \in expired THEN <<"TIMED_OUT", s>> ELSE <<s>>)
  /\ Wake(free + 1, 1, Idle, woken)
  /\ UNCHANGED <<params, expired, cancelled, run, report>>

End(w, s) ==
  /\ phase[w] = "running" /\ s \in Verdicts(w)
  /\ phase' = [phase EXCEPT ![w] = "over"]
  /\ status' = [status EXCEPT ![w] = s]
  /\ Tell(w, IF s = "cancelled" THEN <<>> ELSE <<s>>)
  /\ Wake(free + 1, 1, Idle, woken)
  /\ UNCHANGED <<params, expired, cancelled, run, report>>

\* A cancelled task that has not got to run ends; a slot it had been granted
\* goes back.
Leave(w) ==
  /\ Hit(w) /\ phase[w] \in {"new", "queued"}
  /\ phase' = [phase EXCEPT ![w] = "over"]
  /\ status' = [status EXCEPT ![w] = "cancelled"]
  /\ free' = IF w \in woken THEN free + 1 ELSE free
  /\ woken' = woken \ {w}
  /\ UNCHANGED <<params, expired, cancelled, told, run, report>>

CancelRun ==
  /\ run = "waiting" /\ ~cancelled
  /\ cancelled' = TRUE
  /\ UNCHANGED <<params, workerVars, run, report>>

-----------------------------------------------------------------------------
(* gather(return_exceptions=False) and the report.                         *)

Tally ==
  [total |-> Cardinality(Workers),
   succeeded |-> Cardinality(Ended("SUCCEEDED")),
   failed |-> Cardinality(Ended("FAILED")),
   timed_out |-> Cardinality(Ended("TIMED_OUT"))]

\* A task that ended cancelled ends run(), whatever the others do: they go on.
Raise ==
  /\ run = "waiting"
  /\ Ended("cancelled") # {} \/ (cancelled /\ In({"over"}) = Workers)
  /\ run' = "raised"
  /\ UNCHANGED <<params, workerVars, cancelled, report>>

Report ==
  /\ run = "waiting" /\ ~cancelled
  /\ In({"over"}) = Workers /\ Ended("cancelled") = {}
  /\ run' = "reported"
  /\ report' = Tally
  /\ UNCHANGED <<params, workerVars, cancelled>>

Loop == (\E w \in Workers : Begin(w) \/ Resume(w) \/ Leave(w)) \/ Raise \/ Report

Next ==
  \/ Loop
  \/ \E w \in Workers : Expire(w) \/ \E s \in Terminal \cup {"cancelled"} : End(w, s)
  \/ CancelRun

Spec == Init /\ [][Next]_vars

\* The event loop goes on, deadlines pass, and a function ends at some time
\* after its deadline has cancelled it; others may run for ever.
FairSpec ==
  /\ Spec
  /\ WF_vars(Loop)
  /\ \A w \in Workers :
       /\ WF_vars(Expire(w))
       /\ WF_vars(w \in expired /\ \E s \in Terminal \cup {"cancelled"} : End(w, s))

-----------------------------------------------------------------------------
\* The callback hears PENDING, RUNNING and then the status of the result, each
\* once and in this order, however the worker ends; of a task that ended
\* cancelled it hears no end (orchestrator.py:134-136).
StatusesInOrder ==
  \A w \in Workers :
    \/ phase[w] = "new" /\ told[w] = <<>>
    \/ phase[w] = "queued" /\ told[w] = <<"PENDING">>
    \/ phase[w] = "running" /\ told[w] = <<"PENDING", "RUNNING">>
    \/ status[w] \in Terminal /\ told[w] = <<"PENDING", "RUNNING", status[w]>>
    \/ status[w] = "cancelled"
         /\ told[w] \in {<<>>, <<"PENDING">>, <<"PENDING", "RUNNING">>}

\* While a worker waits that a release could wake, every slot is in use or
\* granted, or a granted worker is about to run and hands on what is left: no
\* end, deadline or cancellation leaves a slot free behind it with a worker
\* asleep (orchestrator.py:186).
NoIdleSlot ==
  Idle # {} =>
    \/ Cardinality(woken) + Cardinality(In({"running"})) = concurrency
    \/ \E w \in woken : ~Hit(w)

\* The workers are a pool with the concurrency limit: whatever order slots are
\* granted, cancelled and returned in, no more than concurrency of them run.
Pool == INSTANCE BoundedPool WITH
  Jobs <- Workers, limit <- concurrency,
  waiting <- In({"new", "queued"}), working <- In({"running"}), over <- In({"over"})
ImplementsPool == Pool!Spec

\* If every worker has a deadline, run() comes back: no end of a worker leaks
\* the slot another one waits for.
DeadlinesEndTheRun == (timed = Workers) ~> (run # "waiting")

=============================================================================
