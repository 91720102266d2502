----------------------------- MODULE Supervisor -----------------------------
(***************************************************************************)
(* The process supervisor of wh-core (supervisor.rs): run() calls in one   *)
(* process that share a semaphore.  A run waits for a permit, checks the   *)
(* branch of the repository, spawns a child in a process group of its own, *)
(* waits for it and for the pipes its descendants may hold, kills the      *)
(* group when its deadline passes or its future is dropped, and gives the  *)
(* permit back.  Unix semantics: SIGKILL to the group ends all of it.      *)
(*                                                                         *)
(* A deadline is a flag that becomes true at some time after it is set;    *)
(* of a command only the branch it expects is kept.                        *)
(***************************************************************************)
EXTENDS Naturals, FiniteSets, Sequences

CONSTANTS
  Runs,      \* calls of run()
  Limits,    \* the max_parallel arguments (Supervisor::new makes 0 a 1)
  Branches,
  None       \* a command that needs no branch check

ASSUME RunsAssumption == IsFiniteSet(Runs)
ASSUME LimitsAssumption == Limits \subseteq Nat

\* Members of a child's group: the child, a descendant that inherited its
\* stdout, one that redirected it.
Group == {"child", "loud", "quiet"}

VARIABLES
  max,      \* permits of the semaphore
  queue,    \* waiters of the semaphore, first in first out
  pc,
  timed,    \* run has a timeout
  expects,  \* run -> expected_branch
  due,      \* its current deadline has passed
  members,  \* run -> processes alive in its group
  cut,      \* a process that wrote to the run's pipes was killed by it
  result,   \* what run() returned
  active,   \* the counter ActiveGuard keeps
  peak,     \* its high-water mark
  head      \* branch checked out in the repository

vars == <<max, queue, pc, timed, expects, due, members, cut, result,
          active, peak, head>>
params == <<max, timed, expects>>
counters == <<active, peak>>

Waiting == {"new", "queued"}
Counted == {"armed", "running", "draining", "killing", "returned"}
Holding == Counted \cup {"granted", "verify", "release"}
Results == {"none", "ended", "timed_out", "error", "cancelled"}

In(states) == {r \in Runs : pc[r] \in states}

TypeOK ==
  /\ max \in Nat \ {0}
  /\ queue \in Seq(Runs)
  /\ \A r \in Runs : pc[r] = "queued" <=> \E i \in DOMAIN queue : queue[i] = r
  /\ pc \in [Runs -> Waiting \cup Holding \cup {"done"}]
  /\ timed \in [Runs -> BOOLEAN]
  /\ expects \in [Runs -> Branches \cup {None}]
  /\ due \in [Runs -> BOOLEAN]
  /\ members \in [Runs -> SUBSET Group]
  /\ cut \in [Runs -> BOOLEAN]
  /\ result \in [Runs -> Results]
  /\ active \in Nat
  /\ peak \in Nat
  /\ head \in Branches

Init ==
  /\ max \in {IF n = 0 THEN 1 ELSE n : n \in Limits}
  /\ queue = <<>>
  /\ pc = [r \in Runs |-> "new"]
  /\ timed \in [Runs -> BOOLEAN]
  /\ expects \in [Runs -> Branches \cup {None}]
  /\ due = [r \in Runs |-> FALSE]
  /\ members = [r \in Runs |-> {}]
  /\ cut = [r \in Runs |-> FALSE]
  /\ result = [r \in Runs |-> "none"]
  /\ active = 0
  /\ peak = 0
  /\ head \in Branches

Goto(r, from, to) == pc[r] = from /\ pc' = [pc EXCEPT ![r] = to]

Answer(r, value) == result' = [result EXCEPT ![r] = value]

\* kill_process_group
KillGroup(r) ==
  /\ members' = [members EXCEPT ![r] = {}]
  /\ cut' = [cut EXCEPT ![r] = @ \/ members[r] \cap {"child", "loud"} # {}]

Dequeue(r) == queue' = SelectSeq(queue, LAMBDA q : q # r)

-----------------------------------------------------------------------------
(* run(): the permit.  An operator named ...Mutant is the action below it   *)
(* with a mistake the code could contain; no specification uses it.        *)

\* prepare_supervised_command has accepted the command; the clock starts and
\* the run lines up for a permit.
Enqueue(r) ==
  /\ Goto(r, "new", "queued")
  /\ queue' = Append(queue, r)
  /\ UNCHANGED <<params, due, members, cut, result, counters, head>>

AcquireMutant(r) ==     \* no permit is needed
  /\ Goto(r, "queued", "granted")
  /\ Dequeue(r)
  /\ UNCHANGED <<params, due, members, cut, result, counters, head>>

\* The semaphore serves its first waiter.
Acquire(r) ==
  /\ Goto(r, "queued", "granted")
  /\ r = Head(queue)
  /\ Cardinality(In(Holding)) < max
  /\ queue' = Tail(queue)
  /\ UNCHANGED <<params, due, members, cut, result, counters, head>>

\* The timeout around acquire() fires first.
QueueTimeout(r) ==
  /\ Goto(r, "queued", "done")
  /\ due[r]
  /\ Dequeue(r)
  /\ Answer(r, "timed_out")
  /\ UNCHANGED <<params, due, members, cut, counters, head>>

\* The permit came, but no time is left.
Lapse(r) ==
  /\ Goto(r, "granted", "release")
  /\ due[r]
  /\ Answer(r, "timed_out")
  /\ UNCHANGED <<params, queue, due, members, cut, counters, head>>

\* Some time is left, and it is measured now.
Proceed(r) ==
  /\ Goto(r, "granted", "verify")
  /\ ~due[r]
  /\ UNCHANGED <<params, queue, due, members, cut, result, counters, head>>

VerifyMutant(r) ==     \* the branch is not looked at
  /\ Goto(r, "verify", "armed")
  /\ active' = active + 1
  /\ peak' = IF active' > peak THEN active' ELSE peak
  /\ UNCHANGED <<params, queue, due, members, cut, result, head>>

\* verify_repo_branch, then ActiveGuard::arm; a mismatch is an error.
Verify(r) ==
  \/ /\ Goto(r, "verify", "armed")
     /\ expects[r] \in {None, head}
     /\ active' = active + 1
     /\ peak' = IF active' > peak THEN active' ELSE peak
     /\ UNCHANGED <<params, queue, due, members, cut, result, head>>
  \/ /\ Goto(r, "verify", "release")
     /\ expects[r] \notin {None, head}
     /\ Answer(r, "error")
     /\ UNCHANGED <<params, queue, due, members, cut, counters, head>>

-----------------------------------------------------------------------------
(* run_with_permit *)

\* The deadline of the child starts here, with the time that was left.
Spawn(r) ==
  /\ Goto(r, "armed", "running")
  /\ members' = [members EXCEPT ![r] = {"child"}]
  /\ due' = [due EXCEPT ![r] = FALSE]
  /\ UNCHANGED <<params, queue, cut, result, counters, head>>

SpawnFail(r) ==
  /\ Goto(r, "armed", "returned")
  /\ Answer(r, "error")
  /\ UNCHANGED <<params, queue, due, members, cut, counters, head>>

\* The deadline branch of the biased select: child.kill() ends the group.
TimeoutFires(r) ==
  /\ Goto(r, "running", "killing")
  /\ due[r]
  /\ KillGroup(r)
  /\ UNCHANGED <<params, queue, due, result, counters, head>>

\* timeout_output: the child is reaped, the readers finish or are given up.
PostKill(r) ==
  /\ Goto(r, "killing", "returned")
  /\ Answer(r, "timed_out")
  /\ UNCHANGED <<params, queue, due, members, cut, counters, head>>

\* child.wait() returns and no deadline has passed.
WaitReturns(r) ==
  /\ Goto(r, "running", "draining")
  /\ "child" \notin members[r]
  /\ ~due[r]
  /\ UNCHANGED <<params, queue, due, members, cut, result, counters, head>>

DrainDoneMutant(r) ==     \* dropping the child leaves its group alone
  /\ Goto(r, "draining", "returned")
  /\ "loud" \notin members[r]
  /\ ~due[r]
  /\ Answer(r, "ended")
  /\ UNCHANGED <<params, queue, due, members, cut, counters, head>>

\* Nobody holds the pipes any more: both readers saw the end, and dropping
\* the child kills what is left of its group.
DrainDone(r) ==
  /\ Goto(r, "draining", "returned")
  /\ "loud" \notin members[r]
  /\ ~due[r]
  /\ Answer(r, "ended")
  /\ KillGroup(r)
  /\ UNCHANGED <<params, queue, due, counters, head>>

DrainTimeoutMutant(r) ==     \* the readers are waited for without a deadline
  /\ Goto(r, "draining", "returned")
  /\ due[r]
  /\ "loud" \notin members[r]
  /\ Answer(r, "timed_out")
  /\ KillGroup(r)
  /\ UNCHANGED <<params, queue, due, counters, head>>

\* drain_pipes_until: a descendant holds a pipe when the deadline passes.
DrainTimeout(r) ==
  /\ Goto(r, "draining", "returned")
  /\ due[r]
  /\ Answer(r, "timed_out")
  /\ KillGroup(r)
  /\ UNCHANGED <<params, queue, due, counters, head>>

\* child.wait() itself fails; the child is dropped.
WaitFail(r) ==
  /\ Goto(r, "running", "returned")
  /\ ~due[r]
  /\ Answer(r, "error")
  /\ KillGroup(r)
  /\ UNCHANGED <<params, queue, due, counters, head>>

\* guard.defuse() ...
Defuse(r) ==
  /\ Goto(r, "returned", "release")
  /\ active' = active - 1
  /\ UNCHANGED <<params, queue, due, members, cut, result, peak, head>>

\* ... and the permit is dropped.
Release(r) ==
  /\ Goto(r, "release", "done")
  /\ UNCHANGED <<params, queue, due, members, cut, result, counters, head>>

CancelMutant(r) ==     \* the counter is not restored when a run is dropped
  /\ Goto(r, "running", "release")
  /\ Answer(r, "cancelled")
  /\ KillGroup(r)
  /\ UNCHANGED <<params, queue, due, counters, head>>

\* The caller drops the future of run() at an await.  Its locals are dropped
\* in reverse order: the child (its group is killed), the guard, the permit.
Cancel(r) ==
  \/ /\ Goto(r, "queued", "done")
     /\ Dequeue(r)
     /\ Answer(r, "cancelled")
     /\ UNCHANGED <<params, due, members, cut, counters, head>>
  \/ /\ \/ Goto(r, "granted", "release")
        \/ \E from \in {"running", "draining", "killing"} : Goto(r, from, "returned")
     /\ Answer(r, "cancelled")
     /\ KillGroup(r)
     /\ UNCHANGED <<params, queue, due, counters, head>>

-----------------------------------------------------------------------------
(* The clock and the processes of a group *)

DeadlinePasses(r) ==
  /\ timed[r] /\ ~due[r]
  /\ pc[r] \in {"queued", "granted", "running", "draining"}
  /\ due' = [due EXCEPT ![r] = TRUE]
  /\ UNCHANGED <<params, queue, pc, members, cut, result, counters, head>>

Fork(r, kind) ==
  /\ "child" \in members[r]
  /\ members' = [members EXCEPT ![r] = @ \cup {kind}]
  /\ UNCHANGED <<params, queue, pc, due, cut, result, counters, head>>

Exit(r, member) ==
  /\ member \in members[r]
  /\ members' = [members EXCEPT ![r] = @ \ {member}]
  /\ UNCHANGED <<params, queue, pc, due, cut, result, counters, head>>

\* A supervised process checks out a branch.
Checkout(r, b) ==
  /\ members[r] # {}
  /\ head' = b
  /\ UNCHANGED <<params, queue, pc, due, members, cut, result, counters>>

\* What the supervisor does by itself.
Step(r) ==
  \/ Acquire(r) \/ QueueTimeout(r) \/ Lapse(r) \/ Proceed(r) \/ Verify(r)
  \/ Spawn(r) \/ SpawnFail(r) \/ TimeoutFires(r) \/ PostKill(r)
  \/ WaitReturns(r) \/ WaitFail(r) \/ DrainDone(r) \/ DrainTimeout(r)
  \/ Defuse(r) \/ Release(r)

Next ==
  \E r \in Runs :
    \/ Enqueue(r) \/ Step(r) \/ Cancel(r) \/ DeadlinePasses(r)
    \/ \E kind \in {"loud", "quiet"} : Fork(r, kind)
    \/ \E member \in Group : Exit(r, member)
    \/ \E b \in Branches : Checkout(r, b)

Spec == Init /\ [][Next]_vars

\* The runtime polls what is ready and time passes.  Nothing is assumed of
\* the supervised processes: they may never exit.
FairSpec ==
  Spec /\ \A r \in Runs : WF_vars(Step(r)) /\ WF_vars(DeadlinePasses(r))

-----------------------------------------------------------------------------
(* Properties *)

\* No more groups have a living process than max_parallel, at any moment:
\* a permit returns only after its group is dead, however the run ended
\* (supervisor.rs:3-8).
GroupsBounded == Cardinality({r \in Runs : members[r] # {}}) <= max

\* Descendants never outlive their run, whether it ended by itself, timed
\* out, failed or was dropped (supervisor.rs:12-14).
NothingOutlives == \A r \in Runs : pc[r] \notin Counted => members[r] = {}

\* The accounting survives cancellation: active counts exactly the runs
\* between arm and defuse, and the high-water mark never exceeds max
\* (supervisor.rs:120-150).
AccountingHolds ==
  /\ active = Cardinality(In(Counted))
  /\ peak <= max

\* With one permit the branch a command was verified on is the branch it
\* starts on, if only supervised commands change it: the check comes after
\* the queue and no earlier command is left that could switch
\* (supervisor.rs:246-249).
StartsOnBranch ==
  [][max = 1 =>
       \A r \in Runs : members[r] = {} /\ members'[r] # {} =>
         expects[r] \in {None, head}]_vars

\* The output of a run that is reported as ended is complete: nothing that
\* wrote to its pipes was killed, neither the child nor a descendant that
\* inherited them (supervisor.rs:775-776).
CompleteOutput == \A r \in Runs : result[r] = "ended" => ~cut[r]

\* The wall-clock timeout covers the queue, the child and the draining of its
\* pipes: a run with a timeout comes to an end even if no supervised process
\* ever exits (supervisor.rs:199, 775-776).
TimedRunEnds ==
  \A r \in Runs : timed[r] => (pc[r] = "queued" ~> pc[r] = "done")

-----------------------------------------------------------------------------

\* Seen from outside it is a pool: a job works while it holds a permit.
Pool == INSTANCE BoundedPool WITH
  Jobs <- Runs, limit <- max,
  waiting <- In(Waiting), working <- In(Holding), over <- In({"done"})

ImplementsPool == Pool!Spec

=============================================================================
