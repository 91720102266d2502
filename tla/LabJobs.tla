------------------------------ MODULE LabJobs ------------------------------
(***************************************************************************)
(* Lab hypothesis jobs: LabJobStore and LabJobManager of lab_jobs.py, run  *)
(* by several processes at once.  The processes share two things: the JSON *)
(* registry (one record per job id, every access under the file lock, so   *)
(* every store operation below is one step) and the directory of worktrees *)
(* that `wh worktree create|remove` changes.  allocate and teardown are    *)
(* sequences of such steps; nothing holds the lock between two of them.    *)
(*                                                                         *)
(* A job id determines the worktree path (derive_path with a fixed owner   *)
(* and repo), so the tree at a path is recorded under the job id.  Of a    *)
(* record the model keeps the status and who made it (agent_id): the other *)
(* fields are copied along with them.                                      *)
(*                                                                         *)
(* wh may fail, be killed by the bridge or answer with something else than *)
(* was asked, an operation of the store may raise (lock, read or write),   *)
(* and a process may die at any place.  A PolicyError, which would pass by *)
(* the handlers, is no answer of `wh worktree`.                            *)
(***************************************************************************)
EXTENDS Naturals

CONSTANTS
  Procs,        \* processes calling LabJobManager (the agent_id of their jobs)
  JobIds,       \* job ids
  None,         \* no process or no job id: nothing there
  MaxTimeouts   \* how many `wh` calls may hit the bridge's 30 s timeout

ASSUME NoneAssumption == None \notin Procs \cup JobIds
ASSUME BoundsAssumption == MaxTimeouts \in Nat

VARIABLES
  store,        \* job id -> record of lab_jobs.json
  disk,         \* job id -> process whose create made the tree at its path
  late,         \* git children that outlived a `wh` killed by the timeout
  pc,           \* where each process is in allocate or teardown
  job,          \* its job_id argument while it is in one
  snap,         \* teardown: the record returned by store.get
  granted,      \* <<process, job id>> of the allocate calls that returned
  timeouts

\* History, read by the properties only.
VARIABLES
  early,        \* job ids a teardown looked up while they were PENDING
  cut,          \* job ids of calls that died or failed at their last write
  unremoved     \* job ids whose tree an undo failed to remove

history == <<early, cut, unremoved>>
vars == <<store, disk, late, pc, job, snap, granted, timeouts, history>>

NoJob == [status |-> "absent", agent |-> None]
Present == [status: {"pending", "allocated", "torn_down"}, agent: Procs]
Records == {NoJob} \cup Present
GitChildren == [op: {"add", "remove"}, by: Procs, id: JobIds]

AllocateAt == {"check", "create", "commit", "undo", "drop"}
TeardownAt == {"remove", "gone", "tomb"}
Locations == {"idle"} \cup AllocateAt \cup TeardownAt

Goto(p, from, to) ==
  /\ pc[p] = from
  /\ pc' = [pc EXCEPT ![p] = to]
  /\ UNCHANGED <<job, snap>>

Begin(p, to, id, record) ==
  /\ pc[p] = "idle"
  /\ pc' = [pc EXCEPT ![p] = to]
  /\ job' = [job EXCEPT ![p] = id]
  /\ snap' = [snap EXCEPT ![p] = record]

\* The call ends, by return or by exception: its locals are gone.
Leave(p) ==
  /\ pc' = [pc EXCEPT ![p] = "idle"]
  /\ job' = [job EXCEPT ![p] = None]
  /\ snap' = [snap EXCEPT ![p] = NoJob]

End(p, from) == pc[p] = from /\ Leave(p)

PutRecord(id, status, agent) ==
  store' = [store EXCEPT ![id] = [status |-> status, agent |-> agent]]

TypeOK ==
  /\ store \in [JobIds -> Records]
  /\ disk \in [JobIds -> Procs \cup {None}]
  /\ late \subseteq GitChildren
  /\ pc \in [Procs -> Locations]
  /\ job \in [Procs -> JobIds \cup {None}]
  /\ snap \in [Procs -> Records]
  /\ \A p \in Procs : pc[p] # "idle" => job[p] \in JobIds
  /\ \A p \in Procs : pc[p] \in TeardownAt => snap[p] \in Present
  /\ granted \subseteq Procs \X JobIds
  /\ early \subseteq JobIds /\ cut \subseteq JobIds /\ unremoved \subseteq JobIds
  /\ timeouts \in 0..MaxTimeouts

Init ==
  /\ store = [id \in JobIds |-> NoJob]
  /\ disk = [id \in JobIds |-> None]
  /\ late = {}
  /\ pc = [p \in Procs |-> "idle"]
  /\ job = [p \in Procs |-> None]
  /\ snap = [p \in Procs |-> NoJob]
  /\ granted = {}
  /\ early = {} /\ cut = {} /\ unremoved = {}
  /\ timeouts = 0

-----------------------------------------------------------------------------
(* allocate.  An operator named ...Mutant is the action below it with a     *)
(* mistake the code could plausibly contain; no specification uses it.     *)

ReserveMutant(p, id) ==     \* no "already exists" check
  /\ Begin(p, "check", id, NoJob)
  /\ PutRecord(id, "pending", p)
  /\ UNCHANGED <<disk, late, granted, timeouts, history>>

\* store.reserve_pending: claims the id, or raises LabJobExistsError.
Reserve(p, id) ==
  /\ store[id].status = "absent"
  /\ Begin(p, "check", id, NoJob)
  /\ PutRecord(id, "pending", p)
  /\ UNCHANGED <<disk, late, granted, timeouts, history>>

\* `Path(worktree_path).exists()`: an occupied path aborts before any create.
CheckPath(p) ==
  /\ Goto(p, "check", IF disk[job[p]] = None THEN "create" ELSE "drop")
  /\ UNCHANGED <<store, disk, late, granted, timeouts, history>>

\* `wh worktree create` succeeds: from here on `path` is set.  If it names
\* another branch than the one asked for, the except branch undoes it while
\* the record is still PENDING.
CreateOk(p) ==
  /\ Goto(p, "create", "commit") \/ Goto(p, "create", "undo")
  /\ disk[job[p]] = None
  /\ disk' = [disk EXCEPT ![job[p]] = p]
  /\ UNCHANGED <<store, late, granted, timeouts, history>>

\* `wh` answers with an error: no tree, `path` stays None.
CreateFail(p) ==
  /\ Goto(p, "create", "drop")
  /\ UNCHANGED <<store, disk, late, granted, timeouts, history>>

\* The bridge kills `wh` at its timeout, or cannot read its answer; `path`
\* stays None, and the `git worktree add` that `wh` started goes on.
CreateTimeout(p) ==
  /\ Goto(p, "create", "drop")
  /\ timeouts < MaxTimeouts
  /\ timeouts' = timeouts + 1
  /\ late' = late \cup {[op |-> "add", by |-> p, id |-> job[p]]}
  /\ UNCHANGED <<store, disk, granted, history>>

\* store.commit_allocated: PENDING -> ALLOCATED, and allocate returns.
Commit(p) ==
  /\ End(p, "commit")
  /\ store[job[p]].status = "pending"
  /\ PutRecord(job[p], "allocated", p)
  /\ granted' = granted \cup {<<p, job[p]>>}
  /\ UNCHANGED <<disk, late, timeouts, history>>

\* It raises: the record is not PENDING any more, or the store cannot be
\* locked, read or written.
CommitFails(p) ==
  /\ Goto(p, "commit", "undo")
  /\ UNCHANGED <<store, disk, late, granted, timeouts, history>>

\* The except branch with `path` set: _wh_remove(path, force=True).
UndoOk(p) ==
  /\ Goto(p, "undo", "drop")
  /\ disk' = [disk EXCEPT ![job[p]] = None]
  /\ UNCHANGED <<store, late, granted, timeouts, history>>

UndoFailMutant(p) ==     \* the failure is not suppressed
  /\ End(p, "undo")
  /\ UNCHANGED <<store, disk, late, granted, timeouts, history>>

\* Its failure is suppressed: the tree stays if it is still there.
UndoFail(p) ==
  /\ Goto(p, "undo", "drop")
  /\ unremoved' = IF disk[job[p]] = None THEN unremoved ELSE unremoved \cup {job[p]}
  /\ UNCHANGED <<store, disk, late, granted, timeouts, early, cut>>

\* So is the bridge's timeout; the `git worktree remove` goes on.
UndoTimeout(p) ==
  /\ Goto(p, "undo", "drop")
  /\ timeouts < MaxTimeouts
  /\ timeouts' = timeouts + 1
  /\ late' = late \cup {[op |-> "remove", by |-> p, id |-> job[p]]}
  /\ UNCHANGED <<store, disk, granted, history>>

DropMutant(p) ==     \* drops whatever record is there
  /\ End(p, "drop")
  /\ store' = [store EXCEPT ![job[p]] = NoJob]
  /\ UNCHANGED <<disk, late, granted, timeouts, history>>

\* store.drop_if_pending, then the exception is re-raised.
Drop(p) ==
  /\ End(p, "drop")
  /\ IF store[job[p]].status = "pending"
     THEN store' = [store EXCEPT ![job[p]] = NoJob]
     ELSE UNCHANGED store
  /\ UNCHANGED <<disk, late, granted, timeouts, history>>

\* The call breaks off at its last write, which the store refuses: the record
\* stays what it is.  In allocate the new exception replaces the first one.
LastWriteFails(p) ==
  /\ End(p, "drop") \/ End(p, "tomb")
  /\ cut' = cut \cup {job[p]}
  /\ UNCHANGED <<store, disk, late, granted, timeouts, early, unremoved>>

-----------------------------------------------------------------------------
(* teardown *)

\* store.get: a missing record raises and a tombstone is returned as it is;
\* any other record is kept and used until the end of the call.
Lookup(p, id) ==
  /\ store[id].status \notin {"absent", "torn_down"}
  /\ Begin(p, "remove", id, store[id])
  /\ early' = IF store[id].status = "pending" THEN early \cup {id} ELSE early
  /\ UNCHANGED <<store, disk, late, granted, timeouts, cut, unremoved>>

\* `wh worktree remove` succeeds.
RemoveOk(p) ==
  /\ Goto(p, "remove", "tomb")
  /\ disk[job[p]] # None
  /\ disk' = [disk EXCEPT ![job[p]] = None]
  /\ UNCHANGED <<store, late, granted, timeouts, history>>

\* `wh` reports an error: nothing at the path, or git refuses the tree.
RemoveFail(p) ==
  /\ Goto(p, "remove", "gone")
  /\ UNCHANGED <<store, disk, late, granted, timeouts, history>>

\* The bridge kills `wh`; the `git worktree remove` it started goes on.
RemoveTimeout(p) ==
  /\ Goto(p, "remove", "gone")
  /\ timeouts < MaxTimeouts
  /\ timeouts' = timeouts + 1
  /\ late' = late \cup {[op |-> "remove", by |-> p, id |-> job[p]]}
  /\ UNCHANGED <<store, disk, granted, history>>

CheckGoneMutant(p) ==     \* any error counts as removed
  /\ Goto(p, "gone", "tomb")
  /\ UNCHANGED <<store, disk, late, granted, timeouts, history>>

\* After an error `Path(path).exists()` decides: missing counts as removed,
\* present raises out of teardown.
CheckGone(p) ==
  /\ pc[p] = "gone"
  /\ IF disk[job[p]] = None THEN Goto(p, "gone", "tomb") ELSE End(p, "gone")
  /\ UNCHANGED <<store, disk, late, granted, timeouts, history>>

\* store.put of the record read by Lookup, now TORN_DOWN: an upsert.
Tombstone(p) ==
  /\ End(p, "tomb")
  /\ PutRecord(job[p], "torn_down", snap[p].agent)
  /\ UNCHANGED <<disk, late, granted, timeouts, history>>

-----------------------------------------------------------------------------
(* The environment *)

\* A git child abandoned by a timeout finishes or fails.
LateGit ==
  \E g \in late :
    /\ late' = late \ {g}
    /\ \/ UNCHANGED disk
       \/ /\ g.op = "add" /\ disk[g.id] = None
          /\ disk' = [disk EXCEPT ![g.id] = g.by]
       \/ /\ g.op = "remove"
          /\ disk' = [disk EXCEPT ![g.id] = None]
    /\ UNCHANGED <<store, pc, job, snap, granted, timeouts, history>>

\* The process dies inside a call (kill, or KeyboardInterrupt, which
\* `except Exception` does not catch): the cleanup does not run.
Crash(p) ==
  /\ pc[p] # "idle"
  /\ Leave(p)
  /\ cut' = cut \cup {job[p]}
  /\ UNCHANGED <<store, disk, late, granted, timeouts, early, unremoved>>

\* Every step a call in progress can take by itself.
Step(p) ==
  \/ CheckPath(p) \/ CreateOk(p) \/ CreateFail(p) \/ CreateTimeout(p)
  \/ Commit(p) \/ CommitFails(p)
  \/ UndoOk(p) \/ UndoFail(p) \/ UndoTimeout(p) \/ Drop(p)
  \/ RemoveOk(p) \/ RemoveFail(p) \/ RemoveTimeout(p)
  \/ CheckGone(p) \/ Tombstone(p) \/ LastWriteFails(p)

Next ==
  \/ \E p \in Procs, id \in JobIds : Reserve(p, id) \/ Lookup(p, id)
  \/ \E p \in Procs : Step(p) \/ Crash(p)
  \/ LateGit

Spec == Init /\ [][Next]_vars

\* A call in progress goes on: the file lock is released by its holder or by
\* the kernel, and a `wh` call returns within the bridge's timeout.
FairSpec == Spec /\ \A p \in Procs : WF_vars(Step(p))

-----------------------------------------------------------------------------
(* Properties *)

Holds(p, id) == pc[p] \in AllocateAt /\ job[p] = id
Quiet(id) == \A p \in Procs : job[p] # id

\* From reserve_pending to the end of the call, the record of an allocate is
\* its own PENDING reservation or the tombstone a teardown made of it: no
\* other caller's record ever takes its place, so drop_if_pending can only
\* drop what this call reserved and commit_allocated only promote it
\* (lab_jobs.py:359-398), whatever crashes or times out meanwhile.
ReservationHeld ==
  \A p \in Procs : pc[p] \in AllocateAt =>
    \/ store[job[p]] = [status |-> "pending", agent |-> p]
    \/ store[job[p]].status = "torn_down"

\* At most one allocate ever returns a job for a job id: ids are never
\* handed out twice, not even after a teardown ("active or tombstone",
\* lab_jobs.py:73).
AtMostOneGrant ==
  \A g, h \in granted : g[2] = h[2] => g = h

\* Nothing brings a torn-down job back: no late commit, no drop and no new
\* reservation replaces a tombstone (lab_jobs.py:378-382).
TombstonePermanent ==
  [][\A id \in JobIds :
       store[id].status = "torn_down" => store'[id].status = "torn_down"]_store

\* The forced removal in allocate's except branch can only hit the tree this
\* very call created, never one that another agent is working in
\* (lab_jobs.py:523-526), provided no git child outlived its `wh`.
UndoRemovesOwn ==
  timeouts = 0 =>
    \A p \in Procs : pc[p] = "undo" => disk[job[p]] \in {p, None}

\* While no `wh` call timed out, an ALLOCATED record has the worktree of its
\* agent behind it, except between the removal and the put of a teardown that
\* is about to write the tombstone, or that died or failed at that write.
AllocatedHasTree ==
  timeouts = 0 =>
    \A id \in JobIds \ cut : store[id].status = "allocated" =>
      \/ disk[id] = store[id].agent
      \/ \E p \in Procs : pc[p] = "tomb" /\ job[p] = id

\* A worktree is lost from the registry in three ways only: a `wh` call timed
\* out, a teardown looked at the job while it was PENDING, or the forced
\* removal of an allocate failed.  Otherwise the id of every tree on disk has
\* a live record, whatever died and whatever the store refused, and teardown
\* of that id will find the tree.
TreeTracked ==
  timeouts = 0 =>
    \A id \in JobIds \ (early \cup unremoved) :
      disk[id] # None => store[id].status \in {"pending", "allocated"}

\* The registry and the disk agree in both directions: no record without its
\* tree, no tree without a record that leads to it (lab_jobs.py:505-549).
TreesHold == AllocatedHasTree /\ TreeTracked

\* A reservation is not held for ever: allocate promotes it or drops it, or a
\* teardown turns it into a tombstone.  Only a call on this very id that died
\* or whose drop the store refused leaves one behind (no expiry exists).
ReservationResolves ==
  \A id \in JobIds :
    store[id].status = "pending" ~> store[id].status # "pending" \/ id \in cut

\* "Remove worktree via wh and mark job torn_down (tombstone)"
\* (lab_jobs.py:539): once no call is working on a job that was allocated and
\* then torn down, its worktree is gone.
TornDownTreeGone ==
  \A g \in granted :
    store[g[2]].status = "torn_down" /\ Quiet(g[2]) => disk[g[2]] = None

-----------------------------------------------------------------------------
(* The registry that this protocol implements *)

Registry == INSTANCE LabJobRegistry WITH
  state <- [id \in JobIds |-> store[id].status],
  holder <- [id \in JobIds |->
               IF store[id].status \in {"pending", "allocated"}
               THEN store[id].agent ELSE None]

\* Every step of the protocol is a step of the registry or changes nothing
\* there.
ImplementsRegistry == Registry!Spec

=============================================================================
