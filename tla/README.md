# worktrees-hives in TLA+

worktrees-hives runs several coding agents ("hives") on one GitHub repository,
each in a git worktree of its own. A small Rust program, `wh`, does what touches
git and the `gh` client under a policy (no merge, no force push, worktrees under
one root). A Python package keeps the state of the jobs and decides what to do
next. This directory models the parts of both that keep state or interleave,
checks them with TLC, and proves the main properties of the central ones with
TLAPS.

## 1. The system

| component | state it keeps | operations | interacts with | what is hard | what makes it correct |
| --- | --- | --- | --- | --- | --- |
| Lab jobs, `lab_jobs.py` | `lab_jobs.json`: a record per job id (PENDING, ALLOCATED, TORN_DOWN) | `allocate`, `teardown`, `list` | `wh worktree create/remove` through the bridge; other processes through the file, under a lock | `allocate` and `teardown` are sequences of locked steps with a `wh` call in between; crashes; a `wh` that times out while its git goes on | an id is handed out once, tombstones stay, every tree is tracked, compensation removes only its own tree |
| Watchlist, `watchlist.py` | `watchlist.json`, a copy in each process | `add`, `remove`, setters, `begin_babysit_cycle`, `increment_fix_count`, `check` | the CLI; other processes through the file, under a lock | stale copies, failed saves, entries of other owners, damaged files, a fix budget shared by siblings | the copies behave like one map, nobody else's entry is lost, at most three fixes |
| Supervisor, `supervisor.rs` | a semaphore, a counter of active runs, a process group per run | `run` | child processes and their descendants | cancellation at any await, deadlines in four places, descendants that hold pipes or outlive the child | groups are bounded and die with their run, timed runs end, the branch checked is the branch used |
| Babysit cycle, `babysit.py` | what a cycle has read, its fix hashes, its report | `BabysitCycle.run`, `babysit_multiple` | GitHub through `gh`; the fix and reply handlers of its caller | everybody else changes the pull request between two reads; each call may fail or take effect and time out | the report rests on fresh reads, answers name the right commit, the budget holds |
| Orchestrator, `orchestrator.py` | a status per worker, a semaphore | `Orchestrator.run` | worker coroutines, a status callback, the caller who may cancel | six ways for a worker to end, cancellation between being granted a slot and using it | slots add up, callbacks in order, a complete report, no worker starved |
| Worktree manager, `worktree.rs` | git branches and worktrees | `create`, `remove`, `list`, `prune` | git | `create` is several git commands with a rollback; `wh` may be killed between them | exclusive worktrees, no branch left by a failed create |
| Claims, `claim.py` | the worktree on disk is the claim | `claim_issue`, `claim_pr`, `cleanup` | `wh` through the bridge | look-then-create by several processes | whoever got a worktree has it alone |
| Issue to PR, `issue_to_pr.py` | its step | `run`: reset branch, create worktree, push, open PR | git, `wh`, `gh` | reruns over an earlier run, calls that time out after they took effect | it pushes the base branch and nothing stale |
| Stacks, `stacks.py` | the detector's default branch | `fetch_pr_infos`, `resolve_default_branch`, `detect_stacks`, `order_prs_bottom_up`, `get_blocked`, `find_standalone_prs` | GitHub's list of pull requests, page by page | forks, rings, rings with tails, reused branch names, requests opened between two pages, a failed lookup | nothing before its ancestors, nothing dropped, nothing based on the default branch held up |
| Lab run, `lab_run.py` | the findings pair in the worktree, a process group | `run_lab_unit` | lab jobs, one command and its descendants | findings of the branch, timeouts, Ctrl+C, descendants that go on writing, a teardown that breaks off | only the command's own findings are credited, its group ends with it, failures are settled |
| Command policy, `git_safe.rs` (and `supervisor.rs` 435-735) | none | `SafeGitCommand`, `SafeGhCommand` | git, `gh` | many spellings of one operation; the branch is checked before the command runs | a refused command is never started, commands run on the branch that was checked |
| Bridge, `bridge.py`, `contract.py`, `contract.rs`, `main.rs` | none | `WhClient.run` | the `wh` process | exit codes and envelopes that contradict each other; two time limits; children of a lost `wh` | a child's failure, a policy error and a broken `wh` are told apart |
| Discovery, `discover.py`, and the commands `discover` and `plan` of `cli.py` | none | `discover_all`, `cmd_discover`, `cmd_plan` | `gh`, stacks | many lists, each of which may fail, stop at a limit or hold unreadable entries, while repositories come and go; an allowlist checked in three places | an error never looks like an empty list, a plan is complete or not printed, nobody outside the allowlist is asked about |
| CI taxonomy, `ci_taxonomy.py`, and the readers of checks in `babysit.py` and `discover.py` | none | classification, policies and rerun of a check | none | four lists of what a state means, in three files | one class and one party to act per failure, the lists agree |
| Findings and aggregation, `findings.py`, `aggregate.py` | none | load a pair of files, make a unit of it | files in worktrees, after lab runs | the pair is read again, by somebody who knows nothing of the run | a unit's report is its run's own, and none is lost |
| Research roles, attribution, the rest of the CLI, status, paths, errors | none | records, texts, argument parsing | all of the above | none of the kinds above | see the components list of `PROJECT.json` |

The components meet in three places. Python reaches git only through the
**bridge**, a `wh` process with a time limit: when the limit passes, `wh` is
killed and the git command it started is not. That happens in `WhCall`, which
models the bridge itself, and in `LabJobs` and `Worktrees`, which see it from outside. Processes that run at the same time share **files** under a file
lock, one operation at a time: `LabJobs`, `LabRun` and `Watchlist`; the aggregate reads
what lab runs leave on disk, which `Aggregate` puts together with `LabRun`. Tasks that run at the
same time in one process share a **semaphore**: `Supervisor` and `Orchestrator`,
which implement the same abstract pool.

## 2. Modules

| module | what it is |
| --- | --- |
| `LabJobs` | store and manager of lab jobs, used by several processes |
| `LabJobRegistry` | what the registry promises; `LabJobs` implements it |
| `LabJobsProofs` | theorems about `LabJobs` |
| `LabRun` | one lab unit: a run, its command's processes, and others who tear jobs down |
| `Aggregate` | runs of `LabRun` and the collection of their findings afterwards |
| `LabRunProofs` | theorems about `LabRun` and `Aggregate` |
| `WatchlistData` | records of the watchlist and the fix budget, used by the next two |
| `Watchlist` | `Watchlist` objects in several processes |
| `WatchlistMap` | one shared map; `Watchlist` implements it |
| `WatchlistProofs`, `MCWatchlist` | theorems; two processes with different allowlists |
| `BoundedPool` | a pool with a concurrency limit, implemented by the next two |
| `Supervisor`, `SupervisorProofs` | the process supervisor |
| `Orchestrator`, `OrchestratorProofs` | the worker orchestrator |
| `Babysit` | one babysit cycle among other people's changes |
| `CheckStates` | what a CI check means to each part of the program that reads one |
| `Discovery`, `MCDiscovery` | `discover` and `plan` over several owners |
| `Listing` | what list comprehensions and sorts do to lists, used by `Discovery` and `Stacks` |
| `Stacks` | what `plan` does for one repository: pages, detection, schedule |
| `GitHubProofs` | theorems about `Babysit`, `CheckStates`, `Discovery`, `Listing` and `Stacks` |
| `Worktrees`, `WorktreesProofs`, `MCWorktrees` | `wh worktree`, claims and issue-to-PR runs composed over one git repository |
| `WhCall`, `WhCallProofs`, `MCWhCall` | calls of `wh` through the bridge: policy, branch check, child, answer |

An operator whose name ends in `Mutant` is the definition after it with a
mistake the code could contain. No specification uses it; `PROJECT.json` says
which property tells the two apart.

### LabJobs

`store` is `lab_jobs.json`; each method of `LabJobStore` holds the file lock for
its whole body and is one step on it. `disk` says which process made the tree at
the path of a job id. `pc`, `job` and `snap` are the position and the locals of a
call: `Reserve`, `CheckPath`, `CreateOk/CreateFail/CreateTimeout`, `Commit/CommitFails`,
`UndoOk/UndoFail/UndoTimeout`, `Drop` are `allocate` line by line with its except branch;
`Lookup`, `RemoveOk/RemoveFail/RemoveTimeout`, `CheckGone`, `Tombstone` are
`teardown`. The except branch is reached with the record still PENDING when `wh` names
another branch or the store cannot be locked, read or written, and with somebody
else's tombstone when a teardown came first; it drops the record even if its own
removal of the tree failed. `LastWriteFails` is a store that refuses the last write of a
call, and `Crash` a process that dies without its cleanup.
`late` holds the git commands whose `wh` was killed, and `LateGit`
lets them end at any time. `early`, `cut` and `unremoved` are history: ids a teardown looked
up while they were PENDING, whose call died or failed at its last write, and whose tree an
undo failed to remove. `TreesHold` says that a tree is lost from the registry in these
cases and after a timeout, and in no other.

`LabJobRegistry` forgets paths, processes and git: an id is absent, pending,
allocated or torn down, and only its holder may promote or give back a
reservation. The refinement maps `state` and `holder` to the record's status and
agent.

### LabRun

The actions of `Step` are `run_lab_unit` in order, one per place where the
command, Ctrl+C or another process can come between: the two `unlink`s of the
wipe, `Popen`, the `try` around the wait, the kill, the two reads, the verdict,
and the removal and the tombstone of a teardown. `mode` is the handler the run is
in: an error nobody expected that comes out of a teardown makes the handler tear
down a second time. `group` holds the processes of the command's session; a
descendant that calls `setsid` becomes a `stray`, which no kill reaches. A
file is who wrote it and whether it passes; `Passes` stands for the parsers and
the identity check of `findings.py` and `lab_run.py`. `Allocate` and the teardown are
`LabJobs` seen from outside: one step, and two.

### Aggregate

`Look`, `Load`, `LoadMd` and `Judge` are `collect_unit` with the `load_findings_pair` it
calls, after all runs of `LabRun` have ended in whatever way. Strays of a command may still
write and others tear down in between. The collector has nothing of the run but the word of
its caller that the worker timed out, which may be wrong; of the identity it compares the
hypothesis only, so JSON that the run has turned down may pass (`MayPass`). Counts and
rendering are not modelled.

### Watchlist

A method of `Watchlist` that changes anything takes the lock, reloads, changes
its copy and saves by rename: one step (`Add` ... `Check`), in which `Save` may
fail and leave the copy changed and the file as it was. The constructor reads
without the lock (`Open`), and `Quarantine` is its second step after it met text
that is not JSON. A copy holds every entry: those whose owner the process may
schedule are active, the others and the unreadable ones are deferred. `Clamp` is
what loading does to numbers outside their range, and `Wrap` what it does to an entry that is
not an object (`Bare`): it puts it inside one (`Wrapped`), once, and the next save writes that
back. `WatchlistMap` has one map and
no copies; the refinement maps `jobs` to the clamped file.

Fields that no rule reads are one value, `notes`. `check()` is there with its
locking and saving; the categories it sorts jobs into are not modelled yet.

### Supervisor

A run goes `new`, `queued`, `granted`, `verify`, `armed`, `running`, `draining`
or `killing`, `returned`, `release`, `done`; each is a place between two awaits
of `run` and `run_with_permit`, and `Cancel` drops the future at each await with
what Rust drops then, in order: the child (its group is killed), the guard of
the counter, the permit. `members` are the processes alive in the run's group:
the child, a descendant that shares its pipes ("loud") and one that does not
("quiet"). They fork, exit and switch branches when they like. A deadline is a
flag that becomes true some time after it was set. The semantics is that of
Unix; on Windows the program does not kill groups, as its own header says.

### Orchestrator

One action per stretch between two awaits of `_execute_worker`; `Expire` and `Hit`
are cancellation by the deadline and by the caller. `told` is what the callback
heard. The semaphore is modelled as asyncio implements it, with one difference
stated in the module: it wakes any of its waiters. `Raise` is `gather` when a worker's task
ends cancelled, which a function can do by itself: then there is no report.

### Babysit

`pr`, `unresolved` and `replies` are GitHub's; the rest are the locals of
`BabysitCycle.run`. Each read of GitHub is one action, and each write to it may
fail, or take effect and be reported as failed. Between any two of them `Edit`,
`OthersPush`, `Discuss` and `CiStep` change the pull request, up to `MaxEvents`
times. `FixPushed` is a call of the fix handler, which pushes up to `PerCall`
commits and names them in one of four styles. `Unnumbered` are threads that cannot be
answered. `Deferred` is what `babysit_multiple` does after the cycle: since it runs one cycle
after the other, each stack is this cycle followed by that decision.

### CheckStates

A check is what GitHub has of it (`Raw`); `GhState` and `GhBucket` are how `gh pr checks`
shows it. The operators after them are, one by one, the readings of `discover.py`
(`Summary`), `babysit.py` (`ClassifyFails`, `RunFails`, ...) and `ci_taxonomy.py` (`Verdict`,
`Class`, `Policies`, ...). `Babysit` looks at checks through one value, which the theorems
below justify: both of its readers fail the same checks.

### Discovery

`call` is the command and its arguments with the allowlist and the item limit. `ListRepos`, `ReadItems`
and `Fetch` are calls of `gh`; a list of `S` answers as many of `S` as the limit allows, one
of them perhaps unreadable. `discover` goes `auth`, `owners`, `repos`, `issues`, `prs`; `plan`
goes `owners`, `targets`, `fetch`. Errors are what their text names: an owner or a
repository. `contacted`, `steady`, `lost` and `cut` are history, for the properties.
What `plan` does with the requests of a repository is `Stacks`.

### Worktrees

`tip` are the branches of the local repository, `tree` its worktrees. A commit is
only what it descends from: the HEAD of the checkout, the base branch, or work.
`Look`, `Make`, `Add`/`AddFails`/`AddNotStarted` and `Rollback`/`RollbackFails` are the git
commands of `WorktreeManager::create`: an add that cannot be started returns before
the rollback, and nobody looks at how the rollback ends. `left` is history, the branches
these two leave behind and those an add has made from a remote branch and then not taken back.
`Kill` is the bridge's time limit, after which the git
command that runs may still take effect. `Claim`, `Work`, `Cleanup` are a user of
`claim.py`; `Ensure`, `Push`, `OpenPr` are `issue_to_pr.py`. Names and sandbox
checks are taken to have passed. A `cleanup` that fails is a `Die`: its worktree
stays.

### WhCall

A call goes `check` (the policy), `verify` (the branch), `spawn`, `wait` (for the
child), `ending` (the envelope is written), `exited`, `over` (the client has
interpreted it). `git-safe`, `gh-safe` and `supervisor run` share these places and
differ in their refusals (`Refuse`, `Outside`, `Checked`), in whether a failure has an
envelope (`Fail`), in what they make of the child's end (`Collect`,
`CollectSupervised`) and in having a deadline (`Stop`). `TimeOut` is the limit of the
client and `Dies` is any other end of `wh`; both leave `child` alive, and a call is
then called lost. `Reading` is `_interpret`. A command is the way it is
called, whether the policy has it on its list of writes, which branch it changes (`to`) and
which one the policy reads in it (`reads`). The last two are independent, because the
policy reads a branch in `push`, `checkout` and `switch` only and not in all their spellings;
which argument vectors have which values is not modelled.

### Stacks

`prs` is what GitHub has of one repository, open and closed; a request is its number.
Its head is a branch of the repository, nothing (in a fork), or the name of a branch of a
fork that was deleted, which the code takes for one of the repository (section 4):
links are what the code makes of all this, and the schedule is judged by the links.
`LookUp` looks up the default branch and may fail; `ReadPage` reads a page of the list,
the newest first, while `Create` opens requests, which moves the others down the pages, so
that `list` may hold one twice. `Link` builds the parent map, `TakeBase/Walk/EndWalk` are the walks from
requests without a parent, `TakeRing/Round/EndRound` those through what is left,
`Order` is `order_prs_bottom_up` with `get_blocked` under any health map, for an owner
that is allowed or not. Stacks may be
scheduled in any order, since they are sorted by a string with a number in it.

## 3. Runs

| run | bounds | what it shows |
| --- | --- | --- |
| `lab_jobs` | 3 agents, 1 job id, 1 timeout, any number of crashes and refused writes | reservations, grants, tombstones and trees are consistent; reservations resolve; the registry is implemented |
| `lab_jobs_torn_down` | 2 agents, no faults | **violated**: a teardown that overlaps an allocate leaves a live worktree under a tombstone |
| `lab_run` (`Aggregate`) | 2 runs, 1 job id, every mixture of with and without a command and teardown on error, then the collection of either | credited findings are the command's own and stand, groups end, failures are settled, runs come back, the aggregate agrees with the run |
| `watchlist` | 2 processes, 2 owners, 2 jobs, 1 PR, 2 cycles, ceiling 2, 3 operations, 1 failed save, 1 damage | no stale write, deferred entries kept, siblings share the budget |
| `watchlist_budget` | 1 job, ceiling 3, 5 operations | **violated**: two cycles that overlap restart each other's count |
| `supervisor` | 2 runs, limits 0 (made 1) and 2, 2 branches | nothing outlives, accounting, the pool, branch check, timed runs end |
| `babysit` | 2 threads that ask for a change, one of them without a database id, 1 question, budgets 0 and 2, 2 commits a call, 1 change by others | fresh reports, right answers, every push reported and counted, children wait for their base |
| `orchestrator` | 3 workers, 1 or 2 slots | slots that do not lie idle, callbacks, the pool, timed runs come back |
| `worktrees` | 3 processes, 1 issue (its 4 tasks), symmetry | exclusive claims, rollback, base pushed, checked-out branches unmoved |
| `wh_call` | 2 calls of any of 46 kinds, 2 branches, symmetry | answers are true, refusals touch nothing, nothing comes late, effects on the expected branch |
| `stacks` | up to 3 requests, pages of 2, 3 branches, all health maps | the schedule is the reference schedule, nothing is dropped or held up for nothing |
| `discovery` | 2 owners, 3 repositories, 4 items, limits 1 and 2, 3 allowlists, 1 change by others | what is left out is told, plans are complete, only allowed owners are asked about, green is green |

Why these bounds. Job ids of lab jobs do not interact, so one is enough; three
agents are one to reserve, one to tear down and one to take the id in between.
Two runs that want one job id are enough for one to
find it taken, by the other or by its tombstone. A watchlist needs two jobs to have siblings and two processes with different
allowlists to have deferred entries, and the file may start with an entry of each kind; three operations are enough for a cycle to
start, count and be overtaken. Two runs of a supervisor fill one permit and wait
for it; a limit of two lets groups overlap. An orchestrator needs a third worker
to come between a grant and its use. Three clients are a holder, a newcomer and
a rollback that comes late. Three requests make a chain whose grandparent
matters, a fork and a ring with a tail, and on pages of two one can be opened between two
pages. One owner with two repositories and one with one are a list that is cut
followed by one that is not. One change by others is enough for babysit: what it disturbs are
two reads or a push and a read, and the theorems cover any number. Two calls of `wh` are a lost one and one that
meets its git; the proofs cover more. The bounds on faults (`MaxTimeouts`, `MaxFailures`, `MaxDamages`), on operations (`MaxOps`), on changes
by others (`MaxEvents`) and on commits per call (`PerCall`) are guards of the
actions they bound. The sets `Lives`, `Merges` and `Reviews` of `Babysit.cfg` keep one value
of each kind the cycle treats alike. The proofs below have none of these bounds.

All cfgs say `CHECK_DEADLOCK FALSE`: calls return, cycles end, workers finish, and
then nothing is left to do.

Fairness is assumed in four modules. `LabJobs`: a call in progress goes on (the
lock is released by its holder or by the kernel, and a `wh` call ends at the
bridge's limit). `LabRun`: a run goes on as long as it can, its timer included;
nothing is assumed of the command. `Supervisor`: the runtime polls what is ready and clocks advance;
nothing is assumed of supervised processes, which may run for ever.
`Orchestrator`: the event loop runs, deadlines pass, and a worker's coroutine
ends at some time after its deadline has cancelled it, which is Python's contract
for coroutines; a worker without a deadline may run for ever.

## 4. Where the code and its documents disagree

Two statements of the documents are checked as properties and refuted by TLC:

* `lab_jobs.py:539`, a torn-down job has no worktree: `TornDownTreeGone`.
* `REVIEW.md:35`, three fixes per cycle: `BudgetPerCycle`.

Seen while modelling, without a run of their own; the first four are in the models, whose
properties are stated so that they hold all the same:

* `worktree.rs:103`, a branch `create` has made is rolled back on failure: not when `git worktree
  add` cannot be started (121, the `?` returns before the rollback) or `git branch -D` fails
  (128, nobody looks). `NoStrayBranches` excepts such branches, and one that an add
  which fails has itself made from the remote's (`left`), and no others.
* `README.md:50`, a job edits only its assigned branch: `git rebase main other`, `git branch -D
  other`, `git checkout -`, `git switch -cother` and `git push origin :` pass with an expected
  branch, and `git fetch origin a:other` is not looked at, so with nothing lost another branch
  may change. `ActsOnExpected` is about commands that name no other branch, or under the
  supervisor one that the policy reads right.
* `stacks.py:66` and `723`, the head of a deleted fork is never a parent: `parse_pr_infos`
  (568-573) makes None of its empty strings, which stands for the base repository (69-70).
  In `Stacks` it is a parent, as in the code, and `ScheduleIsRight` judges the schedule by
  the links as they are.
* `orchestrator.py:122-126`, `run` returns a report and one failure costs no sibling: a function
  that ends cancelled, by itself, makes `gather` raise, and the results of the others are lost
  (`Raise`).
* `issue_to_pr.py:346` is to rewrite the branch of an earlier run, but git refuses
  `branch -f` while the earlier run's worktree has the branch checked out, so the
  rerun fails until somebody removes it.
* `worktree.rs:128`: a rollback deletes a branch by its name. If it is late and
  another claim has taken, committed to and released that branch, the commits
  lose their branch. `CheckedOutTipsAreSafe` is therefore about branches that are checked
  out.
* `README.md:52`: at most three commits per babysit cycle. The budget is looked at
  before a call of the fix handler, which may push several commits, so a cycle may
  exceed it by less than one call (`OvershootBounded`).
* `REVIEW.md:88`, reports tell merge-ready from the rest: a pull request that is merged,
  closed or made a draft while the cycle pushes to it is read again, but the final
  assessment has no branch for that (`babysit.py:933`) and calls it healthy.
* `README.md:54`, replies carry the pushed hash: a thread whose first comment has no database
  id gets no reply, without an error (`babysit.py:500`), and is resolved all the same.
  `ResolvedWasAnswered` excepts such threads.
* `babysit.py:1042`, children of a blocked base are deferred: a review that asks for changes
  or is required comes first in the assessment, and these two states defer nobody, whatever
  else is wrong with the base. `ChildrenWaitForBase` excepts them. Requests that do not stand on the blocked one are
  deferred too, since the list is taken to be one stack.
* `babysit.py:1081`: an exception after a push (a `gh` that fails with an exit code, in the
  reads `run` does not guard) becomes a report without the commits and with none used.
  `PushesAreReported` therefore speaks of cycles that return.
* `babysit.py:597` says of a conclusion STALE that it is not healthy; the roll-up classifies
  by status and state only, so there it is neither failed nor pending. `gh pr checks` has it
  pending (`BabysitReadsAlike`).
* `discover.py:180`: the roll-up does not know STARTUP_FAILURE and STALE. A request with one
  success beside them is shown as green; `GreenIsGreen` excepts the two.
* `discover.py:454`: a repository whose entry cannot be read is skipped in silence, unlike an
  issue or a pull request; `OmissionsTold` and `PlanIsComplete` except it.
* `cli.py:393`: an empty allowlist denies by default. That is so for `plan`; `discover` with
  owners named takes any (`discover.py:491`), which `OnlyAllowedContacted` says.
* `stacks.py:644`: a request opened between two pages makes another one come twice; if it
  stands alone it is scheduled twice (`ScheduleIsRight`). After a failed lookup of the default branch, a
  request from the real one may become the parent of others (`DefaultBasedRuns` has the
  lookup as its condition).
* `aggregate.py:184`: of the identity only the hypothesis is compared. A pair that the run
  rejected for its agent, its role or its worktree or for the exit code of its command counts
  as reported, and so does the branch's own pair if the run broke off before its wipe
  (`UnitIsOwn` is about runs that came back).
* `docs/aggregate-report.md:68`: no failure leaves half a pair. The two files are written one after the
  other, so an `OSError` at the second does.
* `watchlist.py:660`: `check` sorts by the budget of the job itself, `increment_fix_count` counts that of
  all jobs of the request; a job may be listed as to be fixed and then refused.
* `watchlist.py:196`, only corrupt files are put aside: the constructor reads without the
  lock, and between its read of a damaged file and its rename another process may have
  put that file aside and saved a valid one, which then goes too (`Quarantine` after
  another handle's save).
* `REVIEW.md:81`: exit code 2 becomes `PolicyError`. `git-safe`, `gh-safe` and usage errors exit
  with 2 and without an envelope, and the client raises `WhProcessError`; only `supervisor
  run` has an envelope for a refusal. `RefusedIsUntouched` covers both answers.
* `git_safe.rs:1091`: a push without a destination is safe because HEAD was checked.
  That is so unless a call was lost: the git of a call that timed out may switch the
  branch between the check and the push of a later one, or push itself after a
  later switch. `ActsOnExpected` says so, of commands that name no other branch.
* `lab_jobs.py:523-527`: the failure of the forced removal is suppressed and the PENDING record is
  dropped all the same, so the tree stays without a record; the next allocate of the id finds
  the path taken. `TreesHold` excepts it.
* `watchlist.py:350`, entries that cannot be read are kept: one that is not an object comes back
  inside an object, as the code says at 335. `DeferredKept` allows it.
* `lab_run.py:538`: Ctrl+C between `Popen` and the `try` that follows leaves the
  command running; `NoneOutlives` excepts that window.
* `orchestrator.py:199`: a function that raises `TimeoutError` before it returns a
  coroutine is reported as timed out although it has no deadline.

`PushesBase` has a precondition: only issue-to-PR runs take the branch. A claim of
the same branch between `Ensure` and the creation of the worktree may commit to it
first.

## 5. Proofs

Every theorem holds for all values of the constants that satisfy the named
assumptions (finite sets of runs and workers, limits that are natural numbers,
null values that are no member of the sets they stand beside).

* **`LabJobsProofs`**: `TypeCorrect`; `ReservationsSafe` (a reservation stays with
  the call that made it or becomes a tombstone; an id is granted once);
  `TombstonesStay`; `RegistryImplemented`; `TreesSafe` (undo removes only its own tree, an
  allocated job has its tree, no tree is lost but in the ways its history variables name). The last needs an invariant over
  calls, records and trees together: one holder per reservation, what is known
  of a reservation that was lost to a teardown, and whose tree stands at a path,
  most of it conditional on there having been no timeout.
* **`LabRunProofs`**: `RunTypes`, `ReportsAreOwn`, `GroupsEnd`, `PairsStand`,
  `FailuresSettled`. The invariant says that a job id belongs to one run that holds
  it (`Exclusive`), that after the wipe each file is missing or the command's own
  (`Fresh`), and that what was read is what is there once the group has ended
  (`Current`). `UnitsAgreeWithRuns` is about the composition `Aggregate`: it adds what a run
  leaves behind, in a teardown and afterwards (`Left`), and that what the collector has taken
  is that (`TakenIsLeft`, `TakenIsSeen`).
* **`WatchlistProofs`**: `WatchlistTypeCorrect`, `DeferredEntriesKept`,
  `WatchlistImplementsMap`, `BudgetShared`. The third shows that loading and clamping commute with each
  operation, so that the budget computed on a copy is that of the map, and that
  an emptied file was damaged before. The last is about any finite set of jobs: the fixes
  of the siblings are a sum, and a sum over a finite set is the number of the units it counts
  (`SumCounts`), so that its monotony and the effect of one more fix are facts about
  cardinalities; the invariant (`BudgetInv`) bounds the sum in the file, and every operation
  but the one that counts leaves each sum as it is, smaller, or of one job alone.
* **`SupervisorProofs`**: `GroupsDieWithRun`, `GroupsAreBounded`, `CountersAreRight`,
  `EndedOutputComplete`, `CommandsStartOnBranch`, `SupervisorIsPool`. The invariant says which
  processes may live at each place of a run (`Stages`), that holders of permits are at
  most `max` and the counter is the number of armed runs (`Permits`), and that with one permit
  the branch found stays (`Verified`): nobody else holds a permit, so nobody
  else has a process that could switch.
* **`OrchestratorProofs`**: `TypesHold`, `CallbackInOrder`, `SlotsServe`, `OrchestratorIsPool`.
  The invariant adds that free, granted and used slots are `concurrency` together, and that a free
  slot has no sleeping worker or a granted one that will wake the next (`Served`).
* **`WorktreesProofs`**: `TypesHold`, `WorktreesAreExclusive`, `CreatesRollBack`, `RunsPushTheBase`,
  `CheckedOutTipsStay`. The invariant adds where a client is that has made a branch
  (`Making`), and that a branch only runs take stands on the base from `Ensure` on
  (`OnBase`).
* **`GitHubProofs`**. Of `Babysit`: `BabysitTypesHold`, `AnswersAreTrue`, `ReadyIsFresh`, `PushesAreAccounted`,
  `ChildrenWait`, for any threads, budgets and number of changes by others. The invariant says
  what is known at each place (`Stages`), that the commits the cycle keeps are its own
  (`Commits`, `Answered`), that the threads left are never fewer than those not reached or
  noted (`Left`), that every push has a thread that is resolved, noted or at hand (`Owed`),
  what was read after the last push (`Fresh`) and that the hashes counted are at least the
  commits told of (`Counted`).
  Of `CheckStates`, for every check there is: `BabysitReadsAlike`, `DiscoverReadsAlike` and
  `TaxonomyReadsAlike` say where the four readings agree and where not; `SomebodyActs` that each
  failed check has exactly one party to act on it; `PassedIsPassed` that what the taxonomy
  passes nobody fails.
  Of `Discovery`, for any finite sets of owners, repositories and items, any limits and any
  number of changes on GitHub: `ScanTypes`, `SilenceIsEmpty`, `PlanHasAll`, `AsksAllowed`,
  `ShownGreen`. The invariant (`ScanInv`) says which stages a command has and what it has done
  there (`StageFacts`), that an item open from the start is accounted for or still
  to come (`Due`: each place of the scan names what it owes, the owners not yet listed, the
  repositories not yet read, the pull requests of the repository whose issues are being read), that the
  owners asked and still to be asked are allowed (`Permitted`), and that nothing steady is without its
  repository (`Present`). It rests on lemmas about the operators of a scan: a list that leaves something
  out is at its limit (`ListsComplete`), `Orders` and `Once` name just the owners they are given
  (`OrdersList`, `OnceNames`), a green summary has no bad check (`GreenSummary`).
  Of `Stacks`, for any number of requests and branches, any page size and any health map:
  `StackTypes`, `ScheduleStands`, `NobodyDropped`. The invariant (`StackInv`) says that the pages read
  so far name every early request above the next page (`Paged`); that where a walk has been
  (`Old`) is closed under parents and children, and that whoever is next to a member of the walk
  at hand is a member or waits (`Covered`); that a walk from a base puts nobody before its parent
  (`WalkInOrder`); that when these walks are over whoever is left has a parent (`RingsLeft`); and
  that stacks are apart, in order or closed under parents, and leave out only requests without a
  parent (`Apart`). What remains is about the forest of parents: the walk up in `ChainHealthy` finds
  just the requests with no ring above them and healthy ancestors (`ChainHealthyIs`, by well-founded
  induction on the set of those not yet seen), a list in which everybody comes after its parent
  puts nobody before any ancestor (`OrderIsUpward`), and where everybody has a parent
  everybody is below a ring (`RingAbove`). Lists have lemmas of their own: what `Only` and `Concat`
  keep, and in which order (`OnlyNames`, `OnlyOrder`, `ConcatNames`).
* **`WhCallProofs`**: `DoneMeansDone`, `RefusalsTouchNothing`, `NothingComesLate`,
  `EffectsOnExpectedBranch`. The invariant says what can be known of a call at each place
  (`Stages`), that calls come in order (`InOrder`), and that the branch found is
  checked out until the child acts if nothing was lost before (`Held`).

The runs leave out what the theorems settle and the other properties imply: the
`TypeOK` of `LabJobs`, `LabRun`, `Watchlist`, `Orchestrator`, `Worktrees`, `WhCall` and `Babysit`,
`TombstonePermanent`, `AtMostOneGrant` and `UndoRemovesOwn` of `LabJobs`, and
`GroupsBounded` and `CompleteOutput` of `Supervisor`.

Only model-checked: all liveness properties (`ReservationResolves`, `RunEnds`, `TimedRunEnds`,
`DeadlinesEndTheRun`), which the prover does not reach. Every safety property of a run has its theorem.

The library's induction theorems take an operator, which the provers cannot instantiate. Where
an induction was needed (`Selection`, `Concat`, the sums of `Used`), it is one over a set of naturals that
contains 0 and with each its successor (`NaturalsUpTo`, from the well-founded order of the finite
subsets), or a counting argument that needs none.

## 6. Not modelled, and what comes next

Not modelled: what `PROJECT.json` lists as such, with the reason. Formatting,
logging, parsing of JSON and Markdown, argument parsing, path validation and the
Windows branches are left out throughout. The two largest files left, `research_roles.py`
and most of `cli.py`, are the classification of command lines word by word and the printing
of results: neither keeps state or meets anything concurrent, and a model of them would be
their text again. Of `watchlist.py` the categories of `check` are left out, of `aggregate.py` the
counts and the writing of the report, of `stacks.py` the grouping by repository.

What could be added, in order:

1. A cycle of `Babysit` with its budget in `Watchlist`, which nothing in the package connects yet.
