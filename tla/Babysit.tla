------------------------------ MODULE Babysit ------------------------------
(***************************************************************************)
(* One babysit cycle of one pull request, and whether the next of its      *)
(* stack gets one (babysit.py): the cycle reads the PR, its required       *)
(* checks and its unresolved review threads, lets a fix handler push       *)
(* commits for a thread, answers and resolves it, reads the PR again after *)
(* a push and reports a state.  Every read is a call to gh that may fail,  *)
(* and between any two calls other people, CI and GitHub change the PR.    *)
(*                                                                         *)
(* The PR is a record of what the cycle looks at: its life, what GitHub    *)
(* says of merging it, its review, the required checks of its head and the *)
(* head, a number that grows with every push.                              *)
(***************************************************************************)
EXTENDS Naturals, FiniteSets

CONSTANTS
  Threads,    \* review threads
  Questions,  \* those that ask for no change
  Unnumbered, \* those whose first comment GitHub shows without a database id
  Limits,     \* max_fixes of the cycle
  PerCall,    \* commits one call of the fix handler pushes at most
  MaxEvents,  \* bound on what others and CI do to the PR during the cycle
  Lives, Merges, Reviews,  \* what GitHub may say of it
  None

ASSUME ThreadsAssumption ==
  IsFiniteSet(Threads) /\ Questions \subseteq Threads /\ Unnumbered \subseteq Threads
ASSUME LimitsAssumption == Limits \subseteq 0..3    \* MAX_FIX_COMMITS_PER_CYCLE
ASSUME BoundsAssumption == PerCall \in Nat /\ MaxEvents \in Nat
ASSUME GitHubAssumption ==
  /\ Lives \subseteq {"open", "draft", "merged", "closed"}
  /\ Merges \subseteq {"clean", "conflicting", "unknown", "behind", "blocked", "unstable"}
  /\ Reviews \subseteq {"none", "changes_requested", "review_required"}

Checks == {"none", "pending", "failed", "passed"}

PR == [life: Lives, merge: Merges, review: Reviews, ci: Checks, head: Nat]
\* Short or full hashes; of every commit, or of the last one only.
Styles == [form: {"short", "full"}, all: BOOLEAN]
Sha == [commit: Nat, form: {"short", "full"}]

VARIABLES
  pr,          \* the PR on GitHub
  unresolved,  \* its unresolved threads on GitHub
  replies,     \* the answers "Addressed in <commit>" posted to threads
  events,      \* how often others have changed it
  limit,       \* max_fixes
  style,       \* how the fix handler names the commits it pushed
  pc,
  status,      \* pr_data: the PR as last read
  checks,      \* the checks as last read, with the head they are for
  todo,        \* threads the loop has not reached
  at,          \* the thread whose fix was pushed
  fix,         \* pushed_shas, and the commit the answer will name
  fixShas,     \* _fix_shas
  remaining,   \* result.threads_remaining
  resolved,    \* the threads result.threads_resolved counts
  noted,       \* threads that result.residual_blockers names
  outcome,     \* result.state, or "exception"
  pushed       \* commits of the handler, for which thread, told to the cycle?

vars == <<pr, unresolved, replies, events, limit, style, pc, status, checks, todo, at, fix,
          fixShas, remaining, resolved, noted, outcome, pushed>>
github == <<pr, unresolved, replies>>
params == <<limit, style>>
report == <<remaining, resolved, noted>>

Early == {"status", "checks", "threads"}
Places == Early \cup {"loop", "head", "reply", "resolve", "restatus", "rechecks", "final", "done"}
States == {"merged", "closed", "draft", "conflicting", "behind", "blocked", "ci_failed",
           "pending_ci", "changes_requested", "review_required", "unresolved_threads",
           "healthy"}
NoFix == [shas |-> {}, primary |-> 0]

ASSUME NoneAssumption == None \notin States \cup {"exception"}

TypeOK ==
  /\ pr \in PR
  /\ unresolved \subseteq Threads
  /\ replies \subseteq [thread: Threads, commit: Nat]
  /\ events \in 0..MaxEvents
  /\ limit \in Limits
  /\ style \in Styles
  /\ pc \in Places
  /\ status \in PR \cup {None}
  /\ checks \in [ci: Checks, head: Nat] \cup {None}
  /\ todo \subseteq Threads
  /\ at \in Threads \cup {None}
  /\ fix \in [shas: SUBSET Sha, primary: Nat]
  /\ fixShas \subseteq Sha
  /\ remaining \in Nat
  /\ resolved \subseteq Threads
  /\ noted \subseteq Threads
  /\ outcome \in States \cup {None, "exception"}
  /\ pushed \subseteq [commit: Nat, thread: Threads, told: BOOLEAN]

Init ==
  /\ pr \in [life: Lives, merge: Merges, review: Reviews, ci: Checks, head: {1}]
  /\ unresolved \in SUBSET Threads
  /\ replies = {} /\ events = 0
  /\ limit \in Limits /\ style \in Styles
  /\ pc = "status" /\ status = None /\ checks = None
  /\ todo = {} /\ at = None /\ fix = NoFix /\ fixShas = {}
  /\ remaining = 0 /\ resolved = {} /\ noted = {}
  /\ outcome = None /\ pushed = {}

Goto(from, to) == pc = from /\ pc' = to

\* Back to the next thread; what the loop knew of this one is forgotten.
NextThread(from) == Goto(from, "loop") /\ at' = None /\ fix' = NoFix

Finish(from, state) == Goto(from, "done") /\ outcome' = state

-----------------------------------------------------------------------------
(* What the cycle concludes from what it has read *)

\* classify_pr; a failed check that is not required makes the merge unstable.
Classify(p) ==
  IF p.life # "open" THEN p.life
  ELSE IF p.merge = "conflicting" THEN "conflicting"
  ELSE IF p.merge = "unknown" THEN "pending_ci"
  ELSE IF p.merge = "behind" THEN "behind"
  ELSE IF p.ci = "failed" THEN "ci_failed"
  ELSE IF p.review # "none" THEN p.review
  ELSE IF p.ci = "pending" THEN "pending_ci"
  ELSE IF p.merge = "blocked" THEN "blocked"
  ELSE IF p.merge = "unstable" THEN "ci_failed"
  ELSE "healthy"

\* The final state of the report: of all that was read, what is worst.
Assess ==
  LET state == Classify(status)
  IN IF state \in {"changes_requested", "review_required"} THEN state
     ELSE IF "conflicting" \in {state, status.merge} THEN "conflicting"
     ELSE IF "ci_failed" = state \/ checks.ci = "failed" THEN "ci_failed"
     ELSE IF "pending_ci" = state \/ checks.ci = "pending" THEN "pending_ci"
     ELSE IF status.merge = "unstable" THEN "ci_failed"
     ELSE IF "behind" \in {state, status.merge} THEN "behind"
     ELSE IF "blocked" \in {state, status.merge} THEN "blocked"
     ELSE IF remaining > 0 THEN "unresolved_threads"
     ELSE "healthy"

-----------------------------------------------------------------------------
(* Reading the PR.  An operator named ...Mutant is the action below it with *)
(* a mistake the code could contain; no specification uses it.              *)

ReadStatus ==
  /\ status' = pr
  /\ IF Classify(pr) \in {"merged", "closed", "conflicting", "draft"}
     THEN Finish("status", Classify(pr))
     ELSE Goto("status", "checks") /\ UNCHANGED outcome
  /\ UNCHANGED <<github, events, params, checks, todo, at, fix, fixShas, report, pushed>>

ChecksNow == [ci |-> pr.ci, head |-> pr.head]

ReadChecks ==
  /\ \/ Goto("checks", "threads") /\ checks' = ChecksNow /\ UNCHANGED outcome
     \/ Finish("checks", "ci_failed") /\ UNCHANGED checks    \* the fetch failed
  /\ UNCHANGED <<github, events, params, status, todo, at, fix, fixShas, report, pushed>>

ReadThreads ==
  /\ Goto("threads", "loop")
  /\ todo' = unresolved
  /\ remaining' = Cardinality(unresolved)
  /\ UNCHANGED <<github, events, params, status, checks, at, fix, fixShas, resolved, noted,
                 outcome, pushed>>

\* The answer of GitHub has errors or another shape than expected.
ReadThreadsFails ==
  /\ Finish("threads", CASE checks.ci = "failed" -> "ci_failed"
                         [] checks.ci = "pending" -> "pending_ci"
                         [] OTHER -> "unresolved_threads")
  /\ UNCHANGED <<github, events, params, status, checks, todo, at, fix, fixShas, report, pushed>>

\* gh fails in a way run() does not catch: the caller sees an exception.
Raise ==
  /\ \E from \in {"status", "threads", "head", "restatus"} : Finish(from, "exception")
  /\ UNCHANGED <<github, events, params, status, checks, todo, at, fix, fixShas, report, pushed>>

-----------------------------------------------------------------------------
(* The threads, one after the other *)

Used == Cardinality(fixShas)

\* The thread asks for nothing, or the budget is spent and it is only
\* answered (whether or not the answer gets through).
LeaveThread(t) ==
  /\ Goto("loop", "loop")
  /\ t \in todo
  /\ t \in Questions \/ Used >= limit
  /\ todo' = todo \ {t}
  /\ noted' = IF t \in Questions THEN noted ELSE noted \cup {t}
  /\ UNCHANGED <<github, events, params, status, checks, at, fix, fixShas, remaining,
                 resolved, outcome, pushed>>

\* The handler pushes the next n commits for t and tells of some of them.
Push(t, n, told) ==
  /\ pr' = IF n = 0 THEN pr
           ELSE [pr EXCEPT !.head = @ + n, !.ci = "none"]
  /\ pushed' = pushed \cup {[commit |-> pr.head + i, thread |-> t,
                             told |-> pr.head + i \in told] : i \in 1..n}

\* The handler answers nothing: it pushed nothing, or failed after a push.
FixFails(t) ==
  /\ Goto("loop", "loop")
  /\ t \in todo \ Questions
  /\ Used < limit
  /\ \E n \in 0..PerCall : Push(t, n, {})
  /\ todo' = todo \ {t}
  /\ noted' = noted \cup {t}
  /\ UNCHANGED <<unresolved, replies, events, params, status, checks, at, fix, fixShas,
                 remaining, resolved, outcome>>

\* The handler answers with every commit it pushed or with the last one.
FixPushed(t) ==
  /\ Goto("loop", "head")
  /\ t \in todo \ Questions
  /\ Used < limit
  /\ \E n \in 1..PerCall :
       LET last == pr.head + n
           told == IF style.all THEN (pr.head + 1)..last ELSE {last}
       IN /\ Push(t, n, told)
          /\ fix' = [shas |-> {[commit |-> c, form |-> style.form] : c \in told},
                     primary |-> last]
  /\ todo' = todo \ {t}
  /\ at' = t
  /\ UNCHANGED <<unresolved, replies, events, params, status, checks, report, outcome>>

Fix(t) == FixPushed(t) /\ fixShas' = fixShas \cup fix'.shas

ReadHeadMutant ==     \* the answer names the head, whoever pushed it
  /\ Goto("head", "reply")
  /\ fix' = [fix EXCEPT !.primary = pr.head]
  /\ fixShas' = fixShas \cup {[commit |-> pr.head, form |-> "full"]}
  /\ UNCHANGED <<github, events, params, status, checks, todo, at, report, outcome, pushed>>

\* The head is read again; the answer names it if it is one of the commits.
\* A failed read is ignored.
ReadHead ==
  /\ Goto("head", "reply")
  /\ \/ /\ \E s \in fix.shas : s.commit = pr.head
        /\ fix' = [fix EXCEPT !.primary = pr.head]
        /\ fixShas' = fixShas \cup {[commit |-> pr.head, form |-> "full"]}
     \/ UNCHANGED <<fix, fixShas>>
  /\ UNCHANGED <<github, events, params, status, checks, todo, at, report, outcome, pushed>>

\* reply_to_thread "Addressed in ..."; a failed call may have got through.
\* There is nowhere to answer a thread without a database id: nothing is
\* posted, and the cycle goes on as if it had been.
Reply ==
  LET posted == replies \cup {[thread |-> at, commit |-> fix.primary]} IN
  /\ \/ /\ Goto("reply", "resolve")
        /\ replies' = IF at \in Unnumbered THEN replies ELSE posted
        /\ UNCHANGED <<noted, at, fix>>
     \/ /\ at \notin Unnumbered
        /\ NextThread("reply")
        /\ replies' \in {replies, posted}
        /\ noted' = noted \cup {at}
  /\ UNCHANGED <<pr, unresolved, events, params, status, checks, todo, fixShas, remaining,
                 resolved, outcome, pushed>>

ResolveMutant ==     \* a failure to resolve is forgotten
  /\ NextThread("resolve")
  /\ \/ /\ unresolved' = unresolved \ {at}
        /\ resolved' = resolved \cup {at}
        /\ remaining' = remaining - 1
     \/ UNCHANGED <<unresolved, resolved, remaining>>
  /\ UNCHANGED <<pr, replies, noted, events, params, status, checks, todo, fixShas,
                 outcome, pushed>>

Resolve ==
  /\ NextThread("resolve")
  /\ \/ /\ unresolved' = unresolved \ {at}
        /\ resolved' = resolved \cup {at}
        /\ remaining' = remaining - 1
        /\ UNCHANGED noted
     \/ /\ unresolved' \in {unresolved, unresolved \ {at}}
        /\ noted' = noted \cup {at}
        /\ UNCHANGED <<resolved, remaining>>
  /\ UNCHANGED <<pr, replies, events, params, status, checks, todo, fixShas,
                 outcome, pushed>>

-----------------------------------------------------------------------------
(* After the threads *)

EndLoopMutant ==     \* the report of a cycle that pushed uses the old reads
  /\ Goto("loop", "final")
  /\ todo = {}
  /\ UNCHANGED <<github, events, params, status, checks, todo, at, fix, fixShas, report,
                 outcome, pushed>>

EndLoop ==
  /\ Goto("loop", IF Used > 0 THEN "restatus" ELSE "final")
  /\ todo = {}
  /\ UNCHANGED <<github, events, params, status, checks, todo, at, fix, fixShas, report,
                 outcome, pushed>>

\* The PR and its checks are read again; a failed read counts as a failed check.
FailedCheck == checks' = [checks EXCEPT !.ci = "failed"]

RereadStatus ==
  /\ \/ Goto("restatus", "rechecks") /\ status' = pr /\ UNCHANGED checks
     \/ Goto("restatus", "final") /\ FailedCheck /\ UNCHANGED status
  /\ UNCHANGED <<github, events, params, todo, at, fix, fixShas, report, outcome, pushed>>

RereadChecks ==
  /\ Goto("rechecks", "final")
  /\ checks' = ChecksNow \/ FailedCheck
  /\ UNCHANGED <<github, events, params, status, todo, at, fix, fixShas, report, outcome,
                 pushed>>

\* A summary is posted when the budget is spent; whether that works is only noted.
Conclude ==
  /\ Finish("final", Assess)
  /\ UNCHANGED <<github, events, params, status, checks, todo, at, fix, fixShas, report, pushed>>

Cycle ==
  \/ ReadStatus \/ ReadChecks \/ ReadThreads \/ ReadThreadsFails \/ Raise
  \/ \E t \in Threads : LeaveThread(t) \/ FixFails(t) \/ Fix(t)
  \/ ReadHead \/ Reply \/ Resolve \/ EndLoop
  \/ RereadStatus \/ RereadChecks \/ Conclude

-----------------------------------------------------------------------------
(* babysit_multiple: the requests of a stack, one cycle after the other     *)

DeferredMutant ==     \* a base that only fails its checks is no obstacle
  outcome \in {"conflicting", "behind", "blocked", "draft", "exception"}

\* After this cycle those that follow are given up without a look at them.
Deferred ==
  outcome \in {"ci_failed", "conflicting", "behind", "blocked", "draft", "exception"}

-----------------------------------------------------------------------------
(* Everybody else: people, GitHub and CI change the PR while the cycle runs *)

Event ==
  /\ pc # "done"
  /\ events < MaxEvents
  /\ events' = events + 1
  /\ UNCHANGED <<replies, params, pc, status, checks, todo, at, fix, fixShas, report,
                 outcome, pushed>>

Edit ==
  /\ \/ \E l \in Lives : pr' = [pr EXCEPT !.life = l]
     \/ \E m \in Merges : pr' = [pr EXCEPT !.merge = m]
     \/ \E v \in Reviews : pr' = [pr EXCEPT !.review = v]
  /\ UNCHANGED unresolved
  /\ Event

OthersPush ==
  /\ pr' = [pr EXCEPT !.head = @ + 1, !.ci = "none"]
  /\ UNCHANGED unresolved
  /\ Event

Discuss(t) ==
  /\ unresolved' \in {unresolved \cup {t}, unresolved \ {t}}
  /\ UNCHANGED pr
  /\ Event

\* CI has moved on with the head.
CiStep ==
  /\ pr.ci \in {"none", "pending"}
  /\ \E c \in {"pending", "failed", "passed"} : pr' = [pr EXCEPT !.ci = c]
  /\ UNCHANGED unresolved
  /\ Event

Others == Edit \/ OthersPush \/ CiStep \/ \E t \in Threads : Discuss(t)

Next == Cycle \/ Others

Spec == Init /\ [][Next]_vars

-----------------------------------------------------------------------------
(* Properties *)

\* An answer "Addressed in <commit>" names a commit the handler pushed for
\* that thread, even if somebody else pushed in between (babysit.py:799-816).
AnswerNamesFix ==
  \A r \in replies : \E p \in pushed : p.commit = r.commit /\ p.thread = r.thread

\* A thread the report counts as resolved was answered first
\* (babysit.py:816-838), if it can be answered at all.
ResolvedWasAnswered == resolved \ Unnumbered \subseteq {r.thread : r \in replies}

\* What the cycle tells the reviewers is so: the commit it names is the fix, and
\* no thread is closed without a word.
AnswersHold == AnswerNamesFix /\ ResolvedWasAnswered

\* A report of merge-ready rests on reads made after the last push of the
\* cycle: no failed or pending required check, nothing in the way of the
\* merge, no thread left (babysit.py:861-891).
HealthyIsFresh ==
  outcome = "healthy" =>
    /\ checks.ci \in {"none", "passed"}
    /\ status.merge \notin {"conflicting", "behind", "blocked", "unstable"}
    /\ remaining = 0
    /\ \A p \in pushed : p.commit <= checks.head /\ p.commit <= status.head

\* A report leaves no commit of the cycle in the dark: the thread it was
\* pushed for is resolved, or named among the residual blockers.
PushesAreReported ==
  outcome \notin {None, "exception"} =>
    \A p \in pushed : p.thread \in resolved \cup noted

\* The handler is not called again once the commits it told of reach the
\* budget, so they exceed it by less than one call.  (README.md:52 allows
\* three commits; that bound is for handlers that push one a call.)
OvershootBounded ==
  LET told == {p \in pushed : p.told}
  IN Cardinality(told) <= IF limit = 0 THEN 0 ELSE limit + PerCall - 1

\* Every commit of the handler is reported, and counted against the budget.
PushesAccounted == PushesAreReported /\ OvershootBounded

\* In a stack the next request is not worked on while its base, as last read,
\* has a failed check or conflicts, nor after an error, unless a reviewer holds
\* the base (babysit.py:1023-1036).
ChildrenWaitForBase ==
  pc = "done" /\ ~Deferred /\ outcome \notin {"changes_requested", "review_required"} =>
    /\ outcome # "exception"
    /\ checks # None => checks.ci # "failed"
    /\ status.merge # "conflicting" \/ status.life \in {"merged", "closed"}

=============================================================================
