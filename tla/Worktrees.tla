------------------------------ MODULE Worktrees ------------------------------
(***************************************************************************)
(* Worktrees of one repository and the processes that take them: claims of *)
(* issues and of pull requests (claim.py) and issue-to-PR runs             *)
(* (issue_to_pr.py).  Both ask "wh worktree create" (worktree.rs), which   *)
(* is several git commands, and give up on it when the bridge's time limit *)
(* passes: wh is then killed, the git command it runs is not.              *)
(*                                                                         *)
(* A commit is what it descends from: the HEAD of the checkout, the base   *)
(* branch, or work committed in a worktree or before.  Names, sandbox and  *)
(* symlink checks are taken to have passed.                                *)
(***************************************************************************)
EXTENDS FiniteSets

CONSTANTS
  Clients,   \* processes, each with one task
  Issues,
  None

ASSUME NoneAssumption ==
  /\ None \notin {"head", "base", "work"}
  /\ \A n \in Issues : None # <<"hive/gh", n>> /\ None # <<"feature/issue", n>>

Hive(n) == <<"hive/gh", n>>
Feature(n) == <<"feature/issue", n>>
Branches == {Hive(n) : n \in Issues} \cup {Feature(n) : n \in Issues}

IssueClaim(n) == [kind |-> "claim", job |-> <<"gh", n>>, branch |-> Hive(n)]
PrClaim(b) == [kind |-> "claim", job |-> <<"pr", b>>, branch |-> b]
IssueRun(n) == [kind |-> "issue", job |-> <<"issue", n>>, branch |-> Feature(n)]
Tasks == {IssueClaim(n) : n \in Issues} \cup {PrClaim(b) : b \in Branches}
           \cup {IssueRun(n) : n \in Issues}
Jobs == {t.job : t \in Tasks}
Commits == {"head", "base", "work"}

VARIABLES
  tip,      \* refs/heads
  tree,     \* job -> the branch checked out in its worktree
  remote,   \* the remote's branches
  prs,      \* branches with an open pull request
  task, pc,
  made,     \* the client's wh has created the branch
  killed,   \* the client has given up on its wh, whose git command goes on
  used,     \* branches that were there, handed out or made on purpose
  left      \* branches a failed create could not take back (nobody's state)

vars == <<tip, tree, remote, prs, task, pc, made, killed, used, left>>
github == <<remote, prs>>

Creating == {"look", "make", "add", "rollback"}
Holding == {"held", "created", "pushed", "opened"}

Branch(c) == task[c].branch
Job(c) == task[c].job
CheckedOut(b) == \E j \in Jobs : tree[j] = b

TypeOK ==
  /\ tip \in [Branches -> Commits \cup {None}]
  /\ tree \in [Jobs -> Branches \cup {None}]
  /\ remote \in [Branches -> Commits \cup {None}]
  /\ prs \subseteq Branches
  /\ task \in [Clients -> Tasks]
  /\ pc \in [Clients -> {"start", "done", "failed", "lost"} \cup Creating \cup Holding]
  /\ made \in [Clients -> BOOLEAN]
  /\ killed \in [Clients -> BOOLEAN]
  /\ used \subseteq Branches
  /\ left \subseteq Branches
  \* Every worktree has its branch, and no two have the same.
  /\ \A j \in Jobs : tree[j] # None => tip[tree[j]] # None
  /\ \A i, j \in Jobs : tree[i] # None /\ tree[i] = tree[j] => i = j

\* Branches may be left from earlier, here and on the remote.
Init ==
  /\ tip \in [Branches -> {None, "work"}]
  /\ tree = [j \in Jobs |-> None]
  /\ remote \in [Branches -> {None, "work"}]
  /\ prs = {}
  /\ task \in [Clients -> Tasks]
  /\ pc = [c \in Clients |-> "start"]
  /\ made = [c \in Clients |-> FALSE]
  /\ killed = [c \in Clients |-> FALSE]
  /\ used = {b \in Branches : tip[b] # None}
  /\ left = {}

-----------------------------------------------------------------------------
Goto(c, place) == pc' = [pc EXCEPT ![c] = place]

\* The next place of a wh, unless it was killed meanwhile.
Proceed(c, place) == Goto(c, IF killed[c] THEN "lost" ELSE place)

\* A claim looks whether the worktree is there before it asks for it.
Claim(c) ==
  /\ pc[c] = "start" /\ task[c].kind = "claim"
  /\ Goto(c, IF tree[Job(c)] = None THEN "look" ELSE "failed")
  /\ UNCHANGED <<tip, tree, github, task, made, killed, used, left>>

\* An issue-to-PR run first puts its branch on the base branch; git refuses to
\* move a branch that is checked out.  The base may be missing, git may fail.
EnsureMutant(c) ==
  /\ pc[c] = "start" /\ task[c].kind = "issue"
  /\ \/ /\ tip' = [tip EXCEPT ![Branch(c)] = "base"]
        /\ used' = used \cup {Branch(c)}
        /\ Goto(c, "look")
     \/ Goto(c, "failed") /\ UNCHANGED <<tip, used>>
  /\ UNCHANGED <<tree, github, task, made, killed, left>>

EnsureMissingMutant(c) ==
  /\ pc[c] = "start" /\ task[c].kind = "issue"
  /\ \/ /\ ~CheckedOut(Branch(c))
        /\ tip' = [tip EXCEPT ![Branch(c)] = IF @ = None THEN "base" ELSE @]
        /\ used' = used \cup {Branch(c)}
        /\ Goto(c, "look")
     \/ Goto(c, "failed") /\ UNCHANGED <<tip, used>>
  /\ UNCHANGED <<tree, github, task, made, killed, left>>

Ensure(c) ==
  /\ pc[c] = "start" /\ task[c].kind = "issue"
  /\ \/ /\ ~CheckedOut(Branch(c))
        /\ tip' = [tip EXCEPT ![Branch(c)] = "base"]
        /\ used' = used \cup {Branch(c)}
        /\ Goto(c, "look")
     \/ Goto(c, "failed") /\ UNCHANGED <<tip, used>>
  /\ UNCHANGED <<tree, github, task, made, killed, left>>

-----------------------------------------------------------------------------
(* WorktreeManager::create, one action per git command                     *)

\* A git that fails to look says the branch is missing; one that cannot be
\* started ends the create.
Look(c) ==
  /\ pc[c] = "look"
  /\ \/ tip[Branch(c)] # None /\ Proceed(c, "add")
     \/ Proceed(c, "make") \/ Proceed(c, "failed")
  /\ UNCHANGED <<tip, tree, github, task, made, killed, used, left>>

MakeMutant(c) ==
  /\ pc[c] = "make"
  /\ \/ /\ tip[Branch(c)] = None
        /\ tip' = [tip EXCEPT ![Branch(c)] = "head"]
        /\ Proceed(c, "add")
     \/ Proceed(c, "failed") /\ UNCHANGED tip
  /\ UNCHANGED <<tree, github, task, made, killed, used, left>>

\* git branch fails if another process has made the branch meanwhile.
Make(c) ==
  /\ pc[c] = "make"
  /\ \/ /\ tip[Branch(c)] = None
        /\ tip' = [tip EXCEPT ![Branch(c)] = "head"]
        /\ made' = [made EXCEPT ![c] = TRUE]
        /\ Proceed(c, "add")
     \/ Proceed(c, "failed") /\ UNCHANGED <<tip, made>>
  /\ UNCHANGED <<tree, github, task, killed, used, left>>

Created(c) == IF task[c].kind = "claim" THEN "held" ELSE "created"

\* What git worktree add checks out: the branch or, if it has gone, the branch
\* the remote has under this name.
Target(b) == IF tip[b] # None THEN tip[b] ELSE remote[b]

\* It fails and takes its worktree back, but not a branch it has just made from
\* the remote's.
AddFails(c) ==
  /\ pc[c] = "add"
  /\ \/ UNCHANGED <<tip, left>>
     \/ /\ tip[Branch(c)] = None /\ remote[Branch(c)] # None
        /\ tip' = [tip EXCEPT ![Branch(c)] = remote[Branch(c)]]
        /\ left' = left \cup {Branch(c)}
  /\ Proceed(c, IF made[c] THEN "rollback" ELSE "failed")
  /\ UNCHANGED <<tree, github, task, made, killed, used>>

\* git worktree add cannot be started: create returns before it would roll back.
AddNotStarted(c) ==
  /\ pc[c] = "add" /\ ~killed[c]
  /\ left' = IF made[c] THEN left \cup {Branch(c)} ELSE left
  /\ Goto(c, "failed")
  /\ UNCHANGED <<tip, tree, github, task, made, killed, used>>

AddMutant(c) ==   \* git worktree add --force
  /\ pc[c] = "add"
  /\ tree[Job(c)] = None /\ Target(Branch(c)) # None
  /\ tip' = [tip EXCEPT ![Branch(c)] = Target(Branch(c))]
  /\ tree' = [tree EXCEPT ![Job(c)] = Branch(c)]
  /\ used' = used \cup {Branch(c)}
  /\ Proceed(c, Created(c))
  /\ UNCHANGED <<github, task, made, killed, left>>

\* The worktree is added if its path is free and nobody has the branch.
Add(c) ==
  /\ pc[c] = "add"
  /\ tree[Job(c)] = None /\ ~CheckedOut(Branch(c)) /\ Target(Branch(c)) # None
  /\ tip' = [tip EXCEPT ![Branch(c)] = Target(Branch(c))]
  /\ tree' = [tree EXCEPT ![Job(c)] = Branch(c)]
  /\ used' = used \cup {Branch(c)}
  /\ Proceed(c, Created(c))
  /\ UNCHANGED <<github, task, made, killed, left>>

\* git branch -D: refused while some worktree has the branch.
Rollback(c) ==
  /\ pc[c] = "rollback"
  /\ tip' = [tip EXCEPT ![Branch(c)] = IF CheckedOut(Branch(c)) THEN @ ELSE None]
  /\ Proceed(c, "failed")
  /\ UNCHANGED <<tree, github, task, made, killed, used, left>>

\* git branch -D cannot be started or fails: nobody looks at how it ends.
RollbackFails(c) ==
  /\ pc[c] = "rollback"
  /\ left' = left \cup {Branch(c)}
  /\ Proceed(c, "failed")
  /\ UNCHANGED <<tip, tree, github, task, made, killed, used>>

\* The bridge's time limit passes: wh dies between two commands, or during one
\* that then comes to its end on its own.
Kill(c) ==
  /\ pc[c] \in Creating /\ ~killed[c]
  /\ killed' = [killed EXCEPT ![c] = TRUE]
  /\ Goto(c, "lost") \/ (pc[c] # "look" /\ UNCHANGED pc)
  /\ UNCHANGED <<tip, tree, github, task, made, used, left>>

-----------------------------------------------------------------------------
(* What the clients do with their worktrees                                *)

\* The owner of a claim commits.
Work(c) ==
  /\ pc[c] = "held"
  /\ tip' = [tip EXCEPT ![Branch(c)] = "work"]
  /\ UNCHANGED <<tree, github, task, pc, made, killed, used, left>>

\* It cleans up: the worktree goes, the branch stays.
Cleanup(c) ==
  /\ pc[c] = "held"
  /\ tree' = [tree EXCEPT ![Job(c)] = None]
  /\ Goto(c, "done")
  /\ UNCHANGED <<tip, github, task, made, killed, used, left>>

\* A client dies and leaves its worktree behind.
Die(c) ==
  /\ pc[c] \in {"held", "created", "pushed"}
  /\ Goto(c, "lost")
  /\ UNCHANGED <<tip, tree, github, task, made, killed, used, left>>

\* A push without force; it may fail, and a push that took effect may be
\* reported as timed out.
Push(c) ==
  /\ pc[c] = "created"
  /\ \/ /\ remote[Branch(c)] # "work" \/ tip[Branch(c)] = "work"
        /\ remote' = [remote EXCEPT ![Branch(c)] = tip[Branch(c)]]
        /\ Goto(c, "pushed") \/ Goto(c, "failed")
     \/ Goto(c, "failed") /\ UNCHANGED remote
  /\ UNCHANGED <<tip, tree, prs, task, made, killed, used, left>>

\* gh pr create; GitHub has at most one open pull request for a branch.
OpenPr(c) ==
  /\ pc[c] = "pushed"
  /\ \/ /\ Branch(c) \notin prs
        /\ prs' = prs \cup {Branch(c)}
        /\ Goto(c, "opened") \/ Goto(c, "failed")
     \/ Goto(c, "failed") /\ UNCHANGED prs
  /\ UNCHANGED <<tip, tree, remote, task, made, killed, used, left>>

Next == \E c \in Clients :
  \/ Claim(c) \/ Ensure(c)
  \/ Look(c) \/ Make(c) \/ Add(c) \/ AddFails(c) \/ AddNotStarted(c)
  \/ Rollback(c) \/ RollbackFails(c) \/ Kill(c)
  \/ Work(c) \/ Cleanup(c) \/ Die(c) \/ Push(c) \/ OpenPr(c)

Spec == Init /\ [][Next]_vars

-----------------------------------------------------------------------------
\* A client that was given a worktree has it: it stands at the client's path on
\* the client's branch, and no other client was given that path or branch,
\* although claims look and create in two steps (claim.py:296, worktree.rs:104).
HoldersHaveTheirTree ==
  \A c \in Clients : pc[c] \in Holding =>
    /\ tree[Job(c)] = Branch(c)
    /\ \A d \in Clients \ {c} :
         pc[d] \in Holding => Job(d) # Job(c) /\ Branch(d) # Branch(c)

\* Who made a branch and has not rolled it back is still at work or was killed.
AtWork(b) == \E c \in Clients : made[c] /\ Branch(c) = b /\ pc[c] \in Creating \cup {"lost"}

\* A create that fails takes back the branch it made, whoever else looks, makes
\* and adds meanwhile: every branch was there before, was handed
\* out with a worktree, was made by a run or has its creator at work or killed.
\* The exceptions are those of left: a git that could not be started or failed
\* while create was giving up (worktree.rs:121-136).
NoStrayBranches ==
  \A b \in Branches : tip[b] # None => b \in used \cup left \/ AtWork(b)

\* While a branch is checked out only the owner of the worktree moves it; no
\* rollback and no run that resets its branch does (issue_to_pr.py:346).
CheckedOutTipsAreSafe ==
  [][\A j \in Jobs :
       tree[j] # None /\ tree'[j] = tree[j] =>
         \/ tip'[tree[j]] = tip[tree[j]]
         \/ \E c \in Clients : pc[c] = "held" /\ Job(c) = j]_vars

\* A run that has pushed has pushed the base branch and nothing of a stale
\* branch or of the checkout's HEAD, if only runs take its branch
\* (issue_to_pr.py:232-236).
PushesBase ==
  \A c \in Clients :
    /\ pc[c] \in {"pushed", "opened"}
    /\ \A d \in Clients : Branch(d) = Branch(c) => task[d].kind = "issue"
    => remote[Branch(c)] = "base"

=============================================================================
