--------------------------- MODULE WorktreesProofs ---------------------------
(***************************************************************************)
(* Proofs about Worktrees for any clients and issues.                      *)
(***************************************************************************)
EXTENDS Worktrees, TLAPS

-----------------------------------------------------------------------------
(* The inductive invariant *)

\* A create that has not made its branch has nothing to roll back; a branch
\* that is checked out was handed out.
Making ==
  /\ \A c \in Clients : pc[c] \in {"start", "look", "make"} => ~made[c]
  /\ \A c \in Clients : pc[c] = "rollback" => made[c]
  /\ \A j \in Jobs : tree[j] # None => tree[j] \in used
  /\ \A c \in Clients : task[c].kind = "claim" <=> task[c].kind # "issue"
  /\ \A c \in Clients : pc[c] \in {"created", "pushed", "opened"} => task[c].kind = "issue"
  /\ \A c \in Clients : pc[c] = "held" => task[c].kind = "claim"

OnlyRuns(b) == \A c \in Clients : Branch(c) = b => task[c].kind = "issue"

\* From its first step on a run keeps its branch on the base branch, if only
\* runs take it.
OnBase ==
  \A c \in Clients : OnlyRuns(Branch(c)) =>
    /\ ~made[c]
    /\ pc[c] \in Creating \cup Holding => tip[Branch(c)] = "base"
    /\ pc[c] \in {"pushed", "opened"} => remote[Branch(c)] = "base"

IInv == TypeOK /\ Making /\ HoldersHaveTheirTree /\ NoStrayBranches /\ OnBase

LEMMA TaskParts ==
  \A t \in Tasks : t.job \in Jobs /\ t.branch \in Branches
                     /\ (t.kind = "claim" <=> t.kind # "issue")
<1> SUFFICES ASSUME NEW t \in Tasks
             PROVE  t.job \in Jobs /\ t.branch \in Branches
                      /\ (t.kind = "claim" <=> t.kind # "issue")
  OBVIOUS
<1>1. t.job \in Jobs
  BY DEF Jobs
<1>2. t.branch \in Branches /\ (t.kind = "claim" <=> t.kind # "issue")
  BY DEF Tasks, IssueClaim, PrClaim, IssueRun, Branches
<1> QED
  BY <1>1, <1>2

LEMMA Own == TypeOK => \A c \in Clients : Job(c) \in Jobs /\ Branch(c) \in Branches
  BY TaskParts DEF TypeOK, Job, Branch

LEMMA NoneApart == None \notin Commits /\ None \notin Branches
  BY NoneAssumption DEF Commits, Branches, Hive, Feature

LEMMA InitIInv == Init => IInv
<1> SUFFICES ASSUME Init PROVE IInv
  OBVIOUS
<1> USE NoneApart
<1>1. TypeOK
  BY DEF Init, TypeOK, Commits
<1>2. Making
  BY TaskParts DEF Init, Making
<1>3. HoldersHaveTheirTree /\ NoStrayBranches /\ OnBase
  BY <1>1 DEF Init, HoldersHaveTheirTree, NoStrayBranches, OnBase, Holding, Creating
<1> QED
  BY <1>1, <1>2, <1>3 DEF IInv

-----------------------------------------------------------------------------
(* Every step preserves it *)

\* The actions of a client, by what they may change.
Quiet(c) ==
  Claim(c) \/ Look(c) \/ AddNotStarted(c) \/ RollbackFails(c) \/ Kill(c) \/ Die(c)
Tips(c) == Ensure(c) \/ Make(c) \/ AddFails(c) \/ Rollback(c) \/ Work(c)
Trees(c) == Add(c) \/ Cleanup(c)
Remotes(c) == Push(c) \/ OpenPr(c)

LEMMA NextCases ==
  ASSUME [Next]_vars
  PROVE  (\E c \in Clients : Quiet(c) \/ Tips(c) \/ Trees(c) \/ Remotes(c)) \/ UNCHANGED vars
  BY DEF Next, Quiet, Tips, Trees, Remotes

\* A client only moves itself.
LEMMA Moves ==
  ASSUME IInv, NEW c \in Clients, Quiet(c) \/ Tips(c) \/ Trees(c) \/ Remotes(c)
  PROVE  /\ task' = task /\ \A d \in Clients \ {c} : pc'[d] = pc[d]
         /\ pc' \in [Clients -> {"start", "done", "failed", "lost"} \cup Creating \cup Holding]
  BY DEF Quiet, Claim, Look, AddNotStarted, RollbackFails, Kill, Die, Tips, Ensure,
     Make, AddFails, Rollback, Work, Trees, Add, Cleanup, Remotes, Push, OpenPr, Goto,
     Proceed, Created, IInv, TypeOK, Creating, Holding

LEMMA NextTypeOK ==
  ASSUME IInv, NEW c \in Clients, Quiet(c) \/ Tips(c) \/ Trees(c) \/ Remotes(c)
  PROVE  TypeOK'
<1> USE NoneApart
<1>1. /\ TypeOK /\ Job(c) \in Jobs /\ Branch(c) \in Branches /\ task' = task
      /\ pc' \in [Clients -> {"start", "done", "failed", "lost"} \cup Creating \cup Holding]
  BY Own, Moves DEF IInv
<1>2. CASE Quiet(c)
  BY <1>1, <1>2 DEF TypeOK, Quiet, Claim, Look, AddNotStarted, RollbackFails, Kill,
     Die, github
<1>3. CASE Tips(c)
  <2>1. tip' \in [Branches -> Commits \cup {None}] /\ tree' = tree
    BY <1>1, <1>3 DEF TypeOK, Tips, Ensure, Make, AddFails, Rollback, Work, Commits
  <2>2. \A j \in Jobs : tree[j] # None => tip'[tree[j]] # None
    BY <1>1, <1>3 DEF TypeOK, Tips, Ensure, Make, AddFails, Rollback, Work, CheckedOut,
       Commits
  <2> QED
    BY <1>1, <1>3, <2>1, <2>2 DEF TypeOK, Tips, Ensure, Make, AddFails, Rollback, Work,
       github
<1>4. CASE Add(c)
  BY <1>1, <1>4 DEF TypeOK, Add, Target, CheckedOut, github
<1>5. CASE Cleanup(c)
  BY <1>1, <1>5 DEF TypeOK, Cleanup, github
<1>6. CASE Remotes(c)
  BY <1>1, <1>6 DEF TypeOK, Remotes, Push, OpenPr
<1> QED
  BY <1>2, <1>3, <1>4, <1>5, <1>6 DEF Trees

LEMMA NextMaking ==
  ASSUME IInv, NEW c \in Clients, Quiet(c) \/ Tips(c) \/ Trees(c) \/ Remotes(c)
  PROVE  Making'
<1>1. /\ TypeOK /\ Making /\ Job(c) \in Jobs /\ Branch(c) \in Branches /\ task' = task
  BY Own, Moves DEF IInv
<1>2. CASE Quiet(c)
  BY <1>1, <1>2 DEF TypeOK, Making, Quiet, Claim, Look, AddNotStarted, RollbackFails,
     Kill, Die, Goto, Proceed, Creating
<1>3. CASE Tips(c)
  BY <1>1, <1>3 DEF TypeOK, Making, Tips, Ensure, Make, AddFails, Rollback, Work, Goto,
     Proceed
<1>4. CASE Trees(c)
  BY <1>1, <1>4 DEF TypeOK, Making, Trees, Add, Cleanup, Goto, Proceed, Created
<1>5. CASE Remotes(c)
  BY <1>1, <1>5 DEF TypeOK, Making, Remotes, Push, OpenPr, Goto
<1> QED
  BY <1>2, <1>3, <1>4, <1>5

LEMMA NextHolders ==
  ASSUME IInv, NEW c \in Clients, Quiet(c) \/ Tips(c) \/ Trees(c) \/ Remotes(c)
  PROVE  HoldersHaveTheirTree'
<1> USE NoneApart
<1>1. /\ TypeOK /\ HoldersHaveTheirTree /\ task' = task
      /\ \A d \in Clients : Job(d) \in Jobs /\ Branch(d) \in Branches
      /\ \A d \in Clients \ {c} : pc'[d] = pc[d]
      /\ pc \in [Clients -> {"start", "done", "failed", "lost"} \cup Creating \cup Holding]
  BY Own, Moves DEF IInv, TypeOK
<1>2. ASSUME tree' = tree, pc'[c] \in Holding => pc[c] \in Holding
      PROVE  HoldersHaveTheirTree'
  BY <1>1, <1>2 DEF HoldersHaveTheirTree, Job, Branch
<1>3. CASE Quiet(c) \/ Tips(c) \/ Remotes(c)
  <2>1. tree' = tree
    BY <1>3 DEF Quiet, Claim, Look, AddNotStarted, RollbackFails, Kill, Die, Tips,
       Ensure, Make, AddFails, Rollback, Work, Remotes, Push, OpenPr
  <2>2. pc'[c] \in Holding => pc[c] \in Holding
    BY <1>1, <1>3 DEF Quiet, Claim, Look, AddNotStarted, RollbackFails, Kill, Die,
       Tips, Ensure, Make, AddFails, Rollback, Work, Remotes, Push, OpenPr, Goto,
       Proceed, Holding
  <2> QED
    BY <1>2, <2>1, <2>2
<1>4. CASE Add(c)
  <2>1. \A d \in Clients \ {c} : pc[d] \in Holding => Job(d) # Job(c) /\ Branch(d) # Branch(c)
    BY <1>1, <1>4 DEF Add, CheckedOut, HoldersHaveTheirTree
  <2>2. tree' = [tree EXCEPT ![Job(c)] = Branch(c)] /\ tree \in [Jobs -> Branches \cup {None}]
    BY <1>1, <1>4 DEF Add, TypeOK
  <2> QED
    BY <1>1, <2>1, <2>2 DEF HoldersHaveTheirTree, Job, Branch
<1>5. CASE Cleanup(c)
  <2>1. /\ pc[c] = "held" /\ pc'[c] = "done"
        /\ tree' = [tree EXCEPT ![Job(c)] = None] /\ tree \in [Jobs -> Branches \cup {None}]
    BY <1>1, <1>5 DEF Cleanup, Goto, TypeOK
  <2> QED
    BY <1>1, <2>1 DEF HoldersHaveTheirTree, Job, Branch, Holding
<1> QED
  BY <1>3, <1>4, <1>5 DEF Trees

\* The client has made a branch that it has not rolled back.
Blamed(c) == made[c] /\ pc[c] \in Creating \cup {"lost"}

LEMMA NextNoStray ==
  ASSUME IInv, NEW c \in Clients, Quiet(c) \/ Tips(c) \/ Trees(c) \/ Remotes(c)
  PROVE  NoStrayBranches'
<1> USE NoneApart
<1>1. /\ TypeOK /\ NoStrayBranches /\ Making /\ task' = task
      /\ \A d \in Clients : Job(d) \in Jobs /\ Branch(d) \in Branches
      /\ \A d \in Clients \ {c} : pc'[d] = pc[d]
  BY Own, Moves DEF IInv
\* It is enough to look at the branch of the client that moves.
<1>2. ASSUME used \subseteq used', left \subseteq left',
             \A d \in Clients \ {c} : made'[d] = made[d],
             \A b \in Branches \ {Branch(c)} : tip'[b] = tip[b],
             \/ tip'[Branch(c)] = None
             \/ Branch(c) \in used' \cup left'
             \/ Blamed(c)'
             \/ tip'[Branch(c)] = tip[Branch(c)] /\ ~Blamed(c)
      PROVE  NoStrayBranches'
  <2>1. SUFFICES ASSUME NEW b \in Branches, tip'[b] # None, b \notin used' \cup left'
                 PROVE  AtWork(b)'
    BY DEF NoStrayBranches
  <2>2. ASSUME b = Branch(c), Blamed(c)' PROVE AtWork(b)'
    BY <1>1, <2>2 DEF AtWork, Blamed, Branch
  <2>3. ASSUME tip'[b] = tip[b], b # Branch(c) \/ ~Blamed(c) PROVE AtWork(b)'
    <3>1. AtWork(b)
      BY <1>1, <1>2, <2>1, <2>3 DEF NoStrayBranches
    <3>2. PICK d \in Clients : Blamed(d) /\ Branch(d) = b
      BY <3>1 DEF AtWork, Blamed
    <3>3. d # c
      BY <2>3, <3>2
    <3> QED
      BY <1>1, <1>2, <3>2, <3>3 DEF AtWork, Blamed, Branch
  <2> QED
    BY <1>2, <2>1, <2>2, <2>3
<1>3. CASE Quiet(c)
  <2>1. /\ tip' = tip /\ used' = used /\ left \subseteq left' /\ made' = made
    BY <1>3 DEF Quiet, Claim, Look, AddNotStarted, RollbackFails, Kill, Die
  <2>2. CASE Claim(c) \/ Look(c) \/ Die(c)
    <3>1. ~Blamed(c)
      BY <1>1, <2>2 DEF Making, Claim, Look, Die, Blamed, Creating
    <3> QED
      BY <1>1, <1>2, <2>1, <3>1
  <2>3. CASE Kill(c)
    <3>1. Blamed(c) => Blamed(c)'
      BY <1>1, <2>1, <2>3 DEF TypeOK, Kill, Goto, Blamed, Creating
    <3> QED
      BY <1>1, <1>2, <2>1, <3>1
  <2>4. CASE AddNotStarted(c) \/ RollbackFails(c)
    <3>1. Branch(c) \in left' \/ ~Blamed(c)
      BY <2>4 DEF AddNotStarted, RollbackFails, Blamed
    <3> QED
      BY <1>1, <1>2, <2>1, <3>1
  <2> QED
    BY <1>3, <2>2, <2>3, <2>4 DEF Quiet
<1>4. CASE Remotes(c)
  <2>1. tip' = tip /\ used' = used /\ left' = left /\ made' = made /\ ~Blamed(c)
    BY <1>1, <1>4 DEF Remotes, Push, OpenPr, Creating, Blamed
  <2> QED
    BY <1>1, <1>2, <2>1
<1>5. CASE Ensure(c) \/ Make(c)
  <2>1. /\ ~Blamed(c) /\ used \subseteq used' /\ left' = left
        /\ \A d \in Clients \ {c} : made'[d] = made[d]
        /\ \A b \in Branches \ {Branch(c)} : tip'[b] = tip[b]
    BY <1>1, <1>5 DEF TypeOK, Making, Ensure, Make, Blamed
  <2>2. tip' = tip \/ Branch(c) \in used' \/ Blamed(c)'
    BY <1>1, <1>5 DEF TypeOK, Ensure, Make, Goto, Proceed, Creating, Blamed
  <2> QED
    BY <1>1, <1>2, <2>1, <2>2
<1>6. CASE AddFails(c)
  <2>1. /\ used' = used /\ left \subseteq left' /\ made' = made
        /\ \A b \in Branches \ {Branch(c)} : tip'[b] = tip[b]
        /\ Branch(c) \in left' \/ tip' = tip
    BY <1>1, <1>6 DEF TypeOK, AddFails
  <2>2. Blamed(c) => Blamed(c)'
    BY <1>1, <1>6 DEF TypeOK, AddFails, Goto, Proceed, Creating, Blamed
  <2> QED
    BY <1>1, <1>2, <2>1, <2>2
<1>7. CASE Rollback(c)
  <2>1. /\ made' = made /\ used' = used /\ left' = left
        /\ \A b \in Branches \ {Branch(c)} : tip'[b] = tip[b]
        /\ Branch(c) \in used \/ tip'[Branch(c)] = None
    BY <1>1, <1>7 DEF TypeOK, Making, Rollback, CheckedOut
  <2> QED
    BY <1>1, <1>2, <2>1
<1>8. CASE Work(c)
  <2>1. /\ Branch(c) \in used
        /\ made' = made /\ used' = used /\ left' = left
        /\ \A b \in Branches \ {Branch(c)} : tip'[b] = tip[b]
    BY <1>1, <1>8 DEF IInv, TypeOK, Making, Work, HoldersHaveTheirTree, Holding
  <2> QED
    BY <1>1, <1>2, <2>1
<1>9. CASE Add(c)
  <2>1. /\ made' = made /\ used' = used \cup {Branch(c)} /\ left' = left
        /\ \A b \in Branches \ {Branch(c)} : tip'[b] = tip[b]
    BY <1>1, <1>9 DEF TypeOK, Add
  <2> QED
    BY <1>1, <1>2, <2>1
<1>10. CASE Cleanup(c)
  <2>1. tip' = tip /\ used' = used /\ left' = left /\ made' = made /\ ~Blamed(c)
    BY <1>1, <1>10 DEF Cleanup, Creating, Blamed
  <2> QED
    BY <1>1, <1>2, <2>1
<1> QED
  BY <1>3, <1>4, <1>5, <1>6, <1>7, <1>8, <1>9, <1>10 DEF Tips, Trees

LEMMA NextOnBase ==
  ASSUME IInv, NEW c \in Clients, Quiet(c) \/ Tips(c) \/ Trees(c) \/ Remotes(c)
  PROVE  OnBase'
<1> USE NoneApart
<1>1. /\ TypeOK /\ OnBase /\ Making /\ task' = task
      /\ \A d \in Clients : Job(d) \in Jobs /\ Branch(d) \in Branches
      /\ \A d \in Clients \ {c} : pc'[d] = pc[d]
  BY Own, Moves DEF IInv
<1>2. SUFFICES ASSUME NEW d \in Clients, OnlyRuns(Branch(d))
               PROVE  /\ ~made'[d]
                      /\ pc'[d] \in Creating \cup Holding => tip'[Branch(d)] = "base"
                      /\ pc'[d] \in {"pushed", "opened"} => remote'[Branch(d)] = "base"
  BY <1>1 DEF OnBase, OnlyRuns, Branch
<1>3. /\ ~made[d]
      /\ pc[d] \in Creating \cup Holding => tip[Branch(d)] = "base"
      /\ pc[d] \in {"pushed", "opened"} => remote[Branch(d)] = "base"
  BY <1>1, <1>2 DEF OnBase
\* A step of a client of another branch leaves this one alone.
<1>4. CASE Branch(c) # Branch(d)
  <2>1. c # d /\ made'[d] = made[d] /\ pc'[d] = pc[d]
    <3>1. CASE Quiet(c)
      BY <1>1, <1>4, <3>1 DEF TypeOK, Quiet, Claim, Look, AddNotStarted, RollbackFails,
         Kill, Die, github
    <3>2. CASE Tips(c)
      BY <1>1, <1>4, <3>2 DEF TypeOK, Tips, Ensure, Make, AddFails, Rollback, Work, github
    <3>3. CASE Trees(c) \/ Remotes(c)
      BY <1>1, <1>4, <3>3 DEF TypeOK, Trees, Add, Cleanup, Remotes, Push, OpenPr, github
    <3> QED
      BY <3>1, <3>2, <3>3
  <2>2. tip'[Branch(d)] = tip[Branch(d)] /\ remote'[Branch(d)] = remote[Branch(d)]
    <3>1. CASE Quiet(c)
      BY <1>1, <1>4, <3>1 DEF TypeOK, Quiet, Claim, Look, AddNotStarted, RollbackFails,
         Kill, Die, github
    <3>2. CASE Tips(c)
      BY <1>1, <1>4, <3>2 DEF TypeOK, Tips, Ensure, Make, AddFails, Rollback, Work, github
    <3>3. CASE Trees(c) \/ Remotes(c)
      BY <1>1, <1>4, <3>3 DEF TypeOK, Trees, Add, Cleanup, Remotes, Push, OpenPr, github
    <3> QED
      BY <3>1, <3>2, <3>3
  <2> QED
    BY <1>3, <2>1, <2>2
\* One of this branch is a run too.
<1>5. CASE Branch(c) = Branch(d)
  <2>1. /\ task[c].kind = "issue" /\ ~made[c]
        /\ pc[c] \in Creating \cup Holding => tip[Branch(d)] = "base"
        /\ pc[c] \in {"pushed", "opened"} => remote[Branch(d)] = "base"
    BY <1>1, <1>2, <1>5 DEF OnBase, OnlyRuns
  <2>2. pc[c] # "held"
    BY <1>1, <2>1 DEF Making
  <2>3. CASE Quiet(c)
    BY <1>1, <1>3, <1>5, <2>1, <2>3 DEF TypeOK, Quiet, Claim, Look, AddNotStarted,
       RollbackFails, Kill, Die, Goto, Proceed, github, Creating, Holding
  <2>4. CASE Ensure(c)
    BY <1>1, <1>3, <1>5, <2>1, <2>4 DEF TypeOK, Ensure, Goto, github, Creating, Holding
  <2>5. CASE Make(c)
    BY <1>1, <1>3, <1>5, <2>1, <2>5 DEF TypeOK, Make, Goto, Proceed, github, Creating,
       Holding, Commits
  <2>6. CASE AddFails(c)
    BY <1>1, <1>3, <1>5, <2>1, <2>6 DEF TypeOK, AddFails, Goto, Proceed, github, Creating,
       Holding, Commits
  <2>11. CASE Rollback(c)
    BY <1>1, <2>1, <2>11 DEF Making, Rollback
  <2>7. CASE Work(c) \/ Cleanup(c)
    BY <2>2, <2>7 DEF Work, Cleanup
  <2>8. CASE Add(c)
    BY <1>1, <1>3, <1>5, <2>1, <2>8 DEF TypeOK, Add, Target, Goto, Proceed, Created,
       github, Creating, Holding, Commits
  <2>9. CASE Push(c)
    BY <1>1, <1>3, <1>5, <2>1, <2>9 DEF TypeOK, Push, Goto, Creating, Holding, Commits
  <2>10. CASE OpenPr(c)
    BY <1>1, <1>3, <1>5, <2>1, <2>10 DEF TypeOK, OpenPr, Goto, Creating, Holding
  <2> QED
    BY <2>3, <2>4, <2>5, <2>6, <2>7, <2>8, <2>9, <2>10, <2>11
       DEF Tips, Trees, Remotes
<1> QED
  BY <1>4, <1>5

LEMMA Invariance == Spec => []IInv
<1>1. ASSUME IInv, [Next]_vars PROVE IInv'
  <2>1. ASSUME NEW c \in Clients, Quiet(c) \/ Tips(c) \/ Trees(c) \/ Remotes(c) PROVE IInv'
    BY <1>1, <2>1, NextTypeOK, NextMaking, NextHolders, NextNoStray, NextOnBase DEF IInv
  <2>2. CASE UNCHANGED vars
    BY <1>1, <2>2 DEF IInv, TypeOK, Making, HoldersHaveTheirTree, NoStrayBranches, AtWork,
       OnBase, OnlyRuns, Job, Branch, vars, github
  <2> QED
    BY <1>1, <2>1, <2>2, NextCases
<1> QED
  BY InitIInv, <1>1, PTL DEF Spec

-----------------------------------------------------------------------------
(* The theorems *)

\* Every worktree has its branch and no two worktrees share one.
THEOREM TypesHold == Spec => []TypeOK
<1>1. IInv => TypeOK
  BY DEF IInv
<1> QED
  BY <1>1, Invariance, PTL

\* However many processes look and create at once, what one was given is its.
THEOREM WorktreesAreExclusive == Spec => []HoldersHaveTheirTree
<1>1. IInv => HoldersHaveTheirTree
  BY DEF IInv
<1> QED
  BY <1>1, Invariance, PTL

\* A create that fails takes its branch back, whoever else is at work, unless a
\* git command fails while it gives up or it is killed.
THEOREM CreatesRollBack == Spec => []NoStrayBranches
<1>1. IInv => NoStrayBranches
  BY DEF IInv
<1> QED
  BY <1>1, Invariance, PTL

\* Runs among themselves push the base branch and nothing else.
THEOREM RunsPushTheBase == Spec => []PushesBase
<1>1. IInv => PushesBase
  BY DEF IInv, OnBase, OnlyRuns, PushesBase
<1> QED
  BY <1>1, Invariance, PTL

\* Only its owner moves a branch that is checked out.
THEOREM CheckedOutTipsStay == Spec => CheckedOutTipsAreSafe
<1>1. ASSUME IInv, [Next]_vars
      PROVE  \A j \in Jobs :
               tree[j] # None /\ tree'[j] = tree[j] =>
                 \/ tip'[tree[j]] = tip[tree[j]]
                 \/ \E c \in Clients : pc[c] = "held" /\ Job(c) = j
  <2> SUFFICES ASSUME NEW j \in Jobs, tree[j] # None, tree'[j] = tree[j]
               PROVE  \/ tip'[tree[j]] = tip[tree[j]]
                      \/ \E c \in Clients : pc[c] = "held" /\ Job(c) = j
    OBVIOUS
  <2>1. TypeOK /\ CheckedOut(tree[j]) /\ tree[j] \in Branches
    BY <1>1 DEF IInv, TypeOK, CheckedOut
  <2>2. ASSUME NEW c \in Clients, Ensure(c) \/ Make(c) \/ AddFails(c) \/ Rollback(c)
        PROVE  tip'[tree[j]] = tip[tree[j]]
    BY <2>1, <2>2, Own DEF TypeOK, Ensure, Make, AddFails, Rollback
  <2>3. ASSUME NEW c \in Clients, Add(c) PROVE tip'[tree[j]] = tip[tree[j]]
    BY <2>1, <2>3, Own DEF TypeOK, Add
  <2>4. ASSUME NEW c \in Clients, Work(c)
        PROVE  tip'[tree[j]] = tip[tree[j]] \/ (pc[c] = "held" /\ Job(c) = j)
    <3>1. /\ pc[c] = "held" /\ tree[Job(c)] = Branch(c) /\ Job(c) \in Jobs
          /\ tip' = [tip EXCEPT ![Branch(c)] = "work"]
      BY <1>1, <2>1, <2>4, Own DEF Work, IInv, HoldersHaveTheirTree, Holding
    <3>2. tree[j] = Branch(c) => Job(c) = j
      BY <2>1, <3>1 DEF TypeOK
    <3> QED
      BY <2>1, <3>1, <3>2 DEF TypeOK
  <2>5. ASSUME NEW c \in Clients, Quiet(c) \/ Cleanup(c) \/ Remotes(c)
        PROVE  tip' = tip
    BY <2>5 DEF Quiet, Claim, Look, AddNotStarted, RollbackFails, Kill, Die, Cleanup,
       Remotes, Push, OpenPr
  <2> QED
    BY <1>1, <2>2, <2>3, <2>4, <2>5, NextCases DEF Tips, Trees, vars
<1> QED
  BY <1>1, Invariance, PTL DEF Spec, CheckedOutTipsAreSafe

=============================================================================
