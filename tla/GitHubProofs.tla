---------------------------- MODULE GitHubProofs ----------------------------
(***************************************************************************)
(* Theorems about what the program reads of GitHub and does there:         *)
(* Babysit, for any threads, any budget, any number of commits a call and  *)
(* anything others do; CheckStates, for every check GitHub can show;       *)
(* Discovery, for any finite sets of owners, repositories and items, any   *)
(* arguments, limits and failures, and anything that changes meanwhile;    *)
(* Stacks, for any number of requests, pages and branches, however the     *)
(* requests stand on one another.  What they need of lists comes before.   *)
(***************************************************************************)
EXTENDS Babysit, CheckStates, Discovery, Stacks, TLAPS,
        FiniteSetTheorems, FunctionTheorems, SequenceTheorems

\* A fix was pushed for the thread at hand and is not yet accounted for.
Working == pc \in {"head", "reply", "resolve"}
AtHand == IF Working THEN {at} ELSE {}

\* What is known at each place.
Stages ==
  /\ pc # "done" => outcome = None
  /\ pc \in Early => pushed = {} /\ resolved = {} /\ noted = {} /\ fixShas = {}
  /\ pc \in {"status", "checks"} => checks = None
  /\ pc \in {"checks", "threads", "loop", "restatus"} \/ Working =>
       status \in PR /\ status.life = "open" /\ status.merge # "conflicting"
  /\ pc \in {"rechecks", "final"} => status \in PR
  /\ pc \in {"threads", "loop", "restatus", "rechecks", "final"} \/ Working =>
       checks \in [ci: Checks, head: Nat]
  /\ Working => at \in Threads /\ fixShas # {}
  /\ fixShas = {} => resolved = {}

\* The commits of the handler are below the head, and what the cycle keeps of a
\* fix names commits pushed for the thread at hand.
Commits ==
  /\ \A p \in pushed : p.commit <= pr.head
  /\ pc \in {"head", "reply"} =>
       /\ \E p \in pushed : p.commit = fix.primary /\ p.thread = at
       /\ \A s \in fix.shas : \E p \in pushed : p.commit = s.commit /\ p.thread = at

\* The thread that is being resolved was answered.
Answered == pc = "resolve" /\ at \notin Unnumbered => \E r \in replies : r.thread = at

\* The threads left are at least those not reached, those noted and the one at
\* hand, and these differ.
Left ==
  /\ todo \cap noted = {} /\ AtHand \cap (todo \cup noted) = {}
  /\ pc \in {"loop", "restatus", "rechecks", "final"} \/ Working =>
       \E L \in SUBSET Threads :
         remaining = Cardinality(L) /\ todo \cup noted \cup AtHand \subseteq L

\* No commit is in the dark, also between two threads.
Owed ==
  outcome # "exception" => \A p \in pushed : p.thread \in resolved \cup noted \cup AtHand

\* What the conclusion is drawn from was read after the last push.
Fresh ==
  /\ pc = "rechecks" => \A p \in pushed : p.commit <= status.head
  /\ pc = "final" /\ checks.ci # "failed" =>
       fixShas = {} \/ \A p \in pushed : p.commit <= checks.head /\ p.commit <= status.head

\* The cycle counts every commit it was told of.
Told == {p \in pushed : p.told}
Counted ==
  /\ IsFiniteSet(fixShas)
  /\ \A p, q \in pushed : p.commit = q.commit => p = q
  /\ \A p \in Told : [commit |-> p.commit, form |-> style.form] \in fixShas

\* A thread less is left once one is resolved.
LEMMA OneLess ==
  ASSUME NEW L \in SUBSET Threads, NEW t \in L
  PROVE  /\ Cardinality(L) \in Nat \ {0}
         /\ Cardinality(L \ {t}) = Cardinality(L) - 1
<1>1. IsFiniteSet(L)
  BY ThreadsAssumption, FS_Subset
<1>2. Cardinality(L) \in Nat /\ Cardinality(L) # 0
  BY <1>1, FS_CardinalityType, FS_EmptySet
<1>. QED
  BY <1>1, <1>2, FS_RemoveElement

\* What classify_pr and the assessment can say.
LEMMA ClassifyIsState == \A p \in PR : Classify(p) \in States
BY GitHubAssumption DEF Classify, States, PR

LEMMA AssessIsState == status \in PR => Assess \in States
BY ClassifyIsState DEF Assess, States

\* n commits more.
LEMMA PushTypes ==
  ASSUME TypeOK, NEW t \in Threads, NEW n \in Nat, NEW told, Push(t, n, told)
  PROVE  /\ pr' \in PR /\ pr'.head = pr.head + n
         /\ pushed' \subseteq [commit: Nat, thread: Threads, told: BOOLEAN]
<1>1. pr \in PR /\ pr.head \in Nat
  BY DEF TypeOK, PR
<1>2. pr' \in PR /\ pr'.head = pr.head + n
  <2>1. CASE n = 0
    BY <1>1, <2>1 DEF Push
  <2>2. CASE n # 0
    <3>1. pr' = [pr EXCEPT !.head = @ + n, !.ci = "none"]
      BY <2>2 DEF Push
    <3>2. pr' = [life |-> pr.life, merge |-> pr.merge, review |-> pr.review,
                 ci |-> "none", head |-> pr.head + n]
      BY <1>1, <3>1 DEF PR
    <3>. QED
      BY <1>1, <3>2 DEF PR, Checks
  <2>. QED
    BY <2>1, <2>2
<1>3. \A i \in 1..n : [commit |-> pr.head + i, thread |-> t, told |-> pr.head + i \in told]
                       \in [commit: Nat, thread: Threads, told: BOOLEAN]
  BY <1>1
<1>. QED
  BY <1>2, <1>3 DEF Push, TypeOK

\* The types are inductive.
LEMMA TypesKept ==
  TypeOK /\ Stages /\ Left /\ [Next]_vars => TypeOK'
<1> SUFFICES ASSUME TypeOK, Stages, Left, [Next]_vars PROVE TypeOK'
  OBVIOUS
<1> USE DEF TypeOK, Stages, Left, AtHand, Working, github, params, report, Early, Places, NoFix, Checks, Sha, Styles
<1>1. ASSUME ReadStatus PROVE TypeOK'
  BY <1>1, ClassifyIsState DEF ReadStatus, Finish, Goto
<1>2. ASSUME ReadChecks PROVE TypeOK'
  <2>1. pr.ci \in Checks /\ pr.head \in Nat
    BY DEF PR
  <2>. QED
    BY <1>2, <2>1 DEF ReadChecks, Finish, Goto, ChecksNow, States
<1>3. ASSUME ReadThreads PROVE TypeOK'
  <2>1. Cardinality(unresolved) \in Nat
    BY ThreadsAssumption, FS_Subset, FS_CardinalityType
  <2>. QED
    BY <1>3, <2>1 DEF ReadThreads, Goto
<1>4. ASSUME ReadThreadsFails PROVE TypeOK'
  BY <1>4 DEF ReadThreadsFails, Finish, Goto, States
<1>5. ASSUME Raise PROVE TypeOK'
  BY <1>5 DEF Raise, Finish, Goto
<1>6. ASSUME NEW t \in Threads, LeaveThread(t) PROVE TypeOK'
  BY <1>6 DEF LeaveThread, Goto
<1>7. ASSUME NEW t \in Threads, FixFails(t) PROVE TypeOK'
  <2>1. PICK n \in 0..PerCall : Push(t, n, {})
    BY <1>7 DEF FixFails
  <2>2. /\ pr' \in PR
        /\ pushed' \subseteq [commit: Nat, thread: Threads, told: BOOLEAN]
    BY <2>1, PushTypes, BoundsAssumption
  <2>. QED
    BY <1>7, <2>2 DEF FixFails, Goto
<1>8. ASSUME NEW t \in Threads, Fix(t) PROVE TypeOK'
  <2>1. PICK n \in 1..PerCall :
          LET last == pr.head + n
              told == IF style.all THEN (pr.head + 1)..last ELSE {last}
          IN /\ Push(t, n, told)
             /\ fix' = [shas |-> {[commit |-> c, form |-> style.form] : c \in told},
                        primary |-> last]
    BY <1>8 DEF Fix, FixPushed
  <2>2. pr.head \in Nat /\ n \in Nat /\ style.form \in {"short", "full"}
    BY BoundsAssumption DEF PR
  <2>3. /\ pr' \in PR
        /\ pushed' \subseteq [commit: Nat, thread: Threads, told: BOOLEAN]
    BY <2>1, <2>2, PushTypes
  <2>4. fix' \in [shas: SUBSET Sha, primary: Nat]
    BY <2>1, <2>2
  <2>5. fix'.shas \subseteq Sha
    BY <2>4
  <2>. QED
    BY <1>8, <2>3, <2>4, <2>5 DEF Fix, FixPushed, Goto
<1>9. ASSUME ReadHead PROVE TypeOK'
  <2>1. pr.head \in Nat
    BY DEF PR
  <2>. QED
    BY <1>9, <2>1 DEF ReadHead, Goto
<1>10. ASSUME Reply PROVE TypeOK'
  BY <1>10 DEF Reply, Goto, NextThread
<1>11. ASSUME Resolve PROVE TypeOK'
  <2>1. PICK L \in SUBSET Threads : remaining = Cardinality(L) /\ at \in L
    BY <1>11 DEF Resolve, NextThread, Goto
  <2>a. Cardinality(L) \in Nat \ {0}
    BY <2>1, OneLess
  <2>2. remaining - 1 \in Nat
    BY <2>1, <2>a
  <2>. QED
    BY <1>11, <2>2 DEF Resolve, Goto, NextThread
<1>12. ASSUME EndLoop PROVE TypeOK'
  BY <1>12 DEF EndLoop, Goto
<1>13. ASSUME RereadStatus PROVE TypeOK'
  BY <1>13 DEF RereadStatus, FailedCheck, Goto
<1>14. ASSUME RereadChecks PROVE TypeOK'
  <2>1. pr.ci \in Checks /\ pr.head \in Nat /\ checks \in [ci: Checks, head: Nat]
    BY <1>14 DEF PR, RereadChecks, Goto
  <2>2. checks' \in [ci: Checks, head: Nat]
    BY <1>14, <2>1 DEF RereadChecks, ChecksNow, FailedCheck
  <2>. QED
    BY <1>14, <2>2 DEF RereadChecks, Goto
<1>15. ASSUME Conclude PROVE TypeOK'
  BY <1>15, AssessIsState DEF Conclude, Finish, Goto
<1>16. ASSUME Others PROVE TypeOK'
  <2>1. pr' \in PR
    <3>1. pr \in PR /\ pr.head + 1 \in Nat
      BY DEF PR
    <3>2. CASE Edit
      BY <3>1, <3>2 DEF Edit, PR
    <3>3. CASE OthersPush
      <4>1. pr' = [life |-> pr.life, merge |-> pr.merge, review |-> pr.review,
                   ci |-> "none", head |-> pr.head + 1]
        BY <3>1, <3>3 DEF OthersPush, PR
      <4>. QED
        BY <3>1, <4>1 DEF PR
    <3>4. CASE CiStep
      BY <3>1, <3>4 DEF CiStep, PR
    <3>5. ASSUME NEW t \in Threads, Discuss(t) PROVE pr' \in PR
      BY <3>1, <3>5 DEF Discuss
    <3>. QED
      BY <1>16, <3>2, <3>3, <3>4, <3>5 DEF Others
  <2>2. unresolved' \subseteq Threads
    BY <1>16 DEF Others, Edit, OthersPush, CiStep, Discuss
  <2>3. events' \in 0..MaxEvents
    BY <1>16, BoundsAssumption DEF Others, Edit, OthersPush, CiStep, Discuss, Event
  <2>. QED
    BY <1>16, <2>1, <2>2, <2>3 DEF Others, Edit, OthersPush, CiStep, Discuss, Event
<1>17. ASSUME UNCHANGED vars PROVE TypeOK'
  BY <1>17 DEF vars
<1>. QED
  BY <1>1, <1>2, <1>3, <1>4, <1>5, <1>6, <1>7, <1>8, <1>9, <1>10, <1>11, <1>12, <1>13, <1>14, <1>15, <1>16, <1>17 DEF Next, Cycle

\* What is known at each place is inductive.
LEMMA StagesKept ==
  TypeOK /\ Stages /\ [Next]_vars => Stages'
<1> SUFFICES ASSUME TypeOK, Stages, [Next]_vars PROVE Stages'
  OBVIOUS
<1> USE DEF TypeOK, Stages, Working, github, params, report, Early, Places, NoFix, Checks, Sha, Styles
<1>1. ASSUME ReadStatus PROVE Stages'
  <2>1. pc' = "checks" => status'.life = "open" /\ status'.merge # "conflicting"
    BY <1>1, GitHubAssumption DEF ReadStatus, Finish, Goto, Classify, PR
  <2>. QED
    BY <1>1, <2>1 DEF ReadStatus, Finish, Goto
<1>2. ASSUME ReadChecks PROVE Stages'
  <2>1. pr.ci \in Checks /\ pr.head \in Nat
    BY DEF PR
  <2>. QED
    BY <1>2, <2>1 DEF ReadChecks, Finish, Goto, ChecksNow
<1>3. ASSUME ReadThreads PROVE Stages'
  BY <1>3 DEF ReadThreads, Goto
<1>4. ASSUME ReadThreadsFails PROVE Stages'
  BY <1>4 DEF ReadThreadsFails, Finish, Goto
<1>5. ASSUME Raise PROVE Stages'
  BY <1>5 DEF Raise, Finish, Goto
<1>6. ASSUME NEW t \in Threads, LeaveThread(t) PROVE Stages'
  BY <1>6 DEF LeaveThread, Goto
<1>7. ASSUME NEW t \in Threads, FixFails(t) PROVE Stages'
  BY <1>7 DEF FixFails, Goto, Push
<1>8. ASSUME NEW t \in Threads, Fix(t) PROVE Stages'
  <2>1. fixShas' # {}
    <3>1. pr.head \in Nat
      BY DEF PR
    <3>2. PICK n \in 1..PerCall :
            fix'.shas = {[commit |-> c, form |-> style.form] :
                           c \in IF style.all THEN (pr.head + 1)..(pr.head + n) ELSE {pr.head + n}}
      BY <1>8 DEF Fix, FixPushed
    <3>3. [commit |-> pr.head + n, form |-> style.form] \in fix'.shas
      BY <3>1, <3>2, BoundsAssumption
    <3>. QED
      BY <1>8, <3>3 DEF Fix
  <2>. QED
    BY <1>8, <2>1 DEF Fix, FixPushed, Goto
<1>9. ASSUME ReadHead PROVE Stages'
  BY <1>9 DEF ReadHead, Goto
<1>10. ASSUME Reply PROVE Stages'
  BY <1>10 DEF Reply, Goto, NextThread
<1>11. ASSUME Resolve PROVE Stages'
  BY <1>11 DEF Resolve, Goto, NextThread
<1>12. ASSUME EndLoop PROVE Stages'
  BY <1>12 DEF EndLoop, Goto
<1>13. ASSUME RereadStatus PROVE Stages'
  BY <1>13 DEF RereadStatus, FailedCheck, Goto
<1>14. ASSUME RereadChecks PROVE Stages'
  <2>1. pr.ci \in Checks /\ pr.head \in Nat /\ checks \in [ci: Checks, head: Nat]
    BY <1>14 DEF PR, RereadChecks, Goto
  <2>2. checks' \in [ci: Checks, head: Nat]
    BY <1>14, <2>1 DEF RereadChecks, ChecksNow, FailedCheck
  <2>. QED
    BY <1>14, <2>2 DEF RereadChecks, Goto
<1>15. ASSUME Conclude PROVE Stages'
  BY <1>15 DEF Conclude, Finish, Goto
<1>16. ASSUME Others PROVE Stages'
  BY <1>16 DEF Others, Edit, OthersPush, CiStep, Discuss, Event
<1>17. ASSUME UNCHANGED vars PROVE Stages'
  BY <1>17 DEF vars
<1>. QED
  BY <1>1, <1>2, <1>3, <1>4, <1>5, <1>6, <1>7, <1>8, <1>9, <1>10, <1>11, <1>12, <1>13, <1>14, <1>15, <1>16, <1>17 DEF Next, Cycle

\* What the cycle knows of its commits stays true.
LEMMA CommitsKept ==
  TypeOK /\ Stages /\ Commits /\ [Next]_vars => Commits'
<1> SUFFICES ASSUME TypeOK, Stages, Commits, [Next]_vars PROVE Commits'
  OBVIOUS
<1> USE DEF TypeOK, Stages, Commits, Working, github, params, report, Early, PR, NoFix
<1>1. ASSUME ReadStatus PROVE Commits'
  BY <1>1 DEF ReadStatus, Finish, Goto
<1>2. ASSUME ReadChecks PROVE Commits'
  BY <1>2 DEF ReadChecks, Finish, Goto, ChecksNow
<1>3. ASSUME ReadThreads PROVE Commits'
  BY <1>3 DEF ReadThreads, Goto
<1>4. ASSUME ReadThreadsFails PROVE Commits'
  BY <1>4 DEF ReadThreadsFails, Finish, Goto
<1>5. ASSUME Raise PROVE Commits'
  BY <1>5 DEF Raise, Finish, Goto
<1>6. ASSUME NEW t \in Threads, LeaveThread(t) PROVE Commits'
  BY <1>6 DEF LeaveThread, Goto
<1>7. ASSUME NEW t \in Threads, FixFails(t) PROVE Commits'
  <2>1. PICK n \in 0..PerCall : Push(t, n, {})
    BY <1>7 DEF FixFails
  <2>2. pr.head \in Nat /\ pr'.head = pr.head + n
    BY <2>1, PushTypes, BoundsAssumption
  <2>3. \A p \in pushed' : p \in pushed \/ \E i \in 1..n : p.commit = pr.head + i
    BY <2>1 DEF Push
  <2>4. \A p \in pushed : p.commit \in Nat
    OBVIOUS
  <2>5. \A p \in pushed' : p.commit <= pr'.head
    BY <2>2, <2>3, <2>4, BoundsAssumption
  <2>. QED
    BY <1>7, <2>5 DEF FixFails, Goto
<1>8. ASSUME NEW t \in Threads, Fix(t) PROVE Commits'
  <2>1. PICK n \in 1..PerCall :
          LET last == pr.head + n
              told == IF style.all THEN (pr.head + 1)..last ELSE {last}
          IN /\ Push(t, n, told)
             /\ fix' = [shas |-> {[commit |-> c, form |-> style.form] : c \in told},
                        primary |-> last]
    BY <1>8 DEF Fix, FixPushed
  <2>2. pr.head \in Nat /\ pr'.head = pr.head + n /\ n \in Nat /\ n # 0
    BY <2>1, PushTypes, BoundsAssumption
  <2>3. \A p \in pushed' : p \in pushed \/ \E i \in 1..n : p.commit = pr.head + i
    BY <2>1 DEF Push
  <2>4. \A p \in pushed : p.commit \in Nat
    OBVIOUS
  <2>5. \A p \in pushed' : p.commit <= pr'.head
    BY <2>2, <2>3, <2>4
  <2>6. \A i \in 1..n : \E p \in pushed' : p.commit = pr.head + i /\ p.thread = t
    <3> SUFFICES ASSUME NEW i \in 1..n
                 PROVE  \E p \in pushed' : p.commit = pr.head + i /\ p.thread = t
      OBVIOUS
    <3>1. PICK told : Push(t, n, told)
      BY <2>1
    <3>2. [commit |-> pr.head + i, thread |-> t, told |-> pr.head + i \in told] \in pushed'
      BY <3>1 DEF Push
    <3>. QED
      BY <3>2
  <2>7. at' = t /\ fix'.primary = pr.head + n
    BY <1>8, <2>1 DEF Fix, FixPushed
  <2>8. \A s \in fix'.shas : \E i \in 1..n : s.commit = pr.head + i
    <3> SUFFICES ASSUME NEW s \in fix'.shas PROVE \E i \in 1..n : s.commit = pr.head + i
      OBVIOUS
    <3>1. s.commit \in (pr.head + 1)..(pr.head + n)
      BY <2>1, <2>2
    <3>. QED
      <4>1. s.commit - pr.head \in 1..n /\ s.commit = pr.head + (s.commit - pr.head)
        BY <2>2, <3>1
      <4>. QED
        BY <4>1
  <2>9. n \in 1..n
    BY <2>2
  <2>. QED
    BY <1>8, <2>5, <2>6, <2>7, <2>8, <2>9
<1>9. ASSUME ReadHead PROVE Commits'
  BY <1>9 DEF ReadHead, Goto
<1>10. ASSUME Reply PROVE Commits'
  BY <1>10 DEF Reply, Goto, NextThread
<1>11. ASSUME Resolve PROVE Commits'
  BY <1>11 DEF Resolve, Goto, NextThread
<1>12. ASSUME EndLoop PROVE Commits'
  BY <1>12 DEF EndLoop, Goto
<1>13. ASSUME RereadStatus PROVE Commits'
  BY <1>13 DEF RereadStatus, FailedCheck, Goto
<1>14. ASSUME RereadChecks PROVE Commits'
  BY <1>14 DEF RereadChecks, ChecksNow, FailedCheck, Goto
<1>15. ASSUME Conclude PROVE Commits'
  BY <1>15 DEF Conclude, Finish, Goto
<1>16. ASSUME Others PROVE Commits'
  <2>1. pr.head \in Nat /\ pr'.head \in {pr.head, pr.head + 1}
    BY <1>16 DEF Others, Edit, OthersPush, CiStep, Discuss
  <2>2. \A p \in pushed : p.commit \in Nat
    OBVIOUS
  <2>3. \A p \in pushed : p.commit <= pr'.head
    BY <2>1, <2>2
  <2>. QED
    BY <1>16, <2>3 DEF Others, Edit, OthersPush, CiStep, Discuss, Event
<1>17. ASSUME UNCHANGED vars PROVE Commits'
  BY <1>17 DEF vars
<1>. QED
  BY <1>1, <1>2, <1>3, <1>4, <1>5, <1>6, <1>7, <1>8, <1>9, <1>10, <1>11, <1>12, <1>13, <1>14, <1>15, <1>16, <1>17 DEF Next, Cycle

\* Answers name commits of their own thread.
LEMMA AnswersKept ==
  TypeOK /\ Commits /\ AnswerNamesFix /\ [Next]_vars => AnswerNamesFix'
<1> SUFFICES ASSUME TypeOK, Commits, AnswerNamesFix, [Next]_vars PROVE AnswerNamesFix'
  OBVIOUS
<1> USE DEF TypeOK, Commits, AnswerNamesFix, github, params, report
<1>1. ASSUME ReadStatus PROVE AnswerNamesFix'
  BY <1>1 DEF ReadStatus, Finish, Goto
<1>2. ASSUME ReadChecks PROVE AnswerNamesFix'
  BY <1>2 DEF ReadChecks, Finish, Goto, ChecksNow
<1>3. ASSUME ReadThreads PROVE AnswerNamesFix'
  BY <1>3 DEF ReadThreads, Goto
<1>4. ASSUME ReadThreadsFails PROVE AnswerNamesFix'
  BY <1>4 DEF ReadThreadsFails, Finish, Goto
<1>5. ASSUME Raise PROVE AnswerNamesFix'
  BY <1>5 DEF Raise, Finish, Goto
<1>6. ASSUME NEW t \in Threads, LeaveThread(t) PROVE AnswerNamesFix'
  BY <1>6 DEF LeaveThread, Goto
<1>7. ASSUME NEW t \in Threads, FixFails(t) PROVE AnswerNamesFix'
  BY <1>7 DEF FixFails, Goto, Push
<1>8. ASSUME NEW t \in Threads, Fix(t) PROVE AnswerNamesFix'
  BY <1>8 DEF Fix, FixPushed, Goto, Push
<1>9. ASSUME ReadHead PROVE AnswerNamesFix'
  BY <1>9 DEF ReadHead, Goto
<1>10. ASSUME Reply PROVE AnswerNamesFix'
  BY <1>10 DEF Reply, Goto, NextThread
<1>11. ASSUME Resolve PROVE AnswerNamesFix'
  BY <1>11 DEF Resolve, Goto, NextThread
<1>12. ASSUME EndLoop PROVE AnswerNamesFix'
  BY <1>12 DEF EndLoop, Goto
<1>13. ASSUME RereadStatus PROVE AnswerNamesFix'
  BY <1>13 DEF RereadStatus, FailedCheck, Goto
<1>14. ASSUME RereadChecks PROVE AnswerNamesFix'
  BY <1>14 DEF RereadChecks, ChecksNow, FailedCheck, Goto
<1>15. ASSUME Conclude PROVE AnswerNamesFix'
  BY <1>15 DEF Conclude, Finish, Goto
<1>16. ASSUME Others PROVE AnswerNamesFix'
  BY <1>16 DEF Others, Edit, OthersPush, CiStep, Discuss, Event
<1>17. ASSUME UNCHANGED vars PROVE AnswerNamesFix'
  BY <1>17 DEF vars
<1>. QED
  BY <1>1, <1>2, <1>3, <1>4, <1>5, <1>6, <1>7, <1>8, <1>9, <1>10, <1>11, <1>12, <1>13, <1>14, <1>15, <1>16, <1>17 DEF Next, Cycle

\* A thread that is resolved was answered.
LEMMA AnsweredKept ==
  TypeOK /\ Answered /\ ResolvedWasAnswered /\ [Next]_vars => (Answered /\ ResolvedWasAnswered)'
<1> SUFFICES ASSUME TypeOK, Answered, ResolvedWasAnswered, [Next]_vars PROVE (Answered /\ ResolvedWasAnswered)'
  OBVIOUS
<1> USE DEF TypeOK, Answered, ResolvedWasAnswered, github, params, report
<1>1. ASSUME ReadStatus PROVE (Answered /\ ResolvedWasAnswered)'
  BY <1>1 DEF ReadStatus, Finish, Goto
<1>2. ASSUME ReadChecks PROVE (Answered /\ ResolvedWasAnswered)'
  BY <1>2 DEF ReadChecks, Finish, Goto, ChecksNow
<1>3. ASSUME ReadThreads PROVE (Answered /\ ResolvedWasAnswered)'
  BY <1>3 DEF ReadThreads, Goto
<1>4. ASSUME ReadThreadsFails PROVE (Answered /\ ResolvedWasAnswered)'
  BY <1>4 DEF ReadThreadsFails, Finish, Goto
<1>5. ASSUME Raise PROVE (Answered /\ ResolvedWasAnswered)'
  BY <1>5 DEF Raise, Finish, Goto
<1>6. ASSUME NEW t \in Threads, LeaveThread(t) PROVE (Answered /\ ResolvedWasAnswered)'
  BY <1>6 DEF LeaveThread, Goto
<1>7. ASSUME NEW t \in Threads, FixFails(t) PROVE (Answered /\ ResolvedWasAnswered)'
  BY <1>7 DEF FixFails, Goto, Push
<1>8. ASSUME NEW t \in Threads, Fix(t) PROVE (Answered /\ ResolvedWasAnswered)'
  BY <1>8 DEF Fix, FixPushed, Goto, Push
<1>9. ASSUME ReadHead PROVE (Answered /\ ResolvedWasAnswered)'
  BY <1>9 DEF ReadHead, Goto
<1>10. ASSUME Reply PROVE (Answered /\ ResolvedWasAnswered)'
  <2>1. replies \subseteq replies'
    BY <1>10 DEF Reply
  <2>2. pc' = "resolve" /\ at \notin Unnumbered =>
          [thread |-> at, commit |-> fix.primary] \in replies'
    BY <1>10 DEF Reply, Goto, NextThread
  <2>. QED
    BY <1>10, <2>1, <2>2 DEF Reply, Goto, NextThread
<1>11. ASSUME Resolve PROVE (Answered /\ ResolvedWasAnswered)'
  BY <1>11 DEF Resolve, Goto, NextThread
<1>12. ASSUME EndLoop PROVE (Answered /\ ResolvedWasAnswered)'
  BY <1>12 DEF EndLoop, Goto
<1>13. ASSUME RereadStatus PROVE (Answered /\ ResolvedWasAnswered)'
  BY <1>13 DEF RereadStatus, FailedCheck, Goto
<1>14. ASSUME RereadChecks PROVE (Answered /\ ResolvedWasAnswered)'
  BY <1>14 DEF RereadChecks, ChecksNow, FailedCheck, Goto
<1>15. ASSUME Conclude PROVE (Answered /\ ResolvedWasAnswered)'
  BY <1>15 DEF Conclude, Finish, Goto
<1>16. ASSUME Others PROVE (Answered /\ ResolvedWasAnswered)'
  BY <1>16 DEF Others, Edit, OthersPush, CiStep, Discuss, Event
<1>17. ASSUME UNCHANGED vars PROVE (Answered /\ ResolvedWasAnswered)'
  BY <1>17 DEF vars
<1>. QED
  BY <1>1, <1>2, <1>3, <1>4, <1>5, <1>6, <1>7, <1>8, <1>9, <1>10, <1>11, <1>12, <1>13, <1>14, <1>15, <1>16, <1>17 DEF Next, Cycle

\* No commit falls between two threads.
LEMMA OwedKept ==
  TypeOK /\ Stages /\ Owed /\ [Next]_vars => Owed'
<1> SUFFICES ASSUME TypeOK, Stages, Owed, [Next]_vars PROVE Owed'
  OBVIOUS
<1> USE DEF TypeOK, Stages, Owed, AtHand, Working, github, params, report, Early
<1>1. ASSUME ReadStatus PROVE Owed'
  BY <1>1 DEF ReadStatus, Finish, Goto
<1>2. ASSUME ReadChecks PROVE Owed'
  BY <1>2 DEF ReadChecks, Finish, Goto, ChecksNow
<1>3. ASSUME ReadThreads PROVE Owed'
  BY <1>3 DEF ReadThreads, Goto
<1>4. ASSUME ReadThreadsFails PROVE Owed'
  BY <1>4 DEF ReadThreadsFails, Finish, Goto
<1>5. ASSUME Raise PROVE Owed'
  BY <1>5 DEF Raise, Finish, Goto
<1>6. ASSUME NEW t \in Threads, LeaveThread(t) PROVE Owed'
  BY <1>6 DEF LeaveThread, Goto
<1>7. ASSUME NEW t \in Threads, FixFails(t) PROVE Owed'
  BY <1>7 DEF FixFails, Goto, Push
<1>8. ASSUME NEW t \in Threads, Fix(t) PROVE Owed'
  BY <1>8 DEF Fix, FixPushed, Goto, Push
<1>9. ASSUME ReadHead PROVE Owed'
  BY <1>9 DEF ReadHead, Goto
<1>10. ASSUME Reply PROVE Owed'
  BY <1>10 DEF Reply, Goto, NextThread
<1>11. ASSUME Resolve PROVE Owed'
  BY <1>11 DEF Resolve, Goto, NextThread
<1>12. ASSUME EndLoop PROVE Owed'
  BY <1>12 DEF EndLoop, Goto
<1>13. ASSUME RereadStatus PROVE Owed'
  BY <1>13 DEF RereadStatus, FailedCheck, Goto
<1>14. ASSUME RereadChecks PROVE Owed'
  BY <1>14 DEF RereadChecks, ChecksNow, FailedCheck, Goto
<1>15. ASSUME Conclude PROVE Owed'
  BY <1>15, NoneAssumption DEF Conclude, Finish, Goto
<1>16. ASSUME Others PROVE Owed'
  BY <1>16 DEF Others, Edit, OthersPush, CiStep, Discuss, Event
<1>17. ASSUME UNCHANGED vars PROVE Owed'
  BY <1>17 DEF vars
<1>. QED
  BY <1>1, <1>2, <1>3, <1>4, <1>5, <1>6, <1>7, <1>8, <1>9, <1>10, <1>11, <1>12, <1>13, <1>14, <1>15, <1>16, <1>17 DEF Next, Cycle

\* What is left covers what is not done.
LEMMA LeftKept ==
  TypeOK /\ Stages /\ Left /\ [Next]_vars => Left'
<1> SUFFICES ASSUME TypeOK, Stages, Left, [Next]_vars PROVE Left'
  OBVIOUS
<1> USE DEF TypeOK, Stages, Left, AtHand, Working, github, params, report, Early
<1>1. ASSUME ReadStatus PROVE Left'
  BY <1>1 DEF ReadStatus, Finish, Goto
<1>2. ASSUME ReadChecks PROVE Left'
  BY <1>2 DEF ReadChecks, Finish, Goto, ChecksNow
<1>3. ASSUME ReadThreads PROVE Left'
  BY <1>3 DEF ReadThreads, Goto
<1>4. ASSUME ReadThreadsFails PROVE Left'
  BY <1>4 DEF ReadThreadsFails, Finish, Goto
<1>5. ASSUME Raise PROVE Left'
  BY <1>5 DEF Raise, Finish, Goto
<1>6. ASSUME NEW t \in Threads, LeaveThread(t) PROVE Left'
  BY <1>6 DEF LeaveThread, Goto
<1>7. ASSUME NEW t \in Threads, FixFails(t) PROVE Left'
  BY <1>7 DEF FixFails, Goto, Push
<1>8. ASSUME NEW t \in Threads, Fix(t) PROVE Left'
  BY <1>8 DEF Fix, FixPushed, Goto, Push
<1>9. ASSUME ReadHead PROVE Left'
  BY <1>9 DEF ReadHead, Goto
<1>10. ASSUME Reply PROVE Left'
  BY <1>10 DEF Reply, Goto, NextThread
<1>11. ASSUME Resolve PROVE Left'
  <2>1. PICK L \in SUBSET Threads :
          remaining = Cardinality(L) /\ todo \cup noted \cup {at} \subseteq L
    BY <1>11 DEF Resolve, NextThread, Goto
  <2>2. Cardinality(L \ {at}) = Cardinality(L) - 1
    BY <2>1, OneLess
  <2>3. L \ {at} \in SUBSET Threads /\ todo \cup noted \subseteq L \ {at}
    BY <1>11, <2>1 DEF Resolve, NextThread, Goto
  <2>4. CASE noted' = noted
    BY <1>11, <2>1, <2>2, <2>3, <2>4 DEF Resolve, NextThread, Goto
  <2>5. CASE remaining' = remaining /\ noted' = noted \cup {at}
    BY <1>11, <2>1, <2>5 DEF Resolve, NextThread, Goto
  <2>. QED
    BY <1>11, <2>4, <2>5 DEF Resolve
<1>12. ASSUME EndLoop PROVE Left'
  BY <1>12 DEF EndLoop, Goto
<1>13. ASSUME RereadStatus PROVE Left'
  BY <1>13 DEF RereadStatus, FailedCheck, Goto
<1>14. ASSUME RereadChecks PROVE Left'
  BY <1>14 DEF RereadChecks, ChecksNow, FailedCheck, Goto
<1>15. ASSUME Conclude PROVE Left'
  BY <1>15 DEF Conclude, Finish, Goto
<1>16. ASSUME Others PROVE Left'
  BY <1>16 DEF Others, Edit, OthersPush, CiStep, Discuss, Event
<1>17. ASSUME UNCHANGED vars PROVE Left'
  BY <1>17 DEF vars
<1>. QED
  BY <1>1, <1>2, <1>3, <1>4, <1>5, <1>6, <1>7, <1>8, <1>9, <1>10, <1>11, <1>12, <1>13, <1>14, <1>15, <1>16, <1>17 DEF Next, Cycle

\* The last reads are later than the last push.
LEMMA FreshKept ==
  TypeOK /\ Stages /\ Commits /\ Counted /\ Fresh /\ [Next]_vars => Fresh'
<1> SUFFICES ASSUME TypeOK, Stages, Commits, Counted, Fresh, [Next]_vars PROVE Fresh'
  OBVIOUS
<1> USE DEF TypeOK, Stages, Commits, Fresh, Working, github, params, report, Early
<1>1. ASSUME ReadStatus PROVE Fresh'
  BY <1>1 DEF ReadStatus, Finish, Goto
<1>2. ASSUME ReadChecks PROVE Fresh'
  BY <1>2 DEF ReadChecks, Finish, Goto, ChecksNow
<1>3. ASSUME ReadThreads PROVE Fresh'
  BY <1>3 DEF ReadThreads, Goto
<1>4. ASSUME ReadThreadsFails PROVE Fresh'
  BY <1>4 DEF ReadThreadsFails, Finish, Goto
<1>5. ASSUME Raise PROVE Fresh'
  BY <1>5 DEF Raise, Finish, Goto
<1>6. ASSUME NEW t \in Threads, LeaveThread(t) PROVE Fresh'
  BY <1>6 DEF LeaveThread, Goto
<1>7. ASSUME NEW t \in Threads, FixFails(t) PROVE Fresh'
  BY <1>7 DEF FixFails, Goto, Push
<1>8. ASSUME NEW t \in Threads, Fix(t) PROVE Fresh'
  BY <1>8 DEF Fix, FixPushed, Goto, Push
<1>9. ASSUME ReadHead PROVE Fresh'
  BY <1>9 DEF ReadHead, Goto
<1>10. ASSUME Reply PROVE Fresh'
  BY <1>10 DEF Reply, Goto, NextThread
<1>11. ASSUME Resolve PROVE Fresh'
  BY <1>11 DEF Resolve, Goto, NextThread
<1>12. ASSUME EndLoop PROVE Fresh'
  <2>1. Used \in Nat /\ (Used = 0 => fixShas = {})
    BY FS_CardinalityType, FS_EmptySet DEF Used, Counted
  <2>. QED
    BY <1>12, <2>1 DEF EndLoop, Goto
<1>13. ASSUME RereadStatus PROVE Fresh'
  BY <1>13 DEF RereadStatus, FailedCheck, Goto
<1>14. ASSUME RereadChecks PROVE Fresh'
  BY <1>14 DEF RereadChecks, ChecksNow, FailedCheck, Goto
<1>15. ASSUME Conclude PROVE Fresh'
  BY <1>15 DEF Conclude, Finish, Goto
<1>16. ASSUME Others PROVE Fresh'
  BY <1>16 DEF Others, Edit, OthersPush, CiStep, Discuss, Event
<1>17. ASSUME UNCHANGED vars PROVE Fresh'
  BY <1>17 DEF vars
<1>. QED
  BY <1>1, <1>2, <1>3, <1>4, <1>5, <1>6, <1>7, <1>8, <1>9, <1>10, <1>11, <1>12, <1>13, <1>14, <1>15, <1>16, <1>17 DEF Next, Cycle

\* The numbers of n further commits, as told: no more than n, none known before.
LEMMA TellsFew ==
  ASSUME TypeOK, Commits, Counted, NEW t \in Threads, NEW n \in Nat, NEW told, Push(t, n, told)
  PROVE  /\ Told \subseteq Told'
         /\ IsFiniteSet(Told' \ Told) /\ Cardinality(Told' \ Told) <= n
         /\ \A p, q \in pushed' : p.commit = q.commit => p = q
         /\ \A p \in Told' \ Told : p.commit \in told /\ p.commit \in (pr.head + 1)..(pr.head + n)
<1>1. pr.head \in Nat /\ \A p \in pushed : p.commit \in Nat /\ p.commit <= pr.head
  BY DEF TypeOK, Commits, PR
<1>2. \A p \in pushed' : p \in pushed \/ \E i \in 1..n :
        p = [commit |-> pr.head + i, thread |-> t, told |-> pr.head + i \in told]
  BY DEF Push
<1>3. \A p, q \in pushed' : p.commit = q.commit => p = q
  <2> SUFFICES ASSUME NEW p \in pushed', NEW q \in pushed', p.commit = q.commit PROVE p = q
    OBVIOUS
  <2>1. CASE p \in pushed /\ q \in pushed
    BY <2>1 DEF Counted
  <2>2. CASE p \notin pushed /\ q \in pushed
    BY <1>1, <1>2, <2>2
  <2>3. CASE p \in pushed /\ q \notin pushed
    BY <1>1, <1>2, <2>3
  <2>4. CASE p \notin pushed /\ q \notin pushed
    BY <1>1, <1>2, <2>4
  <2>. QED
    BY <2>1, <2>2, <2>3, <2>4
<1>4. Told \subseteq Told'
  BY DEF Told, Push
<1>5. \A p \in Told' \ Told : p.commit \in told /\ p.commit \in (pr.head + 1)..(pr.head + n)
  <2> SUFFICES ASSUME NEW p \in Told' \ Told
               PROVE  p.commit \in told /\ p.commit \in (pr.head + 1)..(pr.head + n)
    OBVIOUS
  <2>1. p \in pushed' /\ p \notin pushed /\ p.told
    BY DEF Told
  <2>2. PICK i \in 1..n :
          p = [commit |-> pr.head + i, thread |-> t, told |-> pr.head + i \in told]
    BY <1>2, <2>1
  <2>3. p.commit = pr.head + i /\ p.told = (pr.head + i \in told)
    BY <2>2, Zenon
  <2>4. p.commit \in told
    BY <2>1, <2>3, Zenon
  <2>. QED
    BY <1>1, <2>3, <2>4
<1>6. IsFiniteSet(Told' \ Told) /\ Cardinality(Told' \ Told) <= n
  <2> DEFINE Place == (pr.head + 1)..(pr.head + n)
             number == [p \in Told' \ Told |-> p.commit]
  <2>1. number \in [Told' \ Told -> Place]
    BY <1>5
  <2>2. \A p, q \in Told' \ Told : number[p] = number[q] => p = q
    BY <1>3 DEF Told
  <2>3. number \in Injection(Told' \ Told, Place)
    BY <2>1, <2>2 DEF Injection, IsInjective
  <2>4. IsFiniteSet(Place) /\ Cardinality(Place) <= n
    <3>1. pr.head + 1 \in Int /\ pr.head + n \in Int
      BY <1>1
    <3>2. /\ IsFiniteSet(Place)
          /\ Cardinality(Place) = IF pr.head + 1 > pr.head + n THEN 0
                                  ELSE (pr.head + n) - (pr.head + 1) + 1
      BY <3>1, FS_Interval
    <3>. QED
      BY <1>1, <3>2
  <2> HIDE DEF Place, number
  <2>5. IsFiniteSet(Told' \ Told) /\ Cardinality(Told' \ Told) <= Cardinality(Place)
    BY <2>3, <2>4, FS_Injection
  <2>6. Cardinality(Told' \ Told) \in Nat /\ Cardinality(Place) \in Nat
    BY <2>4, <2>5, FS_CardinalityType
  <2>. QED
    BY <2>4, <2>5, <2>6
<1>. QED
  BY <1>3, <1>4, <1>5, <1>6

\* A fix that fails tells of none.
LEMMA TellsNone ==
  ASSUME TypeOK, Commits, Counted, NEW t \in Threads, NEW n \in Nat, Push(t, n, {})
  PROVE  Told' = Told /\ \A p, q \in pushed' : p.commit = q.commit => p = q
<1>1. /\ Told \subseteq Told' /\ \A p \in Told' \ Told : p.commit \in {}
      /\ \A p, q \in pushed' : p.commit = q.commit => p = q
  BY TellsFew
<1>. QED
  BY <1>1

\* The commits of a fix are finitely many.
LEMMA FewShas ==
  ASSUME NEW told, IsFiniteSet(told), NEW form
  PROVE  IsFiniteSet({[commit |-> c, form |-> form] : c \in told})
<1> DEFINE shas == {[commit |-> c, form |-> form] : c \in told}
           commit == [s \in shas |-> s.commit]
<1>1. commit \in Injection(shas, told)
  <2>1. commit \in [shas -> told]
    OBVIOUS
  <2>2. \A s, r \in shas : commit[s] = commit[r] => s = r
    OBVIOUS
  <2>. QED
    BY <2>1, <2>2 DEF Injection, IsInjective
<1> HIDE DEF shas, commit
<1>2. IsFiniteSet(shas)
  BY <1>1, FS_Injection
<1>. QED
  BY <1>2 DEF shas

\* What the cycle is told it counts.
LEMMA CountedKept ==
  TypeOK /\ Commits /\ Counted /\ [Next]_vars => Counted'
<1> SUFFICES ASSUME TypeOK, Commits, Counted, [Next]_vars PROVE Counted'
  OBVIOUS
<1> USE DEF Counted, Told, github, params, report
<1>1. ASSUME ReadStatus PROVE Counted'
  BY <1>1 DEF ReadStatus, Finish, Goto
<1>2. ASSUME ReadChecks PROVE Counted'
  BY <1>2 DEF ReadChecks, Finish, Goto, ChecksNow
<1>3. ASSUME ReadThreads PROVE Counted'
  BY <1>3 DEF ReadThreads, Goto
<1>4. ASSUME ReadThreadsFails PROVE Counted'
  BY <1>4 DEF ReadThreadsFails, Finish, Goto
<1>5. ASSUME Raise PROVE Counted'
  BY <1>5 DEF Raise, Finish, Goto
<1>6. ASSUME NEW t \in Threads, LeaveThread(t) PROVE Counted'
  BY <1>6 DEF LeaveThread, Goto
<1>7. ASSUME NEW t \in Threads, FixFails(t) PROVE Counted'
  <2>1. PICK n \in 0..PerCall : Push(t, n, {})
    BY <1>7 DEF FixFails
  <2>2. n \in Nat
    BY BoundsAssumption
  <2>3. Told' = Told /\ \A p, q \in pushed' : p.commit = q.commit => p = q
    BY <2>1, <2>2, TellsNone
  <2>. QED
    BY <1>7, <2>3 DEF FixFails, Goto
<1>8. ASSUME NEW t \in Threads, Fix(t) PROVE Counted'
  <2>1. PICK n \in 1..PerCall :
          LET last == pr.head + n
              told == IF style.all THEN (pr.head + 1)..last ELSE {last}
          IN /\ Push(t, n, told)
             /\ fix' = [shas |-> {[commit |-> c, form |-> style.form] : c \in told},
                        primary |-> last]
    BY <1>8 DEF Fix, FixPushed
  <2> DEFINE told == IF style.all THEN (pr.head + 1)..(pr.head + n) ELSE {pr.head + n}
  <2>2. /\ Push(t, n, told)
        /\ fix'.shas = {[commit |-> c, form |-> style.form] : c \in told}
    BY <2>1
  <2>3. n \in Nat /\ pr.head \in Nat
    BY BoundsAssumption DEF TypeOK, PR
  <2>4. IsFiniteSet(told)
    <3>1. pr.head + 1 \in Int /\ pr.head + n \in Int
      BY <2>3
    <3>2. IsFiniteSet((pr.head + 1)..(pr.head + n))
      BY <3>1, FS_Interval
    <3>. QED
      BY <3>2, FS_Singleton
  <2> HIDE DEF told
  <2>5. IsFiniteSet(fix'.shas)
    <3>1. IsFiniteSet({[commit |-> c, form |-> style.form] : c \in told})
      BY <2>4, FewShas
    <3>. QED
      BY <2>2, <3>1
  <2>6. fixShas' = fixShas \cup fix'.shas /\ style' = style
    BY <1>8 DEF Fix, FixPushed
  <2>7. IsFiniteSet(fixShas')
    BY <2>5, <2>6, FS_Union
  <2>8. /\ \A p, q \in pushed' : p.commit = q.commit => p = q
        /\ \A p \in Told' \ Told : p.commit \in told
    BY <2>2, <2>3, TellsFew
  <2>9. \A p \in Told' : [commit |-> p.commit, form |-> style.form] \in fixShas'
    BY <2>2, <2>6, <2>8
  <2>. QED
    BY <2>6, <2>7, <2>8, <2>9
<1>9. ASSUME ReadHead PROVE Counted'
  <2>1. IsFiniteSet(fixShas')
    BY <1>9, FS_AddElement DEF ReadHead
  <2>. QED
    BY <1>9, <2>1 DEF ReadHead, Goto
<1>10. ASSUME Reply PROVE Counted'
  BY <1>10 DEF Reply, Goto, NextThread
<1>11. ASSUME Resolve PROVE Counted'
  BY <1>11 DEF Resolve, Goto, NextThread
<1>12. ASSUME EndLoop PROVE Counted'
  BY <1>12 DEF EndLoop, Goto
<1>13. ASSUME RereadStatus PROVE Counted'
  BY <1>13 DEF RereadStatus, FailedCheck, Goto
<1>14. ASSUME RereadChecks PROVE Counted'
  BY <1>14 DEF RereadChecks, ChecksNow, FailedCheck, Goto
<1>15. ASSUME Conclude PROVE Counted'
  BY <1>15 DEF Conclude, Finish, Goto
<1>16. ASSUME Others PROVE Counted'
  BY <1>16 DEF Others, Edit, OthersPush, CiStep, Discuss, Event
<1>17. ASSUME UNCHANGED vars PROVE Counted'
  BY <1>17 DEF vars
<1>. QED
  BY <1>1, <1>2, <1>3, <1>4, <1>5, <1>6, <1>7, <1>8, <1>9, <1>10, <1>11, <1>12, <1>13, <1>14, <1>15, <1>16, <1>17 DEF Next, Cycle

\* As many commits are counted as told.
LEMMA ToldIsUsed ==
  ASSUME TypeOK, Counted
  PROVE  /\ IsFiniteSet(Told) /\ Cardinality(Told) \in Nat /\ Used \in Nat
         /\ Cardinality(Told) <= Used
<1> DEFINE entry == [p \in Told |-> [commit |-> p.commit, form |-> style.form]]
<1>1. entry \in Injection(Told, fixShas)
  <2>1. entry \in [Told -> fixShas]
    BY DEF Counted
  <2>2. \A p, q \in Told : entry[p] = entry[q] => p = q
    <3> SUFFICES ASSUME NEW p \in Told, NEW q \in Told, entry[p] = entry[q] PROVE p = q
      OBVIOUS
    <3>1. entry[p].commit = p.commit /\ entry[q].commit = q.commit
      OBVIOUS
    <3>. QED
      BY <3>1 DEF Counted, Told
  <2>. QED
    BY <2>1, <2>2 DEF Injection, IsInjective
<1> HIDE DEF entry
<1>2. IsFiniteSet(Told) /\ Cardinality(Told) <= Cardinality(fixShas)
  BY <1>1, FS_Injection DEF Counted
<1>. QED
  BY <1>2, FS_CardinalityType DEF Used, Counted

\* Only a fix adds to what was told, and only within the budget.
LEMMA BoundKept ==
  TypeOK /\ Commits /\ Counted /\ OvershootBounded /\ [Next]_vars => OvershootBounded'
<1> SUFFICES ASSUME TypeOK, Commits, Counted, OvershootBounded, [Next]_vars PROVE OvershootBounded'
  OBVIOUS
<1> USE DEF OvershootBounded, github, params, report
<1>1. ASSUME ReadStatus PROVE OvershootBounded'
  BY <1>1 DEF ReadStatus, Finish, Goto
<1>2. ASSUME ReadChecks PROVE OvershootBounded'
  BY <1>2 DEF ReadChecks, Finish, Goto, ChecksNow
<1>3. ASSUME ReadThreads PROVE OvershootBounded'
  BY <1>3 DEF ReadThreads, Goto
<1>4. ASSUME ReadThreadsFails PROVE OvershootBounded'
  BY <1>4 DEF ReadThreadsFails, Finish, Goto
<1>5. ASSUME Raise PROVE OvershootBounded'
  BY <1>5 DEF Raise, Finish, Goto
<1>6. ASSUME NEW t \in Threads, LeaveThread(t) PROVE OvershootBounded'
  BY <1>6 DEF LeaveThread, Goto
<1>7. ASSUME NEW t \in Threads, FixFails(t) PROVE OvershootBounded'
  <2>1. PICK n \in 0..PerCall : Push(t, n, {})
    BY <1>7 DEF FixFails
  <2>2. n \in Nat
    BY BoundsAssumption
  <2>3. Told' = Told
    BY <2>1, <2>2, TellsNone
  <2>. QED
    BY <1>7, <2>3 DEF FixFails, Told
<1>8. ASSUME NEW t \in Threads, Fix(t) PROVE OvershootBounded'
  <2>0. PICK n \in 1..PerCall : \E told : Push(t, n, told)
    BY <1>8 DEF Fix, FixPushed
  <2>1. PICK told : Push(t, n, told)
    BY <2>0
  <2>2. n \in Nat /\ PerCall \in Nat /\ n <= PerCall
    BY BoundsAssumption
  <2>3. /\ Told \subseteq Told'
        /\ IsFiniteSet(Told' \ Told) /\ Cardinality(Told' \ Told) <= n
    BY <2>1, <2>2, TellsFew
  <2>4. /\ IsFiniteSet(Told) /\ Cardinality(Told) \in Nat
        /\ Used \in Nat /\ Cardinality(Told) <= Used
    BY ToldIsUsed
  <2>5. limit \in Nat /\ limit' = limit /\ Used < limit
    BY <1>8, LimitsAssumption DEF Fix, FixPushed, TypeOK
  <2>6. Cardinality(Told \cup (Told' \ Told)) =
          Cardinality(Told) + Cardinality(Told' \ Told) - Cardinality(Told \cap (Told' \ Told))
    BY <2>3, <2>4, FS_Union
  <2>7. Told \cup (Told' \ Told) = Told' /\ Told \cap (Told' \ Told) = {}
    BY <2>3
  <2>8. Cardinality(Told' \ Told) \in Nat
    BY <2>3, FS_CardinalityType
  <2>9. Cardinality(Told') = Cardinality(Told) + Cardinality(Told' \ Told)
    <3>1. Cardinality(Told \cap (Told' \ Told)) = 0
      BY <2>7, FS_EmptySet
    <3>2. Cardinality(Told \cup (Told' \ Told)) = Cardinality(Told')
      BY <2>7
    <3>. QED
      BY <2>4, <2>6, <2>8, <3>1, <3>2
  <2>10. Cardinality(Told') <= limit + PerCall - 1 /\ limit # 0
    BY <2>2, <2>3, <2>4, <2>5, <2>8, <2>9
  <2>. QED
    BY <2>5, <2>10 DEF Told
<1>9. ASSUME ReadHead PROVE OvershootBounded'
  BY <1>9 DEF ReadHead, Goto
<1>10. ASSUME Reply PROVE OvershootBounded'
  BY <1>10 DEF Reply, Goto, NextThread
<1>11. ASSUME Resolve PROVE OvershootBounded'
  BY <1>11 DEF Resolve, Goto, NextThread
<1>12. ASSUME EndLoop PROVE OvershootBounded'
  BY <1>12 DEF EndLoop, Goto
<1>13. ASSUME RereadStatus PROVE OvershootBounded'
  BY <1>13 DEF RereadStatus, FailedCheck, Goto
<1>14. ASSUME RereadChecks PROVE OvershootBounded'
  BY <1>14 DEF RereadChecks, ChecksNow, FailedCheck, Goto
<1>15. ASSUME Conclude PROVE OvershootBounded'
  BY <1>15 DEF Conclude, Finish, Goto
<1>16. ASSUME Others PROVE OvershootBounded'
  BY <1>16 DEF Others, Edit, OthersPush, CiStep, Discuss, Event
<1>17. ASSUME UNCHANGED vars PROVE OvershootBounded'
  BY <1>17 DEF vars
<1>. QED
  BY <1>1, <1>2, <1>3, <1>4, <1>5, <1>6, <1>7, <1>8, <1>9, <1>10, <1>11, <1>12, <1>13, <1>14, <1>15, <1>16, <1>17 DEF Next, Cycle

\* Merge-ready is only concluded from what was read after the last push.
LEMMA HealthyKept ==
  TypeOK /\ Stages /\ Left /\ Owed /\ Fresh /\ HealthyIsFresh /\ [Next]_vars => HealthyIsFresh'
<1> SUFFICES ASSUME TypeOK, Stages, Left, Owed, Fresh, HealthyIsFresh, [Next]_vars PROVE HealthyIsFresh'
  OBVIOUS
<1> USE DEF HealthyIsFresh, github, params, report
<1>1. ASSUME ReadStatus PROVE HealthyIsFresh'
  BY <1>1, NoneAssumption DEF ReadStatus, Finish, Goto, Stages, Early, States
<1>2. ASSUME ReadChecks PROVE HealthyIsFresh'
  BY <1>2, NoneAssumption DEF ReadChecks, Finish, Goto, ChecksNow, Stages, States, Early, Working
<1>3. ASSUME ReadThreads PROVE HealthyIsFresh'
  BY <1>3, NoneAssumption DEF ReadThreads, Goto, Stages, States, Early, Working
<1>4. ASSUME ReadThreadsFails PROVE HealthyIsFresh'
  BY <1>4, NoneAssumption DEF ReadThreadsFails, Finish, Goto, Stages, States, Early, Working
<1>5. ASSUME Raise PROVE HealthyIsFresh'
  BY <1>5, NoneAssumption DEF Raise, Finish, Goto, Stages, States, Early, Working
<1>6. ASSUME NEW t \in Threads, LeaveThread(t) PROVE HealthyIsFresh'
  BY <1>6, NoneAssumption DEF LeaveThread, Goto, Stages, States, Early, Working
<1>7. ASSUME NEW t \in Threads, FixFails(t) PROVE HealthyIsFresh'
  BY <1>7, NoneAssumption DEF FixFails, Goto, Push, Stages, States, Early, Working
<1>8. ASSUME NEW t \in Threads, Fix(t) PROVE HealthyIsFresh'
  BY <1>8, NoneAssumption DEF Fix, FixPushed, Goto, Push, Stages, States, Early, Working
<1>9. ASSUME ReadHead PROVE HealthyIsFresh'
  BY <1>9, NoneAssumption DEF ReadHead, Goto, Stages, States, Early, Working
<1>10. ASSUME Reply PROVE HealthyIsFresh'
  BY <1>10, NoneAssumption DEF Reply, Goto, NextThread, Stages, States, Early, Working
<1>11. ASSUME Resolve PROVE HealthyIsFresh'
  BY <1>11, NoneAssumption DEF Resolve, Goto, NextThread, Stages, States, Early, Working
<1>12. ASSUME EndLoop PROVE HealthyIsFresh'
  BY <1>12, NoneAssumption DEF EndLoop, Goto, Stages, States, Early, Working
<1>13. ASSUME RereadStatus PROVE HealthyIsFresh'
  BY <1>13, NoneAssumption DEF RereadStatus, FailedCheck, Goto, Stages, States, Early, Working
<1>14. ASSUME RereadChecks PROVE HealthyIsFresh'
  BY <1>14, NoneAssumption DEF RereadChecks, ChecksNow, FailedCheck, Goto, Stages, States, Early, Working
<1>15. ASSUME Conclude PROVE HealthyIsFresh'
  <2> SUFFICES ASSUME outcome' = "healthy" PROVE HealthyIsFresh'
    OBVIOUS
  <2>1. pc = "final" /\ Assess = "healthy"
    BY <1>15 DEF Conclude, Finish, Goto
  <2>2. status \in PR /\ checks \in [ci: Checks, head: Nat] /\ remaining \in Nat
    BY <2>1 DEF Stages, TypeOK
  <2>3. /\ checks.ci \notin {"failed", "pending"}
        /\ status.merge \notin {"conflicting", "behind", "blocked", "unstable"}
        /\ remaining = 0
    BY <2>1, <2>2 DEF Assess
  <2>4. noted = {}
    <3>1. PICK L \in SUBSET Threads : remaining = Cardinality(L) /\ noted \subseteq L
      BY <2>1 DEF Left
    <3>2. L = {}
      BY <2>3, <3>1, ThreadsAssumption, FS_Subset, FS_EmptySet
    <3>. QED
      BY <3>1, <3>2
  <2>5. \A p \in pushed : p.thread \in resolved
    BY <2>1, <2>4, NoneAssumption DEF Owed, AtHand, Working, Stages
  <2>6. \A p \in pushed : p.commit <= checks.head /\ p.commit <= status.head
    BY <2>1, <2>3, <2>5 DEF Fresh, Stages
  <2>. QED
    BY <1>15, <2>2, <2>3, <2>6 DEF Conclude, Finish, Goto, Checks
<1>16. ASSUME Others PROVE HealthyIsFresh'
  BY <1>16, NoneAssumption DEF Others, Edit, OthersPush, CiStep, Discuss, Event, Stages, States, Early, Working
<1>17. ASSUME UNCHANGED vars PROVE HealthyIsFresh'
  BY <1>17 DEF vars
<1>. QED
  BY <1>1, <1>2, <1>3, <1>4, <1>5, <1>6, <1>7, <1>8, <1>9, <1>10, <1>11, <1>12, <1>13, <1>14, <1>15, <1>16, <1>17 DEF Next, Cycle

\* What defers the next request is what was read last.
LEMMA ChildrenKept ==
  TypeOK /\ Stages /\ ChildrenWaitForBase /\ [Next]_vars => ChildrenWaitForBase'
<1> SUFFICES ASSUME TypeOK, Stages, ChildrenWaitForBase, [Next]_vars PROVE ChildrenWaitForBase'
  OBVIOUS
<1> USE DEF ChildrenWaitForBase, Deferred, github, params, report
<1>1. ASSUME ReadStatus PROVE ChildrenWaitForBase'
  BY <1>1, GitHubAssumption DEF ReadStatus, Finish, Goto, Stages, Early, Classify, TypeOK, PR
<1>2. ASSUME ReadChecks PROVE ChildrenWaitForBase'
  BY <1>2 DEF ReadChecks, Finish, Goto, ChecksNow, Stages, Working
<1>3. ASSUME ReadThreads PROVE ChildrenWaitForBase'
  BY <1>3 DEF ReadThreads, Goto, Stages, Working
<1>4. ASSUME ReadThreadsFails PROVE ChildrenWaitForBase'
  BY <1>4 DEF ReadThreadsFails, Finish, Goto, Stages, Working
<1>5. ASSUME Raise PROVE ChildrenWaitForBase'
  BY <1>5 DEF Raise, Finish, Goto, Stages, Working
<1>6. ASSUME NEW t \in Threads, LeaveThread(t) PROVE ChildrenWaitForBase'
  BY <1>6 DEF LeaveThread, Goto, Stages, Working
<1>7. ASSUME NEW t \in Threads, FixFails(t) PROVE ChildrenWaitForBase'
  BY <1>7 DEF FixFails, Goto, Push, Stages, Working
<1>8. ASSUME NEW t \in Threads, Fix(t) PROVE ChildrenWaitForBase'
  BY <1>8 DEF Fix, FixPushed, Goto, Push, Stages, Working
<1>9. ASSUME ReadHead PROVE ChildrenWaitForBase'
  BY <1>9 DEF ReadHead, Goto, Stages, Working
<1>10. ASSUME Reply PROVE ChildrenWaitForBase'
  BY <1>10 DEF Reply, Goto, NextThread, Stages, Working
<1>11. ASSUME Resolve PROVE ChildrenWaitForBase'
  BY <1>11 DEF Resolve, Goto, NextThread, Stages, Working
<1>12. ASSUME EndLoop PROVE ChildrenWaitForBase'
  BY <1>12 DEF EndLoop, Goto, Stages, Working
<1>13. ASSUME RereadStatus PROVE ChildrenWaitForBase'
  BY <1>13 DEF RereadStatus, FailedCheck, Goto, Stages, Working
<1>14. ASSUME RereadChecks PROVE ChildrenWaitForBase'
  BY <1>14 DEF RereadChecks, ChecksNow, FailedCheck, Goto, Stages, Working
<1>15. ASSUME Conclude PROVE ChildrenWaitForBase'
  <2>1. pc = "final" /\ outcome' = Assess /\ status \in PR
    BY <1>15 DEF Conclude, Finish, Goto, Stages
  <2>2. \/ Assess \in {"changes_requested", "review_required", "conflicting", "ci_failed"}
        \/ checks.ci # "failed" /\ status.merge # "conflicting"
    BY <2>1 DEF Assess
  <2>3. Assess # "exception"
    BY <2>1, AssessIsState DEF States
  <2>. QED
    BY <1>15, <2>1, <2>2, <2>3 DEF Conclude, Finish, Goto
<1>16. ASSUME Others PROVE ChildrenWaitForBase'
  BY <1>16 DEF Others, Edit, OthersPush, CiStep, Discuss, Event, Stages, Working
<1>17. ASSUME UNCHANGED vars PROVE ChildrenWaitForBase'
  BY <1>17 DEF vars
<1>. QED
  BY <1>1, <1>2, <1>3, <1>4, <1>5, <1>6, <1>7, <1>8, <1>9, <1>10, <1>11, <1>12, <1>13, <1>14, <1>15, <1>16, <1>17 DEF Next, Cycle

-----------------------------------------------------------------------------
(* The theorems                                                            *)

IInv ==
  /\ TypeOK /\ Stages /\ Commits /\ Answered /\ Left /\ Owed /\ Fresh /\ Counted
  /\ AnswerNamesFix /\ ResolvedWasAnswered /\ HealthyIsFresh
  /\ OvershootBounded /\ ChildrenWaitForBase

LEMMA Initially == Init => IInv
<1> SUFFICES ASSUME Init PROVE IInv
  OBVIOUS
<1>1. TypeOK
  <2>1. pr \in PR
    BY DEF Init, PR
  <2>. QED
    BY <2>1, BoundsAssumption DEF Init, TypeOK, Places, Early, NoFix
<1>2. Stages /\ Commits /\ Answered /\ Left /\ Owed /\ Fresh /\ Counted
  BY FS_EmptySet DEF Init, Stages, Commits, Answered, Left, Owed, Fresh, Counted, Told, Early,
    Working, AtHand
<1>3. OvershootBounded
  <2>1. Cardinality({p \in pushed : p.told}) = 0
    BY FS_EmptySet DEF Init
  <2>2. limit \in Nat /\ PerCall \in Nat
    BY LimitsAssumption, BoundsAssumption DEF Init
  <2>. QED
    BY <2>1, <2>2 DEF OvershootBounded
<1>4. AnswerNamesFix /\ ResolvedWasAnswered /\ HealthyIsFresh /\ ChildrenWaitForBase
  BY NoneAssumption DEF Init, AnswerNamesFix, ResolvedWasAnswered, HealthyIsFresh,
    ChildrenWaitForBase, States
<1>. QED
  BY <1>1, <1>2, <1>3, <1>4 DEF IInv

LEMMA Inductive == IInv /\ [Next]_vars => IInv'
BY TypesKept, StagesKept, CommitsKept, AnswersKept, AnsweredKept, OwedKept, LeftKept, FreshKept,
   CountedKept, BoundKept, HealthyKept, ChildrenKept DEF IInv

LEMMA Always == Spec => []IInv
BY Initially, Inductive, PTL DEF Spec

\* Every variable keeps its type, and what is left is never counted below zero
\* (babysit.py:830-838).
THEOREM BabysitTypesHold == Spec => []TypeOK
<1>1. IInv => TypeOK
  BY DEF IInv
<1>. QED
  BY <1>1, Always, PTL

\* An answer names a commit pushed for its thread, whoever else pushes, and no
\* thread is resolved without one (babysit.py:799-838).
THEOREM AnswersAreTrue == Spec => []AnswersHold
<1>1. IInv => AnswersHold
  BY DEF IInv, AnswersHold
<1>. QED
  BY <1>1, Always, PTL

\* Merge-ready rests on reads made after the last push (babysit.py:861-891).
THEOREM ReadyIsFresh == Spec => []HealthyIsFresh
<1>1. IInv => HealthyIsFresh
  BY DEF IInv
<1>. QED
  BY <1>1, Always, PTL

\* A report leaves no pushed commit in the dark (babysit.py:839-859): only an
\* exception does.  The commits the handler told of stay within the budget and
\* what its last call added (babysit.py:942).
THEOREM PushesAreAccounted == Spec => []PushesAccounted
<1>1. IInv => PushesAreReported
  BY DEF IInv, PushesAreReported, Owed, AtHand, Working, Stages
<1>2. IInv => OvershootBounded
  BY DEF IInv
<1>. QED
  BY <1>1, <1>2, Always, PTL DEF PushesAccounted

\* No child is worked on above a base that fails, unless a reviewer holds the base
\* (babysit.py:1023-1036).
THEOREM ChildrenWait == Spec => []ChildrenWaitForBase
<1>1. IInv => ChildrenWaitForBase
  BY DEF IInv
<1>. QED
  BY <1>1, Always, PTL

-----------------------------------------------------------------------------
(* The readings of a check (CheckStates), for every check GitHub can show  *)

\* A check that `gh pr checks` shows as failed is one the roll-up fails, and one
\* that is pending there is pending here, but for STALE, which only the former
\* takes for pending (babysit.py:98-136, 584-616).
THEOREM BabysitReadsAlike ==
  \A c \in Raw : /\ RunFails(c) <=> ClassifyFails(c)
                 /\ RunPends(c) <=> ClassifyPends(c) \/ c.conclusion = "STALE"
<1> SUFFICES ASSUME NEW c \in Raw
             PROVE  /\ RunFails(c) <=> ClassifyFails(c)
                    /\ RunPends(c) <=> ClassifyPends(c) \/ c.conclusion = "STALE"
  OBVIOUS
<1> USE DEF RunFails, RunPends, RunConclusion, GhState, GhBucket, ClassifyFails, ClassifyPends,
            Terminal, Failures, Waiting, Unfinished, Or
<1>1. CASE c \in [status: {"COMPLETED"}, conclusion: Conclusions, state: {""}]
  BY <1>1 DEF Conclusions
<1>2. CASE c \in [status: Unfinished, conclusion: {""}, state: {""}]
  BY <1>2
<1>3. CASE c \in [status: {""}, conclusion: {""}, state: CommitStates]
  BY <1>3 DEF CommitStates
<1>. QED
  BY <1>1, <1>2, <1>3 DEF Raw

\* discover's roll-up fails the same checks but for STARTUP_FAILURE, which it does
\* not know (discover.py:180-190).
THEOREM DiscoverReadsAlike ==
  \A c \in Raw : RollupFails(c) <=> RunFails(c) /\ c.conclusion # "STARTUP_FAILURE"
<1> SUFFICES ASSUME NEW c \in Raw
             PROVE  RollupFails(c) <=> RunFails(c) /\ c.conclusion # "STARTUP_FAILURE"
  OBVIOUS
<1> USE DEF RunFails, RunConclusion, GhState, GhBucket, RollupFails, Terminal, Failures,
            Unfinished, Or
<1>1. CASE c \in [status: {"COMPLETED"}, conclusion: Conclusions, state: {""}]
  BY <1>1 DEF Conclusions
<1>2. CASE c \in [status: Unfinished, conclusion: {""}, state: {""}]
  BY <1>2
<1>3. CASE c \in [status: {""}, conclusion: {""}, state: CommitStates]
  BY <1>3 DEF CommitStates
<1>. QED
  BY <1>1, <1>2, <1>3 DEF Raw

\* The taxonomy fails the same checks, and STALE ones besides; the rest are
\* pending for both or for neither (ci_taxonomy.py:106-132, 282-295).
THEOREM TaxonomyReadsAlike ==
  \A e \in Entries :
    /\ Failed(e) <=> RunFails(e.check) \/ e.check.conclusion = "STALE"
    /\ Verdict(e.check) = "PENDING" <=> RunPends(e.check) /\ e.check.conclusion # "STALE"
<1> SUFFICES ASSUME NEW e \in Entries
             PROVE  /\ Failed(e) <=> RunFails(e.check) \/ e.check.conclusion = "STALE"
                    /\ Verdict(e.check) = "PENDING" <=>
                         RunPends(e.check) /\ e.check.conclusion # "STALE"
  OBVIOUS
<1> DEFINE c == e.check
<1>0. c \in Raw
  BY DEF Entries
<1> HIDE DEF c
<1>. /\ (Verdict(c) \in {"FAILURE", "TIMED_OUT", "STARTUP_FAILURE", "ACTION_REQUIRED",
                         "CANCELLED", "STALE"}) <=> RunFails(c) \/ c.conclusion = "STALE"
     /\ Verdict(c) = "PENDING" <=> RunPends(c) /\ c.conclusion # "STALE"
  <2> USE DEF RunFails, RunPends, RunConclusion, GhState, GhBucket, Verdict, Terminal, Failures,
              Waiting, Unfinished, Conclusions, Or
  <2>1. CASE c \in [status: {"COMPLETED"}, conclusion: Conclusions, state: {""}]
    BY <2>1
  <2>2. CASE c \in [status: Unfinished, conclusion: {""}, state: {""}]
    BY <2>2
  <2>3. CASE c \in [status: {""}, conclusion: {""}, state: CommitStates]
    BY <2>3 DEF CommitStates
  <2>. QED
    BY <1>0, <2>1, <2>2, <2>3 DEF Raw
<1>. QED
  BY DEF Failed, c

\* Every failed check has somebody to act on it, and only those have: to fix the
\* source or to report it, never both, and a check to run again has a command
\* that does so (ci_taxonomy.py:202-240, 298-360).
THEOREM SomebodyActs ==
  \A e \in Entries :
    /\ Failed(e) <=> Policies(e) # {}
    /\ Fixable(e) <=> "FIX_SOURCE" \in Policies(e)
    /\ Residual(e) <=> "MARK_RESIDUAL" \in Policies(e)
    /\ Failed(e) => (Fixable(e) <=> ~Residual(e))
    /\ ShouldRerun(e) => Failed(e) /\ RerunCommand(e)
<1> SUFFICES ASSUME NEW e \in Entries
             PROVE  /\ Failed(e) <=> Policies(e) # {}
                    /\ Fixable(e) <=> "FIX_SOURCE" \in Policies(e)
                    /\ Residual(e) <=> "MARK_RESIDUAL" \in Policies(e)
                    /\ Failed(e) => (Fixable(e) <=> ~Residual(e))
                    /\ ShouldRerun(e) => Failed(e) /\ RerunCommand(e)
  OBVIOUS
<1>1. Verdict(e.check) \in Conclusions \cup {"PENDING"}
  BY DEF Verdict, Conclusions
<1>2. Failed(e) <=> Verdict(e.check) \notin Settled
  BY <1>1 DEF Failed, Settled, Conclusions
<1>3. Class(e) \in {"A", "B", "C"} /\ e.run \in BOOLEAN /\ (Class(e) = "A" => e.run)
  BY DEF Class, Entries
<1> HIDE DEF Settled
<1>4. CASE Class(e) = "A"
  BY <1>2, <1>3, <1>4 DEF Policies, Fixable, Residual, ShouldRerun, RerunCommand
<1>5. CASE Class(e) = "B"
  BY <1>2, <1>3, <1>5 DEF Policies, Fixable, Residual, ShouldRerun, RerunCommand
<1>6. CASE Class(e) = "C"
  BY <1>2, <1>3, <1>6 DEF Policies, Fixable, Residual, ShouldRerun, RerunCommand
<1>. QED
  BY <1>3, <1>4, <1>5, <1>6

\* Checks the taxonomy takes for passed are failed or pending for nobody else
\* (ci_taxonomy.py:306-318).
THEOREM PassedIsPassed ==
  \A entries \in SUBSET Entries : AllPassed(entries) =>
    /\ \A e \in entries : ~RunFails(e.check) /\ ~RunPends(e.check) /\ ~ClassifyFails(e.check)
    /\ Summary({e.check : e \in entries}) \in {"success", "neutral"}
<1> SUFFICES ASSUME NEW entries \in SUBSET Entries, AllPassed(entries)
             PROVE  /\ \A e \in entries : /\ ~RunFails(e.check) /\ ~RunPends(e.check)
                                          /\ ~ClassifyFails(e.check)
                    /\ Summary({e.check : e \in entries}) \in {"success", "neutral"}
  OBVIOUS
<1>1. \A e \in entries : e \in Entries /\ e.check \in Raw
                         /\ Verdict(e.check) \in {"SUCCESS", "SKIPPED", "NEUTRAL"}
  BY DEF AllPassed, Entries
<1>2. \A e \in entries : ~RunFails(e.check) /\ ~RunPends(e.check) /\ ~ClassifyFails(e.check)
  <2> SUFFICES ASSUME NEW e \in entries
               PROVE  ~RunFails(e.check) /\ ~RunPends(e.check) /\ ~ClassifyFails(e.check)
    OBVIOUS
  <2>1. e \in Entries /\ e.check \in Raw
    BY <1>1
  <2>2. ~Failed(e) /\ Verdict(e.check) # "PENDING"
    BY <1>1 DEF Failed
  <2>3. ~RunFails(e.check) /\ e.check.conclusion # "STALE"
    BY <2>1, <2>2, TaxonomyReadsAlike
  <2>4. ~RunPends(e.check)
    BY <2>1, <2>2, <2>3, TaxonomyReadsAlike
  <2>. QED
    BY <2>1, <2>3, <2>4, BabysitReadsAlike
<1>3. \A e \in entries : ~RollupFails(e.check)
  BY <1>1, <1>2, DiscoverReadsAlike
<1>4. \A e \in entries : ~RollupPends(e.check)
  <2> SUFFICES ASSUME NEW c \in Raw, Verdict(c) \in {"SUCCESS", "SKIPPED", "NEUTRAL"},
                      ~RollupFails(c)
               PROVE  ~RollupPends(c)
    BY <1>1, <1>3
  <2> USE DEF RollupPends, RollupOpen, Verdict, GhState, Conclusions, Unfinished, Or
  <2>1. CASE c \in [status: {"COMPLETED"}, conclusion: Conclusions, state: {""}]
    BY <2>1
  <2>2. CASE c \in [status: Unfinished, conclusion: {""}, state: {""}]
    BY <2>2
  <2>3. CASE c \in [status: {""}, conclusion: {""}, state: CommitStates]
    BY <2>3 DEF CommitStates
  <2>. QED
    BY <2>1, <2>2, <2>3 DEF Raw
<1>5. {e.check : e \in entries} # {}
  BY DEF AllPassed
<1>. QED
  BY <1>2, <1>3, <1>4, <1>5 DEF Summary

-----------------------------------------------------------------------------
(* Lists                                                                   *)

\* A property of naturals that spreads from each to the next, as a set.
LEMMA NaturalsUpTo ==
  ASSUME NEW m \in Nat, NEW reached, 0 \in reached,
         \A k \in 0..m : k \in reached /\ k < m => k + 1 \in reached
  PROVE  0..m \subseteq reached
<1> DEFINE below == {0..k : k \in (0..m) \ reached}
<1>1. IsWellFoundedOn(StrictSubsetOrdering(0..m), FiniteSubsetsOf(0..m))
  BY FS_StrictSubsetOrderingWellFounded
<1>2. IsFiniteSet(0..m)
  BY FS_Interval, 0 \in Int, m \in Int
<1>3. below \subseteq FiniteSubsetsOf(0..m)
  <2>1. FiniteSubsetsOf(0..m) = SUBSET (0..m)
    BY <1>2, FS_FiniteSubsetsOfFinite
  <2>. QED
    BY <2>1
<1>4. CASE below = {}
  BY <1>4
<1>5. CASE below # {}
  <2> HIDE DEF below
  <2>1. PICK s \in below : \A t \in below : ~(<<t, s>> \in StrictSubsetOrdering(0..m))
    BY <1>1, <1>3, <1>5, WFMin, Zenon
  <2>2. PICK k \in (0..m) \ reached : s = 0..k
    BY DEF below
  <2>3. k # 0 /\ k - 1 \in 0..m /\ k - 1 < m
    BY <2>2
  <2>4. k - 1 \notin reached
    <3>1. (k - 1) + 1 = k
      BY <2>3
    <3>. QED
      BY <2>2, <2>3, <3>1
  <2>5. 0..(k - 1) \in below
    BY <2>3, <2>4 DEF below
  <2>6. <<0..(k - 1), 0..k>> \in StrictSubsetOrdering(0..m)
    <3>1. 0..(k - 1) \subseteq 0..k /\ 0..k \subseteq 0..m /\ k \in 0..k /\ k \notin 0..(k - 1)
      BY <2>2, <2>3
    <3>. QED
      BY <3>1 DEF StrictSubsetOrdering
  <2>. QED
    BY <2>1, <2>2, <2>5, <2>6
<1>. QED
  BY <1>4, <1>5

\* A set of positive naturals up to m has a least one.
LEMMA LeastOf ==
  ASSUME NEW m \in Nat, NEW M \in SUBSET (1..m), M # {}
  PROVE  \E i \in M : \A j \in M : i <= j
<1> SUFFICES ASSUME \A i \in M : \E j \in M : ~(i <= j)
             PROVE  FALSE
  OBVIOUS
<1> DEFINE reached == {k \in 0..m : \A j \in M : k < j}
<1>1. 0 \in reached
  OBVIOUS
<1>2. ASSUME NEW k \in 0..m, k \in reached, k < m
      PROVE  k + 1 \in reached
  <2>1. \A j \in M : k + 1 <= j
    BY <1>2
  <2>2. k + 1 \notin M
    BY <2>1
  <2>. QED
    BY <1>2, <2>1, <2>2
<1>3. \A k \in 0..m : k \in reached /\ k < m => k + 1 \in reached
  BY <1>2
<1>4. 0..m \subseteq reached
  <2> HIDE DEF reached
  <2>. QED
    BY <1>1, <1>3, NaturalsUpTo
<1>5. PICK i \in M : TRUE
  OBVIOUS
<1>6. i \in reached /\ i \in Nat
  BY <1>4
<1>7. i < i
  BY <1>6
<1>. QED
  BY <1>6, <1>7

\* The recursion of Selection.
Picks(s, f, F) ==
  f = [n \in 0..Len(s) |->
         IF n = 0 THEN <<>>
         ELSE IF n \in F THEN Append(f[n - 1], s[n]) ELSE f[n - 1]]

LEMMA SelectionIsChosen ==
  ASSUME NEW s, NEW F
  PROVE  Selection(s, F) = (CHOOSE f : Picks(s, f, F))[Len(s)]
BY DEF Selection, Picks

\* What is selected of the first n elements, for each n up to a bound.
Appends(s, F, g, k) == IF k \in F THEN Append(g, s[k]) ELSE g
Upto(s, F, n, g) ==
  /\ g \in [0..n -> Seq(Elements(s))]
  /\ g[0] = <<>>
  /\ \A k \in 1..n : g[k] = Appends(s, F, g[k - 1], k)

LEMMA UptoNext ==
  ASSUME NEW S, NEW s \in Seq(S), NEW F, NEW n \in Nat, n < Len(s), NEW g, Upto(s, F, n, g)
  PROVE  \E h : Upto(s, F, n + 1, h)
<1> DEFINE last == Appends(s, F, g[n], n + 1)
           h == [k \in 0..(n + 1) |-> IF k <= n THEN g[k] ELSE last]
<1>1. n \in 0..n /\ n + 1 \in DOMAIN s
  OBVIOUS
<1>2. s[n + 1] \in Elements(s)
  BY <1>1 DEF Elements
<1>3. g[n] \in Seq(Elements(s))
  BY <1>1 DEF Upto
<1>4. last \in Seq(Elements(s))
  BY <1>2, <1>3 DEF Appends
<1> HIDE DEF last
<1>5. h \in [0..(n + 1) -> Seq(Elements(s))]
  BY <1>4 DEF Upto
<1>6. h[0] = <<>>
  BY DEF Upto
<1>7. ASSUME NEW k \in 1..(n + 1)
      PROVE  h[k] = Appends(s, F, h[k - 1], k)
  <2>1. k - 1 \in 0..(n + 1) /\ k - 1 <= n /\ k \in 0..(n + 1)
    OBVIOUS
  <2>2. h[k - 1] = g[k - 1]
    BY <2>1
  <2>3. CASE k <= n
    <3>1. k \in 1..n /\ h[k] = g[k]
      BY <2>1, <2>3
    <3>. QED
      BY <2>2, <3>1 DEF Upto
  <2>4. CASE k = n + 1
    <3>1. h[k] = last /\ k - 1 = n
      BY <2>1, <2>4
    <3>. QED
      BY <2>2, <2>4, <3>1 DEF last
  <2>. QED
    BY <2>3, <2>4
<1>. QED
  BY <1>5, <1>6, <1>7 DEF Upto

LEMMA UptoAll ==
  ASSUME NEW S, NEW s \in Seq(S), NEW F
  PROVE  \E g : Upto(s, F, Len(s), g)
<1> DEFINE reached == {n \in 0..Len(s) : \E g : Upto(s, F, n, g)}
<1>1. 0 \in reached
  <2>1. Upto(s, F, 0, [k \in 0..0 |-> <<>>])
    BY EmptySeq DEF Upto
  <2>. QED
    BY <2>1
<1>2. \A k \in 0..Len(s) : k \in reached /\ k < Len(s) => k + 1 \in reached
  BY UptoNext
<1> HIDE DEF reached
<1>3. 0..Len(s) \subseteq reached
  BY <1>1, <1>2, NaturalsUpTo, Len(s) \in Nat
<1>4. Len(s) \in reached
  BY <1>3
<1>. QED
  BY <1>4 DEF reached

\* What the recursion has picked of the first k elements.
LEMMA PickedSoFar ==
  ASSUME NEW S, NEW s \in Seq(S), NEW F, NEW g, Upto(s, F, Len(s), g)
  PROVE  \A k \in 0..Len(s) : Elements(g[k]) = {s[j] : j \in F \cap 1..k}
<1> DEFINE picked(k) == {s[j] : j \in F \cap 1..k}
           reached == {k \in 0..Len(s) : Elements(g[k]) = picked(k)}
<1>1. 0 \in reached
  BY DEF Elements, Upto
<1>2. ASSUME NEW k \in 0..Len(s), k \in reached, k < Len(s)
      PROVE  k + 1 \in reached
  <2>1. k + 1 \in 1..Len(s) /\ (k + 1) - 1 = k
    BY <1>2
  <2>2. g[k + 1] = Appends(s, F, g[k], k + 1) /\ g[k] \in Seq(Elements(s))
    BY <2>1 DEF Upto
  <2>3. CASE k + 1 \in F
    <3>1. g[k + 1] = Append(g[k], s[k + 1])
      BY <2>2, <2>3 DEF Appends
    <3>2. Elements(g[k + 1]) = Elements(g[k]) \cup {s[k + 1]}
      <4>1. DOMAIN g[k] = 1..Len(g[k]) /\ Len(g[k]) \in Nat
        BY <2>2
      <4>2. DOMAIN g[k + 1] = 1..(Len(g[k]) + 1)
        BY <2>2, <3>1
      <4>3. \A i \in 1..Len(g[k]) : g[k + 1][i] = g[k][i]
        BY <2>2, <3>1
      <4>4. g[k + 1][Len(g[k]) + 1] = s[k + 1]
        BY <2>2, <3>1
      <4>5. 1..(Len(g[k]) + 1) = 1..Len(g[k]) \cup {Len(g[k]) + 1}
        BY <4>1
      <4>6. Elements(g[k]) = {g[k][i] : i \in 1..Len(g[k])}
        BY <4>1 DEF Elements
      <4>7. Elements(g[k + 1]) = {g[k + 1][i] : i \in 1..(Len(g[k]) + 1)}
        BY <4>2 DEF Elements
      <4>. QED
        BY <4>3, <4>4, <4>5, <4>6, <4>7
    <3>3. F \cap 1..(k + 1) = (F \cap 1..k) \cup {k + 1}
      BY <2>3
    <3>4. picked(k + 1) = picked(k) \cup {s[k + 1]}
      BY <3>3
    <3>5. Elements(g[k]) = picked(k) /\ k + 1 \in 0..Len(s)
      BY <1>2
    <3> HIDE DEF picked
    <3>. QED
      BY <3>2, <3>4, <3>5
  <2>4. CASE k + 1 \notin F
    <3>1. g[k + 1] = g[k]
      BY <2>2, <2>4 DEF Appends
    <3>2. F \cap 1..(k + 1) = F \cap 1..k
      BY <2>4
    <3>. QED
      BY <1>2, <2>1, <3>1, <3>2
  <2>. QED
    BY <2>3, <2>4
<1>3. \A k \in 0..Len(s) : k \in reached /\ k < Len(s) => k + 1 \in reached
  BY <1>2
<1>4. 0..Len(s) \subseteq reached
  <2> HIDE DEF reached
  <2>. QED
    BY <1>1, <1>3, NaturalsUpTo, Len(s) \in Nat
<1>. QED
  BY <1>4

\* A selection is the end of such a sequence of sequences.
LEMMA SelectionIs ==
  ASSUME NEW S, NEW s \in Seq(S), NEW F
  PROVE  \E g : Upto(s, F, Len(s), g) /\ Selection(s, F) = g[Len(s)]
<1> DEFINE m == Len(s)
           f == CHOOSE g : Picks(s, g, F)
<1>1. PICK g : Upto(s, F, m, g)
  BY UptoAll
<1>2. m \in Nat /\ DOMAIN s = 1..m /\ Elements(s) \subseteq S
  BY DEF Elements
<1>3. Picks(s, g, F)
  <2>1. g = [k \in 0..m |-> g[k]]
    BY <1>1 DEF Upto
  <2>2. ASSUME NEW k \in 0..m
        PROVE  g[k] = IF k = 0 THEN <<>> ELSE IF k \in F THEN Append(g[k - 1], s[k]) ELSE g[k - 1]
    <3>1. CASE k = 0
      BY <1>1, <3>1 DEF Upto
    <3>2. CASE k # 0
      <4>1. k \in 1..m
        BY <1>2, <3>2
      <4>2. g[k] = Appends(s, F, g[k - 1], k)
        BY <1>1, <4>1 DEF Upto
      <4>. QED
        BY <3>2, <4>2 DEF Appends
    <3>. QED
      BY <3>1, <3>2
  <2>. QED
    BY <2>1, <2>2 DEF Picks
<1>4. Picks(s, f, F)
  BY <1>3
<1> HIDE DEF f
<1>5. \A k \in 0..m : f[k] = IF k = 0 THEN <<>>
                             ELSE IF k \in F THEN Append(f[k - 1], s[k]) ELSE f[k - 1]
  BY <1>4 DEF Picks
<1>6. f[m] = g[m]
  <2> DEFINE reached == {k \in 0..m : f[k] = g[k]}
  <2>1. 0 \in reached
    BY <1>1, <1>2, <1>5 DEF Upto
  <2>2. \A k \in 0..m : k \in reached /\ k < m => k + 1 \in reached
    <3> TAKE k \in 0..m
    <3> HAVE k \in reached /\ k < m
    <3>1. k + 1 \in 1..m /\ k + 1 \in 0..m /\ (k + 1) - 1 = k /\ k + 1 # 0
      BY <1>2
    <3>2. g[k + 1] = Appends(s, F, g[k], k + 1)
      BY <1>1, <3>1 DEF Upto
    <3>. QED
      BY <1>5, <3>1, <3>2 DEF Appends
  <2>3. 0..m \subseteq reached
    <3> HIDE DEF reached
    <3>. QED
      BY <1>2, <2>1, <2>2, NaturalsUpTo
  <2>. QED
    BY <1>2, <2>3
<1>7. Selection(s, F) = g[m]
  BY <1>6, SelectionIsChosen DEF f
<1>. QED
  BY <1>1, <1>7

\* A selection has what is at the places that are selected.
LEMMA SelectionNames ==
  ASSUME NEW S, NEW s \in Seq(S), NEW F
  PROVE  /\ Selection(s, F) \in Seq(S)
         /\ Elements(Selection(s, F)) = {s[j] : j \in F \cap 1..Len(s)}
<1> DEFINE m == Len(s)
<1>1. PICK g : Upto(s, F, m, g) /\ Selection(s, F) = g[m]
  BY SelectionIs
<1>2. m \in Nat /\ m \in 0..m /\ Elements(s) \subseteq S
  BY DEF Elements
<1>3. g[m] \in Seq(Elements(s))
  BY <1>1, <1>2 DEF Upto
<1>4. g[m] \in Seq(S)
  BY <1>2, <1>3, SeqDef
<1>5. \A k \in 0..m : Elements(g[k]) = {s[j] : j \in F \cap 1..k}
  BY <1>1, PickedSoFar
<1> HIDE DEF m
<1>6. Elements(g[m]) = {s[j] : j \in F \cap 1..m}
  BY <1>2, <1>5
<1>. QED
  BY <1>1, <1>4, <1>6, Zenon DEF m

\* And in the same order.
LEMMA SelectionOrder ==
  ASSUME NEW S, NEW s \in Seq(S), NEW F, NEW i \in DOMAIN Selection(s, F),
         NEW j \in DOMAIN Selection(s, F), i < j
  PROVE  \E k, l \in F \cap 1..Len(s) :
           k < l /\ Selection(s, F)[i] = s[k] /\ Selection(s, F)[j] = s[l]
<1> DEFINE m == Len(s)
<1>1. PICK g : Upto(s, F, m, g) /\ Selection(s, F) = g[m]
  BY SelectionIs
<1>2. m \in Nat /\ m \in 0..m
  OBVIOUS
<1> DEFINE InOrder(n) == \A x, y \in DOMAIN g[n] : x < y =>
             \E k, l \in F \cap 1..n : k < l /\ g[n][x] = s[k] /\ g[n][y] = s[l]
           reached == {n \in 0..m : InOrder(n)}
<1>3. 0 \in reached
  BY <1>1, <1>2 DEF Upto
<1>4. ASSUME NEW n \in 0..m, n \in reached, n < m
      PROVE  n + 1 \in reached
  <2>1. n + 1 \in 1..m /\ (n + 1) - 1 = n /\ n \in 0..m
    BY <1>2, <1>4
  <2>2. g[n + 1] = Appends(s, F, g[n], n + 1) /\ g[n] \in Seq(Elements(s))
    BY <1>1, <2>1 DEF Upto
  <2>3. InOrder(n)
    BY <1>4
  <2>4. CASE n + 1 \notin F
    <3>1. g[n + 1] = g[n]
      BY <2>2, <2>4 DEF Appends
    <3>2. F \cap 1..n \subseteq F \cap 1..(n + 1)
      BY <2>1
    <3>3. InOrder(n + 1)
      BY <2>3, <3>1, <3>2
    <3>. QED
      BY <2>1, <3>3
  <2>5. CASE n + 1 \in F
    <3> DEFINE last == Len(g[n]) + 1
    <3>1. g[n + 1] = Append(g[n], s[n + 1])
      BY <2>2, <2>5 DEF Appends
    <3>2. /\ Len(g[n]) \in Nat /\ DOMAIN g[n] = 1..Len(g[n]) /\ DOMAIN g[n + 1] = 1..last
          /\ \A x \in DOMAIN g[n] : g[n + 1][x] = g[n][x]
          /\ g[n + 1][last] = s[n + 1]
      <4>1. Len(g[n]) \in Nat /\ DOMAIN g[n] = 1..Len(g[n])
        BY <2>2
      <4>2. DOMAIN g[n + 1] = 1..last
        BY <2>2, <3>1
      <4>3. \A x \in 1..Len(g[n]) : g[n + 1][x] = g[n][x]
        BY <2>2, <3>1
      <4>4. g[n + 1][last] = s[n + 1]
        BY <2>2, <3>1
      <4>. QED
        BY <4>1, <4>2, <4>3, <4>4
    <3>3. \A x \in DOMAIN g[n] : \E k \in F \cap 1..n : g[n][x] = s[k]
      <4>1. Elements(g[n]) = {s[k] : k \in F \cap 1..n}
        BY <1>1, <2>1, PickedSoFar
      <4>. QED
        BY <4>1 DEF Elements
    <3>4. ASSUME NEW x \in DOMAIN g[n + 1], NEW y \in DOMAIN g[n + 1], x < y
          PROVE  \E k, l \in F \cap 1..(n + 1) :
                   k < l /\ g[n + 1][x] = s[k] /\ g[n + 1][y] = s[l]
      <4>1. x \in DOMAIN g[n]
        BY <3>2, <3>4
      <4>2. CASE y \in DOMAIN g[n]
        <5>1. PICK k, l \in F \cap 1..n : k < l /\ g[n][x] = s[k] /\ g[n][y] = s[l]
          BY <2>3, <3>4, <4>1, <4>2
        <5>2. k \in F \cap 1..(n + 1) /\ l \in F \cap 1..(n + 1)
          BY <2>1
        <5>. QED
          BY <3>2, <4>1, <4>2, <5>1, <5>2
      <4>3. CASE y \notin DOMAIN g[n]
        <5>1. y = last
          BY <3>2, <4>3
        <5>2. PICK k \in F \cap 1..n : g[n][x] = s[k]
          BY <3>3, <4>1
        <5>3. k \in F \cap 1..(n + 1) /\ n + 1 \in F \cap 1..(n + 1) /\ k < n + 1
          BY <2>1, <2>5
        <5>. QED
          BY <3>2, <4>1, <5>1, <5>2, <5>3
      <4>. QED
        BY <4>2, <4>3
    <3>5. InOrder(n + 1)
      BY <3>4
    <3>. QED
      BY <2>1, <3>5
  <2>. QED
    BY <2>4, <2>5
<1>5. \A n \in 0..m : n \in reached /\ n < m => n + 1 \in reached
  BY <1>4
<1>6. 0..m \subseteq reached
  <2> HIDE DEF reached
  <2>. QED
    BY <1>2, <1>3, <1>5, NaturalsUpTo
<1>7. InOrder(m)
  BY <1>2, <1>6
<1>. QED
  BY <1>1, <1>7

\* Only leaves in what is in the set, in order.
LEMMA OnlyNames ==
  ASSUME NEW T, NEW s \in Seq(T), NEW S
  PROVE  Only(s, S) \in Seq(T) /\ Elements(Only(s, S)) = Elements(s) \cap S
<1> DEFINE F == {i \in DOMAIN s : s[i] \in S}
<1>1. DOMAIN s = 1..Len(s)
  OBVIOUS
<1>2. Only(s, S) \in Seq(T) /\ Elements(Only(s, S)) = {s[j] : j \in F \cap 1..Len(s)}
  BY SelectionNames DEF Only
<1>3. {s[j] : j \in F \cap 1..Len(s)} = Elements(s) \cap S
  BY <1>1 DEF Elements
<1>. QED
  BY <1>2, <1>3

LEMMA OnlyOrder ==
  ASSUME NEW T, NEW s \in Seq(T), NEW S, NEW i \in DOMAIN Only(s, S), NEW j \in DOMAIN Only(s, S),
         i < j
  PROVE  \E k, l \in DOMAIN s : k < l /\ Only(s, S)[i] = s[k] /\ Only(s, S)[j] = s[l]
<1> DEFINE F == {k \in DOMAIN s : s[k] \in S}
<1>1. DOMAIN s = 1..Len(s)
  OBVIOUS
<1>2. Only(s, S) = Selection(s, F)
  BY DEF Only
<1> HIDE DEF F
<1>3. \E k, l \in F \cap 1..Len(s) :
        k < l /\ Selection(s, F)[i] = s[k] /\ Selection(s, F)[j] = s[l]
  BY <1>2, SelectionOrder
<1>. QED
  BY <1>1, <1>2, <1>3

\* Once names the same, whatever is named more than once.
LEMMA OnceNames ==
  ASSUME NEW S, NEW s \in Seq(S)
  PROVE  Once(s) \in Seq(S) /\ Elements(Once(s)) = Elements(s)
<1> DEFINE m == Len(s)
           F == {i \in DOMAIN s : \A j \in DOMAIN s : j < i => s[j] # s[i]}
<1>1. m \in Nat /\ DOMAIN s = 1..m
  OBVIOUS
<1>2. Once(s) \in Seq(S) /\ Elements(Once(s)) = {s[j] : j \in F \cap 1..m}
  BY SelectionNames DEF Once
<1>3. ASSUME NEW i \in 1..m
      PROVE  \E j \in F \cap 1..m : s[j] = s[i]
  <2> DEFINE M == {j \in 1..m : s[j] = s[i]}
  <2>1. PICK j \in M : \A k \in M : j <= k
    BY <1>1, LeastOf
  <2>2. \A k \in 1..m : k < j => s[k] # s[j]
    BY <1>1, <2>1
  <2>. QED
    BY <1>1, <2>1, <2>2
<1>4. {s[j] : j \in F \cap 1..m} = Elements(s)
  BY <1>1, <1>3 DEF Elements
<1>. QED
  BY <1>2, <1>4

\* x comes before y in s.
Before(s, x, y) == \E i, j \in DOMAIN s : i < j /\ s[i] = x /\ s[j] = y

\* Nothing comes twice in s.
Simple(s) == \A x : ~Before(s, x, x)

LEMMA BeforeIn ==
  ASSUME NEW s, NEW x, NEW y, Before(s, x, y)
  PROVE  x \in Elements(s) /\ y \in Elements(s)
BY DEF Before, Elements

LEMMA BeforeTransitive ==
  ASSUME NEW T, NEW s \in Seq(T), Simple(s), NEW x, NEW y, NEW z, Before(s, x, y), Before(s, y, z)
  PROVE  Before(s, x, z)
<1>1. DOMAIN s = 1..Len(s) /\ Len(s) \in Nat
  OBVIOUS
<1>2. PICK i, j \in DOMAIN s : i < j /\ s[i] = x /\ s[j] = y
  BY DEF Before
<1>3. PICK k, l \in DOMAIN s : k < l /\ s[k] = y /\ s[l] = z
  BY DEF Before
<1>4. ~(j < k) /\ ~(k < j)
  BY <1>2, <1>3 DEF Simple, Before
<1>5. i < l
  BY <1>1, <1>2, <1>3, <1>4
<1>. QED
  BY <1>2, <1>3, <1>5 DEF Before

LEMMA OnlyBefore ==
  ASSUME NEW T, NEW s \in Seq(T), NEW S, NEW x, NEW y, Before(Only(s, S), x, y)
  PROVE  Before(s, x, y)
BY OnlyOrder DEF Before

LEMMA OnlySimple ==
  ASSUME NEW T, NEW s \in Seq(T), NEW S, Simple(s)
  PROVE  Simple(Only(s, S))
BY OnlyBefore DEF Simple

\* One more element.
LEMMA AppendNames ==
  ASSUME NEW T, NEW s \in Seq(T), NEW e \in T
  PROVE  /\ Append(s, e) \in Seq(T)
         /\ Elements(Append(s, e)) = Elements(s) \cup {e}
         /\ \A x \in Elements(s) : Before(Append(s, e), x, e)
         /\ \A x, y : Before(s, x, y) => Before(Append(s, e), x, y)
         /\ e \notin Elements(s) /\ Simple(s) => Simple(Append(s, e))
<1> DEFINE t == Append(s, e)
           last == Len(s) + 1
<1>1. Len(s) \in Nat /\ DOMAIN s = 1..Len(s) /\ last \in Nat
  OBVIOUS
<1>2. t \in Seq(T) /\ DOMAIN t = 1..last
  BY <1>1
<1>3. t[last] = e /\ \A i \in 1..Len(s) : t[i] = s[i]
  BY <1>1
<1>4. 1..last = 1..Len(s) \cup {last} /\ last \notin 1..Len(s) /\ \A i \in 1..Len(s) : i < last
  BY <1>1
<1> HIDE DEF t, last
<1>5. Elements(t) = Elements(s) \cup {e}
  <2>1. Elements(t) = {t[i] : i \in 1..last} /\ Elements(s) = {s[i] : i \in 1..Len(s)}
    BY <1>1, <1>2 DEF Elements
  <2>. QED
    BY <1>3, <1>4, <2>1
<1>6. \A x \in Elements(s) : Before(t, x, e)
  BY <1>1, <1>2, <1>3, <1>4 DEF Before, Elements
<1>7. \A x, y : Before(s, x, y) => Before(t, x, y)
  BY <1>1, <1>2, <1>3, <1>4 DEF Before
<1>8. ASSUME e \notin Elements(s), Simple(s), NEW x, Before(t, x, x)
      PROVE  FALSE
  <2>1. PICK i, j \in 1..last : i < j /\ t[i] = x /\ t[j] = x
    BY <1>2, <1>8 DEF Before
  <2>2. i \in 1..Len(s)
    BY <1>1, <2>1 DEF last
  <2>3. CASE j = last
    BY <1>1, <1>3, <1>8, <2>1, <2>2, <2>3 DEF Elements
  <2>4. CASE j \in 1..Len(s)
    BY <1>1, <1>3, <1>8, <2>1, <2>2, <2>4 DEF Simple, Before
  <2>. QED
    BY <1>4, <2>3, <2>4
<1>. QED
  BY <1>2, <1>5, <1>6, <1>7, <1>8 DEF t, Simple

\* Two lists one after the other.
LEMMA JoinNames ==
  ASSUME NEW T, NEW s \in Seq(T), NEW t \in Seq(T)
  PROVE  /\ s \o t \in Seq(T)
         /\ Elements(s \o t) = Elements(s) \cup Elements(t)
<1> DEFINE m == Len(s)
           n == Len(t)
<1>1. m \in Nat /\ n \in Nat /\ DOMAIN s = 1..m /\ DOMAIN t = 1..n
  OBVIOUS
<1>2. s \o t \in Seq(T) /\ DOMAIN (s \o t) = 1..(m + n)
  BY <1>1
<1>3. /\ \A i \in 1..m : (s \o t)[i] = s[i]
      /\ \A i \in 1..n : (s \o t)[m + i] = t[i]
  BY <1>1
<1>4. /\ \A i \in 1..(m + n) : i \in 1..m \/ (i - m \in 1..n /\ m + (i - m) = i)
      /\ \A i \in 1..m : i \in 1..(m + n)
      /\ \A i \in 1..n : m + i \in 1..(m + n)
  BY <1>1
<1> HIDE DEF m, n
<1>5. Elements(s \o t) \subseteq Elements(s) \cup Elements(t)
  <2> SUFFICES ASSUME NEW i \in 1..(m + n)
               PROVE  (s \o t)[i] \in Elements(s) \cup Elements(t)
    BY <1>2 DEF Elements
  <2>1. CASE i \in 1..m
    BY <1>1, <1>3, <2>1 DEF Elements
  <2>2. CASE i - m \in 1..n /\ m + (i - m) = i
    <3>1. (s \o t)[m + (i - m)] = t[i - m]
      BY <1>3, <2>2
    <3>. QED
      BY <1>1, <2>2, <3>1 DEF Elements
  <2>. QED
    BY <1>4, <2>1, <2>2
<1>6. Elements(s) \subseteq Elements(s \o t)
  BY <1>1, <1>2, <1>3, <1>4 DEF Elements
<1>7. Elements(t) \subseteq Elements(s \o t)
  <2> SUFFICES ASSUME NEW i \in 1..n
               PROVE  t[i] \in Elements(s \o t)
    BY <1>1 DEF Elements
  <2>1. m + i \in DOMAIN (s \o t) /\ (s \o t)[m + i] = t[i]
    BY <1>2, <1>3, <1>4
  <2>. QED
    BY <2>1 DEF Elements
<1>. QED
  BY <1>2, <1>5, <1>6, <1>7

LEMMA JoinBefore ==
  ASSUME NEW T, NEW s \in Seq(T), NEW t \in Seq(T), NEW x, NEW y, Before(s \o t, x, y)
  PROVE  Before(s, x, y) \/ Before(t, x, y) \/ (x \in Elements(s) /\ y \in Elements(t))
<1> DEFINE m == Len(s)
           n == Len(t)
<1>1. m \in Nat /\ n \in Nat /\ DOMAIN s = 1..m /\ DOMAIN t = 1..n
  OBVIOUS
<1>2. DOMAIN (s \o t) = 1..(m + n)
  BY <1>1
<1>3. \A i \in 1..(m + n) : (s \o t)[i] = IF i <= m THEN s[i] ELSE t[i - m]
  BY <1>1
<1>4. PICK i, j \in 1..(m + n) : i < j /\ (s \o t)[i] = x /\ (s \o t)[j] = y
  BY <1>2 DEF Before
<1> HIDE DEF m, n
<1>5. CASE j <= m
  <2>1. i \in 1..m /\ j \in 1..m /\ s[i] = x /\ s[j] = y
    BY <1>1, <1>3, <1>4, <1>5
  <2>. QED
    BY <1>1, <1>4, <2>1 DEF Before
<1>6. CASE i <= m /\ ~(j <= m)
  <2>1. i \in 1..m /\ j - m \in 1..n /\ s[i] = x /\ t[j - m] = y
    BY <1>1, <1>3, <1>4, <1>6
  <2>. QED
    BY <1>1, <2>1 DEF Elements
<1>7. CASE ~(i <= m)
  <2>1. i - m \in 1..n /\ j - m \in 1..n /\ i - m < j - m
    BY <1>1, <1>4, <1>7
  <2>2. t[i - m] = x /\ t[j - m] = y
    BY <1>1, <1>3, <1>4, <1>7
  <2>. QED
    BY <1>1, <2>1, <2>2 DEF Before
<1>. QED
  BY <1>1, <1>4, <1>5, <1>6, <1>7

LEMMA SegmentSize ==
  ASSUME NEW m \in Nat
  PROVE  IsFiniteSet(1..m) /\ Cardinality(1..m) = m
BY FS_Interval, 1 \in Int, m \in Int, ~(1 > m) <=> m # 0

\* A list with fewer elements than places has one of them twice, and conversely.
LEMMA TwiceIsLonger ==
  ASSUME NEW T, NEW s \in Seq(T), NEW x, Before(s, x, x)
  PROVE  Cardinality(Elements(s)) < Len(s)
<1> DEFINE m == Len(s)
<1>1. m \in Nat /\ DOMAIN s = 1..m
  OBVIOUS
<1>2. PICK i, j \in 1..m : i < j /\ s[i] = x /\ s[j] = x
  BY <1>1 DEF Before
<1> DEFINE D == 1..m \ {j}
           f == [k \in D |-> s[k]]
<1>3. IsFiniteSet(1..m) /\ Cardinality(1..m) = m
  BY <1>1, SegmentSize
<1>4. IsFiniteSet(D) /\ Cardinality(D) = m - 1
  BY <1>2, <1>3, FS_RemoveElement
<1>5. i \in D
  BY <1>2
<1>6. \A e \in Elements(s) : \E k \in D : f[k] = e
  <2> SUFFICES ASSUME NEW k \in 1..m
               PROVE  \E l \in D : f[l] = s[k]
    BY <1>1 DEF Elements
  <2>1. CASE k = j
    BY <1>2, <1>5, <2>1
  <2>2. CASE k # j
    BY <2>2
  <2>. QED
    BY <2>1, <2>2
<1>7. f \in [D -> Elements(s)]
  BY <1>1 DEF Elements
<1> HIDE DEF f, D
<1>8. f \in Surjection(D, Elements(s))
  BY <1>6, <1>7, Fun_IsSurj
<1>9. Cardinality(Elements(s)) <= Cardinality(D)
  BY <1>4, <1>8, FS_Surjection
<1>10. Cardinality(Elements(s)) \in Nat
  BY <1>4, <1>8, FS_Surjection, FS_CardinalityType
<1>. QED
  BY <1>1, <1>4, <1>9, <1>10

\* The recursion of Concat.
Joins(seqs, f) == f = [n \in 0..Len(seqs) |-> IF n = 0 THEN <<>> ELSE f[n - 1] \o seqs[n]]
JoinUpto(T, seqs, n, g) ==
  /\ g \in [0..n -> Seq(T)]
  /\ g[0] = <<>>
  /\ \A k \in 1..n : g[k] = g[k - 1] \o seqs[k]

LEMMA ConcatIs ==
  ASSUME NEW T, NEW seqs \in Seq(Seq(T))
  PROVE  \E g : JoinUpto(T, seqs, Len(seqs), g) /\ Concat(seqs) = g[Len(seqs)]
<1> DEFINE m == Len(seqs)
           reached == {n \in 0..m : \E g : JoinUpto(T, seqs, n, g)}
           f == CHOOSE g : Joins(seqs, g)
<1>1. m \in Nat /\ \A k \in 1..m : seqs[k] \in Seq(T)
  OBVIOUS
<1>2. 0 \in reached
  <2>1. JoinUpto(T, seqs, 0, [k \in 0..0 |-> <<>>])
    BY EmptySeq DEF JoinUpto
  <2>. QED
    BY <1>1, <2>1
<1>3. ASSUME NEW n \in 0..m, n \in reached, n < m
      PROVE  n + 1 \in reached
  <2>1. PICK g : JoinUpto(T, seqs, n, g)
    BY <1>3
  <2> DEFINE last == g[n] \o seqs[n + 1]
             h == [k \in 0..(n + 1) |-> IF k <= n THEN g[k] ELSE last]
  <2>2. n \in 0..n /\ n + 1 \in 1..m /\ n \in Nat
    BY <1>1, <1>3
  <2>3. last \in Seq(T)
    <3>1. g[n] \in Seq(T) /\ seqs[n + 1] \in Seq(T)
      BY <1>1, <2>1, <2>2 DEF JoinUpto
    <3>. QED
      BY <3>1, JoinNames
  <2> HIDE DEF last
  <2>4. h \in [0..(n + 1) -> Seq(T)] /\ h[0] = <<>>
    BY <2>1, <2>2, <2>3 DEF JoinUpto
  <2>5. ASSUME NEW k \in 1..(n + 1)
        PROVE  h[k] = h[k - 1] \o seqs[k]
    <3>1. k - 1 \in 0..(n + 1) /\ k - 1 <= n /\ k \in 0..(n + 1)
      BY <2>2
    <3>2. h[k - 1] = g[k - 1]
      BY <3>1
    <3>3. CASE k <= n
      <4>1. k \in 1..n /\ h[k] = g[k]
        BY <3>1, <3>3
      <4>. QED
        BY <2>1, <3>2, <4>1 DEF JoinUpto
    <3>4. CASE k = n + 1
      <4>1. h[k] = last /\ k - 1 = n
        BY <2>2, <3>1, <3>4
      <4>. QED
        BY <3>2, <3>4, <4>1 DEF last
    <3>5. k <= n \/ k = n + 1
      BY <2>2
    <3>. QED
      BY <3>3, <3>4, <3>5
  <2>6. JoinUpto(T, seqs, n + 1, h)
    BY <2>4, <2>5 DEF JoinUpto
  <2>. QED
    BY <2>2, <2>6
<1>4. \A n \in 0..m : n \in reached /\ n < m => n + 1 \in reached
  BY <1>3
<1>5. 0..m \subseteq reached
  <2> HIDE DEF reached
  <2>. QED
    BY <1>1, <1>2, <1>4, NaturalsUpTo
<1>6. PICK g : JoinUpto(T, seqs, m, g)
  BY <1>1, <1>5
<1>7. Joins(seqs, g)
  <2>1. g = [n \in 0..m |-> g[n]]
    BY <1>6 DEF JoinUpto
  <2>2. \A n \in 0..m : g[n] = IF n = 0 THEN <<>> ELSE g[n - 1] \o seqs[n]
    <3> TAKE n \in 0..m
    <3>1. CASE n = 0
      BY <1>6, <3>1 DEF JoinUpto
    <3>2. CASE n # 0
      <4>1. n \in 1..m
        BY <1>1, <3>2
      <4>. QED
        BY <1>6, <3>2, <4>1 DEF JoinUpto
    <3>. QED
      BY <3>1, <3>2
  <2>. QED
    BY <2>1, <2>2 DEF Joins
<1>8. Joins(seqs, f)
  BY <1>7
<1> HIDE DEF f
<1>9. \A n \in 0..m : f[n] = IF n = 0 THEN <<>> ELSE f[n - 1] \o seqs[n]
  BY <1>8 DEF Joins
<1>10. f[m] = g[m]
  <2> DEFINE M == {n \in 0..m : f[n] = g[n]}
  <2>1. 0 \in M
    BY <1>1, <1>6, <1>9 DEF JoinUpto
  <2>2. \A n \in 0..m : n \in M /\ n < m => n + 1 \in M
    <3> TAKE n \in 0..m
    <3> HAVE n \in M /\ n < m
    <3>1. n + 1 \in 1..m /\ n + 1 \in 0..m /\ (n + 1) - 1 = n /\ n + 1 # 0
      BY <1>1
    <3>2. g[n + 1] = g[n] \o seqs[n + 1]
      BY <1>6, <3>1 DEF JoinUpto
    <3>. QED
      BY <1>9, <3>1, <3>2
  <2>3. 0..m \subseteq M
    <3> HIDE DEF M
    <3>. QED
      BY <1>1, <2>1, <2>2, NaturalsUpTo
  <2>. QED
    BY <1>1, <2>3
<1>11. Concat(seqs) = f[m]
  BY DEF Concat, Joins, f
<1>. QED
  BY <1>6, <1>10, <1>11

\* A concatenation has what its parts have, and keeps their order and its own.
LEMMA ConcatNames ==
  ASSUME NEW T, NEW seqs \in Seq(Seq(T))
  PROVE  /\ Concat(seqs) \in Seq(T)
         /\ Elements(Concat(seqs)) = UNION {Elements(seqs[a]) : a \in 1..Len(seqs)}
         /\ \A x, y : Before(Concat(seqs), x, y) =>
              \E a, b \in 1..Len(seqs) :
                 \/ a = b /\ Before(seqs[a], x, y)
                 \/ a < b /\ x \in Elements(seqs[a]) /\ y \in Elements(seqs[b])
<1> DEFINE m == Len(seqs)
           Names(s, n) == Elements(s) = UNION {Elements(seqs[a]) : a \in 1..n}
           Follows(n, x, y) ==
              \E a, b \in 1..n :
                 \/ a = b /\ Before(seqs[a], x, y)
                 \/ a < b /\ x \in Elements(seqs[a]) /\ y \in Elements(seqs[b])
           Keeps(s, n) == Names(s, n) /\ \A x, y : Before(s, x, y) => Follows(n, x, y)
<1>1. PICK g : JoinUpto(T, seqs, m, g) /\ Concat(seqs) = g[m]
  BY ConcatIs
<1>2. m \in Nat /\ m \in 0..m /\ \A k \in 1..m : seqs[k] \in Seq(T)
  OBVIOUS
<1> DEFINE reached == {n \in 0..m : Keeps(g[n], n)}
<1>3. 0 \in reached
  <2>1. g[0] = <<>> /\ 1..0 = {} /\ DOMAIN g[0] = {}
    BY <1>1 DEF JoinUpto
  <2>2. Elements(g[0]) = {} /\ UNION {Elements(seqs[a]) : a \in 1..0} = {}
    BY <2>1 DEF Elements
  <2>3. \A x, y : ~Before(g[0], x, y)
    BY <2>1 DEF Before
  <2>. QED
    BY <1>2, <2>2, <2>3
<1>4. ASSUME NEW n \in 0..m, n \in reached, n < m
      PROVE  n + 1 \in reached
  <2>1. n + 1 \in 1..m /\ (n + 1) - 1 = n /\ n \in 0..m /\ n + 1 \in 0..m
    BY <1>2, <1>4
  <2>2. g[n + 1] = g[n] \o seqs[n + 1] /\ g[n] \in Seq(T) /\ seqs[n + 1] \in Seq(T)
    BY <1>1, <1>2, <2>1 DEF JoinUpto
  <2>3. 1..(n + 1) = 1..n \cup {n + 1} /\ \A a \in 1..n : a < n + 1
    BY <2>1
  <2>4. Keeps(g[n], n)
    BY <1>4
  <2>5. Names(g[n + 1], n + 1)
    <3>1. Elements(g[n + 1]) = Elements(g[n]) \cup Elements(seqs[n + 1])
      BY <2>2, JoinNames
    <3>2. UNION {Elements(seqs[a]) : a \in 1..(n + 1)}
            = (UNION {Elements(seqs[a]) : a \in 1..n}) \cup Elements(seqs[n + 1])
      BY <2>3
    <3>. QED
      BY <2>4, <3>1, <3>2
  <2>6. ASSUME NEW x, NEW y, Before(g[n + 1], x, y)
        PROVE  Follows(n + 1, x, y)
    <3>1. Before(g[n] \o seqs[n + 1], x, y)
      BY <2>2, <2>6
    <3>2. \/ Before(g[n], x, y) \/ Before(seqs[n + 1], x, y)
          \/ x \in Elements(g[n]) /\ y \in Elements(seqs[n + 1])
      BY <2>2, <3>1, JoinBefore
    <3>3. CASE Before(g[n], x, y)
      <4>1. Follows(n, x, y)
        BY <2>4, <3>3
      <4>. QED
        BY <2>3, <4>1
    <3>4. CASE Before(seqs[n + 1], x, y)
      BY <2>3, <3>4
    <3>5. CASE x \in Elements(g[n]) /\ y \in Elements(seqs[n + 1])
      <4>1. PICK a \in 1..n : x \in Elements(seqs[a])
        BY <2>4, <3>5
      <4>2. a \in 1..(n + 1) /\ n + 1 \in 1..(n + 1) /\ a < n + 1
        BY <2>3
      <4>. QED
        BY <3>5, <4>1, <4>2
    <3>. QED
      BY <3>2, <3>3, <3>4, <3>5
  <2>. QED
    BY <2>1, <2>5, <2>6
<1>5. \A n \in 0..m : n \in reached /\ n < m => n + 1 \in reached
  BY <1>4
<1>6. 0..m \subseteq reached
  <2> HIDE DEF reached
  <2>. QED
    BY <1>2, <1>3, <1>5, NaturalsUpTo
<1>7. Keeps(g[m], m)
  BY <1>2, <1>6
<1>8. g[m] \in Seq(T)
  BY <1>1, <1>2 DEF JoinUpto
<1>. QED
  BY <1>1, <1>7, <1>8

\* The least lists, and the first of one.
LEMMA FewNames ==
  /\ Elements(<<>>) = {} /\ Simple(<<>>)
  /\ \A T : <<>> \in Seq(T)
  /\ \A e : Elements(<<e>>) = {e}
  /\ \A T : \A e \in T : <<e>> \in Seq(T)
BY DEF Elements, Simple, Before

LEMMA NoNames ==
  ASSUME NEW T, NEW s \in Seq(T)
  PROVE  s = <<>> <=> Elements(s) = {}
<1>1. DOMAIN s = 1..Len(s) /\ Len(s) \in Nat
  OBVIOUS
<1>2. CASE Len(s) = 0
  BY <1>1, <1>2, FewNames
<1>3. CASE Len(s) # 0
  <2>1. s[1] \in Elements(s)
    BY <1>1, <1>3 DEF Elements
  <2>. QED
    BY <1>3, <2>1
<1>. QED
  BY <1>2, <1>3

LEMMA FirstAndRest ==
  ASSUME NEW T, NEW s \in Seq(T), s # <<>>
  PROVE  /\ Head(s) \in T /\ Head(s) \in Elements(s)
         /\ Tail(s) \in Seq(T)
         /\ Elements(s) = {Head(s)} \cup Elements(Tail(s))
<1>1. /\ Len(s) \in Nat \ {0} /\ DOMAIN s = 1..Len(s)
      /\ Tail(s) \in Seq(T) /\ DOMAIN Tail(s) = 1..(Len(s) - 1)
      /\ \A i \in 1..(Len(s) - 1) : Tail(s)[i] = s[i + 1]
  OBVIOUS
<1>2. Head(s) = s[1] /\ s[1] \in T /\ s[1] \in Elements(s)
  BY <1>1 DEF Elements
<1>3. Elements(Tail(s)) \subseteq Elements(s)
  BY <1>1 DEF Elements
<1>4. ASSUME NEW i \in 1..Len(s)
      PROVE  s[i] \in {s[1]} \cup Elements(Tail(s))
  <2>1. CASE i = 1
    BY <2>1
  <2>2. CASE i # 1
    <3>1. i - 1 \in 1..(Len(s) - 1) /\ (i - 1) + 1 = i
      BY <1>1, <2>2
    <3>2. Tail(s)[i - 1] = s[i]
      BY <1>1, <3>1
    <3>. QED
      BY <1>1, <3>1, <3>2 DEF Elements
  <2>. QED
    BY <2>1, <2>2
<1>5. Elements(s) \subseteq {s[1]} \cup Elements(Tail(s))
  BY <1>1, <1>4 DEF Elements
<1>. QED
  BY <1>1, <1>2, <1>3, <1>5

LEMMA NamesWithin ==
  ASSUME NEW T, NEW s \in Seq(T), NEW S
  PROVE  Elements(s) \subseteq T /\ (Elements(s) \subseteq S => s \in Seq(S))
<1>1. Elements(s) \subseteq T
  BY DEF Elements
<1>2. ASSUME Elements(s) \subseteq S
      PROVE  s \in Seq(S)
  <2>1. DOMAIN s = 1..Len(s) /\ Len(s) \in Nat
    OBVIOUS
  <2>2. \A i \in 1..Len(s) : s[i] \in S
    BY <1>2, <2>1 DEF Elements
  <2>3. s \in [1..Len(s) -> S]
    BY <2>1, <2>2
  <2>. QED
    BY <2>1, <2>3
<1>. QED
  BY <1>1, <1>2

\* They do name each of S.
LEMMA OrdersList ==
  ASSUME NEW S, IsFiniteSet(S), NEW s \in Orders(S)
  PROVE  s \in Seq(S) /\ Elements(s) = S
<1> DEFINE n == Cardinality(S)
<1>1. n \in Nat
  BY FS_CardinalityType
<1>2. s \in [1..n -> S] /\ \A i, j \in 1..n : s[i] = s[j] => i = j
  BY DEF Orders
<1>3. IsFiniteSet(1..n) /\ Cardinality(1..n) = n
  BY <1>1, SegmentSize
<1> HIDE DEF n
<1>4. s \in Injection(1..n, S)
  BY <1>2, Fun_IsInj
<1>5. s \in Surjection(1..n, S)
  BY <1>3, <1>4, FS_Injection DEF n
<1>6. \A t \in S : \E i \in 1..n : s[i] = t
  BY <1>5 DEF Surjection
<1>. QED
  BY <1>1, <1>2, <1>6, SeqDef DEF Elements

\* What a sequence names is finite.
LEMMA NamesFinite ==
  ASSUME NEW T, NEW s \in Seq(T)
  PROVE  IsFiniteSet(Elements(s))
<1> DEFINE m == Len(s)
<1>1. m \in Nat /\ DOMAIN s = 1..m
  OBVIOUS
<1>2. IsFiniteSet(1..m)
  BY <1>1, SegmentSize
<1>3. s \in [1..m -> Elements(s)] /\ \A e \in Elements(s) : \E i \in 1..m : s[i] = e
  BY <1>1 DEF Elements
<1> HIDE DEF m
<1>4. s \in Surjection(1..m, Elements(s))
  BY <1>3, Fun_IsSurj
<1>. QED
  BY <1>2, <1>4, FS_Surjection

-----------------------------------------------------------------------------
(* Discovery: what is known during a scan                                  *)

\* Nothing is open without its repository, nor steady without being open.
Present ==
  /\ steady \subseteq open
  /\ \A i \in open : Home[i] \in there

\* Which stages a command has.
StageFacts ==
  /\ stage \in {"auth", "repos", "issues", "prs"} => call.command = "discover"
  /\ stage \in {"targets", "fetch"} => call.command = "plan"
  /\ stage \in {"issues", "prs", "fetch"} => repo \in Repos /\ contacted # {}
  /\ stage = "issues" => call.kind # "prs"
  /\ stage # "done" => exit = Absent
  /\ stage # "done" /\ contacted = {} => errors = {} /\ lost = {} /\ found = {}
  /\ stage = "start" => contacted = {} /\ repos = {}

\* An item the scan has answered for: it is shown, or its absence explained.
Accounted(i) ==
  \/ i \in found \/ Home[i] \in lost
  \/ /\ call.command = "discover"
     /\ {Home[i], OwnerOf[Home[i]], "auth"} \cap errors # {}

\* An item the scan has yet to come to; a plan with an error comes to an end.
ToCome(i) ==
  \/ stage = "start"
  \/ /\ stage \in {"auth", "owners", "repos", "issues", "prs"}
     /\ OwnerOf[Home[i]] \in Elements(owners)
  \/ /\ stage = "owners" /\ call.command = "plan"
     /\ errors # {} \/ Home[i] \in repos \cup call.slugs
  \/ /\ stage \in {"repos", "issues", "prs", "targets", "fetch"}
     /\ Home[i] \in repos
  \/ stage \in {"issues", "fetch"} /\ Home[i] = repo
  \/ stage = "prs" /\ Home[i] = repo /\ i \in Requests
  \/ exit \in {1, 2}

Due == \A i \in steady : InScope(i) => Accounted(i) \/ ToCome(i)

\* The owners the scan asks about, and goes on to ask about.
Unrestricted == call.override \/ (call.command = "discover" /\ call.allowed = {})
Permitted ==
  \/ Unrestricted
  \/ /\ contacted \subseteq call.allowed
     /\ stage \notin {"start", "done"} =>
          /\ Elements(owners) \subseteq call.allowed
          /\ \A r \in repos \cup call.slugs : OwnerOf[r] \in call.allowed

ShortFlagged == cut # {} => truncated

ScanInv ==
  /\ DiscoveryTypeOK /\ Present /\ StageFacts /\ Due /\ Permitted
  /\ ShortFlagged /\ GreenIsGreen

-----------------------------------------------------------------------------
(* Discovery: the operators of a scan                                      *)

LEMMA CallFacts ==
  ASSUME call \in Calls
  PROVE  /\ call.command \in {"discover", "plan"}
         /\ call.kind \in {"issues", "prs", "all"}
         /\ call.limit \in Nat \ {0}
         /\ call.allowed \in SUBSET Owners
         /\ call.slugs \in SUBSET Repos
         /\ call.asked # Absent => call.asked \in Seq(Owners)
         /\ call.command = "discover" => call.slugs = {}
         /\ call.command = "plan" => call.kind = "prs"
<1>1. CASE call \in [command: {"discover"}, asked: Asked \cup {Absent}, slugs: {{}},
                     override: BOOLEAN, kind: {"issues", "prs", "all"},
                     allowed: Allowlists, limit: ItemLimits]
  BY <1>1, InputsAssumption
<1>2. CASE call \in [command: {"plan"}, asked: Asked \cup {<<>>}, slugs: Slugs,
                     override: BOOLEAN, kind: {"prs"}, allowed: Allowlists,
                     limit: ItemLimits]
  BY <1>2, InputsAssumption, EmptySeq
<1>. QED
  BY <1>1, <1>2 DEF Calls

\* A list that leaves something out is at the limit.
LEMMA ListsComplete ==
  ASSUME call \in Calls, NEW S, IsFiniteSet(S), NEW A \in Lists(S), A # S
  PROVE  AtLimit(A)
<1>1. A \subseteq S /\ Cardinality(A) = Least(call.limit, Cardinality(S))
  BY DEF Lists
<1>2. Cardinality(A) # Cardinality(S) /\ Cardinality(A) \in Nat /\ Cardinality(S) \in Nat
  BY <1>1, FS_Subset, FS_CardinalityType
<1>3. call.limit \in Nat
  BY CallFacts
<1>. QED
  BY <1>1, <1>2, <1>3 DEF Least, AtLimit

\* A list is of what there is, and so is what cannot be read.
LEMMA ListsSubset ==
  ASSUME NEW S, NEW A \in Lists(S), NEW bad \in Unreadable(A)
  PROVE  A \subseteq S /\ bad \subseteq A
BY DEF Lists, Unreadable

\* What a roll-up that is green may show.
Passing == {"SUCCESS", "SKIPPED", "NEUTRAL", "STALE", "STARTUP_FAILURE"}

LEMMA GreenCheck ==
  ASSUME NEW c \in Raw, ~RollupFails(c), ~RollupPends(c)
  PROVE  Verdict(c) \in Passing
<1>1. CASE c \in [status: {"COMPLETED"}, conclusion: Conclusions, state: {""}]
  <2>1. c.status = "COMPLETED" /\ c.conclusion \in Conclusions /\ c.state = ""
    BY <1>1
  <2>2. GhState(c) = c.conclusion /\ Verdict(c) = c.conclusion
    BY <2>1 DEF GhState, Verdict, Conclusions
  <2>. QED
    BY <2>1, <2>2 DEF RollupFails, Conclusions, Passing
<1>2. CASE c \in [status: Unfinished, conclusion: {""}, state: {""}]
  <2>1. c.status \in Unfinished /\ c.conclusion = "" /\ c.state = ""
    BY <1>2
  <2>. QED
    BY <2>1 DEF RollupPends, RollupOpen, Or
<1>3. CASE c \in [status: {""}, conclusion: {""}, state: CommitStates]
  <2>1. c.status = "" /\ c.conclusion = "" /\ c.state \in CommitStates
    BY <1>3
  <2>. QED
    BY <2>1 DEF RollupFails, RollupPends, RollupOpen, Or, GhState, Verdict, Conclusions,
                CommitStates, Passing, Unfinished
<1>. QED
  BY <1>1, <1>2, <1>3 DEF Raw

\* A summary of "success" speaks for every check.
LEMMA GreenSummary ==
  ASSUME NEW rollup \in SUBSET Raw, Summary(rollup) = "success"
  PROVE  \A c \in rollup : Verdict(c) \in Passing
BY GreenCheck DEF Summary

-----------------------------------------------------------------------------
(* Discovery: every step keeps what is known                               *)

LEMMA ScanStarts == DiscoveryInit => ScanInv
<1> SUFFICES ASSUME DiscoveryInit
             PROVE  ScanInv
  OBVIOUS
<1> USE DEF DiscoveryInit
<1>1. DiscoveryTypeOK
  <2>1. there \subseteq Repos /\ open \subseteq Items
    BY InputsAssumption
  <2>2. changes \in 0..MaxChanges /\ owners \in Seq(Owners)
    BY InputsAssumption, EmptySeq
  <2>. QED
    BY <2>1, <2>2 DEF DiscoveryTypeOK
<1>2. Present /\ StageFacts /\ Due /\ Permitted /\ ShortFlagged
  BY DEF Present, StageFacts, Due, ToCome, Permitted, ShortFlagged
<1>3. GreenIsGreen
  BY DEF GreenIsGreen
<1>. QED
  BY <1>1, <1>2, <1>3 DEF ScanInv

\* The commands leave GitHub alone.
LEMMA CommandLeaves == Command => UNCHANGED <<hub, call, steady>>
BY DEF Command, Refuse, Start, AuthOk, AuthFails, NoOwners, ListRepos, ListFails, TakeRepo,
       NextOwner, Report, ReadItems, ReadFails, Targets, TakeTarget, Fetch, FetchFails, ShowPlan,
       history

\* The owners the command starts with are those it was given, or the allowlist.
LEMMA StartOwners ==
  ASSUME DiscoveryTypeOK, Start
  PROVE  /\ owners' \in Seq(Owners)
         /\ Elements(owners') = IF call.asked = Absent THEN call.allowed ELSE Elements(call.asked)
<1>1. /\ call.allowed \in SUBSET Owners
      /\ call.asked # Absent => call.asked \in Seq(Owners)
  BY CallFacts DEF DiscoveryTypeOK
<1>2. CASE call.asked = Absent
  <2>1. IsFiniteSet(call.allowed)
    BY <1>1, FiniteAssumption, FS_Subset
  <2>2. owners' \in Orders(call.allowed)
    BY <1>2 DEF Start
  <2>3. owners' \in Seq(call.allowed) /\ Elements(owners') = call.allowed
    BY <2>1, <2>2, OrdersList
  <2>. QED
    BY <1>1, <1>2, <2>3, SeqDef
<1>3. CASE call.asked # Absent
  <2>1. owners' = IF call.command = "plan" THEN Once(call.asked) ELSE call.asked
    BY <1>3 DEF Start
  <2>2. Once(call.asked) \in Seq(Owners) /\ Elements(Once(call.asked)) = Elements(call.asked)
    BY <1>1, <1>3, OnceNames
  <2>. QED
    BY <1>1, <1>3, <2>1, <2>2
<1>. QED
  BY <1>2, <1>3

\* What list_repos_for_owner adds is of the owner at hand.
LEMMA ListedRepos ==
  ASSUME DiscoveryTypeOK, ListRepos
  PROVE  /\ Head(owners) \in Owners /\ owners' \in Seq(Owners)
         /\ Elements(owners) = {Head(owners)} \cup Elements(owners')
         /\ repos' \subseteq Of(Head(owners)) \cup (IF call.command = "plan" THEN repos ELSE {})
         /\ call.command = "plan" => repos \subseteq repos'
         /\ errors \subseteq errors' /\ errors' \subseteq errors \cup {Head(owners)}
         /\ lost \subseteq lost' /\ found' = found
         /\ \A r \in Of(Head(owners)) : r \in repos' \/ r \in lost' \/ Head(owners) \in errors'
         /\ truncated' \in BOOLEAN
         /\ ShortFlagged => ShortFlagged'
<1> DEFINE o == Head(owners)
           Answer(A, bad) ==
            /\ repos' = (A \ bad) \cup (IF call.command = "plan" THEN repos ELSE {})
            /\ Flag(A)
            /\ errors' = IF AtLimit(A) THEN errors \cup {o} ELSE errors
            /\ lost' = lost \cup bad
            /\ Note(o, Of(o), A)
<1>1. /\ o \in Owners /\ owners' \in Seq(Owners)
      /\ Elements(owners) = {o} \cup Elements(owners')
  BY FirstAndRest DEF DiscoveryTypeOK, ListRepos
<1>2. PICK A \in Lists(Of(o)) : \E bad \in Unreadable(A) : Answer(A, bad)
  BY DEF ListRepos
<1>3. PICK bad \in Unreadable(A) : Answer(A, bad)
  BY <1>2
<1>4. A \subseteq Of(o) /\ bad \subseteq A
  BY <1>2, <1>3, ListsSubset
<1>5. IsFiniteSet(Of(o))
  BY FiniteAssumption, FS_Subset DEF Of, DiscoveryTypeOK
<1>6. A = Of(o) \/ AtLimit(A)
  BY <1>3, <1>5, ListsComplete DEF DiscoveryTypeOK
<1>7. found' = found
  BY DEF ListRepos
<1>8. truncated' = (truncated \/ AtLimit(A)) /\ AtLimit(A) \in BOOLEAN
  BY <1>3 DEF Flag, AtLimit
<1>9. truncated' \in BOOLEAN
  BY <1>8 DEF DiscoveryTypeOK
<1>10. ShortFlagged => ShortFlagged'
  BY <1>3, <1>6, <1>8 DEF ShortFlagged, Note
<1> HIDE DEF o
<1>11. /\ repos' \subseteq Of(o) \cup (IF call.command = "plan" THEN repos ELSE {})
       /\ call.command = "plan" => repos \subseteq repos'
       /\ errors \subseteq errors' /\ errors' \subseteq errors \cup {o}
       /\ lost \subseteq lost'
       /\ \A r \in Of(o) : r \in repos' \/ r \in lost' \/ o \in errors'
  BY <1>3, <1>4, <1>6
<1>. QED
  BY <1>1, <1>7, <1>9, <1>10, <1>11 DEF o

\* What is read of a repository is in it; what is missing is an error.
LEMMA ReadingItems ==
  ASSUME DiscoveryTypeOK, NEW kind \in {"issues", "prs"}, ReadItems(kind)
  PROVE  /\ found \subseteq found' /\ found' \subseteq Items
         /\ errors \subseteq errors' /\ errors' \subseteq errors \cup {repo}
         /\ \A i \in Contents(kind) : i \in found' \/ repo \in errors'
         /\ truncated' \in BOOLEAN
         /\ ShortFlagged => ShortFlagged'
         /\ GreenIsGreen'
<1> DEFINE Answer(A, bad) ==
            /\ found' = found \cup (A \ bad)
            /\ \E S \in Rollups :
                 ci' = [i \in (IF kind = "prs" THEN A \ bad ELSE {}) |->
                          [status |-> Summary(S), checks |-> S]]
            /\ errors' = IF bad # {} \/ AtLimit(A) THEN errors \cup {repo} ELSE errors
            /\ Flag(A)
            /\ Note(repo, Contents(kind), A)
<1>1. PICK A \in Lists(Contents(kind)) : \E bad \in Unreadable(A) : Answer(A, bad)
  BY DEF ReadItems
<1>2. PICK bad \in Unreadable(A) : Answer(A, bad)
  BY <1>1
<1>3. A \subseteq Contents(kind) /\ bad \subseteq A /\ Contents(kind) \subseteq Items
  BY <1>2, ListsSubset DEF Contents, DiscoveryTypeOK
<1>4. A = Contents(kind) \/ AtLimit(A)
  <2>1. IsFiniteSet(Contents(kind))
    BY <1>3, FiniteAssumption, FS_Subset
  <2>. QED
    BY <1>2, <2>1, ListsComplete DEF DiscoveryTypeOK
<1>5. truncated' = (truncated \/ AtLimit(A)) /\ AtLimit(A) \in BOOLEAN
  BY <1>2 DEF Flag, AtLimit
<1>6. truncated' \in BOOLEAN
  BY <1>5 DEF DiscoveryTypeOK
<1>7. ShortFlagged => ShortFlagged'
  BY <1>2, <1>4, <1>5 DEF ShortFlagged, Note
<1>8. GreenIsGreen'
  <2>1. PICK S \in Rollups :
          ci' = [i \in (IF kind = "prs" THEN A \ bad ELSE {}) |->
                   [status |-> Summary(S), checks |-> S]]
    BY <1>2
  <2>2. S \in SUBSET Raw
    BY InputsAssumption
  <2>3. \A i \in DOMAIN ci' : ci'[i].status = Summary(S) /\ ci'[i].checks = S
    BY <2>1
  <2>. QED
    BY <2>2, <2>3, GreenSummary DEF GreenIsGreen, Passing
<1>9. /\ found \subseteq found' /\ found' \subseteq Items
      /\ errors \subseteq errors' /\ errors' \subseteq errors \cup {repo}
      /\ \A i \in Contents(kind) : i \in found' \/ repo \in errors'
  BY <1>2, <1>3, <1>4 DEF DiscoveryTypeOK
<1>. QED
  BY <1>6, <1>7, <1>8, <1>9

LEMMA CommandTypes ==
  ASSUME ScanInv, Command
  PROVE  DiscoveryTypeOK'
<1>1. DiscoveryTypeOK /\ StageFacts
  BY DEF ScanInv
<1>2. /\ call.command \in {"discover", "plan"} /\ call.slugs \in SUBSET Repos
      /\ call.kind \in {"issues", "prs", "all"}
  BY <1>1, CallFacts DEF DiscoveryTypeOK
<1>3. UNCHANGED <<there, open, changes, call>>
  BY CommandLeaves DEF hub
<1> DEFINE Rest == /\ stage' \in {"start", "auth", "owners", "repos", "issues", "prs",
                                   "targets", "fetch", "done"}
                   /\ owners' \in Seq(Owners) /\ repos' \subseteq Repos
                   /\ repo' \in Repos \cup {Absent}
                   /\ found' \subseteq Items
                   /\ errors' \subseteq Owners \cup Repos \cup {"auth", "no owners"}
                   /\ truncated' \in BOOLEAN
                   /\ exit' \in {Absent, 0, 1, 2}
<1> USE DEF scan, result, Moves, Ends
<1>4. CASE Start
  <2>1. owners' \in Seq(Owners)
    BY <1>1, <1>4, StartOwners
  <2>2. Rest
    BY <1>1, <1>4, <2>1 DEF Start, DiscoveryTypeOK
  <2>. QED
    BY <1>1, <1>3, <2>2 DEF DiscoveryTypeOK
<1>5. CASE ListRepos
  <2>1. /\ Head(owners) \in Owners /\ owners' \in Seq(Owners)
        /\ repos' \subseteq Of(Head(owners)) \cup repos
        /\ errors' \subseteq errors \cup {Head(owners)}
        /\ found' = found /\ truncated' \in BOOLEAN
    BY <1>1, <1>5, ListedRepos, Zenon
  <2>2. Of(Head(owners)) \subseteq Repos
    BY <1>1 DEF Of, DiscoveryTypeOK
  <2>3. UNCHANGED <<repo, exit>> /\ stage' \in {"owners", "repos"}
    BY <1>5 DEF ListRepos
  <2>4. Rest
    BY <1>1, <2>1, <2>2, <2>3 DEF DiscoveryTypeOK
  <2>. QED
    BY <1>1, <1>3, <2>4 DEF DiscoveryTypeOK
<1>6. CASE ListFails
  <2>1. Head(owners) \in Owners /\ Tail(owners) \in Seq(Owners)
    BY <1>1, <1>6, FirstAndRest DEF ListFails, DiscoveryTypeOK
  <2>2. Rest
    BY <1>1, <1>6, <2>1 DEF ListFails, DiscoveryTypeOK
  <2>. QED
    BY <1>1, <1>3, <2>2 DEF DiscoveryTypeOK
<1>7. ASSUME NEW kind \in {"issues", "prs"}, ReadItems(kind)
      PROVE  DiscoveryTypeOK'
  <2>1. /\ found' \subseteq Items /\ truncated' \in BOOLEAN
        /\ errors' \subseteq errors \cup {repo}
    BY <1>1, <1>7, ReadingItems, Zenon
  <2>2. UNCHANGED <<owners, repos, repo, exit>> /\ stage = kind /\ stage' \in {"prs", "repos"}
    BY <1>7 DEF ReadItems, After
  <2>3. repo \in Repos
    BY <1>1, <2>2 DEF StageFacts
  <2>4. Rest
    BY <1>1, <2>1, <2>2, <2>3 DEF DiscoveryTypeOK
  <2>. QED
    BY <1>1, <1>3, <2>4 DEF DiscoveryTypeOK
<1>8. ASSUME NEW kind \in {"issues", "prs"}, ReadFails(kind)
      PROVE  DiscoveryTypeOK'
  <2>1. Rest
    BY <1>1, <1>8 DEF ReadFails, After, StageFacts, DiscoveryTypeOK
  <2>. QED
    BY <1>1, <1>3, <2>1 DEF DiscoveryTypeOK
<1>9. CASE Refuse \/ AuthOk \/ AuthFails \/ NoOwners \/ Report \/ FetchFails \/ ShowPlan
  <2>1. Rest
    BY <1>1, <1>9 DEF Refuse, AuthOk, AuthFails, NoOwners, Report, FetchFails, ShowPlan,
                      DiscoveryTypeOK
  <2>. QED
    BY <1>1, <1>3, <2>1 DEF DiscoveryTypeOK
<1>10. CASE TakeRepo \/ NextOwner \/ TakeTarget
  <2>1. Rest
    BY <1>1, <1>10 DEF TakeRepo, NextOwner, TakeTarget, DiscoveryTypeOK
  <2>. QED
    BY <1>1, <1>3, <2>1 DEF DiscoveryTypeOK
<1>11. CASE Targets \/ Fetch
  <2>1. Rest
    BY <1>1, <1>2, <1>11 DEF Targets, Fetch, DiscoveryTypeOK
  <2>. QED
    BY <1>1, <1>3, <2>1 DEF DiscoveryTypeOK
<1>. QED
  BY <1>4, <1>5, <1>6, <1>7, <1>8, <1>9, <1>10, <1>11 DEF Command

LEMMA CommandPlaces ==
  ASSUME ScanInv, Command
  PROVE  StageFacts'
<1>1. DiscoveryTypeOK /\ StageFacts
  BY DEF ScanInv
<1>2. /\ call.command \in {"discover", "plan"}
      /\ call.kind \in {"issues", "prs", "all"}
      /\ call.command = "plan" => call.kind = "prs"
  BY <1>1, CallFacts DEF DiscoveryTypeOK
<1>3. call' = call
  BY CommandLeaves
<1> USE DEF scan, result, history, Moves, Ends, StageFacts
<1>4. CASE Start
  BY <1>1, <1>2, <1>3, <1>4 DEF Start
<1>5. CASE ListRepos \/ ListFails
  <2>1. contacted' # {}
    BY <1>5 DEF ListRepos, ListFails
  <2>2. UNCHANGED <<repo, exit>> /\ stage = "owners"
    BY <1>5 DEF ListRepos, ListFails
  <2>3. stage' = "owners" \/ (stage' = "repos" /\ call.command = "discover")
    BY <1>2, <1>5 DEF ListRepos, ListFails
  <2>. QED
    BY <1>1, <1>3, <2>1, <2>2, <2>3
<1>6. ASSUME NEW kind \in {"issues", "prs"}, ReadItems(kind) \/ ReadFails(kind)
      PROVE  StageFacts'
  <2>1. UNCHANGED <<repo, exit, contacted>> /\ stage = kind /\ stage' \in {"prs", "repos"}
    BY <1>6 DEF ReadItems, ReadFails, After
  <2>. QED
    BY <1>1, <1>3, <2>1
<1>7. CASE Refuse \/ AuthOk \/ AuthFails \/ NoOwners \/ Report \/ FetchFails \/ ShowPlan
  BY <1>1, <1>3, <1>7 DEF Refuse, AuthOk, AuthFails, NoOwners, Report, FetchFails, ShowPlan
<1>8. CASE TakeRepo
  BY <1>1, <1>2, <1>3, <1>8 DEF TakeRepo, DiscoveryTypeOK
<1>9. CASE TakeTarget
  BY <1>1, <1>2, <1>3, <1>9 DEF TakeTarget, DiscoveryTypeOK
<1>10. CASE NextOwner \/ Targets \/ Fetch
  BY <1>1, <1>3, <1>10 DEF NextOwner, Targets, Fetch
<1>. QED
  BY <1>4, <1>5, <1>6, <1>7, <1>8, <1>9, <1>10 DEF Command

\* Asking an owner keeps to the allowlist.
LEMMA CommandPermitted ==
  ASSUME ScanInv, Command
  PROVE  Permitted'
<1>1. DiscoveryTypeOK /\ StageFacts /\ Permitted
  BY DEF ScanInv
<1>2. /\ call.command \in {"discover", "plan"} /\ call.allowed \in SUBSET Owners
      /\ call.command = "discover" => call.slugs = {}
  BY <1>1, CallFacts DEF DiscoveryTypeOK
<1>3. call' = call
  BY CommandLeaves
<1>4. CASE Unrestricted
  BY <1>3, <1>4 DEF Permitted, Unrestricted
<1> DEFINE Keeps == /\ contacted' \subseteq call.allowed
                    /\ stage' # "done" =>
                         /\ Elements(owners') \subseteq call.allowed
                         /\ \A r \in repos' \cup call.slugs : OwnerOf[r] \in call.allowed
<1>5. SUFFICES ASSUME ~Unrestricted
               PROVE  Keeps
  BY <1>3, <1>4 DEF Permitted
<1>6. contacted \subseteq call.allowed
  BY <1>1, <1>5 DEF Permitted
<1>7. stage \notin {"start", "done"} =>
        /\ Elements(owners) \subseteq call.allowed
        /\ \A r \in repos \cup call.slugs : OwnerOf[r] \in call.allowed
  BY <1>1, <1>5 DEF Permitted
<1> USE DEF scan, history, Moves, Ends
<1>8. CASE Start
  <2>1. Elements(owners') = IF call.asked = Absent THEN call.allowed ELSE Elements(call.asked)
    BY <1>1, <1>8, StartOwners
  <2>2. Wanted \subseteq call.allowed /\ \A r \in call.slugs : OwnerOf[r] \in call.allowed
    BY <1>2, <1>5, <1>8 DEF Start, Refused, Unrestricted
  <2>3. Elements(owners') \subseteq call.allowed
    BY <2>1, <2>2 DEF Wanted
  <2>4. UNCHANGED <<contacted, repos>> /\ repos = {}
    BY <1>1, <1>8 DEF Start, StageFacts
  <2>. QED
    BY <1>6, <2>2, <2>3, <2>4
<1>9. CASE ListRepos
  <2>1. /\ Elements(owners) = {Head(owners)} \cup Elements(owners')
        /\ repos' \subseteq Of(Head(owners)) \cup repos
    BY <1>1, <1>9, ListedRepos, Zenon
  <2>2. \A r \in Of(Head(owners)) : OwnerOf[r] = Head(owners)
    BY DEF Of
  <2>3. stage = "owners" /\ contacted' = contacted \cup {Head(owners)}
    BY <1>9 DEF ListRepos
  <2>. QED
    BY <1>6, <1>7, <2>1, <2>2, <2>3
<1>10. CASE ListFails
  <2>1. Elements(owners) = {Head(owners)} \cup Elements(owners')
    BY <1>1, <1>10, FirstAndRest DEF ListFails, DiscoveryTypeOK
  <2>2. stage = "owners" /\ contacted' = contacted \cup {Head(owners)} /\ repos' = repos
    BY <1>10 DEF ListFails
  <2>. QED
    BY <1>6, <1>7, <2>1, <2>2
<1>11. CASE TakeRepo \/ TakeTarget
  <2>1. PICK r \in repos : repo' = r /\ repos' = repos \ {r}
    BY <1>11 DEF TakeRepo, TakeTarget
  <2>2. stage \in {"repos", "targets"} /\ owners' = owners /\ contacted' = contacted \cup {OwnerOf[r]}
    BY <1>11, <2>1 DEF TakeRepo, TakeTarget
  <2>. QED
    BY <1>6, <1>7, <2>1, <2>2
<1>12. CASE Targets
  <2>1. stage = "owners" /\ owners' = owners /\ contacted' = contacted
    BY <1>12 DEF Targets
  <2>2. repos' = repos \cup call.slugs
    BY <1>12 DEF Targets
  <2>. QED
    BY <1>6, <1>7, <2>1, <2>2
<1>13. ASSUME NEW kind \in {"issues", "prs"}, ReadItems(kind) \/ ReadFails(kind)
       PROVE  Keeps
  <2>1. UNCHANGED <<owners, repos, contacted>> /\ stage = kind
    BY <1>13 DEF ReadItems, ReadFails
  <2>. QED
    BY <1>6, <1>7, <2>1
<1>14. CASE Refuse \/ AuthFails \/ NoOwners \/ Report \/ FetchFails \/ ShowPlan
  BY <1>6, <1>14 DEF Refuse, AuthFails, NoOwners, Report, FetchFails, ShowPlan
<1>15. CASE AuthOk \/ NextOwner \/ Fetch
  BY <1>6, <1>7, <1>15 DEF AuthOk, NextOwner, Fetch
<1>. QED
  BY <1>8, <1>9, <1>10, <1>11, <1>12, <1>13, <1>14, <1>15 DEF Command

\* What is in the scope of the command stays so.
LEMMA ScopeStays ==
  call' = call => /\ Wanted' = Wanted /\ Kinds' = Kinds
                  /\ \A i : InScope(i)' <=> InScope(i)
BY DEF Wanted, Kinds, InScope

\* No step forgets an item it owes an answer for.
LEMMA CommandDue ==
  ASSUME ScanInv, Command
  PROVE  Due'
<1>1. DiscoveryTypeOK /\ Present /\ StageFacts /\ Due
  BY DEF ScanInv
<1>2. /\ call.command \in {"discover", "plan"}
      /\ call.kind \in {"issues", "prs", "all"}
      /\ call.command = "discover" => call.slugs = {}
      /\ call.command = "plan" => call.kind = "prs"
  BY <1>1, CallFacts DEF DiscoveryTypeOK
<1>3. UNCHANGED <<there, open, call, steady>>
  BY CommandLeaves DEF hub
<1> SUFFICES ASSUME NEW i \in steady, InScope(i)
             PROVE  Accounted(i)' \/ ToCome(i)'
  BY <1>3, ScopeStays DEF Due
<1>4. Accounted(i) \/ ToCome(i)
  BY <1>1 DEF Due
<1>5. i \in open /\ i \in Items /\ Home[i] \in there /\ i \in Kinds
  BY <1>1 DEF Present, DiscoveryTypeOK, InScope
<1>6. Home[i] \in Of(OwnerOf[Home[i]])
  BY <1>5 DEF Of
<1>7. ASSUME call.kind = "prs"
      PROVE  i \in Requests
  BY <1>5, <1>7 DEF Kinds
<1>8. ASSUME i \in Requests
      PROVE  call.kind # "issues"
  BY <1>5, <1>8 DEF Kinds
<1>9. stage # "done" => exit \notin {1, 2}
  BY <1>1, AbsentAssumption DEF StageFacts
<1>10. ASSUME Accounted(i), found \subseteq found', lost \subseteq lost', errors \subseteq errors'
       PROVE  Accounted(i)'
  BY <1>3, <1>10 DEF Accounted
<1>11. ASSUME UNCHANGED <<found, lost, errors>>, Accounted(i)
       PROVE  Accounted(i)'
  BY <1>10, <1>11
<1> USE DEF scan, result, history, Moves, Ends
<1>12. CASE Start
  <2>1. Elements(owners') = IF call.asked = Absent THEN call.allowed ELSE Elements(call.asked)
    BY <1>1, <1>12, StartOwners
  <2>2. OwnerOf[Home[i]] \in Elements(owners') \/ Home[i] \in call.slugs
    BY <2>1 DEF InScope, Wanted
  <2>3. CASE OwnerOf[Home[i]] \in Elements(owners')
    BY <1>12, <2>3 DEF Start, ToCome
  <2>4. CASE Home[i] \in call.slugs
    <3>1. call.command = "plan"
      BY <1>2, <2>4
    <3>. QED
      BY <1>3, <1>12, <2>4, <3>1 DEF Start, ToCome
  <2>. QED
    BY <2>2, <2>3, <2>4
<1>13. CASE ListRepos
  <2>1. /\ Elements(owners) = {Head(owners)} \cup Elements(owners')
        /\ call.command = "plan" => repos \subseteq repos'
        /\ errors \subseteq errors' /\ lost \subseteq lost' /\ found' = found
        /\ \A r \in Of(Head(owners)) : r \in repos' \/ r \in lost' \/ Head(owners) \in errors'
    BY <1>1, <1>13, ListedRepos, Zenon
  <2>2. stage = "owners" /\ stage' = IF call.command = "plan" THEN "owners" ELSE "repos"
    BY <1>13 DEF ListRepos
  <2>3. CASE Accounted(i)
    BY <1>10, <2>1, <2>3
  <2>4. CASE OwnerOf[Home[i]] = Head(owners)
    <3>1. Home[i] \in repos' \/ Home[i] \in lost' \/ OwnerOf[Home[i]] \in errors'
      BY <1>6, <2>1, <2>4
    <3>. QED
      BY <1>2, <1>3, <2>2, <3>1 DEF Accounted, ToCome
  <2>5. CASE OwnerOf[Home[i]] \in Elements(owners')
    BY <2>2, <2>5 DEF ToCome
  <2>6. CASE call.command = "plan" /\ (errors # {} \/ Home[i] \in repos \cup call.slugs)
    BY <1>3, <2>1, <2>2, <2>6 DEF ToCome
  <2>. QED
    BY <1>4, <1>9, <2>1, <2>2, <2>3, <2>4, <2>5, <2>6 DEF ToCome
<1>14. CASE ListFails
  <2>1. Elements(owners) = {Head(owners)} \cup Elements(owners')
    BY <1>1, <1>14, FirstAndRest DEF ListFails, DiscoveryTypeOK
  <2>2. /\ stage = "owners" /\ stage' = "owners" /\ UNCHANGED <<repos, found, lost>>
        /\ errors' = errors \cup {Head(owners)}
    BY <1>14 DEF ListFails
  <2>3. CASE Accounted(i)
    BY <1>10, <2>2, <2>3
  <2>4. CASE OwnerOf[Home[i]] = Head(owners)
    BY <1>2, <1>3, <2>2, <2>4 DEF Accounted, ToCome
  <2>5. CASE OwnerOf[Home[i]] \in Elements(owners')
    BY <2>2, <2>5 DEF ToCome
  <2>6. CASE call.command = "plan" /\ (errors # {} \/ Home[i] \in repos \cup call.slugs)
    BY <1>3, <2>2, <2>6 DEF ToCome
  <2>. QED
    BY <1>4, <1>9, <2>1, <2>2, <2>3, <2>4, <2>5, <2>6 DEF ToCome
<1>15. CASE TakeRepo
  <2>1. PICK r \in repos : repo' = r /\ repos' = repos \ {r}
    BY <1>15 DEF TakeRepo
  <2>2. /\ stage = "repos" /\ stage' = IF call.kind = "prs" THEN "prs" ELSE "issues"
        /\ UNCHANGED <<owners, found, lost, errors>>
    BY <1>15 DEF TakeRepo
  <2>3. CASE Accounted(i)
    BY <1>11, <2>2, <2>3
  <2>4. CASE ToCome(i)
    BY <1>7, <1>9, <2>1, <2>2, <2>4 DEF ToCome
  <2>. QED
    BY <1>4, <2>3, <2>4
<1>16. ASSUME NEW kind \in {"issues", "prs"}, ReadItems(kind) \/ ReadFails(kind)
       PROVE  Accounted(i)' \/ ToCome(i)'
  <2>1. /\ stage = kind /\ stage' = After(kind)
        /\ UNCHANGED <<owners, repos, repo, exit, lost>>
    BY <1>16 DEF ReadItems, ReadFails
  <2>2. call.command = "discover"
    BY <1>1, <2>1 DEF StageFacts
  <2>3. /\ found \subseteq found' /\ errors \subseteq errors'
        /\ i \in Contents(kind) => i \in found' \/ repo \in errors'
    <3>1. CASE ReadItems(kind)
      BY <1>1, <3>1, ReadingItems, Zenon
    <3>2. CASE ReadFails(kind)
      BY <1>5, <3>2 DEF ReadFails, Contents
    <3>. QED
      BY <1>16, <3>1, <3>2
  <2>4. CASE Accounted(i)
    BY <1>10, <2>1, <2>3, <2>4
  <2>5. CASE OwnerOf[Home[i]] \in Elements(owners) \/ Home[i] \in repos
    BY <2>1, <2>5 DEF ToCome, After
  <2>6. CASE i \in Contents(kind)
    <3>1. Home[i] = repo
      BY <2>6 DEF Contents
    <3>. QED
      BY <1>3, <2>2, <2>3, <2>6, <3>1 DEF Accounted
  <2>7. CASE Home[i] = repo /\ i \notin Contents(kind) /\ (kind = "prs" => i \in Requests)
    <3>1. kind = "issues" /\ i \in Requests
      BY <1>5, <2>7 DEF Contents
    <3>2. stage' = "prs"
      BY <1>1, <1>2, <1>8, <2>1, <3>1 DEF After, StageFacts
    <3>. QED
      BY <2>1, <2>7, <3>1, <3>2 DEF ToCome
  <2>. QED
    BY <1>4, <1>9, <2>1, <2>4, <2>5, <2>6, <2>7 DEF ToCome
<1>17. CASE Targets
  <2>1. /\ stage = "owners" /\ call.command = "plan" /\ owners = <<>>
        /\ UNCHANGED <<owners, found, lost, errors>> /\ repos' = repos \cup call.slugs
        /\ exit' = 1 \/ (errors = {} /\ stage' = "targets")
    BY <1>17 DEF Targets
  <2>2. Elements(owners) = {}
    BY <2>1 DEF Elements
  <2>3. CASE Accounted(i)
    BY <1>11, <2>1, <2>3
  <2>4. CASE ToCome(i)
    BY <1>9, <2>1, <2>2, <2>4 DEF ToCome
  <2>. QED
    BY <1>4, <2>3, <2>4
<1>18. CASE TakeTarget
  <2>1. PICK r \in repos : repo' = r /\ repos' = repos \ {r}
    BY <1>18 DEF TakeTarget
  <2>2. stage = "targets" /\ stage' = "fetch" /\ UNCHANGED <<found, lost, errors>>
    BY <1>18 DEF TakeTarget
  <2>3. CASE Accounted(i)
    BY <1>11, <2>2, <2>3
  <2>4. CASE ToCome(i)
    BY <1>9, <2>1, <2>2, <2>4 DEF ToCome
  <2>. QED
    BY <1>4, <2>3, <2>4
<1>19. CASE Fetch
  <2>1. /\ stage = "fetch" /\ stage' = "targets" /\ UNCHANGED <<repos, lost, errors>>
        /\ found' = found \cup {p \in open \cap Requests : Home[p] = repo}
    BY <1>19 DEF Fetch
  <2>2. CASE Accounted(i)
    BY <1>10, <2>1, <2>2
  <2>3. CASE ToCome(i)
    <3>1. i \in Requests
      BY <1>1, <1>2, <1>7, <2>1 DEF StageFacts
    <3>2. CASE Home[i] = repo
      BY <1>5, <2>1, <3>1, <3>2 DEF Accounted
    <3>3. CASE Home[i] \in repos
      BY <2>1, <3>3 DEF ToCome
    <3>. QED
      BY <1>9, <2>1, <2>3, <3>2, <3>3 DEF ToCome
  <2>. QED
    BY <1>4, <2>2, <2>3
<1>20. CASE NoOwners
  <2>1. /\ stage = "owners" /\ call.command = "discover" /\ owners = <<>>
        /\ errors = {} /\ lost = {} /\ found = {}
    BY <1>1, <1>20 DEF NoOwners, StageFacts
  <2>2. Elements(owners) = {}
    BY <2>1 DEF Elements
  <2>. QED
    BY <1>4, <1>9, <2>1, <2>2 DEF Accounted, ToCome
<1>21. CASE AuthFails
  <2>1. call.command = "discover"
    BY <1>1, <1>21 DEF AuthFails, StageFacts
  <2>. QED
    BY <1>3, <1>21, <2>1 DEF AuthFails, Accounted
<1>22. CASE AuthOk \/ NextOwner
  <2>1. /\ UNCHANGED <<owners, found, lost, errors>> /\ stage' = "owners"
        /\ stage = "auth" \/ (stage = "repos" /\ repos = {})
    BY <1>22 DEF AuthOk, NextOwner
  <2>2. CASE Accounted(i)
    BY <1>11, <2>1, <2>2
  <2>3. CASE ToCome(i)
    BY <1>9, <2>1, <2>3 DEF ToCome
  <2>. QED
    BY <1>4, <2>2, <2>3
<1>23. CASE Report
  <2>1. /\ stage = "owners" /\ call.command = "discover" /\ owners = <<>>
        /\ UNCHANGED <<found, lost, errors>>
    BY <1>23 DEF Report
  <2>2. Elements(owners) = {}
    BY <2>1 DEF Elements
  <2>. QED
    BY <1>4, <1>9, <1>11, <2>1, <2>2 DEF ToCome
<1>24. CASE ShowPlan
  <2>1. stage = "targets" /\ repos = {} /\ UNCHANGED <<found, lost, errors>>
    BY <1>24 DEF ShowPlan
  <2>. QED
    BY <1>4, <1>9, <1>11, <2>1 DEF ToCome
<1>25. CASE Refuse \/ FetchFails
  BY <1>25 DEF Refuse, FetchFails, ToCome
<1>. QED
  BY <1>12, <1>13, <1>14, <1>15, <1>16, <1>17, <1>18, <1>19, <1>20, <1>21, <1>22, <1>23, <1>24,
     <1>25 DEF Command

\* A list cut short is flagged, and a roll-up summed up, when it is read.
LEMMA CommandFlags ==
  ASSUME ScanInv, Command
  PROVE  ShortFlagged' /\ GreenIsGreen'
<1>1. DiscoveryTypeOK /\ ShortFlagged /\ GreenIsGreen
  BY DEF ScanInv
<1>2. CASE ListRepos
  <2>1. ShortFlagged'
    BY <1>1, <1>2, ListedRepos, Zenon
  <2>2. ci' = ci
    BY <1>2 DEF ListRepos
  <2>. QED
    BY <1>1, <2>1, <2>2 DEF GreenIsGreen
<1>3. ASSUME NEW kind \in {"issues", "prs"}, ReadItems(kind)
      PROVE  ShortFlagged' /\ GreenIsGreen'
  BY <1>1, <1>3, ReadingItems, Zenon
<1>4. CASE ~ListRepos /\ \A kind \in {"issues", "prs"} : ~ReadItems(kind)
  <2>1. UNCHANGED <<ci, truncated, cut>>
    BY <1>4 DEF Command, Refuse, Start, AuthOk, AuthFails, NoOwners, ListFails, TakeRepo,
           NextOwner, Report, ReadFails, Targets, TakeTarget, Fetch, FetchFails, ShowPlan,
           result, history
  <2>. QED
    BY <1>1, <2>1 DEF ShortFlagged, GreenIsGreen
<1>. QED
  BY <1>2, <1>3, <1>4

LEMMA CommandPresent ==
  ASSUME ScanInv, Command
  PROVE  Present'
<1>1. UNCHANGED <<there, open, steady>>
  BY CommandLeaves DEF hub
<1>. QED
  BY <1>1 DEF ScanInv, Present

\* What happens on GitHub takes nothing from what the scan knows.
LEMMA GitHubMoves ==
  ASSUME ScanInv, OpenOrClose \/ DeleteRepo \/ CreateRepo
  PROVE  ScanInv'
<1>1. DiscoveryTypeOK /\ Present /\ StageFacts /\ Due /\ Permitted /\ ShortFlagged /\ GreenIsGreen
  BY DEF ScanInv
<1>2. /\ UNCHANGED <<call, stage, owners, repos, repo, found, ci, errors, truncated, exit>>
      /\ UNCHANGED <<contacted, lost, cut>>
      /\ stage # "start" /\ changes' \in 0..MaxChanges
      /\ steady' = steady \cap open'
  <2>1. Change
    BY DEF OpenOrClose, DeleteRepo, CreateRepo
  <2>2. changes' = changes + 1 /\ changes < MaxChanges
    BY <2>1 DEF Change
  <2>3. changes' \in 0..MaxChanges
    <3>1. MaxChanges \in Nat /\ changes \in 0..MaxChanges
      BY <1>1, InputsAssumption DEF DiscoveryTypeOK
    <3>. QED
      BY <2>2, <3>1
  <2>. QED
    BY <2>1, <2>3 DEF Change, scan, result
<1>3. there' \subseteq Repos /\ open' \subseteq Items /\ \A i \in open' : Home[i] \in there'
  BY <1>1 DEF OpenOrClose, DeleteRepo, CreateRepo, DiscoveryTypeOK, Present
<1>4. DiscoveryTypeOK'
  BY <1>1, <1>2, <1>3 DEF DiscoveryTypeOK
<1>5. Present' /\ StageFacts'
  BY <1>1, <1>2, <1>3 DEF Present, StageFacts
<1>6. Due'
  <2>1. \A i : (InScope(i)' <=> InScope(i)) /\ (Accounted(i)' <=> Accounted(i))
    BY <1>2, ScopeStays DEF Accounted
  <2>2. \A i : ToCome(i)' <=> ToCome(i)
    BY <1>2 DEF ToCome
  <2>. QED
    BY <1>1, <1>2, <2>1, <2>2 DEF Due
<1>7. Permitted' /\ ShortFlagged' /\ GreenIsGreen'
  BY <1>1, <1>2 DEF Permitted, Unrestricted, ShortFlagged, GreenIsGreen
<1>. QED
  BY <1>4, <1>5, <1>6, <1>7 DEF ScanInv

LEMMA ScanStays == ScanInv /\ [DiscoveryNext]_discoveryVars => ScanInv'
<1>1. ASSUME ScanInv, Command
      PROVE  ScanInv'
  BY <1>1, CommandTypes, CommandPlaces, CommandPermitted, CommandDue, CommandFlags, CommandPresent
     DEF ScanInv
<1>2. ASSUME ScanInv, UNCHANGED discoveryVars
      PROVE  ScanInv'
  <2>1. /\ UNCHANGED <<there, open, changes, call, stage, owners, repos, repo, found, ci>>
        /\ UNCHANGED <<errors, truncated, exit, steady, contacted, lost, cut>>
    BY <1>2 DEF discoveryVars, hub, scan, result, history
  <2>2. \A i : (InScope(i)' <=> InScope(i)) /\ (Accounted(i)' <=> Accounted(i))
               /\ (ToCome(i)' <=> ToCome(i))
    BY <2>1, ScopeStays DEF Accounted, ToCome
  <2>3. Due'
    BY <1>2, <2>1, <2>2 DEF ScanInv, Due
  <2>4. DiscoveryTypeOK' /\ Present' /\ StageFacts' /\ Permitted' /\ ShortFlagged' /\ GreenIsGreen'
    BY <1>2, <2>1 DEF ScanInv, DiscoveryTypeOK, Present, StageFacts, Permitted, Unrestricted,
                      ShortFlagged, GreenIsGreen
  <2>. QED
    BY <2>3, <2>4 DEF ScanInv
<1>. QED
  BY <1>1, <1>2, GitHubMoves DEF DiscoveryNext

LEMMA ScanAlways == DiscoverySpec => []ScanInv
BY ScanStarts, ScanStays, PTL DEF DiscoverySpec

\* Every state of a scan is of its type.
THEOREM ScanTypes == DiscoverySpec => []DiscoveryTypeOK
<1>1. ScanInv => DiscoveryTypeOK
  BY DEF ScanInv
<1>. QED
  BY <1>1, ScanAlways, PTL

\* A finished scan has nothing to come to.
LEMMA NothingToCome ==
  ASSUME ScanInv, exit = 0, NEW i \in steady, InScope(i)
  PROVE  Accounted(i)
<1>1. stage = "done"
  BY AbsentAssumption DEF ScanInv, StageFacts
<1>2. ~ToCome(i)
  BY <1>1 DEF ToCome
<1>. QED
  BY <1>2 DEF ScanInv, Due

\* What discover does not show it says it does not show, whatever fails, is cut
\* short or changes on GitHub meanwhile (discover.py:27, 310-312, 577-600).
THEOREM SilenceIsEmpty == DiscoverySpec => []OmissionsTold
<1>1. ScanInv => MissingIsExplained
  BY NothingToCome DEF MissingIsExplained, Accounted
<1>2. ScanInv => CutIsFlagged
  BY DEF ScanInv, ShortFlagged, CutIsFlagged
<1>. QED
  BY <1>1, <1>2, ScanAlways, PTL DEF OmissionsTold

\* A plan that is printed leaves out no pull request that was open during the
\* whole command (cli.py:412-415).
THEOREM PlanHasAll == DiscoverySpec => []PlanIsComplete
<1>1. ScanInv => PlanIsComplete
  BY NothingToCome DEF PlanIsComplete, Accounted
<1>. QED
  BY <1>1, ScanAlways, PTL

\* gh is asked about owners of the allowlist only (cli.py:344-362,
\* discover.py:468-503).
THEOREM AsksAllowed == DiscoverySpec => []OnlyAllowedContacted
<1>1. ScanInv => OnlyAllowedContacted
  BY DEF ScanInv, Permitted, Unrestricted, OnlyAllowedContacted
<1>. QED
  BY <1>1, ScanAlways, PTL

\* Green is green for every roll-up GitHub can show (discover.py:164-211,
\* ci_taxonomy.py:310-322).
THEOREM ShownGreen == DiscoverySpec => []GreenIsGreen
<1>1. ScanInv => GreenIsGreen
  BY DEF ScanInv
<1>. QED
  BY <1>1, ScanAlways, PTL

-----------------------------------------------------------------------------
(* Stacks: links, ancestors and the walk up                                *)

\* Every request has a parent among the requests, or none.
Links ==
  /\ parent \in [DOMAIN parent -> DOMAIN parent \cup {Nil}]
  /\ Nil \notin DOMAIN parent
  /\ IsFiniteSet(DOMAIN parent)

LEMMA AncestorsLeast ==
  ASSUME Links, NEW p \in DOMAIN parent
  PROVE  /\ Ancestors(p) \subseteq DOMAIN parent
         /\ parent[p] \in Ancestors(p) \cup {Nil}
         /\ \A q \in Ancestors(p) : parent[q] \in Ancestors(p) \cup {Nil}
BY DEF Links, Ancestors

LEMMA AncestorsWithin ==
  ASSUME Links, NEW p \in DOMAIN parent, NEW S \in SUBSET DOMAIN parent,
         parent[p] \in S \cup {Nil}, \A q \in S : parent[q] \in S \cup {Nil}
  PROVE  Ancestors(p) \subseteq S
BY DEF Ancestors

\* Nobody is above a request without a parent; above another are its parent
\* and whoever is above that.
LEMMA AncestorsStep ==
  ASSUME Links, NEW p \in DOMAIN parent
  PROVE  Ancestors(p) =
           IF parent[p] = Nil THEN {} ELSE {parent[p]} \cup Ancestors(parent[p])
<1>1. CASE parent[p] = Nil
  <2> DEFINE S == {q \in DOMAIN parent : FALSE}
  <2>1. S \in SUBSET DOMAIN parent /\ parent[p] \in S \cup {Nil} /\ \A q : q \notin S
    BY <1>1
  <2> HIDE DEF S
  <2>2. Ancestors(p) \subseteq S
    BY <2>1, AncestorsWithin
  <2>. QED
    BY <1>1, <2>1, <2>2
<1>2. CASE parent[p] # Nil
  <2> DEFINE r == parent[p]
  <2>1. r \in DOMAIN parent
    BY <1>2 DEF Links
  <2> HIDE DEF r
  <2>2. Ancestors(p) \subseteq {r} \cup Ancestors(r)
    <3>1. /\ {r} \cup Ancestors(r) \subseteq DOMAIN parent
          /\ \A q \in {r} \cup Ancestors(r) : parent[q] \in {r} \cup Ancestors(r) \cup {Nil}
      BY <2>1, AncestorsLeast
    <3>. QED
      BY <3>1, AncestorsWithin DEF r
  <2>3. r \in Ancestors(p)
    BY <1>2, AncestorsLeast DEF r
  <2>4. Ancestors(r) \subseteq Ancestors(p)
    <3>1. /\ Ancestors(p) \subseteq DOMAIN parent
          /\ \A q \in Ancestors(p) : parent[q] \in Ancestors(p) \cup {Nil}
      BY AncestorsLeast
    <3>2. parent[r] \in Ancestors(p) \cup {Nil}
      BY <2>3, <3>1
    <3>. QED
      BY <2>1, <3>1, <3>2, AncestorsWithin
  <2>. QED
    BY <1>2, <2>2, <2>3, <2>4 DEF r
<1>. QED
  BY <1>1, <1>2

LEMMA AncestorsTransitive ==
  ASSUME Links, NEW p \in DOMAIN parent, NEW q \in Ancestors(p)
  PROVE  q \in DOMAIN parent /\ Ancestors(q) \subseteq Ancestors(p)
<1>1. /\ Ancestors(p) \subseteq DOMAIN parent
      /\ \A r \in Ancestors(p) : parent[r] \in Ancestors(p) \cup {Nil}
  BY AncestorsLeast
<1>2. q \in DOMAIN parent /\ parent[q] \in Ancestors(p) \cup {Nil}
  BY <1>1
<1>. QED
  BY <1>1, <1>2, AncestorsWithin

\* No ring above p: none at p, and none above its parent.
LEMMA RootedStep ==
  ASSUME Links, NEW p \in DOMAIN parent
  PROVE  Rooted(p) <=> IF parent[p] = Nil THEN TRUE
                       ELSE p \notin Ancestors(p) /\ Rooted(parent[p])
BY AncestorsStep DEF Rooted

\* The recursion of ChainHealthy, and what it comes to.
Up(ok, f) ==
  f = [pair \in (SUBSET DOMAIN parent) \X DOMAIN parent |->
         /\ pair[2] \notin pair[1]
         /\ \/ parent[pair[2]] = Nil
            \/ parent[pair[2]] \in ok /\ f[<<pair[1] \cup {pair[2]}, parent[pair[2]]>>]]

Clear(ok, seen, q) ==
  /\ q \notin seen /\ Rooted(q)
  /\ Ancestors(q) \cap seen = {} /\ Ancestors(q) \subseteq ok

LEMMA ClearStep ==
  ASSUME Links, NEW ok, NEW seen, NEW q \in DOMAIN parent
  PROVE  Clear(ok, seen, q) <=>
           /\ q \notin seen
           /\ \/ parent[q] = Nil
              \/ parent[q] \in ok /\ Clear(ok, seen \cup {q}, parent[q])
<1>1. CASE parent[q] = Nil
  BY <1>1, AncestorsStep, RootedStep DEF Clear
<1>2. CASE parent[q] # Nil
  <2> DEFINE r == parent[q]
  <2>1. r # Nil /\ Ancestors(q) = {r} \cup Ancestors(r)
    BY <1>2, AncestorsStep
  <2>2. Rooted(q) <=> q \notin Ancestors(q) /\ Rooted(r)
    BY <1>2, RootedStep
  <2> HIDE DEF r
  <2>3. Clear(ok, seen, q) <=> q \notin seen /\ r \in ok /\ Clear(ok, seen \cup {q}, r)
    BY <2>1, <2>2 DEF Clear
  <2>. QED
    BY <2>1, <2>3 DEF r
<1>. QED
  BY <1>1, <1>2

\* Up has one solution: on the sets of those seen, from the largest down.
LEMMA UpIsClear ==
  ASSUME Links, NEW ok, NEW f, Up(ok, f)
  PROVE  \A seen \in SUBSET DOMAIN parent, q \in DOMAIN parent :
           f[<<seen, q>>] <=> Clear(ok, seen, q)
<1> DEFINE D == DOMAIN parent
           Agree(seen) == \A q \in D : f[<<seen, q>>] <=> Clear(ok, seen, q)
           rest == {D \ seen : seen \in {s \in SUBSET D : ~Agree(s)}}
<1>1. IsWellFoundedOn(StrictSubsetOrdering(D), FiniteSubsetsOf(D))
  BY FS_StrictSubsetOrderingWellFounded
<1>2. rest \subseteq FiniteSubsetsOf(D)
  <2>1. FiniteSubsetsOf(D) = SUBSET D
    BY FS_FiniteSubsetsOfFinite DEF Links
  <2>. QED
    BY <2>1
<1>3. ASSUME NEW seen \in SUBSET D, \A s \in SUBSET D : seen \subseteq s /\ seen # s => Agree(s)
      PROVE  Agree(seen)
  <2> SUFFICES ASSUME NEW q \in D
               PROVE  f[<<seen, q>>] <=> Clear(ok, seen, q)
    OBVIOUS
  <2>1. f[<<seen, q>>] <=> /\ q \notin seen
                          /\ \/ parent[q] = Nil
                             \/ parent[q] \in ok /\ f[<<seen \cup {q}, parent[q]>>]
    <3> DEFINE pair == <<seen, q>>
    <3>1. pair \in (SUBSET D) \X D /\ pair[1] = seen /\ pair[2] = q
      OBVIOUS
    <3> HIDE DEF pair
    <3>2. f[pair] = (/\ pair[2] \notin pair[1]
                   /\ \/ parent[pair[2]] = Nil
                      \/ parent[pair[2]] \in ok /\ f[<<pair[1] \cup {pair[2]}, parent[pair[2]]>>])
      BY <3>1 DEF Up
    <3>. QED
      BY <3>1, <3>2 DEF pair
  <2>2. CASE q \in seen \/ parent[q] = Nil
    BY <2>1, <2>2, ClearStep
  <2>3. CASE q \notin seen /\ parent[q] # Nil
    <3>1. parent[q] \in D /\ seen \cup {q} \in SUBSET D /\ seen \subseteq seen \cup {q}
      BY <2>3 DEF Links
    <3>2. seen # seen \cup {q}
      BY <2>3
    <3>3. Agree(seen \cup {q})
      BY <1>3, <3>1, <3>2
    <3>4. f[<<seen \cup {q}, parent[q]>>] <=> Clear(ok, seen \cup {q}, parent[q])
      BY <3>1, <3>3
    <3>. QED
      BY <2>1, <2>3, <3>4, ClearStep
  <2>. QED
    BY <2>2, <2>3
<1>4. rest = {}
  <2> SUFFICES ASSUME rest # {}
               PROVE  FALSE
    OBVIOUS
  <2> HIDE DEF rest, Agree
  <2>1. PICK r \in rest : \A t \in rest : ~(<<t, r>> \in StrictSubsetOrdering(D))
    BY <1>1, <1>2, WFMin, Zenon
  <2>2. PICK seen \in SUBSET D : ~Agree(seen) /\ r = D \ seen
    BY DEF rest
  <2>3. PICK s \in SUBSET D : seen \subseteq s /\ seen # s /\ ~Agree(s)
    BY <1>3, <2>2
  <2>4. D \ s \in rest
    BY <2>3 DEF rest
  <2>5. <<D \ s, r>> \in StrictSubsetOrdering(D)
    <3>1. D \ s \subseteq r /\ D \ s # r /\ r \subseteq D
      BY <2>2, <2>3
    <3>. QED
      BY <3>1 DEF StrictSubsetOrdering
  <2>. QED
    BY <2>1, <2>4, <2>5
<1>. QED
  BY <1>4

\* The walk up from p finds everybody healthy just when p stands on no ring and
\* all its ancestors are healthy (Stack._is_ancestor_chain_healthy).
LEMMA ChainHealthyIs ==
  ASSUME Links, NEW ok, NEW p \in DOMAIN parent
  PROVE  ChainHealthy(p, ok) <=> Rooted(p) /\ Ancestors(p) \subseteq ok
<1> DEFINE D == DOMAIN parent
           g == [pair \in (SUBSET D) \X D |-> Clear(ok, pair[1], pair[2])]
           f == CHOOSE h : Up(ok, h)
<1>1. ChainHealthy(p, ok) = f[<<{}, p>>]
  BY DEF ChainHealthy, Up
<1>2. Up(ok, g)
  <2>1. ASSUME NEW pair \in (SUBSET D) \X D
        PROVE  Clear(ok, pair[1], pair[2]) =
                 (/\ pair[2] \notin pair[1]
                  /\ \/ parent[pair[2]] = Nil
                     \/ parent[pair[2]] \in ok /\ g[<<pair[1] \cup {pair[2]}, parent[pair[2]]>>])
    <3>1. parent[pair[2]] # Nil => <<pair[1] \cup {pair[2]}, parent[pair[2]]>> \in (SUBSET D) \X D
      BY DEF Links
    <3>2. parent[pair[2]] # Nil => g[<<pair[1] \cup {pair[2]}, parent[pair[2]]>>]
                                  = Clear(ok, pair[1] \cup {pair[2]}, parent[pair[2]])
      BY <3>1
    <3>3. Clear(ok, pair[1], pair[2]) <=>
            /\ pair[2] \notin pair[1]
            /\ \/ parent[pair[2]] = Nil
               \/ parent[pair[2]] \in ok /\ Clear(ok, pair[1] \cup {pair[2]}, parent[pair[2]])
      BY ClearStep
    <3>4. CASE parent[pair[2]] = Nil
      BY <3>3, <3>4 DEF Clear
    <3>5. CASE parent[pair[2]] # Nil
      <4> HIDE DEF g
      <4>. QED
        BY <3>2, <3>3, <3>5 DEF Clear
    <3>. QED
      BY <3>4, <3>5
  <2>. QED
    BY <2>1 DEF Up
<1>3. Up(ok, f)
  BY <1>2
<1>4. f[<<{}, p>>] <=> Clear(ok, {}, p)
  BY <1>3, UpIsClear
<1>. QED
  BY <1>1, <1>4 DEF Clear

\* A list in which every request comes after its parent is in order.
InOrder(s) == \A q \in Elements(s) : parent[q] = Nil \/ Before(s, parent[q], q)

LEMMA OrderIsUpward ==
  ASSUME Links, NEW s \in Seq(DOMAIN parent), Simple(s), InOrder(s)
  PROVE  \A x \in Elements(s) : \A y \in Ancestors(x) : Before(s, y, x)
<1> SUFFICES ASSUME NEW x \in Elements(s)
             PROVE  \A y \in Ancestors(x) : Before(s, y, x)
  OBVIOUS
<1>1. Elements(s) \subseteq DOMAIN parent
  BY DEF Elements
<1> DEFINE S == {y \in DOMAIN parent : Before(s, y, x)}
<1>2. parent[x] \in S \cup {Nil}
  BY <1>1 DEF InOrder, Links
<1>3. ASSUME NEW y \in S
      PROVE  parent[y] \in S \cup {Nil}
  <2>1. y \in Elements(s)
    BY <1>3, BeforeIn
  <2>2. parent[y] = Nil \/ Before(s, parent[y], y)
    BY <2>1 DEF InOrder
  <2>3. CASE Before(s, parent[y], y)
    <3>1. Before(s, parent[y], x)
      BY <1>3, <2>3, BeforeTransitive
    <3>2. parent[y] \in Elements(s)
      BY <2>3, BeforeIn
    <3>. QED
      BY <1>1, <3>1, <3>2
  <2>. QED
    BY <2>2, <2>3
<1>4. S \in SUBSET DOMAIN parent
  OBVIOUS
<1> HIDE DEF S
<1>5. Ancestors(x) \subseteq S
  BY <1>1, <1>2, <1>3, <1>4, AncestorsWithin
<1>. QED
  BY <1>5 DEF S

LEMMA OrderIsRight ==
  ASSUME Links, NEW s \in Seq(DOMAIN parent), Simple(s), InOrder(s)
  PROVE  /\ \A x \in Elements(s) : Ancestors(x) \subseteq Elements(s)
         /\ \A x, y : Before(s, x, y) => y \notin Ancestors(x)
<1>1. \A x \in Elements(s) : \A y \in Ancestors(x) : Before(s, y, x)
  BY OrderIsUpward
<1>2. ASSUME NEW x, NEW y, Before(s, x, y), y \in Ancestors(x)
      PROVE  FALSE
  <2>1. Before(s, y, x)
    BY <1>1, <1>2, BeforeIn
  <2>2. Before(s, x, x)
    BY <1>2, <2>1, BeforeTransitive
  <2>. QED
    BY <2>2 DEF Simple
<1>. QED
  BY <1>1, <1>2, BeforeIn

\* Where everybody has a parent, there is a ring above everybody.
LEMMA RingAbove ==
  ASSUME Links, NEW S \in SUBSET DOMAIN parent, \A q \in S : parent[q] \in S, NEW p \in S
  PROVE  ~Rooted(p)
<1> SUFFICES ASSUME Rooted(p)
             PROVE  FALSE
  OBVIOUS
<1> DEFINE D == DOMAIN parent
           line == {p} \cup Ancestors(p)
           sets == {Ancestors(q) : q \in line}
<1>1. line \subseteq S
  <2>1. Ancestors(p) \subseteq S
    BY AncestorsWithin
  <2>. QED
    BY <2>1
<1>2. \A q \in line : parent[q] \in line
  <2>1. \A q \in line : parent[q] \in Ancestors(p) \cup {Nil}
    BY AncestorsLeast
  <2>. QED
    BY <1>1, <2>1 DEF Links
<1>3. IsWellFoundedOn(StrictSubsetOrdering(D), FiniteSubsetsOf(D))
  BY FS_StrictSubsetOrderingWellFounded
<1>4. sets \subseteq FiniteSubsetsOf(D)
  <2>1. FiniteSubsetsOf(D) = SUBSET D
    BY FS_FiniteSubsetsOfFinite DEF Links
  <2>. QED
    BY <1>1, <2>1, AncestorsLeast
<1>5. sets # {}
  OBVIOUS
<1>6. \A q \in line : q \notin Ancestors(q)
  BY DEF Rooted
<1> HIDE DEF sets, line
<1>7. PICK s \in sets : \A t \in sets : ~(<<t, s>> \in StrictSubsetOrdering(D))
  BY <1>3, <1>4, <1>5, WFMin, Zenon
<1>8. PICK q \in line : s = Ancestors(q)
  BY <1>7 DEF sets
<1> DEFINE r == parent[q]
<1>9. r \in line /\ r # Nil /\ q \in D
  BY <1>1, <1>2 DEF Links
<1>10. Ancestors(q) = {r} \cup Ancestors(r)
  BY <1>9, AncestorsStep
<1>11. r \notin Ancestors(r)
  BY <1>6, <1>9
<1>12. Ancestors(r) \in sets
  BY <1>9 DEF sets
<1>13. <<Ancestors(r), s>> \in StrictSubsetOrdering(D)
  <2>1. Ancestors(q) \subseteq D
    BY <1>9, AncestorsLeast
  <2>. QED
    BY <1>8, <1>10, <1>11, <2>1 DEF StrictSubsetOrdering
<1>. QED
  BY <1>7, <1>12, <1>13
-----------------------------------------------------------------------------
(* Stacks: what is known at each place                                     *)

Reading == place \in {"default", "list", "link", "failed"}
Walking == place \in {"walk", "round"}

\* The members of the walk at hand, and those that wait for it.
Taken == IF Walking THEN Elements(chain) ELSE {}
Waiters == IF Walking THEN Elements(queue) ELSE {}

\* Whoever was there when the reading began is listed, down to where the pages
\* have come; those that came since are before it.
Paged ==
  /\ page >= 1
  /\ place \in {"default", "list"} =>
       \A p \in early : p > Len(prs) - (page - 1) * PageSize => p \in Elements(list)
  /\ place = "link" => early \subseteq Elements(list)

\* The links are as the list has them.
Linked ==
  IF Reading THEN visited = {} /\ stacks = <<>>
  ELSE /\ Links /\ DOMAIN parent = Elements(list)
       /\ early \subseteq Elements(list)
       /\ \A p \in Elements(list) : parent[p] # p
       /\ \A p \in Elements(list) : prs[p].base = default => parent[p] = Nil

\* Where the walks have been: a member's parent and children are members too.
Old == visited \ Taken

\* Of the walk at hand, they are members or wait.
Covered ==
  ~Reading =>
    /\ visited \subseteq DOMAIN parent /\ Taken \subseteq visited
    /\ Waiters \subseteq DOMAIN parent \ Old
    /\ \A q \in DOMAIN parent : parent[q] # Nil => (q \in Old <=> parent[q] \in Old)
    /\ \A q \in DOMAIN parent : parent[q] \in Taken => q \in Taken \cup Waiters
    /\ \A q \in Taken : parent[q] \in Taken \cup Waiters \cup {Nil}

\* A walk from a base puts nobody before its parent.
WalkInOrder ==
  /\ Walking => Simple(chain)
  /\ place = "walk" => /\ InOrder(chain)
                       /\ \A q \in Waiters : parent[q] \in Elements(chain) \cup {Nil}

\* Once the walks from the bases are over, whoever is left has a parent.
RingsLeft ==
  place \in {"rings", "round", "order"} =>
    \A q \in DOMAIN parent : parent[q] = Nil => q \in Old

\* Stacks are apart from one another and from the walk at hand, a ring is
\* closed under parents, any other stack in order; whoever is in none stands
\* alone.
WellStacked(s) ==
  /\ s.members \in Seq(DOMAIN parent) /\ Simple(s.members)
  /\ Elements(s.members) \subseteq Old
  /\ IF s.cyclic THEN \A q \in Elements(s.members) : parent[q] \in Elements(s.members)
     ELSE InOrder(s.members)

Apart ==
  ~Reading =>
    /\ \A i \in DOMAIN stacks : WellStacked(stacks[i])
    /\ \A i, j \in DOMAIN stacks : i # j =>
         Elements(stacks[i].members) \cap Elements(stacks[j].members) = {}
    /\ \A q \in Old : q \in Stacked \/ parent[q] = Nil

AllVisited == place = "order" => visited = DOMAIN parent

StackInv ==
  /\ StackTypeOK /\ Paged /\ Linked /\ Covered /\ WalkInOrder /\ RingsLeft /\ Apart /\ AllVisited
  /\ ScheduleIsRight /\ NothingDropped

LEMMA StackStarts == StackInit => StackInv
<1> SUFFICES ASSUME StackInit
             PROVE  StackInv
  OBVIOUS
<1> USE DEF StackInit
<1>1. prs \in Seq(Infos) /\ Len(prs) <= N /\ Len(prs) \in Nat /\ DOMAIN prs = 1..Len(prs)
  <2>1. PICK n \in 1..N : prs \in [1..n -> Infos]
    OBVIOUS
  <2>2. n \in Nat /\ n <= N
    BY SizesAssumption
  <2>. QED
    BY <2>1, <2>2, SeqDef
<1>2. StackTypeOK
  <2>1. default \in Branches
    BY BranchesAssumption
  <2>. QED
    BY <1>1, <2>1, FewNames DEF StackTypeOK
<1>3. Paged
  <2>1. (page - 1) * PageSize = 0
    BY SizesAssumption
  <2>. QED
    BY <1>1, <2>1 DEF Paged
<1>4. Linked /\ Covered /\ WalkInOrder /\ RingsLeft /\ Apart /\ AllVisited
  BY DEF Linked, Covered, WalkInOrder, RingsLeft, Apart, AllVisited, Reading, Walking
<1>5. ScheduleIsRight /\ NothingDropped
  BY DEF ScheduleIsRight, NothingDropped, OpenIsAccounted, DefaultBasedRuns
<1>. QED
  BY <1>2, <1>3, <1>4, <1>5 DEF StackInv

\* Nothing is claimed of the schedule before it is there.
LEMMA NoScheduleYet ==
  ASSUME place' # "done"
  PROVE  ScheduleIsRight' /\ NothingDropped'
BY DEF ScheduleIsRight, NothingDropped, OpenIsAccounted, DefaultBasedRuns

\* While the list is read there is no more to it than types and pages.
LEMMA ReadingInv ==
  ASSUME Linked, Reading, Reading', StackTypeOK', Paged', visited' = visited, stacks' = stacks
  PROVE  StackInv'
<1>1. Linked' /\ Covered' /\ WalkInOrder' /\ RingsLeft' /\ Apart' /\ AllVisited'
  BY DEF Linked, Covered, WalkInOrder, RingsLeft, Apart, AllVisited, Reading, Walking
<1>2. place' # "done"
  BY DEF Reading
<1>. QED
  BY <1>1, <1>2, NoScheduleYet DEF StackInv

LEMMA LookUpKeeps ==
  ASSUME StackInv, LookUp
  PROVE  StackInv'
<1> USE DEF LookUp, input, walk, schedule
<1>1. StackTypeOK'
  BY BranchesAssumption DEF StackInv, StackTypeOK
<1>2. Paged'
  BY DEF StackInv, Paged
<1>3. Reading /\ Reading'
  BY DEF Reading
<1>. QED
  BY <1>1, <1>2, <1>3, ReadingInv DEF StackInv

LEMMA PageFailsKeeps ==
  ASSUME StackInv, PageFails
  PROVE  StackInv'
<1> USE DEF PageFails, input, walk, schedule
<1>1. StackTypeOK'
  BY DEF StackInv, StackTypeOK
<1>2. Paged'
  BY DEF StackInv, Paged
<1>3. Reading /\ Reading'
  BY DEF Reading
<1>. QED
  BY <1>1, <1>2, <1>3, ReadingInv DEF StackInv

LEMMA CreateKeeps ==
  ASSUME StackInv, Create
  PROVE  StackInv'
<1> USE DEF Create, walk, schedule
<1>1. PICK i \in Infos : prs' = Append(prs, i)
  OBVIOUS
<1>2. /\ prs \in Seq(Infos) /\ Len(prs) \in Nat /\ DOMAIN prs = 1..Len(prs)
      /\ prs' \in Seq(Infos) /\ Len(prs') = Len(prs) + 1 /\ DOMAIN prs' = 1..(Len(prs) + 1)
  BY <1>1 DEF StackInv, StackTypeOK
<1>3. StackTypeOK'
  <2>1. DOMAIN prs \subseteq DOMAIN prs' /\ Len(prs') <= N
    BY <1>2, SizesAssumption
  <2>2. list' \in Seq(DOMAIN prs')
    <3>1. Elements(list) \subseteq DOMAIN prs /\ list \in Seq(DOMAIN prs)
      BY NamesWithin DEF StackInv, StackTypeOK
    <3>. QED
      BY <2>1, <3>1, NamesWithin
  <2>. QED
    BY <1>2, <2>1, <2>2 DEF StackInv, StackTypeOK
<1>4. Paged'
  <2> DEFINE d == (page - 1) * PageSize
  <2>1. d \in Int
    BY SizesAssumption DEF StackInv, StackTypeOK
  <2>2. /\ page >= 1 /\ early \subseteq DOMAIN prs
        /\ \A p \in early : p > Len(prs) - d => p \in Elements(list)
    BY DEF StackInv, Paged, StackTypeOK
  <2>3. page' = page /\ early' = early /\ list' = list /\ place' = "list"
    OBVIOUS
  <2> HIDE DEF d
  <2>4. \A p \in early : p > Len(prs') - d => p \in Elements(list)
    BY <1>2, <2>1, <2>2
  <2>. QED
    BY <2>2, <2>3, <2>4 DEF Paged, d
<1>5. Reading /\ Reading'
  BY DEF Reading
<1>. QED
  BY <1>3, <1>4, <1>5, ReadingInv DEF StackInv

\* A page has the next PageSize numbers down from where the last one ended.
LEMMA BatchIs ==
  ASSUME StackInv, NEW d \in Nat, d = (page - 1) * PageSize
  PROVE  /\ Batch(page) \in Seq(DOMAIN prs)
         /\ \A p \in DOMAIN prs : p <= Len(prs) - d /\ p > Len(prs) - d - PageSize
                                  => p \in Elements(Batch(page))
         /\ LastPage(Batch(page)) => Len(prs) - d - PageSize < 1
<1> DEFINE L == Len(prs)
           last == L - d
           first == IF last > PageSize THEN last - PageSize + 1 ELSE 1
           n == IF last < 1 THEN 0 ELSE last - first + 1
           batch == [i \in 1..n |-> last + 1 - i]
<1>1. L \in Nat /\ DOMAIN prs = 1..L /\ PageSize \in Nat \ {0}
  BY SizesAssumption DEF StackInv, StackTypeOK
<1>2. Batch(page) = batch
  BY DEF Batch
<1> HIDE DEF L
<1>3. last \in Int /\ first \in Int /\ n \in Nat
  BY <1>1
<1>4. \A i \in 1..n : last + 1 - i \in 1..L
  BY <1>1
<1>5. batch \in Seq(1..L) /\ Len(batch) = n
  <2> HIDE DEF n, last
  <2>1. batch \in [1..n -> 1..L]
    BY <1>4
  <2>. QED
    BY <1>3, <2>1, SeqDef
<1>6. ASSUME NEW p \in 1..L, p <= last, p > last - PageSize
      PROVE  p \in Elements(batch)
  <2>1. n = last - first + 1 /\ p >= first
    BY <1>1, <1>3, <1>6
  <2>2. last + 1 - p \in 1..n /\ last + 1 - (last + 1 - p) = p
    <3> HIDE DEF n, last, first
    <3>. QED
      BY <1>1, <1>3, <1>6, <2>1
  <2> HIDE DEF n
  <2>3. batch[last + 1 - p] = p
    BY <2>2
  <2>. QED
    BY <2>2, <2>3 DEF Elements
<1>7. ASSUME n < PageSize
      PROVE  last - PageSize < 1
  BY <1>1, <1>7
<1> HIDE DEF n, batch
<1>. QED
  BY <1>1, <1>2, <1>5, <1>6, <1>7 DEF LastPage, L

LEMMA ReadPageKeeps ==
  ASSUME StackInv, ReadPage
  PROVE  StackInv'
<1> USE DEF ReadPage, walk, schedule
<1>1. PICK bad \in SUBSET Elements(Batch(page)) :
        list' = list \o Parsed(Batch(page), bad) /\ early' = early \ bad
  OBVIOUS
<1> DEFINE d == (page - 1) * PageSize
           batch == Batch(page)
           parsed == Parsed(batch, bad)
<1>2. page >= 1 /\ page \in Nat /\ PageSize \in Nat \ {0} /\ Len(prs) \in Nat /\ DOMAIN prs = 1..Len(prs)
  BY SizesAssumption DEF StackInv, Paged, StackTypeOK
<1>3. d \in Nat /\ ((page + 1) - 1) * PageSize = d + PageSize
  BY <1>2
<1>4. /\ batch \in Seq(DOMAIN prs)
      /\ \A p \in DOMAIN prs : p <= Len(prs) - d /\ p > Len(prs) - d - PageSize
                               => p \in Elements(batch)
      /\ LastPage(batch) => Len(prs) - d - PageSize < 1
  BY <1>3, BatchIs
<1>5. parsed \in Seq(DOMAIN prs) /\ Elements(parsed) = Elements(batch) \cap (DOMAIN prs \ bad)
  BY <1>4, OnlyNames DEF Parsed
<1>6. list' \in Seq(DOMAIN prs) /\ Elements(list') = Elements(list) \cup Elements(parsed)
  BY <1>1, <1>5, JoinNames DEF StackInv, StackTypeOK
<1>7. StackTypeOK'
  BY <1>1, <1>6 DEF StackInv, StackTypeOK
<1> HIDE DEF d, batch, parsed
<1>8. \A p \in early' : p > Len(prs) - (d + PageSize) => p \in Elements(list')
  <2> TAKE p \in early'
  <2> HAVE p > Len(prs) - (d + PageSize)
  <2>1. p \in DOMAIN prs /\ p \in early /\ p \notin bad
    BY <1>1 DEF StackInv, StackTypeOK
  <2>2. CASE p > Len(prs) - d
    <3>1. p \in Elements(list)
      BY <2>1, <2>2 DEF StackInv, Paged, d
    <3>. QED
      BY <1>6, <3>1
  <2>3. CASE ~(p > Len(prs) - d)
    <3>1. p <= Len(prs) - d /\ p > Len(prs) - d - PageSize
      BY <1>2, <1>3, <2>1, <2>3
    <3>. QED
      BY <1>4, <1>5, <1>6, <2>1, <3>1
  <2>. QED
    BY <2>2, <2>3
<1>9. Paged'
  <2>1. CASE LastPage(batch)
    <3>1. place' = "link" /\ page' = page
      BY <2>1 DEF batch
    <3>2. \A p \in early' : p > Len(prs) - (d + PageSize)
      <4> TAKE p \in early'
      <4>1. p \in 1..Len(prs)
        BY <1>1, <1>2 DEF StackInv, StackTypeOK
      <4>. QED
        BY <1>2, <1>3, <1>4, <2>1, <4>1
    <3>. QED
      BY <1>2, <1>8, <3>1, <3>2 DEF Paged
  <2>2. CASE ~LastPage(batch)
    <3>1. place' = "list" /\ page' = page + 1 /\ prs' = prs
      BY <2>2 DEF batch
    <3>2. (page' - 1) * PageSize = d + PageSize /\ page' >= 1
      BY <1>2, <1>3, <3>1
    <3>. QED
      BY <1>8, <3>1, <3>2 DEF Paged
  <2>. QED
    BY <2>1, <2>2
<1>10. Reading /\ Reading'
  BY DEF Reading
<1>. QED
  BY <1>7, <1>9, <1>10, ReadingInv DEF StackInv

\* The newest request whose head is p's base is its parent, p itself aside; of
\* one against the default branch there is none.
LEMMA ParentIs ==
  ASSUME StackTypeOK, NEW p
  PROVE  /\ Parent(p) \in (Elements(list) \ {p}) \cup {Nil}
         /\ prs[p].base = default => Parent(p) = Nil
<1> DEFINE S == {q \in DOMAIN prs \ {p} : prs[q].head = prs[p].base /\ prs[q].head # default}
<1>1. Candidates(p) \in Seq(DOMAIN prs) /\ Elements(Candidates(p)) = Elements(list) \cap S
  BY OnlyNames DEF Candidates, StackTypeOK
<1>2. Candidates(p) = <<>> <=> Elements(list) \cap S = {}
  BY <1>1, NoNames
<1>3. Candidates(p) # <<>> => Head(Candidates(p)) \in Elements(list) \cap S
  BY <1>1, FirstAndRest
<1>. QED
  BY <1>2, <1>3 DEF Parent

LEMMA LinkKeeps ==
  ASSUME StackInv, Link
  PROVE  StackInv'
<1> USE DEF Link, input, walk, schedule
<1> DEFINE L == Elements(list)
<1>1. StackTypeOK /\ L \subseteq DOMAIN prs /\ DOMAIN prs = 1..Len(prs) /\ Len(prs) \in Nat
  BY NamesWithin DEF StackInv, StackTypeOK
<1>2. IsFiniteSet(L) /\ Nil \notin L
  <2>1. IsFiniteSet(DOMAIN prs)
    BY <1>1, SegmentSize
  <2>. QED
    BY <1>1, <2>1, FS_Subset, NilAssumption
<1> HIDE DEF L
<1>3. parent' = [p \in L |-> Parent(p)]
  BY DEF L
<1>4. \A p \in L : /\ parent'[p] \in (L \ {p}) \cup {Nil}
                   /\ prs[p].base = default => parent'[p] = Nil
  BY <1>1, <1>3, ParentIs DEF L
<1>5. Links'
  BY <1>2, <1>3, <1>4 DEF Links
<1>6. DOMAIN parent' = L /\ visited' = {} /\ stacks' = <<>> /\ place' = "bases" /\ list' = list
  BY <1>3 DEF StackInv, Linked, Reading
<1>7. StackTypeOK'
  <2>1. parent' \in [Elements(list) -> Elements(list) \cup {Nil}]
    BY <1>3, <1>4 DEF L
  <2>. QED
    BY <1>1, <2>1 DEF StackTypeOK
<1>8. Paged'
  BY DEF StackInv, Paged
<1>9. Linked'
  <2>1. early' = early /\ prs' = prs /\ default' = default /\ early \subseteq L
    BY DEF StackInv, Paged, L
  <2>2. Elements(list)' = L
    BY <1>6 DEF L
  <2>3. \A p \in L : parent'[p] # p
    BY <1>2, <1>4
  <2>. QED
    BY <1>4, <1>5, <1>6, <2>1, <2>2, <2>3 DEF Linked, Reading
<1>10. Covered'
  <2>1. Taken' = {} /\ Waiters' = {} /\ Old' = {}
    BY <1>6 DEF Taken, Waiters, Old, Walking
  <2>2. \A q \in DOMAIN parent' : parent'[q] # Nil => (q \in Old' <=> parent'[q] \in Old')
    BY <2>1
  <2>. QED
    BY <1>6, <2>1, <2>2 DEF Covered
<1>11. Apart'
  <2>1. Old' = {} /\ DOMAIN stacks' = {}
    BY <1>6 DEF Taken, Old, Walking
  <2>. QED
    BY <2>1 DEF Apart
<1>12. WalkInOrder' /\ RingsLeft' /\ AllVisited' /\ place' # "done"
  BY <1>6 DEF WalkInOrder, RingsLeft, AllVisited, Walking
<1>. QED
  BY <1>7, <1>8, <1>9, <1>10, <1>11, <1>12, NoScheduleYet DEF StackInv

\* Once they are linked, the requests are those listed.
LEMMA LinkedFacts ==
  ASSUME StackInv, ~Reading
  PROVE  /\ Links /\ DOMAIN parent = Elements(list) /\ list \in Seq(DOMAIN parent)
         /\ DOMAIN parent \subseteq DOMAIN prs /\ DOMAIN prs \subseteq Prs
         /\ \A q \in DOMAIN parent : parent[q] # q
         /\ early \subseteq DOMAIN parent
<1>1. Links /\ DOMAIN parent = Elements(list) /\ \A q \in DOMAIN parent : parent[q] # q
  BY DEF StackInv, Linked
<1>2. early \subseteq DOMAIN parent
  BY DEF StackInv, Linked
<1>3. list \in Seq(DOMAIN prs) /\ Elements(list) \subseteq DOMAIN prs /\ list \in Seq(Elements(list))
  BY NamesWithin DEF StackInv, StackTypeOK
<1>4. DOMAIN prs \subseteq Prs
  BY SizesAssumption DEF StackInv, StackTypeOK, Prs
<1>. QED
  BY <1>1, <1>2, <1>3, <1>4

LEMMA NeighboursAre ==
  ASSUME StackInv, ~Reading
  PROVE  /\ \A p : /\ Children(p) \in Seq(DOMAIN parent)
                   /\ Elements(Children(p)) = {q \in DOMAIN parent : parent[q] = p}
         /\ Unvisited \in Seq(DOMAIN parent) /\ Elements(Unvisited) = DOMAIN parent \ visited
         /\ Bases \in Seq(DOMAIN parent)
         /\ Elements(Bases) = {q \in DOMAIN parent \ visited : parent[q] = Nil}
<1>1. list \in Seq(DOMAIN parent) /\ Elements(list) = DOMAIN parent
  BY LinkedFacts
<1>2. ASSUME NEW p
      PROVE  /\ Children(p) \in Seq(DOMAIN parent)
             /\ Elements(Children(p)) = {q \in DOMAIN parent : parent[q] = p}
  <2> DEFINE S == {q \in DOMAIN parent : parent[q] = p}
  <2>1. Only(list, S) \in Seq(DOMAIN parent) /\ Elements(Only(list, S)) = Elements(list) \cap S
    BY <1>1, OnlyNames
  <2>. QED
    BY <1>1, <2>1 DEF Children
<1>3. Unvisited \in Seq(DOMAIN parent) /\ Elements(Unvisited) = DOMAIN parent \ visited
  <2> DEFINE S == DOMAIN parent \ visited
  <2>1. Only(list, S) \in Seq(DOMAIN parent) /\ Elements(Only(list, S)) = Elements(list) \cap S
    BY <1>1, OnlyNames
  <2>. QED
    BY <1>1, <2>1 DEF Unvisited
<1>4. Bases \in Seq(DOMAIN parent) /\ Elements(Bases) = {q \in DOMAIN parent \ visited : parent[q] = Nil}
  <2> DEFINE S == {q \in DOMAIN parent : parent[q] = Nil}
  <2>1. Only(Unvisited, S) \in Seq(DOMAIN parent)
        /\ Elements(Only(Unvisited, S)) = Elements(Unvisited) \cap S
    BY <1>3, OnlyNames
  <2>. QED
    BY <1>3, <2>1 DEF Bases
<1>. QED
  BY <1>2, <1>3, <1>4

\* What goes on past the links, in parts.
LEMMA LinksStay ==
  ASSUME StackInv, ~Reading, ~Reading', UNCHANGED <<input, parent>>
  PROVE  Paged' /\ Linked'
<1>1. Links'
  BY DEF StackInv, Linked, Links
<1>. QED
  BY <1>1 DEF StackInv, Paged, Linked, Reading, input

LEMMA TypesStay ==
  ASSUME StackInv, ~Reading, UNCHANGED <<input, parent, schedule>>,
         place' \in {"bases", "walk", "rings", "round", "order"},
         visited' \subseteq DOMAIN parent, queue' \in Seq(Prs), chain' \in Seq(Prs),
         stacks' \in Seq([members : Seq(Prs), cyclic : BOOLEAN])
  PROVE  StackTypeOK'
<1>1. DOMAIN parent \subseteq Prs
  BY LinkedFacts
<1>2. visited' \subseteq Prs
  BY <1>1
<1>3. parent \in [Elements(list) -> Elements(list) \cup {Nil}]
  BY DEF StackInv, StackTypeOK, Reading
<1>. QED
  BY <1>2, <1>3 DEF StackInv, StackTypeOK, input, schedule

\* The stacks stay what they are while nobody that was visited is unvisited.
LEMMA StacksStay ==
  ASSUME StackInv, ~Reading, ~Reading', UNCHANGED <<input, parent, stacks>>, Old' = Old
  PROVE  Apart'
<1>1. Stacked' = Stacked
  BY DEF Stacked
<1>2. \A s : InOrder(s)' <=> InOrder(s)
  BY DEF InOrder
<1>3. \A s : WellStacked(s)' <=> WellStacked(s)
  BY <1>2 DEF WellStacked
<1>. QED
  BY <1>1, <1>3 DEF StackInv, Apart

\* Where nobody walks yet, a walk starts with one that was not visited.
LEMMA StartKeeps ==
  ASSUME StackInv, place \in {"bases", "rings"}, NEW p \in DOMAIN parent \ visited,
         place' \in {"walk", "round"}, queue' = <<p>>, chain' = <<>>,
         UNCHANGED <<input, parent, visited, stacks, schedule>>,
         place' = "walk" => parent[p] = Nil,
         place' = "round" => place = "rings"
  PROVE  StackInv'
<1>1. ~Reading /\ ~Reading' /\ ~Walking /\ Walking'
  BY DEF Reading, Walking
<1>2. Taken = {} /\ Taken' = {} /\ Waiters' = {p} /\ Old' = Old /\ Old = visited
  BY <1>1, FewNames DEF Taken, Waiters, Old
<1>3. p \in Prs
  BY <1>1, LinkedFacts
<1>4. StackTypeOK'
  <2>1. queue' \in Seq(Prs) /\ chain' \in Seq(Prs) /\ place' \in {"bases", "walk", "rings", "round", "order"}
    BY <1>3, FewNames
  <2>2. visited' \subseteq DOMAIN parent
    BY <1>1 DEF StackInv, Covered
  <2>3. stacks' \in Seq([members : Seq(Prs), cyclic : BOOLEAN])
    BY DEF StackInv, StackTypeOK
  <2>. QED
    BY <1>1, <2>1, <2>2, <2>3, TypesStay
<1>5. Paged' /\ Linked' /\ Apart'
  BY <1>1, <1>2, LinksStay, StacksStay
<1>6. Covered'
  BY <1>1, <1>2 DEF StackInv, Covered
<1>7. WalkInOrder'
  <2>1. \A q \in Waiters' : place' = "walk" => parent'[q] = Nil
    BY <1>2
  <2>2. Elements(chain') = {} /\ Simple(chain')
    BY FewNames
  <2>. QED
    BY <2>1, <2>2 DEF WalkInOrder, InOrder
<1>8. RingsLeft'
  BY <1>2 DEF StackInv, RingsLeft
<1>9. AllVisited' /\ place' # "done"
  BY DEF AllVisited
<1>. QED
  BY <1>4, <1>5, <1>6, <1>7, <1>8, <1>9, NoScheduleYet DEF StackInv

\* Where nobody walks, one place follows another.
LEMMA MoveKeeps ==
  ASSUME StackInv, place \in {"bases", "rings"}, place' \in {"rings", "order"},
         UNCHANGED <<input, parent, visited, queue, chain, stacks, schedule>>,
         RingsLeft', AllVisited'
  PROVE  StackInv'
<1>1. ~Reading /\ ~Reading' /\ ~Walking /\ ~Walking'
  BY DEF Reading, Walking
<1>2. Taken = {} /\ Taken' = {} /\ Waiters = {} /\ Waiters' = {} /\ Old' = Old
  BY <1>1 DEF Taken, Waiters, Old
<1>3. StackTypeOK'
  <2>1. visited' \subseteq DOMAIN parent
    BY <1>1 DEF StackInv, Covered
  <2>2. /\ stacks' \in Seq([members : Seq(Prs), cyclic : BOOLEAN])
        /\ queue' \in Seq(Prs) /\ chain' \in Seq(Prs)
    BY DEF StackInv, StackTypeOK
  <2>. QED
    BY <1>1, <2>1, <2>2, TypesStay
<1>4. Paged' /\ Linked' /\ Apart'
  BY <1>1, <1>2, LinksStay, StacksStay
<1>5. Covered' /\ WalkInOrder' /\ place' # "done"
  BY <1>1, <1>2 DEF StackInv, Covered, WalkInOrder
<1>. QED
  BY <1>3, <1>4, <1>5, NoScheduleYet DEF StackInv

LEMMA TakeBaseKeeps ==
  ASSUME StackInv, TakeBase
  PROVE  StackInv'
<1> USE DEF TakeBase
<1>1. ~Reading /\ ~Walking
  BY DEF Reading, Walking
<1>2. Bases \in Seq(DOMAIN parent) /\ Elements(Bases) = {q \in DOMAIN parent \ visited : parent[q] = Nil}
  BY <1>1, NeighboursAre
<1>3. CASE Bases = <<>>
  <2>1. place' = "rings"
    BY <1>3
  <2>2. Old' = visited /\ parent' = parent
    BY <2>1 DEF Old, Taken, Walking
  <2>3. RingsLeft'
    BY <1>2, <1>3, <2>2, NoNames DEF RingsLeft
  <2>4. AllVisited'
    BY <2>1 DEF AllVisited
  <2>. QED
    BY <1>3, <2>1, <2>3, <2>4, MoveKeeps
<1>4. CASE Bases # <<>>
  <2>1. Head(Bases) \in DOMAIN parent \ visited /\ parent[Head(Bases)] = Nil
    BY <1>2, <1>4, FirstAndRest
  <2>2. place' = "walk"
    BY <1>4
  <2>. QED
    BY <1>4, <2>1, <2>2, StartKeeps
<1>. QED
  BY <1>3, <1>4

LEMMA TakeRingKeeps ==
  ASSUME StackInv, TakeRing
  PROVE  StackInv'
<1> USE DEF TakeRing
<1>1. ~Reading /\ ~Walking
  BY DEF Reading, Walking
<1>2. Unvisited \in Seq(DOMAIN parent) /\ Elements(Unvisited) = DOMAIN parent \ visited
  BY <1>1, NeighboursAre
<1>3. CASE Unvisited = <<>>
  <2>1. place' = "order"
    BY <1>3
  <2>2. Old' = visited /\ Old = visited
    BY <1>1, <2>1 DEF Old, Taken, Walking
  <2>3. RingsLeft'
    BY <2>2 DEF StackInv, RingsLeft
  <2>4. AllVisited'
    BY <1>1, <1>2, <1>3, NoNames DEF AllVisited, StackInv, Covered
  <2>. QED
    BY <1>3, <2>1, <2>3, <2>4, MoveKeeps
<1>4. CASE Unvisited # <<>>
  <2>1. Head(Unvisited) \in DOMAIN parent \ visited
    BY <1>2, <1>4, FirstAndRest
  <2>2. place' = "round"
    BY <1>4
  <2>. QED
    BY <1>4, <2>1, <2>2, StartKeeps
<1>. QED
  BY <1>3, <1>4

\* A turn that puts in the queue whoever is next to the one at its head, and
\* nobody else, keeps what is known of all walks.
LEMMA TurnKeeps ==
  ASSUME StackInv, Walking, NEW near \in Seq(DOMAIN parent), Turn(near),
         \A q \in DOMAIN parent : parent[q] = Head(queue) => q \in Elements(near),
         \A q \in Elements(near) : parent[q] = Head(queue) \/ parent[Head(queue)] = q,
         parent[Head(queue)] \in Elements(near) \cup Taken \cup {Nil}
  PROVE  /\ StackTypeOK' /\ Paged' /\ Linked' /\ Covered' /\ RingsLeft' /\ Apart' /\ AllVisited'
         /\ Simple(chain') /\ place' = place
         /\ Head(queue) \in Waiters
         /\ \/ chain' = chain /\ Waiters' \subseteq Waiters
            \/ chain' = Append(chain, Head(queue)) /\ Waiters' \subseteq Waiters \cup Elements(near)
<1> DEFINE p == Head(queue)
<1> USE DEF Turn
<1>1. ~Reading /\ ~Reading' /\ Walking' /\ place' = place /\ parent' = parent /\ stacks' = stacks
  BY DEF Reading, Walking
<1>2. queue # <<>> /\ queue \in Seq(DOMAIN parent) /\ chain \in Seq(DOMAIN parent)
  <2>1. Elements(queue) \subseteq DOMAIN parent /\ Elements(chain) \subseteq DOMAIN parent
    BY <1>1 DEF StackInv, Covered, Taken, Waiters
  <2>. QED
    BY <2>1, NamesWithin DEF StackInv, StackTypeOK
<1>3. /\ p \in DOMAIN parent /\ p \in Waiters
      /\ Tail(queue) \in Seq(DOMAIN parent) /\ Waiters = {p} \cup Elements(Tail(queue))
  BY <1>2, FirstAndRest DEF Waiters
<1>4. /\ visited \subseteq DOMAIN parent /\ Taken \subseteq visited
      /\ Waiters \subseteq DOMAIN parent \ Old
      /\ \A q \in DOMAIN parent : parent[q] # Nil => (q \in Old <=> parent[q] \in Old)
      /\ \A q \in DOMAIN parent : parent[q] \in Taken => q \in Taken \cup Waiters
      /\ \A q \in Taken : parent[q] \in Taken \cup Waiters \cup {Nil}
  BY <1>1 DEF StackInv, Covered
<1>5. Taken = Elements(chain) /\ Taken' = Elements(chain') /\ Waiters' = Elements(queue')
  BY <1>1 DEF Taken, Waiters
<1>6. Simple(chain) /\ Nil \notin DOMAIN parent
  BY <1>1, LinkedFacts DEF StackInv, WalkInOrder, Links
<1> HIDE DEF p
<1>7. /\ visited' \subseteq DOMAIN parent /\ chain' \in Seq(DOMAIN parent) /\ queue' \in Seq(DOMAIN parent)
      /\ Old' = Old /\ Simple(chain') /\ Covered'
      /\ \/ chain' = chain /\ Waiters' \subseteq Waiters
         \/ chain' = Append(chain, p) /\ Waiters' \subseteq Waiters \cup Elements(near)
  <2>1. CASE p \in visited
    <3>1. queue' = Tail(queue) /\ visited' = visited /\ chain' = chain
      BY <2>1 DEF p
    <3>2. p \in Taken /\ Taken' = Taken /\ Waiters' = Elements(Tail(queue)) /\ Old' = Old
      BY <1>3, <1>4, <1>5, <2>1, <3>1 DEF Old
    <3>3. Covered'
      BY <1>1, <1>3, <1>4, <3>1, <3>2 DEF Covered
    <3>. QED
      BY <1>2, <1>3, <1>4, <1>6, <3>1, <3>2, <3>3
  <2>2. CASE p \notin visited
    <3> DEFINE new == Only(near, DOMAIN parent \ visited')
    <3>1. visited' = visited \cup {p} /\ chain' = Append(chain, p) /\ queue' = Tail(queue) \o new
      BY <2>2 DEF p
    <3>2. new \in Seq(DOMAIN parent) /\ Elements(new) = Elements(near) \cap (DOMAIN parent \ visited')
      BY OnlyNames
    <3> HIDE DEF new
    <3>3. queue' \in Seq(DOMAIN parent) /\ Waiters' = Elements(Tail(queue)) \cup Elements(new)
      <4> DEFINE rest == Tail(queue)
      <4> HIDE DEF rest
      <4>1. rest \o new \in Seq(DOMAIN parent) /\ Elements(rest \o new) = Elements(rest) \cup Elements(new)
        <5>1. rest \in Seq(DOMAIN parent)
          BY <1>3 DEF rest
        <5>. QED
          BY <3>2, <5>1, JoinNames
      <4>. QED
        BY <1>5, <3>1, <4>1 DEF rest
    <3>4. /\ chain' \in Seq(DOMAIN parent) /\ Taken' = Taken \cup {p} /\ p \notin Taken
          /\ Simple(chain')
      BY <1>2, <1>3, <1>4, <1>5, <1>6, <2>2, <3>1, AppendNames
    <3>5. Old' = Old /\ p \notin Old
      BY <1>3, <1>4, <2>2, <3>1, <3>4 DEF Old
    <3>6. Elements(near) \subseteq DOMAIN parent
      BY NamesWithin
    <3>7. Elements(near) \cap Old = {}
      <4> SUFFICES ASSUME NEW q \in Elements(near)
                   PROVE  q \notin Old
        OBVIOUS
      <4>1. CASE parent[q] = p
        BY <1>3, <1>4, <1>6, <3>5, <3>6, <4>1
      <4>2. CASE parent[p] = q
        BY <1>3, <1>4, <1>6, <3>5, <3>6, <4>2
      <4>. QED
        BY <4>1, <4>2 DEF p
    <3>8. visited \subseteq Old \cup Taken
      BY DEF Old
    <3>9. \A q \in Elements(near) : q \in Taken' \cup Waiters'
      BY <3>1, <3>2, <3>3, <3>4, <3>6, <3>7, <3>8
    <3>10. Taken \cup Waiters \subseteq Taken' \cup Waiters'
      BY <1>3, <3>3, <3>4
    <3>11. Covered'
      <4>1. visited' \subseteq DOMAIN parent /\ Taken' \subseteq visited'
        BY <1>3, <1>4, <3>1, <3>4
      <4>2. Waiters' \subseteq DOMAIN parent \ Old
        BY <1>3, <1>4, <3>2, <3>3, <3>7
      <4>3. \A q \in DOMAIN parent : parent[q] \in Taken' => q \in Taken' \cup Waiters'
        BY <1>4, <3>4, <3>9, <3>10 DEF p
      <4>4. \A q \in Taken' : parent[q] \in Taken' \cup Waiters' \cup {Nil}
        BY <1>4, <3>4, <3>9, <3>10 DEF p
      <4>. QED
        BY <1>1, <1>4, <3>5, <4>1, <4>2, <4>3, <4>4 DEF Covered
    <3>12. Waiters' \subseteq Waiters \cup Elements(near)
      BY <1>3, <3>2, <3>3
    <3>. QED
      BY <1>3, <1>4, <3>1, <3>3, <3>4, <3>5, <3>11, <3>12
  <2>. QED
    BY <2>1, <2>2
<1>8. StackTypeOK'
  <2>1. place' \in {"bases", "walk", "rings", "round", "order"}
    BY <1>1 DEF Walking
  <2>2. DOMAIN parent \subseteq Prs
    BY <1>1, LinkedFacts
  <2>3. chain' \in Seq(Prs) /\ queue' \in Seq(Prs)
    <3>1. Elements(chain') \subseteq Prs /\ Elements(queue') \subseteq Prs
      BY <1>7, <2>2, NamesWithin
    <3>. QED
      BY <1>7, <3>1, NamesWithin
  <2>4. stacks' \in Seq([members : Seq(Prs), cyclic : BOOLEAN])
    BY DEF StackInv, StackTypeOK
  <2>. QED
    BY <1>1, <1>7, <2>1, <2>3, <2>4, TypesStay
<1>9. Paged' /\ Linked' /\ Apart'
  BY <1>1, <1>7, LinksStay, StacksStay
<1>10. RingsLeft' /\ AllVisited'
  BY <1>1, <1>7 DEF StackInv, RingsLeft, AllVisited, Walking
<1>. QED
  BY <1>1, <1>3, <1>7, <1>8, <1>9, <1>10 DEF p

LEMMA WalkKeeps ==
  ASSUME StackInv, Walk
  PROVE  StackInv'
<1> DEFINE p == Head(queue)
           near == Children(p)
<1>1. place = "walk" /\ Turn(near)
  BY DEF Walk
<1>2. ~Reading /\ Walking /\ parent' = parent /\ queue # <<>>
  BY <1>1 DEF Reading, Walking, Turn
<1>3. near \in Seq(DOMAIN parent) /\ Elements(near) = {q \in DOMAIN parent : parent[q] = p}
  BY <1>2, NeighboursAre
<1>4. /\ Taken = Elements(chain) /\ InOrder(chain) /\ chain \in Seq(Prs)
      /\ \A q \in Waiters : parent[q] \in Elements(chain) \cup {Nil}
  BY <1>1, <1>2 DEF StackInv, StackTypeOK, WalkInOrder, Taken
<1>5. p \in Waiters /\ parent[p] \in Taken \cup {Nil}
  BY <1>2, <1>4, FirstAndRest DEF StackInv, StackTypeOK, Waiters
<1> HIDE DEF p, near
<1>6. /\ StackTypeOK' /\ Paged' /\ Linked' /\ Covered' /\ RingsLeft' /\ Apart' /\ AllVisited'
      /\ Simple(chain') /\ place' = place
      /\ \/ chain' = chain /\ Waiters' \subseteq Waiters
         \/ chain' = Append(chain, p) /\ Waiters' \subseteq Waiters \cup Elements(near)
  BY <1>1, <1>2, <1>3, <1>5, TurnKeeps DEF p
<1>7. WalkInOrder'
  <2>1. CASE chain' = chain /\ Waiters' \subseteq Waiters
    BY <1>1, <1>2, <1>4, <1>6, <2>1 DEF WalkInOrder, InOrder
  <2>2. CASE chain' = Append(chain, p) /\ Waiters' \subseteq Waiters \cup Elements(near)
    <3>1. p \in Prs
      BY <1>2, <1>5, LinkedFacts DEF StackInv, Covered
    <3>2. /\ Elements(chain') = Elements(chain) \cup {p}
          /\ \A x \in Elements(chain) : Before(chain', x, p)
          /\ \A x, y : Before(chain, x, y) => Before(chain', x, y)
      BY <1>4, <2>2, <3>1, AppendNames
    <3>3. InOrder(chain)'
      BY <1>2, <1>4, <1>5, <3>2 DEF InOrder
    <3>4. \A q \in Waiters' : parent[q] \in Elements(chain') \cup {Nil}
      BY <1>3, <1>4, <2>2, <3>2
    <3>. QED
      BY <1>2, <1>6, <3>3, <3>4 DEF WalkInOrder
  <2>. QED
    BY <1>6, <2>1, <2>2
<1>. QED
  BY <1>1, <1>6, <1>7, NoScheduleYet DEF StackInv

LEMMA RoundKeeps ==
  ASSUME StackInv, Round
  PROVE  StackInv'
<1> DEFINE p == Head(queue)
           up == IF parent[p] = Nil THEN <<>> ELSE <<parent[p]>>
           near == up \o Children(p)
<1>1. place = "round" /\ Turn(near)
  BY DEF Round
<1>2. ~Reading /\ Walking /\ parent' = parent /\ queue # <<>>
  BY <1>1 DEF Reading, Walking, Turn
<1>3. p \in DOMAIN parent
  BY <1>2, FirstAndRest DEF StackInv, StackTypeOK, Waiters, Covered
<1> HIDE DEF p
<1>4. /\ Children(p) \in Seq(DOMAIN parent)
      /\ Elements(Children(p)) = {q \in DOMAIN parent : parent[q] = p}
  BY <1>2, NeighboursAre
<1>5. up \in Seq(DOMAIN parent) /\ Elements(up) = {parent[p]} \ {Nil}
  <2>1. parent[p] \in DOMAIN parent \cup {Nil}
    BY <1>2, <1>3, LinkedFacts DEF Links
  <2>. QED
    BY <2>1, FewNames
<1> HIDE DEF up
<1>6. near \in Seq(DOMAIN parent) /\ Elements(near) = Elements(up) \cup Elements(Children(p))
  BY <1>4, <1>5, JoinNames
<1>7. /\ StackTypeOK' /\ Paged' /\ Linked' /\ Covered' /\ RingsLeft' /\ Apart' /\ AllVisited'
      /\ Simple(chain') /\ place' = place
  <2> HIDE DEF near
  <2>1. \A q \in DOMAIN parent : parent[q] = p => q \in Elements(near)
    BY <1>4, <1>6
  <2>2. \A q \in Elements(near) : parent[q] = p \/ parent[p] = q
    BY <1>4, <1>5, <1>6
  <2>3. parent[p] \in Elements(near) \cup Taken \cup {Nil}
    BY <1>5, <1>6
  <2>. QED
    BY <1>1, <1>2, <1>6, <2>1, <2>2, <2>3, TurnKeeps DEF p
<1>8. WalkInOrder'
  BY <1>1, <1>7 DEF WalkInOrder
<1>. QED
  BY <1>1, <1>7, <1>8, NoScheduleYet DEF StackInv

\* When a walk is over its members are, or stand alone, and nobody is next to
\* one of them that is not one.
LEMMA EndKeeps ==
  ASSUME StackInv, Walking, queue = <<>>, place' \in {"bases", "rings"},
         UNCHANGED <<input, parent, visited, queue, chain, schedule>>,
         place' = "rings" => place = "round",
         NEW cyclic \in BOOLEAN,
         \/ stacks' = stacks /\ \A q \in Taken : parent[q] = Nil
         \/ /\ stacks' = Append(stacks, [members |-> chain, cyclic |-> cyclic])
            /\ IF cyclic THEN \A q \in Taken : parent[q] \in Taken ELSE InOrder(chain)
  PROVE  StackInv'
<1>1. ~Reading /\ ~Reading' /\ ~Walking' /\ parent' = parent /\ visited' = visited
  BY DEF Reading, Walking
<1>2. /\ Taken = Elements(chain) /\ Waiters = {} /\ Taken' = {} /\ Waiters' = {}
      /\ Old' = visited /\ Taken \subseteq visited /\ visited \subseteq DOMAIN parent
      /\ Old' = Old \cup Taken /\ Old \cap Taken = {}
  <2>1. Taken = Elements(chain) /\ Waiters = {} /\ Taken' = {} /\ Waiters' = {}
    BY <1>1, FewNames DEF Taken, Waiters
  <2>2. Taken \subseteq visited /\ visited \subseteq DOMAIN parent
    BY <1>1 DEF StackInv, Covered
  <2>. QED
    BY <1>1, <2>1, <2>2 DEF Old
<1>3. chain \in Seq(DOMAIN parent) /\ chain \in Seq(Prs) /\ Simple(chain)
  BY <1>2, NamesWithin DEF StackInv, StackTypeOK, WalkInOrder
<1>4. /\ \A q \in DOMAIN parent : parent[q] # Nil => (q \in Old <=> parent[q] \in Old)
      /\ \A q \in DOMAIN parent : parent[q] \in Taken => q \in Taken
      /\ \A q \in Taken : parent[q] \in Taken \cup {Nil}
  BY <1>1, <1>2 DEF StackInv, Covered
<1>5. Covered'
  BY <1>1, <1>2, <1>4 DEF Covered
<1>6. WalkInOrder' /\ AllVisited' /\ place' # "done"
  BY <1>1 DEF WalkInOrder, AllVisited
<1>7. RingsLeft'
  BY <1>1, <1>2 DEF StackInv, RingsLeft
<1>8. Paged' /\ Linked'
  BY <1>1, LinksStay
<1>9. /\ \A i \in DOMAIN stacks : WellStacked(stacks[i])
      /\ \A i, j \in DOMAIN stacks : i # j =>
           Elements(stacks[i].members) \cap Elements(stacks[j].members) = {}
      /\ \A q \in Old : q \in Stacked \/ parent[q] = Nil
      /\ stacks \in Seq([members : Seq(Prs), cyclic : BOOLEAN])
  BY <1>1 DEF StackInv, Apart, StackTypeOK
<1>10. \A t : WellStacked(t) => WellStacked(t)'
  <2>1. \A t : InOrder(t)' <=> InOrder(t)
    BY <1>1 DEF InOrder
  <2>. QED
    BY <1>1, <1>2, <2>1 DEF WellStacked
<1>11. stacks' \in Seq([members : Seq(Prs), cyclic : BOOLEAN]) /\ Apart'
  <2>1. CASE stacks' = stacks /\ \A q \in Taken : parent[q] = Nil
    <3>1. Stacked' = Stacked
      BY <2>1 DEF Stacked
    <3>2. \A q \in Old' : q \in Stacked' \/ parent[q] = Nil
      BY <1>2, <1>9, <2>1, <3>1
    <3>. QED
      BY <1>1, <1>9, <1>10, <2>1, <3>2 DEF Apart
  <2>2. CASE stacks' = Append(stacks, [members |-> chain, cyclic |-> cyclic])
    <3> DEFINE s == [members |-> chain, cyclic |-> cyclic]
               n == Len(stacks)
    <3>1. s \in [members : Seq(Prs), cyclic : BOOLEAN] /\ s.members = chain /\ s.cyclic = cyclic
      BY <1>3
    <3>2. \A t : t = s => WellStacked(t)'
      <4>1. IF cyclic THEN \A q \in Elements(chain) : parent'[q] \in Elements(chain) ELSE InOrder(chain)
        <5>1. stacks' # stacks
          BY <1>9, <2>2
        <5>. QED
          BY <1>1, <1>2, <5>1
      <4>2. \A t : InOrder(t)' <=> InOrder(t)
        BY <1>1 DEF InOrder
      <4>3. Elements(s.members) \subseteq Old' /\ s.members \in Seq(DOMAIN parent') /\ Simple(s.members)
        BY <1>1, <1>2, <1>3, <3>1
      <4> HIDE DEF s
      <4>. QED
        BY <1>1, <3>1, <4>1, <4>2, <4>3 DEF WellStacked
    <3> HIDE DEF s
    <3>3. /\ n \in Nat /\ DOMAIN stacks = 1..n /\ DOMAIN stacks' = 1..(n + 1)
          /\ stacks' \in Seq([members : Seq(Prs), cyclic : BOOLEAN])
          /\ stacks'[n + 1] = s /\ \A i \in 1..n : stacks'[i] = stacks[i]
      BY <1>9, <2>2, <3>1 DEF s
    <3>4. 1..(n + 1) = 1..n \cup {n + 1}
      BY <3>3
    <3> HIDE DEF n
    <3>5. \A i \in DOMAIN stacks' : \A t : t = stacks'[i] => WellStacked(t)'
      BY <1>9, <1>10, <3>2, <3>3, <3>4
    <3>6. \A i \in 1..n : Elements(stacks[i].members) \cap Taken = {}
      BY <1>2, <1>9, <3>3 DEF WellStacked
    <3>7. \A i, j \in 1..(n + 1) : i # j =>
            Elements(stacks'[i].members) \cap Elements(stacks'[j].members) = {}
      BY <1>2, <1>9, <3>1, <3>3, <3>4, <3>6
    <3>8. Stacked' = Stacked \cup Taken
      <4>1. Stacked' = UNION {Elements(stacks'[i].members) : i \in 1..(n + 1)}
        BY <3>3 DEF Stacked
      <4>2. Stacked = UNION {Elements(stacks[i].members) : i \in 1..n}
        BY <3>3 DEF Stacked
      <4>. QED
        <5>1. Elements(stacks'[n + 1].members) = Taken
          BY <1>2, <3>1, <3>3
        <5>2. \A i \in 1..n : Elements(stacks'[i].members) = Elements(stacks[i].members)
          BY <3>3
        <5>. QED
          BY <3>4, <4>1, <4>2, <5>1, <5>2
    <3>9. \A q \in Old' : q \in Stacked' \/ parent[q] = Nil
      BY <1>2, <1>9, <3>8
    <3>. QED
      BY <1>1, <3>3, <3>5, <3>7, <3>9 DEF Apart
  <2>. QED
    BY <2>1, <2>2
<1>12. StackTypeOK'
  BY <1>1, <1>2, <1>3, <1>11, TypesStay DEF StackInv, StackTypeOK
<1>. QED
  BY <1>5, <1>6, <1>7, <1>8, <1>11, <1>12, NoScheduleYet DEF StackInv

\* Of a walk with one member the member has no parent in it, being its own
\* parent no more than anybody.
LEMMA EndWalkKeeps ==
  ASSUME StackInv, EndWalk
  PROVE  StackInv'
<1> USE DEF EndWalk
<1>1. ~Reading /\ Walking /\ Taken = Elements(chain) /\ InOrder(chain) /\ chain \in Seq(Prs)
  BY DEF Reading, Walking, StackInv, StackTypeOK, WalkInOrder, Taken
<1>2. CASE Len(chain) = 1
  <2>1. DOMAIN chain = {1} /\ Taken = {chain[1]}
    BY <1>1, <1>2 DEF Elements
  <2>2. \A q \in Taken : parent[q] = Nil
    <3> TAKE q \in Taken
    <3>1. ~Before(chain, parent[q], q)
      BY <2>1 DEF Before
    <3>. QED
      BY <1>1, <3>1 DEF InOrder
  <2>3. stacks' = stacks
    BY <1>2
  <2>. QED
    BY <1>1, <2>2, <2>3, EndKeeps
<1>3. CASE Len(chain) # 1
  <2>1. stacks' = Append(stacks, [members |-> chain, cyclic |-> FALSE])
    BY <1>3
  <2>. QED
    BY <1>1, <2>1, EndKeeps
<1>. QED
  BY <1>2, <1>3

\* Whoever is in the walk of a ring has a parent there.
LEMMA EndRoundKeeps ==
  ASSUME StackInv, EndRound
  PROVE  StackInv'
<1> USE DEF EndRound
<1>1. ~Reading /\ Walking /\ Taken = Elements(chain) /\ Waiters = {} /\ chain \in Seq(Prs)
  BY FewNames DEF Reading, Walking, StackInv, StackTypeOK, Taken, Waiters
<1>2. \A q \in Taken : parent[q] \in Taken /\ parent[q] # q
  <2>1. Taken \subseteq DOMAIN parent /\ \A q \in Taken : parent[q] \in Taken \cup {Nil} /\ q \notin Old
    BY <1>1 DEF StackInv, Covered, Old
  <2>2. \A q \in Taken : parent[q] # Nil
    BY <2>1 DEF StackInv, RingsLeft
  <2>. QED
    BY <1>1, <2>1, <2>2, LinkedFacts
<1>3. Nil \notin Taken
  BY <1>1, LinkedFacts DEF StackInv, Covered, Links
<1>4. CASE Len(chain) < 2 \/ \E p \in Elements(chain) : parent[p] = Nil
  <2>1. Len(chain) < 2
    BY <1>1, <1>2, <1>3, <1>4
  <2>2. \A q \in Taken : q = chain[1]
    <3>1. DOMAIN chain \subseteq {1}
      BY <1>1, <2>1
    <3>. QED
      BY <1>1, <3>1 DEF Elements
  <2>3. Taken = {}
    BY <1>2, <2>2
  <2>4. stacks' = stacks
    BY <1>4
  <2>. QED
    BY <1>1, <2>3, <2>4, EndKeeps
<1>5. CASE ~(Len(chain) < 2 \/ \E p \in Elements(chain) : parent[p] = Nil)
  <2>1. stacks' = Append(stacks, [members |-> chain, cyclic |-> TRUE])
    BY <1>5
  <2>. QED
    BY <1>1, <1>2, <2>1, EndKeeps
<1>. QED
  BY <1>4, <1>5

\* What the schedule should hold, when the requests of ok are healthy.
Ready(ok) == {p \in DOMAIN parent : prs[p].open /\ Rooted(p) /\ Ancestors(p) \subseteq ok}

\* When the walks are over, members of stacks are requests, two stacks have
\* none in common, and a request in no stack has no ancestors.
LEMMA WalksDone ==
  ASSUME StackInv, place = "order"
  PROVE  /\ Stacked \subseteq DOMAIN parent
         /\ \A s \in Elements(stacks) : WellStacked(s) /\ Elements(s.members) \subseteq Stacked
         /\ \A p \in Stacked : \E s \in Elements(stacks) : p \in Elements(s.members)
         /\ \A s, t \in Elements(stacks) : s # t => Elements(s.members) \cap Elements(t.members) = {}
         /\ \A p \in DOMAIN parent \ Stacked : parent[p] = Nil /\ Ancestors(p) = {} /\ Rooted(p)
<1>1. ~Reading /\ ~Walking
  BY DEF Reading, Walking
<1>2. Old = DOMAIN parent
  BY <1>1 DEF StackInv, AllVisited, Old, Taken
<1>3. /\ \A i \in DOMAIN stacks : WellStacked(stacks[i])
      /\ \A i, j \in DOMAIN stacks : i # j =>
           Elements(stacks[i].members) \cap Elements(stacks[j].members) = {}
      /\ \A q \in Old : q \in Stacked \/ parent[q] = Nil
  BY <1>1 DEF StackInv, Apart
<1>4. \A s \in Elements(stacks) : \E i \in DOMAIN stacks : s = stacks[i]
  BY DEF Elements
<1>5. \A i \in DOMAIN stacks : stacks[i] \in Elements(stacks) /\ Elements(stacks[i].members) \subseteq Stacked
  BY DEF Elements, Stacked
<1>6. \A p \in Stacked : \E i \in DOMAIN stacks : p \in Elements(stacks[i].members)
  BY DEF Stacked
<1>7. Stacked \subseteq DOMAIN parent
  BY <1>2, <1>3, <1>6 DEF WellStacked
<1>8. ASSUME NEW p \in DOMAIN parent \ Stacked
      PROVE  parent[p] = Nil /\ Ancestors(p) = {} /\ Rooted(p)
  <2>1. parent[p] = Nil
    BY <1>2, <1>3
  <2>. QED
    BY <1>1, <2>1, LinkedFacts, AncestorsStep, RootedStep
<1>. QED
  BY <1>3, <1>4, <1>5, <1>6, <1>7, <1>8

\* Of a stack, what is due is processable, in order and once; of a ring nothing
\* is due.
LEMMA ProcessableIs ==
  ASSUME StackInv, place = "order", NEW s \in Elements(stacks), NEW ok
  PROVE  /\ Processable(s, ok) \in Seq(DOMAIN parent)
         /\ Elements(Processable(s, ok)) = Elements(s.members) \cap Ready(ok)
         /\ \A x, y : Before(Processable(s, ok), x, y) => x # y /\ y \notin Ancestors(x)
         /\ Processable(s, ok) = <<>> \/ \A x \in Elements(s.members) : Ancestors(x) \subseteq Elements(s.members)
<1>1. Links /\ WellStacked(s)
  BY LinkedFacts, WalksDone DEF Reading
<1>2. /\ s.members \in Seq(DOMAIN parent) /\ Simple(s.members)
      /\ Elements(s.members) \subseteq DOMAIN parent
      /\ IF s.cyclic THEN \A q \in Elements(s.members) : parent[q] \in Elements(s.members)
         ELSE InOrder(s.members)
  BY <1>1, NamesWithin DEF WellStacked
<1>3. CASE s.cyclic
  <2>1. Processable(s, ok) = <<>>
    BY <1>3 DEF Processable
  <2>2. \A p \in Elements(s.members) : ~Rooted(p)
    BY <1>1, <1>2, <1>3, RingAbove
  <2>3. Elements(s.members) \cap Ready(ok) = {}
    BY <2>2 DEF Ready
  <2>4. \A x, y : ~Before(<<>>, x, y)
    BY FewNames, BeforeIn
  <2>. QED
    BY <2>1, <2>3, <2>4, FewNames
<1>4. CASE ~s.cyclic
  <2> DEFINE S == {p \in Elements(s.members) : prs[p].open /\ ChainHealthy(p, ok)}
  <2>1. Processable(s, ok) = Only(s.members, S)
    BY <1>4 DEF Processable
  <2>2. S = Elements(s.members) \cap Ready(ok)
    BY <1>1, <1>2, ChainHealthyIs DEF Ready
  <2> HIDE DEF S
  <2>3. /\ Only(s.members, S) \in Seq(DOMAIN parent)
        /\ Elements(Only(s.members, S)) = Elements(s.members) \cap S
    BY <1>2, OnlyNames
  <2>4. /\ \A x \in Elements(s.members) : Ancestors(x) \subseteq Elements(s.members)
        /\ \A x, y : Before(s.members, x, y) => y \notin Ancestors(x)
    BY <1>1, <1>2, <1>4, OrderIsRight
  <2>5. \A x, y : Before(Only(s.members, S), x, y) => x # y /\ y \notin Ancestors(x)
    <3>1. \A x, y : Before(Only(s.members, S), x, y) => Before(s.members, x, y)
      BY <1>2, OnlyBefore
    <3>. QED
      BY <1>2, <2>4, <3>1 DEF Simple
  <2>. QED
    BY <2>1, <2>2, <2>3, <2>4, <2>5
<1>. QED
  BY <1>3, <1>4

LEMMA StandaloneIs ==
  ASSUME StackInv, place = "order", NEW ok
  PROVE  /\ Standalone \in Seq(DOMAIN parent)
         /\ Elements(Standalone) = Ready(ok) \ Stacked
         /\ \A x, y : Before(Standalone, x, y) => Before(list, x, y)
<1> DEFINE S == {p \in DOMAIN parent \ Stacked : prs[p].open}
<1>1. list \in Seq(DOMAIN parent) /\ Elements(list) = DOMAIN parent
  BY LinkedFacts DEF Reading
<1>2. Standalone = Only(list, S)
  BY DEF Standalone
<1>3. S = Ready(ok) \ Stacked
  BY WalksDone DEF Ready
<1> HIDE DEF S
<1>4. Only(list, S) \in Seq(DOMAIN parent) /\ Elements(Only(list, S)) = Elements(list) \cap S
  BY <1>1, OnlyNames
<1>5. \A x, y : Before(Only(list, S), x, y) => Before(list, x, y)
  BY <1>1, OnlyBefore
<1>6. S \subseteq DOMAIN parent
  BY <1>3 DEF Ready
<1>. QED
  BY <1>1, <1>2, <1>3, <1>4, <1>5, <1>6

\* The processable ones of all stacks, stack by stack.
LEMMA ReadyIs ==
  ASSUME StackInv, place = "order", NEW ok, NEW sorted \in Orders(Elements(stacks)),
         NEW ready, ready = [i \in DOMAIN sorted |-> Processable(sorted[i], ok)]
  PROVE  /\ Concat(ready) \in Seq(DOMAIN parent)
         /\ Elements(Concat(ready)) = Ready(ok) \cap Stacked
         /\ \A x, y : Before(Concat(ready), x, y) => x # y /\ y \notin Ancestors(x)
<1> DEFINE S == Elements(stacks)
           D == DOMAIN parent
           m == Len(sorted)
<1>1. stacks \in Seq([members : Seq(Prs), cyclic : BOOLEAN])
  BY DEF StackInv, StackTypeOK
<1>2. IsFiniteSet(S)
  BY <1>1, NamesFinite
<1>3. sorted \in Seq(S) /\ Elements(sorted) = S
  BY <1>2, OrdersList
<1>4. m \in Nat /\ DOMAIN sorted = 1..m /\ \A i \in 1..m : sorted[i] \in S
  BY <1>3
<1>5. \A i, j \in 1..m : i # j => sorted[i] # sorted[j]
  BY <1>4 DEF Orders
<1>6. /\ \A s \in S : Elements(s.members) \subseteq Stacked
      /\ \A p \in Stacked : \E s \in S : p \in Elements(s.members)
      /\ \A s, t \in S : s # t => Elements(s.members) \cap Elements(t.members) = {}
  BY WalksDone
<1>7. \A s \in S : /\ Processable(s, ok) \in Seq(D)
                   /\ Elements(Processable(s, ok)) = Elements(s.members) \cap Ready(ok)
                   /\ \A x, y : Before(Processable(s, ok), x, y) => x # y /\ y \notin Ancestors(x)
                   /\ \/ Processable(s, ok) = <<>>
                      \/ \A x \in Elements(s.members) : Ancestors(x) \subseteq Elements(s.members)
  BY ProcessableIs
<1> HIDE DEF S, m
<1>8. \A i \in 1..m : ready[i] = Processable(sorted[i], ok)
  BY <1>4
<1>9. ready \in Seq(Seq(D)) /\ Len(ready) = m
  <2>1. ready \in [1..m -> Seq(D)]
    BY <1>4, <1>7
  <2>. QED
    BY <1>4, <2>1, SeqDef
<1>10. /\ Concat(ready) \in Seq(D)
       /\ Elements(Concat(ready)) = UNION {Elements(ready[a]) : a \in 1..m}
       /\ \A x, y : Before(Concat(ready), x, y) =>
            \E a, b \in 1..m :
               \/ a = b /\ Before(ready[a], x, y)
               \/ a < b /\ x \in Elements(ready[a]) /\ y \in Elements(ready[b])
  <2>1. \A q \in Seq(Seq(D)) :
          /\ Concat(q) \in Seq(D)
          /\ Elements(Concat(q)) = UNION {Elements(q[a]) : a \in 1..Len(q)}
          /\ \A x, y : Before(Concat(q), x, y) =>
               \E a, b \in 1..Len(q) :
                  \/ a = b /\ Before(q[a], x, y)
                  \/ a < b /\ x \in Elements(q[a]) /\ y \in Elements(q[b])
    <3> HIDE DEF D
    <3>. QED
      BY ConcatNames
  <2>. QED
    BY <1>9, <2>1
<1>11. \A a \in 1..m : Elements(ready[a]) = Elements(sorted[a].members) \cap Ready(ok)
  BY <1>4, <1>7, <1>8
<1>12. Elements(Concat(ready)) = Ready(ok) \cap Stacked
  <2>1. ASSUME NEW p \in Ready(ok) \cap Stacked
        PROVE  \E a \in 1..m : p \in Elements(ready[a])
    <3>1. PICK s \in S : p \in Elements(s.members)
      BY <1>6
    <3>2. PICK a \in 1..m : sorted[a] = s
      BY <1>3, <1>4 DEF Elements
    <3>. QED
      BY <1>11, <3>1, <3>2
  <2>2. \A a \in 1..m : Elements(ready[a]) \subseteq Ready(ok) \cap Stacked
    BY <1>4, <1>6, <1>11
  <2>. QED
    BY <1>10, <2>1, <2>2
<1>13. ASSUME NEW x, NEW y, Before(Concat(ready), x, y)
       PROVE  x # y /\ y \notin Ancestors(x)
  <2>1. PICK a, b \in 1..m :
               \/ a = b /\ Before(ready[a], x, y)
               \/ a < b /\ x \in Elements(ready[a]) /\ y \in Elements(ready[b])
    BY <1>10, <1>13
  <2>2. CASE a = b /\ Before(ready[a], x, y)
    BY <1>4, <1>7, <1>8, <2>2
  <2>3. CASE a < b /\ x \in Elements(ready[a]) /\ y \in Elements(ready[b])
    <3>1. sorted[a] \in S /\ sorted[b] \in S /\ sorted[a] # sorted[b]
      BY <1>4, <1>5, <2>3
    <3>2. x \in Elements(sorted[a].members) /\ y \in Elements(sorted[b].members)
      BY <1>11, <2>3
    <3>3. Elements(sorted[a].members) \cap Elements(sorted[b].members) = {}
      BY <1>6, <3>1
    <3>4. ready[a] # <<>>
      BY <2>3, FewNames
    <3>5. Ancestors(x) \subseteq Elements(sorted[a].members)
      BY <1>7, <1>8, <3>1, <3>2, <3>4
    <3>. QED
      BY <3>2, <3>3, <3>5
  <2>. QED
    BY <2>1, <2>2, <2>3
<1>. QED
  BY <1>10, <1>12, <1>13

LEMMA OrderKeeps ==
  ASSUME StackInv, Order
  PROVE  StackInv'
<1> USE DEF Order, input, walk
<1> DEFINE D == DOMAIN parent
<1>1. /\ place = "order" /\ place' = "done" /\ parent' = parent /\ prs' = prs /\ list' = list
      /\ early' = early /\ default' = default /\ stacks' = stacks /\ visited' = visited
  OBVIOUS
<1>2. ~Reading /\ ~Reading' /\ ~Walking /\ ~Walking'
  BY <1>1 DEF Reading, Walking
<1>3. /\ Links /\ D = Elements(list) /\ list \in Seq(D) /\ D \subseteq Prs /\ early \subseteq D
  BY <1>2, LinkedFacts
<1>4. Old' = Old /\ Taken' = Taken /\ Taken = {} /\ Waiters' = {}
  BY <1>1, <1>2 DEF Old, Taken, Waiters
<1>5. Paged' /\ Linked' /\ Apart'
  BY <1>1, <1>2, <1>4, LinksStay, StacksStay
<1>6. Covered'
  BY <1>1, <1>2, <1>4 DEF StackInv, Covered
<1>7. WalkInOrder' /\ RingsLeft' /\ AllVisited'
  BY <1>1, <1>2 DEF WalkInOrder, RingsLeft, AllVisited
<1>8. /\ \A p : Ancestors(p)' = Ancestors(p)
      /\ Stacked' = Stacked /\ Stacked \subseteq D
  <2>1. \A p : Ancestors(p)' = Ancestors(p)
    BY <1>1 DEF Ancestors
  <2>2. Stacked' = Stacked
    BY <1>1 DEF Stacked
  <2>. QED
    BY <1>1, <2>1, <2>2, WalksDone
<1>9. \A p : Rooted(p)' <=> Rooted(p)
  BY <1>8 DEF Rooted
<1>10. CASE permitted' = FALSE /\ UNCHANGED <<healthy, order, blocked>>
  <2>1. StackTypeOK'
    BY <1>10, <1>1, <1>2 DEF StackInv, StackTypeOK, Reading
  <2>2. ScheduleIsRight' /\ NothingDropped'
    BY <1>10 DEF ScheduleIsRight, NothingDropped, OpenIsAccounted, DefaultBasedRuns
  <2>. QED
    BY <1>5, <1>6, <1>7, <2>1, <2>2 DEF StackInv
<1>11. ASSUME NEW ok \in SUBSET D, healthy' = ok, permitted' = TRUE, blocked' = Blocked(ok),
              NEW sorted \in Orders(Elements(stacks)),
              order' = Concat([i \in DOMAIN sorted |-> Processable(sorted[i], ok)]) \o Standalone
       PROVE  StackInv'
  <2> DEFINE ready == Concat([i \in DOMAIN sorted |-> Processable(sorted[i], ok)])
  <2>1. /\ ready \in Seq(D) /\ Elements(ready) = Ready(ok) \cap Stacked
        /\ \A x, y : Before(ready, x, y) => x # y /\ y \notin Ancestors(x)
    BY <1>1, ReadyIs
  <2>2. /\ Standalone \in Seq(D) /\ Elements(Standalone) = Ready(ok) \ Stacked
        /\ \A x, y : Before(Standalone, x, y) => Before(list, x, y)
    BY <1>1, StandaloneIs
  <2>3. order' = ready \o Standalone
    BY <1>11
  <2> HIDE DEF ready
  <2>4. order' \in Seq(D) /\ Elements(order') = Ready(ok)
    <3>1. ready \o Standalone \in Seq(D)
          /\ Elements(ready \o Standalone) = Elements(ready) \cup Elements(Standalone)
      BY <2>1, <2>2, JoinNames
    <3>. QED
      BY <2>1, <2>2, <2>3, <3>1
  <2>5. \A p \in D \ Stacked : parent[p] = Nil /\ Ancestors(p) = {} /\ Rooted(p)
    BY <1>1, WalksDone
  <2>6. ASSUME NEW x, NEW y, Before(order', x, y)
        PROVE  /\ y \notin Ancestors(x)
               /\ y = x => x \notin Stacked /\ Len(list) > Cardinality(Elements(list))
    <3>1. \/ Before(ready, x, y) \/ Before(Standalone, x, y)
          \/ x \in Elements(ready) /\ y \in Elements(Standalone)
      BY <2>1, <2>2, <2>3, <2>6, JoinBefore
    <3>2. CASE Before(ready, x, y)
      BY <2>1, <3>2
    <3>3. CASE Before(Standalone, x, y)
      <4>1. x \in D \ Stacked /\ Ancestors(x) = {}
        BY <2>2, <2>5, <3>3, BeforeIn DEF Ready
      <4>2. y = x => Cardinality(Elements(list)) < Len(list)
        BY <1>3, <2>2, <3>3, TwiceIsLonger
      <4>3. Len(list) \in Nat /\ Cardinality(Elements(list)) \in Nat
        BY <1>3, NamesFinite, FS_CardinalityType
      <4>. QED
        BY <4>1, <4>2, <4>3
    <3>4. CASE x \in Elements(ready) /\ y \in Elements(Standalone)
      <4>1. x \in D /\ x \in Stacked /\ y \in D \ Stacked
        BY <2>1, <2>2, <3>4 DEF Ready
      <4>2. PICK s \in Elements(stacks) : x \in Elements(s.members)
        BY <1>1, <4>1, WalksDone
      <4>3. Elements(s.members) \subseteq Stacked /\ x \in Ready(ok)
        BY <1>1, <2>1, <3>4, WalksDone
      <4>4. x \in Elements(Processable(s, ok))
        BY <1>1, <4>2, <4>3, ProcessableIs
      <4>5. Processable(s, ok) # <<>>
        BY <4>4, FewNames
      <4>6. Ancestors(x) \subseteq Stacked
        BY <1>1, <4>2, <4>3, <4>5, ProcessableIs
      <4>. QED
        BY <4>1, <4>6
    <3>. QED
      BY <3>1, <3>2, <3>3, <3>4
  <2>7. ScheduleIsRight'
    <3>1. Ready(ok) = {p \in Elements(list) : prs[p].open /\ Rooted(p) /\ Ancestors(p) \subseteq ok}
      BY <1>3 DEF Ready
    <3>2. Elements(order') = {p \in Elements(list') : prs'[p].open /\ Rooted(p)' /\ Ancestors(p)' \subseteq healthy'}
      BY <1>1, <1>8, <1>9, <1>11, <2>4, <3>1
    <3>3. \A i, j \in DOMAIN order' : i < j =>
            /\ order'[j] \notin Ancestors(order'[i])
            /\ order'[j] = order'[i] =>
                 order'[i] \notin Stacked /\ Len(list) > Cardinality(Elements(list))
      BY <2>6 DEF Before
    <3>4. \A i, j \in DOMAIN order' : i < j =>
            /\ \A p : p = order'[i] => order'[j] \notin Ancestors(p)'
            /\ order'[j] = order'[i] =>
                 order'[i] \notin Stacked' /\ Len(list') > Cardinality(Elements(list'))
      BY <1>1, <1>8, <3>3
    <3>. QED
      BY <3>2, <3>4 DEF ScheduleIsRight
  <2>8. NothingDropped'
    <3>1. \A p \in Stacked : p \in Ready(ok) \/ ~prs[p].open <=> p \notin blocked' \/ ~prs[p].open
      BY <1>3, <1>8, <1>11, ChainHealthyIs DEF Blocked, Ready
    <3>2. blocked' \subseteq Stacked
      BY <1>11 DEF Blocked
    <3>3. \A p \in D : prs[p].open => (p \in Ready(ok) <=> p \notin blocked')
      BY <2>5, <3>1, <3>2 DEF Ready
    <3>4. OpenIsAccounted'
      BY <1>1, <1>3, <2>4, <3>3 DEF OpenIsAccounted
    <3>5. \A p \in D : prs[p].base = default => parent[p] = Nil
      BY <1>2 DEF StackInv, Linked
    <3>6. \A p \in D : prs[p].open /\ prs[p].base = default => p \in Ready(ok)
      BY <1>3, <3>5, AncestorsStep, RootedStep DEF Ready
    <3>7. DefaultBasedRuns'
      BY <1>1, <1>3, <2>4, <3>6 DEF DefaultBasedRuns
    <3>. QED
      BY <3>4, <3>7 DEF NothingDropped
  <2>9. StackTypeOK'
    <3>1. order' \in Seq(Prs)
      <4>1. Elements(order') \subseteq Prs
        BY <1>3, <2>4, NamesWithin
      <4>. QED
        BY <2>4, <4>1, NamesWithin
    <3>2. blocked' \subseteq Prs /\ healthy' \subseteq Prs
      BY <1>3, <1>8, <1>11 DEF Blocked
    <3>. QED
      BY <1>1, <1>2, <1>11, <3>1, <3>2 DEF StackInv, StackTypeOK, Reading
  <2>. QED
    BY <1>5, <1>6, <1>7, <2>7, <2>8, <2>9 DEF StackInv
<1>12. \/ permitted' = FALSE /\ UNCHANGED <<healthy, order, blocked>>
       \/ \E ok \in SUBSET D, sorted \in Orders(Elements(stacks)) :
            /\ healthy' = ok /\ permitted' = TRUE /\ blocked' = Blocked(ok)
            /\ order' = Concat([i \in DOMAIN sorted |-> Processable(sorted[i], ok)]) \o Standalone
  BY <1>3
<1>. QED
  BY <1>10, <1>11, <1>12

LEMMA StackStutters ==
  ASSUME StackInv, UNCHANGED stackVars
  PROVE  StackInv'
<1> USE DEF stackVars, input, walk, schedule
<1>1. \A p : Ancestors(p)' = Ancestors(p)
  BY DEF Ancestors
<1>2. \A p : Rooted(p)' <=> Rooted(p)
  BY <1>1 DEF Rooted
<1>3. Reading' <=> Reading
  BY DEF Reading
<1>4. Taken' = Taken /\ Waiters' = Waiters /\ Old' = Old /\ Stacked' = Stacked /\ (Walking' <=> Walking)
  BY DEF Taken, Waiters, Old, Walking, Stacked
<1>5. \A s : InOrder(s)' <=> InOrder(s)
  BY DEF InOrder
<1>6. \A s : WellStacked(s)' <=> WellStacked(s)
  BY <1>4, <1>5 DEF WellStacked
<1>7. StackTypeOK' /\ Paged'
  BY DEF StackInv, StackTypeOK, Paged
<1>8. Linked'
  BY <1>3 DEF StackInv, Linked, Links
<1>9. Covered' /\ RingsLeft' /\ AllVisited'
  BY <1>3, <1>4 DEF StackInv, Covered, RingsLeft, AllVisited
<1>10. WalkInOrder'
  BY <1>4, <1>5 DEF StackInv, WalkInOrder
<1>11. Apart'
  BY <1>3, <1>4, <1>6 DEF StackInv, Apart
<1>12. ScheduleIsRight'
  BY <1>1, <1>2, <1>4 DEF StackInv, ScheduleIsRight
<1>13. NothingDropped'
  BY DEF StackInv, NothingDropped, OpenIsAccounted, DefaultBasedRuns
<1>. QED
  BY <1>7, <1>8, <1>9, <1>10, <1>11, <1>12, <1>13 DEF StackInv

LEMMA StackSteps == StackInv /\ [StackNext]_stackVars => StackInv'
<1> SUFFICES ASSUME StackInv, [StackNext]_stackVars
             PROVE  StackInv'
  OBVIOUS
<1>. QED
  BY LookUpKeeps, ReadPageKeeps, PageFailsKeeps, CreateKeeps, LinkKeeps, TakeBaseKeeps, WalkKeeps,
     EndWalkKeeps, TakeRingKeeps, RoundKeeps, EndRoundKeeps, OrderKeeps, StackStutters
     DEF StackNext

LEMMA StackAlways == StackSpec => []StackInv
BY StackStarts, StackSteps, PTL DEF StackSpec

\* Of stacks.py's plan: requests, lists, links, walks and schedules are of their
\* types, whatever the pages hold and however the links run.
THEOREM StackTypes == StackSpec => []StackTypeOK
BY StackAlways, PTL DEF StackInv

\* order_prs_bottom_up schedules each open request whose ancestors are healthy
\* and stand on no ring, exactly once and after all its ancestors, for any number
\* of requests, pages, branches and health maps.
THEOREM ScheduleStands == StackSpec => []ScheduleIsRight
BY StackAlways, PTL DEF StackInv

\* No open request is lost between two pages, or between the stacks, the rings and
\* the standalone requests; and once the default branch is known none against it
\* is held up.
THEOREM NobodyDropped == StackSpec => []NothingDropped
BY StackAlways, PTL DEF StackInv

=============================================================================
