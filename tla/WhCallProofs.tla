---------------------------- MODULE WhCallProofs ----------------------------
(***************************************************************************)
(* Theorems about WhCall, for any number of calls and any branches.        *)
(***************************************************************************)
EXTENDS WhCall, TLAPS

\* What is known of a call at each place.
Stages ==
  \A c \in Calls :
    /\ pc[c] = "new" <=> command[c] = None
    /\ pc[c] \in {"new", "check", "verify", "spawn"} => child[c] = "no"
    /\ pc[c] = "wait" => child[c] # "no"
    /\ pc[c] \in {"new", "check", "verify", "spawn", "wait"} =>
         exit[c] = None /\ data[c] = None /\ envelope[c] = "none"
    /\ pc[c] \in {"ending", "exited", "over"} => exit[c] # None
    /\ pc[c] # "over" <=> answer[c] = "none"
    /\ child[c] = "alive" => pc[c] = "wait" \/ Lost(c)

\* What is known of a child: it is of an accepted command, and a success had
\* its effect.
Children ==
  \A c \in Calls :
    /\ child[c] # "ended" <=> status[c] = None
    /\ child[c] = "no" => acted[c] = None
    /\ acted[c] # None => Writes(command[c])
    /\ status[c] = 0 /\ Writes(command[c]) => acted[c] # None
    /\ pc[c] \in {"verify", "spawn", "wait"} \/ child[c] # "no" => ~Outside(command[c])

\* What wh has said, and what the client made of it.
Said ==
  \A c \in Calls :
    /\ data[c] = 0 => child[c] = "ended" /\ status[c] = 0
    /\ envelope[c] = "error" => child[c] = "no"
    /\ exit[c] = 2 /\ envelope[c] # "ok" => child[c] = "no"
    /\ answer[c] = "done" => data[c] = 0
    /\ answer[c] = "policy" => envelope[c] = "error"
    /\ answer[c] = "process_error" => envelope[c] # "ok"

\* A call starts when the earlier ones are over.
InOrder == \A c, b \in Calls : pc[c] # "new" /\ b < c => pc[b] = "over"

\* No call before c was lost.
NoneLost(c) == \A b \in Calls : b < c => ~Lost(b)

\* The branch that was found is still checked out when the child acts.
Held ==
  \A c \in Calls :
    /\ pc[c] \in {"spawn", "wait"}
    /\ Checked(command[c])
    /\ acted[c] = None
    /\ NoneLost(c)
    => head = command[c].expects

Inv == TypeOK /\ Stages /\ Children /\ Said /\ InOrder /\ Held /\ ActsOnExpected

\* What is not None.
LEMMA Nulls == None \notin Branches /\ None \notin Codes /\ None \notin Commands
               /\ None # Signal /\ Signal \notin Codes
BY NoneAssumption, CommandsAssumption DEF Codes, Signal

\* The types are inductive, given what holds at each place.
LEMMA TypesKept == TypeOK /\ Stages /\ Children /\ [Next]_vars => TypeOK'
<1> SUFFICES ASSUME TypeOK, Stages, Children, [Next]_vars PROVE TypeOK'
  OBVIOUS
<1> USE Nulls DEF TypeOK, Stages, Children, childVars, saidVars, Codes, Envelopes, Answers
<1>1. ASSUME NEW c \in Calls, Issue(c) PROVE TypeOK'
  BY <1>1 DEF Issue, Goto
<1>2. ASSUME NEW c \in Calls, Usage(c) PROVE TypeOK'
  BY <1>2 DEF Usage, Say, Goto
<1>3. ASSUME NEW c \in Calls, Refuse(c) PROVE TypeOK'
  BY <1>3 DEF Refuse, Fail, Say, Goto
<1>4. ASSUME NEW c \in Calls, RefuseRepo(c) PROVE TypeOK'
  BY <1>4 DEF RefuseRepo, Fail, Say, Goto
<1>5. ASSUME NEW c \in Calls, Accept(c) PROVE TypeOK'
  BY <1>5 DEF Accept, Goto
<1>6. ASSUME NEW c \in Calls, Verify(c) PROVE TypeOK'
  BY <1>6 DEF Verify, Goto
<1>7. ASSUME NEW c \in Calls, Mismatch(c) PROVE TypeOK'
  BY <1>7 DEF Mismatch, Fail, Say, Goto
<1>8. ASSUME NEW c \in Calls, VerifyFails(c) PROVE TypeOK'
  BY <1>8 DEF VerifyFails, Fail, Say, Goto
<1>9. ASSUME NEW c \in Calls, Spawn(c) PROVE TypeOK'
  BY <1>9 DEF Spawn, Goto
<1>10. ASSUME NEW c \in Calls, SpawnFails(c) PROVE TypeOK'
  BY <1>10 DEF SpawnFails, Fail, Say, Goto
<1>11. ASSUME NEW c \in Calls, Collect(c) PROVE TypeOK'
  BY <1>11 DEF Collect, Say, Goto
<1>12. ASSUME NEW c \in Calls, CollectSupervised(c) PROVE TypeOK'
  BY <1>12 DEF CollectSupervised, Say, Goto
<1>13. ASSUME NEW c \in Calls, Stop(c) PROVE TypeOK'
  BY <1>13 DEF Stop, Say, Goto
<1>14. ASSUME NEW c \in Calls, End(c) PROVE TypeOK'
  BY <1>14 DEF End, Goto
<1>15. ASSUME NEW c \in Calls, Running(c), Dies(c) PROVE TypeOK'
  BY <1>15 DEF Dies, Running
<1>16. ASSUME NEW c \in Calls, Act(c) PROVE TypeOK'
  BY <1>16 DEF Act, Commands
<1>17. ASSUME NEW c \in Calls, ChildEnds(c) PROVE TypeOK'
  BY <1>17 DEF ChildEnds
<1>18. ASSUME NEW c \in Calls, TimeOut(c) PROVE TypeOK'
  BY <1>18 DEF TimeOut, Running
<1>19. ASSUME NEW c \in Calls, Interpret(c) PROVE TypeOK'
  BY <1>19 DEF Interpret, Goto, Reading, Succeeded
<1>20. ASSUME UNCHANGED vars PROVE TypeOK'
  BY <1>20 DEF vars
<1>. QED
  BY <1>1, <1>2, <1>3, <1>4, <1>5, <1>6, <1>7, <1>8, <1>9, <1>10, <1>11, <1>12, <1>13, <1>14, <1>15, <1>16, <1>17, <1>18, <1>19, <1>20 DEF Next, Wh

\* What is known at each place is inductive.
LEMMA StagesKept == TypeOK /\ Stages /\ Children /\ [Next]_vars => Stages'
<1> SUFFICES ASSUME TypeOK, Stages, Children, [Next]_vars PROVE Stages'
  OBVIOUS
<1> USE Nulls DEF TypeOK, Stages, Children, Lost, childVars, saidVars, Codes
<1>1. ASSUME NEW c \in Calls, Issue(c) PROVE Stages'
  BY <1>1 DEF Issue, Goto
<1>2. ASSUME NEW c \in Calls, Usage(c) PROVE Stages'
  BY <1>2 DEF Usage, Say, Goto
<1>3. ASSUME NEW c \in Calls, Refuse(c) PROVE Stages'
  BY <1>3 DEF Refuse, Fail, Say, Goto
<1>4. ASSUME NEW c \in Calls, RefuseRepo(c) PROVE Stages'
  BY <1>4 DEF RefuseRepo, Fail, Say, Goto
<1>5. ASSUME NEW c \in Calls, Accept(c) PROVE Stages'
  BY <1>5 DEF Accept, Goto
<1>6. ASSUME NEW c \in Calls, Verify(c) PROVE Stages'
  BY <1>6 DEF Verify, Goto
<1>7. ASSUME NEW c \in Calls, Mismatch(c) PROVE Stages'
  BY <1>7 DEF Mismatch, Fail, Say, Goto
<1>8. ASSUME NEW c \in Calls, VerifyFails(c) PROVE Stages'
  BY <1>8 DEF VerifyFails, Fail, Say, Goto
<1>9. ASSUME NEW c \in Calls, Spawn(c) PROVE Stages'
  BY <1>9 DEF Spawn, Goto
<1>10. ASSUME NEW c \in Calls, SpawnFails(c) PROVE Stages'
  BY <1>10 DEF SpawnFails, Fail, Say, Goto
<1>11. ASSUME NEW c \in Calls, Collect(c) PROVE Stages'
  BY <1>11 DEF Collect, Say, Goto
<1>12. ASSUME NEW c \in Calls, CollectSupervised(c) PROVE Stages'
  BY <1>12 DEF CollectSupervised, Say, Goto
<1>13. ASSUME NEW c \in Calls, Stop(c) PROVE Stages'
  BY <1>13 DEF Stop, Say, Goto
<1>14. ASSUME NEW c \in Calls, End(c) PROVE Stages'
  BY <1>14 DEF End, Goto
<1>15. ASSUME NEW c \in Calls, Running(c), Dies(c) PROVE Stages'
  BY <1>15 DEF Dies, Running
<1>16. ASSUME NEW c \in Calls, Act(c) PROVE Stages'
  BY <1>16 DEF Act
<1>17. ASSUME NEW c \in Calls, ChildEnds(c) PROVE Stages'
  BY <1>17 DEF ChildEnds
<1>18. ASSUME NEW c \in Calls, TimeOut(c) PROVE Stages'
  BY <1>18 DEF TimeOut, Running
<1>19. ASSUME NEW c \in Calls, Interpret(c) PROVE Stages'
  BY <1>19 DEF Interpret, Goto, Reading, Succeeded
<1>20. ASSUME UNCHANGED vars PROVE Stages'
  BY <1>20 DEF vars
<1>. QED
  BY <1>1, <1>2, <1>3, <1>4, <1>5, <1>6, <1>7, <1>8, <1>9, <1>10, <1>11, <1>12, <1>13, <1>14, <1>15, <1>16, <1>17, <1>18, <1>19, <1>20 DEF Next, Wh

\* What is known of the children is inductive.
LEMMA ChildrenKept == TypeOK /\ Stages /\ Children /\ [Next]_vars => Children'
<1> SUFFICES ASSUME TypeOK, Stages, Children, [Next]_vars PROVE Children'
  OBVIOUS
<1> USE Nulls DEF TypeOK, Stages, Children, Outside, Strays, Mutating, Writes, childVars, saidVars, Codes
<1>1. ASSUME NEW c \in Calls, Issue(c) PROVE Children'
  BY <1>1 DEF Issue, Goto
<1>2. ASSUME NEW c \in Calls, Usage(c) PROVE Children'
  BY <1>2 DEF Usage, Say, Goto
<1>3. ASSUME NEW c \in Calls, Refuse(c) PROVE Children'
  BY <1>3 DEF Refuse, Fail, Say, Goto
<1>4. ASSUME NEW c \in Calls, RefuseRepo(c) PROVE Children'
  BY <1>4 DEF RefuseRepo, Fail, Say, Goto
<1>5. ASSUME NEW c \in Calls, Accept(c) PROVE Children'
  BY <1>5 DEF Accept, Goto
<1>6. ASSUME NEW c \in Calls, Verify(c) PROVE Children'
  BY <1>6 DEF Verify, Goto
<1>7. ASSUME NEW c \in Calls, Mismatch(c) PROVE Children'
  BY <1>7 DEF Mismatch, Fail, Say, Goto
<1>8. ASSUME NEW c \in Calls, VerifyFails(c) PROVE Children'
  BY <1>8 DEF VerifyFails, Fail, Say, Goto
<1>9. ASSUME NEW c \in Calls, Spawn(c) PROVE Children'
  BY <1>9 DEF Spawn, Goto
<1>10. ASSUME NEW c \in Calls, SpawnFails(c) PROVE Children'
  BY <1>10 DEF SpawnFails, Fail, Say, Goto
<1>11. ASSUME NEW c \in Calls, Collect(c) PROVE Children'
  BY <1>11 DEF Collect, Say, Goto
<1>12. ASSUME NEW c \in Calls, CollectSupervised(c) PROVE Children'
  BY <1>12 DEF CollectSupervised, Say, Goto
<1>13. ASSUME NEW c \in Calls, Stop(c) PROVE Children'
  BY <1>13 DEF Stop, Say, Goto
<1>14. ASSUME NEW c \in Calls, End(c) PROVE Children'
  BY <1>14 DEF End, Goto
<1>15. ASSUME NEW c \in Calls, Running(c), Dies(c) PROVE Children'
  BY <1>15 DEF Dies, Running
<1>16. ASSUME NEW c \in Calls, Act(c) PROVE Children'
  BY <1>16 DEF Act
<1>17. ASSUME NEW c \in Calls, ChildEnds(c) PROVE Children'
  BY <1>17 DEF ChildEnds
<1>18. ASSUME NEW c \in Calls, TimeOut(c) PROVE Children'
  BY <1>18 DEF TimeOut, Running
<1>19. ASSUME NEW c \in Calls, Interpret(c) PROVE Children'
  BY <1>19 DEF Interpret, Goto, Reading, Succeeded
<1>20. ASSUME UNCHANGED vars PROVE Children'
  BY <1>20 DEF vars
<1>. QED
  BY <1>1, <1>2, <1>3, <1>4, <1>5, <1>6, <1>7, <1>8, <1>9, <1>10, <1>11, <1>12, <1>13, <1>14, <1>15, <1>16, <1>17, <1>18, <1>19, <1>20 DEF Next, Wh

\* What has been said stays right.
LEMMA SaidKept == TypeOK /\ Stages /\ Children /\ Said /\ [Next]_vars => Said'
<1> SUFFICES ASSUME TypeOK, Stages, Children, Said, [Next]_vars PROVE Said'
  OBVIOUS
<1> USE Nulls DEF TypeOK, Stages, Children, Said, childVars, saidVars, Codes
<1>1. ASSUME NEW c \in Calls, Issue(c) PROVE Said'
  BY <1>1 DEF Issue, Goto
<1>2. ASSUME NEW c \in Calls, Usage(c) PROVE Said'
  BY <1>2 DEF Usage, Say, Goto
<1>3. ASSUME NEW c \in Calls, Refuse(c) PROVE Said'
  BY <1>3 DEF Refuse, Fail, Say, Goto
<1>4. ASSUME NEW c \in Calls, RefuseRepo(c) PROVE Said'
  BY <1>4 DEF RefuseRepo, Fail, Say, Goto
<1>5. ASSUME NEW c \in Calls, Accept(c) PROVE Said'
  BY <1>5 DEF Accept, Goto
<1>6. ASSUME NEW c \in Calls, Verify(c) PROVE Said'
  BY <1>6 DEF Verify, Goto
<1>7. ASSUME NEW c \in Calls, Mismatch(c) PROVE Said'
  BY <1>7 DEF Mismatch, Fail, Say, Goto
<1>8. ASSUME NEW c \in Calls, VerifyFails(c) PROVE Said'
  BY <1>8 DEF VerifyFails, Fail, Say, Goto
<1>9. ASSUME NEW c \in Calls, Spawn(c) PROVE Said'
  BY <1>9 DEF Spawn, Goto
<1>10. ASSUME NEW c \in Calls, SpawnFails(c) PROVE Said'
  BY <1>10 DEF SpawnFails, Fail, Say, Goto
<1>11. ASSUME NEW c \in Calls, Collect(c) PROVE Said'
  BY <1>11 DEF Collect, Say, Goto
<1>12. ASSUME NEW c \in Calls, CollectSupervised(c) PROVE Said'
  BY <1>12 DEF CollectSupervised, Say, Goto
<1>13. ASSUME NEW c \in Calls, Stop(c) PROVE Said'
  BY <1>13 DEF Stop, Say, Goto
<1>14. ASSUME NEW c \in Calls, End(c) PROVE Said'
  BY <1>14 DEF End, Goto
<1>15. ASSUME NEW c \in Calls, Running(c), Dies(c) PROVE Said'
  BY <1>15 DEF Dies, Running
<1>16. ASSUME NEW c \in Calls, Act(c) PROVE Said'
  BY <1>16 DEF Act
<1>17. ASSUME NEW c \in Calls, ChildEnds(c) PROVE Said'
  BY <1>17 DEF ChildEnds
<1>18. ASSUME NEW c \in Calls, TimeOut(c) PROVE Said'
  BY <1>18 DEF TimeOut, Running
<1>19. ASSUME NEW c \in Calls, Interpret(c) PROVE Said'
  BY <1>19 DEF Interpret, Goto, Reading, Succeeded
<1>20. ASSUME UNCHANGED vars PROVE Said'
  BY <1>20 DEF vars
<1>. QED
  BY <1>1, <1>2, <1>3, <1>4, <1>5, <1>6, <1>7, <1>8, <1>9, <1>10, <1>11, <1>12, <1>13, <1>14, <1>15, <1>16, <1>17, <1>18, <1>19, <1>20 DEF Next, Wh

\* Calls come one after the other.
LEMMA OrderKept == TypeOK /\ InOrder /\ [Next]_vars => InOrder'
<1> SUFFICES ASSUME TypeOK, InOrder, [Next]_vars PROVE InOrder'
  OBVIOUS
<1> USE Nulls DEF TypeOK, InOrder, childVars, saidVars, Calls
<1>1. ASSUME NEW c \in Calls, Issue(c) PROVE InOrder'
  BY <1>1 DEF Issue, Goto
<1>2. ASSUME NEW c \in Calls, Usage(c) PROVE InOrder'
  BY <1>2 DEF Usage, Say, Goto
<1>3. ASSUME NEW c \in Calls, Refuse(c) PROVE InOrder'
  BY <1>3 DEF Refuse, Fail, Say, Goto
<1>4. ASSUME NEW c \in Calls, RefuseRepo(c) PROVE InOrder'
  BY <1>4 DEF RefuseRepo, Fail, Say, Goto
<1>5. ASSUME NEW c \in Calls, Accept(c) PROVE InOrder'
  BY <1>5 DEF Accept, Goto
<1>6. ASSUME NEW c \in Calls, Verify(c) PROVE InOrder'
  BY <1>6 DEF Verify, Goto
<1>7. ASSUME NEW c \in Calls, Mismatch(c) PROVE InOrder'
  BY <1>7 DEF Mismatch, Fail, Say, Goto
<1>8. ASSUME NEW c \in Calls, VerifyFails(c) PROVE InOrder'
  BY <1>8 DEF VerifyFails, Fail, Say, Goto
<1>9. ASSUME NEW c \in Calls, Spawn(c) PROVE InOrder'
  BY <1>9 DEF Spawn, Goto
<1>10. ASSUME NEW c \in Calls, SpawnFails(c) PROVE InOrder'
  BY <1>10 DEF SpawnFails, Fail, Say, Goto
<1>11. ASSUME NEW c \in Calls, Collect(c) PROVE InOrder'
  BY <1>11 DEF Collect, Say, Goto
<1>12. ASSUME NEW c \in Calls, CollectSupervised(c) PROVE InOrder'
  BY <1>12 DEF CollectSupervised, Say, Goto
<1>13. ASSUME NEW c \in Calls, Stop(c) PROVE InOrder'
  BY <1>13 DEF Stop, Say, Goto
<1>14. ASSUME NEW c \in Calls, End(c) PROVE InOrder'
  BY <1>14 DEF End, Goto
<1>15. ASSUME NEW c \in Calls, Running(c), Dies(c) PROVE InOrder'
  BY <1>15 DEF Dies, Running
<1>16. ASSUME NEW c \in Calls, Act(c) PROVE InOrder'
  BY <1>16 DEF Act
<1>17. ASSUME NEW c \in Calls, ChildEnds(c) PROVE InOrder'
  BY <1>17 DEF ChildEnds
<1>18. ASSUME NEW c \in Calls, TimeOut(c) PROVE InOrder'
  BY <1>18 DEF TimeOut, Running
<1>19. ASSUME NEW c \in Calls, Interpret(c) PROVE InOrder'
  BY <1>19 DEF Interpret, Goto, Reading, Succeeded
<1>20. ASSUME UNCHANGED vars PROVE InOrder'
  BY <1>20 DEF vars
<1>. QED
  BY <1>1, <1>2, <1>3, <1>4, <1>5, <1>6, <1>7, <1>8, <1>9, <1>10, <1>11, <1>12, <1>13, <1>14, <1>15, <1>16, <1>17, <1>18, <1>19, <1>20 DEF Next, Wh

\* Calls that were lost stay lost, and commands and effects stay what they are.
Kept(d) ==
  /\ Lost(d) => Lost(d)'
  /\ acted[d] # None => acted'[d] = acted[d]
  /\ pc[d] # "new" => command'[d] = command[d]

LEMMA Stays == TypeOK /\ Stages /\ [Next]_vars => \A d \in Calls : Kept(d)
<1> SUFFICES ASSUME TypeOK, Stages, [Next]_vars, NEW d \in Calls PROVE Kept(d)
  OBVIOUS
<1> USE Nulls DEF TypeOK, Stages, Lost, Kept, childVars, saidVars
<1>1. ASSUME NEW c \in Calls, Issue(c) PROVE Kept(d)
  BY <1>1 DEF Issue, Goto
<1>2. ASSUME NEW c \in Calls, Usage(c) PROVE Kept(d)
  BY <1>2 DEF Usage, Say, Goto
<1>3. ASSUME NEW c \in Calls, Refuse(c) PROVE Kept(d)
  BY <1>3 DEF Refuse, Fail, Say, Goto
<1>4. ASSUME NEW c \in Calls, RefuseRepo(c) PROVE Kept(d)
  BY <1>4 DEF RefuseRepo, Fail, Say, Goto
<1>5. ASSUME NEW c \in Calls, Accept(c) PROVE Kept(d)
  BY <1>5 DEF Accept, Goto
<1>6. ASSUME NEW c \in Calls, Verify(c) PROVE Kept(d)
  BY <1>6 DEF Verify, Goto
<1>7. ASSUME NEW c \in Calls, Mismatch(c) PROVE Kept(d)
  BY <1>7 DEF Mismatch, Fail, Say, Goto
<1>8. ASSUME NEW c \in Calls, VerifyFails(c) PROVE Kept(d)
  BY <1>8 DEF VerifyFails, Fail, Say, Goto
<1>9. ASSUME NEW c \in Calls, Spawn(c) PROVE Kept(d)
  BY <1>9 DEF Spawn, Goto
<1>10. ASSUME NEW c \in Calls, SpawnFails(c) PROVE Kept(d)
  BY <1>10 DEF SpawnFails, Fail, Say, Goto
<1>11. ASSUME NEW c \in Calls, Collect(c) PROVE Kept(d)
  BY <1>11 DEF Collect, Say, Goto
<1>12. ASSUME NEW c \in Calls, CollectSupervised(c) PROVE Kept(d)
  BY <1>12 DEF CollectSupervised, Say, Goto
<1>13. ASSUME NEW c \in Calls, Stop(c) PROVE Kept(d)
  BY <1>13 DEF Stop, Say, Goto
<1>14. ASSUME NEW c \in Calls, End(c) PROVE Kept(d)
  BY <1>14 DEF End, Goto
<1>15. ASSUME NEW c \in Calls, Dies(c) PROVE Kept(d)
  BY <1>15 DEF Dies
<1>16. ASSUME NEW c \in Calls, Act(c) PROVE Kept(d)
  BY <1>16 DEF Act
<1>17. ASSUME NEW c \in Calls, ChildEnds(c) PROVE Kept(d)
  BY <1>17 DEF ChildEnds
<1>18. ASSUME NEW c \in Calls, TimeOut(c) PROVE Kept(d)
  BY <1>18 DEF TimeOut
<1>19. ASSUME NEW c \in Calls, Interpret(c) PROVE Kept(d)
  BY <1>19 DEF Interpret, Goto, Reading, Succeeded
<1>20. ASSUME UNCHANGED vars PROVE Kept(d)
  BY <1>20 DEF vars
<1>. QED
  BY <1>1, <1>2, <1>3, <1>4, <1>5, <1>6, <1>7, <1>8, <1>9, <1>10, <1>11, <1>12, <1>13, <1>14, <1>15, <1>16, <1>17, <1>18, <1>19, <1>20 DEF Next, Wh

\* The branch found stays checked out: no other child is there to switch it.
LEMMA HeldKept == TypeOK /\ Stages /\ InOrder /\ Held /\ [Next]_vars => Held'
<1> SUFFICES ASSUME TypeOK, Stages, InOrder, Held, [Next]_vars,
                    NEW d \in Calls, (pc[d] \in {"spawn", "wait"})',
                    Checked(command[d])', (acted[d] = None)', NoneLost(d)'
             PROVE  (head = command[d].expects)'
  BY DEF Held
<1> DEFINE Goal == (head = command[d].expects)'
<1> USE Nulls DEF TypeOK, childVars, saidVars
<1>a. Kept(d) /\ NoneLost(d)
  BY Stays DEF Kept, NoneLost
<1>b. pc[d] # "new" => acted[d] = None /\ Checked(command[d])
  BY <1>a DEF Kept
<1>c. pc[d] \in {"spawn", "wait"} => head = command[d].expects
  BY <1>a, <1>b DEF Held
<1>d. pc[d] # "new" => command'[d] = command[d]
  BY <1>a DEF Kept
<1>1. ASSUME NEW c \in Calls, Issue(c) PROVE Goal
  BY <1>1, <1>b, <1>c, <1>d DEF Issue, Goto
<1>2. ASSUME NEW c \in Calls, Usage(c) PROVE Goal
  BY <1>2, <1>b, <1>c, <1>d DEF Usage, Say, Goto
<1>3. ASSUME NEW c \in Calls, Refuse(c) PROVE Goal
  BY <1>3, <1>b, <1>c, <1>d DEF Refuse, Fail, Say, Goto
<1>4. ASSUME NEW c \in Calls, RefuseRepo(c) PROVE Goal
  BY <1>4, <1>b, <1>c, <1>d DEF RefuseRepo, Fail, Say, Goto
<1>5. ASSUME NEW c \in Calls, Accept(c) PROVE Goal
  BY <1>5, <1>b, <1>c, <1>d DEF Accept, Goto
<1>6. ASSUME NEW c \in Calls, Verify(c) PROVE Goal
  BY <1>6, <1>b, <1>c, <1>d DEF Verify, Goto
<1>7. ASSUME NEW c \in Calls, Mismatch(c) PROVE Goal
  BY <1>7, <1>b, <1>c, <1>d DEF Mismatch, Fail, Say, Goto
<1>8. ASSUME NEW c \in Calls, VerifyFails(c) PROVE Goal
  BY <1>8, <1>b, <1>c, <1>d DEF VerifyFails, Fail, Say, Goto
<1>9. ASSUME NEW c \in Calls, Spawn(c) PROVE Goal
  BY <1>9, <1>b, <1>c, <1>d DEF Spawn, Goto
<1>10. ASSUME NEW c \in Calls, SpawnFails(c) PROVE Goal
  BY <1>10, <1>b, <1>c, <1>d DEF SpawnFails, Fail, Say, Goto
<1>11. ASSUME NEW c \in Calls, Collect(c) PROVE Goal
  BY <1>11, <1>b, <1>c, <1>d DEF Collect, Say, Goto
<1>12. ASSUME NEW c \in Calls, CollectSupervised(c) PROVE Goal
  BY <1>12, <1>b, <1>c, <1>d DEF CollectSupervised, Say, Goto
<1>13. ASSUME NEW c \in Calls, Stop(c) PROVE Goal
  BY <1>13, <1>b, <1>c, <1>d DEF Stop, Say, Goto
<1>14. ASSUME NEW c \in Calls, End(c) PROVE Goal
  BY <1>14, <1>b, <1>c, <1>d DEF End, Goto
<1>15. ASSUME NEW c \in Calls, Running(c), Dies(c) PROVE Goal
  BY <1>15, <1>b, <1>c, <1>d DEF Dies, Running
<1>16. ASSUME NEW c \in Calls, Act(c) PROVE Goal
  <2>1. pc[d] \in {"spawn", "wait"} /\ pc[d] # "new"
    BY <1>16 DEF Act
  <2>2. c # d
    BY <1>16 DEF Act, Mutating, Commands, Stages
  <2>3. ~(c < d)
    BY <1>16, <1>a, <2>1 DEF Act, InOrder, Stages, NoneLost
  <2>4. ~(d < c)
    BY <1>16, <2>1 DEF Act, InOrder, Stages
  <2>. QED
    BY <2>2, <2>3, <2>4 DEF Calls
<1>17. ASSUME NEW c \in Calls, ChildEnds(c) PROVE Goal
  BY <1>17, <1>b, <1>c, <1>d DEF ChildEnds
<1>18. ASSUME NEW c \in Calls, TimeOut(c) PROVE Goal
  BY <1>18, <1>b, <1>c, <1>d DEF TimeOut, Running
<1>19. ASSUME NEW c \in Calls, Interpret(c) PROVE Goal
  BY <1>19, <1>b, <1>c, <1>d DEF Interpret, Goto, Reading, Succeeded
<1>20. ASSUME UNCHANGED vars PROVE Goal
  BY <1>20, <1>b, <1>c, <1>d DEF vars
<1>. QED
  BY <1>1, <1>2, <1>3, <1>4, <1>5, <1>6, <1>7, <1>8, <1>9, <1>10, <1>11, <1>12, <1>13, <1>14, <1>15, <1>16, <1>17, <1>18, <1>19, <1>20 DEF Next, Wh

\* An effect is on the branch expected, or came after a call was lost.
LEMMA ActsKept ==
  TypeOK /\ Stages /\ Children /\ Held /\ ActsOnExpected /\ [Next]_vars => ActsOnExpected'
<1> SUFFICES ASSUME TypeOK, Stages, Children, Held, ActsOnExpected, [Next]_vars,
                    NEW d \in Calls,
                    acted'[d] # None, command'[d].expects # None,
                    IF command'[d].to = None
                    THEN \A b \in Calls : b <= d => ~Lost(b)'
                    ELSE Supervised(d)' /\ command'[d].reads = command'[d].to
             PROVE  acted'[d] = command'[d].expects
  BY DEF ActsOnExpected
<1> USE Nulls DEF TypeOK
<1>1. \A b \in Calls : Kept(b)
  BY Stays
<1>2. CASE acted[d] # None
  <2>1. pc[d] # "new"
    BY <1>2 DEF Stages, Children
  <2>2. command'[d] = command[d] /\ acted'[d] = acted[d]
    BY <1>1, <1>2, <2>1 DEF Kept
  <2>3. (\A b \in Calls : b <= d => ~Lost(b)') => \A b \in Calls : b <= d => ~Lost(b)
    BY <1>1 DEF Kept
  <2>4. Supervised(d)' => Supervised(d)
    BY <2>2 DEF Supervised
  <2>. QED
    BY <1>2, <2>2, <2>3, <2>4 DEF ActsOnExpected
<1>3. CASE acted[d] = None
  <2>1. Act(d)
    BY <1>3 DEF Next, Wh, vars, childVars, Issue, Usage, Refuse, RefuseRepo, Accept, Verify, Mismatch,
      VerifyFails, Spawn, SpawnFails, Collect, CollectSupervised, Stop, End, Dies, Act, ChildEnds,
      TimeOut, Interpret, Fail
  <2>2. /\ command' = command /\ exit' = exit /\ child[d] = "alive" /\ Writes(command[d])
        /\ acted'[d] = IF command[d].to = None THEN head ELSE command[d].to
    BY <2>1 DEF Act, saidVars
  <2>5. Mutating(command[d])
    <3>1. command[d] \in Commands
      BY <2>2 DEF Stages, Writes, Mutating
    <3> QED
      BY <2>2, <3>1 DEF Commands, Mutating, Writes
  <2>3. CASE command[d].to # None
    BY <2>2, <2>3, <2>5 DEF Children, Outside, Strays, Supervised
  <2>4. CASE command[d].to = None
    <3>1. \A b \in Calls : b <= d => ~Lost(b)
      BY <2>2, <2>4 DEF Lost
    <3>2. pc[d] = "wait" /\ NoneLost(d)
      BY <2>2, <3>1 DEF Stages, NoneLost, Calls
    <3>. QED
      BY <1>3, <2>2, <2>4, <2>5, <3>2 DEF Held, Checked
  <2>. QED
    BY <2>3, <2>4
<1>. QED
  BY <1>2, <1>3

LEMMA Initially == Init => Inv
<1> SUFFICES ASSUME Init PROVE Inv
  OBVIOUS
<1> USE Nulls DEF Init
<1>1. TypeOK
  BY DEF TypeOK, Envelopes, Answers
<1>2. Stages /\ Children /\ Said
  BY DEF Stages, Children, Said, Codes
<1>3. InOrder /\ Held /\ ActsOnExpected
  BY DEF InOrder, Held, ActsOnExpected
<1>. QED
  BY <1>1, <1>2, <1>3 DEF Inv

\* The invariant holds throughout.
THEOREM Invariant == Spec => []Inv
<1>1. Init => Inv
  BY Initially
<1>2. Inv /\ [Next]_vars => Inv'
  BY TypesKept, StagesKept, ChildrenKept, SaidKept, OrderKept, HeldKept, ActsKept DEF Inv
<1>. QED
  BY <1>1, <1>2, PTL DEF Spec

\* A command taken for done is done: TypeOK and DoneIsDone, whatever is killed
\* or times out on the way (bridge.py _interpret, main.rs write_safe_result).
THEOREM DoneMeansDone == Spec => [](TypeOK /\ DoneIsDone)
<1>1. Inv => TypeOK /\ DoneIsDone
  BY DEF Inv, Said, Children, DoneIsDone
<1>. QED
  BY <1>1, Invariant, PTL

\* A caller who is told of a refusal can be sure that nothing was started:
\* RefusedIsUntouched, for the policy errors of git_safe.rs and supervisor.rs.
THEOREM RefusalsTouchNothing == Spec => []RefusedIsUntouched
<1>1. Inv => RefusedIsUntouched
  BY DEF Inv, Said, RefusedIsUntouched
<1>. QED
  BY <1>1, Invariant, PTL

\* Nothing happens after an answer: NothingLate, unless wh was killed, for
\* the waits of git_safe.rs and the deadline of supervisor.rs.
THEOREM NothingComesLate == Spec => []NothingLate
<1>1. Inv => NothingLate
  BY DEF Inv, Stages, NothingLate
<1>. QED
  BY <1>1, Invariant, PTL

\* Effects are on the expected branch: ActsOnExpected, for verify_branch and
\* verify_repo_branch, which look before the child runs, and for the targets
\* that checkout_or_switch_target and push_destination_names read right.
THEOREM EffectsOnExpectedBranch == Spec => []ActsOnExpected
<1>1. Inv => ActsOnExpected
  BY DEF Inv
<1>. QED
  BY <1>1, Invariant, PTL

=============================================================================
