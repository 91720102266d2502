-------------------------- MODULE SupervisorProofs --------------------------
(***************************************************************************)
(* Proofs about Supervisor for any finite set of runs, any limits and any  *)
(* branches.  The order of the queue only matters to liveness; no fact     *)
(* about it is used here.                                                  *)
(***************************************************************************)
EXTENDS Supervisor, FiniteSetTheorems, TLAPS

-----------------------------------------------------------------------------
(* The inductive invariant *)

\* The types of the variables the proofs are about.
Types ==
  /\ max \in Nat \ {0}
  /\ pc \in [Runs -> Waiting \cup Holding \cup {"done"}]
  /\ timed \in [Runs -> BOOLEAN]
  /\ expects \in [Runs -> Branches \cup {None}]
  /\ due \in [Runs -> BOOLEAN]
  /\ members \in [Runs -> SUBSET Group]
  /\ cut \in [Runs -> BOOLEAN]
  /\ result \in [Runs -> Results]
  /\ active \in Nat
  /\ peak \in Nat
  /\ head \in Branches

Undecided == {"new", "queued", "granted", "verify", "armed", "running", "draining"}

\* Where a run can have living processes, and when its output was cut off.
Stages ==
  \A r \in Runs :
    /\ members[r] # {} => pc[r] \in {"running", "draining"}
    /\ pc[r] = "draining" => "child" \notin members[r]
    /\ pc[r] \in Undecided => ~cut[r] /\ result[r] = "none"
    /\ result[r] = "ended" => ~cut[r]

\* The permits and the counters agree with the places of the runs.
Permits ==
  /\ Cardinality(In(Holding)) <= max
  /\ active = Cardinality(In(Counted))
  /\ peak <= max

\* With one permit a run keeps the branch it has verified until it spawns.
Verified ==
  max = 1 => \A r \in Runs : pc[r] = "armed" => expects[r] \in {None, head}

IInv == Types /\ Stages /\ Permits /\ Verified

-----------------------------------------------------------------------------
(* Sets of runs in given places *)

LEMMA InFinite == \A S : In(S) \in SUBSET Runs /\ IsFiniteSet(In(S))
<1> TAKE S
<1>1. In(S) \subseteq Runs
  BY DEF In
<1> QED
  BY <1>1, RunsAssumption, FS_Subset

\* The runs that an assignment of places puts in one of some places.
Placed(place, S) == {r \in Runs : place[r] \in S}

LEMMA InPlaced ==
  /\ In(Waiting) = Placed(pc, Waiting) /\ In(Waiting)' = Placed(pc', Waiting)
  /\ In(Holding) = Placed(pc, Holding) /\ In(Holding)' = Placed(pc', Holding)
  /\ In(Counted) = Placed(pc, Counted) /\ In(Counted)' = Placed(pc', Counted)
  /\ In({"done"}) = Placed(pc, {"done"}) /\ In({"done"})' = Placed(pc', {"done"})
  BY DEF In, Placed

\* A move changes a set of places by at most the run that moves.
Moves(S, r, from, to) ==
  /\ (r \in Placed(pc, S)) <=> from \in S
  /\ from \in S /\ to \in S => Placed(pc', S) = Placed(pc, S)
  /\ from \notin S /\ to \notin S => Placed(pc', S) = Placed(pc, S)
  /\ from \notin S /\ to \in S => Placed(pc', S) = Placed(pc, S) \cup {r}
  /\ from \in S /\ to \notin S => Placed(pc', S) = Placed(pc, S) \ {r}

LEMMA InMove ==
  ASSUME NEW r \in Runs, Types, NEW from, NEW to, Goto(r, from, to)
  PROVE  /\ Moves(Waiting, r, from, to) /\ Moves(Holding, r, from, to)
         /\ Moves(Counted, r, from, to) /\ Moves({"done"}, r, from, to)
<1>1. /\ pc \in [Runs -> Waiting \cup Holding \cup {"done"}]
      /\ pc[r] = from /\ pc' = [pc EXCEPT ![r] = to]
  BY DEF Types, Goto
<1> HIDE DEF Waiting, Holding, Counted
<1>2. ASSUME NEW S PROVE Moves(S, r, from, to)
  BY <1>1 DEF Moves, Placed
<1> QED
  BY <1>2

\* What a step does to the runs that wait, that hold a permit, that are
\* counted and that are over, and to the counters.
Kept == UNCHANGED <<In(Waiting), In(Holding), In(Counted), In({"done"}), active, peak>>

Started(r) ==
  /\ r \in In(Waiting) /\ r \notin In(Holding)
  /\ Cardinality(In(Holding)) < max
  /\ In(Waiting)' = In(Waiting) \ {r}
  /\ In(Holding)' = In(Holding) \cup {r}
  /\ UNCHANGED <<In(Counted), In({"done"}), active, peak>>

Abandoned(r) ==
  /\ r \in In(Waiting)
  /\ In(Waiting)' = In(Waiting) \ {r}
  /\ In({"done"})' = In({"done"}) \cup {r}
  /\ UNCHANGED <<In(Holding), In(Counted), active, peak>>

Armed(r) ==
  /\ r \notin In(Counted)
  /\ In(Counted)' = In(Counted) \cup {r}
  /\ active' = active + 1
  /\ peak' = IF active' > peak THEN active' ELSE peak
  /\ UNCHANGED <<In(Waiting), In(Holding), In({"done"})>>

Disarmed(r) ==
  /\ r \in In(Counted)
  /\ In(Counted)' = In(Counted) \ {r}
  /\ active' = active - 1
  /\ UNCHANGED <<In(Waiting), In(Holding), In({"done"}), peak>>

Finished(r) ==
  /\ r \in In(Holding)
  /\ In(Holding)' = In(Holding) \ {r}
  /\ In({"done"})' = In({"done"}) \cup {r}
  /\ UNCHANGED <<In(Waiting), In(Counted), active, peak>>

LEMMA SameCall == ASSUME UNCHANGED <<pc, active, peak>> PROVE Kept
  BY DEF Kept, In

\* Every step has one of these shapes.
LEMMA Shapes ==
  ASSUME Types, NEW r \in Runs, Enqueue(r) \/ Step(r) \/ Cancel(r)
  PROVE  \/ Kept \/ Started(r) \/ Abandoned(r) \/ Armed(r) \/ Disarmed(r) \/ Finished(r)
<1> USE DEF Types, Waiting, Holding, Counted, counters
<1>1. CASE Enqueue(r)
  BY <1>1, InMove, InPlaced DEF Enqueue, Kept, Moves
<1>2. CASE Acquire(r)
  BY <1>2, InMove, InPlaced DEF Acquire, Started, Moves
<1>3. CASE QueueTimeout(r)
  BY <1>3, InMove, InPlaced DEF QueueTimeout, Abandoned, Moves
<1>4. CASE Lapse(r)
  BY <1>4, InMove, InPlaced DEF Lapse, Kept, Moves
<1>5. CASE Proceed(r)
  BY <1>5, InMove, InPlaced DEF Proceed, Kept, Moves
<1>6. CASE Verify(r)
  BY <1>6, InMove, InPlaced DEF Verify, Kept, Armed, Moves
<1>7. CASE Spawn(r)
  BY <1>7, InMove, InPlaced DEF Spawn, Kept, Moves
<1>8. CASE SpawnFail(r)
  BY <1>8, InMove, InPlaced DEF SpawnFail, Kept, Moves
<1>9. CASE TimeoutFires(r)
  BY <1>9, InMove, InPlaced DEF TimeoutFires, Kept, Moves
<1>10. CASE PostKill(r)
  BY <1>10, InMove, InPlaced DEF PostKill, Kept, Moves
<1>11. CASE WaitReturns(r)
  BY <1>11, InMove, InPlaced DEF WaitReturns, Kept, Moves
<1>12. CASE WaitFail(r)
  BY <1>12, InMove, InPlaced DEF WaitFail, Kept, Moves
<1>13. CASE DrainDone(r)
  BY <1>13, InMove, InPlaced DEF DrainDone, Kept, Moves
<1>14. CASE DrainTimeout(r)
  BY <1>14, InMove, InPlaced DEF DrainTimeout, Kept, Moves
<1>15. CASE Defuse(r)
  BY <1>15, InMove, InPlaced DEF Defuse, Disarmed, Moves
<1>16. CASE Release(r)
  BY <1>16, InMove, InPlaced DEF Release, Finished, Moves
<1>17. CASE Cancel(r)
  BY <1>17, InMove, InPlaced DEF Cancel, Kept, Abandoned, Moves
<1> QED
  BY <1>1, <1>2, <1>3, <1>4, <1>5, <1>6, <1>7, <1>8, <1>9, <1>10, <1>11,
     <1>12, <1>13, <1>14, <1>15, <1>16, <1>17 DEF Step

\* The processes of the groups and the clock move no run.
Surroundings ==
  \E r \in Runs :
    \/ DeadlinePasses(r)
    \/ \E kind \in {"loud", "quiet"} : Fork(r, kind)
    \/ \E member \in Group : Exit(r, member)
    \/ \E b \in Branches : Checkout(r, b)

LEMMA SurroundingsKeep == Surroundings \/ UNCHANGED vars => Kept /\ UNCHANGED <<pc, max>>
  BY SameCall DEF Surroundings, DeadlinePasses, Fork, Exit, Checkout, counters, params, vars

LEMMA NextCases ==
  ASSUME [Next]_vars
  PROVE  \/ \E r \in Runs : Enqueue(r) \/ Step(r) \/ Cancel(r)
         \/ Surroundings \/ UNCHANGED vars
  BY DEF Next, Surroundings

-----------------------------------------------------------------------------
(* The invariant holds initially and is preserved *)

LEMMA InitIInv == Init => IInv
<1> SUFFICES ASSUME Init PROVE IInv
  OBVIOUS
<1>1. Types
  BY LimitsAssumption DEF Init, Types, Waiting, Holding, Counted, Results, Group
<1>2. Stages
  BY DEF Init, Stages
<1>3. In(Holding) = {} /\ In(Counted) = {}
  BY DEF Init, In, Holding, Counted
<1>4. Permits
  BY <1>1, <1>3, FS_EmptySet DEF Init, Permits, Types
<1>5. Verified
  BY DEF Init, Verified
<1> QED
  BY <1>1, <1>2, <1>4, <1>5 DEF IInv

LEMMA NextTypes == IInv /\ [Next]_vars => Types' /\ max' = max /\ expects' = expects
<1> SUFFICES ASSUME IInv, [Next]_vars
             PROVE  Types' /\ max' = max /\ expects' = expects
  OBVIOUS
<1> USE DEF IInv, Types, Goto, Answer, KillGroup, Waiting, Holding, Counted, Results,
        Group, params, counters
<1>1. ASSUME NEW r \in Runs, Defuse(r) PROVE Types' /\ max' = max /\ expects' = expects
  <2>1. r \in In(Counted)
    BY <1>1 DEF Defuse, In
  <2>2. In(Counted) # {} => Cardinality(In(Counted)) # 0
    BY InFinite, FS_EmptySet
  <2>3. active - 1 \in Nat
    BY <2>1, <2>2 DEF Permits
  <2> QED
    BY <1>1, <2>3 DEF Defuse
<1>2. ASSUME NEW r \in Runs, Enqueue(r) \/ Acquire(r) \/ QueueTimeout(r) \/ Lapse(r)
      PROVE  Types' /\ max' = max /\ expects' = expects
  BY <1>2 DEF Enqueue, Acquire, QueueTimeout, Lapse
<1>3. ASSUME NEW r \in Runs, Proceed(r) \/ SpawnFail(r)
      PROVE  Types' /\ max' = max /\ expects' = expects
  BY <1>3 DEF Proceed, SpawnFail
<1>9. ASSUME NEW r \in Runs, Spawn(r) PROVE Types' /\ max' = max /\ expects' = expects
  BY <1>9 DEF Spawn
<1>8. ASSUME NEW r \in Runs, Verify(r) PROVE Types' /\ max' = max /\ expects' = expects
  BY <1>8 DEF Verify
<1>4. ASSUME NEW r \in Runs, TimeoutFires(r) \/ PostKill(r) \/ WaitReturns(r) \/ WaitFail(r)
      PROVE  Types' /\ max' = max /\ expects' = expects
  BY <1>4 DEF TimeoutFires, PostKill, WaitReturns, WaitFail
<1>5. ASSUME NEW r \in Runs, DrainDone(r) \/ DrainTimeout(r) \/ Release(r) \/ Cancel(r)
      PROVE  Types' /\ max' = max /\ expects' = expects
  BY <1>5 DEF DrainDone, DrainTimeout, Release, Cancel
<1>6. CASE Surroundings
  <2>1. ASSUME NEW r \in Runs, DeadlinePasses(r)
        PROVE  Types' /\ max' = max /\ expects' = expects
    BY <2>1 DEF DeadlinePasses
  <2>2. ASSUME NEW r \in Runs, NEW kind \in {"loud", "quiet"}, Fork(r, kind)
        PROVE  Types' /\ max' = max /\ expects' = expects
    BY <2>2 DEF Fork
  <2>3. ASSUME NEW r \in Runs, NEW member \in Group, Exit(r, member)
        PROVE  Types' /\ max' = max /\ expects' = expects
    BY <2>3 DEF Exit
  <2>4. ASSUME NEW r \in Runs, NEW b \in Branches, Checkout(r, b)
        PROVE  Types' /\ max' = max /\ expects' = expects
    BY <2>4 DEF Checkout
  <2> QED
    BY <1>6, <2>1, <2>2, <2>3, <2>4 DEF Surroundings
<1>7. CASE UNCHANGED vars
  BY <1>7 DEF vars
<1> QED
  BY <1>1, <1>2, <1>3, <1>4, <1>5, <1>6, <1>7, <1>8, <1>9, NextCases DEF Step

LEMMA NextStages == IInv /\ [Next]_vars => Stages'
<1> SUFFICES ASSUME IInv, [Next]_vars PROVE Stages'
  OBVIOUS
<1> USE DEF IInv, Types, Stages, Undecided, Goto, Answer, KillGroup
<1>2. ASSUME NEW r \in Runs, Enqueue(r) \/ Acquire(r) \/ QueueTimeout(r) \/ Lapse(r)
      PROVE  Stages'
  BY <1>2 DEF Enqueue, Acquire, QueueTimeout, Lapse
<1>3. ASSUME NEW r \in Runs, Proceed(r) \/ Verify(r) \/ Spawn(r) \/ SpawnFail(r)
      PROVE  Stages'
  BY <1>3 DEF Proceed, Verify, Spawn, SpawnFail
<1>4. ASSUME NEW r \in Runs, TimeoutFires(r) \/ PostKill(r) \/ WaitReturns(r) \/ WaitFail(r)
      PROVE  Stages'
  BY <1>4 DEF TimeoutFires, PostKill, WaitReturns, WaitFail
<1>5. ASSUME NEW r \in Runs, DrainDone(r) \/ DrainTimeout(r) \/ Defuse(r) \/ Release(r)
      PROVE  Stages'
  BY <1>5 DEF DrainDone, DrainTimeout, Defuse, Release
<1>6. ASSUME NEW r \in Runs, Cancel(r) PROVE Stages'
  BY <1>6 DEF Cancel
<1>7. CASE Surroundings
  BY <1>7 DEF Surroundings, DeadlinePasses, Fork, Exit, Checkout, Group
<1>8. CASE UNCHANGED vars
  BY <1>8 DEF vars
<1> QED
  BY <1>2, <1>3, <1>4, <1>5, <1>6, <1>7, <1>8, NextCases DEF Step

LEMMA NextPermits == IInv /\ [Next]_vars => Permits'
<1> SUFFICES ASSUME IInv, [Next]_vars PROVE Permits'
  OBVIOUS
<1>1. /\ Types /\ Types' /\ max' = max /\ max \in Nat /\ active \in Nat /\ peak \in Nat
      /\ Cardinality(In(Holding)) <= max
      /\ active = Cardinality(In(Counted))
      /\ peak <= max
  BY NextTypes DEF IInv, Types, Permits
<1>2. \A S : IsFiniteSet(In(S)) /\ Cardinality(In(S)) \in Nat
  BY InFinite, FS_CardinalityType
<1>3. Cardinality(In(Holding)') <= max => Cardinality(In(Counted)') <= max
  <2>1. In(Counted)' \subseteq In(Holding)'
    BY DEF In, Holding
  <2>2. In(Holding)' \subseteq Runs
    BY DEF In
  <2>3. IsFiniteSet(In(Holding)')
    BY <2>2, RunsAssumption, FS_Subset
  <2>4. /\ Cardinality(In(Counted)') <= Cardinality(In(Holding)')
        /\ Cardinality(In(Counted)') \in Nat /\ Cardinality(In(Holding)') \in Nat
    BY <2>1, <2>3, FS_Subset, FS_CardinalityType
  <2> QED
    BY <1>1, <2>4
<1>4. CASE Kept
  BY <1>1, <1>4 DEF Kept, Permits
<1>5. ASSUME NEW r \in Runs, Started(r) PROVE Permits'
  <2>1. Cardinality(In(Holding) \cup {r}) = Cardinality(In(Holding)) + 1
    BY <1>2, <1>5, FS_AddElement DEF Started
  <2> QED
    BY <1>1, <1>2, <1>5, <2>1 DEF Started, Permits
<1>6. ASSUME NEW r \in Runs, Abandoned(r) PROVE Permits'
  BY <1>1, <1>6 DEF Abandoned, Permits
<1>7. ASSUME NEW r \in Runs, Armed(r) PROVE Permits'
  <2>1. Cardinality(In(Counted) \cup {r}) = Cardinality(In(Counted)) + 1
    BY <1>2, <1>7, FS_AddElement DEF Armed
  <2> QED
    BY <1>1, <1>2, <1>3, <1>7, <2>1 DEF Armed, Permits
<1>8. ASSUME NEW r \in Runs, Disarmed(r) PROVE Permits'
  <2>1. Cardinality(In(Counted) \ {r}) = Cardinality(In(Counted)) - 1
    BY <1>2, <1>8, FS_RemoveElement DEF Disarmed
  <2> QED
    BY <1>1, <1>2, <1>8, <2>1 DEF Disarmed, Permits
<1>9. ASSUME NEW r \in Runs, Finished(r) PROVE Permits'
  <2>1. Cardinality(In(Holding) \ {r}) = Cardinality(In(Holding)) - 1
    BY <1>2, <1>9, FS_RemoveElement DEF Finished
  <2> QED
    BY <1>1, <1>2, <1>9, <2>1 DEF Finished, Permits
<1> QED
  BY <1>1, <1>4, <1>5, <1>6, <1>7, <1>8, <1>9, NextCases, Shapes, SurroundingsKeep

\* Two runs cannot both hold the only permit.
LEMMA OnePermit ==
  ASSUME IInv, max = 1, NEW q \in In(Holding), NEW r \in In(Holding)
  PROVE  q = r
<1>1. IsFiniteSet(In(Holding)) /\ Cardinality(In(Holding)) \in Nat
  BY InFinite, FS_CardinalityType
<1>2. Cardinality(In(Holding)) # 0
  BY <1>1, FS_EmptySet
<1>3. Cardinality(In(Holding)) = 1
  BY <1>1, <1>2 DEF IInv, Permits
<1> QED
  BY <1>1, <1>3, FS_Singleton

LEMMA NextVerified == IInv /\ [Next]_vars => Verified'
<1> SUFFICES ASSUME IInv, [Next]_vars, max = 1, NEW q \in Runs, pc'[q] = "armed"
             PROVE  expects[q] \in {None, head'}
  BY NextTypes DEF Verified
<1>1. pc \in [Runs -> Waiting \cup Holding \cup {"done"}]
  BY DEF IInv, Types
<1>2. pc[q] = "armed" => expects[q] \in {None, head}
  BY DEF IInv, Verified
<1>3. ASSUME NEW r \in Runs, Verify(r) PROVE expects[q] \in {None, head'}
  BY <1>1, <1>2, <1>3 DEF Verify, Goto
<1>4. ASSUME NEW r \in Runs, Enqueue(r) \/ Cancel(r) \/ (Step(r) /\ ~Verify(r))
      PROVE  head' = head /\ pc[q] = "armed"
  BY <1>1, <1>4 DEF Enqueue, Cancel, Step, Acquire, QueueTimeout, Lapse, Proceed, Spawn,
     SpawnFail, TimeoutFires, PostKill, WaitReturns, WaitFail, DrainDone, DrainTimeout,
     Defuse, Release, Goto
<1>5. CASE Surroundings
  <2>1. pc[q] = "armed"
    BY <1>5, SurroundingsKeep
  <2>2. ASSUME NEW r \in Runs, members[r] # {} PROVE FALSE
    <3>1. pc[r] \in {"running", "draining"}
      BY <2>2 DEF IInv, Stages
    <3>2. r \in In(Holding) /\ q \in In(Holding) /\ r # q
      BY <2>1, <3>1 DEF In, Holding, Counted
    <3> QED
      BY <3>2, OnePermit
  <2>3. head' = head
    BY <1>5, <2>2 DEF Surroundings, DeadlinePasses, Fork, Exit, Checkout
  <2> QED
    BY <1>2, <2>1, <2>3
<1>6. CASE UNCHANGED vars
  BY <1>2, <1>6 DEF vars
<1> QED
  BY <1>2, <1>3, <1>4, <1>5, <1>6, NextCases

-----------------------------------------------------------------------------
(* The theorems *)

LEMMA Invariance == Spec => []IInv
<1>1. IInv /\ [Next]_vars => IInv'
  BY NextTypes, NextStages, NextPermits, NextVerified DEF IInv
<1> QED
  BY InitIInv, <1>1, PTL DEF Spec

\* A run without a counted place has no living process: descendants never
\* outlive the run, however it ends.
THEOREM GroupsDieWithRun == Spec => []NothingOutlives
<1>1. IInv => NothingOutlives
  BY DEF IInv, Stages, NothingOutlives, Counted
<1> QED
  BY <1>1, Invariance, PTL

\* At most max_parallel groups have a living process.
THEOREM GroupsAreBounded == Spec => []GroupsBounded
<1>1. IInv => GroupsBounded
  <2> SUFFICES ASSUME IInv PROVE GroupsBounded
    OBVIOUS
  <2> DEFINE Alive == {r \in Runs : members[r] # {}}
  <2>1. Alive \subseteq In(Holding)
    BY DEF IInv, Stages, In, Holding, Counted
  <2>2. IsFiniteSet(In(Holding)) /\ Cardinality(In(Holding)) \in Nat
    BY InFinite, FS_CardinalityType
  <2>3. Cardinality(Alive) <= Cardinality(In(Holding)) /\ Cardinality(Alive) \in Nat
    BY <2>1, <2>2, FS_Subset, FS_CardinalityType
  <2> HIDE DEF Alive
  <2>4. Cardinality(Alive) <= max
    BY <2>2, <2>3 DEF IInv, Permits, Types
  <2> QED
    BY <2>4 DEF Alive, GroupsBounded
<1> QED
  BY <1>1, Invariance, PTL

\* The counters are right after any sequence of ends, failures and drops.
THEOREM CountersAreRight == Spec => []AccountingHolds
<1>1. IInv => AccountingHolds
  BY DEF IInv, Permits, AccountingHolds
<1> QED
  BY <1>1, Invariance, PTL

\* The output of a run reported as ended was not cut off by the supervisor.
THEOREM EndedOutputComplete == Spec => []CompleteOutput
<1>1. IInv => CompleteOutput
  BY DEF IInv, Stages, CompleteOutput
<1> QED
  BY <1>1, Invariance, PTL

\* With one permit every command starts on the branch it was checked on.
THEOREM CommandsStartOnBranch == Spec => StartsOnBranch
<1>1. ASSUME IInv, [Next]_vars, max = 1,
             NEW r \in Runs, members[r] = {}, members'[r] # {}
      PROVE  expects[r] \in {None, head}
  <2>1. ASSUME NEW q \in Runs, Spawn(q) PROVE expects[r] \in {None, head}
    BY <1>1, <2>1 DEF Spawn, Goto, IInv, Types, Verified
  <2>2. ASSUME NEW q \in Runs, Enqueue(q) \/ Cancel(q) \/ (Step(q) /\ ~Spawn(q))
        PROVE FALSE
    BY <1>1, <2>2 DEF Enqueue, Cancel, Step, Acquire, QueueTimeout, Lapse, Proceed,
       Verify, SpawnFail, TimeoutFires, PostKill, WaitReturns, WaitFail, DrainDone,
       DrainTimeout, Defuse, Release, KillGroup, IInv, Types
  <2>3. CASE Surroundings
    BY <1>1, <2>3 DEF Surroundings, DeadlinePasses, Fork, Exit, Checkout, IInv, Types
  <2>4. CASE UNCHANGED vars
    BY <1>1, <2>4 DEF vars
  <2> QED
    BY <1>1, <2>1, <2>2, <2>3, <2>4, NextCases
<1>2. IInv /\ [Next]_vars =>
        [max = 1 =>
           \A r \in Runs : members[r] = {} /\ members'[r] # {} =>
             expects[r] \in {None, head}]_vars
  BY <1>1
<1> QED
  BY <1>2, Invariance, PTL DEF StartsOnBranch, Spec

\* Seen through the places of its runs the supervisor is a pool.
THEOREM SupervisorIsPool == Spec => ImplementsPool
<1>1. Init => Pool!Init
  <2> SUFFICES ASSUME Init PROVE Pool!Init
    OBVIOUS
  <2>1. max \in Nat \ {0}
    BY InitIInv DEF IInv, Types
  <2> QED
    BY <2>1 DEF Init, Pool!Init, In, Waiting, Holding, Counted
<1>2. IInv /\ [Next]_vars => [Pool!Next]_(Pool!poolVars)
  <2> SUFFICES ASSUME IInv, [Next]_vars PROVE [Pool!Next]_(Pool!poolVars)
    OBVIOUS
  <2>1. max' = max
    BY NextTypes
  <2>2. CASE Kept
    BY <2>1, <2>2 DEF Kept, Pool!poolVars
  <2>3. ASSUME NEW r \in Runs, Started(r) PROVE Pool!Next
    <3>1. Pool!Start(r)
      BY <2>1, <2>3, Zenon DEF Started, Pool!Start, Pool!Cardinality, Cardinality
    <3> QED
      BY <3>1 DEF Pool!Next
  <2>4. ASSUME NEW r \in Runs, Abandoned(r) PROVE Pool!Next
    BY <2>1, <2>4 DEF Abandoned, Pool!Next, Pool!Abandon
  <2>5. ASSUME NEW r \in Runs, Armed(r) \/ Disarmed(r) PROVE UNCHANGED Pool!poolVars
    BY <2>1, <2>5 DEF Armed, Disarmed, Pool!poolVars
  <2>6. ASSUME NEW r \in Runs, Finished(r) PROVE Pool!Next
    BY <2>1, <2>6 DEF Finished, Pool!Next, Pool!Finish
  <2>7. Types
    BY DEF IInv
  <2> QED
    BY <2>2, <2>3, <2>4, <2>5, <2>6, <2>7, NextCases, Shapes, SurroundingsKeep
<1> QED
  BY <1>1, <1>2, Invariance, PTL DEF Spec, ImplementsPool, Pool!Spec

=============================================================================
