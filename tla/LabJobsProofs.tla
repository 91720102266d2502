---------------------------- MODULE LabJobsProofs ----------------------------
(***************************************************************************)
(* Proofs about LabJobs for any set of processes and job ids and any       *)
(* number of timeouts, whatever dies and whatever the store refuses.       *)
(***************************************************************************)
EXTENDS LabJobs, TLAPS

-----------------------------------------------------------------------------
(* Types *)

LEMMA InitTypeOK == Init => TypeOK
  BY BoundsAssumption
  DEF Init, TypeOK, NoJob, Records, Locations, TeardownAt

\* One step of any kind keeps every variable in its type.
LEMMA NextTypeOK == TypeOK /\ [Next]_vars => TypeOK'
<1> SUFFICES ASSUME TypeOK, [Next]_vars PROVE TypeOK'
  OBVIOUS
<1> USE NoneAssumption, BoundsAssumption
    DEF TypeOK, Records, Present, NoJob, Locations, AllocateAt, TeardownAt,
        Goto, Begin, End, Leave, PutRecord, history
<1>1. ASSUME NEW p \in Procs, NEW id \in JobIds, Reserve(p, id) PROVE TypeOK'
  BY <1>1 DEF Reserve
<1>2. ASSUME NEW p \in Procs, NEW id \in JobIds, Lookup(p, id) PROVE TypeOK'
  BY <1>2 DEF Lookup
<1>3. ASSUME NEW p \in Procs, CheckPath(p) PROVE TypeOK'
  BY <1>3 DEF CheckPath
<1>4. ASSUME NEW p \in Procs, CreateOk(p) PROVE TypeOK'
  BY <1>4 DEF CreateOk
<1>5. ASSUME NEW p \in Procs, CreateFail(p) PROVE TypeOK'
  BY <1>5 DEF CreateFail
<1>6. ASSUME NEW p \in Procs, CreateTimeout(p) PROVE TypeOK'
  BY <1>6 DEF CreateTimeout, GitChildren
<1>7. ASSUME NEW p \in Procs, Commit(p) PROVE TypeOK'
  BY <1>7 DEF Commit
<1>8. ASSUME NEW p \in Procs,
             UndoOk(p) \/ UndoFail(p) \/ UndoTimeout(p)
             \/ CommitFails(p) \/ LastWriteFails(p)
      PROVE  TypeOK'
  BY <1>8 DEF UndoOk, UndoFail, UndoTimeout, CommitFails, LastWriteFails, GitChildren
<1>9. ASSUME NEW p \in Procs, Drop(p) PROVE TypeOK'
  BY <1>9 DEF Drop
<1>10. ASSUME NEW p \in Procs, RemoveOk(p) PROVE TypeOK'
  BY <1>10 DEF RemoveOk
<1>11. ASSUME NEW p \in Procs, RemoveFail(p) PROVE TypeOK'
  BY <1>11 DEF RemoveFail
<1>12. ASSUME NEW p \in Procs, RemoveTimeout(p) PROVE TypeOK'
  BY <1>12 DEF RemoveTimeout, GitChildren
<1>13. ASSUME NEW p \in Procs, CheckGone(p) PROVE TypeOK'
  BY <1>13 DEF CheckGone
<1>14. ASSUME NEW p \in Procs, Tombstone(p) PROVE TypeOK'
  BY <1>14 DEF Tombstone
<1>15. ASSUME LateGit PROVE TypeOK'
  BY <1>15 DEF LateGit, GitChildren
<1>16. ASSUME NEW p \in Procs, Crash(p) PROVE TypeOK'
  BY <1>16 DEF Crash
<1>17. CASE UNCHANGED vars
  BY <1>17 DEF vars
<1>18. QED
  BY <1>1, <1>2, <1>3, <1>4, <1>5, <1>6, <1>7, <1>8, <1>9, <1>10, <1>11,
     <1>12, <1>13, <1>14, <1>15, <1>16, <1>17
  DEF Next, Step

\* Every state of the protocol is well typed.
THEOREM TypeCorrect == Spec => []TypeOK
  BY InitTypeOK, NextTypeOK, PTL DEF Spec

-----------------------------------------------------------------------------
(* Reservations *)

\* What is inductive about the reservation protocol: ReservationHeld, with
\* the fact it rests on for ids handed out (a granted id is past PENDING).
ReservationInv ==
  /\ ReservationHeld
  /\ AtMostOneGrant
  /\ \A g \in granted : store[g[2]].status \in {"allocated", "torn_down"}

LEMMA InitReservation == Init => ReservationInv
  BY DEF Init, ReservationInv, ReservationHeld, AtMostOneGrant, AllocateAt

\* A reservation has one holder.
LEMMA PendingHolder ==
  ASSUME ReservationHeld, NEW p \in Procs, pc[p] \in AllocateAt,
         store[job[p]].status = "pending"
  PROVE  /\ store[job[p]].agent = p
         /\ \A q \in Procs : pc[q] \in AllocateAt /\ job[q] = job[p] => q = p
<1>1. ASSUME NEW q \in Procs, pc[q] \in AllocateAt, job[q] = job[p]
      PROVE  store[job[p]].agent = q
  <2>1. store[job[q]] = [status |-> "pending", agent |-> q]
    BY <1>1 DEF ReservationHeld
  <2>2. QED
    BY <1>1, <2>1
<1>2. QED
  BY <1>1

\* The steps that write the registry.  Reserve writes an absent record, so
\* no caller in allocate is on that id; Commit and Drop write only a record
\* that ReservationHeld shows to be the caller's own; Tombstone writes what
\* ReservationHeld allows.
LEMMA StoreStepReservation ==
  ASSUME TypeOK, TypeOK', ReservationInv, NEW p \in Procs,
         \/ \E id \in JobIds : Reserve(p, id)
         \/ Commit(p) \/ Drop(p) \/ Tombstone(p)
  PROVE  ReservationInv'
<1> USE DEF ReservationInv, ReservationHeld, AtMostOneGrant, TypeOK, Records,
        Present, NoJob, Locations, AllocateAt, TeardownAt,
        Goto, Begin, End, Leave, PutRecord
<1>1. CASE \E id \in JobIds : Reserve(p, id)
  BY <1>1 DEF Reserve
<1>2. CASE Commit(p)
  <2>1. \A q \in Procs : pc[q] \in AllocateAt /\ job[q] = job[p] => q = p
    BY <1>2, PendingHolder DEF Commit
  <2>2. ReservationHeld'
    BY <1>2, <2>1 DEF Commit
  <2>3. \A g \in granted : g[2] # job[p]
    BY <1>2 DEF Commit
  <2>4. /\ job[p] \in JobIds
        /\ store'[job[p]].status = "allocated"
        /\ \A id \in JobIds : id # job[p] => store'[id] = store[id]
        /\ granted' = granted \cup {<<p, job[p]>>}
    BY <1>2 DEF Commit
  <2>5. QED
    BY <2>2, <2>3, <2>4
<1>3. CASE Drop(p)
  <2>1. CASE store[job[p]].status = "pending"
    <3>1. \A q \in Procs : pc[q] \in AllocateAt /\ job[q] = job[p] => q = p
      BY <1>3, <2>1, PendingHolder DEF Drop
    <3>2. QED
      BY <1>3, <2>1, <3>1 DEF Drop
  <2>2. CASE store[job[p]].status # "pending"
    BY <1>3, <2>2 DEF Drop
  <2>3. QED
    BY <2>1, <2>2
<1>4. CASE Tombstone(p)
  BY <1>4 DEF Tombstone
<1>5. QED
  BY <1>1, <1>2, <1>3, <1>4

\* The other steps leave the registry alone, and move nobody into allocate.
LEMMA OtherStepReservation ==
  ASSUME TypeOK, ReservationInv, NEW p \in Procs,
         \/ CheckPath(p) \/ CreateOk(p) \/ CreateFail(p) \/ CreateTimeout(p)
         \/ UndoOk(p) \/ UndoFail(p) \/ UndoTimeout(p)
             \/ CommitFails(p) \/ LastWriteFails(p)
         \/ RemoveOk(p) \/ RemoveFail(p) \/ RemoveTimeout(p)
         \/ CheckGone(p) \/ Crash(p) \/ LateGit
         \/ \E id \in JobIds : Lookup(p, id)
  PROVE  ReservationInv'
<1>1. /\ store' = store
      /\ granted' = granted
      /\ \A q \in Procs : pc'[q] \in AllocateAt =>
           pc[q] \in AllocateAt /\ job'[q] = job[q]
  BY DEF CheckPath, CreateOk, CreateFail, CreateTimeout, UndoOk, UndoFail,
      UndoTimeout, CommitFails, LastWriteFails, RemoveOk,
         RemoveFail, RemoveTimeout, CheckGone, Crash, LateGit, Lookup,
         TypeOK, Goto, Begin, End, Leave, AllocateAt
<1>2. QED
  BY <1>1 DEF ReservationInv, ReservationHeld, AtMostOneGrant

LEMMA NextReservation ==
  TypeOK /\ TypeOK' /\ ReservationInv /\ [Next]_vars => ReservationInv'
<1> SUFFICES ASSUME TypeOK, TypeOK', ReservationInv, [Next]_vars
             PROVE  ReservationInv'
  OBVIOUS
<1>1. CASE LateGit
  BY <1>1 DEF LateGit, ReservationInv, ReservationHeld, AtMostOneGrant
<1>2. CASE UNCHANGED vars
  BY <1>2 DEF vars, ReservationInv, ReservationHeld, AtMostOneGrant
<1>3. QED
  BY <1>1, <1>2, StoreStepReservation, OtherStepReservation DEF Next, Step

\* Whatever crashes or times out, the record of an allocate in progress is
\* its own reservation or a tombstone, and no job id is granted twice.
THEOREM ReservationsSafe == Spec => [](ReservationHeld /\ AtMostOneGrant)
<1>1. Spec => []ReservationInv
  BY TypeCorrect, InitReservation, NextReservation, PTL DEF Spec
<1>2. ReservationInv => ReservationHeld /\ AtMostOneGrant
  BY DEF ReservationInv
<1>3. QED
  BY <1>1, <1>2, PTL

-----------------------------------------------------------------------------
(* Tombstones *)

LEMMA NextTombstone ==
  ASSUME TypeOK, [Next]_vars, NEW id \in JobIds,
         store[id].status = "torn_down"
  PROVE  store'[id].status = "torn_down"
<1> USE DEF TypeOK, NoJob, Records, Present, PutRecord
<1>1. ASSUME NEW p \in Procs, NEW i \in JobIds, Reserve(p, i)
      PROVE  store'[id].status = "torn_down"
  BY <1>1 DEF Reserve
<1>2. ASSUME NEW p \in Procs, Commit(p)
      PROVE  store'[id].status = "torn_down"
  BY <1>2 DEF Commit
<1>3. ASSUME NEW p \in Procs, Drop(p)
      PROVE  store'[id].status = "torn_down"
  BY <1>3 DEF Drop
<1>4. ASSUME NEW p \in Procs, Tombstone(p)
      PROVE  store'[id].status = "torn_down"
  BY <1>4 DEF Tombstone
<1>5. CASE store' = store
  BY <1>5
<1>6. QED
  BY <1>1, <1>2, <1>3, <1>4, <1>5
  DEF Next, Step, vars, CheckPath, CreateOk, CreateFail, CreateTimeout, UndoOk, UndoFail,
      UndoTimeout, CommitFails, LastWriteFails,
      RemoveOk, RemoveFail, RemoveTimeout, CheckGone, Crash, LateGit, Lookup

\* No step of any process replaces a tombstone by anything else.
THEOREM TombstonesStay == Spec => TombstonePermanent
<1>1. TypeOK /\ [Next]_vars =>
        [\A id \in JobIds :
           store[id].status = "torn_down" => store'[id].status = "torn_down"]_store
  BY NextTombstone
<1>2. QED
  BY <1>1, TypeCorrect, PTL DEF Spec, TombstonePermanent

-----------------------------------------------------------------------------
(* The protocol implements the registry *)

LEMMA InitRefines == Init => Registry!Init
  BY DEF Init, NoJob, Registry!Init

LEMMA RegistryStep ==
  ASSUME NEW p \in Procs, NEW id \in JobIds,
         \/ Registry!Reserve(p, id) \/ Registry!Grant(p, id)
         \/ Registry!Release(p, id) \/ Registry!Retire(id)
  PROVE  Registry!Next
  BY DEF Registry!Next

\* Reserve, the successful Commit, the effective Drop and Tombstone are the
\* registry's four actions; every other step leaves its variables alone.
LEMMA NextRefines ==
  ASSUME TypeOK, TypeOK', ReservationInv, [Next]_vars
  PROVE  [Registry!Next]_(Registry!vars)
<1> DEFINE State == [id \in JobIds |-> store[id].status]
           Holder == [id \in JobIds |->
                        IF store[id].status \in {"pending", "allocated"}
                        THEN store[id].agent ELSE None]
<1> USE DEF TypeOK, NoJob, Records, Present, PutRecord, Registry!Become
<1>1. ASSUME NEW p \in Procs, NEW id \in JobIds, Reserve(p, id)
      PROVE  Registry!Reserve(p, id)
  <2>1. /\ store' = [store EXCEPT ![id] = [status |-> "pending", agent |-> p]]
        /\ store[id].status = "absent"
        /\ granted' = granted
    BY <1>1 DEF Reserve
  <2>2. State' = [State EXCEPT ![id] = "pending"]
    BY <2>1
  <2>3. Holder' = [Holder EXCEPT ![id] = p]
    BY <2>1
  <2>4. QED
    BY <2>1, <2>2, <2>3 DEF Registry!Reserve
<1>2. ASSUME NEW p \in Procs, NEW id \in JobIds, id = job[p], Commit(p)
      PROVE  Registry!Grant(p, id)
  <2>1. store[id].agent = p
    BY <1>2, PendingHolder DEF Commit, End, ReservationInv, AllocateAt
  <2>2. \A g \in granted : g[2] # id
    BY <1>2 DEF Commit, ReservationInv
  <2>3. /\ store[id].status = "pending"
        /\ store' = [store EXCEPT ![id] = [status |-> "allocated", agent |-> p]]
        /\ granted' = granted \cup {<<p, id>>}
    BY <1>2 DEF Commit
  <2>4. State' = [State EXCEPT ![id] = "allocated"]
    BY <2>1, <2>3
  <2>5. Holder' = [Holder EXCEPT ![id] = p]
    BY <2>1, <2>3
  <2>6. QED
    BY <2>1, <2>2, <2>3, <2>4, <2>5 DEF Registry!Grant
<1>3. ASSUME NEW p \in Procs, NEW id \in JobIds, id = job[p], Drop(p)
      PROVE  Registry!Release(p, id) \/ UNCHANGED Registry!vars
  <2>1. CASE store[id].status # "pending"
    BY <1>3, <2>1 DEF Drop, Registry!vars
  <2>2. CASE store[id].status = "pending"
    <3>1. store[id].agent = p
      BY <1>3, <2>2, PendingHolder DEF Drop, End, ReservationInv, AllocateAt
    <3>2. store' = [store EXCEPT ![id] = NoJob] /\ granted' = granted
      BY <1>3, <2>2 DEF Drop
    <3>3. State' = [State EXCEPT ![id] = "absent"]
      BY <3>1, <3>2
    <3>4. Holder' = [Holder EXCEPT ![id] = None]
      BY <3>1, <3>2
    <3>5. QED
      BY <2>2, <3>1, <3>2, <3>3, <3>4 DEF Registry!Release
  <2>3. QED
    BY <2>1, <2>2
<1>4. ASSUME NEW p \in Procs, NEW id \in JobIds, id = job[p], Tombstone(p)
      PROVE  Registry!Retire(id) \/ UNCHANGED Registry!vars
  <2>1. /\ store' = [store EXCEPT ![id] =
                       [status |-> "torn_down", agent |-> snap[p].agent]]
        /\ granted' = granted
    BY <1>4 DEF Tombstone, End
  <2>2. State' = [State EXCEPT ![id] = "torn_down"]
    BY <2>1
  <2>3. Holder' = [Holder EXCEPT ![id] = None]
    BY <2>1
  <2>4. CASE store[id].status = "torn_down"
    BY <2>1, <2>2, <2>3, <2>4 DEF Registry!vars
  <2>5. CASE store[id].status # "torn_down"
    BY <2>1, <2>2, <2>3, <2>5 DEF Registry!Retire
  <2>6. QED
    BY <2>4, <2>5
<1>5. CASE store' = store /\ granted' = granted
  BY <1>5 DEF Registry!vars
<1>6. \/ \E p \in Procs, id \in JobIds : Reserve(p, id)
      \/ \E p \in Procs : Commit(p) \/ Drop(p) \/ Tombstone(p)
      \/ store' = store /\ granted' = granted
  BY DEF Next, Step, vars, CheckPath, CreateOk, CreateFail, CreateTimeout,
         UndoOk, UndoFail,
      UndoTimeout, CommitFails, LastWriteFails, RemoveOk, RemoveFail, RemoveTimeout, CheckGone, Crash, LateGit,
         Lookup
<1>7. ASSUME NEW p \in Procs, Commit(p) \/ Drop(p) \/ Tombstone(p)
      PROVE  job[p] \in JobIds
  BY <1>7 DEF Commit, Drop, Tombstone, End
<1>8. CASE \E p \in Procs, id \in JobIds : Reserve(p, id)
  BY <1>1, <1>8, RegistryStep
<1>9. ASSUME NEW p \in Procs, Commit(p) \/ Drop(p) \/ Tombstone(p)
      PROVE  Registry!Next \/ UNCHANGED Registry!vars
  <2>1. PICK id \in JobIds : id = job[p]
    BY <1>7, <1>9
  <2>2. \/ Registry!Grant(p, id) \/ Registry!Release(p, id)
        \/ Registry!Retire(id) \/ UNCHANGED Registry!vars
    BY <1>2, <1>3, <1>4, <1>9, <2>1
  <2>3. QED
    BY <2>2, RegistryStep
<1>10. QED
  BY <1>5, <1>6, <1>8, <1>9

\* The lock-protected store and the unlocked multi-step manager together
\* implement the atomic registry: whatever interleaving, crash or timeout.
THEOREM RegistryImplemented == Spec => ImplementsRegistry
<1>1. Spec => []ReservationInv
  BY TypeCorrect, InitReservation, NextReservation, PTL DEF Spec
<1>2. QED
  BY <1>1, TypeCorrect, InitRefines, NextRefines, PTL
  DEF Spec, ImplementsRegistry, Registry!Spec

-----------------------------------------------------------------------------
(* Worktrees *)

\* One allocate at a time is at work on an id.
OneHolder ==
  \A p, q \in Procs :
    /\ pc[p] \in AllocateAt /\ pc[q] \in AllocateAt
    /\ job[p] = job[q]
    => p = q

\* A teardown works on an id that is in `early` or past PENDING for good.
TeardownLate ==
  \A p \in Procs : pc[p] \in TeardownAt =>
    \/ job[p] \in early
    \/ store[job[p]].status \in {"allocated", "torn_down"}

\* Only an early teardown takes the reservation from a running allocate.
LostReservation ==
  \A p \in Procs :
    pc[p] \in AllocateAt /\ store[job[p]].status = "torn_down"
    => job[p] \in early

OwnershipInv == OneHolder /\ TeardownLate /\ LostReservation

NoLateGit == timeouts = 0 => late = {}

\* Before its create, and after a create that failed or was undone, an
\* allocate finds nothing at its path; neither does a teardown after its
\* removal.
PathFree ==
  timeouts = 0 => \A p \in Procs :
    /\ pc[p] \in {"check", "create", "drop", "tomb"}
    /\ job[p] \notin early \cup unremoved
    => disk[job[p]] = None

OwnTree ==
  timeouts = 0 => \A p \in Procs :
    pc[p] \in {"commit", "undo"} => disk[job[p]] \in {p, None}

\* A tree about to be committed is there, or its removal is under way.
CommitTree ==
  timeouts = 0 => \A p \in Procs : pc[p] = "commit" =>
    \/ job[p] \in cut
    \/ disk[job[p]] = p
    \/ store[job[p]].status = "torn_down"
    \/ \E q \in Procs : pc[q] = "tomb" /\ job[q] = job[p]

DiskInv ==
  /\ NoLateGit /\ PathFree /\ OwnTree /\ CommitTree
  /\ UndoRemovesOwn /\ AllocatedHasTree /\ TreeTracked

LEMMA InitTrees == Init => OwnershipInv /\ DiskInv
  BY DEF Init, NoJob, OwnershipInv, OneHolder, TeardownLate, LostReservation,
         DiskInv, NoLateGit, PathFree, OwnTree, CommitTree,
         UndoRemovesOwn, AllocatedHasTree, TreeTracked, AllocateAt, TeardownAt

LEMMA HeldStatus ==
  ASSUME ReservationHeld, NEW p \in Procs, pc[p] \in AllocateAt
  PROVE  store[job[p]].status \in {"pending", "torn_down"}
<1>1. CASE store[job[p]] = [status |-> "pending", agent |-> p]
  BY <1>1
<1>2. CASE store[job[p]].status = "torn_down"
  BY <1>2
<1>3. QED
  BY <1>1, <1>2 DEF ReservationHeld

LEMMA NextOwnership ==
  ASSUME TypeOK, TypeOK', ReservationInv, OwnershipInv, [Next]_vars
  PROVE  OwnershipInv'
<1> USE DEF OwnershipInv, OneHolder, TeardownLate, LostReservation,
        ReservationInv, ReservationHeld, TypeOK, Records,
        Present, NoJob, AllocateAt, TeardownAt, Locations,
        Goto, Begin, End, Leave, PutRecord, history
<1>1. ASSUME NEW p \in Procs, NEW id \in JobIds, Reserve(p, id) PROVE OwnershipInv'
  <2>1. OneHolder'
    <3>1. \A q \in Procs : pc[q] \in AllocateAt => job[q] # id
      BY <1>1, HeldStatus DEF Reserve
    <3>2. QED
      BY <1>1, <3>1 DEF Reserve
  <2>2. TeardownLate'
    BY <1>1 DEF Reserve
  <2>3. LostReservation'
    BY <1>1 DEF Reserve
  <2>4. QED
    BY <2>1, <2>2, <2>3 DEF OwnershipInv
<1>2. ASSUME NEW p \in Procs, NEW id \in JobIds, Lookup(p, id) PROVE OwnershipInv'
  BY <1>2 DEF Lookup
<1>3. ASSUME NEW p \in Procs, CheckPath(p) PROVE OwnershipInv'
  BY <1>3 DEF CheckPath
<1>4. ASSUME NEW p \in Procs, CreateOk(p) PROVE OwnershipInv'
  BY <1>4 DEF CreateOk
<1>5. ASSUME NEW p \in Procs, CreateFail(p) PROVE OwnershipInv'
  BY <1>5 DEF CreateFail
<1>6. ASSUME NEW p \in Procs, CreateTimeout(p) PROVE OwnershipInv'
  BY <1>6 DEF CreateTimeout
<1>7. ASSUME NEW p \in Procs, Commit(p) PROVE OwnershipInv'
  <2>1. OneHolder'
    BY <1>7 DEF Commit
  <2>2. TeardownLate'
    BY <1>7 DEF Commit
  <2>3. LostReservation'
    BY <1>7 DEF Commit
  <2>4. QED
    BY <2>1, <2>2, <2>3 DEF OwnershipInv
<1>8. ASSUME NEW p \in Procs,
             UndoOk(p) \/ UndoFail(p) \/ UndoTimeout(p)
             \/ CommitFails(p) \/ LastWriteFails(p)
      PROVE  OwnershipInv'
  <2>1. CASE UndoOk(p)
    BY <2>1 DEF UndoOk
  <2>2. CASE UndoFail(p)
    BY <2>2 DEF UndoFail
  <2>3. CASE UndoTimeout(p)
    BY <2>3 DEF UndoTimeout, GitChildren
  <2>4. CASE CommitFails(p)
    BY <2>4 DEF CommitFails
  <2>5. CASE LastWriteFails(p)
    BY <2>5 DEF LastWriteFails
  <2>6. QED
    BY <1>8, <2>1, <2>2, <2>3, <2>4, <2>5
<1>9. ASSUME NEW p \in Procs, Drop(p) PROVE OwnershipInv'
  BY <1>9 DEF Drop
<1>10. ASSUME NEW p \in Procs, RemoveOk(p) PROVE OwnershipInv'
  BY <1>10 DEF RemoveOk
<1>11. ASSUME NEW p \in Procs, RemoveFail(p) PROVE OwnershipInv'
  BY <1>11 DEF RemoveFail
<1>12. ASSUME NEW p \in Procs, RemoveTimeout(p) PROVE OwnershipInv'
  BY <1>12 DEF RemoveTimeout
<1>13. ASSUME NEW p \in Procs, CheckGone(p) PROVE OwnershipInv'
  BY <1>13 DEF CheckGone
<1>14. ASSUME NEW p \in Procs, Tombstone(p) PROVE OwnershipInv'
  <2>1. OneHolder'
    BY <1>14 DEF Tombstone
  <2>2. TeardownLate'
    BY <1>14 DEF Tombstone
  <2>3. LostReservation'
    <3>1. ASSUME NEW q \in Procs, pc[q] \in AllocateAt, job[q] = job[p]
          PROVE  job[p] \in early
      <4>1. CASE store[job[p]].status \in {"allocated", "torn_down"}
        <5>1. store[job[q]].status = "torn_down"
          BY <3>1, <4>1, HeldStatus
        <5>2. QED
          BY <3>1, <5>1
      <4>2. QED
        BY <1>14, <4>1 DEF Tombstone
    <3>2. QED
      BY <1>14, <3>1 DEF Tombstone
  <2>4. QED
    BY <2>1, <2>2, <2>3 DEF OwnershipInv
<1>15. ASSUME NEW p \in Procs, Crash(p) PROVE OwnershipInv'
  BY <1>15 DEF Crash
<1>16. CASE LateGit
  BY <1>16 DEF LateGit
<1>17. CASE UNCHANGED vars
  BY <1>17 DEF vars
<1>18. QED
  BY <1>1, <1>2, <1>3, <1>4, <1>5, <1>6, <1>7, <1>8, <1>9, <1>10, <1>11, <1>12, <1>13, <1>14, <1>15, <1>16, <1>17
  DEF Next, Step

LEMMA NextDisk ==
  ASSUME TypeOK, TypeOK', ReservationInv, OwnershipInv, DiskInv, [Next]_vars
  PROVE  DiskInv'
<1> USE NoneAssumption
    DEF DiskInv, NoLateGit, PathFree, OwnTree, CommitTree,
        UndoRemovesOwn, AllocatedHasTree, TreeTracked,
        OwnershipInv, OneHolder, TeardownLate, LostReservation,
        ReservationInv, ReservationHeld, TypeOK, Records, Present, NoJob,
        AllocateAt, TeardownAt, Locations, Goto, Begin, End, Leave, PutRecord,
        history
<1>1. ASSUME NEW p \in Procs, NEW id \in JobIds, Reserve(p, id) PROVE DiskInv'
  BY <1>1 DEF Reserve
<1>2. ASSUME NEW p \in Procs, NEW id \in JobIds, Lookup(p, id) PROVE DiskInv'
  BY <1>2 DEF Lookup
<1>3. ASSUME NEW p \in Procs, CheckPath(p) PROVE DiskInv'
  BY <1>3 DEF CheckPath
<1>4. ASSUME NEW p \in Procs, CreateOk(p) PROVE DiskInv'
  <2>1. NoLateGit'
    BY <1>4 DEF CreateOk
  <2>2. PathFree'
    <3>1. ASSUME job[p] \notin early, NEW q \in Procs, job[q] = job[p],
                 pc[q] \in AllocateAt \cup {"tomb"}
          PROVE  q = p
      <4>1. store[job[p]].status = "pending"
        BY <1>4, <3>1, HeldStatus DEF CreateOk
      <4>2. pc[q] # "tomb"
        BY <3>1, <4>1
      <4>3. QED
        BY <1>4, <3>1, <4>2 DEF CreateOk
    <3>2. QED
      BY <1>4, <3>1 DEF CreateOk
  <2>3. OwnTree'
    BY <1>4 DEF CreateOk
  <2>4. CommitTree'
    BY <1>4 DEF CreateOk
  <2>5. UndoRemovesOwn'
    BY <1>4 DEF CreateOk
  <2>6. AllocatedHasTree'
    BY <1>4 DEF CreateOk
  <2>7. TreeTracked'
    <3>1. job[p] \notin early => store[job[p]].status = "pending"
      BY <1>4, HeldStatus DEF CreateOk
    <3>2. QED
      BY <1>4, <3>1 DEF CreateOk
  <2>8. QED
    BY <2>1, <2>2, <2>3, <2>4, <2>5, <2>6, <2>7 DEF DiskInv
<1>5. ASSUME NEW p \in Procs, CreateFail(p) PROVE DiskInv'
  BY <1>5 DEF CreateFail
<1>6. ASSUME NEW p \in Procs, CreateTimeout(p) PROVE DiskInv'
  BY <1>6 DEF CreateTimeout
<1>7. ASSUME NEW p \in Procs, Commit(p) PROVE DiskInv'
  <2>1. NoLateGit'
    BY <1>7 DEF Commit
  <2>2. PathFree'
    BY <1>7 DEF Commit
  <2>3. OwnTree'
    BY <1>7 DEF Commit
  <2>4. CommitTree'
    BY <1>7 DEF Commit
  <2>5. UndoRemovesOwn'
    BY <1>7 DEF Commit
  <2>6. AllocatedHasTree'
    BY <1>7 DEF Commit
  <2>7. TreeTracked'
    BY <1>7 DEF Commit
  <2>8. QED
    BY <2>1, <2>2, <2>3, <2>4, <2>5, <2>6, <2>7 DEF DiskInv
<1>8. ASSUME NEW p \in Procs,
             UndoOk(p) \/ UndoFail(p) \/ UndoTimeout(p)
             \/ CommitFails(p) \/ LastWriteFails(p)
      PROVE  DiskInv'
  <2>1. CASE UndoOk(p)
    BY <2>1, HeldStatus DEF UndoOk
  <2>2. CASE UndoFail(p)
    BY <2>2 DEF UndoFail
  <2>3. CASE UndoTimeout(p)
    BY <2>3 DEF UndoTimeout, GitChildren
  <2>4. CASE CommitFails(p)
    BY <2>4 DEF CommitFails
  <2>5. CASE LastWriteFails(p)
    BY <2>5 DEF LastWriteFails
  <2>6. QED
    BY <1>8, <2>1, <2>2, <2>3, <2>4, <2>5
<1>9. ASSUME NEW p \in Procs, Drop(p) PROVE DiskInv'
  <2>1. NoLateGit'
    BY <1>9 DEF Drop
  <2>2. PathFree'
    BY <1>9 DEF Drop
  <2>3. OwnTree'
    BY <1>9 DEF Drop
  <2>4. CommitTree'
    BY <1>9 DEF Drop
  <2>5. UndoRemovesOwn'
    BY <1>9 DEF Drop
  <2>6. AllocatedHasTree'
    BY <1>9 DEF Drop
  <2>7. TreeTracked'
    BY <1>9 DEF Drop
  <2>8. QED
    BY <2>1, <2>2, <2>3, <2>4, <2>5, <2>6, <2>7 DEF DiskInv
<1>10. ASSUME NEW p \in Procs, RemoveOk(p) PROVE DiskInv'
  BY <1>10 DEF RemoveOk
<1>11. ASSUME NEW p \in Procs, RemoveFail(p) PROVE DiskInv'
  BY <1>11 DEF RemoveFail
<1>12. ASSUME NEW p \in Procs, RemoveTimeout(p) PROVE DiskInv'
  BY <1>12 DEF RemoveTimeout
<1>13. ASSUME NEW p \in Procs, CheckGone(p) PROVE DiskInv'
  <2>1. NoLateGit'
    BY <1>13 DEF CheckGone
  <2>2. PathFree'
    BY <1>13 DEF CheckGone
  <2>3. OwnTree'
    BY <1>13 DEF CheckGone
  <2>4. CommitTree'
    BY <1>13 DEF CheckGone
  <2>5. UndoRemovesOwn'
    BY <1>13 DEF CheckGone
  <2>6. AllocatedHasTree'
    BY <1>13 DEF CheckGone
  <2>7. TreeTracked'
    BY <1>13 DEF CheckGone
  <2>8. QED
    BY <2>1, <2>2, <2>3, <2>4, <2>5, <2>6, <2>7 DEF DiskInv
<1>14. ASSUME NEW p \in Procs, Tombstone(p) PROVE DiskInv'
  BY <1>14 DEF Tombstone
<1>15. ASSUME NEW p \in Procs, Crash(p) PROVE DiskInv'
  BY <1>15 DEF Crash
<1>16. CASE LateGit
  BY <1>16 DEF LateGit
<1>17. CASE UNCHANGED vars
  BY <1>17 DEF vars
<1>18. QED
  BY <1>1, <1>2, <1>3, <1>4, <1>5, <1>6, <1>7, <1>8, <1>9, <1>10, <1>11, <1>12, <1>13, <1>14, <1>15, <1>16, <1>17
  DEF Next, Step

\* As long as no `wh` call timed out, allocate's forced removal spares every
\* tree but its own.  Through any death of a caller and any failure of the
\* store, a worktree has a live record unless a teardown looked its job up too
\* early or its own undo failed, and an ALLOCATED record has its agent's tree
\* behind it unless a call on its id was cut short.
THEOREM TreesSafe ==
  Spec => [](UndoRemovesOwn /\ TreesHold)
<1>1. Spec => []ReservationInv
  BY TypeCorrect, InitReservation, NextReservation, PTL DEF Spec
<1>2. Spec => [](OwnershipInv /\ DiskInv)
  BY <1>1, TypeCorrect, InitTrees, NextOwnership, NextDisk, PTL DEF Spec
<1>3. DiskInv => UndoRemovesOwn /\ TreesHold
  BY DEF DiskInv, TreesHold
<1>4. QED
  BY <1>2, <1>3, PTL

=============================================================================
