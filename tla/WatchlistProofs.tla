-------------------------- MODULE WatchlistProofs --------------------------
(***************************************************************************)
(* The copies that processes keep of the watchlist never show in the file: *)
(* for every set of processes, allowlists, jobs and bounds the file        *)
(* implements one shared map.                                              *)
(***************************************************************************)
EXTENDS Watchlist, FiniteSetTheorems, FunctionTheorems, TLAPS

USE DEF bounds, history

-----------------------------------------------------------------------------
(* What _load makes of a record *)

LEMMA ClampClamped ==
  ASSUME NEW r \in Job, r.fixes \in Nat, r.max \in 0..Ceiling
  PROVE  Clamp(r) = r
<1>1. (IF r.max < 0 THEN 0 ELSE LesserOf(r.max, Ceiling)) = r.max
  BY DataAssumption DEF LesserOf
<1>2. (IF r.fixes < 0 THEN 0 ELSE r.fixes) = r.fixes
  OBVIOUS
<1>3. [r EXCEPT !.max = r.max, !.fixes = r.fixes] = r
  BY DEF Job
<1> QED
  BY <1>1, <1>2, <1>3 DEF Clamp

\* Wrapping leaves alone what is a job or is not there.
LEMMA WrapType ==
  ASSUME NEW r \in Entries
  PROVE  /\ Wrap(r) \in Entries
         /\ r \in Job <=> Wrap(r) \in Job
         /\ r \in Job => Wrap(r) = r
         /\ r = NoJob <=> Wrap(r) = NoJob
         /\ NoJob \notin Job /\ Clamp(NoJob) = NoJob
  BY EntryAssumption DEF Wrap, Clamp, Entries, Invalid

LEMMA ClampType ==
  ASSUME NEW r \in Entries
  PROVE  /\ Clamp(r) \in Entries
         /\ Clamp(Clamp(r)) = Clamp(r)
         /\ r \in Job <=> Clamp(r) \in Job
         /\ r \notin Job => Clamp(r) = Wrap(r)
         /\ r \in Job => /\ Clamp(r) = [r EXCEPT !.max = Clamp(r).max,
                                                 !.fixes = Clamp(r).fixes]
                         /\ Clamp(r).fixes \in Nat
                         /\ Clamp(r).max \in 0..Ceiling
<1>1. CASE r \notin Job
  BY <1>1, EntryAssumption DEF Entries, Invalid, Clamp, Wrap
<1>2. CASE r \in Job
  <2>1. PICK m \in 0..Ceiling, f \in Nat :
          Clamp(r) = [r EXCEPT !.max = m, !.fixes = f]
    <3>1. (IF r.max < 0 THEN 0 ELSE LesserOf(r.max, Ceiling)) \in 0..Ceiling
      BY <1>2, DataAssumption DEF Job, LesserOf
    <3>2. (IF r.fixes < 0 THEN 0 ELSE r.fixes) \in Nat
      BY <1>2 DEF Job
    <3> QED
      BY <1>2, <3>1, <3>2 DEF Clamp, Job
  <2>2. Clamp(r) \in Job /\ Clamp(r).max = m /\ Clamp(r).fixes = f
    <3>1. m \in Int /\ f \in Int
      BY DataAssumption
    <3>2. [r EXCEPT !.max = m, !.fixes = f] \in Job
      BY <1>2, <3>1 DEF Job
    <3>3. /\ [r EXCEPT !.max = m, !.fixes = f].max = m
          /\ [r EXCEPT !.max = m, !.fixes = f].fixes = f
      BY <1>2 DEF Job
    <3> QED
      BY <2>1, <3>2, <3>3
  <2>3. Clamp(Clamp(r)) = Clamp(r)
    BY <2>2, ClampClamped
  <2> QED
    BY <1>2, <2>1, <2>2, <2>3 DEF Entries
<1> QED
  BY <1>1, <1>2

LEMMA LoadedType ==
  ASSUME file \in [JobIds -> Entries], NEW h \in Handles
  PROVE  /\ Loaded(h) \in [JobIds -> Entries]
         /\ \A id \in JobIds :
              /\ Clamp(Loaded(h)[id]) = Clamp(file[id])
              /\ Loaded(h)[id] = NoJob <=> file[id] = NoJob
              /\ Active(h, Loaded(h)[id]) <=> Active(h, file[id])
              /\ Active(h, file[id]) => /\ Loaded(h)[id] = Clamp(file[id])
                                        /\ Loaded(h)[id].fixes \in Nat
                                        /\ Loaded(h)[id].max \in 0..Ceiling
<1>1. \A id \in JobIds : Loaded(h)[id] \in {file[id], Clamp(file[id])}
  BY EntryAssumption DEF Loaded, Clamp, Wrap, Invalid
<1>2. \A id \in JobIds : Clamp(file[id]) \in Entries
  BY ClampType
<1>3. Loaded(h) \in [JobIds -> Entries]
  BY <1>1, <1>2 DEF Loaded
<1>4. ASSUME NEW id \in JobIds
      PROVE  /\ Clamp(Loaded(h)[id]) = Clamp(file[id])
             /\ Loaded(h)[id] = NoJob <=> file[id] = NoJob
  BY <1>1, ClampType, EntryAssumption DEF Entries, Wrap, Invalid
<1>5. ASSUME NEW id \in JobIds
      PROVE  Active(h, Clamp(file[id])) <=> Active(h, file[id])
  <2>1. file[id] \in Job =>
          [file[id] EXCEPT !.max = Clamp(file[id]).max,
                           !.fixes = Clamp(file[id]).fixes].owner = file[id].owner
    BY DEF Job
  <2> QED
    BY <2>1, ClampType DEF Active
<1>6. ASSUME NEW id \in JobIds, Active(h, file[id])
      PROVE  /\ Loaded(h)[id] = Clamp(file[id])
             /\ Loaded(h)[id].fixes \in Nat
             /\ Loaded(h)[id].max \in 0..Ceiling
  BY <1>6, ClampType DEF Loaded, Active
<1>7. ASSUME NEW id \in JobIds
      PROVE  Active(h, Loaded(h)[id]) <=> Active(h, file[id])
  BY <1>5, WrapType DEF Loaded, Active
<1> QED
  BY <1>3, <1>4, <1>6, <1>7

LEMMA RestartType ==
  ASSUME NEW r \in Job, NEW c \in Cycles \cup {None}, NEW f \in Int
  PROVE  [r EXCEPT !.cycle = c, !.fixes = f] \in Job
  BY DEF Job

LEMMA EnterCycleType ==
  ASSUME NEW r \in Job, NEW c \in Cycles \cup {None}
  PROVE  /\ EnterCycle(r, c) \in Job
         /\ EnterCycle(r, c).owner = r.owner
         /\ r.fixes \in Nat => EnterCycle(r, c).fixes \in Nat
         /\ EnterCycle(r, c).max = r.max
<1>1. 0 \in Int
  OBVIOUS
<1>3. [r EXCEPT !.cycle = c, !.fixes = 0] \in Job
  BY <1>1, RestartType, Zenon
<1>2. LET e == [r EXCEPT !.cycle = c, !.fixes = 0] IN
      e.owner = r.owner /\ e.fixes = 0 /\ e.max = r.max
  BY DEF Job
<1> QED
  BY <1>2, <1>3 DEF EnterCycle

-----------------------------------------------------------------------------
(* Types *)

\* What a process may find in a copy: entries, its own jobs clamped.
Clean(h, copy) ==
  /\ copy \in [JobIds -> Entries]
  /\ \A id \in JobIds : Active(h, copy[id]) =>
       copy[id].fixes \in Nat /\ copy[id].max \in 0..Ceiling

LEMMA LoadedClean ==
  ASSUME TypeOK, NEW h \in Handles
  PROVE  Clean(h, Loaded(h))
  BY LoadedType DEF TypeOK, Clean

\* Every locked operation ends in one of these steps.
LEMMA LockedTypeOK ==
  ASSUME TypeOK, NEW h \in Handles, Locked(h),
         NEW new, NEW undone, Clean(h, new), Clean(h, undone),
         Save(h, new, undone) \/ NoSave(h, undone),
         regrouped' \in BOOLEAN,
         spent' \in [Owners \X Prs \X Cycles -> 0..ops']
  PROVE  TypeOK'
<1>1. file' \in [JobIds -> Entries]
  BY DEF TypeOK, Save, NoSave, Clean
<1>2. PICK m : Clean(h, m) /\ mem' = [mem EXCEPT ![h] = m]
  BY DEF Save, NoSave
<1>3. mem' \in [Handles -> [JobIds -> Entries]]
  BY <1>2 DEF TypeOK, Clean
<1>4. ASSUME NEW g \in Handles, NEW id \in JobIds, Active(g, mem'[g][id])
      PROVE  mem'[g][id].fixes \in Nat /\ mem'[g][id].max \in 0..Ceiling
  <2>1. CASE g = h
    BY <1>2, <1>4, <2>1 DEF TypeOK, Clean
  <2>2. CASE g # h
    <3>1. mem'[g] = mem[g]
      BY <1>2, <2>2 DEF TypeOK
    <3> QED
      BY <1>4, <3>1 DEF TypeOK
  <2> QED
    BY <2>1, <2>2
<1>5. /\ pc' \in [Handles -> {"closed", "quarantine", "open"}]
      /\ garbled' \in BOOLEAN
      /\ garbled' => file' = Empty
      /\ damages' \in 0..MaxDamages
  BY DEF TypeOK, Locked
<1>6. ops' \in 0..MaxOps
  BY BoundsAssumption DEF TypeOK, Locked
<1>7. failures' \in 0..MaxFailures
  BY BoundsAssumption DEF TypeOK, Save, NoSave
<1>8. \A g \in Handles, id \in JobIds : Active(g, mem[g][id])' <=> Active(g, mem'[g][id])
  BY DEF Active
<1> QED
  BY <1>1, <1>3, <1>4, <1>5, <1>6, <1>7, <1>8 DEF TypeOK

\* A copy stays clean when one entry of it is replaced by a clean one.
LEMMA CleanExcept ==
  ASSUME NEW h \in Handles, NEW copy, Clean(h, copy), NEW id \in JobIds,
         NEW r \in Entries,
         Active(h, r) => r.fixes \in Nat /\ r.max \in 0..Ceiling
  PROVE  Clean(h, [copy EXCEPT ![id] = r])
  BY DEF Clean, Active

\* The budgets spent so far stay below the number of operations.
LEMMA SpentType ==
  ASSUME TypeOK, ops' = ops + 1
  PROVE  /\ UNCHANGED spent => spent' \in [Owners \X Prs \X Cycles -> 0..ops']
         /\ \A r \in Job : Spend(r) =>
              spent' \in [Owners \X Prs \X Cycles -> 0..ops']
<1>1. ops \in Nat
  BY BoundsAssumption DEF TypeOK
<1>2. \A n \in 0..ops : n \in 0..(ops + 1) /\ n + 1 \in 0..(ops + 1)
  BY <1>1
<1>3. UNCHANGED spent => spent' \in [Owners \X Prs \X Cycles -> 0..ops']
  BY <1>2 DEF TypeOK
<1>4. ASSUME NEW r \in Job, Spend(r)
      PROVE  spent' \in [Owners \X Prs \X Cycles -> 0..ops']
  <2>1. CASE r.pr = None \/ r.cycle = None
    BY <1>3, <1>4, <2>1 DEF Spend
  <2>2. CASE ~(r.pr = None \/ r.cycle = None)
    <3>1. spent' = [spent EXCEPT ![<<r.owner, r.pr, r.cycle>>] = @ + 1]
      BY <1>4, <2>2 DEF Spend
    <3> QED
      BY <1>2, <3>1 DEF TypeOK
  <2> QED
    BY <2>1, <2>2
<1> QED
  BY <1>3, <1>4

LEMMA InitTypeOK == Init => TypeOK
<1> SUFFICES ASSUME Init PROVE TypeOK
  OBVIOUS
<1>1. Leftover \subseteq Entries
  <2>1. Ceiling \in Int /\ Ceiling + 1 \in Int /\ 0 \in Int /\ -1 \in Int
    BY DataAssumption
  <2> QED
    BY <2>1 DEF Leftover, Entries, Job, Invalid
<1>2. Empty \in [JobIds -> Entries]
  BY DEF Empty, Entries
<1>3. \A h \in Handles, id \in JobIds : ~Active(h, mem[h][id])
  BY EntryAssumption DEF Init, Empty, Active
<1>4. spent \in [Owners \X Prs \X Cycles -> 0..ops]
  BY DEF Init
<1>5. file \in [JobIds -> Entries]
  BY <1>1 DEF Init
<1>6. /\ ops \in 0..MaxOps
      /\ failures \in 0..MaxFailures
      /\ damages \in 0..MaxDamages
  BY BoundsAssumption DEF Init
<1>7. mem \in [Handles -> [JobIds -> Entries]]
  BY <1>2 DEF Init
<1> QED
  BY <1>3, <1>4, <1>5, <1>6, <1>7 DEF Init, TypeOK

LEMMA FreshType ==
  ASSUME NEW o \in Owners, NEW m \in Budgets, NEW n \in Notes
  PROVE  /\ Fresh(o, m, n) \in Job
         /\ Fresh(o, m, n).fixes \in Nat
         /\ Fresh(o, m, n).max \in 0..Ceiling
         /\ Fresh(o, m, n).owner = o
         /\ Clamp(Fresh(o, m, n)) = Fresh(o, m, n)
<1>1. m \in 0..Ceiling /\ m \in Int /\ 0 \in Int /\ 0 \in Nat
  BY AllowedAssumption, DataAssumption
<1>2. Fresh(o, m, n) \in Job
  BY <1>1 DEF Fresh, Job
<1>3. Fresh(o, m, n).fixes = 0 /\ Fresh(o, m, n).max = m /\ Fresh(o, m, n).owner = o
  BY DEF Fresh
<1> QED
  BY <1>1, <1>2, <1>3, ClampClamped

\* The record that a setter leaves behind, and that of a new cycle.
LEMMA NotesType ==
  ASSUME NEW r \in Job, NEW n \in Notes
  PROVE  /\ [r EXCEPT !.notes = n] \in Job
         /\ [r EXCEPT !.notes = n].fixes = r.fixes
         /\ [r EXCEPT !.notes = n].max = r.max
  BY DEF Job

LEMMA PrType ==
  ASSUME NEW r \in Job, NEW pr \in Prs \cup {None}
  PROVE  /\ [r EXCEPT !.pr = pr] \in Job
         /\ [r EXCEPT !.pr = pr].fixes = r.fixes
         /\ [r EXCEPT !.pr = pr].max = r.max
  BY DEF Job

LEMMA FixType ==
  ASSUME NEW r \in Job
  PROVE  /\ [r EXCEPT !.fixes = @ + 1] \in Job
         /\ [r EXCEPT !.fixes = @ + 1].fixes = r.fixes + 1
         /\ [r EXCEPT !.fixes = @ + 1].max = r.max
<1>1. r.fixes + 1 \in Int
  BY DEF Job
<1> QED
  BY <1>1 DEF Job

\* The copy of an operation on an active job.
LEMMA ActiveLoaded ==
  ASSUME TypeOK, NEW h \in Handles, NEW id \in JobIds, Active(h, file[id])
  PROVE  /\ Loaded(h)[id] \in Job
         /\ Loaded(h)[id] = Clamp(file[id])
         /\ Loaded(h)[id].fixes \in Nat
         /\ Loaded(h)[id].max \in 0..Ceiling
         /\ Active(h, Loaded(h)[id])
  BY LoadedType DEF TypeOK, Active

LEMMA EnteredClean ==
  ASSUME TypeOK, NEW h \in Handles, NEW id \in JobIds, Active(h, file[id]),
         NEW c \in Cycles \cup {None}
  PROVE  LET entered == [Loaded(h) EXCEPT ![id] = EnterCycle(@, c)] IN
         /\ Clean(h, entered)
         /\ Clean(h, AddFix(entered, id))
         /\ entered[id] \in Job
<1> DEFINE r == EnterCycle(Loaded(h)[id], c)
           entered == [Loaded(h) EXCEPT ![id] = r]
<1>1. r \in Job /\ r.fixes \in Nat /\ r.max \in 0..Ceiling
  BY ActiveLoaded, EnterCycleType
<1>2. r \in Entries
  BY <1>1 DEF Entries
<1>3. Clean(h, entered)
  BY <1>1, <1>2, LoadedClean, CleanExcept
<1>4. entered[id] = r
  BY LoadedClean DEF Clean
<1>5. [r EXCEPT !.fixes = @ + 1] \in Entries
  BY <1>1, FixType DEF Entries
<1>6. [r EXCEPT !.fixes = @ + 1].fixes \in Nat /\ [r EXCEPT !.fixes = @ + 1].max \in 0..Ceiling
  BY <1>1, FixType
<1>7. Clean(h, [entered EXCEPT ![id] = [r EXCEPT !.fixes = @ + 1]])
  BY <1>3, <1>5, <1>6, CleanExcept
<1>8. AddFix(entered, id) = [entered EXCEPT ![id] = [r EXCEPT !.fixes = @ + 1]]
  BY <1>4 DEF AddFix
<1> QED
  BY <1>1, <1>3, <1>4, <1>7, <1>8

LEMMA NextTypeOK == TypeOK /\ [Next]_vars => TypeOK'
<1> SUFFICES ASSUME TypeOK, [Next]_vars PROVE TypeOK'
  OBVIOUS
<1>0. ASSUME NEW h \in Handles, Locked(h)
      PROVE  ops' = ops + 1
  BY <1>0 DEF Locked
<1>1. ASSUME NEW h \in Handles, NEW id \in JobIds, NEW o \in Owners,
             NEW m \in Budgets, NEW n \in Notes, Add(h, id, o, m, n)
      PROVE  TypeOK'
  <2>1. Clean(h, [Loaded(h) EXCEPT ![id] = Fresh(o, m, n)])
    BY LoadedClean, FreshType, CleanExcept DEF Entries
  <2>2. spent' \in [Owners \X Prs \X Cycles -> 0..ops']
    BY <1>0, <1>1, SpentType DEF Add
  <2> QED
    BY <1>1, <2>1, <2>2, LoadedClean, LockedTypeOK DEF Add, TypeOK
<1>2. ASSUME NEW h \in Handles, NEW id \in JobIds, Remove(h, id)
      PROVE  TypeOK'
  <2>1. Clean(h, [Loaded(h) EXCEPT ![id] = NoJob])
    <3>1. ~Active(h, NoJob) /\ NoJob \in Entries
      BY EntryAssumption DEF Active, Entries
    <3> QED
      BY <3>1, LoadedClean, CleanExcept
  <2>2. spent' \in [Owners \X Prs \X Cycles -> 0..ops']
    BY <1>0, <1>2, SpentType DEF Remove
  <2> QED
    BY <1>2, <2>1, <2>2, LockedTypeOK DEF Remove, TypeOK
<1>3. ASSUME NEW h \in Handles, NEW id \in JobIds, NEW n \in Notes,
             Annotate(h, id, n)
      PROVE  TypeOK'
  <2> DEFINE r == [Loaded(h)[id] EXCEPT !.notes = n]
  <2>1. r \in Entries /\ r.fixes \in Nat /\ r.max \in 0..Ceiling
    BY <1>3, ActiveLoaded, NotesType DEF Annotate, Entries
  <2>2. [Loaded(h) EXCEPT ![id].notes = n] = [Loaded(h) EXCEPT ![id] = r]
    OBVIOUS
  <2>3. Clean(h, [Loaded(h) EXCEPT ![id].notes = n])
    BY <2>1, <2>2, LoadedClean, CleanExcept
  <2>4. spent' \in [Owners \X Prs \X Cycles -> 0..ops']
    BY <1>0, <1>3, SpentType DEF Annotate
  <2> QED
    BY <1>3, <2>3, <2>4, LockedTypeOK DEF Annotate, TypeOK
<1>4. ASSUME NEW h \in Handles, NEW id \in JobIds, NEW pr \in Prs,
             SetPr(h, id, pr)
      PROVE  TypeOK'
  <2> DEFINE r == [Loaded(h)[id] EXCEPT !.pr = pr]
  <2>1. r \in Entries /\ r.fixes \in Nat /\ r.max \in 0..Ceiling
    BY <1>4, ActiveLoaded, PrType DEF SetPr, Entries
  <2>2. [Loaded(h) EXCEPT ![id].pr = pr] = [Loaded(h) EXCEPT ![id] = r]
    OBVIOUS
  <2>3. Clean(h, [Loaded(h) EXCEPT ![id].pr = pr])
    BY <2>1, <2>2, LoadedClean, CleanExcept
  <2>4. spent' \in [Owners \X Prs \X Cycles -> 0..ops']
    BY <1>0, <1>4, SpentType DEF SetPr
  <2>5. regrouped' \in BOOLEAN
    BY <1>4 DEF SetPr, TypeOK
  <2> QED
    BY <1>4, <2>3, <2>4, <2>5, LockedTypeOK DEF SetPr
<1>5. ASSUME NEW h \in Handles, NEW c \in Cycles, NEW ids, BeginCycle(h, ids, c)
      PROVE  TypeOK'
  <2> DEFINE after == [id \in JobIds |-> IF id \in ids
                        THEN EnterCycle(Loaded(h)[id], c) ELSE Loaded(h)[id]]
  <2>1. ASSUME NEW id \in JobIds, id \in ids
        PROVE  /\ EnterCycle(Loaded(h)[id], c) \in Entries
               /\ EnterCycle(Loaded(h)[id], c).fixes \in Nat
               /\ EnterCycle(Loaded(h)[id], c).max \in 0..Ceiling
    <3>1. Active(h, file[id])
      BY <1>5, <2>1 DEF BeginCycle, ActiveIds
    <3> QED
      BY <3>1, ActiveLoaded, EnterCycleType DEF Entries
  <2>2. Clean(h, after)
    BY <2>1, LoadedClean DEF Clean
  <2>3. spent' \in [Owners \X Prs \X Cycles -> 0..ops']
    BY <1>0, <1>5, SpentType DEF BeginCycle
  <2> QED
    BY <1>5, <2>2, <2>3, LockedTypeOK DEF BeginCycle, TypeOK
<1>6. ASSUME NEW h \in Handles, NEW id \in JobIds, NEW c \in Cycles \cup {None},
             Increment(h, id, c)
      PROVE  TypeOK'
  <2> DEFINE entered == [Loaded(h) EXCEPT ![id] = EnterCycle(@, c)]
  <2>1. Active(h, file[id])
    BY <1>6 DEF Increment
  <2>2. Clean(h, entered) /\ Clean(h, AddFix(entered, id)) /\ entered[id] \in Job
    BY <2>1, EnteredClean
  <2>3. UNCHANGED spent \/ Spend(entered[id])
    BY <1>6 DEF Increment
  <2>4. spent' \in [Owners \X Prs \X Cycles -> 0..ops']
    BY <1>0, <1>6, <2>2, <2>3, SpentType DEF Increment
  <2>5. Save(h, AddFix(entered, id), entered) \/ NoSave(h, entered)
    BY <1>6 DEF Increment
  <2> QED
    BY <1>6, <2>2, <2>4, <2>5, LockedTypeOK DEF Increment, TypeOK
<1>7. ASSUME NEW h \in Handles, Check(h) \/ Refuse(h)
      PROVE  TypeOK'
  <2>1. spent' \in [Owners \X Prs \X Cycles -> 0..ops']
    BY <1>0, <1>7, SpentType DEF Check, Refuse
  <2>2. Save(h, Loaded(h), Loaded(h)) \/ NoSave(h, Loaded(h))
    BY <1>7 DEF Check, Refuse
  <2> QED
    BY <1>7, <2>1, <2>2, LoadedClean, LockedTypeOK DEF Check, Refuse, TypeOK
<1>8. ASSUME NEW h \in Handles, Open(h)
      PROVE  TypeOK'
  <2>1. pc' \in [Handles -> {"closed", "quarantine", "open"}]
    BY <1>8 DEF Open, TypeOK
  <2>2. PICK m : Clean(h, m) /\ mem' = [mem EXCEPT ![h] = m]
    BY <1>8, LoadedClean DEF Open, TypeOK, Clean
  <2>3. mem' \in [Handles -> [JobIds -> Entries]]
    BY <2>2 DEF TypeOK, Clean
  <2>4. \A g \in Handles, id \in JobIds : Active(g, mem'[g][id]) =>
          mem'[g][id].fixes \in Nat /\ mem'[g][id].max \in 0..Ceiling
    BY <2>2 DEF TypeOK, Clean
  <2> QED
    BY <1>8, <2>1, <2>3, <2>4 DEF Open, TypeOK, Active
<1>9. ASSUME NEW h \in Handles, Quarantine(h) \/ QuarantineLocked(h)
      PROVE  TypeOK'
  <2>1. file' \in [JobIds -> Entries] /\ garbled' \in BOOLEAN /\ (garbled' => file' = Empty)
    <3>1. Empty \in [JobIds -> Entries]
      BY DEF Empty, Entries
    <3>2. CASE UNCHANGED <<file, garbled>>
      BY <3>2 DEF TypeOK
    <3>3. CASE file' \in {file, Empty} /\ garbled' = FALSE
      BY <3>1, <3>3 DEF TypeOK
    <3> QED
      BY <1>9, <3>2, <3>3 DEF Quarantine, QuarantineLocked
  <2>2. pc' \in [Handles -> {"closed", "quarantine", "open"}]
    BY <1>9 DEF Quarantine, QuarantineLocked, TypeOK
  <2> QED
    BY <1>9, <2>1, <2>2 DEF Quarantine, QuarantineLocked, TypeOK, Active
<1>10. ASSUME NEW h \in Handles, Close(h)
       PROVE  TypeOK'
  <2>1. pc' \in [Handles -> {"closed", "quarantine", "open"}]
    BY <1>10 DEF Close, TypeOK
  <2>2. \A id \in JobIds : ~Active(h, Empty[id]) /\ Empty[id] \in Entries
    BY EntryAssumption DEF Active, Empty, Entries
  <2>3. mem' \in [Handles -> [JobIds -> Entries]]
    BY <1>10, <2>2 DEF Close, TypeOK, Empty
  <2>4. \A g \in Handles, id \in JobIds : Active(g, mem'[g][id]) =>
          mem'[g][id].fixes \in Nat /\ mem'[g][id].max \in 0..Ceiling
    BY <1>10, <2>2 DEF Close, TypeOK
  <2> QED
    BY <1>10, <2>1, <2>3, <2>4 DEF Close, TypeOK, Active
<1>11. CASE Garble
  <2>1. Empty \in [JobIds -> Entries]
    BY DEF Empty, Entries
  <2>2. damages' \in 0..MaxDamages
    BY <1>11, BoundsAssumption DEF Garble, TypeOK
  <2> QED
    BY <1>11, <2>1, <2>2 DEF Garble, TypeOK, Active
<1>12. CASE UNCHANGED vars
  BY <1>12 DEF vars, TypeOK, Active
<1> QED
  BY <1>1, <1>2, <1>3, <1>4, <1>5, <1>6, <1>7, <1>8, <1>9, <1>10, <1>11, <1>12
  DEF Next, Operation

\* The variables keep their types, and a process only ever sees jobs whose
\* numbers are in range (_load, watchlist.py:297-363).
THEOREM WatchlistTypeCorrect == Spec => []TypeOK
  BY InitTypeOK, NextTypeOK, PTL DEF Spec

-----------------------------------------------------------------------------
(* The file implements the map *)

MapJobs == [id \in JobIds |-> Clamp(file[id])]

LEMMA MapType ==
  ASSUME TypeOK
  PROVE  MapJobs \in [JobIds -> Entries]
  BY ClampType DEF MapJobs, TypeOK

\* A save that replaces one entry of the reloaded copy.
LEMMA MapExcept ==
  ASSUME TypeOK, NEW h \in Handles, NEW id \in JobIds, NEW r,
         file' = [Loaded(h) EXCEPT ![id] = r]
  PROVE  MapJobs' = [MapJobs EXCEPT ![id] = Clamp(r)]
<1>1. ASSUME NEW i \in JobIds
      PROVE  Clamp(file'[i]) = IF i = id THEN Clamp(r) ELSE Clamp(file[i])
  BY LoadedType DEF TypeOK
<1> QED
  BY <1>1 DEF MapJobs

\* A save of the reloaded copy as it is.
LEMMA MapSame ==
  ASSUME TypeOK, NEW h \in Handles, file' \in {file, Loaded(h)}
  PROVE  MapJobs' = MapJobs
<1>1. ASSUME NEW i \in JobIds
      PROVE  Clamp(file'[i]) = Clamp(file[i])
  BY LoadedType DEF TypeOK
<1> QED
  BY <1>1 DEF MapJobs

LEMMA ActiveMap ==
  ASSUME TypeOK, NEW h \in Handles, NEW id \in JobIds, Active(h, file[id])
  PROVE  /\ MapJobs[id] = Loaded(h)[id]
         /\ MapJobs[id] \in Job
         /\ MapJobs[id].fixes \in Nat
         /\ MapJobs[id].max \in 0..Ceiling
  BY ActiveLoaded DEF MapJobs

\* Siblings of an active job have its owner, so they are active in every copy
\* that has the job: both sides add up the same counts.
LEMMA SameBudget ==
  ASSUME TypeOK, NEW h \in Handles, NEW id \in JobIds, Active(h, file[id]),
         NEW c \in Cycles \cup {None}
  PROVE  LET copy == [Loaded(h) EXCEPT ![id] = EnterCycle(@, c)]
             map == [MapJobs EXCEPT ![id] = EnterCycle(@, c)]
         IN  HasBudget(copy, id) <=> HasBudget(map, id)
<1> DEFINE r == EnterCycle(MapJobs[id], c)
           copy == [Loaded(h) EXCEPT ![id] = r]
           map == [MapJobs EXCEPT ![id] = r]
<1>1. r \in Job /\ r.owner = MapJobs[id].owner /\ MapJobs[id].owner \in Allowed[h]
  BY ActiveMap, ActiveLoaded, EnterCycleType DEF Active
<1>2. copy[id] = r /\ map[id] = r
  BY LoadedType, MapType DEF TypeOK
<1>3. ASSUME NEW i \in JobIds, copy[i] \in Job \/ map[i] \in Job,
             copy[i].owner = r.owner \/ map[i].owner = r.owner
      PROVE  copy[i] = map[i]
  <2>1. CASE i = id
    BY <1>2, <2>1
  <2>2. CASE i # id
    <3>1. copy[i] = Loaded(h)[i] /\ map[i] = Clamp(file[i])
      BY <2>2, LoadedType DEF TypeOK, MapJobs
    <3>2. CASE Active(h, file[i])
      BY <3>1, <3>2, LoadedType DEF TypeOK
    <3>3. CASE ~Active(h, file[i])
      <4>1. copy[i] = Wrap(file[i])
        BY <3>1, <3>3 DEF Loaded
      <4>2. file[i] \in Entries
        BY DEF TypeOK
      <4>3. file[i] \in Job /\ copy[i] = file[i]
        <5>1. /\ Wrap(file[i]) \in Job <=> file[i] \in Job
              /\ Clamp(file[i]) \in Job <=> file[i] \in Job
              /\ file[i] \in Job => Wrap(file[i]) = file[i]
          BY <4>2, ClampType, WrapType
        <5> QED
          BY <1>3, <3>1, <4>1, <5>1
      <4>4. map[i].owner = file[i].owner
        <5>1. Clamp(file[i]) = [file[i] EXCEPT !.max = Clamp(file[i]).max,
                                               !.fixes = Clamp(file[i]).fixes]
          BY <4>2, <4>3, ClampType
        <5> QED
          BY <3>1, <4>3, <5>1 DEF Job
      <4> QED
        BY <1>1, <1>3, <3>3, <4>3, <4>4 DEF Active
    <3> QED
      BY <3>2, <3>3
  <2> QED
    BY <2>1, <2>2
<1>4. Siblings(copy, id) = Siblings(map, id)
  BY <1>2, <1>3 DEF Siblings
<1>5. \A i \in Siblings(copy, id) : copy[i] = map[i]
  BY <1>2, <1>3 DEF Siblings
<1> HIDE DEF r, copy, map
<1>6. [i \in Siblings(copy, id) |-> copy[i].fixes] = [i \in Siblings(map, id) |-> map[i].fixes]
  BY <1>4, <1>5
<1>7. Used(copy, id) = Used(map, id)
  BY <1>2, <1>6 DEF Used
<1>8. HasBudget(copy, id) <=> HasBudget(map, id)
  BY <1>2, <1>7 DEF HasBudget
<1>9. Loaded(h)[id] = MapJobs[id]
  BY ActiveMap
<1> QED
  BY <1>8, <1>9 DEF r, copy, map

\* Map!Next, with the substitution of the INSTANCE carried out.
MapStep == [Map!Next]_<<MapJobs, damages > 0>>

\* The operators on records are the same on both sides.
LEMMA SameSum ==
  ASSUME NEW f
  PROVE  Map!SumFunction(f) = SumFunction(f)
  BY DEF SumFunction, SumFunctionOnSet, FoldFunctionOnSet, MapThenFoldSet,
         Map!SumFunction, Map!SumFunctionOnSet, Map!FoldFunctionOnSet,
         Map!MapThenFoldSet

LEMMA SameData ==
  /\ Map!Job = Job
  /\ \A o, m, n : Map!Fresh(o, m, n) = Fresh(o, m, n)
  /\ \A r, c : Map!EnterCycle(r, c) = EnterCycle(r, c)
  /\ \A jobs, id : Map!HasBudget(jobs, id) <=> HasBudget(jobs, id)
  /\ \A jobs, id : Map!AddFix(jobs, id) = AddFix(jobs, id)
<1>1. Map!Job = Job
  BY DEF Map!Job, Job
<1>2. \A o, m, n : Map!Fresh(o, m, n) = Fresh(o, m, n)
  BY DEF Map!Fresh, Fresh
<1>3. \A r, c : Map!EnterCycle(r, c) = EnterCycle(r, c)
  BY DEF Map!EnterCycle, EnterCycle
<1>4. ASSUME NEW jobs, NEW id
      PROVE  Map!HasBudget(jobs, id) <=> HasBudget(jobs, id)
  <2>1. Map!Siblings(jobs, id) = Siblings(jobs, id)
    BY <1>1 DEF Map!Siblings, Siblings
  <2>2. Map!Used(jobs, id) = Used(jobs, id)
    BY <2>1, SameSum DEF Map!Used, Used
  <2> QED
    BY <2>2 DEF Map!HasBudget, HasBudget, Map!LesserOf, LesserOf
<1>5. \A jobs, id : Map!AddFix(jobs, id) = AddFix(jobs, id)
  BY DEF Map!AddFix, AddFix
<1> QED
  BY <1>1, <1>2, <1>3, <1>4, <1>5

LEMMA SavedOrNot ==
  ASSUME NEW h \in Handles, NEW new, NEW undone, Save(h, new, undone)
  PROVE  file' = new \/ UNCHANGED file
  BY DEF Save

LEMMA AddMaps ==
  ASSUME TypeOK, NEW h \in Handles, NEW id \in JobIds, NEW o \in Owners,
         NEW m \in Budgets, NEW n \in Notes, Add(h, id, o, m, n)
  PROVE  MapStep
<1>1. CASE UNCHANGED file
  BY <1>1, MapSame DEF Add, Locked, MapStep
<1>2. CASE file' = [Loaded(h) EXCEPT ![id] = Fresh(o, m, n)]
  <2>1. MapJobs' = [MapJobs EXCEPT ![id] = Fresh(o, m, n)]
    BY <1>2, MapExcept, FreshType
  <2>2. MapJobs[id] = NoJob
    <3>1. file[id] = NoJob
      BY LoadedType DEF Add, TypeOK
    <3> QED
      BY <3>1, WrapType DEF MapJobs, Entries
  <2>3. m \in 0..Ceiling
    BY AllowedAssumption
  <2>4. Map!Add(id)
    BY <2>1, <2>2, <2>3, SameData DEF Map!Add, Map!Put, MapJobs
  <2> QED
    BY <2>4 DEF Add, Locked, MapStep, Map!Next, MapJobs
<1> QED
  BY <1>1, <1>2, SavedOrNot DEF Add

LEMMA RemoveMaps ==
  ASSUME TypeOK, NEW h \in Handles, NEW id \in JobIds, Remove(h, id)
  PROVE  MapStep
<1>1. CASE UNCHANGED file
  BY <1>1, MapSame DEF Remove, Locked, MapStep
<1>2. CASE file' = [Loaded(h) EXCEPT ![id] = NoJob]
  <2>1. MapJobs' = [MapJobs EXCEPT ![id] = NoJob]
    <3>1. Clamp(NoJob) = NoJob
      BY WrapType DEF Entries
    <3>2. MapJobs' = [MapJobs EXCEPT ![id] = Clamp(NoJob)]
      BY <1>2, MapExcept
    <3> QED
      BY <3>1, <3>2
  <2>2. Map!Remove(id)
    BY <2>1 DEF Map!Remove, Map!Put, MapJobs
  <2> QED
    BY <2>2 DEF Remove, Locked, MapStep, Map!Next, MapJobs
<1> QED
  BY <1>1, <1>2, SavedOrNot DEF Remove

\* A setter leaves a clamped record clamped, so it acts on the map alike.
LEMMA SetterMaps ==
  ASSUME TypeOK, NEW h \in Handles, NEW id \in JobIds, Active(h, file[id]),
         NEW n \in Notes, NEW pr \in Prs \cup {None}, Locked(h),
         file' = [Loaded(h) EXCEPT ![id] =
                    [Loaded(h)[id] EXCEPT !.notes = n, !.pr = pr]]
  PROVE  MapStep
<1> DEFINE r == [Loaded(h)[id] EXCEPT !.notes = n, !.pr = pr]
<1>1. Loaded(h)[id] \in Job /\ MapJobs[id] = Loaded(h)[id]
  BY ActiveMap, ActiveLoaded
<1>2. r \in Job
  BY <1>1 DEF Job
<1>3. r.fixes = Loaded(h)[id].fixes /\ r.max = Loaded(h)[id].max
  BY <1>1 DEF Job
<1>4. Clamp(r) = r
  BY <1>2, <1>3, ActiveLoaded, ClampClamped
<1>5. MapJobs' = [MapJobs EXCEPT ![id] = [MapJobs[id] EXCEPT !.notes = n, !.pr = pr]]
  <2> HIDE DEF r
  <2>1. MapJobs' = [MapJobs EXCEPT ![id] = Clamp(r)]
    BY MapExcept DEF r
  <2> QED
    BY <1>1, <1>4, <2>1 DEF r
<1>6. Map!Annotate(id)
  BY <1>1, <1>5, SameData DEF Map!Annotate, Map!Put, MapJobs
<1> QED
  BY <1>6 DEF Locked, MapStep, Map!Next, MapJobs

LEMMA AnnotateMaps ==
  ASSUME TypeOK, NEW h \in Handles, NEW id \in JobIds, NEW n \in Notes,
         Annotate(h, id, n)
  PROVE  MapStep
<1>1. CASE UNCHANGED file
  BY <1>1, MapSame DEF Annotate, Locked, MapStep
<1>2. CASE file' = [Loaded(h) EXCEPT ![id].notes = n]
  <2> DEFINE l == Loaded(h)[id]
  <2>1. l \in Job
    BY ActiveLoaded DEF Annotate
  <2>2. l.pr \in Prs \cup {None}
    BY <2>1 DEF Job
  <2>3. [l EXCEPT !.notes = n] = [l EXCEPT !.notes = n, !.pr = l.pr]
    BY <2>1 DEF Job
  <2>4. file' = [Loaded(h) EXCEPT ![id] = [l EXCEPT !.notes = n, !.pr = l.pr]]
    BY <1>2, <2>3
  <2> QED
    BY <2>2, <2>4, SetterMaps DEF Annotate
<1> QED
  BY <1>1, <1>2, SavedOrNot DEF Annotate

LEMMA SetPrMaps ==
  ASSUME TypeOK, NEW h \in Handles, NEW id \in JobIds, NEW pr \in Prs,
         SetPr(h, id, pr)
  PROVE  MapStep
<1>1. CASE UNCHANGED file
  BY <1>1, MapSame DEF SetPr, Locked, MapStep
<1>2. CASE file' = [Loaded(h) EXCEPT ![id].pr = pr]
  <2> DEFINE l == Loaded(h)[id]
  <2>1. l \in Job
    BY ActiveLoaded DEF SetPr
  <2>2. l.notes \in Notes
    BY <2>1 DEF Job
  <2>3. [l EXCEPT !.pr = pr] = [l EXCEPT !.notes = l.notes, !.pr = pr]
    BY <2>1 DEF Job
  <2>4. file' = [Loaded(h) EXCEPT ![id] = [l EXCEPT !.notes = l.notes, !.pr = pr]]
    BY <1>2, <2>3
  <2> QED
    BY <2>2, <2>4, SetterMaps DEF SetPr
<1> QED
  BY <1>1, <1>2, SavedOrNot DEF SetPr

LEMMA BeginMaps ==
  ASSUME TypeOK, NEW h \in Handles, NEW ids \in SUBSET JobIds, NEW c \in Cycles,
         BeginCycle(h, ids, c)
  PROVE  MapStep
<1> DEFINE after == [id \in JobIds |-> IF id \in ids
                      THEN EnterCycle(Loaded(h)[id], c) ELSE Loaded(h)[id]]
<1>1. CASE UNCHANGED file
  BY <1>1, MapSame DEF BeginCycle, Locked, MapStep
<1>2. CASE file' = after
  <2>1. ASSUME NEW id \in JobIds, id \in ids
        PROVE  MapJobs[id] \in Job /\ Clamp(after[id]) = EnterCycle(MapJobs[id], c)
    <3>1. Active(h, file[id])
      BY <2>1 DEF BeginCycle, ActiveIds
    <3>2. MapJobs[id] = Loaded(h)[id] /\ MapJobs[id] \in Job
      BY <3>1, ActiveMap
    <3> DEFINE r == EnterCycle(MapJobs[id], c)
    <3>3. r \in Job /\ r.fixes \in Nat /\ r.max \in 0..Ceiling
      BY <3>1, <3>2, ActiveMap, EnterCycleType
    <3>4. after[id] = r
      BY <2>1, <3>2
    <3> QED
      BY <3>2, <3>3, <3>4, ClampClamped
  <2>2. ASSUME NEW id \in JobIds, id \notin ids
        PROVE  Clamp(after[id]) = MapJobs[id]
    BY <2>2, LoadedType DEF MapJobs, TypeOK
  <2>3. MapJobs' = [id \in JobIds |-> IF id \in ids
                      THEN EnterCycle(MapJobs[id], c) ELSE MapJobs[id]]
    BY <1>2, <2>1, <2>2 DEF MapJobs
  <2>4. \A id \in ids : MapJobs[id] \in Job
    BY <2>1
  <2>5. Map!BeginCycle(ids, c)
    BY <2>3, <2>4, SameData DEF Map!BeginCycle, MapJobs
  <2> QED
    BY <2>5 DEF BeginCycle, Locked, MapStep, Map!Next, MapJobs
<1> QED
  BY <1>1, <1>2, SavedOrNot DEF BeginCycle

\* An increment that is saved counts a fix in the map.
LEMMA IncrementCounts ==
  ASSUME TypeOK, NEW h \in Handles, NEW id \in JobIds, NEW c \in Cycles \cup {None},
         Active(h, file[id]),
         HasBudget([Loaded(h) EXCEPT ![id] = EnterCycle(@, c)], id),
         file' = AddFix([Loaded(h) EXCEPT ![id] = EnterCycle(@, c)], id)
  PROVE  LET map == [MapJobs EXCEPT ![id] = EnterCycle(@, c)] IN
         /\ MapJobs[id] \in Job
         /\ HasBudget(map, id)
         /\ MapJobs' = AddFix(map, id)
<1> DEFINE r == EnterCycle(Loaded(h)[id], c)
           entered == [Loaded(h) EXCEPT ![id] = r]
           counted == [r EXCEPT !.fixes = @ + 1]
           map == [MapJobs EXCEPT ![id] = EnterCycle(@, c)]
<1>1. MapJobs[id] = Loaded(h)[id] /\ MapJobs[id] \in Job
  BY ActiveMap
<1>2. r \in Job /\ r.fixes \in Nat /\ r.max \in 0..Ceiling
  BY ActiveLoaded, EnterCycleType
<1>3. counted \in Job /\ counted.fixes \in Nat /\ counted.max \in 0..Ceiling
  BY <1>2, FixType
<1>4. file' = [Loaded(h) EXCEPT ![id] = counted]
  <2>1. entered[id] = r
    BY LoadedType DEF TypeOK
  <2> QED
    BY <2>1 DEF AddFix
<1>5. MapJobs' = [MapJobs EXCEPT ![id] = counted]
  <2> HIDE DEF counted
  <2>1. MapJobs' = [MapJobs EXCEPT ![id] = Clamp(counted)]
    BY ONLY TypeOK, h \in Handles, id \in JobIds, <1>4, MapExcept
  <2> QED
    BY <1>3, <2>1, ClampClamped
<1>6. AddFix(map, id) = [MapJobs EXCEPT ![id] = counted]
  BY <1>1, MapType DEF AddFix
<1>7. HasBudget(map, id)
  BY SameBudget
<1> QED
  BY <1>1, <1>5, <1>6, <1>7

LEMMA SavedIncrement ==
  ASSUME NEW h \in Handles, NEW id \in JobIds, NEW c \in Cycles \cup {None},
         Increment(h, id, c)
  PROVE  \/ UNCHANGED file
         \/ /\ Active(h, file[id])
            /\ HasBudget([Loaded(h) EXCEPT ![id] = EnterCycle(@, c)], id)
            /\ file' = AddFix([Loaded(h) EXCEPT ![id] = EnterCycle(@, c)], id)
  BY DEF Increment, Save, NoSave

LEMMA IncrementMaps ==
  ASSUME TypeOK, NEW h \in Handles, NEW id \in JobIds, NEW c \in Cycles \cup {None},
         Increment(h, id, c)
  PROVE  MapStep
<1>1. CASE UNCHANGED file
  BY <1>1, MapSame DEF Increment, Locked, MapStep
<1>2. CASE ~UNCHANGED file
  <2>1. Map!CountFix(id, c)
    BY <1>2, SavedIncrement, IncrementCounts, SameData DEF Map!CountFix, MapJobs
  <2> QED
    BY <2>1 DEF Increment, Locked, MapStep, Map!Next, MapJobs
<1> QED
  BY <1>1, <1>2

\* Whoever is about to quarantine saw a garbled file.
DamageRecorded ==
  /\ garbled => damages > 0
  /\ \A h \in Handles : pc[h] = "quarantine" => damages > 0

\* A file put aside was garbled before, so the map may lose what it holds.
LEMMA LossMaps ==
  ASSUME TypeOK, DamageRecorded,
         (\E h \in Handles : Quarantine(h) \/ QuarantineLocked(h)) \/ Garble
  PROVE  MapStep
<1>1. file' \in {file, Empty}
  BY DEF Quarantine, QuarantineLocked, Garble
<1>2. CASE file' = file /\ UNCHANGED damages
  BY <1>2, MapSame DEF MapStep, MapJobs
<1>3. CASE file' = Empty
  <2>1. MapJobs' = Empty
    BY <1>3, WrapType DEF MapJobs, Empty, Entries
  <2>2. CASE Garble
    <3>1. damages' > 0
      BY <2>2, BoundsAssumption DEF Garble, TypeOK
    <3>2. Map!Damage
      BY <2>1, <3>1 DEF Map!Damage, MapJobs, Map!Empty, Empty
    <3> QED
      BY <3>2 DEF MapStep, Map!Next, MapJobs
  <2>3. CASE \E h \in Handles : Quarantine(h) \/ QuarantineLocked(h)
    <3>1. damages > 0 /\ UNCHANGED damages
      BY <2>3 DEF Quarantine, QuarantineLocked, DamageRecorded
    <3>2. Map!Lose
      BY <2>1, <3>1 DEF Map!Lose, MapJobs, Map!Empty, Empty
    <3> QED
      BY <3>2 DEF MapStep, Map!Next, MapJobs
  <2> QED
    BY <2>2, <2>3
<1> QED
  BY <1>1, <1>2, <1>3 DEF Quarantine, QuarantineLocked, Garble

LEMMA InitDamage == Init => DamageRecorded
  BY DEF Init, DamageRecorded

LEMMA NextDamage == TypeOK /\ DamageRecorded /\ [Next]_vars => DamageRecorded'
<1> SUFFICES ASSUME TypeOK, DamageRecorded, [Next]_vars PROVE DamageRecorded'
  OBVIOUS
<1>1. ASSUME NEW h \in Handles, Operation(h)
      PROVE  UNCHANGED <<garbled, pc, damages>>
  BY <1>1 DEF Operation, Add, Remove, Annotate, SetPr, BeginCycle, Increment,
              Check, Refuse, Locked
<1>2. CASE Garble
  <2>1. damages' > 0
    BY <1>2, BoundsAssumption DEF Garble, TypeOK
  <2> QED
    BY <2>1 DEF DamageRecorded
<1>3. ASSUME NEW h \in Handles, Open(h)
      PROVE  DamageRecorded'
  BY <1>3 DEF Open, DamageRecorded, TypeOK
<1>4. ASSUME NEW h \in Handles, Quarantine(h) \/ QuarantineLocked(h) \/ Close(h)
      PROVE  DamageRecorded'
  BY <1>4 DEF Quarantine, QuarantineLocked, Close, DamageRecorded, TypeOK
<1> QED
  BY <1>1, <1>2, <1>3, <1>4 DEF Next, vars, DamageRecorded

LEMMA InitMaps == Init => Map!Init
<1> SUFFICES ASSUME Init PROVE Map!Init
  OBVIOUS
<1>1. MapJobs \in [JobIds -> Entries]
  BY InitTypeOK, MapType
<1>2. Map!Entries = Entries
  BY DEF Map!Entries, Entries, Map!Job, Job, Map!Invalid, Invalid
<1>3. (damages > 0) = FALSE
  BY DEF Init
<1> QED
  BY <1>1, <1>2, <1>3 DEF Map!Init, MapJobs

LEMMA NextMaps ==
  TypeOK /\ DamageRecorded /\ [Next]_vars => MapStep
<1> SUFFICES ASSUME TypeOK, DamageRecorded, [Next]_vars PROVE MapStep
  OBVIOUS
<1>1. ASSUME NEW h \in Handles, Operation(h)
      PROVE  MapStep
  <2>1. ASSUME Check(h) \/ Refuse(h)
        PROVE  MapStep
    <3>1. file' \in {file, Loaded(h)}
      BY <2>1 DEF Check, Refuse, Save, NoSave
    <3> QED
      BY <2>1, <3>1, MapSame DEF Check, Refuse, Locked, MapStep
  <2>2. ASSUME NEW c \in Cycles,
               NEW ids \in {ActiveIds(h, file)} \cup {{id} : id \in JobIds},
               BeginCycle(h, ids, c)
        PROVE  MapStep
    <3>1. ids \in SUBSET JobIds
      BY DEF ActiveIds
    <3> QED
      BY <2>2, <3>1, BeginMaps
  <2> QED
    BY <1>1, <2>1, <2>2, AddMaps, RemoveMaps, AnnotateMaps, SetPrMaps,
       IncrementMaps DEF Operation
<1>2. ASSUME NEW h \in Handles, Open(h) \/ Close(h)
      PROVE  MapStep
  BY <1>2 DEF Open, Close, MapStep, MapJobs
<1>3. CASE UNCHANGED vars
  BY <1>3 DEF vars, MapStep, MapJobs
<1> QED
  BY <1>1, <1>2, <1>3, LossMaps DEF Next

\* However many processes share the file, with whatever allowlists and stale
\* copies, every step is an operation on one shared map or leaves it as it is
\* (_locked, watchlist.py:287-295).
THEOREM WatchlistImplementsMap == Spec => ImplementsMap
<1>1. Spec => [](TypeOK /\ DamageRecorded)
  BY InitTypeOK, NextTypeOK, InitDamage, NextDamage, PTL DEF Spec
<1>2. MapStep <=> [Map!Next]_<<[id \in JobIds |-> Clamp(file[id])], damages > 0>>
  BY DEF MapStep, MapJobs
<1> QED
  BY <1>1, <1>2, InitMaps, NextMaps, PTL DEF Spec, ImplementsMap, Map!Spec

-----------------------------------------------------------------------------
(* Deferred entries *)

Deferred(h, id) == file[id] # NoJob /\ ~Active(h, file[id])

\* What DeferredKept asks of a step of h for one entry.
Kept(id) ==
  \/ file'[id] \in {file[id], Wrap(file[id])}
  \/ /\ file'[id] = NoJob
     /\ \A i \in JobIds \ {id} : Clamp(file'[i]) = Clamp(file[i])

LEMMA DeferredLoaded ==
  ASSUME TypeOK, NEW h \in Handles, NEW id \in JobIds, Deferred(h, id)
  PROVE  Loaded(h)[id] = Wrap(file[id])
  BY DEF Deferred, Loaded

LEMMA OperationKeeps ==
  ASSUME TypeOK, NEW h \in Handles, Operation(h), NEW id \in JobIds, Deferred(h, id)
  PROVE  Kept(id)
<1>1. CASE UNCHANGED file
  BY <1>1 DEF Kept
<1>2. CASE ~UNCHANGED file
  <2>1. ASSUME NEW i \in JobIds, NEW o \in Owners, NEW m \in Budgets, NEW n \in Notes,
               Add(h, i, o, m, n)
        PROVE  Kept(id)
    <3>1. i # id
      BY <2>1, LoadedType DEF Add, TypeOK, Deferred
    <3> QED
      BY <1>2, <2>1, <3>1, DeferredLoaded, LoadedType DEF Add, Save, Kept, TypeOK
  <2>2. ASSUME NEW i \in JobIds, Remove(h, i)
        PROVE  Kept(id)
    <3>1. file' = [Loaded(h) EXCEPT ![i] = NoJob]
      BY <1>2, <2>2 DEF Remove, Save
    <3> QED
      BY <3>1, DeferredLoaded, LoadedType DEF Kept, TypeOK
  <2>3. ASSUME NEW i \in JobIds, NEW n \in Notes, Annotate(h, i, n)
        PROVE  Kept(id)
    <3>1. i # id
      BY <2>3 DEF Annotate, Deferred
    <3> QED
      BY <1>2, <2>3, <3>1, DeferredLoaded, LoadedType DEF Annotate, Save, Kept, TypeOK
  <2>4. ASSUME NEW i \in JobIds, NEW pr \in Prs, SetPr(h, i, pr)
        PROVE  Kept(id)
    <3>1. i # id
      BY <2>4 DEF SetPr, Deferred
    <3> QED
      BY <1>2, <2>4, <3>1, DeferredLoaded, LoadedType DEF SetPr, Save, Kept, TypeOK
  <2>5. ASSUME NEW ids, NEW c \in Cycles, BeginCycle(h, ids, c)
        PROVE  Kept(id)
    <3>1. id \notin ids
      BY <2>5 DEF BeginCycle, ActiveIds, Deferred
    <3> QED
      BY <1>2, <2>5, <3>1, DeferredLoaded DEF BeginCycle, Save, Kept
  <2>6. ASSUME NEW i \in JobIds, NEW c \in Cycles \cup {None}, Increment(h, i, c)
        PROVE  Kept(id)
    <3>1. i # id
      BY <2>6 DEF Increment, Deferred
    <3>2. file' = AddFix([Loaded(h) EXCEPT ![i] = EnterCycle(@, c)], i)
      BY <1>2, <2>6 DEF Increment, Save, NoSave
    <3> QED
      BY <3>1, <3>2, DeferredLoaded, LoadedType DEF AddFix, Kept, TypeOK
  <2>7. ASSUME Check(h) \/ Refuse(h)
        PROVE  Kept(id)
    BY <1>2, <2>7, DeferredLoaded DEF Check, Refuse, Save, NoSave, Kept
  <2> QED
    BY <2>1, <2>2, <2>3, <2>4, <2>5, <2>6, <2>7 DEF Operation
<1> QED
  BY <1>1, <1>2

\* Only its own operations change the copy of an open watchlist.
LEMMA OwnCopy ==
  ASSUME TypeOK, [Next]_vars, NEW h \in Handles, ops' # ops, mem'[h] # mem[h]
  PROVE  Operation(h)
<1>1. ASSUME NEW g \in Handles, Operation(g)
      PROVE  \E m : mem' = [mem EXCEPT ![g] = m]
  BY <1>1 DEF Operation, Add, Remove, Annotate, SetPr, BeginCycle, Increment,
              Check, Refuse, Save, NoSave
<1>2. ASSUME NEW g \in Handles, Operation(g)
      PROVE  g = h
  BY <1>1, <1>2 DEF TypeOK
<1> QED
  BY <1>2 DEF Next, vars, Open, Quarantine, Close, QuarantineLocked, Garble, TypeOK

\* An entry outside a process's allowlist, or unreadable, passes through its
\* saves as it is, or wrapped (watchlist.py:335-338, 361-363 and 378-381).
THEOREM DeferredEntriesKept == Spec => DeferredKept
<1>1. TypeOK /\ [Next]_vars =>
        [\A h \in Handles : ops' # ops /\ mem'[h] # mem[h] =>
           \A id \in JobIds : Deferred(h, id) => Kept(id)]_vars
  BY OwnCopy, OperationKeeps
<1>2. [\A h \in Handles : ops' # ops /\ mem'[h] # mem[h] =>
         \A id \in JobIds : Deferred(h, id) => Kept(id)]_vars
      => [\A h \in Handles : ops' # ops /\ mem'[h] # mem[h] =>
            \A id \in JobIds : file[id] # NoJob /\ ~Active(h, file[id]) =>
              \/ file'[id] \in {file[id], Wrap(file[id])}
              \/ /\ file'[id] = NoJob
                 /\ \A i \in JobIds \ {id} : Clamp(file'[i]) = Clamp(file[i])]_vars
  BY DEF Deferred, Kept
<1> QED
  BY <1>1, <1>2, WatchlistTypeCorrect, PTL DEF Spec, DeferredKept

-----------------------------------------------------------------------------
(* Sums of counts.  SumFunction picks the elements in an order of its own; *)
(* that the order does not matter is proved by counting units.             *)

Pick(s) == CHOOSE x \in s : TRUE

\* The recursion by which SumFunction adds up the values of f over S.
Adds(f, S, sum) ==
  sum = [s \in SUBSET S |->
           IF s = {} THEN 0 ELSE f[Pick(s)] + sum[s \ {Pick(s)}]]

LEMMA SumIsChosen ==
  ASSUME NEW f
  PROVE  SumFunction(f) = (CHOOSE sum : Adds(f, DOMAIN f, sum))[DOMAIN f]
  BY DEF SumFunction, SumFunctionOnSet, FoldFunctionOnSet, MapThenFoldSet, Adds, Pick

\* One pair for each unit that f counts for an element of S.
Units(f, S) == UNION {{i} \X (1..f[i]) : i \in S}

LEMMA UnitsFinite ==
  ASSUME NEW S, IsFiniteSet(S), NEW f, \A i \in S : f[i] \in Nat
  PROVE  IsFiniteSet(Units(f, S))
<1> DEFINE Column(i) == {i} \X (1..f[i])
           columns == {Column(i) : i \in S}
           column == [i \in S |-> Column(i)]
<1>1. ASSUME NEW i \in S
      PROVE  IsFiniteSet(Column(i))
  <2>1. IsFiniteSet(1..f[i]) /\ IsFiniteSet({i})
    BY FS_Singleton, FS_Interval, 1 \in Int, f[i] \in Int
  <2> QED
    BY <2>1, FS_Product
<1>2. column \in Surjection(S, columns)
  BY Fun_IsSurj
<1>3. IsFiniteSet(columns)
  BY <1>2, FS_Surjection
<1> QED
  BY <1>1, <1>3, FS_UNION DEF Units

LEMMA UnitsWithout ==
  ASSUME NEW S, IsFiniteSet(S), NEW f, \A i \in S : f[i] \in Nat, NEW x \in S
  PROVE  Cardinality(Units(f, S)) = f[x] + Cardinality(Units(f, S \ {x}))
<1> DEFINE mine == {x} \X (1..f[x])
           others == Units(f, S \ {x})
<1>1. Units(f, S) = mine \cup others
  BY DEF Units
<1>2. mine \cap others = {}
  BY DEF Units
<1>3. IsFiniteSet(mine) /\ Cardinality(mine) = f[x]
  <2>1. f[x] \in Nat
    OBVIOUS
  <2>2. IsFiniteSet(1..f[x]) /\ Cardinality(1..f[x]) = f[x]
    BY <2>1, FS_Interval, 1 \in Int, f[x] \in Int, ~(1 > f[x]) <=> f[x] # 0
  <2>3. IsFiniteSet({x}) /\ Cardinality({x}) = 1
    BY FS_Singleton
  <2> QED
    BY <2>1, <2>2, <2>3, FS_Product
<1>4. IsFiniteSet(others)
  BY UnitsFinite, FS_RemoveElement
<1>5. Cardinality(mine) \in Nat /\ Cardinality(others) \in Nat
  BY <1>3, <1>4, FS_CardinalityType
<1> HIDE DEF mine, others
<1>6. Cardinality(mine \cup others) = Cardinality(mine) + Cardinality(others) - Cardinality({})
  BY <1>2, <1>3, <1>4, FS_Union
<1>7. Cardinality(mine \cup others) = f[x] + Cardinality(others)
  BY <1>3, <1>5, <1>6, FS_EmptySet
<1> QED
  BY <1>1, <1>7 DEF others

\* Whatever the order of the additions, the sum is the number of units.
LEMMA SumCounts ==
  ASSUME NEW f, IsFiniteSet(DOMAIN f), \A i \in DOMAIN f : f[i] \in Nat
  PROVE  SumFunction(f) = Cardinality(Units(f, DOMAIN f))
<1> DEFINE S == DOMAIN f
           count == [s \in SUBSET S |-> Cardinality(Units(f, s))]
           sum == CHOOSE g : Adds(f, S, g)
<1>1. Units(f, {}) = {}
  BY DEF Units
<1>2. ASSUME NEW s \in SUBSET S, s # {}
      PROVE  /\ Pick(s) \in s
             /\ s \ {Pick(s)} \in SUBSET S
             /\ count[s] = f[Pick(s)] + count[s \ {Pick(s)}]
  <2>1. Pick(s) \in s
    BY <1>2 DEF Pick
  <2>2. IsFiniteSet(s)
    BY FS_Subset
  <2> QED
    BY <2>1, <2>2, UnitsWithout
<1>3. Adds(f, S, count)
  BY <1>1, <1>2, FS_EmptySet DEF Adds
<1>4. Adds(f, S, sum)
  BY <1>3
<1> DEFINE wrong == {s \in SUBSET S : sum[s] # count[s]}
<1> HIDE DEF sum, count
<1>5. wrong = {}
  <2> SUFFICES ASSUME wrong # {} PROVE FALSE
    OBVIOUS
  <2>1. IsWellFoundedOn(StrictSubsetOrdering(S), SUBSET S)
    BY FS_StrictSubsetOrderingWellFounded, FS_FiniteSubsetsOfFinite
  <2>2. PICK s \in wrong : \A t \in wrong : <<t, s>> \notin StrictSubsetOrdering(S)
    BY <2>1, WFMin, Zenon
  <2>3. CASE s = {}
    <3>1. sum[{}] = 0
      BY <1>4 DEF Adds
    <3>2. count[{}] = 0
      BY <1>1, FS_EmptySet DEF count
    <3> QED
      BY <2>2, <2>3, <3>1, <3>2
  <2>4. CASE s # {}
    <3> DEFINE t == s \ {Pick(s)}
    <3>1. Pick(s) \in s /\ t \in SUBSET S /\ count[s] = f[Pick(s)] + count[t]
      BY <1>2, <2>4
    <3>2. sum[s] = f[Pick(s)] + sum[t]
      BY <1>4, <2>4 DEF Adds
    <3>3. <<t, s>> \in StrictSubsetOrdering(S)
      BY <3>1 DEF StrictSubsetOrdering
    <3>4. t \notin wrong
      BY <2>2, <3>3
    <3> QED
      BY <3>1, <3>2, <3>4
  <2> QED
    BY <2>3, <2>4
<1>6. sum[S] = count[S]
  BY <1>5
<1> QED
  BY <1>6, SumIsChosen DEF sum, count

\* A function whose positive values are values of f, or less, sums up to less.
LEMMA SumMonotone ==
  ASSUME NEW f, IsFiniteSet(DOMAIN f), \A i \in DOMAIN f : f[i] \in Nat,
         NEW g, IsFiniteSet(DOMAIN g), \A i \in DOMAIN g : g[i] \in Nat,
         \A i \in DOMAIN g : g[i] = 0 \/ (i \in DOMAIN f /\ g[i] <= f[i])
  PROVE  /\ SumFunction(f) \in Nat
         /\ SumFunction(g) <= SumFunction(f)
<1>1. Units(g, DOMAIN g) \subseteq Units(f, DOMAIN f)
  BY DEF Units
<1>2. IsFiniteSet(Units(f, DOMAIN f))
  BY UnitsFinite
<1> QED
  BY <1>1, <1>2, SumCounts, FS_Subset, FS_CardinalityType

LEMMA SumZero ==
  ASSUME NEW f, IsFiniteSet(DOMAIN f), \A i \in DOMAIN f : f[i] = 0
  PROVE  SumFunction(f) = 0
<1>1. Units(f, DOMAIN f) = {}
  BY DEF Units
<1> QED
  BY <1>1, SumCounts, FS_EmptySet

LEMMA SumNext ==
  ASSUME NEW f, IsFiniteSet(DOMAIN f), \A i \in DOMAIN f : f[i] \in Nat,
         NEW x \in DOMAIN f
  PROVE  SumFunction([f EXCEPT ![x] = @ + 1]) = SumFunction(f) + 1
<1> DEFINE g == [f EXCEPT ![x] = @ + 1]
           new == <<x, f[x] + 1>>
<1>1. DOMAIN g = DOMAIN f /\ \A i \in DOMAIN g : g[i] \in Nat
  OBVIOUS
<1>2. Units(g, DOMAIN g) = Units(f, DOMAIN f) \cup {new}
  BY <1>1 DEF Units
<1>3. new \notin Units(f, DOMAIN f)
  BY DEF Units
<1>4. IsFiniteSet(Units(f, DOMAIN f))
  BY UnitsFinite
<1>5. Cardinality(Units(f, DOMAIN f) \cup {new}) = Cardinality(Units(f, DOMAIN f)) + 1
  BY <1>3, <1>4, FS_AddElement
<1> QED
  BY <1>1, <1>2, <1>5, SumCounts

-----------------------------------------------------------------------------
(* The shared budget *)

Counted(jobs) ==
  /\ jobs \in [JobIds -> Entries]
  /\ \A id \in JobIds : jobs[id] \in Job => jobs[id].fixes \in Nat

WithinBudget(jobs) ==
  \A id \in JobIds : jobs[id] \in Job => Used(jobs, id) <= Ceiling

LEMMA SiblingSum ==
  ASSUME NEW jobs, Counted(jobs), NEW id \in JobIds, IsFiniteSet(JobIds)
  PROVE  LET f == [i \in Siblings(jobs, id) |-> jobs[i].fixes] IN
         /\ IsFiniteSet(DOMAIN f)
         /\ \A i \in DOMAIN f : f[i] \in Nat
<1>1. Siblings(jobs, id) \in SUBSET JobIds
  BY DEF Siblings
<1>2. IsFiniteSet(Siblings(jobs, id))
  BY <1>1, FS_Subset
<1> QED
  BY <1>2 DEF Siblings, Counted

\* Of two jobs, the second counts no more than the first in the same group.
NoMore(r, q) ==
  q.fixes = 0 \/
    (r \in Job /\ q.owner = r.owner /\ q.pr = r.pr /\ q.cycle = r.cycle /\ q.fixes <= r.fixes)

\* No budget is exceeded by an operation that leaves every job either without
\* fixes or where it was, with no more of them.
LEMMA BudgetMonotone ==
  ASSUME NEW jobs, Counted(jobs), WithinBudget(jobs), IsFiniteSet(JobIds),
         NEW after, Counted(after),
         \A id \in JobIds : after[id] \in Job => NoMore(jobs[id], after[id])
  PROVE  WithinBudget(after)
<1> SUFFICES ASSUME NEW id \in JobIds, after[id] \in Job
             PROVE  Used(after, id) <= Ceiling
  BY DEF WithinBudget
<1>1. CASE after[id].pr = None
  <2>1. Used(after, id) = after[id].fixes /\ after[id].fixes \in Nat
    BY <1>1 DEF Used, Counted
  <2>2. CASE after[id].fixes = 0
    BY <2>1, <2>2, DataAssumption
  <2>3. CASE after[id].fixes # 0
    <3>1. jobs[id] \in Job /\ jobs[id].pr = None /\ after[id].fixes <= jobs[id].fixes
      BY <1>1, <2>3 DEF NoMore
    <3>2. jobs[id].fixes \in Nat /\ jobs[id].fixes <= Ceiling
      BY <3>1 DEF Counted, WithinBudget, Used
    <3> QED
      BY <2>1, <3>1, <3>2, DataAssumption
  <2> QED
    BY <2>2, <2>3
<1>2. CASE after[id].pr # None
  <2> DEFINE g == [i \in Siblings(after, id) |-> after[i].fixes]
  <2>1. Used(after, id) = SumFunction(g)
    BY <1>2 DEF Used
  <2>2. IsFiniteSet(DOMAIN g) /\ \A i \in DOMAIN g : g[i] \in Nat
    BY SiblingSum
  <2>3. CASE \A i \in DOMAIN g : g[i] = 0
    BY <2>1, <2>2, <2>3, SumZero, DataAssumption
  <2>4. CASE \E i \in DOMAIN g : g[i] # 0
    <3>1. PICK j \in Siblings(after, id) : after[j].fixes # 0
      BY <2>4
    <3> DEFINE f == [i \in Siblings(jobs, j) |-> jobs[i].fixes]
    <3>2. /\ j \in JobIds /\ jobs[j] \in Job
          /\ jobs[j].owner = after[id].owner
          /\ jobs[j].pr = after[id].pr
          /\ jobs[j].cycle = after[id].cycle
      BY <3>1 DEF Siblings, NoMore
    <3>3. IsFiniteSet(DOMAIN f) /\ \A i \in DOMAIN f : f[i] \in Nat
      BY <3>2, SiblingSum
    <3>4. ASSUME NEW i \in DOMAIN g
          PROVE  g[i] = 0 \/ (i \in DOMAIN f /\ g[i] <= f[i])
      BY <3>2 DEF Siblings, NoMore
    <3>5. Used(jobs, j) = SumFunction(f) /\ Used(jobs, j) <= Ceiling
      BY <1>2, <3>2 DEF Used, WithinBudget
    <3> HIDE DEF f, g
    <3>6. SumFunction(f) \in Nat /\ SumFunction(g) <= SumFunction(f)
      BY <2>2, <3>3, <3>4, SumMonotone
    <3>7. SumFunction(g) \in Nat
      BY <2>2, SumMonotone
    <3> QED
      BY <2>1, <3>5, <3>6, <3>7, DataAssumption
  <2> QED
    BY <2>3, <2>4
<1> QED
  BY <1>1, <1>2

\* A fix that the budget allows leaves it unexceeded.
LEMMA BudgetCounts ==
  ASSUME NEW jobs, Counted(jobs), WithinBudget(jobs), IsFiniteSet(JobIds),
         NEW id \in JobIds, jobs[id] \in Job, jobs[id].max \in Int, HasBudget(jobs, id)
  PROVE  WithinBudget(AddFix(jobs, id))
<1> DEFINE after == AddFix(jobs, id)
           r == [jobs[id] EXCEPT !.fixes = @ + 1]
<1>1. r \in Job /\ r.fixes = jobs[id].fixes + 1 /\ r.owner = jobs[id].owner
      /\ r.pr = jobs[id].pr /\ r.cycle = jobs[id].cycle
  <2>1. jobs[id].fixes + 1 \in Int
    BY DEF Job
  <2> QED
    BY <2>1 DEF Job
<1>2. after = [jobs EXCEPT ![id] = r]
  BY DEF AddFix
<1>3. /\ after[id] = r
      /\ \A i \in JobIds : i # id => after[i] = jobs[i]
  BY <1>2 DEF Counted
<1> HIDE DEF after, r
<1>4. ASSUME NEW i \in JobIds
      PROVE  Siblings(after, i) = Siblings(jobs, i)
  BY <1>1, <1>3 DEF Siblings
<1>5. Used(jobs, id) < Ceiling
  <2>1. Used(jobs, id) \in Int
    <3>1. CASE jobs[id].pr = None
      BY <3>1 DEF Used, Job
    <3>2. CASE jobs[id].pr # None
      <4> DEFINE f == [i \in Siblings(jobs, id) |-> jobs[i].fixes]
      <4>1. IsFiniteSet(DOMAIN f) /\ \A i \in DOMAIN f : f[i] \in Nat
        BY SiblingSum
      <4>2. Used(jobs, id) = SumFunction(f)
        BY <3>2 DEF Used
      <4> QED
        BY <4>1, <4>2, SumMonotone
    <3> QED
      BY <3>1, <3>2
  <2> QED
    BY <2>1, DataAssumption DEF HasBudget, LesserOf
<1> SUFFICES ASSUME NEW i \in JobIds, after[i] \in Job
             PROVE  Used(after, i) <= Ceiling
  BY DEF WithinBudget, after
<1>6. jobs[i] \in Job /\ after[i].pr = jobs[i].pr /\ after[i].owner = jobs[i].owner
      /\ after[i].cycle = jobs[i].cycle
  BY <1>1, <1>3
<1>7. CASE after[i].pr = None
  <2>1. CASE i = id
    <3>1. Used(after, i) = jobs[id].fixes + 1 /\ Used(jobs, id) = jobs[id].fixes
      BY <1>1, <1>3, <1>6, <1>7, <2>1 DEF Used
    <3> QED
      BY <1>5, <3>1, DataAssumption DEF Job
  <2>2. CASE i # id
    BY <1>3, <1>6, <1>7, <2>2 DEF Used, WithinBudget
  <2> QED
    BY <2>1, <2>2
<1>8. CASE after[i].pr # None
  <2> DEFINE f == [j \in Siblings(jobs, i) |-> jobs[j].fixes]
             g == [j \in Siblings(jobs, i) |-> after[j].fixes]
  <2>1. Used(jobs, i) = SumFunction(f) /\ Used(after, i) = SumFunction(g)
    BY <1>4, <1>6, <1>8 DEF Used
  <2>2. IsFiniteSet(DOMAIN f) /\ \A j \in DOMAIN f : f[j] \in Nat
    BY SiblingSum
  <2>3. CASE id \notin Siblings(jobs, i)
    <3>1. f = g
      BY <1>3, <2>3 DEF Siblings
    <3> QED
      BY <1>6, <2>1, <3>1 DEF WithinBudget
  <2>4. CASE id \in Siblings(jobs, i)
    <3>1. g = [f EXCEPT ![id] = @ + 1]
      BY <1>1, <1>3, <2>4 DEF Siblings
    <3>2. Siblings(jobs, id) = Siblings(jobs, i)
      BY <2>4 DEF Siblings
    <3>3. jobs[id].pr # None
      BY <1>6, <1>8, <2>4 DEF Siblings
    <3>4. Used(jobs, id) = SumFunction(f)
      BY <3>2, <3>3 DEF Used
    <3> HIDE DEF f, g
    <3>5. SumFunction(f) \in Nat
      BY <2>2, SumMonotone
    <3>6. id \in DOMAIN f
      BY <2>4 DEF f
    <3>7. SumFunction(g) = SumFunction(f) + 1
      BY <2>2, <3>1, <3>6, SumNext
    <3> QED
      BY <1>5, <2>1, <3>4, <3>5, <3>7, DataAssumption
  <2> QED
    BY <2>3, <2>4
<1> QED
  BY <1>7, <1>8

-----------------------------------------------------------------------------
(* The shared budget over the operations *)

LEMMA CountedMap ==
  ASSUME NEW entries \in [JobIds -> Entries]
  PROVE  Counted([id \in JobIds |-> Clamp(entries[id])])
  BY ClampType DEF Counted

\* An operation on one job that leaves it no more fixes.
LEMMA PutBudget ==
  ASSUME TypeOK, TypeOK', WithinBudget(MapJobs), NEW h \in Handles, NEW id \in JobIds,
         NEW r \in Entries, file' = [Loaded(h) EXCEPT ![id] = r],
         Clamp(r) \in Job => NoMore(MapJobs[id], Clamp(r))
  PROVE  WithinBudget(MapJobs')
<1>1. Counted(MapJobs) /\ Counted(MapJobs')
  BY CountedMap DEF TypeOK, MapJobs
<1>2. MapJobs' = [MapJobs EXCEPT ![id] = Clamp(r)]
  BY MapExcept
<1>3. ASSUME NEW i \in JobIds, MapJobs'[i] \in Job
      PROVE  NoMore(MapJobs[i], MapJobs'[i])
  <2>1. CASE i = id
    BY <1>1, <1>2, <1>3, <2>1 DEF Counted
  <2>2. CASE i # id
    <3>1. MapJobs'[i] = MapJobs[i]
      BY <1>1, <1>2, <2>2 DEF Counted
    <3>2. MapJobs[i].fixes \in Int
      BY <1>3, <3>1 DEF Job
    <3> QED
      BY <1>3, <3>1, <3>2 DEF NoMore
  <2> QED
    BY <2>1, <2>2
<1> QED
  BY <1>1, <1>3, BudgetMonotone, JobIdsAssumption

LEMMA SameMapBudget ==
  ASSUME TypeOK, WithinBudget(MapJobs), NEW h \in Handles, file' \in {file, Loaded(h)}
  PROVE  WithinBudget(MapJobs')
<1>1. MapJobs' = MapJobs
  BY MapSame
<1> QED
  BY <1>1

\* Entering a cycle, a job keeps its group or starts at no fixes.
LEMMA EnterNoMore ==
  ASSUME NEW r \in Job, NEW c \in Cycles \cup {None}
  PROVE  NoMore(r, EnterCycle(r, c))
  BY DEF NoMore, EnterCycle, Job

LEMMA AddBudget ==
  ASSUME TypeOK, TypeOK', WithinBudget(MapJobs), NEW h \in Handles,
         NEW id \in JobIds, NEW o \in Owners, NEW m \in Budgets, NEW n \in Notes,
         Add(h, id, o, m, n)
  PROVE  WithinBudget(MapJobs')
<1>1. CASE UNCHANGED file
  BY <1>1, SameMapBudget
<1>2. CASE file' = [Loaded(h) EXCEPT ![id] = Fresh(o, m, n)]
  <2>1. Fresh(o, m, n) \in Entries /\ Clamp(Fresh(o, m, n)).fixes = 0
    BY FreshType DEF Entries, Fresh
  <2> QED
    BY <1>2, <2>1, PutBudget DEF NoMore
<1> QED
  BY <1>1, <1>2, SavedOrNot DEF Add

LEMMA RemoveBudget ==
  ASSUME TypeOK, TypeOK', WithinBudget(MapJobs), NEW h \in Handles,
         NEW id \in JobIds, Remove(h, id)
  PROVE  WithinBudget(MapJobs')
<1>1. CASE UNCHANGED file
  BY <1>1, SameMapBudget
<1>2. CASE file' = [Loaded(h) EXCEPT ![id] = NoJob]
  <2>1. NoJob \in Entries /\ Clamp(NoJob) \notin Job
    BY WrapType DEF Entries
  <2> QED
    BY <1>2, <2>1, PutBudget
<1> QED
  BY <1>1, <1>2, SavedOrNot DEF Remove

LEMMA AnnotateBudget ==
  ASSUME TypeOK, TypeOK', WithinBudget(MapJobs), NEW h \in Handles,
         NEW id \in JobIds, NEW n \in Notes, Annotate(h, id, n)
  PROVE  WithinBudget(MapJobs')
<1> DEFINE l == Loaded(h)[id]
           r == [l EXCEPT !.notes = n]
<1>1. CASE UNCHANGED file
  BY <1>1, SameMapBudget
<1>2. CASE file' = [Loaded(h) EXCEPT ![id].notes = n]
  <2>1. l \in Job /\ l.fixes \in Nat /\ l.max \in 0..Ceiling /\ MapJobs[id] = l
    BY ActiveLoaded, ActiveMap DEF Annotate
  <2>2. r \in Job /\ r.fixes = l.fixes /\ r.max = l.max
    BY <2>1, NotesType
  <2>3. r.owner = l.owner /\ r.pr = l.pr /\ r.cycle = l.cycle
    BY <2>1 DEF Job
  <2>4. file' = [Loaded(h) EXCEPT ![id] = r]
    BY <1>2
  <2> HIDE DEF l, r
  <2>5. Clamp(r) = r
    BY <2>1, <2>2, ClampClamped
  <2>6. NoMore(MapJobs[id], Clamp(r))
    BY <2>1, <2>2, <2>3, <2>5 DEF NoMore
  <2> QED
    BY <2>2, <2>4, <2>6, PutBudget DEF Entries
<1> QED
  BY <1>1, <1>2, SavedOrNot DEF Annotate

\* A job that has fixes takes them to no other PR unless the step says so.
LEMMA SetPrBudget ==
  ASSUME TypeOK, TypeOK', WithinBudget(MapJobs), NEW h \in Handles,
         NEW id \in JobIds, NEW pr \in Prs, SetPr(h, id, pr), ~regrouped'
  PROVE  WithinBudget(MapJobs')
<1> DEFINE l == Loaded(h)[id]
           r == [l EXCEPT !.pr = pr]
<1>1. CASE UNCHANGED file
  BY <1>1, SameMapBudget
<1>2. CASE file' = [Loaded(h) EXCEPT ![id].pr = pr]
  <2>1. /\ l \in Job /\ l.fixes \in Nat /\ l.max \in 0..Ceiling
        /\ MapJobs[id] = l /\ l = Clamp(file[id])
    BY ActiveLoaded, ActiveMap DEF SetPr
  <2>2. r \in Job /\ r.fixes = l.fixes /\ r.max = l.max
    BY <2>1, PrType
  <2>3. r.owner = l.owner /\ r.pr = pr /\ r.cycle = l.cycle
    BY <2>1 DEF Job
  <2>4. l.fixes = 0 \/ l.pr = pr
    <3>1. file[id].pr = pr \/ ~(file[id].fixes > 0)
      BY DEF SetPr, TypeOK
    <3>2. file[id] \in Job
      BY DEF SetPr, Active
    <3>3. l.pr = file[id].pr /\ l.fixes = IF file[id].fixes < 0 THEN 0 ELSE file[id].fixes
      BY <2>1, <3>2 DEF Clamp, Job
    <3> QED
      BY <3>1, <3>2, <3>3 DEF Job
  <2>5. file' = [Loaded(h) EXCEPT ![id] = r]
    BY <1>2
  <2> HIDE DEF l, r
  <2>6. Clamp(r) = r
    BY <2>1, <2>2, ClampClamped
  <2>7. NoMore(MapJobs[id], Clamp(r))
    BY <2>1, <2>2, <2>3, <2>4, <2>6 DEF NoMore
  <2> QED
    BY <2>2, <2>5, <2>7, PutBudget DEF Entries
<1> QED
  BY <1>1, <1>2, SavedOrNot DEF SetPr

LEMMA BeginBudget ==
  ASSUME TypeOK, TypeOK', WithinBudget(MapJobs), NEW h \in Handles,
         NEW ids, NEW c \in Cycles, BeginCycle(h, ids, c)
  PROVE  WithinBudget(MapJobs')
<1> DEFINE after == [id \in JobIds |-> IF id \in ids
                      THEN EnterCycle(Loaded(h)[id], c) ELSE Loaded(h)[id]]
<1>1. CASE UNCHANGED file
  BY <1>1, SameMapBudget
<1>2. CASE file' = after
  <2>1. Counted(MapJobs) /\ Counted(MapJobs')
    BY CountedMap DEF TypeOK, MapJobs
  <2>2. ASSUME NEW id \in JobIds, MapJobs'[id] \in Job
        PROVE  NoMore(MapJobs[id], MapJobs'[id])
    <3>1. CASE id \in ids
      <4>1. Active(h, file[id])
        BY <3>1 DEF BeginCycle, ActiveIds
      <4> DEFINE r == EnterCycle(MapJobs[id], c)
      <4>2. MapJobs[id] = Loaded(h)[id] /\ MapJobs[id] \in Job
        BY <4>1, ActiveMap
      <4>3. r \in Job /\ r.fixes \in Nat /\ r.max \in 0..Ceiling
        BY <4>1, <4>2, ActiveMap, EnterCycleType
      <4>4. MapJobs'[id] = Clamp(r)
        BY <1>2, <3>1, <4>2 DEF MapJobs
      <4> QED
        BY <4>2, <4>3, <4>4, ClampClamped, EnterNoMore
    <3>2. CASE id \notin ids
      <4>1. MapJobs'[id] = MapJobs[id]
        BY <1>2, <3>2, LoadedType DEF MapJobs, TypeOK
      <4>2. MapJobs[id].fixes \in Int
        BY <2>2, <4>1 DEF Job
      <4> QED
        BY <2>2, <4>1, <4>2 DEF NoMore
    <3> QED
      BY <3>1, <3>2
  <2> QED
    BY <2>1, <2>2, BudgetMonotone, JobIdsAssumption
<1> QED
  BY <1>1, <1>2, SavedOrNot DEF BeginCycle

LEMMA IncrementBudget ==
  ASSUME TypeOK, WithinBudget(MapJobs), NEW h \in Handles,
         NEW id \in JobIds, NEW c \in Cycles \cup {None}, Increment(h, id, c)
  PROVE  WithinBudget(MapJobs')
<1> DEFINE map == [MapJobs EXCEPT ![id] = EnterCycle(@, c)]
<1>1. CASE UNCHANGED file
  BY <1>1, SameMapBudget
<1>2. CASE ~UNCHANGED file
  <2>1. MapJobs[id] \in Job /\ HasBudget(map, id) /\ MapJobs' = AddFix(map, id)
    BY <1>2, SavedIncrement, IncrementCounts
  <2>2. Counted(MapJobs)
    BY CountedMap DEF TypeOK, MapJobs
  <2>3. map[id] = EnterCycle(MapJobs[id], c) /\ \A i \in JobIds : i # id => map[i] = MapJobs[i]
    BY <2>2 DEF Counted
  <2>4. map[id] \in Job /\ map[id].fixes \in Nat /\ map[id].max \in Int
    <3>1. map[id] \in Job
      BY <2>1, <2>3, EnterCycleType
    <3> QED
      BY <2>1, <2>2, <2>3, <3>1, EnterCycleType DEF Counted, Job
  <2>5. Counted(map)
    BY <2>2, <2>3, <2>4 DEF Counted, Entries
  <2>6. ASSUME NEW i \in JobIds, map[i] \in Job
        PROVE  NoMore(MapJobs[i], map[i])
    <3>1. CASE i = id
      BY <2>1, <2>3, <3>1, EnterNoMore
    <3>2. CASE i # id
      <4>1. map[i] = MapJobs[i] /\ map[i].fixes \in Int
        BY <2>3, <2>6, <3>2 DEF Job
      <4> QED
        BY <2>6, <4>1 DEF NoMore
    <3> QED
      BY <3>1, <3>2
  <2> HIDE DEF map
  <2>7. WithinBudget(map)
    BY <2>2, <2>5, <2>6, BudgetMonotone, JobIdsAssumption
  <2>8. WithinBudget(AddFix(map, id))
    BY <2>1, <2>4, <2>5, <2>7, BudgetCounts, JobIdsAssumption
  <2> QED
    BY <2>1, <2>8
<1> QED
  BY <1>1, <1>2

BudgetInv == ~regrouped => WithinBudget(MapJobs)

LEMMA InitBudget == Init => BudgetInv
<1> SUFFICES ASSUME Init PROVE WithinBudget(MapJobs)
  BY DEF BudgetInv
<1>1. TypeOK
  BY InitTypeOK
<1>2. Counted(MapJobs) /\ Counted(Empty)
  <2>1. Empty \in [JobIds -> Entries] /\ \A id \in JobIds : Empty[id] \notin Job
    BY EntryAssumption DEF Empty, Entries
  <2> QED
    BY <1>1, <2>1, CountedMap DEF TypeOK, MapJobs, Counted
<1>3. WithinBudget(Empty)
  BY EntryAssumption DEF WithinBudget, Empty
<1>4. ASSUME NEW id \in JobIds, MapJobs[id] \in Job
      PROVE  MapJobs[id].fixes = 0
  <2>1. file[id] \in Leftover /\ file[id] \in Entries
    BY <1>1 DEF Init, TypeOK
  <2>2. file[id] \in Job
    BY <1>4, <2>1, ClampType DEF MapJobs
  <2>3. file[id].fixes \in {0, -1}
    BY <2>1, <2>2, EntryAssumption DEF Leftover, Invalid
  <2> QED
    BY <2>2, <2>3 DEF MapJobs, Clamp, Job
<1>5. \A id \in JobIds : MapJobs[id] \in Job => NoMore(Empty[id], MapJobs[id])
  BY <1>4 DEF NoMore
<1> QED
  BY <1>2, <1>3, <1>5, BudgetMonotone, JobIdsAssumption

LEMMA NextBudget == TypeOK /\ TypeOK' /\ BudgetInv /\ [Next]_vars => BudgetInv'
<1> SUFFICES ASSUME TypeOK, TypeOK', BudgetInv, [Next]_vars, ~regrouped'
             PROVE  WithinBudget(MapJobs')
  BY DEF BudgetInv, WithinBudget, MapJobs
<1>1. ~regrouped
  <2>1. ASSUME NEW h \in Handles, Operation(h)
        PROVE  regrouped => regrouped'
    BY <2>1 DEF Operation, Add, Remove, Annotate, SetPr, BeginCycle, Increment, Check, Refuse
  <2>2. CASE \E h \in Handles : Open(h) \/ Quarantine(h) \/ Close(h) \/ QuarantineLocked(h)
    BY <2>2 DEF Open, Quarantine, Close, QuarantineLocked
  <2>3. CASE Garble \/ UNCHANGED vars
    BY <2>3 DEF Garble, vars
  <2> QED
    BY <2>1, <2>2, <2>3 DEF Next
<1>2. WithinBudget(MapJobs)
  BY <1>1 DEF BudgetInv
<1>3. ASSUME NEW h \in Handles, Operation(h)
      PROVE  WithinBudget(MapJobs')
  <2>1. CASE Check(h) \/ Refuse(h)
    <3>1. file' \in {file, Loaded(h)}
      BY <2>1 DEF Check, Refuse, Save, NoSave
    <3> QED
      BY <1>2, <3>1, SameMapBudget
  <2> QED
    BY <1>2, <1>3, <2>1, AddBudget, RemoveBudget, AnnotateBudget, SetPrBudget,
       BeginBudget, IncrementBudget DEF Operation
<1>4. CASE UNCHANGED file
  BY <1>2, <1>4 DEF MapJobs
<1>5. CASE file' = Empty
  BY <1>5, WrapType DEF MapJobs, WithinBudget, Empty, Entries
<1> QED
  BY <1>3, <1>4, <1>5 DEF Next, Open, Quarantine, Close, QuarantineLocked, Garble, vars

\* However many jobs, processes and allowlists share a pull request and a
\* cycle, and whichever saves fail, the fixes counted for it stay within the
\* ceiling (increment_fix_count, watchlist.py:530-578).
THEOREM BudgetShared == Spec => []SiblingBudget
<1>1. BudgetInv <=> SiblingBudget
  BY DEF BudgetInv, SiblingBudget, WithinBudget, MapJobs
<1> QED
  BY <1>1, InitTypeOK, NextTypeOK, InitBudget, NextBudget, PTL DEF Spec

=============================================================================
