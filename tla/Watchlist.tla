----------------------------- MODULE Watchlist -----------------------------
(***************************************************************************)
(* The persistent watchlist of watchlist.py: Watchlist objects in several  *)
(* processes, each with its own owner allowlist and its own in-memory copy *)
(* of one shared JSON file.  A mutating method takes the file lock,        *)
(* reloads, changes its copy and saves by an atomic rename, so it is one   *)
(* step; the constructor reads without the lock, and on unparseable JSON   *)
(* renames the file away in a second step.                                 *)
(*                                                                         *)
(* A copy holds every entry of the file: those whose owner the process may *)
(* schedule are its jobs, the others (and the unreadable ones) are         *)
(* deferred: never shown, and written back as they came, except that an    *)
(* entry that is not an object is written back inside one.                 *)
(***************************************************************************)
EXTENDS WatchlistData, FiniteSets

CONSTANTS
  Handles,      \* Watchlist objects, each in a process of its own
  Allowed,      \* handle -> its allowed_owners
  Budgets,      \* max_fixes arguments of add
  MaxOps,       \* how many locked operations a behaviour has
  MaxFailures,  \* how many saves may fail (disk full, permission)
  MaxDamages    \* how often something else may garble the file

ASSUME AllowedAssumption == Allowed \in [Handles -> SUBSET Owners] /\ Budgets \subseteq 0..Ceiling
ASSUME JobIdsAssumption == IsFiniteSet(JobIds)
ASSUME BoundsAssumption ==
  MaxOps \in Nat /\ MaxFailures \in Nat /\ MaxDamages \in Nat

VARIABLES
  file,      \* job id -> entry of watchlist.json; a missing file is Empty
  garbled,   \* the file's text is not JSON
  pc,        \* "closed", "quarantine" (in the constructor) or "open"
  mem,       \* handle -> its copy: _jobs with _deferred_raw
  regrouped, \* a job changed its PR when fixes were already counted
  spent,     \* fixes counted so far for each owner, PR and cycle
  ops, failures, damages

vars == <<file, garbled, pc, mem, regrouped, spent, ops, failures, damages>>
bounds == <<ops, failures, damages>>
history == <<regrouped, spent>>

\* Entries an earlier session, or an editor, may have left in the file.
Leftover ==
  {NoJob, Unreadable, Bare} \cup
  [owner: Owners, pr: Prs, cycle: {None}, fixes: {0},
   max: {Ceiling}, notes: Notes] \cup
  [owner: Owners, pr: Prs, cycle: {None}, fixes: {-1},
   max: {Ceiling + 1}, notes: Notes]

\* _load puts the entry among the jobs of h rather than the deferred ones.
Active(h, r) == r \in Job /\ r.owner \in Allowed[h]

TypeOK ==
  /\ file \in [JobIds -> Entries]
  /\ garbled \in BOOLEAN
  /\ garbled => file = Empty
  /\ pc \in [Handles -> {"closed", "quarantine", "open"}]
  /\ mem \in [Handles -> [JobIds -> Entries]]
  /\ \A h \in Handles, id \in JobIds : Active(h, mem[h][id]) =>
       mem[h][id].fixes \in Nat /\ mem[h][id].max \in 0..Ceiling
  /\ regrouped \in BOOLEAN
  /\ spent \in [Owners \X Prs \X Cycles -> 0..ops]
  /\ ops \in 0..MaxOps
  /\ failures \in 0..MaxFailures
  /\ damages \in 0..MaxDamages

Init ==
  /\ file \in [JobIds -> Leftover]
  /\ garbled = FALSE
  /\ pc = [h \in Handles |-> "closed"]
  /\ mem = [h \in Handles |-> Empty]
  /\ regrouped = FALSE
  /\ spent = [budget \in Owners \X Prs \X Cycles |-> 0]
  /\ ops = 0
  /\ failures = 0
  /\ damages = 0

-----------------------------------------------------------------------------
(* Loading and saving.  An operator named ...Mutant is the definition below *)
(* it with a mistake the code could contain; no specification uses it.      *)

ActiveIds(h, jobs) == {id \in JobIds : Active(h, jobs[id])}

LoadedMutant(h) == mem[h]     \* no reload under the lock

WrapMutant(h) ==     \* an entry that is not an object is skipped
  [id \in JobIds |->
     IF Active(h, file[id]) THEN Clamp(file[id])
     ELSE IF file[id] = Bare THEN NoJob ELSE file[id]]

\* The copy _load makes of the file.
Loaded(h) ==
  [id \in JobIds |->
     IF Active(h, file[id]) THEN Clamp(file[id]) ELSE Wrap(file[id])]

\* A locked operation begins.
Locked(h) ==
  /\ pc[h] = "open"
  /\ ~garbled
  /\ ops < MaxOps
  /\ ops' = ops + 1
  /\ UNCHANGED <<garbled, pc, damages>>

SaveMutant(h, new, undone) ==     \* the deferred entries are not written
  /\ file' = [id \in JobIds |-> IF Active(h, new[id]) THEN new[id] ELSE NoJob]
  /\ mem' = [mem EXCEPT ![h] = new]
  /\ UNCHANGED failures

\* _save writes the changed copy, or fails and leaves `undone` in memory.
Save(h, new, undone) ==
  \/ /\ file' = new
     /\ mem' = [mem EXCEPT ![h] = new]
     /\ UNCHANGED failures
  \/ /\ failures < MaxFailures
     /\ failures' = failures + 1
     /\ mem' = [mem EXCEPT ![h] = undone]
     /\ UNCHANGED file

\* The operation ends in an exception (or finds nothing to save) after the
\* reload: the file stays as it is.
NoSave(h, copy) ==
  /\ mem' = [mem EXCEPT ![h] = copy]
  /\ UNCHANGED <<file, failures>>

-----------------------------------------------------------------------------
(* The constructor *)

\* _read_json without the lock, and _load of what it returned.
Open(h) ==
  /\ pc[h] = "closed"
  /\ pc' = [pc EXCEPT ![h] = IF garbled THEN "quarantine" ELSE "open"]
  /\ mem' = [mem EXCEPT ![h] = IF garbled THEN @ ELSE Loaded(h)]
  /\ UNCHANGED <<file, garbled, history, bounds>>

\* JSONDecodeError: _quarantine_corrupt renames what is at the path now, or
\* fails (nothing there); either way the constructor raises.
Quarantine(h) ==
  /\ pc[h] = "quarantine"
  /\ pc' = [pc EXCEPT ![h] = "closed"]
  /\ \/ file' = Empty /\ garbled' = FALSE
     \/ UNCHANGED <<file, garbled>>
  /\ UNCHANGED <<mem, history, bounds>>

\* The process ends, or drops the object.
Close(h) ==
  /\ pc[h] = "open"
  /\ pc' = [pc EXCEPT ![h] = "closed"]
  /\ mem' = [mem EXCEPT ![h] = Empty]
  /\ UNCHANGED <<file, garbled, history, bounds>>

-----------------------------------------------------------------------------
(* The locked operations *)

\* add: an owner outside the allowlist or a max_fixes above the ceiling was
\* refused before the lock; a deferred entry also takes the id.
Add(h, id, owner, max, notes) ==
  LET now == Loaded(h) IN
  /\ Locked(h)
  /\ owner \in Allowed[h]
  /\ now[id] = NoJob
  /\ Save(h, [now EXCEPT ![id] = Fresh(owner, max, notes)], now)
  /\ UNCHANGED history

\* remove: active or deferred.
Remove(h, id) ==
  LET after == [Loaded(h) EXCEPT ![id] = NoJob] IN
  /\ Locked(h)
  /\ file[id] # NoJob
  /\ Save(h, after, after)
  /\ UNCHANGED history

\* update_status, set_blockers and record_check.
Annotate(h, id, notes) ==
  LET after == [Loaded(h) EXCEPT ![id].notes = notes] IN
  /\ Locked(h)
  /\ Active(h, file[id])
  /\ Save(h, after, after)
  /\ UNCHANGED history

\* set_pr
SetPr(h, id, pr) ==
  LET after == [Loaded(h) EXCEPT ![id].pr = pr] IN
  /\ Locked(h)
  /\ Active(h, file[id])
  /\ Save(h, after, after)
  /\ regrouped' = (regrouped \/ (file[id].pr # pr /\ file[id].fixes > 0))
  /\ UNCHANGED spent

BeginMutant(h, ids, c) ==     \* the count survives the new cycle
  LET after == [id \in JobIds |-> IF id \in ids
                                  THEN [Loaded(h)[id] EXCEPT !.cycle = c]
                                  ELSE Loaded(h)[id]] IN
  /\ Locked(h)
  /\ ids \subseteq ActiveIds(h, file)
  /\ Save(h, after, after)
  /\ UNCHANGED history

\* begin_babysit_cycle, for one job or for all the jobs of h.
BeginCycle(h, ids, c) ==
  LET now == Loaded(h)
      after == [id \in JobIds |->
                  IF id \in ids THEN EnterCycle(now[id], c) ELSE now[id]] IN
  /\ Locked(h)
  /\ ids \subseteq ActiveIds(h, file)
  /\ Save(h, after, after)
  /\ UNCHANGED history

\* A saved increment of the job's record r.
Spend(r) ==
  spent' = IF r.pr = None \/ r.cycle = None THEN spent
           ELSE [spent EXCEPT ![<<r.owner, r.pr, r.cycle>>] = @ + 1]

IncrementMutant(h, id, c) ==     \* only the job's own count is compared
  LET entered == [Loaded(h) EXCEPT ![id] = EnterCycle(@, c)] IN
  /\ Locked(h)
  /\ Active(h, file[id])
  /\ IF entered[id].fixes < LesserOf(entered[id].max, Ceiling)
     THEN Save(h, AddFix(entered, id), entered)
     ELSE NoSave(h, entered)
  /\ IF file' # file THEN Spend(entered[id]) ELSE UNCHANGED spent
  /\ UNCHANGED regrouped

\* increment_fix_count: the budget is shared by the siblings; a failed save
\* takes the increment back but not the restart of the count.
Increment(h, id, c) ==
  LET entered == [Loaded(h) EXCEPT ![id] = EnterCycle(@, c)] IN
  /\ Locked(h)
  /\ Active(h, file[id])
  /\ IF HasBudget(entered, id)
     THEN Save(h, AddFix(entered, id), entered)
     ELSE NoSave(h, entered)
  /\ IF file' # file THEN Spend(entered[id]) ELSE UNCHANGED spent
  /\ UNCHANGED regrouped

\* check(record=True), which saves when a job matched, and the operations
\* that raise KeyError or ValueError after the reload.
Check(h) ==
  /\ Locked(h)
  /\ IF ActiveIds(h, file) # {} THEN Save(h, Loaded(h), Loaded(h))
                                ELSE NoSave(h, Loaded(h))
  /\ UNCHANGED history

Refuse(h) ==
  /\ Locked(h)
  /\ NoSave(h, Loaded(h))
  /\ UNCHANGED history

\* A locked operation on unparseable JSON: quarantine, then CorruptStateError.
QuarantineLocked(h) ==
  /\ pc[h] = "open"
  /\ garbled
  /\ garbled' = FALSE
  /\ UNCHANGED <<file, pc, mem, history, bounds>>

-----------------------------------------------------------------------------

\* Something outside this code damages the file.
Garble ==
  /\ damages < MaxDamages
  /\ damages' = damages + 1
  /\ garbled' = TRUE
  /\ file' = Empty
  /\ UNCHANGED <<pc, mem, history, ops, failures>>

Operation(h) ==
  \/ \E id \in JobIds, o \in Owners, m \in Budgets, n \in Notes :
       Add(h, id, o, m, n)
  \/ \E id \in JobIds : Remove(h, id)
  \/ \E id \in JobIds, n \in Notes : Annotate(h, id, n)
  \/ \E id \in JobIds, pr \in Prs : SetPr(h, id, pr)
  \/ \E c \in Cycles, ids \in {ActiveIds(h, file)} \cup {{id} : id \in JobIds} :
       BeginCycle(h, ids, c)
  \/ \E id \in JobIds, c \in Cycles \cup {None} : Increment(h, id, c)
  \/ Check(h)
  \/ Refuse(h)

Next ==
  \/ \E h \in Handles :
       Open(h) \/ Quarantine(h) \/ Close(h) \/ Operation(h) \/ QuarantineLocked(h)
  \/ Garble

Spec == Init /\ [][Next]_vars

-----------------------------------------------------------------------------
(* Properties *)

\* The counted fixes of the jobs that share a pull request and a cycle never
\* exceed three together, whichever processes count them with whatever
\* max_fixes, and whatever saves fail ("cap is per PR per cycle",
\* watchlist.py:530), as long as no job that had fixes was moved to a PR.
SiblingBudget ==
  ~regrouped =>
    LET jobs == [id \in JobIds |-> Clamp(file[id])] IN
    \A id \in JobIds : jobs[id] \in Job => Used(jobs, id) <= Ceiling

\* An entry a process may not schedule, or cannot read, goes through its
\* saves unchanged, or inside a wrapper if it is not an object, and disappears
\* only by a remove that names it (watchlist.py:308-309, 335-338); in
\* particular begin, check and add leave it alone.
\* (Only the process itself changes its copy, so a changed copy tells who
\* made the step.)
DeferredKept ==
  [][\A h \in Handles : ops' # ops /\ mem'[h] # mem[h] =>
       \A id \in JobIds : file[id] # NoJob /\ ~Active(h, file[id]) =>
         \/ file'[id] \in {file[id], Wrap(file[id])}
         \/ /\ file'[id] = NoJob
            /\ \A i \in JobIds \ {id} : Clamp(file'[i]) = Clamp(file[i])]_vars

\* REVIEW.md:35, "Python limits each PR to three code-fix commits per babysit
\* cycle": counting over the whole history, no PR gets more for one cycle.
BudgetPerCycle ==
  \A budget \in Owners \X Prs \X Cycles : spent[budget] <= Ceiling

-----------------------------------------------------------------------------
(* The shared map that the copies and the file implement *)

Map == INSTANCE WatchlistMap WITH
  jobs <- [id \in JobIds |-> Clamp(file[id])],
  damaged <- damages > 0

\* No copy is ever written back stale: every operation acts on the one map.
ImplementsMap == Map!Spec

=============================================================================
