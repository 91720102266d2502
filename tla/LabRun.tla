------------------------------- MODULE LabRun -------------------------------
(***************************************************************************)
(* One lab unit from start to end: run_lab_unit of lab_run.py.  A run      *)
(* allocates a worktree, wipes the findings pair in it, runs a command in  *)
(* a session of its own, ends what is left of the session, reads the pair  *)
(* back, compares it with the job, and on request tears the job down when  *)
(* something failed.  Around it the command forks and writes, Ctrl+C may   *)
(* come at any point and other processes tear jobs down.                   *)
(*                                                                         *)
(* allocate is one step here, with what LabJobRegistry promises of it; a   *)
(* teardown is two, as a failure between them matters.  Of a file only     *)
(* who wrote it is kept, and whether it passes: for the JSON that it       *)
(* parses and names the job, for the Markdown that it has its headings.    *)
(***************************************************************************)
EXTENDS Naturals

CONSTANTS
  Runs,     \* calls of run_lab_unit
  JobIds,
  Branch,   \* whoever committed findings to the branch of a job
  None      \* no file, no exit code

ASSUME NamesAssumption == None \notin Nat /\ Branch \notin Runs

Files == [by: Runs \cup {Branch}, good: BOOLEAN]

ASSUME NoneAssumption == None \notin Files

\* The members of a command's process group.
Group == {"child", "descendant"}

VARIABLES
  wants,    \* run -> its job id
  command,  \* run -> a command was given
  undo,     \* run -> teardown_on_error
  pc,
  mode,     \* "try": in the body; "again": in the handler of an unexpected
            \* error; "raise": in the handler of a known one
  group,    \* run -> processes alive in its command's group
  stray,    \* run -> of a descendant in a session of its own: "no", "alive", "gone"
  exit,     \* run -> command_exit
  seen,     \* run -> the pair it has read
  report,   \* run -> the result carries the report
  noted,    \* run -> the result says that the teardown failed
  answer,   \* run -> how it ended
  status,   \* job id -> its state in the registry
  tree,     \* job id -> its worktree exists
  json, md  \* job id -> findings.json and findings.md in the worktree

params == <<wants, command, undo>>
processes == <<group, stray>>
result == <<exit, seen, report, noted, answer>>
disk == <<tree, json, md>>
vars == <<params, pc, mode, processes, result, status, disk>>

Starting == {"wipe", "wipe_md", "spawn"}
Running == {"started", "wait", "reap"}
Reading == {"read", "read_md", "judge"}
Settling == {"remove", "tomb"}
Active == Starting \cup Running \cup Reading \cup Settling

Unread == [json |-> None, md |-> None]

TypeOK ==
  /\ wants \in [Runs -> JobIds]
  /\ command \in [Runs -> BOOLEAN]
  /\ undo \in [Runs -> BOOLEAN]
  /\ pc \in [Runs -> {"new", "done"} \cup Active]
  /\ mode \in [Runs -> {"try", "again", "raise"}]
  /\ group \in [Runs -> SUBSET Group]
  /\ stray \in [Runs -> {"no", "alive", "gone"}]
  /\ exit \in [Runs -> {None, 0, 1}]
  /\ seen \in [Runs -> [json: Files \cup {None}, md: Files \cup {None}]]
  /\ report \in [Runs -> BOOLEAN]
  /\ noted \in [Runs -> BOOLEAN]
  /\ answer \in [Runs -> {"none", "ok", "failed", "raised", "interrupted", "orphaned"}]
  /\ status \in [JobIds -> {"absent", "allocated", "torn_down"}]
  /\ tree \in [JobIds -> BOOLEAN]
  /\ json \in [JobIds -> Files \cup {None}]
  /\ md \in [JobIds -> Files \cup {None}]

Init ==
  /\ wants \in [Runs -> JobIds]
  /\ command \in [Runs -> BOOLEAN]
  /\ undo \in [Runs -> BOOLEAN]
  /\ pc = [r \in Runs |-> "new"]
  /\ mode = [r \in Runs |-> "try"]
  /\ group = [r \in Runs |-> {}]
  /\ stray = [r \in Runs |-> "no"]
  /\ exit = [r \in Runs |-> None]
  /\ seen = [r \in Runs |-> Unread]
  /\ report = [r \in Runs |-> FALSE]
  /\ noted = [r \in Runs |-> FALSE]
  /\ answer = [r \in Runs |-> "none"]
  /\ status = [id \in JobIds |-> "absent"]
  /\ tree = [id \in JobIds |-> FALSE]
  /\ json = [id \in JobIds |-> None]
  /\ md = [id \in JobIds |-> None]

Goto(r, from, to) == pc[r] = from /\ pc' = [pc EXCEPT ![r] = to]

Finish(r, value) ==
  /\ pc' = [pc EXCEPT ![r] = "done"]
  /\ answer' = [answer EXCEPT ![r] = value]

\* _kill_process_tree: SIGKILL to the saved group.
KillGroup(r) == group' = [group EXCEPT ![r] = {}]

\* The tree is removed, and with it what is in it.
RemoveTree(id) ==
  /\ tree' = [tree EXCEPT ![id] = FALSE]
  /\ json' = [json EXCEPT ![id] = None]
  /\ md' = [md EXCEPT ![id] = None]

\* A failed result, an unexpected error, a known error: what the body and
\* the handlers do with it is a teardown if asked for, then the end.
Leave(r, as) ==
  /\ mode' = [mode EXCEPT ![r] = as]
  /\ IF undo[r] THEN /\ pc' = [pc EXCEPT ![r] = "remove"]
                     /\ UNCHANGED answer
                ELSE Finish(r, IF as = "raise" THEN "raised" ELSE "failed")

-----------------------------------------------------------------------------
(* run_lab_unit.  An operator named ...Mutant is the action below it with   *)
(* a mistake the code could contain; no specification uses it.             *)

\* The command is refused, the timeout is no positive number, or allocate
\* raises and has given its reservation back.
Refuse(r) ==
  /\ pc[r] = "new"
  /\ Finish(r, "raised")
  /\ UNCHANGED <<params, mode, processes, exit, seen, report, noted, status, disk>>

\* The worktree holds what its branch holds, old findings included.
Allocate(r) ==
  /\ Goto(r, "new", IF command[r] THEN "wipe" ELSE "read")
  /\ status[wants[r]] = "absent"
  /\ status' = [status EXCEPT ![wants[r]] = "allocated"]
  /\ tree' = [tree EXCEPT ![wants[r]] = TRUE]
  /\ \E j, m \in [by: {Branch}, good: BOOLEAN] \cup {None} :
       /\ json' = [json EXCEPT ![wants[r]] = j]
       /\ md' = [md EXCEPT ![wants[r]] = m]
  /\ UNCHANGED <<params, mode, processes, result>>

WipeJson(r) ==
  /\ Goto(r, "wipe", "wipe_md")
  /\ json' = [json EXCEPT ![wants[r]] = None]
  /\ UNCHANGED <<params, mode, processes, result, status, tree, md>>

WipeMdMutant(r) ==     \* the Markdown carries no identity: it may stay
  /\ Goto(r, "wipe_md", "spawn")
  /\ UNCHANGED <<params, mode, processes, result, status, disk>>

WipeMd(r) ==
  /\ Goto(r, "wipe_md", "spawn")
  /\ md' = [md EXCEPT ![wants[r]] = None]
  /\ UNCHANGED <<params, mode, processes, result, status, tree, json>>

\* unlink fails with something else than FileNotFoundError.
WipeFails(r) ==
  /\ pc[r] \in {"wipe", "wipe_md"}
  /\ Leave(r, "raise")
  /\ UNCHANGED <<params, processes, exit, seen, report, noted, status, disk>>

\* Popen returns.  The try block that kills the group begins after it.
Spawn(r) ==
  /\ Goto(r, "spawn", "started")
  /\ tree[wants[r]]
  /\ group' = [group EXCEPT ![r] = {"child"}]
  /\ UNCHANGED <<params, mode, stray, result, status, disk>>

SpawnFailsMutant(r) ==     \* returns the result past _maybe_teardown
  /\ pc[r] = "spawn"
  /\ Finish(r, "failed")
  /\ UNCHANGED <<params, mode, processes, exit, seen, report, noted, status, disk>>

\* No such program, or the worktree is gone: COMMAND_FAILED.
SpawnFails(r) ==
  /\ pc[r] = "spawn"
  /\ Leave(r, "try")
  /\ UNCHANGED <<params, processes, exit, seen, report, noted, status, disk>>

Watch(r) ==
  /\ Goto(r, "started", "wait")
  /\ UNCHANGED <<params, mode, processes, result, status, disk>>

\* proc.wait returns once the child has ended, whatever it left behind.
WaitReturns(r) ==
  /\ Goto(r, "wait", "reap")
  /\ "child" \notin group[r]
  /\ \E code \in {0, 1} : exit' = [exit EXCEPT ![r] = code]
  /\ UNCHANGED <<params, mode, processes, seen, report, noted, answer, status, disk>>

TimesOutMutant(r) ==     \* kills the child only
  /\ pc[r] = "wait"
  /\ group' = [group EXCEPT ![r] = @ \ {"child"}]
  /\ Leave(r, "try")
  /\ UNCHANGED <<params, stray, exit, seen, report, noted, status, disk>>

TimesOutLateMutant(r) ==     \* wait(timeout) looks for the exit only
  /\ pc[r] = "wait"
  /\ "child" \notin group[r]
  /\ KillGroup(r)
  /\ Leave(r, "try")
  /\ UNCHANGED <<params, stray, exit, seen, report, noted, status, disk>>

\* command_timeout passes: the group is killed, COMMAND_FAILED, and the
\* findings are not looked at.
TimesOut(r) ==
  /\ pc[r] = "wait"
  /\ KillGroup(r)
  /\ Leave(r, "try")
  /\ UNCHANGED <<params, stray, exit, seen, report, noted, status, disk>>

ReapMutant(r) ==     \* the command has ended, so nothing is left to kill
  /\ Goto(r, "reap", "read")
  /\ UNCHANGED <<params, mode, processes, result, status, disk>>

\* What the launcher left in its session ends before the findings are read.
Reap(r) ==
  /\ Goto(r, "reap", "read")
  /\ KillGroup(r)
  /\ UNCHANGED <<params, mode, stray, result, status, disk>>

-----------------------------------------------------------------------------
(* load_findings_pair and the verdict. *)

\* Both files must be there; then the JSON is read.
ReadJson(r) ==
  LET there == json[wants[r]] # None /\ md[wants[r]] # None
  IN /\ Goto(r, "read", IF there THEN "read_md" ELSE "judge")
     /\ seen' = [seen EXCEPT ![r].json = IF there THEN json[wants[r]] ELSE None]
     /\ UNCHANGED <<params, mode, processes, exit, report, noted, answer, status, disk>>

ReadMd(r) ==
  /\ Goto(r, "read_md", "judge")
  /\ seen' = [seen EXCEPT ![r].md = md[wants[r]]]
  /\ UNCHANGED <<params, mode, processes, exit, report, noted, answer, status, disk>>

Passes(file) == file # None /\ file.good

Valid(r) == Passes(seen[r].json) /\ Passes(seen[r].md)

Credit(r) ==
  /\ pc[r] = "judge"
  /\ Valid(r)
  /\ exit[r] # 1
  /\ report' = [report EXCEPT ![r] = TRUE]
  /\ Finish(r, "ok")
  /\ UNCHANGED <<params, mode, processes, exit, seen, noted, status, disk>>

\* COMMAND_FAILED keeps a report that passes; FINDINGS_INVALID has none.
Reject(r) ==
  /\ pc[r] = "judge"
  /\ ~Valid(r) \/ exit[r] = 1
  /\ report' = [report EXCEPT ![r] = Valid(r)]
  /\ Leave(r, "try")
  /\ UNCHANGED <<params, processes, exit, seen, noted, status, disk>>

\* Anything else raised on the way (Popen refuses an argument, the JSON
\* nests too deep): LAB_RUN_ERROR.
Breaks(r) ==
  /\ pc[r] \in {"spawn", "judge"}
  /\ Leave(r, "again")
  /\ UNCHANGED <<params, processes, exit, seen, report, noted, status, disk>>

-----------------------------------------------------------------------------
(* _teardown_job, from _maybe_teardown or from the handler.                 *)

TornDown(r) == Finish(r, IF mode[r] = "raise" THEN "raised" ELSE "failed")

\* LabJobManager.teardown finds a tombstone.
AlreadyTorn(r) ==
  /\ pc[r] = "remove"
  /\ status[wants[r]] = "torn_down"
  /\ TornDown(r)
  /\ UNCHANGED <<params, mode, processes, exit, seen, report, noted, status, disk>>

\* `wh worktree remove --force`; a path that is gone already will do.
Remove(r) ==
  /\ Goto(r, "remove", "tomb")
  /\ status[wants[r]] = "allocated"
  /\ RemoveTree(wants[r])
  /\ UNCHANGED <<params, mode, processes, result, status>>

Tombstone(r) ==
  /\ pc[r] = "tomb"
  /\ status' = [status EXCEPT ![wants[r]] = "torn_down"]
  /\ TornDown(r)
  /\ UNCHANGED <<params, mode, processes, exit, seen, report, noted, disk>>

\* LabJobError or PolicyError, from `wh` or from the store.
TeardownFails(r) ==
  /\ pc[r] \in Settling
  /\ noted' = [noted EXCEPT ![r] = TRUE]
  /\ TornDown(r)
  /\ UNCHANGED <<params, mode, processes, exit, seen, report, status, disk>>

\* The store cannot be written (OSError).  Out of the body that is one more
\* unexpected error, and its handler tears down again; out of a handler it
\* is raised to the caller.
TeardownBreaks(r) ==
  /\ pc[r] = "tomb"
  /\ IF mode[r] = "try"
       THEN /\ pc' = [pc EXCEPT ![r] = "remove"]
            /\ mode' = [mode EXCEPT ![r] = "again"]
            /\ report' = [report EXCEPT ![r] = FALSE]
            /\ UNCHANGED answer
       ELSE /\ Finish(r, "raised")
            /\ UNCHANGED <<mode, report>>
  /\ UNCHANGED <<params, processes, exit, seen, noted, status, disk>>

\* KeyboardInterrupt: the command has a session of its own and does not get
\* the signal.  Inside the try of _run_command the group is killed; between
\* Popen and that try it is left running.  No handler tears the job down.
Interrupt(r) ==
  /\ pc[r] \in Active
  /\ IF pc[r] \in {"wait", "reap"} THEN KillGroup(r) ELSE UNCHANGED group
  /\ Finish(r, IF pc[r] = "started" THEN "orphaned" ELSE "interrupted")
  /\ UNCHANGED <<params, mode, stray, exit, seen, report, noted, status, disk>>

-----------------------------------------------------------------------------
(* The command's processes, and everybody else. *)

Fork(r) ==
  /\ "child" \in group[r]
  /\ group' = [group EXCEPT ![r] = Group]
  /\ UNCHANGED <<params, pc, mode, stray, result, status, disk>>

Exit(r) ==
  /\ \E p \in group[r] : group' = [group EXCEPT ![r] = @ \ {p}]
  /\ UNCHANGED <<params, pc, mode, stray, result, status, disk>>

\* A descendant calls setsid: killpg will not reach it.
LeaveSession(r) ==
  /\ "descendant" \in group[r]
  /\ stray[r] = "no"
  /\ group' = [group EXCEPT ![r] = @ \ {"descendant"}]
  /\ stray' = [stray EXCEPT ![r] = "alive"]
  /\ UNCHANGED <<params, pc, mode, result, status, disk>>

StrayExits(r) ==
  /\ stray[r] = "alive"
  /\ stray' = [stray EXCEPT ![r] = "gone"]
  /\ UNCHANGED <<params, pc, mode, group, result, status, disk>>

\* Two files, two writes.
Write(r) ==
  /\ group[r] # {} \/ stray[r] = "alive"
  /\ tree[wants[r]]
  /\ \E file \in [by: {r}, good: BOOLEAN] :
       \/ json' = [json EXCEPT ![wants[r]] = file] /\ UNCHANGED md
       \/ md' = [md EXCEPT ![wants[r]] = file] /\ UNCHANGED json
  /\ UNCHANGED <<params, pc, mode, processes, result, status, tree>>

\* Another process tears the job down while the run is at work.
OthersTearDown(id) ==
  /\ status[id] = "allocated"
  /\ status' = [status EXCEPT ![id] = "torn_down"]
  /\ RemoveTree(id)
  /\ UNCHANGED <<params, pc, mode, processes, result>>

-----------------------------------------------------------------------------
Step(r) ==
  \/ Refuse(r) \/ Allocate(r)
  \/ WipeJson(r) \/ WipeMd(r) \/ WipeFails(r)
  \/ Spawn(r) \/ SpawnFails(r) \/ Watch(r)
  \/ WaitReturns(r) \/ TimesOut(r) \/ Reap(r)
  \/ ReadJson(r) \/ ReadMd(r) \/ Credit(r) \/ Reject(r) \/ Breaks(r)
  \/ AlreadyTorn(r) \/ Remove(r) \/ Tombstone(r)
  \/ TeardownFails(r) \/ TeardownBreaks(r)

Command(r) ==
  Fork(r) \/ Exit(r) \/ LeaveSession(r) \/ StrayExits(r) \/ Write(r)

Next ==
  \/ \E r \in Runs : Step(r) \/ Interrupt(r) \/ Command(r)
  \/ \E id \in JobIds : OthersTearDown(id)

Spec == Init /\ [][Next]_vars

\* A run goes on as long as it can; its timer is part of it.  Nothing is
\* assumed of the command: it may never end.
FairSpec == Spec /\ \A r \in Runs : WF_vars(Step(r))

-----------------------------------------------------------------------------
(* Properties. *)

\* Both files of a report that a run with a command returns were written by
\* that command: neither the branch nor the command of another run can be
\* taken for it (_wipe_findings_pair, lab_run.py:341-343).
CreditedIsOwn ==
  \A r \in Runs : report[r] /\ command[r] => seen[r].json.by = r /\ seen[r].md.by = r

\* Once a run has left _run_command, by return, by a time-out or by Ctrl+C,
\* nothing is left in the group of its command: no process writes to the
\* findings while they are read or to a tree while it is removed
\* (lab_run.py:548-565).  Ctrl+C between Popen and the try is excepted.
NoneOutlives ==
  \A r \in Runs : group[r] # {} => pc[r] \in Running \/ answer[r] = "orphaned"

\* The pair a successful run has credited is the pair in the worktree, for
\* as long as there is one, unless a descendant had left the session: the
\* group ends before the files are read (lab_run.py:557-558), and no other
\* run gets the job id.
ReportedPairStands ==
  \A r \in Runs :
    answer[r] = "ok" /\ stray[r] = "no" /\ tree[wants[r]]
      => seen[r] = [json |-> json[wants[r]], md |-> md[wants[r]]]

\* With teardown_on_error a failed result means that the job is torn down,
\* or says that it is not, even when the first attempt at it broke off
\* between the removal and the tombstone (lab_run.py:442-471).
FailureIsSettled ==
  \A r \in Runs :
    undo[r] /\ answer[r] = "failed" => status[wants[r]] = "torn_down" \/ noted[r]

\* Every run comes back, whatever its command does: the wait is timed and
\* what is killed need not be waited for (lab_run.py:549-555).
RunEnds == \A r \in Runs : <>(pc[r] = "done")

=============================================================================
