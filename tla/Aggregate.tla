------------------------------ MODULE Aggregate ------------------------------
(***************************************************************************)
(* A unit of the aggregate report (aggregate.py), put together with the    *)
(* runs of LabRun: once the runs have ended, however they have,            *)
(* collect_unit reads the findings pair in a run's worktree a second time  *)
(* and says what became of the unit.  The job may be torn down, and        *)
(* processes that left the command's session may write, while it does.     *)
(*                                                                         *)
(* It is given nothing of the run's own result but the caller's word that  *)
(* the worker timed out.  Collecting changes nothing a run looks at, so    *)
(* one collection, of any run, stands for all.                             *)
(***************************************************************************)
EXTENDS LabRun

VARIABLES
  unit,     \* the run whose pair is collected
  step,
  pair,     \* the two files as read
  outcome,  \* UnitOutcome
  kept      \* the unit carries the report

collector == <<unit, step, pair, outcome, kept>>

Outcomes == {"reported", "missing_report", "invalid_report", "timeout"}

CollectorTypeOK ==
  /\ unit \in Runs \cup {None}
  /\ step \in {"idle", "load", "load_md", "judge", "done"}
  /\ pair \in [json: Files \cup {None}, md: Files \cup {None}]
  /\ outcome \in Outcomes \cup {"none"}
  /\ kept \in BOOLEAN

CollectorInit ==
  /\ unit = None /\ step = "idle" /\ pair = Unread
  /\ outcome = "none" /\ kept = FALSE

Advance(from, to) == step = from /\ step' = to

\* The unit is what the files say, or a time-out if the caller says so.
Disposed(as) == \E timed_out \in BOOLEAN : outcome' = IF timed_out THEN "timeout" ELSE as

There == json[wants[unit']] # None /\ md[wants[unit']] # None

\* The batch collects after its runs; a file is missing, or the pair is loaded.
Look(r) ==
  /\ \A q \in Runs : pc[q] = "done"
  /\ unit' = r
  /\ IF There THEN Advance("idle", "load") /\ UNCHANGED outcome
              ELSE Advance("idle", "done") /\ Disposed("missing_report")
  /\ UNCHANGED <<vars, pair, kept>>

\* load_findings_pair looks for the files once more.
Load ==
  /\ UNCHANGED unit
  /\ Advance("load", IF There THEN "load_md" ELSE "judge")
  /\ pair' = [pair EXCEPT !.json = IF There THEN json[wants[unit]] ELSE None]
  /\ UNCHANGED <<vars, outcome, kept>>

LoadMd ==
  /\ Advance("load_md", "judge")
  /\ pair' = [pair EXCEPT !.md = md[wants[unit]]]
  /\ UNCHANGED <<vars, unit, outcome, kept>>

\* Of the identity only the hypothesis is compared, so JSON that the run has
\* turned down for its agent, role or worktree may do.
MayPass(file) == file # None
MayFail(file) == ~Passes(file)

JudgeMutant ==     \* a unit that timed out is not given its report
  /\ Advance("judge", "done")
  /\ \/ /\ MayPass(pair.json) /\ Passes(pair.md)
        /\ \/ kept' = TRUE /\ outcome' = "reported"
           \/ kept' = FALSE /\ outcome' = "timeout"
     \/ /\ MayFail(pair.json) \/ ~Passes(pair.md)
        /\ kept' = FALSE
        /\ Disposed("invalid_report")
  /\ UNCHANGED <<vars, unit, pair>>

Judge ==
  /\ Advance("judge", "done")
  /\ \/ /\ MayPass(pair.json) /\ Passes(pair.md)
        /\ kept' = TRUE
        /\ Disposed("reported")
     \/ /\ MayFail(pair.json) \/ ~Passes(pair.md)
        /\ kept' = FALSE
        /\ Disposed("invalid_report")
  /\ UNCHANGED <<vars, unit, pair>>

Collect == (\E r \in Runs : Look(r)) \/ Load \/ LoadMd \/ Judge

BatchInit == Init /\ CollectorInit

BatchNext ==
  \/ \E r \in Runs : Step(r) /\ UNCHANGED collector
  \/ \E r \in Runs : Interrupt(r) /\ UNCHANGED collector
  \/ \E r \in Runs : Command(r) /\ UNCHANGED collector
  \/ \E id \in JobIds : OthersTearDown(id) /\ UNCHANGED collector
  \/ Collect

\* As in LabRun a run goes on as long as it can.
BatchSpec ==
  BatchInit /\ [][BatchNext]_<<vars, collector>> /\ \A r \in Runs : WF_vars(Step(r))

-----------------------------------------------------------------------------
(* Properties. *)

\* The report of a unit whose run has come back with a result was written by
\* that run's command, although the collector has no way to tell: whatever
\* the branch brought was wiped, and the worktree is nobody else's
\* (aggregate.py:180-197).  A run that raised or was interrupted may not have
\* come to the wiping.
UnitIsOwn ==
  kept /\ command[unit] /\ answer[unit] \in {"ok", "failed"}
    => pair.json.by = unit /\ pair.md.by = unit

\* Nothing a successful run has credited is lost on the second reading: while
\* its worktree stands its unit carries the very pair, even when the caller
\* takes it for timed out (aggregate.py:198-202).
OkIsReported ==
  step = "done" /\ answer[unit] = "ok" /\ stray[unit] = "no" /\ tree[wants[unit]]
    => kept /\ pair = seen[unit] /\ outcome \in {"reported", "timeout"}

UnitAgreesWithRun == UnitIsOwn /\ OkIsReported

=============================================================================
