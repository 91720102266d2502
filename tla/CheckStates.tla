----------------------------- MODULE CheckStates -----------------------------
(***************************************************************************)
(* What a CI check on GitHub means to the four parts of the program that   *)
(* read one: discover.py sums up a roll-up, babysit.py classifies a        *)
(* roll-up (classify_pr) and lists the required checks (CheckRun), and     *)
(* ci_taxonomy.py decides who may repair a check and whether to run it     *)
(* again.  Each has its own lists of states.                               *)
(*                                                                         *)
(* A check is a run with a status and, once completed, a conclusion, or a  *)
(* commit status with a state.  The roll-up shows these fields; `gh pr     *)
(* checks` shows one state, and a bucket.                                  *)
(***************************************************************************)
EXTENDS FiniteSets

Conclusions == {"SUCCESS", "FAILURE", "NEUTRAL", "CANCELLED", "TIMED_OUT", "ACTION_REQUIRED",
                "SKIPPED", "STALE", "STARTUP_FAILURE"}
Unfinished == {"QUEUED", "IN_PROGRESS", "PENDING", "WAITING", "REQUESTED"}
CommitStates == {"SUCCESS", "FAILURE", "ERROR", "PENDING", "EXPECTED"}

\* What GitHub has; a field that is not there reads as "".
Raw ==
  [status: {"COMPLETED"}, conclusion: Conclusions, state: {""}]
    \cup [status: Unfinished, conclusion: {""}, state: {""}]
    \cup [status: {""}, conclusion: {""}, state: CommitStates]

Or(first, second) == IF first # "" THEN first ELSE second

\* The state `gh pr checks` shows, and its bucket.
GhState(c) == IF c.status = "COMPLETED" THEN c.conclusion ELSE Or(c.state, c.status)
GhBucket(c) ==
  CASE GhState(c) = "SUCCESS" -> "pass"
    [] GhState(c) \in {"SKIPPED", "NEUTRAL"} -> "skipping"
    [] GhState(c) \in {"ERROR", "FAILURE", "TIMED_OUT", "ACTION_REQUIRED"} -> "fail"
    [] GhState(c) = "CANCELLED" -> "cancel"
    [] OTHER -> "pending"

-----------------------------------------------------------------------------
(* discover.py: _summarize_ci_rollup                                       *)

RollupFails(c) ==
  \/ c.conclusion \in {"FAILURE", "ERROR", "ACTION_REQUIRED", "TIMED_OUT", "CANCELLED"}
  \/ Or(c.state, c.status) \in {"FAILURE", "ERROR", "CANCELLED"}

RollupOpen(c) ==
  /\ ~RollupFails(c)
  /\ \/ Or(c.state, c.status) \in Unfinished \cup {"EXPECTED"}
     \/ /\ c.conclusion = ""
        /\ Or(c.state, c.status) \notin {"SUCCESS", "COMPLETED", "SKIPPED"}

RollupPends(c) == RollupOpen(c) /\ c.conclusion \notin {"SUCCESS", "SKIPPED", "NEUTRAL"}

RollupSucceeds(c) ==
  /\ ~RollupFails(c) /\ ~RollupOpen(c)
  /\ "SUCCESS" \in {c.conclusion, Or(c.state, c.status)}

SummaryMutant(checks) ==     \* one success is enough
  IF checks = {} THEN "unknown"
  ELSE IF \E c \in checks : RollupFails(c) THEN "failure"
  ELSE IF \E c \in checks : RollupSucceeds(c) THEN "success"
  ELSE IF \E c \in checks : RollupPends(c) THEN "pending"
  ELSE "neutral"

Summary(checks) ==
  IF checks = {} THEN "unknown"
  ELSE IF \E c \in checks : RollupFails(c) THEN "failure"
  ELSE IF \E c \in checks : RollupPends(c) THEN "pending"
  ELSE IF \E c \in checks : RollupSucceeds(c) THEN "success"
  ELSE "neutral"

-----------------------------------------------------------------------------
(* babysit.py: classify_pr on the roll-up, CheckRun on `gh pr checks`       *)

Failures == {"FAILURE", "ERROR", "ACTION_REQUIRED", "TIMED_OUT", "CANCELLED", "STARTUP_FAILURE"}
Waiting == Unfinished \cup {"EXPECTED", "STALE"}

ClassifyFails(c) ==
  \/ c.conclusion \in Failures
  \/ c.state \in {"FAILURE", "ERROR", "CANCELLED", "STARTUP_FAILURE"}
ClassifyPends(c) == c.state \in Waiting \/ c.status \in Waiting

\* The conclusion of a CheckRun is the state if that is final, or what the
\* bucket stands for; "" is None.
Terminal == Failures \cup {"SUCCESS", "SKIPPED"}
RunConclusion(c) ==
  CASE GhState(c) \in Terminal -> GhState(c)
    [] GhState(c) \notin Terminal /\ GhBucket(c) = "skipping" -> "SKIPPED"
    [] OTHER -> ""

RunFails(c) == RunConclusion(c) \in Failures
RunPends(c) == GhState(c) \in Waiting

-----------------------------------------------------------------------------
(* ci_taxonomy.py                                                          *)

\* _normalize_conclusion; what it does not know is pending.
Verdict(c) ==
  CASE GhState(c) = "ERROR" -> "FAILURE"
    [] GhState(c) \in Conclusions -> GhState(c)
    [] OTHER -> "PENDING"

\* A check as classify_check sees it: does the text name a quality gate, a
\* review bot; is the link one to a run of GitHub Actions?
Entries == [check: Raw, gate: BOOLEAN, bot: BOOLEAN, run: BOOLEAN]

Class(e) ==
  CASE e.gate -> "B"
    [] ~e.gate /\ ~e.bot /\ e.run -> "A"
    [] OTHER -> "C"

Settled == {"SUCCESS", "SKIPPED", "NEUTRAL", "PENDING"}

Policies(e) ==
  IF Verdict(e.check) \in Settled THEN {}
  ELSE {"FORBID_IGNORE"} \cup
       CASE Class(e) = "A" -> {"FIX_SOURCE", "RERUN", "REPLY_WITH_SHA", "FORBID_EMPTY_COMMIT"}
         [] Class(e) = "B" -> {"FIX_SOURCE", "REPLY_WITH_SHA", "FORBID_EMPTY_COMMIT"}
         [] OTHER -> {"REPORT_ONLY", "MARK_RESIDUAL"} \cup (IF e.run THEN {"RERUN"} ELSE {})

\* ClassificationReport: what it lists as a failure, and who is to act on it.
Failed(e) == Verdict(e.check) \in {"FAILURE", "TIMED_OUT", "STARTUP_FAILURE", "ACTION_REQUIRED",
                                   "CANCELLED", "STALE"}
Fixable(e) == Failed(e) /\ Class(e) \in {"A", "B"}
Residual(e) == Failed(e) /\ Class(e) = "C"
AllPassed(entries) ==
  /\ entries # {}
  /\ \A e \in entries : Verdict(e.check) \in {"SUCCESS", "SKIPPED", "NEUTRAL"}

ShouldRerun(e) ==
  /\ Class(e) # "B"
  /\ "RERUN" \in Policies(e)
  /\ Verdict(e.check) \in {"TIMED_OUT", "STARTUP_FAILURE", "CANCELLED"}
  /\ Class(e) = "C" => e.run

\* rerun_command is None, or names the run.
RerunCommand(e) == ShouldRerun(e) /\ e.run

=============================================================================
