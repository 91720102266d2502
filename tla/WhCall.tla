------------------------------- MODULE WhCall -------------------------------
(***************************************************************************)
(* Calls of `wh` by one hive in its worktree: WhClient.run of bridge.py on *)
(* one side; git-safe, gh-safe and supervisor run of main.rs on the other, *)
(* with the policy of git_safe.rs between them and the git or gh they run. *)
(* The calls come one after the other, but a call that runs into the time  *)
(* limit of the client leaves its child behind, beside the calls that      *)
(* follow.                                                                 *)
(*                                                                         *)
(* Of an argument vector it matters whether the policy refuses it, whether *)
(* it changes a branch, which one it does change and which one the policy  *)
(* reads in it.  The two are independent: the policy looks at the words of *)
(* push, checkout and switch only, and does not know all their spellings.  *)
(* A write that changes files, or pull requests, counts as a change of the *)
(* branch that is checked out.                                             *)
(***************************************************************************)
EXTENDS Integers

CONSTANTS
  MaxCalls,   \* calls the hive makes
  Branches,
  None

ASSUME CallsAssumption == MaxCalls \in Nat
ASSUME NoneAssumption == None \notin Branches /\ None \notin Int

Calls == 1..MaxCalls
Signal == -9   \* ended by a signal, as Python tells it
Codes == {0, 1, 2}

\* gh-safe is a safe command that takes no expected branch.  op "usage" is words
\* clap does not take; "unchecked" is what is not on the list of mutating
\* commands, for which an expected branch is ignored.  to: the branch it
\* changes, None for the one checked out (git rebase base other, git branch -D
\* other, git push origin other, git switch -, and unchecked git fetch origin
\* a:other, change another).  reads: the target that the policy sees.
Commands ==
  {k \in [via : {"safe", "supervisor"}, op : {"usage", "forbidden", "unchecked", "write"},
          to : Branches \cup {None}, reads : Branches \cup {None},
          expects : Branches \cup {None}] :
     /\ k.op # "write" => k.expects = None /\ k.reads = None
     /\ k.op \in {"usage", "forbidden"} => k.to = None
     /\ k.via = "safe" => k.reads = None}

ASSUME CommandsAssumption == None \notin Commands

Envelopes == {"none", "torn", "ok", "error"}
Answers == {"none", "done", "failed", "policy", "process_error", "error_response",
            "unreadable", "timeout"}

VARIABLES
  head,      \* the branch checked out in the worktree
  command,   \* call -> what it asks for
  pc,        \* call -> where it is
  child,     \* call -> its git or gh: "no", "alive", "ended"
  acted,     \* call -> the branch its child has changed
  status,    \* call -> how its child ended
  data,      \* call -> exit_code in the data of its envelope
  envelope,  \* call -> what is on stdout
  exit,      \* call -> how wh ended
  answer     \* call -> what WhClient.run returned or raised

vars == <<head, command, pc, child, acted, status, data, envelope, exit, answer>>
childVars == <<head, child, acted, status>>
saidVars == <<data, envelope, exit>>

TypeOK ==
  /\ head \in Branches
  /\ command \in [Calls -> Commands \cup {None}]
  /\ pc \in [Calls -> {"new", "check", "verify", "spawn", "wait", "ending", "exited", "over"}]
  /\ child \in [Calls -> {"no", "alive", "ended"}]
  /\ acted \in [Calls -> Branches \cup {None}]
  /\ status \in [Calls -> Codes \cup {Signal, None}]
  /\ data \in [Calls -> Codes \cup {None}]
  /\ envelope \in [Calls -> Envelopes]
  /\ exit \in [Calls -> Codes \cup {Signal, None}]
  /\ answer \in [Calls -> Answers]

Init ==
  /\ head \in Branches
  /\ command = [c \in Calls |-> None]
  /\ pc = [c \in Calls |-> "new"]
  /\ child = [c \in Calls |-> "no"]
  /\ acted = [c \in Calls |-> None]
  /\ status = [c \in Calls |-> None]
  /\ data = [c \in Calls |-> None]
  /\ envelope = [c \in Calls |-> "none"]
  /\ exit = [c \in Calls |-> None]
  /\ answer = [c \in Calls |-> "none"]

Goto(c, from, to) == pc[c] = from /\ pc' = [pc EXCEPT ![c] = to]

Running(c) == pc[c] \in {"check", "verify", "spawn", "wait", "ending"}

Supervised(c) == command[c].via = "supervisor"

-----------------------------------------------------------------------------
(* The policy. *)

\* SafeGitCommand::requires_branch_check and gh_requires_branch_check.
Mutating(k) == k.op = "write"

\* The commands that do change a branch.
Writes(k) == Mutating(k) \/ k.to # None

\* What SafeGitCommand::new and SafeGhCommand::new refuse, and the shells
\* and launchers a supervisor does not start.
Forbidden(k) == k.op = "forbidden"

\* checkout_or_switch_target and reject_push_outside_expected_branch: it is the
\* target they read that counts, and there need not be one.
Strays(k) == k.reads \notin {None, k.expects}

\* Only the supervisor insists on an expected branch, and looks at where a
\* push or a switch goes.
Outside(k) ==
  /\ k.via = "supervisor"
  /\ Mutating(k)
  /\ k.expects = None \/ Strays(k)

\* The branch is looked at before the child is started.
Checked(k) == Mutating(k) /\ k.expects # None

-----------------------------------------------------------------------------
(* wh. *)

\* wh writes what it has to say, and will end with the given code.
Say(c, from, says, code, result) ==
  /\ Goto(c, from, "ending")
  /\ envelope' = [envelope EXCEPT ![c] = says]
  /\ data' = [data EXCEPT ![c] = result]
  /\ exit' = [exit EXCEPT ![c] = code]
  /\ UNCHANGED <<command, answer>>

\* An error that comes before there is an output: supervisor run has an
\* envelope for it, the safe commands write to stderr only.
Fail(c, from, code) ==
  /\ Say(c, from, IF Supervised(c) THEN "error" ELSE "none", code, None)
  /\ UNCHANGED childVars

Issue(c) ==
  /\ Goto(c, "new", "check")
  /\ \A b \in Calls : b < c => pc[b] = "over"
  /\ \E k \in Commands : command' = [command EXCEPT ![c] = k]
  /\ UNCHANGED <<childVars, saidVars, answer>>

Usage(c) ==
  /\ command[c].op = "usage"
  /\ Say(c, "check", "none", 2, None)
  /\ UNCHANGED childVars

Refuse(c) ==
  /\ Forbidden(command[c]) \/ Outside(command[c])
  /\ Fail(c, "check", 2)

\* resolve_supervised_repo: it cannot be resolved, or may not be used.
RefuseRepo(c) ==
  /\ Supervised(c) /\ command[c].op # "usage"
  /\ ~Forbidden(command[c]) /\ ~Outside(command[c])
  /\ \E code \in {1, 2} : Fail(c, "check", code)

Accept(c) ==
  /\ command[c].op # "usage"
  /\ ~Forbidden(command[c])
  /\ ~Outside(command[c])
  /\ Goto(c, "check", IF Checked(command[c]) THEN "verify" ELSE "spawn")
  /\ UNCHANGED <<command, childVars, saidVars, answer>>

VerifyMutant(c) ==
  /\ Goto(c, "verify", "spawn")
  /\ UNCHANGED <<command, childVars, saidVars, answer>>

Verify(c) ==
  /\ head = command[c].expects
  /\ Goto(c, "verify", "spawn")
  /\ UNCHANGED <<command, childVars, saidVars, answer>>

Mismatch(c) == head # command[c].expects /\ Fail(c, "verify", 2)

\* rev-parse fails, which is a policy error, or cannot be started.
VerifyFails(c) == \E code \in {1, 2} : Fail(c, "verify", code)

Spawn(c) ==
  /\ Goto(c, "spawn", "wait")
  /\ child' = [child EXCEPT ![c] = "alive"]
  /\ UNCHANGED <<head, command, acted, status, saidVars, answer>>

\* A supervisor reports a failed spawn as a result.
SpawnFails(c) ==
  IF Supervised(c) THEN Say(c, "spawn", "ok", 0, None) /\ UNCHANGED childVars
                   ELSE Fail(c, "spawn", 1)

CollectMutant(c) ==
  /\ ~Supervised(c)
  /\ child[c] = "ended"
  /\ LET code == IF status[c] = Signal THEN 0 ELSE status[c]
     IN  Say(c, "wait", "ok", code, code)
  /\ UNCHANGED childVars

CollectQuietMutant(c) ==
  /\ ~Supervised(c)
  /\ child[c] = "ended"
  /\ LET code == IF status[c] = Signal THEN 1 ELSE status[c]
     IN  Say(c, "wait", IF code = 0 THEN "ok" ELSE "none", code, code)
  /\ UNCHANGED childVars

\* The safe commands pass the exit code of the child on.
Collect(c) ==
  /\ ~Supervised(c)
  /\ child[c] = "ended"
  /\ LET code == IF status[c] = Signal THEN 1 ELSE status[c]
     IN  Say(c, "wait", "ok", code, code)
  /\ UNCHANGED childVars

\* supervisor run ends with 0 once it has a result, whatever the result is.
CollectSupervised(c) ==
  /\ Supervised(c)
  /\ child[c] = "ended"
  /\ Say(c, "wait", "ok", 0, IF status[c] = Signal THEN None ELSE status[c])
  /\ UNCHANGED childVars

StopMutant(c) ==
  /\ Supervised(c)
  /\ Say(c, "wait", "ok", 0, None)
  /\ UNCHANGED childVars

\* The deadline of a supervisor kills the group.
Stop(c) ==
  /\ Supervised(c)
  /\ Say(c, "wait", "ok", 0, None)
  /\ child' = [child EXCEPT ![c] = "ended"]
  /\ status' = [status EXCEPT ![c] = IF child[c] = "alive" THEN Signal ELSE @]
  /\ UNCHANGED <<head, acted>>

End(c) ==
  /\ Goto(c, "ending", "exited")
  /\ UNCHANGED <<command, childVars, saidVars, answer>>

\* wh is killed from outside, perhaps amid its output; the child is not.
Dies(c) ==
  /\ pc' = [pc EXCEPT ![c] = "exited"]
  /\ exit' = [exit EXCEPT ![c] = Signal]
  /\ \E says \in {envelope[c], IF envelope[c] = "none" THEN "none" ELSE "torn"} :
       envelope' = [envelope EXCEPT ![c] = says]
  /\ UNCHANGED <<command, childVars, data, answer>>

-----------------------------------------------------------------------------
(* The child. *)

\* A write of another branch may check it out (switch, rebase) or not (push,
\* branch -D).
Act(c) ==
  /\ child[c] = "alive"
  /\ acted[c] = None
  /\ Writes(command[c])
  /\ LET branch == IF command[c].to = None THEN head ELSE command[c].to
     IN  /\ acted' = [acted EXCEPT ![c] = branch]
         /\ head' = head \/ (Mutating(command[c]) /\ head' = branch)
  /\ UNCHANGED <<command, pc, child, status, saidVars, answer>>

\* It may fail before or after its effect; success means it had it.
ChildEnds(c) ==
  /\ child[c] = "alive"
  /\ child' = [child EXCEPT ![c] = "ended"]
  /\ \E code \in Codes \cup {Signal} :
       /\ code = 0 /\ Writes(command[c]) => acted[c] # None
       /\ status' = [status EXCEPT ![c] = code]
  /\ UNCHANGED <<head, command, pc, acted, saidVars, answer>>

-----------------------------------------------------------------------------
(* WhClient. *)

\* The time limit kills wh, and nothing below it.
TimeOut(c) ==
  /\ Running(c)
  /\ pc' = [pc EXCEPT ![c] = "over"]
  /\ exit' = [exit EXCEPT ![c] = Signal]
  /\ answer' = [answer EXCEPT ![c] = "timeout"]
  /\ UNCHANGED <<command, childVars, data, envelope>>

\* What callers make of the data: _run_gh of discover.py, for one.
Succeeded(c) == data[c] = 0

\* _interpret.  What is torn or missing is no envelope.
Reading(c) ==
  CASE envelope[c] = "ok" -> IF Succeeded(c) THEN "done" ELSE "failed"
    [] envelope[c] = "error" -> IF exit[c] = 2 THEN "policy" ELSE "error_response"
    [] OTHER -> IF exit[c] # 0 THEN "process_error" ELSE "unreadable"

Interpret(c) ==
  /\ Goto(c, "exited", "over")
  /\ answer' = [answer EXCEPT ![c] = Reading(c)]
  /\ UNCHANGED <<command, childVars, saidVars>>

-----------------------------------------------------------------------------
Wh(c) ==
  /\ Running(c)
  /\ \/ Usage(c) \/ Refuse(c) \/ RefuseRepo(c) \/ Accept(c)
     \/ Verify(c) \/ Mismatch(c) \/ VerifyFails(c)
     \/ Spawn(c) \/ SpawnFails(c) \/ Collect(c) \/ CollectSupervised(c) \/ Stop(c)
     \/ End(c) \/ Dies(c)

Next ==
  \E c \in Calls :
    Issue(c) \/ Wh(c) \/ Act(c) \/ ChildEnds(c) \/ TimeOut(c) \/ Interpret(c)

Spec == Init /\ [][Next]_vars

-----------------------------------------------------------------------------
(* Properties. *)

\* A call whose wh was killed, by the client or from outside.
Lost(c) == exit[c] = Signal

\* DoneIsDone: a command the caller takes for done has ended by itself and
\* has changed the branch it was to change; signals, deadlines, failed starts
\* and every way of losing wh never look like success (_interpret and the
\* exit codes of write_safe_result and run_supervisor).
DoneIsDone ==
  \A c \in Calls :
    answer[c] = "done" =>
      /\ child[c] = "ended" /\ status[c] = 0
      /\ Writes(command[c]) => acted[c] # None

\* RefusedIsUntouched: exit code 2 is a policy error, a usage error or the
\* code of a child, and yet a caller who is told of a policy error, or of an
\* exit code 2 without an envelope, can be sure that no child was started.
RefusedIsUntouched ==
  \A c \in Calls :
    \/ answer[c] = "policy"
    \/ answer[c] = "process_error" /\ exit[c] = 2
    => child[c] = "no"

\* NothingLate: once wh has ended by itself, its git or gh has too: what a
\* hive sees after an answer does not change any more, deadlines of a
\* supervisor included.
NothingLate ==
  \A c \in Calls : answer[c] # "none" /\ ~Lost(c) => child[c] # "alive"

\* ActsOnExpected: a command that gave an expected branch, and names no other,
\* changes the expected one although it is checked in one process and run in
\* another, unless the call or an earlier one was lost: then one's git may run
\* after another's switch.  Earlier commands may have gone anywhere.  One that
\* names another is stopped by the supervisor if the policy reads it right.
ActsOnExpected ==
  \A c \in Calls :
    /\ acted[c] # None /\ command[c].expects # None
    /\ IF command[c].to = None THEN \A b \in Calls : b <= c => ~Lost(b)
                               ELSE Supervised(c) /\ command[c].reads = command[c].to
    => acted[c] = command[c].expects

=============================================================================
