----------------------------- MODULE Discovery -----------------------------
(***************************************************************************)
(* The two commands that look for work over several repositories           *)
(* (discover.py, cli.py): `discover` lists the open issues and pull        *)
(* requests of each owner's repositories, `plan` resolves the repositories *)
(* to plan for and fetches their pull requests.  Every list is a call of   *)
(* gh that may fail, leave entries out at a limit or hold entries that     *)
(* cannot be read, and GitHub changes between two calls.                   *)
(*                                                                         *)
(* What plan makes of the requests of a repository is Stacks.  An operator *)
(* named ...Mutant is the definition below it with a mistake the code      *)
(* could contain; no specification uses it.                                *)
(***************************************************************************)
EXTENDS Naturals, Sequences, FiniteSets, Listing, CheckStates

CONSTANTS
  Owners, Repos, Items,
  OwnerOf,    \* repository -> its owner
  Home,       \* item -> its repository
  Requests,   \* the items that are pull requests; the others are issues
  ItemLimits, \* what DISCOVERY_ITEM_LIMIT may be
  Asked,      \* sequences of owners the command may be given
  Slugs,      \* sets of repositories plan may be given
  Allowlists, \* what WH_ALLOWED_OWNERS may be
  Starts,     \* what repositories there may be at first
  Rollups,    \* sets of checks a pull request may show
  MaxChanges,  \* bound on what changes on GitHub during a scan
  Absent

ASSUME PlacesAssumption == OwnerOf \in [Repos -> Owners] /\ Home \in [Items -> Repos]
ASSUME FiniteAssumption == IsFiniteSet(Owners) /\ IsFiniteSet(Repos) /\ IsFiniteSet(Items)
ASSUME AbsentAssumption == Absent \notin {0, 1, 2}
ASSUME InputsAssumption ==
  /\ Requests \subseteq Items /\ Asked \subseteq Seq(Owners)
  /\ Slugs \subseteq SUBSET Repos /\ Allowlists \subseteq SUBSET Owners
  /\ Starts \subseteq SUBSET Repos /\ Rollups \subseteq SUBSET Raw
  /\ ItemLimits \subseteq Nat \ {0} /\ MaxChanges \in Nat

VARIABLES
  there,      \* repositories on GitHub
  open,       \* open items on GitHub
  changes,    \* on GitHub, so far
  call,       \* the command and its arguments, the allowlist, the limit
  stage,      \* where the command is
  owners,     \* sequence of owners not yet listed
  repos,      \* of the owner at hand: repositories not yet read; plan: targets
  repo,       \* the repository at hand
  found,      \* items in the result; plan: pull requests handed to Stacks
  ci,         \* of the pull requests listed last: the status shown, the checks
  errors,     \* what the error strings name
  truncated,
  exit,
  steady,     \* items that were open from the start on
  contacted,  \* owners gh was asked about
  lost,       \* repositories whose entry in a list could not be read
  cut         \* lists that left something out

hub == <<there, open, changes>>
scan == <<owners, repos, repo>>
result == <<found, ci, errors, truncated>>
history == <<steady, contacted, lost, cut>>
discoveryVars == <<hub, call, stage, scan, result, exit, history>>

\* owners = Absent is the allowlist; plan without --owner has an empty sequence.
Calls ==
  [command: {"discover"}, asked: Asked \cup {Absent}, slugs: {{}}, override: BOOLEAN,
   kind: {"issues", "prs", "all"}, allowed: Allowlists, limit: ItemLimits]
  \cup
  [command: {"plan"}, asked: Asked \cup {<<>>}, slugs: Slugs, override: BOOLEAN,
   kind: {"prs"}, allowed: Allowlists, limit: ItemLimits]

DiscoveryTypeOK ==
  /\ there \subseteq Repos /\ open \subseteq Items /\ changes \in 0..MaxChanges
  /\ call \in Calls
  /\ stage \in {"start", "auth", "owners", "repos", "issues", "prs", "targets", "fetch", "done"}
  /\ owners \in Seq(Owners) /\ repos \subseteq Repos /\ repo \in Repos \cup {Absent}
  /\ found \subseteq Items
  /\ errors \subseteq Owners \cup Repos \cup {"auth", "no owners"}
  /\ truncated \in BOOLEAN
  /\ exit \in {Absent, 0, 1, 2}

DiscoveryInit ==
  /\ there \in Starts
  /\ open \in SUBSET {i \in Items : Home[i] \in there}
  /\ changes = 0
  /\ call \in Calls
  /\ stage = "start"
  /\ owners = <<>> /\ repos = {} /\ repo = Absent
  /\ found = {} /\ ci = [i \in {} |-> Absent] /\ errors = {} /\ truncated = FALSE
  /\ exit = Absent
  /\ steady = open /\ contacted = {} /\ lost = {} /\ cut = {}

Moves(from, to) == stage = from /\ stage' = to
Ends(from, code) == Moves(from, "done") /\ exit' = code

-----------------------------------------------------------------------------
(* Which owners: _resolve_owners, _assert_owners_allowed                   *)

Wanted == IF call.asked = Absent THEN {} ELSE Elements(call.asked)

RefusedMutant ==     \* plan does not look at the owners of --repo
  /\ ~call.override
  /\ IF call.command = "discover"
     THEN call.allowed # {} /\ ~(Wanted \subseteq call.allowed)
     ELSE ~(Wanted \subseteq call.allowed)

\* discover takes any owners while no allowlist is configured; plan takes none.
Refused ==
  /\ ~call.override
  /\ IF call.command = "discover"
     THEN call.allowed # {} /\ ~(Wanted \subseteq call.allowed)
     ELSE ~(Wanted \cup {OwnerOf[r] : r \in call.slugs} \subseteq call.allowed)

Refuse ==
  /\ Refused
  /\ Ends("start", 2)
  /\ UNCHANGED <<hub, call, scan, result, history>>

Start ==
  /\ ~Refused
  /\ \/ Moves("start", "owners")
     \/ call.command = "discover" /\ Moves("start", "auth")
  /\ IF call.asked = Absent THEN owners' \in Orders(call.allowed)
     ELSE owners' = IF call.command = "plan" THEN Once(call.asked) ELSE call.asked
  /\ UNCHANGED <<hub, call, repos, repo, result, exit, history>>

\* gh auth status, unless it is switched off; when it fails the result is that
\* error alone.
AuthOk ==
  /\ Moves("auth", "owners")
  /\ UNCHANGED <<hub, call, scan, result, exit, history>>

AuthFails ==
  /\ Ends("auth", 0)
  /\ errors' = {"auth"}
  /\ UNCHANGED <<hub, call, scan, found, ci, truncated, history>>

NoOwners ==
  /\ call.command = "discover" /\ owners = <<>> /\ contacted = {}
  /\ Ends("owners", 0)
  /\ errors' = {"no owners"}
  /\ UNCHANGED <<hub, call, scan, found, ci, truncated, history>>

-----------------------------------------------------------------------------
(* What gh lists: as many entries as the limit allows, some unreadable      *)

Least(m, n) == IF m < n THEN m ELSE n
Lists(S) == {A \in SUBSET S : Cardinality(A) = Least(call.limit, Cardinality(S))}
AtLimit(A) == Cardinality(A) >= call.limit
Unreadable(A) == {{}} \cup {{a} : a \in A}

\* The history of a list of S, about `subject', that answered A.
Note(subject, S, A) == cut' = IF A = S THEN cut ELSE cut \cup {subject}

Of(o) == {r \in there : OwnerOf[r] = o}

\* `truncated' is set, never cleared, whatever later lists say.
FlagMutant(A) == truncated' = AtLimit(A)
Flag(A) == truncated' = (truncated \/ AtLimit(A))

\* list_repos_for_owner answers.  plan takes a list at the limit for an error
\* as well; entries that cannot be read are skipped without a word.
ListRepos ==
  LET o == Head(owners) IN
  /\ owners # <<>>
  /\ owners' = Tail(owners)
  /\ \E A \in Lists(Of(o)) : \E bad \in Unreadable(A) :
       /\ repos' = (A \ bad) \cup (IF call.command = "plan" THEN repos ELSE {})
       /\ Flag(A)
       /\ errors' = IF AtLimit(A) THEN errors \cup {o} ELSE errors
       /\ lost' = lost \cup bad
       /\ Note(o, Of(o), A)
  /\ Moves("owners", IF call.command = "plan" THEN "owners" ELSE "repos")
  /\ contacted' = contacted \cup {o}
  /\ UNCHANGED <<hub, call, repo, found, ci, exit, steady>>

\* gh fails, or its answer is no JSON list: the next owner is tried.
ListFails ==
  /\ owners # <<>>
  /\ Moves("owners", "owners")
  /\ owners' = Tail(owners)
  /\ errors' = errors \cup {Head(owners)}
  /\ contacted' = contacted \cup {Head(owners)}
  /\ UNCHANGED <<hub, call, repos, repo, found, ci, truncated, exit, steady, lost, cut>>

-----------------------------------------------------------------------------
(* discover_all: the issues, then the pull requests of each repository     *)

TakeRepo ==
  /\ \E r \in repos : repo' = r /\ repos' = repos \ {r}
  /\ Moves("repos", IF call.kind = "prs" THEN "prs" ELSE "issues")
  /\ contacted' = contacted \cup {OwnerOf[repo']}
  /\ UNCHANGED <<hub, call, owners, result, exit, steady, lost, cut>>

\* A repository that has gone in the meantime is empty.
Contents(kind) ==
  {i \in open : Home[i] = repo /\ (i \in Requests <=> kind = "prs")}

After(kind) ==
  IF kind = "issues" /\ call.kind = "all" THEN "prs" ELSE "repos"

\* discover_issues_for_repo, discover_pull_requests_for_repo.  Of each pull
\* request the checks are summed up.
ReadItems(kind) ==
  /\ Moves(kind, After(kind))
  /\ \E A \in Lists(Contents(kind)) : \E bad \in Unreadable(A) :
       LET good == A \ bad
           shown == IF kind = "prs" THEN good ELSE {}
       IN /\ found' = found \cup good
          /\ \E S \in Rollups :
               ci' = [i \in shown |-> [status |-> Summary(S), checks |-> S]]
          /\ errors' = IF bad # {} \/ AtLimit(A) THEN errors \cup {repo} ELSE errors
          /\ Flag(A)
          /\ Note(repo, Contents(kind), A)
  /\ UNCHANGED <<hub, call, scan, exit, steady, contacted, lost>>

\* gh fails, or its answer is no JSON list.  "Could not resolve to a
\* Repository" is no error.
ReadFails(kind) ==
  /\ Moves(kind, After(kind))
  /\ errors' = IF repo \in there THEN errors \cup {repo} ELSE errors
  /\ UNCHANGED <<hub, call, scan, found, ci, truncated, exit, history>>

NextOwner ==
  /\ repos = {}
  /\ Moves("repos", "owners")
  /\ repo' = Absent
  /\ UNCHANGED <<hub, call, owners, repos, result, exit, history>>

Report ==
  /\ call.command = "discover" /\ owners = <<>> /\ contacted # {}
  /\ Ends("owners", 0)
  /\ UNCHANGED <<hub, call, scan, result, history>>

-----------------------------------------------------------------------------
(* cmd_plan: its targets, and what it fetches for each                     *)

TargetsMutant ==     \* warns of an incomplete list and goes on
  /\ call.command = "plan" /\ owners = <<>>
  /\ LET targets == repos \cup call.slugs IN
       /\ IF targets = {} THEN Ends("owners", 1) ELSE Moves("owners", "targets") /\ UNCHANGED exit
       /\ repos' = targets
  /\ UNCHANGED <<hub, call, owners, repo, result, history>>

\* A list that failed or was cut ends the command, and so does having no target.
Targets ==
  LET targets == repos \cup call.slugs IN
  /\ call.command = "plan" /\ owners = <<>>
  /\ IF errors # {} \/ targets = {}
     THEN Ends("owners", 1)
     ELSE Moves("owners", "targets") /\ UNCHANGED exit
  /\ repos' = targets
  /\ UNCHANGED <<hub, call, owners, repo, result, history>>

TakeTarget ==
  /\ Moves("targets", "fetch")
  /\ \E r \in repos : repo' = r /\ repos' = repos \ {r}
  /\ contacted' = contacted \cup {OwnerOf[repo']}
  /\ UNCHANGED <<hub, call, owners, result, exit, steady, lost, cut>>

\* fetch_pr_infos has all the pages.
Fetch ==
  /\ Moves("fetch", "targets")
  /\ repo \in there
  /\ found' = found \cup {i \in open \cap Requests : Home[i] = repo}
  /\ UNCHANGED <<hub, call, scan, ci, errors, truncated, exit, history>>

\* One that fails ends the command; nothing is printed of the others.
FetchFails ==
  /\ Ends("fetch", 1)
  /\ UNCHANGED <<hub, call, scan, result, history>>

ShowPlan ==
  /\ repos = {}
  /\ Ends("targets", 0)
  /\ UNCHANGED <<hub, call, scan, result, history>>

Command ==
  \/ Refuse \/ Start \/ AuthOk \/ AuthFails \/ NoOwners
  \/ ListRepos \/ ListFails
  \/ TakeRepo \/ NextOwner \/ Report
  \/ \E kind \in {"issues", "prs"} : ReadItems(kind) \/ ReadFails(kind)
  \/ Targets \/ TakeTarget \/ Fetch \/ FetchFails \/ ShowPlan

-----------------------------------------------------------------------------
(* Everybody else                                                          *)

Change ==
  /\ stage \notin {"start", "done"}
  /\ changes < MaxChanges
  /\ changes' = changes + 1
  /\ steady' = steady \cap open'
  /\ UNCHANGED <<call, stage, scan, result, exit, contacted, lost, cut>>

OpenOrClose ==
  /\ \E i \in Items : Home[i] \in there /\
       open' = IF i \in open THEN open \ {i} ELSE open \cup {i}
  /\ UNCHANGED there
  /\ Change

DeleteRepo ==
  /\ \E r \in there : there' = there \ {r} /\ open' = {i \in open : Home[i] # r}
  /\ Change

CreateRepo ==
  /\ \E r \in Repos \ there : there' = there \cup {r}
  /\ UNCHANGED open
  /\ Change

DiscoveryNext == Command \/ OpenOrClose \/ DeleteRepo \/ CreateRepo

DiscoverySpec == DiscoveryInit /\ [][DiscoveryNext]_discoveryVars

-----------------------------------------------------------------------------
(* Properties                                                              *)

Kinds == CASE call.kind = "issues" -> Items \ Requests
           [] call.kind = "prs" -> Requests
           [] OTHER -> Items

InScope(i) ==
  /\ i \in Kinds
  /\ \/ OwnerOf[Home[i]] \in Wanted
     \/ Home[i] \in call.slugs
     \/ call.asked = Absent /\ OwnerOf[Home[i]] \in call.allowed

\* An item that was open during the whole scan is in discover's result, or an
\* error names its repository, its owner or the login: a list that failed
\* never looks like an empty one (discover.py:371-420, 577-600).  Repositories
\* whose entry could not be read are excepted: they are skipped in silence.
MissingIsExplained ==
  exit = 0 /\ call.command = "discover" =>
    \A i \in steady : InScope(i) =>
      \/ i \in found \/ Home[i] \in lost
      \/ {Home[i], OwnerOf[Home[i]], "auth"} \cap errors # {}

\* A list that left something out is flagged in the result, even when others
\* after it were complete: "no silent drop" (discover.py:27).
CutIsFlagged == exit = 0 /\ cut # {} => truncated

\* What discover does not show it says it does not show: a failed list and a
\* short one alike (discover.py:27, 310-312, 577-600).
OmissionsTold == MissingIsExplained /\ CutIsFlagged

\* A plan that is printed leaves out no pull request that was open during the
\* whole command (cli.py:412-415), repositories lost from a list excepted.
PlanIsComplete ==
  exit = 0 /\ call.command = "plan" =>
    \A i \in steady : InScope(i) => i \in found \/ Home[i] \in lost

\* No call of gh is about an owner outside the allowlist, unless the operator
\* said so or, for discover, configured none (cli.py:344-362, discover.py:468-503).
OnlyAllowedContacted ==
  \/ contacted \subseteq call.allowed
  \/ call.override
  \/ call.command = "discover" /\ call.allowed = {}

\* A pull request discover shows as green has no check the taxonomy takes for
\* failed or pending, but for two conclusions the roll-up has not heard of
\* (discover.py:164-211, ci_taxonomy.py:310-322).
GreenIsGreen ==
  \A i \in DOMAIN ci : ci[i].status = "success" =>
    \A c \in ci[i].checks :
      Verdict(c) \in {"SUCCESS", "SKIPPED", "NEUTRAL", "STALE", "STARTUP_FAILURE"}

=============================================================================
