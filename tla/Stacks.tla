------------------------------- MODULE Stacks -------------------------------
(***************************************************************************)
(* Stacked pull requests of one repository (stacks.py), as `plan` has them *)
(* scheduled: the default branch is looked up, all requests are listed     *)
(* page by page, detect_stacks links each request to the one whose head is *)
(* its base, walks the trees and then the rings, and order_prs_bottom_up   *)
(* schedules what is open and stands on healthy ancestors.                 *)
(*                                                                         *)
(* A request is its number.  The breadth-first walk already visits by      *)
(* stack position, so members keep the order of the walk.  A request that  *)
(* is closed, merged or given another base while the pages are read is     *)
(* what it is when its page is read, which another initial state has; the  *)
(* two copies of one that is listed twice are taken to be equal.           *)
(***************************************************************************)
EXTENDS Naturals, Sequences, FiniteSets, Listing

CONSTANTS
  N,         \* most pull requests
  PageSize,
  Branches,
  Gone,      \* names that heads of deleted forks may have
  Default,   \* the default branch
  Fallback,  \* what the detector takes for it when the lookup fails
  Nil

ASSUME SizesAssumption == N \in Nat \ {0} /\ PageSize \in Nat \ {0}
ASSUME BranchesAssumption ==
  {Default, Fallback} \cup Gone \subseteq Branches /\ Nil \notin Branches
ASSUME NilAssumption == Nil \notin Nat

Prs == 1..N

\* The head is Nil when it is in a fork.  That of a fork that was deleted is
\* listed without a repository, and parse_pr_infos and head_lives_in_base_repo
\* between them take it for a branch of the base repository: the marker "" is
\* made None, which counts as "not provided".  It may have the name of the base.
\* open: neither merged, closed, conflicting nor of a state unknown.
Infos ==
  {i \in [head : Branches \cup {Nil}, deleted : BOOLEAN, base : Branches, open : BOOLEAN] :
     IF i.deleted THEN i.head \in Gone ELSE i.head # i.base}

VARIABLES
  prs,       \* on GitHub: number -> PRInfo
  default,   \* the detector's default_branch
  page,
  list,      \* the numbers listed, newest first; some may come twice
  early,     \* those there before the first page, without the unreadable
  parent,    \* parent_of
  place,
  visited,
  queue,
  chain,     \* members of the stack the walk is in
  stacks,
  permitted, \* the owner is in the allowlist, or it is overridden
  healthy,   \* requests the schedule takes for open or merged
  order, blocked

input == <<prs, default, page, list, early>>
walk == <<visited, queue, chain, stacks>>
schedule == <<permitted, healthy, order, blocked>>
stackVars == <<input, parent, place, walk, schedule>>

Stacked == UNION {Elements(stacks[i].members) : i \in DOMAIN stacks}

StackTypeOK ==
  /\ prs \in Seq(Infos) /\ Len(prs) <= N
  /\ default \in Branches /\ page \in Nat
  /\ list \in Seq(DOMAIN prs) /\ early \subseteq DOMAIN prs
  /\ parent \in [Elements(list) -> Elements(list) \cup {Nil}] \/ place \in {"default", "list", "link", "failed"}
  /\ place \in {"default", "list", "link", "bases", "walk", "rings", "round", "order", "done",
             "failed"}
  /\ visited \subseteq Prs /\ queue \in Seq(Prs) /\ chain \in Seq(Prs) /\ permitted \in BOOLEAN
  /\ stacks \in Seq([members : Seq(Prs), cyclic : BOOLEAN])
  /\ healthy \subseteq Prs /\ blocked \subseteq Prs /\ order \in Seq(Prs)

StackInit ==
  /\ prs \in UNION {[1..n -> Infos] : n \in 1..N}
  /\ default = Fallback /\ page = 1 /\ list = <<>> /\ early = DOMAIN prs
  /\ parent = [p \in {} |-> Nil]
  /\ place = "default"
  /\ visited = {} /\ queue = <<>> /\ chain = <<>> /\ stacks = <<>>
  /\ permitted = FALSE /\ healthy = {} /\ order = <<>> /\ blocked = {}

-----------------------------------------------------------------------------
(* resolve_default_branch, _fetch_all_prs_from_gh, parse_pr_infos          *)

\* A lookup that fails leaves the detector's default branch as it was.
LookUp ==
  /\ place = "default" /\ place' = "list"
  /\ default' \in {default, Default}
  /\ UNCHANGED <<prs, page, list, early, parent, walk, schedule>>

\* Page k of GitHub's list of all requests, the newest first.
Batch(k) ==
  LET last == Len(prs) - (k - 1) * PageSize
      first == IF last > PageSize THEN last - PageSize + 1 ELSE 1
  IN [i \in 1..(IF last < 1 THEN 0 ELSE last - first + 1) |-> last + 1 - i]

LastMutant(batch) == Len(batch) <= PageSize
LastPage(batch) == Len(batch) < PageSize

\* Entries without a number or its two branches are skipped.
Parsed(batch, bad) == Only(batch, DOMAIN prs \ bad)

ReadPage ==
  /\ place = "list"
  /\ \E bad \in {{}} \cup {{p} : p \in Elements(Batch(page))} :
       /\ list' = list \o Parsed(Batch(page), bad)
       /\ early' = early \ bad
  /\ IF LastPage(Batch(page)) THEN place' = "link" /\ UNCHANGED page
     ELSE page' = page + 1 /\ UNCHANGED place
  /\ UNCHANGED <<prs, default, parent, walk, schedule>>

\* gh fails or its answer is no JSON: the exception ends the plan.
PageFails ==
  /\ place = "list" /\ place' = "failed"
  /\ UNCHANGED <<input, parent, walk, schedule>>

\* Somebody opens a request, which moves the others down the pages.
Create ==
  /\ place = "list" /\ Len(prs) < N
  /\ \E i \in Infos : prs' = Append(prs, i)
  /\ UNCHANGED <<default, page, list, early, parent, place, walk, schedule>>

-----------------------------------------------------------------------------
(* StackDetector._detect_stacks_single_repo                                *)

\* Requests whose head branch is p's base, in the order of the list, those of
\* deleted forks among them.
Candidates(p) ==
  Only(list, {q \in DOMAIN prs \ {p} : prs[q].head = prs[p].base /\ prs[q].head # default})

Parent(p) == IF Candidates(p) = <<>> THEN Nil ELSE Head(Candidates(p))

Children(p) == Only(list, {q \in DOMAIN parent : parent[q] = p})

Unvisited == Only(list, DOMAIN parent \ visited)

Link ==
  /\ place = "link"
  /\ parent' = [p \in Elements(list) |-> Parent(p)]
  /\ place' = "bases"
  /\ UNCHANGED <<input, walk, schedule>>

Bases == Only(Unvisited, {p \in DOMAIN parent : parent[p] = Nil})

\* The next request without a parent starts a walk; then come the rings.
TakeBase ==
  /\ place = "bases"
  /\ IF Bases = <<>> THEN place' = "rings" /\ UNCHANGED <<queue, chain>>
     ELSE place' = "walk" /\ queue' = <<Head(Bases)>> /\ chain' = <<>>
  /\ UNCHANGED <<input, parent, visited, stacks, schedule>>

\* One turn of a walk: neighbours of a request seen for the first time are
\* put in the queue.
Turn(neighbours) ==
  LET p == Head(queue) IN
  /\ queue # <<>>
  /\ IF p \in visited
     THEN queue' = Tail(queue) /\ UNCHANGED <<visited, chain>>
     ELSE /\ visited' = visited \cup {p}
          /\ chain' = Append(chain, p)
          /\ queue' = Tail(queue) \o Only(neighbours, DOMAIN parent \ visited')
  /\ UNCHANGED <<input, parent, place, stacks, schedule>>

Walk == place = "walk" /\ Turn(Children(Head(queue)))

\* A request alone is no stack.
EndWalk ==
  /\ place = "walk" /\ queue = <<>>
  /\ stacks' = IF Len(chain) = 1 THEN stacks
               ELSE Append(stacks, [members |-> chain, cyclic |-> FALSE])
  /\ place' = "bases"
  /\ UNCHANGED <<input, parent, visited, queue, chain, schedule>>

\* Whatever no base reached hangs on a ring.
TakeRing ==
  /\ place = "rings"
  /\ IF Unvisited = <<>> THEN place' = "order" /\ UNCHANGED <<queue, chain>>
     ELSE place' = "round" /\ queue' = <<Head(Unvisited)>> /\ chain' = <<>>
  /\ UNCHANGED <<input, parent, visited, stacks, schedule>>

Round ==
  /\ place = "round"
  /\ Turn((IF parent[Head(queue)] = Nil THEN <<>> ELSE <<parent[Head(queue)]>>)
            \o Children(Head(queue)))

EndRound ==
  /\ place = "round" /\ queue = <<>>
  /\ stacks' = IF Len(chain) < 2 \/ \E p \in Elements(chain) : parent[p] = Nil
               THEN stacks
               ELSE Append(stacks, [members |-> chain, cyclic |-> TRUE])
  /\ place' = "rings"
  /\ UNCHANGED <<input, parent, visited, queue, chain, schedule>>

-----------------------------------------------------------------------------
(* order_prs_bottom_up and Stack.get_blocked                               *)

ImmediateMutant(p, ok) == parent[p] = Nil \/ parent[p] \in ok

\* The walk up the ancestors; it ends at a base, at one that is not healthy or
\* where it has been before.
ChainHealthy(p, ok) ==
  LET up[at \in (SUBSET DOMAIN parent) \X DOMAIN parent] ==
        LET seen == at[1]
            q == at[2]
        IN /\ q \notin seen
           /\ \/ parent[q] = Nil
              \/ parent[q] \in ok /\ up[<<seen \cup {q}, parent[q]>>]
  IN up[<<{}, p>>]

Processable(s, ok) ==
  IF s.cyclic THEN <<>>
  ELSE Only(s.members, {p \in Elements(s.members) : prs[p].open /\ ChainHealthy(p, ok)})

Blocked(ok) == {p \in Stacked : ~ChainHealthy(p, ok)}

\* One that is listed twice is here twice.
Standalone == Only(list, {p \in DOMAIN parent \ Stacked : prs[p].open})

\* The health of a request is its own state or what the caller's map says,
\* which may be anything.  Of an owner that is not allowed nothing is scheduled.
\* Stacks are sorted by identifier, a string with a number in it: the order may be
\* any.
Order ==
  /\ place = "order" /\ place' = "done"
  /\ \/ /\ permitted' = FALSE
        /\ UNCHANGED <<healthy, order, blocked>>
     \/ /\ permitted' = TRUE
        /\ healthy' \in SUBSET Elements(list)
        /\ blocked' = Blocked(healthy')
        /\ \E sorted \in Orders(Elements(stacks)) :
             LET ready == [i \in DOMAIN sorted |-> Processable(sorted[i], healthy')]
             IN order' = Concat(ready) \o Standalone
  /\ UNCHANGED <<input, parent, walk>>

StackNext ==
  \/ LookUp \/ ReadPage \/ PageFails \/ Create
  \/ Link \/ TakeBase \/ Walk \/ EndWalk \/ TakeRing \/ Round \/ EndRound \/ Order

StackSpec == StackInit /\ [][StackNext]_stackVars

-----------------------------------------------------------------------------
(* What the schedule should be                                             *)

\* p's ancestors: what is in every set that holds p's parent and the parents
\* of its own.
Ancestors(p) ==
  LET Upward(S) == \A q \in S : parent[q] \in S \cup {Nil}
  IN {q \in DOMAIN parent : \A S \in SUBSET DOMAIN parent :
        parent[p] \in S \cup {Nil} /\ Upward(S) => q \in S}

Rooted(p) == \A q \in Ancestors(p) \cup {p} : q \notin Ancestors(q)

\* The schedule holds each open request whose ancestors are all healthy, none
\* of them above itself, exactly once, and no request comes before one of its
\* ancestors (stacks.py:168, 190, 864).  Only a request that stands alone and
\* was listed twice is scheduled twice.
ScheduleIsRight ==
  place = "done" /\ permitted =>
    /\ Elements(order) =
         {p \in Elements(list) : prs[p].open /\ Rooted(p) /\ Ancestors(p) \subseteq healthy}
    /\ \A i, j \in DOMAIN order : i < j =>
         /\ order[j] \notin Ancestors(order[i])
         /\ order[j] = order[i] => order[i] \notin Stacked /\ Len(list) > Cardinality(Elements(list))

\* An open request that was there before the first page was read is scheduled
\* or reported as blocked, and never both: none is dropped between two pages
\* (unless its entry is unreadable), nor between the stacks, the rings and the
\* standalone requests.
OpenIsAccounted ==
  place = "done" /\ permitted => \A p \in early \cup Elements(list) : prs[p].open =>
    (p \in Elements(order) <=> p \notin blocked)

\* Once the default branch is known, nothing holds up a request against it: no
\* release request from that branch, no fork, no ring (stacks.py:337-371).
DefaultBasedRuns ==
  place = "done" /\ permitted /\ default = Default =>
    \A p \in early : prs[p].open /\ prs[p].base = Default => p \in Elements(order)

\* Whatever the pages and the links are like, no request is dropped and none
\* against the default branch is held up (stacks.py:337-371, 739-744, 874-933).
NothingDropped == OpenIsAccounted /\ DefaultBasedRuns

=============================================================================
