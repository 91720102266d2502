--------------------------- MODULE LabJobRegistry ---------------------------
(***************************************************************************)
(* What the lab job registry promises its callers, one atomic step per     *)
(* promise: an id is reserved by one agent; only the reserving agent turns *)
(* the reservation into a job or gives the id back; a retired id stays     *)
(* retired.  LabJobs shows that the store and the manager implement it.    *)
(***************************************************************************)
CONSTANTS Procs, JobIds, None

VARIABLES
  state,    \* job id -> "absent", "pending", "allocated" or "torn_down"
  holder,   \* job id -> agent of the reservation or the job, or None
  granted   \* <<agent, job id>> of the allocations handed out

vars == <<state, holder, granted>>

Init ==
  /\ state = [id \in JobIds |-> "absent"]
  /\ holder = [id \in JobIds |-> None]
  /\ granted = {}

Become(id, s, h) ==
  /\ state' = [state EXCEPT ![id] = s]
  /\ holder' = [holder EXCEPT ![id] = h]

Reserve(p, id) ==
  /\ state[id] = "absent"
  /\ Become(id, "pending", p)
  /\ UNCHANGED granted

Grant(p, id) ==
  /\ state[id] = "pending"
  /\ holder[id] = p
  /\ \A g \in granted : g[2] # id
  /\ Become(id, "allocated", p)
  /\ granted' = granted \cup {<<p, id>>}

Release(p, id) ==
  /\ state[id] = "pending"
  /\ holder[id] = p
  /\ Become(id, "absent", None)
  /\ UNCHANGED granted

\* A teardown may come from any state but the last one: the record it read
\* may have been dropped in the meantime.
Retire(id) ==
  /\ state[id] # "torn_down"
  /\ Become(id, "torn_down", None)
  /\ UNCHANGED granted

Next ==
  \E id \in JobIds :
    \/ Retire(id)
    \/ \E p \in Procs : Reserve(p, id) \/ Grant(p, id) \/ Release(p, id)

Spec == Init /\ [][Next]_vars

=============================================================================
