---------------------------- MODULE LabRunProofs ----------------------------
(***************************************************************************)
(* Proofs about LabRun and, in the end, about Aggregate, for any runs and  *)
(* job ids.                                                                *)
(***************************************************************************)
EXTENDS Aggregate, TLAPS

-----------------------------------------------------------------------------
(* The inductive invariant *)

\* The runs that have a job, or had it and may still act on its tree.  One
\* that raised before it left anything behind is no longer counted.
Holds(r) ==
  \/ pc[r] \in Active
  \/ answer[r] \in {"ok", "failed", "interrupted", "orphaned"}
  \/ stray[r] # "no"

\* A job id is granted once.
Exclusive ==
  /\ \A r \in Runs : Holds(r) => status[wants[r]] # "absent"
  /\ \A r, s \in Runs : Holds(r) /\ Holds(s) /\ wants[r] = wants[s] => r = s

Ended ==
  /\ \A r \in Runs : answer[r] # "none" <=> pc[r] = "done"
  /\ \A r \in Runs : pc[r] \in Starting \cup Running => command[r]

Mine(r, file) == file = None \/ file.by = r

\* After the wipe only the command of the run writes the pair.
Fresh ==
  \A r \in Runs : command[r] =>
    /\ pc[r] \in {"wipe_md", "spawn"} \cup Running \cup Reading => Mine(r, json[wants[r]])
    /\ pc[r] \in {"spawn"} \cup Running \cup Reading => Mine(r, md[wants[r]])
    /\ Mine(r, seen[r].json)
    /\ Mine(r, seen[r].md)

Credited == \A r \in Runs : report[r] => seen[r].json # None /\ seen[r].md # None

\* What has been read is what is there, as long as nothing can write.
Current ==
  \A r \in Runs :
    /\ pc[r] \in {"new", "read"} \cup Starting \cup Running => seen[r] = Unread
    /\ pc[r] = "read_md" => seen[r].md = None
    /\ (pc[r] \in {"read_md", "judge"} \/ answer[r] = "ok") /\ stray[r] = "no" /\ tree[wants[r]]
         => /\ seen[r].json # None => seen[r].json = json[wants[r]]
            /\ seen[r].md # None => seen[r].md = md[wants[r]]
    /\ answer[r] = "ok" => seen[r].json # None /\ seen[r].md # None

Pc == [Runs -> {"new", "done"} \cup Active]

IInv ==
  /\ TypeOK /\ Ended /\ Exclusive /\ NoneOutlives
  /\ Fresh /\ Credited /\ Current /\ FailureIsSettled

LEMMA InitIInv == Init => IInv
<1> SUFFICES ASSUME Init PROVE IInv
  OBVIOUS
<1>1. TypeOK
  BY DEF Init, TypeOK, Unread, Active
<1>2. Ended /\ Exclusive /\ NoneOutlives
  BY DEF Init, Ended, Exclusive, Holds, NoneOutlives, Active, Starting, Running, Reading,
     Settling
<1>3. Fresh /\ Credited /\ Current /\ FailureIsSettled
  BY DEF Init, Fresh, Mine, Credited, Current, FailureIsSettled, Unread, Running, Reading,
     Starting
<1> QED
  BY <1>1, <1>2, <1>3 DEF IInv

-----------------------------------------------------------------------------
(* Every step preserves it.  The steps are taken in groups, by what they    *)
(* change.                                                                  *)

Moves(r) == Refuse(r) \/ WipeFails(r) \/ SpawnFails(r) \/ Watch(r) \/ WaitReturns(r)
Kills(r) == Spawn(r) \/ TimesOut(r) \/ Reap(r) \/ Interrupt(r)
Wipes(r) == WipeJson(r) \/ WipeMd(r)
Reads(r) == ReadJson(r) \/ ReadMd(r) \/ Credit(r) \/ Reject(r) \/ Breaks(r)
Settles(r) == AlreadyTorn(r) \/ Remove(r) \/ Tombstone(r) \/ TeardownFails(r) \/ TeardownBreaks(r)

Acts(r) ==
  Moves(r) \/ Kills(r) \/ Allocate(r) \/ Wipes(r) \/ Reads(r) \/ Settles(r) \/ Command(r)

LEMMA NextCases ==
  ASSUME [Next]_vars
  PROVE  \/ \E r \in Runs : Acts(r)
         \/ \E id \in JobIds : OthersTearDown(id)
         \/ UNCHANGED vars
  BY DEF Next, Step, Acts, Moves, Kills, Wipes, Reads, Settles

LEMMA LeaveType ==
  ASSUME TypeOK, NEW r \in Runs, NEW as \in {"try", "again", "raise"}, Leave(r, as)
  PROVE  /\ pc' \in Pc
         /\ mode' \in [Runs -> {"try", "again", "raise"}]
         /\ answer' \in [Runs -> {"none", "ok", "failed", "raised", "interrupted", "orphaned"}]
<1>1. /\ pc \in Pc
      /\ mode \in [Runs -> {"try", "again", "raise"}]
      /\ answer \in [Runs -> {"none", "ok", "failed", "raised", "interrupted", "orphaned"}]
  BY DEF TypeOK, Pc
<1>2. CASE undo[r]
  BY <1>1, <1>2 DEF Leave, Pc, Active, Settling
<1>3. CASE ~undo[r]
  BY <1>1, <1>3 DEF Leave, Finish, Pc
<1> QED
  BY <1>2, <1>3

LEMMA ActTypeOK ==
  ASSUME TypeOK, NEW r \in Runs, Acts(r)
  PROVE  TypeOK'
<1> USE DEF Active, Starting, Running, Reading, Settling, Goto, Finish, Leave, params,
    processes, result, disk
<1>1. wants[r] \in JobIds
  BY DEF TypeOK
<1>2. CASE Allocate(r)
  BY <1>1, <1>2 DEF TypeOK, Allocate, Files
<1>3. CASE Moves(r)
  <2>1. CASE Refuse(r)
    BY <1>1, <2>1 DEF TypeOK, Refuse
  <2>2. CASE WipeFails(r)
    BY <1>1, <2>2 DEF TypeOK, WipeFails
  <2>3. CASE SpawnFails(r)
    <3>1. Leave(r, "try")
      BY <2>3 DEF SpawnFails
    <3> HIDE DEF Leave
    <3> QED
      BY <2>3, <3>1, LeaveType DEF TypeOK, SpawnFails, Pc
  <2>4. CASE Watch(r)
    BY <1>1, <2>4 DEF TypeOK, Watch
  <2>5. CASE WaitReturns(r)
    BY <1>1, <2>5 DEF TypeOK, WaitReturns
  <2> QED
    BY <1>3, <2>1, <2>2, <2>3, <2>4, <2>5 DEF Moves
<1>4. CASE Kills(r)
  <2>1. CASE Spawn(r)
    BY <1>1, <2>1 DEF TypeOK, Spawn, Group
  <2>2. CASE TimesOut(r)
    <3>1. Leave(r, "try")
      BY <2>2 DEF TimesOut
    <3> HIDE DEF Leave
    <3> QED
      BY <2>2, <3>1, LeaveType DEF TypeOK, TimesOut, KillGroup, Pc
  <2>3. CASE Reap(r)
    BY <1>1, <2>3 DEF TypeOK, Reap, KillGroup
  <2>4. CASE Interrupt(r)
    BY <1>1, <2>4 DEF TypeOK, Interrupt, KillGroup
  <2> QED
    BY <1>4, <2>1, <2>2, <2>3, <2>4 DEF Kills
<1>5. CASE Wipes(r)
  <2>1. CASE WipeJson(r)
    BY <1>1, <2>1 DEF TypeOK, WipeJson
  <2>2. CASE WipeMd(r)
    BY <1>1, <2>2 DEF TypeOK, WipeMd
  <2> QED
    BY <1>5, <2>1, <2>2 DEF Wipes
<1>6. CASE Reads(r)
  <2>1. CASE ReadJson(r)
    <3>1. seen' \in [Runs -> [json: Files \cup {None}, md: Files \cup {None}]]
      <4>1. /\ seen \in [Runs -> [json: Files \cup {None}, md: Files \cup {None}]]
            /\ json[wants[r]] \in Files \cup {None}
        BY <1>1 DEF TypeOK
      <4>2. PICK file \in Files \cup {None} : seen' = [seen EXCEPT ![r].json = file]
        BY <2>1, <4>1 DEF ReadJson
      <4>3. [seen[r] EXCEPT !.json = file] \in [json: Files \cup {None}, md: Files \cup {None}]
        BY <4>1
      <4> QED
        BY <4>1, <4>2, <4>3
    <3>2. pc' \in Pc
      BY <2>1 DEF TypeOK, ReadJson, Pc
    <3> QED
      BY <2>1, <3>1, <3>2 DEF TypeOK, ReadJson, Pc
  <2>2. CASE ReadMd(r)
    BY <1>1, <2>2 DEF TypeOK, ReadMd, Unread
  <2>3. CASE Credit(r)
    BY <1>1, <2>3 DEF TypeOK, Credit, Valid, Passes, Files
  <2>4. CASE Reject(r)
    BY <1>1, <2>4 DEF TypeOK, Reject, Valid, Passes, Files
  <2>5. CASE Breaks(r)
    BY <1>1, <2>5 DEF TypeOK, Breaks
  <2> QED
    BY <1>6, <2>1, <2>2, <2>3, <2>4, <2>5 DEF Reads
<1>7. CASE Settles(r)
  <2>1. CASE AlreadyTorn(r)
    BY <1>1, <2>1 DEF TypeOK, AlreadyTorn, TornDown
  <2>2. CASE Remove(r)
    BY <1>1, <2>2 DEF TypeOK, Remove, RemoveTree
  <2>3. CASE Tombstone(r)
    BY <1>1, <2>3 DEF TypeOK, Tombstone, TornDown
  <2>4. CASE TeardownFails(r)
    BY <1>1, <2>4 DEF TypeOK, TeardownFails, TornDown
  <2>5. CASE TeardownBreaks(r)
    BY <1>1, <2>5 DEF TypeOK, TeardownBreaks
  <2> QED
    BY <1>7, <2>1, <2>2, <2>3, <2>4, <2>5 DEF Settles
<1>8. CASE Command(r)
  <2>1. CASE Fork(r)
    BY <1>1, <2>1 DEF TypeOK, Fork, Group
  <2>2. CASE Exit(r)
    BY <1>1, <2>2 DEF TypeOK, Exit, Group
  <2>3. CASE LeaveSession(r)
    BY <1>1, <2>3 DEF TypeOK, LeaveSession, Group
  <2>4. CASE StrayExits(r)
    BY <1>1, <2>4 DEF TypeOK, StrayExits
  <2>5. CASE Write(r)
    <3>1. PICK file \in [by: {r}, good: BOOLEAN] :
            \/ json' = [json EXCEPT ![wants[r]] = file] /\ UNCHANGED md
            \/ md' = [md EXCEPT ![wants[r]] = file] /\ UNCHANGED json
      BY <2>5 DEF Write
    <3>2. file \in Files
      BY DEF Files
    <3>3. json' \in [JobIds -> Files \cup {None}] /\ md' \in [JobIds -> Files \cup {None}]
      <4>1. json \in [JobIds -> Files \cup {None}] /\ md \in [JobIds -> Files \cup {None}]
        BY DEF TypeOK
      <4> QED
        BY <1>1, <3>1, <3>2, <4>1
    <3> QED
      BY <2>5, <3>3 DEF TypeOK, Write
  <2> QED
    BY <1>8, <2>1, <2>2, <2>3, <2>4, <2>5 DEF Command
<1> QED
  BY <1>2, <1>3, <1>4, <1>5, <1>6, <1>7, <1>8 DEF Acts

\* A step of a run changes the locals of no other run.
LEMMA Locals ==
  ASSUME TypeOK, NEW r \in Runs, Acts(r), NEW s \in Runs \ {r}
  PROVE  /\ pc'[s] = pc[s] /\ answer'[s] = answer[s] /\ group'[s] = group[s]
         /\ stray'[s] = stray[s] /\ exit'[s] = exit[s] /\ seen'[s] = seen[s]
         /\ report'[s] = report[s] /\ noted'[s] = noted[s]
<1> USE DEF Goto, Finish, Leave, KillGroup, params, processes, result, disk
<1>1. CASE Moves(r)
  BY <1>1 DEF TypeOK, Moves, Refuse, WipeFails, SpawnFails, Watch, WaitReturns
<1>2. CASE Kills(r)
  BY <1>2 DEF TypeOK, Kills, Spawn, TimesOut, Reap, Interrupt
<1>3. CASE Allocate(r) \/ Wipes(r)
  BY <1>3 DEF TypeOK, Allocate, Wipes, WipeJson, WipeMd
<1>4. CASE Reads(r)
  BY <1>4 DEF TypeOK, Reads, ReadJson, ReadMd, Credit, Reject, Breaks
<1>5. CASE Settles(r)
  BY <1>5 DEF TypeOK, Settles, AlreadyTorn, Remove, Tombstone, TeardownFails,
     TeardownBreaks, TornDown
<1>6. CASE Command(r)
  BY <1>6 DEF TypeOK, Command, Fork, Exit, LeaveSession, StrayExits, Write
<1> QED
  BY <1>1, <1>2, <1>3, <1>4, <1>5, <1>6 DEF Acts

LEMMA Params ==
  ASSUME NEW r \in Runs, Acts(r)
  PROVE  UNCHANGED <<wants, command, undo>>
  BY DEF Acts, Moves, Refuse, WipeFails, SpawnFails, Watch, WaitReturns, Kills, Spawn,
     TimesOut, Reap, Interrupt, Allocate, Wipes, WipeJson, WipeMd, Reads, ReadJson, ReadMd,
     Credit, Reject, Breaks, Settles, AlreadyTorn, Remove, Tombstone, TeardownFails,
     TeardownBreaks, Command, Fork, Exit, LeaveSession, StrayExits, Write, params

-----------------------------------------------------------------------------
(* Where a run is. *)

LEMMA ActEnded ==
  ASSUME TypeOK, Ended, NEW r \in Runs, Acts(r)
  PROVE  Ended'
<1> USE DEF Goto, Finish, Leave, Active, Starting, Running, Reading, Settling, processes,
    result, params
<1>1. /\ pc \in Pc /\ answer \in [Runs -> {"none", "ok", "failed", "raised", "interrupted", "orphaned"}]
      /\ UNCHANGED <<wants, command, undo>>
  BY Params DEF TypeOK, Pc
<1>2. (answer'[r] # "none" <=> pc'[r] = "done") /\ (pc'[r] \in Starting \cup Running => command[r])
  <2> USE <1>1 DEF Ended, Pc
  <2>1. CASE Moves(r)
    BY <2>1 DEF Moves, Refuse, WipeFails, SpawnFails, Watch, WaitReturns
  <2>2. CASE Kills(r)
    BY <2>2 DEF Kills, Spawn, TimesOut, Reap, Interrupt
  <2>3. CASE Allocate(r) \/ Wipes(r)
    BY <2>3 DEF Allocate, Wipes, WipeJson, WipeMd
  <2>4. CASE Reads(r)
    BY <2>4 DEF Reads, ReadJson, ReadMd, Credit, Reject, Breaks
  <2>5. CASE Settles(r)
    BY <2>5 DEF Settles, AlreadyTorn, Remove, Tombstone, TeardownFails, TeardownBreaks, TornDown
  <2>6. CASE Command(r)
    BY <2>6 DEF Command, Fork, Exit, LeaveSession, StrayExits, Write
  <2> QED
    BY <2>1, <2>2, <2>3, <2>4, <2>5, <2>6 DEF Acts
<1> QED
  BY <1>1, <1>2, Locals DEF Ended

LEMMA ActOutlives ==
  ASSUME TypeOK, Ended, NoneOutlives, NEW r \in Runs, Acts(r)
  PROVE  NoneOutlives'
<1> USE DEF Goto, Finish, Leave, KillGroup, Active, Starting, Running, Reading, Settling,
    processes, result
<1>1. /\ pc \in Pc /\ answer \in [Runs -> {"none", "ok", "failed", "raised", "interrupted", "orphaned"}]
      /\ group \in [Runs -> SUBSET Group]
  BY DEF TypeOK, Pc
<1>2. group'[r] # {} => pc'[r] \in Running \/ answer'[r] = "orphaned"
  <2> USE <1>1 DEF Ended, NoneOutlives, Pc
  <2>1. CASE Moves(r)
    BY <2>1 DEF Moves, Refuse, WipeFails, SpawnFails, Watch, WaitReturns
  <2>2. CASE Kills(r)
    BY <2>2 DEF Kills, Spawn, TimesOut, Reap, Interrupt
  <2>3. CASE Allocate(r) \/ Wipes(r)
    BY <2>3 DEF Allocate, Wipes, WipeJson, WipeMd
  <2>4. CASE Reads(r)
    BY <2>4 DEF Reads, ReadJson, ReadMd, Credit, Reject, Breaks
  <2>5. CASE Settles(r)
    BY <2>5 DEF Settles, AlreadyTorn, Remove, Tombstone, TeardownFails, TeardownBreaks, TornDown
  <2>6. CASE Command(r)
    BY <2>6 DEF Command, Fork, Exit, LeaveSession, StrayExits, Write
  <2> QED
    BY <2>1, <2>2, <2>3, <2>4, <2>5, <2>6 DEF Acts
<1> QED
  BY <1>2, Locals DEF NoneOutlives

-----------------------------------------------------------------------------
(* Who has a job, and what others do to its files. *)

\* Only allocate gives a run its job.
LEMMA HoldsBefore ==
  ASSUME TypeOK, Ended, NoneOutlives, NEW r \in Runs, Acts(r), ~Allocate(r), Holds(r)'
  PROVE  Holds(r)
<1> USE DEF Goto, Finish, Leave, KillGroup, Holds, Active, Starting, Running, Reading,
    Settling, processes, result
<1>1. /\ pc \in Pc /\ answer \in [Runs -> {"none", "ok", "failed", "raised", "interrupted", "orphaned"}]
      /\ stray \in [Runs -> {"no", "alive", "gone"}]
  BY DEF TypeOK, Pc
<1> USE <1>1 DEF Pc
<1>2. CASE Moves(r)
  BY <1>2 DEF Moves, Refuse, WipeFails, SpawnFails, Watch, WaitReturns
<1>3. CASE Kills(r)
  BY <1>3 DEF Kills, Spawn, TimesOut, Reap, Interrupt
<1>4. CASE Wipes(r)
  BY <1>4 DEF Wipes, WipeJson, WipeMd
<1>5. CASE Reads(r)
  BY <1>5 DEF Reads, ReadJson, ReadMd, Credit, Reject, Breaks
<1>6. CASE Settles(r)
  BY <1>6 DEF Settles, AlreadyTorn, Remove, Tombstone, TeardownFails, TeardownBreaks, TornDown
<1>7. CASE Command(r)
  BY <1>7 DEF NoneOutlives, Command, Fork, Exit, LeaveSession, StrayExits, Write
<1> QED
  BY <1>2, <1>3, <1>4, <1>5, <1>6, <1>7 DEF Acts

\* The registry never forgets a job id.
LEMMA StatusGrows ==
  ASSUME TypeOK, NEW r \in Runs, Acts(r)
  PROVE  \A id \in JobIds : status'[id] = "absent" => status[id] = "absent"
<1>1. status \in [JobIds -> {"absent", "allocated", "torn_down"}] /\ wants[r] \in JobIds
  BY DEF TypeOK
<1>2. CASE Allocate(r) \/ Tombstone(r)
  BY <1>1, <1>2 DEF Allocate, Tombstone
<1>3. CASE ~(Allocate(r) \/ Tombstone(r))
  BY <1>3 DEF Acts, Moves, Refuse, WipeFails, SpawnFails, Watch, WaitReturns, Kills, Spawn,
     TimesOut, Reap, Interrupt, Wipes, WipeJson, WipeMd, Reads, ReadJson, ReadMd,
     Credit, Reject, Breaks, Settles, AlreadyTorn, Remove, TeardownFails,
     TeardownBreaks, Command, Fork, Exit, LeaveSession, StrayExits, Write
<1> QED
  BY <1>2, <1>3

LEMMA ActExclusive ==
  ASSUME TypeOK, Ended, NoneOutlives, Exclusive, NEW r \in Runs, Acts(r)
  PROVE  Exclusive'
<1>1. /\ wants \in [Runs -> JobIds] /\ wants' = wants
      /\ status \in [JobIds -> {"absent", "allocated", "torn_down"}]
  BY Params DEF TypeOK
<1>2. \A s \in Runs \ {r} : Holds(s)' <=> Holds(s)
  BY Locals DEF Holds
<1>3. CASE Allocate(r)
  <2>1. status[wants[r]] = "absent" /\ status'[wants[r]] = "allocated"
    BY <1>1, <1>3 DEF Allocate
  <2>2. \A s \in Runs : Holds(s) => wants[s] # wants[r]
    BY <2>1 DEF Exclusive
  <2> QED
    BY <1>1, <1>2, <2>1, <2>2, StatusGrows DEF Exclusive
<1>4. CASE ~Allocate(r)
  BY <1>1, <1>2, <1>4, HoldsBefore, StatusGrows DEF Exclusive
<1> QED
  BY <1>3, <1>4

\* No step of another run touches the tree of a run that has its job.
LEMMA Untouched ==
  ASSUME TypeOK, Ended, NoneOutlives, Exclusive,
         NEW r \in Runs, Acts(r), NEW s \in Runs \ {r}, Holds(s)
  PROVE  /\ json'[wants[s]] = json[wants[s]]
         /\ md'[wants[s]] = md[wants[s]]
         /\ tree'[wants[s]] = tree[wants[s]]
<1>1. wants[r] \in JobIds /\ wants[s] \in JobIds
  BY DEF TypeOK
<1>2. CASE Allocate(r)
  <2>1. wants[s] # wants[r]
    BY <1>2 DEF Allocate, Exclusive
  <2> QED
    BY <1>1, <1>2, <2>1 DEF TypeOK, Allocate
<1>3. CASE Wipes(r) \/ Remove(r) \/ Write(r)
  <2>1. Holds(r)
    BY <1>3 DEF Wipes, WipeJson, WipeMd, Remove, Write, Goto, Holds, Active, Starting, Settling,
       NoneOutlives
  <2>2. wants[s] # wants[r]
    BY <2>1 DEF Exclusive
  <2>3. tree \in [JobIds -> BOOLEAN] /\ json \in [JobIds -> Files \cup {None}]
        /\ md \in [JobIds -> Files \cup {None}]
    BY DEF TypeOK
  <2> QED
    BY <1>1, <1>3, <2>2, <2>3 DEF Wipes, WipeJson, WipeMd, Remove, RemoveTree, Write
<1>4. CASE ~(Allocate(r) \/ Wipes(r) \/ Remove(r) \/ Write(r))
  BY <1>4 DEF Acts, Moves, Refuse, WipeFails, SpawnFails, Watch, WaitReturns, Kills, Spawn,
     TimesOut, Reap, Interrupt, Reads, ReadJson, ReadMd, Credit, Reject, Breaks, Settles,
     AlreadyTorn, Tombstone, TeardownFails, TeardownBreaks, Command, Fork, Exit,
     LeaveSession, StrayExits, disk
<1> QED
  BY <1>2, <1>3, <1>4

-----------------------------------------------------------------------------
(* What a run reads and credits. *)

\* A run that is at work on its files has its job.
LEMMA Writers ==
  ASSUME Ended, NoneOutlives, NEW r \in Runs, group[r] # {} \/ stray[r] = "alive"
  PROVE  Holds(r)
  BY DEF NoneOutlives, Holds, Active

LEMMA ActFresh ==
  ASSUME TypeOK, Ended, NoneOutlives, Exclusive, Fresh, NEW r \in Runs, Acts(r)
  PROVE  Fresh'
<1> USE DEF Starting, Running, Reading
<1>1. /\ UNCHANGED <<wants, command>> /\ wants \in [Runs -> JobIds] /\ wants[r] \in JobIds
      /\ pc \in Pc /\ seen \in [Runs -> [json: Files \cup {None}, md: Files \cup {None}]]
      /\ json \in [JobIds -> Files \cup {None}] /\ md \in [JobIds -> Files \cup {None}]
  BY Params DEF TypeOK, Pc
<1>2. SUFFICES ASSUME NEW s \in Runs, command[s]
      PROVE  /\ pc'[s] \in {"wipe_md", "spawn"} \cup Running \cup Reading => Mine(s, json'[wants[s]])
             /\ pc'[s] \in {"spawn"} \cup Running \cup Reading => Mine(s, md'[wants[s]])
             /\ Mine(s, seen'[s].json)
             /\ Mine(s, seen'[s].md)
  BY <1>1 DEF Fresh, Mine
<1>3. CASE s # r
  <2>1. pc'[s] = pc[s] /\ seen'[s] = seen[s]
    BY <1>3, Locals
  <2>2. CASE pc[s] \in Active
    <3>1. json'[wants[s]] = json[wants[s]] /\ md'[wants[s]] = md[wants[s]]
      BY <1>3, <2>2, Untouched DEF Holds
    <3> QED
      BY <1>2, <2>1, <3>1 DEF Fresh
  <2>3. CASE pc[s] \notin Active
    BY <1>2, <2>1, <2>3 DEF Fresh, Active
  <2> QED
    BY <2>2, <2>3
<1>4. CASE s = r
  <2> USE <1>1, <1>2, <1>4 DEF Goto, Finish, Leave, processes, result, disk, Pc, Fresh
  <2>1. CASE Moves(r)
    BY <2>1 DEF Moves, Refuse, WipeFails, SpawnFails, Watch, WaitReturns
  <2>2. CASE Kills(r)
    BY <2>2 DEF Kills, Spawn, TimesOut, Reap, Interrupt
  <2>3. CASE Allocate(r)
    BY <2>3 DEF Allocate
  <2>4. CASE Wipes(r)
    BY <2>4 DEF Wipes, WipeJson, WipeMd, Mine
  <2>5. CASE ReadJson(r)
    <3>1. seen'[r].md = seen[r].md /\ seen'[r].json \in {json[wants[r]], None}
      BY <2>5 DEF ReadJson
    <3>2. pc[r] = "read" /\ UNCHANGED <<json, md>>
      BY <2>5 DEF ReadJson
    <3> QED
      BY <3>1, <3>2 DEF Mine
  <2>6. CASE ReadMd(r)
    <3>1. seen'[r].md = md[wants[r]] /\ seen'[r].json = seen[r].json
      BY <2>6 DEF ReadMd
    <3> QED
      BY <2>6, <3>1 DEF ReadMd
  <2>7. CASE Credit(r) \/ Reject(r) \/ Breaks(r)
    BY <2>7 DEF Credit, Reject, Breaks
  <2>8. CASE Settles(r)
    BY <2>8 DEF Settles, AlreadyTorn, Remove, Tombstone, TeardownFails, TeardownBreaks, TornDown
  <2>9. CASE Write(r)
    <3>1. PICK file \in [by: {r}, good: BOOLEAN] :
            \/ json' = [json EXCEPT ![wants[r]] = file] /\ UNCHANGED md
            \/ md' = [md EXCEPT ![wants[r]] = file] /\ UNCHANGED json
      BY <2>9 DEF Write
    <3>2. UNCHANGED <<pc, seen>>
      BY <2>9 DEF Write
    <3> QED
      BY <3>1, <3>2 DEF Mine
  <2>10. CASE Fork(r) \/ Exit(r) \/ LeaveSession(r) \/ StrayExits(r)
    BY <2>10 DEF Fork, Exit, LeaveSession, StrayExits
  <2> QED
    BY <2>1, <2>2, <2>3, <2>4, <2>5, <2>6, <2>7, <2>8, <2>9, <2>10 DEF Acts, Reads, Command
<1> QED
  BY <1>3, <1>4

\* A report is set by the verdict on a pair that is there, and the pair that
\* was read does not change after the verdict.
LEMMA ActCredited ==
  ASSUME TypeOK, Credited, Current, NEW r \in Runs, Acts(r)
  PROVE  Credited'
<1>1. /\ pc \in Pc /\ report \in [Runs -> BOOLEAN]
      /\ seen \in [Runs -> [json: Files \cup {None}, md: Files \cup {None}]]
  BY DEF TypeOK, Pc
<1>2. report'[r] => seen'[r].json # None /\ seen'[r].md # None
  <2> USE <1>1 DEF Goto, Finish, Leave, processes, result, Credited, Starting, Running, Pc
  <2>1. CASE Moves(r)
    BY <2>1 DEF Moves, Refuse, WipeFails, SpawnFails, Watch, WaitReturns
  <2>2. CASE Kills(r)
    BY <2>2 DEF Kills, Spawn, TimesOut, Reap, Interrupt
  <2>3. CASE Allocate(r) \/ Wipes(r)
    BY <2>3 DEF Allocate, Wipes, WipeJson, WipeMd
  <2>4. CASE ReadJson(r) \/ ReadMd(r)
    <3>1. ~report[r]
      BY <2>4 DEF ReadJson, ReadMd, Current, Unread
    <3> QED
      BY <2>4, <3>1 DEF ReadJson, ReadMd
  <2>5. CASE Credit(r) \/ Reject(r)
    BY <2>5 DEF Credit, Reject, Valid, Passes
  <2>6. CASE Breaks(r)
    BY <2>6 DEF Breaks
  <2>7. CASE Settles(r)
    BY <2>7 DEF Settles, AlreadyTorn, Remove, Tombstone, TeardownFails, TeardownBreaks, TornDown
  <2>8. CASE Command(r)
    BY <2>8 DEF Command, Fork, Exit, LeaveSession, StrayExits, Write
  <2> QED
    BY <2>1, <2>2, <2>3, <2>4, <2>5, <2>6, <2>7, <2>8 DEF Acts, Reads
<1> QED
  BY <1>2, Locals DEF Credited

LEMMA ActCurrent ==
  ASSUME TypeOK, Ended, NoneOutlives, Exclusive, Current, NEW r \in Runs, Acts(r)
  PROVE  Current'
<1> USE DEF Starting, Running, Reading
<1>1. /\ UNCHANGED wants /\ wants \in [Runs -> JobIds] /\ wants[r] \in JobIds
      /\ pc \in Pc /\ seen \in [Runs -> [json: Files \cup {None}, md: Files \cup {None}]]
      /\ json \in [JobIds -> Files \cup {None}] /\ md \in [JobIds -> Files \cup {None}]
      /\ tree \in [JobIds -> BOOLEAN] /\ stray \in [Runs -> {"no", "alive", "gone"}]
      /\ answer \in [Runs -> {"none", "ok", "failed", "raised", "interrupted", "orphaned"}]
  BY Params DEF TypeOK, Pc
<1> DEFINE Reads1(s) == seen[s].json # None => seen[s].json = json[wants[s]]
           Reads2(s) == seen[s].md # None => seen[s].md = md[wants[s]]
           Now(s) ==
             /\ pc[s] \in {"new", "read"} \cup Starting \cup Running => seen[s] = Unread
             /\ pc[s] = "read_md" => seen[s].md = None
             /\ (pc[s] \in {"read_md", "judge"} \/ answer[s] = "ok") /\ stray[s] = "no" /\ tree[wants[s]]
                  => Reads1(s) /\ Reads2(s)
             /\ answer[s] = "ok" => seen[s].json # None /\ seen[s].md # None
<1>2. \A s \in Runs : Now(s)
  BY DEF Current
<1>3. ASSUME NEW s \in Runs \ {r} PROVE Now(s)'
  <2>1. /\ pc'[s] = pc[s] /\ seen'[s] = seen[s] /\ answer'[s] = answer[s] /\ stray'[s] = stray[s]
    BY Locals
  <2>2. CASE Holds(s)
    BY <1>1, <1>2, <2>1, <2>2, Untouched
  <2>3. CASE ~Holds(s)
    BY <1>1, <1>2, <2>1, <2>3 DEF Holds, Active
  <2> QED
    BY <2>2, <2>3
<1>4. Now(r)'
  <2> USE <1>1, <1>2 DEF Goto, Finish, Leave, processes, result, disk, Pc
  <2>1. CASE Moves(r)
    BY <2>1 DEF Moves, Refuse, WipeFails, SpawnFails, Watch, WaitReturns
  <2>2. CASE Kills(r)
    BY <2>2 DEF Kills, Spawn, TimesOut, Reap, Interrupt
  <2>3. CASE Allocate(r)
    BY <2>3 DEF Allocate, Ended
  <2>4. CASE Wipes(r)
    BY <2>4 DEF Wipes, WipeJson, WipeMd, Ended
  <2>5. CASE ReadJson(r)
    <3>1. seen'[r].md = None /\ seen'[r].json \in {json[wants[r]], None}
      BY <2>5 DEF ReadJson, Unread
    <3>2. pc'[r] \in {"read_md", "judge"} /\ UNCHANGED <<json, md, tree, stray, answer>>
          /\ answer[r] = "none"
      BY <2>5 DEF ReadJson, Ended
    <3> QED
      BY <3>1, <3>2
  <2>6. CASE ReadMd(r)
    <3>1. seen'[r].md = md[wants[r]] /\ seen'[r].json = seen[r].json
      BY <2>6 DEF ReadMd
    <3>2. /\ pc[r] = "read_md" /\ pc'[r] = "judge" /\ UNCHANGED <<json, md, tree, stray, answer>>
          /\ answer[r] = "none"
      BY <2>6 DEF ReadMd, Ended
    <3> QED
      BY <3>1, <3>2
  <2>7. CASE Credit(r) \/ Reject(r) \/ Breaks(r)
    BY <2>7 DEF Credit, Reject, Breaks, Valid, Passes
  <2>8. CASE Settles(r)
    BY <2>8 DEF Settles, AlreadyTorn, Remove, RemoveTree, Tombstone, TeardownFails,
       TeardownBreaks, TornDown, Ended
  <2>9. CASE Command(r)
    <3>1. UNCHANGED <<pc, seen, answer, tree>>
      BY <2>9 DEF Command, Fork, Exit, LeaveSession, StrayExits, Write
    <3>2. stray'[r] = "no" => stray[r] = "no"
      BY <2>9 DEF Command, Fork, Exit, LeaveSession, StrayExits, Write
    <3>3. ASSUME pc[r] \in {"read_md", "judge"} \/ answer[r] = "ok", stray[r] = "no"
          PROVE  UNCHANGED <<json, md>>
      <4>1. group[r] = {}
        BY <3>3 DEF NoneOutlives, Ended
      <4> QED
        BY <2>9, <3>3, <4>1 DEF Command, Fork, Exit, LeaveSession, StrayExits, Write
    <3> QED
      BY <3>1, <3>2, <3>3
  <2> QED
    BY <2>1, <2>2, <2>3, <2>4, <2>5, <2>6, <2>7, <2>8, <2>9 DEF Acts, Reads
<1> QED
  BY <1>3, <1>4 DEF Current

LEMMA ActSettled ==
  ASSUME TypeOK, Ended, FailureIsSettled, NEW r \in Runs, Acts(r)
  PROVE  FailureIsSettled'
<1>1. /\ UNCHANGED <<wants, undo>> /\ wants \in [Runs -> JobIds] /\ wants[r] \in JobIds
      /\ pc \in Pc /\ noted \in [Runs -> BOOLEAN] /\ undo \in [Runs -> BOOLEAN]
      /\ status \in [JobIds -> {"absent", "allocated", "torn_down"}]
      /\ answer \in [Runs -> {"none", "ok", "failed", "raised", "interrupted", "orphaned"}]
  BY Params DEF TypeOK, Pc
<1>2. \A id \in JobIds : status[id] = "torn_down" => status'[id] = "torn_down"
  <2>1. CASE Allocate(r) \/ Tombstone(r)
    BY <1>1, <2>1 DEF Allocate, Tombstone
  <2>2. CASE ~(Allocate(r) \/ Tombstone(r))
    BY <2>2 DEF Acts, Moves, Refuse, WipeFails, SpawnFails, Watch, WaitReturns, Kills, Spawn,
       TimesOut, Reap, Interrupt, Wipes, WipeJson, WipeMd, Reads, ReadJson, ReadMd,
       Credit, Reject, Breaks, Settles, AlreadyTorn, Remove, TeardownFails,
       TeardownBreaks, Command, Fork, Exit, LeaveSession, StrayExits, Write
  <2> QED
    BY <2>1, <2>2
<1>3. undo[r] /\ answer'[r] = "failed" => status'[wants[r]] = "torn_down" \/ noted'[r]
  <2> USE <1>1 DEF Goto, Finish, Leave, processes, result, Pc, FailureIsSettled, Ended
  <2>1. CASE Moves(r)
    BY <2>1 DEF Moves, Refuse, WipeFails, SpawnFails, Watch, WaitReturns
  <2>2. CASE Kills(r)
    BY <2>2 DEF Kills, Spawn, TimesOut, Reap, Interrupt
  <2>3. CASE Allocate(r) \/ Wipes(r)
    BY <1>2, <2>3 DEF Allocate, Wipes, WipeJson, WipeMd
  <2>4. CASE Reads(r)
    BY <2>4 DEF Reads, ReadJson, ReadMd, Credit, Reject, Breaks
  <2>5. CASE Settles(r)
    BY <2>5 DEF Settles, AlreadyTorn, Remove, Tombstone, TeardownFails, TeardownBreaks, TornDown
  <2>6. CASE Command(r)
    BY <2>6 DEF Command, Fork, Exit, LeaveSession, StrayExits, Write
  <2> QED
    BY <2>1, <2>2, <2>3, <2>4, <2>5, <2>6 DEF Acts
<1> QED
  BY <1>1, <1>2, <1>3, Locals DEF FailureIsSettled

LEMMA OthersIInv ==
  ASSUME IInv, NEW id \in JobIds, OthersTearDown(id)
  PROVE  IInv'
<1> USE DEF OthersTearDown, RemoveTree, params, processes, result
<1>1. TypeOK'
  BY DEF IInv, TypeOK
<1>2. Ended' /\ Exclusive' /\ NoneOutlives' /\ Credited' /\ FailureIsSettled'
  BY DEF IInv, TypeOK, Ended, Exclusive, Holds, NoneOutlives, Credited, FailureIsSettled
<1>3. Fresh' /\ Current'
  <2>1. /\ \A i \in JobIds : json'[i] \in {None, json[i]} /\ md'[i] \in {None, md[i]}
        /\ \A i \in JobIds : tree'[i] => tree[i] /\ json'[i] = json[i] /\ md'[i] = md[i]
    BY DEF IInv, TypeOK
  <2>2. wants \in [Runs -> JobIds] /\ UNCHANGED <<wants, command, pc, seen, answer, stray>>
    BY DEF IInv, TypeOK
  <2> HIDE DEF OthersTearDown, RemoveTree
  <2>3. Fresh'
    BY <2>1, <2>2 DEF IInv, Fresh, Mine
  <2>4. Current'
    BY <2>1, <2>2 DEF IInv, Current
  <2> QED
    BY <2>3, <2>4
<1> QED
  BY <1>1, <1>2, <1>3 DEF IInv

LEMMA NextIInv == IInv /\ [Next]_vars => IInv'
<1> SUFFICES ASSUME IInv, [Next]_vars PROVE IInv'
  OBVIOUS
<1>1. ASSUME NEW r \in Runs, Acts(r) PROVE IInv'
  BY <1>1, ActTypeOK, ActEnded, ActOutlives, ActExclusive, ActFresh, ActCredited, ActCurrent,
     ActSettled DEF IInv
<1>2. CASE UNCHANGED vars
  BY <1>2 DEF IInv, vars, params, processes, result, disk, TypeOK, Ended, Exclusive, Holds,
     NoneOutlives, Fresh, Mine, Credited, Current, FailureIsSettled
<1> QED
  BY <1>1, <1>2, NextCases, OthersIInv

LEMMA Invariance == Spec => []IInv
  BY InitIInv, NextIInv, PTL DEF Spec

-----------------------------------------------------------------------------
(* Theorems *)

\* Every variable keeps its type, for any runs and job ids.
THEOREM RunTypes == Spec => []TypeOK
  BY Invariance, PTL DEF IInv

\* A report that a run with a command returns is its command's own.
THEOREM ReportsAreOwn == Spec => []CreditedIsOwn
<1>1. IInv => CreditedIsOwn
  BY DEF IInv, Fresh, Credited, CreditedIsOwn, Mine
<1> QED
  BY <1>1, Invariance, PTL

\* Nothing of the command's group is left when a run reads, tears down or ends.
THEOREM GroupsEnd == Spec => []NoneOutlives
  BY Invariance, PTL DEF IInv

\* The pair a successful run has credited stays the pair in the worktree.
THEOREM PairsStand == Spec => []ReportedPairStands
<1>1. IInv => ReportedPairStands
  <2> SUFFICES ASSUME IInv, NEW r \in Runs, answer[r] = "ok", stray[r] = "no", tree[wants[r]]
               PROVE  seen[r] = [json |-> json[wants[r]], md |-> md[wants[r]]]
    BY DEF ReportedPairStands
  <2>1. seen[r].json = json[wants[r]] /\ seen[r].md = md[wants[r]]
    BY DEF IInv, Current
  <2>2. seen[r] \in [json: Files \cup {None}, md: Files \cup {None}]
    BY DEF IInv, TypeOK
  <2> QED
    BY <2>1, <2>2
<1> QED
  BY <1>1, Invariance, PTL

\* A failed run that was to tear down has done so or says that it has not.
THEOREM FailuresSettled == Spec => []FailureIsSettled
  BY Invariance, PTL DEF IInv


-----------------------------------------------------------------------------
(* The collector of Aggregate.  First, what a run leaves in its worktree.   *)

\* Past the wipe nobody but its command has written the pair, also while the
\* job is torn down and afterwards.
Left ==
  \A r \in Runs :
    command[r] /\ ((pc[r] \in Settling /\ mode[r] # "raise") \/ answer[r] \in {"ok", "failed"})
      => Mine(r, json[wants[r]]) /\ Mine(r, md[wants[r]])

Passed == \A r \in Runs : answer[r] = "ok" => Valid(r)

LEMMA ModeStays ==
  ASSUME TypeOK, NEW r \in Runs, Acts(r), NEW s \in Runs \ {r}
  PROVE  mode'[s] = mode[s]
<1>1. CASE Moves(r)
  BY <1>1 DEF Leave, Moves, Refuse, WipeFails, SpawnFails, Watch, WaitReturns, TypeOK
<1>2. CASE Kills(r)
  BY <1>2 DEF Leave, Kills, Spawn, TimesOut, Reap, Interrupt, TypeOK
<1>3. CASE Allocate(r) \/ Wipes(r)
  BY <1>3 DEF Allocate, Wipes, WipeJson, WipeMd
<1>4. CASE Reads(r)
  BY <1>4 DEF Leave, Reads, ReadJson, ReadMd, Credit, Reject, Breaks, TypeOK
<1>5. CASE Settles(r)
  BY <1>5 DEF Settles, AlreadyTorn, Remove, Tombstone, TeardownFails, TeardownBreaks, TypeOK
<1>6. CASE Command(r)
  BY <1>6 DEF Command, Fork, Exit, LeaveSession, StrayExits, Write
<1> QED
  BY <1>1, <1>2, <1>3, <1>4, <1>5, <1>6 DEF Acts

LEMMA ActLeft ==
  ASSUME IInv, Left, NEW r \in Runs, Acts(r)
  PROVE  Left'
<1> USE DEF IInv, Starting, Running, Reading
<1>1. /\ UNCHANGED <<wants, command>> /\ wants \in [Runs -> JobIds] /\ wants[r] \in JobIds
      /\ pc \in Pc /\ mode \in [Runs -> {"try", "again", "raise"}]
      /\ json \in [JobIds -> Files \cup {None}] /\ md \in [JobIds -> Files \cup {None}]
      /\ answer \in [Runs -> {"none", "ok", "failed", "raised", "interrupted", "orphaned"}]
  BY Params DEF TypeOK, Pc
<1>2. SUFFICES ASSUME NEW s \in Runs, command[s],
                      \/ pc'[s] \in Settling /\ mode'[s] # "raise"
                      \/ answer'[s] \in {"ok", "failed"}
      PROVE  Mine(s, json'[wants[s]]) /\ Mine(s, md'[wants[s]])
  BY <1>1 DEF Left, Mine
<1>3. CASE s # r
  <2>1. pc'[s] = pc[s] /\ answer'[s] = answer[s] /\ mode'[s] = mode[s]
    BY <1>3, Locals, ModeStays
  <2>2. Holds(s)
    BY <1>2, <2>1 DEF Holds, Active
  <2> QED
    BY <1>2, <1>3, <2>1, <2>2, Untouched DEF Left
<1>4. CASE s = r
  <2> USE <1>1, <1>2, <1>4 DEF Goto, Finish, Leave, processes, result, disk, Pc, Ended, Settling
  <2>1. CASE Moves(r)
    BY <2>1 DEF Moves, Refuse, WipeFails, SpawnFails, Watch, WaitReturns, Fresh, Left
  <2>2. CASE Kills(r)
    BY <2>2 DEF Kills, Spawn, TimesOut, Reap, Interrupt, Fresh, Left
  <2>3. CASE Allocate(r)
    BY <2>3 DEF Allocate
  <2>4. CASE Wipes(r)
    BY <2>4 DEF Wipes, WipeJson, WipeMd
  <2>5. CASE Reads(r)
    BY <2>5 DEF Reads, ReadJson, ReadMd, Credit, Reject, Breaks, Fresh, Left
  <2>6. CASE Remove(r)
    BY <2>6 DEF Remove, RemoveTree, Mine
  <2>7. CASE AlreadyTorn(r) \/ Tombstone(r) \/ TeardownFails(r) \/ TeardownBreaks(r)
    BY <2>7 DEF AlreadyTorn, Tombstone, TeardownFails, TeardownBreaks, TornDown, Left
  <2>8. CASE Write(r)
    <3>1. PICK file \in [by: {r}, good: BOOLEAN] :
            \/ json' = [json EXCEPT ![wants[r]] = file] /\ UNCHANGED md
            \/ md' = [md EXCEPT ![wants[r]] = file] /\ UNCHANGED json
      BY <2>8 DEF Write
    <3>2. UNCHANGED <<pc, mode, answer>>
      BY <2>8 DEF Write
    <3>3. Mine(r, json[wants[r]]) /\ Mine(r, md[wants[r]])
      BY <3>2 DEF Left
    <3> QED
      BY <3>1, <3>3 DEF Mine
  <2>9. CASE Fork(r) \/ Exit(r) \/ LeaveSession(r) \/ StrayExits(r)
    BY <2>9 DEF Fork, Exit, LeaveSession, StrayExits, Left
  <2> QED
    BY <2>1, <2>2, <2>3, <2>4, <2>5, <2>6, <2>7, <2>8, <2>9 DEF Acts, Settles, Command
<1> QED
  BY <1>3, <1>4

LEMMA ActPassed ==
  ASSUME IInv, Passed, NEW r \in Runs, Acts(r)
  PROVE  Passed'
<1>1. /\ pc \in Pc /\ Ended
      /\ answer \in [Runs -> {"none", "ok", "failed", "raised", "interrupted", "orphaned"}]
  BY DEF IInv, TypeOK, Pc
<1>2. answer'[r] = "ok" => Valid(r)'
  <2> USE <1>1 DEF Goto, Finish, Leave, processes, result, Pc, Ended, Passed, Valid
  <2>1. CASE Moves(r)
    BY <2>1 DEF Moves, Refuse, WipeFails, SpawnFails, Watch, WaitReturns
  <2>2. CASE Kills(r)
    BY <2>2 DEF Kills, Spawn, TimesOut, Reap, Interrupt
  <2>3. CASE Allocate(r) \/ Wipes(r)
    BY <2>3 DEF Allocate, Wipes, WipeJson, WipeMd
  <2>4. CASE Reads(r)
    BY <2>4 DEF Reads, ReadJson, ReadMd, Credit, Reject, Breaks
  <2>5. CASE Settles(r)
    BY <2>5 DEF Settles, AlreadyTorn, Remove, Tombstone, TeardownFails, TeardownBreaks, TornDown
  <2>6. CASE Command(r)
    BY <2>6 DEF Command, Fork, Exit, LeaveSession, StrayExits, Write
  <2> QED
    BY <2>1, <2>2, <2>3, <2>4, <2>5, <2>6 DEF Acts
<1> QED
  BY <1>2, Locals DEF Passed, Valid, IInv

LEMMA OthersLeft ==
  ASSUME IInv, Left, Passed, NEW id \in JobIds, OthersTearDown(id)
  PROVE  Left' /\ Passed'
<1>1. \A i \in JobIds : json'[i] \in {None, json[i]} /\ md'[i] \in {None, md[i]}
  BY DEF OthersTearDown, RemoveTree, IInv, TypeOK
<1>2. wants \in [Runs -> JobIds] /\ UNCHANGED <<wants, command, pc, mode, answer, seen>>
  BY DEF OthersTearDown, params, processes, result, IInv, TypeOK
<1> QED
  BY <1>1, <1>2 DEF Left, Mine, Passed, Valid

-----------------------------------------------------------------------------
(* What the collector has read is what the run has left. *)

\* It comes after every run.
After == step # "idle" => unit \in Runs /\ \A r \in Runs : pc[r] = "done"

TakenIsLeft ==
  /\ step \in {"idle", "load"} => pair = Unread
  /\ step # "done" => ~kept
  /\ step = "load_md" => pair.md = None
  /\ kept => pair.json # None /\ pair.md # None
  /\ step # "idle" /\ command[unit] /\ answer[unit] \in {"ok", "failed"}
       => Mine(unit, pair.json) /\ Mine(unit, pair.md)

\* The unit of a successful run whose worktree stands undisturbed.
Undisturbed == answer[unit] = "ok" /\ stray[unit] = "no" /\ tree[wants[unit]]

TakenIsSeen ==
  Undisturbed =>
    /\ step = "load_md" => pair.json = seen[unit].json
    /\ step \in {"judge", "done"} => pair = seen[unit]
    /\ step = "done" => kept /\ outcome \in {"reported", "timeout"}

BatchIInv == IInv /\ Left /\ Passed /\ CollectorTypeOK /\ After /\ TakenIsLeft /\ TakenIsSeen

LEMMA BatchStarts == BatchInit => BatchIInv
<1> SUFFICES ASSUME BatchInit PROVE BatchIInv
  OBVIOUS
<1>1. IInv
  BY InitIInv DEF BatchInit
<1>2. Left /\ Passed
  BY DEF BatchInit, Init, Left, Passed, Settling
<1>3. CollectorTypeOK /\ After /\ TakenIsLeft /\ TakenIsSeen
  BY DEF BatchInit, CollectorInit, CollectorTypeOK, After, TakenIsLeft, TakenIsSeen, Unread
<1> QED
  BY <1>1, <1>2, <1>3 DEF BatchIInv

LEMMA BatchCases ==
  ASSUME [BatchNext]_<<vars, collector>>
  PROVE  \/ \E r \in Runs : Acts(r) /\ UNCHANGED collector
         \/ \E id \in JobIds : OthersTearDown(id) /\ UNCHANGED collector
         \/ Collect
         \/ UNCHANGED <<vars, collector>>
  BY DEF BatchNext, Step, Acts, Moves, Kills, Wipes, Reads, Settles

LEMMA BatchIsRuns == [BatchNext]_<<vars, collector>> => [Next]_vars
  BY DEF BatchNext, Next, Collect, Look, Load, LoadMd, Judge

LEMMA LeftKept ==
  ASSUME IInv, Left, Passed, [BatchNext]_<<vars, collector>>
  PROVE  Left' /\ Passed'
<1>1. CASE UNCHANGED vars
  BY <1>1 DEF vars, params, result, disk, Left, Mine, Passed, Valid
<1>2. Collect => UNCHANGED vars
  BY DEF Collect, Look, Load, LoadMd, Judge
<1> QED
  BY <1>1, <1>2, BatchCases, ActLeft, ActPassed, OthersLeft

\* Once the collector is at work nothing that it compares with changes, but
\* that a tree may go and a descendant be found to have left.
LEMMA RunsAreOver ==
  ASSUME BatchIInv, step # "idle",
         \/ \E r \in Runs : Acts(r)
         \/ \E id \in JobIds : OthersTearDown(id)
  PROVE  /\ UNCHANGED <<wants, command, pc, answer, seen>>
         /\ stray'[unit] = "no" => stray[unit] = "no"
         /\ tree'[wants[unit]] => tree[wants[unit]]
<1>1. unit \in Runs /\ (\A r \in Runs : pc[r] = "done") /\ wants[unit] \in JobIds
  BY DEF BatchIInv, After, IInv, TypeOK
<1>2. ASSUME NEW r \in Runs, Acts(r)
      PROVE  Command(r)
  BY <1>1, <1>2 DEF Acts, Moves, Refuse, WipeFails, SpawnFails, Watch, WaitReturns, Kills, Spawn,
     TimesOut, Reap, Interrupt, Allocate, Wipes, WipeJson, WipeMd, Reads, ReadJson, ReadMd,
     Credit, Reject, Breaks, Settles, AlreadyTorn, Remove, Tombstone, TeardownFails,
     TeardownBreaks, Goto, Active, Starting, Running, Reading, Settling
<1>3. ASSUME NEW r \in Runs, Command(r)
      PROVE  /\ UNCHANGED <<wants, command, pc, answer, seen, tree>>
             /\ stray'[unit] = "no" => stray[unit] = "no"
  BY <1>1, <1>3 DEF BatchIInv, IInv, TypeOK, Command, Fork, Exit, LeaveSession, StrayExits, Write,
     params, processes, result, disk
<1>4. ASSUME NEW id \in JobIds, OthersTearDown(id)
      PROVE  /\ UNCHANGED <<wants, command, pc, answer, seen, stray>>
             /\ tree'[wants[unit]] => tree[wants[unit]]
  BY <1>1, <1>4 DEF BatchIInv, IInv, TypeOK, OthersTearDown, RemoveTree, params, processes, result
<1> QED
  BY <1>2, <1>3, <1>4

LEMMA RunsKeepTaken ==
  ASSUME BatchIInv, UNCHANGED collector,
         \/ \E r \in Runs : Acts(r)
         \/ \E id \in JobIds : OthersTearDown(id)
  PROVE  (CollectorTypeOK /\ After /\ TakenIsLeft /\ TakenIsSeen)'
<1>1. UNCHANGED <<unit, step, pair, outcome, kept>>
  BY DEF collector
<1>2. CollectorTypeOK'
  BY <1>1 DEF BatchIInv, CollectorTypeOK
<1>3. CASE step = "idle"
  <2>1. pair = Unread /\ ~kept
    BY <1>3 DEF BatchIInv, TakenIsLeft
  <2>2. After' /\ TakenIsSeen'
    BY <1>1, <1>3 DEF After, TakenIsSeen
  <2>3. TakenIsLeft'
    BY <1>1, <1>3, <2>1 DEF TakenIsLeft, Unread
  <2> QED
    BY <1>2, <2>2, <2>3
<1>4. CASE step # "idle"
  <2>1. /\ UNCHANGED <<wants, command, pc, answer, seen>>
        /\ Undisturbed' => Undisturbed
    BY <1>1, <1>4, RunsAreOver DEF Undisturbed
  <2>2. After'
    BY <1>1, <2>1 DEF BatchIInv, After
  <2>3. TakenIsLeft'
    BY <1>1, <2>1 DEF BatchIInv, TakenIsLeft, Mine, Unread
  <2>4. TakenIsSeen'
    BY <1>1, <2>1 DEF BatchIInv, TakenIsSeen
  <2> QED
    BY <1>2, <2>2, <2>3, <2>4
<1> QED
  BY <1>3, <1>4

\* What the collector finds of an undisturbed unit: the pair of its run.
LEMMA PairStands ==
  ASSUME BatchIInv, unit \in Runs, Undisturbed
  PROVE  /\ json[wants[unit]] = seen[unit].json /\ md[wants[unit]] = seen[unit].md
         /\ Passes(seen[unit].json) /\ Passes(seen[unit].md)
  BY DEF BatchIInv, IInv, Current, Undisturbed, Passed, Valid

LEMMA CollectorKept ==
  ASSUME BatchIInv, Collect
  PROVE  (CollectorTypeOK /\ After /\ TakenIsLeft /\ TakenIsSeen)'
<1>1. UNCHANGED <<vars, wants, command, pc, stray, seen, answer, tree, json, md>>
  BY DEF Collect, Look, Load, LoadMd, Judge, vars, params, processes, result, disk
<1>2. /\ wants \in [Runs -> JobIds] /\ json \in [JobIds -> Files \cup {None}]
      /\ md \in [JobIds -> Files \cup {None}]
  BY DEF BatchIInv, IInv, TypeOK
<1>3. CASE \E r \in Runs : Look(r)
  <2>1. PICK r \in Runs : Look(r)
    BY <1>3
  <2>2. /\ step = "idle" /\ unit' = r /\ \A q \in Runs : pc[q] = "done"
        /\ UNCHANGED <<pair, kept>> /\ step' \in {"load", "done"} /\ pair = Unread /\ ~kept
    BY <2>1 DEF Look, Advance, BatchIInv, TakenIsLeft
  <2>3. CollectorTypeOK'
    BY <2>1, <2>2 DEF Look, Advance, BatchIInv, CollectorTypeOK, Disposed, Outcomes
  <2>4. After'
    BY <1>1, <2>2 DEF After
  <2>5. TakenIsLeft'
    BY <1>1, <2>2 DEF TakenIsLeft, Mine, Unread
  <2>6. TakenIsSeen'
    <3>1. SUFFICES ASSUME Undisturbed' PROVE step' = "load"
      BY DEF TakenIsSeen
    <3>2. /\ seen[r].json # None /\ seen[r].md # None
          /\ json[wants[r]] = seen[r].json /\ md[wants[r]] = seen[r].md
      BY <1>1, <2>2, <3>1 DEF Undisturbed, BatchIInv, IInv, Current
    <3> QED
      BY <2>1, <2>2, <3>2 DEF Look, There, Advance
  <2> QED
    BY <2>3, <2>4, <2>5, <2>6
<1>4. CASE Load
  <2>1. /\ step = "load" /\ step' \in {"load_md", "judge"} /\ unit' = unit /\ unit \in Runs
        /\ UNCHANGED <<outcome, kept>> /\ pair = Unread /\ ~kept
    BY <1>4 DEF Load, Advance, BatchIInv, TakenIsLeft, After
  <2>2. pair'.md = None /\ pair'.json \in {json[wants[unit]], None}
        /\ pair' \in [json: Files \cup {None}, md: Files \cup {None}]
    BY <1>2, <1>4, <2>1 DEF Load, Unread
  <2>3. CollectorTypeOK' /\ After'
    BY <1>1, <2>1, <2>2 DEF BatchIInv, CollectorTypeOK, After
  <2>4. TakenIsLeft'
    BY <1>1, <2>1, <2>2 DEF BatchIInv, TakenIsLeft, Left, Mine
  <2>5. TakenIsSeen'
    <3>1. SUFFICES ASSUME Undisturbed PROVE step' = "load_md" /\ pair'.json = seen[unit].json
      BY <1>1, <2>1 DEF TakenIsSeen, Undisturbed
    <3>2. There
      BY <2>1, <3>1, PairStands DEF There, Passes
    <3> QED
      BY <1>4, <2>1, <3>1, <3>2, PairStands DEF Load, Advance, Unread
  <2> QED
    BY <2>3, <2>4, <2>5
<1>5. CASE LoadMd
  <2>1. /\ step = "load_md" /\ step' = "judge" /\ unit' = unit /\ unit \in Runs
        /\ UNCHANGED <<outcome, kept>> /\ ~kept
    BY <1>5 DEF LoadMd, Advance, BatchIInv, TakenIsLeft, After
  <2>2. /\ pair \in [json: Files \cup {None}, md: Files \cup {None}]
        /\ md[wants[unit]] \in Files \cup {None}
    BY <1>2, <2>1 DEF BatchIInv, CollectorTypeOK
  <2>3. pair' = [json |-> pair.json, md |-> md[wants[unit]]]
    BY <1>5, <2>1, <2>2 DEF LoadMd
  <2>4. CollectorTypeOK' /\ After'
    BY <1>1, <2>1, <2>2, <2>3 DEF BatchIInv, CollectorTypeOK, After
  <2>5. TakenIsLeft'
    BY <1>1, <2>1, <2>3 DEF BatchIInv, TakenIsLeft, Left, Mine
  <2>6. TakenIsSeen'
    <3>1. SUFFICES ASSUME Undisturbed PROVE pair' = seen[unit]
      BY <1>1, <2>1 DEF TakenIsSeen, Undisturbed
    <3>2. pair.json = seen[unit].json /\ md[wants[unit]] = seen[unit].md
      BY <2>1, <3>1, PairStands DEF BatchIInv, TakenIsSeen
    <3>3. seen[unit] \in [json: Files \cup {None}, md: Files \cup {None}]
      BY <2>1 DEF BatchIInv, IInv, TypeOK
    <3> QED
      BY <2>3, <3>2, <3>3
  <2> QED
    BY <2>4, <2>5, <2>6
<1>6. CASE Judge
  <2>1. /\ step = "judge" /\ step' = "done" /\ unit' = unit /\ unit \in Runs /\ pair' = pair
        /\ kept' \in BOOLEAN
    BY <1>6 DEF Judge, Advance, BatchIInv, After
  <2>2. outcome' \in Outcomes
    BY <1>6 DEF Judge, Disposed, Outcomes
  <2>3. CollectorTypeOK' /\ After'
    BY <1>1, <2>1, <2>2 DEF BatchIInv, CollectorTypeOK, After
  <2>4. TakenIsLeft'
    BY <1>1, <1>6, <2>1 DEF Judge, MayPass, Passes, BatchIInv, TakenIsLeft, Mine
  <2>5. TakenIsSeen'
    <3>1. SUFFICES ASSUME Undisturbed
                   PROVE  pair = seen[unit] /\ kept' /\ outcome' \in {"reported", "timeout"}
      BY <1>1, <2>1 DEF TakenIsSeen, Undisturbed
    <3>2. pair = seen[unit]
      BY <2>1, <3>1 DEF BatchIInv, TakenIsSeen
    <3>3. Passes(pair.json) /\ Passes(pair.md)
      BY <2>1, <3>1, <3>2, PairStands
    <3> QED
      BY <1>6, <3>2, <3>3 DEF Judge, MayFail, Disposed
  <2> QED
    BY <2>3, <2>4, <2>5
<1> QED
  BY <1>3, <1>4, <1>5, <1>6 DEF Collect

LEMMA BatchStep == BatchIInv /\ [BatchNext]_<<vars, collector>> => BatchIInv'
<1> SUFFICES ASSUME BatchIInv, [BatchNext]_<<vars, collector>> PROVE BatchIInv'
  OBVIOUS
<1>1. IInv'
  BY BatchIsRuns, NextIInv DEF BatchIInv
<1>2. Left' /\ Passed'
  BY LeftKept DEF BatchIInv
<1>3. (CollectorTypeOK /\ After /\ TakenIsLeft /\ TakenIsSeen)'
  <2>1. CASE UNCHANGED <<vars, collector>>
    BY <2>1 DEF BatchIInv, vars, params, processes, result, disk, collector, CollectorTypeOK,
       After, TakenIsLeft, TakenIsSeen, Undisturbed, Mine
  <2> QED
    BY <2>1, BatchCases, RunsKeepTaken, CollectorKept
<1> QED
  BY <1>1, <1>2, <1>3 DEF BatchIInv

LEMMA BatchAlways == BatchSpec => []BatchIInv
  BY BatchStarts, BatchStep, PTL DEF BatchSpec

\* The report of a unit whose run has come back was written by that run's
\* command, and what a successful run has credited is found again
\* (aggregate.py:180-202), for any runs and job ids.
THEOREM UnitsAgreeWithRuns == BatchSpec => []UnitAgreesWithRun
<1>1. BatchIInv => UnitIsOwn
  BY DEF BatchIInv, TakenIsLeft, CollectorTypeOK, UnitIsOwn, Mine
<1>2. BatchIInv => OkIsReported
  BY DEF BatchIInv, TakenIsSeen, Undisturbed, OkIsReported
<1> QED
  BY <1>1, <1>2, BatchAlways, PTL DEF UnitAgreesWithRun

=============================================================================
